---------------------------- MODULE LabBookProofs ----------------------------
(***************************************************************************)
(* The book of a lab arm, for every number of coins, hand sessions, marks  *)
(* and limits: the limit of open positions, the finality of a failure, and *)
(* the balance of cash and positions.                                      *)
(*                                                                         *)
(* Three copies of the book are related by LabInv: the committed rows, the *)
(* rows flushed under the lock, and each session's objects as they are and *)
(* as they were loaded.  A flush writes what differs between the last two, *)
(* so the lemmas say what Apply does to each column, the operations are    *)
(* moves of one position with the cash it accounts for, and the sum over   *)
(* the positions changes by that one summand.                              *)
(***************************************************************************)
EXTENDS LabBook, FiniteSetTheorems, TLAPS

-----------------------------------------------------------------------------
(* Sums over finite sets.                                                  *)

\* A property of every set all of whose smaller subsets have it holds of every finite
\* set.  The property is given as the set Q of those that have it, so no operator has
\* to be instantiated; a counterexample would have a minimal one.
LEMMA SetInduction ==
  ASSUME NEW S, IsFiniteSet(S), NEW Q,
         \A T \in SUBSET S : (\A U \in SUBSET T : U # T => U \in Q) => T \in Q
  PROVE  S \in Q
<1> DEFINE B == {T \in SUBSET S : T \notin Q}
<1> SUFFICES ASSUME S \notin Q PROVE FALSE
  OBVIOUS
<1>1. IsWellFoundedOn(StrictSubsetOrdering(S), FiniteSubsetsOf(S))
  BY FS_StrictSubsetOrderingWellFounded
<1>2. B \subseteq FiniteSubsetsOf(S) /\ B # {}
  BY FS_FiniteSubsetsOfFinite
<1> HIDE DEF B
<1>3. PICK T \in B : \A U \in B : <<U, T>> \notin StrictSubsetOrdering(S)
  BY <1>1, <1>2, WFMin
<1>4. \A U \in SUBSET T : U # T => U \in Q
  BY <1>3 DEF B, StrictSubsetOrdering
<1> QED
  BY <1>3, <1>4 DEF B

\* The element that a sum takes first.
Chosen(s) == CHOOSE x \in s : TRUE

\* F holds the sum of f over each of the sets in D.
Sums(F, f, D) ==
    /\ F \in [D -> Int]
    /\ \A s \in D : F[s] = IF s = {} THEN 0 ELSE f[Chosen(s)] + F[s \ {Chosen(s)}]

\* Two sums agree where their summands do.
LEMMA SumsAgree ==
  ASSUME NEW S, IsFiniteSet(S), NEW f, NEW g, NEW F, NEW G, NEW D, NEW E,
         SUBSET S \subseteq D, SUBSET S \subseteq E, Sums(F, f, D), Sums(G, g, E),
         \A x \in S : f[x] = g[x]
  PROVE  F[S] = G[S]
<1> DEFINE Q == {T \in SUBSET S : F[T] = G[T]}
<1>1. ASSUME NEW T \in SUBSET S, \A U \in SUBSET T : U # T => U \in Q
      PROVE  T \in Q
  <2>1. CASE T = {}
    BY <2>1 DEF Sums
  <2>2. CASE T # {}
    <3>1. Chosen(T) \in T
      BY <2>2 DEF Chosen
    <3>2. T \ {Chosen(T)} \in Q
      BY <3>1, <1>1
    <3> QED
      BY <2>2, <3>1, <3>2 DEF Sums
  <2> QED
    BY <2>1, <2>2
<1> HIDE DEF Q
<1>2. S \in Q
  BY <1>1, SetInduction
<1> QED
  BY <1>2 DEF Q

\* The sums over all the subsets of a finite set exist.
LEMMA SumsExist ==
  ASSUME NEW S, IsFiniteSet(S), NEW f, \A x \in S : f[x] \in Int
  PROVE  \E F : Sums(F, f, SUBSET S)
<1> DEFINE Q == {T \in SUBSET S : \E F : Sums(F, f, SUBSET T)}
<1>1. ASSUME NEW T \in SUBSET S, \A U \in SUBSET T : U # T => U \in Q
      PROVE  T \in Q
  <2> DEFINE G(U) == CHOOSE F : Sums(F, f, SUBSET U)
  <2> DEFINE D == (SUBSET T) \ {T}
  <2>1. ASSUME NEW U \in D PROVE Sums(G(U), f, SUBSET U)
    BY <1>1
  <2> DEFINE H == [U \in D |-> G(U)[U]]
  <2> HIDE DEF G
  <2>2. \A U \in D : H[U] \in Int
    BY <2>1 DEF Sums
  <2>3. ASSUME NEW U \in D, U # {} PROVE H[U] = f[Chosen(U)] + H[U \ {Chosen(U)}]
    <3>1. Chosen(U) \in U 
      BY <2>3 DEF Chosen
    <3> DEFINE V == U \ {Chosen(U)}
    <3>2. V \in D /\ V \in SUBSET U /\ SUBSET V \subseteq SUBSET U /\ V \in SUBSET S
      BY <3>1
    <3>3. IsFiniteSet(V)
      BY <3>2, FS_Subset
    <3> HIDE DEF V
    <3>4. Sums(G(V), f, SUBSET V) /\ Sums(G(U), f, SUBSET U)
      BY <3>2, <2>1
    <3>5. G(V)[V] = G(U)[V]
      BY <3>2, <3>3, <3>4, SumsAgree
    <3>6. G(U)[U] = f[Chosen(U)] + G(U)[V]
      BY <2>1, <2>3 DEF Sums, V
    <3> QED
      BY <3>2, <3>5, <3>6 DEF V
  <2>4. {} \in D => H[{}] = 0
    BY <2>1 DEF Sums
  <2> DEFINE top == IF T = {} THEN 0 ELSE f[Chosen(T)] + H[T \ {Chosen(T)}]
  <2>5. T # {} => T \ {Chosen(T)} \in D /\ Chosen(T) \in S
    BY DEF Chosen
  <2>6. top \in Int
    <3>1. CASE T = {}
      BY <3>1
    <3>2. CASE T # {}
      <4>1. H[T \ {Chosen(T)}] \in Int /\ f[Chosen(T)] \in Int
        BY <2>2, <2>5, <3>2
      <4> HIDE DEF H
      <4> QED
        BY <3>2, <4>1
    <3> QED
      BY <3>1, <3>2
  <2> DEFINE K == [U \in SUBSET T |-> IF U = T THEN top ELSE H[U]]
  <2> HIDE DEF H, top
  <2>7. K \in [SUBSET T -> Int]
    BY <2>2, <2>6
  <2>8. ASSUME NEW U \in SUBSET T 
        PROVE K[U] = IF U = {} THEN 0 ELSE f[Chosen(U)] + K[U \ {Chosen(U)}]
    <3>1. CASE U = T
      BY <3>1, <2>5 DEF top
    <3>2. CASE U # T
      <4>1. CASE U = {}
        BY <3>2, <4>1, <2>4
      <4>2. CASE U # {}
        <5>1. Chosen(U) \in U 
          BY <4>2 DEF Chosen
        <5>2. U \ {Chosen(U)} \in SUBSET T /\ U \ {Chosen(U)} # T
          BY <5>1
        <5> QED
          BY <3>2, <4>2, <2>3, <5>2
      <4> QED
        BY <4>1, <4>2
    <3> QED
      BY <3>1, <3>2
  <2> HIDE DEF K
  <2>9. Sums(K, f, SUBSET T)
    BY <2>7, <2>8 DEF Sums
  <2> QED
    BY <2>9
<1> HIDE DEF Q
<1>2. S \in Q
  BY <1>1, SetInduction
<1> QED
  BY <1>2 DEF Q

\* SumFunctionOnSet is such a sum: the recursive function that it is defined by exists.
LEMMA SumIsSums ==
  ASSUME NEW S, IsFiniteSet(S), NEW f, \A x \in S : f[x] \in Int
  PROVE  \E F : Sums(F, f, SUBSET S) /\ SumFunctionOnSet(f, S) = F[S]
<1> DEFINE Iter(iter) == iter = [s \in SUBSET S |->
                 IF s = {} THEN 0 
                 ELSE f[CHOOSE x \in s : TRUE] + iter[s \ {CHOOSE x \in s : TRUE}]]
<1>1. SumFunctionOnSet(f, S) = (CHOOSE iter : Iter(iter))[S]
  BY Zenon DEF SumFunctionOnSet, FoldFunctionOnSet, MapThenFoldSet
<1>2. PICK F : Sums(F, f, SUBSET S)
  BY SumsExist
<1>3. Iter(F)
  BY <1>2 DEF Sums, Chosen
<1> DEFINE I == CHOOSE iter : Iter(iter)
<1>4. Iter(I)
  BY <1>3
<1>5. \A s \in SUBSET S : I[s] = IF s = {} THEN 0 ELSE f[Chosen(s)] + I[s \ {Chosen(s)}]
  BY <1>4 DEF Chosen
<1>6. I = [s \in SUBSET S |-> I[s]]
  BY <1>4
<1> HIDE DEF I, Iter
<1>7. \A T \in SUBSET S : I[T] \in Int
  <2> DEFINE Q == {T \in SUBSET S : I[T] \in Int}
  <2>1. ASSUME NEW W \in SUBSET S, NEW T \in SUBSET W, \A U \in SUBSET T : U # T => U \in Q
        PROVE  T \in Q
    <3>1. CASE T = {}
      <4>1. T \in SUBSET S /\ I[T] = 0
        BY <3>1, <1>5
      <4> QED
        BY <4>1
    <3>2. CASE T # {}
      <4>1. Chosen(T) \in T
        BY <3>2 DEF Chosen
      <4>2. T \ {Chosen(T)} \in Q
        BY <4>1, <2>1
      <4>3. I[T \ {Chosen(T)}] \in Int /\ f[Chosen(T)] \in Int
        BY <4>1, <4>2 DEF Q
      <4>4. I[T] = f[Chosen(T)] + I[T \ {Chosen(T)}]
        BY <3>2, <1>5
      <4> QED
        BY <4>3, <4>4 DEF Q
    <3> QED
      BY <3>1, <3>2
  <2> HIDE DEF Q
  <2>2. ASSUME NEW W \in SUBSET S PROVE W \in Q
    <3>1. IsFiniteSet(W)
      BY FS_Subset
    <3> QED
      BY <2>1, <3>1, SetInduction
  <2> QED
    BY <2>2 DEF Q
<1>8. Sums(I, f, SUBSET S)
  BY <1>5, <1>6, <1>7 DEF Sums
<1> QED
  BY <1>1, <1>8 DEF I

\* A sum is any of its summands and the sum of the others, whatever CHOOSE takes first.
LEMMA SumsRemove ==
  ASSUME NEW S, IsFiniteSet(S), NEW f, \A x \in S : f[x] \in Int,
         NEW F, Sums(F, f, SUBSET S), NEW c \in S
  PROVE  F[S] = f[c] + F[S \ {c}]
<1> DEFINE Q == {T \in SUBSET S : \A y \in T : F[T] = f[y] + F[T \ {y}]}
<1>1. ASSUME NEW T \in SUBSET S, \A U \in SUBSET T : U # T => U \in Q
      PROVE  T \in Q
  <2> SUFFICES ASSUME NEW y \in T PROVE F[T] = f[y] + F[T \ {y}]
    OBVIOUS
  <2> DEFINE p == Chosen(T)
  <2>1. p \in T
    BY DEF Chosen
  <2>2. F[T] = f[p] + F[T \ {p}]
    BY DEF Sums
  <2> HIDE DEF p
  <2>3. CASE p = y
    BY <2>2, <2>3
  <2>4. CASE p # y
    <3>1. T \ {p} \in Q /\ T \ {y} \in Q /\ y \in T \ {p} /\ p \in T \ {y}
      BY <2>1, <2>4, <1>1
    <3>2. F[T \ {p}] = f[y] + F[(T \ {p}) \ {y}]
      BY <3>1
    <3>3. F[T \ {y}] = f[p] + F[(T \ {y}) \ {p}]
      BY <3>1
    <3>4. (T \ {p}) \ {y} = (T \ {y}) \ {p}
      OBVIOUS
    <3>5. F[(T \ {y}) \ {p}] \in Int /\ f[p] \in Int /\ f[y] \in Int
      BY <2>1 DEF Sums
    <3> DEFINE r == F[(T \ {y}) \ {p}]
    <3>6. F[T] = f[p] + (f[y] + r) /\ F[T \ {y}] = f[p] + r
      BY <2>2, <3>2, <3>3, <3>4
    <3> HIDE DEF r
    <3>7. f[p] + (f[y] + r) = f[y] + (f[p] + r)
      BY <3>5 DEF r
    <3> QED
      BY <3>6, <3>7
  <2> QED
    BY <2>3, <2>4
<1> HIDE DEF Q
<1>2. S \in Q
  BY <1>1, SetInduction
<1> QED
  BY <1>2 DEF Q

\* A sum of integers is an integer.
LEMMA SumType ==
  ASSUME NEW S, IsFiniteSet(S), NEW f, \A x \in S : f[x] \in Int
  PROVE  SumFunctionOnSet(f, S) \in Int
<1>1. PICK F : Sums(F, f, SUBSET S) /\ SumFunctionOnSet(f, S) = F[S]
  BY SumIsSums
<1> QED
  BY <1>1 DEF Sums

\* When one summand changes, the sum changes by as much.
LEMMA SumChanges ==
  ASSUME NEW S, IsFiniteSet(S), NEW f, NEW g, NEW c \in S,
         \A x \in S : f[x] \in Int /\ g[x] \in Int, \A x \in S \ {c} : f[x] = g[x]
  PROVE  SumFunctionOnSet(g, S) = SumFunctionOnSet(f, S) + g[c] - f[c]
<1>1. PICK F : Sums(F, f, SUBSET S) /\ SumFunctionOnSet(f, S) = F[S]
  BY SumIsSums
<1>2. PICK G : Sums(G, g, SUBSET S) /\ SumFunctionOnSet(g, S) = G[S]
  BY SumIsSums
<1>3. F[S] = f[c] + F[S \ {c}] /\ G[S] = g[c] + G[S \ {c}]
  <2>1. F[S] = f[c] + F[S \ {c}]
    BY <1>1, SumsRemove
  <2>2. G[S] = g[c] + G[S \ {c}]
    BY <1>2, SumsRemove
  <2> QED
    BY <2>1, <2>2
<1>4. IsFiniteSet(S \ {c}) /\ SUBSET (S \ {c}) \subseteq SUBSET S
  BY FS_RemoveElement
<1>5. F[S \ {c}] = G[S \ {c}]
  BY <1>1, <1>2, <1>4, SumsAgree
<1>6. F[S \ {c}] \in Int /\ f[c] \in Int /\ g[c] \in Int
  BY <1>1 DEF Sums
<1> QED
  BY <1>1, <1>2, <1>3, <1>5, <1>6

\* A sum of zeros.
LEMMA SumZero ==
  ASSUME NEW S, IsFiniteSet(S), NEW f, \A x \in S : f[x] = 0
  PROVE  SumFunctionOnSet(f, S) = 0
<1>1. PICK F : Sums(F, f, SUBSET S) /\ SumFunctionOnSet(f, S) = F[S]
  BY SumIsSums
<1> DEFINE Q == {T \in SUBSET S : F[T] = 0}
<1>2. ASSUME NEW T \in SUBSET S, \A U \in SUBSET T : U # T => U \in Q
      PROVE  T \in Q
  <2>1. CASE T = {}
    BY <1>1, <2>1 DEF Sums
  <2>2. CASE T # {}
    <3>1. Chosen(T) \in T
      BY <2>2 DEF Chosen
    <3>2. T \ {Chosen(T)} \in Q
      BY <3>1, <1>2
    <3> QED
      BY <1>1, <2>2, <3>1, <3>2 DEF Sums
  <2> QED
    BY <2>1, <2>2
<1> HIDE DEF Q
<1>3. S \in Q
  BY <1>2, SetInduction
<1> QED
  BY <1>1, <1>3 DEF Q

-----------------------------------------------------------------------------
(* Books, and the flush that writes their changed columns.                 *)

\* The constants are numbers.
LEMMA Numbers ==
    /\ Start \in Nat /\ Size \in Nat /\ MaxConcurrent \in Nat /\ Floor \in Nat
    /\ MaxExposure \in Nat /\ CycleGain \in Nat /\ MaxCycles \in Nat
    /\ \A m \in Marks \cup {0} : m \in Nat
    /\ \A m \in Rungs : Size * m \in Nat
    /\ IsFiniteSet(Coins) /\ Tick \notin Hands /\ NoValue \notin Nat
BY LabAssumption

\* A flush of a wallet row writes a wallet row, column by column.
LEMMA ChangedRow ==
    ASSUME NEW new \in Rows, NEW old \in Rows, NEW now \in Rows
    PROVE  /\ Changed(new, old, now) \in Rows
           /\ Changed(new, old, now).failed =
                IF new.failed # old.failed THEN new.failed ELSE now.failed
           /\ new = old => Changed(new, old, now) = now
           /\ old = now => Changed(new, old, now) = new
           /\ new = now => Changed(new, old, now) = now
BY DEF Changed, Rows

\* The same of a position.
LEMMA ChangedLot ==
    ASSUME NEW new \in Lots, NEW old \in Lots, NEW now \in Lots
    PROVE  /\ Changed(new, old, now) \in Lots
           /\ Changed(new, old, now).status =
                IF new.status # old.status THEN new.status ELSE now.status
           /\ new = old => Changed(new, old, now) = now
           /\ old = now => Changed(new, old, now) = new
           /\ new = now => Changed(new, old, now) = now
BY DEF Changed, Lots

\* A book is a wallet row and a position of every coin.
LEMMA BookParts ==
    ASSUME NEW b \in Books
    PROVE  b.row \in Rows /\ b.pos \in [Coins -> Lots] /\ \A c \in Coins : b.pos[c] \in Lots
BY DEF Books

\* A book of a row and of positions.
LEMMA BookOf ==
    ASSUME NEW r \in Rows, NEW p \in [Coins -> Lots]
    PROVE  [row |-> r, pos |-> p] \in Books
BY DEF Books

\* Two books are equal when their rows and positions are.
LEMMA BookEqual ==
    ASSUME NEW a \in Books, NEW b \in Books, a.row = b.row, \A c \in Coins : a.pos[c] = b.pos[c]
    PROVE  a = b
<1>1. a.pos = b.pos
  BY DEF Books
<1> QED
  BY <1>1 DEF Books

\* What a flush leaves in the table.
LEMMA Applied ==
    ASSUME NEW new \in Books, NEW old \in Books, NEW now \in Books
    PROVE  /\ Apply(new, old, now) \in Books
           /\ Apply(new, old, now).row = Changed(new.row, old.row, now.row)
           /\ \A c \in Coins : Apply(new, old, now).pos[c]
                                 = Changed(new.pos[c], old.pos[c], now.pos[c])
<1> DEFINE r == Changed(new.row, old.row, now.row)
<1> DEFINE p == [c \in Coins |-> Changed(new.pos[c], old.pos[c], now.pos[c])]
<1>1. r \in Rows
  BY BookParts, ChangedRow
<1>2. p \in [Coins -> Lots]
  BY BookParts, ChangedLot
<1>3. Apply(new, old, now) = [row |-> r, pos |-> p]
  BY DEF Apply
<1> HIDE DEF r
<1>4. Apply(new, old, now) \in Books
  BY <1>1, <1>2, <1>3, BookOf
<1> QED
  BY <1>3, <1>4 DEF r

\* A flush over the rows as loaded writes the memory.
LEMMA AppliedFresh ==
    ASSUME NEW new \in Books, NEW old \in Books
    PROVE  Apply(new, old, old) = new
<1>1. Apply(new, old, old).row = new.row
  BY Applied, BookParts, ChangedRow
<1>2. \A c \in Coins : Apply(new, old, old).pos[c] = new.pos[c]
  BY Applied, BookParts, ChangedLot
<1> QED
  BY <1>1, <1>2, Applied, BookEqual

\* The failure flag that a flush leaves.
LEMMA AppliedFailed ==
    ASSUME NEW new \in Books, NEW old \in Books, NEW now \in Books
    PROVE  /\ (old.row.failed => new.row.failed) /\ now.row.failed
                => Apply(new, old, now).row.failed
           /\ old.row.failed = new.row.failed
                => Apply(new, old, now).row.failed = now.row.failed
<1>1. Apply(new, old, now).row.failed
        = IF new.row.failed # old.row.failed THEN new.row.failed ELSE now.row.failed
  BY Applied, BookParts, ChangedRow
<1>2. new.row.failed \in BOOLEAN /\ old.row.failed \in BOOLEAN /\ now.row.failed \in BOOLEAN
  BY BookParts DEF Rows
<1> QED
  BY <1>1, <1>2

\* A position that the session did not touch, or that it holds as the table does,
\* stays as it is.
LEMMA AppliedLot ==
    ASSUME NEW new \in Books, NEW old \in Books, NEW now \in Books, NEW c \in Coins,
           new.pos[c] = old.pos[c] \/ new.pos[c] = now.pos[c]
    PROVE  Apply(new, old, now).pos[c] = now.pos[c]
BY Applied, BookParts, ChangedLot

\* A flush opens a position only if the session did.
LEMMA AppliedOpen ==
    ASSUME NEW new \in Books, NEW old \in Books, NEW now \in Books, NEW c \in Coins,
           Apply(new, old, now).pos[c].status = "open",
           new.pos[c].status = "open" => old.pos[c].status = "open"
    PROVE  now.pos[c].status = "open"
<1>1. Apply(new, old, now).pos[c].status
        = IF new.pos[c].status # old.pos[c].status THEN new.pos[c].status
                                                    ELSE now.pos[c].status
  BY Applied, BookParts, ChangedLot
<1> QED
  BY <1>1

-----------------------------------------------------------------------------
(* What the operations do to a book.                                       *)

\* One position changes, and the cash by what the position accounts for.
Moves(new, old, c) ==
    /\ new \in Books
    /\ \A d \in Coins \ {c} : new.pos[d] = old.pos[d]
    /\ new.row.cash = old.row.cash + Net(new.pos[c]) - Net(old.pos[c])

\* A move that opens nothing and forgets no failure.
Sells(new, old, c) ==
    /\ Moves(new, old, c)
    /\ new.pos[c].status = "open" => old.pos[c].status = "open"
    /\ old.row.failed => new.row.failed

\* What a position accounts for is a number.
LEMMA NetType == ASSUME NEW p \in Lots PROVE Net(p) \in Int
BY DEF Net, Lots

\* What the positions account for is a number.
LEMMA BookedType == ASSUME NEW b \in Books PROVE Booked(b) \in Int
<1> DEFINE f == [c \in Coins |-> Net(b.pos[c])]
<1>1. \A c \in Coins : f[c] \in Int
  BY BookParts, NetType
<1> HIDE DEF f
<1>2. SumFunctionOnSet(f, Coins) \in Int
  BY <1>1, Numbers, SumType
<1> QED
  BY <1>2, Numbers DEF Booked, f

\* A move keeps a balanced book balanced.
LEMMA MovesBalance ==
    ASSUME NEW old \in Books, NEW new, NEW c \in Coins, Moves(new, old, c), Balanced(old)
    PROVE  Balanced(new)
<1> DEFINE f == [d \in Coins |-> Net(old.pos[d])]
<1> DEFINE g == [d \in Coins |-> Net(new.pos[d])]
<1>1. new \in Books
  BY DEF Moves
<1>2. \A d \in Coins : f[d] \in Int /\ g[d] \in Int
  BY <1>1, BookParts, NetType
<1>3. \A d \in Coins \ {c} : f[d] = g[d]
  BY DEF Moves
<1>4. f[c] = Net(old.pos[c]) /\ g[c] = Net(new.pos[c])
  OBVIOUS
<1> HIDE DEF f, g
<1>5. SumFunctionOnSet(g, Coins) = SumFunctionOnSet(f, Coins) + g[c] - f[c]
  BY <1>2, <1>3, Numbers, SumChanges
<1>6. SumFunctionOnSet(f, Coins) \in Int
  BY <1>2, Numbers, SumType
<1>7. old.row.cash = Start + SumFunctionOnSet(f, Coins)
  BY DEF Balanced, Booked, f
<1>8. new.row.cash = old.row.cash + g[c] - f[c]
  BY <1>4 DEF Moves
<1>9. new.row.cash = Start + SumFunctionOnSet(g, Coins)
  BY <1>2, <1>5, <1>6, <1>7, <1>8, Numbers
<1> QED
  BY <1>9 DEF Balanced, Booked, g

\* A book with the same cash and the same positions.
LEMMA SameBalance ==
    ASSUME NEW old \in Books, NEW new \in Books, Balanced(old),
           new.row.cash = old.row.cash, new.pos = old.pos
    PROVE  Balanced(new)
BY DEF Balanced, Booked

\* The equity of a book is a number.
LEMMA EquityType ==
    ASSUME NEW a \in Books, NEW b \in Books PROVE Equity(a.row.cash, b.pos) \in Int
<1> DEFINE f == [c \in Coins |-> Worth(b.pos[c])]
<1> DEFINE O == OpenOf(b.pos)
<1>1. \A c \in Coins : f[c] \in Int
  BY BookParts DEF Worth, Lots
<1>2. O \in SUBSET Coins
  BY DEF OpenOf
<1>3. IsFiniteSet(O)
  BY <1>2, Numbers, FS_Subset
<1> HIDE DEF f, O
<1>4. SumFunctionOnSet(f, O) \in Int
  BY <1>1, <1>2, <1>3, SumType
<1>5. a.row.cash \in Int
  BY BookParts DEF Rows
<1> QED
  BY <1>4, <1>5 DEF Equity, f, O

\* Booking a position whose account grows by what the cash gets is a move.
LEMMA BookingMoves ==
    ASSUME NEW b \in Books, NEW c \in Coins, NEW p \in Lots, NEW got \in Int,
           Net(p) = Net(b.pos[c]) + got
    PROVE  /\ Moves(Booking(b, c, p, got), b, c)
           /\ Booking(b, c, p, got).pos[c] = p
           /\ Booking(b, c, p, got).row.failed = b.row.failed
<1> DEFINE r == [b.row EXCEPT !.cash = @ + got]
<1> DEFINE q == [b.pos EXCEPT ![c] = p]
<1>1. r \in Rows /\ r.cash = b.row.cash + got /\ r.failed = b.row.failed /\ b.row.cash \in Int
  BY BookParts DEF Rows
<1>2. q \in [Coins -> Lots] /\ q[c] = p /\ \A d \in Coins \ {c} : q[d] = b.pos[d]
  BY BookParts
<1>3. Booking(b, c, p, got) = [row |-> r, pos |-> q]
  BY DEF Booking
<1> HIDE DEF r, q
<1>4. Booking(b, c, p, got) \in Books
  BY <1>1, <1>2, <1>3, BookOf
<1>5. Booking(b, c, p, got).row = r /\ Booking(b, c, p, got).pos = q
  BY <1>3
<1>6. Net(b.pos[c]) \in Int
  BY BookParts, NetType
<1> QED
  BY <1>1, <1>2, <1>4, <1>5, <1>6 DEF Moves

\* _open: the stake leaves the cash, into a position that was not there.
LEMMA OpenedMoves ==
    ASSUME NEW b \in Books, NEW c \in Coins, b.pos[c] = Free, NEW size \in Nat
    PROVE  /\ Moves(Opened(b, c, size), b, c)
           /\ Opened(b, c, size).row.failed = b.row.failed
<1> DEFINE p1 == [Free EXCEPT !.status = "open"]
<1> DEFINE p2 == [p1 EXCEPT !.size = size]
<1> DEFINE p  == [p2 EXCEPT !.left = size]
<1>1. p1 \in Lots /\ p1.status = "open" /\ p1.banked = 0
  BY DEF Free, Lots
<1>2. Opened(b, c, size) = Booking(b, c, p, -size)
  BY DEF Opened
<1> HIDE DEF p1
<1>3. p2 \in Lots /\ p2.status = "open" /\ p2.banked = 0 /\ p2.size = size
  BY <1>1 DEF Lots
<1> HIDE DEF p2
<1>4. p \in Lots /\ p.status = "open" /\ p.banked = 0 /\ p.size = size
  BY <1>3 DEF Lots
<1> HIDE DEF p
<1>5. p \in Lots /\ Net(p) = -size /\ Net(b.pos[c]) = 0
  BY <1>4 DEF Net, Free
<1>6. -size \in Int /\ Net(p) = Net(b.pos[c]) + (-size)
  BY <1>5
<1> QED
  BY <1>5, <1>6, <1>2, BookingMoves

\* A position that was open closes at what it brings.
LEMMA ClosedSells ==
    ASSUME NEW b \in Books, NEW c \in Coins, b.pos[c].status = "open",
           NEW fill \in Marks \cup {0}
    PROVE  /\ Sells(Closed(b, c, fill), b, c)
           /\ Closed(b, c, fill).row.failed = b.row.failed
<1> DEFINE p   == b.pos[c]
<1> DEFINE got == p.left * fill
<1> DEFINE q1  == [p EXCEPT !.status = "closed"]
<1> DEFINE q2  == [q1 EXCEPT !.proceeds = p.banked + got]
<1> DEFINE q   == [q2 EXCEPT !.value = 0]
<1>1. p \in Lots
  BY BookParts
<1>2. fill \in Nat /\ p.left \in Nat /\ p.banked \in Nat /\ p.size \in Nat
  BY <1>1, Numbers DEF Lots
<1>3. got \in Nat
  BY <1>2
<1>4. Closed(b, c, fill) = Booking(b, c, q, got)
  BY DEF Closed
<1> HIDE DEF got
<1>5. q1 \in Lots /\ q1.status = "closed" /\ q1.size = p.size
  BY <1>1 DEF Lots
<1> HIDE DEF q1
<1>6. q2 \in Lots /\ q2.status = "closed" /\ q2.proceeds = p.banked + got /\ q2.size = p.size
  BY <1>2, <1>3, <1>5 DEF Lots
<1> HIDE DEF q2
<1>7. q \in Lots /\ q.status = "closed" /\ q.proceeds = p.banked + got /\ q.size = p.size
  BY <1>6 DEF Lots
<1> HIDE DEF q
<1>8. Net(q) = Net(p) + got
  BY <1>2, <1>3, <1>7 DEF Net
<1> QED
  BY <1>3, <1>4, <1>7, <1>8, BookingMoves DEF Sells

\* A mark writes the value only.
LEMMA MarkedSells ==
    ASSUME NEW b \in Books, NEW c \in Coins, NEW m \in Marks
    PROVE  /\ Sells(Marked(b, c, m), b, c)
           /\ Marked(b, c, m).pos[c].status = b.pos[c].status
<1> DEFINE p == b.pos[c]
<1> DEFINE v == p.banked + p.left * m
<1> DEFINE q == [p EXCEPT !.value = v]
<1>1. p \in Lots
  BY BookParts
<1>2. m \in Nat /\ p.left \in Nat /\ p.banked \in Nat
  BY <1>1, Numbers DEF Lots
<1>3. v \in Nat
  BY <1>2
<1>4. Marked(b, c, m) = [row |-> b.row, pos |-> [b.pos EXCEPT ![c] = q]]
  BY BookParts DEF Marked, Books
<1> HIDE DEF v
<1>5. q \in Lots /\ q.status = p.status /\ Net(q) = Net(p)
  BY <1>1, <1>3 DEF Lots, Net
<1> HIDE DEF q
<1>6. Marked(b, c, m) \in Books
  BY <1>4, <1>5, BookParts, BookOf
<1>7. /\ Marked(b, c, m).row = b.row /\ Marked(b, c, m).pos[c] = q
      /\ \A d \in Coins \ {c} : Marked(b, c, m).pos[d] = b.pos[d]
  BY <1>4, BookParts
<1>8. b.row.cash \in Int /\ Net(p) \in Int
  BY <1>1, BookParts, NetType DEF Rows
<1> QED
  BY <1>5, <1>6, <1>7, <1>8 DEF Sells, Moves

\* Half of an open position is sold.
LEMMA HalvedSells ==
    ASSUME NEW b \in Books, NEW c \in Coins, b.pos[c].status = "open",
           NEW fill \in Marks, NEW taken \in BOOLEAN
    PROVE  /\ Sells(Halved(b, c, fill, taken), b, c)
           /\ Halved(b, c, fill, taken).pos[c].status = "open"
           /\ Halved(b, c, fill, taken).row.failed = b.row.failed
<1> DEFINE p    == b.pos[c]
<1> DEFINE half == p.left \div 2
<1> DEFINE got  == half * fill
<1> DEFINE q1   == [p EXCEPT !.banked = @ + got]
<1> DEFINE q2   == [q1 EXCEPT !.left = @ - half]
<1> DEFINE q    == [q2 EXCEPT !.partial = taken]
<1>1. p \in Lots
  BY BookParts
<1>2. fill \in Nat /\ p.left \in Nat /\ p.banked \in Nat /\ p.size \in Nat
  BY <1>1, Numbers DEF Lots
<1>3. half \in Nat /\ p.left - half \in Nat
  BY <1>2
<1>4. Halved(b, c, fill, taken) = Booking(b, c, q, got)
  BY DEF Halved
<1>5. got \in Nat
  <2> HIDE DEF half
  <2> QED
    BY <1>2, <1>3
<1> HIDE DEF got, half
<1>6. /\ q1 \in Lots /\ q1.status = "open" /\ q1.banked = p.banked + got /\ q1.size = p.size
      /\ q1.left = p.left
  BY <1>1, <1>2, <1>5 DEF Lots
<1> HIDE DEF q1
<1>7. q2 \in Lots /\ q2.status = "open" /\ q2.banked = p.banked + got /\ q2.size = p.size
  BY <1>3, <1>6 DEF Lots
<1> HIDE DEF q2
<1>8. q \in Lots /\ q.status = "open" /\ q.banked = p.banked + got /\ q.size = p.size
  BY <1>7 DEF Lots
<1> HIDE DEF q
<1>9. Net(q) = Net(p) + got
  BY <1>2, <1>5, <1>8 DEF Net
<1> QED
  BY <1>4, <1>5, <1>8, <1>9, BookingMoves DEF Sells

\* _apply_breaker changes the peak and the failure flag of the row.
LEMMA JudgedSells ==
    ASSUME NEW old \in Books, NEW b, NEW c \in Coins, Sells(b, old, c), View(Tick) \in Books
    PROVE  Sells(Judged(b), old, c)
<1> DEFINE e == Equity(b.row.cash, View(Tick).pos)
<1>1. b \in Books
  BY DEF Sells, Moves
<1>2. e \in Int
  BY <1>1, EquityType
<1> DEFINE r1 == [b.row EXCEPT !.peak = IF e > @ THEN e ELSE @]
<1> DEFINE r  == [r1 EXCEPT !.failed = @ \/ e < Floor]
<1>3. Judged(b) = [row |-> r, pos |-> b.pos]
  BY DEF Judged
<1> HIDE DEF e
<1>4. r1 \in Rows /\ r1.cash = b.row.cash /\ r1.failed = b.row.failed
  BY <1>1, <1>2, BookParts DEF Rows
<1> HIDE DEF r1
<1>5. r \in Rows /\ r.cash = b.row.cash /\ (b.row.failed => r.failed)
  <2>1. (r1.failed \/ e < Floor) \in BOOLEAN
    OBVIOUS
  <2> QED
    BY <1>4, <2>1 DEF Rows
<1> HIDE DEF r
<1>6. Judged(b) \in Books /\ Judged(b).row = r /\ Judged(b).pos = b.pos
  BY <1>1, <1>3, <1>5, BookParts, BookOf
<1> QED
  BY <1>5, <1>6 DEF Sells, Moves

\* One sale after another, of the same position.
LEMMA SellsTwice ==
    ASSUME NEW a \in Books, NEW b, NEW d, NEW c \in Coins, Sells(b, a, c), Sells(d, b, c)
    PROVE  Sells(d, a, c)
<1>1. b \in Books /\ d \in Books
  BY DEF Sells, Moves
<1>2. /\ Net(a.pos[c]) \in Int /\ Net(b.pos[c]) \in Int /\ Net(d.pos[c]) \in Int
      /\ a.row.cash \in Int
  BY <1>1, BookParts, NetType DEF Rows
<1>3. d.row.cash = a.row.cash + Net(d.pos[c]) - Net(a.pos[c])
  BY <1>2 DEF Sells, Moves
<1> QED
  BY <1>3 DEF Sells, Moves

-----------------------------------------------------------------------------
(* LabInv is inductive.                                                    *)

\* The sets of coins with an open position.
LEMMA OpenIs ==
    ASSUME NEW pos
    PROVE  /\ OpenOf(pos) \in SUBSET Coins
           /\ \A c \in Coins : c \in OpenOf(pos) <=> pos[c].status = "open"
BY DEF OpenOf

\* Fewer open positions are within the limit.
LEMMA FewerOpen ==
    ASSUME NEW p, NEW q, OpenOf(p) \subseteq OpenOf(q), Cardinality(OpenOf(q)) <= MaxConcurrent
    PROVE  Cardinality(OpenOf(p)) <= MaxConcurrent
<1>1. IsFiniteSet(OpenOf(q)) /\ IsFiniteSet(OpenOf(p))
  BY OpenIs, Numbers, FS_Subset
<1>2. Cardinality(OpenOf(p)) <= Cardinality(OpenOf(q))
  BY <1>1, FS_Subset
<1>3. Cardinality(OpenOf(p)) \in Nat /\ Cardinality(OpenOf(q)) \in Nat
  BY <1>1, FS_CardinalityType
<1> QED
  BY <1>2, <1>3, Numbers

\* The empty book.
LEMMA EmptyBook ==
    /\ NewBook \in Books /\ OpenOf(NewBook.pos) = {} /\ ~NewBook.row.failed
    /\ \A c \in Coins : NewBook.pos[c] = Free
    /\ Free \in Lots /\ Free.status # "open"
<1>1. NewRow \in Rows /\ ~NewRow.failed
  BY Numbers DEF NewRow, Rows
<1>2. Free \in Lots /\ Free.status # "open"
  BY DEF Free, Lots
<1>3. [c \in Coins |-> Free] \in [Coins -> Lots]
  BY <1>2
<1> QED
  BY <1>1, <1>2, <1>3, BookOf DEF NewBook, OpenOf

\* What a session sees is a book.
LEMMA ViewType == ASSUME TypeOK, NEW s PROVE View(s) \in Books
BY DEF TypeOK, View

\* A flush, as the books it leaves.
LEMMA Flushed ==
    ASSUME TypeOK, NEW s \in Sessions, NEW new \in Books, Flush(s, new)
    PROVE  /\ lock \subseteq {s} /\ lock' = {s}
           /\ tx' = Apply(new, base[s], View(s)) /\ tx' \in Books
           /\ mem' \in [Sessions -> Books] /\ base' \in [Sessions -> Books]
           /\ mem'[s] = new /\ base'[s] = new
           /\ \A o \in Sessions \ {s} : mem'[o] = mem[o] /\ base'[o] = base[o]
<1>1. base[s] \in Books /\ View(s) \in Books
  BY ViewType DEF TypeOK
<1>2. Apply(new, base[s], View(s)) \in Books
  BY <1>1, Applied
<1> QED
  BY <1>2 DEF Flush, TypeOK

\* The tick and the hand sessions.
LEMMA Who == Sessions = Hands \cup {Tick} /\ Tick \in Sessions /\ \A h \in Hands : h # Tick
BY Numbers DEF Sessions

\* A flush of the tick.
LEMMA TickFlushKeeps ==
    ASSUME LabInv, NEW new \in Books, NEW to \in {"judge", "bank", "selling", "commit"},
           at[Tick] # "idle", todo = {},
           Flush(Tick, new), at' = [at EXCEPT ![Tick] = to],
           UNCHANGED <<db, decided, todo, sold, ghosts, cycling>>,
           judged' \in SUBSET Coins, judged \subseteq judged',
           Cardinality(OpenOf(tx'.pos)) <= MaxConcurrent,
           db.row.failed =>
              new.row.failed /\ tx'.row.failed /\ OpenOf(tx'.pos) \subseteq OpenOf(db.pos),
           \A c \in Coins \ (decided \cup judged') : new.pos[c] = Free /\ tx'.pos[c] = Free,
           ~raced /\ ~stale[Tick] => Balanced(new)
    PROVE  LabInv'
<1>1. TypeOK /\ Held /\ OnlyCloses /\ Failing /\ Undecided /\ HandHolds
  BY DEF LabInv
<1>2. /\ lock \subseteq {Tick} /\ lock' = {Tick}
      /\ tx' = Apply(new, base[Tick], View(Tick)) /\ tx' \in Books
      /\ mem' \in [Sessions -> Books] /\ base' \in [Sessions -> Books]
      /\ mem'[Tick] = new /\ base'[Tick] = new
      /\ \A o \in Sessions \ {Tick} : mem'[o] = mem[o] /\ base'[o] = base[o]
  BY <1>1, Who, Flushed
<1>3. \A h \in Hands : h \in Sessions \ {Tick} /\ lock # {h} /\ lock' # {h} /\ at'[h] = at[h]
  BY <1>1, <1>2, Who DEF TypeOK
<1>4. at'[Tick] = to
  BY <1>1, Who DEF TypeOK
<1>5. TypeOK'
  BY <1>1, <1>2, Who DEF TypeOK, ghosts
<1>6. Held'
  BY <1>1, <1>2, <1>3, <1>4, Who DEF Held
<1>7. OnlyCloses'
  BY <1>1, <1>2, <1>3, Who DEF OnlyCloses
<1>8. Failing'
  BY <1>1, <1>2, <1>3, Who DEF Failing
<1>9. Undecided'
  <2>1. ASSUME NEW c \in Coins \ decided'
        PROVE  /\ db'.pos[c] = Free
               /\ \A h \in Hands : mem'[h].pos[c] = Free /\ (lock' = {h} => tx'.pos[c] = Free)
    BY <1>1, <1>2, <1>3, <2>1 DEF Undecided
  <2>2. ASSUME NEW c \in Coins \ (decided \cup judged)'
        PROVE  mem'[Tick].pos[c] = Free /\ base'[Tick].pos[c] = Free /\ tx'.pos[c] = Free
    BY <1>2, <2>2
  <2> QED
    BY <2>1, <2>2 DEF Undecided
<1>10. HandHolds'
  BY <1>1, <1>2, <1>3, Who DEF HandHolds
<1>11. ConcurrencyHolds' /\ Cardinality(OpenOf(tx'.pos)) <= MaxConcurrent
  BY DEF LabInv, ConcurrencyHolds
<1>12. ASSUME ~raced' PROVE Balanced(db)' /\ TickBooks' /\ HandBooks'
  <2>1. ~raced /\ Balanced(db) /\ TickBooks /\ HandBooks
    BY <1>12 DEF LabInv, ghosts
  <2>2. TickBooks'
    <3>1. CASE stale[Tick]
      BY <3>1 DEF TickBooks, Fresh, ghosts
    <3>2. CASE ~stale[Tick]
      <4>1. base[Tick] = View(Tick)
        BY <2>1, <3>2 DEF TickBooks, Fresh
      <4>2. base[Tick] \in Books
        BY <1>1, Who DEF TypeOK
      <4>3. tx' = new
        BY <1>2, <4>1, <4>2, AppliedFresh
      <4>4. Balanced(new)
        BY <2>1, <3>2
      <4> QED
        BY <1>2, <4>3, <4>4 DEF TickBooks, View
    <3> QED
      BY <3>1, <3>2
  <2>3. HandBooks'
    BY <1>1, <1>2, <1>3, <2>1, Who DEF HandBooks, Fresh, Held, ghosts
  <2> QED
    BY <2>1, <2>2, <2>3
<1> QED
  BY <1>5, <1>6, <1>7, <1>8, <1>9, <1>10, <1>11, <1>12 DEF LabInv

\* A flush of the tick that opens nothing.
LEMMA TickSellsKeeps ==
    ASSUME LabInv, NEW new \in Books, NEW to \in {"bank", "selling", "commit"},
           at[Tick] # "idle", todo = {},
           Flush(Tick, new), at' = [at EXCEPT ![Tick] = to],
           UNCHANGED <<db, decided, todo, judged, sold, ghosts, cycling>>,
           mem[Tick].row.failed => new.row.failed,
           \A c \in Coins : \/ new.pos[c].status = "open" => base[Tick].pos[c].status = "open"
                           \/ new.pos[c] = View(Tick).pos[c],
           \A c \in Coins \ (decided \cup judged) : new.pos[c] = Free,
           ~raced /\ ~stale[Tick] => Balanced(new)
    PROVE  LabInv'
<1>1. TypeOK /\ Held /\ OnlyCloses /\ Failing /\ Undecided /\ HandHolds
  BY DEF LabInv
<1>2. tx' = Apply(new, base[Tick], View(Tick)) /\ lock \subseteq {Tick}
  BY <1>1, Who, Flushed
<1>3. base[Tick] \in Books /\ View(Tick) \in Books /\ mem[Tick] \in Books
  BY <1>1, Who, ViewType DEF TypeOK
<1>4. OpenOf(tx'.pos) \subseteq OpenOf(View(Tick).pos)
  <2> SUFFICES ASSUME NEW c \in Coins, tx'.pos[c].status = "open"
               PROVE  View(Tick).pos[c].status = "open"
    BY OpenIs
  <2>1. CASE new.pos[c].status = "open" => base[Tick].pos[c].status = "open"
    BY <1>2, <1>3, <2>1, AppliedOpen
  <2>2. CASE new.pos[c] = View(Tick).pos[c]
    BY <1>2, <1>3, <2>2, AppliedLot
  <2> QED
    BY <2>1, <2>2
<1>5. Cardinality(OpenOf(View(Tick).pos)) <= MaxConcurrent
  BY DEF LabInv, ConcurrencyHolds, View
<1>6. Cardinality(OpenOf(tx'.pos)) <= MaxConcurrent
  BY <1>4, <1>5, FewerOpen
<1>7. ASSUME db.row.failed
      PROVE  new.row.failed /\ tx'.row.failed /\ OpenOf(tx'.pos) \subseteq OpenOf(db.pos)
  <2>1. View(Tick).row.failed /\ OpenOf(View(Tick).pos) \subseteq OpenOf(db.pos)
    BY <1>1, <1>7 DEF Failing, View
  <2>2. new.row.failed
    BY <1>1, <1>7 DEF Failing
  <2>3. tx'.row.failed
    BY <1>2, <1>3, <2>1, <2>2, AppliedFailed
  <2> QED
    BY <1>4, <2>1, <2>2, <2>3
<1>8. ASSUME NEW c \in Coins \ (decided \cup judged)
      PROVE  new.pos[c] = Free /\ tx'.pos[c] = Free
  <2>1. new.pos[c] = Free /\ base[Tick].pos[c] = Free
    BY <1>1, <1>8 DEF Undecided
  <2>2. View(Tick).pos[c] = Free
    BY <1>1, <1>8 DEF Undecided, View
  <2> QED
    BY <1>2, <1>3, <2>1, <2>2, AppliedLot
<1>9. judged' \in SUBSET Coins /\ judged \subseteq judged' /\ judged' = judged
  BY <1>1 DEF TypeOK
<1> QED
  BY <1>6, <1>7, <1>8, <1>9, TickFlushKeeps

\* A coin enters with the stake: the table and the memory gain one position.
LEMMA OpenKeeps ==
    ASSUME LabInv, NEW c \in Coins, Open(c), UNCHANGED cycling PROVE LabInv'
<1>1. TypeOK /\ Held /\ OnlyCloses /\ Failing /\ Undecided /\ HandHolds
  BY DEF LabInv
<1>2. PICK size \in {Size * m : m \in Rungs} : CanOpen(size) /\ Flush(Tick, Opened(mem[Tick], c, size))
  BY DEF Open
<1> DEFINE new == Opened(mem[Tick], c, size)
<1>3. at[Tick] = "judge" /\ c \notin decided \cup judged /\ todo = {} /\ size \in Nat
  BY <1>1, Numbers DEF Open, OnlyCloses
<1>4. mem[Tick] \in Books /\ base[Tick] \in Books /\ View(Tick) \in Books
  BY <1>1, Who, ViewType DEF TypeOK
<1>5. mem[Tick].pos[c] = Free
  BY <1>1, <1>3 DEF Undecided
<1>6. Moves(new, mem[Tick], c) /\ new.row.failed = mem[Tick].row.failed
  BY <1>3, <1>4, <1>5, OpenedMoves
<1> HIDE DEF new
<1>7. new \in Books /\ \A d \in Coins \ {c} : new.pos[d] = mem[Tick].pos[d]
  BY <1>6 DEF Moves
<1>8. tx' = Apply(new, base[Tick], View(Tick)) /\ lock \subseteq {Tick}
  BY <1>1, <1>2, <1>7, Who, Flushed DEF new
<1>9. OpenOf(tx'.pos) \subseteq OpenOf(View(Tick).pos) \cup {c}
  <2> SUFFICES ASSUME NEW d \in Coins \ {c}, tx'.pos[d].status = "open"
               PROVE  View(Tick).pos[d].status = "open"
    BY OpenIs
  <2>1. new.pos[d].status = "open" => base[Tick].pos[d].status = "open"
    BY <1>1, <1>7, Who, OpenIs DEF OnlyCloses
  <2> QED
    BY <1>4, <1>7, <1>8, <2>1, AppliedOpen
<1>10. Cardinality(OpenOf(tx'.pos)) <= MaxConcurrent
  <2> DEFINE O == OpenOf(View(Tick).pos)
  <2>1. Cardinality(O) < MaxConcurrent
    BY <1>2 DEF CanOpen
  <2>2. IsFiniteSet(O)
    BY OpenIs, Numbers, FS_Subset
  <2> HIDE DEF O
  <2>3. IsFiniteSet(O \cup {c}) /\ Cardinality(O \cup {c}) <= Cardinality(O) + 1
    <3>1. /\ IsFiniteSet(O \cup {c})
          /\ Cardinality(O \cup {c}) = IF c \in O THEN Cardinality(O) ELSE Cardinality(O) + 1
      BY <2>2, FS_AddElement, Zenon
    <3>2. Cardinality(O) \in Nat
      BY <2>2, FS_CardinalityType
    <3> QED
      BY <3>1, <3>2
  <2>4. OpenOf(tx'.pos) \in SUBSET (O \cup {c})
    BY <1>9 DEF O
  <2>5. /\ IsFiniteSet(OpenOf(tx'.pos))
        /\ Cardinality(OpenOf(tx'.pos)) <= Cardinality(O \cup {c})
    BY <2>3, <2>4, FS_Subset
  <2>6. /\ Cardinality(OpenOf(tx'.pos)) \in Nat /\ Cardinality(O) \in Nat
        /\ Cardinality(O \cup {c}) \in Nat
    BY <2>2, <2>3, <2>5, FS_CardinalityType
  <2> QED
    BY <2>1, <2>3, <2>5, <2>6, Numbers
<1>11. ~db.row.failed
  BY <1>1, <1>2, <1>3 DEF CanOpen, Failing
<1>12. judged' = judged \cup {c} /\ at' = [at EXCEPT ![Tick] = "judge"]
  BY <1>1, <1>3, Who DEF Open, TypeOK
<1>13. ASSUME NEW d \in Coins \ (decided \cup judged')
       PROVE  new.pos[d] = Free /\ tx'.pos[d] = Free
  <2>1. d # c /\ d \in Coins \ (decided \cup judged)
    BY <1>12, <1>13
  <2>2. new.pos[d] = Free /\ base[Tick].pos[d] = Free /\ View(Tick).pos[d] = Free
    BY <1>1, <1>7, <2>1 DEF Undecided, View
  <2> QED
    BY <1>4, <1>7, <1>8, <2>2, AppliedLot
<1>14. ASSUME ~raced, ~stale[Tick] PROVE Balanced(new)
  <2>1. Balanced(mem[Tick])
    BY <1>3, <1>14 DEF LabInv, TickBooks, Fresh
  <2> QED
    BY <1>4, <1>6, <2>1, MovesBalance
<1>15. /\ Flush(Tick, new) /\ at[Tick] # "idle"
       /\ UNCHANGED <<db, decided, todo, sold, ghosts, cycling>>
       /\ judged' \in SUBSET Coins /\ judged \subseteq judged'
  BY <1>1, <1>2, <1>3, <1>12 DEF Open, new, TypeOK
<1> QED
  BY <1>3, <1>7, <1>10, <1>11, <1>12, <1>13, <1>14, <1>15, TickFlushKeeps

\* The end of settle flushes what the loop did.
LEMMA SettleEndKeeps == ASSUME LabInv, SettleEnd, UNCHANGED cycling PROVE LabInv'
<1>1. TypeOK /\ OnlyCloses /\ Undecided
  BY DEF LabInv
<1>2. mem[Tick] \in Books
  BY <1>1, Who DEF TypeOK
<1>3. \A c \in Coins : mem[Tick].pos[c].status = "open" => base[Tick].pos[c].status = "open"
  BY <1>1, Who, OpenIs DEF OnlyCloses
<1>4. \A c \in Coins \ (decided \cup judged) : mem[Tick].pos[c] = Free
  BY <1>1 DEF Undecided
<1>5. ~raced /\ ~stale[Tick] => Balanced(mem[Tick])
  BY DEF LabInv, TickBooks, Fresh, SettleEnd
<1>6. PICK to \in {"bank", "commit"} : at' = [at EXCEPT ![Tick] = to]
  BY DEF SettleEnd
<1>7. /\ at[Tick] # "idle" /\ todo = {} /\ Flush(Tick, mem[Tick])
      /\ UNCHANGED <<db, decided, todo, judged, sold, ghosts, cycling>>
  BY DEF SettleEnd
<1> QED
  BY <1>2, <1>3, <1>4, <1>5, <1>6, <1>7, TickSellsKeeps

\* What the tick holds once it is past settle, when nobody overtook it.
LEMMA BankHolds ==
    ASSUME LabInv, Banking
    PROVE  /\ at[Tick] # "idle" /\ lock = {Tick} /\ View(Tick) = tx /\ todo = {}
           /\ mem[Tick] \in Books /\ tx \in Books
           /\ ~raced /\ ~stale[Tick] => mem[Tick] = tx /\ Balanced(mem[Tick])
<1>1. at[Tick] \in {"bank", "selling"}
  BY DEF Banking
<1>2. lock = {Tick} /\ todo = {}
  BY <1>1, Who DEF LabInv, Held, OnlyCloses
<1>3. mem[Tick] \in Books /\ tx \in Books
  BY Who DEF LabInv, TypeOK
<1> QED
  BY <1>1, <1>2, <1>3 DEF LabInv, TickBooks, Fresh, View

\* _sell_the_book closes one position of the table.
LEMMA SellBookKeeps ==
    ASSUME LabInv, NEW c \in Coins, SellBook(c), UNCHANGED cycling PROVE LabInv'
<1>1. /\ at[Tick] # "idle" /\ lock = {Tick} /\ View(Tick) = tx /\ todo = {}
      /\ mem[Tick] \in Books /\ tx \in Books
      /\ ~raced /\ ~stale[Tick] => mem[Tick] = tx /\ Balanced(mem[Tick])
  BY BankHolds DEF SellBook
<1> DEFINE held == [mem[Tick] EXCEPT !.pos = tx.pos]
<1>2. PICK fill \in Marks \cup {0} : Flush(Tick, Closed(held, c, fill))
  BY DEF SellBook
<1>3. held = [row |-> mem[Tick].row, pos |-> tx.pos]
  BY <1>1 DEF Books
<1> HIDE DEF held
<1>4. held \in Books /\ held.row = mem[Tick].row /\ held.pos = tx.pos
  BY <1>1, <1>3, BookParts, BookOf
<1> DEFINE new == Closed(held, c, fill)
<1>5. Sells(new, held, c) /\ new.row.failed = held.row.failed
  BY <1>4, ClosedSells DEF SellBook
<1> HIDE DEF new
<1>6. /\ new \in Books /\ \A d \in Coins \ {c} : new.pos[d] = tx.pos[d]
  BY <1>4, <1>5 DEF Sells, Moves
<1>7. new.pos[c].status # "open"
  <2>1. new.pos[c].status = "closed"
    <3> DEFINE p == held.pos[c]
    <3> DEFINE got == p.left * fill
    <3> DEFINE q1 == [p EXCEPT !.status = "closed"]
    <3> DEFINE q2 == [q1 EXCEPT !.proceeds = p.banked + got]
    <3> DEFINE q  == [q2 EXCEPT !.value = 0]
    <3>1. p \in Lots
      BY <1>4, BookParts
    <3>2. new = Booking(held, c, q, got)
      BY DEF new, Closed
    <3> HIDE DEF got
    <3>3. q.status = "closed"
      BY <3>1 DEF Lots
    <3> HIDE DEF q
    <3> QED
      BY <1>4, <3>2, <3>3, BookParts DEF Booking
  <2> QED
    BY <2>1
<1>8. \A d \in Coins : \/ new.pos[d].status = "open" => base[Tick].pos[d].status = "open"
                       \/ new.pos[d] = View(Tick).pos[d]
  BY <1>1, <1>6, <1>7
<1>9. \A d \in Coins \ (decided \cup judged) : new.pos[d] = Free
  <2>1. \A d \in Coins \ (decided \cup judged) : tx.pos[d] = Free /\ d # c
    BY <1>1, EmptyBook DEF LabInv, Undecided, SellBook
  <2> QED
    BY <1>6, <2>1
<1>10. ASSUME ~raced, ~stale[Tick] PROVE Balanced(new)
  <2>1. held = mem[Tick]
    BY <1>1, <1>4, <1>10, BookEqual
  <2> QED
    BY <1>1, <1>4, <1>5, <1>10, <2>1, MovesBalance DEF Sells
<1>11. /\ Flush(Tick, new) /\ at' = [at EXCEPT ![Tick] = "selling"]
       /\ UNCHANGED <<db, decided, todo, judged, sold, ghosts, cycling>>
       /\ mem[Tick].row.failed => new.row.failed
  BY <1>2, <1>4, <1>5 DEF SellBook, new
<1> QED
  BY <1>1, <1>6, <1>8, <1>9, <1>10, <1>11, TickSellsKeeps

\* The next cycle is written in the row.
LEMMA BankCycleKeeps == ASSUME LabInv, BankCycle, UNCHANGED cycling PROVE LabInv'
<1>1. /\ at[Tick] # "idle" /\ lock = {Tick} /\ View(Tick) = tx /\ todo = {}
      /\ mem[Tick] \in Books /\ tx \in Books
      /\ ~raced /\ ~stale[Tick] => mem[Tick] = tx /\ Balanced(mem[Tick])
  BY BankHolds DEF BankCycle
<1> DEFINE e    == Equity(mem[Tick].row.cash, tx.pos)
<1> DEFINE new1 == [mem[Tick] EXCEPT !.row.cycle = @ + 1]
<1> DEFINE new  == [new1 EXCEPT !.row.from = e]
<1>2. Flush(Tick, new)
  BY DEF BankCycle
<1>3. e \in Int
  BY <1>1, EquityType
<1> HIDE DEF e
<1>4. /\ new1 \in Books /\ new1.pos = mem[Tick].pos /\ new1.row.cash = mem[Tick].row.cash
      /\ new1.row.failed = mem[Tick].row.failed
  BY <1>1 DEF Books, Rows
<1> HIDE DEF new1
<1>5. /\ new \in Books /\ new.pos = mem[Tick].pos /\ new.row.cash = mem[Tick].row.cash
      /\ new.row.failed = mem[Tick].row.failed
  BY <1>3, <1>4 DEF Books, Rows
<1> HIDE DEF new
<1>6. \A c \in Coins : new.pos[c].status = "open" => base[Tick].pos[c].status = "open"
  BY <1>5, Who, OpenIs DEF LabInv, OnlyCloses
<1>7. \A c \in Coins \ (decided \cup judged) : new.pos[c] = Free
  BY <1>5 DEF LabInv, Undecided
<1>8. ~raced /\ ~stale[Tick] => Balanced(new)
  BY <1>1, <1>5, SameBalance
<1>9. /\ at' = [at EXCEPT ![Tick] = "commit"]
      /\ UNCHANGED <<db, decided, todo, judged, sold, ghosts, cycling>>
  BY DEF BankCycle
<1> QED
  BY <1>1, <1>2, <1>5, <1>6, <1>7, <1>8, <1>9, TickSellsKeeps

\* The tick moves on, or changes its own copy, and flushes nothing.
LEMMA TickStepKeeps ==
    ASSUME LabInv, NEW new \in Books, NEW old \in Books,
           NEW to \in {"judge", "settle", "bank", "selling", "commit"},
           at' = [at EXCEPT ![Tick] = to],
           mem' = [mem EXCEPT ![Tick] = new], base' = [base EXCEPT ![Tick] = old],
           UNCHANGED <<db, tx, lock, decided, sold, ghosts, cycling>>,
           judged' \in SUBSET Coins, judged \subseteq judged',
           to \in {"bank", "selling", "commit"} => lock = {Tick},
           OpenOf(new.pos) \subseteq OpenOf(old.pos),
           todo' \subseteq OpenOf(new.pos), to # "settle" => todo' = {},
           old.row.failed => new.row.failed, db.row.failed => new.row.failed,
           \A c \in Coins \ (decided \cup judged') : new.pos[c] = Free /\ old.pos[c] = Free,
           ~raced /\ ~stale[Tick] =>
              old = View(Tick) /\ Balanced(new) /\ (to # "settle" => new = old)
    PROVE  LabInv'
<1>1. TypeOK /\ Held /\ OnlyCloses /\ Failing /\ Undecided /\ HandHolds
  BY DEF LabInv
<1>2. /\ mem' \in [Sessions -> Books] /\ base' \in [Sessions -> Books]
      /\ mem'[Tick] = new /\ base'[Tick] = old /\ at'[Tick] = to
      /\ \A o \in Sessions \ {Tick} : mem'[o] = mem[o] /\ base'[o] = base[o] /\ at'[o] = at[o]
      /\ \A h \in Hands : h \in Sessions \ {Tick}
  BY <1>1, Who DEF TypeOK
<1>3. TypeOK'
  BY <1>1, <1>2, Who, OpenIs DEF TypeOK, ghosts
<1>4. Held'
  BY <1>1, <1>2, Who DEF Held
<1>5. OnlyCloses'
  BY <1>1, <1>2, Who DEF OnlyCloses
<1>6. Failing'
  BY <1>1, <1>2, Who DEF Failing
<1>7. Undecided'
  <2>1. ASSUME NEW c \in Coins \ decided'
        PROVE  /\ db'.pos[c] = Free
               /\ \A h \in Hands : mem'[h].pos[c] = Free /\ (lock' = {h} => tx'.pos[c] = Free)
    BY <1>1, <1>2, <2>1 DEF Undecided
  <2>2. ASSUME NEW c \in Coins \ (decided \cup judged)'
        PROVE  /\ mem'[Tick].pos[c] = Free /\ base'[Tick].pos[c] = Free
               /\ lock' = {Tick} => tx'.pos[c] = Free
    BY <1>1, <1>2, <2>2 DEF Undecided
  <2> QED
    BY <2>1, <2>2 DEF Undecided
<1>8. HandHolds'
  BY <1>1, <1>2, Who DEF HandHolds
<1>9. ASSUME ~raced' PROVE Balanced(db)' /\ TickBooks' /\ HandBooks'
  <2>1. ~raced /\ Balanced(db) /\ TickBooks /\ HandBooks
    BY <1>9 DEF LabInv, ghosts
  <2>2. View(Tick)' = View(Tick)
    BY DEF View
  <2>3. TickBooks'
    BY <1>2, <2>1, <2>2 DEF TickBooks, Fresh, ghosts
  <2>4. HandBooks'
    BY <1>2, <2>1 DEF HandBooks, Fresh, ghosts
  <2> QED
    BY <2>1, <2>3, <2>4
<1>10. ConcurrencyHolds' /\ Cardinality(OpenOf(tx'.pos)) <= MaxConcurrent
  BY DEF LabInv, ConcurrencyHolds
<1> QED
  BY <1>3, <1>4, <1>5, <1>6, <1>7, <1>8, <1>9, <1>10 DEF LabInv

\* The tick loads the wallet.
LEMMA TickBeginKeeps == ASSUME LabInv, TickBegin, UNCHANGED cycling PROVE LabInv'
<1>1. TypeOK /\ Held /\ OnlyCloses /\ Undecided
  BY DEF LabInv
<1>2. db \in Books /\ View(Tick) = db /\ todo = {} /\ judged \in SUBSET Coins
  BY <1>1, Who DEF TypeOK, Held, OnlyCloses, TickBegin, View
<1>3. \A c \in Coins \ (decided \cup judged) : db.pos[c] = Free
  BY <1>1 DEF Undecided
<1>4. ~raced => Balanced(db)
  BY DEF LabInv
<1>5. /\ at' = [at EXCEPT ![Tick] = "judge"]
      /\ mem' = [mem EXCEPT ![Tick] = db] /\ base' = [base EXCEPT ![Tick] = db]
      /\ UNCHANGED <<db, tx, lock, decided, sold, ghosts, cycling>>
      /\ todo' = {} /\ judged' = judged
  BY <1>2 DEF TickBegin
<1> QED
  BY <1>2, <1>3, <1>4, <1>5, TickStepKeeps

\* What the tick holds, as TickStepKeeps asks for it.
LEMMA TickHolds ==
    ASSUME LabInv
    PROVE  /\ mem[Tick] \in Books /\ base[Tick] \in Books /\ View(Tick) \in Books
           /\ mem = [mem EXCEPT ![Tick] = mem[Tick]]
           /\ base = [base EXCEPT ![Tick] = base[Tick]]
           /\ at = [at EXCEPT ![Tick] = at[Tick]]
           /\ OpenOf(mem[Tick].pos) \subseteq OpenOf(base[Tick].pos)
           /\ base[Tick].row.failed => mem[Tick].row.failed
           /\ at[Tick] # "idle" /\ db.row.failed => mem[Tick].row.failed
           /\ at[Tick] # "idle" /\ db.row.failed => View(Tick).row.failed
           /\ \A c \in Coins \ (decided \cup judged) :
                 mem[Tick].pos[c] = Free /\ base[Tick].pos[c] = Free /\ View(Tick).pos[c] = Free
           /\ judged \in SUBSET Coins
           /\ at[Tick] # "settle" => todo = {}
           /\ ~raced /\ Fresh(Tick) =>
                 base[Tick] = View(Tick) /\ Balanced(mem[Tick])
                 /\ (at[Tick] # "settle" => mem[Tick] = base[Tick])
<1>1. TypeOK /\ OnlyCloses /\ Failing /\ Undecided
  BY DEF LabInv
<1>2. /\ mem[Tick] \in Books /\ base[Tick] \in Books /\ View(Tick) \in Books
      /\ mem = [mem EXCEPT ![Tick] = mem[Tick]]
      /\ base = [base EXCEPT ![Tick] = base[Tick]]
      /\ at = [at EXCEPT ![Tick] = at[Tick]]
      /\ judged \in SUBSET Coins
  BY <1>1, Who, ViewType DEF TypeOK
<1>3. \A c \in Coins \ (decided \cup judged) :
         mem[Tick].pos[c] = Free /\ base[Tick].pos[c] = Free /\ View(Tick).pos[c] = Free
  BY <1>1 DEF Undecided, View
<1>4. /\ base[Tick].row.failed => mem[Tick].row.failed
      /\ at[Tick] # "idle" /\ db.row.failed => mem[Tick].row.failed
      /\ at[Tick] # "idle" /\ db.row.failed => View(Tick).row.failed
  BY <1>1, Who DEF Failing, View
<1>5. /\ OpenOf(mem[Tick].pos) \subseteq OpenOf(base[Tick].pos)
      /\ at[Tick] # "settle" => todo = {}
  BY <1>1, Who DEF OnlyCloses
<1> QED
  BY <1>2, <1>3, <1>4, <1>5 DEF LabInv, TickBooks

\* A decision without a position.
LEMMA SkipKeeps ==
    ASSUME LabInv, NEW c \in Coins, Skip(c), UNCHANGED cycling PROVE LabInv'
<1>1. /\ at[Tick] = "judge" /\ judged' = judged \cup {c}
      /\ UNCHANGED <<db, tx, lock, decided, at, mem, base, todo, sold, ghosts>>
  BY DEF Skip
<1>2. todo' = {} /\ judged' \in SUBSET Coins /\ judged \subseteq judged'
  BY <1>1, TickHolds
<1>3. \A d \in Coins \ (decided \cup judged') :
         mem[Tick].pos[d] = Free /\ base[Tick].pos[d] = Free
  BY <1>1, TickHolds
<1>4. /\ at' = [at EXCEPT ![Tick] = "judge"]
      /\ mem' = [mem EXCEPT ![Tick] = mem[Tick]] /\ base' = [base EXCEPT ![Tick] = base[Tick]]
      /\ db.row.failed => mem[Tick].row.failed
      /\ ~raced /\ ~stale[Tick] =>
            base[Tick] = View(Tick) /\ Balanced(mem[Tick]) /\ mem[Tick] = base[Tick]
  BY <1>1, TickHolds DEF Fresh
<1>5. UNCHANGED <<db, tx, lock, decided, sold, ghosts, cycling>>
  BY <1>1
<1>6. mem[Tick] \in Books /\ base[Tick] \in Books
      /\ OpenOf(mem[Tick].pos) \subseteq OpenOf(base[Tick].pos)
      /\ (base[Tick].row.failed => mem[Tick].row.failed)
  BY TickHolds
<1> QED
  BY <1>2, <1>3, <1>4, <1>5, <1>6, TickStepKeeps

\* settle reads the positions, and the wallet in a Lab arm.
LEMMA SettleLoadKeeps == ASSUME LabInv, SettleLoad, UNCHANGED cycling PROVE LabInv'
<1> DEFINE now == IF cycling THEN [View(Tick) EXCEPT !.row = mem[Tick].row] ELSE View(Tick)
<1> DEFINE was == IF cycling THEN [View(Tick) EXCEPT !.row = base[Tick].row] ELSE View(Tick)
<1>1. /\ at[Tick] = "judge" /\ at' = [at EXCEPT ![Tick] = "settle"]
      /\ mem' = [mem EXCEPT ![Tick] = now] /\ base' = [base EXCEPT ![Tick] = was]
      /\ todo' = OpenOf(View(Tick).pos)
      /\ UNCHANGED <<db, tx, lock, decided, judged, sold, ghosts>>
  BY DEF SettleLoad
<1>2. /\ [View(Tick) EXCEPT !.row = mem[Tick].row] = [row |-> mem[Tick].row, pos |-> View(Tick).pos]
      /\ [View(Tick) EXCEPT !.row = base[Tick].row]
            = [row |-> base[Tick].row, pos |-> View(Tick).pos]
  BY TickHolds DEF Books
<1>3. /\ now \in Books /\ now.pos = View(Tick).pos
      /\ was \in Books /\ was.pos = View(Tick).pos
  <2>1. /\ mem[Tick].row \in Rows /\ base[Tick].row \in Rows
        /\ View(Tick) \in Books /\ View(Tick).pos \in [Coins -> Lots]
    BY TickHolds, BookParts
  <2>2. /\ [row |-> mem[Tick].row, pos |-> View(Tick).pos] \in Books
        /\ [row |-> base[Tick].row, pos |-> View(Tick).pos] \in Books
    BY <2>1, BookOf
  <2> QED
    BY <1>2, <2>1, <2>2
<1>4. (was.row.failed => now.row.failed) /\ (db.row.failed => now.row.failed)
  BY <1>1, <1>2, TickHolds
<1>5. ASSUME ~raced, ~stale[Tick] PROVE was = View(Tick) /\ now = was /\ Balanced(now)
  <2>1. base[Tick] = View(Tick) /\ Balanced(mem[Tick]) /\ mem[Tick] = base[Tick]
    BY <1>1, <1>5, TickHolds DEF Fresh
  <2>2. now.row = View(Tick).row /\ was.row = View(Tick).row
    BY <1>2, <2>1
  <2>3. now = View(Tick) /\ was = View(Tick)
    BY <1>3, <2>2, TickHolds, BookEqual
  <2> QED
    BY <2>1, <2>3
<1> HIDE DEF now, was
<1>6. \A c \in Coins \ (decided \cup judged') : now.pos[c] = Free /\ was.pos[c] = Free
  BY <1>1, <1>3, TickHolds
<1>7. judged' \in SUBSET Coins /\ judged \subseteq judged'
  BY <1>1, TickHolds
<1>8. OpenOf(now.pos) \subseteq OpenOf(was.pos) /\ todo' \subseteq OpenOf(now.pos)
  BY <1>1, <1>3
<1>9. UNCHANGED <<db, tx, lock, decided, sold, ghosts, cycling>>
  BY <1>1
<1> QED
  BY <1>1, <1>3, <1>4, <1>5, <1>6, <1>7, <1>8, <1>9, TickStepKeeps

\* One position of the loop of settle, sold, marked or left alone.
LEMMA SettleKeeps ==
    ASSUME LabInv, NEW c \in Coins, NEW book, Sells(book, mem[Tick], c), Settle(c, book),
           UNCHANGED cycling
    PROVE  LabInv'
<1>1. /\ at[Tick] = "settle" /\ c \in todo /\ todo' = todo \ {c}
      /\ mem' = [mem EXCEPT ![Tick] = book]
      /\ UNCHANGED <<db, tx, lock, decided, at, base, judged, sold, ghosts>>
  BY DEF Settle
<1>2. /\ book \in Books /\ \A d \in Coins \ {c} : book.pos[d] = mem[Tick].pos[d]
      /\ book.pos[c].status = "open" => mem[Tick].pos[c].status = "open"
      /\ mem[Tick].row.failed => book.row.failed
  BY DEF Sells, Moves
<1>3. todo \subseteq OpenOf(mem[Tick].pos)
  BY DEF LabInv, OnlyCloses
<1>4. OpenOf(book.pos) \subseteq OpenOf(base[Tick].pos) /\ todo' \subseteq OpenOf(book.pos)
  <2>1. \A d \in Coins : book.pos[d].status = "open" => mem[Tick].pos[d].status = "open"
    BY <1>2
  <2>2. OpenOf(book.pos) \subseteq OpenOf(mem[Tick].pos)
    BY <2>1, OpenIs
  <2>3. \A d \in todo' : d \in Coins \ {c} /\ mem[Tick].pos[d].status = "open"
    BY <1>1, <1>3, OpenIs
  <2>4. todo' \subseteq OpenOf(book.pos)
    BY <1>2, <2>3, OpenIs
  <2> QED
    BY <2>2, <2>4, TickHolds
<1>5. ASSUME NEW d \in Coins \ (decided \cup judged')
      PROVE  book.pos[d] = Free /\ base[Tick].pos[d] = Free
  <2>1. mem[Tick].pos[d] = Free /\ base[Tick].pos[d] = Free
    BY <1>1, <1>5, TickHolds
  <2>2. d # c
    BY <1>1, <1>3, <2>1, OpenIs, EmptyBook
  <2> QED
    BY <1>2, <2>1, <2>2
<1>6. ~raced /\ ~stale[Tick] => base[Tick] = View(Tick) /\ Balanced(book)
  BY <1>1, TickHolds, MovesBalance DEF Fresh, Sells
<1>7. /\ at' = [at EXCEPT ![Tick] = "settle"]
      /\ base' = [base EXCEPT ![Tick] = base[Tick]] /\ base[Tick] \in Books
      /\ UNCHANGED <<db, tx, lock, decided, sold, ghosts, cycling>>
      /\ judged' \in SUBSET Coins /\ judged \subseteq judged'
      /\ (base[Tick].row.failed => book.row.failed) /\ (db.row.failed => book.row.failed)
  BY <1>1, <1>2, TickHolds
<1> QED
  BY <1>1, <1>2, <1>4, <1>5, <1>6, <1>7, TickStepKeeps

\* Every outcome of the loop of settle.
LEMMA LoopKeeps ==
    ASSUME LabInv, NEW c \in Coins, UNCHANGED cycling,
           Unmarkable(c) \/ Hold(c) \/ Partial(c) \/ Close(c)
    PROVE  LabInv'
<1>1. mem[Tick] \in Books /\ View(Tick) \in Books
  BY TickHolds
<1>2. c \in todo => mem[Tick].pos[c].status = "open"
  BY OpenIs DEF LabInv, OnlyCloses
<1>3. CASE Unmarkable(c)
  <2>1. Net(mem[Tick].pos[c]) \in Int /\ mem[Tick].row.cash \in Int
    BY <1>1, BookParts, NetType DEF Rows
  <2>2. Sells(mem[Tick], mem[Tick], c)
    BY <1>1, <2>1 DEF Sells, Moves
  <2> QED
    BY <1>3, <2>2, SettleKeeps DEF Unmarkable
<1>4. CASE Hold(c)
  BY <1>1, <1>4, MarkedSells, SettleKeeps DEF Hold
<1>5. CASE Partial(c)
  <2>1. PICK m \in Marks, fill \in Marks :
           Settle(c, Halved(Marked(mem[Tick], c, m), c, fill, TRUE))
    BY <1>5 DEF Partial
  <2> DEFINE b == Marked(mem[Tick], c, m)
  <2>2. mem[Tick].pos[c].status = "open"
    BY <1>2, <2>1 DEF Settle
  <2>3. Sells(b, mem[Tick], c) /\ b.pos[c].status = "open"
    BY <1>1, <2>2, MarkedSells
  <2> HIDE DEF b
  <2>4. b \in Books
    BY <2>3 DEF Sells, Moves
  <2>5. Sells(Halved(b, c, fill, TRUE), b, c)
    BY <2>3, <2>4, HalvedSells
  <2>6. Sells(Halved(b, c, fill, TRUE), mem[Tick], c)
    BY <1>1, <2>3, <2>5, SellsTwice
  <2> QED
    BY <2>1, <2>6, SettleKeeps DEF b
<1>6. CASE Close(c)
  <2>1. PICK fill \in Marks \cup {0} : Settle(c, Judged(Closed(mem[Tick], c, fill)))
    BY <1>6 DEF Close
  <2>2. mem[Tick].pos[c].status = "open"
    BY <1>2, <2>1 DEF Settle
  <2>3. Sells(Closed(mem[Tick], c, fill), mem[Tick], c)
    BY <1>1, <2>2, ClosedSells
  <2>4. Sells(Judged(Closed(mem[Tick], c, fill)), mem[Tick], c)
    BY <1>1, <2>3, JudgedSells
  <2> QED
    BY <2>1, <2>4, SettleKeeps
<1> QED
  BY <1>3, <1>4, <1>5, <1>6

\* The target is not reached: the tick goes to its commit.
LEMMA BelowTargetKeeps == ASSUME LabInv, BelowTarget, UNCHANGED cycling PROVE LabInv'
<1>1. /\ at[Tick] = "bank" /\ at' = [at EXCEPT ![Tick] = "commit"]
      /\ UNCHANGED <<db, tx, lock, decided, mem, base, todo, judged, sold, ghosts>>
  BY DEF BelowTarget
<1>2. lock = {Tick}
  BY <1>1, Who DEF LabInv, Held
<1>3. todo' = {} /\ judged' \in SUBSET Coins /\ judged \subseteq judged'
  BY <1>1, TickHolds
<1>4. /\ mem' = [mem EXCEPT ![Tick] = mem[Tick]] /\ base' = [base EXCEPT ![Tick] = base[Tick]]
      /\ db.row.failed => mem[Tick].row.failed
      /\ ~raced /\ ~stale[Tick] =>
            base[Tick] = View(Tick) /\ Balanced(mem[Tick]) /\ mem[Tick] = base[Tick]
      /\ \A d \in Coins \ (decided \cup judged') :
            mem[Tick].pos[d] = Free /\ base[Tick].pos[d] = Free
  BY <1>1, TickHolds DEF Fresh
<1>5. UNCHANGED <<db, tx, lock, decided, sold, ghosts, cycling>>
  BY <1>1
<1>6. mem[Tick] \in Books /\ base[Tick] \in Books
      /\ OpenOf(mem[Tick].pos) \subseteq OpenOf(base[Tick].pos)
      /\ (base[Tick].row.failed => mem[Tick].row.failed)
  BY TickHolds
<1> QED
  BY <1>1, <1>2, <1>3, <1>4, <1>5, <1>6, TickStepKeeps

\* A hand session loads a position or the wallet.
LEMMA HandLoadKeeps ==
    ASSUME LabInv, NEW h \in Hands, NEW new \in Books, NEW to \in {"row", "mark"},
           NEW c \in Coins, new.pos[c] \in {db.pos[c], mem[h].pos[c]},
           at[h] \in {"idle", "row"}, at' = [at EXCEPT ![h] = to],
           mem' = [mem EXCEPT ![h] = new], base' = [base EXCEPT ![h] = new],
           sold' = [sold EXCEPT ![h] = {c}],
           UNCHANGED <<db, tx, lock, decided, todo, judged, ghosts, cycling>>,
           new.pos[c].status = "open",
           \A d \in Coins \ {c} : new.pos[d] = mem[h].pos[d],
           at[h] = "idle" => new.pos[c] = db.pos[c] /\ to = "row",
           at[h] = "row" => new.pos[c] = mem[h].pos[c] /\ sold[h] = {c} /\ new.row = db.row
    PROVE  LabInv'
<1>1. TypeOK /\ Held /\ OnlyCloses /\ Failing /\ Undecided /\ HandHolds
  BY DEF LabInv
<1>2. /\ mem' \in [Sessions -> Books] /\ base' \in [Sessions -> Books]
      /\ mem'[h] = new /\ base'[h] = new /\ at'[h] = to /\ sold'[h] = {c}
      /\ \A o \in Sessions \ {h} :
            mem'[o] = mem[o] /\ base'[o] = base[o] /\ at'[o] = at[o] /\ sold'[o] = sold[o]
      /\ h \in Sessions /\ Tick \in Sessions \ {h} /\ lock # {h}
  BY <1>1, Who DEF TypeOK, Held
<1>3. TypeOK'
  BY <1>1, <1>2, Who DEF TypeOK, ghosts
<1>4. Held'
  BY <1>1, <1>2 DEF Held
<1>5. OnlyCloses'
  BY <1>1, <1>2 DEF OnlyCloses
<1>6. Failing'
  BY <1>1, <1>2, Who DEF Failing
<1>7. Undecided'
  <2>1. ASSUME NEW d \in Coins \ decided' PROVE db.pos[d] = Free /\ new.pos[d] = Free
    <3>1. db.pos[d] = Free /\ mem[h].pos[d] = Free
      BY <1>1, <2>1 DEF Undecided
    <3>2. d # c
      BY <3>1, EmptyBook
    <3> QED
      BY <3>1, <3>2
  <2>2. ASSUME NEW d \in Coins \ decided'
        PROVE  /\ db'.pos[d] = Free
               /\ \A o \in Hands : mem'[o].pos[d] = Free /\ (lock' = {o} => tx'.pos[d] = Free)
    BY <1>1, <1>2, <2>1, <2>2, Who DEF Undecided
  <2>3. ASSUME NEW d \in Coins \ (decided \cup judged)'
        PROVE  /\ mem'[Tick].pos[d] = Free /\ base'[Tick].pos[d] = Free
               /\ lock' = {Tick} => tx'.pos[d] = Free
    BY <1>1, <1>2, <2>3 DEF Undecided
  <2> QED
    BY <2>2, <2>3 DEF Undecided
<1>8. HandHolds'
  BY <1>1, <1>2, Who DEF HandHolds
<1>9. ASSUME ~raced' PROVE Balanced(db)' /\ TickBooks' /\ HandBooks'
  <2>1. ~raced /\ Balanced(db) /\ TickBooks /\ HandBooks
    BY <1>9 DEF LabInv, ghosts
  <2>2. View(Tick)' = View(Tick)
    BY DEF View
  <2>3. TickBooks'
    BY <1>2, <2>1, <2>2 DEF TickBooks, Fresh, ghosts
  <2>4. ASSUME NEW o \in Hands, Fresh(o)'
        PROVE  /\ at'[o] \in {"row", "mark"} => \A d \in sold'[o] : mem'[o].pos[d] = db'.pos[d]
               /\ at'[o] = "mark" => mem'[o].row = db'.row
               /\ at'[o] = "commit" => Balanced(tx')
    <3>1. CASE o = h
      BY <1>2, <2>1, <2>4, <3>1 DEF HandBooks, Fresh, ghosts
    <3>2. CASE o # h
      BY <1>2, <2>1, <2>4, <3>2, Who DEF HandBooks, Fresh, ghosts
    <3> QED
      BY <3>1, <3>2
  <2>5. HandBooks'
    BY <2>4 DEF HandBooks
  <2> QED
    BY <2>1, <2>3, <2>5
<1>10. ConcurrencyHolds' /\ Cardinality(OpenOf(tx'.pos)) <= MaxConcurrent
  BY DEF LabInv, ConcurrencyHolds
<1> QED
  BY <1>3, <1>4, <1>5, <1>6, <1>7, <1>8, <1>9, <1>10 DEF LabInv

\* The position first.
LEMMA HandLoadPositionKeeps ==
    ASSUME LabInv, NEW h \in Hands, NEW c \in Coins, HandLoadPosition(h, c), UNCHANGED cycling
    PROVE  LabInv'
<1>1. TypeOK /\ HandHolds /\ h \in Sessions
  BY Who DEF LabInv
<1> DEFINE new == [mem[h] EXCEPT !.pos[c] = db.pos[c]]
<1>2. mem[h] \in Books /\ base[h] = mem[h] /\ db \in Books /\ db.pos[c] \in Lots
  BY <1>1, BookParts DEF TypeOK, HandHolds
<1>3. /\ mem' = [mem EXCEPT ![h] = new] /\ base' = [base EXCEPT ![h] = new]
      /\ at[h] = "idle" /\ db.pos[c].status = "open" /\ at' = [at EXCEPT ![h] = "row"]
      /\ sold' = [sold EXCEPT ![h] = {c}]
      /\ UNCHANGED <<db, tx, lock, decided, todo, judged, ghosts, cycling>>
  BY <1>1, <1>2 DEF HandLoadPosition, TypeOK
<1>4. /\ new \in Books /\ new.pos[c] = db.pos[c]
      /\ \A d \in Coins \ {c} : new.pos[d] = mem[h].pos[d]
  BY <1>2 DEF Books
<1> HIDE DEF new
<1>5. /\ new.pos[c] \in {db.pos[c], mem[h].pos[c]} /\ new.pos[c].status = "open"
      /\ at[h] = "idle" => new.pos[c] = db.pos[c] /\ "row" = "row"
      /\ at[h] = "row" => new.pos[c] = mem[h].pos[c] /\ sold[h] = {c} /\ new.row = db.row
      /\ at[h] \in {"idle", "row"}
  BY <1>3, <1>4
<1> QED
  BY <1>3, <1>4, <1>5, HandLoadKeeps

\* Then the wallet.
LEMMA HandLoadRowKeeps ==
    ASSUME LabInv, NEW h \in Hands, HandLoadRow(h), UNCHANGED cycling
    PROVE  LabInv'
<1>1. TypeOK /\ HandHolds /\ h \in Sessions
  BY Who DEF LabInv
<1> DEFINE new == [mem[h] EXCEPT !.row = db.row]
<1>2. mem[h] \in Books /\ base[h] = mem[h] /\ db \in Books /\ db.row \in Rows
  BY <1>1, BookParts DEF TypeOK, HandHolds
<1>3. /\ mem' = [mem EXCEPT ![h] = new] /\ base' = [base EXCEPT ![h] = new]
      /\ at[h] = "row" /\ at' = [at EXCEPT ![h] = "mark"]
      /\ UNCHANGED <<db, tx, lock, decided, todo, judged, sold, ghosts, cycling>>
  BY <1>1, <1>2 DEF HandLoadRow, TypeOK
<1>4. new \in Books /\ new.row = db.row /\ new.pos = mem[h].pos
  BY <1>2 DEF Books
<1> HIDE DEF new
<1>5. PICK c \in Coins : sold[h] = {c} /\ mem[h].pos[c].status = "open"
  BY <1>1, <1>3 DEF HandHolds
<1>6. sold' = [sold EXCEPT ![h] = {c}]
  BY <1>1, <1>3, <1>5 DEF TypeOK
<1>7. /\ new.pos[c] \in {db.pos[c], mem[h].pos[c]} /\ new.pos[c].status = "open"
      /\ \A d \in Coins \ {c} : new.pos[d] = mem[h].pos[d]
      /\ at[h] # "idle"
      /\ at[h] = "row" => new.pos[c] = mem[h].pos[c] /\ sold[h] = {c} /\ new.row = db.row
      /\ at[h] \in {"idle", "row"}
      /\ UNCHANGED <<db, tx, lock, decided, todo, judged, ghosts, cycling>>
      /\ mem' = [mem EXCEPT ![h] = new] /\ base' = [base EXCEPT ![h] = new]
      /\ at' = [at EXCEPT ![h] = "mark"] /\ new \in Books
  BY <1>3, <1>4, <1>5
<1> QED
  BY <1>6, <1>7, HandLoadKeeps

\* The flush of a hand close or a trim.
LEMMA HandFlushKeeps ==
    ASSUME LabInv, NEW h \in Hands, NEW c \in sold[h], NEW new,
           at[h] = "mark", Sells(new, mem[h], c), new.row.failed = mem[h].row.failed,
           Flush(h, new), at' = [at EXCEPT ![h] = "commit"],
           UNCHANGED <<db, decided, todo, judged, sold, ghosts, cycling>>
    PROVE  LabInv'
<1>1. TypeOK /\ Held /\ OnlyCloses /\ Failing /\ Undecided /\ HandHolds
  BY DEF LabInv
<1>2. h \in Sessions /\ h # Tick /\ lock # {h} /\ View(h) = db
  BY <1>1, Who DEF Held, View
<1>3. c \in Coins /\ mem[h].pos[c].status = "open" /\ base[h] = mem[h] /\ sold[h] = {c}
  BY <1>1 DEF HandHolds
<1>4. mem[h] \in Books /\ db \in Books
  BY <1>1, <1>2 DEF TypeOK
<1>5. /\ new \in Books /\ \A d \in Coins \ {c} : new.pos[d] = mem[h].pos[d]
      /\ new.row.cash = mem[h].row.cash + Net(new.pos[c]) - Net(mem[h].pos[c])
  BY DEF Sells, Moves
<1>6. /\ lock \subseteq {h} /\ lock' = {h}
      /\ tx' = Apply(new, mem[h], db) /\ tx' \in Books
      /\ mem' \in [Sessions -> Books] /\ base' \in [Sessions -> Books]
      /\ mem'[h] = new /\ base'[h] = new
      /\ \A o \in Sessions \ {h} : mem'[o] = mem[o] /\ base'[o] = base[o]
  BY <1>1, <1>2, <1>3, <1>5, Flushed
<1>7. /\ \A o \in Sessions \ {h} : lock # {o} /\ lock' # {o} /\ at'[o] = at[o]
      /\ at'[h] = "commit" /\ Tick \in Sessions \ {h}
  BY <1>1, <1>2, <1>6, Who DEF TypeOK
<1>8. \A d \in Coins \ {c} : tx'.pos[d] = db.pos[d]
  BY <1>4, <1>5, <1>6, AppliedLot
<1>9. OpenOf(tx'.pos) \subseteq OpenOf(db.pos)
  <2> SUFFICES ASSUME NEW d \in Coins, tx'.pos[d].status = "open"
               PROVE  db.pos[d].status = "open"
    BY OpenIs
  <2>1. CASE d = c
    BY <1>3, <1>4, <1>5, <1>6, <2>1, AppliedOpen
  <2>2. CASE d # c
    BY <1>8, <2>2
  <2> QED
    BY <2>1, <2>2
<1>10. tx'.row.failed = db.row.failed
  BY <1>4, <1>5, <1>6, AppliedFailed
<1>11. TypeOK'
  BY <1>1, <1>2, <1>6 DEF TypeOK, ghosts
<1>12. Held'
  BY <1>1, <1>6, <1>7 DEF Held
<1>13. OnlyCloses'
  BY <1>1, <1>6, <1>7 DEF OnlyCloses
<1>14. Failing'
  <2>1. \A s \in Sessions : base'[s].row.failed => mem'[s].row.failed
    BY <1>1, <1>6 DEF Failing
  <2>2. at'[Tick] # "idle" /\ db'.row.failed => mem'[Tick].row.failed
    BY <1>1, <1>6, <1>7 DEF Failing
  <2> QED
    BY <1>9, <1>10, <2>1, <2>2 DEF Failing
<1>15. Undecided'
  <2>1. ASSUME NEW d \in Coins \ decided'
        PROVE  db.pos[d] = Free /\ new.pos[d] = Free /\ tx'.pos[d] = Free
    <3>1. db.pos[d] = Free /\ mem[h].pos[d] = Free
      BY <1>1, <2>1 DEF Undecided
    <3>2. d # c
      BY <1>3, <3>1, EmptyBook
    <3> QED
      BY <1>5, <1>8, <3>1, <3>2
  <2>2. ASSUME NEW d \in Coins \ decided'
        PROVE  /\ db'.pos[d] = Free
               /\ \A o \in Hands : mem'[o].pos[d] = Free /\ (lock' = {o} => tx'.pos[d] = Free)
    BY <1>1, <1>6, <2>1, <2>2, Who DEF Undecided
  <2>3. ASSUME NEW d \in Coins \ (decided \cup judged)'
        PROVE  /\ mem'[Tick].pos[d] = Free /\ base'[Tick].pos[d] = Free
               /\ lock' = {Tick} => tx'.pos[d] = Free
    BY <1>1, <1>6, <1>7, <2>3 DEF Undecided
  <2> QED
    BY <2>2, <2>3 DEF Undecided
<1>16. HandHolds'
  BY <1>1, <1>6, <1>7, Who DEF HandHolds
<1>17. ConcurrencyHolds' /\ Cardinality(OpenOf(tx'.pos)) <= MaxConcurrent
  BY <1>9, FewerOpen DEF LabInv, ConcurrencyHolds
<1>18. ASSUME ~raced' PROVE Balanced(db)' /\ TickBooks' /\ HandBooks'
  <2>1. ~raced /\ Balanced(db) /\ TickBooks /\ HandBooks
    BY <1>18 DEF LabInv, ghosts
  <2>2. View(Tick)' = View(Tick)
    BY <1>7 DEF View
  <2>3. TickBooks'
    BY <1>6, <1>7, <2>1, <2>2 DEF TickBooks, Fresh, ghosts
  <2>4. ASSUME ~stale[h] PROVE Balanced(tx')
    <3>1. mem[h].pos[c] = db.pos[c] /\ mem[h].row = db.row
      BY <2>1, <2>4 DEF HandBooks, Fresh
    <3>2. tx'.row = new.row /\ tx'.pos[c] = new.pos[c]
      BY <1>3, <1>4, <1>5, <1>6, <3>1, Applied, BookParts, ChangedRow, ChangedLot
    <3>3. Moves(tx', db, c)
      BY <1>5, <1>6, <1>8, <3>1, <3>2 DEF Moves
    <3> QED
      BY <1>3, <1>4, <2>1, <3>3, MovesBalance
  <2>5. ASSUME NEW o \in Hands, Fresh(o)'
        PROVE  /\ at'[o] \in {"row", "mark"} => \A d \in sold'[o] : mem'[o].pos[d] = db'.pos[d]
               /\ at'[o] = "mark" => mem'[o].row = db'.row
               /\ at'[o] = "commit" => Balanced(tx')
    <3>1. CASE o = h
      BY <1>7, <2>4, <2>5, <3>1 DEF Fresh, ghosts
    <3>2. CASE o # h
      <4>1. o \in Sessions \ {h} /\ at'[o] = at[o] /\ at[o] # "commit"
        BY <1>1, <1>7, <3>2, Who DEF Held
      <4> QED
        BY <1>6, <2>1, <2>5, <4>1 DEF HandBooks, Fresh, ghosts
    <3> QED
      BY <3>1, <3>2
  <2>6. HandBooks'
    BY <2>5 DEF HandBooks
  <2> QED
    BY <2>1, <2>3, <2>6
<1> QED
  BY <1>11, <1>12, <1>13, <1>14, <1>15, <1>16, <1>17, <1>18 DEF LabInv

\* close_manually and trim_manually.
LEMMA HandSellsKeeps ==
    ASSUME LabInv, NEW h \in Hands, HandClose(h) \/ HandTrim(h), UNCHANGED cycling
    PROVE  LabInv'
<1>1. TypeOK /\ HandHolds /\ h \in Sessions /\ mem[h] \in Books /\ at[h] = "mark"
  BY Who DEF LabInv, TypeOK, HandClose, HandTrim
<1>2. \A c \in sold[h] : c \in Coins /\ mem[h].pos[c].status = "open"
  BY <1>1 DEF HandHolds
<1>3. /\ at' = [at EXCEPT ![h] = "commit"]
      /\ UNCHANGED <<db, decided, todo, judged, sold, ghosts, cycling>>
  BY DEF HandClose, HandTrim
<1>4. CASE HandClose(h)
  <2>1. PICK c \in sold[h], fill \in Marks \cup {0} : Flush(h, Closed(mem[h], c, fill))
    BY <1>4 DEF HandClose
  <2>2. /\ Sells(Closed(mem[h], c, fill), mem[h], c)
        /\ Closed(mem[h], c, fill).row.failed = mem[h].row.failed
    BY <1>1, <1>2, ClosedSells
  <2> QED
    BY <1>1, <1>3, <2>1, <2>2, HandFlushKeeps
<1>5. CASE HandTrim(h)
  <2>1. PICK c \in sold[h], m \in Marks : Flush(h, Halved(mem[h], c, m, mem[h].pos[c].partial))
    BY <1>5 DEF HandTrim
  <2>2. mem[h].pos[c].partial \in BOOLEAN
    BY <1>1, <1>2, BookParts DEF Lots
  <2>3. /\ Sells(Halved(mem[h], c, m, mem[h].pos[c].partial), mem[h], c)
        /\ Halved(mem[h], c, m, mem[h].pos[c].partial).row.failed = mem[h].row.failed
    BY <1>1, <1>2, <2>2, HalvedSells
  <2> QED
    BY <1>1, <1>3, <2>1, <2>3, HandFlushKeeps
<1> QED
  BY <1>4, <1>5

\* What every end of a session does to the sessions.
LEMMA Ended ==
    ASSUME LabInv, NEW s \in Sessions, End(s), db' \in Books
    PROVE  /\ mem' \in [Sessions -> Books] /\ base' \in [Sessions -> Books]
           /\ at'[s] = "idle" /\ mem'[s] = NewBook /\ base'[s] = NewBook /\ ~stale'[s]
           /\ \A o \in Sessions \ {s} :
                 /\ at'[o] = at[o] /\ mem'[o] = mem[o] /\ base'[o] = base[o] /\ sold'[o] = sold[o]
                 /\ Fresh(o)' => Fresh(o) /\ db' = db
           /\ at' \in [Sessions -> {"idle", "judge", "settle", "bank", "selling", "commit",
                                    "row", "mark"}]
           /\ sold' \in [Sessions -> SUBSET Coins] /\ stale' \in [Sessions -> BOOLEAN]
           /\ todo' \in SUBSET Coins /\ judged' \in SUBSET Coins
           /\ s = Tick => todo' = {} /\ judged' = {}
           /\ s # Tick => todo' = todo /\ judged' = judged
<1>1. TypeOK
  BY DEF LabInv
<1>2. NewBook \in Books
  BY EmptyBook
<1>3. /\ mem' \in [Sessions -> Books] /\ base' \in [Sessions -> Books]
      /\ at'[s] = "idle" /\ mem'[s] = NewBook /\ base'[s] = NewBook
      /\ \A o \in Sessions \ {s} :
            at'[o] = at[o] /\ mem'[o] = mem[o] /\ base'[o] = base[o] /\ sold'[o] = sold[o]
  BY <1>1, <1>2 DEF End, TypeOK
<1>4. /\ at' \in [Sessions -> {"idle", "judge", "settle", "bank", "selling", "commit",
                               "row", "mark"}]
      /\ sold' \in [Sessions -> SUBSET Coins]
  BY <1>1 DEF End, TypeOK
<1>5. /\ todo' \in SUBSET Coins /\ judged' \in SUBSET Coins
      /\ s = Tick => todo' = {} /\ judged' = {}
      /\ s # Tick => todo' = todo /\ judged' = judged
  BY <1>1 DEF End, TypeOK
<1>6. stale' \in [Sessions -> BOOLEAN]
  BY <1>1 DEF End, TypeOK
<1>7. ~stale'[s]
  BY DEF End
<1>8. ASSUME NEW o \in Sessions \ {s}, Fresh(o)' PROVE Fresh(o) /\ db' = db
  <2>1. stale'[o] = (o # s /\ (stale[o] \/ (at[o] # "idle" /\ db' # db)))
    BY DEF End
  <2> QED
    BY <1>3, <1>8, <2>1 DEF Fresh
<1> QED
  BY <1>3, <1>4, <1>5, <1>6, <1>7, <1>8

\* A commit publishes the rows under the lock.
LEMMA CommitKeeps ==
    ASSUME LabInv, NEW s \in Sessions, Commit(s), UNCHANGED cycling PROVE LabInv'
<1>1. TypeOK /\ Held /\ OnlyCloses /\ Failing /\ Undecided /\ HandHolds
  BY DEF LabInv
<1>2. /\ at[s] = "commit" /\ db' = tx /\ lock' = {} /\ tx' = NewBook /\ End(s)
      /\ raced' = (raced \/ stale[s])
      /\ decided' = IF s = Tick THEN decided \cup judged ELSE decided
  BY DEF Commit
<1>3. lock = {s} /\ db' \in Books /\ tx' \in Books
  BY <1>1, <1>2, EmptyBook DEF Held, TypeOK
<1>4. \A o \in Sessions \ {s} : lock # {o}
  BY <1>3
<1>5. /\ mem' \in [Sessions -> Books] /\ base' \in [Sessions -> Books]
      /\ at'[s] = "idle" /\ mem'[s] = NewBook /\ base'[s] = NewBook /\ ~stale'[s]
      /\ \A o \in Sessions \ {s} :
            /\ at'[o] = at[o] /\ mem'[o] = mem[o] /\ base'[o] = base[o] /\ sold'[o] = sold[o]
            /\ Fresh(o)' => Fresh(o) /\ db' = db
      /\ at' \in [Sessions -> {"idle", "judge", "settle", "bank", "selling", "commit",
                               "row", "mark"}]
      /\ sold' \in [Sessions -> SUBSET Coins] /\ stale' \in [Sessions -> BOOLEAN]
      /\ todo' \in SUBSET Coins /\ judged' \in SUBSET Coins
      /\ s = Tick => todo' = {} /\ judged' = {}
      /\ s # Tick => todo' = todo /\ judged' = judged
  BY <1>2, <1>3, Ended
<1>6. TypeOK'
  <2>1. raced' \in BOOLEAN /\ decided' \in SUBSET Coins
    BY <1>1, <1>2 DEF TypeOK
  <2> QED
    BY <1>1, <1>2, <1>3, <1>5, <2>1 DEF TypeOK
<1>7. Held'
  BY <1>1, <1>2, <1>4, <1>5 DEF Held
<1>8. OnlyCloses'
  <2>1. \A o \in Sessions : OpenOf(mem'[o].pos) \subseteq OpenOf(base'[o].pos)
    BY <1>1, <1>5 DEF OnlyCloses
  <2>2. CASE s = Tick
    BY <1>5, <2>1, <2>2 DEF OnlyCloses
  <2>3. CASE s # Tick
    BY <1>1, <1>5, <2>1, <2>3, Who DEF OnlyCloses
  <2> QED
    BY <2>2, <2>3
<1>9. Failing'
  <2>1. \A o \in Sessions : base'[o].row.failed => mem'[o].row.failed
    BY <1>1, <1>5 DEF Failing
  <2>2. at'[Tick] # "idle" /\ db'.row.failed => mem'[Tick].row.failed
    BY <1>1, <1>2, <1>3, <1>5, Who DEF Failing
  <2> QED
    BY <1>2, <2>1, <2>2 DEF Failing
<1>10. Undecided'
  <2>1. ASSUME NEW c \in Coins \ decided' PROVE tx.pos[c] = Free /\ c \notin decided
    <3>1. CASE s = Tick
      BY <1>1, <1>2, <1>3, <2>1, <3>1 DEF Undecided
    <3>2. CASE s # Tick
      BY <1>1, <1>2, <1>3, <2>1, <3>2, Who DEF Undecided
    <3> QED
      BY <3>1, <3>2
  <2>2. ASSUME NEW c \in Coins \ decided'
        PROVE  /\ db'.pos[c] = Free
               /\ \A h \in Hands : mem'[h].pos[c] = Free /\ (lock' = {h} => tx'.pos[c] = Free)
    BY <1>1, <1>2, <1>5, <2>1, <2>2, Who, EmptyBook DEF Undecided
  <2>3. ASSUME NEW c \in Coins \ (decided \cup judged)'
        PROVE  /\ mem'[Tick].pos[c] = Free /\ base'[Tick].pos[c] = Free
               /\ lock' = {Tick} => tx'.pos[c] = Free
    <3>1. CASE s = Tick
      BY <1>2, <1>5, <3>1, EmptyBook
    <3>2. CASE s # Tick
      BY <1>1, <1>2, <1>5, <2>3, <3>2, Who, EmptyBook DEF Undecided
    <3> QED
      BY <3>1, <3>2
  <2> QED
    BY <2>2, <2>3 DEF Undecided
<1>11. HandHolds'
  BY <1>1, <1>5, Who DEF HandHolds
<1>12. ConcurrencyHolds' /\ Cardinality(OpenOf(tx'.pos)) <= MaxConcurrent
  BY <1>2, EmptyBook, FS_EmptySet, Numbers DEF LabInv, ConcurrencyHolds
<1>13. ASSUME ~raced' PROVE Balanced(db)' /\ TickBooks' /\ HandBooks'
  <2>1. ~raced /\ ~stale[s]
    BY <1>2, <1>13
  <2>2. Balanced(db) /\ TickBooks /\ HandBooks
    BY <2>1 DEF LabInv
  <2>3. Balanced(tx)
    <3>1. CASE s = Tick
      BY <1>2, <1>3, <2>1, <2>2, <3>1 DEF TickBooks, Fresh, View
    <3>2. CASE s # Tick
      BY <1>2, <2>1, <2>2, <3>2, Who DEF HandBooks, Fresh
    <3> QED
      BY <3>1, <3>2
  <2>4. TickBooks'
    <3>1. CASE s = Tick
      BY <1>5, <3>1 DEF TickBooks, Fresh
    <3>2. ASSUME s # Tick, Fresh(Tick)'
          PROVE  /\ base'[Tick] = View(Tick)' /\ Balanced(mem'[Tick])
                 /\ at'[Tick] # "settle" => mem'[Tick] = base'[Tick]
      <4>1. Fresh(Tick) /\ db' = db /\ Tick \in Sessions \ {s}
        BY <1>5, <3>2, Who
      <4>2. View(Tick) = db /\ View(Tick)' = db
        BY <1>2, <1>4, <4>1 DEF View
      <4> QED
        BY <1>5, <2>2, <4>1, <4>2 DEF TickBooks
    <3> QED
      BY <3>1, <3>2 DEF TickBooks
  <2>5. ASSUME NEW o \in Hands, Fresh(o)'
        PROVE  /\ at'[o] \in {"row", "mark"} => \A d \in sold'[o] : mem'[o].pos[d] = db'.pos[d]
               /\ at'[o] = "mark" => mem'[o].row = db'.row
               /\ at'[o] = "commit" => Balanced(tx')
    <3>1. o \in Sessions \ {s}
      BY <1>5, <2>5, Who DEF Fresh
    <3>2. Fresh(o) /\ db' = db /\ at[o] # "commit"
      BY <1>1, <1>4, <1>5, <2>5, <3>1 DEF Held
    <3> QED
      BY <1>5, <2>2, <3>1, <3>2 DEF HandBooks
  <2>6. HandBooks'
    BY <2>5 DEF HandBooks
  <2> QED
    BY <1>2, <2>3, <2>4, <2>6
<1> QED
  BY <1>6, <1>7, <1>8, <1>9, <1>10, <1>11, <1>12, <1>13 DEF LabInv

\* A rollback forgets one session.
LEMMA RollbackKeeps ==
    ASSUME LabInv, NEW s \in Sessions, Rollback(s), UNCHANGED cycling PROVE LabInv'
<1>1. TypeOK /\ Held /\ OnlyCloses /\ Failing /\ Undecided /\ HandHolds
  BY DEF LabInv
<1>2. /\ lock' = lock \ {s} /\ tx' = (IF lock = {s} THEN NewBook ELSE tx) /\ End(s)
      /\ UNCHANGED <<db, decided, raced>>
  BY DEF Rollback
<1>3. db' \in Books /\ tx' \in Books
  BY <1>1, <1>2, EmptyBook DEF TypeOK
<1>4. /\ \A o \in Sessions \ {s} : (lock' = {o} <=> lock = {o}) /\ (lock = {o} => tx' = tx)
      /\ lock' # {s}
      /\ lock' # {} => lock' = lock /\ tx' = tx
      /\ lock' \in {{}} \cup {{o} : o \in Sessions}
  BY <1>1, <1>2 DEF TypeOK
<1>5. /\ mem' \in [Sessions -> Books] /\ base' \in [Sessions -> Books]
      /\ at'[s] = "idle" /\ mem'[s] = NewBook /\ base'[s] = NewBook /\ ~stale'[s]
      /\ \A o \in Sessions \ {s} :
            /\ at'[o] = at[o] /\ mem'[o] = mem[o] /\ base'[o] = base[o] /\ sold'[o] = sold[o]
            /\ Fresh(o)' => Fresh(o) /\ db' = db
      /\ at' \in [Sessions -> {"idle", "judge", "settle", "bank", "selling", "commit",
                               "row", "mark"}]
      /\ sold' \in [Sessions -> SUBSET Coins] /\ stale' \in [Sessions -> BOOLEAN]
      /\ todo' \in SUBSET Coins /\ judged' \in SUBSET Coins
      /\ s = Tick => todo' = {} /\ judged' = {}
      /\ s # Tick => todo' = todo /\ judged' = judged
  BY <1>2, <1>3, Ended
<1>6. TypeOK'
  BY <1>1, <1>2, <1>3, <1>4, <1>5 DEF TypeOK
<1>7. Held'
  BY <1>1, <1>4, <1>5 DEF Held
<1>8. OnlyCloses'
  <2>1. \A o \in Sessions : OpenOf(mem'[o].pos) \subseteq OpenOf(base'[o].pos)
    BY <1>1, <1>5 DEF OnlyCloses
  <2>2. CASE s = Tick
    BY <1>5, <2>1, <2>2 DEF OnlyCloses
  <2>3. CASE s # Tick
    BY <1>1, <1>5, <2>1, <2>3, Who DEF OnlyCloses
  <2> QED
    BY <2>2, <2>3
<1>9. Failing'
  <2>1. \A o \in Sessions : base'[o].row.failed => mem'[o].row.failed
    BY <1>1, <1>5 DEF Failing
  <2>2. at'[Tick] # "idle" /\ db'.row.failed => mem'[Tick].row.failed
    BY <1>1, <1>2, <1>5, Who DEF Failing
  <2>3. \A h \in Hands : lock' = {h} => tx'.row.failed = db'.row.failed
    BY <1>1, <1>2, <1>4, Who DEF Failing
  <2>4. lock' # {} /\ db'.row.failed =>
           tx'.row.failed /\ OpenOf(tx'.pos) \subseteq OpenOf(db'.pos)
    BY <1>1, <1>2, <1>4 DEF Failing
  <2> QED
    BY <2>1, <2>2, <2>3, <2>4 DEF Failing
<1>10. Undecided'
  <2>1. ASSUME NEW c \in Coins \ decided'
        PROVE  /\ db'.pos[c] = Free
               /\ \A h \in Hands : mem'[h].pos[c] = Free /\ (lock' = {h} => tx'.pos[c] = Free)
    BY <1>1, <1>2, <1>4, <1>5, <2>1, Who, EmptyBook DEF Undecided
  <2>2. ASSUME NEW c \in Coins \ (decided \cup judged)'
        PROVE  /\ mem'[Tick].pos[c] = Free /\ base'[Tick].pos[c] = Free
               /\ lock' = {Tick} => tx'.pos[c] = Free
    <3>1. CASE s = Tick
      BY <1>4, <1>5, <3>1, EmptyBook
    <3>2. CASE s # Tick
      BY <1>1, <1>2, <1>4, <1>5, <2>2, <3>2, Who DEF Undecided
    <3> QED
      BY <3>1, <3>2
  <2> QED
    BY <2>1, <2>2 DEF Undecided
<1>11. HandHolds'
  BY <1>1, <1>5, Who DEF HandHolds
<1>12. ConcurrencyHolds' /\ Cardinality(OpenOf(tx'.pos)) <= MaxConcurrent
  BY <1>2, EmptyBook, FS_EmptySet, Numbers DEF LabInv, ConcurrencyHolds
<1>13. ASSUME ~raced' PROVE Balanced(db)' /\ TickBooks' /\ HandBooks'
  <2>1. Balanced(db) /\ TickBooks /\ HandBooks
    BY <1>2, <1>13 DEF LabInv
  <2>2. TickBooks'
    <3>1. CASE s = Tick
      BY <1>5, <3>1 DEF TickBooks, Fresh
    <3>2. ASSUME s # Tick, Fresh(Tick)'
          PROVE  /\ base'[Tick] = View(Tick)' /\ Balanced(mem'[Tick])
                 /\ at'[Tick] # "settle" => mem'[Tick] = base'[Tick]
      <4>1. Fresh(Tick) /\ Tick \in Sessions \ {s}
        BY <1>5, <3>2, Who
      <4>2. View(Tick)' = View(Tick)
        BY <1>2, <1>4, <4>1 DEF View
      <4> QED
        BY <1>5, <2>1, <4>1, <4>2 DEF TickBooks
    <3> QED
      BY <3>1, <3>2 DEF TickBooks
  <2>3. ASSUME NEW o \in Hands, Fresh(o)'
        PROVE  /\ at'[o] \in {"row", "mark"} => \A d \in sold'[o] : mem'[o].pos[d] = db'.pos[d]
               /\ at'[o] = "mark" => mem'[o].row = db'.row
               /\ at'[o] = "commit" => Balanced(tx')
    <3>1. o \in Sessions \ {s}
      BY <1>5, <2>3, Who DEF Fresh
    <3>2. Fresh(o) /\ db' = db /\ (at[o] = "commit" => tx' = tx)
      BY <1>1, <1>4, <1>5, <2>3, <3>1 DEF Held
    <3> QED
      BY <1>5, <2>1, <3>1, <3>2 DEF HandBooks
  <2>4. HandBooks'
    BY <2>3 DEF HandBooks
  <2> QED
    BY <1>2, <2>1, <2>2, <2>4
<1> QED
  BY <1>6, <1>7, <1>8, <1>9, <1>10, <1>11, <1>12, <1>13 DEF LabInv

\* Every step keeps the invariant.
LEMMA StepKeepsInv == LabInv /\ [Next]_vars => LabInv'
<1> SUFFICES ASSUME LabInv, [Next]_vars PROVE LabInv'
  OBVIOUS
<1>1. CASE UNCHANGED vars
  <2>1. TypeOK' /\ Held' /\ OnlyCloses'
    BY <1>1 DEF vars, ghosts, LabInv, TypeOK, Held, OnlyCloses
  <2>2. Failing' /\ Undecided' /\ HandHolds'
    BY <1>1 DEF vars, LabInv, Failing, Undecided, HandHolds
  <2>3. ConcurrencyHolds' /\ Cardinality(OpenOf(tx'.pos)) <= MaxConcurrent
    BY <1>1 DEF vars, LabInv, ConcurrencyHolds
  <2>4. ~raced' => Balanced(db)' /\ TickBooks' /\ HandBooks'
    BY <1>1 DEF vars, ghosts, LabInv, TickBooks, HandBooks, Fresh, View
  <2> QED
    BY <2>1, <2>2, <2>3, <2>4 DEF LabInv
<1>2. CASE Next
  <2>1. UNCHANGED cycling
    BY <1>2 DEF Next
  <2>2. CASE TickBegin \/ SettleLoad \/ SettleEnd \/ BelowTarget \/ BankCycle
    BY <2>1, <2>2, TickBeginKeeps, SettleLoadKeeps, SettleEndKeeps, BelowTargetKeeps,
       BankCycleKeeps
  <2>3. ASSUME NEW c \in Coins,
               \/ Skip(c) \/ Open(c) \/ Unmarkable(c) \/ Hold(c) \/ Partial(c) \/ Close(c)
               \/ SellBook(c)
        PROVE  LabInv'
    BY <2>1, <2>3, SkipKeeps, OpenKeeps, LoopKeeps, SellBookKeeps
  <2>4. ASSUME NEW h \in Hands,
               \/ HandLoadRow(h) \/ HandClose(h) \/ HandTrim(h)
               \/ \E c \in Coins : HandLoadPosition(h, c)
        PROVE  LabInv'
    BY <2>1, <2>4, HandLoadRowKeeps, HandSellsKeeps, HandLoadPositionKeeps
  <2>5. ASSUME NEW s \in Sessions, Commit(s) \/ Rollback(s) PROVE LabInv'
    BY <2>1, <2>5, CommitKeeps, RollbackKeeps
  <2> QED
    BY <1>2, <2>2, <2>3, <2>4, <2>5 DEF Next, Step
<1> QED
  BY <1>1, <1>2

\* A wallet that has traded nothing balances.
LEMMA NewBalances == Balanced(NewBook)
<1> DEFINE f == [c \in Coins |-> Net(NewBook.pos[c])]
<1>1. \A c \in Coins : f[c] = 0
  BY EmptyBook DEF Net, Free
<1> HIDE DEF f
<1>2. SumFunctionOnSet(f, Coins) = 0
  BY <1>1, Numbers, SumZero
<1> QED
  BY <1>2, Numbers DEF Balanced, Booked, f, NewBook, NewRow

\* The first state.
LEMMA InitKeepsInv == Init => LabInv
<1> SUFFICES ASSUME Init PROVE LabInv
  OBVIOUS
<1>1. TypeOK
  BY EmptyBook, Who DEF Init, TypeOK
<1>2. /\ Tick \in Sessions /\ \A h \in Hands : h \in Sessions
      /\ \A s \in Sessions : at[s] = "idle" /\ mem[s] = NewBook /\ base[s] = NewBook
      /\ db = NewBook /\ tx = NewBook /\ lock = {} /\ todo = {}
  BY Who DEF Init
<1>3. Held /\ OnlyCloses /\ HandHolds
  BY <1>2 DEF Held, OnlyCloses, HandHolds
<1>4. Failing /\ Undecided
  BY <1>2, EmptyBook DEF Failing, Undecided
<1>5. ConcurrencyHolds /\ Cardinality(OpenOf(tx.pos)) <= MaxConcurrent
  BY <1>2, EmptyBook, FS_EmptySet, Numbers DEF ConcurrencyHolds
<1>6. Balanced(db) /\ TickBooks /\ HandBooks
  BY <1>2, NewBalances DEF TickBooks, HandBooks, Fresh
<1> QED
  BY <1>1, <1>3, <1>4, <1>5, <1>6 DEF LabInv

-----------------------------------------------------------------------------
(* The theorems.                                                           *)

\* In every reachable state the rows under the lock are within the limit of open
\* positions too, every copy keeps a committed failure, a coin without a decision
\* has no position in any copy, and a session that no commit has overtaken holds
\* books that balance.
THEOREM LabInvariant == Spec => []LabInv
BY InitKeepsInv, StepKeepsInv, PTL DEF Spec

\* The arm never holds more positions than max_concurrent, although _open counts
\* the rows of its own unfinished transaction and hand closes commit in between.
THEOREM LimitHolds == Spec => []ConcurrencyHolds
<1>1. LabInv => ConcurrencyHolds
  BY DEF LabInv
<1> QED
  BY <1>1, LabInvariant, PTL

\* Until a session commits what another commit has overtaken, the cash is exactly
\* what the positions account for: partials, trims, closes, cycles and rollbacks
\* neither lose nor double a payment.
THEOREM BooksBalance == Spec => []SequentialBooks
<1>1. LabInv => SequentialBooks
  BY DEF LabInv, SequentialBooks
<1> QED
  BY <1>1, LabInvariant, PTL

\* A committed failure is never undone and no position opens after it, whatever
\* the row another session loaded before it.
THEOREM FailureStays == Spec => FailedIsFinal
<1> DEFINE Kept == db.row.failed => db'.row.failed /\ OpenOf(db'.pos) \subseteq OpenOf(db.pos)
<1>1. LabInv /\ [Next]_vars => [Kept]_vars
  <2> SUFFICES ASSUME LabInv, Next PROVE Kept
    OBVIOUS
  <2>1. CASE \E s \in Sessions : Commit(s)
    BY <2>1 DEF LabInv, Held, Failing, Commit
  <2>2. CASE ~\E s \in Sessions : Commit(s)
    <3>1. db' = db
      BY <2>2 DEF Next, Step, TickBegin, SettleLoad, SettleEnd, BelowTarget, BankCycle, Skip,
           Open, Unmarkable, Hold, Partial, Close, Settle, SellBook, HandLoadRow, HandClose,
           HandTrim, HandLoadPosition, Rollback
    <3> QED
      BY <3>1
  <2> QED
    BY <2>1, <2>2
<1> QED
  BY <1>1, LabInvariant, PTL DEF Spec, FailedIsFinal
==============================================================================
