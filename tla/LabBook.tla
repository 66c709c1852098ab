------------------------------- MODULE LabBook -------------------------------
(***************************************************************************)
(* The virtual wallet of one Strategy Lab arm (LabService), with the       *)
(* Compound Lab's ratchet on top of it (CompoundService).                  *)
(*                                                                         *)
(* The tick runs alone, under an advisory lock, in one transaction: judge, *)
(* settle, bank.  Hand closes and trims come from API requests and from    *)
(* the copy labs, which do not take the tick's lock.  Every session        *)
(* works on ORM objects: what it assigned is in memory until it flushes    *)
(* (autoflush is off), a flush writes the columns that differ from what    *)
(* was loaded, and holds the rows until the transaction ends.              *)
(*                                                                         *)
(* Money is counted in units: a position of size z holds z units of coin   *)
(* bought at 1 each, and m is what a unit can be sold for at a mark.       *)
(***************************************************************************)
EXTENDS Integers, FiniteSets, Functions

CONSTANTS
    Coins,          \* the coins that will be judged; one position each
    Hands,          \* concurrent hand closes and trims
    Tick,           \* the tick's session
    Marks,          \* what a unit may be sold for, above 0
    Start,          \* STARTING_EQUITY
    Size,           \* size_usd
    Rungs,          \* the powers of two up to MAX_DOUBLINGS; {1} when SIZING_SCALES is off
    MaxConcurrent,  \* max_concurrent
    MaxExposure,    \* max_exposure_usd
    Floor,          \* FAILURE_EQUITY_FLOOR
    CycleGain,      \* the target is base + CycleGain
    MaxCycles,      \* bound of the model: cycles opened
    NoValue         \* last_open_value_usd is null: never marked

Sessions == Hands \cup {Tick}

ASSUME LabAssumption ==
    /\ IsFiniteSet(Coins) /\ Tick \notin Hands
    /\ Marks \subseteq Nat \ {0}
    /\ Rungs \subseteq Nat \ {0} /\ 1 \in Rungs
    /\ {Start, Size, MaxConcurrent, MaxExposure, Floor, CycleGain, MaxCycles} \subseteq Nat
    /\ NoValue \notin Nat

VARIABLES
    cycling,   \* the arm has the ratchet; never changes
    db,        \* the committed rows: the wallet and its positions
    tx,        \* the same, with what the holder of the lock has flushed
    lock,      \* the session whose flushed rows are not committed
    decided,   \* the coins with a decision row
    at,        \* where each session stands
    mem,       \* its objects
    base,      \* its objects as loaded, or as last flushed
    todo,      \* the positions the tick has still to settle
    judged,    \* the decisions the tick has inserted
    sold,      \* the coin a hand session is about
    stale,     \* history: somebody committed since the session loaded
    raced      \* history: a stale session committed

ghosts == <<stale, raced>>
vars   == <<cycling, db, tx, lock, decided, at, mem, base, todo, judged, sold, ghosts>>

Free     == [status |-> "none", size |-> 0, left |-> 0, banked |-> 0,
             value |-> NoValue, proceeds |-> 0, partial |-> FALSE]
NewRow   == [cash |-> Start, peak |-> Start, failed |-> FALSE, cycle |-> 1, from |-> Start]
NewBook  == [row |-> NewRow, pos |-> [c \in Coins |-> Free]]

Init ==
    /\ cycling \in BOOLEAN
    /\ db = NewBook /\ tx = NewBook /\ lock = {}
    /\ decided = {}
    /\ at = [s \in Sessions |-> "idle"]
    /\ mem = [s \in Sessions |-> NewBook]
    /\ base = [s \in Sessions |-> NewBook]
    /\ todo = {} /\ judged = {}
    /\ sold = [s \in Sessions |-> {}]
    /\ stale = [s \in Sessions |-> FALSE] /\ raced = FALSE

-----------------------------------------------------------------------------
(* Sessions, flushes and commits.                                          *)

View(s) == IF lock = {s} THEN tx ELSE db

\* Mutant: every column is written.
ChangedAll(new, old, now) == new

\* The changed columns of one record, over what the table holds.
Changed(new, old, now) == [f \in DOMAIN new |-> IF new[f] # old[f] THEN new[f] ELSE now[f]]

Apply(new, old, now) ==
    [row |-> Changed(new.row, old.row, now.row),
     pos |-> [c \in Coins |-> Changed(new.pos[c], old.pos[c], now.pos[c])]]

\* A flush waits for the session that holds the rows.
Flush(s, new) ==
    /\ lock \subseteq {s}
    /\ lock' = {s}
    /\ tx' = Apply(new, base[s], View(s))
    /\ mem' = [mem EXCEPT ![s] = new]
    /\ base' = [base EXCEPT ![s] = new]

End(s) ==
    /\ at' = [at EXCEPT ![s] = "idle"]
    /\ mem' = [mem EXCEPT ![s] = NewBook]
    /\ base' = [base EXCEPT ![s] = NewBook]
    /\ sold' = [sold EXCEPT ![s] = {}]
    /\ stale' = [o \in Sessions |-> o # s /\ (stale[o] \/ (at[o] # "idle" /\ db' # db))]
    /\ IF s = Tick THEN todo' = {} /\ judged' = {} ELSE UNCHANGED <<todo, judged>>

Commit(s) ==
    /\ at[s] = "commit"
    /\ db' = tx
    /\ lock' = {} /\ tx' = NewBook
    /\ decided' = IF s = Tick THEN decided \cup judged ELSE decided
    /\ raced' = (raced \/ stale[s])
    /\ End(s)

\* The session raises, or its process dies.
Rollback(s) ==
    /\ at[s] # "idle"
    /\ lock' = lock \ {s} /\ tx' = (IF lock = {s} THEN NewBook ELSE tx)
    /\ UNCHANGED <<db, decided, raced>>
    /\ End(s)

-----------------------------------------------------------------------------
(* What the wallet is worth.                                               *)

OpenOf(pos) == {c \in Coins : pos[c].status = "open"}

Worth(p) == IF p.value = NoValue THEN p.size ELSE p.value

\* equity: the session's own cash, and a query over the open positions.
Equity(cash, pos) == cash + SumFunctionOnSet([c \in Coins |-> Worth(pos[c])], OpenOf(pos))

Deployed(pos) == SumFunctionOnSet([c \in Coins |-> pos[c].size], OpenOf(pos))

\* growth_multiplier: the highest rung the equity has reached, never below the first.
Reached(equity)    == {m \in Rungs : m = 1 \/ equity >= m * Start}
Multiplier(equity) == CHOOSE m \in Reached(equity) : \A n \in Reached(equity) : n <= m

\* A position changes and the cash moves with it.
Booking(book, c, p, got) ==
    [row |-> [book.row EXCEPT !.cash = @ + got], pos |-> [book.pos EXCEPT ![c] = p]]

-----------------------------------------------------------------------------
(* The tick: evaluate_due and _open.                                       *)

TickBegin ==
    /\ at[Tick] = "idle"
    /\ at' = [at EXCEPT ![Tick] = "judge"]
    /\ mem' = [mem EXCEPT ![Tick] = db]
    /\ base' = [base EXCEPT ![Tick] = db]
    /\ UNCHANGED <<db, tx, lock, decided, todo, judged, sold, ghosts>>

\* The decision row alone: not eligible, or refused by _open.
Skip(c) ==
    /\ at[Tick] = "judge" /\ c \notin decided \cup judged
    /\ judged' = judged \cup {c}
    /\ UNCHANGED <<db, tx, lock, decided, at, mem, base, todo, sold, ghosts>>

\* Mutant: the positions are counted as others see them.
CanOpenCommitted(size) ==
    LET m == Multiplier(Equity(mem[Tick].row.cash, db.pos)) IN
    /\ ~mem[Tick].row.failed
    /\ Cardinality(OpenOf(db.pos)) < MaxConcurrent
    /\ size = Size * m
    /\ Deployed(db.pos) + size <= MaxExposure * m
    /\ mem[Tick].row.cash >= size

\* Concurrency, exposure and cash, on the rows the tick itself has flushed.
CanOpen(size) ==
    LET m == Multiplier(Equity(mem[Tick].row.cash, View(Tick).pos))
        book == View(Tick).pos
    IN /\ ~mem[Tick].row.failed
       /\ Cardinality(OpenOf(book)) < MaxConcurrent
       /\ size = Size * m
       /\ Deployed(book) + size <= MaxExposure * m
       /\ mem[Tick].row.cash >= size

Opened(book, c, size) ==
    Booking(book, c, [Free EXCEPT !.status = "open", !.size = size, !.left = size], -size)

\* The stake leaves the cash and is flushed at once.
Open(c) ==
    /\ at[Tick] = "judge" /\ c \notin decided \cup judged
    /\ \E size \in {Size * m : m \in Rungs} : CanOpen(size) /\ Flush(Tick, Opened(mem[Tick], c, size))
    /\ judged' = judged \cup {c}
    /\ UNCHANGED <<db, decided, at, todo, sold, ghosts>>

-----------------------------------------------------------------------------
(* The tick: settle.                                                       *)

\* The positions are read now.  The Lab reads the wallet again too; the Compound
\* Lab still holds the object it loaded at the start.
SettleLoad ==
    LET now == IF cycling THEN [View(Tick) EXCEPT !.row = mem[Tick].row]
                                ELSE View(Tick)
        was == IF cycling THEN [View(Tick) EXCEPT !.row = base[Tick].row]
                                ELSE View(Tick)
    IN /\ at[Tick] = "judge"
       /\ at' = [at EXCEPT ![Tick] = "settle"]
       /\ mem' = [mem EXCEPT ![Tick] = now]
       /\ base' = [base EXCEPT ![Tick] = was]
       /\ todo' = OpenOf(View(Tick).pos)
       /\ UNCHANGED <<db, tx, lock, decided, judged, sold, ghosts>>

Settle(c, book) ==
    /\ at[Tick] = "settle" /\ c \in todo
    /\ todo' = todo \ {c}
    /\ mem' = [mem EXCEPT ![Tick] = book]
    /\ UNCHANGED <<db, tx, lock, decided, at, base, judged, sold, ghosts>>

\* _mark answered None: the position is left as it is.
Unmarkable(c) == Settle(c, mem[Tick])

Marked(book, c, m) ==
    [book EXCEPT !.pos[c].value = book.pos[c].banked + book.pos[c].left * m]

\* No exit fires.
Hold(c) == \E m \in Marks : Settle(c, Marked(mem[Tick], c, m))

\* Mutant: the cash is credited with what was left, not with what was sold.
HalvedAll(book, c, fill, taken) ==
    LET p    == book.pos[c]
        half == p.left \div 2
    IN Booking(book, c, [p EXCEPT !.banked = @ + half * fill, !.left = @ - half,
                                  !.partial = taken], p.left * fill)

\* Half of what is left is sold, and banked once in the position and in the cash.
Halved(book, c, fill, taken) ==
    LET p    == book.pos[c]
        half == p.left \div 2
    IN Booking(book, c, [p EXCEPT !.banked = @ + half * fill, !.left = @ - half,
                                  !.partial = taken], half * fill)

\* partial_taken.
Partial(c) ==
    \E m \in Marks :
    \E fill \in Marks :
        /\ fill <= m /\ ~mem[Tick].pos[c].partial
        /\ Settle(c, Halved(Marked(mem[Tick], c, m), c, fill, TRUE))

\* Mutant: what the partial banked is credited again.
ClosedTwice(book, c, fill) ==
    LET p   == book.pos[c]
        all == p.banked + p.left * fill
    IN Booking(book, c, [p EXCEPT !.status = "closed", !.proceeds = all, !.value = 0], all)

\* Closing, at what a unit brings; a dead pool brings 0.
Closed(book, c, fill) ==
    LET p   == book.pos[c]
        got == p.left * fill
    IN Booking(book, c, [p EXCEPT !.status = "closed", !.proceeds = p.banked + got,
                                  !.value = 0], got)

\* _apply_breaker asks for the equity before anything of the loop is flushed.
Judged(book) ==
    LET equity == Equity(book.row.cash, View(Tick).pos) IN
    [row |-> [book.row EXCEPT !.peak = IF equity > @ THEN equity ELSE @,
                              !.failed = @ \/ equity < Floor],
     pos |-> book.pos]

\* An exit fires.
Close(c) ==
    \E fill \in Marks \cup {0} : Settle(c, Judged(Closed(mem[Tick], c, fill)))

SettleEnd ==
    /\ at[Tick] = "settle" /\ todo = {}
    /\ Flush(Tick, mem[Tick])
    /\ at' = [at EXCEPT ![Tick] = IF cycling THEN "bank" ELSE "commit"]
    /\ UNCHANGED <<db, decided, todo, judged, sold, ghosts>>

-----------------------------------------------------------------------------
(* The tick: CompoundService, one wallet against its target.               *)

TargetReached == Equity(mem[Tick].row.cash, tx.pos) >= mem[Tick].row.from + CycleGain

BelowTarget ==
    /\ at[Tick] = "bank" /\ ~TargetReached
    /\ at' = [at EXCEPT ![Tick] = "commit"]
    /\ UNCHANGED <<db, tx, lock, decided, mem, base, todo, judged, sold, ghosts>>

Banking == at[Tick] = "selling" \/ (at[Tick] = "bank" /\ TargetReached)

\* _sell_the_book closes what can be marked, one flush each.
SellBook(c) ==
    /\ Banking /\ tx.pos[c].status = "open"
    /\ \E fill \in Marks \cup {0} :
          Flush(Tick, Closed([mem[Tick] EXCEPT !.pos = tx.pos], c, fill))
    /\ at' = [at EXCEPT ![Tick] = "selling"]
    /\ UNCHANGED <<db, decided, todo, judged, sold, ghosts>>

\* The next cycle starts from what the wallet is worth now.
BankCycle ==
    /\ Banking /\ mem[Tick].row.cycle < MaxCycles
    /\ Flush(Tick, [mem[Tick] EXCEPT
                      !.row.cycle = @ + 1,
                      !.row.from = Equity(mem[Tick].row.cash, tx.pos)])
    /\ at' = [at EXCEPT ![Tick] = "commit"]
    /\ UNCHANGED <<db, decided, todo, judged, sold, ghosts>>

-----------------------------------------------------------------------------
(* close_manually and trim_manually.                                       *)

HandLoadPosition(h, c) ==
    /\ at[h] = "idle" /\ db.pos[c].status = "open"
    /\ at' = [at EXCEPT ![h] = "row"]
    /\ sold' = [sold EXCEPT ![h] = {c}]
    /\ mem' = [mem EXCEPT ![h].pos[c] = db.pos[c]]
    /\ base' = [base EXCEPT ![h].pos[c] = db.pos[c]]
    /\ UNCHANGED <<db, tx, lock, decided, todo, judged, ghosts>>

HandLoadRow(h) ==
    /\ at[h] = "row"
    /\ at' = [at EXCEPT ![h] = "mark"]
    /\ mem' = [mem EXCEPT ![h].row = db.row]
    /\ base' = [base EXCEPT ![h].row = db.row]
    /\ UNCHANGED <<db, tx, lock, decided, todo, judged, sold, ghosts>>

HandClose(h) ==
    /\ at[h] = "mark"
    /\ \E c \in sold[h], fill \in Marks \cup {0} : Flush(h, Closed(mem[h], c, fill))
    /\ at' = [at EXCEPT ![h] = "commit"]
    /\ UNCHANGED <<db, decided, todo, judged, sold, ghosts>>

HandTrim(h) ==
    /\ at[h] = "mark"
    /\ \E c \in sold[h], m \in Marks :
          /\ mem[h].pos[c].left \div 2 > 0
          /\ Flush(h, Halved(mem[h], c, m, mem[h].pos[c].partial))
    /\ at' = [at EXCEPT ![h] = "commit"]
    /\ UNCHANGED <<db, decided, todo, judged, sold, ghosts>>

Step ==
    \/ TickBegin \/ SettleLoad \/ SettleEnd \/ BelowTarget \/ BankCycle
    \/ \E c \in Coins :
          \/ Skip(c) \/ Open(c) \/ Unmarkable(c) \/ Hold(c) \/ Partial(c) \/ Close(c)
          \/ SellBook(c)
    \/ \E h \in Hands :
          \/ HandLoadRow(h) \/ HandClose(h) \/ HandTrim(h)
          \/ \E c \in Coins : HandLoadPosition(h, c)
    \/ \E s \in Sessions : Commit(s) \/ Rollback(s)

Next == Step /\ UNCHANGED cycling

Spec == Init /\ [][Next]_vars

-----------------------------------------------------------------------------
(* Correctness.                                                            *)

\* What the positions say was spent and came back.
Net(p)       == (IF p.status = "closed" THEN p.proceeds ELSE p.banked) - p.size
Booked(book) == Start + SumFunctionOnSet([c \in Coins |-> Net(book.pos[c])], Coins)

Balanced(book) == book.row.cash = Booked(book)

\* As long as no session commits objects that another commit has overtaken, the
\* wallet's cash is exactly what its positions account for, through partials,
\* trims, hand closes, cycles and rollbacks.
SequentialBooks == ~raced => Balanced(db)

\* The tick never holds more positions than the arm allows, though it counts them
\* in the table while it opens several in one transaction.
ConcurrencyHolds == Cardinality(OpenOf(db.pos)) <= MaxConcurrent

\* A failed arm stays failed and opens nothing, though hand sessions commit rows
\* they loaded before it failed and the tick counts with its own copy.
FailedIsFinal ==
    [][db.row.failed => db'.row.failed /\ OpenOf(db'.pos) \subseteq OpenOf(db.pos)]_vars

-----------------------------------------------------------------------------
(* The inductive invariant that the three rest on.                         *)

Rows  == [cash : Int, peak : Int, failed : BOOLEAN, cycle : Nat, from : Int]
Lots  == [status : {"none", "open", "closed"}, size : Nat, left : Nat, banked : Nat,
          value : Nat \cup {NoValue}, proceeds : Nat, partial : BOOLEAN]
Books == [row : Rows, pos : [Coins -> Lots]]

TypeOK ==
    /\ cycling \in BOOLEAN /\ raced \in BOOLEAN
    /\ db \in Books /\ tx \in Books
    /\ mem \in [Sessions -> Books] /\ base \in [Sessions -> Books]
    /\ lock \in {{}} \cup {{s} : s \in Sessions}
    /\ decided \in SUBSET Coins /\ judged \in SUBSET Coins /\ todo \in SUBSET Coins
    /\ at \in [Sessions -> {"idle", "judge", "settle", "bank", "selling", "commit",
                            "row", "mark"}]
    /\ sold \in [Sessions -> SUBSET Coins]
    /\ stale \in [Sessions -> BOOLEAN]

\* Who is past its flush holds the rows, and nobody holds them before it.
Held ==
    \A s \in Sessions :
        /\ at[s] \in {"bank", "selling", "commit"} => lock = {s}
        /\ at[s] \in {"idle", "row", "mark"} => lock # {s}

\* In memory a position only ever closes: what a session would write as open was
\* open when it was loaded or flushed.
OnlyCloses ==
    /\ \A s \in Sessions : OpenOf(mem[s].pos) \subseteq OpenOf(base[s].pos)
    /\ todo \subseteq OpenOf(mem[Tick].pos)
    /\ at[Tick] # "settle" => todo = {}

\* The failure of the arm is the tick's to write; the rows under the lock keep it,
\* and open nothing once it is committed.
Failing ==
    /\ \A s \in Sessions : base[s].row.failed => mem[s].row.failed
    /\ \A h \in Hands : lock = {h} => tx.row.failed = db.row.failed
    /\ at[Tick] # "idle" /\ db.row.failed => mem[Tick].row.failed
    /\ lock # {} /\ db.row.failed => tx.row.failed /\ OpenOf(tx.pos) \subseteq OpenOf(db.pos)

\* A coin without a decision has no position, in the table or in any memory.
Undecided ==
    /\ \A c \in Coins \ decided :
          /\ db.pos[c] = Free
          /\ \A h \in Hands : mem[h].pos[c] = Free /\ (lock = {h} => tx.pos[c] = Free)
    /\ \A c \in Coins \ (decided \cup judged) :
          mem[Tick].pos[c] = Free /\ base[Tick].pos[c] = Free /\ (lock = {Tick} => tx.pos[c] = Free)

\* A hand session holds what it loaded or flushed, about one open position.
HandHolds ==
    \A h \in Hands :
        /\ mem[h] = base[h]
        /\ at[h] \in {"row", "mark"} =>
              \E c \in Coins : sold[h] = {c} /\ mem[h].pos[c].status = "open"

Fresh(s) == at[s] # "idle" /\ ~stale[s]

\* Nobody has overtaken the tick: it holds the table's rows, changed by balanced
\* steps while it settles.
TickBooks ==
    Fresh(Tick) =>
        /\ base[Tick] = View(Tick)
        /\ Balanced(mem[Tick])
        /\ at[Tick] # "settle" => mem[Tick] = base[Tick]

\* The same for a hand session, which holds one position and, later, the wallet.
HandBooks ==
    \A h \in Hands : Fresh(h) =>
        /\ at[h] \in {"row", "mark"} => \A c \in sold[h] : mem[h].pos[c] = db.pos[c]
        /\ at[h] = "mark" => mem[h].row = db.row
        /\ at[h] = "commit" => Balanced(tx)

\* The inductive invariant: the concurrency limit holds of the flushed rows too,
\* failure and the missing positions are kept by every copy of them, and a session
\* that was not overtaken holds books that balance, whatever the tick, the hand
\* closes and the trims have in memory.
LabInv ==
    /\ TypeOK /\ Held /\ OnlyCloses /\ Failing /\ Undecided /\ HandHolds
    /\ ConcurrencyHolds /\ Cardinality(OpenOf(tx.pos)) <= MaxConcurrent
    /\ ~raced => Balanced(db) /\ TickBooks /\ HandBooks
=============================================================================
