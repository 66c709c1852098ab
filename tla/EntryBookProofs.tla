--------------------------- MODULE EntryBookProofs ---------------------------
(***************************************************************************)
(* DailyTradesBound for every number of wallets, coins and overlapping     *)
(* ticks: a tick that passed the policy for a wallet is counted from that  *)
(* moment, so a later commit only turns it into a row.                     *)
(***************************************************************************)
EXTENDS EntryBook, FiniteSetTheorems, TLAPS

Holders(w) == {d \in Drivers : Holds(d, w)}

-----------------------------------------------------------------------------
(* Counting.                                                               *)

\* A buy names a wallet and a coin.
LEMMA BuyShape ==
    ASSUME NEW i \in Buys
    PROVE  Wallet(i) \in Wallets /\ Coin(i) \in Coins /\ i = <<Wallet(i), Coin(i)>>
  BY DEF Buys, Wallet, Coin

\* What is counted is finite.
LEMMA Countable ==
    ASSUME NEW w
    PROVE  /\ IsFiniteSet(Buys)
           /\ IsFiniteSet(BuysOf(w)) /\ Cardinality(BuysOf(w)) \in Nat
           /\ IsFiniteSet(Holders(w)) /\ Cardinality(Holders(w)) \in Nat
           /\ Cardinality(Drivers) \in Nat
           /\ Cardinality(Holders(w)) <= Cardinality(Drivers)
<1>1. IsFiniteSet(Wallets)
  <2>1. Wallets = Members \cup {Owner}
    BY DEF Wallets
  <2> QED
    BY <2>1, FS_AddElement, EntryAssumption
<1>2. IsFiniteSet(Buys)
  BY <1>1, FS_Product, EntryAssumption DEF Buys
<1>3. IsFiniteSet(BuysOf(w))
  <2>1. BuysOf(w) \in SUBSET Buys
    BY DEF BuysOf, Committed
  <2> QED
    BY <2>1, <1>2, FS_Subset
<1>4. IsFiniteSet(Holders(w)) /\ Cardinality(Holders(w)) <= Cardinality(Drivers)
  <2>1. Holders(w) \in SUBSET Drivers
    BY DEF Holders
  <2> QED
    BY <2>1, FS_Subset, EntryAssumption
<1> QED
  BY <1>2, <1>3, <1>4, FS_CardinalityType, EntryAssumption

\* A step that commits no row and lets no new tick pass the policy for w.
LEMMA CountKept ==
    ASSUME NEW w, Committed' = Committed,
           \A d \in Drivers : Holds(d, w)' => Holds(d, w),
           Cardinality(BuysOf(w)) + Cardinality(Holders(w)) + 1
               <= MaxTrades + Cardinality(Drivers)
    PROVE  Cardinality(BuysOf(w)') + Cardinality(Holders(w)') + 1
               <= MaxTrades + Cardinality(Drivers)
<1>1. BuysOf(w)' = BuysOf(w)
  BY DEF BuysOf
<1>2. Holders(w)' \in SUBSET Holders(w)
  BY DEF Holders
<1>3. /\ IsFiniteSet(Holders(w)') /\ Cardinality(Holders(w)') <= Cardinality(Holders(w))
  BY <1>2, Countable, FS_Subset
<1>4. Cardinality(Holders(w)') \in Nat
  BY <1>3, FS_CardinalityType
<1> QED
  BY <1>1, <1>3, <1>4, Countable, EntryAssumption

\* A step that lets one tick pass the policy for w: it saw every committed buy.
LEMMA CountChecked ==
    ASSUME NEW w, NEW d \in Drivers, TypeOK, Committed' = Committed, PolicyAllows(d, w)
    PROVE  Cardinality(BuysOf(w)') + Cardinality(Holders(w)') + 1
               <= MaxTrades + Cardinality(Drivers)
<1>1. BuysOf(w)' = BuysOf(w)
  BY DEF BuysOf
<1>2. BuysOf(w) \in SUBSET TradesToday(d, w)
  BY DEF BuysOf, TradesToday, View
<1>3. TradesToday(d, w) \in SUBSET Buys
  BY DEF TradesToday, View, Committed, TypeOK
<1>4. /\ IsFiniteSet(TradesToday(d, w))
      /\ Cardinality(BuysOf(w)) <= Cardinality(TradesToday(d, w))
  BY <1>2, <1>3, Countable, FS_Subset
<1>5. Cardinality(BuysOf(w)) < MaxTrades
  BY <1>4, FS_CardinalityType, Countable, EntryAssumption DEF PolicyAllows
<1>6. /\ Cardinality(Holders(w)') <= Cardinality(Drivers)
      /\ Cardinality(Holders(w)') \in Nat
  <2>1. Holders(w)' \in SUBSET Drivers
    BY DEF Holders
  <2> QED
    BY <2>1, FS_Subset, FS_CardinalityType, EntryAssumption
<1> QED
  BY <1>1, <1>5, <1>6, Countable, EntryAssumption

\* A commit turns the tick's one row for w into a committed buy.
LEMMA CountCommitted ==
    ASSUME NEW w, NEW d \in Drivers, TypeOK, TickInv, CommitRows(d),
           pending' = [pending EXCEPT ![d] = {}],
           chosen' = chosen, chosen[d] = NoBuy,
           Cardinality(BuysOf(w)) + Cardinality(Holders(w)) + 1
               <= MaxTrades + Cardinality(Drivers)
    PROVE  Cardinality(BuysOf(w)') + Cardinality(Holders(w)') + 1
               <= MaxTrades + Cardinality(Drivers)
<1>1. Holders(w)' = Holders(w) \ {d}
  <2>1. ~Holds(d, w)'
    BY DEF Holds, TypeOK
  <2>2. \A e \in Drivers \ {d} : Holds(e, w)' <=> Holds(e, w)
    BY DEF Holds, TypeOK
  <2> QED
    BY <2>1, <2>2 DEF Holders
<1>2. BuysOf(w)' = BuysOf(w) \cup {i \in pending[d] : Wallet(i) = w}
  BY DEF BuysOf, Committed, CommitRows, TypeOK
<1>3. CASE \E i \in pending[d] : Wallet(i) = w
  <2>1. PICK i \in pending[d] : Wallet(i) = w
    BY <1>3
  <2>2. {j \in pending[d] : Wallet(j) = w} = {i}
    BY <2>1 DEF TickInv
  <2>3. d \in Holders(w)
    BY <2>1 DEF Holders, Holds
  <2>4. Cardinality(Holders(w)') = Cardinality(Holders(w)) - 1
    BY <1>1, <2>3, Countable, FS_RemoveElement
  <2>5. /\ Cardinality(BuysOf(w)') <= Cardinality(BuysOf(w)) + 1
        /\ Cardinality(BuysOf(w)') \in Nat
    <3>1. BuysOf(w)' = BuysOf(w) \cup {i}
      BY <1>2, <2>2
    <3>2. Cardinality(BuysOf(w) \cup {i}) =
            IF i \in BuysOf(w) THEN Cardinality(BuysOf(w)) ELSE Cardinality(BuysOf(w)) + 1
      BY Countable, FS_AddElement
    <3> QED
      BY <3>1, <3>2, Countable
  <2> QED
    BY <2>4, <2>5, Countable, EntryAssumption
<1>4. CASE ~\E i \in pending[d] : Wallet(i) = w
  <2>1. BuysOf(w)' = BuysOf(w)
    BY <1>2, <1>4
  <2>2. /\ Cardinality(Holders(w)') <= Cardinality(Holders(w))
        /\ Cardinality(Holders(w)') \in Nat
    <3>1. Holders(w)' \in SUBSET Holders(w)
      BY <1>1
    <3>2. IsFiniteSet(Holders(w)') /\ Cardinality(Holders(w)') <= Cardinality(Holders(w))
      BY <3>1, Countable, FS_Subset
    <3> QED
      BY <3>2, FS_CardinalityType
  <2> QED
    BY <2>1, <2>2, Countable, EntryAssumption
<1> QED
  BY <1>3, <1>4

-----------------------------------------------------------------------------
(* Each step preserves EntryInv.                                           *)

\* With no rows and idle ticks, the initial state satisfies EntryInv.
LEMMA InitEntry == Init => EntryInv
<1> SUFFICES ASSUME Init PROVE EntryInv
  OBVIOUS
<1>1. TypeOK
  BY DEF Init, TypeOK, States
<1>2. TickInv
  BY DEF Init, TickInv
<1>3. TradesInv
  <2> SUFFICES ASSUME NEW w \in Wallets
               PROVE  Cardinality(BuysOf(w)) + Cardinality(Holders(w)) + 1
                          <= MaxTrades + Cardinality(Drivers)
    BY DEF TradesInv, Holders
  <2>1. BuysOf(w) = {}
    BY DEF BuysOf, Committed, Init
  <2>2. Holders(w) = {}
    BY DEF Holders, Holds, Init
  <2> QED
    BY <2>1, <2>2, FS_EmptySet, Countable, EntryAssumption
<1> QED
  BY <1>1, <1>2, <1>3 DEF EntryInv

\* A buy that moves on stays a buy: executor steps commit no row.
LEMMA MoveStep ==
    ASSUME EntryInv, NEW i \in Buys, NEW to \in States \ {"absent"},
           state[i] # "absent", Move(i, to)
    PROVE  EntryInv'
<1> USE DEF EntryInv, Move
<1>1. TypeOK'
  BY DEF TypeOK, ticks
<1>2. TickInv'
  BY DEF TickInv, ticks
<1>3. Committed' = Committed
  BY DEF Committed, TypeOK
<1>4. \A w, d : Holds(d, w)' => Holds(d, w)
  BY DEF Holds, ticks
<1>5. TradesInv'
  BY <1>3, <1>4, CountKept DEF TradesInv, Holders
<1> QED
  BY <1>1, <1>2, <1>5

\* Switches and brakes touch neither rows nor ticks.
LEMMA SwitchStep ==
    ASSUME EntryInv, TypeOK', state' = state, ticks' = ticks
    PROVE  EntryInv'
<1>1. TickInv'
  BY DEF EntryInv, TickInv, ticks
<1>2. Committed' = Committed /\ \A w, d : Holds(d, w)' => Holds(d, w)
  BY DEF Committed, Holds, ticks
<1>3. TradesInv'
  BY <1>2, CountKept DEF EntryInv, TradesInv, Holders
<1> QED
  BY <1>1, <1>3 DEF EntryInv

\* A tick step that commits nothing and inserts nothing new keeps the count.
LEMMA TickOnly ==
    ASSUME EntryInv, TypeOK', TickInv', state' = state,
           \A w, d : Holds(d, w)' => Holds(d, w)
    PROVE  EntryInv'
<1>1. Committed' = Committed
  BY DEF Committed
<1>2. TradesInv'
  BY <1>1, CountKept DEF EntryInv, TradesInv, Holders
<1> QED
  BY <1>2 DEF EntryInv

\* A tick begins with the owner still to do.
LEMMA BeginTickStep ==
    ASSUME EntryInv, NEW d \in Drivers, BeginTick(d)
    PROVE  EntryInv'
<1> USE DEF BeginTick
<1>1. TypeOK'
  BY DEF EntryInv, TypeOK, Wallets
<1>2. TickInv'
  BY DEF EntryInv, TickInv, TypeOK
<1>3. \A w, e : Holds(e, w)' => Holds(e, w)
  BY DEF Holds
<1> QED
  BY <1>1, <1>2, <1>3, TickOnly

\* The owner's floor is recorded in the tick's own transaction.
LEMMA OwnerFloorStep ==
    ASSUME EntryInv, NEW d \in Drivers, OwnerFloor(d)
    PROVE  EntryInv'
<1> USE DEF OwnerFloor
<1>1. TypeOK'
  BY DEF EntryInv, TypeOK, Wallets
<1>2. TickInv'
  BY DEF EntryInv, TickInv, TypeOK
<1>3. \A w, e : Holds(e, w)' => Holds(e, w)
  BY DEF Holds
<1> QED
  BY <1>1, <1>2, <1>3, TickOnly

\* The members to visit are read once, after the owner.
LEMMA FamilyTicksStep ==
    ASSUME EntryInv, NEW d \in Drivers, FamilyTicks(d)
    PROVE  EntryInv'
<1> DEFINE T == {m \in Members : /\ memberOn[m] /\ ~killed
                                 /\ \/ switchOn /\ ~stopping[d]
                                    \/ m \in OWN_SWITCH_MEMBERS}
<1>0. T \subseteq Members /\ todo' = [todo EXCEPT ![d] = T]
  BY DEF FamilyTicks
<1> HIDE DEF T
<1> USE DEF FamilyTicks
<1>1. TypeOK'
  BY <1>0 DEF EntryInv, TypeOK, Wallets
<1>2. TickInv'
  BY <1>0, EntryAssumption DEF EntryInv, TickInv, TypeOK
<1>3. \A w, e : Holds(e, w)' => Holds(e, w)
  BY DEF Holds
<1> QED
  BY <1>1, <1>2, <1>3, TickOnly

\* A refusal drops the wallet from the tick.
LEMMA SkipStep ==
    ASSUME EntryInv, NEW d \in Drivers, NEW v \in Wallets, Skip(d, v)
    PROVE  EntryInv'
<1> USE DEF Skip
<1>1. TypeOK'
  BY DEF EntryInv, TypeOK
<1>2. TickInv'
  BY DEF EntryInv, TickInv, TypeOK
<1>3. \A w, e : Holds(e, w)' => Holds(e, w)
  BY DEF Holds
<1> QED
  BY <1>1, <1>2, <1>3, TickOnly

\* An insert holds the wallet the tick had already passed the policy for.
LEMMA CreateIntentStep ==
    ASSUME EntryInv, NEW d \in Drivers, CreateIntent(d)
    PROVE  EntryInv'
<1> USE DEF CreateIntent
<1>1. chosen[d] \in Buys /\ chosen[d] # NoBuy
  BY DEF EntryInv, TickInv, TypeOK
<1>2. TypeOK'
  BY <1>1 DEF EntryInv, TypeOK
<1>3. TickInv'
  BY <1>1, EntryAssumption, BuyShape DEF EntryInv, TickInv, TypeOK, Wallets
<1>4. \A w, e : Holds(e, w)' => Holds(e, w)
  BY <1>1 DEF Holds, EntryInv, TypeOK
<1> QED
  BY <1>2, <1>3, <1>4, TickOnly

\* A rollback forgets what the tick held.
LEMMA RollbackTickStep ==
    ASSUME EntryInv, NEW d \in Drivers, RollbackTick(d)
    PROVE  EntryInv'
<1> USE DEF RollbackTick, EndTick
<1>1. TypeOK'
  BY DEF EntryInv, TypeOK
<1>2. TickInv'
  BY DEF EntryInv, TickInv, TypeOK
<1>3. \A w, e : Holds(e, w)' => Holds(e, w)
  BY DEF Holds, EntryInv, TypeOK
<1> QED
  BY <1>1, <1>2, <1>3, TickOnly

\* A tick that passes the policy for a wallet saw all its committed buys.
LEMMA CheckedStep ==
    ASSUME EntryInv, TypeOK', TickInv', NEW d \in Drivers, NEW i \in Buys,
           PolicyAllows(d, Wallet(i)), state' = state, pending' = pending,
           chosen' = [chosen EXCEPT ![d] = i]
    PROVE  EntryInv'
<1>1. Committed' = Committed
  BY DEF Committed
<1>2. \A w \in Wallets \ {Wallet(i)}, e \in Drivers : Holds(e, w)' => Holds(e, w)
  BY DEF Holds, EntryInv, TypeOK
<1>3. TradesInv'
  <2> SUFFICES ASSUME NEW w \in Wallets
               PROVE  Cardinality(BuysOf(w)') + Cardinality(Holders(w)') + 1
                          <= MaxTrades + Cardinality(Drivers)
    BY DEF TradesInv, Holders
  <2>1. CASE w = Wallet(i)
    BY <2>1, <1>1, CountChecked DEF EntryInv
  <2>2. CASE w # Wallet(i)
    BY <2>2, <1>1, <1>2, CountKept DEF EntryInv, TradesInv, Holders
  <2> QED
    BY <2>1, <2>2
<1> QED
  BY <1>3 DEF EntryInv

\* The owner's check.
LEMMA OwnerCheckStep ==
    ASSUME EntryInv, NEW d \in Drivers, NEW c \in Coins, OwnerCheck(d, c)
    PROVE  EntryInv'
<1> DEFINE i == <<Owner, c>>
<1>1. i \in Buys /\ Wallet(i) = Owner /\ i # NoBuy
  BY EntryAssumption DEF Buys, Wallets, Wallet
<1> HIDE DEF i
<1>0. /\ at[d] = "owner" /\ todo[d] # {} /\ PolicyAllows(d, Owner)
      /\ at' = [at EXCEPT ![d] = "insert"]
      /\ chosen' = [chosen EXCEPT ![d] = i]
      /\ todo' = [todo EXCEPT ![d] = {}]
      /\ UNCHANGED <<pending, stopping, state, switchOn, memberOn, killed>>
  BY DEF OwnerCheck, i
<1>2. TypeOK'
  BY <1>0, <1>1 DEF EntryInv, TypeOK
<1>3. TickInv'
  BY <1>0, <1>1 DEF EntryInv, TickInv, TypeOK
<1> QED
  BY <1>0, <1>1, <1>2, <1>3, CheckedStep

\* A member's check.
LEMMA MemberCheckStep ==
    ASSUME EntryInv, NEW d \in Drivers, NEW m \in Members, NEW c \in Coins,
           MemberCheck(d, m, c)
    PROVE  EntryInv'
<1> DEFINE i == <<m, c>>
<1>1. i \in Buys /\ Wallet(i) = m /\ i # NoBuy /\ m # Owner
  BY EntryAssumption DEF Buys, Wallets, Wallet
<1> HIDE DEF i
<1>0. /\ at[d] = "family" /\ m \in todo[d] /\ PolicyAllows(d, m)
      /\ at' = [at EXCEPT ![d] = "insert"]
      /\ chosen' = [chosen EXCEPT ![d] = i]
      /\ todo' = [todo EXCEPT ![d] = @ \ {m}]
      /\ UNCHANGED <<pending, stopping, state, switchOn, memberOn, killed>>
  BY DEF MemberCheck, i
<1>2. TypeOK'
  BY <1>0, <1>1 DEF EntryInv, TypeOK
<1>3. TickInv'
  BY <1>0, <1>1 DEF EntryInv, TickInv, TypeOK
<1> QED
  BY <1>0, <1>1, <1>2, <1>3, CheckedStep

\* A commit at the end of the tick or at a member's floor.
LEMMA CommittedStep ==
    ASSUME EntryInv, TypeOK', TickInv', NEW d \in Drivers, CommitRows(d),
           pending' = [pending EXCEPT ![d] = {}],
           chosen' = chosen, chosen[d] = NoBuy
    PROVE  EntryInv'
<1>1. TradesInv'
  BY CountCommitted DEF EntryInv, TradesInv, Holders
<1> QED
  BY <1>1 DEF EntryInv

\* A member's floor commits what the tick has so far; its wallets stay apart.
LEMMA MemberFloorStep ==
    ASSUME EntryInv, NEW d \in Drivers, NEW m \in Members, MemberFloor(d, m)
    PROVE  EntryInv'
<1> USE DEF MemberFloor
<1>0. chosen[d] = NoBuy
  BY DEF EntryInv, TickInv
<1>1. state' \in [Buys -> States]
  BY DEF EntryInv, TypeOK, States, CommitRows
<1>2. switchOn' \in BOOLEAN
  BY Zenon
<1>3. TypeOK'
  BY <1>1, <1>2 DEF EntryInv, TypeOK
<1>4. TickInv'
  BY DEF EntryInv, TickInv, TypeOK
<1> QED
  BY <1>0, <1>3, <1>4, CommittedStep

\* The tick's own commit.
LEMMA CommitTickStep ==
    ASSUME EntryInv, NEW d \in Drivers, CommitTick(d)
    PROVE  EntryInv'
<1> USE DEF CommitTick, EndTick
<1>0. chosen[d] = NoBuy /\ chosen' = chosen
  BY DEF EntryInv, TickInv, TypeOK
<1>1. state' \in [Buys -> States]
  BY DEF EntryInv, TypeOK, States, CommitRows
<1>2. switchOn' \in BOOLEAN
  BY Zenon
<1>3. TypeOK'
  BY <1>1, <1>2 DEF EntryInv, TypeOK
<1>4. TickInv'
  BY DEF EntryInv, TickInv, TypeOK
<1> QED
  BY <1>0, <1>3, <1>4, CommittedStep

\* Every executor step on a buy moves a buy that exists.
LEMMA BuyStepInv ==
    ASSUME EntryInv, NEW i \in Buys, BuyStep(i)
    PROVE  EntryInv'
<1>1. /\ state[i] # "absent"
      /\ \/ Move(i, "stopped") \/ Move(i, "over") \/ Move(i, "cleared")
         \/ Move(i, "created") \/ Move(i, "submitted") \/ Move(i, "open")
  BY DEF BuyStep, BlockStopped, BlockRefused, ClearGuard, SignRefused, Submit,
         Reconcile, Close
<1> QED
  BY <1>1, MoveStep DEF States

\* The operator's switches.
LEMMA OperatorStepInv ==
    ASSUME EntryInv, OperatorStep
    PROVE  EntryInv'
<1>1. state' = state /\ ticks' = ticks
  BY DEF OperatorStep, OwnerStart, OwnerStop, KillSwitch, MemberSwitch
<1>2. TypeOK'
  <2>1. ASSUME NEW m \in Members, MemberSwitch(m) PROVE TypeOK'
    BY <2>1 DEF MemberSwitch, EntryInv, TypeOK, ticks
  <2>2. CASE KillSwitch
    BY <2>2 DEF KillSwitch, EntryInv, TypeOK, ticks
  <2>3. CASE OwnerStart
    BY <2>3 DEF OwnerStart, EntryInv, TypeOK, ticks
  <2>4. CASE OwnerStop
    BY <2>4 DEF OwnerStop, EntryInv, TypeOK, ticks
  <2> QED
    BY <2>1, <2>2, <2>3, <2>4 DEF OperatorStep
<1> QED
  BY <1>1, <1>2, SwitchStep

\* EntryInv is inductive.
LEMMA NextEntry == EntryInv /\ [Next]_vars => EntryInv'
<1> SUFFICES ASSUME EntryInv, [Next]_vars PROVE EntryInv'
  OBVIOUS
<1>1. ASSUME NEW d \in Drivers, PullBrake(d) PROVE EntryInv'
  <2>1. TypeOK'
    BY <1>1 DEF PullBrake, EntryInv, TypeOK, ticks
  <2> QED
    BY <1>1, <2>1, SwitchStep DEF PullBrake
<1>2. ASSUME NEW d \in Drivers, TickStep(d) PROVE EntryInv'
  BY <1>1, <1>2, BeginTickStep, OwnerFloorStep, FamilyTicksStep, CreateIntentStep,
     CommitTickStep, RollbackTickStep, OwnerCheckStep, MemberCheckStep,
     MemberFloorStep, SkipStep DEF TickStep
<1>3. CASE UNCHANGED vars
  <2>1. TypeOK'
    BY <1>3 DEF vars, ticks, EntryInv, TypeOK
  <2> QED
    BY <1>3, <2>1, SwitchStep DEF vars
<1> QED
  BY <1>2, <1>3, BuyStepInv, OperatorStepInv DEF Next

\* EntryInv holds in every reachable state, whatever the constants.
THEOREM EntryInvariant == Spec => []EntryInv
<1> QED
  BY InitEntry, NextEntry, PTL DEF Spec

\* DailyTradesBound: racing ticks add at most one buy each to a wallet's day.
THEOREM TradesAreBounded == Spec => []DailyTradesBound
<1>1. EntryInv => DailyTradesBound
  <2> SUFFICES ASSUME EntryInv, NEW w \in Wallets
               PROVE  Cardinality(BuysOf(w)) + 1 <= MaxTrades + Cardinality(Drivers)
    BY DEF DailyTradesBound
  <2>1. Cardinality(BuysOf(w)) + Cardinality(Holders(w)) + 1
            <= MaxTrades + Cardinality(Drivers)
    BY DEF EntryInv, TradesInv, Holders
  <2> QED
    BY <2>1, Countable, EntryAssumption
<1> QED
  BY <1>1, EntryInvariant, PTL
=============================================================================
