------------------------------ MODULE EntryBook ------------------------------
(***************************************************************************)
(* How the real wallets take entries: RealWalletDriver's tick over the     *)
(* owner's wallet and the family members' own wallets, the limits it asks  *)
(* AutonomousExecutionPolicy about, and the executor's second look at them *)
(* just before a buy is sent.                                              *)
(*                                                                         *)
(* Buys.  <<w, c>> is wallet w's BUY intent for coin c: the idempotency    *)
(* keys "v6:strategy:mint" and "v6:strategy:mint:member" allow one each,   *)
(* for the strategy that stays nominated.  An intent and the position it   *)
(* opens are one record here; ExecutionRail takes them apart.              *)
(*                                                                         *)
(* Ticks.  The minute tick runs the driver under one advisory lock and the *)
(* fast loop runs it under another, so two ticks overlap.  A tick is one   *)
(* transaction over every wallet: the rows it inserts are visible to it at *)
(* once and to everybody else when it commits.                             *)
(***************************************************************************)
EXTENDS Naturals, FiniteSets

CONSTANTS
    Owner,               \* the owner's wallet
    Members,             \* the family members' own wallets
    OWN_SWITCH_MEMBERS,  \* members that trade while the owner is stopped
    Coins,               \* the coins the nominated strategy chooses in a day
    Drivers,             \* driver ticks that can overlap
    MaxOpen,             \* max_open_for(wallet)
    MaxTrades,           \* REAL_WALLET_MAX_DAILY_TRADES
    MaxCoin,             \* REAL_WALLET_MAX_COIN_USD, in tickets
    NoBuy                \* a tick that decided on no coin

Wallets == {Owner} \cup Members
Buys    == Wallets \X Coins

ASSUME EntryAssumption ==
    /\ Owner \notin Members
    /\ OWN_SWITCH_MEMBERS \subseteq Members
    /\ IsFiniteSet(Members) /\ IsFiniteSet(Coins) /\ IsFiniteSet(Drivers)
    /\ MaxOpen \in Nat \ {0} /\ MaxTrades \in Nat \ {0} /\ MaxCoin \in Nat \ {0}
    /\ NoBuy \notin Buys

VARIABLES
    state,      \* each buy, as everybody can read it
    switchOn,   \* the owner's autotrade switch
    memberOn,   \* own_enabled of each member
    killed,     \* a kill switch is active
    at,         \* where each tick stands
    todo,       \* the members it will still visit, as read at the start
    chosen,     \* the buy it is about to insert
    pending,    \* the rows it inserted and has not committed
    stopping    \* it pressed the owner's STOP and has not committed

ticks == <<at, todo, chosen, pending, stopping>>
vars  == <<state, switchOn, memberOn, killed, ticks>>

\* "created" stands for CREATED, SAFETY_APPROVED and ORDER_CREATED, "cleared"
\* for an ORDER_CREATED a pass took past the guard, "stopped" for BLOCKED with
\* autotrade_switch_off, "open" for a CONFIRMED buy's OPEN position, and "over"
\* for the rest: BLOCKED for any other reason, FAILED, or a CLOSED position.
States == {"absent", "created", "cleared", "submitted", "open", "stopped", "over"}

TypeOK ==
    /\ state \in [Buys -> States]
    /\ switchOn \in BOOLEAN /\ killed \in BOOLEAN
    /\ memberOn \in [Members -> BOOLEAN]
    /\ at \in [Drivers -> {"idle", "owner", "family", "insert"}]
    /\ todo \in [Drivers -> SUBSET Wallets]
    /\ chosen \in [Drivers -> Buys \cup {NoBuy}]
    /\ pending \in [Drivers -> SUBSET Buys]
    /\ stopping \in [Drivers -> BOOLEAN]

Init ==
    /\ state = [i \in Buys |-> "absent"]
    /\ switchOn = FALSE /\ killed = FALSE
    /\ memberOn = [m \in Members |-> FALSE]
    /\ at = [d \in Drivers |-> "idle"]
    /\ todo = [d \in Drivers |-> {}]
    /\ chosen = [d \in Drivers |-> NoBuy]
    /\ pending = [d \in Drivers |-> {}]
    /\ stopping = [d \in Drivers |-> FALSE]

-----------------------------------------------------------------------------
(* What a tick reads: committed rows and its own.                          *)

Wallet(i) == i[1]
Coin(i)   == i[2]

Committed == {i \in Buys : state[i] # "absent"}
View(d)   == Committed \cup pending[d]

\* open_positions_count: settled buys only.
OpenPositions(w) == {i \in Buys : Wallet(i) = w /\ state[i] = "open"}

\* Mutant: only the trades that are open are counted.
TradesOpen(d, w) == {i \in View(d) : Wallet(i) = w /\ state[i] = "open"}

\* _trades_today: every BUY intent of the wallet, whatever became of it.
TradesToday(d, w) == {i \in View(d) : Wallet(i) = w}

\* _coin_usd: what the members together asked for, never the owner.
CoinBuys(d, c) == {i \in View(d) : Coin(i) = c /\ Wallet(i) \in Members}

\* Mutant: the trade limit is compared with <= .
PolicyOffByOne(d, w) ==
    /\ Cardinality(OpenPositions(w)) < MaxOpen
    /\ Cardinality(TradesToday(d, w)) <= MaxTrades

\* evaluate_canary_entry: the count bounds.  The dollar bounds, the balance and
\* the fee reserve are the environment's; any of them may refuse (Skip).
PolicyAllows(d, w) ==
    /\ Cardinality(OpenPositions(w)) < MaxOpen
    /\ Cardinality(TradesToday(d, w)) < MaxTrades

-----------------------------------------------------------------------------
(* RealWalletDriver.tick.                                                  *)

\* The tick's commit, whoever asks for it.
CommitRows(d) ==
    state' = [i \in Buys |-> IF i \in pending[d] THEN "created" ELSE state[i]]

EndTick(d) ==
    /\ at' = [at EXCEPT ![d] = "idle"]
    /\ todo' = [todo EXCEPT ![d] = {}]
    /\ chosen' = [chosen EXCEPT ![d] = NoBuy]
    /\ pending' = [pending EXCEPT ![d] = {}]
    /\ stopping' = [stopping EXCEPT ![d] = FALSE]

BeginTick(d) ==
    /\ at[d] = "idle"
    /\ at' = [at EXCEPT ![d] = "owner"]
    /\ todo' = [todo EXCEPT ![d] = {Owner}]
    /\ UNCHANGED <<chosen, pending, stopping, state, switchOn, memberOn, killed>>

\* rug_brake.pull_if_due: a new rug stops the trading and ends the tick.
PullBrake(d) ==
    /\ at[d] = "idle" /\ switchOn
    /\ switchOn' = FALSE
    /\ UNCHANGED <<state, memberOn, killed, ticks>>

\* rug_brake.stop_below_floor, before the owner's buy.
OwnerFloor(d) ==
    /\ at[d] = "owner" /\ todo[d] # {}
    /\ switchOn /\ ~killed
    /\ stopping' = [stopping EXCEPT ![d] = TRUE]
    /\ todo' = [todo EXCEPT ![d] = {}]
    /\ UNCHANGED <<at, chosen, pending, state, switchOn, memberOn, killed>>

\* _owner_tick chose a fresh coin the wallet has not traded, within its bounds.
OwnerCheck(d, c) ==
    /\ at[d] = "owner" /\ todo[d] # {}
    /\ switchOn /\ ~killed
    /\ <<Owner, c>> \notin View(d)
    /\ PolicyAllows(d, Owner)
    /\ at' = [at EXCEPT ![d] = "insert"]
    /\ chosen' = [chosen EXCEPT ![d] = <<Owner, c>>]
    /\ todo' = [todo EXCEPT ![d] = {}]
    /\ UNCHANGED <<pending, stopping, state, switchOn, memberOn, killed>>

\* _family_ticks reads the members, the switch and the kill switches once.
FamilyTicks(d) ==
    /\ at[d] = "owner" /\ todo[d] = {}
    /\ at' = [at EXCEPT ![d] = "family"]
    /\ todo' = [todo EXCEPT ![d] =
                  {m \in Members : /\ memberOn[m] /\ ~killed
                                   /\ \/ switchOn /\ ~stopping[d]
                                      \/ m \in OWN_SWITCH_MEMBERS}]
    /\ UNCHANGED <<chosen, pending, stopping, state, switchOn, memberOn, killed>>

\* _family_tick: as the owner's, plus the cap on one coin over all members.
MemberCheck(d, m, c) ==
    /\ at[d] = "family" /\ m \in todo[d]
    /\ <<m, c>> \notin View(d)
    /\ Cardinality(CoinBuys(d, c)) + 1 <= MaxCoin
    /\ PolicyAllows(d, m)
    /\ at' = [at EXCEPT ![d] = "insert"]
    /\ chosen' = [chosen EXCEPT ![d] = <<m, c>>]
    /\ todo' = [todo EXCEPT ![d] = @ \ {m}]
    /\ UNCHANGED <<pending, stopping, state, switchOn, memberOn, killed>>

\* stop_member_below_floor: switches the member off and COMMITS, in the middle
\* of the tick.
MemberFloor(d, m) ==
    /\ at[d] = "family" /\ m \in todo[d] /\ memberOn[m]
    /\ memberOn' = [memberOn EXCEPT ![m] = FALSE]
    /\ CommitRows(d)
    /\ switchOn' = (switchOn /\ ~stopping[d])
    /\ pending' = [pending EXCEPT ![d] = {}]
    /\ stopping' = [stopping EXCEPT ![d] = FALSE]
    /\ todo' = [todo EXCEPT ![d] = @ \ {m}]
    /\ UNCHANGED <<at, chosen, killed>>

\* Any refusal: no fresh coin, an unreadable balance, a bound.
Skip(d, w) ==
    /\ at[d] \in {"owner", "family"} /\ w \in todo[d]
    /\ todo' = [todo EXCEPT ![d] = @ \ {w}]
    /\ UNCHANGED <<at, chosen, pending, stopping, state, switchOn, memberOn, killed>>

\* create_intent: INSERT ... ON CONFLICT DO NOTHING, which waits for another
\* transaction that inserted the same key and has not ended.
CreateIntent(d) ==
    /\ at[d] = "insert"
    /\ \A e \in Drivers \ {d} : chosen[d] \notin pending[e]
    /\ pending' = [pending EXCEPT ![d] = @ \cup ({chosen[d]} \ Committed)]
    /\ chosen' = [chosen EXCEPT ![d] = NoBuy]
    /\ at' = [at EXCEPT ![d] = IF Wallet(chosen[d]) = Owner THEN "owner" ELSE "family"]
    /\ UNCHANGED <<todo, stopping, state, switchOn, memberOn, killed>>

CommitTick(d) ==
    /\ at[d] = "family" /\ todo[d] = {}
    /\ CommitRows(d)
    /\ switchOn' = (switchOn /\ ~stopping[d])
    /\ EndTick(d)
    /\ UNCHANGED <<memberOn, killed>>

\* The tick raises or its process dies: the transaction is rolled back.
RollbackTick(d) ==
    /\ at[d] # "idle"
    /\ EndTick(d)
    /\ UNCHANGED <<state, switchOn, memberOn, killed>>

-----------------------------------------------------------------------------
(* RealWalletExecutor on a BUY.                                            *)

Move(i, to) ==
    /\ state' = [state EXCEPT ![i] = to]
    /\ UNCHANGED <<switchOn, memberOn, killed, ticks>>

\* Mutant: an own-switch member's buy waits the owner's STOP out.
BlockStoppedOthers(i) ==
    /\ state[i] = "created" /\ ~switchOn /\ Wallet(i) \notin OWN_SWITCH_MEMBERS
    /\ Move(i, "stopped")

\* advance: the owner's STOP is re-read at every step, for every wallet's buy.
BlockStopped(i) == state[i] = "created" /\ ~switchOn /\ Move(i, "stopped")

\* A kill switch, SEC-2, the order or the guard refuses.
BlockRefused(i) == state[i] = "created" /\ Move(i, "over")

OwnSwitch(w) == w \in Members => memberOn[w]

\* _facts and LiveSubmissionGuard, with _entry_limits_ok's second count.
ClearGuard(i) ==
    /\ state[i] = "created"
    /\ ~killed
    /\ switchOn /\ OwnSwitch(Wallet(i))
    /\ Cardinality(OpenPositions(Wallet(i))) < MaxOpen
    /\ Move(i, "cleared")

\* The signer refuses, or the pass dies between the guard and the commit.
SignRefused(i) == state[i] = "cleared" /\ (Move(i, "over") \/ Move(i, "created"))

Submit(i) == state[i] = "cleared" /\ Move(i, "submitted")

Reconcile(i) == state[i] = "submitted" /\ (Move(i, "open") \/ Move(i, "over"))

\* A SELL closed the position.
Close(i) == state[i] = "open" /\ Move(i, "over")

-----------------------------------------------------------------------------
(* The operator.                                                           *)

OwnerStart == ~switchOn /\ switchOn' = TRUE /\ UNCHANGED <<state, memberOn, killed, ticks>>
OwnerStop  == switchOn /\ switchOn' = FALSE /\ UNCHANGED <<state, memberOn, killed, ticks>>

MemberSwitch(m) ==
    /\ memberOn' = [memberOn EXCEPT ![m] = ~@]
    /\ UNCHANGED <<state, switchOn, killed, ticks>>

\* A run of failures arms the kill switch; the operator clears it.
KillSwitch == killed' = ~killed /\ UNCHANGED <<state, switchOn, memberOn, ticks>>

TickStep(d) ==
    \/ BeginTick(d) \/ PullBrake(d) \/ OwnerFloor(d) \/ FamilyTicks(d)
    \/ CreateIntent(d) \/ CommitTick(d) \/ RollbackTick(d)
    \/ \E c \in Coins : OwnerCheck(d, c)
    \/ \E m \in Members, c \in Coins : MemberCheck(d, m, c)
    \/ \E m \in Members : MemberFloor(d, m)
    \/ \E w \in Wallets : Skip(d, w)

BuyStep(i) ==
    \/ BlockStopped(i) \/ BlockRefused(i) \/ ClearGuard(i) \/ SignRefused(i)
    \/ Submit(i) \/ Reconcile(i) \/ Close(i)

OperatorStep ==
    OwnerStart \/ OwnerStop \/ KillSwitch \/ \E m \in Members : MemberSwitch(m)

Next ==
    \/ \E d \in Drivers : TickStep(d)
    \/ \E i \in Buys : BuyStep(i)
    \/ OperatorStep

Spec == Init /\ [][Next]_vars

\* Every executor tick walks every unfinished intent, and a pass ends.
Fairness ==
    \A i \in Buys : WF_vars(BlockStopped(i)) /\ WF_vars(Submit(i) \/ SignRefused(i))

FairSpec == Spec /\ Fairness

-----------------------------------------------------------------------------
(* Correctness.                                                            *)

BuysOf(w) == {i \in Committed : Wallet(i) = w}

\* A wallet's buys of one day never exceed REAL_WALLET_MAX_DAILY_TRADES by more
\* than the other ticks in flight, though no tick sees another's rows and a
\* member's floor commits in the middle of one.
DailyTradesBound ==
    \A w \in Wallets :
        Cardinality(BuysOf(w)) + 1 <= MaxTrades + Cardinality(Drivers)

\* STOP drains the book: once the owner's switch stays off, every buy that was
\* not yet sent ends without being sent or is sent at once, and the rows that
\* running ticks and own-switch members still insert end too.
StopDrains ==
    <>[]~switchOn => <>[](\A i \in Buys : state[i] \notin {"created", "cleared"})

\* driver.py:116 "User wallets that keep trading when the main wallet is
\* stopped": such a member's buy is not refused while its own switch is on.
OwnSwitchTrades ==
    [][\A i \in Buys :
          /\ Wallet(i) \in OWN_SWITCH_MEMBERS
          /\ state[i] # "stopped" /\ state'[i] = "stopped"
          => ~memberOn[Wallet(i)]]_vars

-----------------------------------------------------------------------------
(* The inductive invariant behind DailyTradesBound: a tick that passed the *)
(* policy for a wallet counts as a buy from then on.                       *)

Holds(d, w) == \/ \E i \in pending[d] : Wallet(i) = w
               \/ chosen[d] # NoBuy /\ Wallet(chosen[d]) = w

TickInv ==
    \A d \in Drivers :
        /\ at[d] = "insert" <=> chosen[d] # NoBuy
        /\ \A i, j \in pending[d] : Wallet(i) = Wallet(j) => i = j
        /\ \A i \in pending[d] :
              /\ Wallet(i) \notin todo[d]
              /\ chosen[d] # NoBuy => Wallet(i) # Wallet(chosen[d])
        /\ chosen[d] # NoBuy => Wallet(chosen[d]) \notin todo[d]
        /\ at[d] = "idle" => pending[d] = {} /\ todo[d] = {}
        /\ at[d] = "owner" =>
              todo[d] \subseteq {Owner} /\ \A i \in pending[d] : Wallet(i) = Owner
        /\ at[d] = "family" => todo[d] \subseteq Members
        /\ at[d] = "insert" =>
              IF Wallet(chosen[d]) = Owner THEN todo[d] = {} /\ pending[d] = {}
                                           ELSE todo[d] \subseteq Members

TradesInv ==
    \A w \in Wallets :
        Cardinality(BuysOf(w)) + Cardinality({d \in Drivers : Holds(d, w)}) + 1
            <= MaxTrades + Cardinality(Drivers)

EntryInv == TypeOK /\ TickInv /\ TradesInv
=============================================================================
