--------------------------- MODULE AutotradeSwitch ---------------------------
(***************************************************************************)
(* The operator's START and STOP (AutotradeSwitchService), and the rug     *)
(* brake and balance floor that press the same STOP from a driver tick.    *)
(*                                                                         *)
(* The switch is one row.  A session loads it without a lock, assigns      *)
(* attributes, and at flush the ORM emits an UPDATE of the columns whose   *)
(* value differs from the one LOADED.  The UPDATE holds the row's lock     *)
(* until the transaction ends; other transactions read the committed row.  *)
(*                                                                         *)
(* Sessions are the operators' requests and one driver tick per worker     *)
(* process.  A clock stamps presses and closes, each with its own time.    *)
(***************************************************************************)
EXTENDS Naturals

CONSTANTS
    Requests,      \* concurrent START/STOP requests to the API
    Processes,     \* worker processes, each running one driver tick at a time
    Rugs,          \* the positions that will close as rugs
    Choices,       \* [strategy -> the trade sizes Start offers for it]
    NoStrategy,    \* nothing nominated yet
    NoTicket,      \* ticket_usd is None: the configured size
    MaxClock,      \* bound of the model: presses and closes
    MaxRestarts    \* bound of the model: worker restarts

Strategies == DOMAIN Choices
Tickets    == UNION {Choices[g] : g \in Strategies}
Sessions   == Requests \cup Processes

ASSUME SwitchAssumption ==
    /\ Requests \cap Processes = {}
    /\ NoStrategy \notin Strategies
    /\ NoTicket \notin Tickets
    /\ MaxClock \in Nat /\ MaxRestarts \in Nat

VARIABLES
    row,        \* the committed switch row
    closedAt,   \* when each rug closed; 0 while its position is open
    clock,
    weighed,    \* rug_brake._weighed of each process
    restarts,
    at,         \* where each session stands
    op,         \* what it is about to write
    copy,       \* the row as it loaded it
    rugs,       \* the rugs a tick is weighing
    last,       \* how its last call ended
    presses,    \* history: brake STOPs of each process, per rug, since it began
    undone      \* history: how often they turned off a Start newer than the rug

local == <<at, op, copy, rugs, last>>
hist  == <<presses, undone>>
vars  == <<row, closedAt, clock, weighed, restarts, local, hist>>

Rows == [enabled : BOOLEAN, strategy : Strategies \cup {NoStrategy},
         ticket : Tickets \cup {NoTicket}, startedAt : Nat]
Ops  == [kind : {"start", "stop"}, strategy : Strategies \cup {NoStrategy},
         ticket : Tickets \cup {NoTicket}, when : Nat]

TypeOK ==
    /\ row \in Rows /\ copy \in [Sessions -> Rows]
    /\ op \in [Sessions -> Ops]
    /\ closedAt \in [Rugs -> Nat] /\ clock \in Nat /\ restarts \in Nat
    /\ weighed \in [Processes -> SUBSET Rugs]
    /\ rugs \in [Sessions -> SUBSET Rugs]
    /\ at \in [Sessions -> {"idle", "worth", "owner", "load", "flush", "commit", "reply"}]
    /\ last \in [Sessions -> {"ok", "failed"}]
    /\ presses \in [Rugs -> [Processes -> Nat]] /\ undone \in [Rugs -> [Processes -> Nat]]

NoRow == [enabled |-> FALSE, strategy |-> NoStrategy, ticket |-> NoTicket, startedAt |-> 0]
StopOp == [kind |-> "stop", strategy |-> NoStrategy, ticket |-> NoTicket, when |-> 0]

Init ==
    /\ row = NoRow
    /\ closedAt = [r \in Rugs |-> 0]
    /\ clock = 0 /\ restarts = 0
    /\ weighed = [p \in Processes |-> {}]
    /\ at = [s \in Sessions |-> "idle"]
    /\ op = [s \in Sessions |-> StopOp]
    /\ copy = [s \in Sessions |-> NoRow]
    /\ rugs = [s \in Sessions |-> {}]
    /\ last = [s \in Sessions |-> "ok"]
    /\ presses = [r \in Rugs |-> [p \in Processes |-> 0]] /\ undone = presses

-----------------------------------------------------------------------------
(* AutotradeSwitchService.                                                 *)

Calling(s) == at[s] \in {"load", "flush", "commit", "reply"}

\* start: a known strategy and a size from its own choices, or no size.  An
\* unknown one is a 422 that touches nothing.
PressStart(q) ==
    /\ at[q] = "idle" /\ clock < MaxClock
    /\ \E g \in Strategies : \E t \in Choices[g] \cup {NoTicket} :
          op' = [op EXCEPT ![q] = [kind |-> "start", strategy |-> g, ticket |-> t,
                                   when |-> clock + 1]]
    /\ clock' = clock + 1
    /\ at' = [at EXCEPT ![q] = "load"] /\ last' = [last EXCEPT ![q] = "ok"]
    /\ UNCHANGED <<row, closedAt, weighed, restarts, copy, rugs, hist>>

\* stop: no condition at all.
PressStop(q) ==
    /\ at[q] = "idle"
    /\ op' = [op EXCEPT ![q] = StopOp]
    /\ at' = [at EXCEPT ![q] = "load"] /\ last' = [last EXCEPT ![q] = "ok"]
    /\ UNCHANGED <<row, closedAt, clock, weighed, restarts, copy, rugs, hist>>

\* _row: a plain SELECT.
Load(s) ==
    /\ at[s] = "load"
    /\ copy' = [copy EXCEPT ![s] = row]
    /\ at' = [at EXCEPT ![s] = "flush"]
    /\ UNCHANGED <<row, closedAt, clock, weighed, restarts, op, rugs, last, hist>>

\* The UPDATE waits for the transaction that holds the row.
Flush(s) ==
    /\ at[s] = "flush"
    /\ \A o \in Sessions : at[o] # "commit"
    /\ at' = [at EXCEPT ![s] = "commit"]
    /\ UNCHANGED <<row, closedAt, clock, weighed, restarts, op, copy, rugs, last, hist>>

\* The transaction ends and its objects with it.
Forget(s) ==
    /\ op' = [op EXCEPT ![s] = StopOp]
    /\ copy' = [copy EXCEPT ![s] = NoRow]
    /\ rugs' = [rugs EXCEPT ![s] = {}]

\* Mutant: a START without a size keeps the size of the one before.
AssignedKeepsSize(s) ==
    IF op[s].kind = "start"
    THEN [enabled |-> TRUE, strategy |-> op[s].strategy,
          ticket |-> IF op[s].ticket = NoTicket THEN copy[s].ticket ELSE op[s].ticket,
          startedAt |-> op[s].when]
    ELSE [copy[s] EXCEPT !.enabled = FALSE]

\* The attributes start and stop assign.
Assigned(s) ==
    IF op[s].kind = "start"
    THEN [enabled |-> TRUE, strategy |-> op[s].strategy, ticket |-> op[s].ticket,
          startedAt |-> op[s].when]
    ELSE [copy[s] EXCEPT !.enabled = FALSE]

\* A column is written only when its value differs from the loaded one.
Column(new, loaded, current) == IF new # loaded THEN new ELSE current

Written(s) ==
    LET a == Assigned(s) IN
    [enabled   |-> Column(a.enabled, copy[s].enabled, row.enabled),
     strategy  |-> Column(a.strategy, copy[s].strategy, row.strategy),
     ticket    |-> Column(a.ticket, copy[s].ticket, row.ticket),
     startedAt |-> Column(a.startedAt, copy[s].startedAt, row.startedAt)]

\* A brake STOP that turns off a Start newer than a rug it weighed.  The count
\* begins again when the row goes back to a Start older than the rug.
Undoes(s, r) == r \in rugs[s] /\ row.enabled /\ ~row'.enabled

Counted(s) ==
    undone' = [r \in Rugs |-> [p \in Processes |->
        IF row'.startedAt <= closedAt[r] THEN 0
        ELSE undone[r][p] + (IF p = s /\ Undoes(s, r) THEN 1 ELSE 0)]]

Commit(s) ==
    /\ at[s] = "commit"
    /\ row' = Written(s)
    /\ Counted(s)
    /\ Forget(s)
    /\ at' = [at EXCEPT ![s] = "reply"]
    /\ UNCHANGED <<closedAt, clock, weighed, restarts, last, presses>>

Reply(s) ==
    /\ at[s] = "reply"
    /\ at' = [at EXCEPT ![s] = "idle"]
    /\ last' = [last EXCEPT ![s] = "ok"]
    /\ UNCHANGED <<row, closedAt, clock, weighed, restarts, op, copy, rugs, hist>>

\* The request or the tick raises: nothing of the transaction is kept.
Rollback(s) ==
    /\ at[s] \in {"worth", "owner", "load", "flush", "commit"}
    /\ Forget(s)
    /\ at' = [at EXCEPT ![s] = "idle"]
    /\ last' = [last EXCEPT ![s] = IF Calling(s) THEN "failed" ELSE @]
    /\ UNCHANGED <<row, closedAt, clock, weighed, restarts, hist>>

-----------------------------------------------------------------------------
(* The driver's tick in process p: pull_if_due, then the owner's floor.    *)

\* Mutant: a rug counts whenever it closed.
NewRugsEver(p) == {r \in Rugs : closedAt[r] # 0} \ weighed[p]

\* The rugs closed since the last Start that this process has not weighed.
NewRugs(p) == {r \in Rugs : closedAt[r] # 0 /\ closedAt[r] >= row.startedAt} \ weighed[p]

BrakeRead(p) ==
    /\ at[p] = "idle"
    /\ LET new == IF row.enabled THEN NewRugs(p) ELSE {} IN
          /\ rugs' = [rugs EXCEPT ![p] = new]
          /\ at' = [at EXCEPT ![p] = IF new # {} THEN "worth" ELSE "owner"]
    /\ UNCHANGED <<row, closedAt, clock, weighed, restarts, op, copy, last, hist>>

\* worth() answered None: the rug is asked about again next pass.
WorthUnread(p) ==
    /\ at[p] = "worth"
    /\ at' = [at EXCEPT ![p] = "owner"]
    /\ rugs' = [rugs EXCEPT ![p] = {}]
    /\ UNCHANGED <<row, closedAt, clock, weighed, restarts, op, copy, last, hist>>

\* worth() answered BELOW_USD or more: weighed, and not weighed again.
BrakeHeld(p) ==
    /\ at[p] = "worth"
    /\ at' = [at EXCEPT ![p] = "owner"]
    /\ weighed' = [weighed EXCEPT ![p] = @ \cup rugs[p]]
    /\ rugs' = [rugs EXCEPT ![p] = {}]
    /\ UNCHANGED <<row, closedAt, clock, restarts, op, copy, last, hist>>

Pressed(p) ==
    presses' = [r \in Rugs |-> IF r \in rugs[p] THEN [presses[r] EXCEPT ![p] = @ + 1]
                                                ELSE presses[r]]

\* Mutant: only a rug that was held is remembered.
BrakeStopForgets(p) ==
    /\ at[p] = "worth"
    /\ at' = [at EXCEPT ![p] = "load"] /\ last' = [last EXCEPT ![p] = "ok"]
    /\ op' = [op EXCEPT ![p] = StopOp]
    /\ Pressed(p)
    /\ UNCHANGED <<row, closedAt, clock, weighed, restarts, copy, rugs, undone>>

\* worth() answered less: weighed, and STOP is pressed, which loads the row again.
BrakeStop(p) ==
    /\ at[p] = "worth"
    /\ at' = [at EXCEPT ![p] = "load"] /\ last' = [last EXCEPT ![p] = "ok"]
    /\ weighed' = [weighed EXCEPT ![p] = @ \cup rugs[p]]
    /\ op' = [op EXCEPT ![p] = StopOp]
    /\ Pressed(p)
    /\ UNCHANGED <<row, closedAt, clock, restarts, copy, rugs, undone>>

\* stop_below_floor: the owner is on and worth less than the floor.
FloorStop(p) ==
    /\ at[p] = "owner" /\ row.enabled
    /\ at' = [at EXCEPT ![p] = "load"] /\ last' = [last EXCEPT ![p] = "ok"]
    /\ op' = [op EXCEPT ![p] = StopOp]
    /\ UNCHANGED <<row, closedAt, clock, weighed, restarts, copy, rugs, hist>>

EndTick(p) ==
    /\ at[p] = "owner"
    /\ at' = [at EXCEPT ![p] = "idle"]
    /\ UNCHANGED <<row, closedAt, clock, weighed, restarts, op, copy, rugs, last, hist>>

\* A new worker process starts with an empty _weighed.
RestartProcess(p) ==
    /\ at[p] = "idle" /\ restarts < MaxRestarts
    /\ restarts' = restarts + 1
    /\ weighed' = [weighed EXCEPT ![p] = {}]
    /\ presses' = [r \in Rugs |-> [presses[r] EXCEPT ![p] = 0]]
    /\ UNCHANGED <<row, closedAt, clock, local, undone>>

\* The settlement of a sale that got back under half of what went in.
RugCloses(r) ==
    /\ closedAt[r] = 0 /\ clock < MaxClock
    /\ clock' = clock + 1
    /\ closedAt' = [closedAt EXCEPT ![r] = clock + 1]
    /\ UNCHANGED <<row, weighed, restarts, hist, local>>

Next ==
    \/ \E q \in Requests : PressStart(q) \/ PressStop(q)
    \/ \E s \in Sessions : Load(s) \/ Flush(s) \/ Commit(s) \/ Reply(s) \/ Rollback(s)
    \/ \E p \in Processes :
          \/ BrakeRead(p) \/ WorthUnread(p) \/ BrakeHeld(p) \/ BrakeStop(p)
          \/ FloorStop(p) \/ EndTick(p) \/ RestartProcess(p)
    \/ \E r \in Rugs : RugCloses(r)

Spec == Init /\ [][Next]_vars

-----------------------------------------------------------------------------
(* Correctness.                                                            *)

\* What a call sets.
Wish(s) ==
    IF op[s].kind = "start"
    THEN [enabled |-> TRUE, strategy |-> op[s].strategy, ticket |-> op[s].ticket,
          startedAt |-> op[s].when]
    ELSE [enabled |-> FALSE]

\* A column that already had the value its call wants took effect when the call
\* loaded the row; any other takes effect when it commits.
Changed(s) == {c \in DOMAIN Wish(s) : Wish(s)[c] # copy[s][c]}

Unset(s) ==
    CASE at[s] = "load" -> DOMAIN Wish(s)
      [] at[s] \in {"flush", "commit"} -> Changed(s)
      [] OTHER -> {}

PhaseOf(s) == IF Calling(s) THEN "calling" ELSE last[s]
TodoOf(s)  == [c \in Unset(s) |-> Wish(s)[c]]

Register == INSTANCE AtomicSwitch WITH
    Callers <- Sessions, Initial <- NoRow, value <- row,
    phase <- [s \in Sessions |-> PhaseOf(s)], todo <- [s \in Sessions |-> TodoOf(s)]

\* Every column that an answered START or STOP sets took its value once, between
\* the press and the answer, whatever overlaps it and though the ORM writes only
\* the columns that differ from the row it loaded.  Two STARTs that overlap may
\* leave the strategy of one with the size of the other; never a value that a
\* call overwrote before they were pressed.
ImplementsSwitch == Register!Spec

\* However restarts, presses and ticks overlap, one worker process presses STOP
\* for one rug at most once.
OneStopPerRug == \A r \in Rugs, p \in Processes : presses[r][p] <= 1

\* rug_brake.py:11 "Karthik starting again by hand is never stopped by the rug he
\* restarted after": a tick that read the rug before the restart may still stop
\* it, but each process does so once at most, over all the restarts by hand that
\* follow the rug and all the restarts of the process itself.
RestartIsUndoneOnce == \A r \in Rugs, p \in Processes : undone[r][p] <= 1

-----------------------------------------------------------------------------
(* The inductive invariant behind the properties.                          *)

\* A rug a tick is weighing was not weighed before in its process, and only weighed
\* ones were pressed for.
WeighInv ==
    \A p \in Processes :
        /\ at[p] = "worth" => rugs[p] \cap weighed[p] = {}
        /\ \A r \in Rugs : presses[r][p] <= IF r \in weighed[p] THEN 1 ELSE 0

\* Between flush and commit nobody else holds the row.
LockInv == \A s, o \in Sessions : at[s] = "commit" /\ at[o] = "commit" => s = o

\* The rugs a tick weighs have closed.
RugInv == \A p \in Processes : \A r \in rugs[p] : closedAt[r] # 0

\* A process that has undone a Start newer than a rug is not weighing that rug
\* again: it was not read as new, whether or not it is remembered as weighed.
UndoneInv ==
    \A r \in Rugs, p \in Processes :
        /\ undone[r][p] <= 1
        /\ (closedAt[r] = 0 \/ row.startedAt <= closedAt[r]) => undone[r][p] = 0
        /\ r \in rugs[p] => undone[r][p] = 0

\* What every step of the requests, the brake, the floor and the ORM keeps.
SwitchInv == TypeOK /\ WeighInv /\ LockInv /\ RugInv /\ UndoneInv
=============================================================================
