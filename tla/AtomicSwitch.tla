---------------------------- MODULE AtomicSwitch ----------------------------
(***************************************************************************)
(* What a start/stop control promises its callers: every column that an    *)
(* answered call sets is set once, at one moment between the call and the  *)
(* answer.  The columns of one call may be set at different moments: the   *)
(* row as a whole is not promised to be any one caller's.                  *)
(***************************************************************************)
CONSTANTS Callers, Initial

VARIABLES
    value,   \* the columns of the control
    phase,   \* each caller: its call runs, or how its last one ended
    todo     \* what its call has still to set: a value for each such column

switch == <<value, phase, todo>>

Nothing == [c \in {} |-> c]

Init ==
    /\ value = Initial
    /\ phase = [s \in Callers |-> "ok"]
    /\ todo = [s \in Callers |-> Nothing]

\* Caller s alone moves.
Moves(s, to) ==
    /\ (phase[s] = "calling") # (to = "calling")
    /\ phase'[s] = to
    /\ phase' = [phase EXCEPT ![s] = to]

Call(s) ==
    /\ Moves(s, "calling")
    /\ DOMAIN todo'[s] \subseteq DOMAIN value
    /\ todo' = [todo EXCEPT ![s] = todo'[s]]
    /\ UNCHANGED value

\* The columns that are no longer to be set take the value the call has for them.
TakeEffect(s) ==
    LET set == DOMAIN todo[s] \ DOMAIN todo'[s] IN
    /\ set # {}
    /\ value' = [c \in DOMAIN value |-> IF c \in set THEN todo[s][c] ELSE value[c]]
    /\ todo' = [todo EXCEPT ![s] = [c \in DOMAIN todo[s] \ set |-> todo[s][c]]]
    /\ UNCHANGED phase

Answer(s) ==
    /\ Moves(s, "ok")
    /\ DOMAIN todo[s] = {}
    /\ UNCHANGED <<value, todo>>

\* The caller gets an error; what of its call took effect is not said.
Fail(s) ==
    /\ Moves(s, "failed")
    /\ todo' = [todo EXCEPT ![s] = Nothing]
    /\ UNCHANGED value

Next == \E s \in Callers : Call(s) \/ TakeEffect(s) \/ Answer(s) \/ Fail(s)

Spec == Init /\ [][Next]_switch
=============================================================================
