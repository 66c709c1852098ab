------------------------------ MODULE Enrichment ------------------------------
(***************************************************************************)
(* The refresh schedule of the market data worker: one row per token in    *)
(* token_enrichment_state, drained by worker replicas (claim_due, fetch,   *)
(* enrich), and moved between lanes, parked, readmitted and enrolled by    *)
(* beats of other processes.                                               *)
(*                                                                         *)
(* A worker's claim, its results and its commit are one transaction: the   *)
(* rows it claimed are locked until then, another worker's claim skips     *)
(* them and a beat's UPDATE waits for them.                                *)
(*                                                                         *)
(* Times are kept as what is still to wait or how long ago it was, up to   *)
(* the limit the code compares with, so that nothing grows with the clock. *)
(***************************************************************************)
EXTENDS Naturals

CONSTANTS
    Tokens,           \* discovered tokens
    Workers,          \* worker replicas
    Threshold,        \* ENRICHMENT_DEAD_LETTER_THRESHOLD
    MinFailing,       \* ENRICHMENT_DEAD_LETTER_MIN_MINUTES
    RetryIdle,        \* ENRICHMENT_DEAD_LETTER_RETRY_MINUTES
    Cooldown,         \* what is left of the breaker's cooldown, at least DEFER_MIN
    PriorityInterval, \* the display lane's interval
    Interval,         \* the interval of the other lanes
    MaxBackoff,       \* the longest failure backoff
    Never             \* last_success_at is null

ASSUME EnrichmentAssumption ==
    /\ Threshold \in Nat \ {0} /\ {MinFailing, RetryIdle, Cooldown, MaxBackoff} \subseteq Nat
    /\ {PriorityInterval, Interval} \subseteq Nat \ {0} /\ PriorityInterval <= Interval
    /\ Never \notin Nat

NORMAL  == 0
NURSERY == 1
DISPLAY == 2
TRACK   == 3

VARIABLES
    row,     \* the committed rows
    claim,   \* the rows each worker has locked
    mem,     \* its objects
    shown,   \* open positions and visible ranks
    radar,   \* admission of each token: none, without a quote yet, quoted
    beat,    \* what the lane pass under way has still to write
    old,     \* the tokens past ENRICHMENT_RETIRE_AFTER_HOURS
    errors   \* history: provider errors about each token since it last worked

vars == <<row, claim, mem, shown, radar, beat, old, errors>>

NoRow == [status |-> "none", lane |-> NORMAL, fails |-> 0, wait |-> 0,
          since |-> Never, idle |-> RetryIdle]

Init ==
    /\ row = [t \in Tokens |-> NoRow]
    /\ claim = [w \in Workers |-> {}]
    /\ mem = [w \in Workers |-> [t \in Tokens |-> NoRow]]
    /\ shown = {}
    /\ radar = [t \in Tokens |-> "no"]
    /\ beat = [t \in Tokens |-> "done"]
    /\ old = {}
    /\ errors = [t \in Tokens |-> 0]

Least(a, b)    == IF a < b THEN a ELSE b
Greatest(a, b) == IF a > b THEN a ELSE b

Locked(t) == \E w \in Workers : t \in claim[w]

-----------------------------------------------------------------------------
(* Enrolment.                                                              *)

Enrol(t, lane) ==
    /\ row[t].status = "none"
    /\ row' = [row EXCEPT ![t] = [NoRow EXCEPT !.status = "active", !.lane = lane]]
    /\ UNCHANGED <<claim, mem, shown, radar, beat, old, errors>>

\* register_token, on the scanner's message: due at once, in the nursery.
Register(t) == Enrol(t, NURSERY)

\* backfill_missing: the sweep finds what the listener missed.
Backfill(t) == Enrol(t, NORMAL)

-----------------------------------------------------------------------------
(* The worker.                                                             *)

Due == {t \in Tokens : row[t].status = "active" /\ row[t].wait = 0 /\ ~Locked(t)}

\* claim_due: the batch limit is above the tokens of the model.
Claim(w) ==
    /\ claim[w] = {} /\ Due # {}
    /\ claim' = [claim EXCEPT ![w] = Due]
    /\ mem' = [mem EXCEPT ![w] = [t \in Tokens |->
                 IF t \in Due THEN [row[t] EXCEPT !.idle = 0] ELSE NoRow]]
    /\ UNCHANGED <<row, shown, radar, beat, old, errors>>

\* The answers a chunk can get about a token.
Answers == {"unavailable", "error", "data", "thin", "empty"}

BaseInterval(r) == IF r.lane >= DISPLAY THEN PriorityInterval ELSE Interval

\* Mutant: the count alone decides, as it did before 2026-08-05.
ShouldDeadLetterByCount(r) == r.fails + 1 >= Threshold

\* should_dead_letter.
ShouldDeadLetter(r) ==
    r.fails + 1 >= Threshold /\ (r.since = Never \/ r.since >= MinFailing)

\* _retirable: old, dead and watched by nobody.  The lane is the one of the claim.
Retirable(r, t, answer) ==
    /\ answer \in {"thin", "empty"} /\ t \in old
    /\ r.lane < DISPLAY /\ radar[t] = "no"

\* record_result after decide; the failure backoff is a full jitter up to its cap.
Recorded(r, t, answer, backoff) ==
    LET left == IF r.lane >= TRACK THEN NORMAL ELSE r.lane IN
    IF answer = "error"
    THEN [r EXCEPT !.lane = left, !.idle = 0,
                   !.fails = Least(@ + 1, Threshold),
                   !.wait = Greatest(BaseInterval(r), backoff),
                   !.status = IF ShouldDeadLetter(r) THEN "dead" ELSE @]
    ELSE [r EXCEPT !.lane = left, !.idle = 0, !.fails = 0, !.since = 0,
                   !.wait = BaseInterval(r),
                   !.status = IF Retirable(r, t, answer) THEN "paused" ELSE @]

\* Mutant: a batch the open breaker rejected is charged to its tokens.
WrittenCharged(w, t, answer, backoff) ==
    Recorded(mem[w][t], t, IF answer = "unavailable" THEN "error" ELSE answer, backoff)

\* _defer touches next_refresh_at alone; the claim has already stamped the row.
Written(w, t, answer, backoff) ==
    IF answer = "unavailable" THEN [mem[w][t] EXCEPT !.wait = Cooldown]
                              ELSE Recorded(mem[w][t], t, answer, backoff)

Release(w) ==
    /\ claim' = [claim EXCEPT ![w] = {}]
    /\ mem' = [mem EXCEPT ![w] = [t \in Tokens |-> NoRow]]

\* fetch and enrich of every chunk, and the commit of TX-1.
Enrich(w) ==
    /\ claim[w] # {}
    /\ \E answer \in [claim[w] -> Answers], backoff \in 0..MaxBackoff :
          LET new == [t \in claim[w] |-> Written(w, t, answer[t], backoff)]
          IN /\ row' = [t \in Tokens |-> IF t \in claim[w] THEN new[t] ELSE row[t]]
             /\ radar' = [t \in Tokens |->
                   IF t \in claim[w] /\ answer[t] \in {"data", "thin"} /\ radar[t] = "unquoted"
                   THEN "quoted" ELSE radar[t]]
             /\ errors' = [t \in Tokens |->
                   IF t \notin claim[w] \/ answer[t] = "unavailable" THEN errors[t]
                   ELSE IF answer[t] = "error" THEN Least(errors[t] + 1, Threshold) ELSE 0]
    /\ Release(w)
    /\ UNCHANGED <<shown, beat, old>>

\* The replica dies mid-batch: its transaction is gone and its locks with it.
Die(w) ==
    /\ claim[w] # {}
    /\ Release(w)
    /\ UNCHANGED <<row, shown, radar, beat, old, errors>>

-----------------------------------------------------------------------------
(* The beats.                                                              *)

\* Mutant: the readmitted token keeps its status.
RequeueParked(t) ==
    /\ row[t].status = "dead" /\ row[t].idle >= RetryIdle
    /\ row' = [row EXCEPT ![t].fails = 0, ![t].wait = 0]
    /\ errors' = [errors EXCEPT ![t] = 0]
    /\ UNCHANGED <<claim, mem, shown, radar, beat, old>>

\* requeue_dead_letters.
Requeue(t) ==
    /\ row[t].status = "dead" /\ row[t].idle >= RetryIdle
    /\ row' = [row EXCEPT ![t].status = "active", ![t].fails = 0, ![t].wait = 0]
    /\ errors' = [errors EXCEPT ![t] = 0]
    /\ UNCHANGED <<claim, mem, shown, radar, beat, old>>

\* prioritize_unquoted_track_record_candidates.
Prioritize(t) ==
    /\ row[t].status = "active" /\ row[t].lane < TRACK /\ ~Locked(t)
    /\ radar[t] = "unquoted"
    /\ row' = [row EXCEPT ![t].lane = TRACK, ![t].wait = 0]
    /\ UNCHANGED <<claim, mem, shown, radar, beat, old, errors>>

\* resolve_membership: who is displayed now.
ResolveMembership ==
    /\ \A t \in Tokens : beat[t] = "done"
    /\ beat' = [t \in Tokens |-> IF t \in shown THEN "member" ELSE "other"]
    /\ UNCHANGED <<row, claim, mem, shown, radar, old, errors>>

\* A member enters the lane and is due within the lane's interval, whatever it was
\* waiting for.
Applied(r, member) ==
    IF r.status = "none" THEN r
    ELSE IF member THEN [r EXCEPT !.lane = Greatest(@, DISPLAY),
                                  !.wait = Least(@, PriorityInterval)]
    ELSE IF r.lane = DISPLAY THEN [r EXCEPT !.lane = NORMAL]
    ELSE r

\* apply_membership, row by row as the locks allow.
ApplyMembership(t) ==
    /\ beat[t] # "done" /\ ~Locked(t)
    /\ beat' = [beat EXCEPT ![t] = "done"]
    /\ row' = [row EXCEPT ![t] = Applied(row[t], beat[t] = "member")]
    /\ UNCHANGED <<claim, mem, shown, radar, old, errors>>

\* refresh_nursery_lane: eviction by age or by capacity.
NurseryEvict(t) ==
    /\ row[t].lane = NURSERY /\ ~Locked(t)
    /\ row' = [row EXCEPT ![t].lane = NORMAL]
    /\ UNCHANGED <<claim, mem, shown, radar, beat, old, errors>>

\* refresh_nursery_lane: a fresh active token that waits outside is due at once.
NurseryAdmit(t) ==
    /\ row[t].status = "active" /\ row[t].lane = NORMAL /\ ~Locked(t)
    /\ t \notin old
    /\ row' = [row EXCEPT ![t].lane = NURSERY, ![t].wait = 0]
    /\ UNCHANGED <<claim, mem, shown, radar, beat, old, errors>>

-----------------------------------------------------------------------------
(* What the rest of the system does, and time.                             *)

Show(t) ==
    /\ t \notin shown
    /\ shown' = shown \cup {t}
    /\ UNCHANGED <<row, claim, mem, radar, beat, old, errors>>

Hide(t) ==
    /\ t \in shown
    /\ shown' = shown \ {t}
    /\ UNCHANGED <<row, claim, mem, radar, beat, old, errors>>

Admit(t) ==
    /\ radar[t] = "no" /\ row[t].status # "none"
    /\ radar' = [radar EXCEPT ![t] = "unquoted"]
    /\ UNCHANGED <<row, claim, mem, shown, beat, old, errors>>

\* The token passes ENRICHMENT_RETIRE_AFTER_HOURS.
GrowOld(t) ==
    /\ t \notin old
    /\ old' = old \cup {t}
    /\ UNCHANGED <<row, claim, mem, shown, radar, beat, errors>>

Down(n) == IF n = 0 THEN 0 ELSE n - 1

Aged(r) ==
    [r EXCEPT !.wait = Down(@),
              !.since = IF @ = Never THEN Never ELSE Least(@ + 1, MinFailing),
              !.idle = Least(@ + 1, RetryIdle)]

Elapse ==
    /\ row' = [t \in Tokens |-> Aged(row[t])]
    /\ mem' = [w \in Workers |-> [t \in Tokens |->
                 IF t \in claim[w] THEN Aged(mem[w][t]) ELSE NoRow]]
    /\ UNCHANGED <<claim, shown, radar, beat, old, errors>>

Next ==
    \/ \E t \in Tokens :
          \/ Register(t) \/ Backfill(t) \/ Requeue(t) \/ Prioritize(t) \/ ApplyMembership(t)
          \/ NurseryEvict(t) \/ NurseryAdmit(t) \/ Show(t) \/ Hide(t) \/ Admit(t)
          \/ GrowOld(t)
    \/ \E w \in Workers : Claim(w) \/ Enrich(w) \/ Die(w)
    \/ ResolveMembership \/ Elapse

Spec == Init /\ [][Next]_vars

\* Time passes; the sweep and the requeue beat come round; a worker polls and
\* ends what it claimed, and is not killed for ever.
Fairness ==
    /\ WF_vars(Elapse)
    /\ \A t \in Tokens : WF_vars(Backfill(t)) /\ WF_vars(Requeue(t))
    /\ \A w \in Workers : WF_vars(Claim(w)) /\ SF_vars(Enrich(w))

FairSpec == Spec /\ Fairness

-----------------------------------------------------------------------------
(* Correctness.                                                            *)

\* A token is parked on evidence of its own: the threshold of calls that were
\* made about it and failed, and, if it ever worked, the minimum time since it
\* did.  An open breaker, a lane's cadence and a dying replica add nothing.
ParkedOnEvidence ==
    \A t \in Tokens :
        row[t].status = "dead" =>
            /\ errors[t] >= Threshold
            /\ row[t].since = Never \/ row[t].since >= MinFailing

\* No token is stranded: whatever message was lost, whichever replica died, and
\* though it was parked, a token is asked about again and again until it is
\* retired.
NeverStranded ==
    \A t \in Tokens : []<>(Locked(t) \/ row[t].status = "paused")

-----------------------------------------------------------------------------
(* The inductive invariant behind ParkedOnEvidence.                        *)

Rows == [status : {"none", "active", "dead", "paused"}, lane : NORMAL..TRACK,
         fails : 0..Threshold, wait : Nat, since : 0..MinFailing \cup {Never},
         idle : 0..RetryIdle]

TypeOK ==
    /\ row \in [Tokens -> Rows]
    /\ claim \in [Workers -> SUBSET Tokens]
    /\ mem \in [Workers -> [Tokens -> Rows]]
    /\ shown \in SUBSET Tokens
    /\ radar \in [Tokens -> {"no", "unquoted", "quoted"}]
    /\ beat \in [Tokens -> {"done", "member", "other"}]
    /\ old \in SUBSET Tokens
    /\ errors \in [Tokens -> 0..Threshold]

\* Two replicas never hold the same token, and what one holds is active and has
\* the failures and the last success of the committed row: no beat passes a lock.
ClaimInv ==
    \A w \in Workers : \A t \in claim[w] :
        /\ row[t].status = "active" /\ mem[w][t].status = "active"
        /\ mem[w][t].fails = row[t].fails /\ mem[w][t].since = row[t].since
        /\ \A v \in Workers : t \in claim[v] => v = w

\* Every failure counted is a call that was made and failed.
CountInv == \A t \in Tokens : row[t].fails <= errors[t]

\* What every replica, beat, death and requeue keeps.
EvidenceInv == TypeOK /\ ClaimInv /\ CountInv /\ ParkedOnEvidence
=============================================================================
