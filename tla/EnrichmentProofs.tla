-------------------------- MODULE EnrichmentProofs --------------------------
(***************************************************************************)
(* The proofs about the market data service: its queue and its breaker.    *)
(*                                                                         *)
(* A token is parked on evidence, for any number of tokens and replicas    *)
(* and every setting: EvidenceInv is inductive.  The beats leave a claimed *)
(* row alone, so what a replica counts from is what the table says.        *)
(*                                                                         *)
(* The breaker trips only on the threshold of failures in a row, for every *)
(* number of requests and every setting.  The property is inductive with   *)
(* the types, because Failed is the only method that opens the breaker     *)
(* from a closed state and no method clears the count of one that is not   *)
(* closed without closing it.                                              *)
(***************************************************************************)
EXTENDS Enrichment, CircuitBreaker, TLAPS

-----------------------------------------------------------------------------
(* Rows.                                                                   *)

\* The lanes and what a row may hold, in the form the provers use.
LEMMA RowFields ==
    /\ Rows = [status : {"none", "active", "dead", "paused"}, lane : 0..3,
               fails : 0..Threshold, wait : Nat, since : 0..MinFailing \cup {Never},
               idle : 0..RetryIdle]
    /\ Threshold \in Nat \ {0} /\ MinFailing \in Nat /\ RetryIdle \in Nat /\ Cooldown \in Nat
    /\ MaxBackoff \in Nat /\ PriorityInterval \in Nat /\ Interval \in Nat
    /\ Never \notin Nat
  BY EnrichmentAssumption DEF Rows, NORMAL, TRACK

\* A token nobody has enrolled.
LEMMA NoRowType == NoRow \in Rows /\ NoRow.status = "none" /\ NoRow.fails = 0
<1>1. NoRow = [status |-> "none", lane |-> 0, fails |-> 0, wait |-> 0,
               since |-> Never, idle |-> RetryIdle]
  BY DEF NoRow, NORMAL
<1> QED
  BY <1>1, RowFields

\* Time ages a row and keeps its status and its count; a row that failed for long
\* enough goes on doing so.
LEMMA AgedRow ==
    ASSUME NEW r \in Rows
    PROVE  /\ Aged(r) \in Rows
           /\ Aged(r).status = r.status /\ Aged(r).fails = r.fails
           /\ r.since = Never \/ r.since >= MinFailing
                  => Aged(r).since = Never \/ Aged(r).since >= MinFailing
<1>1. Down(r.wait) \in Nat /\ Least(r.idle + 1, RetryIdle) \in 0..RetryIdle
  BY RowFields DEF Down, Least
<1>2. CASE r.since = Never
  <2>1. Aged(r) = [r EXCEPT !.wait = Down(r.wait), !.since = Never,
                            !.idle = Least(r.idle + 1, RetryIdle)]
    BY <1>2, RowFields DEF Aged
  <2> QED
    BY <1>1, <2>1, RowFields
<1>3. CASE r.since # Never
  <2> DEFINE n == Least(r.since + 1, MinFailing)
  <2>1. n \in 0..MinFailing /\ (r.since >= MinFailing => n >= MinFailing)
    BY <1>3, RowFields DEF Least
  <2>2. Aged(r) = [r EXCEPT !.wait = Down(r.wait), !.since = n,
                            !.idle = Least(r.idle + 1, RetryIdle)]
    BY <1>3, RowFields DEF Aged
  <2> HIDE DEF n
  <2> QED
    BY <1>1, <1>3, <2>1, <2>2, RowFields
<1> QED
  BY <1>2, <1>3

\* What an answer makes of a row: one failure more at most, and parked only when
\* the call about it failed, the count is full and the token has failed long enough.
LEMMA WrittenRow ==
    ASSUME NEW w \in Workers, NEW t \in Tokens, NEW answer \in Answers,
           NEW backoff \in 0..MaxBackoff, mem[w][t] \in Rows, mem[w][t].status = "active"
    PROVE  /\ Written(w, t, answer, backoff) \in Rows
           /\ answer = "unavailable" =>
                  /\ Written(w, t, answer, backoff).fails = mem[w][t].fails
                  /\ Written(w, t, answer, backoff).status = "active"
           /\ answer = "error" =>
                  /\ Written(w, t, answer, backoff).fails = Least(mem[w][t].fails + 1, Threshold)
                  /\ Written(w, t, answer, backoff).since = mem[w][t].since
                  /\ Written(w, t, answer, backoff).status = "dead"
                         => ShouldDeadLetter(mem[w][t])
           /\ answer \notin {"unavailable", "error"} =>
                  /\ Written(w, t, answer, backoff).fails = 0
                  /\ Written(w, t, answer, backoff).status # "dead"
<1> DEFINE r == mem[w][t]
           left == IF r.lane >= TRACK THEN NORMAL ELSE r.lane
           more == Least(r.fails + 1, Threshold)
           late == Greatest(BaseInterval(r), backoff)
<1>1. r \in Rows /\ r.status = "active"
  OBVIOUS
<1>2. /\ left \in 0..3 /\ more \in 0..Threshold /\ late \in Nat /\ BaseInterval(r) \in Nat
      /\ Cooldown \in Nat
  BY RowFields DEF TRACK, NORMAL, Least, Greatest, BaseInterval
<1>3. CASE answer = "unavailable"
  <2>1. Written(w, t, answer, backoff) = [r EXCEPT !.wait = Cooldown]
    BY <1>3 DEF Written
  <2> QED
    BY <1>1, <1>2, <1>3, <2>1, RowFields
<1>4. CASE answer = "error"
  <2>1. Written(w, t, answer, backoff) =
            [r EXCEPT !.lane = left, !.idle = 0, !.fails = more, !.wait = late,
                      !.status = IF ShouldDeadLetter(r) THEN "dead" ELSE r.status]
    BY <1>1, <1>4, RowFields DEF Written, Recorded
  <2> HIDE DEF r, left, late
  <2>2. PICK st \in {"active", "dead"} :
            /\ Written(w, t, answer, backoff) =
                  [r EXCEPT !.lane = left, !.idle = 0, !.fails = more, !.wait = late,
                            !.status = st]
            /\ st = "dead" => ShouldDeadLetter(r)
    BY <1>1, <2>1
  <2>3. more = Least(r.fails + 1, Threshold)
    OBVIOUS
  <2> HIDE DEF more
  <2>5. Written(w, t, answer, backoff) =
            [status |-> st, lane |-> left, fails |-> more, wait |-> late,
             since |-> r.since, idle |-> 0]
    BY <1>1, <2>2, RowFields
  <2>4. /\ Written(w, t, answer, backoff) \in Rows
        /\ Written(w, t, answer, backoff).fails = more
        /\ Written(w, t, answer, backoff).since = r.since
        /\ Written(w, t, answer, backoff).status = st
    BY <1>1, <1>2, <2>5, RowFields
  <2> QED
    BY <1>4, <2>2, <2>3, <2>4 DEF r
<1>5. CASE answer \notin {"unavailable", "error"}
  <2>1. PICK st \in {"active", "paused"} :
            Written(w, t, answer, backoff) =
                [r EXCEPT !.lane = left, !.idle = 0, !.fails = 0, !.since = 0,
                          !.wait = BaseInterval(r), !.status = st]
    BY <1>1, <1>5, RowFields DEF Written, Recorded
  <2> HIDE DEF r, left
  <2>2. Written(w, t, answer, backoff) =
            [status |-> st, lane |-> left, fails |-> 0, wait |-> BaseInterval(r),
             since |-> 0, idle |-> 0]
    BY <1>1, <2>1, RowFields
  <2> QED
    BY <1>1, <1>2, <1>5, <2>2, RowFields
<1> QED
  BY <1>3, <1>4, <1>5

-----------------------------------------------------------------------------
(* The invariant.                                                          *)

\* No token is enrolled and no replica holds one.
LEMMA EvidenceInit == Init => EvidenceInv
<1> SUFFICES ASSUME Init PROVE EvidenceInv
  OBVIOUS
<1>1. TypeOK
  BY NoRowType, RowFields DEF Init, TypeOK
<1>2. ClaimInv
  BY DEF Init, ClaimInv
<1>3. CountInv /\ ParkedOnEvidence
  BY NoRowType DEF Init, CountInv, ParkedOnEvidence
<1> QED
  BY <1>1, <1>2, <1>3 DEF EvidenceInv

\* A beat writes one row that nobody holds, counts no failure and parks nothing.
LEMMA OneRow ==
    ASSUME EvidenceInv, NEW t \in Tokens, ~Locked(t), NEW v \in Rows,
           row' = [row EXCEPT ![t] = v], v.fails <= row[t].fails,
           v.status = "dead" => row[t].status = "dead" /\ v.since = row[t].since,
           beat' \in [Tokens -> {"done", "member", "other"}],
           UNCHANGED <<claim, mem, shown, radar, old, errors>>
    PROVE  EvidenceInv'
<1> USE DEF EvidenceInv
<1>1. TypeOK'
  BY DEF TypeOK
<1>2. row'[t] = v /\ \A o \in Tokens : o # t => row'[o] = row[o]
  BY DEF TypeOK
<1>3. ClaimInv'
  BY <1>2 DEF ClaimInv, Locked, TypeOK
<1>4. CountInv'
  <2>1. v.fails \in Nat /\ row[t].fails \in Nat /\ errors[t] \in Nat
    BY RowFields DEF TypeOK
  <2> QED
    BY <1>2, <2>1 DEF CountInv
<1>5. ParkedOnEvidence'
  BY <1>2 DEF ParkedOnEvidence
<1> QED
  BY <1>1, <1>3, <1>4, <1>5

\* A row that is held is active.
LEMMA HeldIsActive ==
    ASSUME EvidenceInv, NEW t \in Tokens, row[t].status # "active"
    PROVE  ~Locked(t)
  BY DEF EvidenceInv, ClaimInv, Locked

\* Enrolment finds no row, so nobody holds one.
LEMMA EnrolStep ==
    ASSUME EvidenceInv, NEW t \in Tokens, Register(t) \/ Backfill(t)
    PROVE  EvidenceInv'
<1>1. PICK lane \in 0..3 : Enrol(t, lane)
  BY DEF Register, Backfill, NURSERY, NORMAL
<1> DEFINE v == [NoRow EXCEPT !.status = "active", !.lane = lane]
<1>2. v \in Rows /\ v.fails = 0 /\ v.status = "active"
  BY NoRowType, RowFields
<1>3. /\ row' = [row EXCEPT ![t] = v] /\ row[t].status = "none"
      /\ UNCHANGED <<claim, mem, shown, radar, beat, old, errors>>
  BY <1>1 DEF Enrol
<1> HIDE DEF v
<1>4. ~Locked(t)
  BY <1>3, HeldIsActive
<1>5. v.fails <= row[t].fails /\ beat' \in [Tokens -> {"done", "member", "other"}]
  BY <1>2, <1>3, RowFields DEF EvidenceInv, TypeOK
<1> QED
  BY <1>2, <1>3, <1>4, <1>5, OneRow

\* A change of lane and of the time to wait.
LEMMA LaneStep ==
    ASSUME EvidenceInv, NEW t \in Tokens, ~Locked(t),
           \E lane \in 0..3, wait \in Nat :
               row' = [row EXCEPT ![t] = [row[t] EXCEPT !.lane = lane, !.wait = wait]],
           beat' \in [Tokens -> {"done", "member", "other"}],
           UNCHANGED <<claim, mem, shown, radar, old, errors>>
    PROVE  EvidenceInv'
<1>5. PICK lane \in 0..3, wait \in Nat :
          row' = [row EXCEPT ![t] = [row[t] EXCEPT !.lane = lane, !.wait = wait]]
  OBVIOUS
<1> DEFINE v == [row[t] EXCEPT !.lane = lane, !.wait = wait]
<1>1. row[t] \in Rows
  BY DEF EvidenceInv, TypeOK
<1>2. v \in Rows /\ v.fails = row[t].fails /\ v.status = row[t].status /\ v.since = row[t].since
  BY <1>1, RowFields
<1>3. v.fails <= row[t].fails
  BY <1>1, <1>2, RowFields
<1> HIDE DEF v
<1>4. row' = [row EXCEPT ![t] = v]
  BY <1>5 DEF v
<1> QED
  BY <1>2, <1>3, <1>4, OneRow

\* The beats that move a token between the lanes.
LEMMA BeatStep ==
    ASSUME EvidenceInv, NEW t \in Tokens,
           Prioritize(t) \/ NurseryEvict(t) \/ NurseryAdmit(t) \/ ApplyMembership(t)
    PROVE  EvidenceInv'
<1>1. row[t] \in Rows /\ row \in [Tokens -> Rows]
      /\ beat \in [Tokens -> {"done", "member", "other"}]
  BY DEF EvidenceInv, TypeOK
<1>2. row[t].lane \in 0..3 /\ row[t].wait \in Nat
  BY <1>1, RowFields
<1> DEFINE Moved ==
        \E lane \in 0..3, wait \in Nat :
            row' = [row EXCEPT ![t] = [row[t] EXCEPT !.lane = lane, !.wait = wait]]
<1>7. 0 \in 0..3 /\ 1 \in 0..3 /\ 3 \in 0..3 /\ 0 \in Nat
  OBVIOUS
<1>3. CASE Prioritize(t) \/ NurseryEvict(t) \/ NurseryAdmit(t)
  <2>1. /\ ~Locked(t) /\ beat' = beat
        /\ UNCHANGED <<claim, mem, shown, radar, old, errors>>
    BY <1>3 DEF Prioritize, NurseryEvict, NurseryAdmit
  <2>2. ASSUME Prioritize(t) PROVE Moved
    <3>1. row' = [row EXCEPT ![t] = [row[t] EXCEPT !.lane = 3, !.wait = 0]]
      BY <1>1, <2>2 DEF Prioritize, TRACK
    <3> QED
      BY <1>7, <3>1, Zenon
  <2>3. ASSUME NurseryEvict(t) PROVE Moved
    <3>1. row' = [row EXCEPT ![t] = [row[t] EXCEPT !.lane = 0, !.wait = row[t].wait]]
      BY <1>1, <2>3, RowFields DEF NurseryEvict, NORMAL
    <3> QED
      BY <1>2, <1>7, <3>1, Zenon
  <2>4. ASSUME NurseryAdmit(t) PROVE Moved
    <3>1. row' = [row EXCEPT ![t] = [row[t] EXCEPT !.lane = 1, !.wait = 0]]
      BY <1>1, <2>4 DEF NurseryAdmit, NURSERY
    <3> QED
      BY <1>7, <3>1, Zenon
  <2>5. Moved
    BY <1>3, <2>2, <2>3, <2>4
  <2> QED
    BY <1>1, <2>1, <2>5, LaneStep
<1>6. CASE ApplyMembership(t)
  <2>1. /\ ~Locked(t) /\ beat' \in [Tokens -> {"done", "member", "other"}]
        /\ UNCHANGED <<claim, mem, shown, radar, old, errors>>
    BY <1>1, <1>6 DEF ApplyMembership
  <2>2. Greatest(row[t].lane, DISPLAY) \in 0..3 /\ Least(row[t].wait, PriorityInterval) \in Nat
    BY <1>2, RowFields DEF Greatest, Least, DISPLAY
  <2>3. row[t] = [row[t] EXCEPT !.lane = row[t].lane, !.wait = row[t].wait]
    BY <1>1, RowFields
  <2>4. [row[t] EXCEPT !.lane = NORMAL] = [row[t] EXCEPT !.lane = 0, !.wait = row[t].wait]
    BY <1>1, RowFields DEF NORMAL
  <2>6. row' = [row EXCEPT ![t] = Applied(row[t], beat[t] = "member")]
    BY <1>6 DEF ApplyMembership
  <2>5. Moved
    <3>1. CASE row[t].status # "none" /\ beat[t] = "member"
      <4>1. Applied(row[t], beat[t] = "member") =
                [row[t] EXCEPT !.lane = Greatest(row[t].lane, DISPLAY),
                               !.wait = Least(row[t].wait, PriorityInterval)]
        BY <3>1 DEF Applied
      <4> QED
        BY <4>1, <2>2, <2>6, Zenon
    <3>2. CASE row[t].status # "none" /\ beat[t] # "member" /\ row[t].lane = DISPLAY
      <4>1. Applied(row[t], beat[t] = "member") = [row[t] EXCEPT !.lane = NORMAL]
        BY <3>2, Zenon DEF Applied
      <4>2. row' = [row EXCEPT ![t] = [row[t] EXCEPT !.lane = 0, !.wait = row[t].wait]]
        BY <4>1, <2>4, <2>6
      <4> QED
        BY <1>2, <1>7, <4>2, Zenon
    <3>3. CASE row[t].status = "none" \/ (beat[t] # "member" /\ row[t].lane # DISPLAY)
      <4>1. Applied(row[t], beat[t] = "member") = row[t]
        BY <3>3, Zenon DEF Applied
      <4>2. row' = [row EXCEPT ![t] = [row[t] EXCEPT !.lane = row[t].lane, !.wait = row[t].wait]]
        BY <4>1, <2>3, <2>6
      <4> QED
        BY <1>2, <4>2, Zenon
    <3> QED
      BY <3>1, <3>2, <3>3
  <2> QED
    BY <2>1, <2>5, LaneStep
<1> QED
  BY <1>3, <1>6

\* A row that is readmitted.
LEMMA ReadmittedRow ==
    ASSUME NEW r \in Rows
    PROVE  LET v == [r EXCEPT !.status = "active", !.fails = 0, !.wait = 0]
           IN  v \in Rows /\ v.fails = 0 /\ v.status = "active"
<1> DEFINE v == [r EXCEPT !.status = "active", !.fails = 0, !.wait = 0]
<1> DEFINE a == [r EXCEPT !.status = "active"]
           b == [a EXCEPT !.fails = 0]
<1>1. a \in Rows /\ a.status = "active"
  BY RowFields
<1>3. v = [b EXCEPT !.wait = 0]
  BY RowFields
<1> HIDE DEF a, v
<1>4. b \in Rows /\ b.status = "active" /\ b.fails = 0
  BY <1>1, RowFields
<1> HIDE DEF b
<1>2. v \in Rows /\ v.fails = 0 /\ v.status = "active"
  BY <1>3, <1>4, RowFields
<1> QED
  BY <1>2 DEF v

\* A token that is parked starts again with a clean count.
LEMMA RequeueStep ==
    ASSUME EvidenceInv, NEW t \in Tokens, Requeue(t)
    PROVE  EvidenceInv'
<1> USE DEF EvidenceInv
<1> DEFINE v == [row[t] EXCEPT !.status = "active", !.fails = 0, !.wait = 0]
<1>1. row[t] \in Rows /\ ~Locked(t)
  BY HeldIsActive DEF TypeOK, Requeue
<1>3. row' = [row EXCEPT ![t] = v]
  BY DEF Requeue, TypeOK
<1>2. v \in Rows /\ v.fails = 0 /\ v.status = "active"
  BY <1>1, ReadmittedRow
<1> HIDE DEF v
<1>4. row'[t] = v /\ \A o \in Tokens : o # t => row'[o] = row[o]
  BY <1>3 DEF TypeOK
<1>5. errors'[t] = 0 /\ \A o \in Tokens : o # t => errors'[o] = errors[o]
  BY DEF Requeue, TypeOK
<1>6. TypeOK'
  <2>1. row' \in [Tokens -> Rows]
    BY <1>2, <1>3 DEF TypeOK
  <2>2. errors' \in [Tokens -> 0..Threshold]
    BY RowFields DEF Requeue, TypeOK
  <2> QED
    BY <2>1, <2>2 DEF Requeue, TypeOK
<1>7. ClaimInv'
  BY <1>1, <1>4 DEF Requeue, ClaimInv, Locked, TypeOK
<1>8. CountInv' /\ ParkedOnEvidence'
  BY <1>2, <1>4, <1>5 DEF CountInv, ParkedOnEvidence
<1> QED
  BY <1>6, <1>7, <1>8

\* A claim takes what is due and nobody holds, as the table has it.
LEMMA ClaimStep ==
    ASSUME EvidenceInv, NEW w \in Workers, Claim(w)
    PROVE  EvidenceInv'
<1> USE DEF EvidenceInv
<1>1. \A t \in Tokens :
          LET v == IF t \in Due THEN [row[t] EXCEPT !.idle = 0] ELSE NoRow
          IN  /\ v \in Rows
              /\ t \in Due => /\ v.status = "active" /\ v.fails = row[t].fails
                              /\ v.since = row[t].since
  <2> SUFFICES ASSUME NEW t \in Tokens
               PROVE  /\ [row[t] EXCEPT !.idle = 0] \in Rows
                      /\ [row[t] EXCEPT !.idle = 0].fails = row[t].fails
                      /\ [row[t] EXCEPT !.idle = 0].since = row[t].since
                      /\ [row[t] EXCEPT !.idle = 0].status = row[t].status
    BY NoRowType DEF Due
  <2>1. row[t] \in Rows
    BY DEF TypeOK
  <2> QED
    BY <2>1, RowFields
<1>2. /\ mem'[w] = [t \in Tokens |-> IF t \in Due THEN [row[t] EXCEPT !.idle = 0] ELSE NoRow]
      /\ \A v \in Workers : v # w => mem'[v] = mem[v]
  BY DEF Claim, TypeOK
<1>3. claim'[w] = Due /\ \A v \in Workers : v # w => claim'[v] = claim[v]
  BY DEF Claim, TypeOK
<1>4. mem'[w] \in [Tokens -> Rows]
  BY <1>1, <1>2
<1>5. TypeOK'
  <2>1. mem' \in [Workers -> [Tokens -> Rows]]
    BY <1>2, <1>4 DEF Claim, TypeOK
  <2>2. claim' \in [Workers -> SUBSET Tokens]
    BY DEF Claim, TypeOK, Due
  <2> QED
    BY <2>1, <2>2 DEF Claim, TypeOK
<1>6. \A t \in Due : t \in Tokens /\ row[t].status = "active" /\ ~Locked(t)
  BY DEF Due
<1>7. ClaimInv'
  <2> SUFFICES ASSUME NEW v \in Workers, NEW t \in claim'[v]
               PROVE  /\ row[t].status = "active" /\ mem'[v][t].status = "active"
                      /\ mem'[v][t].fails = row[t].fails /\ mem'[v][t].since = row[t].since
                      /\ \A o \in Workers : t \in claim'[o] => o = v
    <3>1. row' = row
      BY DEF Claim
    <3> QED
      BY <3>1 DEF ClaimInv
  <2>1. CASE v = w
    <3>1. t \in Due /\ t \in Tokens /\ \A o \in Workers : t \notin claim[o]
      BY <2>1, <1>3, <1>6 DEF Locked
    <3>2. mem'[w][t] = [row[t] EXCEPT !.idle = 0]
      BY <1>2, <3>1
    <3> QED
      BY <2>1, <3>1, <3>2, <1>1, <1>3, <1>6
  <2>2. CASE v # w
    <3>1. t \in claim[v] /\ mem'[v] = mem[v]
      BY <2>2, <1>2, <1>3
    <3>2. t \in Tokens /\ Locked(t)
      BY <3>1 DEF Locked, TypeOK
    <3>3. t \notin Due
      BY <3>2 DEF Due
    <3> QED
      BY <3>1, <3>3, <1>3 DEF ClaimInv
  <2> QED
    BY <2>1, <2>2
<1>8. CountInv' /\ ParkedOnEvidence'
  BY DEF Claim, CountInv, ParkedOnEvidence
<1> QED
  BY <1>5, <1>7, <1>8

\* The locks of a replica that ends its batch are free.
LEMMA Released ==
    ASSUME TypeOK, NEW w \in Workers, Release(w)
    PROVE  /\ claim' \in [Workers -> SUBSET Tokens] /\ mem' \in [Workers -> [Tokens -> Rows]]
           /\ claim'[w] = {}
           /\ \A v \in Workers : v # w => claim'[v] = claim[v] /\ mem'[v] = mem[v]
<1>1. [t \in Tokens |-> NoRow] \in [Tokens -> Rows]
  BY NoRowType
<1> QED
  BY <1>1 DEF Release, TypeOK

\* A replica that dies leaves the table as it was.
LEMMA DieStep ==
    ASSUME EvidenceInv, NEW w \in Workers, Die(w)
    PROVE  EvidenceInv'
<1> USE DEF EvidenceInv
<1>1. /\ claim' \in [Workers -> SUBSET Tokens] /\ mem' \in [Workers -> [Tokens -> Rows]]
      /\ claim'[w] = {}
      /\ \A v \in Workers : v # w => claim'[v] = claim[v] /\ mem'[v] = mem[v]
  BY Released DEF Die
<1>2. UNCHANGED <<row, shown, radar, beat, old, errors>>
  BY DEF Die
<1>3. TypeOK'
  BY <1>1, <1>2 DEF TypeOK
<1>4. ClaimInv'
  BY <1>1, <1>2 DEF ClaimInv
<1> QED
  BY <1>2, <1>3, <1>4 DEF CountInv, ParkedOnEvidence

\* A batch counts a failure for every call that failed, and for nothing else.
LEMMA EnrichStep ==
    ASSUME EvidenceInv, NEW w \in Workers, Enrich(w)
    PROVE  EvidenceInv'
<1> USE DEF EvidenceInv
<1>1. /\ claim' \in [Workers -> SUBSET Tokens] /\ mem' \in [Workers -> [Tokens -> Rows]]
      /\ claim'[w] = {}
      /\ \A v \in Workers : v # w => claim'[v] = claim[v] /\ mem'[v] = mem[v]
  BY Released DEF Enrich
<1>2. PICK answer \in [claim[w] -> Answers], backoff \in 0..MaxBackoff :
          LET new == [t \in claim[w] |-> Written(w, t, answer[t], backoff)]
          IN /\ row' = [t \in Tokens |-> IF t \in claim[w] THEN new[t] ELSE row[t]]
             /\ radar' = [t \in Tokens |->
                   IF t \in claim[w] /\ answer[t] \in {"data", "thin"} /\ radar[t] = "unquoted"
                   THEN "quoted" ELSE radar[t]]
             /\ errors' = [t \in Tokens |->
                   IF t \notin claim[w] \/ answer[t] = "unavailable" THEN errors[t]
                   ELSE IF answer[t] = "error" THEN Least(errors[t] + 1, Threshold) ELSE 0]
  BY DEF Enrich
<1>3. claim[w] \in SUBSET Tokens /\ UNCHANGED <<shown, beat, old>>
  BY DEF TypeOK, Enrich
<1>4. \A t \in Tokens : t \notin claim[w] => row'[t] = row[t] /\ errors'[t] = errors[t]
  BY <1>2
<1>5. ASSUME NEW t \in claim[w]
      PROVE  /\ row'[t] \in Rows /\ errors'[t] \in 0..Threshold /\ row'[t].fails <= errors'[t]
             /\ row'[t].status = "dead" =>
                    /\ errors'[t] >= Threshold
                    /\ row'[t].since = Never \/ row'[t].since >= MinFailing
  <2> DEFINE r == mem[w][t]
  <2>1. /\ t \in Tokens /\ answer[t] \in Answers /\ row'[t] = Written(w, t, answer[t], backoff)
        /\ errors'[t] = IF answer[t] = "unavailable" THEN errors[t]
                        ELSE IF answer[t] = "error" THEN Least(errors[t] + 1, Threshold) ELSE 0
    BY <1>2, <1>3
  <2>2. /\ r \in Rows /\ r.status = "active" /\ r.fails \in 0..Threshold
        /\ r.fails <= errors[t] /\ errors[t] \in 0..Threshold
    BY <2>1, RowFields DEF TypeOK, ClaimInv, CountInv
  <2>3. /\ row'[t] \in Rows
        /\ answer[t] = "unavailable" => row'[t].fails = r.fails /\ row'[t].status = "active"
        /\ answer[t] = "error" =>
               /\ row'[t].fails = Least(r.fails + 1, Threshold) /\ row'[t].since = r.since
               /\ row'[t].status = "dead" => ShouldDeadLetter(r)
        /\ answer[t] \notin {"unavailable", "error"} =>
               row'[t].fails = 0 /\ row'[t].status # "dead"
    BY <2>1, <2>2, WrittenRow
  <2> HIDE DEF r
  <2>4. CASE answer[t] = "unavailable"
    BY <2>1, <2>2, <2>3, <2>4
  <2>5. CASE answer[t] = "error"
    <3>1. errors'[t] = Least(errors[t] + 1, Threshold)
      BY <2>1, <2>5
    <3>2. errors'[t] \in 0..Threshold /\ row'[t].fails <= errors'[t]
      BY <3>1, <2>2, <2>3, <2>5, RowFields DEF Least
    <3>3. ASSUME ShouldDeadLetter(r) PROVE errors'[t] >= Threshold
      BY <3>1, <3>3, <2>2, RowFields DEF Least, ShouldDeadLetter
    <3> QED
      BY <2>3, <2>5, <3>2, <3>3 DEF ShouldDeadLetter
  <2>6. CASE answer[t] \notin {"unavailable", "error"}
    BY <2>1, <2>2, <2>3, <2>6, RowFields
  <2> QED
    BY <2>4, <2>5, <2>6
<1>6. TypeOK'
  <2>1. row' \in [Tokens -> Rows]
    BY <1>2, <1>4, <1>5 DEF TypeOK
  <2>2. radar' \in [Tokens -> {"no", "unquoted", "quoted"}]
    BY <1>2 DEF TypeOK
  <2>3. errors' \in [Tokens -> 0..Threshold]
    BY <1>2, <1>4, <1>5 DEF TypeOK
  <2> QED
    BY <1>1, <1>3, <2>1, <2>2, <2>3 DEF TypeOK
<1>7. ClaimInv'
  <2> SUFFICES ASSUME NEW v \in Workers, NEW t \in claim'[v]
               PROVE  /\ row'[t].status = "active" /\ mem'[v][t].status = "active"
                      /\ mem'[v][t].fails = row'[t].fails /\ mem'[v][t].since = row'[t].since
                      /\ \A o \in Workers : t \in claim'[o] => o = v
    BY DEF ClaimInv
  <2>1. v # w /\ t \in claim[v] /\ mem'[v] = mem[v]
    BY <1>1
  <2>2. t \in Tokens /\ t \notin claim[w]
    BY <2>1 DEF ClaimInv, TypeOK
  <2> QED
    BY <2>1, <2>2, <1>1, <1>4 DEF ClaimInv
<1>8. CountInv'
  BY <1>4, <1>5 DEF CountInv
<1>9. ParkedOnEvidence'
  BY <1>4, <1>5 DEF ParkedOnEvidence
<1> QED
  BY <1>6, <1>7, <1>8, <1>9

\* Time ages the table and what a replica holds alike.
LEMMA ElapseStep == ASSUME EvidenceInv, Elapse PROVE EvidenceInv'
<1> USE DEF EvidenceInv
<1>1. \A t \in Tokens : row'[t] = Aged(row[t]) /\ row[t] \in Rows
  BY DEF Elapse, TypeOK
<1>2. \A w \in Workers : \A t \in Tokens :
          mem'[w][t] = (IF t \in claim[w] THEN Aged(mem[w][t]) ELSE NoRow) /\ mem[w][t] \in Rows
  BY DEF Elapse, TypeOK
<1>3. TypeOK'
  <2>1. row' \in [Tokens -> Rows]
    BY AgedRow DEF Elapse, TypeOK
  <2>2. mem' \in [Workers -> [Tokens -> Rows]]
    <3>1. \A w \in Workers : [t \in Tokens |-> IF t \in claim[w] THEN Aged(mem[w][t]) ELSE NoRow]
                             \in [Tokens -> Rows]
      BY <1>2, AgedRow, NoRowType
    <3> QED
      BY <3>1 DEF Elapse
  <2> QED
    BY <2>1, <2>2 DEF Elapse, TypeOK
<1>4. ASSUME NEW r \in Rows, NEW q \in Rows, r.since = q.since
      PROVE  Aged(r).since = Aged(q).since
  BY <1>4, RowFields DEF Aged
<1>5. ClaimInv'
  <2> SUFFICES ASSUME NEW w \in Workers, NEW t \in claim[w]
               PROVE  /\ row'[t].status = "active" /\ mem'[w][t].status = "active"
                      /\ mem'[w][t].fails = row'[t].fails /\ mem'[w][t].since = row'[t].since
                      /\ \A o \in Workers : t \in claim[o] => o = w
    BY DEF ClaimInv, Elapse
  <2>1. t \in Tokens
    BY DEF TypeOK
  <2>2. row'[t] = Aged(row[t]) /\ mem'[w][t] = Aged(mem[w][t])
    BY <1>1, <1>2, <2>1
  <2> QED
    BY <1>1, <1>2, <1>4, <2>1, <2>2, AgedRow DEF ClaimInv
<1>6. CountInv'
  BY <1>1, AgedRow DEF CountInv, Elapse
<1>7. ParkedOnEvidence'
  BY <1>1, AgedRow DEF ParkedOnEvidence, Elapse
<1> QED
  BY <1>3, <1>5, <1>6, <1>7

\* The rest of the system changes no row and no claim.
LEMMA WorldStep ==
    ASSUME EvidenceInv,
           \/ \E t \in Tokens : Show(t) \/ Hide(t) \/ Admit(t) \/ GrowOld(t)
           \/ ResolveMembership
    PROVE  EvidenceInv'
<1> USE DEF EvidenceInv
<1>1. UNCHANGED <<row, claim, mem, errors>>
  BY DEF Show, Hide, Admit, GrowOld, ResolveMembership
<1>2. /\ shown' \in SUBSET Tokens /\ radar' \in [Tokens -> {"no", "unquoted", "quoted"}]
      /\ beat' \in [Tokens -> {"done", "member", "other"}] /\ old' \in SUBSET Tokens
  BY DEF Show, Hide, Admit, GrowOld, ResolveMembership, TypeOK
<1> QED
  BY <1>1, <1>2 DEF TypeOK, ClaimInv, CountInv, ParkedOnEvidence

\* EvidenceInv is inductive.
LEMMA EvidenceStep == EvidenceInv /\ [Next]_vars => EvidenceInv'
<1> SUFFICES ASSUME EvidenceInv, [Next]_vars PROVE EvidenceInv'
  OBVIOUS
<1>1. CASE UNCHANGED vars
  BY <1>1 DEF vars, EvidenceInv, TypeOK, ClaimInv, CountInv, ParkedOnEvidence
<1>2. CASE Next
  BY <1>2, EnrolStep, BeatStep, RequeueStep, ClaimStep, EnrichStep, DieStep, ElapseStep,
     WorldStep DEF Next
<1> QED
  BY <1>1, <1>2

-----------------------------------------------------------------------------
(* The theorems.                                                           *)

\* Two replicas never hold one token, no beat passes a lock, and every failure a
\* row counts is a call that failed, for any number of tokens and replicas.
THEOREM EvidenceInvariant == Spec => []EvidenceInv
  BY EvidenceInit, EvidenceStep, PTL DEF Spec

\* should_dead_letter: a token is parked on evidence of its own, whatever the
\* breaker, the lanes and dying replicas do.
THEOREM ParkedOnlyOnEvidence == Spec => []ParkedOnEvidence
<1>1. EvidenceInv => ParkedOnEvidence
  BY DEF EvidenceInv
<1> QED
  BY <1>1, EvidenceInvariant, PTL

-----------------------------------------------------------------------------
(* The breaker.                                                            *)

\* The inductive invariant.
BreakerInv == BreakerTypeOK /\ TripsOnThreshold

\* The values of the breaker that the invariant allows.
Breakers ==
    {b \in [state : {"closed", "open", "half_open"}, failures : 0..MaxFailures,
            successes : Nat, cooldown : 0..ResetTime] :
        b.state # "closed" => b.failures >= FailureThreshold}

\* BreakerInv is a fact about the breaker's value and the requests' places.
LEMMA InvByValue == BreakerInv <=> breaker \in Breakers /\ at \in [Requests -> {"idle", "sent"}]
BY DEF BreakerInv, BreakerTypeOK, TripsOnThreshold, Breakers

\* Reading the state, as every method does first, keeps the count.
LEMMA ObservedAllowed == ASSUME NEW b \in Breakers PROVE Observed(b) \in Breakers
BY BreakerAssumption DEF Observed, Breakers

\* A success keeps the count of a breaker that stays half open, and closes it
\* in every other case.
LEMMA SucceededAllowed == ASSUME NEW b \in Breakers PROVE Succeeded(b) \in Breakers
<1>1. Closed \in Breakers
  BY BreakerAssumption DEF Closed, Breakers
<1>2. CASE b.state = "half_open"
  <2>1. [b EXCEPT !.successes = @ + 1] \in Breakers
    BY DEF Breakers
  <2> QED
    BY <1>1, <1>2, <2>1 DEF Succeeded
<1>3. CASE b.state # "half_open"
  <2> DEFINE c == [b EXCEPT !.failures = 0]
  <2>2. c \in [state : {"closed", "open", "half_open"}, failures : 0..MaxFailures,
               successes : Nat, cooldown : 0..ResetTime]
    BY BreakerAssumption DEF Breakers
  <2>3. [b EXCEPT !.failures = 0, !.state = "closed"] = [c EXCEPT !.state = "closed"]
    BY DEF Breakers
  <2> HIDE DEF c
  <2>1. [b EXCEPT !.failures = 0, !.state = "closed"] \in Breakers
    BY <2>2, <2>3 DEF Breakers
  <2> QED
    BY <1>3, <2>1 DEF Succeeded
<1> QED
  BY <1>2, <1>3

\* _open, of a breaker that has counted enough.
LEMMA OpenedAllowed ==
    ASSUME NEW b \in [state : {"closed", "open", "half_open"}, failures : 0..MaxFailures,
                      successes : Nat, cooldown : 0..ResetTime],
           b.failures >= FailureThreshold
    PROVE  Opened(b) \in Breakers
<1> DEFINE R == [state : {"closed", "open", "half_open"}, failures : 0..MaxFailures,
                 successes : Nat, cooldown : 0..ResetTime]
<1> DEFINE c == [b EXCEPT !.state = "open"]
<1> DEFINE d == [c EXCEPT !.successes = 0]
<1>1. c \in R /\ c.failures = b.failures
  OBVIOUS
<1>2. d \in R /\ d.failures = b.failures
  BY <1>1
<1>3. Opened(b) = [d EXCEPT !.cooldown = ResetTime]
  BY DEF Opened
<1> HIDE DEF c, d
<1>4. ResetTime \in 0..ResetTime
  BY BreakerAssumption
<1>5. Opened(b) \in R /\ Opened(b).failures = b.failures
  BY <1>2, <1>3, <1>4
<1> QED
  BY <1>5 DEF Breakers

\* A failure opens the breaker at the threshold, or opens again one that had
\* passed it.
LEMMA FailedAllowed == ASSUME NEW b \in Breakers PROVE Failed(b) \in Breakers
<1> DEFINE more == IF b.failures < MaxFailures THEN b.failures + 1 ELSE b.failures
<1> DEFINE c == [b EXCEPT !.failures = more]
<1>1. more \in 0..MaxFailures
  BY BreakerAssumption DEF Breakers
<1>2. /\ c \in [state : {"closed", "open", "half_open"}, failures : 0..MaxFailures,
                successes : Nat, cooldown : 0..ResetTime]
      /\ c.failures = more /\ c.state = b.state
      /\ b.failures >= FailureThreshold => more >= FailureThreshold
  BY <1>1, BreakerAssumption DEF Breakers
<1>3. Failed(b) = IF b.state = "half_open" THEN Opened(b)
                  ELSE IF more >= FailureThreshold THEN Opened(c) ELSE c
  BY DEF Failed
<1> HIDE DEF more, c
<1>4. CASE b.state = "half_open"
  <2>1. Opened(b) \in Breakers
    BY <1>4, OpenedAllowed DEF Breakers
  <2> QED
    BY <1>3, <1>4, <2>1
<1>5. CASE b.state # "half_open" /\ more >= FailureThreshold
  BY <1>2, <1>3, <1>5, OpenedAllowed
<1>6. CASE b.state # "half_open" /\ ~(more >= FailureThreshold)
  <2>1. b.state = "closed"
    BY <1>2, <1>6 DEF Breakers
  <2> QED
    BY <1>2, <1>3, <1>6, <2>1 DEF Breakers
<1> QED
  BY <1>4, <1>5, <1>6

\* Time that passes changes neither the state nor the count.
LEMMA ElapsedAllowed ==
    ASSUME NEW b \in Breakers, b.cooldown > 0
    PROVE  [b EXCEPT !.cooldown = @ - 1] \in Breakers
BY BreakerAssumption DEF Breakers

\* One step of a request, of the health endpoint or of time.
LEMMA BreakerStep == BreakerInv /\ [BreakerNext]_breakerVars => BreakerInv'
<1> SUFFICES ASSUME BreakerInv, [BreakerNext]_breakerVars PROVE BreakerInv'
  OBVIOUS
<1>1. breaker \in Breakers /\ at \in [Requests -> {"idle", "sent"}]
  BY InvByValue
<1> SUFFICES breaker' \in Breakers /\ at' \in [Requests -> {"idle", "sent"}]
  BY DEF BreakerInv, BreakerTypeOK, TripsOnThreshold, Breakers
<1>2. ASSUME NEW r \in Requests, Send(r)
      PROVE  breaker' \in Breakers /\ at' \in [Requests -> {"idle", "sent"}]
  BY <1>1, <1>2, ObservedAllowed DEF Send
<1>3. ASSUME NEW r \in Requests, Answer(r)
      PROVE  breaker' \in Breakers /\ at' \in [Requests -> {"idle", "sent"}]
  BY <1>1, <1>3, ObservedAllowed, SucceededAllowed DEF Answer
<1>4. ASSUME NEW r \in Requests, Fail(r)
      PROVE  breaker' \in Breakers /\ at' \in [Requests -> {"idle", "sent"}]
  BY <1>1, <1>4, ObservedAllowed, FailedAllowed DEF Fail
<1>5. CASE Health
  BY <1>1, <1>5, ObservedAllowed DEF Health
<1>6. CASE BreakerElapse
  BY <1>1, <1>6, ElapsedAllowed DEF BreakerElapse
<1>7. CASE UNCHANGED breakerVars
  BY <1>1, <1>7 DEF breakerVars
<1> QED
  BY <1>2, <1>3, <1>4, <1>5, <1>6, <1>7 DEF BreakerNext

\* A breaker that is not closed has counted the threshold of failures in a row,
\* in every reachable state: what a late answer leaves behind never makes
\* record_failure open it early.
THEOREM BreakerTrips == BreakerSpec => []TripsOnThreshold
<1>1. BreakerInit => BreakerInv
  BY BreakerAssumption DEF BreakerInit, Closed, BreakerInv, BreakerTypeOK, TripsOnThreshold
<1>2. BreakerInv => TripsOnThreshold
  BY DEF BreakerInv
<1> QED
  BY <1>1, <1>2, BreakerStep, PTL DEF BreakerSpec
=============================================================================
