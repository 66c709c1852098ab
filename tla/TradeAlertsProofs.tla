------------------------- MODULE TradeAlertsProofs -------------------------
(***************************************************************************)
(* What the ticks of the trade alerts keep, however many of them overlap   *)
(* and wherever they die: the inductive invariant AlertInv, and from it    *)
(* that a message is sent twice only when its first arrival was lost, that *)
(* an open arrives before its close, and that nothing is marked as pushed  *)
(* while a device that was there for it has not been asked.                *)
(***************************************************************************)
EXTENDS TradeAlerts, TLAPS

Sending == {"sending", "limited", "arrived"}

-----------------------------------------------------------------------------
(* The rows.                                                               *)

\* The fields of an alert row.
LEMMA AlertFields ==
    ASSUME NEW a \in Alerts
    PROVE  /\ a.status \in {"none", "baseline", "pending", "sent", "failed"}
           /\ a.attempts \in 0..MAX_ATTEMPTS /\ a.wait \in Nat
           /\ a.push \in {"due", "done", "old"}
  BY DEF Alerts

\* A row that is marked as pushed, or grows old, differs in nothing else.
LEMMA PushedAlert ==
    ASSUME NEW a \in Alerts, NEW m \in {"done", "old"}
    PROVE  LET b == [a EXCEPT !.push = m]
           IN  b \in Alerts /\ b.status = a.status /\ b.attempts = a.attempts /\ b.push = m
  BY DEF Alerts

\* A row that is marked as sent is pushed or not as before.
LEMMA SentAlert ==
    ASSUME NEW a \in Alerts
    PROVE  LET b == [a EXCEPT !.status = "sent", !.attempts = 0]
           IN  b \in Alerts /\ b.status = "sent" /\ b.push = a.push
<1>1. 0 \in 0..MAX_ATTEMPTS
  BY AlertAssumption
<1> QED
  BY <1>1 DEF Alerts

\* A row whose backoff elapses differs in nothing else.
LEMMA WaitingAlert ==
    ASSUME NEW a \in Alerts
    PROVE  LET b == [a EXCEPT !.wait = IF @ > 0 THEN @ - 1 ELSE 0]
           IN  /\ b \in Alerts /\ b.status = a.status
               /\ b.attempts = a.attempts /\ b.push = a.push
  BY DEF Alerts

\* A fresh row.
LEMMA FreshAlert ==
    ASSUME NEW s \in {"pending", "baseline"}
    PROVE  LET b == [NoAlert EXCEPT !.status = s]
           IN  b \in Alerts /\ b.status = s /\ b.attempts = 0 /\ b.push = "due"
<1>1. 0 \in 0..MAX_ATTEMPTS
  BY AlertAssumption
<1>2. NoAlert \in Alerts /\ NoAlert.attempts = 0 /\ NoAlert.push = "due"
  BY <1>1 DEF Alerts, NoAlert
<1>3. ASSUME NEW n \in Alerts
      PROVE  LET b == [n EXCEPT !.status = s]
             IN  /\ b \in Alerts /\ b.status = s /\ b.attempts = n.attempts
                 /\ b.push = n.push
  BY DEF Alerts
<1> QED
  BY <1>2, <1>3

\* A refused row stays pending with an attempt left, or is given up.
LEMMA RefusedAlert ==
    ASSUME NEW a \in Alerts, a.status = "pending", a.attempts < MAX_ATTEMPTS,
           NEW limited \in BOOLEAN
    PROVE  LET b == Refused(a, limited)
           IN  /\ b \in Alerts /\ b.push = a.push
               /\ b.status \in {"pending", "failed"}
               /\ b.status = "pending" => b.attempts < MAX_ATTEMPTS
<1> DEFINE n == IF limited /\ a.attempts + 1 >= MAX_ATTEMPTS THEN MAX_ATTEMPTS - 1
                                                             ELSE a.attempts + 1
           w == IF n = 0 THEN 0 ELSE Backoff[n]
           s == IF n >= MAX_ATTEMPTS THEN "failed" ELSE a.status
<1>1. n \in 0..MAX_ATTEMPTS
  BY AlertAssumption, AlertFields
<1>2. w \in Nat
  BY <1>1, AlertAssumption
<1>3. s \in {"pending", "failed"} /\ (s = "pending" => n < MAX_ATTEMPTS)
  BY <1>1, AlertAssumption
<1>4. Refused(a, limited) = [a EXCEPT !.attempts = n, !.wait = w, !.status = s]
  BY DEF Refused
<1> HIDE DEF n, w, s
<1> QED
  BY <1>1, <1>2, <1>3, <1>4 DEF Alerts

\* The events, and the absence of one.
LEMMA EventPairs ==
    /\ \A p \in Positions : <<p, "opened">> \in Events /\ <<p, "closed">> \in Events
    /\ \A e \in Events : /\ e[1] \in Positions /\ e[2] \in {"opened", "closed"}
                         /\ e = <<e[1], e[2]>>
    /\ NoEvent \notin Events
  BY DEF Events, NoEvent

-----------------------------------------------------------------------------
(* A step that changes no status, no lock and no arrival.                  *)

Quiet ==
    /\ UNCHANGED <<log, cur, told, lost, swapped, hidden>>
    /\ \A e \in Events : /\ alert'[e].status = alert[e].status
                         /\ alert'[e].attempts = alert[e].attempts
    /\ \A d \in Ticks : /\ at'[d] \in Sending <=> at[d] \in Sending
                        /\ at'[d] = "arrived" <=> at[d] = "arrived"
                        /\ at[d] \in Sending => left'[d] = left[d]

\* Such a step keeps everything that is about statuses, locks and arrivals.
LEMMA QuietStep ==
    ASSUME AlertInv, Quiet
    PROVE  LockInv' /\ AttemptInv' /\ LogInv' /\ ArrivalInv' /\ SettledInv' /\ OpenArrivesFirst'
<1>1. LockInv'
  BY DEF AlertInv, Quiet, LockInv, Sending
<1>2. AttemptInv'
  BY DEF AlertInv, Quiet, AttemptInv
<1>3. LogInv'
  BY EventPairs DEF AlertInv, Quiet, LogInv
<1>4. ArrivalInv'
  <2>1. \A e \in Events : Accounted(e)' <=> Accounted(e)
    BY DEF Quiet, Accounted
  <2> QED
    BY <2>1 DEF AlertInv, Quiet, ArrivalInv
<1>5. SettledInv'
  BY EventPairs DEF AlertInv, Quiet, SettledInv
<1>6. OpenArrivesFirst'
  BY DEF AlertInv, Quiet, OpenArrivesFirst
<1> QED
  BY <1>1, <1>2, <1>3, <1>4, <1>5, <1>6

\* Where a tick goes next.
LEMMA AtStep ==
    ASSUME TypeOK, NEW d \in Ticks, NEW a, at' = [at EXCEPT ![d] = a]
    PROVE  /\ at'[d] = a
           /\ \A o \in Ticks : o # d => at'[o] = at[o]
  BY DEF TypeOK

\* Such a step does not disturb the pushes when no device becomes owed what it was not,
\* no tick comes to mark or to list another alert, and no mark is made.
LEMMA AskedStep ==
    ASSUME AlertInv, Quiet,
           \A o \in Ticks : todo'[o] = todo[o] /\ (at'[o] = "mark" => at[o] = "mark"),
           \A e \in Events : owed[e] = {} => owed'[e] = {},
           \A e \in Events : alert'[e].push = "done" => alert[e].push = "done"
    PROVE  AskedInv' /\ PushedMeansAsked'
<1> USE DEF AlertInv
<1>1. \A o \in Ticks : \A i \in todo[o] : log[i] \in Events
  BY DEF TypeOK
<1>2. ASSUME NEW o \in Ticks, at'[o] = "mark"
      PROVE  \E i \in todo[o] : Oldest(todo[o], i) /\ owed'[log[i]] = {}
  BY <1>1, <1>2 DEF AskedInv
<1>3. \A o \in Ticks : \A i \in todo[o] : alert'[log[i]].status # "none"
  BY <1>1 DEF AskedInv, Quiet
<1>4. AskedInv'
  BY <1>2, <1>3 DEF AskedInv, Quiet
<1>5. PushedMeansAsked'
  BY DEF PushedMeansAsked
<1> QED
  BY <1>4, <1>5

\* What a round of pushes leaves: nothing is owed that was not, and nothing of what
\* was asked about.
LEMMA SendAllStep ==
    ASSUME TypeOK, NEW asked, SendAll(asked)
    PROVE  /\ devices' \subseteq Devices /\ owed' \in [Events -> SUBSET Devices]
           /\ \A e \in Events : owed[e] = {} => owed'[e] = {}
           /\ \A e \in Events : e \in asked => owed'[e] = {}
  BY DEF SendAll, TypeOK

\* The list is read without a lock.
LEMMA PushListStep ==
    ASSUME AlertInv, NEW d \in Ticks, PushList(d)
    PROVE  AlertInv'
<1> USE DEF AlertInv
<1>1. TypeOK'
  <2>1. todo' \in [Ticks -> SUBSET Nat] /\ \A o \in Ticks : todo'[o] \subseteq DOMAIN log
    BY DEF TypeOK, PushList, Unpushed
  <2> QED
    BY <2>1 DEF TypeOK, PushList, hist
<1>2. Quiet
  BY AtStep DEF PushList, TypeOK, Quiet, Sending, hist
<1>3. AskedInv'
  <2>1. \A i \in Unpushed : i \in DOMAIN log /\ alert[log[i]].status # "none"
    BY DEF Unpushed
  <2>2. todo'[d] = Unpushed /\ \A o \in Ticks : o # d => todo'[o] = todo[o]
    BY DEF PushList, TypeOK
  <2>3. UNCHANGED <<log, alert, owed>> /\ at'[d] = "push"
        /\ \A o \in Ticks : o # d => at'[o] = at[o]
    BY AtStep DEF PushList, hist
  <2> QED
    BY <2>1, <2>2, <2>3 DEF AskedInv
<1>4. PushedMeansAsked'
  BY DEF PushList, PushedMeansAsked, hist
<1> QED
  BY <1>1, <1>2, <1>3, <1>4, QuietStep

\* A push is sent.
LEMMA PushSendStep ==
    ASSUME AlertInv, NEW d \in Ticks, PushSend(d)
    PROVE  AlertInv'
<1> USE DEF AlertInv
<1>1. PICK i \in todo[d] : Oldest(todo[d], i) /\ SendAll({log[i]})
  BY DEF PushSend
<1>2. log[i] \in Events
  BY <1>1 DEF TypeOK
<1>3. /\ devices' \subseteq Devices /\ owed' \in [Events -> SUBSET Devices]
      /\ owed'[log[i]] = {}
      /\ \A e \in Events : owed[e] = {} => owed'[e] = {}
  BY <1>1, <1>2, SendAllStep
<1>4. TypeOK'
  BY <1>3 DEF TypeOK, PushSend
<1>5. Quiet
  BY AtStep DEF PushSend, TypeOK, Quiet, Sending
<1>6. AskedInv'
  <2>1. ASSUME NEW o \in Ticks, at'[o] = "mark"
        PROVE  \E j \in todo'[o] : Oldest(todo[o], j) /\ owed'[log[j]] = {}
    <3>1. CASE o = d
      BY <1>1, <1>3, <3>1 DEF PushSend
    <3>2. CASE o # d
      <4>1. PICK j \in todo[o] : Oldest(todo[o], j) /\ owed[log[j]] = {}
        BY <2>1, <3>2, AtStep DEF PushSend, AskedInv
      <4>2. log[j] \in Events
        BY <4>1 DEF TypeOK
      <4> QED
        BY <1>3, <4>1, <4>2 DEF PushSend
    <3> QED
      BY <3>1, <3>2
  <2> QED
    BY <2>1 DEF AskedInv, PushSend
<1>7. PushedMeansAsked'
  BY <1>3 DEF PushedMeansAsked, PushSend
<1> QED
  BY <1>4, <1>5, <1>6, <1>7, QuietStep

\* A push is marked.
LEMMA PushMarkStep ==
    ASSUME AlertInv, NEW d \in Ticks, PushMark(d)
    PROVE  AlertInv'
<1> USE DEF AlertInv
<1>1. PICK i \in todo[d] : /\ Oldest(todo[d], i)
                          /\ alert' = [alert EXCEPT ![log[i]].push = "done"]
                          /\ todo' = [todo EXCEPT ![d] = @ \ {i}]
  BY DEF PushMark
<1>2. log[i] \in Events /\ alert[log[i]] \in Alerts
  BY <1>1 DEF TypeOK
<1>3. owed[log[i]] = {}
  <2>1. PICK j \in todo[d] : Oldest(todo[d], j) /\ owed[log[j]] = {}
    BY DEF PushMark, AskedInv
  <2>2. i \in Nat /\ j \in Nat
    BY <1>1, <2>1 DEF TypeOK
  <2>3. i = j
    BY <1>1, <2>1, <2>2 DEF Oldest
  <2> QED
    BY <2>1, <2>3
<1>4. /\ alert' \in [Events -> Alerts]
      /\ \A e \in Events : alert'[e].status = alert[e].status
                          /\ alert'[e].attempts = alert[e].attempts
      /\ \A e \in Events : e # log[i] => alert'[e].push = alert[e].push
  <2> DEFINE b == [alert[log[i]] EXCEPT !.push = "done"]
  <2>1. /\ b \in Alerts /\ b.status = alert[log[i]].status
        /\ b.attempts = alert[log[i]].attempts
    BY <1>2, PushedAlert
  <2>2. alert' = [alert EXCEPT ![log[i]] = b]
    BY <1>1, <1>2 DEF TypeOK
  <2> HIDE DEF b
  <2>3. alert' \in [Events -> Alerts]
    BY <1>2, <2>1, <2>2 DEF TypeOK
  <2>4. alert'[log[i]] = b /\ \A e \in Events : e # log[i] => alert'[e] = alert[e]
    BY <1>2, <2>2 DEF TypeOK
  <2> QED
    BY <2>1, <2>3, <2>4
<1>5. TypeOK'
  <2>1. todo' \in [Ticks -> SUBSET Nat] /\ \A o \in Ticks : todo'[o] \subseteq DOMAIN log
    BY <1>1 DEF TypeOK
  <2> QED
    BY <1>4, <2>1 DEF TypeOK, PushMark, hist
<1>6. Quiet
  BY <1>4, AtStep DEF PushMark, TypeOK, Quiet, Sending, hist
<1>7. AskedInv'
  <2>1. \A o \in Ticks : o # d => todo'[o] = todo[o]
    BY <1>1 DEF TypeOK
  <2>2. UNCHANGED <<log, owed>> /\ at'[d] = "push"
        /\ \A o \in Ticks : o # d => at'[o] = at[o]
    BY AtStep DEF PushMark, hist
  <2>3. todo'[d] \subseteq todo[d]
    BY <1>1 DEF TypeOK
  <2>4. \A o \in Ticks : \A j \in todo'[o] : alert'[log[j]].status # "none"
    <3>1. \A o \in Ticks : todo'[o] \subseteq todo[o]
      BY <2>1, <2>3
    <3>2. \A o \in Ticks : \A j \in todo[o] : log[j] \in Events
      BY DEF TypeOK
    <3>3. \A o \in Ticks : \A j \in todo[o] : alert[log[j]].status # "none"
      BY DEF AskedInv
    <3> QED
      BY <1>4, <3>1, <3>2, <3>3
  <2> QED
    BY <2>1, <2>2, <2>4 DEF AskedInv
<1>8. PushedMeansAsked'
  BY <1>3, <1>4 DEF PushedMeansAsked, PushMark, hist
<1> QED
  BY <1>5, <1>6, <1>7, <1>8, QuietStep

\* The pushes are done, a trade is postponed, or the rate limit is reached.
LEMMA TickQuietStep ==
    ASSUME AlertInv, NEW d \in Ticks, PushEnd(d) \/ Postpone(d) \/ Limit(d)
    PROVE  AlertInv'
<1> USE DEF AlertInv
<1>1. CASE PushEnd(d)
  <2>1. TypeOK'
    BY <1>1, AlertAssumption DEF PushEnd, TypeOK, hist
  <2>2. Quiet
    BY <1>1, AtStep DEF PushEnd, TypeOK, Quiet, Sending, hist
  <2>3. AskedInv' /\ PushedMeansAsked'
    BY <1>1, <2>2, AtStep, AskedStep DEF PushEnd, hist
  <2> QED
    BY <2>1, <2>2, <2>3, QuietStep
<1>2. CASE Postpone(d)
  <2>1. PICK i \in Candidates(d) : waiting' = [waiting EXCEPT ![d] = @ \cup {log[i][1]}]
    BY <1>2 DEF Postpone
  <2>2. log[i][1] \in Positions
    BY <2>1, EventPairs DEF TypeOK, Candidates
  <2>3. waiting' \in [Ticks -> SUBSET Positions] /\ left' \in [Ticks -> Nat]
    BY <1>2, <2>1, <2>2 DEF TypeOK, Postpone
  <2>4. TypeOK'
    BY <1>2, <2>3 DEF Postpone, TypeOK, hist
  <2>5. Quiet
    BY <1>2 DEF Postpone, TypeOK, Quiet, Sending, hist
  <2>6. AskedInv' /\ PushedMeansAsked'
    BY <1>2, <2>5, AskedStep DEF Postpone, hist
  <2> QED
    BY <2>4, <2>5, <2>6, QuietStep
<1>3. CASE Limit(d)
  <2>1. TypeOK'
    BY <1>3 DEF Limit, TypeOK, hist
  <2>2. Quiet
    BY <1>3, AtStep DEF Limit, TypeOK, Quiet, Sending, hist
  <2>3. AskedInv' /\ PushedMeansAsked'
    BY <1>3, <2>2, AtStep, AskedStep DEF Limit, hist
  <2> QED
    BY <2>1, <2>2, <2>3, QuietStep
<1> QED
  BY <1>1, <1>2, <1>3

\* Time passes.
LEMMA ElapseStep ==
    ASSUME AlertInv, Elapse
    PROVE  AlertInv'
<1> USE DEF AlertInv
<1>1. /\ alert' \in [Events -> Alerts]
      /\ \A e \in Events : /\ alert'[e].status = alert[e].status
                           /\ alert'[e].attempts = alert[e].attempts
                           /\ alert'[e].push = alert[e].push
  BY WaitingAlert DEF Elapse, TypeOK
<1>2. TypeOK'
  BY <1>1 DEF TypeOK, Elapse, tick, hist
<1>3. Quiet
  BY <1>1 DEF Quiet, Elapse, tick, hist
<1>4. AskedInv' /\ PushedMeansAsked'
  BY <1>1, <1>3, AskedStep DEF Elapse, tick, hist
<1> QED
  BY <1>2, <1>3, <1>4, QuietStep

\* An alert grows too old to be pushed.
LEMMA GrowOldStep ==
    ASSUME AlertInv, NEW e \in Events, GrowOld(e)
    PROVE  AlertInv'
<1> USE DEF AlertInv
<1>1. /\ alert' \in [Events -> Alerts]
      /\ \A f \in Events : /\ alert'[f].status = alert[f].status
                           /\ alert'[f].attempts = alert[f].attempts
                           /\ alert'[f].push = "done" => alert[f].push = "done"
  <2>1. alert[e] \in Alerts /\ alert' = [alert EXCEPT ![e] = [alert[e] EXCEPT !.push = "old"]]
    BY DEF GrowOld, TypeOK
  <2> DEFINE b == [alert[e] EXCEPT !.push = "old"]
  <2>2. b \in Alerts /\ b.status = alert[e].status /\ b.attempts = alert[e].attempts
        /\ b.push = "old"
    BY <2>1, PushedAlert
  <2>3. alert' = [alert EXCEPT ![e] = b]
    BY <2>1
  <2> HIDE DEF b
  <2>4. alert' \in [Events -> Alerts]
    BY <2>2, <2>3 DEF TypeOK
  <2>5. alert'[e] = b /\ \A f \in Events : f # e => alert'[f] = alert[f]
    BY <2>3 DEF TypeOK
  <2> QED
    BY <2>2, <2>4, <2>5
<1>2. owed' \in [Events -> SUBSET Devices] /\ \A f \in Events : owed[f] = {} => owed'[f] = {}
  BY DEF GrowOld, TypeOK
<1>3. TypeOK'
  BY <1>1, <1>2 DEF TypeOK, GrowOld, tick
<1>4. Quiet
  BY <1>1 DEF Quiet, GrowOld, tick
<1>5. AskedInv' /\ PushedMeansAsked'
  BY <1>1, <1>2, <1>4, AskedStep DEF GrowOld, tick
<1> QED
  BY <1>3, <1>4, <1>5, QuietStep

\* A device subscribes, or asks for a test push.
LEMMA DeviceStep ==
    ASSUME AlertInv, (\E v \in Devices : Subscribe(v)) \/ TestPush
    PROVE  AlertInv'
<1> USE DEF AlertInv
<1>1. UNCHANGED <<log, alert, tick, told, lost, swapped, hidden>>
  BY DEF Subscribe, TestPush, hist
<1>2. /\ devices' \subseteq Devices /\ owed' \in [Events -> SUBSET Devices]
      /\ \A e \in Events : owed[e] = {} => owed'[e] = {}
  <2>1. CASE \E v \in Devices : Subscribe(v)
    BY <2>1 DEF Subscribe, TypeOK, hist
  <2>2. CASE TestPush
    BY <2>2, SendAllStep DEF TestPush
  <2> QED
    BY <2>1, <2>2
<1>3. TypeOK'
  BY <1>1, <1>2 DEF TypeOK, tick
<1>4. Quiet
  BY <1>1 DEF Quiet, tick
<1>5. AskedInv' /\ PushedMeansAsked'
  BY <1>1, <1>2, <1>4, AskedStep DEF tick
<1> QED
  BY <1>3, <1>4, <1>5, QuietStep

\* A position opens or closes.
LEMMA HappenStep ==
    ASSUME AlertInv, NEW e \in Events, Happen(e)
    PROVE  AlertInv'
<1> USE DEF AlertInv
<1>1. /\ log' \in Seq(Events) /\ Len(log') = Len(log) + 1 /\ log'[Len(log) + 1] = e
      /\ \A i \in 1..Len(log) : log'[i] = log[i]
  BY DEF Happen, TypeOK
<1>2. Len(log) \in Nat /\ DOMAIN log = 1..Len(log) /\ DOMAIN log' = 1..(Len(log) + 1)
  BY <1>1 DEF TypeOK
<1>3. UNCHANGED <<alert, devices, at, todo, cur, waiting, left, told, lost, owed, swapped,
                  hidden>>
  BY DEF Happen, tick, hist
<1>4. TypeOK'
  <2>1. \A d \in Ticks : todo'[d] \subseteq DOMAIN log'
    BY <1>2, <1>3 DEF TypeOK
  <2> QED
    BY <1>1, <1>3, <2>1 DEF TypeOK
<1>5. LockInv' /\ AttemptInv' /\ PushedMeansAsked' /\ OpenArrivesFirst'
  BY <1>3 DEF LockInv, AttemptInv, PushedMeansAsked, OpenArrivesFirst
<1>6. LogInv'
  <2>1. ASSUME NEW j \in DOMAIN log', log'[j][2] = "closed"
        PROVE  \E i \in DOMAIN log' : i < j /\ log'[i] = <<log'[j][1], "opened">>
    <3>1. CASE j \in DOMAIN log
      <4>1. PICK i \in DOMAIN log : i < j /\ log[i] = <<log[j][1], "opened">>
        BY <1>1, <1>2, <2>1, <3>1 DEF LogInv
      <4> QED
        BY <1>1, <1>2, <3>1, <4>1
    <3>2. CASE j = Len(log) + 1
      <4>1. PICK i \in 1..Len(log) : log[i] = <<e[1], "opened">>
        BY <1>1, <2>1, <3>2 DEF Happen, Contains
      <4> QED
        BY <1>1, <1>2, <3>2, <4>1
    <3> QED
      BY <1>2, <2>1, <3>1, <3>2
  <2> QED
    BY <1>3, <2>1 DEF LogInv
<1>7. ArrivalInv'
  BY <1>3 DEF ArrivalInv, Accounted
<1>8. AskedInv'
  <2>1. \A d \in Ticks : \A i \in todo[d] : log'[i] = log[i]
    BY <1>1, <1>2 DEF TypeOK
  <2> QED
    BY <1>3, <2>1 DEF AskedInv
<1>9. SettledInv'
  BY <1>3 DEF SettledInv
<1> QED
  BY <1>4, <1>5, <1>6, <1>7, <1>8, <1>9

-----------------------------------------------------------------------------
(* The steps that write a row, take a lock or send a message.              *)

\* Every event without a row gets one.
LEMMA RecordStep ==
    ASSUME AlertInv, NEW d \in Ticks, Record(d)
    PROVE  AlertInv'
<1> USE DEF AlertInv
<1> DEFINE New(e) == Contains(log, e) /\ alert[e].status = "none"
<1>1. PICK news \in SUBSET {e \in Events : New(e)} :
          /\ alert' = [e \in Events |->
                IF e \notin {f \in Events : New(f)} THEN alert[e]
                ELSE [NoAlert EXCEPT !.status = IF e \in news THEN "pending" ELSE "baseline"]]
          /\ owed' = [e \in Events |-> IF e \in news THEN devices ELSE owed[e]]
  BY DEF Record
<1>2. UNCHANGED <<log, devices, todo, cur, waiting, left, told, lost, swapped, hidden>>
      /\ at[d] = "idle" /\ at' = [at EXCEPT ![d] = "list"] /\ at'[d] = "list"
      /\ \A o \in Ticks : o # d => at'[o] = at[o]
  BY AtStep DEF Record, hist
<1>3. ASSUME NEW e \in Events, ~New(e) PROVE alert'[e] = alert[e] /\ owed'[e] = owed[e]
  BY <1>1, <1>3
<1>4. ASSUME NEW e \in Events, New(e)
      PROVE  /\ alert'[e] \in Alerts /\ alert'[e].status \in {"pending", "baseline"}
             /\ alert'[e].attempts = 0 /\ alert'[e].push = "due"
  <2> DEFINE s == IF e \in news THEN "pending" ELSE "baseline"
  <2>1. alert'[e] = [NoAlert EXCEPT !.status = s] /\ s \in {"pending", "baseline"}
    BY <1>1, <1>4
  <2> HIDE DEF s
  <2> QED
    BY <2>1, FreshAlert
<1> HIDE DEF New
<1>5. alert' \in [Events -> Alerts]
  <2>1. \A e \in Events : alert'[e] \in Alerts
    BY <1>3, <1>4 DEF TypeOK
  <2>2. alert' = [e \in Events |-> alert'[e]]
    BY <1>1
  <2> HIDE <1>1
  <2> QED
    BY <2>1, <2>2
<1>6. \A e \in Events :
          alert[e].status # "none" => alert'[e] = alert[e] /\ owed'[e] = owed[e]
  BY <1>3 DEF New
<1>7. \A e \in Events : New(e) => alert[e].status = "none"
  BY DEF New
<1>8. TypeOK'
  <2>1. owed' \in [Events -> SUBSET Devices]
    BY <1>1 DEF TypeOK
  <2> QED
    BY <1>2, <1>5, <2>1 DEF TypeOK
<1>9. LockInv'
  BY <1>2, <1>6 DEF LockInv, Sending
<1>10. AttemptInv'
  BY <1>3, <1>4, AlertAssumption DEF AttemptInv
<1>11. LogInv'
  <2>1. ASSUME NEW p \in Positions, alert'[<<p, "closed">>].status # "none"
        PROVE  alert'[<<p, "opened">>].status # "none"
    <3> DEFINE c == <<p, "closed">>
               o == <<p, "opened">>
    <3>1. c \in Events /\ o \in Events
      BY EventPairs
    <3>2. CASE alert[o].status # "none"
      BY <1>6, <3>1, <3>2
    <3>3. CASE alert[o].status = "none"
      <4>1. alert[c].status = "none"
        BY <3>3 DEF LogInv
      <4>2. New(c)
        BY <1>3, <2>1, <3>1, <4>1
      <4>3. PICK j \in 1..Len(log) : log[j] = c
        BY <4>2 DEF New, Contains
      <4>4. PICK i \in DOMAIN log : log[i] = o
        BY <4>3 DEF LogInv, TypeOK
      <4>5. New(o)
        <5>1. i \in 1..Len(log)
          BY <4>4 DEF TypeOK
        <5> QED
          BY <3>3, <4>4, <5>1 DEF New, Contains
      <4> QED
        BY <1>4, <3>1, <4>5
    <3> QED
      BY <3>2, <3>3
  <2> QED
    BY <1>2, <2>1 DEF LogInv
<1>12. ArrivalInv'
  <2>1. \A e \in Events : Accounted(e) => Accounted(e)'
    BY <1>2, <1>6 DEF Accounted
  <2> QED
    BY <1>2, <2>1 DEF ArrivalInv
<1>13. AskedInv'
  <2>1. \A o \in Ticks : \A i \in todo[o] : log[i] \in Events /\ alert[log[i]].status # "none"
    BY DEF AskedInv, TypeOK
  <2> QED
    BY <1>2, <1>6, <2>1 DEF AskedInv
<1>14. SettledInv'
  BY <1>2, <1>6, EventPairs DEF SettledInv
<1>15. PushedMeansAsked'
  BY <1>3, <1>4 DEF PushedMeansAsked
<1>16. OpenArrivesFirst'
  BY <1>2 DEF OpenArrivesFirst
<1> QED
  BY <1>8, <1>9, <1>10, <1>11, <1>12, <1>13, <1>14, <1>15, <1>16

\* The oldest pending row that is free is locked.
LEMMA PickStep ==
    ASSUME AlertInv, NEW d \in Ticks, Pick(d)
    PROVE  AlertInv'
<1> USE DEF AlertInv
<1>1. PICK i \in Candidates(d) :
          /\ Oldest(Candidates(d), i) /\ cur' = [cur EXCEPT ![d] = log[i]]
          /\ hidden' = IF \E o \in Ticks : cur[o] = <<log[i][1], "opened">>
                       THEN hidden \cup {log[i][1]} ELSE hidden
  BY DEF Pick
<1>2. /\ UNCHANGED <<log, alert, devices, todo, waiting, left, told, lost, owed, swapped>>
      /\ at[d] = "pick" /\ left[d] > 0 /\ at' = [at EXCEPT ![d] = "sending"]
      /\ at'[d] = "sending" /\ \A o \in Ticks : o # d => at'[o] = at[o]
  BY AtStep DEF Pick
<1>3. /\ i \in DOMAIN log /\ log[i] \in Events /\ alert[log[i]].status = "pending"
      /\ \A o \in Ticks : cur[o] # log[i]
  BY <1>1 DEF Candidates, Unlocked, TypeOK
<1>4. cur'[d] = log[i] /\ \A o \in Ticks : o # d => cur'[o] = cur[o]
  BY <1>1 DEF TypeOK
<1>5. log[i][1] \in Positions /\ hidden \subseteq hidden'
  BY <1>1, <1>3, EventPairs
<1>6. TypeOK'
  BY <1>1, <1>2, <1>3, <1>5 DEF TypeOK
<1>7. LockInv'
  BY <1>2, <1>3, <1>4 DEF LockInv, Sending
<1>8. AttemptInv' /\ LogInv' /\ PushedMeansAsked'
  BY <1>2 DEF AttemptInv, LogInv, PushedMeansAsked
<1>9. ArrivalInv'
  <2>1. \A e \in Events : Accounted(e) => Accounted(e)'
    BY <1>2, <1>4 DEF Accounted
  <2> QED
    BY <1>2, <2>1 DEF ArrivalInv
<1>10. AskedInv'
  BY <1>2 DEF AskedInv
<1>11. SettledInv'
  <2>1. ASSUME NEW p \in Positions \ hidden', log[i] = <<p, "closed">>
        PROVE  alert[<<p, "opened">>].status \notin {"none", "pending"}
    <3>1. alert[<<p, "opened">>].status # "none"
      BY <1>3, <2>1 DEF LogInv
    <3>2. \A o \in Ticks : cur[o] # <<p, "opened">>
      BY <1>1, <2>1
    <3>3. PICK j \in DOMAIN log : j < i /\ log[j] = <<p, "opened">>
      BY <1>3, <2>1 DEF LogInv
    <3>4. p \notin waiting[d]
      BY <1>1, <2>1 DEF Candidates, HeldBack
    <3>5. j \notin Candidates(d)
      BY <1>1, <1>3, <3>3 DEF Oldest, TypeOK
    <3> QED
      BY <3>1, <3>2, <3>3, <3>4, <3>5 DEF Candidates, Unlocked, HeldBack
  <2>2. ASSUME NEW p \in Positions \ hidden',
               told'[<<p, "closed">>] > 0 \/ \E o \in Ticks : cur'[o] = <<p, "closed">>
        PROVE  alert[<<p, "opened">>].status \notin {"none", "pending"}
    <3>1. CASE told[<<p, "closed">>] > 0 \/ \E o \in Ticks : cur[o] = <<p, "closed">>
      BY <1>5, <3>1 DEF SettledInv
    <3>2. CASE cur'[d] = <<p, "closed">>
      BY <1>4, <2>1, <3>2
    <3> QED
      BY <1>2, <1>4, <2>2, <3>1, <3>2
  <2> QED
    BY <1>2, <2>2 DEF SettledInv
<1>12. OpenArrivesFirst'
  BY <1>2, <1>5 DEF OpenArrivesFirst
<1> QED
  BY <1>6, <1>7, <1>8, <1>9, <1>10, <1>11, <1>12

\* The message arrives.
LEMMA ArriveStep ==
    ASSUME AlertInv, NEW d \in Ticks, Arrive(d)
    PROVE  AlertInv'
<1> USE DEF AlertInv
<1>0. PICK c : c = cur[d]
  OBVIOUS
<1>1. /\ UNCHANGED <<log, alert, devices, todo, cur, waiting, left, lost, owed, hidden>>
      /\ at[d] = "sending" /\ at' = [at EXCEPT ![d] = "arrived"] /\ at'[d] = "arrived"
      /\ \A o \in Ticks : o # d => at'[o] = at[o]
  BY AtStep DEF Arrive
<1>2. c \in Events /\ alert[c].status = "pending" /\ \A o \in Ticks : o # d => cur[o] # c
  BY <1>0, <1>1 DEF LockInv
<1>3. /\ told' \in [Events -> 0..2] /\ told'[c] = UpTo(told[c], 2) /\ told'[c] > 0
      /\ \A e \in Events : e # c => told'[e] = told[e]
  <2>1. told[c] \in 0..2
    BY <1>2 DEF TypeOK
  <2>2. UpTo(told[c], 2) \in 0..2 /\ UpTo(told[c], 2) > 0
    BY <2>1 DEF UpTo
  <2> QED
    BY <1>0, <1>2, <2>2 DEF Arrive, TypeOK
<1>4. swapped' \subseteq swapped \cup {c[1]}
      /\ (swapped' # swapped => c[2] = "opened" /\ told[<<c[1], "closed">>] > 0)
  BY <1>0 DEF Arrive
<1>5. c[1] \in Positions /\ c = <<c[1], c[2]>>
  BY <1>2, EventPairs
<1>6. TypeOK'
  BY <1>1, <1>3, <1>4, <1>5 DEF TypeOK
<1>7. LockInv'
  BY <1>0, <1>1, <1>2 DEF LockInv
<1>8. AttemptInv' /\ LogInv'
  BY <1>1 DEF AttemptInv, LogInv
<1>9. ArrivalInv'
  <2>1. ~Accounted(c)
    BY <1>0, <1>1, <1>2 DEF Accounted
  <2>2. Accounted(c)'
    BY <1>0, <1>1 DEF Accounted
  <2>3. told[c] \in 0..2 /\ lost[c] \in 0..1
    BY <1>2 DEF TypeOK
  <2>4. \/ told'[c] <= lost[c]
        \/ told'[c] = lost[c] + 1
    BY <1>2, <1>3, <2>1, <2>3 DEF ArrivalInv, UpTo
  <2>5. ASSUME NEW e \in Events, e # c, Accounted(e) PROVE Accounted(e)'
    BY <1>0, <1>1, <2>5 DEF Accounted
  <2> QED
    BY <1>1, <1>3, <2>2, <2>4, <2>5 DEF ArrivalInv
<1>10. AskedInv'
  BY <1>1 DEF AskedInv
<1>11. SettledInv'
  <2>1. ASSUME NEW p \in Positions, told'[<<p, "closed">>] > 0
        PROVE  told[<<p, "closed">>] > 0 \/ \E o \in Ticks : cur[o] = <<p, "closed">>
    BY <1>0, <1>3, <2>1, EventPairs
  <2> QED
    BY <1>1, <2>1 DEF SettledInv
<1>12. PushedMeansAsked'
  BY <1>1 DEF PushedMeansAsked
<1>13. OpenArrivesFirst'
  <2>1. CASE swapped' = swapped
    BY <1>1, <2>1 DEF OpenArrivesFirst
  <2>2. CASE swapped' # swapped
    <3>1. c = <<c[1], "opened">> /\ told[<<c[1], "closed">>] > 0
      BY <1>4, <1>5, <2>2
    <3>2. c[1] \in hidden
      BY <1>2, <1>5, <3>1 DEF SettledInv
    <3> QED
      BY <1>1, <1>4, <3>2 DEF OpenArrivesFirst
  <2> QED
    BY <2>1, <2>2
<1> QED
  BY <1>6, <1>7, <1>8, <1>9, <1>10, <1>11, <1>12, <1>13

\* The message counts as sent.
LEMMA SentStep ==
    ASSUME AlertInv, NEW d \in Ticks, Sent(d)
    PROVE  AlertInv'
<1> USE DEF AlertInv
<1>0. PICK c : c = cur[d]
  OBVIOUS
<1>1. /\ UNCHANGED <<log, devices, todo, waiting, told, lost, owed, swapped, hidden>>
      /\ at[d] \in {"sending", "arrived"} /\ at' = [at EXCEPT ![d] = "pick"] /\ at'[d] = "pick"
      /\ \A o \in Ticks : o # d => at'[o] = at[o]
  BY AtStep DEF Sent, hist
<1>2. /\ c \in Events /\ alert[c].status = "pending" /\ left[d] > 0
      /\ \A o \in Ticks : o # d => cur[o] # c
  BY <1>0, <1>1 DEF LockInv
<1>3. /\ cur' \in [Ticks -> Events \cup {NoEvent}] /\ cur'[d] = NoEvent
      /\ \A o \in Ticks : o # d => cur'[o] = cur[o]
  BY DEF Sent, TypeOK
<1>4. /\ left' \in [Ticks -> Nat]
      /\ \A o \in Ticks : o # d => left'[o] = left[o]
  BY <1>2 DEF Sent, TypeOK
<1>5. /\ alert' \in [Events -> Alerts] /\ alert'[c].status = "sent"
      /\ alert'[c].push = alert[c].push
      /\ \A e \in Events : e # c => alert'[e] = alert[e]
  <2>1. alert[c] \in Alerts
    BY <1>2 DEF TypeOK
  <2> QED
    BY <1>0, <1>2, <2>1, SentAlert DEF Sent, TypeOK
<1>6. TypeOK'
  BY <1>1, <1>3, <1>4, <1>5 DEF TypeOK
<1>7. LockInv'
  BY <1>1, <1>2, <1>3, <1>4, <1>5, EventPairs DEF LockInv
<1>8. AttemptInv'
  BY <1>5 DEF AttemptInv
<1>9. LogInv'
  BY <1>1, <1>2, <1>5, EventPairs DEF LogInv
<1>10. ArrivalInv'
  <2>1. Accounted(c)'
    BY <1>5 DEF Accounted
  <2>2. ASSUME NEW e \in Events, e # c, Accounted(e) PROVE Accounted(e)'
    BY <1>0, <1>1, <1>3, <1>5, <2>2 DEF Accounted
  <2> QED
    BY <1>1, <2>1, <2>2 DEF ArrivalInv
<1>11. AskedInv'
  <2>1. \A o \in Ticks : \A i \in todo[o] : log[i] \in Events
    BY DEF TypeOK
  <2> QED
    BY <1>1, <1>5, <2>1 DEF AskedInv
<1>12. SettledInv'
  <2>1. ASSUME NEW p \in Positions, NEW o \in Ticks, cur'[o] = <<p, "closed">>
        PROVE  cur[o] = <<p, "closed">>
    <3>1. cur'[o] \in Events
      BY <2>1, EventPairs
    <3>2. o # d
      BY <1>3, <3>1, EventPairs
    <3> QED
      BY <1>3, <2>1, <3>2
  <2> QED
    BY <1>1, <1>2, <1>5, <2>1, EventPairs DEF SettledInv
<1>13. PushedMeansAsked'
  BY <1>1, <1>5 DEF PushedMeansAsked
<1>14. OpenArrivesFirst'
  BY <1>1 DEF OpenArrivesFirst
<1> QED
  BY <1>6, <1>7, <1>8, <1>9, <1>10, <1>11, <1>12, <1>13, <1>14

\* A tick ends: it releases its row, which it may have refused, and an arrival that
\* it did not record is lost.
LEMMA EndStep ==
    ASSUME AlertInv, NEW d \in Ticks, End(d),
           UNCHANGED <<log, devices, told, owed, swapped, hidden>>,
           lost' = IF at[d] = "arrived" THEN [lost EXCEPT ![cur[d]] = UpTo(@, 1)] ELSE lost,
           alert' \in [Events -> Alerts],
           \A e \in Events : alert'[e].push = alert[e].push,
           \A e \in Events :
               \/ alert'[e].status = alert[e].status /\ alert'[e].attempts = alert[e].attempts
               \/ /\ at[d] \in Sending /\ e = cur[d] /\ alert'[e].status \in {"pending", "failed"}
                  /\ alert'[e].status = "pending" => alert'[e].attempts < MAX_ATTEMPTS
    PROVE  AlertInv'
<1> USE DEF AlertInv
<1>1. /\ at' = [at EXCEPT ![d] = "idle"] /\ at'[d] = "idle" /\ cur'[d] = NoEvent /\ todo'[d] = {}
      /\ \A o \in Ticks : o # d => /\ at'[o] = at[o] /\ cur'[o] = cur[o]
                                  /\ left'[o] = left[o] /\ todo'[o] = todo[o]
  BY DEF End, TypeOK
<1>2. at[d] \in Sending => /\ cur[d] \in Events /\ alert[cur[d]].status = "pending"
                           /\ \A o \in Ticks : o # d => cur[o] # cur[d]
  BY DEF LockInv, Sending
<1>3. at[d] = "arrived" =>
          /\ cur[d] \in Events /\ lost[cur[d]] \in 0..1 /\ told[cur[d]] \in 0..2
          /\ lost'[cur[d]] = UpTo(lost[cur[d]], 1)
  BY <1>2 DEF TypeOK, Sending
<1>4. \A e \in Events : (at[d] # "arrived" \/ e # cur[d]) => lost'[e] = lost[e]
  BY <1>2 DEF TypeOK, Sending
<1>5. lost' \in [Events -> 0..1]
  <2>1. CASE at[d] = "arrived"
    <3>1. UpTo(lost[cur[d]], 1) \in 0..1
      BY <1>3, <2>1 DEF UpTo
    <3> QED
      BY <1>3, <2>1, <3>1 DEF TypeOK
  <2> QED
    BY <2>1 DEF TypeOK
<1>6. \A e \in Events : /\ alert'[e].status = "sent" <=> alert[e].status = "sent"
                        /\ alert'[e].status = "none" <=> alert[e].status = "none"
                        /\ alert'[e].status = "pending" => alert[e].status = "pending"
                        /\ alert[e].status # "pending" => alert'[e].status = alert[e].status
  BY <1>2
<1>7. TypeOK'
  <2>1. /\ todo' \in [Ticks -> SUBSET Nat] /\ \A o \in Ticks : todo'[o] \subseteq DOMAIN log
        /\ cur' \in [Ticks -> Events \cup {NoEvent}]
        /\ waiting' \in [Ticks -> SUBSET Positions] /\ left' \in [Ticks -> Nat]
    BY DEF End, TypeOK
  <2> QED
    BY <1>1, <1>5, <2>1 DEF TypeOK
<1>8. LockInv'
  <2>1. ASSUME NEW o \in Ticks, o # d, at[o] \in Sending
        PROVE  cur[o] \in Events /\ alert'[cur[o]].status = "pending" /\ left[o] > 0
    <3>1. cur[o] \in Events /\ alert[cur[o]].status = "pending" /\ left[o] > 0
          /\ cur[o] # cur[d]
      BY <2>1 DEF LockInv, Sending
    <3> QED
      BY <3>1
  <2>2. ASSUME NEW o \in Ticks, o # d, at[o] \notin Sending PROVE cur[o] = NoEvent
    BY <2>2 DEF LockInv, Sending
  <2>3. ASSUME NEW o \in Ticks
        PROVE  IF at'[o] \in {"sending", "limited", "arrived"}
               THEN cur'[o] \in Events /\ alert'[cur'[o]].status = "pending" /\ left'[o] > 0
               ELSE cur'[o] = NoEvent
    BY <1>1, <2>1, <2>2 DEF Sending
  <2>4. ASSUME NEW o \in Ticks, NEW q \in Ticks, o # q, cur'[o] \in Events
        PROVE  cur'[o] # cur'[q]
    BY <1>1, <2>4, EventPairs DEF LockInv
  <2> QED
    BY <2>3, <2>4 DEF LockInv
<1>9. AttemptInv'
  BY DEF AttemptInv
<1>10. LogInv'
  BY <1>6, EventPairs DEF LogInv
<1>11. ArrivalInv'
  <2>1. ASSUME NEW e \in Events, at[d] = "arrived", e = cur[d]
        PROVE  told'[e] <= lost'[e] \/ (told'[e] = lost'[e] + 1 /\ lost'[e] = 1)
    <3>1. lost[e] \in 0..1 /\ told[e] \in 0..2 /\ lost'[e] = UpTo(lost[e], 1)
      BY <1>3, <2>1
    <3>2. told[e] <= lost[e] \/ told[e] = lost[e] + 1
      BY DEF ArrivalInv
    <3> QED
      BY <3>1, <3>2 DEF UpTo
  <2>2. ASSUME NEW e \in Events, at[d] # "arrived" \/ e # cur[d], Accounted(e)
        PROVE  Accounted(e)'
    BY <1>1, <1>6, <2>2 DEF Accounted
  <2> QED
    BY <1>4, <2>1, <2>2 DEF ArrivalInv
<1>12. AskedInv'
  <2>1. ASSUME NEW o \in Ticks, NEW i \in todo'[o] PROVE alert'[log[i]].status # "none"
    <3>1. o # d /\ i \in todo[o]
      BY <1>1, <2>1
    <3>2. log[i] \in Events /\ alert[log[i]].status # "none"
      BY <3>1 DEF AskedInv, TypeOK
    <3> QED
      BY <1>6, <3>2
  <2>2. ASSUME NEW o \in Ticks, at'[o] = "mark"
        PROVE  \E i \in todo'[o] : Oldest(todo'[o], i) /\ owed[log[i]] = {}
    <3>1. o # d /\ at[o] = "mark" /\ todo'[o] = todo[o]
      BY <1>1, <2>2
    <3> QED
      BY <3>1 DEF AskedInv
  <2> QED
    BY <2>1, <2>2 DEF AskedInv
<1>13. SettledInv'
  <2>1. ASSUME NEW p \in Positions, NEW o \in Ticks, cur'[o] = <<p, "closed">>
        PROVE  cur[o] = <<p, "closed">>
    <3>1. cur'[o] \in Events
      BY <2>1, EventPairs
    <3>2. o # d
      BY <1>1, <3>1, EventPairs
    <3> QED
      BY <1>1, <2>1, <3>2
  <2> QED
    BY <1>6, <2>1, EventPairs DEF SettledInv
<1>14. PushedMeansAsked'
  BY DEF PushedMeansAsked
<1>15. OpenArrivesFirst'
  BY DEF OpenArrivesFirst
<1> QED
  BY <1>7, <1>8, <1>9, <1>10, <1>11, <1>12, <1>13, <1>14, <1>15

\* The tick has nothing left, dies, or is refused.
LEMMA TickEndsStep ==
    ASSUME AlertInv, NEW d \in Ticks, TickEnd(d) \/ Die(d) \/ Refuse(d)
    PROVE  AlertInv'
<1> USE DEF AlertInv
<1>1. CASE TickEnd(d) \/ Die(d)
  <2>1. End(d) /\ UNCHANGED <<log, alert, devices, told, owed, swapped, hidden>>
    BY <1>1 DEF TickEnd, Die, hist
  <2>2. lost' = IF at[d] = "arrived" THEN [lost EXCEPT ![cur[d]] = UpTo(@, 1)] ELSE lost
    BY <1>1 DEF TickEnd, Die, hist
  <2>3. alert' \in [Events -> Alerts]
    BY <2>1 DEF TypeOK
  <2> QED
    BY <2>1, <2>2, <2>3, EndStep
<1>2. CASE Refuse(d)
  <2>1. /\ cur[d] \in Events /\ alert[cur[d]].status = "pending" /\ at[d] \in Sending
        /\ alert[cur[d]] \in Alerts /\ alert[cur[d]].attempts < MAX_ATTEMPTS
    BY <1>2 DEF Refuse, LockInv, AttemptInv, TypeOK, Sending
  <2>2. alert' = [alert EXCEPT ![cur[d]] = Refused(alert[cur[d]], at[d] = "limited")]
    BY <1>2 DEF Refuse
  <2>3. (at[d] = "limited") \in BOOLEAN
    OBVIOUS
  <2> DEFINE b == Refused(alert[cur[d]], at[d] = "limited")
  <2>4. /\ b \in Alerts /\ b.push = alert[cur[d]].push
        /\ b.status \in {"pending", "failed"}
        /\ b.status = "pending" => b.attempts < MAX_ATTEMPTS
    BY <2>1, <2>3, RefusedAlert
  <2>5. alert' = [alert EXCEPT ![cur[d]] = b]
    BY <2>2
  <2> HIDE DEF b
  <2>6. /\ alert' \in [Events -> Alerts] /\ alert'[cur[d]] = b
        /\ \A e \in Events : e # cur[d] => alert'[e] = alert[e]
    BY <2>1, <2>4, <2>5 DEF TypeOK
  <2>7. \A e \in Events : alert'[e].push = alert[e].push
    BY <2>4, <2>6
  <2>8. \A e \in Events :
            \/ alert'[e].status = alert[e].status /\ alert'[e].attempts = alert[e].attempts
            \/ /\ at[d] \in Sending /\ e = cur[d] /\ alert'[e].status \in {"pending", "failed"}
               /\ alert'[e].status = "pending" => alert'[e].attempts < MAX_ATTEMPTS
    BY <2>1, <2>4, <2>6
  <2>9. /\ End(d) /\ UNCHANGED <<log, devices, told, owed, swapped, hidden>>
        /\ lost' = IF at[d] = "arrived" THEN [lost EXCEPT ![cur[d]] = UpTo(@, 1)] ELSE lost
    BY <1>2 DEF Refuse
  <2> QED
    BY <2>6, <2>7, <2>8, <2>9, EndStep
<1> QED
  BY <1>1, <1>2

-----------------------------------------------------------------------------
(* The theorems.                                                           *)

\* The overlapping, dying and refused ticks of the trade alerts keep AlertInv: one
\* tick at a time holds a row, every arrival is recorded, about to be, or lost, and a
\* close is sent only when its open is settled or hidden by another tick's lock.
THEOREM AlertInvariant == Spec => []AlertInv
<1>1. Init => AlertInv
  <2> SUFFICES ASSUME Init PROVE AlertInv
    OBVIOUS
  <2>1. NoAlert \in Alerts /\ NoAlert.status = "none" /\ NoAlert.push = "due"
    <3>1. 0 \in 0..MAX_ATTEMPTS
      BY AlertAssumption
    <3> QED
      BY <3>1 DEF Alerts, NoAlert
  <2>2. TypeOK
    BY <2>1 DEF Init, TypeOK
  <2>3. \A e \in Events : alert[e].status = "none" /\ alert[e].push = "due" /\ told[e] = 0 /\ lost[e] = 0
    BY <2>1 DEF Init
  <2>4. \A d \in Ticks : at[d] = "idle" /\ cur[d] = NoEvent
    BY DEF Init
  <2>5. DOMAIN log = {}
    BY DEF Init
  <2>6. LockInv
    BY <2>4, EventPairs DEF LockInv
  <2>7. AttemptInv /\ LogInv /\ PushedMeansAsked
    BY <2>3, <2>5, EventPairs DEF AttemptInv, LogInv, PushedMeansAsked
  <2>8. ArrivalInv /\ AskedInv
    BY <2>3, <2>4 DEF Init, ArrivalInv, AskedInv
  <2>9. SettledInv
    <3>1. ASSUME NEW p \in Positions, NEW d \in Ticks PROVE cur[d] # <<p, "closed">>
      BY <2>4, EventPairs
    <3> QED
      BY <2>3, <3>1, EventPairs DEF SettledInv
  <2>10. OpenArrivesFirst
    BY DEF Init, OpenArrivesFirst
  <2> QED
    BY <2>2, <2>6, <2>7, <2>8, <2>9, <2>10 DEF AlertInv
<1>2. AlertInv /\ [Next]_vars => AlertInv'
  <2> SUFFICES ASSUME AlertInv, [Next]_vars PROVE AlertInv'
    OBVIOUS
  <2>1. CASE Next
    BY <2>1, HappenStep, GrowOldStep, DeviceStep, RecordStep, PushListStep, PushSendStep, PushMarkStep,
       TickQuietStep, PickStep, TickEndsStep, ArriveStep, SentStep, ElapseStep DEF Next
  <2>2. CASE UNCHANGED vars
    BY <2>2 DEF vars, tick, hist, AlertInv, TypeOK, LockInv, AttemptInv, LogInv,
       ArrivalInv, Accounted, AskedInv, SettledInv, PushedMeansAsked, OpenArrivesFirst
  <2> QED
    BY <2>1, <2>2
<1> QED
  BY <1>1, <1>2, PTL DEF Spec

\* A WhatsApp message arrives twice only if its earlier arrival could not be recorded
\* (deliver_pending): no overlap of ticks sends a row twice.
THEOREM TwiceOnlyWhenLost == Spec => []TwiceOnlyIfLost
<1>1. AlertInv => TwiceOnlyIfLost
  <2> SUFFICES ASSUME AlertInv, NEW e \in Events PROVE told[e] <= 1 + lost[e]
    BY DEF TwiceOnlyIfLost
  <2>1. told[e] \in 0..2 /\ lost[e] \in 0..1
    BY DEF AlertInv, TypeOK
  <2>2. told[e] <= lost[e] \/ told[e] = lost[e] + 1
    BY DEF AlertInv, ArrivalInv
  <2> QED
    BY <2>1, <2>2
<1> QED
  BY <1>1, AlertInvariant, PTL

\* A close never arrives before its open, but for a trade whose open one tick was
\* sending when another picked its close.
THEOREM OpenBeforeClose == Spec => []OpenArrivesFirst
<1>1. AlertInv => OpenArrivesFirst
  BY DEF AlertInv
<1> QED
  BY <1>1, AlertInvariant, PTL

\* An alert is marked as pushed only after every device that was subscribed when it was
\* recorded, and is not gone, was asked about it (push_pass, send_all), wherever ticks
\* overlap or die.
THEOREM PushedWereAsked == Spec => []PushedMeansAsked
<1>1. AlertInv => PushedMeansAsked
  BY DEF AlertInv
<1> QED
  BY <1>1, AlertInvariant, PTL
=============================================================================
