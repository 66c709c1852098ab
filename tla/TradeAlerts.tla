----------------------------- MODULE TradeAlerts -----------------------------
(***************************************************************************)
(* The trade alerts of the real wallet: one row per position and event,    *)
(* pushed to phones (push_pass) and sent on WhatsApp (deliver_pending) by  *)
(* a tick that takes no lock, so that a slow one overlaps the next.        *)
(*                                                                         *)
(* A backoff is kept as the time still to wait.  The freshness window of   *)
(* record_new_events and muted wallets decide between pending and          *)
(* baseline, and are a choice.                                             *)
(***************************************************************************)
EXTENDS Naturals, Sequences, SequencesExt

CONSTANTS
    Positions,     \* the positions that open and close
    Ticks,         \* ticks that can overlap
    Devices,       \* phones and browsers that may subscribe
    MAX_ATTEMPTS,  \* MAX_ATTEMPTS
    Backoff,       \* BACKOFF, by the number of attempts made
    MAX_PER_TICK   \* MAX_PER_TICK

ASSUME AlertAssumption ==
    /\ MAX_ATTEMPTS \in Nat \ {0} /\ MAX_PER_TICK \in Nat \ {0}
    /\ Backoff \in [1..MAX_ATTEMPTS -> Nat]

Events == Positions \X {"opened", "closed"}
NoEvent == <<"none", "none">>

VARIABLES
    log,       \* the events that happened, in the order of their times
    alert,     \* the alert rows
    devices,   \* push_subscriptions
    at,        \* where each tick stands
    todo,      \* the events it has still to push, as positions in the log
    cur,       \* the row it has locked
    waiting,   \* the trades it found in backoff
    left,      \* what is left of MAX_PER_TICK
    told,      \* history: WhatsApp messages that arrived
    lost,      \* history: arrivals the tick did not live or did not get to record
    owed,      \* history: the devices that are there since an alert was recorded
               \* and were not asked about it
    swapped,   \* history: trades whose open arrived after their close
    hidden     \* history: trades whose close was picked while a tick held their open

tick == <<at, todo, cur, waiting, left>>
hist == <<told, lost, owed, swapped, hidden>>
vars == <<log, alert, devices, tick, hist>>

NoAlert == [status |-> "none", attempts |-> 0, wait |-> 0, push |-> "due"]

Init ==
    /\ log = <<>>
    /\ alert = [e \in Events |-> NoAlert] /\ devices = {}
    /\ at = [d \in Ticks |-> "idle"]
    /\ todo = [d \in Ticks |-> {}]
    /\ cur = [d \in Ticks |-> NoEvent]
    /\ waiting = [d \in Ticks |-> {}]
    /\ left = [d \in Ticks |-> 0]
    /\ told = [e \in Events |-> 0]
    /\ lost = [e \in Events |-> 0]
    /\ owed = [e \in Events |-> {}]
    /\ swapped = {} /\ hidden = {}

\* A history counter that stops at a bound.
UpTo(n, bound) == IF n < bound THEN n + 1 ELSE n

\* The settlement opens or closes a position.
Happen(e) ==
    /\ ~Contains(log, e)
    /\ e[2] = "closed" => Contains(log, <<e[1], "opened">>)
    /\ log' = Append(log, e)
    /\ UNCHANGED <<alert, devices, tick, hist>>

-----------------------------------------------------------------------------
(* record_new_events and push_pass.                                        *)

\* The oldest of the events at these positions in the log.
Oldest(S, i) == i \in S /\ \A j \in S : i <= j

\* Every event without a row gets one.
Record(d) ==
    /\ at[d] = "idle"
    /\ LET new == {e \in Events : Contains(log, e) /\ alert[e].status = "none"} IN
       \E news \in SUBSET new :
          /\ alert' = [e \in Events |->
                IF e \notin new THEN alert[e]
                ELSE [NoAlert EXCEPT !.status = IF e \in news THEN "pending" ELSE "baseline"]]
          /\ owed' = [e \in Events |-> IF e \in news THEN devices ELSE owed[e]]
    /\ at' = [at EXCEPT ![d] = "list"]
    /\ UNCHANGED <<log, devices, todo, cur, waiting, left, told, lost, swapped, hidden>>

\* An alert that is 30 minutes old and not pushed is history, not news: no device is
\* owed it.
GrowOld(e) ==
    /\ alert[e].status \notin {"none", "baseline"} /\ alert[e].push = "due"
    /\ alert' = [alert EXCEPT ![e].push = "old"]
    /\ owed' = [owed EXCEPT ![e] = {}]
    /\ UNCHANGED <<log, devices, tick, told, lost, swapped, hidden>>

\* The alerts to push, as positions in the log.
Unpushed == {i \in DOMAIN log : /\ alert[log[i]].push = "due"
                                /\ alert[log[i]].status \notin {"none", "baseline"}}

\* Mutant: the whole list is marked when it is read.
PushListMarked(d) ==
    /\ at[d] = "list"
    /\ todo' = [todo EXCEPT ![d] = Unpushed]
    /\ alert' = [e \in Events |-> IF \E i \in Unpushed : log[i] = e
                                  THEN [alert[e] EXCEPT !.push = "done"] ELSE alert[e]]
    /\ at' = [at EXCEPT ![d] = "push"]
    /\ UNCHANGED <<log, devices, cur, waiting, left, hist>>

\* The list is read without a lock.
PushList(d) ==
    /\ at[d] = "list"
    /\ todo' = [todo EXCEPT ![d] = Unpushed]
    /\ at' = [at EXCEPT ![d] = "push"]
    /\ UNCHANGED <<log, alert, devices, cur, waiting, left, hist>>

\* send_all: every device is asked, and the ones that answer that they are gone
\* are deleted.  What the others answer changes nothing.
SendAll(asked) ==
    \E gone \in SUBSET devices :
        /\ devices' = devices \ gone
        /\ owed' = [e \in Events |-> IF e \in asked THEN {} ELSE owed[e] \ gone]

PushSend(d) ==
    /\ at[d] = "push"
    /\ \E i \in todo[d] : Oldest(todo[d], i) /\ SendAll({log[i]})
    /\ at' = [at EXCEPT ![d] = "mark"]
    /\ UNCHANGED <<log, alert, todo, cur, waiting, left, told, lost, swapped, hidden>>

\* The alert is marked whatever was answered.
PushMark(d) ==
    /\ at[d] = "mark"
    /\ \E i \in todo[d] : /\ Oldest(todo[d], i)
                         /\ alert' = [alert EXCEPT ![log[i]].push = "done"]
                         /\ todo' = [todo EXCEPT ![d] = @ \ {i}]
    /\ at' = [at EXCEPT ![d] = "push"]
    /\ UNCHANGED <<log, devices, cur, waiting, left, hist>>

PushEnd(d) ==
    /\ at[d] = "push" /\ todo[d] = {}
    /\ at' = [at EXCEPT ![d] = "pick"]
    /\ left' = [left EXCEPT ![d] = MAX_PER_TICK]
    /\ UNCHANGED <<log, alert, devices, todo, cur, waiting, hist>>

(* push_api.                                                               *)

Subscribe(v) ==
    /\ devices' = devices \cup {v}
    /\ UNCHANGED <<log, alert, tick, hist>>

\* A test push is about no alert.
TestPush ==
    /\ SendAll({})
    /\ UNCHANGED <<log, alert, tick, told, lost, swapped, hidden>>

-----------------------------------------------------------------------------
(* deliver_pending.                                                        *)

End(d) ==
    /\ at' = [at EXCEPT ![d] = "idle"]
    /\ todo' = [todo EXCEPT ![d] = {}]
    /\ cur' = [cur EXCEPT ![d] = NoEvent]
    /\ waiting' = [waiting EXCEPT ![d] = {}]
    /\ left' = [left EXCEPT ![d] = 0]

\* Mutant: the row is read without a lock.
UnlockedShared(d, e) == TRUE

\* SKIP LOCKED.
Unlocked(d, e) == \A o \in Ticks : cur[o] # e

\* Mutant: only the message in backoff is passed over, not its trade.
HeldBackAlone(d, e) == e[1] \in waiting[d] /\ e[2] = "opened"

\* A trade whose earlier message waits out its backoff.
HeldBack(d, e) == e[1] \in waiting[d]

\* The pending rows that are free, of which a tick takes the oldest.
Candidates(d) ==
    {i \in DOMAIN log : /\ alert[log[i]].status = "pending"
                        /\ Unlocked(d, log[i]) /\ ~HeldBack(d, log[i])}

\* Not due: the row is released, and its trade waits for the rest of the tick.
Postpone(d) ==
    /\ at[d] = "pick" /\ left[d] > 0
    /\ \E i \in Candidates(d) :
          /\ Oldest(Candidates(d), i) /\ alert[log[i]].wait > 0
          /\ waiting' = [waiting EXCEPT ![d] = @ \cup {log[i][1]}]
    /\ left' = [left EXCEPT ![d] = @ - 1]
    /\ UNCHANGED <<log, alert, devices, at, todo, cur, hist>>

Pick(d) ==
    /\ at[d] = "pick" /\ left[d] > 0
    /\ \E i \in Candidates(d) :
          /\ Oldest(Candidates(d), i) /\ alert[log[i]].wait = 0
          /\ cur' = [cur EXCEPT ![d] = log[i]]
          /\ hidden' = IF \E o \in Ticks : cur[o] = <<log[i][1], "opened">>
                       THEN hidden \cup {log[i][1]} ELSE hidden
    /\ at' = [at EXCEPT ![d] = "sending"]
    /\ UNCHANGED <<log, alert, devices, todo, waiting, left, told, lost, owed, swapped>>

TickEnd(d) ==
    /\ at[d] = "pick" /\ (left[d] = 0 \/ Candidates(d) = {})
    /\ End(d)
    /\ UNCHANGED <<log, alert, devices, hist>>

\* The service takes the message: its words or, past the firewall, its short form.
Arrive(d) ==
    /\ at[d] = "sending"
    /\ at' = [at EXCEPT ![d] = "arrived"]
    /\ told' = [told EXCEPT ![cur[d]] = UpTo(@, 2)]
    /\ swapped' = IF cur[d][2] = "opened" /\ told[<<cur[d][1], "closed">>] > 0
                  THEN swapped \cup {cur[d][1]} ELSE swapped
    /\ UNCHANGED <<log, alert, devices, todo, cur, waiting, left, lost, owed, hidden>>

\* The reply says so, or nobody has seen the like of it: then the message counts as
\* sent whether or not it was taken.  Its attempts are never read again.
Sent(d) ==
    /\ at[d] \in {"sending", "arrived"}
    /\ alert' = [alert EXCEPT ![cur[d]].status = "sent", ![cur[d]].attempts = 0]
    /\ at' = [at EXCEPT ![d] = "pick"]
    /\ cur' = [cur EXCEPT ![d] = NoEvent]
    /\ left' = [left EXCEPT ![d] = @ - 1]
    /\ UNCHANGED <<log, devices, todo, waiting, hist>>

\* Mutant: every refusal is taken for the rate limit.
RefusedCapped(a, limited) ==
    LET n == IF a.attempts + 1 >= MAX_ATTEMPTS THEN MAX_ATTEMPTS - 1 ELSE a.attempts + 1 IN
    [a EXCEPT !.attempts = n, !.wait = IF n = 0 THEN 0 ELSE Backoff[n]]

\* An attempt that failed; the rate limit never uses up the last one.
Refused(a, limited) ==
    LET n == IF limited /\ a.attempts + 1 >= MAX_ATTEMPTS THEN MAX_ATTEMPTS - 1
                                                         ELSE a.attempts + 1 IN
    [a EXCEPT !.attempts = n, !.wait = IF n = 0 THEN 0 ELSE Backoff[n],
              !.status = IF n >= MAX_ATTEMPTS THEN "failed" ELSE @]

\* The service answers that its rate limit is reached.
Limit(d) ==
    /\ at[d] = "sending"
    /\ at' = [at EXCEPT ![d] = "limited"]
    /\ UNCHANGED <<log, alert, devices, todo, cur, waiting, left, hist>>

\* AlertSendError: rate limited, refused, or unreachable after the message may
\* have arrived.  The tick ends with it.
Refuse(d) ==
    /\ at[d] \in {"sending", "limited", "arrived"}
    /\ alert' = [alert EXCEPT ![cur[d]] = Refused(@, at[d] = "limited")]
    /\ lost' = IF at[d] = "arrived" THEN [lost EXCEPT ![cur[d]] = UpTo(@, 1)] ELSE lost
    /\ End(d)
    /\ UNCHANGED <<log, devices, told, owed, swapped, hidden>>

\* The worker dies: the row it held is free, and as it was.
Die(d) ==
    /\ at[d] # "idle"
    /\ lost' = IF at[d] = "arrived" THEN [lost EXCEPT ![cur[d]] = UpTo(@, 1)] ELSE lost
    /\ End(d)
    /\ UNCHANGED <<log, alert, devices, told, owed, swapped, hidden>>

Elapse ==
    /\ alert' = [e \in Events |-> [alert[e] EXCEPT !.wait = IF @ > 0 THEN @ - 1 ELSE 0]]
    /\ UNCHANGED <<log, devices, tick, hist>>

Next ==
    \/ \E e \in Events : Happen(e) \/ GrowOld(e)
    \/ \E v \in Devices : Subscribe(v)
    \/ TestPush
    \/ \E d \in Ticks :
          \/ Record(d) \/ PushList(d) \/ PushSend(d) \/ PushMark(d) \/ PushEnd(d)
          \/ Postpone(d) \/ Pick(d) \/ TickEnd(d)
          \/ Arrive(d) \/ Sent(d) \/ Limit(d) \/ Refuse(d) \/ Die(d)
    \/ Elapse

Spec == Init /\ [][Next]_vars

\* What a tick that lives does next.
Step(d) ==
    \/ Record(d) \/ PushList(d) \/ PushSend(d) \/ PushMark(d) \/ PushEnd(d)
    \/ Postpone(d) \/ Pick(d) \/ TickEnd(d)
    \/ Arrive(d) \/ Sent(d) \/ Refuse(d)

\* The beat keeps ticking, time passes and every send ends.
Fairness == WF_vars(Elapse) /\ \A d \in Ticks : WF_vars(Step(d))

\* From some moment on no worker dies, and the rate limit lets up.
Survives == <>[][\A d \in Ticks : ~Die(d) /\ ~Limit(d)]_vars

FairSpec == Spec /\ Fairness /\ Survives

-----------------------------------------------------------------------------
(* Correctness.                                                            *)

Alerts == [status : {"none", "baseline", "pending", "sent", "failed"},
           attempts : 0..MAX_ATTEMPTS, wait : Nat, push : {"due", "done", "old"}]

TypeOK ==
    /\ log \in Seq(Events) /\ alert \in [Events -> Alerts]
    /\ at \in [Ticks -> {"idle", "list", "push", "mark", "pick",
                         "sending", "limited", "arrived"}]
    /\ \A d \in Ticks : todo[d] \subseteq DOMAIN log
    /\ todo \in [Ticks -> SUBSET Nat] /\ cur \in [Ticks -> Events \cup {NoEvent}]
    /\ waiting \in [Ticks -> SUBSET Positions] /\ left \in [Ticks -> Nat]
    /\ told \in [Events -> 0..2] /\ lost \in [Events -> 0..1]
    /\ devices \subseteq Devices /\ owed \in [Events -> SUBSET Devices]
    /\ swapped \subseteq Positions /\ hidden \subseteq Positions

\* A row that a tick sends is locked by that tick alone, and nothing but that tick
\* takes it out of pending: not record_new_events, not the backoff that elapses and
\* not the pushes of other ticks.
LockInv ==
    /\ \A d \in Ticks :
          IF at[d] \in {"sending", "limited", "arrived"}
          THEN cur[d] \in Events /\ alert[cur[d]].status = "pending" /\ left[d] > 0
          ELSE cur[d] = NoEvent
    /\ \A d, o \in Ticks : d # o /\ cur[d] \in Events => cur[d] # cur[o]

\* A row in pending has an attempt left.
AttemptInv == \A e \in Events : alert[e].status = "pending" => alert[e].attempts < MAX_ATTEMPTS

\* The close of a trade happens after its open and is recorded no sooner.
LogInv ==
    /\ \A j \in DOMAIN log : log[j][2] = "closed" =>
          \E i \in DOMAIN log : i < j /\ log[i] = <<log[j][1], "opened">>
    /\ \A p \in Positions : alert[<<p, "closed">>].status # "none" =>
          alert[<<p, "opened">>].status # "none"

\* A message is recorded as sent, about to be, or its arrival was lost.
Accounted(e) ==
    \/ alert[e].status = "sent"
    \/ \E d \in Ticks : at[d] = "arrived" /\ cur[d] = e

\* The arrivals of a message are the ones that were lost and at most one more, which
\* is the one that is accounted for.  (The count of losses stops at its bound.)
ArrivalInv ==
    \A e \in Events : \/ told[e] <= lost[e]
                      \/ told[e] = lost[e] + 1 /\ (Accounted(e) \/ lost[e] = 1)

\* What is being marked was asked about, and what is to be pushed was recorded.
AskedInv ==
    /\ \A d \in Ticks :
          at[d] = "mark" => \E i \in todo[d] : Oldest(todo[d], i) /\ owed[log[i]] = {}
    /\ \A d \in Ticks : \A i \in todo[d] : alert[log[i]].status # "none"

\* A close is sent only when the open of its trade is settled, except for a trade
\* whose open was hidden by the lock of another tick.
SettledInv ==
    \A p \in Positions \ hidden :
        (told[<<p, "closed">>] > 0 \/ \E d \in Ticks : cur[d] = <<p, "closed">>) =>
            alert[<<p, "opened">>].status \notin {"none", "pending"}

\* A message arrives twice only if its earlier arrival could not be recorded: no
\* overlap of ticks sends a row twice.
TwiceOnlyIfLost == \A e \in Events : told[e] <= 1 + lost[e]

\* trade_alerts.py:459 "a close must never arrive before its open": it does only
\* when one tick skipped the open that another tick was sending, whatever is
\* refused, postponed, given up or sent again.
OpenArrivesFirst == swapped \subseteq hidden

\* An alert is marked as pushed only after every device that was subscribed when it
\* was recorded, and is not gone, was asked about it: overlapping ticks and a tick
\* that dies ask again, and never leave a device out.
PushedMeansAsked == \A e \in Events : alert[e].push = "done" => owed[e] = {}

\* What every step of every tick keeps, whatever overlaps it: the types, the locks,
\* the order of the log, the account of the arrivals and the order of a trade's two
\* messages.
AlertInv ==
    /\ TypeOK /\ LockInv /\ AttemptInv /\ LogInv /\ ArrivalInv /\ AskedInv /\ SettledInv
    /\ PushedMeansAsked /\ OpenArrivesFirst

\* Every alert that is pending is in the end sent or given up on, once the rate limit
\* lets up: it is not retried for ever, and no backoff hides it for ever.  And it is
\* pushed, unless it was 30 minutes old first.
AlertEnds ==
    \A e \in Events :
        [](alert[e].status = "pending" =>
              <>(alert[e].status # "pending" /\ alert[e].push # "due"))
=============================================================================
