---------------------------- MODULE ExecutionRail ----------------------------
(***************************************************************************)
(* The real-wallet execution rail: the live intents and positions that     *)
(* LiveIntentRepository keeps in Postgres, the executor passes that walk   *)
(* every unfinished intent, the exit passes that ask for sells, the        *)
(* failure counter with its kill switch, the operator's controls, and the  *)
(* chain the transactions land on.                                         *)
(*                                                                         *)
(* Intents.  A position is named by the buy b that opens it: <<b, 0>> is   *)
(* the BUY intent of b and <<b, n>>, n > 0, is the n-th SELL asked for it. *)
(* Those are the rows the idempotency keys "v6:strategy:mint[:member]",    *)
(* "v6exit:pos" and "v6exit:pos:n" can create.                             *)
(*                                                                         *)
(* Steps.  An executor pass reads an intent, talks to the network, and     *)
(* then writes with a compare-and-swap on the state it read.  The read,    *)
(* each network answer and the committed write are separate steps, so any  *)
(* other process can act in between.  No advisory lock is assumed: they    *)
(* are transaction scoped, _sign_and_submit commits in the middle of a     *)
(* pass, and the rest of that pass runs unlocked.  What holds here holds   *)
(* with the locks too.                                                     *)
(***************************************************************************)
EXTENDS Naturals, FiniteSets

CONSTANTS
    Buys,          \* the buys the driver may create, one coin of one wallet each
    OwnBuys,       \* those of OWN_SWITCH_MEMBERS, created with the switch off too
    Workers,       \* executor passes: the minute tick, the fast loop
    Exits,         \* exit-driver passes: the minute tick, the fast loop
    MaxAttempts,   \* bound: sells asked for one position
    MaxFailures,   \* REAL_WALLET_MAX_CONSECUTIVE_EXECUTION_FAILURES
    MaxClears,     \* bound: times the operator clears the kill switch
    NoIntent,      \* an executor pass between two intents
    NoBuy          \* an exit pass between two positions

Intents == Buys \X (0..MaxAttempts)

ASSUME RailAssumption ==
    /\ OwnBuys \subseteq Buys
    /\ MaxAttempts \in Nat \ {0}
    /\ MaxFailures \in Nat \ {0}
    /\ MaxClears \in Nat
    /\ IsFiniteSet(Workers)
    /\ NoIntent \notin Intents
    /\ NoBuy \notin Buys

VARIABLES
    state,      \* intent.state; "absent" when there is no such row
    position,   \* status of the position a buy opened; "none" when no row
    exitOf,     \* position.exit_intent_id, as the attempt number; 0 is NULL
    switchOn,   \* the autotrade switch
    killed,     \* an active kill switch row exists
    failures,   \* execution_health.consecutive_failures
    clears,     \* times clear_kill_switch succeeded (bounds the model)
    at,         \* where each executor pass stands
    job,        \* the intent it works on
    seen,       \* the state it read from that intent's row
    exitAt,     \* where each exit pass stands
    exitPos,    \* the position it looks at
    replaces,   \* pos.exit_intent_id as that pass loaded it
    attempt,    \* the attempt number it will ask for
    chain,      \* what the chain did with an intent's transaction
    aged,       \* DROPPED_AFTER_SECONDS have passed since submitted_at
    sends       \* times the signed bytes were handed to /execute (history)

rows     == <<state, position, exitOf>>
controls == <<switchOn, killed, failures, clears>>
passes   == <<at, job, seen>>
exits    == <<exitAt, exitPos, replaces, attempt>>
network  == <<chain, aged, sends>>
vars     == <<rows, controls, passes, exits, network>>

-----------------------------------------------------------------------------
(* The intent state machine.                                               *)

ExecutionState == {"created", "safety_approved", "order_created", "signed",
                   "submitted", "confirmed", "failed",
                   "reconciliation_required", "blocked"}

UNFINISHED_STATES == {"created", "safety_approved", "order_created", "submitted"}

\* Mutant: a disputed exit is asked for again.
RetryDisputed == {"blocked", "failed", "reconciliation_required"}

RETRYABLE_EXIT_STATES == {"blocked", "failed"}

Terminal == {"confirmed", "failed", "blocked"}

TRANSITIONS ==
    [s \in ExecutionState |->
        CASE s = "created"         -> {"safety_approved", "blocked"}
          [] s = "safety_approved" -> {"order_created", "blocked"}
          [] s = "order_created"   -> {"signed", "failed", "blocked"}
          [] s = "signed"          -> {"submitted", "failed", "blocked"}
          [] s = "submitted"       -> {"confirmed", "failed", "reconciliation_required"}
          [] s = "reconciliation_required" -> {"confirmed", "failed"}
          [] s \in Terminal        -> {}]

Buy(i)    == i[1]
IsSell(i) == i[2] > 0

\* What the chain can do with a transaction.  Not executed: never sent, sent,
\* or its blockhash died first ("dead"), sent or not.  Executed: with the
\* wallet deltas an exact settlement needs, with an amount other than the one
\* authorised, or with deltas that cannot be read.  Or reverted.
Unlanded == {"unsent", "pending", "dead"}
Executed == {"landed", "off", "unreadable"}
Fates(i) == IF IsSell(i) THEN {"landed", "off", "unreadable", "reverted"}
                         ELSE {"landed", "unreadable", "reverted"}

\* Where an executor pass can stand between two of its steps.
Replies == {"reply_success", "reply_failed", "reply_unknown", "uncertain"}
PassAt  == {"idle", "block", "safety", "order", "guard", "sign", "submit", "send",
            "inspect", "check_blockhash", "check_status", "settle", "fail"} \cup Replies

TypeOK ==
    /\ state \in [Intents -> ExecutionState \cup {"absent"}]
    /\ position \in [Buys -> {"none", "OPEN", "CLOSED"}]
    /\ exitOf \in [Buys -> 0..MaxAttempts]
    /\ switchOn \in BOOLEAN /\ killed \in BOOLEAN
    /\ failures \in Nat /\ clears \in 0..MaxClears
    /\ at \in [Workers -> PassAt]
    /\ job \in [Workers -> Intents \cup {NoIntent}]
    /\ seen \in [Workers -> ExecutionState \cup {"absent"}]
    /\ exitAt \in [Exits -> {"idle", "count", "request"}]
    /\ exitPos \in [Exits -> Buys \cup {NoBuy}]
    /\ replaces \in [Exits -> 0..MaxAttempts]
    /\ attempt \in [Exits -> 0..MaxAttempts + 1]
    /\ chain \in [Intents -> Unlanded \cup Executed \cup {"reverted"}]
    /\ aged \in [Intents -> BOOLEAN]
    /\ sends \in [Intents -> Nat]

Init ==
    /\ state = [i \in Intents |-> "absent"]
    /\ position = [b \in Buys |-> "none"]
    /\ exitOf = [b \in Buys |-> 0]
    /\ switchOn = FALSE /\ killed = FALSE /\ failures = 0 /\ clears = 0
    /\ at = [w \in Workers |-> "idle"]
    /\ job = [w \in Workers |-> NoIntent]
    /\ seen = [w \in Workers |-> "absent"]
    /\ exitAt = [x \in Exits |-> "idle"]
    /\ exitPos = [x \in Exits |-> NoBuy]
    /\ replaces = [x \in Exits |-> 0]
    /\ attempt = [x \in Exits |-> 0]
    /\ chain = [i \in Intents |-> "unsent"]
    /\ aged = [i \in Intents |-> FALSE]
    /\ sends = [i \in Intents |-> 0]

-----------------------------------------------------------------------------
(* The repository's writes.                                                *)

\* Mutant: the UPDATE without its WHERE state.
TransitionBlind(w, to) == state' = [state EXCEPT ![job[w]] = to]

\* UPDATE ... WHERE id AND state = the state read.  When another pass moved
\* the intent first, ConcurrentIntentTransitionError leaves this handler and
\* the tick logs it: nothing is written.
Transition(w, to) ==
    state' = IF state[job[w]] = seen[w] /\ to \in TRANSITIONS[seen[w]]
             THEN [state EXCEPT ![job[w]] = to]
             ELSE state

\* The pass is done with this intent, or died: what it held is gone.
Release(w) ==
    /\ at' = [at EXCEPT ![w] = "idle"]
    /\ job' = [job EXCEPT ![w] = NoIntent]
    /\ seen' = [seen EXCEPT ![w] = "absent"]

Continue(w, next) ==
    /\ at' = [at EXCEPT ![w] = next]
    /\ UNCHANGED <<job, seen>>

\* Mutant: the switch arms one failure late.
RecordFailureLate ==
    /\ failures' = failures + 1
    /\ killed' = (killed \/ failures + 1 > MaxFailures)

\* record_execution_failure: one atomic upsert, arming the switch at the bound.
RecordFailure ==
    /\ failures' = failures + 1
    /\ killed' = (killed \/ failures + 1 >= MaxFailures)

\* record_execution_success: an upsert that sets the counter to zero.
RecordSuccess == failures' = 0 /\ UNCHANGED killed

-----------------------------------------------------------------------------
(* RealWalletExecutor.advance.                                             *)

\* Read the intent, the switch and the kill switches, and choose a handler.
Advance(w, i) ==
    /\ at[w] = "idle"
    /\ state[i] \in UNFINISHED_STATES
    /\ job' = [job EXCEPT ![w] = i]
    /\ seen' = [seen EXCEPT ![w] = state[i]]
    /\ at' = [at EXCEPT ![w] =
                CASE state[i] = "submitted"                -> "inspect"
                  [] state[i] # "submitted" /\ (killed \/ (~switchOn /\ ~IsSell(i))) -> "block"
                  [] OTHER -> CASE state[i] = "created"         -> "safety"
                                [] state[i] = "safety_approved" -> "order"
                                [] state[i] = "order_created"   -> "guard"]
    /\ UNCHANGED <<rows, controls, exits, network>>

Block(w) ==
    /\ at[w] = "block"
    /\ Transition(w, "blocked")
    /\ Release(w)
    /\ UNCHANGED <<position, exitOf, controls, exits, network>>

\* SEC-2 allows the buy, or refuses it; a sell is never asked.
RunSafety(w) ==
    /\ at[w] = "safety"
    /\ \/ Transition(w, "safety_approved")
       \/ ~IsSell(job[w]) /\ Transition(w, "blocked")
    /\ Release(w)
    /\ UNCHANGED <<position, exitOf, controls, exits, network>>

\* An order comes back, or the verdict is stale, or the order is unavailable
\* or fails its re-check.
BuildOrder(w) ==
    /\ at[w] = "order"
    /\ Transition(w, "order_created") \/ Transition(w, "blocked")
    /\ Release(w)
    /\ UNCHANGED <<position, exitOf, controls, exits, network>>

\* LiveSubmissionGuard over facts measured now.  Every fact but the kill
\* switch and the switch is the environment's: the guard may refuse anyway.
Guard(w) ==
    /\ at[w] = "guard"
    /\ \/ ~killed /\ (switchOn \/ IsSell(job[w])) /\ Continue(w, "sign") /\ UNCHANGED state
       \/ Transition(w, "blocked") /\ Release(w)
    /\ UNCHANGED <<position, exitOf, controls, exits, network>>

\* The signer reloads the committed row and signs only at ORDER_CREATED;
\* a refusal or an unreachable signer blocks the intent.
Sign(w) ==
    /\ at[w] = "sign"
    /\ \/ state[job[w]] = "order_created" /\ Continue(w, "submit") /\ UNCHANGED state
       \/ Transition(w, "blocked") /\ Release(w)
    /\ UNCHANGED <<position, exitOf, controls, exits, network>>

\* Mutant: the submission is committed without comparing the state.
CommitSubmissionBlind(w) ==
    /\ at[w] = "submit"
    /\ state' = [state EXCEPT ![job[w]] = "submitted"]
    /\ Continue(w, "send")
    /\ UNCHANGED <<position, exitOf, controls, exits, network>>

\* SIGNED, the signature and SUBMITTED in one commit: the crash boundary.
CommitSubmission(w) ==
    /\ at[w] = "submit"
    /\ IF state[job[w]] = "order_created"
       THEN state' = [state EXCEPT ![job[w]] = "submitted"] /\ Continue(w, "send")
       ELSE Release(w) /\ UNCHANGED state
    /\ UNCHANGED <<position, exitOf, controls, exits, network>>

\* POST /execute.  The transport policy may refuse before a request exists
\* (uncaught: the pass drops it; or caught as a blocked transport).  A request
\* may or may not reach the network, whatever is answered.
Send(w) ==
    /\ at[w] = "send"
    /\ \/ Release(w) /\ UNCHANGED <<chain, sends>>
       \/ Continue(w, "uncertain") /\ UNCHANGED <<chain, sends>>
       \/ \E r \in Replies, reached \in BOOLEAN :
            /\ Continue(w, r)
            /\ sends' = [sends EXCEPT ![job[w]] = @ + 1]
            /\ chain' = IF reached /\ chain[job[w]] = "unsent"
                        THEN [chain EXCEPT ![job[w]] = "pending"] ELSE chain
    /\ UNCHANGED <<rows, controls, exits, aged>>

\* The reply is recorded.  record_submission_result raises when the intent has
\* left SUBMITTED, before either counter is touched; a lost reply counts
\* without looking.  A sell the chain refused does not count.
RecordReply(w) ==
    /\ at[w] \in Replies
    /\ CASE at[w] = "uncertain" -> RecordFailure
         [] at[w] # "uncertain" /\ state[job[w]] # "submitted" -> UNCHANGED <<failures, killed>>
         [] at[w] = "reply_success" /\ state[job[w]] = "submitted" -> RecordSuccess
         [] at[w] \in {"reply_failed", "reply_unknown"} /\ state[job[w]] = "submitted" ->
              IF IsSell(job[w]) /\ at[w] = "reply_failed"
              THEN UNCHANGED <<failures, killed>>
              ELSE RecordFailure
    /\ Release(w)
    /\ UNCHANGED <<rows, switchOn, clears, exits, network>>

-----------------------------------------------------------------------------
(* RealWalletExecutor._reconcile: the chain is asked, never our memory.    *)

\* Mutant: a transaction that is on chain is settled without reading its error.
InspectKnownCredulous(w) ==
    /\ at[w] = "inspect"
    /\ chain[job[w]] \in {"landed", "off", "reverted"}
    /\ Continue(w, "settle")
    /\ UNCHANGED <<rows, controls, exits, network>>

\* get_transaction.  Any read may come back unknown; what is not unknown is
\* true.  A transaction whose deltas cannot be read is unknown for ever.
InspectKnown(w) ==
    /\ at[w] = "inspect"
    /\ chain[job[w]] \in {"landed", "off", "reverted"}
    /\ Continue(w, IF chain[job[w]] = "reverted" THEN "fail" ELSE "settle")
    /\ UNCHANGED <<rows, controls, exits, network>>

\* Mutants: the drop check without its wait, and no drop check at all.
InspectUnknownImpatient(w) ==
    /\ at[w] = "inspect"
    /\ Continue(w, "check_blockhash")
    /\ UNCHANGED <<rows, controls, exits, network>>

InspectUnknownGivesUp(w) ==
    /\ at[w] = "inspect"
    /\ Release(w)
    /\ UNCHANGED <<rows, controls, exits, network>>

\* Unknown: only a transaction gone DROPPED_AFTER_SECONDS is asked further.
InspectUnknown(w) ==
    /\ at[w] = "inspect"
    /\ IF aged[job[w]] THEN Continue(w, "check_blockhash") ELSE Release(w)
    /\ UNCHANGED <<rows, controls, exits, network>>

\* isBlockhashValid.  A node that has not caught up reports a young blockhash
\* as invalid too, which is what the wait before asking is for.
ReportsDead(i) == chain[i] \notin {"unsent", "pending"} \/ ~aged[i]

CheckBlockhash(w) ==
    /\ at[w] = "check_blockhash"
    /\ \/ ReportsDead(job[w]) /\ Continue(w, "check_status")
       \/ Release(w)
    /\ UNCHANGED <<rows, controls, exits, network>>

\* getSignatureStatuses, read after the blockhash: no record of it anywhere.
CheckStatus(w) ==
    /\ at[w] = "check_status"
    /\ \/ chain[job[w]] \in Unlanded /\ Continue(w, "fail")
       \/ Release(w)
    /\ UNCHANGED <<rows, controls, exits, network>>

\* chain_reported_failure or expired_unlanded.
Fail(w) ==
    /\ at[w] = "fail"
    /\ Transition(w, "failed")
    /\ Release(w)
    /\ UNCHANGED <<position, exitOf, controls, exits, network>>

\* Mutant: the settled quantity is not compared with the authorised one.
BoundAnyAmount(i) ==
    /\ position[Buy(i)] = "OPEN"
    /\ exitOf[Buy(i)] = i[2]

\* _close_confirmed_position accepts the settlement: read under the row lock.
Bound(i) ==
    /\ position[Buy(i)] = "OPEN"
    /\ exitOf[Buy(i)] = i[2]
    /\ chain[i] = "landed"

\* confirm_settlement.  The position is written first and the intent's
\* compare-and-swap comes after it; when that one raises, the tick swallows the
\* error and its commit still writes the position.
SettleBuy(w) ==
    /\ at[w] = "settle" /\ ~IsSell(job[w])
    /\ position' = IF position[Buy(job[w])] = "none"
                   THEN [position EXCEPT ![Buy(job[w])] = "OPEN"]
                   ELSE position
    /\ Transition(w, "confirmed")
    /\ Release(w)
    /\ UNCHANGED <<exitOf, controls, exits, network>>

SettleSell(w) ==
    /\ at[w] = "settle" /\ IsSell(job[w])
    /\ IF Bound(job[w])
       THEN /\ position' = [position EXCEPT ![Buy(job[w])] = "CLOSED"]
            /\ Transition(w, "confirmed")
       ELSE /\ Transition(w, "reconciliation_required")
            /\ UNCHANGED position
    /\ Release(w)
    /\ UNCHANGED <<exitOf, controls, exits, network>>

\* The process dies, or a database error rolls its step back.
Crash(w) ==
    /\ at[w] # "idle"
    /\ Release(w)
    /\ UNCHANGED <<rows, controls, exits, network>>

-----------------------------------------------------------------------------
(* RealWalletExitDriver.tick, one position at a time.                      *)

\* Mutant: the count does not look at the side.
IntentsOf(b) == Cardinality({n \in 0..MaxAttempts : state[<<b, n>>] # "absent"})

\* sell_attempts: every sell ever asked for this position.
SellAttempts(b) == Cardinality({n \in 1..MaxAttempts : state[<<b, n>>] # "absent"})

ExitRelease(x) ==
    /\ exitAt' = [exitAt EXCEPT ![x] = "idle"]
    /\ exitPos' = [exitPos EXCEPT ![x] = NoBuy]
    /\ replaces' = [replaces EXCEPT ![x] = 0]
    /\ attempt' = [attempt EXCEPT ![x] = 0]

\* The position is loaded and its rule says sell, or an earlier exit ended
\* without selling and its backoff has passed.  Frozen under a kill switch.
ExitDue(x, b) ==
    /\ exitAt[x] = "idle"
    /\ position[b] = "OPEN"
    /\ ~killed
    /\ exitOf[b] # 0 => state[<<b, exitOf[b]>>] \in RETRYABLE_EXIT_STATES
    /\ exitAt' = [exitAt EXCEPT ![x] = "count"]
    /\ exitPos' = [exitPos EXCEPT ![x] = b]
    /\ replaces' = [replaces EXCEPT ![x] = exitOf[b]]
    /\ UNCHANGED <<attempt, rows, controls, passes, network>>

CountAttempts(x) ==
    /\ exitAt[x] = "count"
    /\ exitAt' = [exitAt EXCEPT ![x] = "request"]
    /\ attempt' = [attempt EXCEPT ![x] = SellAttempts(exitPos[x]) + 1]
    /\ UNCHANGED <<exitPos, replaces, rows, controls, passes, network>>

\* Mutant: the position is judged by the copy loaded before the lock.
ReplaceableStale(b, old) ==
    \/ old = 0
    \/ exitOf[b] = old /\ state[<<b, old>>] \in RETRYABLE_EXIT_STATES

\* The exit may be bound: nothing asked yet, or the intent this pass means to
\* replace is still the one the position points at and sold nothing.
Replaceable(b, old) ==
    \/ exitOf[b] = 0
    \/ exitOf[b] = old /\ state[<<b, old>>] \in RETRYABLE_EXIT_STATES

\* create_sell_intent, under the position's row lock and read fresh.  An
\* existing key returns the existing intent.  MaxAttempts bounds the model.
RequestExit(x) ==
    /\ exitAt[x] = "request"
    /\ LET b == exitPos[x]
           i == <<b, attempt[x]>>
       IN IF /\ attempt[x] <= MaxAttempts
             /\ position[b] = "OPEN"
             /\ state[i] = "absent"
             /\ Replaceable(b, replaces[x])
          THEN /\ state' = [state EXCEPT ![i] = "created"]
               /\ exitOf' = [exitOf EXCEPT ![b] = attempt[x]]
          ELSE UNCHANGED <<state, exitOf>>
    /\ ExitRelease(x)
    /\ UNCHANGED <<position, controls, passes, network>>

ExitCrash(x) ==
    /\ exitAt[x] # "idle"
    /\ ExitRelease(x)
    /\ UNCHANGED <<rows, controls, passes, network>>

-----------------------------------------------------------------------------
(* The driver, the operator and the chain.                                 *)

\* The driver creates a coin's one BUY; a second insert of the key is a no-op.
DriverBuys(b) ==
    /\ switchOn \/ b \in OwnBuys
    /\ ~killed
    /\ state[<<b, 0>>] = "absent"
    /\ state' = [state EXCEPT ![<<b, 0>>] = "created"]
    /\ UNCHANGED <<position, exitOf, controls, passes, exits, network>>

AutotradeStart ==
    /\ ~switchOn
    /\ switchOn' = TRUE
    /\ UNCHANGED <<killed, failures, clears, rows, passes, exits, network>>

AutotradeStop ==
    /\ switchOn
    /\ switchOn' = FALSE
    /\ UNCHANGED <<killed, failures, clears, rows, passes, exits, network>>

\* Clears the one row and nothing else: the counter keeps its value.
ClearKillSwitch ==
    /\ killed /\ clears < MaxClears
    /\ killed' = FALSE
    /\ clears' = clears + 1
    /\ UNCHANGED <<switchOn, failures, rows, passes, exits, network>>

\* External: a transaction that reached the network executes or reverts, but
\* only while its blockhash lives.
Land(i) ==
    /\ chain[i] = "pending"
    /\ \E f \in Fates(i) : chain' = [chain EXCEPT ![i] = f]
    /\ UNCHANGED <<aged, sends, rows, controls, passes, exits>>

\* External: the order's blockhash dies before the transaction landed.
Expire(i) ==
    /\ state[i] \in {"order_created", "submitted"}
    /\ chain[i] \in {"unsent", "pending"}
    /\ chain' = [chain EXCEPT ![i] = "dead"]
    /\ UNCHANGED <<aged, sends, rows, controls, passes, exits>>

\* Time passes: DROPPED_AFTER_SECONDS since submission, still not landed.
Age(i) ==
    /\ state[i] = "submitted" /\ chain[i] \in Unlanded /\ ~aged[i]
    /\ aged' = [aged EXCEPT ![i] = TRUE]
    /\ UNCHANGED <<chain, sends, rows, controls, passes, exits>>

-----------------------------------------------------------------------------

PassStep(w) ==
    \/ Block(w) \/ RunSafety(w) \/ BuildOrder(w) \/ Guard(w) \/ Sign(w)
    \/ CommitSubmission(w) \/ Send(w) \/ RecordReply(w)
    \/ InspectKnown(w) \/ InspectUnknown(w) \/ CheckBlockhash(w) \/ CheckStatus(w)
    \/ Fail(w) \/ SettleBuy(w) \/ SettleSell(w) \/ Crash(w)

ExitStep(x) == CountAttempts(x) \/ RequestExit(x) \/ ExitCrash(x)

Next ==
    \/ \E w \in Workers : PassStep(w) \/ \E i \in Intents : Advance(w, i)
    \/ \E x \in Exits : ExitStep(x) \/ \E b \in Buys : ExitDue(x, b)
    \/ \E b \in Buys : DriverBuys(b)
    \/ AutotradeStart \/ AutotradeStop \/ ClearKillSwitch
    \/ \E i \in Intents : Land(i) \/ Expire(i) \/ Age(i)

Spec == Init /\ [][Next]_vars

\* Assumptions of the liveness property only.  Every tick lists every unfinished
\* intent, so each gets its turn whenever turns keep coming; a task's time limit
\* ends a pass that would hang; blockhashes die and time passes.  From some
\* point on no pass dies before its step is done and the RPC answers.
Known(i) == chain[i] \in {"landed", "off", "reverted"}

StepDone(w) ==
    \/ Block(w) \/ RunSafety(w) \/ BuildOrder(w) \/ Guard(w) \/ Sign(w)
    \/ CommitSubmission(w) \/ Send(w) \/ RecordReply(w)
    \/ Fail(w) \/ SettleBuy(w) \/ SettleSell(w)
    \/ InspectUnknown(w)
    \/ CheckBlockhash(w) /\ ~ReportsDead(job[w])
    \/ CheckStatus(w) /\ chain[job[w]] \notin Unlanded

Reliable ==
    \A w \in Workers :
        /\ Crash(w) => StepDone(w)
        /\ InspectUnknown(w) => ~Known(job[w])

Fairness ==
    /\ \A w \in Workers : WF_vars(PassStep(w))
    /\ \A i \in Intents : SF_vars(\E w \in Workers : Advance(w, i))
    /\ WF_vars(\E i \in Intents : Expire(i) \/ Age(i))
    /\ <>[][Reliable]_vars

FairSpec == Spec /\ Fairness

-----------------------------------------------------------------------------
(* Correctness.                                                            *)

\* The signed bytes of one intent are handed to /execute at most once, however
\* many passes work on it and wherever they die ("a retried swap is a second
\* swap", executor.py:334).
SentOnce == \A i \in Intents : sends[i] <= 1

\* An exit that may be asked for again (BLOCKED or FAILED) sold nothing and
\* never will: its transaction has not executed and no later step lets it.
RetryableSoldNothing ==
    \A i \in Intents : state[i] \in RETRYABLE_EXIT_STATES => chain[i] \notin Executed

\* A sell that executed is still the one its position points at, so its
\* settlement can be booked (the 2026-09-18 incident, live_repository.py:470).
ExecutedSellBound ==
    \A b \in Buys, n \in 1..MaxAttempts :
        chain[<<b, n>>] \in Executed => exitOf[b] = n

\* One position is sold on chain at most once, across retries, racing passes,
\* lost replies and crashes.
SoldOnce ==
    \A b \in Buys, m, n \in 1..MaxAttempts :
        chain[<<b, m>>] \in Executed /\ chain[<<b, n>>] \in Executed => m = n

\* The books agree with the chain: a position exists exactly when its buy is
\* CONFIRMED, is CLOSED exactly when its bound exit is CONFIRMED, and CONFIRMED
\* means the transaction executed with the exact amounts.
BooksMatchChain ==
    /\ \A i \in Intents : state[i] = "confirmed" => chain[i] = "landed"
    /\ \A b \in Buys :
        /\ position[b] # "none" <=> state[<<b, 0>>] = "confirmed"
        /\ position[b] = "CLOSED" <=> \E n \in 1..MaxAttempts : state[<<b, n>>] = "confirmed"
        /\ position[b] = "CLOSED" => state[<<b, exitOf[b]>>] = "confirmed"

\* A person is asked to reconcile only a sell whose executed amount differs
\* from the authorised one; two passes settling the same sell never leave one
\* there.
DisputeIsReal ==
    \A i \in Intents :
        state[i] = "reconciliation_required" => IsSell(i) /\ chain[i] = "off"

\* CONFIRMED, FAILED and BLOCKED are final against every stale writer.
TerminalIsFinal ==
    [][\A i \in Intents : state[i] \in Terminal => state'[i] = state[i]]_vars

\* Passes whose send may still be counted as a failure.
PastGuard == {w \in Workers : at[w] \in {"sign", "submit", "send"} \cup Replies}

\* The kill switch bounds a run of failures, those that have happened and those
\* that are past the guard together: the threshold and one round of passes, and
\* one more round per manual clear, because clearing does not reset the counter.
FailureBudget ==
    failures + Cardinality(PastGuard) + 1 <= MaxFailures + Cardinality(Workers) * (clears + 1)

\* Every intent that is created leaves the unfinished states, whatever is lost
\* on the way.  The one exception is a transaction that executed with wallet
\* deltas nobody can read: it is asked about for ever.
IntentResolves ==
    \A i \in Intents :
        state[i] = "created" ~> (state[i] \notin UNFINISHED_STATES \/ chain[i] = "unreadable")

\* What the wallet bought and sold on chain: the ledger's view of the rail.
Held == {b \in Buys : chain[<<b, 0>>] \in Executed}
Sold == [b \in Buys |-> {n \in 1..MaxAttempts : chain[<<b, n>>] \in Executed}]

Ledger == INSTANCE TradeLedger WITH
    Sales <- 1..MaxAttempts, held <- Held, sold <- Sold, book <- position

\* The rail, with its races, crashes and lost replies, implements the ledger it
\* promises: buy once, sell once, books one step behind the chain.
ImplementsLedger == Ledger!Spec

-----------------------------------------------------------------------------
(* The inductive invariant behind the safety properties.                   *)

PreSubmit  == {"created", "safety_approved", "order_created"}
PostSubmit == {"submitted", "confirmed", "failed", "reconciliation_required"}

\* What a pass read, by where it stands; past the commit or reconciling, its
\* intent was submitted and stays so.
PassInv ==
    \A w \in Workers :
        /\ at[w] # "idle" => job[w] \in Intents
        /\ at[w] = "block" => seen[w] \in PreSubmit
        /\ at[w] = "safety" => seen[w] = "created"
        /\ at[w] = "order" => seen[w] = "safety_approved"
        /\ at[w] \in {"guard", "sign", "submit"} => seen[w] = "order_created"
        /\ at[w] \in {"inspect", "check_blockhash", "check_status", "settle", "fail"} =>
              seen[w] = "submitted" /\ state[job[w]] \in PostSubmit
        /\ at[w] \in {"send"} \cup Replies => state[job[w]] \in PostSubmit

\* The bytes of an intent are with at most one pass, or were handed over.
SendInv ==
    /\ \A w \in Workers : at[w] = "send" => sends[job[w]] = 0
    /\ \A v, w \in Workers :
          at[v] = "send" /\ at[w] = "send" /\ job[v] = job[w] => v = w
    /\ \A i \in Intents :
          /\ sends[i] \in {0, 1}
          /\ sends[i] = 1 => state[i] \in PostSubmit
          /\ chain[i] \notin {"unsent", "dead"} => sends[i] = 1
          /\ chain[i] = "off" => IsSell(i)

\* What a pass concluded about the chain can no longer change.
VerdictInv ==
    /\ \A w \in Workers :
          /\ at[w] = "check_blockhash" => aged[job[w]]
          /\ at[w] = "check_status" => chain[job[w]] \notin {"unsent", "pending"}
          /\ at[w] = "fail" => chain[job[w]] \in {"reverted", "dead"}
          /\ at[w] = "settle" => chain[job[w]] \in {"landed", "off"}
    /\ \A i \in Intents :
          /\ state[i] = "failed" => chain[i] \in {"reverted", "dead"}
          /\ state[i] = "confirmed" => chain[i] = "landed"
          /\ state[i] = "reconciliation_required" => chain[i] = "off"

\* The sells of a position are numbered without a gap; all but the last ended
\* without selling; an exit pass never counted more than there are.
ExitInv ==
    /\ \A b \in Buys :
          /\ exitOf[b] > 0 => position[b] # "none"
          /\ \A n \in 1..MaxAttempts :
                /\ state[<<b, n>>] # "absent" <=> n <= exitOf[b]
                /\ n < exitOf[b] => state[<<b, n>>] \in RETRYABLE_EXIT_STATES
    /\ \A x \in Exits :
          /\ exitAt[x] # "idle" => exitPos[x] \in Buys
          /\ exitAt[x] = "request" => attempt[x] \in 1..exitOf[exitPos[x]] + 1

BookInv ==
    \A b \in Buys :
        /\ position[b] # "none" <=> state[<<b, 0>>] = "confirmed"
        /\ position[b] = "CLOSED" =>
              exitOf[b] > 0 /\ state[<<b, exitOf[b]>>] = "confirmed"
        /\ position[b] = "OPEN" =>
              \A n \in 1..MaxAttempts : state[<<b, n>>] # "confirmed"

IInv == TypeOK /\ PassInv /\ SendInv /\ VerdictInv /\ ExitInv /\ BookInv
=============================================================================
