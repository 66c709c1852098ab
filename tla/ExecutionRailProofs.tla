------------------------- MODULE ExecutionRailProofs -------------------------
(***************************************************************************)
(* Proofs about ExecutionRail for every number of buys, passes, attempts,  *)
(* failures and clears: IInv is inductive, and the safety properties and   *)
(* the refinement of TradeLedger follow from it.                           *)
(***************************************************************************)
EXTENDS ExecutionRail, FiniteSetTheorems, TLAPS

-----------------------------------------------------------------------------
(* Facts about intents and the repository's writes.                        *)

\* An intent is a buy and an attempt number.
LEMMA IntentShape ==
    ASSUME NEW i \in Intents
    PROVE  /\ Buy(i) \in Buys
           /\ i[2] \in 0..MaxAttempts
           /\ i = <<Buy(i), i[2]>>
BY DEF Intents, Buy

\* The name of a buy's intent or of one of its sells is an intent.
LEMMA IntentName ==
    ASSUME NEW b \in Buys, NEW n \in 0..MaxAttempts
    PROVE  /\ <<b, n>> \in Intents
           /\ Buy(<<b, n>>) = b
           /\ <<b, n>>[2] = n
           /\ IsSell(<<b, n>>) <=> n > 0
BY DEF Intents, Buy, IsSell

\* Where the transition table lets a submitted intent go.
LEMMA SubmittedMoves ==
    TRANSITIONS["submitted"] = {"confirmed", "failed", "reconciliation_required"}
<1>1. "submitted" \in ExecutionState /\ "submitted" \notin Terminal
  BY DEF ExecutionState, Terminal
<1> QED
  BY <1>1, Zenon DEF TRANSITIONS

\* A compare-and-swap moves its own intent along the transition table, or
\* writes nothing.
LEMMA TransitionEffect ==
    ASSUME TypeOK, NEW w \in Workers, job[w] \in Intents,
           NEW to \in ExecutionState, Transition(w, to)
    PROVE  /\ state' \in [Intents -> ExecutionState \cup {"absent"}]
           /\ \A i \in Intents : i # job[w] => state'[i] = state[i]
           /\ \/ state'[job[w]] = state[job[w]]
              \/ /\ state[job[w]] = seen[w]
                 /\ to \in TRANSITIONS[seen[w]]
                 /\ state'[job[w]] = to
BY DEF TypeOK, Transition

-----------------------------------------------------------------------------
(* Initially.                                                              *)

\* With no rows and idle passes, the initial state satisfies IInv.
LEMMA InitIInv == Init => IInv
<1>1. SUFFICES ASSUME Init PROVE IInv
  OBVIOUS
<1>2. TypeOK
  <2>1. 0 \in 0..MaxAttempts /\ 0 \in 0..MaxAttempts + 1 /\ 0 \in 0..MaxClears
    BY RailAssumption
  <2> QED
    BY <1>1, <2>1 DEF Init, TypeOK, PassAt, Unlanded
<1>3. PassInv /\ SendInv /\ VerdictInv
  BY <1>1 DEF Init, PassInv, SendInv, VerdictInv, Replies
<1>4. ExitInv
  BY <1>1, IntentName DEF Init, ExitInv
<1>5. BookInv
  BY <1>1, IntentName, RailAssumption DEF Init, BookInv
<1> QED
  BY <1>2, <1>3, <1>4, <1>5 DEF IInv

-----------------------------------------------------------------------------
(* Executor passes that write no row.                                      *)

\* A pass that lets its intent go, whatever the counters do, preserves IInv.
LEMMA ReleaseOnly ==
    ASSUME IInv, NEW w \in Workers, Release(w), UNCHANGED <<rows, exits, network>>,
           switchOn' \in BOOLEAN, killed' \in BOOLEAN,
           failures' \in Nat, clears' \in 0..MaxClears
    PROVE  IInv'
<1> USE DEF Release, rows, exits, network
<1>1. TypeOK'
  BY DEF IInv, TypeOK, PassAt
<1>2. PassInv'
  BY DEF IInv, TypeOK, PassInv, Replies
<1>3. SendInv'
  BY DEF IInv, TypeOK, SendInv
<1>4. VerdictInv'
  BY DEF IInv, TypeOK, VerdictInv
<1>5. ExitInv'
  BY DEF IInv, TypeOK, ExitInv
<1>6. BookInv'
  BY DEF IInv, TypeOK, BookInv
<1> QED
  BY <1>1, <1>2, <1>3, <1>4, <1>5, <1>6 DEF IInv

\* A state change that creates no row, confirms nothing and revives no exit
\* keeps the invariants of positions and exits.
LEMMA StatesKept ==
    ASSUME IInv, UNCHANGED <<position, exitOf, exits>>,
           \A i \in Intents :
              /\ state'[i] = "absent" <=> state[i] = "absent"
              /\ state'[i] = "confirmed" <=> state[i] = "confirmed"
              /\ state[i] \in RETRYABLE_EXIT_STATES => state'[i] \in RETRYABLE_EXIT_STATES
    PROVE  ExitInv' /\ BookInv'
<1> USE DEF exits
<1>1. \A b \in Buys, n \in 0..MaxAttempts : <<b, n>> \in Intents
  BY IntentName
<1>2. 0 \in 0..MaxAttempts /\ \A n \in 1..MaxAttempts : n \in 0..MaxAttempts
  BY RailAssumption
<1>3. ExitInv'
  BY <1>1, <1>2 DEF IInv, ExitInv
<1>4. \A b \in Buys : exitOf[b] \in 0..MaxAttempts
  BY DEF IInv, TypeOK
<1>5. BookInv'
  BY <1>1, <1>2, <1>4 DEF IInv, BookInv
<1> QED
  BY <1>3, <1>5

\* A compare-and-swap to a state before submission, by a pass that read one.
LEMMA PreSubmitMove ==
    ASSUME IInv, NEW w \in Workers, at[w] # "idle", seen[w] \in PreSubmit,
           NEW to \in {"safety_approved", "order_created", "blocked"},
           Transition(w, to), Release(w),
           UNCHANGED <<position, exitOf, controls, exits, network>>
    PROVE  IInv'
<1> USE DEF controls, exits, network
<1>1. job[w] \in Intents
  BY DEF IInv, PassInv
<1>2. /\ state' \in [Intents -> ExecutionState \cup {"absent"}]
      /\ \A i \in Intents : state'[i] # state[i] =>
            state[i] \in PreSubmit /\ state'[i] = to
  BY <1>1, TransitionEffect DEF IInv, ExecutionState
<1>3. TypeOK'
  BY <1>2 DEF IInv, TypeOK, Release, PassAt
<1>4. PassInv'
  BY <1>2 DEF IInv, TypeOK, PassInv, Release, PreSubmit, PostSubmit, Replies
<1>5. SendInv'
  BY <1>2 DEF IInv, TypeOK, SendInv, Release, PreSubmit, PostSubmit
<1>6. VerdictInv'
  BY <1>2 DEF IInv, TypeOK, VerdictInv, Release, PreSubmit
<1>7. ExitInv' /\ BookInv'
  <2>1. \A i \in Intents :
           /\ state'[i] = "absent" <=> state[i] = "absent"
           /\ state'[i] = "confirmed" <=> state[i] = "confirmed"
           /\ state[i] \in RETRYABLE_EXIT_STATES => state'[i] \in RETRYABLE_EXIT_STATES
    BY <1>2 DEF PreSubmit, RETRYABLE_EXIT_STATES
  <2> QED
    BY <2>1, StatesKept
<1> QED
  BY <1>3, <1>4, <1>5, <1>6, <1>7 DEF IInv

\* A step that writes no row and moves no exit pass keeps their invariants.
LEMMA RowsKept ==
    ASSUME IInv, UNCHANGED <<rows, exits>>
    PROVE  ExitInv' /\ BookInv'
BY DEF IInv, ExitInv, BookInv, rows, exits

\* A pass that goes on with its intent and writes nothing preserves IInv when
\* what it read fits where it stands next.
LEMMA ContinueOnly ==
    ASSUME IInv, NEW w \in Workers, NEW next \in PassAt, at[w] # "idle", next # "idle",
           Continue(w, next), UNCHANGED <<rows, controls, exits, network>>,
           next # "send",
           next \notin {"block", "safety", "order", "guard"} \cup Replies,
           next \in {"sign", "submit"} => seen[w] = "order_created",
           next \notin {"sign", "submit"} =>
              seen[w] = "submitted" /\ state[job[w]] \in PostSubmit,
           next = "check_blockhash" => aged[job[w]],
           next = "check_status" => chain[job[w]] \notin {"unsent", "pending"},
           next = "fail" => chain[job[w]] \in {"reverted", "dead"},
           next = "settle" => chain[job[w]] \in {"landed", "off"}
    PROVE  IInv'
<1> USE DEF Continue, controls, network
<1>1. TypeOK'
  BY DEF IInv, TypeOK, rows, exits
<1>2. PassInv'
  BY DEF IInv, TypeOK, PassInv, Replies, rows
<1>3. SendInv'
  BY DEF IInv, TypeOK, SendInv, rows
<1>4. VerdictInv'
  BY DEF IInv, TypeOK, VerdictInv, rows
<1>5. ExitInv' /\ BookInv'
  BY RowsKept
<1> QED
  BY <1>1, <1>2, <1>3, <1>4, <1>5 DEF IInv

-----------------------------------------------------------------------------
(* The executor's steps, one lemma each.                                   *)

\* advance reads an unfinished intent and stands where its state sends it.
LEMMA AdvanceStep ==
    ASSUME IInv, NEW w \in Workers, NEW i \in Intents, Advance(w, i)
    PROVE  IInv'
<1>1. PICK next \in {"inspect", "block", "safety", "order", "guard"} :
         /\ at' = [at EXCEPT ![w] = next]
         /\ next = "inspect" => state[i] = "submitted"
         /\ next = "block" => state[i] \in PreSubmit
         /\ next = "safety" => state[i] = "created"
         /\ next = "order" => state[i] = "safety_approved"
         /\ next = "guard" => state[i] = "order_created"
  <2>1. CASE state[i] = "submitted"
    BY <2>1 DEF Advance
  <2>2. CASE state[i] # "submitted" /\ (killed \/ (~switchOn /\ ~IsSell(i)))
    BY <2>2 DEF Advance, UNFINISHED_STATES, PreSubmit
  <2>3. CASE state[i] # "submitted" /\ ~(killed \/ (~switchOn /\ ~IsSell(i)))
    BY <2>3 DEF Advance, UNFINISHED_STATES
  <2> QED
    BY <2>1, <2>2, <2>3
<1>2. /\ job' = [job EXCEPT ![w] = i] /\ seen' = [seen EXCEPT ![w] = state[i]]
      /\ UNCHANGED <<rows, controls, exits, network>>
  BY DEF Advance
<1> USE DEF controls, network
<1>3. TypeOK'
  BY <1>1, <1>2 DEF IInv, TypeOK, PassAt, rows, exits
<1>4. PassInv'
  BY <1>1, <1>2 DEF IInv, TypeOK, PassInv, Replies, PostSubmit, rows
<1>5. SendInv'
  BY <1>1, <1>2 DEF IInv, TypeOK, SendInv, rows
<1>6. VerdictInv'
  BY <1>1, <1>2 DEF IInv, TypeOK, VerdictInv, rows
<1>7. ExitInv' /\ BookInv'
  BY <1>2, RowsKept
<1> QED
  BY <1>3, <1>4, <1>5, <1>6, <1>7 DEF IInv

\* _block moves an intent that was read before submission, or nothing.
LEMMA BlockStep ==
    ASSUME IInv, NEW w \in Workers, Block(w)
    PROVE  IInv'
BY PreSubmitMove DEF IInv, PassInv, Block

\* _run_safety approves or blocks, both before submission.
LEMMA RunSafetyStep ==
    ASSUME IInv, NEW w \in Workers, RunSafety(w)
    PROVE  IInv'
<1>1. at[w] # "idle" /\ seen[w] \in PreSubmit
  BY DEF IInv, PassInv, RunSafety, PreSubmit
<1>2. Transition(w, "safety_approved") \/ Transition(w, "blocked")
  BY DEF RunSafety
<1> QED
  BY <1>1, <1>2, PreSubmitMove DEF RunSafety

\* _build_order stores an order or blocks, both before submission.
LEMMA BuildOrderStep ==
    ASSUME IInv, NEW w \in Workers, BuildOrder(w)
    PROVE  IInv'
<1>1. at[w] # "idle" /\ seen[w] \in PreSubmit
  BY DEF IInv, PassInv, BuildOrder, PreSubmit
<1> QED
  BY <1>1, PreSubmitMove DEF BuildOrder

\* The guard goes on to sign with the state it read, or blocks.
LEMMA GuardStep ==
    ASSUME IInv, NEW w \in Workers, Guard(w)
    PROVE  IInv'
<1>1. at[w] = "guard" /\ seen[w] = "order_created"
  BY DEF IInv, PassInv, Guard
<1>2. CASE Continue(w, "sign") /\ UNCHANGED state
  BY <1>1, <1>2, ContinueOnly DEF Guard, PassAt, Replies, rows
<1>3. CASE Transition(w, "blocked") /\ Release(w)
  BY <1>1, <1>3, PreSubmitMove DEF Guard, PreSubmit
<1> QED
  BY <1>2, <1>3 DEF Guard

\* The signer answers for the row it read, or the intent is blocked.
LEMMA SignStep ==
    ASSUME IInv, NEW w \in Workers, Sign(w)
    PROVE  IInv'
<1>1. at[w] = "sign" /\ seen[w] = "order_created"
  BY DEF IInv, PassInv, Sign
<1>2. CASE Continue(w, "submit") /\ UNCHANGED state
  BY <1>1, <1>2, ContinueOnly DEF Sign, PassAt, Replies, rows
<1>3. CASE Transition(w, "blocked") /\ Release(w)
  BY <1>1, <1>3, PreSubmitMove DEF Sign, PreSubmit
<1> QED
  BY <1>2, <1>3 DEF Sign

\* The commit hands the bytes to one pass: before it no pass could hold them.
LEMMA CommitSubmissionStep ==
    ASSUME IInv, NEW w \in Workers, CommitSubmission(w)
    PROVE  IInv'
<1>1. /\ at[w] = "submit" /\ job[w] \in Intents
      /\ UNCHANGED <<position, exitOf, controls, exits, network>>
  BY DEF IInv, PassInv, CommitSubmission
<1>2. CASE state[job[w]] # "order_created"
  <2>1. Release(w) /\ UNCHANGED <<rows, exits, network>>
    BY <1>2, <1>1 DEF CommitSubmission, rows
  <2>2. UNCHANGED controls
    BY <1>1
  <2> QED
    BY <2>1, <2>2, ReleaseOnly DEF IInv, TypeOK, controls
<1>3. CASE state[job[w]] = "order_created"
  <2>1. /\ state' = [state EXCEPT ![job[w]] = "submitted"]
        /\ at' = [at EXCEPT ![w] = "send"] /\ job' = job /\ seen' = seen
    BY <1>3 DEF CommitSubmission, Continue
  <2> USE DEF controls, network
  <2>2. TypeOK'
    BY <1>1, <2>1 DEF IInv, TypeOK, PassAt, exits, ExecutionState
  <2>3. PassInv'
    BY <1>1, <1>3, <2>1 DEF IInv, TypeOK, PassInv, PostSubmit, Replies
  <2>4. SendInv'
    <3>1. \A v \in Workers : at[v] = "send" => job[v] # job[w]
      BY <1>3 DEF IInv, PassInv, PostSubmit
    <3>2. sends[job[w]] = 0
      BY <1>1, <1>3 DEF IInv, SendInv, PostSubmit
    <3>3. \A v \in Workers : at'[v] = "send" => sends'[job'[v]] = 0
      BY <1>1, <2>1, <3>2 DEF IInv, TypeOK, SendInv
    <3>4. \A u, v \in Workers :
             at'[u] = "send" /\ at'[v] = "send" /\ job'[u] = job'[v] => u = v
      BY <2>1, <3>1 DEF IInv, TypeOK, SendInv
    <3>5. \A i \in Intents :
             /\ sends'[i] \in {0, 1}
             /\ sends'[i] = 1 => state'[i] \in PostSubmit
             /\ chain'[i] \notin {"unsent", "dead"} => sends'[i] = 1
             /\ chain'[i] = "off" => IsSell(i)
      BY <1>1, <2>1 DEF IInv, TypeOK, SendInv, PostSubmit
    <3> QED
      BY <3>3, <3>4, <3>5 DEF SendInv
  <2>5. VerdictInv'
    BY <1>1, <2>1 DEF IInv, TypeOK, VerdictInv
  <2>6. ExitInv' /\ BookInv'
    <3>1. \A i \in Intents :
             /\ state'[i] = "absent" <=> state[i] = "absent"
             /\ state'[i] = "confirmed" <=> state[i] = "confirmed"
             /\ state[i] \in RETRYABLE_EXIT_STATES => state'[i] \in RETRYABLE_EXIT_STATES
      BY <1>3, <2>1 DEF IInv, TypeOK, RETRYABLE_EXIT_STATES
    <3> QED
      BY <1>1, <3>1, StatesKept
  <2> QED
    BY <2>2, <2>3, <2>4, <2>5, <2>6 DEF IInv
<1> QED
  BY <1>2, <1>3

\* Only the pass that holds the bytes hands them over, and it lets them go.
LEMMA SendStep ==
    ASSUME IInv, NEW w \in Workers, Send(w)
    PROVE  IInv'
<1>1. /\ at[w] = "send" /\ job[w] \in Intents
      /\ sends[job[w]] = 0 /\ state[job[w]] \in PostSubmit
      /\ UNCHANGED <<rows, controls, exits, aged>>
  BY DEF IInv, PassInv, SendInv, Send
<1>2. CASE Release(w) /\ UNCHANGED <<chain, sends>>
  BY <1>1, <1>2, ReleaseOnly DEF IInv, TypeOK, controls, network
<1>3. ASSUME NEW r \in Replies, Continue(w, r),
             \/ UNCHANGED <<chain, sends>>
             \/ /\ sends' = [sends EXCEPT ![job[w]] = @ + 1]
                /\ \/ chain' = chain
                   \/ /\ chain[job[w]] = "unsent"
                      /\ chain' = [chain EXCEPT ![job[w]] = "pending"]
      PROVE  IInv'
  <2>1. at' = [at EXCEPT ![w] = r] /\ job' = job /\ seen' = seen
    BY <1>3 DEF Continue
  <2>2. /\ chain' \in [Intents -> Unlanded \cup Executed \cup {"reverted"}]
        /\ sends' \in [Intents -> Nat]
        /\ \A i \in Intents : i # job[w] => sends'[i] = sends[i] /\ chain'[i] = chain[i]
        /\ \A i \in Intents : \/ chain'[i] = chain[i]
                              \/ chain[i] = "unsent" /\ chain'[i] = "pending" /\ sends'[i] = 1
        /\ sends'[job[w]] \in {0, 1}
        /\ sends'[job[w]] = 0 => chain'[job[w]] = chain[job[w]]
    BY <1>1, <1>3 DEF IInv, TypeOK, Unlanded
  <2> USE DEF controls
  <2>3. TypeOK'
    BY <1>1, <2>1, <2>2 DEF IInv, TypeOK, PassAt, rows, exits
  <2>4. PassInv'
    BY <1>1, <2>1, <1>3 DEF IInv, TypeOK, PassInv, Replies, rows
  <2>5. SendInv'
    <3>1. \A v \in Workers : at'[v] = "send" => v # w /\ at[v] = "send" /\ job[v] # job[w]
      BY <1>1, <2>1, <1>3 DEF IInv, TypeOK, SendInv, Replies
    <3>2. \A v \in Workers : at'[v] = "send" => sends'[job'[v]] = 0
      BY <2>1, <2>2, <3>1 DEF IInv, PassInv, SendInv
    <3>3. \A u, v \in Workers :
             at'[u] = "send" /\ at'[v] = "send" /\ job'[u] = job'[v] => u = v
      BY <2>1, <3>1 DEF IInv, SendInv
    <3>4. \A i \in Intents :
             /\ sends'[i] \in {0, 1}
             /\ sends'[i] = 1 => state'[i] \in PostSubmit
             /\ chain'[i] \notin {"unsent", "dead"} => sends'[i] = 1
             /\ chain'[i] = "off" => IsSell(i)
      BY <1>1, <2>2 DEF IInv, SendInv, rows
    <3> QED
      BY <3>2, <3>3, <3>4 DEF SendInv
  <2>6. VerdictInv'
    BY <1>1, <2>1, <2>2, <1>3 DEF IInv, TypeOK, PassInv, VerdictInv, Replies, rows
  <2>7. ExitInv' /\ BookInv'
    BY <1>1, RowsKept
  <2> QED
    BY <2>3, <2>4, <2>5, <2>6, <2>7 DEF IInv
<1>4. CASE Continue(w, "uncertain") /\ UNCHANGED <<chain, sends>>
  BY <1>3, <1>4 DEF Replies
<1>5. CASE \E r \in Replies, reached \in BOOLEAN :
             /\ Continue(w, r)
             /\ sends' = [sends EXCEPT ![job[w]] = @ + 1]
             /\ chain' = IF reached /\ chain[job[w]] = "unsent"
                         THEN [chain EXCEPT ![job[w]] = "pending"] ELSE chain
  BY <1>3, <1>5
<1> QED
  BY <1>2, <1>4, <1>5 DEF Send

\* Recording a reply touches the failure counter and no row.
LEMMA RecordReplyStep ==
    ASSUME IInv, NEW w \in Workers, RecordReply(w)
    PROVE  IInv'
<1>1. Release(w) /\ UNCHANGED <<rows, exits, network>> /\ UNCHANGED <<switchOn, clears>>
  BY DEF RecordReply
<1>2. \/ UNCHANGED <<failures, killed>>
      \/ RecordFailure
      \/ RecordSuccess
  <2>1. CASE at[w] = "uncertain"
    BY <2>1 DEF RecordReply
  <2>2. CASE at[w] # "uncertain" /\ state[job[w]] # "submitted"
    BY <2>2 DEF RecordReply
  <2>3. CASE at[w] = "reply_success" /\ state[job[w]] = "submitted"
    BY <2>3 DEF RecordReply
  <2>4. CASE at[w] \in {"reply_failed", "reply_unknown"} /\ state[job[w]] = "submitted"
    BY <2>4 DEF RecordReply
  <2> QED
    BY <2>1, <2>2, <2>3, <2>4 DEF RecordReply, Replies
<1>3. failures' \in Nat
  BY <1>2 DEF RecordFailure, RecordSuccess, IInv, TypeOK
<1>4. killed' \in BOOLEAN
  BY <1>2, Zenon DEF RecordFailure, RecordSuccess, IInv, TypeOK
<1> QED
  BY <1>1, <1>3, <1>4, ReleaseOnly DEF IInv, TypeOK

\* A receipt that is not unknown fixes the verdict the pass goes on with.
LEMMA InspectKnownStep ==
    ASSUME IInv, NEW w \in Workers, InspectKnown(w)
    PROVE  IInv'
<1>1. /\ at[w] = "inspect" /\ seen[w] = "submitted" /\ state[job[w]] \in PostSubmit
      /\ UNCHANGED <<rows, controls, exits, network>>
  BY DEF IInv, PassInv, InspectKnown
<1>2. CASE chain[job[w]] = "reverted"
  <2>1. Continue(w, "fail")
    BY <1>2 DEF InspectKnown
  <2> QED
    BY <1>1, <1>2, <2>1, ContinueOnly DEF PassAt, Replies
<1>3. CASE chain[job[w]] \in {"landed", "off"}
  <2>1. Continue(w, "settle")
    BY <1>3 DEF InspectKnown
  <2> QED
    BY <1>1, <1>3, <2>1, ContinueOnly DEF PassAt, Replies
<1> QED
  BY <1>2, <1>3 DEF InspectKnown

\* Only an intent past the wait is asked whether it can still land.
LEMMA InspectUnknownStep ==
    ASSUME IInv, NEW w \in Workers, InspectUnknown(w)
    PROVE  IInv'
<1>1. /\ at[w] = "inspect" /\ seen[w] = "submitted" /\ state[job[w]] \in PostSubmit
      /\ UNCHANGED <<rows, controls, exits, network>>
  BY DEF IInv, PassInv, InspectUnknown
<1>2. CASE aged[job[w]]
  <2>1. Continue(w, "check_blockhash")
    BY <1>2 DEF InspectUnknown
  <2> QED
    BY <1>1, <1>2, <2>1, ContinueOnly DEF PassAt, Replies
<1>3. CASE ~aged[job[w]]
  BY <1>1, <1>3, ReleaseOnly DEF InspectUnknown, IInv, TypeOK, controls
<1> QED
  BY <1>2, <1>3

\* Past the wait, a blockhash reported dead is dead: the transaction has
\* landed, failed or can no longer land.
LEMMA CheckBlockhashStep ==
    ASSUME IInv, NEW w \in Workers, CheckBlockhash(w)
    PROVE  IInv'
<1>1. /\ at[w] = "check_blockhash" /\ seen[w] = "submitted" /\ state[job[w]] \in PostSubmit
      /\ aged[job[w]]
      /\ UNCHANGED <<rows, controls, exits, network>>
  BY DEF IInv, PassInv, VerdictInv, CheckBlockhash
<1>2. CASE ReportsDead(job[w]) /\ Continue(w, "check_status")
  <2>1. chain[job[w]] \notin {"unsent", "pending"}
    BY <1>1, <1>2 DEF ReportsDead
  <2> QED
    BY <1>1, <1>2, <2>1, ContinueOnly DEF PassAt, Replies
<1>3. CASE Release(w)
  BY <1>1, <1>3, ReleaseOnly DEF IInv, TypeOK, controls
<1> QED
  BY <1>2, <1>3 DEF CheckBlockhash

\* No record, after the blockhash died: the transaction is dead.
LEMMA CheckStatusStep ==
    ASSUME IInv, NEW w \in Workers, CheckStatus(w)
    PROVE  IInv'
<1>1. /\ at[w] = "check_status" /\ seen[w] = "submitted" /\ state[job[w]] \in PostSubmit
      /\ chain[job[w]] \notin {"unsent", "pending"}
      /\ UNCHANGED <<rows, controls, exits, network>>
  BY DEF IInv, PassInv, VerdictInv, CheckStatus
<1>2. CASE chain[job[w]] \in Unlanded /\ Continue(w, "fail")
  <2>1. chain[job[w]] = "dead"
    BY <1>1, <1>2 DEF Unlanded
  <2> QED
    BY <1>1, <1>2, <2>1, ContinueOnly DEF PassAt, Replies
<1>3. CASE Release(w)
  BY <1>1, <1>3, ReleaseOnly DEF IInv, TypeOK, controls
<1> QED
  BY <1>2, <1>3 DEF CheckStatus

\* A pass that dies leaves every row as it was.
LEMMA CrashStep ==
    ASSUME IInv, NEW w \in Workers, Crash(w)
    PROVE  IInv'
BY ReleaseOnly DEF Crash, IInv, TypeOK, controls

\* FAILED is written only for a transaction that reverted or died.
LEMMA FailStep ==
    ASSUME IInv, NEW w \in Workers, Fail(w)
    PROVE  IInv'
<1>1. /\ at[w] = "fail" /\ job[w] \in Intents /\ seen[w] = "submitted"
      /\ chain[job[w]] \in {"reverted", "dead"}
      /\ Transition(w, "failed") /\ Release(w)
      /\ UNCHANGED <<position, exitOf, controls, exits, network>>
  BY DEF IInv, PassInv, VerdictInv, Fail
<1>2. /\ state' \in [Intents -> ExecutionState \cup {"absent"}]
      /\ \A i \in Intents : state'[i] # state[i] =>
            /\ i = job[w] /\ state[i] = "submitted" /\ state'[i] = "failed"
  BY <1>1, TransitionEffect DEF IInv, ExecutionState
<1> USE DEF controls, network
<1>3. TypeOK'
  BY <1>1, <1>2 DEF IInv, TypeOK, Release, PassAt, exits
<1>4. PassInv'
  BY <1>1, <1>2 DEF IInv, TypeOK, PassInv, Release, PostSubmit, Replies
<1>5. SendInv'
  BY <1>1, <1>2 DEF IInv, TypeOK, SendInv, Release, PostSubmit
<1>6. VerdictInv'
  BY <1>1, <1>2 DEF IInv, TypeOK, VerdictInv, Release
<1>7. ExitInv' /\ BookInv'
  BY <1>1, <1>2, StatesKept DEF RETRYABLE_EXIT_STATES
<1> QED
  BY <1>3, <1>4, <1>5, <1>6, <1>7 DEF IInv

\* A settled buy that another pass has not booked yet has no position, so the
\* position and the intent are written together or not at all.
LEMMA SettleBuyEffect ==
    ASSUME IInv, NEW w \in Workers, SettleBuy(w)
    PROVE  LET b == Buy(job[w]) IN
           /\ b \in Buys /\ job[w] = <<b, 0>> /\ job[w] \in Intents
           /\ chain[job[w]] = "landed"
           /\ \/ UNCHANGED <<state, position>>
              \/ /\ state[job[w]] = "submitted" /\ position[b] = "none"
                 /\ state' = [state EXCEPT ![job[w]] = "confirmed"]
                 /\ position' = [position EXCEPT ![b] = "OPEN"]
<1> DEFINE b == Buy(job[w])
<1>1. /\ job[w] \in Intents /\ seen[w] = "submitted"
      /\ state[job[w]] \in PostSubmit /\ chain[job[w]] \in {"landed", "off"}
  BY DEF IInv, PassInv, VerdictInv, SettleBuy
<1>2. b \in Buys /\ job[w] = <<b, 0>>
  <2>1. job[w][2] = 0
    BY <1>1, IntentShape DEF SettleBuy, IsSell
  <2> QED
    BY <1>1, <2>1, IntentShape
<1>3. chain[job[w]] = "landed"
  BY <1>1 DEF IInv, SendInv, SettleBuy
<1>4. CASE state[job[w]] = "submitted"
  <2>1. position[b] = "none"
    BY <1>2, <1>4 DEF IInv, BookInv
  <2>2. state' = [state EXCEPT ![job[w]] = "confirmed"]
    BY <1>1, <1>4, SubmittedMoves DEF SettleBuy, Transition
  <2> QED
    BY <1>1, <1>2, <1>3, <1>4, <2>1, <2>2 DEF SettleBuy
<1>5. CASE state[job[w]] # "submitted"
  <2>1. state[job[w]] = "confirmed"
    BY <1>1, <1>3, <1>5 DEF IInv, VerdictInv, PostSubmit
  <2>2. position[b] # "none"
    BY <1>2, <2>1 DEF IInv, BookInv
  <2> QED
    BY <1>1, <1>2, <1>3, <1>5, <2>2 DEF SettleBuy, Transition
<1> QED
  BY <1>4, <1>5

\* A settled sell closes its position, or is disputed because the amount
\* differs, or was already settled by another pass.
LEMMA SettleSellEffect ==
    ASSUME IInv, NEW w \in Workers, SettleSell(w)
    PROVE  LET b == Buy(job[w]) IN
           /\ b \in Buys /\ job[w] \in Intents /\ job[w][2] \in 1..MaxAttempts
           /\ job[w] = <<b, job[w][2]>>
           /\ \/ UNCHANGED <<state, position>>
              \/ /\ state[job[w]] = "submitted" /\ chain[job[w]] = "off"
                 /\ state' = [state EXCEPT ![job[w]] = "reconciliation_required"]
                 /\ position' = position
              \/ /\ state[job[w]] = "submitted" /\ chain[job[w]] = "landed"
                 /\ position[b] = "OPEN" /\ exitOf[b] = job[w][2]
                 /\ state' = [state EXCEPT ![job[w]] = "confirmed"]
                 /\ position' = [position EXCEPT ![b] = "CLOSED"]
<1> DEFINE i == job[w]
           b == Buy(i)
           n == i[2]
<1>1. /\ i \in Intents /\ seen[w] = "submitted"
      /\ state[i] \in PostSubmit /\ chain[i] \in {"landed", "off"}
  BY DEF IInv, PassInv, VerdictInv, SettleSell
<1>2. b \in Buys /\ n \in 1..MaxAttempts /\ i = <<b, n>>
  BY <1>1, IntentShape DEF SettleSell, IsSell
<1>3. CASE Bound(i)
  <2>1. position[b] = "OPEN" /\ exitOf[b] = n /\ chain[i] = "landed"
    BY <1>3 DEF Bound
  <2>2. state[i] = "submitted"
    BY <1>1, <1>2, <2>1 DEF IInv, VerdictInv, BookInv, PostSubmit
  <2>3. state' = [state EXCEPT ![i] = "confirmed"]
    BY <1>1, <1>3, <2>2, SubmittedMoves DEF SettleSell, Transition
  <2>4. position' = [position EXCEPT ![b] = "CLOSED"]
    BY <1>3 DEF SettleSell
  <2> QED
    BY <1>1, <1>2, <2>1, <2>2, <2>3, <2>4
<1>4. CASE ~Bound(i) /\ state[i] = "submitted"
  <2>1. exitOf[b] = n
    <3>1. n <= exitOf[b] /\ (n < exitOf[b] => state[i] \in RETRYABLE_EXIT_STATES)
      BY <1>2, <1>4 DEF IInv, ExitInv
    <3>2. exitOf[b] \in 0..MaxAttempts
      BY <1>2 DEF IInv, TypeOK
    <3> QED
      BY <1>2, <1>4, <3>1, <3>2 DEF RETRYABLE_EXIT_STATES
  <2>2. position[b] = "OPEN"
    <3>1. position[b] # "none"
      BY <1>2, <2>1 DEF IInv, ExitInv
    <3>2. position[b] # "CLOSED"
      BY <1>2, <1>4, <2>1 DEF IInv, BookInv
    <3> QED
      BY <1>2, <3>1, <3>2 DEF IInv, TypeOK
  <2>3. chain[i] = "off"
    BY <1>1, <1>4, <2>1, <2>2 DEF Bound
  <2>4. state' = [state EXCEPT ![i] = "reconciliation_required"] /\ position' = position
    BY <1>1, <1>4, SubmittedMoves DEF SettleSell, Transition
  <2> QED
    BY <1>1, <1>2, <1>4, <2>3, <2>4
<1>5. CASE ~Bound(i) /\ state[i] # "submitted"
  <2>1. UNCHANGED <<state, position>>
    BY <1>1, <1>5 DEF SettleSell, Transition
  <2> QED
    BY <1>1, <1>2, <2>1
<1> QED
  BY <1>3, <1>4, <1>5

\* Settling a buy opens its position exactly when it confirms the intent.
LEMMA SettleBuyStep ==
    ASSUME IInv, NEW w \in Workers, SettleBuy(w)
    PROVE  IInv'
<1> DEFINE b == Buy(job[w])
           i == job[w]
<1>1. /\ b \in Buys /\ i = <<b, 0>> /\ i \in Intents /\ chain[i] = "landed"
      /\ Release(w) /\ UNCHANGED <<exitOf, controls, exits, network>>
  BY SettleBuyEffect DEF SettleBuy
<1>2. CASE UNCHANGED <<state, position>>
  BY <1>1, <1>2, ReleaseOnly DEF IInv, TypeOK, controls, rows
<1>3. CASE /\ state[i] = "submitted" /\ position[b] = "none"
           /\ state' = [state EXCEPT ![i] = "confirmed"]
           /\ position' = [position EXCEPT ![b] = "OPEN"]
  <2> HIDE DEF b, i
  <2> USE DEF controls, network
  <2>1. TypeOK'
    BY <1>1, <1>3 DEF IInv, TypeOK, Release, PassAt, ExecutionState, exits
  <2>2. PassInv'
    BY <1>1, <1>3 DEF IInv, TypeOK, PassInv, Release, PostSubmit, Replies
  <2>3. SendInv'
    BY <1>1, <1>3 DEF IInv, TypeOK, SendInv, Release, PostSubmit
  <2>4. VerdictInv'
    BY <1>1, <1>3 DEF IInv, TypeOK, VerdictInv, Release
  <2>5. ASSUME NEW c \in Buys, NEW n \in 1..MaxAttempts
        PROVE  state'[<<c, n>>] = state[<<c, n>>]
    <3>1. n \in 0..MaxAttempts /\ n # 0
      OBVIOUS
    <3>2. <<c, n>> \in Intents /\ <<c, n>> # i
      BY <1>1, <3>1, IntentName
    <3> QED
      BY <1>3, <3>2 DEF IInv, TypeOK
  <2>6. \A c \in Buys : c # b => state'[<<c, 0>>] = state[<<c, 0>>]
    BY <1>1, <1>3, IntentName, RailAssumption DEF IInv, TypeOK
  <2>7. \A c \in Buys : c # b => position'[c] = position[c]
    BY <1>1, <1>3 DEF IInv, TypeOK
  <2>8. position'[b] = "OPEN" /\ state'[<<b, 0>>] = "confirmed"
    BY <1>1, <1>3 DEF IInv, TypeOK
  <2>9. exitOf[b] = 0
    BY <1>1, <1>3 DEF IInv, TypeOK, ExitInv
  <2>10. ExitInv'
    BY <1>1, <2>5, <2>7, <2>8 DEF IInv, ExitInv, exits
  <2>11. BookInv'
    <3>1. ASSUME NEW c \in Buys, c # b
          PROVE  /\ position'[c] # "none" <=> state'[<<c, 0>>] = "confirmed"
                 /\ position'[c] = "CLOSED" =>
                       exitOf'[c] > 0 /\ state'[<<c, exitOf'[c]>>] = "confirmed"
                 /\ position'[c] = "OPEN" =>
                       \A n \in 1..MaxAttempts : state'[<<c, n>>] # "confirmed"
      <4>1. exitOf'[c] = exitOf[c] /\ exitOf[c] \in 0..MaxAttempts
        BY <1>1 DEF IInv, TypeOK
      <4> QED
        BY <3>1, <4>1, <2>5, <2>6, <2>7 DEF IInv, BookInv
    <3>2. \A n \in 1..MaxAttempts : state[<<b, n>>] = "absent"
      BY <1>1, <2>9 DEF IInv, ExitInv
    <3> QED
      BY <1>1, <2>5, <2>8, <3>1, <3>2 DEF BookInv
  <2> QED
    BY <2>1, <2>2, <2>3, <2>4, <2>10, <2>11 DEF IInv
<1> QED
  BY <1>2, <1>3, SettleBuyEffect

\* Settling a sell closes its position, or disputes it, or does nothing.
LEMMA SettleSellStep ==
    ASSUME IInv, NEW w \in Workers, SettleSell(w)
    PROVE  IInv'
<1> DEFINE b == Buy(job[w])
           i == job[w]
           n == job[w][2]
<1>1. /\ b \in Buys /\ n \in 1..MaxAttempts /\ i = <<b, n>> /\ i \in Intents
      /\ Release(w) /\ UNCHANGED <<exitOf, controls, exits, network>>
  BY SettleSellEffect DEF SettleSell
<1>2. CASE UNCHANGED <<state, position>>
  BY <1>1, <1>2, ReleaseOnly DEF IInv, TypeOK, controls, rows
<1>3. ASSUME NEW to \in {"confirmed", "reconciliation_required"},
             state[i] = "submitted",
             chain[i] = (IF to = "confirmed" THEN "landed" ELSE "off"),
             state' = [state EXCEPT ![i] = to],
             position' \in [Buys -> {"none", "OPEN", "CLOSED"}]
      PROVE  TypeOK' /\ PassInv' /\ SendInv' /\ VerdictInv'
  <2> HIDE DEF b, i, n
  <2> USE DEF controls, network
  <2>1. TypeOK'
    BY <1>1, <1>3 DEF IInv, TypeOK, Release, PassAt, ExecutionState, exits
  <2>2. PassInv'
    BY <1>1, <1>3 DEF IInv, TypeOK, PassInv, Release, PostSubmit, Replies
  <2>3. SendInv'
    BY <1>1, <1>3 DEF IInv, TypeOK, SendInv, Release, PostSubmit
  <2>4. VerdictInv'
    BY <1>1, <1>3 DEF IInv, TypeOK, VerdictInv, Release
  <2> QED
    BY <2>1, <2>2, <2>3, <2>4
<1>4. CASE /\ state[i] = "submitted" /\ chain[i] = "off"
           /\ state' = [state EXCEPT ![i] = "reconciliation_required"]
           /\ position' = position
  <2>1. \A j \in Intents :
           /\ state'[j] = "absent" <=> state[j] = "absent"
           /\ state'[j] = "confirmed" <=> state[j] = "confirmed"
           /\ state[j] \in RETRYABLE_EXIT_STATES => state'[j] \in RETRYABLE_EXIT_STATES
    BY <1>1, <1>4 DEF IInv, TypeOK, RETRYABLE_EXIT_STATES
  <2>2. ExitInv' /\ BookInv'
    BY <1>1, <1>4, <2>1, StatesKept
  <2>3. TypeOK' /\ PassInv' /\ SendInv' /\ VerdictInv'
    BY <1>3, <1>4 DEF IInv, TypeOK
  <2> QED
    BY <2>2, <2>3 DEF IInv
<1>5. CASE /\ state[i] = "submitted" /\ chain[i] = "landed"
           /\ position[b] = "OPEN" /\ exitOf[b] = n
           /\ state' = [state EXCEPT ![i] = "confirmed"]
           /\ position' = [position EXCEPT ![b] = "CLOSED"]
  <2>1. TypeOK' /\ PassInv' /\ SendInv' /\ VerdictInv'
    BY <1>1, <1>3, <1>5 DEF IInv, TypeOK
  <2> HIDE DEF b, i, n
  <2>2. \A c \in Buys, m \in 0..MaxAttempts :
           <<c, m>> # i => state'[<<c, m>>] = state[<<c, m>>]
    BY <1>1, <1>5, IntentName DEF IInv, TypeOK
  <2>3. state'[<<b, n>>] = "confirmed" /\ state[<<b, n>>] = "submitted"
    BY <1>1, <1>5 DEF IInv, TypeOK
  <2>4. position'[b] = "CLOSED" /\ \A c \in Buys : c # b => position'[c] = position[c]
    BY <1>1, <1>5 DEF IInv, TypeOK
  <2>5. \A c \in Buys : exitOf'[c] = exitOf[c] /\ exitOf[c] \in 0..MaxAttempts
    BY <1>1 DEF IInv, TypeOK
  <2>6. 0 \in 0..MaxAttempts /\ \A m \in 1..MaxAttempts : m \in 0..MaxAttempts /\ m # 0
    BY RailAssumption
  <2>7. ExitInv'
    <3>1. ASSUME NEW c \in Buys, NEW m \in 1..MaxAttempts
          PROVE  /\ state'[<<c, m>>] # "absent" <=> m <= exitOf'[c]
                 /\ m < exitOf'[c] => state'[<<c, m>>] \in RETRYABLE_EXIT_STATES
      <4>1. CASE <<c, m>> = i
        BY <1>1, <1>5, <2>3, <2>5, <4>1 DEF IInv, ExitInv
      <4>2. CASE <<c, m>> # i
        BY <2>2, <2>5, <2>6, <4>2 DEF IInv, ExitInv
      <4> QED
        BY <4>1, <4>2
    <3>2. \A c \in Buys : exitOf'[c] > 0 => position'[c] # "none"
      BY <2>4, <2>5 DEF IInv, ExitInv
    <3>3. \A x \in Exits :
             /\ exitAt'[x] # "idle" => exitPos'[x] \in Buys
             /\ exitAt'[x] = "request" => attempt'[x] \in 1..exitOf'[exitPos'[x]] + 1
      BY <1>1 DEF IInv, ExitInv, exits
    <3> QED
      BY <3>1, <3>2, <3>3 DEF ExitInv
  <2>8. BookInv'
    <3>1. ASSUME NEW c \in Buys, c # b
          PROVE  /\ position'[c] # "none" <=> state'[<<c, 0>>] = "confirmed"
                 /\ position'[c] = "CLOSED" =>
                       exitOf'[c] > 0 /\ state'[<<c, exitOf'[c]>>] = "confirmed"
                 /\ position'[c] = "OPEN" =>
                       \A m \in 1..MaxAttempts : state'[<<c, m>>] # "confirmed"
      <4>1. \A m \in 0..MaxAttempts : state'[<<c, m>>] = state[<<c, m>>]
        BY <1>1, <2>2, <3>1
      <4> QED
        BY <2>4, <2>5, <2>6, <3>1, <4>1 DEF IInv, BookInv
    <3>2. state'[<<b, 0>>] = "confirmed"
      <4>1. state'[<<b, 0>>] = state[<<b, 0>>]
        BY <1>1, <2>2, <2>6
      <4> QED
        BY <1>1, <1>5, <4>1 DEF IInv, BookInv
    <3>3. exitOf'[b] > 0 /\ state'[<<b, exitOf'[b]>>] = "confirmed"
      BY <1>1, <1>5, <2>3, <2>5
    <3> QED
      BY <2>4, <3>1, <3>2, <3>3 DEF BookInv
  <2> QED
    BY <2>1, <2>7, <2>8 DEF IInv
<1> QED
  BY <1>2, <1>4, <1>5, SettleSellEffect

-----------------------------------------------------------------------------
(* The exit driver's steps.                                                *)

\* The sells of a position are counted by its last attempt number.
LEMMA SellAttemptsCount ==
    ASSUME IInv, NEW b \in Buys
    PROVE  SellAttempts(b) = exitOf[b] /\ exitOf[b] \in 0..MaxAttempts
<1>1. exitOf[b] \in 0..MaxAttempts
  BY DEF IInv, TypeOK
<1>2. {n \in 1..MaxAttempts : state[<<b, n>>] # "absent"} = 1..exitOf[b]
  BY <1>1, RailAssumption DEF IInv, ExitInv
<1>3. Cardinality(1..exitOf[b]) = exitOf[b]
  BY <1>1, FS_Interval
<1> QED
  BY <1>1, <1>2, <1>3 DEF SellAttempts

\* A step that only moves an exit pass keeps all but the exits' invariant.
LEMMA ExitPassOnly ==
    ASSUME IInv, UNCHANGED <<rows, controls, passes, network>>,
           exitAt' \in [Exits -> {"idle", "count", "request"}],
           exitPos' \in [Exits -> Buys \cup {NoBuy}],
           replaces' \in [Exits -> 0..MaxAttempts],
           attempt' \in [Exits -> 0..MaxAttempts + 1],
           \A x \in Exits :
              /\ exitAt'[x] # "idle" => exitPos'[x] \in Buys
              /\ exitAt'[x] = "request" => attempt'[x] \in 1..exitOf[exitPos'[x]] + 1
    PROVE  IInv'
<1> USE DEF rows, controls, passes, network
<1>1. TypeOK'
  BY DEF IInv, TypeOK
<1>2. PassInv' /\ SendInv' /\ VerdictInv' /\ BookInv'
  BY DEF IInv, PassInv, SendInv, VerdictInv, BookInv
<1>3. ExitInv'
  BY DEF IInv, ExitInv
<1> QED
  BY <1>1, <1>2, <1>3 DEF IInv

\* An exit pass that loads a position writes nothing.
LEMMA ExitDueStep ==
    ASSUME IInv, NEW x \in Exits, NEW b \in Buys, ExitDue(x, b)
    PROVE  IInv'
<1>1. exitOf[b] \in 0..MaxAttempts
  BY DEF IInv, TypeOK
<1>2. \A y \in Exits :
         /\ exitAt'[y] # "idle" => exitPos'[y] \in Buys
         /\ exitAt'[y] = "request" => attempt'[y] \in 1..exitOf[exitPos'[y]] + 1
  BY DEF ExitDue, IInv, TypeOK, ExitInv
<1> QED
  BY <1>1, <1>2, ExitPassOnly DEF ExitDue, IInv, TypeOK

\* The attempt asked for is one past the sells that exist when counted.
LEMMA CountAttemptsStep ==
    ASSUME IInv, NEW x \in Exits, CountAttempts(x)
    PROVE  IInv'
<1>1. exitPos[x] \in Buys
  BY DEF IInv, ExitInv, CountAttempts
<1>2. /\ SellAttempts(exitPos[x]) + 1 \in 1..exitOf[exitPos[x]] + 1
      /\ SellAttempts(exitPos[x]) + 1 \in 0..MaxAttempts + 1
  BY <1>1, SellAttemptsCount, RailAssumption
<1>3. \A y \in Exits :
         /\ exitAt'[y] # "idle" => exitPos'[y] \in Buys
         /\ exitAt'[y] = "request" => attempt'[y] \in 1..exitOf[exitPos'[y]] + 1
  BY <1>1, <1>2 DEF CountAttempts, IInv, TypeOK, ExitInv
<1> QED
  BY <1>2, <1>3, ExitPassOnly DEF CountAttempts, IInv, TypeOK

\* An exit pass that dies leaves every row as it was.
LEMMA ExitCrashStep ==
    ASSUME IInv, NEW x \in Exits, ExitCrash(x)
    PROVE  IInv'
<1>1. 0 \in 0..MaxAttempts /\ 0 \in 0..MaxAttempts + 1
  BY RailAssumption
<1>2. \A y \in Exits :
         /\ exitAt'[y] # "idle" => exitPos'[y] \in Buys
         /\ exitAt'[y] = "request" => attempt'[y] \in 1..exitOf[exitPos'[y]] + 1
  BY DEF ExitCrash, ExitRelease, IInv, TypeOK, ExitInv
<1> QED
  BY <1>1, <1>2, ExitPassOnly DEF ExitCrash, ExitRelease, IInv, TypeOK

\* A new row for an intent that had none disturbs no pass and no verdict.
LEMMA RowCreated ==
    ASSUME IInv, NEW i \in Intents, state[i] = "absent",
           state' = [state EXCEPT ![i] = "created"],
           UNCHANGED <<passes, network>>
    PROVE  PassInv' /\ SendInv' /\ VerdictInv'
<1> USE DEF passes, network
<1>1. PassInv'
  BY DEF IInv, TypeOK, PassInv, PostSubmit
<1>2. SendInv'
  BY DEF IInv, TypeOK, SendInv, PostSubmit
<1>3. VerdictInv'
  BY DEF IInv, TypeOK, VerdictInv
<1> QED
  BY <1>1, <1>2, <1>3

\* An exit is bound only as the next attempt, over one that sold nothing.
LEMMA RequestExitStep ==
    ASSUME IInv, NEW x \in Exits, RequestExit(x)
    PROVE  IInv'
<1> DEFINE b == exitPos[x]
           a == attempt[x]
           i == <<b, a>>
<1>1. /\ exitAt[x] = "request" /\ b \in Buys /\ a \in 1..exitOf[b] + 1
      /\ ExitRelease(x) /\ UNCHANGED <<position, controls, passes, network>>
  BY DEF IInv, ExitInv, RequestExit
<1>2. exitOf[b] \in 0..MaxAttempts
  BY <1>1 DEF IInv, TypeOK
<1>3. 0 \in 0..MaxAttempts /\ 0 \in 0..MaxAttempts + 1
  BY RailAssumption
<1>4. /\ exitAt' \in [Exits -> {"idle", "count", "request"}]
      /\ exitPos' \in [Exits -> Buys \cup {NoBuy}]
      /\ replaces' \in [Exits -> 0..MaxAttempts]
      /\ attempt' \in [Exits -> 0..MaxAttempts + 1]
  BY <1>1, <1>3 DEF ExitRelease, IInv, TypeOK
<1>5. \A y \in Exits : exitAt'[y] # "idle" =>
         exitAt'[y] = exitAt[y] /\ exitPos'[y] = exitPos[y] /\ attempt'[y] = attempt[y]
  BY <1>1 DEF ExitRelease, IInv, TypeOK
<1>6. CASE UNCHANGED <<state, exitOf>>
  <2>1. \A y \in Exits :
           /\ exitAt'[y] # "idle" => exitPos'[y] \in Buys
           /\ exitAt'[y] = "request" => attempt'[y] \in 1..exitOf[exitPos'[y]] + 1
    BY <1>5 DEF IInv, ExitInv
  <2> QED
    BY <1>1, <1>4, <1>6, <2>1, ExitPassOnly DEF rows
<1>7. CASE /\ a <= MaxAttempts /\ position[b] = "OPEN" /\ state[i] = "absent"
           /\ Replaceable(b, replaces[x])
           /\ state' = [state EXCEPT ![i] = "created"]
           /\ exitOf' = [exitOf EXCEPT ![b] = a]
  <2>1. a \in 1..MaxAttempts /\ a \in 0..MaxAttempts
    BY <1>1, <1>2, <1>7, RailAssumption
  <2>2. i \in Intents
    BY <1>1, <2>1, IntentName
  <2>3. a = exitOf[b] + 1
    <3>1. ~(a <= exitOf[b])
      BY <1>1, <1>7, <2>1 DEF IInv, ExitInv
    <3> QED
      BY <1>1, <1>2, <3>1
  <2>4. exitOf[b] # 0 => state[<<b, exitOf[b]>>] \in RETRYABLE_EXIT_STATES
    BY <1>7 DEF Replaceable
  <2> HIDE DEF b, a
  <2>5. TypeOK'
    BY <1>1, <1>4, <1>7, <2>1, <2>2
       DEF IInv, TypeOK, ExecutionState, controls, passes, network
  <2>6. PassInv' /\ SendInv' /\ VerdictInv'
    BY <1>1, <1>7, <2>2, RowCreated
  <2>7. \A c \in Buys, m \in 0..MaxAttempts :
           <<c, m>> # i => state'[<<c, m>>] = state[<<c, m>>]
    BY <1>7, <2>2, IntentName DEF IInv, TypeOK
  <2>8. state'[<<b, a>>] = "created"
    BY <1>7, <2>2 DEF IInv, TypeOK
  <2>9. exitOf'[b] = a /\ \A c \in Buys : c # b => exitOf'[c] = exitOf[c]
    BY <1>1, <1>7 DEF IInv, TypeOK
  <2>10. \A c \in Buys : exitOf[c] \in 0..MaxAttempts
    BY DEF IInv, TypeOK
  <2>11. 0 \in 0..MaxAttempts /\ \A m \in 1..MaxAttempts : m \in 0..MaxAttempts
    BY RailAssumption
  <2>12. ExitInv'
    <3>1. ASSUME NEW c \in Buys, NEW m \in 1..MaxAttempts
          PROVE  /\ state'[<<c, m>>] # "absent" <=> m <= exitOf'[c]
                 /\ m < exitOf'[c] => state'[<<c, m>>] \in RETRYABLE_EXIT_STATES
      <4>1. CASE c # b
        <5>1. state'[<<c, m>>] = state[<<c, m>>]
          BY <2>7, <2>11, <4>1
        <5> QED
          BY <2>9, <4>1, <5>1 DEF IInv, ExitInv
      <4>2. CASE c = b /\ m = a
        BY <2>8, <2>9, <4>2
      <4>3. CASE c = b /\ m # a
        <5>1. state'[<<c, m>>] = state[<<c, m>>]
          BY <2>7, <2>11, <4>3
        <5>2. m <= a <=> m <= exitOf[b]
          BY <1>2, <2>3, <4>3
        <5>3. m < a => m < exitOf[b] \/ m = exitOf[b]
          BY <1>2, <2>3, <4>3
        <5> QED
          BY <1>2, <2>4, <2>9, <4>3, <5>1, <5>2, <5>3 DEF IInv, ExitInv
      <4> QED
        BY <4>1, <4>2, <4>3
    <3>2. \A c \in Buys : exitOf'[c] > 0 => position'[c] # "none"
      BY <1>1, <1>7, <2>9 DEF IInv, ExitInv
    <3>3. ASSUME NEW y \in Exits
          PROVE  /\ exitAt'[y] # "idle" => exitPos'[y] \in Buys
                 /\ exitAt'[y] = "request" => attempt'[y] \in 1..exitOf'[exitPos'[y]] + 1
      <4>1. CASE exitAt'[y] = "idle"
        BY <4>1
      <4>2. CASE exitAt'[y] # "idle"
        <5>1. exitPos[y] \in Buys /\ (exitAt[y] = "request" => attempt[y] \in 1..exitOf[exitPos[y]] + 1)
          BY <1>5, <4>2 DEF IInv, ExitInv
        <5>2. exitOf[exitPos[y]] <= exitOf'[exitPos[y]] /\ exitOf'[exitPos[y]] \in Nat
          BY <1>2, <2>1, <2>3, <2>9, <2>10, <5>1
        <5> QED
          BY <1>5, <2>10, <4>2, <5>1, <5>2
      <4> QED
        BY <4>1, <4>2
    <3> QED
      BY <3>1, <3>2, <3>3 DEF ExitInv
  <2>13. BookInv'
    <3>1. ASSUME NEW c \in Buys
          PROVE  /\ position'[c] # "none" <=> state'[<<c, 0>>] = "confirmed"
                 /\ position'[c] = "CLOSED" =>
                       exitOf'[c] > 0 /\ state'[<<c, exitOf'[c]>>] = "confirmed"
                 /\ position'[c] = "OPEN" =>
                       \A m \in 1..MaxAttempts : state'[<<c, m>>] # "confirmed"
      <4>1. position'[c] = position[c] /\ state'[<<c, 0>>] = state[<<c, 0>>]
        BY <1>1, <2>1, <2>7, <2>11
      <4>2. position[c] = "CLOSED" => c # b
        BY <1>7
      <4>3. c # b => exitOf'[c] = exitOf[c] /\ \A m \in 0..MaxAttempts : state'[<<c, m>>] = state[<<c, m>>]
        BY <2>7, <2>9
      <4>4. \A m \in 1..MaxAttempts : state'[<<c, m>>] = "confirmed" => state[<<c, m>>] = "confirmed"
        BY <2>7, <2>8, <2>11
      <4> QED
        BY <2>10, <4>1, <4>2, <4>3, <4>4 DEF IInv, BookInv
    <3> QED
      BY <3>1 DEF BookInv
  <2> QED
    BY <2>5, <2>6, <2>12, <2>13 DEF IInv
<1> QED
  BY <1>6, <1>7 DEF RequestExit

-----------------------------------------------------------------------------
(* The driver, the operator and the chain.                                 *)

\* A new buy disturbs no position and no sell.
LEMMA DriverBuysStep ==
    ASSUME IInv, NEW b \in Buys, DriverBuys(b)
    PROVE  IInv'
<1> DEFINE i == <<b, 0>>
<1>1. 0 \in 0..MaxAttempts /\ \A n \in 1..MaxAttempts : n \in 0..MaxAttempts /\ n # 0
  BY RailAssumption
<1>2. i \in Intents
  BY <1>1, IntentName
<1>3. /\ state[i] = "absent" /\ state' = [state EXCEPT ![i] = "created"]
      /\ UNCHANGED <<position, exitOf, controls, passes, exits, network>>
  BY DEF DriverBuys
<1>4. TypeOK'
  BY <1>2, <1>3 DEF IInv, TypeOK, ExecutionState, controls, passes, exits, network
<1>5. PassInv' /\ SendInv' /\ VerdictInv'
  BY <1>2, <1>3, RowCreated
<1>6. \A c \in Buys, n \in 1..MaxAttempts : state'[<<c, n>>] = state[<<c, n>>]
  BY <1>1, <1>2, <1>3, IntentName DEF IInv, TypeOK
<1>7. \A c \in Buys : state'[<<c, 0>>] = "confirmed" <=> state[<<c, 0>>] = "confirmed"
  BY <1>1, <1>2, <1>3, IntentName DEF IInv, TypeOK
<1>8. ExitInv'
  BY <1>3, <1>6 DEF IInv, ExitInv, exits
<1>9. BookInv'
  <2>1. ASSUME NEW c \in Buys
        PROVE  /\ position[c] # "none" <=> state'[<<c, 0>>] = "confirmed"
               /\ position[c] = "CLOSED" =>
                     exitOf[c] > 0 /\ state'[<<c, exitOf[c]>>] = "confirmed"
               /\ position[c] = "OPEN" =>
                     \A n \in 1..MaxAttempts : state'[<<c, n>>] # "confirmed"
    <3>1. exitOf[c] \in 0..MaxAttempts
      BY DEF IInv, TypeOK
    <3>2. exitOf[c] > 0 => exitOf[c] \in 1..MaxAttempts
      BY <3>1
    <3> QED
      BY <1>6, <1>7, <3>2 DEF IInv, BookInv
  <2> QED
    BY <1>3, <2>1 DEF BookInv
<1> QED
  BY <1>4, <1>5, <1>8, <1>9 DEF IInv

\* The operator's controls are read by the passes; no invariant relates them to
\* a row.
LEMMA OperatorStep ==
    ASSUME IInv, AutotradeStart \/ AutotradeStop \/ ClearKillSwitch
    PROVE  IInv'
<1>1. UNCHANGED <<rows, passes, exits, network>>
  BY DEF AutotradeStart, AutotradeStop, ClearKillSwitch
<1>2. failures' \in Nat /\ clears' \in 0..MaxClears
  BY RailAssumption DEF IInv, TypeOK, AutotradeStart, AutotradeStop, ClearKillSwitch
<1>3. switchOn' \in BOOLEAN /\ killed' \in BOOLEAN
  BY DEF IInv, TypeOK, AutotradeStart, AutotradeStop, ClearKillSwitch
<1>4. TypeOK'
  BY <1>1, <1>2, <1>3 DEF IInv, TypeOK, rows, passes, exits, network
<1>5. PassInv' /\ SendInv' /\ VerdictInv'
  BY <1>1 DEF IInv, PassInv, SendInv, VerdictInv, rows, passes, network
<1>6. ExitInv' /\ BookInv'
  BY <1>1, RowsKept
<1> QED
  BY <1>4, <1>5, <1>6 DEF IInv

\* The chain decides only what no pass has concluded about.
LEMMA ChainStep ==
    ASSUME IInv, NEW i \in Intents, Land(i) \/ Expire(i) \/ Age(i)
    PROVE  IInv'
<1>1. UNCHANGED <<rows, controls, passes, exits>> /\ sends' = sends
  BY DEF Land, Expire, Age
<1>2. /\ chain' \in [Intents -> Unlanded \cup Executed \cup {"reverted"}]
      /\ \A j \in Intents : chain'[j] # chain[j] =>
            /\ chain[j] \in {"unsent", "pending"}
            /\ chain'[j] = "dead" \/ (chain[j] = "pending" /\ chain'[j] \in Fates(j))
  BY DEF IInv, TypeOK, Land, Expire, Age, Fates, Unlanded, Executed
<1>3. /\ aged' \in [Intents -> BOOLEAN]
      /\ \A j \in Intents : aged[j] => aged'[j]
  BY DEF IInv, TypeOK, Land, Expire, Age
<1> USE DEF rows, controls, passes, exits
<1>4. TypeOK'
  BY <1>1, <1>2, <1>3 DEF IInv, TypeOK
<1>5. PassInv'
  BY <1>1 DEF IInv, PassInv
<1>6. SendInv'
  BY <1>1, <1>2 DEF IInv, SendInv, Fates
<1>7. VerdictInv'
  BY <1>1, <1>2, <1>3 DEF IInv, PassInv, VerdictInv
<1>8. ExitInv' /\ BookInv'
  BY <1>1, RowsKept
<1> QED
  BY <1>4, <1>5, <1>6, <1>7, <1>8 DEF IInv

-----------------------------------------------------------------------------
(* The theorems.                                                           *)

\* Every step of an executor pass preserves IInv.
LEMMA PassStepInv ==
    ASSUME IInv, NEW w \in Workers, PassStep(w)
    PROVE  IInv'
BY BlockStep, RunSafetyStep, BuildOrderStep, GuardStep, SignStep, CommitSubmissionStep,
   SendStep, RecordReplyStep, InspectKnownStep, InspectUnknownStep, CheckBlockhashStep,
   CheckStatusStep, FailStep, SettleBuyStep, SettleSellStep, CrashStep
   DEF PassStep

\* A step that changes nothing preserves IInv.
LEMMA StutterStep ==
    ASSUME IInv, UNCHANGED vars
    PROVE  IInv'
<1>1. UNCHANGED <<rows, controls, passes, exits, network>>
  BY DEF vars
<1>2. TypeOK' /\ PassInv' /\ SendInv' /\ VerdictInv'
  BY <1>1 DEF IInv, TypeOK, PassInv, SendInv, VerdictInv, rows, controls, passes, exits, network
<1>3. ExitInv' /\ BookInv'
  BY <1>1, RowsKept
<1> QED
  BY <1>2, <1>3 DEF IInv

\* IInv is inductive.
LEMMA NextIInv ==
    ASSUME IInv, [Next]_vars
    PROVE  IInv'
<1>1. ASSUME NEW w \in Workers, PassStep(w)
      PROVE  IInv'
  BY <1>1, PassStepInv
<1>2. ASSUME NEW w \in Workers, NEW i \in Intents, Advance(w, i)
      PROVE  IInv'
  BY <1>2, AdvanceStep
<1>3. ASSUME NEW x \in Exits, ExitStep(x)
      PROVE  IInv'
  BY <1>3, CountAttemptsStep, RequestExitStep, ExitCrashStep DEF ExitStep
<1>4. ASSUME NEW x \in Exits, NEW b \in Buys, ExitDue(x, b)
      PROVE  IInv'
  BY <1>4, ExitDueStep
<1>5. ASSUME NEW b \in Buys, DriverBuys(b)
      PROVE  IInv'
  BY <1>5, DriverBuysStep
<1>6. CASE AutotradeStart \/ AutotradeStop \/ ClearKillSwitch
  BY <1>6, OperatorStep
<1>7. ASSUME NEW i \in Intents, Land(i) \/ Expire(i) \/ Age(i)
      PROVE  IInv'
  BY <1>7, ChainStep
<1>8. CASE UNCHANGED vars
  BY <1>8, StutterStep
<1> QED
  BY <1>1, <1>2, <1>3, <1>4, <1>5, <1>6, <1>7, <1>8 DEF Next

\* IInv holds in every reachable state of the rail, whatever the constants.
THEOREM RailInvariant == Spec => []IInv
<1>1. IInv /\ [Next]_vars => IInv'
  BY NextIInv
<1> QED
  BY InitIInv, <1>1, PTL DEF Spec

\* TypeOK holds in every reachable state.
THEOREM TypeCorrect == Spec => []TypeOK
<1>1. IInv => TypeOK
  BY DEF IInv
<1> QED
  BY RailInvariant, <1>1, PTL

\* SentOnce: one intent's signed bytes are handed to /execute at most once.
THEOREM NeverResent == Spec => []SentOnce
<1>1. IInv => SentOnce
  BY DEF IInv, SendInv, SentOnce
<1> QED
  BY RailInvariant, <1>1, PTL

\* BLOCKED intents were never handed over, and FAILED ones reverted or died.
LEMMA RetryableFate ==
    ASSUME IInv, NEW i \in Intents, state[i] \in RETRYABLE_EXIT_STATES
    PROVE  chain[i] \in {"unsent", "dead", "reverted"}
BY DEF IInv, SendInv, VerdictInv, PostSubmit, RETRYABLE_EXIT_STATES

\* RetryableSoldNothing: an exit that may be asked for again never executed.
THEOREM RetryIsSafe == Spec => []RetryableSoldNothing
<1>1. IInv => RetryableSoldNothing
  BY RetryableFate DEF RetryableSoldNothing, Executed
<1> QED
  BY RailInvariant, <1>1, PTL

\* In one state: a sell that executed is the last one asked for its position.
LEMMA ExecutedIsLast ==
    ASSUME IInv, NEW b \in Buys, NEW n \in 1..MaxAttempts, chain[<<b, n>>] \in Executed
    PROVE  /\ exitOf[b] = n
           /\ state[<<b, n>>] \in PostSubmit \ {"failed"}
           /\ <<b, n>> \in Intents
<1>1. n \in 0..MaxAttempts /\ n > 0
  OBVIOUS
<1>2. <<b, n>> \in Intents
  BY <1>1, IntentName
<1>3. state[<<b, n>>] \in PostSubmit
  BY <1>2 DEF IInv, SendInv, Executed
<1>4. state[<<b, n>>] \notin RETRYABLE_EXIT_STATES
  BY <1>2, RetryableFate DEF Executed
<1>5. exitOf[b] \in 0..MaxAttempts
  BY DEF IInv, TypeOK
<1>6. n <= exitOf[b] /\ ~(n < exitOf[b])
  BY <1>3, <1>4 DEF IInv, ExitInv, PostSubmit
<1> QED
  BY <1>2, <1>3, <1>4, <1>5, <1>6 DEF RETRYABLE_EXIT_STATES

\* ExecutedSellBound: no pass re-points a position away from a sell that landed.
THEOREM ExitStaysBound == Spec => []ExecutedSellBound
<1>1. IInv => ExecutedSellBound
  BY ExecutedIsLast DEF ExecutedSellBound
<1> QED
  BY RailInvariant, <1>1, PTL

\* SoldOnce: no position is sold twice on chain.
THEOREM NeverSoldTwice == Spec => []SoldOnce
<1>1. IInv => SoldOnce
  BY ExecutedIsLast DEF SoldOnce
<1> QED
  BY RailInvariant, <1>1, PTL

\* BooksMatchChain: positions and confirmed intents agree with the chain.
THEOREM BooksAreTrue == Spec => []BooksMatchChain
<1>1. ASSUME IInv PROVE BooksMatchChain
  <2>1. \A i \in Intents : state[i] = "confirmed" => chain[i] = "landed"
    BY <1>1 DEF IInv, VerdictInv
  <2>2. ASSUME NEW b \in Buys
        PROVE  /\ position[b] # "none" <=> state[<<b, 0>>] = "confirmed"
               /\ position[b] = "CLOSED" => state[<<b, exitOf[b]>>] = "confirmed"
               /\ position[b] = "CLOSED" => \E n \in 1..MaxAttempts : state[<<b, n>>] = "confirmed"
    <3>1. exitOf[b] \in 0..MaxAttempts
      BY <1>1 DEF IInv, TypeOK
    <3>2. exitOf[b] > 0 => exitOf[b] \in 1..MaxAttempts
      BY <3>1
    <3>3. /\ position[b] # "none" <=> state[<<b, 0>>] = "confirmed"
          /\ position[b] = "CLOSED" =>
                exitOf[b] \in 1..MaxAttempts /\ state[<<b, exitOf[b]>>] = "confirmed"
      BY <1>1, <3>2 DEF IInv, BookInv
    <3> QED
      BY <3>3
  <2>3. ASSUME NEW b \in Buys, NEW n \in 1..MaxAttempts, state[<<b, n>>] = "confirmed"
        PROVE  position[b] = "CLOSED"
    <3>1. n <= exitOf[b] /\ exitOf[b] \in 0..MaxAttempts
      BY <1>1, <2>3 DEF IInv, TypeOK, ExitInv
    <3>2. position[b] # "none"
      BY <1>1, <3>1 DEF IInv, ExitInv
    <3>3. position[b] # "OPEN"
      BY <1>1, <2>3 DEF IInv, BookInv
    <3> QED
      BY <1>1, <3>2, <3>3 DEF IInv, TypeOK
  <2> QED
    BY <2>1, <2>2, <2>3 DEF BooksMatchChain
<1> QED
  BY RailInvariant, <1>1, PTL

\* DisputeIsReal: what a person is asked to reconcile sold a different amount.
THEOREM DisputesAreReal == Spec => []DisputeIsReal
<1>1. IInv => DisputeIsReal
  BY DEF IInv, SendInv, VerdictInv, DisputeIsReal
<1> QED
  BY RailInvariant, <1>1, PTL

\* TerminalIsFinal, in one step: every write to a state is a compare-and-swap
\* from a state that is not terminal, or creates a row.
LEMMA TerminalKept ==
    ASSUME IInv, [Next]_vars, NEW i \in Intents, state[i] \in Terminal
    PROVE  state'[i] = state[i]
<1> USE DEF Terminal
<1>1. ASSUME NEW w \in Workers, NEW to \in ExecutionState, at[w] # "idle",
             seen[w] \notin Terminal, Transition(w, to)
      PROVE  state'[i] = state[i]
  <2>1. job[w] \in Intents
    BY <1>1 DEF IInv, PassInv
  <2> QED
    BY <1>1, <2>1, TransitionEffect DEF IInv
<1>2. ASSUME NEW w \in Workers, PassStep(w)
      PROVE  state'[i] = state[i]
  <2>1. CASE Block(w) \/ RunSafety(w) \/ BuildOrder(w)
    <3>1. at[w] # "idle" /\ seen[w] \notin Terminal
      BY <2>1 DEF IInv, PassInv, PreSubmit, Block, RunSafety, BuildOrder
    <3>2. \E to \in ExecutionState : Transition(w, to)
      BY <2>1 DEF Block, RunSafety, BuildOrder, ExecutionState
    <3> QED
      BY <1>1, <3>1, <3>2
  <2>2. CASE Guard(w) \/ Sign(w)
    <3>1. at[w] # "idle" /\ seen[w] \notin Terminal
      BY <2>2 DEF IInv, PassInv, Guard, Sign
    <3>2. state' = state \/ \E to \in ExecutionState : Transition(w, to)
      BY <2>2 DEF Guard, Sign, ExecutionState
    <3> QED
      BY <1>1, <3>1, <3>2
  <2>3. CASE Fail(w) \/ SettleBuy(w) \/ SettleSell(w)
    <3>1. at[w] # "idle" /\ seen[w] \notin Terminal
      BY <2>3 DEF IInv, PassInv, Fail, SettleBuy, SettleSell
    <3>2. \E to \in ExecutionState : Transition(w, to)
      BY <2>3 DEF Fail, SettleBuy, SettleSell, ExecutionState
    <3> QED
      BY <1>1, <3>1, <3>2
  <2>4. CASE CommitSubmission(w)
    <3>1. job[w] \in Intents
      BY <2>4 DEF IInv, PassInv, CommitSubmission
    <3> QED
      BY <2>4, <3>1 DEF CommitSubmission, IInv, TypeOK
  <2>5. CASE \/ Send(w) \/ RecordReply(w) \/ InspectKnown(w) \/ InspectUnknown(w)
             \/ CheckBlockhash(w) \/ CheckStatus(w) \/ Crash(w)
    <3>1. UNCHANGED rows
      BY <2>5 DEF Send, RecordReply, InspectKnown, InspectUnknown, CheckBlockhash,
                  CheckStatus, Crash
    <3> QED
      BY <3>1 DEF rows
  <2> QED
    BY <1>2, <2>1, <2>2, <2>3, <2>4, <2>5 DEF PassStep
<1>3. ASSUME NEW x \in Exits, RequestExit(x)
      PROVE  state'[i] = state[i]
  <2>1. \/ state' = state
        \/ \E j : state[j] = "absent" /\ state' = [state EXCEPT ![j] = "created"]
    BY <1>3 DEF RequestExit
  <2> QED
    BY <2>1 DEF IInv, TypeOK
<1>4. ASSUME NEW b \in Buys, DriverBuys(b)
      PROVE  state'[i] = state[i]
  BY <1>4 DEF DriverBuys, IInv, TypeOK
<1>5. CASE \/ \E w \in Workers, j \in Intents : Advance(w, j)
           \/ \E x \in Exits : CountAttempts(x) \/ ExitCrash(x) \/ \E b \in Buys : ExitDue(x, b)
           \/ AutotradeStart \/ AutotradeStop \/ ClearKillSwitch
           \/ \E j \in Intents : Land(j) \/ Expire(j) \/ Age(j)
           \/ UNCHANGED vars
  <2>1. UNCHANGED rows
    BY <1>5 DEF Advance, CountAttempts, ExitCrash, ExitDue, AutotradeStart, AutotradeStop,
                ClearKillSwitch, Land, Expire, Age, vars
  <2> QED
    BY <2>1 DEF rows
<1> QED
  BY <1>2, <1>3, <1>4, <1>5 DEF Next, ExitStep

\* TerminalIsFinal: no stale writer moves an intent out of a terminal state.
THEOREM TerminalStatesAreFinal == Spec => TerminalIsFinal
<1>1. IInv /\ [Next]_vars =>
         [\A i \in Intents : state[i] \in Terminal => state'[i] = state[i]]_vars
  BY TerminalKept
<1> QED
  BY RailInvariant, <1>1, PTL DEF Spec, TerminalIsFinal

-----------------------------------------------------------------------------
(* The refinement: every step of the rail is a step of the ledger or none. *)

\* A step in which no transaction executes leaves the ledger's chain alone.
LEMMA ExecutedKept ==
    ASSUME IInv, \A i \in Intents : chain'[i] \in Executed <=> chain[i] \in Executed
    PROVE  Held' = Held /\ Sold' = Sold
<1>1. \A b \in Buys, n \in 0..MaxAttempts : <<b, n>> \in Intents
  BY IntentName
<1>2. 0 \in 0..MaxAttempts /\ \A n \in 1..MaxAttempts : n \in 0..MaxAttempts
  BY RailAssumption
<1>3. Held' = Held
  BY <1>1, <1>2 DEF Held
<1>4. \A b \in Buys : {n \in 1..MaxAttempts : chain'[<<b, n>>] \in Executed}
                      = {n \in 1..MaxAttempts : chain[<<b, n>>] \in Executed}
  BY <1>1, <1>2
<1>5. Sold' = Sold
  BY <1>4 DEF Sold
<1> QED
  BY <1>3, <1>5

\* Where in the ledger a sell on the wire stands: its position is open and
\* nothing was sold.
LEMMA PendingSell ==
    ASSUME IInv, NEW b \in Buys, NEW n \in 1..MaxAttempts, chain[<<b, n>>] = "pending"
    PROVE  position[b] = "OPEN" /\ Sold[b] = {}
<1>1. n \in 0..MaxAttempts /\ n > 0
  OBVIOUS
<1>2. <<b, n>> \in Intents
  BY <1>1, IntentName
<1>3. state[<<b, n>>] \in {"submitted"}
  BY <1>2 DEF IInv, SendInv, VerdictInv, PostSubmit
<1>4. exitOf[b] \in 0..MaxAttempts
  BY DEF IInv, TypeOK
<1>5. n = exitOf[b]
  <2>1. n <= exitOf[b] /\ ~(n < exitOf[b])
    BY <1>3 DEF IInv, ExitInv, RETRYABLE_EXIT_STATES
  <2> QED
    BY <1>1, <1>4, <2>1
<1>6. position[b] = "OPEN"
  <2>1. position[b] # "none"
    BY <1>1, <1>5 DEF IInv, ExitInv
  <2>2. position[b] # "CLOSED"
    BY <1>3, <1>5 DEF IInv, BookInv
  <2> QED
    BY <2>1, <2>2 DEF IInv, TypeOK
<1>7. ASSUME NEW m \in 1..MaxAttempts, chain[<<b, m>>] \in Executed
      PROVE  FALSE
  <2>1. exitOf[b] = m
    BY <1>7, ExecutedIsLast
  <2> QED
    BY <1>5, <1>7, <2>1 DEF Executed
<1> QED
  BY <1>6, <1>7 DEF Sold

\* A landing is an Acquire or a Dispose of the ledger, or invisible to it.
LEMMA LandRefines ==
    ASSUME IInv, NEW i \in Intents, Land(i)
    PROVE  Ledger!Next \/ UNCHANGED <<Held, Sold, position>>
<1> DEFINE b == Buy(i)
           n == i[2]
<1>1. b \in Buys /\ n \in 0..MaxAttempts /\ i = <<b, n>>
  BY IntentShape
<1>2. PICK f \in Fates(i) : chain' = [chain EXCEPT ![i] = f]
  BY DEF Land
<1>3. chain[i] = "pending" /\ position' = position
  BY DEF Land, rows
<1>4. CASE f \notin Executed
  <2>1. \A j \in Intents : chain'[j] \in Executed <=> chain[j] \in Executed
    BY <1>2, <1>3, <1>4 DEF IInv, TypeOK, Executed
  <2> QED
    BY <1>3, <2>1, ExecutedKept
<1>5. CASE f \in Executed
  <2>1. \A c \in Buys, m \in 0..MaxAttempts :
           <<c, m>> \in Intents /\ (<<c, m>> = i <=> (c = b /\ m = n))
    BY <1>1, IntentName
  <2> HIDE DEF b, n
  <2>2. \A c \in Buys, m \in 0..MaxAttempts :
           chain'[<<c, m>>] \in Executed <=>
              (chain[<<c, m>>] \in Executed \/ (c = b /\ m = n))
    BY <1>2, <1>5, <2>1 DEF IInv, TypeOK
  <2>3. 0 \in 0..MaxAttempts /\ \A m \in 1..MaxAttempts : m \in 0..MaxAttempts /\ m # 0
    BY RailAssumption
  <2>4. CASE n = 0
    <3>1. b \notin Held
      BY <1>1, <1>3, <2>4 DEF Held, Executed
    <3>2. Held' = Held \cup {b}
      BY <1>1, <2>2, <2>3, <2>4 DEF Held
    <3>3. Sold' = Sold
      <4>1. \A c \in Buys : {m \in 1..MaxAttempts : chain'[<<c, m>>] \in Executed}
                            = {m \in 1..MaxAttempts : chain[<<c, m>>] \in Executed}
        BY <2>2, <2>3, <2>4
      <4> QED
        BY <4>1 DEF Sold
    <3>4. Ledger!Acquire(b)
      BY <1>3, <3>1, <3>2, <3>3 DEF Ledger!Acquire
    <3> QED
      BY <1>1, <3>4 DEF Ledger!Next
  <2>5. CASE n # 0
    <3>1. n \in 1..MaxAttempts
      BY <1>1, <2>5
    <3>2. position[b] = "OPEN" /\ Sold[b] = {}
      BY <1>1, <1>3, <3>1, PendingSell
    <3>3. Held' = Held
      BY <2>2, <2>3, <2>5 DEF Held
    <3>4. Sold' = [Sold EXCEPT ![b] = {n}]
      <4>1. \A c \in Buys : c # b =>
               {m \in 1..MaxAttempts : chain'[<<c, m>>] \in Executed}
               = {m \in 1..MaxAttempts : chain[<<c, m>>] \in Executed}
        BY <2>2, <2>3
      <4>2. {m \in 1..MaxAttempts : chain[<<b, m>>] \in Executed} = {}
        BY <1>1, <3>2 DEF Sold
      <4>3. {m \in 1..MaxAttempts : chain'[<<b, m>>] \in Executed} = {n}
        BY <1>1, <2>2, <2>3, <3>1, <4>2
      <4> QED
        BY <1>1, <4>1, <4>3 DEF Sold
    <3>5. Ledger!Dispose(b, n)
      BY <1>3, <3>2, <3>3, <3>4 DEF Ledger!Dispose
    <3> QED
      BY <1>1, <3>1, <3>5 DEF Ledger!Next
  <2> QED
    BY <2>4, <2>5
<1> QED
  BY <1>4, <1>5

\* A settlement is a BookPurchase or a BookSale, or invisible to the ledger.
LEMMA SettleRefines ==
    ASSUME IInv, NEW w \in Workers, SettleBuy(w) \/ SettleSell(w)
    PROVE  Ledger!Next \/ UNCHANGED <<Held, Sold, position>>
<1> DEFINE i == job[w]
           b == Buy(i)
<1>1. chain' = chain
  BY DEF SettleBuy, SettleSell, network
<1>2. Held' = Held /\ Sold' = Sold
  BY <1>1, ExecutedKept
<1>3. CASE SettleBuy(w)
  <2>1. /\ b \in Buys /\ i = <<b, 0>> /\ chain[i] = "landed"
        /\ position' = position \/ (position[b] = "none" /\ position' = [position EXCEPT ![b] = "OPEN"])
    BY <1>3, SettleBuyEffect
  <2>2. b \in Held
    BY <2>1 DEF Held, Executed
  <2>3. position' # position => Ledger!BookPurchase(b)
    BY <1>2, <2>1, <2>2 DEF Ledger!BookPurchase
  <2> QED
    BY <1>2, <2>1, <2>3 DEF Ledger!Next
<1>4. CASE SettleSell(w)
  <2>1. /\ b \in Buys /\ i[2] \in 1..MaxAttempts /\ i = <<b, i[2]>>
        /\ \/ position' = position
           \/ /\ chain[i] = "landed" /\ position[b] = "OPEN"
              /\ position' = [position EXCEPT ![b] = "CLOSED"]
    BY <1>4, SettleSellEffect
  <2>2. chain[i] = "landed" => i[2] \in Sold[b]
    BY <2>1 DEF Sold, Executed
  <2>3. position' # position => Ledger!BookSale(b)
    BY <1>2, <2>1, <2>2 DEF Ledger!BookSale
  <2> QED
    BY <1>2, <2>1, <2>3 DEF Ledger!Next
<1> QED
  BY <1>3, <1>4

\* Every step of the rail is a step of the ledger or leaves it alone.
LEMMA NextRefines ==
    ASSUME IInv, [Next]_vars
    PROVE  Ledger!Next \/ UNCHANGED <<Held, Sold, position>>
<1>1. ASSUME UNCHANGED position,
             \A i \in Intents : chain'[i] \in Executed <=> chain[i] \in Executed
      PROVE  UNCHANGED <<Held, Sold, position>>
  BY <1>1, ExecutedKept
<1>2. ASSUME NEW w \in Workers, PassStep(w)
      PROVE  Ledger!Next \/ UNCHANGED <<Held, Sold, position>>
  <2>1. CASE SettleBuy(w) \/ SettleSell(w)
    BY <2>1, SettleRefines
  <2>2. CASE Send(w)
    <3>1. job[w] \in Intents
      BY <2>2 DEF IInv, PassInv, Send
    <3>2. chain' = chain \/ (chain[job[w]] = "unsent" /\ chain' = [chain EXCEPT ![job[w]] = "pending"])
      BY <2>2 DEF Send
    <3>3. \A i \in Intents : chain'[i] \in Executed <=> chain[i] \in Executed
      BY <3>1, <3>2 DEF Executed, IInv, TypeOK
    <3> QED
      BY <1>1, <2>2, <3>3 DEF Send, rows
  <2>3. CASE \/ Block(w) \/ RunSafety(w) \/ BuildOrder(w) \/ Guard(w) \/ Sign(w)
             \/ CommitSubmission(w) \/ RecordReply(w) \/ InspectKnown(w)
             \/ InspectUnknown(w) \/ CheckBlockhash(w) \/ CheckStatus(w) \/ Fail(w) \/ Crash(w)
    <3>1. UNCHANGED <<position, chain>>
      BY <2>3 DEF Block, RunSafety, BuildOrder, Guard, Sign, CommitSubmission, RecordReply,
                  InspectKnown, InspectUnknown, CheckBlockhash, CheckStatus, Fail, Crash,
                  rows, network
    <3> QED
      BY <1>1, <3>1
  <2> QED
    BY <1>2, <2>1, <2>2, <2>3 DEF PassStep
<1>3. ASSUME NEW i \in Intents, Land(i)
      PROVE  Ledger!Next \/ UNCHANGED <<Held, Sold, position>>
  BY <1>3, LandRefines
<1>4. ASSUME NEW i \in Intents, Expire(i)
      PROVE  UNCHANGED <<Held, Sold, position>>
  <2>1. \A j \in Intents : chain'[j] \in Executed <=> chain[j] \in Executed
    BY <1>4 DEF Expire, Executed, IInv, TypeOK
  <2> QED
    BY <1>1, <1>4, <2>1 DEF Expire, rows
<1>5. CASE \/ \E w \in Workers, j \in Intents : Advance(w, j)
           \/ \E x \in Exits : ExitStep(x) \/ \E b \in Buys : ExitDue(x, b)
           \/ \E b \in Buys : DriverBuys(b)
           \/ AutotradeStart \/ AutotradeStop \/ ClearKillSwitch
           \/ \E j \in Intents : Age(j)
           \/ UNCHANGED vars
  <2>1. UNCHANGED <<position, chain>>
    BY <1>5 DEF Advance, ExitStep, CountAttempts, RequestExit, ExitCrash, ExitDue, DriverBuys,
                AutotradeStart, AutotradeStop, ClearKillSwitch, Age, vars, rows, network
  <2> QED
    BY <1>1, <2>1
<1> QED
  BY <1>2, <1>3, <1>4, <1>5 DEF Next

\* ImplementsLedger: the rail refines the buy-once, sell-once ledger.
THEOREM RailImplementsLedger == Spec => ImplementsLedger
<1>1. Init => Ledger!Init
  <2>1. ASSUME Init, NEW b \in Buys, NEW n \in 0..MaxAttempts
        PROVE  chain[<<b, n>>] \notin Executed
    BY <2>1, IntentName DEF Init, Executed
  <2>2. 0 \in 0..MaxAttempts /\ \A n \in 1..MaxAttempts : n \in 0..MaxAttempts
    BY RailAssumption
  <2>3. ASSUME Init
        PROVE  Held = {} /\ Sold = [b \in Buys |-> {}]
    BY <2>1, <2>2, <2>3 DEF Held, Sold
  <2> QED
    BY <2>3 DEF Init, Ledger!Init
<1>2. IInv /\ [Next]_vars => [Ledger!Next]_(Ledger!ledger)
  BY NextRefines DEF Ledger!ledger
<1> QED
  BY RailInvariant, <1>1, <1>2, PTL DEF Spec, ImplementsLedger, Ledger!Spec

-----------------------------------------------------------------------------
(* FailureBudget, for every number of passes, threshold and number of      *)
(* manual clears.  The bound is not inductive by itself: it needs to know  *)
(* that while the switch is not armed the counter leaves room for a whole  *)
(* round of passes beyond the guard.                                       *)

\* While trading is allowed, the counter is a whole round below the budget.
Armed == ~killed => failures + 1 <= MaxFailures + Cardinality(Workers) * clears

\* The inductive invariant.
BudgetInv == TypeOK /\ Armed /\ FailureBudget

\* The passes beyond the guard are counted, and there are no more of them than
\* passes.
LEMMA Counted ==
    /\ Cardinality(Workers) \in Nat
    /\ IsFiniteSet(PastGuard) /\ Cardinality(PastGuard) \in 0..Cardinality(Workers)
    /\ IsFiniteSet(PastGuard') /\ Cardinality(PastGuard') \in 0..Cardinality(Workers)
<1>1. IsFiniteSet(Workers) /\ PastGuard \subseteq Workers /\ PastGuard' \subseteq Workers
  BY RailAssumption DEF PastGuard
<1>2. Cardinality(Workers) \in Nat
  BY <1>1, FS_CardinalityType
<1>3. ASSUME NEW S, S \subseteq Workers
      PROVE  IsFiniteSet(S) /\ Cardinality(S) \in 0..Cardinality(Workers)
  BY <1>1, <1>2, <1>3, FS_Subset, FS_CardinalityType
<1> QED
  BY <1>1, <1>2, <1>3

\* A round of passes is one more clear's worth of budget.
LEMMA OneRound ==
    ASSUME NEW n \in Nat, NEW c \in Nat
    PROVE  n * c \in Nat /\ n * (c + 1) \in Nat /\ n * (c + 1) = n * c + n
OBVIOUS

\* A step that lets nobody past the guard and leaves the counter, the switch
\* and the clears alone.
LEMMA NobodyPasses ==
    ASSUME BudgetInv, PastGuard' \subseteq PastGuard, UNCHANGED <<killed, failures, clears>>
    PROVE  Armed' /\ FailureBudget'
<1>1. Cardinality(PastGuard') <= Cardinality(PastGuard)
  BY Counted, FS_Subset
<1>2. clears \in Nat /\ failures \in Nat /\ MaxFailures \in Nat
  BY RailAssumption DEF BudgetInv, TypeOK
<1> QED
  BY <1>1, <1>2, Counted, OneRound DEF BudgetInv, Armed, FailureBudget

\* The guard lets a pass through only while the switch is not armed.
LEMMA OnePasses ==
    ASSUME BudgetInv, ~killed, UNCHANGED <<killed, failures, clears>>
    PROVE  Armed' /\ FailureBudget'
<1>1. clears \in Nat /\ failures \in Nat /\ MaxFailures \in Nat
  BY RailAssumption DEF BudgetInv, TypeOK
<1> QED
  BY <1>1, Counted, OneRound DEF BudgetInv, Armed, FailureBudget

\* Where a pass that is released or goes on stands afterwards.
LEMMA Moved ==
    ASSUME TypeOK, NEW w \in Workers, NEW to, at' = [at EXCEPT ![w] = to]
    PROVE  /\ to \notin {"sign", "submit", "send"} \cup Replies => PastGuard' = PastGuard \ {w}
           /\ w \in PastGuard => PastGuard' \subseteq PastGuard
<1>1. at'[w] = to /\ \A v \in Workers : v # w => at'[v] = at[v]
  BY DEF TypeOK
<1> QED
  BY <1>1 DEF PastGuard

\* A reply that is recorded takes its pass out of those past the guard, and adds
\* at most the one failure that pass could cause.
LEMMA ReplyRecorded ==
    ASSUME BudgetInv, NEW w \in Workers, RecordReply(w)
    PROVE  Armed' /\ FailureBudget'
<1>1. w \in PastGuard /\ PastGuard' = PastGuard \ {w}
  <2>1. at' = [at EXCEPT ![w] = "idle"] /\ at[w] \in Replies
    BY DEF RecordReply, Release
  <2>2. "idle" \notin {"sign", "submit", "send"} \cup Replies
    BY DEF Replies
  <2> QED
    BY <2>1, <2>2, Moved DEF BudgetInv, PastGuard
<1>2. Cardinality(PastGuard') = Cardinality(PastGuard) - 1
  BY <1>1, Counted, FS_RemoveElement
<1>3. clears \in Nat /\ failures \in Nat /\ MaxFailures \in Nat \ {0} /\ clears' = clears
  BY RailAssumption DEF BudgetInv, TypeOK, RecordReply
<1>4. CASE RecordFailure
  <2>1. failures' = failures + 1 /\ (killed' <=> killed \/ failures + 1 >= MaxFailures)
    BY <1>4 DEF RecordFailure
  <2>2. FailureBudget'
    BY <1>2, <1>3, <2>1, Counted, OneRound DEF BudgetInv, FailureBudget
  <2>3. Cardinality(Workers) * clears \in Nat
    BY <1>3, Counted, OneRound
  <2>4. ~killed' => failures' + 1 <= MaxFailures
    BY <1>3, <2>1
  <2>5. Armed'
    BY <1>3, <2>1, <2>3, <2>4 DEF Armed
  <2> QED
    BY <2>2, <2>5
<1>5. CASE RecordSuccess
  BY <1>2, <1>3, <1>5, Counted, OneRound DEF RecordSuccess, BudgetInv, Armed, FailureBudget
<1>6. CASE UNCHANGED <<failures, killed>>
  BY <1>1, <1>3, <1>6, NobodyPasses
<1>7. RecordFailure \/ RecordSuccess \/ UNCHANGED <<failures, killed>>
  BY DEF RecordReply, Replies
<1> QED
  BY <1>4, <1>5, <1>6, <1>7

\* A manual clear opens one more round.
LEMMA SwitchCleared ==
    ASSUME BudgetInv, ClearKillSwitch
    PROVE  Armed' /\ FailureBudget'
<1>1. /\ clears \in Nat /\ failures \in Nat /\ MaxFailures \in Nat
      /\ clears' = clears + 1 /\ failures' = failures
  BY RailAssumption DEF BudgetInv, TypeOK, ClearKillSwitch
<1>2. Cardinality(Workers) * (clears + 2) = Cardinality(Workers) * (clears + 1) + Cardinality(Workers)
  BY <1>1, Counted
<1> QED
  BY <1>1, <1>2, Counted, OneRound DEF BudgetInv, Armed, FailureBudget

\* The steps of an executor pass, but for the guard and the reply, let nobody
\* past the guard.
LEMMA PassQuiet ==
    ASSUME BudgetInv, NEW w \in Workers, PassStep(w), ~Guard(w), ~RecordReply(w)
    PROVE  PastGuard' \subseteq PastGuard /\ UNCHANGED <<killed, failures, clears>>
<1>1. UNCHANGED <<killed, failures, clears>>
  BY DEF PassStep, Block, RunSafety, BuildOrder, Sign, CommitSubmission, Send, InspectKnown,
         InspectUnknown, CheckBlockhash, CheckStatus, Fail, SettleBuy, SettleSell, Crash,
         rows, controls, network
<1>2. CASE Release(w)
  <2>1. "idle" \notin {"sign", "submit", "send"} \cup Replies
    BY DEF Replies
  <2> QED
    BY <1>1, <1>2, <2>1, Moved DEF Release, BudgetInv
<1>3. CASE \E to : at[w] \in {"sign", "submit", "send"} /\ Continue(w, to)
  BY <1>1, <1>3, Moved DEF Continue, BudgetInv, PastGuard
<1>4. CASE \E to \in {"fail", "settle", "check_blockhash", "check_status"} : Continue(w, to)
  <2>1. PICK to \in {"fail", "settle", "check_blockhash", "check_status"} : Continue(w, to)
    BY <1>4
  <2>2. to \notin {"sign", "submit", "send"} \cup Replies
    BY DEF Replies
  <2> QED
    BY <1>1, <2>1, <2>2, Moved DEF Continue, BudgetInv
<1>5. \/ Release(w)
      \/ \E to : at[w] \in {"sign", "submit", "send"} /\ Continue(w, to)
      \/ \E to \in {"fail", "settle", "check_blockhash", "check_status"} : Continue(w, to)
  <2>1. CASE Block(w) \/ RunSafety(w) \/ BuildOrder(w) \/ Fail(w) \/ SettleBuy(w)
             \/ SettleSell(w) \/ Crash(w)
    BY <2>1 DEF Block, RunSafety, BuildOrder, Fail, SettleBuy, SettleSell, Crash
  <2>2. CASE Sign(w) \/ CommitSubmission(w) \/ Send(w)
    <3>1. CASE Sign(w)
      BY <3>1 DEF Sign
    <3>2. CASE CommitSubmission(w)
      BY <3>2 DEF CommitSubmission
    <3>3. CASE Send(w)
      BY <3>3 DEF Send
    <3> QED
      BY <2>2, <3>1, <3>2, <3>3
  <2>3. CASE InspectKnown(w) \/ InspectUnknown(w) \/ CheckBlockhash(w) \/ CheckStatus(w)
    BY <2>3 DEF InspectKnown, InspectUnknown, CheckBlockhash, CheckStatus
  <2> QED
    BY <2>1, <2>2, <2>3 DEF PassStep
<1> QED
  BY <1>2, <1>3, <1>4, <1>5

\* A pass that picks an intent up stands before the guard.
LEMMA PickedUp ==
    ASSUME BudgetInv, NEW w \in Workers, NEW i \in Intents, Advance(w, i)
    PROVE  PastGuard' \subseteq PastGuard /\ UNCHANGED <<killed, failures, clears>>
<1>1. UNCHANGED <<killed, failures, clears>>
  BY DEF Advance, controls
<1>2. \E to \in {"inspect", "block", "safety", "order", "guard"} : at' = [at EXCEPT ![w] = to]
  BY DEF Advance, UNFINISHED_STATES
<1>3. \A to \in {"inspect", "block", "safety", "order", "guard"} :
          to \notin {"sign", "submit", "send"} \cup Replies
  BY DEF Replies
<1> QED
  BY <1>1, <1>2, <1>3, Moved DEF BudgetInv

\* Every step of the rail keeps the budget.
LEMMA NextBudget ==
    ASSUME BudgetInv, [Next]_vars
    PROVE  Armed' /\ FailureBudget'
<1>1. ASSUME NEW w \in Workers, PassStep(w) PROVE Armed' /\ FailureBudget'
  <2>1. CASE Guard(w)
    <3>1. UNCHANGED <<killed, failures, clears>>
      BY <2>1 DEF Guard, controls
    <3>2. CASE killed
      <4>1. "idle" \notin {"sign", "submit", "send"} \cup Replies
        BY DEF Replies
      <4>2. Release(w)
        BY <2>1, <3>2 DEF Guard
      <4>3. PastGuard' \subseteq PastGuard
        BY <4>1, <4>2, Moved DEF Release, BudgetInv
      <4> QED
        BY <3>1, <4>3, NobodyPasses
    <3> QED
      BY <3>1, <3>2, OnePasses
  <2>2. CASE RecordReply(w)
    BY <2>2, ReplyRecorded
  <2> QED
    BY <1>1, <2>1, <2>2, PassQuiet, NobodyPasses
<1>2. ASSUME NEW w \in Workers, NEW i \in Intents, Advance(w, i) PROVE Armed' /\ FailureBudget'
  BY <1>2, PickedUp, NobodyPasses
<1>3. CASE ClearKillSwitch
  BY <1>3, SwitchCleared
<1>4. CASE UNCHANGED <<killed, failures, clears, at>>
  BY <1>4, NobodyPasses DEF PastGuard
<1>5. \/ \E w \in Workers : PassStep(w) \/ \E i \in Intents : Advance(w, i)
      \/ ClearKillSwitch
      \/ UNCHANGED <<killed, failures, clears, at>>
  <2>1. ASSUME NEW x \in Exits, ExitStep(x) \/ \E b \in Buys : ExitDue(x, b)
        PROVE  UNCHANGED <<killed, failures, clears, at>>
    BY <2>1 DEF ExitStep, CountAttempts, RequestExit, ExitCrash, ExitDue, controls, passes
  <2>2. ASSUME NEW b \in Buys, DriverBuys(b) PROVE UNCHANGED <<killed, failures, clears, at>>
    BY <2>2 DEF DriverBuys, controls, passes
  <2>3. CASE AutotradeStart \/ AutotradeStop
    BY <2>3 DEF AutotradeStart, AutotradeStop, passes
  <2>4. ASSUME NEW i \in Intents, Land(i) \/ Expire(i) \/ Age(i)
        PROVE  UNCHANGED <<killed, failures, clears, at>>
    BY <2>4 DEF Land, Expire, Age, controls, passes
  <2>5. CASE UNCHANGED vars
    BY <2>5 DEF vars, controls, passes
  <2> QED
    BY <2>1, <2>2, <2>3, <2>4, <2>5 DEF Next
<1> QED
  BY <1>1, <1>2, <1>3, <1>4, <1>5

\* FailureBudget: record_execution_failure, the guard and clear_kill_switch
\* together bound the failures of a run, those still on their way included.
THEOREM FailuresAreBounded == Spec => []FailureBudget
<1>1. Init => Armed /\ FailureBudget
  <2> SUFFICES ASSUME Init PROVE Armed /\ FailureBudget
    OBVIOUS
  <2>1. killed = FALSE /\ failures = 0 /\ clears = 0 /\ MaxFailures \in Nat \ {0}
    BY RailAssumption DEF Init
  <2> QED
    BY <2>1, Counted, OneRound DEF Armed, FailureBudget
<1>2. TypeOK /\ Armed /\ FailureBudget /\ [Next]_vars => Armed' /\ FailureBudget'
  BY NextBudget DEF BudgetInv
<1> QED
  BY <1>1, <1>2, TypeCorrect, PTL DEF Spec
=============================================================================
