------------------------ MODULE AutotradeSwitchProofs ------------------------
(***************************************************************************)
(* The switch for any number of requests, processes, rugs and strategies:  *)
(* SwitchInv is inductive, the properties follow from it, and every step   *)
(* is a step of AtomicSwitch or leaves it as it is.                        *)
(***************************************************************************)
EXTENDS AutotradeSwitch, TLAPS

\* A size that an arm offers is a size.
LEMMA Offered ==
    ASSUME NEW g \in Strategies
    PROVE  Choices[g] \subseteq Tickets
  BY DEF Tickets

\* A session that is over holds nothing.
LEMMA Nothing == NoRow \in Rows /\ StopOp \in Ops
  BY DEF NoRow, Rows, StopOp, Ops

\* What a session would write is a row.
LEMMA WrittenType ==
    ASSUME TypeOK, NEW s \in Sessions
    PROVE  Assigned(s) \in Rows /\ Written(s) \in Rows
<1>1. copy[s] \in Rows /\ row \in Rows /\ op[s] \in Ops
  BY DEF TypeOK
<1>2. Assigned(s) \in Rows
  BY <1>1 DEF Assigned, Rows, Ops
<1>3. Written(s) \in Rows
  BY <1>1, <1>2 DEF Written, Column, Rows
<1> QED
  BY <1>2, <1>3

\* The switch starts off and nobody is calling.
LEMMA SwitchInit == Init => SwitchInv
<1> SUFFICES ASSUME Init PROVE SwitchInv
  OBVIOUS
<1> USE DEF Init
<1>1. TypeOK
  BY Nothing DEF TypeOK
<1>2. WeighInv /\ LockInv /\ RugInv
  BY DEF WeighInv, LockInv, RugInv, Sessions
<1>3. UndoneInv
  BY DEF UndoneInv
<1> QED
  BY <1>1, <1>2, <1>3 DEF SwitchInv

-----------------------------------------------------------------------------
(* Types.                                                                  *)

LEMMA TypeStep == TypeOK /\ [Next]_vars => TypeOK'
<1> SUFFICES ASSUME TypeOK, [Next]_vars PROVE TypeOK'
  OBVIOUS
<1> USE DEF TypeOK
<1>1. CASE UNCHANGED vars
  BY <1>1 DEF vars, local, hist
<1>2. ASSUME NEW q \in Requests, PressStart(q) PROVE TypeOK'
  <2>3. PICK g \in Strategies : \E t \in Choices[g] \cup {NoTicket} :
            op' = [op EXCEPT ![q] = [kind |-> "start", strategy |-> g, ticket |-> t,
                                     when |-> clock + 1]]
    BY <1>2 DEF PressStart
  <2>1. PICK t \in Choices[g] \cup {NoTicket} :
            op' = [op EXCEPT ![q] = [kind |-> "start", strategy |-> g, ticket |-> t,
                                     when |-> clock + 1]]
    BY <2>3
  <2>2. [kind |-> "start", strategy |-> g, ticket |-> t, when |-> clock + 1] \in Ops
    BY Offered DEF Ops
  <2> QED
    BY <1>2, <2>1, <2>2 DEF PressStart, hist, Sessions
<1>3. ASSUME NEW q \in Requests, PressStop(q) PROVE TypeOK'
  BY <1>3, Nothing DEF PressStop, hist, Sessions
<1>4. ASSUME NEW s \in Sessions, Load(s) \/ Flush(s) PROVE TypeOK'
  BY <1>4 DEF Load, Flush, hist
<1>5. ASSUME NEW s \in Sessions, Commit(s) PROVE TypeOK'
  <2>1. undone' \in [Rugs -> [Processes -> Nat]]
    BY <1>5 DEF Commit, Counted
  <2>2. /\ op' \in [Sessions -> Ops] /\ copy' \in [Sessions -> Rows]
        /\ rugs' \in [Sessions -> SUBSET Rugs]
    BY <1>5, Nothing DEF Commit, Forget
  <2> QED
    BY <1>5, <2>1, <2>2, WrittenType DEF Commit
<1>6. ASSUME NEW s \in Sessions, Reply(s) PROVE TypeOK'
  BY <1>6 DEF Reply, hist
<1>13. ASSUME NEW s \in Sessions, Rollback(s) PROVE TypeOK'
  <2>1. /\ op' \in [Sessions -> Ops] /\ copy' \in [Sessions -> Rows]
        /\ rugs' \in [Sessions -> SUBSET Rugs]
    BY <1>13, Nothing DEF Rollback, Forget
  <2>2. last' \in [Sessions -> {"ok", "failed"}]
    BY <1>13 DEF Rollback
  <2> QED
    BY <1>13, <2>1, <2>2 DEF Rollback, hist
<1>7. ASSUME NEW p \in Processes, BrakeRead(p) PROVE TypeOK'
  <2> DEFINE new == IF row.enabled THEN NewRugs(p) ELSE {}
  <2>1. new \in SUBSET Rugs /\ p \in Sessions
    BY DEF NewRugs, Rows, Sessions
  <2>2. /\ rugs' = [rugs EXCEPT ![p] = new]
        /\ at' = [at EXCEPT ![p] = IF new # {} THEN "worth" ELSE "owner"]
    BY <1>7 DEF BrakeRead
  <2> HIDE DEF new
  <2> QED
    BY <1>7, <2>1, <2>2 DEF BrakeRead, hist
<1>8. ASSUME NEW p \in Processes, WorthUnread(p) \/ BrakeHeld(p) PROVE TypeOK'
  <2>1. CASE WorthUnread(p)
    BY <2>1 DEF WorthUnread, hist, Sessions
  <2>2. CASE BrakeHeld(p)
    BY <2>2 DEF BrakeHeld, hist, Sessions
  <2> QED
    BY <1>8, <2>1, <2>2
<1>9. ASSUME NEW p \in Processes, BrakeStop(p) PROVE TypeOK'
  <2>1. \A r \in Rugs : [presses[r] EXCEPT ![p] = @ + 1] \in [Processes -> Nat]
    OBVIOUS
  <2>2. presses' \in [Rugs -> [Processes -> Nat]]
    BY <1>9, <2>1 DEF BrakeStop, Pressed
  <2> QED
    BY <1>9, <2>2, Nothing DEF BrakeStop, Sessions
<1>10. ASSUME NEW p \in Processes, FloorStop(p) \/ EndTick(p) PROVE TypeOK'
  BY <1>10, Nothing DEF FloorStop, EndTick, hist, Sessions
<1>11. ASSUME NEW p \in Processes, RestartProcess(p) PROVE TypeOK'
  BY <1>11 DEF RestartProcess, local
<1>12. ASSUME NEW r \in Rugs, RugCloses(r) PROVE TypeOK'
  BY <1>12 DEF RugCloses, local, hist
<1> QED
  BY <1>1, <1>2, <1>3, <1>4, <1>5, <1>6, <1>7, <1>8, <1>9, <1>10, <1>11, <1>12, <1>13 DEF Next

-----------------------------------------------------------------------------
(* The parts of the invariant.                                             *)

\* A rug is weighed before it is pressed for, and a restart clears both.
LEMMA WeighStep == TypeOK /\ WeighInv /\ [Next]_vars => WeighInv'
<1> SUFFICES ASSUME TypeOK, WeighInv, [Next]_vars PROVE WeighInv'
  OBVIOUS
<1> USE DEF TypeOK, WeighInv
<1>1. CASE UNCHANGED vars
  BY <1>1 DEF vars, local, hist
<1>2. ASSUME NEW s \in Sessions, NEW a, a # "worth", at' = [at EXCEPT ![s] = a],
             \A p \in Processes : p # s => rugs'[p] = rugs[p],
             UNCHANGED <<weighed, presses>>
      PROVE  WeighInv'
  BY <1>2
<1>3. ASSUME NEW q \in Requests, PressStart(q) \/ PressStop(q) PROVE WeighInv'
  BY <1>3 DEF PressStart, PressStop, hist, Sessions
<1>4. ASSUME NEW s \in Sessions, Load(s) \/ Flush(s) \/ Commit(s) PROVE WeighInv'
  <2>1. CASE Load(s)
    BY <1>2, <2>1 DEF Load, hist
  <2>2. CASE Flush(s)
    BY <1>2, <2>2 DEF Flush, hist
  <2>3. CASE Commit(s)
    <3>1. /\ at' = [at EXCEPT ![s] = "reply"] /\ rugs' = [rugs EXCEPT ![s] = {}]
          /\ UNCHANGED <<weighed, presses>>
      BY <2>3 DEF Commit, Forget
    <3> QED
      BY <1>2, <3>1
  <2> QED
    BY <1>4, <2>1, <2>2, <2>3
<1>5. ASSUME NEW s \in Sessions, Reply(s) \/ Rollback(s) PROVE WeighInv'
  <2>1. /\ at' = [at EXCEPT ![s] = "idle"] /\ UNCHANGED <<weighed, presses>>
        /\ rugs' = rugs \/ rugs' = [rugs EXCEPT ![s] = {}]
    BY <1>5 DEF Reply, Rollback, Forget, hist
  <2>2. \A p \in Processes : p # s => rugs'[p] = rugs[p]
    BY <2>1 DEF Sessions
  <2> QED
    BY <1>2, <2>1, <2>2
<1>6. ASSUME NEW p \in Processes, BrakeRead(p) PROVE WeighInv'
  <2>1. \A o \in Processes : at'[o] = "worth" => rugs'[o] \cap weighed[o] = {}
    BY <1>6 DEF BrakeRead, NewRugs, Sessions
  <2> QED
    BY <1>6, <2>1 DEF BrakeRead, hist
<1>7. ASSUME NEW p \in Processes, WorthUnread(p) \/ BrakeHeld(p) PROVE WeighInv'
  <2>1. CASE WorthUnread(p)
    BY <2>1 DEF WorthUnread, hist, Sessions
  <2>2. CASE BrakeHeld(p)
    BY <2>2 DEF BrakeHeld, hist, Sessions
  <2> QED
    BY <1>7, <2>1, <2>2
<1>8. ASSUME NEW p \in Processes, BrakeStop(p) PROVE WeighInv'
  <2>1. ASSUME NEW o \in Processes PROVE at'[o] = "worth" => rugs'[o] \cap weighed'[o] = {}
    BY <1>8 DEF BrakeStop, Sessions
  <2>2. ASSUME NEW o \in Processes, NEW r \in Rugs
        PROVE  presses'[r][o] <= IF r \in weighed'[o] THEN 1 ELSE 0
    <3>1. presses[r][o] <= IF r \in weighed[o] THEN 1 ELSE 0
      OBVIOUS
    <3>2. presses[r] \in [Processes -> Nat] /\ presses[r][o] \in Nat
      OBVIOUS
    <3>3. CASE r \in rugs[p] /\ o = p
      <4>1. r \notin weighed[p] /\ r \in weighed'[p]
        BY <1>8, <3>3 DEF BrakeStop
      <4>2. presses'[r][p] = presses[r][p] + 1
        BY <1>8, <3>2, <3>3 DEF BrakeStop, Pressed
      <4> QED
        BY <3>1, <3>2, <3>3, <4>1, <4>2
    <3>4. CASE r \notin rugs[p] \/ o # p
      <4>1. presses'[r][o] = presses[r][o]
        BY <1>8, <3>2, <3>4 DEF BrakeStop, Pressed
      <4>2. r \in weighed[o] => r \in weighed'[o]
        BY <1>8 DEF BrakeStop
      <4> QED
        BY <3>1, <3>2, <4>1, <4>2
    <3> QED
      BY <3>3, <3>4
  <2> QED
    BY <2>1, <2>2
<1>9. ASSUME NEW p \in Processes, FloorStop(p) \/ EndTick(p) PROVE WeighInv'
  BY <1>9 DEF FloorStop, EndTick, hist, Sessions
<1>10. ASSUME NEW p \in Processes, RestartProcess(p) PROVE WeighInv'
  BY <1>10 DEF RestartProcess, local
<1>11. ASSUME NEW r \in Rugs, RugCloses(r) PROVE WeighInv'
  BY <1>11 DEF RugCloses, local, hist
<1> QED
  BY <1>1, <1>3, <1>4, <1>5, <1>6, <1>7, <1>8, <1>9, <1>10, <1>11 DEF Next

\* A flush waits until nobody holds the row.
LEMMA LockStep == TypeOK /\ LockInv /\ [Next]_vars => LockInv'
<1> SUFFICES ASSUME TypeOK, LockInv, [Next]_vars PROVE LockInv'
  OBVIOUS
<1> USE DEF TypeOK, LockInv
<1>1. CASE at' = at
  BY <1>1
<1>2. ASSUME NEW s \in Sessions, NEW a, a # "commit", at' = [at EXCEPT ![s] = a]
      PROVE  LockInv'
  BY <1>2
<1>3. ASSUME NEW s \in Sessions, Flush(s) PROVE LockInv'
  BY <1>3 DEF Flush
<1>4. ASSUME NEW s \in Sessions, Load(s) \/ Commit(s) \/ Reply(s) \/ Rollback(s) PROVE LockInv'
  BY <1>2, <1>4 DEF Load, Commit, Reply, Rollback, Forget
<1>5. ASSUME NEW q \in Requests, PressStart(q) \/ PressStop(q) PROVE LockInv'
  BY <1>2, <1>5 DEF PressStart, PressStop, Sessions
<1>6. ASSUME NEW p \in Processes, BrakeRead(p) PROVE LockInv'
  <2>1. \E a : a # "commit" /\ at' = [at EXCEPT ![p] = a]
    BY <1>6 DEF BrakeRead
  <2> QED
    BY <1>2, <2>1 DEF Sessions
<1>7. ASSUME NEW p \in Processes,
             WorthUnread(p) \/ BrakeHeld(p) \/ BrakeStop(p) \/ FloorStop(p) \/ EndTick(p)
      PROVE  LockInv'
  BY <1>2, <1>7 DEF WorthUnread, BrakeHeld, BrakeStop, FloorStop, EndTick, Sessions
<1> QED
  BY <1>1, <1>3, <1>4, <1>5, <1>6, <1>7 DEF Next, vars, local, RestartProcess, RugCloses

\* A rug comes to be weighed only as one that closed no sooner than the Start in
\* the row.
LEMMA RugsShrink ==
    ASSUME TypeOK, [Next]_vars, NEW p \in Processes, NEW r \in rugs'[p]
    PROVE  r \in rugs[p] \/ (closedAt[r] # 0 /\ closedAt[r] >= row.startedAt)
<1> USE DEF TypeOK
<1>1. p \in Sessions
  BY DEF Sessions
<1>2. ASSUME BrakeRead(p) PROVE closedAt[r] # 0 /\ closedAt[r] >= row.startedAt
  <2>1. r \in NewRugs(p)
    BY <1>1, <1>2 DEF BrakeRead
  <2> QED
    BY <2>1 DEF NewRugs
<1>3. ASSUME NEW o \in Processes,
             BrakeRead(o) \/ WorthUnread(o) \/ BrakeHeld(o) \/ BrakeStop(o) \/ FloorStop(o)
             \/ EndTick(o) \/ RestartProcess(o), ~BrakeRead(p)
      PROVE  r \in rugs[p]
  BY <1>1, <1>3 DEF BrakeRead, WorthUnread, BrakeHeld, BrakeStop, FloorStop, EndTick,
     RestartProcess, local
<1>4. ASSUME NEW s \in Sessions, Load(s) \/ Flush(s) \/ Commit(s) \/ Reply(s) \/ Rollback(s)
      PROVE  r \in rugs[p]
  BY <1>1, <1>4 DEF Load, Flush, Commit, Reply, Rollback, Forget
<1>5. CASE rugs' = rugs
  BY <1>5
<1> QED
  BY <1>2, <1>3, <1>4, <1>5 DEF Next, vars, local, PressStart, PressStop, RugCloses

\* A tick weighs rugs it read as closed, and a close is never undone.
LEMMA RugStep == TypeOK /\ RugInv /\ [Next]_vars => RugInv'
<1> SUFFICES ASSUME TypeOK, RugInv, [Next]_vars, NEW p \in Processes, NEW r \in rugs'[p]
             PROVE  closedAt'[r] # 0
  BY DEF RugInv
<1> USE DEF TypeOK, RugInv
<1>1. p \in Sessions
  BY DEF Sessions
<1>2. r \in rugs[p] \/ closedAt[r] # 0
  BY <1>1, RugsShrink
<1>3. closedAt[r] # 0
  BY <1>2
<1>4. ASSUME NEW o \in Rugs, RugCloses(o) PROVE closedAt'[r] # 0
  BY <1>3, <1>4 DEF RugCloses
<1>5. CASE closedAt' = closedAt
  BY <1>3, <1>5
<1> QED
  BY <1>4, <1>5 DEF Next, vars, PressStart, PressStop, Load, Flush, Commit, Reply, Rollback,
     BrakeRead, WorthUnread, BrakeHeld, BrakeStop, FloorStop, EndTick, RestartProcess

\* A process undoes a newer Start for a rug only while it weighs that rug, and it
\* can only come to weigh it while the row's Start is no newer.
LEMMA UndoneStep == TypeOK /\ RugInv /\ UndoneInv /\ [Next]_vars => UndoneInv'
<1> SUFFICES ASSUME TypeOK, RugInv, UndoneInv, [Next]_vars,
                    NEW r \in Rugs, NEW p \in Processes
             PROVE  /\ undone'[r][p] <= 1
                    /\ (closedAt'[r] = 0 \/ row'.startedAt <= closedAt'[r]) => undone'[r][p] = 0
                    /\ r \in rugs'[p] => undone'[r][p] = 0
  BY DEF UndoneInv
<1> USE DEF TypeOK
<1>1. /\ p \in Sessions /\ undone[r][p] \in Nat /\ undone[r][p] <= 1
      /\ closedAt[r] \in Nat /\ row.startedAt \in Nat
      /\ (closedAt[r] = 0 \/ row.startedAt <= closedAt[r]) => undone[r][p] = 0
      /\ r \in rugs[p] => undone[r][p] = 0 /\ closedAt[r] # 0
  BY DEF Sessions, UndoneInv, RugInv, Rows
<1>2. r \in rugs'[p] => r \in rugs[p] \/ (closedAt[r] # 0 /\ closedAt[r] >= row.startedAt)
  BY RugsShrink
<1>3. r \in rugs'[p] => undone[r][p] = 0
  BY <1>1, <1>2
<1>4. CASE UNCHANGED <<row, closedAt, undone>>
  BY <1>1, <1>3, <1>4
<1>5. ASSUME NEW s \in Sessions, Commit(s)
      PROVE  /\ undone'[r][p] <= 1
             /\ (closedAt'[r] = 0 \/ row'.startedAt <= closedAt'[r]) => undone'[r][p] = 0
             /\ r \in rugs'[p] => undone'[r][p] = 0
  <2>1. /\ closedAt' = closedAt /\ rugs' = [rugs EXCEPT ![s] = {}]
        /\ undone'[r][p] = IF row'.startedAt <= closedAt[r] THEN 0
                           ELSE undone[r][p] + (IF p = s /\ Undoes(s, r) THEN 1 ELSE 0)
    BY <1>5 DEF Commit, Counted, Forget
  <2>2. CASE p = s /\ Undoes(s, r)
    <3>1. r \in rugs[p] /\ r \notin rugs'[p]
      BY <2>1, <2>2 DEF Undoes
    <3> QED
      BY <1>1, <2>1, <2>2, <3>1
  <2>3. CASE ~(p = s /\ Undoes(s, r))
    <3>1. undone'[r][p] = IF row'.startedAt <= closedAt[r] THEN 0 ELSE undone[r][p]
      BY <1>1, <2>1, <2>3
    <3> QED
      BY <1>1, <1>3, <2>1, <3>1
  <2> QED
    BY <2>2, <2>3
<1>6. ASSUME NEW o \in Rugs, RugCloses(o)
      PROVE  /\ undone'[r][p] <= 1
             /\ (closedAt'[r] = 0 \/ row'.startedAt <= closedAt'[r]) => undone'[r][p] = 0
             /\ r \in rugs'[p] => undone'[r][p] = 0
  BY <1>1, <1>3, <1>6 DEF RugCloses, hist
<1> QED
  BY <1>4, <1>5, <1>6 DEF Next, vars, hist, PressStart, PressStop, Load, Flush, Reply, Rollback,
     BrakeRead, WorthUnread, BrakeHeld, BrakeStop, FloorStop, EndTick, RestartProcess

\* SwitchInv is inductive.
LEMMA SwitchStep == SwitchInv /\ [Next]_vars => SwitchInv'
  BY TypeStep, WeighStep, LockStep, RugStep, UndoneStep DEF SwitchInv

-----------------------------------------------------------------------------
(* The theorems.                                                           *)

\* SwitchInv holds for any number of operators, workers, rugs and strategies.
THEOREM SwitchInvariant == Spec => []SwitchInv
  BY SwitchInit, SwitchStep, PTL DEF Spec

\* rug_brake.pull_if_due: one worker process stops for one rug at most once.
THEOREM StopsOncePerRug == Spec => []OneStopPerRug
<1>1. ASSUME SwitchInv, NEW r \in Rugs, NEW p \in Processes PROVE presses[r][p] <= 1
  <2>1. presses[r][p] \in Nat /\ presses[r][p] <= IF r \in weighed[p] THEN 1 ELSE 0
    BY <1>1 DEF SwitchInv, TypeOK, WeighInv
  <2> QED
    BY <2>1
<1>2. SwitchInv => OneStopPerRug
  BY <1>1 DEF OneStopPerRug
<1> QED
  BY <1>2, SwitchInvariant, PTL

\* rug_brake.pull_if_due: over all the Starts that follow a rug, one process turns
\* one of them off for that rug at most, however often it restarts.
THEOREM RestartsAreUndoneOnce == Spec => []RestartIsUndoneOnce
<1>1. SwitchInv => RestartIsUndoneOnce
  BY DEF SwitchInv, UndoneInv, RestartIsUndoneOnce
<1> QED
  BY <1>1, SwitchInvariant, PTL

-----------------------------------------------------------------------------
(* The refinement of AtomicSwitch.                                         *)

Columns == {"enabled", "strategy", "ticket", "startedAt"}

\* A row is the function of its columns.
LEMMA RowIsFunction ==
    ASSUME NEW r \in Rows
    PROVE  DOMAIN r = Columns /\ r = [c \in Columns |-> r[c]]
  BY DEF Rows, Columns

\* A commit writes what its call wants to the columns it changes, and nothing else.
LEMMA WrittenColumns ==
    ASSUME TypeOK, NEW s \in Sessions
    PROVE  Written(s) = [c \in Columns |-> IF c \in Changed(s) THEN Wish(s)[c] ELSE row[c]]
<1>1. copy[s] \in Rows /\ row \in Rows /\ op[s] \in Ops /\ Written(s) \in Rows
  BY WrittenType DEF TypeOK
<1>2. CASE op[s].kind = "start"
  <2>1. /\ DOMAIN Wish(s) = Columns
        /\ Wish(s)["enabled"] = TRUE /\ Wish(s)["strategy"] = op[s].strategy
        /\ Wish(s)["ticket"] = op[s].ticket /\ Wish(s)["startedAt"] = op[s].when
    BY <1>2 DEF Wish, Columns
  <2>2. ASSUME NEW c \in Columns
        PROVE  Written(s)[c] = IF Wish(s)[c] # copy[s][c] THEN Wish(s)[c] ELSE row[c]
    <3>1. CASE c = "enabled"
      BY <1>1, <1>2, <2>1, <3>1 DEF Written, Assigned, Column
    <3>2. CASE c = "strategy"
      BY <1>1, <1>2, <2>1, <3>2 DEF Written, Assigned, Column
    <3>3. CASE c = "ticket"
      BY <1>1, <1>2, <2>1, <3>3 DEF Written, Assigned, Column
    <3>4. CASE c = "startedAt"
      BY <1>1, <1>2, <2>1, <3>4 DEF Written, Assigned, Column
    <3> QED
      BY <3>1, <3>2, <3>3, <3>4 DEF Columns
  <2>3. \A c \in Columns : c \in Changed(s) <=> Wish(s)[c] # copy[s][c]
    BY <2>1 DEF Changed
  <2> QED
    BY <1>1, <2>2, <2>3, RowIsFunction
<1>3. CASE op[s].kind # "start"
  <2>1. DOMAIN Wish(s) = {"enabled"} /\ Wish(s)["enabled"] = FALSE
    BY <1>3 DEF Wish
  <2>2. \A c \in Columns \ {"enabled"} : Written(s)[c] = row[c] /\ c \notin Changed(s)
    BY <1>1, <1>3, <2>1 DEF Written, Assigned, Column, Columns, Rows, Changed
  <2>3. /\ "enabled" \in Changed(s) <=> FALSE # copy[s]["enabled"]
        /\ Written(s)["enabled"] = IF FALSE # copy[s]["enabled"] THEN FALSE ELSE row["enabled"]
    BY <1>1, <1>3, <2>1 DEF Written, Assigned, Column, Changed, Rows
  <2>4. \A c \in Columns : Written(s)[c] = IF c \in Changed(s) THEN Wish(s)[c] ELSE row[c]
    BY <2>1, <2>2, <2>3 DEF Columns
  <2> QED
    BY <1>1, <2>4, RowIsFunction
<1> QED
  BY <1>2, <1>3

\* What one session's phase and what it has still to set depend on.
LEMMA SameSession ==
    ASSUME NEW o \in Sessions, at'[o] = at[o], op'[o] = op[o], copy'[o] = copy[o],
           last'[o] = last[o]
    PROVE  PhaseOf(o)' = PhaseOf(o) /\ TodoOf(o)' = TodoOf(o)
  BY DEF PhaseOf, TodoOf, Calling, Unset, Wish, Changed

\* A step that moves nobody's phase, sets nothing and leaves the row as it is.
LEMMA Stutters ==
    ASSUME \A s \in Sessions : PhaseOf(s)' = PhaseOf(s) /\ TodoOf(s)' = TodoOf(s), row' = row
    PROVE  UNCHANGED Register!switch
  BY DEF Register!switch

\* A session that has nothing to set has an empty function of what is left.
LEMMA NothingUnset ==
    ASSUME NEW s \in Sessions, at[s] \notin {"load", "flush", "commit"}
    PROVE  TodoOf(s) = Register!Nothing
<1>1. Unset(s) = {}
  BY DEF Unset
<1> QED
  BY <1>1 DEF TodoOf, Register!Nothing

\* The others keep their phase and what they have to set.
OthersKeep(s) == \A o \in Sessions \ {s} : PhaseOf(o)' = PhaseOf(o) /\ TodoOf(o)' = TodoOf(o)

\* A step of one session is an update of its own entries.
LEMMA OnlySession ==
    ASSUME NEW s \in Sessions, OthersKeep(s)
    PROVE  /\ [o \in Sessions |-> PhaseOf(o)'] =
                 [[o \in Sessions |-> PhaseOf(o)] EXCEPT ![s] = PhaseOf(s)']
           /\ [o \in Sessions |-> TodoOf(o)'] =
                 [[o \in Sessions |-> TodoOf(o)] EXCEPT ![s] = TodoOf(s)']
  BY DEF OthersKeep

\* A press is a call of the abstract switch.
LEMMA PressRefines ==
    ASSUME TypeOK, NEW s \in Sessions, at[s] \in {"idle", "worth", "owner"},
           at' = [at EXCEPT ![s] = "load"],
           \A o \in Sessions : o # s => op'[o] = op[o] /\ last'[o] = last[o],
           UNCHANGED <<row, copy>>
    PROVE  Register!Next
<1>1. \A o \in Sessions : o # s => at'[o] = at[o]
  BY DEF TypeOK
<1>2. OthersKeep(s)
  BY <1>1, SameSession DEF OthersKeep
<1>3. at'[s] = "load"
  BY DEF TypeOK
<1>4. PhaseOf(s) # "calling" /\ PhaseOf(s)' = "calling"
  BY <1>3 DEF TypeOK, PhaseOf, Calling
<1>5. DOMAIN TodoOf(s)' \subseteq DOMAIN row
  <2>1. DOMAIN Wish(s)' \subseteq Columns
    BY DEF Wish, Columns
  <2>2. DOMAIN TodoOf(s)' = DOMAIN Wish(s)'
    BY <1>3 DEF TodoOf, Unset
  <2>3. DOMAIN row = Columns
    BY RowIsFunction DEF TypeOK
  <2> QED
    BY <2>1, <2>2, <2>3
<1>6. Register!Call(s)
  BY <1>2, <1>4, <1>5, OnlySession DEF Register!Call, Register!Moves
<1> QED
  BY <1>6 DEF Register!Next

\* The entries of one session in the mapped functions.
LEMMA Entries ==
    ASSUME NEW s \in Sessions
    PROVE  /\ [o \in Sessions |-> TodoOf(o)][s] = TodoOf(s)
           /\ ([o \in Sessions |-> TodoOf(o)]')[s] = TodoOf(s)'
  OBVIOUS

\* A session that sets columns keeps everybody's phase and the others' entries.
LEMMA OthersMapped ==
    ASSUME NEW s \in Sessions, OthersKeep(s), PhaseOf(s)' = PhaseOf(s)
    PROVE  /\ UNCHANGED [o \in Sessions |-> PhaseOf(o)]
           /\ [o \in Sessions |-> TodoOf(o)]' =
                 [[o \in Sessions |-> TodoOf(o)] EXCEPT ![s] = TodoOf(s)']
  BY OnlySession DEF OthersKeep

\* Session s sets the columns S, from what it had to set, t, to what is left, u.
SetsColumns(S, t, u) ==
    /\ S = DOMAIN t \ DOMAIN u /\ S # {}
    /\ row' = [c \in DOMAIN row |-> IF c \in S THEN t[c] ELSE row[c]]
    /\ u = [c \in DOMAIN t \ S |-> t[c]]

\* The columns S of one call are set, and no longer to be set.
LEMMA SetRefines ==
    ASSUME NEW s \in Sessions, OthersKeep(s), PhaseOf(s)' = PhaseOf(s), NEW S,
           SetsColumns(S, TodoOf(s), TodoOf(s)')
    PROVE  Register!TakeEffect(s)
<1>1. PICK t, u, T, U : /\ t = TodoOf(s) /\ u = TodoOf(s)'
                        /\ T = [o \in Sessions |-> TodoOf(o)]
                        /\ U = [o \in Sessions |-> TodoOf(o)]'
  BY Zenon
<1>2. T[s] = t /\ U[s] = u /\ U = [T EXCEPT ![s] = u] /\ UNCHANGED [o \in Sessions |-> PhaseOf(o)]
  <2>1. T[s] = t /\ U[s] = u
    BY <1>1, Entries, Zenon
  <2>2. U = [T EXCEPT ![s] = u] /\ UNCHANGED [o \in Sessions |-> PhaseOf(o)]
    BY <1>1, OthersMapped, Zenon
  <2> QED
    BY <2>1, <2>2
<1>3. SetsColumns(S, t, u)
  BY <1>1, Zenon
<1>4. S = DOMAIN T[s] \ DOMAIN U[s] /\ S # {}
  BY <1>2, <1>3 DEF SetsColumns
<1>5. row' = [c \in DOMAIN row |-> IF c \in S THEN T[s][c] ELSE row[c]]
  BY <1>2, <1>3 DEF SetsColumns
<1>6. U = [T EXCEPT ![s] = [c \in DOMAIN T[s] \ S |-> T[s][c]]]
  <2>1. u = [c \in DOMAIN t \ S |-> t[c]]
    BY <1>3 DEF SetsColumns
  <2>2. [c \in DOMAIN t \ S |-> t[c]] = [c \in DOMAIN T[s] \ S |-> T[s][c]]
    BY <1>2
  <2> QED
    BY <1>2, <2>1, <2>2, Zenon
<1> DEFINE A == [o \in Sessions |-> TodoOf(o)]
           set == DOMAIN A[s] \ DOMAIN A'[s]
<1>7. A = T /\ A' = U
  BY <1>1, Zenon
<1>8. set = S
  <2> HIDE DEF A
  <2> QED
    BY <1>4, <1>7
<1>9. /\ set # {}
      /\ row' = [c \in DOMAIN row |-> IF c \in set THEN A[s][c] ELSE row[c]]
      /\ A' = [A EXCEPT ![s] = [c \in DOMAIN A[s] \ set |-> A[s][c]]]
  <2> HIDE DEF A, set
  <2> QED
    BY <1>4, <1>5, <1>6, <1>7, <1>8
<1> QED
  BY <1>2, <1>9, Zenon DEF Register!TakeEffect

\* A column that has its value is set as the call loads the row.
LEMMA LoadRefines ==
    ASSUME TypeOK, NEW s \in Sessions, Load(s)
    PROVE  Register!Next \/ UNCHANGED Register!switch
<1>1. OthersKeep(s)
  BY SameSession DEF TypeOK, Load, OthersKeep
<1>2. /\ at[s] = "load" /\ at'[s] = "flush" /\ copy'[s] = row /\ op' = op /\ row' = row
      /\ row \in Rows
  BY DEF TypeOK, Load
<1>3. Wish(s)' = Wish(s)
  BY <1>2 DEF Wish
<1>4. Unset(s) = DOMAIN Wish(s) /\ Unset(s)' = {c \in DOMAIN Wish(s) : Wish(s)[c] # row[c]}
  BY <1>2, <1>3 DEF Unset, Changed
<1>5. PhaseOf(s)' = PhaseOf(s)
  BY <1>2 DEF PhaseOf, Calling
<1>6. /\ DOMAIN TodoOf(s) = DOMAIN Wish(s) /\ \A c \in DOMAIN Wish(s) : TodoOf(s)[c] = Wish(s)[c]
      /\ TodoOf(s)' = [c \in {d \in DOMAIN Wish(s) : Wish(s)[d] # row[d]} |-> Wish(s)[c]]
  BY <1>3, <1>4 DEF TodoOf
<1> DEFINE set == DOMAIN TodoOf(s) \ DOMAIN TodoOf(s)'
<1>7. set = {c \in DOMAIN Wish(s) : Wish(s)[c] = row[c]}
  BY <1>6
<1>8. CASE set # {}
  <2>1. row' = [c \in DOMAIN row |-> IF c \in set THEN TodoOf(s)[c] ELSE row[c]]
    <3>1. \A c \in Columns : (IF c \in set THEN TodoOf(s)[c] ELSE row[c]) = row[c]
      BY <1>6, <1>7
    <3> QED
      BY <1>2, <3>1, RowIsFunction
  <2>2. TodoOf(s)' = [c \in DOMAIN TodoOf(s) \ set |-> TodoOf(s)[c]]
    BY <1>6, <1>7
  <2>3. Register!TakeEffect(s)
    <3>1. SetsColumns(set, TodoOf(s), TodoOf(s)')
      BY <1>8, <2>1, <2>2 DEF SetsColumns
    <3> QED
      BY <1>1, <1>5, <3>1, SetRefines
  <2> QED
    BY <2>3 DEF Register!Next
<1>9. CASE set = {}
  <2>1. TodoOf(s)' = TodoOf(s)
    BY <1>6, <1>7, <1>9 DEF TodoOf
  <2> QED
    BY <1>1, <1>2, <1>5, <2>1, Stutters DEF OthersKeep
<1> QED
  BY <1>8, <1>9

\* A commit sets every column that is still to be set, and no other.
LEMMA CommitRefines ==
    ASSUME TypeOK, NEW s \in Sessions, Commit(s)
    PROVE  Register!Next \/ UNCHANGED Register!switch
<1>1. OthersKeep(s)
  BY SameSession DEF TypeOK, Commit, Forget, OthersKeep
<1>2. at[s] = "commit" /\ at'[s] = "reply" /\ row \in Rows
  BY DEF TypeOK, Commit
<1>3. PhaseOf(s)' = PhaseOf(s)
  BY <1>2 DEF PhaseOf, Calling
<1>4. DOMAIN TodoOf(s) = Changed(s) /\ \A c \in Changed(s) : TodoOf(s)[c] = Wish(s)[c]
  BY <1>2 DEF TodoOf, Unset
<1>5. TodoOf(s)' = Register!Nothing /\ DOMAIN TodoOf(s)' = {}
  <2>1. Unset(s)' = {}
    BY <1>2 DEF Unset
  <2> QED
    BY <2>1 DEF TodoOf, Register!Nothing
<1>6. row' = [c \in Columns |-> IF c \in Changed(s) THEN Wish(s)[c] ELSE row[c]]
  BY WrittenColumns DEF Commit
<1>7. CASE Changed(s) # {}
  <2>1. row' = [c \in DOMAIN row |-> IF c \in Changed(s) THEN TodoOf(s)[c] ELSE row[c]]
    BY <1>2, <1>4, <1>6, RowIsFunction
  <2>2. TodoOf(s)' = [c \in DOMAIN TodoOf(s) \ Changed(s) |-> TodoOf(s)[c]]
    BY <1>4, <1>5 DEF Register!Nothing
  <2>3. Register!TakeEffect(s)
    <3>1. Changed(s) = DOMAIN TodoOf(s) \ DOMAIN TodoOf(s)'
      BY <1>4, <1>5
    <3>2. SetsColumns(Changed(s), TodoOf(s), TodoOf(s)')
      BY <1>7, <2>1, <2>2, <3>1 DEF SetsColumns
    <3> QED
      BY <1>1, <1>3, <3>2, SetRefines
  <2> QED
    BY <2>3 DEF Register!Next
<1>8. CASE Changed(s) = {}
  <2>1. row' = row
    BY <1>2, <1>6, <1>8, RowIsFunction
  <2>2. TodoOf(s)' = TodoOf(s)
    BY <1>2, <1>5, <1>8 DEF TodoOf, Unset, Register!Nothing
  <2> QED
    BY <1>1, <1>3, <2>1, <2>2, Stutters DEF OthersKeep
<1> QED
  BY <1>7, <1>8

\* The answer of a call.
LEMMA ReplyRefines ==
    ASSUME TypeOK, NEW s \in Sessions, Reply(s)
    PROVE  Register!Next
<1>1. OthersKeep(s)
  BY SameSession DEF TypeOK, Reply, OthersKeep
<1>2. at[s] = "reply" /\ at'[s] = "idle" /\ last'[s] = "ok" /\ row' = row
  BY DEF TypeOK, Reply
<1>3. PhaseOf(s) = "calling" /\ PhaseOf(s)' = "ok"
  BY <1>2 DEF PhaseOf, Calling
<1>4. Unset(s) = {} /\ Unset(s)' = {}
  BY <1>2 DEF Unset
<1>5. TodoOf(s)' = TodoOf(s) /\ DOMAIN TodoOf(s) = {}
  BY <1>4 DEF TodoOf
<1>6. Register!Answer(s)
  <2>1. [o \in Sessions |-> TodoOf(o)'] = [o \in Sessions |-> TodoOf(o)]
    BY <1>1, <1>5 DEF OthersKeep
  <2> QED
    BY <1>1, <1>2, <1>3, <1>5, <2>1, OnlySession DEF Register!Answer, Register!Moves
<1> QED
  BY <1>6 DEF Register!Next

\* A call that fails, and a tick that ends before it calls.
LEMMA RollbackRefines ==
    ASSUME TypeOK, NEW s \in Sessions, Rollback(s)
    PROVE  Register!Next \/ UNCHANGED Register!switch
<1>1. OthersKeep(s)
  BY SameSession DEF TypeOK, Rollback, Forget, OthersKeep
<1>2. at'[s] = "idle" /\ row' = row
  BY DEF TypeOK, Rollback
<1>3. TodoOf(s)' = Register!Nothing
  <2>1. Unset(s)' = {}
    BY <1>2 DEF Unset
  <2> QED
    BY <2>1 DEF TodoOf, Register!Nothing
<1>4. CASE at[s] \in {"load", "flush", "commit"}
  <2>1. last'[s] = "failed"
    BY <1>4 DEF TypeOK, Rollback, Calling
  <2>2. PhaseOf(s) = "calling" /\ PhaseOf(s)' = "failed"
    BY <1>2, <1>4, <2>1 DEF PhaseOf, Calling
  <2>3. Register!Fail(s)
    BY <1>1, <1>2, <1>3, <2>2, OnlySession DEF Register!Fail, Register!Moves
  <2> QED
    BY <2>3 DEF Register!Next
<1>5. CASE at[s] \in {"worth", "owner"}
  <2>1. last'[s] = last[s]
    BY <1>5 DEF TypeOK, Rollback, Calling
  <2>2. PhaseOf(s)' = PhaseOf(s)
    BY <1>2, <1>5, <2>1 DEF PhaseOf, Calling
  <2>3. TodoOf(s)' = TodoOf(s)
    BY <1>3, <1>5, NothingUnset
  <2> QED
    BY <1>1, <1>2, <2>2, <2>3, Stutters DEF OthersKeep
<1> QED
  BY <1>4, <1>5 DEF Rollback

\* A step that calls nothing moves no phase.
LEMMA QuietStep ==
    ASSUME TypeOK, NEW s \in Sessions,
           at[s] \in {"idle", "worth", "owner"}, at'[s] \in {"idle", "worth", "owner"},
           \A o \in Sessions : o # s => at'[o] = at[o],
           UNCHANGED <<row, op, copy, last>>
    PROVE  UNCHANGED Register!switch
<1>1. OthersKeep(s)
  BY SameSession DEF OthersKeep
<1>2. PhaseOf(s)' = PhaseOf(s)
  BY DEF PhaseOf, Calling
<1>3. Unset(s) = {} /\ Unset(s)' = {}
  BY DEF Unset
<1>4. TodoOf(s)' = TodoOf(s)
  BY <1>3 DEF TodoOf
<1> QED
  BY <1>1, <1>2, <1>4, Stutters DEF OthersKeep

\* Every step of the detailed switch is a step of the abstract one or none.
LEMMA NextRefines ==
    ASSUME TypeOK, [Next]_vars
    PROVE  Register!Next \/ UNCHANGED Register!switch
<1> DEFINE Goal == Register!Next \/ UNCHANGED Register!switch
<1>1. CASE UNCHANGED <<row, at, op, copy, last>>
  <2>1. \A o \in Sessions : PhaseOf(o)' = PhaseOf(o) /\ TodoOf(o)' = TodoOf(o)
    BY <1>1, SameSession
  <2> QED
    BY <1>1, <2>1, Stutters
<1>2. ASSUME NEW q \in Requests, PressStart(q) \/ PressStop(q) PROVE Goal
  <2>1. /\ q \in Sessions /\ at[q] \in {"idle", "worth", "owner"}
        /\ at' = [at EXCEPT ![q] = "load"] /\ UNCHANGED <<row, copy>>
        /\ \A o \in Sessions : o # q => op'[o] = op[o] /\ last'[o] = last[o]
    BY <1>2 DEF TypeOK, PressStart, PressStop, Sessions
  <2> QED
    BY <2>1, PressRefines
<1>3. ASSUME NEW p \in Processes, BrakeStop(p) \/ FloorStop(p) PROVE Goal
  <2>1. /\ p \in Sessions /\ at[p] \in {"idle", "worth", "owner"}
        /\ at' = [at EXCEPT ![p] = "load"] /\ UNCHANGED <<row, copy>>
        /\ \A o \in Sessions : o # p => op'[o] = op[o] /\ last'[o] = last[o]
    BY <1>3 DEF TypeOK, BrakeStop, FloorStop, Sessions
  <2> QED
    BY <2>1, PressRefines
<1>4. ASSUME NEW s \in Sessions, Load(s) \/ Commit(s) \/ Reply(s) \/ Rollback(s) PROVE Goal
  BY <1>4, LoadRefines, CommitRefines, ReplyRefines, RollbackRefines
<1>5. ASSUME NEW s \in Sessions, Flush(s) PROVE Goal
  <2>1. at[s] = "flush" /\ at'[s] = "commit" /\ \A o \in Sessions : o # s => at'[o] = at[o]
    BY <1>5 DEF TypeOK, Flush
  <2>2. UNCHANGED <<row, op, copy, last>>
    BY <1>5 DEF Flush
  <2>3. OthersKeep(s)
    BY <2>1, <2>2, SameSession DEF OthersKeep
  <2>4. PhaseOf(s)' = PhaseOf(s)
    BY <2>1 DEF PhaseOf, Calling
  <2>5. TodoOf(s)' = TodoOf(s)
    BY <2>1, <2>2 DEF TodoOf, Unset, Wish, Changed
  <2> QED
    BY <2>2, <2>3, <2>4, <2>5, Stutters DEF OthersKeep
<1>6. ASSUME NEW p \in Processes, BrakeRead(p) \/ WorthUnread(p) \/ BrakeHeld(p) \/ EndTick(p)
      PROVE  Goal
  <2>1. /\ p \in Sessions /\ at[p] \in {"idle", "worth", "owner"}
        /\ UNCHANGED <<row, op, copy, last>>
    BY <1>6 DEF BrakeRead, WorthUnread, BrakeHeld, EndTick, Sessions
  <2>2. \E a \in {"idle", "worth", "owner"} : at' = [at EXCEPT ![p] = a]
    BY <1>6 DEF BrakeRead, WorthUnread, BrakeHeld, EndTick
  <2>3. /\ at'[p] \in {"idle", "worth", "owner"}
        /\ \A o \in Sessions : o # p => at'[o] = at[o]
    BY <2>1, <2>2 DEF TypeOK
  <2> QED
    BY <2>1, <2>3, QuietStep
<1> QED
  BY <1>1, <1>2, <1>3, <1>4, <1>5, <1>6 DEF Next, vars, local, RestartProcess, RugCloses

\* ImplementsSwitch: every column that an answered START or STOP sets took its
\* value once, between the press and the answer, for any number of operators and
\* workers and however their columns mix.
THEOREM SwitchIsAtomic == Spec => ImplementsSwitch
<1>1. Init => Register!Init
  <2> SUFFICES ASSUME Init PROVE Register!Init
    OBVIOUS
  <2>1. \A s \in Sessions : at[s] = "idle" /\ last[s] = "ok"
    BY DEF Init
  <2>2. \A s \in Sessions : PhaseOf(s) = "ok"
    BY <2>1 DEF PhaseOf, Calling
  <2>3. \A s \in Sessions : TodoOf(s) = Register!Nothing
    BY <2>1, NothingUnset
  <2> QED
    BY <2>2, <2>3 DEF Init, Register!Init
<1>2. SwitchInv /\ [Next]_vars => [Register!Next]_(Register!switch)
  BY NextRefines DEF SwitchInv
<1> QED
  BY SwitchInvariant, <1>1, <1>2, PTL DEF Spec, ImplementsSwitch, Register!Spec
=============================================================================
