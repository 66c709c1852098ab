------------------------ MODULE FeeCollectionProofs ------------------------
(***************************************************************************)
(* For any number of requests, months and trades: a month's fee is carried *)
(* by at most one transfer, because HeldInv is inductive.                   *)
(***************************************************************************)
EXTENDS FeeCollection, WellFoundedInduction, TLAPS

-----------------------------------------------------------------------------
(* Charging.                                                               *)

\* A row for the month is well typed.
LEMMA FeeForType ==
    ASSUME NEW profit \in Int, NEW hwm \in Int
    PROVE  FeeFor(profit, hwm) \in FeeRows
<1>1. ASSUME profit > hwm PROVE (profit - hwm) \div Share \in Int
  BY FeeAssumption
<1> QED
  BY <1>1 DEF FeeFor, FeeRows

\* The order of the naturals as a set of pairs.
Before == {ss \in Nat \X Nat : ss[1] < ss[2]}

\* A set of months that is not empty has a last one.
LEMMA LastMonth ==
    ASSUME NEW W \in SUBSET Months, W # {}
    PROVE  \E m \in W : \A k \in W : k <= m
<1> DEFINE T == {MaxMonth - m : m \in W}
<1>1. T \subseteq Nat /\ T # {}
  <2>1. \A m \in W : MaxMonth - m \in Nat
    BY FeeAssumption DEF Months
  <2> QED
    BY <2>1
<1>2. IsWellFoundedOn(Before, Nat)
  BY NatLessThanWellFounded, Zenon DEF OpToRel, Before
<1>3. \E x \in T : \A y \in T : ~(<<y, x>> \in Before)
  <2> HIDE DEF T
  <2> QED
    BY <1>1, <1>2, WFMin
<1>4. PICK m \in W : \A k \in W : ~(<<MaxMonth - k, MaxMonth - m>> \in Before)
  BY <1>3
<1>5. \A k \in W : k <= m
  <2> SUFFICES ASSUME NEW k \in W PROVE k <= m
    OBVIOUS
  <2>1. MaxMonth - k \in Nat /\ MaxMonth - m \in Nat /\ k \in Int /\ m \in Int
    BY FeeAssumption DEF Months
  <2>2. ~(MaxMonth - k < MaxMonth - m)
    BY <2>1, <1>4 DEF Before
  <2> QED
    BY <2>1, <2>2, FeeAssumption
<1> QED
  BY <1>5

\* The mark read from the table is a number.
LEMMA MarkType ==
    ASSUME TypeOK
    PROVE  Mark(fees) \in Int
<1>1. CASE Written(fees) = {}
  BY <1>1 DEF Mark
<1>2. CASE Written(fees) # {}
  <2>1. Written(fees) \in SUBSET Months
    BY DEF Written
  <2>2. \E m \in Written(fees) : \A k \in Written(fees) : k <= m
    BY <2>1, <1>2, LastMonth
  <2>3. PICK m \in Written(fees) : Mark(fees) = fees[m].after
    BY <2>2, <1>2 DEF Mark
  <2> QED
    BY <2>1, <2>3 DEF TypeOK, FeeRows
<1> QED
  BY <1>1, <1>2

-----------------------------------------------------------------------------
(* The invariant.                                                          *)

\* The table and the requests start empty.
LEMMA FeeInit == Init => HeldInv
<1> SUFFICES ASSUME Init PROVE HeldInv
  OBVIOUS
<1> USE DEF Init
<1>1. NoRow \in FeeRows /\ Idle \in RequestStates /\ Idle.at = "idle" /\ Idle.rows = {}
  BY FeeAssumption DEF NoRow, FeeRows, Idle, RequestStates
<1>2. TypeOK
  <2>1. month \in Months /\ total \in [Months -> Int] /\ trades \in 0..MaxTrades
    BY FeeAssumption DEF Months
  <2>2. trading \in BOOLEAN
    BY Zenon
  <2>3. sends \in Seq(SUBSET Months)
    OBVIOUS
  <2>4. fees \in [Months -> FeeRows] /\ req \in [Requests -> RequestStates]
    BY <1>1
  <2>5. \A r \in Requests : req[r].at = "charging" => req[r].period \in Months
    BY <1>1
  <2> QED
    BY <2>1, <2>2, <2>3, <2>4, <2>5 DEF TypeOK
<1>3. OwnRows /\ HeldStatus /\ UnsentRows /\ SentStatus /\ FeeSentOnce
  BY <1>1 DEF OwnRows, Holding, HeldStatus, UnsentRows, SentStatus, FeeSentOnce
<1> QED
  BY <1>2, <1>3 DEF HeldInv

\* A request's record after a step that only moves it on.
LEMMA Moved ==
    ASSUME TypeOK, NEW r \in Requests, NEW a, req' = [req EXCEPT ![r].at = a],
           a \in {"selected", "signed", "sending", "answered", "unanswered"}
    PROVE  /\ req' \in [Requests -> RequestStates]
           /\ req'[r].at = a /\ req'[r].rows = req[r].rows
           /\ \A q \in Requests : q # r => req'[q] = req[q]
  BY DEF TypeOK, RequestStates

\* A request's record after a step that starts or ends one.
LEMMA Replaced ==
    ASSUME TypeOK, NEW r \in Requests, NEW v \in RequestStates,
           req' = [req EXCEPT ![r] = v]
    PROVE  /\ req' \in [Requests -> RequestStates]
           /\ req'[r] = v
           /\ \A q \in Requests : q # r => req'[q] = req[q]
  BY DEF TypeOK

\* A request at rest is one.
LEMMA IdleType ==
    Idle \in RequestStates /\ Idle.at = "idle" /\ Idle.rows = {}
  BY FeeAssumption DEF Idle, RequestStates

\* A transfer carries months.
LEMMA SentMonths ==
    ASSUME TypeOK, NEW i \in DOMAIN sends
    PROVE  sends[i] \in SUBSET Months
  BY DEF TypeOK

\* The calendar and the trades leave the table and the requests alone.
LEMMA WorldStep ==
    ASSUME HeldInv, NextMonth \/ StartTrade \/ \E d \in Pnl : EndTrade(d)
    PROVE  HeldInv'
<1> USE DEF HeldInv
<1>1. UNCHANGED <<fees, req, sends, torn>>
  BY DEF NextMonth, StartTrade, EndTrade
<1>2. OwnRows' /\ HeldStatus' /\ UnsentRows' /\ SentStatus' /\ FeeSentOnce'
  BY <1>1 DEF OwnRows, HeldStatus, UnsentRows, SentStatus, FeeSentOnce
<1>3. month' \in Months
  BY FeeAssumption DEF NextMonth, StartTrade, EndTrade, TypeOK, Months
<1>4. trades' \in 0..MaxTrades /\ trading' \in BOOLEAN
  <2>1. CASE NextMonth
    BY <2>1 DEF NextMonth, TypeOK
  <2>2. CASE StartTrade
    BY <2>2 DEF StartTrade, TypeOK
  <2>3. ASSUME NEW d \in Pnl, EndTrade(d)
        PROVE  trades' \in 0..MaxTrades /\ trading' \in BOOLEAN
    <3>1. trades' \in 0..MaxTrades
      BY <2>3, FeeAssumption DEF EndTrade, TypeOK
    <3>2. trading' \in BOOLEAN
      BY <2>3, Zenon DEF EndTrade
    <3> QED
      BY <3>1, <3>2
  <2> QED
    BY <2>1, <2>2, <2>3
<1>5. total' \in [Months -> Int]
  <2>1. CASE NextMonth \/ StartTrade
    BY <2>1 DEF NextMonth, StartTrade, TypeOK
  <2>2. ASSUME NEW d \in Pnl, EndTrade(d) PROVE total' \in [Months -> Int]
    <3>1. PICK stamp \in {month - 1, month} \ {0} :
              total' = [m \in Months |-> IF m >= stamp THEN total[m] + d ELSE total[m]]
      BY <2>2 DEF EndTrade
    <3>2. d \in Int /\ \A m \in Months : total[m] \in Int
      BY FeeAssumption DEF TypeOK
    <3> QED
      BY <3>1, <3>2
  <2> QED
    BY <2>1, <2>2
<1> QED
  BY <1>1, <1>2, <1>3, <1>4, <1>5 DEF TypeOK

\* A page that charges reads the mark and holds no row.
LEMMA ChargeReadStep ==
    ASSUME HeldInv, NEW r \in Requests, ChargeRead(r)
    PROVE  HeldInv'
<1> USE DEF HeldInv
<1> DEFINE v == [at |-> "charging", period |-> month - 1, hwm |-> Mark(fees), rows |-> {}]
<1>1. v \in RequestStates /\ v.at = "charging" /\ v.rows = {} /\ v.period \in Months
  <2>1. month - 1 \in Months /\ month - 1 \in 0..MaxMonth
    BY FeeAssumption DEF ChargeRead, TypeOK, Months
  <2>2. Mark(fees) \in Int
    BY MarkType
  <2> QED
    BY <2>1, <2>2 DEF RequestStates
<1>2. req' = [req EXCEPT ![r] = v]
  BY DEF ChargeRead
<1> HIDE DEF v
<1>3. /\ req' \in [Requests -> RequestStates] /\ req'[r] = v
      /\ \A q \in Requests : q # r => req'[q] = req[q]
  BY <1>1, <1>2, Replaced
<1>4. TypeOK'
  BY <1>1, <1>3 DEF ChargeRead, TypeOK
<1> QED
  BY <1>1, <1>3, <1>4 DEF ChargeRead, OwnRows, HeldStatus, UnsentRows, SentStatus,
                          FeeSentOnce, Holding

\* The row it writes was missing, so nobody holds it and no transfer has it.
LEMMA ChargeWriteStep ==
    ASSUME HeldInv, NEW r \in Requests, ChargeWrite(r)
    PROVE  HeldInv'
<1> USE DEF HeldInv
<1> DEFINE p == req[r].period
<1>1. p \in Months /\ req[r].hwm \in Int /\ total[p] \in Int
  BY DEF ChargeWrite, TypeOK, RequestStates
<1>2. FeeFor(total[p], req[r].hwm) \in FeeRows
  BY <1>1, FeeForType
<1>3. /\ fees' \in [Months -> FeeRows]
      /\ \A m \in Months : fees[m].status # "missing" => fees'[m] = fees[m]
  BY <1>1, <1>2 DEF ChargeWrite, TypeOK
<1>4. /\ req' \in [Requests -> RequestStates] /\ req'[r] = Idle
      /\ \A q \in Requests : q # r => req'[q] = req[q]
  BY IdleType, Replaced DEF ChargeWrite
<1>5. TypeOK'
  BY <1>3, <1>4, IdleType DEF ChargeWrite, TypeOK
<1>6. HeldStatus' /\ SentStatus'
  BY <1>3, <1>4, IdleType DEF ChargeWrite, HeldStatus, SentStatus, TypeOK, RequestStates
<1> QED
  BY <1>4, <1>5, <1>6, IdleType
     DEF ChargeWrite, OwnRows, UnsentRows, FeeSentOnce, Holding

\* The rows a button selects are due and nobody else's.
LEMMA SelectStep ==
    ASSUME HeldInv, NEW r \in Requests, CollectSelect(r)
    PROVE  HeldInv'
<1> USE DEF HeldInv
<1> DEFINE v == [at |-> "selected", period |-> 0, hwm |-> 0, rows |-> Due]
<1>1. v \in RequestStates /\ v.at = "selected" /\ v.rows = Due
  BY FeeAssumption DEF RequestStates, Due
<1>2. req' = [req EXCEPT ![r] = v]
  BY DEF CollectSelect
<1> HIDE DEF v
<1>3. /\ req' \in [Requests -> RequestStates] /\ req'[r] = v
      /\ \A q \in Requests : q # r => req'[q] = req[q]
  BY <1>1, <1>2, Replaced
<1>4. TypeOK'
  BY <1>1, <1>3 DEF CollectSelect, TypeOK
<1>5. \A q \in Requests : q # r /\ req[q].at \in Holding => req[q].rows \cap Due = {}
  <2> SUFFICES ASSUME NEW q \in Requests, q # r, req[q].at \in Holding
               PROVE  req[q].rows \cap Due = {}
    OBVIOUS
  <2>1. CASE req[q].at \in {"selected", "signed"}
    BY <2>1 DEF CollectSelect, Locked
  <2>2. CASE req[q].at \notin {"selected", "signed"}
    BY <2>2 DEF HeldStatus, Holding, Due
  <2> QED
    BY <2>1, <2>2
<1>6. OwnRows'
  BY <1>1, <1>3, <1>5 DEF OwnRows, Holding
<1>7. HeldStatus'
  BY <1>1, <1>3 DEF CollectSelect, HeldStatus, Due
<1> QED
  BY <1>1, <1>3, <1>4, <1>6, <1>7
     DEF CollectSelect, UnsentRows, SentStatus, FeeSentOnce

\* Signing moves the request on and touches no row.
LEMMA SignStep ==
    ASSUME HeldInv, NEW r \in Requests, CollectSign(r)
    PROVE  HeldInv'
<1> USE DEF HeldInv
<1>1. /\ req' \in [Requests -> RequestStates]
      /\ req'[r].at = "signed" /\ req'[r].rows = req[r].rows
      /\ \A q \in Requests : q # r => req'[q] = req[q]
  BY Moved DEF CollectSign
<1>2. TypeOK'
  BY <1>1 DEF CollectSign, TypeOK
<1> QED
  BY <1>1, <1>2 DEF CollectSign, OwnRows, HeldStatus, UnsentRows, SentStatus,
                    FeeSentOnce, Holding

\* A request that ends, refused or dead, gives its rows up as they are.
LEMMA GiveUpStep ==
    ASSUME HeldInv, NEW r \in Requests, CollectRefuse(r) \/ Die(r)
    PROVE  HeldInv'
<1> USE DEF HeldInv
<1>1. /\ req' = [req EXCEPT ![r] = Idle]
      /\ UNCHANGED <<month, total, trades, trading, fees, sends, torn>>
  BY DEF CollectRefuse, Die
<1>2. /\ req' \in [Requests -> RequestStates] /\ req'[r] = Idle
      /\ \A q \in Requests : q # r => req'[q] = req[q]
  BY <1>1, IdleType, Replaced
<1>3. TypeOK'
  BY <1>1, <1>2, IdleType DEF TypeOK
<1> QED
  BY <1>1, <1>2, <1>3, IdleType
     DEF OwnRows, HeldStatus, UnsentRows, SentStatus, FeeSentOnce, Holding

\* What a change of status does to the table.
LEMMA SetStatusRows ==
    ASSUME TypeOK, NEW rows \in SUBSET Months, NEW status \in {"sending", "paid", "uncertain"}
    PROVE  /\ SetStatus(rows, status) \in [Months -> FeeRows]
           /\ \A m \in rows : SetStatus(rows, status)[m].status = status
           /\ \A m \in Months : m \notin rows => SetStatus(rows, status)[m] = fees[m]
  BY DEF SetStatus, TypeOK, FeeRows

\* The rows committed as "sending" were due: no transfer has them.
LEMMA CommitStep ==
    ASSUME HeldInv, NEW r \in Requests, CollectCommit(r)
    PROVE  HeldInv'
<1> USE DEF HeldInv
<1>1. req[r].rows \in SUBSET Months
  BY DEF TypeOK, RequestStates
<1>2. /\ fees' \in [Months -> FeeRows]
      /\ \A m \in req[r].rows : fees'[m].status = "sending"
      /\ \A m \in Months : m \notin req[r].rows => fees'[m] = fees[m]
  BY <1>1, SetStatusRows DEF CollectCommit
<1>3. /\ req' \in [Requests -> RequestStates]
      /\ req'[r].at = "sending" /\ req'[r].rows = req[r].rows
      /\ \A q \in Requests : q # r => req'[q] = req[q]
  BY Moved DEF CollectCommit
<1>4. TypeOK'
  BY <1>2, <1>3 DEF CollectCommit, TypeOK
<1>5. OwnRows'
  BY <1>3 DEF CollectCommit, OwnRows, Holding
<1>6. HeldStatus'
  <2> SUFFICES ASSUME NEW q \in Requests, NEW m \in req'[q].rows
               PROVE  /\ req'[q].at \in {"selected", "signed"} => fees'[m].status = "due"
                      /\ req'[q].at \in {"sending", "answered", "unanswered"}
                             => fees'[m].status = "sending"
    BY DEF HeldStatus
  <2>1. CASE q = r
    BY <2>1, <1>2, <1>3
  <2>2. CASE q # r
    <3>1. m \in Months /\ req'[q] = req[q] /\ m \in req[q].rows
      BY <2>2, <1>3 DEF TypeOK, RequestStates
    <3>2. req[q].at \in Holding => m \notin req[r].rows
      BY <2>2, <3>1 DEF OwnRows, CollectCommit, Holding
    <3> QED
      BY <3>1, <3>2, <1>2 DEF HeldStatus, Holding
  <2> QED
    BY <2>1, <2>2
<1>7. UnsentRows'
  BY <1>3 DEF CollectCommit, UnsentRows, HeldStatus, SentStatus
<1>8. SentStatus'
  BY <1>2, SentMonths DEF CollectCommit, SentStatus
<1> QED
  BY <1>4, <1>5, <1>6, <1>7, <1>8 DEF CollectCommit, FeeSentOnce

\* The rows of the transfer that leaves are in no other.
LEMMA SendStep ==
    ASSUME HeldInv, NEW r \in Requests, NEW leaves \in BOOLEAN, NEW answered \in BOOLEAN,
           CollectSend(r, leaves, answered)
    PROVE  HeldInv'
<1> USE DEF HeldInv
<1> DEFINE a == IF answered THEN "answered" ELSE "unanswered"
           t == req[r].rows
<1>1. a \in {"answered", "unanswered"} /\ req' = [req EXCEPT ![r].at = a]
  BY DEF CollectSend
<1> HIDE DEF a
<1>2. /\ req' \in [Requests -> RequestStates]
      /\ req'[r].at = a /\ req'[r].rows = req[r].rows
      /\ \A q \in Requests : q # r => req'[q] = req[q]
  BY <1>1, Moved
<1>3. t \in SUBSET Months /\ t = req[r].rows
  BY DEF TypeOK, RequestStates
<1>4. sends' = sends \/ sends' = Append(sends, t)
  BY DEF CollectSend
<1> HIDE DEF t
<1>5. sends' \in Seq(SUBSET Months)
  <2>1. sends \in Seq(SUBSET Months)
    BY DEF TypeOK
  <2>2. Append(sends, t) \in Seq(SUBSET Months)
    BY <2>1, <1>3
  <2> QED
    BY <2>1, <2>2, <1>4
<1>6. TypeOK'
  BY <1>1, <1>2, <1>5 DEF CollectSend, TypeOK
<1>7. \A i \in DOMAIN sends' :
          \/ i \in DOMAIN sends /\ sends'[i] = sends[i]
          \/ i = Len(sends) + 1 /\ sends'[i] = t
  <2>1. sends \in Seq(SUBSET Months)
    BY DEF TypeOK
  <2>2. CASE sends' = sends
    BY <2>1, <2>2
  <2>3. CASE sends' = Append(sends, t)
    <3>1. Len(sends) \in Nat /\ DOMAIN sends = 1..Len(sends)
      BY <2>1
    <3>2. DOMAIN sends' = 1..(Len(sends) + 1)
      BY <2>1, <2>3, <1>3
    <3>3. sends'[Len(sends) + 1] = t /\ \A i \in 1..Len(sends) : sends'[i] = sends[i]
      BY <2>1, <2>3, <1>3
    <3> QED
      BY <3>1, <3>2, <3>3
  <2> QED
    BY <2>2, <2>3, <1>4
<1>8. OwnRows' /\ HeldStatus'
  BY <1>1, <1>2 DEF CollectSend, OwnRows, HeldStatus, Holding
<1>9. UnsentRows'
  BY <1>1, <1>2, <1>3, <1>7 DEF CollectSend, UnsentRows, OwnRows, Holding
<1>10. SentStatus'
  BY <1>3, <1>7 DEF CollectSend, SentStatus, HeldStatus
<1>11. FeeSentOnce'
  BY <1>3, <1>7 DEF CollectSend, FeeSentOnce, UnsentRows
<1> QED
  BY <1>6, <1>8, <1>9, <1>10, <1>11

\* The answer turns "sending" into "paid" or "uncertain", never back to due.
LEMMA EndStep ==
    ASSUME HeldInv, NEW r \in Requests, CollectEnd(r)
    PROVE  HeldInv'
<1> USE DEF HeldInv
<1> DEFINE st == IF req[r].at = "answered" THEN "paid" ELSE "uncertain"
<1>1. req[r].rows \in SUBSET Months
  BY DEF TypeOK, RequestStates
<1>2. st \in {"sending", "paid", "uncertain"} /\ fees' = SetStatus(req[r].rows, st)
  BY DEF CollectEnd
<1> HIDE DEF st
<1>3. /\ fees' \in [Months -> FeeRows]
      /\ \A m \in req[r].rows : fees'[m].status = st
      /\ \A m \in Months : m \notin req[r].rows => fees'[m] = fees[m]
  BY <1>1, <1>2, SetStatusRows
<1>4. /\ req' \in [Requests -> RequestStates] /\ req'[r] = Idle
      /\ \A q \in Requests : q # r => req'[q] = req[q]
  BY IdleType, Replaced DEF CollectEnd
<1>5. TypeOK'
  BY <1>3, <1>4, IdleType DEF CollectEnd, TypeOK
<1>6. OwnRows' /\ UnsentRows'
  BY <1>4, IdleType DEF CollectEnd, OwnRows, UnsentRows, Holding
<1>7. HeldStatus'
  <2> SUFFICES ASSUME NEW q \in Requests, NEW m \in req'[q].rows
               PROVE  /\ req'[q].at \in {"selected", "signed"} => fees'[m].status = "due"
                      /\ req'[q].at \in {"sending", "answered", "unanswered"}
                             => fees'[m].status = "sending"
    BY DEF HeldStatus
  <2>1. q # r
    BY <1>4, IdleType
  <2>2. m \in Months /\ req'[q] = req[q] /\ m \in req[q].rows
    BY <2>1, <1>4 DEF TypeOK, RequestStates
  <2>3. req[q].at \in Holding => m \notin req[r].rows
    BY <2>1, <2>2 DEF OwnRows, CollectEnd, Holding
  <2> QED
    BY <2>2, <2>3, <1>3 DEF HeldStatus, Holding
<1>8. SentStatus'
  BY <1>2, <1>3, SentMonths DEF CollectEnd, SentStatus
<1> QED
  BY <1>5, <1>6, <1>7, <1>8 DEF CollectEnd, FeeSentOnce

\* HeldInv is inductive.
LEMMA FeeStep == HeldInv /\ [Next]_vars => HeldInv'
<1> SUFFICES ASSUME HeldInv, [Next]_vars PROVE HeldInv'
  OBVIOUS
<1>1. CASE UNCHANGED vars
  BY <1>1 DEF vars, HeldInv, TypeOK, OwnRows, HeldStatus, UnsentRows, SentStatus, FeeSentOnce
<1>2. CASE Next
  BY <1>2, WorldStep, ChargeReadStep, ChargeWriteStep, SelectStep, SignStep, GiveUpStep,
     CommitStep, SendStep, EndStep DEF Next
<1> QED
  BY <1>1, <1>2

-----------------------------------------------------------------------------
(* What is paid was sent.                                                  *)

\* A transfer that left carries month m.
Carried(m) == \E i \in DOMAIN sends : m \in sends[i]

\* No step takes a transfer back.
LEMMA CarriedStays ==
    ASSUME HeldInv, [Next]_vars, NEW m, Carried(m)
    PROVE  Carried(m)'
<1>1. CASE sends' = sends
  BY <1>1 DEF Carried
<1>2. ASSUME NEW r \in Requests, NEW leaves \in BOOLEAN, NEW answered \in BOOLEAN,
             CollectSend(r, leaves, answered)
      PROVE  Carried(m)'
  <2>1. sends \in Seq(SUBSET Months) /\ req[r].rows \in SUBSET Months
    BY DEF HeldInv, TypeOK, RequestStates
  <2>2. PICK i \in DOMAIN sends : m \in sends[i]
    BY DEF Carried
  <2>3. i \in DOMAIN sends' /\ sends'[i] = sends[i]
    BY <1>2, <2>1, <2>2 DEF CollectSend
  <2> QED
    BY <2>2, <2>3 DEF Carried
<1> QED
  BY <1>1, <1>2 DEF Next, vars, NextMonth, StartTrade, EndTrade, ChargeRead, ChargeWrite,
     CollectSelect, CollectSign, CollectRefuse, CollectCommit, CollectEnd, Die

\* The rows of a send that is answered are carried.
LEMMA AnsweredCarries ==
    ASSUME HeldInv, NEW r \in Requests, NEW leaves \in BOOLEAN, NEW m \in req[r].rows,
           CollectSend(r, leaves, TRUE)
    PROVE  Carried(m)'
<1>1. sends \in Seq(SUBSET Months) /\ req[r].rows \in SUBSET Months
  BY DEF HeldInv, TypeOK, RequestStates
<1>2. sends' = Append(sends, req[r].rows)
  BY DEF CollectSend
<1>3. Len(sends) + 1 \in DOMAIN sends' /\ sends'[Len(sends) + 1] = req[r].rows
  BY <1>1, <1>2
<1> QED
  BY <1>3 DEF Carried

\* A request comes to "answered" only by a send that is answered.
LEMMA AnsweredStep ==
    ASSUME HeldInv, AnsweredSent, [Next]_vars
    PROVE  AnsweredSent'
<1> SUFFICES ASSUME NEW q \in Requests, NEW m \in req'[q].rows, req'[q].at = "answered"
             PROVE  Carried(m)'
  BY DEF AnsweredSent, Carried
<1>1. CASE req'[q] = req[q]
  <2>1. Carried(m)
    BY <1>1 DEF AnsweredSent, Carried
  <2> QED
    BY <2>1, CarriedStays
<1>2. CASE req'[q] # req[q]
  <2> USE DEF HeldInv
  <2>3. ASSUME NEW r \in Requests, NEW v, v.at # "answered", req' = [req EXCEPT ![r] = v]
        PROVE  FALSE
    BY <1>2, <2>3 DEF TypeOK
  <2>4. ASSUME NEW r \in Requests, ChargeRead(r) \/ CollectSelect(r) PROVE FALSE
    BY <2>3, <2>4 DEF ChargeRead, CollectSelect
  <2>5. ASSUME NEW r \in Requests, ChargeWrite(r) \/ CollectRefuse(r) \/ CollectEnd(r) \/ Die(r)
        PROVE  FALSE
    BY <2>3, <2>5, IdleType DEF ChargeWrite, CollectRefuse, CollectEnd, Die
  <2>6. ASSUME NEW r \in Requests, CollectSign(r) \/ CollectCommit(r) PROVE FALSE
    BY <1>2, <2>6, Moved DEF CollectSign, CollectCommit
  <2>7. ASSUME NEW r \in Requests, NEW leaves \in BOOLEAN, NEW answered \in BOOLEAN,
               CollectSend(r, leaves, answered)
        PROVE  r = q
    BY <1>2, <2>7 DEF CollectSend, TypeOK
  <2>1. \E leaves, answered \in BOOLEAN : CollectSend(q, leaves, answered)
    BY <1>2, <2>4, <2>5, <2>6, <2>7 DEF Next, vars, NextMonth, StartTrade, EndTrade
  <2>2. PICK leaves \in BOOLEAN, answered \in BOOLEAN : CollectSend(q, leaves, answered)
    BY <2>1
  <2>8. answered = TRUE /\ req'[q].rows = req[q].rows
    BY <2>2 DEF CollectSend, TypeOK, RequestStates
  <2> QED
    BY <2>2, <2>8, AnsweredCarries
<1> QED
  BY <1>1, <1>2

\* The status of a fee after a step that is not the end of a collection.
LEMMA PaidByEnd ==
    ASSUME HeldInv, [Next]_vars, NEW m \in Months, fees'[m].status = "paid"
    PROVE  \/ fees[m].status = "paid"
           \/ \E r \in Requests : req[r].at = "answered" /\ m \in req[r].rows
<1> USE DEF HeldInv
<1>1. CASE fees' = fees
  BY <1>1
<1>2. ASSUME NEW r \in Requests, ChargeWrite(r) PROVE fees[m].status = "paid"
  <2>1. req[r].period \in Months /\ req[r].hwm \in Int /\ total[req[r].period] \in Int
    BY <1>2 DEF ChargeWrite, TypeOK, RequestStates
  <2>2. FeeFor(total[req[r].period], req[r].hwm).status # "paid"
    BY <2>1 DEF FeeFor
  <2> QED
    BY <1>2, <2>1, <2>2 DEF ChargeWrite, TypeOK
<1>3. ASSUME NEW r \in Requests, CollectCommit(r) PROVE fees[m].status = "paid"
  <2>1. req[r].rows \in SUBSET Months /\ fees' = SetStatus(req[r].rows, "sending")
    BY <1>3 DEF CollectCommit, TypeOK, RequestStates
  <2> QED
    BY <2>1, SetStatusRows
<1>4. ASSUME NEW r \in Requests, CollectEnd(r)
      PROVE  fees[m].status = "paid" \/ (req[r].at = "answered" /\ m \in req[r].rows)
  <2> DEFINE st == IF req[r].at = "answered" THEN "paid" ELSE "uncertain"
  <2>1. req[r].rows \in SUBSET Months /\ fees' = SetStatus(req[r].rows, st)
    BY <1>4 DEF CollectEnd, TypeOK, RequestStates
  <2>2. st \in {"sending", "paid", "uncertain"} /\ (st = "paid" => req[r].at = "answered")
    OBVIOUS
  <2> HIDE DEF st
  <2>3. /\ \A k \in req[r].rows : fees'[k].status = st
        /\ \A k \in Months : k \notin req[r].rows => fees'[k] = fees[k]
    BY <2>1, <2>2, SetStatusRows
  <2> QED
    BY <2>2, <2>3
<1> QED
  BY <1>1, <1>2, <1>3, <1>4 DEF Next, vars, NextMonth, StartTrade, EndTrade, ChargeRead,
     CollectSelect, CollectSign, CollectRefuse, CollectSend, Die

\* What is booked as paid was carried before and still is.
LEMMA PaidStep ==
    ASSUME HeldInv, AnsweredSent, PaidWasSent, [Next]_vars
    PROVE  PaidWasSent'
<1> SUFFICES ASSUME NEW m \in Months, fees'[m].status = "paid" PROVE Carried(m)'
  BY DEF PaidWasSent, Carried
<1>1. Carried(m)
  BY PaidByEnd DEF PaidWasSent, AnsweredSent, Carried
<1> QED
  BY <1>1, CarriedStays

-----------------------------------------------------------------------------
(* No gain is charged twice.                                               *)

\* The mark is the one the newest row left.
LEMMA MarkIsNewest ==
    ASSUME Written(fees) # {}
    PROVE  \E n \in Written(fees) :
               (\A k \in Written(fees) : k <= n) /\ Mark(fees) = fees[n].after
<1>1. Written(fees) \in SUBSET Months
  BY DEF Written
<1>2. \E n \in Written(fees) : \A k \in Written(fees) : k <= n
  BY <1>1, LastMonth
<1> DEFINE n == CHOOSE n \in Written(fees) : \A k \in Written(fees) : k <= n
<1>3. n \in Written(fees) /\ \A k \in Written(fees) : k <= n
  BY <1>2
<1>4. Mark(fees) = fees[n].after
  BY DEF Mark
<1> QED
  BY <1>3, <1>4

\* A row takes its gain above the mark it was given, and the mark never falls.
LEMMA FeeForGain ==
    ASSUME NEW profit \in Int, NEW hwm \in Int
    PROVE  /\ FeeFor(profit, hwm).before = hwm
           /\ FeeFor(profit, hwm).before <= FeeFor(profit, hwm).after
           /\ FeeFor(profit, hwm).status # "missing"
  BY DEF FeeFor

\* A table that differs in the status of written rows only.
LEMMA StatusOnly ==
    ASSUME TypeOK, NEW rows \in SUBSET Written(fees), GainsInOrder, UNCHANGED torn,
           NEW status \in {"sending", "paid", "uncertain"}, fees' = SetStatus(rows, status)
    PROVE  GainsInOrder'
<1>1. rows \in SUBSET Months
  BY DEF Written
<1>2. \A m \in Months : /\ fees'[m].before = fees[m].before
                        /\ fees'[m].after = fees[m].after
                        /\ fees'[m].status # "missing" <=> fees[m].status # "missing"
  BY <1>1 DEF SetStatus, TypeOK, FeeRows, Written
<1>3. Written(fees') = Written(fees) /\ Written(fees) \in SUBSET Months
  BY <1>2 DEF Written
<1> QED
  BY <1>2, <1>3 DEF GainsInOrder

\* A row that is written by a request nobody overtook starts from the mark that
\* the last of all the other rows left.
LEMMA WrittenInOrder ==
    ASSUME HeldInv, GainsInOrder, NEW r \in Requests, ChargeWrite(r)
    PROVE  GainsInOrder'
<1> DEFINE p == req[r].period
           new == FeeFor(total[p], req[r].hwm)
<1>1. p \in Months /\ req[r].hwm \in Int /\ total[p] \in Int
  BY DEF HeldInv, ChargeWrite, TypeOK, RequestStates
<1>2. /\ new \in FeeRows /\ new.before = req[r].hwm /\ new.before <= new.after
      /\ new.status # "missing"
  BY <1>1, FeeForType, FeeForGain
<1> HIDE DEF new
<1>3. fees \in [Months -> FeeRows]
  BY DEF HeldInv, TypeOK
<1> SUFFICES ASSUME torn' = {}
             PROVE  /\ \A m \in Months : fees'[m].before <= fees'[m].after
                    /\ \A m, k \in Written(fees') :
                           m < k => fees'[m].after <= fees'[k].before
  BY DEF GainsInOrder
<1>4. torn = {} /\ ~Overtaken(r)
  BY DEF ChargeWrite
<1>5. /\ \A m \in Months : fees[m].before <= fees[m].after
      /\ \A m, k \in Written(fees) : m < k => fees[m].after <= fees[k].before
  BY <1>4 DEF GainsInOrder
<1>6. CASE fees[p].status # "missing"
  <2>1. fees' = fees
    BY <1>6 DEF ChargeWrite
  <2> QED
    BY <2>1, <1>5
<1>7. CASE fees[p].status = "missing"
  <2>1. fees' = [fees EXCEPT ![p] = new]
    BY <1>7 DEF ChargeWrite, new
  <2>2. fees'[p] = new /\ \A m \in Months : m # p => fees'[m] = fees[m]
    BY <2>1, <1>1, <1>3
  <2>3. Written(fees') = Written(fees) \cup {p} /\ p \notin Written(fees)
    BY <2>2, <1>1, <1>2, <1>7 DEF Written
  <2>4. req[r].hwm = Mark(fees) /\ \A k \in Written(fees) : ~(k > p)
    BY <1>4, <1>7 DEF Overtaken
  <2>5. \A m \in Written(fees) : m \in Months /\ m \in Int /\ m < p
    BY <2>3, <2>4, <1>1 DEF Written, Months
  <2>6. \A m \in Written(fees) : fees[m].after <= new.before
    <3> SUFFICES ASSUME NEW m \in Written(fees) PROVE fees[m].after <= new.before
      OBVIOUS
    <3>1. PICK n \in Written(fees) :
              (\A k \in Written(fees) : k <= n) /\ Mark(fees) = fees[n].after
      BY MarkIsNewest
    <3>2. m \in Months /\ n \in Months /\ m \in Int /\ n \in Int /\ m <= n
      BY <3>1, <2>5
    <3>3. /\ fees[m].after \in Int /\ fees[n].after \in Int /\ fees[n].before \in Int
          /\ fees[n].before <= fees[n].after
      BY <3>2, <1>3, <1>5 DEF FeeRows
    <3>4. CASE m = n
      BY <3>1, <3>3, <3>4, <2>4, <1>2
    <3>5. CASE m < n
      BY <3>1, <3>3, <3>5, <2>4, <1>2, <1>5
    <3> QED
      BY <3>2, <3>4, <3>5
  <2>7. \A m \in Months : fees'[m].before <= fees'[m].after
    BY <2>2, <1>2, <1>5
  <2>8. ASSUME NEW m \in Written(fees'), NEW k \in Written(fees'), m < k
        PROVE  fees'[m].after <= fees'[k].before
    <3>1. m # p
      BY <2>3, <2>5, <2>8, <1>1 DEF Months
    <3>2. m \in Written(fees) /\ fees'[m] = fees[m]
      BY <3>1, <2>2, <2>3, <2>5
    <3>3. CASE k = p
      BY <3>2, <3>3, <2>2, <2>6
    <3>4. CASE k # p
      BY <3>2, <3>4, <2>2, <2>3, <2>5, <2>8, <1>5
    <3> QED
      BY <3>3, <3>4
  <2> QED
    BY <2>7, <2>8
<1> QED
  BY <1>6, <1>7

\* Only a charge adds a row; a collection changes the status of rows it holds.
LEMMA GainsStep ==
    ASSUME HeldInv, GainsInOrder, [Next]_vars
    PROVE  GainsInOrder'
<1> USE DEF HeldInv
<1>1. CASE UNCHANGED <<fees, torn>>
  BY <1>1 DEF GainsInOrder
<1>2. ASSUME NEW r \in Requests, ChargeWrite(r) PROVE GainsInOrder'
  BY <1>2, WrittenInOrder
<1>3. ASSUME NEW r \in Requests, req[r].at \in Holding
      PROVE  req[r].rows \in SUBSET Written(fees)
  BY <1>3 DEF HeldStatus, Holding, Written, TypeOK, RequestStates
<1>4. ASSUME NEW r \in Requests, CollectCommit(r) PROVE GainsInOrder'
  <2>1. req[r].rows \in SUBSET Written(fees)
    BY <1>3, <1>4 DEF CollectCommit, Holding
  <2>2. fees' = SetStatus(req[r].rows, "sending") /\ UNCHANGED torn
    BY <1>4 DEF CollectCommit
  <2> QED
    BY <2>1, <2>2, StatusOnly
<1>5. ASSUME NEW r \in Requests, CollectEnd(r) PROVE GainsInOrder'
  <2>1. req[r].rows \in SUBSET Written(fees)
    BY <1>3, <1>5 DEF CollectEnd, Holding
  <2> DEFINE st == IF req[r].at = "answered" THEN "paid" ELSE "uncertain"
  <2>2. fees' = SetStatus(req[r].rows, st) /\ UNCHANGED torn
    BY <1>5 DEF CollectEnd
  <2>3. st \in {"sending", "paid", "uncertain"}
    OBVIOUS
  <2> HIDE DEF st
  <2> QED
    BY <2>1, <2>2, <2>3, StatusOnly
<1> QED
  BY <1>1, <1>2, <1>4, <1>5 DEF Next, vars, NextMonth, StartTrade, EndTrade, ChargeRead,
     CollectSelect, CollectSign, CollectRefuse, CollectSend, Die

\* Rows in order do not overlap.
LEMMA InOrderApart == TypeOK /\ GainsInOrder => ChargedOnce
  BY DEF GainsInOrder, ChargedOnce, Written, Months

-----------------------------------------------------------------------------
(* The theorems.                                                           *)

\* FeeInv holds at the start.
LEMMA FeeInvInit == Init => FeeInv
<1> SUFFICES ASSUME Init PROVE FeeInv
  OBVIOUS
<1>1. \A m \in Months : fees[m] = NoRow
  BY DEF Init
<1>2. PaidWasSent /\ GainsInOrder
  BY <1>1 DEF PaidWasSent, GainsInOrder, NoRow, Written
<1>3. AnsweredSent
  BY DEF Init, AnsweredSent, Idle
<1> QED
  BY <1>2, <1>3, FeeInit DEF FeeInv

\* FeeInv is inductive.
LEMMA FeeInvStep == FeeInv /\ [Next]_vars => FeeInv'
<1> SUFFICES ASSUME FeeInv, [Next]_vars PROVE FeeInv'
  OBVIOUS
<1> QED
  BY FeeStep, PaidStep, AnsweredStep, GainsStep DEF FeeInv

\* Every request, at every point, holds rows that are its own and in no
\* transfer, whatever the other requests, dead workers and lost answers do; and
\* the rows of the table follow one another.
THEOREM FeesHeldApart == Spec => []FeeInv
  BY FeeInvInit, FeeInvStep, PTL DEF Spec

\* collect never sends a month's fee twice, for any number of requests, months
\* and trades: the promise of user_fees.py:104-105.
THEOREM FeeNeverSentTwice == Spec => []FeeSentOnce
<1>1. FeeInv => FeeSentOnce
  BY DEF FeeInv, HeldInv
<1> QED
  BY <1>1, FeesHeldApart, PTL

\* collect never books a fee as paid that did not leave the wallet.
THEOREM FeesPaidWereSent == Spec => []PaidWasSent
<1>1. FeeInv => PaidWasSent
  BY DEF FeeInv
<1> QED
  BY <1>1, FeesHeldApart, PTL

\* charge never takes the same gain twice, for any profits and losses, unless a
\* page writes its row after another one has overtaken it.
THEOREM GainsChargedOnce == Spec => []ChargedOnce
<1>1. FeeInv => ChargedOnce
  BY InOrderApart DEF FeeInv, HeldInv
<1> QED
  BY <1>1, FeesHeldApart, PTL
=============================================================================
