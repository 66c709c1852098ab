--------------------------- MODULE FeeCollection ---------------------------
(***************************************************************************)
(* The fee of one user's wallet (user_fees.py, withdraw_service.py).  A    *)
(* page that shows the users charges last month's fee, once, against a     *)
(* high-water mark; Karthik's button sends every fee that is due as one    *)
(* SOL transfer.  Requests are handled concurrently, each in its own       *)
(* database session; a worker may die at any point; the entry driver       *)
(* trades with the same wallet meanwhile; and what the chain makes of a    *)
(* transfer is asked by nobody.                                            *)
(*                                                                         *)
(* Months are numbered, money is counted in a unit that is the smallest    *)
(* gain, and the destination, the price of SOL and the texts are left out. *)
(***************************************************************************)
EXTENDS Integers, Sequences

CONSTANTS Requests,  \* requests in flight: pages read and buttons pressed
          MaxMonth,  \* the last month of the calendar
          Pnl,       \* what a closed trade may earn or lose
          MaxTrades, \* bound: trades closed in all
          Share      \* one part in Share of a new gain is the fee

ASSUME FeeAssumption ==
    /\ MaxMonth \in Nat \ {0}
    /\ Pnl \subseteq Int
    /\ MaxTrades \in Nat
    /\ Share \in Nat \ {0}

VARIABLES
    month,   \* the calendar month it is now
    total,   \* realised profit from the first trade to the end of each month
    trades,  \* trades closed so far (bound)
    trading, \* the wallet holds a position or has an intent in flight
    fees,    \* the table of fees, month by month
    req,     \* what each request holds
    sends,   \* transfers that left for the chain, in order: the months each pays
    torn     \* history: months charged after another page had overtaken the charge

vars == <<month, total, trades, trading, fees, req, sends, torn>>

Months == 1..MaxMonth

\* No row has been written for the month.
NoRow == [status |-> "missing", before |-> 0, after |-> 0]

\* A request at rest holds nothing.
Idle == [at |-> "idle", period |-> 0, hwm |-> 0, rows |-> {}]

Init ==
    /\ month = 1
    /\ total = [m \in Months |-> 0]
    /\ trades = 0
    /\ trading = FALSE
    /\ fees = [m \in Months |-> NoRow]
    /\ req = [r \in Requests |-> Idle]
    /\ sends = <<>>
    /\ torn = {}

-----------------------------------------------------------------------------
(* The world the requests run in. *)

\* The calendar turns.
NextMonth ==
    /\ month < MaxMonth
    /\ month' = month + 1
    /\ UNCHANGED <<total, trades, trading, fees, req, sends, torn>>

\* The entry driver creates a buy intent: the wallet is busy.
StartTrade ==
    /\ ~trading
    /\ trades < MaxTrades
    /\ trading' = TRUE
    /\ UNCHANGED <<month, total, trades, fees, req, sends, torn>>

\* The position closes and its profit is booked.  The close is stamped when
\* the fill is read and committed later, perhaps in the next month.
EndTrade(d) ==
    /\ trading
    /\ trades < MaxTrades
    /\ trading' = FALSE
    /\ trades' = trades + 1
    /\ \E stamp \in {month - 1, month} \ {0} :
           total' = [m \in Months |-> IF m >= stamp THEN total[m] + d ELSE total[m]]
    /\ UNCHANGED <<month, fees, req, sends, torn>>

-----------------------------------------------------------------------------
(* charge: last month's row. *)

\* Mutant: the mark follows the profit down as well as up.
FeeForFalling(profit, hwm) ==
    IF profit <= hwm THEN [status |-> "none", before |-> profit, after |-> profit]
    ELSE [status |-> IF (profit - hwm) \div Share > 0 THEN "due" ELSE "none",
          before |-> hwm, after |-> profit]

\* The row for a wallet whose total profit is `profit`: the fee is taken of
\* what the total gained above the mark, and the mark never falls.
FeeFor(profit, hwm) ==
    IF profit <= hwm THEN [status |-> "none", before |-> hwm, after |-> hwm]
    ELSE [status |-> IF (profit - hwm) \div Share > 0 THEN "due" ELSE "none",
          before |-> hwm, after |-> profit]

Written(f) == {m \in Months : f[m].status # "missing"}

\* The mark of the newest row, or zero.
Mark(f) ==
    IF Written(f) = {} THEN 0
    ELSE f[CHOOSE m \in Written(f) : \A k \in Written(f) : k <= m].after

\* A page asks for last month's row and finds none; it reads the mark.
ChargeRead(r) ==
    /\ req[r].at = "idle"
    /\ month > 1
    /\ fees[month - 1].status = "missing"
    /\ req' = [req EXCEPT ![r] = [at |-> "charging", period |-> month - 1,
                                  hwm |-> Mark(fees), rows |-> {}]]
    /\ UNCHANGED <<month, total, trades, trading, fees, sends, torn>>

\* Since the request read the mark, another one wrote a row that moved it, or the
\* row of a later month, behind which this one's mark is never read again.
Overtaken(r) ==
    /\ fees[req[r].period].status = "missing"
    /\ req[r].hwm # Mark(fees) \/ \E k \in Written(fees) : k > req[r].period

\* It sums the profit and commits the row, unless another request wrote that
\* month first: the unique (member, period) refuses the second one.
ChargeWrite(r) ==
    LET p == req[r].period
    IN  /\ req[r].at = "charging"
        /\ fees' = IF fees[p].status = "missing"
                   THEN [fees EXCEPT ![p] = FeeFor(total[p], req[r].hwm)]
                   ELSE fees
        /\ torn' = IF Overtaken(r) THEN torn \cup {p} ELSE torn
        /\ req' = [req EXCEPT ![r] = Idle]
        /\ UNCHANGED <<month, total, trades, trading, sends>>

-----------------------------------------------------------------------------
(* collect: Karthik's button. *)

Due == {m \in Months : fees[m].status = "due"}

\* Rows a request has selected FOR UPDATE and not yet committed.
Locked == UNION {req[r].rows : r \in {q \in Requests : req[q].at \in {"selected", "signed"}}}

\* Mutant: the rows are read without FOR UPDATE.
CollectSelectUnlocked(r) ==
    /\ req[r].at = "idle"
    /\ Due # {}
    /\ req' = [req EXCEPT ![r] = [at |-> "selected", period |-> 0, hwm |-> 0, rows |-> Due]]
    /\ UNCHANGED <<month, total, trades, trading, fees, sends, torn>>

\* The due rows are selected and locked; a second collect waits for the first.
CollectSelect(r) ==
    /\ req[r].at = "idle"
    /\ Due # {}
    /\ Due \cap Locked = {}
    /\ req' = [req EXCEPT ![r] = [at |-> "selected", period |-> 0, hwm |-> 0, rows |-> Due]]
    /\ UNCHANGED <<month, total, trades, trading, fees, sends, torn>>

\* The wallet is idle, the balance leaves the reserve, the signer signs.
CollectSign(r) ==
    /\ req[r].at = "selected"
    /\ ~trading
    /\ req' = [req EXCEPT ![r].at = "signed"]
    /\ UNCHANGED <<month, total, trades, trading, fees, sends, torn>>

\* A refusal (the wallet is mid-trade, no fee address, too little SOL, the
\* network unverified, the signer said no) or a dead worker, before the
\* commit: the session rolls back and the rows stay due.
CollectRefuse(r) ==
    /\ req[r].at \in {"selected", "signed"}
    /\ req' = [req EXCEPT ![r] = Idle]
    /\ UNCHANGED <<month, total, trades, trading, fees, sends, torn>>

SetStatus(rows, status) ==
    [m \in Months |-> IF m \in rows THEN [fees[m] EXCEPT !.status = status]
                                    ELSE fees[m]]

\* "sending" is committed before the send.
CollectCommit(r) ==
    /\ req[r].at = "signed"
    /\ fees' = SetStatus(req[r].rows, "sending")
    /\ req' = [req EXCEPT ![r].at = "sending"]
    /\ UNCHANGED <<month, total, trades, trading, sends, torn>>

\* sendTransaction, once: the transfer leaves, or the call fails before it
\* does; either way the answer may be lost.
CollectSend(r, leaves, answered) ==
    /\ req[r].at = "sending"
    /\ answered => leaves
    /\ sends' = IF leaves
                THEN Append(sends, req[r].rows)
                ELSE sends
    /\ req' = [req EXCEPT ![r].at = IF answered THEN "answered" ELSE "unanswered"]
    /\ UNCHANGED <<month, total, trades, trading, fees, torn>>

\* Mutant: a request whose answer is lost books the fee as paid.
CollectEndHopeful(r) ==
    /\ req[r].at \in {"answered", "unanswered"}
    /\ fees' = SetStatus(req[r].rows, "paid")
    /\ req' = [req EXCEPT ![r] = Idle]
    /\ UNCHANGED <<month, total, trades, trading, sends, torn>>

\* An answer is "paid", an error "uncertain".
CollectEnd(r) ==
    /\ req[r].at \in {"answered", "unanswered"}
    /\ fees' = SetStatus(req[r].rows,
                         IF req[r].at = "answered" THEN "paid" ELSE "uncertain")
    /\ req' = [req EXCEPT ![r] = Idle]
    /\ UNCHANGED <<month, total, trades, trading, sends, torn>>

\* The worker dies, or the request is cancelled, after the commit.
Die(r) ==
    /\ req[r].at \in {"charging", "sending", "answered", "unanswered"}
    /\ req' = [req EXCEPT ![r] = Idle]
    /\ UNCHANGED <<month, total, trades, trading, fees, sends, torn>>

Next ==
    \/ NextMonth
    \/ StartTrade
    \/ \E d \in Pnl : EndTrade(d)
    \/ \E r \in Requests :
           \/ ChargeRead(r)
           \/ ChargeWrite(r)
           \/ CollectSelect(r)
           \/ CollectSign(r)
           \/ CollectRefuse(r)
           \/ CollectCommit(r)
           \/ \E leaves, answered \in BOOLEAN : CollectSend(r, leaves, answered)
           \/ CollectEnd(r)
           \/ Die(r)

Spec == Init /\ [][Next]_vars

-----------------------------------------------------------------------------
(* Properties. *)

FeeRows == [status : {"missing", "none", "due", "sending", "paid", "uncertain"},
            before : Int, after : Int]

RequestStates == [at : {"idle", "charging", "selected", "signed", "sending",
                        "answered", "unanswered"},
                  period : 0..MaxMonth, hwm : Int, rows : SUBSET Months]

\* Every variable has its type.
TypeOK ==
    /\ month \in Months
    /\ total \in [Months -> Int]
    /\ trades \in 0..MaxTrades
    /\ trading \in BOOLEAN
    /\ fees \in [Months -> FeeRows]
    /\ req \in [Requests -> RequestStates]
    /\ sends \in Seq(SUBSET Months)
    /\ torn \in SUBSET Months
    /\ \A r \in Requests : req[r].at = "charging" => req[r].period \in Months

\* No month's fee is in two transfers, whatever two presses of the button, a
\* worker's death or a lost answer do: the rows are locked from the select to
\* the commit of "sending", and "sending" is committed before the send.
FeeSentOnce ==
    \A i, j \in DOMAIN sends : i # j => sends[i] \cap sends[j] = {}

\* A fee that counts as collected left the wallet: no lost answer, dead worker or
\* second press of the button books one that was never sent.
PaidWasSent ==
    \A m \in Months : fees[m].status = "paid" => \E i \in DOMAIN sends : m \in sends[i]

\* Why: rows that a request has locked are due and are its own; between the
\* commit and the send they say "sending" and are in no transfer; a row that is
\* in a transfer never goes back to due.
Holding == {"selected", "signed", "sending", "answered", "unanswered"}

OwnRows ==
    \A r, q \in Requests :
        r # q /\ req[r].at \in Holding /\ req[q].at \in Holding
            => req[r].rows \cap req[q].rows = {}

HeldStatus ==
    \A r \in Requests : \A m \in req[r].rows :
        /\ req[r].at \in {"selected", "signed"} => fees[m].status = "due"
        /\ req[r].at \in {"sending", "answered", "unanswered"}
               => fees[m].status = "sending"

UnsentRows ==
    \A r \in Requests, i \in DOMAIN sends :
        req[r].at = "sending" => req[r].rows \cap sends[i] = {}

SentStatus ==
    \A i \in DOMAIN sends : \A m \in sends[i] :
        fees[m].status \in {"sending", "paid", "uncertain"}

HeldInv ==
    /\ TypeOK
    /\ OwnRows
    /\ HeldStatus
    /\ UnsentRows
    /\ SentStatus
    /\ FeeSentOnce

\* The transfer a request has an answer to has left.
AnsweredSent ==
    \A r \in Requests : \A m \in req[r].rows :
        req[r].at = "answered" => \E i \in DOMAIN sends : m \in sends[i]

\* The rows follow one another: a month's gain starts at or above the mark that
\* every earlier month left.
GainsInOrder ==
    torn = {} =>
        /\ \A m \in Months : fees[m].before <= fees[m].after
        /\ \A m, k \in Written(fees) : m < k => fees[m].after <= fees[k].before

\* No transfer can carry a fee another transfer carried, at any point of any
\* request, no fee that may have left the wallet is due again, and the table's
\* marks only rise.
FeeInv == HeldInv /\ PaidWasSent /\ AnsweredSent /\ GainsInOrder

\* No part of the profit is charged twice, as long as no page wrote its row after
\* another page had moved the mark or charged a later month: what two rows gained
\* above their marks never overlaps, through losses, late closes, dead workers and
\* months without a row.
ChargedOnce ==
    torn = {} =>
        \A m, k \in Written(fees) : m # k =>
            \/ fees[m].after <= fees[k].before
            \/ fees[k].after <= fees[m].before
            \/ fees[m].before = fees[m].after
            \/ fees[k].before = fees[k].after
=============================================================================
