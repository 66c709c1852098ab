----------------------------- MODULE TradeLedger -----------------------------
(***************************************************************************)
(* What the execution rail promises, without intents, passes or networks:  *)
(* a coin is bought at most once, what was bought is sold at most once,    *)
(* nothing is sold before the purchase is in the books, and the books      *)
(* follow the chain one step behind it and never run ahead of it.          *)
(***************************************************************************)
CONSTANTS Buys, Sales

VARIABLES
    held,   \* the buys that executed on chain
    sold,   \* the sales of each buy that executed on chain
    book    \* the position row of each buy

ledger == <<held, sold, book>>

Init ==
    /\ held = {}
    /\ sold = [b \in Buys |-> {}]
    /\ book = [b \in Buys |-> "none"]

Acquire(b) ==
    /\ b \notin held
    /\ held' = held \cup {b}
    /\ UNCHANGED <<sold, book>>

BookPurchase(b) ==
    /\ b \in held /\ book[b] = "none"
    /\ book' = [book EXCEPT ![b] = "OPEN"]
    /\ UNCHANGED <<held, sold>>

Dispose(b, s) ==
    /\ book[b] = "OPEN" /\ sold[b] = {}
    /\ sold' = [sold EXCEPT ![b] = {s}]
    /\ UNCHANGED <<held, book>>

BookSale(b) ==
    /\ book[b] = "OPEN" /\ sold[b] # {}
    /\ book' = [book EXCEPT ![b] = "CLOSED"]
    /\ UNCHANGED <<held, sold>>

Next ==
    \E b \in Buys :
        \/ Acquire(b) \/ BookPurchase(b) \/ BookSale(b)
        \/ \E s \in Sales : Dispose(b, s)

Spec == Init /\ [][Next]_ledger
=============================================================================
