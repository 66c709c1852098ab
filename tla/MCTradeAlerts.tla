---------------------------- MODULE MCTradeAlerts ----------------------------
EXTENDS TradeAlerts
\* A wait after every attempt but the last.
MCBackoff == [n \in 1..MAX_ATTEMPTS |-> IF n < MAX_ATTEMPTS THEN 1 ELSE 0]
=============================================================================
