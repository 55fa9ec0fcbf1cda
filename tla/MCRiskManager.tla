---------------------------- MODULE MCRiskManager ----------------------------
(* Model-checking instance of RiskManager: a currency pair with stops one   *)
(* point, 1 pip and 50 pips away, at the entry and on the wrong side, a     *)
(* metal with a stop 20 away, and the rows update_signal lets a client      *)
(* store: no entry, no stop, negative prices.                               *)
EXTENDS RiskManager, TLC

Level(price) == <<[type |-> "object", price |-> price]>>

Row(action, entry, stop) ==
    [action |-> action, entry |-> entry, stop |-> stop, tp |-> Level(entry + 10)]

MCSignals ==
    {Row(a, 110000, s) : a \in {"BUY", "SELL"}, s \in {109500, 109990, 109999, 110000, 110500}}
    \union {Row("BUY", 200000000, 198000000), Row("BUY", 0, 109500), Row("SELL", 110000, 0),
            Row("SELL", -110000, -109500)}

MCLots     == {0, 50, 100, 101, 5000}
MCBalances == {-10000, 0, 100, 10000, 2000000}
MCLedger   == {-40000, 0, 40000}

=============================================================================
