----------------------------- MODULE MCSimulator -----------------------------
(* Model-checking instance of Simulator: a signal for each way a trade can  *)
(* end.  With a spread of 1 every RR is a whole number.                     *)
EXTENDS Simulator, TLC

Buy(stop, tp, at)  == [buy |-> TRUE,  entry |-> 100, stop |-> stop, tp |-> tp, at |-> at]
Sell(stop, tp, at) == [buy |-> FALSE, entry |-> 102, stop |-> stop, tp |-> tp, at |-> at]

MCSignals == {
    Buy(97, <<109>>, 1),     \* a win of 2
    Buy(97, <<>>, 1),        \* a loss of 1
    Sell(105, <<93>>, 2),    \* a winning SELL: -2
    Sell(99, <<97>>, 1),     \* one with its stop on the wrong side: 2
    Buy(101, <<109>>, 2),    \* the stop at the entry: an infinite RR
    Buy(105, <<100>>, 1)}    \* neither price on its side: OPEN

Symmetry == Permutations(Requests)

=============================================================================
