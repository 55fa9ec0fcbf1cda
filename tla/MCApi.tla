-------------------------------- MODULE MCApi --------------------------------
(* Model-checking instance of Api: messages for a currency pair, a metal and
   a coin. *)
EXTENDS Api, TLC

N(whole, frac, written) == Number(whole * Unit + frac * 10 ^ (MaxPlaces - written), written)
I(whole) == N(whole, 0, 0)
W(w) == Word(w)

Buy(sym) == <<W(sym), W("LONG"), W("BUY"), W("AT")>>

MCRules ==
    [EURUSD |-> [min |-> 50000, max |-> 250000, places |-> {4, 5}],
     XAUUSD |-> [min |-> 1000 * Unit, max |-> 5000 * Unit, places |-> {1, 2}],
     ETHUSD |-> [min |-> 500 * Unit, max |-> 8000 * Unit, places |-> {0, 1, 2}]]
MCMapping == [GOLD |-> "XAUUSD"]

MCTokens ==
    [quoted |-> Buy("EURUSD") \o <<N(1, 801, 4), W("SL"), N(1, 751, 4),
                   W("TP"), I(1), N(1, 851, 4), W("TP"), I(2), N(1, 905, 4)>>,
     zeros  |-> Buy("EURUSD") \o <<N(1, 801, 4), W("SL"), N(1, 751, 4),
                   W("TP"), I(1), N(1, 850, 4), W("TP"), I(2), N(1, 800, 4)>>,
     \* no index: 0.6123 is in range
     list   |-> Buy("EURUSD") \o <<N(1, 801, 4), W("TP"), N(1, 6123, 4)>>,
     \* 2400 is level 240 at 0, out of range, and in the list has no decimal place
     metal  |-> Buy("GOLD") \o <<N(2350, 5, 1), W("STOP"), N(2340, 5, 1), W("TP"), I(2400)>>,
     \* whole prices, which the list takes too
     whole  |-> Buy("ETHUSD") \o <<I(3000), W("SL"), I(2900),
                   W("TP"), I(1), I(3100), W("TP"), I(2), I(3200)>>,
     \* the word after the first term is not an action
     limit  |-> <<W("EURUSD"), W("BUY"), W("LIMIT"), W("ENTRY"), N(1, 801, 4)>>]

MCMessages == DOMAIN MCTokens

Body(action, entry, stop, tp) ==
    [symbol |-> "EURUSD", action |-> action, entry |-> entry, stop |-> stop, tp |-> tp]

At(level, price) == [level |-> level, price |-> price]

MCBodies == {
    Body("BUY", 10, 9, <<At(1, Null), At(2, 11)>>),
    Body("SELL", 10, 10, Null),
    Body("SELL", 10, Null, <<At(1, Null), At(2, 10)>>),
    Body("BUY", 10, 9, <<At(1, 11), At(1, 12)>>),
    Body("BUY", 10, Null, <<At(1, NoNumber), At(2, 9)>>),
    Body("SELL", Null, 9, <<At(1, NoNumber)>>),
    Body(Null, 10, Null, Null)}

MCPatches == {[entry |-> 8, action |-> "SELL"], [action |-> Null], [symbol |-> Null]}

MCAccountOwner == [a \in Accounts |-> CHOOSE u \in Users : TRUE]
Symmetry == Permutations(Requests)

=============================================================================
