------------------------------ MODULE Extractor ------------------------------
(***************************************************************************)
(* The extractor service (go_workers/extractor): what Extract answers for  *)
(* a message.  The cleaner leaves a message of tokens separated by single  *)
(* spaces.  A token is a word, upper case, or a number; the connectors and *)
(* commas a message may contain are left out, and TP1 reads like TP 1.     *)
(*                                                                         *)
(* Prices are integers in units of 1/Unit.  The words are one or two of    *)
(* the terms of each file of config/patterns; a symbol is what the first   *)
(* token of a message is mapped to, the pattern of symbol.json having      *)
(* neither a term nor a connector, and its regular expression not being    *)
(* used.  The confidence is left out.                                      *)
(***************************************************************************)
EXTENDS Integers, Sequences, FiniteSets

CONSTANTS
    Rules,    \* Rules[sym]: [min, max, places], from symbol_rules.json
    Mapping   \* Mapping[word], from symbol_mapping of symbol.json

NoText    == ""
Unit      == 100000
MaxPlaces == 5

ActionTerms == {"BUY", "LONG"}
OrderTerms  == {"LIMIT", "MARKET", "STOP", "ENTRY"}
EntryTerms  == {"ENTRY", "AT"}
StopTerms   == {"SL", "STOP"}
ProfitTerm  == "TP"

Word(w) == [word |-> w]

\* A number as it is written, with its number of decimal places.
Number(price, written) == [price |-> price, written |-> written]

IsNumber(token) == "price" \in DOMAIN token
IsTerm(token, terms) == ~IsNumber(token) /\ token.word \in terms

\* A token as a text; which number it is makes no difference there.
Text(token) == IF IsNumber(token) THEN "OTHER" ELSE token.word

Symbol(m) ==
    IF m = <<>> THEN NoText
    ELSE IF Text(m[1]) \in DOMAIN Mapping THEN Mapping[Text(m[1])] ELSE Text(m[1])

-----------------------------------------------------------------------------
(* Values.                                                                 *)

\* countDecimalPlaces: of the shortest form, which has no trailing zeros.
Places(price) ==
    CHOOSE p \in 0..MaxPlaces :
        /\ price % (10 ^ (MaxPlaces - p)) = 0
        /\ \A q \in 0..(p - 1) : price % (10 ^ (MaxPlaces - q)) # 0

\* Faulty variant: the number of places is not looked at.
AllowedInRange(price, sym) ==
    sym \in DOMAIN Rules => Rules[sym].min <= price /\ price <= Rules[sym].max

\* validatePrice.
Allowed(price, sym) ==
    sym \in DOMAIN Rules =>
        /\ Rules[sym].min <= price /\ price <= Rules[sym].max
        /\ Rules[sym].places # {} => Places(price) \in Rules[sym].places

\* extractValue: the tokens that follow the first term that is followed by one.
Value(m, terms) ==
    LET at == {i \in 1..(Len(m) - 1) : IsTerm(m[i], terms)}
    IN  IF at = {} THEN {} ELSE {m[1 + CHOOSE i \in at : \A j \in at : i <= j]}

TextOf(m, terms) == IF Value(m, terms) = {} THEN NoText ELSE Text(CHOOSE v \in Value(m, terms) : TRUE)

\* extractNumeric: 0 stands for an error.
PriceOf(m, terms) ==
    LET good == {v \in Value(m, terms) : IsNumber(v) /\ Allowed(v.price, Symbol(m))}
    IN  IF good = {} THEN 0 ELSE (CHOOSE v \in good : TRUE).price

-----------------------------------------------------------------------------
(* Take profits: levels, a function from level numbers to prices.          *)

Whole(price) == price \div Unit

\* What with_index captures at position i: digits, and then a number.  The
\* digits are followed by a number in its own token; or the number is what
\* follows the decimal point; or the last digit is the number.
Indexed(m, i) ==
    IF i + 1 \in DOMAIN m /\ IsTerm(m[i], {ProfitTerm}) /\ IsNumber(m[i + 1])
    THEN LET x == m[i + 1]
         IN  CASE x.written > 0 -> {[level |-> Whole(x.price), price |-> x.price % Unit]}
               [] x.written = 0 /\ i + 2 \in DOMAIN m /\ IsNumber(m[i + 2]) ->
                     {[level |-> Whole(x.price), price |-> m[i + 2].price]}
               [] OTHER ->
                     {[level |-> w \div 10, price |-> Unit * (w % 10)] : w \in {Whole(x.price)} \ 0..9}
    ELSE {}

NoLevels == [l \in {} |-> 0]

With(levels, level, price) ==
    [l \in DOMAIN levels \union {level} |-> IF l = level THEN price ELSE levels[l]]

\* Of two levels with one number the last one stays.
IndexedAt(m, i, levels) ==
    LET allowed == {x \in Indexed(m, i) : Allowed(x.price, Symbol(m))}
    IN  IF allowed = {} THEN levels
        ELSE LET x == CHOOSE y \in allowed : TRUE IN With(levels, x.level, x.price)

\* The levels of the first tokens.
IndexedTo(m) ==
    LET after[i \in 0..Len(m)] == IF i = 0 THEN NoLevels ELSE IndexedAt(m, i, after[i - 1])
    IN  after

IndexedLevels(m) == IndexedTo(m)[Len(m)]

FirstFree(levels, from) ==
    CHOOSE l \in from..(from + Cardinality(DOMAIN levels)) :
        l \notin DOMAIN levels /\ \A k \in from..(l - 1) : k \in DOMAIN levels

\* The list pattern: everything from a keyword to the first decimal point, the
\* digits before which count as a number; each number takes the next free level.
Listed(m, token, acc) ==
    CASE IsTerm(token, {ProfitTerm}) /\ ~acc.open ->
            [acc EXCEPT !.open = TRUE, !.next = Cardinality(DOMAIN acc.levels) + 1]
      [] IsNumber(token) /\ acc.open ->
            LET price == Unit * Whole(token.price)
                open  == token.written = 0
                free  == FirstFree(acc.levels, acc.next)
            IN  IF Allowed(price, Symbol(m))
                THEN [levels |-> With(acc.levels, free, price), next |-> free + 1, open |-> open]
                ELSE [acc EXCEPT !.open = open]
      [] OTHER -> acc

ListedTo(m, indexed) ==
    LET after[i \in 0..Len(m)] ==
            IF i = 0 THEN [levels |-> indexed, next |-> 1, open |-> FALSE]
                     ELSE Listed(m, m[i], after[i - 1])
    IN  after

ListLevels(m, indexed) == ListedTo(m, indexed)[Len(m)].levels

TakeProfit(m) == ListLevels(m, IndexedLevels(m))

-----------------------------------------------------------------------------
(* The service.                                                            *)

Parse(m) ==
    [symbol     |-> Symbol(m),
     action     |-> TextOf(m, ActionTerms),
     order_type |-> TextOf(m, OrderTerms),
     entry      |-> PriceOf(m, EntryTerms),
     stop       |-> PriceOf(m, StopTerms),
     tp         |-> TakeProfit(m)]

\* The fields a signal cannot do without.
Validate(p) == p.symbol # NoText /\ p.action \in {"BUY", "SELL"} /\ p.entry > 0

\* What parsed_signal reads like in Python when the answer has none.
Nothing ==
    [symbol |-> NoText, action |-> NoText, order_type |-> NoText, entry |-> 0, stop |-> 0,
     tp |-> NoLevels]

\* Extract: the answer of the service to a message.
Extract(m) ==
    LET p == Parse(m)
    IN  IF Validate(p) THEN [success |-> TRUE, parsed |-> p]
                       ELSE [success |-> FALSE, parsed |-> Nothing]

-----------------------------------------------------------------------------
(* The reference: the levels a reader of the message sees, TP i x.         *)

QuotedAt(m, i) ==
    /\ IsTerm(m[i], {ProfitTerm})
    /\ i + 2 \in DOMAIN m
    /\ IsNumber(m[i + 1]) /\ m[i + 1].written = 0
    /\ IsNumber(m[i + 2])

Quoted(m) ==
    {[level |-> Whole(m[i + 1].price), price |-> m[i + 2].price] :
        i \in {j \in DOMAIN m : QuotedAt(m, j)}}

\* Every TP of the message is of that form, the levels are distinct, and the
\* prices are in the range of the symbol, with as many places as it allows.
WellQuoted(m) ==
    /\ Symbol(m) \in DOMAIN Rules
    /\ \A i \in DOMAIN m : IsTerm(m[i], {ProfitTerm}) =>
          /\ QuotedAt(m, i)
          /\ m[i + 2].written \in Rules[Symbol(m)].places
          /\ Rules[Symbol(m)].min <= m[i + 2].price /\ m[i + 2].price <= Rules[Symbol(m)].max
    /\ \A x, y \in Quoted(m) : x.level = y.level => x = y

\* Every quoted price has enough places also without its trailing zeros.
PlacesKept(m) == \A x \in Quoted(m) : Places(x.price) \in Rules[Symbol(m)].places

\* The digits of a number, before its decimal point, are a price of the symbol.
WholePrice(token, sym) ==
    LET price == Unit * Whole(token.price)
    IN  /\ Rules[sym].min <= price /\ price <= Rules[sym].max
        /\ Places(price) \in Rules[sym].places

\* There is such a number, with no decimal point between it and a TP before it.
Relisted(m) ==
    \E i, k \in DOMAIN m :
        /\ i < k /\ IsTerm(m[i], {ProfitTerm})
        /\ IsNumber(m[k]) /\ WholePrice(m[k], Symbol(m))
        /\ \A j \in (i + 1)..(k - 1) : IsNumber(m[j]) => m[j].written = 0

LevelSet(levels) == {[level |-> l, price |-> levels[l]] : l \in DOMAIN levels}

=============================================================================
