------------------------------- MODULE Signals -------------------------------
(***************************************************************************)
(* The table signals and the requests that write it: the signal endpoints  *)
(* (app/routes/v1/signals.py), the webhook of the Telegram listener        *)
(* (app/routes/v1/webhook.py), both calling the extractor, and the jobs    *)
(* that refer to a signal and an account (app/routes/v1/live.py, in short; *)
(* LiveJobs has their life).                                               *)
(***************************************************************************)
EXTENDS Requests, Extractor, SequencesExt

CONSTANTS
    Messages,  \* messages by name
    Tokens,    \* Tokens[m]: what the cleaner makes of it
    NoAnswer,  \* a raw_text to which the extractor does not answer
    NoNumber,  \* a JSON value that has no order with a Decimal: a text, an object
    Bodies,    \* the fields create_signal is sent, besides the text and the channel
    Patches    \* what update_signal is sent: some of the fields

\* The types of the fields, all optional; the pattern of action.
Texts   == STRING \union {Null}
Actions == {"BUY", "SELL", Null}
Prices  == Int \union {Null}

\* SignalCreate, which wants a level of each take profit, and a price of any type.
SignalCreate ==
    [symbol : Texts, action : Actions, entry : Prices, stop : Prices,
     tp : Seq([level : Nat \ {0}, price : Prices \union {NoNumber}]) \union {Null}]

\* SignalUpdate, which takes any take profits.
SignalUpdate(p) ==
    /\ DOMAIN p \subseteq {"symbol", "action", "entry", "stop", "tp"}
    /\ "symbol" \in DOMAIN p => p.symbol \in Texts
    /\ "action" \in DOMAIN p => p.action \in Actions
    /\ "entry"  \in DOMAIN p => p.entry \in Prices
    /\ "stop"   \in DOMAIN p => p.stop \in Prices

ASSUME NullAssumption == Null \notin {"BUY", "SELL"} \union Nat /\ NoNumber \notin Prices
ASSUME TokensAssumption ==
    \A m \in Messages : Tokens[m] \in Seq([word : STRING] \union [price : Nat, written : Nat])
ASSUME BodiesAssumption == Bodies \subseteq SignalCreate
ASSUME PatchesAssumption == \A p \in Patches : SignalUpdate(p)

VARIABLES
    signals,   \* id -> row
    jobs       \* id -> row

\* The columns the requests write.  take_profit is JSON, of which nothing is
\* required.
IsSignal(x) ==
    /\ DOMAIN x = {"owner", "symbol", "action", "entry", "stop", "tp", "channel"}
    /\ x.owner \in Users
    /\ x.symbol \in Texts \ {Null} /\ x.action \in Actions \ {Null}
    /\ x.entry \in Prices /\ x.stop \in Prices

LiveJob(accounts) == [signal : Requests, account : accounts]

SignalsInit ==
    /\ signals = [s \in {} |-> Null]
    /\ jobs    = [j \in {} |-> Null]

-----------------------------------------------------------------------------
(* validate_signal_consistency, of prices that are Decimal.                *)

PriceValid(price) == price > 0

\* An action other than BUY counts as SELL.
StopSide(action, entry, stop) == IF action = "BUY" THEN stop < entry ELSE stop > entry

OnSide(action, entry, price) == IF action = "BUY" THEN price > entry ELSE price < entry

\* Faulty variant: a level without a price ends the check.
EndingUntilNull(action, entry, tp) ==
    {i \in DOMAIN tp :
        /\ \A j \in 1..i : tp[j].price # Null
        /\ tp[i].price = NoNumber \/ ~OnSide(action, entry, tp[i].price)}

\* The levels that end the loop if it comes to them: their price is on the wrong
\* side, or comparing it raises.  A level without a price is skipped.
Ending(action, entry, tp) ==
    {i \in DOMAIN tp :
        /\ tp[i].price # Null
        /\ tp[i].price = NoNumber \/ ~OnSide(action, entry, tp[i].price)}

ProfitSide(action, entry, tp) == Ending(action, entry, tp) = {}

ProfitRaises(action, entry, tp) ==
    \E i \in Ending(action, entry, tp) :
        tp[i].price = NoNumber /\ \A j \in Ending(action, entry, tp) : i <= j

LevelsDistinct(tp) == \A i, j \in DOMAIN tp : tp[i].level = tp[j].level => i = j

Consistent(action, entry, stop, tp) ==
    /\ PriceValid(entry)
    /\ stop # Null => PriceValid(stop) /\ StopSide(action, entry, stop)
    /\ tp # Null => ProfitSide(action, entry, tp) /\ LevelsDistinct(tp)

-----------------------------------------------------------------------------
(* Creation.                                                               *)

\* x or y: an empty text, or a zero, is false.
OrText(x, y)  == IF x = NoText THEN y ELSE x
OrPrice(x, y) == IF x = 0 THEN y ELSE x

Answers == [m \in Messages |-> Extract(Tokens[m])]

\* The answer of extract_signal as create_signal reads it; an answer without
\* success is an empty signal, no answer changes nothing.
Parsed(m) == IF m = NoAnswer THEN Nothing ELSE Answers[m].parsed

\* The fields of the request overridden by those of the extractor.  proto: the
\* take profits are still the container of the answer; a price from there is a
\* float.
Merged(body, channel, m) ==
    LET p == Parsed(m)
    IN  [symbol  |-> OrText(p.symbol, body.symbol),
         action  |-> OrText(p.action, body.action),
         entry   |-> OrPrice(p.entry, body.entry),
         stop    |-> OrPrice(p.stop, body.stop),
         tp      |-> IF DOMAIN p.tp # {} THEN SetToSeq(LevelSet(p.tp)) ELSE body.tp,
         proto   |-> DOMAIN p.tp # {},
         channel |-> channel]

\* is_finite is asked of a float, which has no such method; or the loop over the
\* take profits raises.
Raises(row, m) ==
    \/ row.entry > 0 /\ Parsed(m).entry > 0
    \/ row.tp # Null /\ ProfitRaises(row.action, row.entry, row.tp)

CreateSignal(q, u, m, body, channel) ==
    LET row     == Merged(body, channel, m)
        checked == row.action # Null /\ row.entry \notin {Null, 0}
    IN  Begin(q, [name |-> "create_signal", user |-> u, message |-> m],
              CASE checked /\ Raises(row, m) -> "failed"
                [] checked /\ ~Raises(row, m)
                           /\ ~Consistent(row.action, row.entry, row.stop, row.tp) -> "refused"
                [] OTHER -> "ready",
              row)

\* Faulty variant: the levels become a list of objects.
TelegramWebhookConverted(q, u, m) ==
    Begin(q, [name |-> "telegram_webhook", user |-> u, message |-> m],
          IF m = NoAnswer THEN "answered" ELSE "ready",
          [symbol |-> Parsed(m).symbol, action |-> Parsed(m).action, entry |-> Parsed(m).entry,
           stop |-> Parsed(m).stop, tp |-> SetToSeq(LevelSet(Parsed(m).tp)), proto |-> FALSE,
           channel |-> Null])

\* telegram_webhook: accepted when there is no answer; the row that is added
\* otherwise has the container of the answer, also when it is empty.  u is the
\* system user.
TelegramWebhook(q, u, m) ==
    Begin(q, [name |-> "telegram_webhook", user |-> u, message |-> m],
          IF m = NoAnswer THEN "answered" ELSE "ready",
          [symbol |-> Parsed(m).symbol, action |-> Parsed(m).action, entry |-> Parsed(m).entry,
           stop |-> Parsed(m).stop, tp |-> SetToSeq(LevelSet(Parsed(m).tp)), proto |-> TRUE,
           channel |-> Null])

\* Faulty variant: the action may be NULL.
StorableNullAction(row, channels) ==
    ~row.proto /\ row.symbol # Null /\ row.channel \in channels \union {Null}

\* The column take_profit is JSON, which json.dumps cannot make of a container.
Storable(row, channels) ==
    /\ ~row.proto
    /\ row.symbol # Null /\ row.action # Null
    /\ row.channel \in channels \union {Null}

Row(owner, x) ==
    [owner |-> owner, symbol |-> x.symbol, action |-> x.action, entry |-> x.entry,
     stop |-> x.stop, tp |-> x.tp, channel |-> x.channel]

\* The insertion of either; the broadcast of the webhook would follow.
StoreSignal(q, channels) ==
    /\ Ready(q, {"create_signal", "telegram_webhook"})
    /\ Storable(loaded[q], channels)
    /\ signals' = Plus(signals, q, Row(op[q].user, loaded[q]))
    /\ Committed(q)
    /\ UNCHANGED jobs

-----------------------------------------------------------------------------
(* Update and deletion.                                                    *)

Owned(u, id) == id \in DOMAIN signals /\ signals[id].owner = u

LoadSignal(q, o) ==
    IF Owned(o.user, o.id) THEN Begin(q, o, "ready", signals[o.id]) ELSE Begin(q, o, "refused", Null)

UpdateSignal(q, u, id, patch) ==
    LoadSignal(q, [name |-> "update_signal", user |-> u, id |-> id, patch |-> patch])

\* Nothing is validated but what the columns require.
StoreUpdate(q, channels) ==
    LET id  == op[q].id
        row == Written(signals[id], op[q].patch, loaded[q])
    IN  /\ Ready(q, {"update_signal"})
        /\ id \in DOMAIN signals
        /\ row.symbol # Null /\ row.action # Null
        /\ row.channel \in channels \union {Null}
        /\ signals' = [signals EXCEPT ![id] = row]
        /\ Committed(q)
        /\ UNCHANGED jobs

DeleteSignal(q, u, id) == LoadSignal(q, [name |-> "delete_signal", user |-> u, id |-> id])

\* The jobs that refer to a deleted row would be left with NULL in a column
\* that does not allow it; those that appear later are found by the foreign key.
Unreferenced(field, id) == \A j \in DOMAIN jobs : jobs[j][field] # id

\* Faulty variant: the jobs are not looked at.
StoreDeleteAlways(q) ==
    /\ Ready(q, {"delete_signal"})
    /\ signals' = Without(signals, op[q].id)
    /\ Committed(q)
    /\ UNCHANGED jobs

StoreDelete(q) ==
    /\ Ready(q, {"delete_signal"})
    /\ Unreferenced("signal", op[q].id)
    /\ signals' = Without(signals, op[q].id)
    /\ Committed(q)
    /\ UNCHANGED jobs

-----------------------------------------------------------------------------
(* Routing.                                                                *)

\* An earlier job for the pair refuses the request if it is still pending or
\* claimed, which is not told apart from the others here.
RouteSignal(q, u, id, account, found) ==
    LET o == [name |-> "route_signal", user |-> u, id |-> id, account |-> account]
    IN  IF Owned(u, id) /\ found
        THEN \/ Begin(q, o, "ready", Null)
             \/ /\ \E j \in DOMAIN jobs : jobs[j] = [signal |-> id, account |-> account]
                /\ Begin(q, o, "refused", Null)
        ELSE Begin(q, o, "refused", Null)

StoreJob(q, accounts) ==
    LET job == [signal |-> op[q].id, account |-> op[q].account]
    IN  /\ Ready(q, {"route_signal"})
        /\ job.signal \in DOMAIN signals
        /\ job.account \in accounts
        /\ \A j \in DOMAIN jobs : jobs[j] # job
        /\ jobs' = Plus(jobs, q, job)
        /\ Committed(q)
        /\ UNCHANGED signals

=============================================================================
