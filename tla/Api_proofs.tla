----------------------------- MODULE Api_proofs -----------------------------
(***************************************************************************)
(* What holds of the API over its tables for any number of requests, users *)
(* and rows, and for any messages and rules of the extractor.              *)
(***************************************************************************)
EXTENDS Api, Extractor_proofs, WellFoundedInduction, TLAPS

\* The requests that have ended.
Over == {r \in Requests : pc[r] \in Ended}

ShapeInv ==
    /\ pc     \in [Requests -> States]
    /\ before \in [Requests -> SUBSET Requests]
    /\ DOMAIN op = Requests /\ DOMAIN loaded = Requests
    /\ \A q \in Requests : pc[q] = "idle" <=> op[q].name = "none"
    /\ \A q \in Requests : before[q] \subseteq Over

\* The extractor has not understood the message of the row, which is consistent
\* if it can be.
NewSignal(m, row) ==
    /\ m = NoAnswer \/ ~Answers[m].success
    /\ row.symbol \in Texts /\ row.action \in Actions
    /\ row.entry \in Prices /\ row.stop \in Prices
    /\ (row.action # Null /\ row.entry \notin {Null, 0}) =>
          Consistent(row.action, row.entry, row.stop, row.tp)

GoodPatch(patch) ==
    /\ "owner" \notin DOMAIN patch
    /\ "symbol" \in DOMAIN patch => patch.symbol \in Texts
    /\ "action" \in DOMAIN patch => patch.action \in Actions
    /\ "entry"  \in DOMAIN patch => patch.entry \in Prices
    /\ "stop"   \in DOMAIN patch => patch.stop \in Prices

\* What a request has found, and what stays true until it commits: o is its
\* endpoint, row what it has read and seen the requests that had ended.
Found(o, row, seen) ==
    /\ o.name = "create_signal"    => NewSignal(o.message, row) /\ o.user \in Users
    /\ o.name = "telegram_webhook" => row.proto
    /\ o.name = "update_signal"    => GoodPatch(o.patch)
    /\ o.name = "route_signal"     =>
          /\ o.id \in Over /\ o.account \in Accounts
          /\ o.id \in DOMAIN signals => signals[o.id].owner = o.user
          /\ o.account \in DOMAIN accounts => accounts[o.account].owner = o.user
    /\ o.name = "update_account"   => o.patch \in AccountPatches
    /\ o.name = "create_channel"   => o.user \in Users /\ o.tid \in Names
    /\ o.name = "update_channel"   => DOMAIN o.patch = {"tid"} /\ o.patch.tid \in Names
    /\ o.name = "create_symbol"    =>
          \A s \in seen \intersect DOMAIN symbols :
              symbols[s] # o.symbol \/ Touched(s, "update_symbol")

ReadyInv == \A q \in Requests : pc[q] = "ready" => Found(op[q], loaded[q], before[q])

Fields == {"owner", "symbol", "action", "entry", "stop", "tp", "channel"}

\* IsSignal, but for the columns.
Typed(x) ==
    /\ x.owner \in Users
    /\ x.symbol \in Texts \ {Null} /\ x.action \in Actions \ {Null}
    /\ x.entry \in Prices /\ x.stop \in Prices

SignalInv ==
    \A s \in DOMAIN signals :
        /\ s \in Requests /\ pc[s] = "answered"
        /\ op[s].name = "create_signal"
        /\ op[s].message = NoAnswer \/ ~Answers[op[s].message].success
        /\ DOMAIN signals[s] = Fields /\ Typed(signals[s])

AccountInv == \A a \in DOMAIN accounts : IsAccount(accounts[a])

ChannelInv == \A c \in DOMAIN channels : IsChannel(channels[c])

JobInv == \A j \in DOMAIN jobs : jobs[j] \in LiveJob(Accounts)

SymbolInv == \A s \in DOMAIN symbols : s \in Requests /\ pc[s] = "answered"

IInv ==
    /\ ShapeInv /\ ReadyInv
    /\ SignalInv /\ AccountInv /\ ChannelInv /\ JobInv /\ SymbolInv
    /\ RowsReferenced /\ CreatedConsistent /\ TwinsOverlap

\* Where request q goes when it arrives.
Arrives(q, o, s, row) ==
    /\ Begin(q, o, s, row)
    /\ o.name # "none"
    /\ s \in {"ready"} \union Ended
    /\ s = "ready" => Found(o, row, Over)

-----------------------------------------------------------------------------
(* The extractor.                                                          *)

\* A price the extractor finds in a message is a natural number, 0 included,
\* which stands for none.
LEMMA PriceOfMessage ==
    ASSUME NEW m \in Messages, NEW terms
    PROVE  PriceOf(Tokens[m], terms) \in Nat
<1>. DEFINE t    == Tokens[m]
            at   == {i \in 1..(Len(t) - 1) : IsTerm(t[i], terms)}
            good == {v \in Value(t, terms) : IsNumber(v) /\ Allowed(v.price, Symbol(t))}
<1>. HIDE DEF at
<1>1. t \in Seq([word : STRING] \union [price : Nat, written : Nat])
  BY TokensAssumption
<1>2. ASSUME NEW v \in good
      PROVE  v.price \in Nat
  <2>1. /\ at # {}
        /\ v = t[1 + CHOOSE i \in at : \A j \in at : i <= j]
        /\ IsNumber(v)
    BY DEF Value, at
  <2>2. at \subseteq Nat
    BY <1>1 DEF at
  <2>3. PICK i \in at : \A j \in at : <<j, i>> \notin OpToRel(<, Nat)
    BY <2>1, <2>2, NatLessThanWellFounded, WFMin
  <2>4. \A j \in at : ~(j < i)
    BY <2>2, <2>3, Zenon DEF OpToRel
  <2>5. (CHOOSE k \in at : \A j \in at : k <= j) \in at
    <3>1. \A j \in at : i <= j
      BY <2>2, <2>4
    <3>. QED
      BY <3>1
  <2>6. v \in [word : STRING] \union [price : Nat, written : Nat]
    <3>1. PICK k \in at : v = t[1 + k]
      BY <2>1, <2>5
    <3>2. 1 + k \in 1..Len(t)
      BY <1>1 DEF at
    <3>. HIDE DEF t
    <3>. QED
      BY <1>1, <3>1, <3>2
  <2>. QED
    BY <2>1, <2>6 DEF IsNumber
<1>. QED
  BY <1>2 DEF PriceOf

\* What create_signal reads of a message that the extractor understood.
LEMMA ParsedUnderstood ==
    ASSUME NEW m \in Messages, m # NoAnswer, Answers[m].success
    PROVE  /\ Parsed(m).action \in {"BUY", "SELL"}
           /\ Parsed(m).entry \in Nat /\ Parsed(m).entry > 0
<1>. DEFINE p == Parse(Tokens[m])
<1>1. p.entry \in Nat
  BY PriceOfMessage DEF Parse
<1>. HIDE DEF p
<1>2. Answers[m] = IF Validate(p) THEN [success |-> TRUE, parsed |-> p]
                                  ELSE [success |-> FALSE, parsed |-> Nothing]
  BY DEF Answers, Extract, p
<1>3. Validate(p) /\ Parsed(m) = p
  BY <1>2 DEF Parsed
<1>. QED
  BY <1>1, <1>3 DEF Validate

\* What it reads of a message without an answer, or one that was not understood.
LEMMA ParsedNothing ==
    ASSUME NEW m \in Messages \union {NoAnswer}, m = NoAnswer \/ ~Answers[m].success
    PROVE  Parsed(m) = Nothing
<1>. DEFINE p == Parse(Tokens[m])
<1>. HIDE DEF p
<1>1. CASE m = NoAnswer
  BY <1>1 DEF Parsed
<1>2. CASE m # NoAnswer
  <2>1. Answers[m] = IF Validate(p) THEN [success |-> TRUE, parsed |-> p]
                                    ELSE [success |-> FALSE, parsed |-> Nothing]
    BY <1>2 DEF Answers, Extract, p
  <2>. QED
    BY <1>2, <2>1 DEF Parsed
<1>. QED
  BY <1>1, <1>2

\* The row create_signal goes on with is a new signal: one of a message that was
\* understood has a price and an action, and raises.
LEMMA NewSignalRow ==
    ASSUME NEW m \in Messages \union {NoAnswer}, NEW b \in Bodies, NEW c,
           NEW row, row = Merged(b, c, m),
           NEW checked \in BOOLEAN, checked <=> row.action # Null /\ row.entry \notin {Null, 0},
           ~(checked /\ Raises(row, m)),
           ~(checked /\ ~Raises(row, m) /\ ~Consistent(row.action, row.entry, row.stop, row.tp))
    PROVE  NewSignal(m, row)
<1>a. /\ row.symbol = OrText(Parsed(m).symbol, b.symbol)
      /\ row.action = OrText(Parsed(m).action, b.action)
      /\ row.entry = OrPrice(Parsed(m).entry, b.entry)
      /\ row.stop = OrPrice(Parsed(m).stop, b.stop)
  BY DEF Merged
<1>1. CASE m = NoAnswer \/ ~Answers[m].success
  <2>1. /\ Parsed(m).symbol = NoText /\ Parsed(m).action = NoText
        /\ Parsed(m).entry = 0 /\ Parsed(m).stop = 0
    <3>1. Parsed(m) = Nothing
      BY <1>1, ParsedNothing
    <3>. QED
      BY <3>1 DEF Nothing
  <2>2. /\ row.symbol = b.symbol /\ row.action = b.action
        /\ row.entry = b.entry /\ row.stop = b.stop
    BY <1>a, <2>1 DEF OrText, OrPrice
  <2>3. /\ b.symbol \in Texts /\ b.action \in Actions
        /\ b.entry \in Prices /\ b.stop \in Prices
    BY BodiesAssumption DEF SignalCreate
  <2>. QED
    BY <1>1, <2>2, <2>3 DEF NewSignal
<1>2. CASE ~(m = NoAnswer \/ ~Answers[m].success)
  <2>1. row.action = Parsed(m).action /\ row.entry = Parsed(m).entry
    <3>1. m \in Messages /\ m # NoAnswer /\ Answers[m].success
      BY <1>2
    <3>2. /\ Parsed(m).action \in {"BUY", "SELL"}
          /\ Parsed(m).entry \in Nat /\ Parsed(m).entry > 0
      BY <3>1, ParsedUnderstood
    <3>3. Parsed(m).action # NoText
      BY <3>2, Zenon DEF NoText
    <3>4. Parsed(m).entry # 0
      BY <3>2
    <3>. QED
      BY <1>a, <3>3, <3>4 DEF OrText, OrPrice
  <2>2. checked /\ Raises(row, m)
    BY <1>2, <2>1, ParsedUnderstood, NullAssumption DEF Raises
  <2>. QED
    BY <2>2
<1>. QED
  BY <1>1, <1>2

-----------------------------------------------------------------------------
(* What requests find.                                                     *)

\* A signal to be created goes on only as a new signal.
LEMMA CreateSignalArrives ==
    ASSUME NEW q, NEW u \in Users, NEW m \in Messages \union {NoAnswer}, NEW b \in Bodies, NEW c,
           CreateSignal(q, u, m, b, c)
    PROVE  \E o, s, row : Arrives(q, o, s, row)
<1>. DEFINE row     == Merged(b, c, m)
            checked == row.action # Null /\ row.entry \notin {Null, 0}
            raises  == Raises(row, m)
            good    == Consistent(row.action, row.entry, row.stop, row.tp)
            s       == CASE checked /\ raises -> "failed"
                         [] checked /\ ~raises /\ ~good -> "refused"
                         [] OTHER -> "ready"
            o       == [name |-> "create_signal", user |-> u, message |-> m]
<1>1. Begin(q, o, s, row)
  BY Zenon DEF CreateSignal
<1>2. ASSUME ~(checked /\ raises), ~(checked /\ ~raises /\ ~good)
      PROVE  NewSignal(m, row)
  <2>. HIDE DEF row
  <2>1. checked \in BOOLEAN /\ (checked <=> row.action # Null /\ row.entry \notin {Null, 0})
    OBVIOUS
  <2>. QED
    BY <1>2, <2>1, NewSignalRow DEF row
<1>. HIDE DEF row, checked, raises, good
<1>3. CASE checked /\ raises
  <2>1. s = "failed"
    BY <1>3, Zenon
  <2>. HIDE DEF s
  <2>. QED
    BY <1>1, <2>1 DEF Arrives, Ended
<1>4. CASE checked /\ ~raises /\ ~good
  <2>1. s = "refused"
    BY <1>4, Zenon
  <2>. HIDE DEF s
  <2>. QED
    BY <1>1, <2>1 DEF Arrives, Ended
<1>5. CASE ~(checked /\ raises) /\ ~(checked /\ ~raises /\ ~good)
  <2>1. s = "ready"
    BY <1>5, Zenon
  <2>. HIDE DEF s
  <2>2. Found(o, row, Over)
    BY <1>2, <1>5 DEF Found
  <2>. QED
    BY <1>1, <2>1, <2>2 DEF Arrives
<1>. QED
  BY <1>3, <1>4, <1>5

\* The other requests about signals.
LEMMA SignalArrives ==
    ASSUME SignalInv, NEW q, NEW u \in Users, ArriveSignal(q, u)
    PROVE  \E o, s, row : Arrives(q, o, s, row)
<1>1. ASSUME NEW o, LoadSignal(q, o), o.name # "none", Found(o, signals[o.id], Over)
      PROVE  \E p, s, row : Arrives(q, p, s, row)
  BY <1>1 DEF LoadSignal, Arrives, Ended
<1>2. ASSUME NEW id \in DOMAIN signals, NEW p, GoodPatch(p), UpdateSignal(q, u, id, p)
      PROVE  \E o, s, row : Arrives(q, o, s, row)
  <2>. DEFINE o == [name |-> "update_signal", user |-> u, id |-> id, patch |-> p]
  <2>1. LoadSignal(q, o)
    BY <1>2 DEF UpdateSignal
  <2>2. o.name # "none" /\ Found(o, signals[o.id], Over)
    BY <1>2 DEF Found
  <2>. QED
    BY <1>1, <2>1, <2>2
<1>3. ASSUME NEW id \in DOMAIN signals, DeleteSignal(q, u, id)
      PROVE  \E o, s, row : Arrives(q, o, s, row)
  <2>. DEFINE o == [name |-> "delete_signal", user |-> u, id |-> id]
  <2>1. LoadSignal(q, o)
    BY <1>3 DEF DeleteSignal
  <2>2. o.name # "none" /\ Found(o, signals[o.id], Over)
    BY DEF Found
  <2>. QED
    BY <1>1, <2>1, <2>2
<1>4. ASSUME NEW id \in DOMAIN signals, NEW a \in Accounts,
             RouteSignal(q, u, id, a, OwnAccount(u, a) /\ accounts[a].active)
      PROVE  \E o, s, row : Arrives(q, o, s, row)
  <2>. DEFINE o == [name |-> "route_signal", user |-> u, id |-> id, account |-> a]
  <2>1. \/ Begin(q, o, "refused", Null)
        \/ Owned(u, id) /\ OwnAccount(u, a) /\ Begin(q, o, "ready", Null)
    BY <1>4 DEF RouteSignal
  <2>2. ASSUME Owned(u, id), OwnAccount(u, a)
        PROVE  Found(o, Null, Over)
    BY <1>4, <2>2 DEF Found, Owned, OwnAccount, SignalInv, Over, Ended
  <2>. QED
    BY <2>1, <2>2 DEF Arrives, Ended
<1>5. \A p \in Patches : GoodPatch(p)
  BY PatchesAssumption DEF GoodPatch, SignalUpdate
<1>6. \A c : GoodPatch([channel |-> c])
  BY DEF GoodPatch
<1>. QED
  BY <1>2, <1>3, <1>4, <1>5, <1>6, CreateSignalArrives DEF ArriveSignal

\* A creation goes on only if its lookup found no row.
LEMMA LookupOutcome ==
    ASSUME NEW rows
    PROVE  /\ AfterLookup(rows) \in {"ready", "refused", "failed"}
           /\ AfterLookup(rows) = "ready" => rows = {}
<1>1. CASE rows = {}
  BY <1>1, Zenon DEF AfterLookup
<1>2. CASE rows # {} /\ Cardinality(rows) = 1
  <2>1. AfterLookup(rows) = "refused"
    BY <1>2, Zenon DEF AfterLookup
  <2>. QED
    BY <2>1
<1>3. CASE rows # {} /\ Cardinality(rows) # 1
  <2>1. AfterLookup(rows) = "failed"
    BY <1>3, Zenon DEF AfterLookup
  <2>. QED
    BY <2>1
<1>. QED
  BY <1>1, <1>2, <1>3

\* The requests about accounts, channels and symbols.
LEMMA DirectoryArrives ==
    ASSUME NEW q, NEW u \in Users, ArriveDirectory(q, u)
    PROVE  \E o, s, row : Arrives(q, o, s, row)
<1>1. ASSUME NEW o, NEW s, NEW row, Begin(q, o, s, row), s \in {"ready"} \union Ended,
             o.name \notin {"none", "create_signal", "telegram_webhook", "update_signal",
                            "route_signal", "update_account", "create_channel", "update_channel",
                            "create_symbol"}
      PROVE  Arrives(q, o, s, row)
  BY <1>1 DEF Arrives, Found
<1>2. \A rows : AfterLookup(rows) \in {"ready"} \union Ended
  BY LookupOutcome DEF Ended
<1>3. \A rows : AfterLookup(rows) = "ready" => rows = {}
  BY LookupOutcome
<1>4. CASE CreateAccount(q, u) \/ UpdateProfile(q, u)
  <2>. DEFINE o == [name |-> "create_account", user |-> u]
              p == [name |-> "update_me", user |-> u]
  <2>1. Begin(q, o, "ready", Null) \/ Begin(q, o, "failed", Null) \/ Begin(q, p, "failed", Null)
    BY <1>4 DEF CreateAccount, UpdateProfile
  <2>. QED
    BY <1>1, <2>1 DEF Ended
<1>5. ASSUME NEW a \in Accounts, NEW p \in AccountPatches, UpdateAccount(q, u, a, p)
      PROVE  \E o, s, row : Arrives(q, o, s, row)
  <2>. DEFINE o == [name |-> "update_account", user |-> u, id |-> a, patch |-> p]
  <2>1. Begin(q, o, "ready", accounts[o.id]) \/ Begin(q, o, "refused", Null)
    BY <1>5 DEF UpdateAccount, LoadAccount
  <2>. QED
    BY <2>1 DEF Arrives, Found, Ended
<1>6. ASSUME NEW n, CreateSymbol(q, u, n)
      PROVE  \E o, s, row : Arrives(q, o, s, row)
  <2>. DEFINE o == [name |-> "create_symbol", user |-> u, symbol |-> n]
              s == AfterLookup(Holding(symbols, n))
  <2>1. Begin(q, o, s, Null)
    BY <1>6 DEF CreateSymbol
  <2>2. s \in {"ready"} \union Ended
    BY <1>2
  <2>3. s = "ready" => Holding(symbols, n) = {}
    BY <1>3
  <2>. HIDE DEF s
  <2>4. s = "ready" => Found(o, Null, Over)
    BY <2>3 DEF Found, Holding
  <2>. QED
    BY <2>1, <2>2, <2>4 DEF Arrives
<1>7. ASSUME NEW n \in Names, CreateChannel(q, u, n)
      PROVE  \E o, s, row : Arrives(q, o, s, row)
  <2>. DEFINE o == [name |-> "create_channel", user |-> u, tid |-> n]
  <2>1. Begin(q, o, AfterLookup(WithTid(n)), Null)
    BY <1>7 DEF CreateChannel
  <2>2. Found(o, Null, Over)
    BY <1>7 DEF Found
  <2>. QED
    BY <1>2, <2>1, <2>2 DEF Arrives
<1>8. ASSUME NEW id, NEW n \in Names, UpdateChannel(q, u, id, n)
      PROVE  \E o, s, row : Arrives(q, o, s, row)
  <2>. DEFINE o == [name |-> "update_channel", user |-> u, id |-> id, patch |-> [tid |-> n]]
  <2>1. Begin(q, o, "ready", channels[o.id]) \/ Begin(q, o, "refused", Null)
    BY <1>8 DEF UpdateChannel, LoadChannel
  <2>2. Found(o, channels[o.id], Over)
    BY <1>8 DEF Found
  <2>. QED
    BY <2>1, <2>2 DEF Arrives, Ended
<1>9. ASSUME NEW id, NEW n, \/ DeleteChannel(q, u, id) \/ UpdateSymbol(q, u, id, n)
                            \/ DeleteSymbol(q, u, id) \/ DeleteAccount(q, u, id)
      PROVE  \E o, s, row : Arrives(q, o, s, row)
  <2>1. \E row :
          \E o \in {[name |-> "delete_channel", user |-> u, id |-> id],
                    [name |-> "update_symbol", user |-> u, id |-> id, symbol |-> n],
                    [name |-> "delete_symbol", user |-> u, id |-> id],
                    [name |-> "delete_account", user |-> u, id |-> id]} :
             Begin(q, o, "ready", row) \/ Begin(q, o, "refused", row)
    BY <1>9 DEF DeleteChannel, LoadChannel, UpdateSymbol, DeleteSymbol, LoadSymbol,
                DeleteAccount, LoadAccount
  <2>. QED
    BY <1>1, <2>1 DEF Ended
<1>. QED
  BY <1>4, <1>5, <1>6, <1>7, <1>8, <1>9 DEF ArriveDirectory

\* Every request that arrives is refused, has failed, or goes on with what it
\* found.
LEMMA Arrival ==
    ASSUME SignalInv, NEW q, Arrive(q)
    PROVE  \E o, s, row : Arrives(q, o, s, row)
<1>1. ASSUME NEW u, NEW m, TelegramWebhook(q, u, m)
      PROVE  \E o, s, row : Arrives(q, o, s, row)
  <2>. DEFINE o == [name |-> "telegram_webhook", user |-> u, message |-> m]
  <2>1. \E row, s : Begin(q, o, s, row) /\ row.proto /\ s \in {"answered", "ready"}
    BY <1>1 DEF TelegramWebhook
  <2>. QED
    BY <2>1 DEF Arrives, Found, Ended
<1>2. ASSUME NEW n, RegisterUser(q, n)
      PROVE  \E o, s, row : Arrives(q, o, s, row)
  <2>. DEFINE o == [name |-> "register_user", email |-> n]
              s == AfterLookup(Holding(emails, n))
  <2>1. Begin(q, o, s, Null)
    BY <1>2 DEF RegisterUser
  <2>2. s \in {"ready", "refused", "failed"}
    BY LookupOutcome
  <2>. HIDE DEF s
  <2>. QED
    BY <2>1, <2>2 DEF Arrives, Found, Ended
<1>. QED
  BY <1>1, <1>2, SignalArrives, DirectoryArrives DEF Arrive

-----------------------------------------------------------------------------
(* What a step of one request leaves to the others.                        *)

\* q, which has not ended, moves on, and no other request does.
Moves(q) ==
    /\ pc[q] \notin Ended
    /\ \A r \in Requests \ {q} :
          pc'[r] = pc[r] /\ op'[r] = op[r] /\ loaded'[r] = loaded[r] /\ before'[r] = before[r]

\* A row that is there after the step and was put there by an ended request was
\* there, with its owner or its name, unless it has been renamed.
Keeps ==
    /\ \A s \in Over \intersect DOMAIN signals' :
          s \in DOMAIN signals /\ signals'[s].owner = signals[s].owner
    /\ \A a \in DOMAIN accounts' :
          a \in DOMAIN accounts /\ accounts'[a].owner = accounts[a].owner
    /\ \A s \in Over \intersect DOMAIN symbols' :
          /\ s \in DOMAIN symbols
          /\ symbols'[s] = symbols[s] \/ Touched(s, "update_symbol")'

\* The three ways a request moves.
LEMMA BeginMoves ==
    ASSUME ShapeInv, NEW q \in Requests, NEW o, NEW s, NEW row, Arrives(q, o, s, row)
    PROVE  /\ Moves(q) /\ ShapeInv' /\ pc'[q] = s
           /\ s = "ready" => op'[q] = o /\ loaded'[q] = row /\ before'[q] = Over
<1>1. pc[q] = "idle" /\ s \in States \ {"idle", "masking"}
  BY DEF Arrives, Begin, States, Ended
<1>2. Moves(q)
  BY <1>1 DEF Arrives, Begin, Moves, ShapeInv, Ended
<1>. QED
  BY <1>1, <1>2 DEF Arrives, Begin, Moves, ShapeInv, Over, Ended

LEMMA EndMoves ==
    ASSUME ShapeInv, NEW q \in Requests, NEW o, NEW s \in Ended, pc[q] \in {"ready", "masking"},
           End(q, s, o), o.name = op[q].name
    PROVE  Moves(q) /\ ShapeInv' /\ pc'[q] = s /\ op'[q] = o
<1>1. Moves(q)
  BY DEF End, Moves, ShapeInv, Ended
<1>. QED
  BY <1>1 DEF End, Moves, ShapeInv, Over, Ended, States

LEMMA MaskMoves ==
    ASSUME ShapeInv, NEW q \in Requests, StoreAccount(q)
    PROVE  Moves(q) /\ ShapeInv' /\ pc'[q] = "masking"
<1>1. Moves(q)
  BY DEF StoreAccount, Ready, Moves, ShapeInv, Ended
<1>. QED
  BY <1>1 DEF StoreAccount, Ready, Moves, ShapeInv, Over, Ended, States

\* A request that has ended stays so, and what it has done stays known.
LEMMA OverStays ==
    ASSUME ShapeInv, NEW q \in Requests, Moves(q)
    PROVE  /\ \A r \in Over : r \in Over' /\ pc'[r] = pc[r] /\ op'[r] = op[r]
           /\ \A id, name : Touched(id, name) => Touched(id, name)'
<1>1. \A r \in Over : r # q /\ r \in Over' /\ pc'[r] = pc[r] /\ op'[r] = op[r]
  BY DEF Moves, Over
<1>2. ASSUME NEW id, NEW name, Touched(id, name)
      PROVE  Touched(id, name)'
  <2>1. PICK r \in Requests : pc[r] = "answered" /\ op[r].name = name /\ op[r].id = id
    BY <1>2 DEF Touched
  <2>2. pc'[r] = "answered" /\ op'[r] = op[r]
    BY <1>1, <2>1 DEF Over, Ended
  <2>. QED
    BY <2>1, <2>2 DEF Touched
<1>. QED
  BY <1>1, <1>2

\* What a request has found, as it is after the step.
FoundAfter(o, row, seen) ==
    /\ o.name = "create_signal"    => NewSignal(o.message, row)
    /\ o.name = "create_signal"    => o.user \in Users
    /\ o.name = "telegram_webhook" => row.proto
    /\ o.name = "update_signal"    => GoodPatch(o.patch)
    /\ o.name = "route_signal"     =>
          /\ o.id \in Over' /\ o.account \in Accounts
          /\ o.id \in DOMAIN signals' => signals'[o.id].owner = o.user
          /\ o.account \in DOMAIN accounts' => accounts'[o.account].owner = o.user
    /\ o.name = "update_account"   => o.patch \in AccountPatches
    /\ o.name = "create_channel"   => o.user \in Users /\ o.tid \in Names
    /\ o.name = "update_channel"   => DOMAIN o.patch = {"tid"} /\ o.patch.tid \in Names
    /\ o.name = "create_symbol"    =>
          \A s \in seen \intersect DOMAIN symbols' :
              symbols'[s] # o.symbol \/ Touched(s, "update_symbol")'

\* What another request has found stays true when the tables keep their rows.
LEMMA FoundStays ==
    ASSUME ShapeInv, NEW q \in Requests, Moves(q), Keeps,
           NEW o, NEW row, NEW seen \in SUBSET Over, Found(o, row, seen)
    PROVE  FoundAfter(o, row, seen)
<1>. USE DEF FoundAfter
<1>1. CASE o.name = "route_signal"
  BY <1>1, OverStays DEF Found, Keeps
<1>2. CASE o.name = "create_symbol"
  <2>. SUFFICES ASSUME NEW s \in seen \intersect DOMAIN symbols', symbols'[s] = o.symbol
                PROVE  Touched(s, "update_symbol")'
    BY <1>2
  <2>1. s \in DOMAIN symbols /\ (symbols'[s] = symbols[s] \/ Touched(s, "update_symbol")')
    BY DEF Keeps
  <2>2. symbols[s] # o.symbol \/ Touched(s, "update_symbol")
    BY <1>2, <2>1 DEF Found
  <2>. QED
    BY <2>1, <2>2, OverStays
<1>. QED
  BY <1>1, <1>2 DEF Found

\* So do the other requests that are ready.
LEMMA ReadyStays ==
    ASSUME ShapeInv, ReadyInv, NEW q \in Requests, Moves(q), Keeps,
           pc'[q] = "ready" => Found(op[q], loaded[q], before[q])'
    PROVE  ReadyInv'
<1>. SUFFICES ASSUME NEW r \in Requests, r # q, pc'[r] = "ready"
              PROVE  Found(op[r], loaded[r], before[r])'
  BY DEF ReadyInv
<1>1. /\ pc[r] = "ready"
      /\ op'[r] = op[r] /\ loaded'[r] = loaded[r] /\ before'[r] = before[r]
      /\ before[r] \in SUBSET Over
  BY DEF Moves, ShapeInv
<1>2. Found(op[r], loaded[r], before[r])
  BY <1>1 DEF ReadyInv
<1>3. FoundAfter(op[r], loaded[r], before[r])
  BY <1>1, <1>2, FoundStays
<1>4. FoundAfter(op'[r], loaded'[r], before'[r])
  BY <1>1, <1>3, Zenon
<1>. QED
  BY <1>4 DEF Found, FoundAfter

\* The signals, and the symbols, when a step leaves the table alone.
LEMMA SignalsStay ==
    ASSUME ShapeInv, SignalInv, CreatedConsistent, NEW q \in Requests, Moves(q), UNCHANGED signals
    PROVE  SignalInv' /\ CreatedConsistent'
<1>1. SignalInv'
  BY DEF SignalInv, Moves, Ended
<1>2. CreatedConsistent'
  BY OverStays DEF CreatedConsistent
<1>. QED
  BY <1>1, <1>2

LEMMA SymbolsStay ==
    ASSUME ShapeInv, SymbolInv, TwinsOverlap, NEW q \in Requests, Moves(q), UNCHANGED symbols
    PROVE  SymbolInv' /\ TwinsOverlap'
<1>1. SymbolInv'
  BY DEF SymbolInv, Moves, Ended
<1>2. \A s \in DOMAIN symbols : before'[s] = before[s]
  BY DEF SymbolInv, Moves, Ended
<1>3. TwinsOverlap'
  BY <1>2, OverStays DEF TwinsOverlap
<1>. QED
  BY <1>1, <1>3

\* A step that changes no table.
LEMMA TablesStay ==
    ASSUME IInv, NEW q \in Requests, Moves(q), ShapeInv', UNCHANGED tables,
           pc'[q] = "ready" => Found(op[q], loaded[q], before[q])'
    PROVE  IInv'
<1>1. UNCHANGED <<signals, jobs, accounts, channels, symbols>>
  BY DEF tables, directoryVars
<1>2. Keeps
  BY <1>1 DEF Keeps
<1>3. ReadyInv'
  BY <1>2, ReadyStays DEF IInv
<1>4. AccountInv' /\ ChannelInv' /\ JobInv' /\ RowsReferenced'
  BY <1>1 DEF IInv, AccountInv, ChannelInv, JobInv, RowsReferenced
<1>. QED
  BY <1>1, <1>3, <1>4, SignalsStay, SymbolsStay DEF IInv

-----------------------------------------------------------------------------
(* The steps.                                                              *)

LEMMA ArriveStep ==
    ASSUME IInv, NEW q \in Requests, Arrive(q)
    PROVE  IInv'
<1>1. PICK o, s, row : Arrives(q, o, s, row)
  BY Arrival DEF IInv
<1>2. UNCHANGED tables
  BY DEF Arrive
<1>3. /\ Moves(q) /\ ShapeInv' /\ pc'[q] = s
      /\ s = "ready" => op'[q] = o /\ loaded'[q] = row /\ before'[q] = Over
  BY <1>1, BeginMoves DEF IInv
<1>4. ASSUME s = "ready"
      PROVE  Found(op[q], loaded[q], before[q])'
  <2>1. UNCHANGED <<signals, accounts, symbols>>
    BY <1>2 DEF tables, directoryVars
  <2>2. Keeps
    BY <2>1 DEF Keeps
  <2>3. Found(o, row, Over)
    BY <1>1, <1>4 DEF Arrives
  <2>4. FoundAfter(o, row, Over)
    BY <1>3, <2>2, <2>3, FoundStays DEF IInv
  <2>5. FoundAfter(op'[q], loaded'[q], before'[q])
    BY <1>3, <1>4, <2>4
  <2>. QED
    BY <2>5 DEF Found, FoundAfter
<1>. QED
  BY <1>2, <1>3, <1>4, TablesStay

LEMMA RollbackStep ==
    ASSUME IInv, NEW q \in Requests, RollbackRequest(q)
    PROVE  IInv'
<1>1. Moves(q) /\ ShapeInv' /\ pc'[q] = "failed"
  BY EndMoves DEF RollbackRequest, Rollback, IInv, Ended
<1>. QED
  BY <1>1, TablesStay DEF RollbackRequest

\* A commit of a request that is ready ends it.
LEMMA CommitMoves ==
    ASSUME IInv, NEW q \in Requests, pc[q] \in {"ready", "masking"}, Committed(q)
    PROVE  Moves(q) /\ ShapeInv' /\ pc'[q] = "answered" /\ op'[q] = op[q]
  BY EndMoves DEF Committed, IInv, Ended

\* The insertion of a signal: it is new, and consistent.
LEMMA StoreSignalStep ==
    ASSUME IInv, NEW q \in Requests, StoreSignal(q, DOMAIN channels), UNCHANGED directoryVars
    PROVE  IInv'
<1>. DEFINE row == Row(op[q].user, loaded[q])
<1>1. /\ pc[q] = "ready"
      /\ Storable(loaded[q], DOMAIN channels)
      /\ signals' = Plus(signals, q, row)
      /\ UNCHANGED <<jobs, accounts, channels, symbols>>
  BY DEF StoreSignal, Ready, directoryVars
<1>2. Moves(q) /\ ShapeInv' /\ pc'[q] = "answered" /\ op'[q] = op[q]
  BY <1>1, CommitMoves DEF StoreSignal
<1>3. /\ op[q].name = "create_signal"
      /\ NewSignal(op[q].message, loaded[q]) /\ op[q].user \in Users
  BY <1>1 DEF StoreSignal, Ready, IInv, ReadyInv, Found, Storable
<1>4. q \notin DOMAIN signals
  BY <1>1 DEF IInv, SignalInv
<1>5. /\ DOMAIN row = Fields
      /\ row.owner = op[q].user
      /\ row.action = loaded[q].action /\ row.symbol = loaded[q].symbol
      /\ row.channel = loaded[q].channel
      /\ row.entry = loaded[q].entry /\ row.stop = loaded[q].stop /\ row.tp = loaded[q].tp
  BY DEF Row, Fields
<1>. HIDE DEF row
<1>6. /\ DOMAIN signals' = DOMAIN signals \union {q}
      /\ signals'[q] = row
      /\ \A s \in DOMAIN signals : s # q /\ signals'[s] = signals[s]
  BY <1>1, <1>4 DEF Plus
<1>7. Keeps
  BY <1>1, <1>6 DEF Keeps, Over, Ended
<1>8. ReadyInv'
  BY <1>2, <1>7, ReadyStays DEF IInv
<1>9. SignalInv'
  <2>1. SignalInv
    BY DEF IInv
  <2>2. Typed(row)
    BY <1>1, <1>3, <1>5 DEF Storable, NewSignal, Typed
  <2>3. op[q].message = NoAnswer \/ ~Answers[op[q].message].success
    BY <1>3 DEF NewSignal
  <2>. QED
    BY <1>2, <1>3, <1>5, <1>6, <2>1, <2>2, <2>3 DEF SignalInv, Moves
<1>10. CreatedConsistent'
  <2>1. row.entry \notin {Null, 0} => Consistent(row.action, row.entry, row.stop, row.tp)
    BY <1>1, <1>3, <1>5 DEF NewSignal, Storable
  <2>2. row.entry \notin {Null, 0} =>
          /\ row.entry > 0
          /\ row.stop # Null =>
                row.stop > 0 /\ IF row.action = "BUY" THEN row.stop < row.entry ELSE row.entry < row.stop
          /\ row.tp # Null => \A i \in DOMAIN row.tp :
                /\ row.tp[i].price # Null =>
                      /\ row.tp[i].price # NoNumber
                      /\ IF row.action = "BUY" THEN row.tp[i].price > row.entry
                                               ELSE row.tp[i].price < row.entry
                /\ \A k \in DOMAIN row.tp : row.tp[i].level = row.tp[k].level => i = k
    <3>. SUFFICES ASSUME row.entry \notin {Null, 0}
                  PROVE  /\ row.entry > 0
                         /\ row.stop # Null =>
                               row.stop > 0 /\ IF row.action = "BUY" THEN row.stop < row.entry
                                                                   ELSE row.entry < row.stop
                         /\ row.tp # Null => \A i \in DOMAIN row.tp :
                               /\ row.tp[i].price # Null =>
                                     /\ row.tp[i].price # NoNumber
                                     /\ IF row.action = "BUY" THEN row.tp[i].price > row.entry
                                                              ELSE row.tp[i].price < row.entry
                               /\ \A k \in DOMAIN row.tp : row.tp[i].level = row.tp[k].level => i = k
      OBVIOUS
    <3>1. Consistent(row.action, row.entry, row.stop, row.tp)
      BY <2>1
    <3>2. row.entry > 0 /\ (row.stop # Null => row.stop > 0 /\ StopSide(row.action, row.entry, row.stop))
      BY <3>1 DEF Consistent, PriceValid
    <3>3. row.stop # Null => IF row.action = "BUY" THEN row.stop < row.entry ELSE row.entry < row.stop
      BY <1>3, <1>5, <3>2 DEF StopSide, NewSignal, Prices
    <3>4. ASSUME row.tp # Null, NEW i \in DOMAIN row.tp, row.tp[i].price # Null
          PROVE  /\ row.tp[i].price # NoNumber
                 /\ OnSide(row.action, row.entry, row.tp[i].price)
      BY <3>1, <3>4 DEF Consistent, ProfitSide, Ending
    <3>5. ASSUME row.tp # Null, NEW i \in DOMAIN row.tp, NEW k \in DOMAIN row.tp,
                 row.tp[i].level = row.tp[k].level
          PROVE  i = k
      BY <3>1, <3>5 DEF Consistent, LevelsDistinct
    <3>. QED
      BY <3>2, <3>3, <3>4, <3>5 DEF OnSide
  <2>. QED
    BY <1>2, <1>6, <2>2, OverStays DEF CreatedConsistent, IInv
<1>11. RowsReferenced'
  <2>1. \A s \in DOMAIN signals : signals[s].channel \in DOMAIN channels \union {Null}
    BY DEF IInv, RowsReferenced
  <2>2. \A s \in DOMAIN signals' : signals'[s].channel \in DOMAIN channels \union {Null}
    BY <1>1, <1>5, <1>6, <2>1 DEF Storable
  <2>. QED
    BY <1>1, <1>6, <2>2 DEF IInv, RowsReferenced
<1>12. AccountInv' /\ ChannelInv' /\ JobInv'
  BY <1>1 DEF IInv, AccountInv, ChannelInv, JobInv
<1>. QED
  BY <1>1, <1>2, <1>8, <1>9, <1>10, <1>11, <1>12, SymbolsStay DEF IInv

\* An update of a signal keeps its owner, and gives it the columns it needs.
LEMMA StoreUpdateStep ==
    ASSUME IInv, NEW q \in Requests, StoreUpdate(q, DOMAIN channels), UNCHANGED directoryVars
    PROVE  IInv'
<1>. DEFINE id    == op[q].id
            patch == op[q].patch
            row   == Written(signals[id], patch, loaded[q])
<1>1. /\ pc[q] = "ready" /\ op[q].name = "update_signal"
      /\ id \in DOMAIN signals
      /\ row.symbol # Null /\ row.action # Null
      /\ row.channel \in DOMAIN channels \union {Null}
      /\ signals' = [signals EXCEPT ![id] = row]
      /\ UNCHANGED <<jobs, accounts, channels, symbols>>
  BY DEF StoreUpdate, Ready, directoryVars
<1>2. Moves(q) /\ ShapeInv' /\ pc'[q] = "answered" /\ op'[q] = op[q]
  BY <1>1, CommitMoves DEF StoreUpdate
<1>3. GoodPatch(patch)
  BY <1>1 DEF IInv, ReadyInv, Found
<1>4. DOMAIN signals[id] = Fields /\ Typed(signals[id])
  BY <1>1 DEF IInv, SignalInv
<1>5. /\ DOMAIN row = Fields
      /\ row.owner = signals[id].owner
      /\ Typed(row)
  <2>1. DOMAIN row = Fields /\ row.owner = signals[id].owner
    BY <1>3, <1>4 DEF Written, GoodPatch, Fields
  <2>2. /\ row.symbol = signals[id].symbol \/ ("symbol" \in DOMAIN patch /\ row.symbol = patch.symbol)
        /\ row.action = signals[id].action \/ ("action" \in DOMAIN patch /\ row.action = patch.action)
        /\ row.entry = signals[id].entry \/ ("entry" \in DOMAIN patch /\ row.entry = patch.entry)
        /\ row.stop = signals[id].stop \/ ("stop" \in DOMAIN patch /\ row.stop = patch.stop)
    BY <1>4 DEF Written, Fields
  <2>. HIDE DEF row
  <2>. QED
    BY <1>1, <1>3, <1>4, <2>1, <2>2 DEF GoodPatch, Typed
<1>. HIDE DEF row, id, patch
<1>6. /\ DOMAIN signals' = DOMAIN signals
      /\ signals'[id] = row
      /\ \A s \in DOMAIN signals : s # id => signals'[s] = signals[s]
  BY <1>1
<1>7. \A s \in DOMAIN signals : signals'[s].owner = signals[s].owner
  BY <1>5, <1>6
<1>8. Keeps
  BY <1>1, <1>6, <1>7 DEF Keeps
<1>9. ReadyInv'
  BY <1>2, <1>8, ReadyStays DEF IInv
<1>10. SignalInv'
  <2>1. SignalInv
    BY DEF IInv
  <2>2. \A s \in DOMAIN signals : s # q /\ pc'[s] = pc[s] /\ op'[s] = op[s]
    BY <1>1, <1>2, <2>1 DEF SignalInv, Moves
  <2>. QED
    BY <1>1, <1>5, <1>6, <2>1, <2>2 DEF SignalInv
<1>11. CreatedConsistent'
  <2>1. \A s : s = id => Touched(s, "update_signal")'
    BY <1>1, <1>2 DEF Touched, id
  <2>2. \A s \in DOMAIN signals : Touched(s, "update_signal") => Touched(s, "update_signal")'
    BY <1>2, OverStays DEF IInv
  <2>3. \A s \in DOMAIN signals' :
          ~Touched(s, "update_signal")' =>
              s \in DOMAIN signals /\ signals'[s] = signals[s] /\ ~Touched(s, "update_signal")
    BY <1>6, <2>1, <2>2
  <2>4. CreatedConsistent
    BY DEF IInv
  <2>. QED
    BY <2>3, <2>4 DEF CreatedConsistent
<1>12. RowsReferenced'
  <2>1. RowsReferenced
    BY DEF IInv
  <2>2. \A s \in DOMAIN signals' : signals'[s].channel \in DOMAIN channels \union {Null}
    BY <1>1, <1>6, <2>1 DEF RowsReferenced
  <2>. QED
    BY <1>1, <1>6, <1>7, <2>1, <2>2 DEF RowsReferenced
<1>13. AccountInv' /\ ChannelInv' /\ JobInv'
  BY <1>1 DEF IInv, AccountInv, ChannelInv, JobInv
<1>. QED
  BY <1>1, <1>2, <1>9, <1>10, <1>11, <1>12, <1>13, SymbolsStay DEF IInv

\* No job refers to a signal that is deleted.
LEMMA StoreDeleteStep ==
    ASSUME IInv, NEW q \in Requests, StoreDelete(q), UNCHANGED directoryVars
    PROVE  IInv'
<1>1. /\ pc[q] = "ready"
      /\ Unreferenced("signal", op[q].id)
      /\ signals' = Without(signals, op[q].id)
      /\ UNCHANGED <<jobs, accounts, channels, symbols>>
  BY DEF StoreDelete, Ready, directoryVars
<1>2. Moves(q) /\ ShapeInv' /\ pc'[q] = "answered" /\ op'[q] = op[q]
  BY <1>1, CommitMoves DEF StoreDelete
<1>3. /\ DOMAIN signals' = DOMAIN signals \ {op[q].id}
      /\ \A s \in DOMAIN signals' : signals'[s] = signals[s]
  BY <1>1 DEF Without
<1>4. Keeps
  BY <1>1, <1>3 DEF Keeps
<1>5. ReadyInv'
  BY <1>2, <1>4, ReadyStays DEF IInv
<1>6. SignalInv'
  <2>1. \A s \in DOMAIN signals : s # q /\ pc'[s] = pc[s] /\ op'[s] = op[s]
    BY <1>1, <1>2 DEF IInv, SignalInv, Moves
  <2>. QED
    BY <1>3, <2>1 DEF IInv, SignalInv
<1>7. CreatedConsistent'
  BY <1>2, <1>3, OverStays DEF IInv, CreatedConsistent
<1>8. RowsReferenced'
  BY <1>1, <1>3 DEF IInv, RowsReferenced, Unreferenced
<1>9. AccountInv' /\ ChannelInv' /\ JobInv'
  BY <1>1 DEF IInv, AccountInv, ChannelInv, JobInv
<1>. QED
  BY <1>1, <1>2, <1>5, <1>6, <1>7, <1>8, <1>9, SymbolsStay DEF IInv

\* A job is inserted for a signal and an account that are there: those that the
\* request has found to belong to its user, or none.
LEMMA StoreJobStep ==
    ASSUME IInv, NEW q \in Requests, StoreJob(q, DOMAIN accounts), UNCHANGED directoryVars
    PROVE  IInv'
<1>. DEFINE job == [signal |-> op[q].id, account |-> op[q].account]
<1>1. /\ pc[q] = "ready" /\ op[q].name = "route_signal"
      /\ job.signal \in DOMAIN signals /\ job.account \in DOMAIN accounts
      /\ jobs' = Plus(jobs, q, job)
      /\ UNCHANGED <<signals, accounts, channels, symbols>>
  BY DEF StoreJob, Ready, directoryVars
<1>2. Moves(q) /\ ShapeInv' /\ pc'[q] = "answered" /\ op'[q] = op[q]
  BY <1>1, CommitMoves DEF StoreJob
<1>3. /\ signals[job.signal].owner = accounts[job.account].owner
      /\ job \in LiveJob(Accounts)
  BY <1>1 DEF IInv, ReadyInv, Found, Over, LiveJob
<1>. HIDE DEF job
<1>4. Keeps
  BY <1>1 DEF Keeps
<1>5. ReadyInv'
  BY <1>2, <1>4, ReadyStays DEF IInv
<1>a. \A j \in DOMAIN jobs' : jobs'[j] = job \/ (j \in DOMAIN jobs /\ jobs'[j] = jobs[j])
  BY <1>1 DEF Plus
<1>6. RowsReferenced'
  BY <1>1, <1>3, <1>a DEF IInv, RowsReferenced
<1>7. AccountInv' /\ ChannelInv' /\ JobInv'
  BY <1>1, <1>3, <1>a DEF IInv, AccountInv, ChannelInv, JobInv
<1>. QED
  BY <1>1, <1>2, <1>5, <1>6, <1>7, SignalsStay, SymbolsStay DEF IInv

\* An update of an account keeps its owner, and its login as it is.
LEMMA StoreAccountStep ==
    ASSUME IInv, NEW q \in Requests, StoreAccount(q), UNCHANGED <<signals, jobs>>
    PROVE  /\ IInv'
           /\ \A a \in DOMAIN accounts : accounts'[a].login = accounts[a].login
<1>. DEFINE id    == op[q].id
            patch == op[q].patch
            row   == Written(accounts[id], patch, loaded[q])
<1>1. /\ pc[q] = "ready" /\ op[q].name = "update_account"
      /\ id \in DOMAIN accounts
      /\ Fits(row.login)
      /\ accounts' = [accounts EXCEPT ![id] = row]
      /\ UNCHANGED <<signals, jobs, channels, symbols>>
  BY DEF StoreAccount, Ready
<1>2. Moves(q) /\ ShapeInv' /\ pc'[q] = "masking"
  BY MaskMoves DEF IInv
<1>3. patch \in AccountPatches
  BY <1>1 DEF IInv, ReadyInv, Found
<1>4. DOMAIN accounts[id] = {"owner", "active", "login"}
  BY <1>1 DEF IInv, AccountInv, IsAccount
<1>5. DOMAIN row = DOMAIN accounts[id] /\ row.owner = accounts[id].owner
  BY <1>3, <1>4 DEF Written, AccountPatches
<1>a. row.active \in BOOLEAN
  <2>1. row.active = accounts[id].active \/ ("active" \in DOMAIN patch /\ row.active = patch.active)
    BY <1>4 DEF Written
  <2>2. "active" \in DOMAIN patch => patch.active \in BOOLEAN
    BY <1>3 DEF AccountPatches
  <2>3. accounts[id].active \in BOOLEAN
    BY <1>1 DEF IInv, AccountInv, IsAccount
  <2>. QED
    BY <2>1, <2>2, <2>3
<1>b. \A a \in DOMAIN accounts : accounts[a].active \in BOOLEAN
  BY DEF IInv, AccountInv, IsAccount
<1>6. row.login = accounts[id].login
  <2>1. row.login = accounts[id].login \/ ("login" \in DOMAIN patch /\ row.login = patch.login)
    BY <1>4 DEF Written
  <2>2. "login" \in DOMAIN patch => patch.login = "token"
    BY <1>3 DEF AccountPatches
  <2>. QED
    BY <1>1, <2>1, <2>2 DEF Fits
<1>. HIDE DEF row, id, patch
<1>7. /\ DOMAIN accounts' = DOMAIN accounts
      /\ \A a \in DOMAIN accounts :
            /\ DOMAIN accounts'[a] = DOMAIN accounts[a]
            /\ accounts'[a].owner = accounts[a].owner /\ accounts'[a].login = accounts[a].login
            /\ accounts'[a].active \in BOOLEAN
  BY <1>1, <1>5, <1>6, <1>a, <1>b
<1>8. Keeps
  BY <1>1, <1>7 DEF Keeps
<1>9. ReadyInv'
  BY <1>2, <1>8, ReadyStays DEF IInv
<1>10. AccountInv' /\ ChannelInv' /\ JobInv'
  BY <1>1, <1>7 DEF IInv, AccountInv, IsAccount, ChannelInv, JobInv
<1>11. RowsReferenced'
  BY <1>1, <1>7 DEF IInv, RowsReferenced
<1>. QED
  BY <1>1, <1>2, <1>7, <1>9, <1>10, <1>11, SignalsStay, SymbolsStay DEF IInv

\* The trailing commit stores the mask, or nothing.
LEMMA MaskLoginStep ==
    ASSUME IInv, NEW q \in Requests, MaskLogin(q), UNCHANGED <<signals, jobs>>
    PROVE  /\ IInv'
           /\ \A a \in DOMAIN accounts : accounts'[a].login \in {accounts[a].login, "mask"}
<1>. DEFINE id  == op[q].id
            row == Written(accounts[id], [login |-> "mask"], loaded[q])
<1>1. /\ pc[q] = "masking"
      /\ id \in DOMAIN accounts
      /\ accounts' = [accounts EXCEPT ![id] = row]
      /\ UNCHANGED <<signals, jobs, channels, symbols>>
  BY DEF MaskLogin
<1>2. Moves(q) /\ ShapeInv' /\ pc'[q] = "answered"
  BY <1>1, CommitMoves DEF MaskLogin
<1>3. DOMAIN accounts[id] = {"owner", "active", "login"}
  BY <1>1 DEF IInv, AccountInv, IsAccount
<1>4. /\ DOMAIN row = DOMAIN accounts[id] /\ row.owner = accounts[id].owner
      /\ row.login \in {accounts[id].login, "mask"} /\ row.active = accounts[id].active
  BY <1>3 DEF Written
<1>. HIDE DEF row, id
<1>5. /\ DOMAIN accounts' = DOMAIN accounts
      /\ \A a \in DOMAIN accounts :
            /\ DOMAIN accounts'[a] = DOMAIN accounts[a]
            /\ accounts'[a].owner = accounts[a].owner
            /\ accounts'[a].login \in {accounts[a].login, "mask"}
            /\ accounts'[a].active = accounts[a].active
  BY <1>1, <1>4
<1>6. Keeps
  BY <1>1, <1>5 DEF Keeps
<1>7. ReadyInv'
  BY <1>2, <1>6, ReadyStays DEF IInv
<1>8. AccountInv' /\ ChannelInv' /\ JobInv'
  BY <1>1, <1>5 DEF IInv, AccountInv, IsAccount, ChannelInv, JobInv, Logins
<1>9. RowsReferenced'
  BY <1>1, <1>5 DEF IInv, RowsReferenced
<1>. QED
  BY <1>1, <1>2, <1>5, <1>7, <1>8, <1>9, SignalsStay, SymbolsStay DEF IInv

\* No job refers to an account that is deleted.
LEMMA AccountDeleteStep ==
    ASSUME IInv, NEW q \in Requests, UNCHANGED <<signals, jobs>>,
           StoreAccountDelete(q, Unreferenced("account", op[q].id))
    PROVE  /\ IInv'
           /\ \A a \in DOMAIN accounts' : accounts'[a] = accounts[a]
<1>1. /\ pc[q] = "ready"
      /\ Unreferenced("account", op[q].id)
      /\ accounts' = Without(accounts, op[q].id)
      /\ UNCHANGED <<signals, jobs, channels, symbols>>
  BY DEF StoreAccountDelete, Ready
<1>2. Moves(q) /\ ShapeInv' /\ pc'[q] = "answered"
  BY <1>1, CommitMoves DEF StoreAccountDelete
<1>3. /\ DOMAIN accounts' = DOMAIN accounts \ {op[q].id}
      /\ \A a \in DOMAIN accounts' : accounts'[a] = accounts[a]
  BY <1>1 DEF Without
<1>4. Keeps
  BY <1>1, <1>3 DEF Keeps
<1>5. ReadyInv'
  BY <1>2, <1>4, ReadyStays DEF IInv
<1>6. AccountInv' /\ ChannelInv' /\ JobInv'
  BY <1>1, <1>3 DEF IInv, AccountInv, IsAccount, ChannelInv, JobInv
<1>7. RowsReferenced'
  BY <1>1, <1>3 DEF IInv, RowsReferenced, Unreferenced
<1>. QED
  BY <1>1, <1>2, <1>3, <1>5, <1>6, <1>7, SignalsStay, SymbolsStay DEF IInv

\* A channel that is inserted or updated stays there for its signals; users have
\* none.
LEMMA ChannelStep ==
    ASSUME IInv, NEW q \in Requests, StoreChannel(q) \/ StoreChannelUpdate(q) \/ StoreUser(q),
           UNCHANGED <<signals, jobs>>
    PROVE  IInv'
<1>1. /\ pc[q] = "ready" /\ Committed(q)
      /\ DOMAIN channels \subseteq DOMAIN channels'
      /\ UNCHANGED <<signals, jobs, accounts, symbols>>
  BY DEF StoreChannel, StoreChannelUpdate, StoreUser, Ready, Plus
<1>2. Moves(q) /\ ShapeInv' /\ pc'[q] = "answered"
  BY <1>1, CommitMoves
<1>3. Keeps
  BY <1>1 DEF Keeps
<1>4. ReadyInv'
  BY <1>2, <1>3, ReadyStays DEF IInv
<1>5. AccountInv' /\ JobInv' /\ RowsReferenced'
  BY <1>1 DEF IInv, AccountInv, JobInv, RowsReferenced
<1>6. ChannelInv'
  <2>1. ChannelInv
    BY DEF IInv
  <2>2. CASE StoreChannel(q)
    <3>. DEFINE row == [owner |-> op[q].user, tid |-> op[q].tid]
    <3>1. op[q].user \in Users /\ op[q].tid \in Names
      BY <1>1, <2>2 DEF StoreChannel, Ready, IInv, ReadyInv, Found
    <3>2. IsChannel(row)
      BY <3>1 DEF IsChannel
    <3>3. channels' = Plus(channels, q, row)
      BY <2>2 DEF StoreChannel
    <3>. HIDE DEF row
    <3>4. \A c \in DOMAIN channels' :
              channels'[c] = row \/ (c \in DOMAIN channels /\ channels'[c] = channels[c])
      BY <3>3 DEF Plus
    <3>. QED
      BY <2>1, <3>2, <3>4 DEF ChannelInv, IsChannel
  <2>3. CASE StoreChannelUpdate(q)
    <3>. DEFINE id    == op[q].id
                patch == op[q].patch
                row   == Written(channels[id], patch, loaded[q])
    <3>1. DOMAIN patch = {"tid"} /\ patch.tid \in Names
      BY <1>1, <2>3 DEF StoreChannelUpdate, Ready, IInv, ReadyInv, Found
    <3>2. id \in DOMAIN channels /\ channels' = [channels EXCEPT ![id] = row]
      BY <2>3 DEF StoreChannelUpdate
    <3>3. IsChannel(channels[id])
      BY <2>1, <3>2 DEF ChannelInv
    <3>4. IsChannel(row)
      BY <3>1, <3>3 DEF Written, IsChannel
    <3>. HIDE DEF row, id, patch
    <3>. QED
      BY <2>1, <3>2, <3>4 DEF ChannelInv, IsChannel
  <2>4. CASE StoreUser(q)
    BY <2>1, <2>4 DEF StoreUser, ChannelInv
  <2>. QED
    BY <2>2, <2>3, <2>4
<1>. QED
  BY <1>1, <1>2, <1>4, <1>5, <1>6, SignalsStay, SymbolsStay DEF IInv

\* A channel that is deleted is taken from its signals.
LEMMA ChannelDeleteStep ==
    ASSUME IInv, NEW q \in Requests, CommitChannelDelete(q)
    PROVE  IInv'
<1>1. /\ pc[q] = "ready" /\ Committed(q)
      /\ channels' = Without(channels, op[q].id)
      /\ UNCHANGED <<jobs, accounts, symbols>>
      /\ signals' = [s \in DOMAIN signals |->
                        IF signals[s].channel = op[q].id THEN [signals[s] EXCEPT !.channel = Null]
                                                         ELSE signals[s]]
  BY DEF CommitChannelDelete, StoreChannelDelete, Ready
<1>2. Moves(q) /\ ShapeInv' /\ pc'[q] = "answered" /\ op'[q] = op[q]
  BY <1>1, CommitMoves
<1>3. \A s \in DOMAIN signals : DOMAIN signals[s] = Fields
  BY DEF IInv, SignalInv
<1>4. /\ DOMAIN signals' = DOMAIN signals
      /\ \A s \in DOMAIN signals :
            /\ DOMAIN signals'[s] = Fields
            /\ \A f \in Fields \ {"channel"} : signals'[s][f] = signals[s][f]
            /\ signals'[s].channel = IF signals[s].channel = op[q].id THEN Null ELSE signals[s].channel
  BY <1>1, <1>3 DEF Fields
<1>5. \A s \in DOMAIN signals :
          /\ signals'[s].owner = signals[s].owner
          /\ signals'[s].action = signals[s].action /\ signals'[s].symbol = signals[s].symbol
          /\ signals'[s].entry = signals[s].entry /\ signals'[s].stop = signals[s].stop
          /\ signals'[s].tp = signals[s].tp
  BY <1>4 DEF Fields
<1>6. Keeps
  BY <1>1, <1>4, <1>5 DEF Keeps
<1>7. ReadyInv'
  BY <1>2, <1>6, ReadyStays DEF IInv
<1>8. SignalInv'
  <2>1. \A s \in DOMAIN signals : s # q /\ pc'[s] = pc[s] /\ op'[s] = op[s]
    BY <1>1, <1>2 DEF IInv, SignalInv, Moves
  <2>. QED
    BY <1>4, <1>5, <2>1 DEF IInv, SignalInv, Typed
<1>9. CreatedConsistent'
  <2>1. \A s \in DOMAIN signals : Touched(s, "update_signal") => Touched(s, "update_signal")'
    BY <1>2, OverStays DEF IInv
  <2>. QED
    BY <1>4, <1>5, <2>1 DEF IInv, CreatedConsistent
<1>10. RowsReferenced'
  <2>1. DOMAIN channels' = DOMAIN channels \ {op[q].id}
    BY <1>1 DEF Without
  <2>2. \A s \in DOMAIN signals' : signals'[s].channel \in DOMAIN channels' \union {Null}
    BY <1>4, <2>1 DEF IInv, RowsReferenced
  <2>. QED
    BY <1>1, <1>4, <1>5, <2>2 DEF IInv, RowsReferenced
<1>11. AccountInv' /\ ChannelInv' /\ JobInv'
  <2>1. \A c \in DOMAIN channels' : c \in DOMAIN channels /\ channels'[c] = channels[c]
    BY <1>1 DEF Without
  <2>. QED
    BY <1>1, <2>1 DEF IInv, AccountInv, ChannelInv, JobInv, IsChannel
<1>. QED
  BY <1>1, <1>2, <1>7, <1>8, <1>9, <1>10, <1>11, SymbolsStay DEF IInv

\* The insertion of a symbol: those that were there when the request looked have
\* another name, unless they have been renamed.
LEMMA StoreSymbolStep ==
    ASSUME IInv, NEW q \in Requests, StoreSymbol(q), UNCHANGED <<signals, jobs>>
    PROVE  IInv'
<1>1. /\ pc[q] = "ready" /\ op[q].name = "create_symbol" /\ Committed(q)
      /\ symbols' = Plus(symbols, q, op[q].symbol)
      /\ UNCHANGED <<signals, jobs, accounts, channels>>
  BY DEF StoreSymbol, Ready
<1>2. Moves(q) /\ ShapeInv' /\ pc'[q] = "answered"
  BY <1>1, CommitMoves
<1>3. q \notin DOMAIN symbols /\ q \notin Over
  BY <1>1 DEF IInv, SymbolInv, Over, Ended
<1>4. /\ DOMAIN symbols' = DOMAIN symbols \union {q}
      /\ symbols'[q] = op[q].symbol
      /\ \A s \in DOMAIN symbols : s # q /\ symbols'[s] = symbols[s]
  BY <1>1, <1>3 DEF Plus
<1>5. Keeps
  BY <1>1, <1>3, <1>4 DEF Keeps
<1>6. ReadyInv'
  BY <1>2, <1>5, ReadyStays DEF IInv
<1>7. SymbolInv'
  BY <1>2, <1>4 DEF IInv, SymbolInv, Moves
<1>8. TwinsOverlap'
  <2>1. before' = before
    BY <1>1 DEF Committed, End
  <2>2. \A s, name : Touched(s, name) => Touched(s, name)'
    BY <1>2, OverStays DEF IInv
  <2>3. \A s : q \notin before[s] \/ s \notin DOMAIN symbols'
    BY <1>3, <1>4 DEF IInv, ShapeInv, SymbolInv
  <2>4. \A s \in DOMAIN symbols :
            (s \in before[q] /\ symbols[s] = symbols'[q]) => Touched(s, "update_symbol")
    BY <1>1, <1>4 DEF IInv, ReadyInv, Found
  <2>5. TwinsOverlap
    BY DEF IInv
  <2>. QED
    BY <1>4, <2>1, <2>2, <2>3, <2>4, <2>5 DEF TwinsOverlap
<1>9. AccountInv' /\ ChannelInv' /\ JobInv' /\ RowsReferenced'
  BY <1>1 DEF IInv, AccountInv, ChannelInv, JobInv, RowsReferenced
<1>. QED
  BY <1>1, <1>2, <1>6, <1>7, <1>8, <1>9, SignalsStay DEF IInv

\* The renaming of a symbol is known of it, and its deletion harms no other.
LEMMA SymbolChangeStep ==
    ASSUME IInv, NEW q \in Requests, StoreSymbolUpdate(q) \/ StoreSymbolDelete(q),
           UNCHANGED <<signals, jobs>>
    PROVE  IInv'
<1>1. /\ pc[q] = "ready" /\ Committed(q)
      /\ UNCHANGED <<signals, jobs, accounts, channels>>
  BY DEF StoreSymbolUpdate, StoreSymbolDelete, Ready
<1>2. Moves(q) /\ ShapeInv' /\ pc'[q] = "answered" /\ op'[q] = op[q]
  BY <1>1, CommitMoves
<1>3. \A s, name : Touched(s, name) => Touched(s, name)'
  BY <1>2, OverStays DEF IInv
<1>4. \A s \in DOMAIN symbols' :
          /\ s \in DOMAIN symbols
          /\ symbols'[s] = symbols[s] \/ Touched(s, "update_symbol")'
  <2>1. CASE StoreSymbolUpdate(q)
    <3>1. /\ op[q].name = "update_symbol"
          /\ DOMAIN symbols' = DOMAIN symbols
          /\ \A s \in DOMAIN symbols : s # op[q].id => symbols'[s] = symbols[s]
      BY <2>1 DEF StoreSymbolUpdate, Ready
    <3>2. \A s : s = op[q].id => Touched(s, "update_symbol")'
      BY <1>2, <3>1 DEF Touched
    <3>. QED
      BY <3>1, <3>2
  <2>2. CASE StoreSymbolDelete(q)
    BY <2>2 DEF StoreSymbolDelete, Without
  <2>. QED
    BY <2>1, <2>2
<1>5. Keeps
  BY <1>1, <1>4 DEF Keeps
<1>6. ReadyInv'
  BY <1>2, <1>5, ReadyStays DEF IInv
<1>7. SymbolInv'
  BY <1>1, <1>2, <1>4 DEF IInv, SymbolInv, Moves
<1>8. TwinsOverlap'
  <2>1. before' = before
    BY <1>1 DEF Committed, End
  <2>2. TwinsOverlap
    BY DEF IInv
  <2>. QED
    BY <1>3, <1>4, <2>1, <2>2 DEF TwinsOverlap
<1>9. AccountInv' /\ ChannelInv' /\ JobInv' /\ RowsReferenced'
  BY <1>1 DEF IInv, AccountInv, ChannelInv, JobInv, RowsReferenced
<1>. QED
  BY <1>1, <1>2, <1>6, <1>7, <1>8, <1>9, SignalsStay DEF IInv

-----------------------------------------------------------------------------
(* The theorems.                                                           *)

\* The strengthening of the properties below is inductive, for any number of
\* concurrent requests.
THEOREM Invariance == Spec => []IInv
<1>1. Init => IInv
  <2>. SUFFICES ASSUME Init
                PROVE  IInv
    OBVIOUS
  <2>. USE DEF Init, RequestsInit, SignalsInit, DirectoryInit
  <2>1. ShapeInv
    BY DEF ShapeInv, States, Over
  <2>2. ReadyInv
    BY DEF ReadyInv
  <2>3. SignalInv /\ CreatedConsistent
    BY DEF SignalInv, CreatedConsistent
  <2>4. SymbolInv /\ TwinsOverlap
    BY DEF SymbolInv, TwinsOverlap
  <2>5. AccountInv /\ ChannelInv /\ JobInv
    BY AccountsAssumption DEF AccountInv, ChannelInv, JobInv, IsAccount, Logins
  <2>6. RowsReferenced
    BY DEF RowsReferenced
  <2>. QED
    BY <2>1, <2>2, <2>3, <2>4, <2>5, <2>6 DEF IInv
<1>2. IInv /\ [Next]_vars => IInv'
  <2>. SUFFICES ASSUME IInv, [Next]_vars
                PROVE  IInv'
    OBVIOUS
  <2>1. ASSUME NEW q \in Requests, CommitSignal(q)
        PROVE  IInv'
    BY <2>1, StoreSignalStep, StoreUpdateStep, StoreDeleteStep, StoreJobStep DEF CommitSignal
  <2>2. ASSUME NEW q \in Requests, CommitDirectory(q)
        PROVE  IInv'
    BY <2>2, StoreAccountStep, MaskLoginStep, AccountDeleteStep, ChannelStep, StoreSymbolStep,
       SymbolChangeStep
       DEF CommitDirectory
  <2>3. CASE UNCHANGED vars
    BY <2>3 DEF vars, IInv, ShapeInv, ReadyInv, Found, SignalInv, AccountInv, ChannelInv, JobInv,
                SymbolInv, Over, Touched,
                RowsReferenced, CreatedConsistent, TwinsOverlap
  <2>. QED
    BY <2>1, <2>2, <2>3, ArriveStep, RollbackStep, ChannelDeleteStep DEF Next
<1>. QED
  BY <1>1, <1>2, PTL DEF Spec

\* Requests are where requests can be, and the rows have what their columns
\* require.
THEOREM TypeCorrect == Spec => []TypeOK
<1>1. IInv => TypeOK
  BY DEF IInv, ShapeInv, SignalInv, AccountInv, ChannelInv, JobInv, TypeOK, IsSignal, Typed, Fields
<1>. QED
  BY <1>1, Invariance, PTL

\* Jobs refer to a signal and an account of one user, and signals to channels,
\* that are there.
THEOREM ReferencesHold == Spec => []RowsReferenced
<1>1. IInv => RowsReferenced
  BY DEF IInv
<1>. QED
  BY <1>1, Invariance, PTL

\* What create_signal has stored is on the right sides of its entry until it is
\* updated, for any body the schema lets through, levels without a price and with
\* one that is no number included.
THEOREM CreationConsistent == Spec => []CreatedConsistent
<1>1. IInv => CreatedConsistent
  BY DEF IInv
<1>. QED
  BY <1>1, Invariance, PTL

\* No signal that the extractor understood is stored.
THEOREM UnderstoodLost == Spec => []ExtractionsLost
<1>1. IInv => ExtractionsLost
  BY DEF IInv, SignalInv, ExtractionsLost
<1>. QED
  BY <1>1, Invariance, PTL

\* The levels of a message that the extractor understood and that quotes its take
\* profits are those quoted, but for the two cases QuotedRead names: prices with
\* zeros at the end, and numbers the second pattern of extractTakeProfit takes.
THEOREM LevelsAlwaysQuoted == Spec => []LevelsQuoted
<1>1. LevelsQuoted
  <2>. SUFFICES ASSUME NEW m \in Messages, Answers[m].success, WellQuoted(Tokens[m])
                PROVE  m \in Faithful <=> (PlacesKept(Tokens[m]) /\ ~Relisted(Tokens[m]))
    BY Zenon DEF LevelsQuoted, Understood, Quoting
  <2>1. Tokens[m] \in Seq(Token)
    BY TokensAssumption DEF Token
  <2>. DEFINE p == Parse(Tokens[m])
  <2>2. p.tp = TakeProfit(Tokens[m])
    BY DEF Parse
  <2>. HIDE DEF p
  <2>3. Answers[m] = IF Validate(p) THEN [success |-> TRUE, parsed |-> p]
                                    ELSE [success |-> FALSE, parsed |-> Nothing]
    BY DEF Answers, Extract, p
  <2>4. Answers[m].parsed = p
    BY <2>3
  <2>5. m \in Faithful <=> LevelSet(TakeProfit(Tokens[m])) = Quoted(Tokens[m])
    BY <2>2, <2>4, Zenon DEF Faithful
  <2>. QED
    BY <2>1, <2>5, QuotedRead, Zenon
<1>. QED
  BY <1>1, PTL

\* Two symbols of one name are of a renaming, or of two requests that overlapped.
THEOREM TwinsHaveOverlapped == Spec => []TwinsOverlap
<1>1. IInv => TwinsOverlap
  BY DEF IInv
<1>. QED
  BY <1>1, Invariance, PTL

\* A login changes only into its mask.
THEOREM LoginsLost == Spec => LoginsOnlyLost
<1>1. IInv /\ [Next]_vars =>
          [\A a \in DOMAIN accounts \intersect DOMAIN accounts' :
              accounts'[a].login # accounts[a].login => accounts'[a].login = "mask"]_vars
  <2>. SUFFICES ASSUME IInv, [Next]_vars, NEW a \in DOMAIN accounts \intersect DOMAIN accounts'
                PROVE  accounts'[a].login \in {accounts[a].login, "mask"}
    OBVIOUS
  <2>1. ASSUME NEW q \in Requests, CommitDirectory(q)
        PROVE  accounts'[a].login \in {accounts[a].login, "mask"}
    <3>1. CASE StoreAccount(q)
      BY <2>1, <3>1, StoreAccountStep DEF CommitDirectory
    <3>2. CASE MaskLogin(q)
      BY <2>1, <3>2, MaskLoginStep DEF CommitDirectory
    <3>3. CASE StoreAccountDelete(q, Unreferenced("account", op[q].id))
      BY <2>1, <3>3, AccountDeleteStep DEF CommitDirectory
    <3>4. CASE UNCHANGED accounts
      BY <3>4
    <3>. QED
      BY <2>1, <3>1, <3>2, <3>3, <3>4
         DEF CommitDirectory, StoreChannel, StoreChannelUpdate, StoreSymbol, StoreSymbolUpdate,
             StoreSymbolDelete, StoreUser
  <2>2. ASSUME NEW q \in Requests, \/ Arrive(q) \/ CommitSignal(q) \/ CommitChannelDelete(q)
                                  \/ RollbackRequest(q)
        PROVE  UNCHANGED accounts
    BY <2>2 DEF Arrive, CommitSignal, CommitChannelDelete, StoreChannelDelete, RollbackRequest,
                tables, directoryVars
  <2>. QED
    BY <2>1, <2>2 DEF Next, vars
<1>. QED
  BY <1>1, Invariance, PTL DEF Spec, LoginsOnlyLost

=============================================================================
