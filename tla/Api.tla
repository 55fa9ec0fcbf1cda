-------------------------------- MODULE Api --------------------------------
(***************************************************************************)
(* The API over its tables: the requests of Signals and Directory running  *)
(* concurrently, with the foreign keys between the tables of the two.      *)
(***************************************************************************)
EXTENDS Signals, Directory

CONSTANT SystemUser   \* created_by of the signals of the webhook

vars == <<pc, op, loaded, before, signals, jobs, accounts, channels, symbols, emails>>

directoryVars == <<accounts, channels, symbols, emails>>
tables        == <<signals, jobs, directoryVars>>

Init == RequestsInit /\ SignalsInit /\ DirectoryInit

-----------------------------------------------------------------------------
\* Requests arrive and read.  A channel named by a request need not be the
\* user's own, nor exist.
ArriveSignal(q, u) ==
    \/ \E m \in Messages \union {NoAnswer}, b \in Bodies, c \in DOMAIN channels \union {Null} :
          CreateSignal(q, u, m, b, c)
    \/ \E id \in DOMAIN signals :
          \/ \E p \in Patches : UpdateSignal(q, u, id, p)
          \/ \E c \in DOMAIN channels : UpdateSignal(q, u, id, [channel |-> c])
          \/ DeleteSignal(q, u, id)
          \/ \E a \in Accounts : RouteSignal(q, u, id, a, OwnAccount(u, a) /\ accounts[a].active)

ArriveDirectory(q, u) ==
    \/ CreateAccount(q, u)
    \/ \E a \in Accounts : DeleteAccount(q, u, a) \/ \E p \in AccountPatches : UpdateAccount(q, u, a, p)
    \/ \E n \in Names :
          \/ CreateChannel(q, u, n)
          \/ CreateSymbol(q, u, n)
          \/ \E id \in DOMAIN channels : UpdateChannel(q, u, id, n)
          \/ \E id \in DOMAIN symbols : UpdateSymbol(q, u, id, n)
    \/ \E id \in DOMAIN channels : DeleteChannel(q, u, id)
    \/ \E id \in DOMAIN symbols : DeleteSymbol(q, u, id)
    \/ UpdateProfile(q, u)

Arrive(q) ==
    /\ \/ \E u \in Users : ArriveSignal(q, u) \/ ArriveDirectory(q, u)
       \/ \E m \in Messages \union {NoAnswer} : TelegramWebhook(q, SystemUser, m)
       \/ \E n \in Names : RegisterUser(q, n)
    /\ UNCHANGED tables

\* The commits.
CommitSignal(q) ==
    /\ \/ StoreSignal(q, DOMAIN channels)
       \/ StoreUpdate(q, DOMAIN channels)
       \/ StoreDelete(q)
       \/ StoreJob(q, DOMAIN accounts)
    /\ UNCHANGED directoryVars

CommitDirectory(q) ==
    /\ \/ StoreAccount(q)
       \/ MaskLogin(q)
       \/ StoreAccountDelete(q, Unreferenced("account", op[q].id))
       \/ StoreChannel(q)
       \/ StoreChannelUpdate(q)
       \/ StoreSymbol(q)
       \/ StoreSymbolUpdate(q)
       \/ StoreSymbolDelete(q)
       \/ StoreUser(q)
    /\ UNCHANGED <<signals, jobs>>

\* ON DELETE SET NULL.
CommitChannelDelete(q) ==
    /\ StoreChannelDelete(q)
    /\ signals' = [s \in DOMAIN signals |->
                      IF signals[s].channel = op[q].id THEN [signals[s] EXCEPT !.channel = Null] ELSE signals[s]]
    /\ UNCHANGED jobs

RollbackRequest(q) == Rollback(q) /\ UNCHANGED tables

Next ==
    \E q \in Requests :
        Arrive(q) \/ CommitSignal(q) \/ CommitDirectory(q) \/ CommitChannelDelete(q) \/ RollbackRequest(q)

Spec == Init /\ [][Next]_vars

-----------------------------------------------------------------------------
(* Properties.                                                             *)

TypeOK ==
    /\ pc     \in [Requests -> States]
    /\ before \in [Requests -> SUBSET Requests]
    /\ \A q \in Requests : pc[q] = "idle" <=> op[q].name = "none"
    /\ \A s \in DOMAIN signals : IsSignal(signals[s])
    /\ \A j \in DOMAIN jobs : jobs[j] \in LiveJob(Accounts)
    /\ \A a \in DOMAIN accounts : IsAccount(accounts[a])
    /\ \A c \in DOMAIN channels : IsChannel(channels[c])

\* Whatever is deleted when: a job's signal and account are there and belong to
\* one user, and a signal's channel is there.
RowsReferenced ==
    /\ \A j \in DOMAIN jobs :
          /\ jobs[j].signal \in DOMAIN signals
          /\ jobs[j].account \in DOMAIN accounts
          /\ signals[jobs[j].signal].owner = accounts[jobs[j].account].owner
    /\ \A s \in DOMAIN signals : signals[s].channel \in DOMAIN channels \union {Null}

\* A request of that name for row id has committed.
Touched(id, name) ==
    \E r \in Requests : pc[r] = "answered" /\ op[r].name = name /\ op[r].id = id

\* A stored signal that has not been updated, if it has an entry price, has a
\* positive one, its stop and every take profit that has a price on their sides of
\* it, wherever among the levels those without a price are, and a level once.
CreatedConsistent ==
    \A s \in DOMAIN signals :
        LET x == signals[s]
        IN  (~Touched(s, "update_signal") /\ x.entry \notin {Null, 0}) =>
                /\ x.entry > 0
                /\ x.stop # Null =>
                      x.stop > 0 /\ IF x.action = "BUY" THEN x.stop < x.entry ELSE x.entry < x.stop
                /\ x.tp # Null => \A i \in DOMAIN x.tp :
                      /\ x.tp[i].price # Null =>
                            /\ x.tp[i].price # NoNumber
                            /\ IF x.action = "BUY" THEN x.tp[i].price > x.entry
                                                   ELSE x.tp[i].price < x.entry
                      /\ \A j \in DOMAIN x.tp : x.tp[i].level = x.tp[j].level => i = j

\* No signal the extractor understood is ever stored: neither that of the
\* webhook, which stores nothing at all, nor that of create_signal.
ExtractionsLost ==
    \A s \in DOMAIN signals :
        op[s].name = "create_signal" /\ (op[s].message = NoAnswer \/ ~Answers[op[s].message].success)

\* Two symbols have one name only if one was renamed to it, or the two requests
\* overlapped: neither had ended when the other looked for the name.
TwinsOverlap ==
    \A s, t \in DOMAIN symbols :
        (s # t /\ symbols[s] = symbols[t]) =>
            \/ Touched(s, "update_symbol") \/ Touched(t, "update_symbol")
            \/ s \notin before[t] /\ t \notin before[s]

\* The login of an account is only ever lost: no request stores one, and one
\* that has been replaced by its mask does not come back.
LoginsOnlyLost ==
    [][\A a \in DOMAIN accounts \intersect DOMAIN accounts' :
          accounts'[a].login # accounts[a].login => accounts'[a].login = "mask"]_vars

\* The messages a webhook is about to store and that the extractor understood.
Understood ==
    {m \in Messages :
        /\ Answers[m].success
        /\ \E q \in Requests :
              pc[q] = "ready" /\ op[q].name = "telegram_webhook" /\ op[q].message = m}

\* The messages whose levels are as they are quoted.
Faithful == {m \in Messages : LevelSet(Answers[m].parsed.tp) = Quoted(Tokens[m])}

Quoting == {m \in Messages : WellQuoted(Tokens[m])}

\* If a message quotes its take profits as TP 1 x TP 2 y ..., in range and with
\* the places its symbol allows, the levels are those, and the second pattern,
\* which runs over the same text, adds none; with two exceptions.  A price that
\* has too few places without the zeros at its end is left out, as those of
\* "TP1 1.0850 TP2 1.0800" (parser.go:341) are; and of a symbol that may have
\* whole prices the second pattern takes what follows a keyword once more.
LevelsQuoted ==
    \A m \in Understood \intersect Quoting :
        m \in Faithful <=> (PlacesKept(Tokens[m]) /\ ~Relisted(Tokens[m]))

=============================================================================
