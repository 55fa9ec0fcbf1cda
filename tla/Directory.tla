------------------------------ MODULE Directory ------------------------------
(***************************************************************************)
(* The tables mt5_accounts, telegram_channels, symbols and users and the   *)
(* endpoints that write them (app/routes/v1/accounts.py, channels.py,      *)
(* symbols.py, user.py).  Each creation looks for a duplicate and then     *)
(* inserts; a channel's telegram id and a user's email are unique in the   *)
(* database, a symbol's name is not.                                       *)
(***************************************************************************)
EXTENDS Requests, FiniteSets

CONSTANTS
    Accounts,     \* rows of mt5_accounts put there by other means
    AccountOwner, \* AccountOwner[a]
    Names         \* telegram ids, names of symbols, emails

ASSUME AccountsAssumption == AccountOwner \in [Accounts -> Users]

VARIABLES
    accounts,     \* id -> row
    channels,     \* id -> row
    symbols,      \* id -> name
    emails        \* id -> email

\* A login as it was put there, masked, or as a Fernet token.
Logins == {"plain", "mask", "token"}

\* The columns the requests write.
IsAccount(x) ==
    /\ DOMAIN x = {"owner", "active", "login"}
    /\ x.owner \in Users /\ x.active \in BOOLEAN /\ x.login \in Logins

IsChannel(x) == DOMAIN x = {"owner", "tid"} /\ x.owner \in Users /\ x.tid \in Names

DirectoryInit ==
    /\ accounts = [a \in Accounts |-> [owner |-> AccountOwner[a], active |-> TRUE, login |-> "plain"]]
    /\ channels = [c \in {} |-> Null]
    /\ symbols  = [s \in {} |-> Null]
    /\ emails   = [u \in {} |-> Null]

\* scalar_one_or_none raises when there are several rows.
AfterLookup(rows) ==
    CASE rows = {}             -> "ready"
      [] Cardinality(rows) = 1 -> "refused"
      [] OTHER                 -> "failed"

Holding(table, name) == {r \in DOMAIN table : table[r] = name}

-----------------------------------------------------------------------------
(* MT5 accounts.                                                           *)

\* Faulty variant: the column is wide enough.
FitsAlways(login) == login \in Logins

\* The column holds 50 characters, a token has at least 100.
Fits(login) == login # "token"

\* The duplicate check compares with a fresh token, which no row has; the row
\* that is then inserted has another one.
CreateAccount(q, u) ==
    Begin(q, [name |-> "create_account", user |-> u], IF Fits("token") THEN "ready" ELSE "failed", Null)

OwnAccount(u, a) == a \in DOMAIN accounts /\ accounts[a].owner = u

LoadAccount(q, o) ==
    IF OwnAccount(o.user, o.id) THEN Begin(q, o, "ready", accounts[o.id]) ELSE Begin(q, o, "refused", Null)

\* AccountUpdate, one field at a time.  A login that is sent is replaced by its
\* token.
AccountPatches == [active : BOOLEAN] \union [login : {"token"}]

UpdateAccount(q, u, a, patch) ==
    LoadAccount(q, [name |-> "update_account", user |-> u, id |-> a, patch |-> patch])

StoreAccount(q) ==
    LET a   == op[q].id
        row == Written(accounts[a], op[q].patch, loaded[q])
    IN  /\ Ready(q, {"update_account"})
        /\ a \in DOMAIN accounts
        /\ Fits(row.login)
        /\ accounts' = [accounts EXCEPT ![a] = row]
        /\ pc'       = [pc EXCEPT ![q] = "masking"]
        /\ loaded'   = [loaded EXCEPT ![q] = row]
        /\ UNCHANGED <<op, before, channels, symbols, emails>>

\* The answer is made of the row itself, whose login has been replaced by its
\* mask, and the trailing commit of get_async_db stores the mask.
MaskLogin(q) ==
    LET a == op[q].id
    IN  /\ pc[q] = "masking"
        /\ a \in DOMAIN accounts
        /\ accounts' = [accounts EXCEPT ![a] = Written(@, [login |-> "mask"], loaded[q])]
        /\ Committed(q)
        /\ UNCHANGED <<channels, symbols, emails>>

DeleteAccount(q, u, a) == LoadAccount(q, [name |-> "delete_account", user |-> u, id |-> a])

\* Jobs refer to an account as they do to a signal.
StoreAccountDelete(q, unreferenced) ==
    /\ Ready(q, {"delete_account"})
    /\ unreferenced
    /\ accounts' = Without(accounts, op[q].id)
    /\ Committed(q)
    /\ UNCHANGED <<channels, symbols, emails>>

-----------------------------------------------------------------------------
(* Channels.                                                               *)

WithTid(tid) == {c \in DOMAIN channels : channels[c].tid = tid}

\* The duplicate check is not restricted to the user's own channels.
CreateChannel(q, u, tid) ==
    Begin(q, [name |-> "create_channel", user |-> u, tid |-> tid], AfterLookup(WithTid(tid)), Null)

StoreChannel(q) ==
    /\ Ready(q, {"create_channel"})
    /\ WithTid(op[q].tid) = {}
    /\ channels' = Plus(channels, q, [owner |-> op[q].user, tid |-> op[q].tid])
    /\ Committed(q)
    /\ UNCHANGED <<accounts, symbols, emails>>

LoadChannel(q, o) ==
    IF o.id \in DOMAIN channels /\ channels[o.id].owner = o.user
    THEN Begin(q, o, "ready", channels[o.id]) ELSE Begin(q, o, "refused", Null)

UpdateChannel(q, u, id, tid) ==
    LoadChannel(q, [name |-> "update_channel", user |-> u, id |-> id, patch |-> [tid |-> tid]])

StoreChannelUpdate(q) ==
    LET id  == op[q].id
        row == Written(channels[id], op[q].patch, loaded[q])
    IN  /\ Ready(q, {"update_channel"})
        /\ id \in DOMAIN channels
        /\ WithTid(row.tid) \subseteq {id}
        /\ channels' = [channels EXCEPT ![id] = row]
        /\ Committed(q)
        /\ UNCHANGED <<accounts, symbols, emails>>

DeleteChannel(q, u, id) == LoadChannel(q, [name |-> "delete_channel", user |-> u, id |-> id])

\* The signals of the channel are detached in the same transaction.
StoreChannelDelete(q) ==
    /\ Ready(q, {"delete_channel"})
    /\ channels' = Without(channels, op[q].id)
    /\ Committed(q)
    /\ UNCHANGED <<accounts, symbols, emails>>

-----------------------------------------------------------------------------
(* Symbols, which belong to no user.                                       *)

\* Faulty variant: an existing symbol is not noticed.
CreateSymbolUnchecked(q, u, name) ==
    Begin(q, [name |-> "create_symbol", user |-> u, symbol |-> name], "ready", Null)

CreateSymbol(q, u, name) ==
    Begin(q, [name |-> "create_symbol", user |-> u, symbol |-> name],
          AfterLookup(Holding(symbols, name)), Null)

StoreSymbol(q) ==
    /\ Ready(q, {"create_symbol"})
    /\ symbols' = Plus(symbols, q, op[q].symbol)
    /\ Committed(q)
    /\ UNCHANGED <<accounts, channels, emails>>

LoadSymbol(q, o) ==
    IF o.id \in DOMAIN symbols THEN Begin(q, o, "ready", symbols[o.id]) ELSE Begin(q, o, "refused", Null)

UpdateSymbol(q, u, id, name) ==
    LoadSymbol(q, [name |-> "update_symbol", user |-> u, id |-> id, symbol |-> name])

StoreSymbolUpdate(q) ==
    LET id == op[q].id
    IN  /\ Ready(q, {"update_symbol"})
        /\ id \in DOMAIN symbols
        /\ symbols' = [symbols EXCEPT ![id] = IF op[q].symbol # loaded[q] THEN op[q].symbol ELSE @]
        /\ Committed(q)
        /\ UNCHANGED <<accounts, channels, emails>>

DeleteSymbol(q, u, id) == LoadSymbol(q, [name |-> "delete_symbol", user |-> u, id |-> id])

StoreSymbolDelete(q) ==
    /\ Ready(q, {"delete_symbol"})
    /\ symbols' = Without(symbols, op[q].id)
    /\ Committed(q)
    /\ UNCHANGED <<accounts, channels, emails>>

-----------------------------------------------------------------------------
(* Users, besides those who make the requests.                             *)

RegisterUser(q, email) ==
    Begin(q, [name |-> "register_user", email |-> email], AfterLookup(Holding(emails, email)), Null)

StoreUser(q) ==
    /\ Ready(q, {"register_user"})
    /\ Holding(emails, op[q].email) = {}
    /\ emails' = Plus(emails, q, op[q].email)
    /\ Committed(q)
    /\ UNCHANGED <<accounts, channels, symbols>>

\* The user of a request belongs to the session of its authentication, which is
\* closed: the commit has nothing to write, and the refresh raises.
UpdateProfile(q, u) == Begin(q, [name |-> "update_me", user |-> u], "failed", Null)

=============================================================================
