-------------------------------- MODULE Connect --------------------------------
(***************************************************************************)
(* Signing in: tg_new (tg/tg.c), tg_connect (tg/connect.c) and what it     *)
(* calls in tg/auth.c, for accounts that share a database.                 *)
(*                                                                         *)
(* An account lives at one data centre, and a key is known only to the     *)
(* data centre it was made with.  The key and the address to use it at are *)
(* saved one after the other, after signing in; nothing checks that they   *)
(* fit when they are read.  Saving an address gives every row to the       *)
(* account that saves (Store has the statements of each save).             *)
(*                                                                         *)
(* Keys are pairs of a data centre and a number; no key has number 0.      *)
(***************************************************************************)
EXTENDS Naturals, FiniteSets

CONSTANTS
    Users,     \* the accounts, each the id of a tg_t
    Centres,   \* the data centres, each with its address
    Default,   \* SERVER_IP
    Home,      \* [Users -> Centres]: where the account lives
    MaxKeys,   \* bound: handshakes
    MaxErrors, \* bound: queries and saves that fail, wrong and missing input
    MaxStarts  \* bound: starts of each account

ConnectAssumption ==
    /\ Default \in Centres /\ Home \in [Users -> Centres]
    /\ {MaxKeys, MaxErrors, MaxStarts} \subseteq Nat

VARIABLES
    at,       \* where in tg_connect each account is
    tg,       \* ip and key of its tg_t
    ips,      \* the table ips: no address is NoKey's centre
    keys,     \* the table auth_keys
    made,     \* how many keys have been made
    signed,   \* server: the accounts each key is signed in for
    errors,   \* how many errors have happened
    starts,   \* how often each account was started
    welcomed, \* history: accounts that have signed in, and that went as far as saving
    spoiled   \* history: accounts whose saved key or address was lost

connectVars == <<at, tg, ips, keys, made, signed, errors, starts, welcomed, spoiled>>

NoAuthKey == <<Default, 0>>
AuthKeys == Centres \X (0..MaxKeys)
Places == {"down", "new", "isauth", "getself", "phone", "init", "sendcode", "code",
          "signin", "savekey", "saveip", "in", "failed"}

ConnectTypeOK ==
    /\ at \in [Users -> Places]
    /\ tg \in [Users -> [ip : Centres, key : AuthKeys]]
    /\ ips \in [Users -> Centres] /\ keys \in [Users -> AuthKeys]
    /\ made \in 0..MaxKeys /\ errors \in 0..MaxErrors
    /\ starts \in [Users -> 0..MaxStarts]
    /\ signed \subseteq AuthKeys \X Users
    /\ welcomed \subseteq Users /\ spoiled \subseteq Users

ConnectInit ==
    /\ at = [a \in Users |-> "down"]
    /\ tg = [a \in Users |-> [ip |-> Default, key |-> NoAuthKey]]
    /\ ips = [a \in Users |-> Default] /\ keys = [a \in Users |-> NoAuthKey]
    /\ made = 0 /\ signed = {} /\ errors = 0
    /\ starts = [a \in Users |-> 0]
    /\ welcomed = {} /\ spoiled = {}

Goto(a, from, to) == at[a] = from /\ at' = [at EXCEPT ![a] = to]
Error == errors < MaxErrors /\ errors' = errors + 1

\* The data centre at the address knows the key.
Known(a) == tg[a].key # NoAuthKey /\ tg[a].key[1] = tg[a].ip

---------------------------------------------------------------------------
\* tg_new: no row of the account, no address, and SERVER_IP is taken.
StoredAtDefault(a) == [ip |-> Default, key |-> keys[a]]
Stored(a) == [ip |-> ips[a], key |-> keys[a]]

New(a) ==
    /\ Goto(a, "down", "new") /\ starts[a] < MaxStarts
    /\ starts' = [starts EXCEPT ![a] = @ + 1]
    /\ tg' = [tg EXCEPT ![a] = Stored(a)]
    /\ UNCHANGED <<ips, keys, made, signed, errors, welcomed, spoiled>>

\* tg_connect may be called again after it has failed.
TgConnect(a) ==
    /\ \/ Goto(a, "new", "isauth")
       \/ Goto(a, "failed", "isauth") /\ errors < MaxErrors
    /\ UNCHANGED <<tg, ips, keys, made, signed, errors, starts, welcomed, spoiled>>

\* tg_is_authorized: without a key nothing is asked; help.getConfig tells whether
\* the data centre knows the key.
IsAuthorized(a) ==
    /\ \/ tg[a].key # NoAuthKey /\ Known(a) /\ Goto(a, "isauth", "getself")
          /\ UNCHANGED errors
       \/ ~Known(a) /\ Goto(a, "isauth", "phone") /\ UNCHANGED errors
       \/ tg[a].key # NoAuthKey /\ Error /\ Goto(a, "isauth", "phone")
    /\ UNCHANGED <<tg, ips, keys, made, signed, starts, welcomed, spoiled>>

\* users.getUsers of the account itself.  Who is found to be signed in (after a
\* sign-in whose answer was lost) is not saved.
GetSelf(a) ==
    /\ \/ <<tg[a].key, a>> \in signed /\ Goto(a, "getself", "in") /\ UNCHANGED errors
       \/ /\ <<tg[a].key, a>> \notin signed /\ Goto(a, "getself", "phone")
          /\ UNCHANGED errors
       \/ Error /\ Goto(a, "getself", "phone")
    /\ UNCHANGED <<tg, ips, keys, made, signed, starts, welcomed, spoiled>>

\* The number comes from the database or from the user, who may give none.
PhoneNumber(a) ==
    /\ \/ Goto(a, "phone", "init") /\ UNCHANGED errors
       \/ Error /\ Goto(a, "phone", "failed")
    /\ UNCHANGED <<tg, ips, keys, made, signed, starts, welcomed, spoiled>>

\* The first query of tg_auth_sendCode: without a key, one is made with the data
\* centre at the address; with one that is not known there, nothing works.
InitConnection(a) ==
    /\ \/ /\ tg[a].key = NoAuthKey /\ made < MaxKeys
          /\ made' = made + 1
          /\ tg' = [tg EXCEPT ![a].key = <<tg[a].ip, made'>>]
          /\ Goto(a, "init", "sendcode") /\ UNCHANGED errors
       \/ Known(a) /\ Goto(a, "init", "sendcode") /\ UNCHANGED <<tg, made, errors>>
       \/ /\ tg[a].key # NoAuthKey /\ ~Known(a)
          /\ Goto(a, "init", "failed") /\ UNCHANGED <<tg, made, errors>>
       \/ Error /\ Goto(a, "init", "failed") /\ UNCHANGED <<tg, made>>
    /\ UNCHANGED <<ips, keys, signed, starts, welcomed, spoiled>>

\* PHONE_MIGRATE_n: the address of that centre, no key, and sendCode again.
MigratedTo(a, centre) == [ip |-> centre, key |-> NoAuthKey]

SendCode(a) ==
    /\ \/ /\ tg[a].ip = Home[a] /\ Goto(a, "sendcode", "code")
          /\ UNCHANGED <<tg, errors>>
       \/ /\ tg[a].ip # Home[a] /\ Goto(a, "sendcode", "init")
          /\ tg' = [tg EXCEPT ![a] = MigratedTo(a, Home[a])]
          /\ UNCHANGED errors
       \/ Error /\ Goto(a, "sendcode", "failed") /\ UNCHANGED tg
    /\ UNCHANGED <<ips, keys, made, signed, starts, welcomed, spoiled>>

\* The user enters the code, or none.
PhoneCode(a) ==
    /\ \/ Goto(a, "code", "signin") /\ UNCHANGED errors
       \/ Error /\ Goto(a, "code", "failed")
    /\ UNCHANGED <<tg, ips, keys, made, signed, starts, welcomed, spoiled>>

\* tg_auth_signIn.  An answer may be lost after the server has signed in.  The
\* code may be wrong, or a password be needed, which ends the same way.
SignIn(a) ==
    /\ \/ /\ Goto(a, "signin", "savekey")
          /\ signed' = signed \cup {<<tg[a].key, a>>} /\ UNCHANGED errors
       \/ /\ Error /\ Goto(a, "signin", "failed")
          /\ signed' \in {signed, signed \cup {<<tg[a].key, a>>}}
    /\ UNCHANGED <<tg, ips, keys, made, starts, welcomed, spoiled>>

\* auth_key_to_database: the result of its last step is not looked at.
SaveKey(a) ==
    /\ Goto(a, "savekey", "saveip")
    /\ \/ keys' = [keys EXCEPT ![a] = tg[a].key] /\ UNCHANGED <<errors, spoiled>>
       \/ Error /\ spoiled' = spoiled \cup {a} /\ UNCHANGED keys
    /\ UNCHANGED <<tg, ips, made, signed, starts, welcomed>>

\* ip_address_to_database: all rows get this address and this account; what it
\* returns is not looked at.
IpsUnsaved(a) == ips
IpsAfter(a) == [b \in Users |-> IF b = a THEN tg[a].ip ELSE Default]

SaveIp(a) ==
    /\ Goto(a, "saveip", "in")
    /\ \/ /\ ips' = IpsAfter(a)
          /\ spoiled' = (spoiled \cup {b \in Users : ips[b] # Default})
                          \ {b \in {a} : keys[b] = tg[b].key}
          /\ UNCHANGED errors
       \/ Error /\ spoiled' = spoiled \cup {a} /\ UNCHANGED ips
    /\ welcomed' = welcomed \cup {a}
    /\ UNCHANGED <<tg, keys, made, signed, starts>>

\* The process ends, at any step.
Stop(a) ==
    /\ at[a] # "down"
    /\ at' = [at EXCEPT ![a] = "down"]
    /\ spoiled' = IF at[a] = "saveip" THEN spoiled \cup {a} ELSE spoiled
    /\ UNCHANGED <<tg, ips, keys, made, signed, errors, starts, welcomed>>

UserStep(a) ==
    \/ New(a) \/ TgConnect(a) \/ IsAuthorized(a) \/ GetSelf(a) \/ PhoneNumber(a)
    \/ InitConnection(a) \/ SendCode(a) \/ PhoneCode(a) \/ SignIn(a)
    \/ SaveKey(a) \/ SaveIp(a) \/ Stop(a)

ConnectDone == (\A a \in Users : ~ENABLED UserStep(a)) /\ UNCHANGED connectVars

ConnectNext == (\E a \in Users : UserStep(a)) \/ ConnectDone

ConnectSpec == ConnectInit /\ [][ConnectNext]_connectVars

---------------------------------------------------------------------------
\* A saved key is one that the data centre at the saved address knows, so that
\* the next start can use it: not between the two saves, nor when the process
\* ended there, when one of the saves failed, or when another account has taken
\* the row of the address.  Where it does not hold, no later tg_connect can
\* succeed: the key is never given up (tg_auth_signIn, tg_auth_sendCode).
KeyFitsAddress ==
    \A a \in Users :
        keys[a] # NoAuthKey /\ a \notin spoiled /\ at[a] # "saveip" =>
            keys[a][1] = ips[a]

\* Who has signed in once is not asked for a phone number again, in this process
\* or a later one, unless a query has failed or what was saved is spoiled
\* (tg_is_authorized).
AskedForReason ==
    \A a \in Users :
        at[a] \in {"isauth", "getself"} /\ at'[a] = "phone" /\ a \in welcomed =>
            a \in spoiled \/ errors' > errors

\* No step asks who has signed in without such a reason (tg_is_authorized).
AskedOnlyWhenNeeded == [][AskedForReason]_connectVars
=============================================================================
