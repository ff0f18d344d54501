---------------------------- MODULE KeyExchange ----------------------------
(***************************************************************************)
(* The handshake that makes an authorization key (mtx/src), as the threads *)
(* of one process run it.                                                  *)
(*                                                                         *)
(* Everything the handshake leaves behind is process-wide: the connection, *)
(* the key and the salt are in shared_rc, and sil_concrete() gathers what  *)
(* it reads in one record t, which it clears before its first use only.    *)
(* An answer that is not understood leaves t as it is, so that the caller  *)
(* takes what an earlier handshake put there.  Callers hold queuem         *)
(* (tg/queue.c, which tests the key before locking and not again after) or *)
(* send_query (tg/send_query.c, which locks first); nothing orders the     *)
(* holders of different mutexes.                                           *)
(*                                                                         *)
(* A handshake of the server is named by its server nonce, a number.  Keys *)
(* are pairs of such a number (g_a) and the thread that drew b.            *)
(***************************************************************************)
EXTENDS Naturals, Sequences, FiniteSets

CONSTANTS
    Clients,   \* threads that need a key
    Guard,     \* [Clients -> mutexes]: the mutex each holds meanwhile
    TestFirst, \* the mutexes that are locked after the test for a key
    NoOne      \* stands for no thread

KeyExchangeAssumption == NoOne \notin Clients

VARIABLES
    pc,      \* the next step of each thread
    holder,  \* the thread that holds each mutex
    sockfd,  \* shared_rc.net: the thread that opened the connection
    rc,      \* shared_rc.key and shared_rc.salt
    t,       \* the record of sil_concrete: what was read last, 0 for nothing
    m,       \* the copies of it that each handshake keeps
    inbox,   \* what can be read from the connection each thread opened
    key,     \* tg->key, with tg->salt
    nonces,  \* how many server nonces the server has drawn
    agreed,  \* the keys the server has agreed to
    sound,   \* history: handshakes no other overlapped, answered as expected
    dead     \* the process has run into undefined behaviour

exchangeVars == <<pc, holder, sockfd, rc, t, m, inbox, key, nonces, agreed, sound, dead>>

NoKey == [sn |-> 0, b |-> NoOne, salt |-> 0, whole |-> FALSE, sound |-> FALSE]
Fields == {"pq", "dh", "inner"}
Nothing == [k \in Fields |-> 0]
Other == [kind |-> "other", sn |-> 0]

Steps == {"open", "sendpq", "recvpq", "senddh", "recvdh", "sendset", "recvset",
          "finish"}

ExchangeTypeOK ==
    /\ pc \in [Clients -> Steps \cup {"start", "lock", "take", "unlock", "done"}]
    /\ holder \in [{Guard[c] : c \in Clients} -> Clients \cup {NoOne}]
    /\ sockfd \in Clients \cup {NoOne}
    /\ t \in [Fields -> 0..nonces]
    /\ m \in [Clients -> [Fields -> 0..nonces]]
    /\ agreed \subseteq (1..nonces) \X Clients
    /\ sound \in [Clients -> BOOLEAN]

ExchangeInit ==
    /\ pc = [c \in Clients |-> IF Guard[c] \in TestFirst THEN "start" ELSE "lock"]
    /\ holder = [g \in {Guard[c] : c \in Clients} |-> NoOne]
    /\ sockfd = NoOne
    /\ rc = NoKey /\ key = NoKey
    /\ t = Nothing /\ m = [c \in Clients |-> Nothing]
    /\ inbox = [c \in Clients |-> <<>>]
    /\ nonces = 0 /\ agreed = {}
    /\ sound = [c \in Clients |-> FALSE]
    /\ dead = FALSE

\* The 32 bytes of new_nonce.  P_Q_inner_data.init is called a second time to
\* decrypt the answer, and must then return the same bytes: they are all zero.
NewNonce(call) == 0

Proceed(c, from, to) == ~dead /\ pc[c] = from /\ pc' = [pc EXCEPT ![c] = to]

Dies == dead' = TRUE /\ UNCHANGED <<holder, sockfd, rc, t, m, inbox, key, nonces,
                                    agreed, sound>>

---------------------------------------------------------------------------
\* if (!tg->key.size): before the lock in tg/queue.c, behind it in
\* tg/send_query.c.
Test(c) ==
    /\ \/ /\ key = NoKey
          /\ Proceed(c, "start", IF Guard[c] \in TestFirst THEN "lock" ELSE "open")
       \/ /\ key # NoKey
          /\ Proceed(c, "start", IF Guard[c] \in TestFirst THEN "done" ELSE "unlock")
    /\ UNCHANGED <<holder, sockfd, rc, t, m, inbox, key, nonces, agreed, sound, dead>>

Lock(c) ==
    /\ holder[Guard[c]] = NoOne
    /\ Proceed(c, "lock", IF Guard[c] \in TestFirst THEN "open" ELSE "start")
    /\ holder' = [holder EXCEPT ![Guard[c]] = c]
    /\ UNCHANGED <<sockfd, rc, t, m, inbox, key, nonces, agreed, sound, dead>>

Unlock(c) ==
    /\ Proceed(c, "unlock", "done")
    /\ holder' = [holder EXCEPT ![Guard[c]] = NoOne]
    /\ UNCHANGED <<sockfd, rc, t, m, inbox, key, nonces, agreed, sound, dead>>

\* app.open and net_open: shared_rc is reset and names the new connection.  One
\* that could not be made is used all the same; what is read from it is an error.
Open(c) ==
    LET others == {d \in Clients \ {c} : pc[d] \in (Steps \cup {"take"}) \ {"open"}}
    IN /\ Proceed(c, "open", "sendpq")
       /\ sockfd' = c
       /\ rc' = NoKey
       /\ sound' = [d \in Clients |-> IF d = c THEN others = {}
                                      ELSE sound[d] /\ d \notin others]
       /\ UNCHANGED <<holder, t, m, inbox, key, nonces, agreed, dead>>

\* stk_drive up to net_send: the request goes to the connection shared_rc names.
Request(c, answer) ==
    inbox' = [inbox EXCEPT ![sockfd] = Append(@, answer)]

SendPq(c) ==
    /\ Proceed(c, "sendpq", "recvpq")
    /\ \/ /\ nonces' = nonces + 1
          /\ Request(c, [kind |-> "pq", sn |-> nonces'])
       \/ Request(c, Other) /\ UNCHANGED nonces
    /\ UNCHANGED <<holder, sockfd, rc, t, m, key, agreed, sound, dead>>

\* req_DH_params names the server nonce of resPQ.
SendDH(c) ==
    /\ Proceed(c, "senddh", "recvdh")
    /\ \E a \in {[kind |-> "dh", sn |-> m[c].pq], Other} : Request(c, a)
    /\ UNCHANGED <<holder, sockfd, rc, t, m, key, nonces, agreed, sound, dead>>

\* set_client_DH_params.init decrypts Server_DH_Params with a key made of the
\* nonces; what does not decrypt is not understood, and the inner data of an
\* earlier handshake are taken, if there was one.  The server agrees when the
\* inner data are those of the handshake the request names.
SendSet(c) ==
    LET readable == m[c].dh = m[c].pq /\ NewNonce(1) = NewNonce(2)
        inner == IF readable THEN m[c].dh ELSE t.inner
    IN \/ /\ inner # 0
          /\ Proceed(c, "sendset", "recvset")
          /\ t' = [t EXCEPT !.inner = inner]
          /\ m' = [m EXCEPT ![c].inner = inner]
          /\ \/ /\ inner = m[c].pq
                /\ agreed' = agreed \cup {<<inner, c>>}
                /\ Request(c, [kind |-> "ok", sn |-> inner])
             \/ Request(c, Other) /\ UNCHANGED agreed
          /\ UNCHANGED <<holder, sockfd, rc, key, nonces, sound, dead>>
       \/ /\ inner = 0
          /\ Proceed(c, "sendset", "sendset")
          /\ Dies

\* net_receive and the rest of stk_drive.  One recv on the connection that
\* shared_rc names now reads all that has come; the first message counts.  What
\* is understood goes to the field of t it belongs to, and the caller copies the
\* field it is interested in.
Receive(c, from, to, kind) ==
    /\ sockfd # NoOne /\ inbox[sockfd] # <<>>
    /\ LET msg  == Head(inbox[sockfd])
           read == [k \in Fields |-> IF k = msg.kind THEN msg.sn ELSE t[k]]
       IN \/ /\ (kind # "ok") => (read[kind] # 0)
             /\ Proceed(c, from, to)
             /\ t' = read
             /\ m' = IF kind = "ok" THEN m ELSE [m EXCEPT ![c][kind] = read[kind]]
             /\ \E n \in 2..(Len(inbox[sockfd]) + 1) :
                   inbox' = [inbox EXCEPT
                               ![sockfd] = SubSeq(@, n, Len(@))]
             /\ sound' = [sound EXCEPT ![c] = @ /\ msg.kind = kind]
             /\ UNCHANGED <<holder, sockfd, rc, key, nonces, agreed, dead>>
          \/ \* nothing was ever read into this field: sizes are 0 and wrap
             /\ kind # "ok" /\ read[kind] = 0
             /\ Proceed(c, from, from)
             /\ Dies

RecvPq(c) == Receive(c, "recvpq", "senddh", "pq")
RecvDH(c) == Receive(c, "recvdh", "sendset", "dh")
RecvSet(c) == Receive(c, "recvset", "finish", "ok")

\* The connection fails or ends, or what comes is shorter than the headers that
\* are taken off: log_error only prints, and lengths below 0 are used.
ReceiveFails(c) ==
    /\ \E s \in {"recvpq", "recvdh", "recvset"} : Proceed(c, s, s)
    /\ Dies

\* srl_auth: the key is g_a ^ b, the b that was drawn for set_client_DH_params.
\* pow_mod leaves out leading zero bytes: one key in 256 is too short, and the
\* server knows another one.
FinishWith(c, b) ==
    /\ Proceed(c, "finish", "take")
    /\ \E whole \in BOOLEAN :
          rc' = [sn |-> m[c].inner, b |-> b, salt |-> m[c].pq, whole |-> whole,
                 sound |-> sound[c]]
    /\ UNCHANGED <<holder, sockfd, t, m, inbox, key, nonces, agreed, sound, dead>>

FinishRedrawn(c) == FinishWith(c, NoOne)
Finish(c) == FinishWith(c, c)

\* The caller copies key, salt and connection from shared_rc.
TakeKey(c) ==
    /\ Proceed(c, "take", "unlock")
    /\ key' = [rc EXCEPT !.sound = sound[c]]
    /\ UNCHANGED <<holder, sockfd, rc, t, m, inbox, nonces, agreed, sound, dead>>

ClientStep(c) ==
    \/ Test(c) \/ Lock(c) \/ Open(c)
    \/ SendPq(c) \/ RecvPq(c) \/ SendDH(c) \/ RecvDH(c) \/ SendSet(c) \/ RecvSet(c)
    \/ ReceiveFails(c)
    \/ Finish(c) \/ TakeKey(c) \/ Unlock(c)

Ended == dead \/ \A c \in Clients : pc[c] = "done"

ExchangeNext == (\E c \in Clients : ClientStep(c)) \/ (Ended /\ UNCHANGED exchangeVars)

ExchangeSpec == ExchangeInit /\ [][ExchangeNext]_exchangeVars

---------------------------------------------------------------------------
\* A key that came out of a handshake that ran alone and was answered as
\* expected at each step, and that has no leading zero byte, is one the server
\* has agreed to in that handshake, and its salt is of the same handshake:
\* whatever earlier handshakes have left in shared_rc and t (srl_auth).
KeyIsAgreed ==
    key.sound /\ key.whole =>
        <<key.sn, key.b>> \in agreed /\ key.salt = key.sn
=============================================================================
