----------------------------- MODULE SendQuery -----------------------------
(***************************************************************************)
(* The synchronous exchange of libtg (tg/send_query.c, tg/answer.c):       *)
(* tg_send_query opens a socket of its own and then, under the mutex       *)
(* tg->send_query, sends one request and reads its socket until something  *)
(* arrives that it can return.  A refused salt makes it close the socket,  *)
(* release the mutex and call itself.                                      *)
(*                                                                         *)
(* Sockets are file descriptors, small numbers the system hands out lowest *)
(* first and hands out again once they are closed.                         *)
(***************************************************************************)
EXTENDS Integers, Sequences

CONSTANTS
    Callers,   \* the threads that call tg_send_query once each
    Nobody,    \* stands for no thread
    KeyAtStart,\* number of authorization keys made before the first call
    MaxFd,     \* bound: the descriptors 1..MaxFd a process may have open
    MaxItems,  \* bound: the messages in a container
    MaxSends   \* bound: a request is refused for its salt below this many

ASSUME SendQueryAssumption ==
    /\ Nobody \notin Callers
    /\ KeyAtStart \in Nat
    /\ MaxFd \in Nat /\ MaxItems \in Nat /\ MaxSends \in Nat

VARIABLES
    pc,        \* the next step of each caller
    holder,    \* the thread that holds tg->send_query
    owner,     \* who opened each descriptor, Nobody if it is closed
    socket,    \* the descriptor each caller uses, 0 before it has one
    fdset,     \* the descriptors in the fd_set of each caller
    key,       \* the number of tg->key, 0 while it is empty
    asked,     \* msg_id: the id of the last request of each caller
    lastId,    \* the id of the last request the server was sent, by whichever caller
    returned   \* what each call returned

vars == <<pc, holder, owner, socket, fdset, key, asked, lastId, returned>>

Fds    == 1..MaxFd
Inside == {"send", "wantkey", "prepare", "recv", "closed", "read"}

\* What a call returns: NULL, the object of an rpc_result, or anything else.
Nothing == [kind |-> "none", id |-> 0]
Null    == [kind |-> "null", id |-> 0]
Other   == [kind |-> "other", id |-> 0]
Answer(id) == [kind |-> "answer", id |-> id]

Init ==
    /\ pc       = [c \in Callers |-> "open"]
    /\ holder   = Nobody
    /\ owner    = [f \in Fds |-> Nobody]
    /\ socket   = [c \in Callers |-> 0]
    /\ fdset    = [c \in Callers |-> {}]
    /\ key      = KeyAtStart
    /\ asked    = [c \in Callers |-> 0]
    /\ lastId   = 0
    /\ returned = [c \in Callers |-> Nothing]

Goto(c, label) == pc' = [pc EXCEPT ![c] = label]

FreeFds == {f \in Fds : owner[f] = Nobody}

\* socket(): the lowest descriptor that is free.
Allocate(c, f) ==
    /\ f \in FreeFds
    /\ \A g \in FreeFds : f <= g
    /\ owner' = [owner EXCEPT ![f] = c]

\* The mutex is released and the call returns; the socket stays open.
Return(c, value) ==
    /\ holder' = Nobody
    /\ returned' = [returned EXCEPT ![c] = value]
    /\ Goto(c, "returned")

-----------------------------------------------------------------------------
\* tg_net_open, before the mutex; the descriptor goes into the caller's set.
Open(c) ==
    /\ pc[c] = "open"
    /\ \E f \in Fds :
          /\ Allocate(c, f)
          /\ socket' = [socket EXCEPT ![c] = f]
          /\ fdset' = [fdset EXCEPT ![c] = {f}]
    /\ Goto(c, "lock")
    /\ UNCHANGED <<holder, key, asked, lastId, returned>>

\* socket() fails, or connect() does: then the descriptor is not closed again.
OpenFails(c) ==
    /\ pc[c] = "open"
    /\ owner' = owner \/ \E f \in Fds : Allocate(c, f)
    /\ returned' = [returned EXCEPT ![c] = Null]
    /\ Goto(c, "returned")
    /\ UNCHANGED <<holder, socket, fdset, key, asked, lastId>>

\* Mutant of Lock: the mutex of another caller does not keep it out.
LockShared(c) ==
    /\ pc[c] = "lock"
    /\ holder' = c
    /\ Goto(c, "send")
    /\ UNCHANGED <<owner, socket, fdset, key, asked, lastId, returned>>

Lock(c) ==
    /\ pc[c] = "lock"
    /\ holder = Nobody
    /\ holder' = c
    /\ Goto(c, "send")
    /\ UNCHANGED <<owner, socket, fdset, key, asked, lastId, returned>>

\* tg_send tests tg->key.size; without a key the socket is closed.
CheckKey(c) ==
    /\ pc[c] = "send"
    /\ IF key = 0
       THEN owner' = [owner EXCEPT ![socket[c]] = Nobody] /\ Goto(c, "wantkey")
       ELSE owner' = owner /\ Goto(c, "prepare")
    /\ UNCHANGED <<holder, socket, fdset, key, asked, lastId, returned>>

\* Mutant of CreateKey: the caller goes on with the socket it closed.
CreateKeyKeepsSocket(c) ==
    /\ pc[c] = "wantkey"
    /\ \E f \in Fds : Allocate(c, f)
    /\ key' = key + 1
    /\ Goto(c, "prepare")
    /\ UNCHANGED <<holder, socket, fdset, asked, lastId, returned>>

\* api.app.open opens another, makes the key on it and leaves it to the caller,
\* whose set of descriptors stays as it is.
CreateKey(c) ==
    /\ pc[c] = "wantkey"
    /\ \E f \in Fds :
          /\ Allocate(c, f)
          /\ socket' = [socket EXCEPT ![c] = f]
    /\ key' = key + 1
    /\ Goto(c, "prepare")
    /\ UNCHANGED <<holder, fdset, asked, lastId, returned>>

\* A new message id, and send().
Send(c) ==
    /\ pc[c] = "prepare"
    /\ lastId' = lastId + 1
    /\ asked' = [asked EXCEPT ![c] = lastId']
    /\ Goto(c, "recv")
    /\ UNCHANGED <<holder, owner, socket, fdset, key, returned>>

SendFails(c) ==
    /\ pc[c] = "prepare"
    /\ Return(c, Null)
    /\ UNCHANGED <<owner, socket, fdset, key, asked, lastId>>

\* tg_receive begins with FD_ISSET: without it "socket is closed!" is reported.
CheckSet(c) ==
    /\ pc[c] = "recv"
    /\ Goto(c, IF socket[c] \in fdset[c] THEN "read" ELSE "closed")
    /\ UNCHANGED <<holder, owner, socket, fdset, key, asked, lastId, returned>>

ReportClosed(c) ==
    /\ pc[c] = "closed"
    /\ Return(c, Null)
    /\ UNCHANGED <<owner, socket, fdset, key, asked, lastId>>

-----------------------------------------------------------------------------
(***************************************************************************)
(* What is received.  A message is a container of items or one item: the   *)
(* result of a request, a notice that names one (msgs_ack, or one of the   *)
(* detailed infos, an object to tg_send_query), or something that names    *)
(* no request (id 0).  The body is what tg_send_query tells apart.         *)
(***************************************************************************)
Item(kind, id, body) == [kind |-> kind, id |-> id, body |-> body]

Items ==
    {Item("result", id, body) : id \in 1..lastId, body \in {"object", "update"}}
    \union {Item("notice", id, body) : id \in 1..lastId, body \in {"ack", "object"}}
    \union {Item("plain", 0, body) : body \in {"object", "update", "salt", "null"}}

Messages ==
    {[container |-> FALSE, items |-> <<item>>] : item \in Items}
    \union UNION {{[container |-> TRUE, items |-> s] : s \in [1..n -> Items]} : n \in 1..MaxItems}

\* Mutant of Answering: the id is not compared.
AnsweringAny(c, msg) ==
    {i \in 1..Len(msg.items) : msg.items[i].kind \in {"result", "notice"}}

\* tg_parse_answer calls back for these items of a message.
Answering(c, msg) ==
    {i \in 1..Len(msg.items) : /\ msg.items[i].kind \in {"result", "notice"}
                               /\ msg.items[i].id = asked[c]}

\* tg_send_query goes on with the object of the last of them, or else with the
\* message itself.
Outcome(c, msg) ==
    IF Answering(c, msg) # {}
    THEN {msg.items[i] : i \in {j \in Answering(c, msg) : \A k \in Answering(c, msg) : k <= j}}
    ELSE IF msg.container \/ msg.items[1].kind = "result"
    THEN {Item("plain", 0, "object")}
    ELSE {msg.items[1]}

Received(c) == UNION {Outcome(c, msg) : msg \in Messages}

\* Mutant of ReceiveFails: the mutex is not released.
ReceiveFailsLocked(c) ==
    /\ pc[c] = "read"
    /\ returned' = [returned EXCEPT ![c] = Null]
    /\ Goto(c, "returned")
    /\ UNCHANGED <<holder, owner, socket, fdset, key, asked, lastId>>

\* A socket error, a 404 packet, a message that does not decrypt or deserialize.
ReceiveFails(c) ==
    /\ pc[c] = "read"
    /\ Return(c, Null)
    /\ UNCHANGED <<owner, socket, fdset, key, asked, lastId>>

\* bad_server_salt: the socket is closed, the mutex released, the call repeated.
ReceiveBadSalt(c) ==
    /\ pc[c] = "read"
    /\ lastId < MaxSends
    /\ \E item \in Received(c) : item.body = "salt"
    /\ owner' = [owner EXCEPT ![socket[c]] = Nobody]
    /\ holder' = Nobody
    /\ Goto(c, "open")
    /\ UNCHANGED <<socket, fdset, key, asked, lastId, returned>>

\* An acknowledgement or an update: it is dropped and the socket read again.
ReceiveAgain(c) ==
    /\ pc[c] = "read"
    /\ \E item \in Received(c) : item.body \in {"ack", "update"}
    /\ Goto(c, "recv")
    /\ UNCHANGED <<holder, owner, socket, fdset, key, asked, lastId, returned>>

\* Everything else is returned.
ReceiveObject(c) ==
    /\ pc[c] = "read"
    /\ \E item \in Received(c) :
          /\ item.body \in {"object", "null"}
          /\ Return(c, IF item.body = "null" THEN Null
                       ELSE IF item.kind = "result" THEN Answer(item.id)
                       ELSE Other)
    /\ UNCHANGED <<owner, socket, fdset, key, asked, lastId>>

-----------------------------------------------------------------------------
Run(c) ==
    \/ Open(c) \/ CheckKey(c) \/ CreateKey(c) \/ Send(c) \/ SendFails(c)
    \/ CheckSet(c) \/ ReportClosed(c)

Environment(c) ==
    \/ OpenFails(c)
    \/ ReceiveFails(c) \/ ReceiveBadSalt(c) \/ ReceiveAgain(c) \/ ReceiveObject(c)

Next == \E c \in Callers : Run(c) \/ Lock(c) \/ Environment(c)

Spec == Init /\ [][Next]_vars

\* Threads are scheduled, and one that waits for the mutex gets it in the end.
\* Nothing is assumed of what arrives.
Fairness == \A c \in Callers : WF_vars(Run(c)) /\ SF_vars(Lock(c))

FairSpec == Spec /\ Fairness

-----------------------------------------------------------------------------
(***************************************************************************)
(* Properties                                                              *)
(***************************************************************************)

\* Each variable has its type, and the mutex is held by the caller inside.
TypeOK ==
    /\ pc \in [Callers -> {"open", "lock", "returned"} \union Inside]
    /\ holder \in Callers \union {Nobody}
    /\ \A c \in Callers : pc[c] \in Inside <=> holder = c
    /\ owner \in [Fds -> Callers \union {Nobody}]
    /\ socket \in [Callers -> Fds \union {0}]
    /\ fdset \in [Callers -> SUBSET Fds]
    /\ key \in Nat
    /\ asked \in [Callers -> Nat]
    /\ lastId \in Nat
    /\ returned \in [Callers -> [kind : {"none", "null", "other", "answer"}, id : Nat]]

\* The descriptor a caller sends and receives on is its own: between its closing of
\* one socket for the handshake and the use of the next, descriptors that others
\* open and close before they hold the mutex do not get mixed up with it.
SocketsAreNotShared ==
    \A c \in Callers : pc[c] \in {"lock", "send", "prepare", "recv", "read"} =>
        socket[c] \in Fds /\ owner[socket[c]] = c

\* The key is tested and made under one mutex, so that callers that come together
\* make one key, unlike the threads of the queue manager.
KeyIsMadeOnce == KeyAtStart <= 1 => key <= 1

\* What a call returns as a result is the result of its last request, although the
\* results of others' requests, and of its own refused ones, arrive as well.
ResultsAreOwn ==
    \A c \in Callers : returned[c].kind = "answer" =>
        /\ returned[c].id = asked[c]
        /\ \A d \in Callers \ {c} : asked[d] # returned[c].id

\* Whatever goes wrong in a call, the others get the mutex: a caller waits for ever
\* only behind one that reads its socket for ever.
EveryCallReturns ==
    \A c \in Callers :
        pc[c] = "lock" ~>
            pc[c] = "returned" \/ [](\E d \in Callers : pc[d] \in {"recv", "read"})

\* send_query.c:104: "socket is closed!": the socket it is reported for is closed.
ReportedSocketIsClosed ==
    \A c \in Callers : pc[c] = "closed" => owner[socket[c]] # c
=============================================================================
