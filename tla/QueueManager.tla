---------------------------- MODULE QueueManager ----------------------------
(***************************************************************************)
(* The queue manager of libtg (tg/queue.c): every query sent with          *)
(* tg_send_query_async gets a tg_queue_t object and a thread of its own,   *)
(* which opens a socket, enters the object into the list tg->queue, sends  *)
(* the request and then reads its socket.  An answer names the msg_id of   *)
(* the request it belongs to, and the server may deliver it on any         *)
(* connection of the session, so the thread that reads it looks the query  *)
(* up in the list, takes it out, runs its callback and clears the loop     *)
(* flag its own thread polls.  Other threads may cancel one query or all.  *)
(*                                                                         *)
(* A query object and its thread share one name here: a query q is "gone"  *)
(* when its thread has freed the object and ended.  Two kinds of mutex are *)
(* kept apart: queuem protects the list, m[q] protects one object.         *)
(***************************************************************************)
EXTENDS Integers, Sequences, FiniteSets

CONSTANTS
    Queries,    \* the query objects, each with the thread that runs it
    Cancellers, \* threads that make one cancelling call each
    Nobody,     \* stands for no thread and for no query
    Ticks,      \* how far the clock may move between two message ids: not at
                \* all if it is coarse, back if it is set back
    MaxItems,   \* bound: the items of one message from the server
    MaxSends,   \* bound: a request is refused for its salt below this many
    KeyAtStart  \* number of authorization keys made before the first query

Threads == Queries \union Cancellers

ASSUME QueueAssumption ==
    /\ Nobody \notin Threads
    /\ Queries \intersect Cancellers = {}
    /\ Ticks \subseteq Int
    /\ MaxItems \in Nat
    /\ MaxSends \in Nat
    /\ KeyAtStart \in Nat

VARIABLES
    pc,         \* the next step of each thread
    listed,     \* the queries in the list tg->queue
    queuem,     \* the thread that holds tg->queuem
    m,          \* the thread that holds each queue->m
    loop,       \* queue->loop: the thread keeps receiving
    msgid,      \* queue->msgid: the id of the last request, 0 before the first
    target,     \* the query a thread took out of the list to work on
    inbox,      \* the items a thread still has to handle of a received message
    callbacks,  \* the calls of queue->on_done, in order
    clock,      \* the clock message ids are read from
    key,        \* the generation of tg->key, 0 while it is empty
    usedKey,    \* the key generation each query's last request used
    sent,       \* the requests the server was sent
    stamped     \* history: the message ids given so far, each with its query

vars == <<pc, listed, queuem, m, loop, msgid, target, inbox, callbacks,
          clock, key, usedKey, sent, stamped>>

(***************************************************************************)
(* An item is what handle_tl acts on: one message of the session, or one   *)
(* inner message of a container.  A "result" is an rpc_result, rpc_error   *)
(* included; "undecoded" makes catched_tl run with NULL from the start: an *)
(* rpc_result whose body could not be deserialized, or a                   *)
(* msg_detailed_info, which names an id of the server's own; a "notice" is *)
(* all that leaves the queries alone (pong, new_session_created, msgs_ack, *)
(* updates, a bare bad_msg_notification).                                  *)
(***************************************************************************)
AnswerKinds == {"result", "undecoded"}
ItemKinds   == AnswerKinds \union {"notice"}
Items       == [kind : ItemKinds, id : Int]
ServerId    == -1       \* an id that no request of the client has
Notice      == [kind |-> "notice", id |-> ServerId]

\* What on_done is given: an object, or NULL.
Values == {"answer", "null"}

OwnerStates == {"unborn", "open", "send", "wantkey", "prepare", "transmit",
                "loop", "recv", "handle", "spin", "exit", "gone"}
WorkStates  == {"lockm", "callback", "stop", "unlock"}
CallStates  == {"idle", "returned"}

\* The thread has taken a query out of the list and is not done with it.
Working(t) == pc[t] \in WorkStates

Init ==
    /\ pc        = [t \in Threads |-> IF t \in Queries THEN "unborn" ELSE "idle"]
    /\ listed    = {}
    /\ queuem    = Nobody
    /\ m         = [q \in Queries |-> Nobody]
    /\ loop      = [q \in Queries |-> TRUE]
    /\ msgid     = [q \in Queries |-> 0]
    /\ target    = [t \in Threads |-> Nobody]
    /\ inbox     = [q \in Queries |-> <<>>]
    /\ callbacks = [q \in Queries |-> <<>>]
    /\ clock     = 0
    /\ key       = KeyAtStart
    /\ usedKey   = [q \in Queries |-> 0]
    /\ sent      = {}
    /\ stamped   = {}

Goto(t, label) == pc' = [pc EXCEPT ![t] = label]

-----------------------------------------------------------------------------
(***************************************************************************)
(* Starting a query: tg_queue_new, and tg_run_queue up to the receive loop *)
(***************************************************************************)

\* tg_queue_new: the object is set up and its thread started.
New(q) ==
    /\ pc[q] = "unborn"
    /\ Goto(q, "open")
    /\ UNCHANGED <<listed, queuem, m, loop, msgid, target, inbox, callbacks,
                   clock, key, usedKey, sent, stamped>>

\* No connection: the object is freed and the thread ends.
OpenFails(q) ==
    /\ pc[q] = "open"
    /\ Goto(q, "gone")
    /\ UNCHANGED <<listed, queuem, m, loop, msgid, target, inbox, callbacks,
                   clock, key, usedKey, sent, stamped>>

\* The socket is open: list_add under queuem, before the query has an id.
Register(q) ==
    /\ pc[q] = "open"
    /\ queuem = Nobody
    /\ listed' = listed \union {q}
    /\ Goto(q, "send")
    /\ UNCHANGED <<queuem, m, loop, msgid, target, inbox, callbacks, clock,
                   key, usedKey, sent, stamped>>

\* tg_send tests tg->key.size before it takes queuem.
CheckKey(q) ==
    /\ pc[q] = "send"
    /\ Goto(q, IF key = 0 THEN "wantkey" ELSE "prepare")
    /\ UNCHANGED <<listed, queuem, m, loop, msgid, target, inbox, callbacks,
                   clock, key, usedKey, sent, stamped>>

\* The handshake runs under queuem; the test is not repeated there, so that a
\* key made meanwhile by another thread is replaced.
CreateKey(q) ==
    /\ pc[q] = "wantkey"
    /\ queuem = Nobody
    /\ key' = key + 1
    /\ Goto(q, "prepare")
    /\ UNCHANGED <<listed, queuem, m, loop, msgid, target, inbox, callbacks,
                   clock, usedKey, sent, stamped>>

\* tg_prepare_query: a message id is read from the clock and stored in
\* queue->msgid, and the request is encrypted with the key of the moment.  The
\* clock is a double nobody locks: it may give an id that was given before.
Prepare(q) ==
    /\ pc[q] = "prepare"
    /\ \E tick \in Ticks :
          /\ clock + tick > 0
          /\ clock' = clock + tick
          /\ msgid' = [msgid EXCEPT ![q] = clock + tick]
          /\ stamped' = stamped \union {[id |-> clock + tick, query |-> q]}
    /\ usedKey' = [usedKey EXCEPT ![q] = key]
    /\ Goto(q, "transmit")
    /\ UNCHANGED <<listed, queuem, m, loop, target, inbox, callbacks, key,
                   sent>>

\* send() hands the request to the server.
Transmit(q) ==
    /\ pc[q] = "transmit"
    /\ sent' = sent \union {[id |-> msgid[q], query |-> q, key |-> usedKey[q]]}
    /\ Goto(q, "loop")
    /\ UNCHANGED <<listed, queuem, m, loop, msgid, target, inbox, callbacks,
                   clock, key, usedKey, stamped>>

\* send() fails: the first time loop is cleared, after a refused salt the loop is
\* left with a break.
TransmitFails(q) ==
    /\ pc[q] = "transmit"
    /\ loop' = [loop EXCEPT ![q] = @ /\ \E s \in sent : s.query = q]
    /\ Goto(q, "exit")
    /\ UNCHANGED <<listed, queuem, m, msgid, target, inbox, callbacks, clock,
                   key, usedKey, sent, stamped>>

-----------------------------------------------------------------------------
(***************************************************************************)
(* The receive loop: tg_run_queue and _tg_receive                          *)
(***************************************************************************)

\* Mutant of LoopTest: the loop has no end.
LoopForever(q) ==
    /\ pc[q] = "loop"
    /\ Goto(q, "recv")
    /\ UNCHANGED <<listed, queuem, m, loop, msgid, target, inbox, callbacks,
                   clock, key, usedKey, sent, stamped>>

\* while (queue->loop), read without any mutex.
LoopTest(q) ==
    /\ pc[q] = "loop"
    /\ Goto(q, IF loop[q] THEN "recv" ELSE "exit")
    /\ UNCHANGED <<listed, queuem, m, loop, msgid, target, inbox, callbacks,
                   clock, key, usedKey, sent, stamped>>

\* What can arrive on the socket of q: items about any request sent under the
\* same key, answered before or not, on this connection or another.
Arrivals(q) ==
    {[kind |-> k, id |-> s.id] : k \in AnswerKinds,
                                 s \in {r \in sent : r.key = usedKey[q]}}
    \union {Notice, [kind |-> "undecoded", id |-> ServerId]}

\* A message that tg_decrypt accepts: it was encrypted with the current key.
Receive(q) ==
    /\ pc[q] = "recv"
    /\ usedKey[q] = key
    /\ \E n \in 1..MaxItems : \E items \in [1..n -> Arrivals(q)] :
          inbox' = [inbox EXCEPT ![q] = items]
    /\ Goto(q, "handle")
    /\ UNCHANGED <<listed, queuem, m, loop, msgid, target, callbacks, clock,
                   key, usedKey, sent, stamped>>

\* bad_server_salt (RTL_RS): the query is sent again, whatever loop says.
ReceiveBadSalt(q) ==
    /\ pc[q] = "recv"
    /\ usedKey[q] = key
    /\ Cardinality(sent) < MaxSends
    /\ Goto(q, "send")
    /\ UNCHANGED <<listed, queuem, m, loop, msgid, target, inbox, callbacks,
                   clock, key, usedKey, sent, stamped>>

\* RTL_ER or RTL_EX: a socket error, a 404 packet, a message that does not
\* decrypt, or a progress callback that cancels the transfer.
ReceiveFails(q) ==
    /\ pc[q] = "recv"
    /\ Goto(q, "exit")
    /\ UNCHANGED <<listed, queuem, m, loop, msgid, target, inbox, callbacks,
                   clock, key, usedKey, sent, stamped>>

\* The peer closes the connection: recv returns 0, which is not an error to
\* _tg_receive.  Depending on the value left in the unset length it gives up,
\* or waits for bytes that never come.
PeerCloses(q) ==
    /\ pc[q] = "recv"
    /\ \E label \in {"exit", "spin"} : Goto(q, label)
    /\ UNCHANGED <<listed, queuem, m, loop, msgid, target, inbox, callbacks,
                   clock, key, usedKey, sent, stamped>>

-----------------------------------------------------------------------------
(***************************************************************************)
(* Handling a message: handle_tl and catched_tl                            *)
(***************************************************************************)

\* The next item of the message q is handling.
Current(q) == Head(inbox[q])
NextItem(q) == inbox' = [inbox EXCEPT ![q] = Tail(@)]

\* Everything in the message is handled: RTL_RQ.
HandleDone(q) ==
    /\ pc[q] = "handle"
    /\ inbox[q] = <<>>
    /\ Goto(q, "loop")
    /\ UNCHANGED <<listed, queuem, m, loop, msgid, target, inbox, callbacks,
                   clock, key, usedKey, sent, stamped>>

\* An item that changes no query.
HandleNotice(q) ==
    /\ pc[q] = "handle"
    /\ inbox[q] # <<>>
    /\ Current(q).kind = "notice"
    /\ NextItem(q)
    /\ UNCHANGED <<pc, listed, queuem, m, loop, msgid, target, callbacks,
                   clock, key, usedKey, sent, stamped>>

\* Mutant of Matches: the comparison of list_cut lets every query through.
MatchesAny(id) == IF id = ServerId THEN {} ELSE listed

\* list_cut finds these queries for an id.
Matches(id) == {x \in listed : msgid[x] = id}

\* Mutant of CatchMiss: queuem is only tried, and the answer dropped when it is
\* taken.
CatchMissWhenBusy(q) ==
    /\ pc[q] = "handle"
    /\ inbox[q] # <<>>
    /\ Current(q).kind # "notice"
    /\ queuem # Nobody \/ Matches(Current(q).id) = {}
    /\ NextItem(q)
    /\ UNCHANGED <<pc, listed, queuem, m, loop, msgid, target, callbacks,
                   clock, key, usedKey, sent, stamped>>

\* catched_tl finds no query for the id, and drops the answer.
CatchMiss(q) ==
    /\ pc[q] = "handle"
    /\ inbox[q] # <<>>
    /\ Current(q).kind # "notice"
    /\ queuem = Nobody
    /\ Matches(Current(q).id) = {}
    /\ NextItem(q)
    /\ UNCHANGED <<pc, listed, queuem, m, loop, msgid, target, callbacks,
                   clock, key, usedKey, sent, stamped>>

\* Mutant of Cut: the query is found in the list, and left there.
CutLeavesListed(t, x) ==
    /\ listed' = listed
    /\ queuem' = t
    /\ target' = [target EXCEPT ![t] = x]
    /\ Goto(t, "lockm")

\* A thread that holds queuem takes x out of the list and goes on to lock it.
Cut(t, x) ==
    /\ listed' = listed \ {x}
    /\ queuem' = t
    /\ target' = [target EXCEPT ![t] = x]
    /\ Goto(t, "lockm")

\* catched_tl finds the query: list_cut under queuem.
Catch(q) ==
    /\ pc[q] = "handle"
    /\ inbox[q] # <<>>
    /\ Current(q).kind # "notice"
    /\ queuem = Nobody
    /\ \E x \in Matches(Current(q).id) : Cut(q, x)
    /\ UNCHANGED <<m, loop, msgid, inbox, callbacks, clock, key, usedKey,
                   sent, stamped>>

\* Mutant of LockQueue: a cancelling call goes on to run the callback.
LockQueueForCallback(t) ==
    /\ pc[t] = "lockm"
    /\ m[target[t]] = Nobody
    /\ m' = [m EXCEPT ![target[t]] = t]
    /\ queuem' = Nobody
    /\ Goto(t, "callback")
    /\ UNCHANGED <<listed, loop, msgid, target, inbox, callbacks, clock, key,
                   usedKey, sent, stamped>>

\* Both mutexes are held for a moment: queue->m is locked, then queuem released.
LockQueue(t) ==
    /\ pc[t] = "lockm"
    /\ m[target[t]] = Nobody
    /\ m' = [m EXCEPT ![target[t]] = t]
    /\ queuem' = Nobody
    /\ Goto(t, IF t \in Queries THEN "callback" ELSE "stop")
    /\ UNCHANGED <<listed, loop, msgid, target, inbox, callbacks, clock, key,
                   usedKey, sent, stamped>>

\* Mutant of RunCallback: without an object it returns before on_done is run.
RunCallbackOnObject(q) ==
    /\ pc[q] = "callback"
    /\ callbacks' = IF Current(q).kind = "undecoded" THEN callbacks
                    ELSE [callbacks EXCEPT ![target[q]] =
                             Append(@, [id |-> Current(q).id, value |-> "answer"])]
    /\ Goto(q, IF Current(q).kind = "undecoded" THEN "unlock" ELSE "stop")
    /\ UNCHANGED <<listed, queuem, m, loop, msgid, target, inbox, clock, key,
                   usedKey, sent, stamped>>

\* queue->on_done runs.  A result is handed over, or NULL in place of one that
\* cannot be unpacked or is a bad_msg_notification.  Without an object from the
\* start, catched_tl returns here and leaves loop as it is.
RunCallback(q) ==
    /\ pc[q] = "callback"
    /\ \E value \in Values :
          /\ Current(q).kind = "undecoded" => value = "null"
          /\ callbacks' = [callbacks EXCEPT ![target[q]] =
                              Append(@, [id |-> Current(q).id, value |-> value])]
    /\ Goto(q, IF Current(q).kind = "undecoded" THEN "unlock" ELSE "stop")
    /\ UNCHANGED <<listed, queuem, m, loop, msgid, target, inbox, clock, key,
                   usedKey, sent, stamped>>

\* Mutant of StopLoop: the flag is left as it is.
StopLoopForgets(t) ==
    /\ pc[t] = "stop"
    /\ Goto(t, "unlock")
    /\ UNCHANGED <<listed, queuem, m, loop, msgid, target, inbox, callbacks,
                   clock, key, usedKey, sent, stamped>>

\* queue->loop = false, in catched_tl and in tg_queue_cancell_queue.
StopLoop(t) ==
    /\ pc[t] = "stop"
    /\ loop' = [loop EXCEPT ![target[t]] = FALSE]
    /\ Goto(t, "unlock")
    /\ UNCHANGED <<listed, queuem, m, msgid, target, inbox, callbacks, clock,
                   key, usedKey, sent, stamped>>

\* queue->m is released: a query thread goes on with its message.
UnlockQueue(t) ==
    /\ pc[t] = "unlock"
    /\ m' = [m EXCEPT ![target[t]] = Nobody]
    /\ target' = [target EXCEPT ![t] = Nobody]
    /\ Goto(t, IF t \in Queries THEN "handle" ELSE "returned")
    /\ inbox' = [q \in Queries |-> IF q = t THEN Tail(inbox[q]) ELSE inbox[q]]
    /\ UNCHANGED <<listed, queuem, loop, msgid, callbacks, clock, key,
                   usedKey, sent, stamped>>

-----------------------------------------------------------------------------
(***************************************************************************)
(* The end of a query's thread, and the cancelling calls                   *)
(***************************************************************************)

\* Mutant of Exit: the object is freed with its entry still in the list.
ExitStaysListed(q) ==
    /\ pc[q] = "exit"
    /\ queuem = Nobody
    /\ Goto(q, "gone")
    /\ UNCHANGED <<listed, queuem, m, loop, msgid, target, inbox, callbacks,
                   clock, key, usedKey, sent, stamped>>

\* Mutant of Exit: the object is freed without taking queuem.
ExitUnlocked(q) ==
    /\ pc[q] = "exit"
    /\ listed' = listed \ {q}
    /\ Goto(q, "gone")
    /\ UNCHANGED <<queuem, m, loop, msgid, target, inbox, callbacks, clock,
                   key, usedKey, sent, stamped>>

\* Under queuem: list_cut by the query's own id, then free, without queue->m.
Exit(q) ==
    /\ pc[q] = "exit"
    /\ queuem = Nobody
    /\ IF Matches(msgid[q]) = {}
       THEN listed' = listed
       ELSE \E x \in Matches(msgid[q]) : listed' = listed \ {x}
    /\ Goto(q, "gone")
    /\ UNCHANGED <<queuem, m, loop, msgid, target, inbox, callbacks, clock,
                   key, usedKey, sent, stamped>>

\* tg_queue_cancell_all: every listed query whose mutex can be had by trylock
\* is told to stop, and the list is emptied.
CancelAll(c) ==
    /\ pc[c] = "idle"
    /\ queuem = Nobody
    /\ loop' = [q \in Queries |->
                  IF q \in listed /\ m[q] = Nobody THEN FALSE ELSE loop[q]]
    /\ listed' = {}
    /\ Goto(c, "returned")
    /\ UNCHANGED <<queuem, m, msgid, target, inbox, callbacks, clock, key,
                   usedKey, sent, stamped>>

\* tg_queue_cancell_queue finds the query it is asked for.
CancelQueue(c) ==
    /\ pc[c] = "idle"
    /\ queuem = Nobody
    /\ \E x \in listed : msgid[x] > 0 /\ Cut(c, x)
    /\ UNCHANGED <<m, loop, msgid, inbox, callbacks, clock, key, usedKey,
                   sent, stamped>>

\* tg_queue_cancell_queue is asked for a query that is no longer listed.
CancelMiss(c) ==
    /\ pc[c] = "idle"
    /\ queuem = Nobody
    /\ \E s \in sent : Matches(s.id) = {}
    /\ Goto(c, "returned")
    /\ UNCHANGED <<listed, queuem, m, loop, msgid, target, inbox, callbacks,
                   clock, key, usedKey, sent, stamped>>

-----------------------------------------------------------------------------
\* What the thread of q does by itself.
Run(q) ==
    \/ Register(q) \/ CheckKey(q) \/ CreateKey(q) \/ Prepare(q)
    \/ Transmit(q) \/ LoopTest(q)
    \/ HandleDone(q) \/ HandleNotice(q) \/ CatchMiss(q) \/ Catch(q)
    \/ RunCallback(q) \/ Exit(q)

\* What both kinds of thread do to a query they took out of the list.
Work(t) == LockQueue(t) \/ StopLoop(t) \/ UnlockQueue(t)

\* What the application, the network and the server do to the thread of q.
Environment(q) ==
    \/ New(q) \/ OpenFails(q) \/ TransmitFails(q)
    \/ Receive(q) \/ ReceiveBadSalt(q) \/ ReceiveFails(q) \/ PeerCloses(q)

Cancel(c) == CancelAll(c) \/ CancelQueue(c) \/ CancelMiss(c)

Next ==
    \/ \E q \in Queries : Run(q) \/ Environment(q)
    \/ \E t \in Threads : Work(t)
    \/ \E c \in Cancellers : Cancel(c)

Spec == Init /\ [][Next]_vars

(***************************************************************************)
(* The threads are scheduled fairly, and a thread that wants queuem while  *)
(* it is taken and released again and again gets it in the end.  Nothing   *)
(* is assumed of the application, the network, the server or cancellers.   *)
(***************************************************************************)
Fairness ==
    /\ \A q \in Queries : SF_vars(Run(q))
    /\ \A t \in Threads : WF_vars(Work(t))

FairSpec == Spec /\ Fairness

-----------------------------------------------------------------------------
(***************************************************************************)
(* The inductive invariant the proofs of QueueManager_proofs rest on       *)
(***************************************************************************)

\* The steps at which a query's request has an id of its own.
Started(q) ==
    pc[q] \in WorkStates \union {"transmit", "loop", "recv", "handle", "spin", "exit"}

\* The labels of each kind of thread, and what goes with those of WorkStates.
LabelsOK ==
    /\ pc \in [Threads -> OwnerStates \union WorkStates \union CallStates]
    /\ \A q \in Queries : pc[q] \notin CallStates
    /\ \A c \in Cancellers : pc[c] \in CallStates \union (WorkStates \ {"callback"})
    /\ target \in [Threads -> Queries \union {Nobody}]
    /\ \A t \in Threads : Working(t) <=> target[t] # Nobody
    /\ inbox \in [Queries -> Seq(Items)]
    /\ \A q \in Queries : Working(q) => inbox[q] # <<>>

\* The types of the other variables.
DataOK ==
    /\ listed \in SUBSET Queries
    /\ queuem \in Threads \union {Nobody}
    /\ m \in [Queries -> Threads \union {Nobody}]
    /\ loop \in [Queries -> BOOLEAN]
    /\ msgid \in [Queries -> Nat]
    /\ callbacks \in [Queries -> Seq([id : Int, value : Values])]
    /\ clock \in Nat
    /\ key \in Nat
    /\ usedKey \in [Queries -> Nat]
    /\ sent \in SUBSET [id : Nat, query : Queries, key : Nat]
    /\ stamped \in SUBSET [id : Nat, query : Queries]

\* The clock gave this message id to two queries.
Shared(id) ==
    \E x, y \in stamped : x.id = id /\ y.id = id /\ x.query # y.query

\* The query sent a request with this id.
AskedBy(q, id) == \E s \in sent : s.query = q /\ s.id = id

\* Nobody works on a listed query, and it has not been answered.
ListInv ==
    \A q \in listed :
        /\ pc[q] \notin {"unborn", "open"}
        /\ callbacks[q] = <<>>
        /\ \A t \in Threads : target[t] # q

\* Who holds which mutex at which step.
LockInv ==
    /\ \A t \in Threads : queuem = t <=> pc[t] = "lockm"
    /\ \A t \in Threads, q \in Queries :
          m[q] = t <=> target[t] = q /\ pc[t] \in {"callback", "stop", "unlock"}

\* A query is worked on by one thread at most, which found it registered, and
\* its callback has not run before.
ClaimInv ==
    \A t \in Threads : Working(t) =>
        /\ pc[target[t]] \notin {"unborn", "open"}
        /\ \A u \in Threads : target[u] = target[t] => u = t
        /\ pc[t] \in {"lockm", "callback"} /\ t \in Queries =>
              callbacks[target[t]] = <<>>

\* A query that an answer took out of the list asked for it, unless it shares the
\* id; the server was sent an id of the query's in any case.
AskInv ==
    \A t \in Queries : pc[t] \in {"lockm", "callback"} =>
        /\ AskedBy(target[t], Current(t).id) \/ Shared(Current(t).id)
        /\ \E x \in stamped, s \in sent : x.query = target[t] /\ x.id = s.id

\* A freed query is in the list, or about to be locked, only if it shares its id.
FreedInv ==
    /\ \A q \in listed : pc[q] = "gone" => Shared(msgid[q])
    /\ \A t \in Threads :
          pc[t] = "lockm" /\ pc[target[t]] = "gone" => Shared(msgid[target[t]])

\* The ids in use were given to those who use them, after they registered.
IdInv ==
    /\ \A q \in Queries :
          msgid[q] > 0 => \E x \in stamped : x.id = msgid[q] /\ x.query = q
    /\ \A q \in Queries : Started(q) => msgid[q] > 0
    /\ \A s \in sent :
          s.id > 0 /\ \E x \in stamped : x.id = s.id /\ x.query = s.query
    /\ \A x \in stamped : pc[x.query] \notin {"unborn", "open"}

\* What a thread is handling came from the server.
InboxInv ==
    \A q \in Queries : \A i \in 1..Len(inbox[q]) :
        \/ inbox[q][i].id = ServerId
        \/ \E s \in sent : s.id = inbox[q][i].id

\* A callback runs after the query is registered.
CallbackInv ==
    \A q \in Queries : pc[q] \in {"unborn", "open"} => callbacks[q] = <<>>

-----------------------------------------------------------------------------
(***************************************************************************)
(* Properties                                                              *)
(***************************************************************************)

\* Each variable has its type, and a thread works on a query, with
\* an item of a message in hand, exactly while its label says so.
TypeOK == LabelsOK /\ DataOK

\* A query's callback runs at most once, however many answers come for it, on
\* whatever connections, and whoever cancels meanwhile: catched_tl and the
\* cancelling calls take the query out of the list before they act on it.
AtMostOneCallback == \A q \in Queries : Len(callbacks[q]) <= 1

\* A callback is given the answer to a request its own query sent, although
\* the thread that read the answer is often another query's, unless the clock
\* gave the id of that answer to two queries.
AnswersReachTheAsker ==
    \A q \in Queries : \A i \in 1..Len(callbacks[q]) :
        AskedBy(q, callbacks[q][i].id) \/ Shared(callbacks[q][i].id)

\* The list holds a query whose object is freed only if the clock gave its id to
\* another query too: list_cut at the end of tg_run_queue finds the query's own
\* entry, or somebody took it out before, or it takes out the other in its place.
ListedAreAlive ==
    \A q \in listed :
        /\ pc[q] \notin {"unborn", "open"}
        /\ pc[q] = "gone" => Shared(msgid[q])

\* A listed query is never locked, so that the trylock of
\* tg_queue_cancell_all cannot fail and no listed query escapes it.
ListedAreUnlocked == \A q \in listed : m[q] = Nobody

\* The one place where a thread waits for a mutex while it holds another, in
\* catched_tl and tg_queue_cancell_queue, never blocks, and the mutex it locks
\* there is freed memory only if the query's id was given to another query too.
NestedLockIsSafe ==
    \A t \in Threads :
        queuem = t => /\ pc[t] = "lockm"
                      /\ m[target[t]] = Nobody
                      /\ pc[target[t]] = "gone" => Shared(msgid[target[t]])

\* All of it together.
IInv ==
    /\ TypeOK
    /\ ListInv /\ LockInv /\ ClaimInv /\ AskInv /\ FreedInv /\ IdInv
    /\ InboxInv /\ CallbackInv
    /\ AtMostOneCallback
    /\ AnswersReachTheAsker

\* How the queue manager implements QueryService: a query is pending while the
\* list holds it, claimed from the cut until its callback has run.
Claimed(q) == \E t \in Queries : pc[t] \in {"lockm", "callback"} /\ target[t] = q

servicePhase ==
    [q \in Queries |->
        IF pc[q] \in {"unborn", "open"} THEN "idle"
        ELSE IF q \in listed THEN "pending"
        ELSE IF Claimed(q) THEN "claimed"
        ELSE "over"]

serviceOutcome ==
    [q \in Queries |->
        IF callbacks[q] = <<>> THEN "none" ELSE callbacks[q][Len(callbacks[q])].value]

\* A request that reaches the server asks for every query that has its id.
serviceServed ==
    {x.query : x \in {y \in stamped : \E s \in sent : s.id = y.id}}

Service == INSTANCE QueryService WITH
    phase   <- servicePhase,
    served  <- serviceServed,
    outcome <- serviceOutcome

\* Every behaviour of the threads is one QueryService allows: in particular no
\* callback runs for a query that was withdrawn, or before the server has been
\* sent an id of the query's.
ImplementsQueryService == Service!ServiceSpec

\* An answer somebody read off a socket is delivered, unless its query leaves the
\* list in another way or is sent again meanwhile.
AnswerInHand(x) ==
    \E q \in Queries : \E i \in 1..Len(inbox[q]) : inbox[q][i].id = msgid[x]

AnswersAreDelivered ==
    \A x \in Queries :
        x \in listed /\ msgid[x] > 0 /\ AnswerInHand(x) ~>
            x \notin listed \/ pc[x] \in {"send", "wantkey", "prepare"}

\* A query that its own thread has answered ends: the thread stops reading the
\* socket, whatever else the message held.
AnsweredThreadEnds ==
    \A q \in Queries : (pc[q] = "stop" /\ target[q] = q) ~> pc[q] = "gone"

\* A query that was told to stop, by an answer another thread read or by a
\* cancelling call, ends unless it waits for its socket for ever.
StoppedThreadEndsOrWaits ==
    \A q \in Queries :
        ~loop[q] ~> [](pc[q] \in {"recv", "spin"}) \/ pc[q] = "gone"

\* libtg.h:51: "send TL query via queue manager in thread and run callback on
\* done": a query whose thread has ended, and that nobody cancelled, had its
\* callback run.
CallbackRunsOnDone ==
    \A q \in Queries : pc[q] = "gone" => callbacks[q] # <<>>

\* queue.c:756: "lock queue - (it may be locked by catche_tl)": the mutex of a
\* query keeps its object while catched_tl works on it.
LockedQueueIsAlive ==
    \A q \in Queries : m[q] # Nobody => pc[q] # "gone"

\* queue.c:796: "stop query": a query that was told to stop before the server
\* refuses the salt of its request is not sent again.
StoppedIsNotSentAgain ==
    [][\A q \in Queries : pc[q] = "recv" /\ pc'[q] = "send" => loop[q]]_vars
=============================================================================
