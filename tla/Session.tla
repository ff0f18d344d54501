------------------------------ MODULE Session ------------------------------
(***************************************************************************)
(* The MTProto session of libtg (tg/header.c, tg/ack.c, and the parts of   *)
(* tg/queue.c that make a key and a session id): how the threads that send *)
(* queries wrap them in messages.                                          *)
(*                                                                         *)
(* What has arrived and is not acknowledged yet waits in tg->msgids.  The  *)
(* next query takes all of it along: it travels in a container with a      *)
(* msgs_ack and, only then, with a rpc_drop_answer for every answer that   *)
(* is no longer wanted (tg->todrop).  Message ids are read from the clock  *)
(* and sequence numbers from tg->seqn, in two steps that other threads may *)
(* come between.                                                           *)
(*                                                                         *)
(* Arrivals and unwanted answers are numbered, in the order in which they  *)
(* come; keys and session ids are numbered in the order they are made.     *)
(* The clock is taken not to be set back, but two readings of it, of one   *)
(* thread or of two, may be equal: it is a double, read without a mutex.   *)
(***************************************************************************)
EXTENDS Integers, Sequences, FiniteSets

CONSTANTS
    Senders,     \* the threads that send queries
    Nobody,      \* stands for no thread
    KeyAtStart,  \* number of authorization keys made before the first query
    FirstSeqn,   \* tg->seqn after a handshake: shared_rc.seqnh + 1
    MaxSends,    \* bound: packets that are built
    MaxArrivals, \* bound: messages to acknowledge
    MaxDrops,    \* bound: answers that are not wanted
    MaxSessions, \* bound: tg_new_session is called below this session number
    MaxClock     \* bound: how far the clock goes

ASSUME SessionAssumption ==
    /\ Nobody \notin Senders
    /\ {KeyAtStart, FirstSeqn, MaxSends, MaxArrivals, MaxDrops, MaxSessions,
         MaxClock} \subseteq Nat

VARIABLES
    pc,       \* the next step of each thread
    draft,    \* the packet each thread is building
    msgid,    \* queue->msgid of each thread: the id its answer will name
    clock,    \* the time message ids are read from, never 0
    seqn,     \* tg->seqn
    setback,  \* history: a handshake has made tg->seqn smaller
    key,      \* the number of tg->key, 0 while it is empty
    ssid,     \* the number of tg->ssid, 0 while it is empty
    msgids,   \* tg->msgids: arrivals that wait for their acknowledgement
    todrop,   \* tg->todrop: unwanted answers, in order
    todropm,  \* the thread that holds tg->todropm
    arrived,  \* how many messages to acknowledge have arrived
    unwanted, \* how many answers were given up
    wire,     \* the packets the server was sent
    lost      \* the packets whose send() failed

vars == <<pc, draft, msgid, clock, seqn, setback, key, ssid, msgids, todrop, todropm,
          arrived, unwanted, wire, lost>>

\* A message has an id, a sequence number and a body; refs are the arrivals a
\* msgs_ack acknowledges, or the answer a rpc_drop_answer is about.
Part(body, refs) == [body |-> body, refs |-> refs]
Query     == Part("query", {})
Container == Part("container", {})

\* Content-related messages are those the receiver must acknowledge.
Content(part) == part.body \in {"query", "drop"}

NoDraft == [todo |-> <<>>, messages |-> <<>>, id |-> 0, ssid |-> 0, key |-> 0]

Init ==
    /\ pc       = [t \in Senders |-> "idle"]
    /\ draft    = [t \in Senders |-> NoDraft]
    /\ msgid    = [t \in Senders |-> 0]
    /\ clock    = 1
    /\ seqn     = 0
    /\ setback  = FALSE
    /\ key      = KeyAtStart
    /\ ssid     = 0
    /\ msgids   = {}
    /\ todrop   = <<>>
    /\ todropm  = Nobody
    /\ arrived  = 0
    /\ unwanted = 0
    /\ wire     = {}
    /\ lost     = {}

Goto(t, label) == pc' = [pc EXCEPT ![t] = label]

\* What the steps of a sending thread leave alone but for the draft and msgids.
sharedVars == <<setback, key, ssid, todrop, todropm, arrived, unwanted, wire, lost>>

\* How many packets were built or begun.
Begun == Cardinality(wire) + Cardinality(lost)
         + Cardinality({t \in Senders : pc[t] # "idle"})

\* tg->queuem is held from one step to another only while a key is made.
QueuemIsFree == \A t \in Senders : pc[t] # "reset"

-----------------------------------------------------------------------------
(***************************************************************************)
(* tg_send: a key and a session id are made when there is none             *)
(***************************************************************************)

\* tg_send begins by testing tg->key.size, without a mutex.
CheckKey(t) ==
    /\ pc[t] = "idle"
    /\ Begun < MaxSends
    /\ Goto(t, IF key = 0 THEN "wantkey" ELSE "session")
    /\ UNCHANGED <<draft, msgid, clock, seqn, msgids, sharedVars>>

\* The handshake, under queuem: the test is not repeated.  The key is written
\* first and is seen by the others before the counter is.
CreateKey(t) ==
    /\ pc[t] = "wantkey"
    /\ QueuemIsFree
    /\ key' = key + 1
    /\ Goto(t, "reset")
    /\ UNCHANGED <<draft, msgid, clock, seqn, setback, ssid, msgids, todrop, todropm,
                   arrived, unwanted, wire, lost>>

\* The counter of sequence numbers starts again: queuem is still held, but those
\* who stamp take seqnm only.  It may be past this number already.
ResetSeqn(t) ==
    /\ pc[t] = "reset"
    /\ seqn' = FirstSeqn
    /\ setback' = (setback \/ FirstSeqn < seqn)
    /\ Goto(t, "session")
    /\ UNCHANGED <<draft, msgid, clock, key, ssid, msgids, todrop, todropm, arrived,
                   unwanted, wire, lost>>

\* The same for the session id.
CheckSession(t) ==
    /\ pc[t] = "session"
    /\ Goto(t, IF ssid = 0 THEN "wantsession" ELSE "acks")
    /\ UNCHANGED <<draft, msgid, clock, seqn, msgids, sharedVars>>

CreateSession(t) ==
    /\ pc[t] = "wantsession"
    /\ QueuemIsFree
    /\ ssid' = ssid + 1
    /\ Goto(t, "acks")
    /\ UNCHANGED <<draft, msgid, clock, seqn, setback, key, msgids, todrop, todropm,
                   arrived, unwanted, wire, lost>>

-----------------------------------------------------------------------------
(***************************************************************************)
(* tg_header and tg_mtp_message: the packet is built                       *)
(***************************************************************************)

\* Mutant of TakeAcks: the pending acknowledgements stay pending.
TakeAcksKeeps(t) ==
    /\ pc[t] = "acks"
    /\ msgid' = [msgid EXCEPT ![t] = 0]
    /\ draft' = [draft EXCEPT ![t].todo =
                    IF msgids = {} THEN <<>> ELSE <<Query, Part("acks", msgids)>>]
    /\ Goto(t, IF msgids = {} THEN "head" ELSE "id")
    /\ UNCHANGED <<clock, seqn, msgids, sharedVars>>

\* tg_ack, under msgidsm: with something to acknowledge the query goes into a
\* container.
TakeAcks(t) ==
    /\ pc[t] = "acks"
    /\ msgid' = [msgid EXCEPT ![t] = 0]
    /\ msgids' = {}
    /\ draft' = [draft EXCEPT ![t].todo =
                    IF msgids = {} THEN <<>> ELSE <<Query, Part("acks", msgids)>>]
    /\ Goto(t, IF msgids = {} THEN "head" ELSE "id")
    /\ UNCHANGED <<clock, seqn, sharedVars>>

\* A message id is read from the clock, for the next part of the packet: it may be
\* the id of the last message stamped, here or by another thread.  A query that is
\* not in a container is known by this id from here on.
StampId(t) ==
    /\ pc[t] = "id"
    /\ clock' \in {clock, clock + 1}
    /\ clock' <= MaxClock \/ clock' = clock
    /\ draft' = [draft EXCEPT ![t].id = clock']
    /\ msgid' = [msgid EXCEPT ![t] =
                    IF draft[t].todo = <<Query>> THEN clock' ELSE @]
    /\ Goto(t, "seqno")
    /\ UNCHANGED <<seqn, msgids, sharedVars>>

\* Mutant of Stamped: the counter is moved before it is read.
StampedAfter(part, id, n) ==
    [id |-> id, seqno |-> IF Content(part) THEN 2 * (n + 1) + 1 ELSE 2 * n,
     body |-> part.body, refs |-> part.refs]

\* The message that a part becomes.
Stamped(part, id, n) ==
    [id |-> id, seqno |-> IF Content(part) THEN 2 * n + 1 ELSE 2 * n,
     body |-> part.body, refs |-> part.refs]

\* Mutant of AfterPart: the query is taken for the last part of its packet.
AfterQueryAlone(part, rest) ==
    IF part.body = "query" THEN "encrypt"
    ELSE IF rest # <<>> THEN "id"
    ELSE IF part.body = "acks" THEN "drops"
    ELSE IF part.body = "drop" THEN "head"
    ELSE "encrypt"

\* Where a thread goes when it has stamped a part, with rest left to stamp.
AfterPart(part, rest) ==
    IF rest # <<>> THEN "id"
    ELSE IF part.body = "acks" THEN "drops"
    ELSE IF part.body = "drop" THEN "head"
    ELSE "encrypt"

\* Mutant of StampSeqno: every message takes the counter as it is.
StampSeqnoOnly(t) ==
    LET part == Head(draft[t].todo)
        rest == Tail(draft[t].todo) IN
    /\ pc[t] = "seqno"
    /\ draft' = [draft EXCEPT ![t].todo = rest,
                              ![t].messages = Append(@, Stamped(part, draft[t].id, seqn))]
    /\ todropm' = IF todropm = t /\ rest = <<>> THEN Nobody ELSE todropm
    /\ Goto(t, AfterPart(part, rest))
    /\ UNCHANGED <<msgid, clock, seqn, setback, key, ssid, msgids, todrop, arrived,
                   unwanted, wire, lost>>

\* Mutant of StampSeqno: todropm is kept after the last answer to drop.
StampSeqnoHolds(t) ==
    LET part == Head(draft[t].todo)
        rest == Tail(draft[t].todo) IN
    /\ pc[t] = "seqno"
    /\ draft' = [draft EXCEPT ![t].todo = rest,
                              ![t].messages = Append(@, Stamped(part, draft[t].id, seqn))]
    /\ seqn' = IF Content(part) THEN seqn + 1 ELSE seqn
    /\ Goto(t, AfterPart(part, rest))
    /\ UNCHANGED <<msgid, clock, setback, key, ssid, msgids, todrop, todropm, arrived,
                   unwanted, wire, lost>>

\* The sequence number, under seqnm: content-related messages move the counter.
\* With the last answer to drop, todropm is released as well.
StampSeqno(t) ==
    LET part == Head(draft[t].todo)
        rest == Tail(draft[t].todo) IN
    /\ pc[t] = "seqno"
    /\ draft' = [draft EXCEPT ![t].todo = rest,
                              ![t].messages = Append(@, Stamped(part, draft[t].id, seqn))]
    /\ seqn' = IF Content(part) THEN seqn + 1 ELSE seqn
    /\ todropm' = IF todropm = t /\ rest = <<>> THEN Nobody ELSE todropm
    /\ Goto(t, AfterPart(part, rest))
    /\ UNCHANGED <<msgid, clock, setback, key, ssid, msgids, todrop, arrived, unwanted,
                   wire, lost>>

\* Mutant of TakeDrops: the list is not emptied.
TakeDropsKeeps(t) ==
    /\ pc[t] = "drops"
    /\ todropm = Nobody
    /\ draft' = [draft EXCEPT ![t].todo =
                    [i \in 1..Len(todrop) |-> Part("drop", {todrop[i]})]]
    /\ todropm' = IF todrop = <<>> THEN Nobody ELSE t
    /\ Goto(t, IF todrop = <<>> THEN "head" ELSE "id")
    /\ UNCHANGED <<msgid, clock, seqn, setback, key, ssid, msgids, todrop, arrived,
                   unwanted, wire, lost>>

\* tg_to_drop, under todropm until every answer to drop has its message; the
\* list is emptied before the mutex is released, here at once.
TakeDrops(t) ==
    /\ pc[t] = "drops"
    /\ todropm = Nobody
    /\ draft' = [draft EXCEPT ![t].todo =
                    [i \in 1..Len(todrop) |-> Part("drop", {todrop[i]})]]
    /\ todrop' = <<>>
    /\ todropm' = IF todrop = <<>> THEN Nobody ELSE t
    /\ Goto(t, IF todrop = <<>> THEN "head" ELSE "id")
    /\ UNCHANGED <<msgid, clock, seqn, setback, key, ssid, msgids, arrived, unwanted,
                   wire, lost>>

\* Mutant of BeginHead: the id of the container is handed out.
HeadForgetsQuery(t) ==
    /\ pc[t] = "head"
    /\ draft' = [draft EXCEPT
                    ![t].ssid = ssid,
                    ![t].todo = IF draft[t].messages = <<>> THEN <<Query>> ELSE <<Container>>]
    /\ msgid' = [msgid EXCEPT ![t] = clock + 1]
    /\ Goto(t, "id")
    /\ UNCHANGED <<clock, seqn, msgids, sharedVars>>

\* The head of the packet: the session id goes in, and the answer to a query in a
\* container will name the id of the query's own message.
BeginHead(t) ==
    /\ pc[t] = "head"
    /\ draft' = [draft EXCEPT
                    ![t].ssid = ssid,
                    ![t].todo = IF draft[t].messages = <<>> THEN <<Query>> ELSE <<Container>>]
    /\ msgid' = [msgid EXCEPT ![t] =
                    IF draft[t].messages = <<>> THEN @ ELSE draft[t].messages[1].id]
    /\ Goto(t, "id")
    /\ UNCHANGED <<clock, seqn, msgids, sharedVars>>

\* tg_encrypt uses the key of the moment.
Encrypt(t) ==
    /\ pc[t] = "encrypt"
    /\ draft' = [draft EXCEPT ![t].key = key]
    /\ Goto(t, "send")
    /\ UNCHANGED <<msgid, clock, seqn, msgids, sharedVars>>

\* The packet a finished draft is: its last message is the outermost.
Packet(t) ==
    LET d == draft[t] IN
    [sender |-> t, msgid |-> msgid[t], ssid |-> d.ssid, key |-> d.key,
     messages |-> d.messages]

\* send(), which may fail: nothing the packet held is kept for another.
Send(t) ==
    /\ pc[t] = "send"
    /\ wire' = wire \union {Packet(t)}
    /\ draft' = [draft EXCEPT ![t] = NoDraft]
    /\ Goto(t, "idle")
    /\ UNCHANGED <<msgid, clock, seqn, setback, key, ssid, msgids, todrop, todropm,
                   arrived, unwanted, lost>>

SendFails(t) ==
    /\ pc[t] = "send"
    /\ lost' = lost \union {Packet(t)}
    /\ draft' = [draft EXCEPT ![t] = NoDraft]
    /\ Goto(t, "idle")
    /\ UNCHANGED <<msgid, clock, seqn, setback, key, ssid, msgids, todrop, todropm,
                   arrived, unwanted, wire>>

-----------------------------------------------------------------------------
(***************************************************************************)
(* What comes from outside                                                 *)
(***************************************************************************)

\* tg_add_msgid, for a message (tg_deheader) or for one inside a container
\* (handle_tl).
Arrive ==
    /\ arrived < MaxArrivals
    /\ arrived' = arrived + 1
    /\ msgids' = msgids \union {arrived'}
    /\ UNCHANGED <<pc, draft, msgid, clock, seqn, setback, key, ssid, todrop, todropm,
                   unwanted, wire, lost>>

\* tg_add_todrop: a progress callback gave an answer up.
GiveUp ==
    /\ unwanted < MaxDrops
    /\ todropm = Nobody
    /\ unwanted' = unwanted + 1
    /\ todrop' = Append(todrop, unwanted')
    /\ UNCHANGED <<pc, draft, msgid, clock, seqn, setback, key, ssid, msgids, todropm,
                   arrived, wire, lost>>

\* tg_new_session replaces the session id, or makes the first, under queuem.
NewSession ==
    /\ QueuemIsFree
    /\ ssid < MaxSessions
    /\ ssid' = ssid + 1
    /\ UNCHANGED <<pc, draft, msgid, clock, seqn, setback, key, msgids, todrop, todropm,
                   arrived, unwanted, wire, lost>>

Build(t) ==
    \/ CreateKey(t) \/ ResetSeqn(t) \/ CheckSession(t) \/ CreateSession(t)
    \/ TakeAcks(t) \/ StampId(t) \/ StampSeqno(t) \/ TakeDrops(t) \/ BeginHead(t)
    \/ Encrypt(t) \/ Send(t) \/ SendFails(t)

Next ==
    \/ \E t \in Senders : CheckKey(t) \/ Build(t)
    \/ Arrive \/ GiveUp \/ NewSession

Spec == Init /\ [][Next]_vars

\* A thread goes on with a packet it has begun, and gets the mutexes it wants.
Fairness == \A t \in Senders : SF_vars(Build(t))

FairSpec == Spec /\ Fairness
-----------------------------------------------------------------------------
(***************************************************************************)
(* Properties                                                              *)
(***************************************************************************)

Bodies   == {"query", "acks", "drop", "container"}
Parts    == [body : Bodies, refs : SUBSET Nat]
Messages == [id : Nat, seqno : Nat, body : Bodies, refs : SUBSET Nat]
Packets  == [sender : Senders, msgid : Nat, ssid : Nat, key : Nat, messages : Seq(Messages)]

\* Each variable has its type, and a thread that stamps a part has one to stamp.
TypeOK ==
    /\ pc \in [Senders -> {"idle", "wantkey", "reset", "session", "wantsession", "acks",
                           "id", "seqno", "drops", "head", "encrypt", "send"}]
    /\ draft \in [Senders -> [todo : Seq(Parts), messages : Seq(Messages),
                              id : Nat, ssid : Nat, key : Nat]]
    /\ \A t \in Senders : pc[t] \in {"id", "seqno"} <=> draft[t].todo # <<>>
    /\ msgid \in [Senders -> Nat]
    /\ {clock, seqn, key, ssid, arrived, unwanted} \subseteq Nat
    /\ setback \in BOOLEAN
    /\ msgids \in SUBSET (1..arrived)
    /\ todrop \in Seq(1..unwanted)
    /\ todropm \in Senders \union {Nobody}
    /\ wire \union lost \subseteq Packets

\* What a sequence of parts or messages says about arrivals, or about answers.
Carried(parts, body) ==
    UNION {parts[i].refs : i \in {j \in 1..Len(parts) : parts[j].body = body}}

Drafted(t, body) == Carried(draft[t].todo, body) \union Carried(draft[t].messages, body)

\* In how many packets, built or in the making, n appears.
Mentions(n, body) ==
    Cardinality({t \in Senders : n \in Drafted(t, body)})
    + Cardinality({p \in wire \union lost : n \in Carried(p.messages, body)})

\* Every arrival waits to be acknowledged or is acknowledged in one packet,
\* however the threads that send and the threads that receive interleave: tg_ack
\* copies and empties tg->msgids under one mutex.
EachAckIsTakenOnce ==
    \A n \in 1..arrived : Mentions(n, "acks") = IF n \in msgids THEN 0 ELSE 1

\* The same for the answers to drop, which leave with a packet that has something
\* to acknowledge, and only with such a packet.
EachDropIsTakenOnce ==
    \A n \in 1..unwanted :
        Mentions(n, "drop") = IF \E i \in 1..Len(todrop) : todrop[i] = n THEN 0 ELSE 1

\* The id a thread's answer is looked up by is that of the query's own message,
\* in a container or not.
AnswersNameTheQuery ==
    \A p \in wire : \E i \in 1..Len(p.messages) :
        p.messages[i].body = "query" /\ p.messages[i].id = p.msgid

\* A container has no earlier an id, and no smaller a sequence number, than what is
\* in it, whatever other threads stamp meanwhile.
ContainersCloseLast ==
    \A p \in wire \union lost :
        LET outer == p.messages[Len(p.messages)] IN
        \A i \in 1..(Len(p.messages) - 1) :
            /\ p.messages[i].id <= outer.id
            /\ ~setback => p.messages[i].seqno <= outer.seqno

\* The content-related messages sent under one key.
ContentOf(k) ==
    {x \in wire \X (1..(MaxDrops + 3)) :
        x[2] <= Len(x[1].messages) /\ x[1].key = k /\ Content(x[1].messages[x[2]])}

\* header.c:49: "(and after generating it, the local current_seqno counter must be
\* incremented by 1)": no sequence number of a content-related message is used
\* again under one key.
SeqnosAreUnique ==
    \A k \in KeyAtStart..key : \A x, y \in ContentOf(k) :
        x[1].messages[x[2]].seqno = y[1].messages[y[2]].seqno => x = y

\* So it is, whatever threads stamp at once and however many keys there were, unless
\* a handshake has set the counter back after others had stamped with it.
SeqnosAreUniqueUnlessSetBack == ~setback => SeqnosAreUnique

\* A packet that is begun is sent or fails: neither tg->todropm nor tg->seqnm,
\* which is taken while todropm is held, is waited for in vain.
PacketsAreFinished == \A t \in Senders : pc[t] = "session" ~> pc[t] = "idle"

\* header.c:87: "When receiving an MTProto message that is marked as
\* content-related [...] the receiving party must acknowledge it in some way":
\* what is neither waiting nor in a packet being built was acknowledged.
ArrivalsAreAcknowledged ==
    \A n \in 1..arrived :
        \/ n \in msgids
        \/ \E t \in Senders : n \in Drafted(t, "acks")
        \/ \E p \in wire : n \in Carried(p.messages, "acks")
=============================================================================
