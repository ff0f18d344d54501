------------------------- MODULE SendQuery_proofs -------------------------
(***************************************************************************)
(* Theorems about the synchronous exchange, for any number of callers, any *)
(* number of descriptors and any messages.                                 *)
(***************************************************************************)
EXTENDS SendQuery, TLAPS

\* Nobody makes a key when there is one, and what keys there are.
KeyInv ==
    /\ \A c \in Callers : pc[c] = "wantkey" => key = 0
    /\ KeyIsMadeOnce

\* Requests have ids of their own.
AskedInv ==
    /\ \A c \in Callers : asked[c] <= lastId
    /\ \A c, d \in Callers : asked[c] = asked[d] /\ asked[c] > 0 => c = d

\* A call that has returned does nothing more, and a result answers its request.
ReturnInv ==
    \A c \in Callers :
        /\ returned[c].kind # "none" => pc[c] = "returned"
        /\ returned[c].kind = "answer" => returned[c].id = asked[c] /\ asked[c] > 0

IInv == TypeOK /\ SocketsAreNotShared /\ KeyInv /\ AskedInv /\ ReturnInv

-----------------------------------------------------------------------------
\* tg_send_query goes on with an item that answers no request, or its own.
LEMMA ReceivedItems ==
  ASSUME NEW c \in Callers, NEW item \in Received(c), asked \in [Callers -> Nat], lastId \in Nat
  PROVE  /\ item.id \in Nat
         /\ item.kind = "result" => item.id = asked[c] /\ asked[c] > 0
<1>1. PICK msg \in Messages : item \in Outcome(c, msg)
  BY DEF Received
<1>2. \A x \in Items : x.id \in Nat /\ (x.kind \in {"result", "notice"} => x.id > 0)
  BY DEF Items, Item
<1>3. \E n \in Nat : n > 0 /\ msg.items \in [1..n -> Items]
  <2>1. CASE \E x \in Items : msg = [container |-> FALSE, items |-> <<x>>]
    <3>1. PICK x \in Items : msg = [container |-> FALSE, items |-> <<x>>]
      BY <2>1
    <3>2. <<x>> \in [1..1 -> Items]
      OBVIOUS
    <3> QED
      BY <3>1, <3>2
  <2>2. CASE \E n \in 1..MaxItems : \E s \in [1..n -> Items] :
                msg = [container |-> TRUE, items |-> s]
    BY <2>2, SendQueryAssumption
  <2> QED
    BY <2>1, <2>2 DEF Messages
<1>4. PICK n \in Nat : n > 0 /\ msg.items \in [1..n -> Items]
  BY <1>3
<1>5. Len(msg.items) = n
  BY <1>4
<1>6. CASE Answering(c, msg) # {}
  <2>1. PICK i \in Answering(c, msg) : item = msg.items[i]
    BY <1>1, <1>6 DEF Outcome
  <2>2. item \in Items /\ item.kind \in {"result", "notice"} /\ item.id = asked[c]
    BY <2>1, <1>4, <1>5 DEF Answering
  <2> QED
    BY <2>2, <1>2
<1>7. CASE Answering(c, msg) = {} /\ (msg.container \/ msg.items[1].kind = "result")
  BY <1>1, <1>7 DEF Outcome, Item
<1>8. CASE Answering(c, msg) = {} /\ ~(msg.container \/ msg.items[1].kind = "result")
  <2>1. item = msg.items[1] /\ msg.items[1] \in Items
    BY <1>1, <1>4, <1>8 DEF Outcome
  <2> QED
    BY <2>1, <1>2, <1>8
<1> QED
  BY <1>6, <1>7, <1>8

-----------------------------------------------------------------------------
\* The inductive invariant holds at the start.
LEMMA InitIInv == Init => IInv
<1> SUFFICES ASSUME Init PROVE IInv
  OBVIOUS
<1>1. TypeOK
  BY SendQueryAssumption DEF Init, TypeOK, Inside, Fds, Nothing
<1>2. SocketsAreNotShared /\ KeyInv
  BY SendQueryAssumption DEF Init, SocketsAreNotShared, KeyInv, KeyIsMadeOnce
<1>3. AskedInv /\ ReturnInv
  BY DEF Init, AskedInv, ReturnInv, Nothing
<1> QED
  BY <1>1, <1>2, <1>3 DEF IInv

\* A call returns, with a value it may return.
LEMMA ReturnIInv ==
  ASSUME IInv, NEW c \in Callers, NEW value, Return(c, value), pc[c] \in Inside,
         value \in [kind : {"null", "other", "answer"}, id : Nat],
         value.kind = "answer" => value.id = asked[c] /\ asked[c] > 0,
         UNCHANGED <<owner, socket, fdset, key, asked, lastId>>
  PROVE  IInv'
<1>1. /\ pc' = [pc EXCEPT ![c] = "returned"]
      /\ returned' = [returned EXCEPT ![c] = value]
      /\ holder = c /\ holder' = Nobody
  BY DEF IInv, TypeOK, Return, Goto
<1>2. TypeOK'
  BY <1>1, SendQueryAssumption DEF IInv, TypeOK, Inside
<1>3. SocketsAreNotShared' /\ KeyInv'
  BY <1>1 DEF IInv, TypeOK, SocketsAreNotShared, KeyInv, KeyIsMadeOnce
<1>4. AskedInv'
  BY <1>1 DEF IInv, AskedInv
<1>5. ReturnInv'
  BY <1>1 DEF IInv, TypeOK, ReturnInv
<1> QED
  BY <1>2, <1>3, <1>4, <1>5 DEF IInv

\* Steps before the mutex.
LEMMA OutsideIInv ==
  ASSUME IInv, NEW c \in Callers, Open(c) \/ OpenFails(c) \/ Lock(c)
  PROVE  IInv'
<1> USE SendQueryAssumption
<1>1. CASE Open(c)
  <2>1. PICK f \in Fds : /\ owner[f] = Nobody
                         /\ owner' = [owner EXCEPT ![f] = c]
                         /\ socket' = [socket EXCEPT ![c] = f]
                         /\ fdset' = [fdset EXCEPT ![c] = {f}]
    BY <1>1 DEF Open, Allocate, FreeFds
  <2>2. /\ pc[c] = "open" /\ pc' = [pc EXCEPT ![c] = "lock"]
        /\ UNCHANGED <<holder, key, asked, lastId, returned>>
    BY <1>1 DEF Open, Goto
  <2>3. TypeOK'
    BY <2>1, <2>2 DEF IInv, TypeOK, Inside
  <2>4. SocketsAreNotShared'
    BY <2>1, <2>2 DEF IInv, TypeOK, SocketsAreNotShared
  <2>5. KeyInv' /\ AskedInv' /\ ReturnInv'
    BY <2>2 DEF IInv, TypeOK, KeyInv, KeyIsMadeOnce, AskedInv, ReturnInv
  <2> QED
    BY <2>3, <2>4, <2>5 DEF IInv
<1>2. CASE OpenFails(c)
  <2>1. \/ owner' = owner
        \/ \E f \in Fds : owner[f] = Nobody /\ owner' = [owner EXCEPT ![f] = c]
    BY <1>2 DEF OpenFails, Allocate, FreeFds
  <2>2. /\ pc[c] = "open" /\ pc' = [pc EXCEPT ![c] = "returned"]
        /\ returned' = [returned EXCEPT ![c] = [kind |-> "null", id |-> 0]]
        /\ UNCHANGED <<holder, socket, fdset, key, asked, lastId>>
    BY <1>2 DEF OpenFails, Goto, Null
  <2>3. TypeOK'
    BY <2>1, <2>2 DEF IInv, TypeOK, Inside
  <2>4. SocketsAreNotShared'
    <3>1. CASE owner' = owner
      BY <3>1, <2>2 DEF IInv, TypeOK, SocketsAreNotShared
    <3>2. CASE \E f \in Fds : owner[f] = Nobody /\ owner' = [owner EXCEPT ![f] = c]
      BY <3>2, <2>2 DEF IInv, TypeOK, SocketsAreNotShared
    <3> QED
      BY <3>1, <3>2, <2>1
  <2>5. KeyInv' /\ AskedInv'
    BY <2>2 DEF IInv, TypeOK, KeyInv, KeyIsMadeOnce, AskedInv
  <2>6. ReturnInv'
    BY <2>2 DEF IInv, TypeOK, ReturnInv
  <2> QED
    BY <2>3, <2>4, <2>5, <2>6 DEF IInv
<1>3. CASE Lock(c)
  <2>1. /\ pc[c] = "lock" /\ pc' = [pc EXCEPT ![c] = "send"]
        /\ holder = Nobody /\ holder' = c
        /\ UNCHANGED <<owner, socket, fdset, key, asked, lastId, returned>>
    BY <1>3 DEF Lock, Goto
  <2>2. TypeOK'
    BY <2>1 DEF IInv, TypeOK, Inside
  <2>3. SocketsAreNotShared' /\ KeyInv'
    BY <2>1 DEF IInv, TypeOK, SocketsAreNotShared, KeyInv, KeyIsMadeOnce
  <2>4. AskedInv' /\ ReturnInv'
    BY <2>1 DEF IInv, TypeOK, AskedInv, ReturnInv
  <2> QED
    BY <2>2, <2>3, <2>4 DEF IInv
<1> QED
  BY <1>1, <1>2, <1>3

\* Steps of tg_send.
LEMMA SendIInv ==
  ASSUME IInv, NEW c \in Callers,
         CheckKey(c) \/ CreateKey(c) \/ Send(c) \/ SendFails(c)
  PROVE  IInv'
<1> USE SendQueryAssumption
<1>1. CASE CheckKey(c)
  <2>1. /\ pc[c] = "send" /\ holder = c
        /\ UNCHANGED <<holder, socket, fdset, key, asked, lastId, returned>>
        /\ \/ /\ key = 0
              /\ owner' = [owner EXCEPT ![socket[c]] = Nobody]
              /\ pc' = [pc EXCEPT ![c] = "wantkey"]
           \/ /\ owner' = owner
              /\ pc' = [pc EXCEPT ![c] = "prepare"]
    BY <1>1 DEF CheckKey, Goto, IInv, TypeOK, Inside
  <2>2. TypeOK'
    BY <2>1 DEF IInv, TypeOK, Inside
  <2>3. SocketsAreNotShared'
    <3>1. CASE owner' = owner /\ pc' = [pc EXCEPT ![c] = "prepare"]
      BY <3>1, <2>1 DEF IInv, TypeOK, SocketsAreNotShared
    <3>2. CASE /\ owner' = [owner EXCEPT ![socket[c]] = Nobody]
               /\ pc' = [pc EXCEPT ![c] = "wantkey"]
      BY <3>2, <2>1 DEF IInv, TypeOK, SocketsAreNotShared
    <3> QED
      BY <3>1, <3>2, <2>1
  <2>4. KeyInv'
    BY <2>1 DEF IInv, TypeOK, KeyInv, KeyIsMadeOnce
  <2>5. AskedInv' /\ ReturnInv'
    BY <2>1 DEF IInv, TypeOK, AskedInv, ReturnInv
  <2> QED
    BY <2>2, <2>3, <2>4, <2>5 DEF IInv
<1>2. CASE CreateKey(c)
  <2>1. PICK f \in Fds : /\ owner[f] = Nobody
                         /\ owner' = [owner EXCEPT ![f] = c]
                         /\ socket' = [socket EXCEPT ![c] = f]
    BY <1>2 DEF CreateKey, Allocate, FreeFds
  <2>2. /\ pc[c] = "wantkey" /\ pc' = [pc EXCEPT ![c] = "prepare"]
        /\ key = 0 /\ key' = 1 /\ holder = c
        /\ UNCHANGED <<holder, fdset, asked, lastId, returned>>
    BY <1>2 DEF CreateKey, Goto, IInv, TypeOK, KeyInv, Inside
  <2>3. TypeOK'
    BY <2>1, <2>2 DEF IInv, TypeOK, Inside
  <2>4. SocketsAreNotShared'
    BY <2>1, <2>2 DEF IInv, TypeOK, SocketsAreNotShared
  <2>5. \A d \in Callers : pc'[d] # "wantkey"
    BY <2>2 DEF IInv, TypeOK, Inside
  <2>6. KeyInv'
    BY <2>2, <2>5 DEF KeyInv, KeyIsMadeOnce
  <2>7. AskedInv' /\ ReturnInv'
    BY <2>2 DEF IInv, TypeOK, AskedInv, ReturnInv
  <2> QED
    BY <2>3, <2>4, <2>6, <2>7 DEF IInv
<1>3. CASE Send(c)
  <2>1. /\ pc[c] = "prepare" /\ pc' = [pc EXCEPT ![c] = "recv"]
        /\ lastId' = lastId + 1
        /\ asked' = [asked EXCEPT ![c] = lastId + 1]
        /\ UNCHANGED <<holder, owner, socket, fdset, key, returned>>
    BY <1>3 DEF Send, Goto
  <2>2. TypeOK'
    BY <2>1 DEF IInv, TypeOK, Inside
  <2>3. SocketsAreNotShared' /\ KeyInv'
    BY <2>1 DEF IInv, TypeOK, SocketsAreNotShared, KeyInv, KeyIsMadeOnce
  <2>4. AskedInv'
    BY <2>1 DEF IInv, TypeOK, AskedInv
  <2>5. ReturnInv'
    BY <2>1 DEF IInv, TypeOK, ReturnInv
  <2> QED
    BY <2>2, <2>3, <2>4, <2>5 DEF IInv
<1>4. CASE SendFails(c)
  BY <1>4, ReturnIInv DEF SendFails, Null, Inside
<1> QED
  BY <1>1, <1>2, <1>3, <1>4

\* Steps of tg_receive and after.
LEMMA ReceiveIInv ==
  ASSUME IInv, NEW c \in Callers,
         \/ CheckSet(c) \/ ReportClosed(c) \/ ReceiveFails(c)
         \/ ReceiveBadSalt(c) \/ ReceiveAgain(c) \/ ReceiveObject(c)
  PROVE  IInv'
<1> USE SendQueryAssumption
<1>1. CASE CheckSet(c) \/ ReceiveAgain(c)
  <2>1. /\ pc[c] \in {"recv", "read"}
        /\ \/ pc' = [pc EXCEPT ![c] = "recv"]
           \/ pc' = [pc EXCEPT ![c] = "read"]
           \/ pc' = [pc EXCEPT ![c] = "closed"]
        /\ UNCHANGED <<holder, owner, socket, fdset, key, asked, lastId, returned>>
    BY <1>1 DEF CheckSet, ReceiveAgain, Goto
  <2>2. TypeOK'
    BY <2>1 DEF IInv, TypeOK, Inside
  <2>3. SocketsAreNotShared'
    BY <2>1 DEF IInv, TypeOK, SocketsAreNotShared
  <2>4. KeyInv' /\ AskedInv'
    BY <2>1 DEF IInv, TypeOK, KeyInv, KeyIsMadeOnce, AskedInv
  <2>5. ReturnInv'
    BY <2>1 DEF IInv, TypeOK, ReturnInv
  <2> QED
    BY <2>2, <2>3, <2>4, <2>5 DEF IInv
<1>2. CASE ReportClosed(c) \/ ReceiveFails(c)
  BY <1>2, ReturnIInv DEF ReportClosed, ReceiveFails, Null, Inside
<1>3. CASE ReceiveBadSalt(c)
  <2>1. /\ pc[c] = "read" /\ pc' = [pc EXCEPT ![c] = "open"]
        /\ holder = c /\ holder' = Nobody
        /\ owner' = [owner EXCEPT ![socket[c]] = Nobody]
        /\ UNCHANGED <<socket, fdset, key, asked, lastId, returned>>
    BY <1>3 DEF ReceiveBadSalt, Goto, IInv, TypeOK, Inside
  <2>2. TypeOK'
    BY <2>1 DEF IInv, TypeOK, Inside
  <2>3. SocketsAreNotShared'
    BY <2>1 DEF IInv, TypeOK, SocketsAreNotShared
  <2>4. KeyInv' /\ AskedInv'
    BY <2>1 DEF IInv, TypeOK, KeyInv, KeyIsMadeOnce, AskedInv
  <2>5. ReturnInv'
    BY <2>1 DEF IInv, TypeOK, ReturnInv
  <2> QED
    BY <2>2, <2>3, <2>4, <2>5 DEF IInv
<1>4. CASE ReceiveObject(c)
  <2>1. PICK item \in Received(c) :
           Return(c, IF item.body = "null" THEN Null
                     ELSE IF item.kind = "result" THEN Answer(item.id)
                     ELSE Other)
    BY <1>4 DEF ReceiveObject
  <2>2. /\ item.id \in Nat
        /\ item.kind = "result" => item.id = asked[c] /\ asked[c] > 0
    BY ReceivedItems DEF IInv, TypeOK
  <2>3. PICK value : /\ Return(c, value)
                     /\ value \in [kind : {"null", "other", "answer"}, id : Nat]
                     /\ value.kind = "answer" => value.id = asked[c] /\ asked[c] > 0
    BY <2>1, <2>2 DEF Null, Answer, Other
  <2>4. pc[c] \in Inside /\ UNCHANGED <<owner, socket, fdset, key, asked, lastId>>
    BY <1>4 DEF ReceiveObject, Inside
  <2> QED
    BY <2>3, <2>4, ReturnIInv
<1> QED
  BY <1>1, <1>2, <1>3, <1>4

\* Every step keeps the inductive invariant.
LEMMA NextIInv == IInv /\ [Next]_vars => IInv'
<1> SUFFICES ASSUME IInv, [Next]_vars PROVE IInv'
  OBVIOUS
<1>1. CASE Next
  <2>1. PICK c \in Callers : Run(c) \/ Lock(c) \/ Environment(c)
    BY <1>1 DEF Next
  <2> QED
    BY <2>1, OutsideIInv, SendIInv, ReceiveIInv DEF Run, Environment
<1>2. CASE UNCHANGED vars
  BY <1>2 DEF vars, IInv, TypeOK, SocketsAreNotShared, KeyInv, KeyIsMadeOnce, AskedInv,
              ReturnInv
<1> QED
  BY <1>1, <1>2

-----------------------------------------------------------------------------
\* IInv holds in every state tg_send_query can reach.
THEOREM Invariance == Spec => []IInv
<1> QED
  BY InitIInv, NextIInv, PTL DEF Spec

\* The variables have their types, and only the holder of send_query is inside.
THEOREM TypeCorrect == Spec => []TypeOK
<1>1. IInv => TypeOK
  BY DEF IInv
<1> QED
  BY <1>1, Invariance, PTL

\* A caller sends and receives on its own socket, whatever others open and close
\* while it has none between two.
THEOREM SocketsAreOwn == Spec => []SocketsAreNotShared
<1>1. IInv => SocketsAreNotShared
  BY DEF IInv
<1> QED
  BY <1>1, Invariance, PTL

\* However many callers find no key, one is made: the test is under the mutex.
THEOREM OneKey == Spec => []KeyIsMadeOnce
<1>1. IInv => KeyIsMadeOnce
  BY DEF IInv, KeyInv
<1> QED
  BY <1>1, Invariance, PTL

\* A result that tg_send_query returns belongs to the last request of the call.
THEOREM ResultsBelong == Spec => []ResultsAreOwn
<1>1. IInv => ResultsAreOwn
  BY DEF IInv, TypeOK, AskedInv, ReturnInv, ResultsAreOwn
<1> QED
  BY <1>1, Invariance, PTL
=============================================================================
