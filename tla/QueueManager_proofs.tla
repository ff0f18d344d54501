------------------------ MODULE QueueManager_proofs ------------------------
(***************************************************************************)
(* Proofs about QueueManager, for any set of queries and of cancelling     *)
(* threads, any number of items in a message, any number of resends, and   *)
(* any clock: message ids may be given twice, by a clock that stands still *)
(* or is set back, and the invariant says what is lost then.               *)
(***************************************************************************)
EXTENDS QueueManager, TLAPS, SequenceTheorems

\* The invariant holds before any query is made.
LEMMA InitIInv == Init => IInv
<1> SUFFICES ASSUME Init PROVE IInv
  OBVIOUS
<1> USE QueueAssumption DEF Init, Threads
<1>1. TypeOK
  BY DEF TypeOK, LabelsOK, DataOK, Working, OwnerStates, WorkStates, CallStates
<1>2. ListInv /\ IdInv /\ InboxInv /\ CallbackInv
  BY DEF ListInv, IdInv, InboxInv, CallbackInv, Started, WorkStates
<1>3. LockInv /\ ClaimInv /\ AskInv /\ FreedInv
  BY DEF LockInv, ClaimInv, AskInv, FreedInv, Working, WorkStates
<1>4. AtMostOneCallback /\ AnswersReachTheAsker
  BY DEF AtMostOneCallback, AnswersReachTheAsker
<1> QED
  BY <1>1, <1>2, <1>3, <1>4 DEF IInv

\* What was given to two queries stays so.
LEMMA StaysShared ==
  ASSUME stamped \subseteq stamped', NEW id, Shared(id)
  PROVE  Shared(id)'
BY DEF Shared

\* An answer in the hands of a thread stays one that was asked for, whatever is
\* stamped and sent meanwhile.
LEMMA AskStays ==
  ASSUME AskInv, stamped \subseteq stamped', sent \subseteq sent',
         \A t \in Queries : pc'[t] \in {"lockm", "callback"} =>
            /\ pc[t] \in {"lockm", "callback"}
            /\ target'[t] = target[t]
            /\ inbox'[t] = inbox[t]
  PROVE  AskInv'
<1> SUFFICES ASSUME NEW t \in Queries, pc'[t] \in {"lockm", "callback"}
             PROVE  /\ AskedBy(target[t], Current(t).id)' \/ Shared(Current(t).id)'
                    /\ target'[t] = target[t]
                    /\ \E x \in stamped', s \in sent' : x.query = target[t] /\ x.id = s.id
  BY DEF AskInv, AskedBy
<1>1. /\ AskedBy(target[t], Current(t).id) \/ Shared(Current(t).id)
      /\ target'[t] = target[t]
      /\ \E x \in stamped, s \in sent : x.query = target[t] /\ x.id = s.id
  BY DEF AskInv
<1>2. Current(t)' = Current(t)
  BY DEF Current
<1>3. AskedBy(target[t], Current(t).id) => AskedBy(target[t], Current(t).id)'
  BY <1>1, <1>2 DEF AskedBy
<1>4. Shared(Current(t).id) => Shared(Current(t).id)'
  BY <1>2 DEF Shared
<1> QED
  BY <1>1, <1>3, <1>4

\* Nothing freed enters the list or a thread's hands.
LEMMA FreedStays ==
  ASSUME FreedInv, stamped \subseteq stamped',
         \A q \in listed' : pc'[q] = "gone" =>
            q \in listed /\ pc[q] = "gone" /\ msgid'[q] = msgid[q],
         \A t \in Threads : pc'[t] = "lockm" /\ pc'[target'[t]] = "gone" =>
            /\ pc[t] = "lockm"
            /\ target'[t] = target[t]
            /\ pc[target[t]] = "gone"
            /\ msgid'[target[t]] = msgid[target[t]]
  PROVE  FreedInv'
BY DEF FreedInv, Shared

\* The callbacks that have run keep what they were given.
LEMMA AnswersStay ==
  ASSUME AnswersReachTheAsker, stamped \subseteq stamped', sent \subseteq sent',
         callbacks' = callbacks
  PROVE  AnswersReachTheAsker'
BY DEF AnswersReachTheAsker, AskedBy, Shared

\* The thread of a query goes from one step of its own to another, whatever it
\* does to the list, the ids, the key and the message it handles.
LEMMA OwnStep ==
  ASSUME IInv, NEW q \in Queries, NEW label \in OwnerStates,
         pc[q] \in OwnerStates, Goto(q, label),
         label \in {"unborn", "open"} => pc[q] = "unborn",
         UNCHANGED <<queuem, m, target, callbacks>>,
         inbox' \in [Queries -> Seq(Items)],
         \A r \in Queries \ {q} : inbox'[r] = inbox[r],
         sent \subseteq sent',
         stamped \subseteq stamped'
  PROVE  LabelsOK' /\ LockInv' /\ ClaimInv' /\ AskInv'
<1>1. /\ pc \in [Threads -> OwnerStates \union WorkStates \union CallStates]
      /\ pc' = [pc EXCEPT ![q] = label]
      /\ q \in Threads
  BY DEF IInv, TypeOK, LabelsOK, Goto, Threads
<1>2. \A t \in Threads : Working(t)' <=> Working(t)
  BY <1>1 DEF Working, OwnerStates, WorkStates
<1>3. \A t \in Threads : Working(t) => t # q /\ pc'[t] = pc[t]
  BY <1>1 DEF Working, OwnerStates, WorkStates
<1>4. LabelsOK'
  <2>1. pc' \in [Threads -> OwnerStates \union WorkStates \union CallStates]
    BY <1>1
  <2>2. /\ \A r \in Queries : pc'[r] \notin CallStates
        /\ \A c \in Cancellers : pc'[c] \in CallStates \union (WorkStates \ {"callback"})
    BY <1>1, QueueAssumption DEF IInv, TypeOK, LabelsOK, OwnerStates, CallStates, Threads
  <2>3. /\ target' \in [Threads -> Queries \union {Nobody}]
        /\ \A t \in Threads : Working(t)' <=> target'[t] # Nobody
    BY <1>2 DEF IInv, TypeOK, LabelsOK
  <2>4. \A r \in Queries : Working(r)' => inbox'[r] # <<>>
    BY <1>2, <1>3 DEF IInv, TypeOK, LabelsOK, Threads
  <2> QED
    BY <2>1, <2>2, <2>3, <2>4 DEF LabelsOK
<1>5. LockInv'
  BY <1>1 DEF IInv, LockInv, OwnerStates
<1>6. ClaimInv'
  <2> SUFFICES ASSUME NEW t \in Threads, Working(t)'
               PROVE  /\ pc'[target[t]] \notin {"unborn", "open"}
                      /\ \A u \in Threads : target[u] = target[t] => u = t
                      /\ pc'[t] \in {"lockm", "callback"} /\ t \in Queries =>
                            callbacks[target[t]] = <<>>
    BY DEF ClaimInv
  <2>1. Working(t) /\ t # q /\ pc'[t] = pc[t]
    BY <1>2, <1>3
  <2>2. target[t] \in Threads
    BY <2>1 DEF IInv, TypeOK, LabelsOK, Threads
  <2>3. pc'[target[t]] = IF target[t] = q THEN label ELSE pc[target[t]]
    BY <1>1, <2>2
  <2> QED
    BY <2>1, <2>3 DEF IInv, ClaimInv
<1>7. AskInv'
  <2>1. \A t \in Queries : pc'[t] \in {"lockm", "callback"} =>
           pc[t] \in {"lockm", "callback"} /\ t # q
    BY <1>1 DEF Threads, OwnerStates
  <2> QED
    BY <2>1, AskStays DEF IInv
<1> QED
  BY <1>4, <1>5, <1>6, <1>7

\* Such a step frees nothing that is in the list or in another thread's hands.
LEMMA OwnStepFrees ==
  ASSUME IInv, NEW q \in Queries, NEW label \in OwnerStates,
         pc[q] \in OwnerStates, Goto(q, label),
         label = "gone" => pc[q] = "open" /\ listed' = listed,
         listed' \subseteq listed \union {q},
         UNCHANGED target,
         \A r \in Queries \ {q} : msgid'[r] = msgid[r],
         listed' \subseteq Queries,
         stamped \subseteq stamped'
  PROVE  FreedInv'
<1>1. /\ \A t \in Threads : pc'[t] = IF t = q THEN label ELSE pc[t]
      /\ \A r \in Queries : r \in Threads
      /\ label # "lockm"
  BY DEF IInv, TypeOK, LabelsOK, Goto, Threads, OwnerStates
<1>2. ASSUME NEW r \in listed', pc'[r] = "gone"
      PROVE  r \in listed /\ pc[r] = "gone" /\ msgid'[r] = msgid[r]
  BY <1>1, <1>2 DEF IInv, ListInv
<1>3. ASSUME NEW t \in Threads, pc'[t] = "lockm", pc'[target'[t]] = "gone"
      PROVE  /\ pc[t] = "lockm"
             /\ target'[t] = target[t]
             /\ pc[target[t]] = "gone"
             /\ msgid'[target[t]] = msgid[target[t]]
  <2>1. pc[t] = "lockm" /\ Working(t)
    BY <1>1, <1>3 DEF Working, WorkStates
  <2>2. target[t] \in Queries /\ pc[target[t]] # "open"
    BY <2>1 DEF IInv, TypeOK, LabelsOK, ClaimInv
  <2>3. target[t] # q
    BY <1>1, <1>3, <2>2
  <2> QED
    BY <1>1, <1>3, <2>1, <2>2, <2>3
<1> QED
  BY <1>2, <1>3, FreedStays DEF IInv

\* A step that only moves the thread of a query from one step of its own to
\* another, or drops an item of its message, keeps the invariant.
LEMMA QuietStep ==
  ASSUME IInv, NEW q \in Queries, NEW label \in OwnerStates,
         pc[q] \in OwnerStates, Goto(q, label),
         label \in {"unborn", "open"} => pc[q] = "unborn",
         label = "gone" => pc[q] = "open",
         label \in {"transmit", "loop", "recv", "handle", "spin", "exit"} => Started(q),
         inbox' = inbox \/ (inbox[q] # <<>> /\ NextItem(q)),
         loop' \in [Queries -> BOOLEAN],
         UNCHANGED <<listed, queuem, m, msgid, target, callbacks, clock, key,
                     usedKey, sent, stamped>>
  PROVE  IInv'
<1>1. /\ inbox' \in [Queries -> Seq(Items)]
      /\ \A r \in Queries \ {q} : inbox'[r] = inbox[r]
  <2>1. inbox \in [Queries -> Seq(Items)]
    BY DEF IInv, TypeOK, LabelsOK
  <2>2. CASE inbox' = inbox
    BY <2>1, <2>2
  <2>3. CASE inbox[q] # <<>> /\ NextItem(q)
    <3>1. Tail(inbox[q]) \in Seq(Items)
      BY <2>1, <2>3
    <3> QED
      BY <2>1, <2>3, <3>1 DEF NextItem
  <2> QED
    BY <2>2, <2>3
<1>2. LabelsOK' /\ LockInv' /\ ClaimInv' /\ AskInv' /\ FreedInv'
  BY <1>1, OwnStep, OwnStepFrees DEF IInv, TypeOK, DataOK
<1>3. DataOK' /\ AtMostOneCallback' /\ AnswersReachTheAsker'
  <2>1. DataOK'
    BY DEF IInv, TypeOK, DataOK
  <2>2. AtMostOneCallback' /\ AnswersReachTheAsker'
    BY AnswersStay DEF IInv, AtMostOneCallback
  <2> QED
    BY <2>1, <2>2
<1>4. /\ pc \in [Threads -> OwnerStates \union WorkStates \union CallStates]
      /\ pc' = [pc EXCEPT ![q] = label]
      /\ q \in Threads
  BY DEF IInv, TypeOK, LabelsOK, Goto, Threads
<1>5. ListInv' /\ CallbackInv'
  <2>1. \A r \in Queries : pc'[r] = IF r = q THEN label ELSE pc[r]
    BY <1>4 DEF Threads
  <2> QED
    BY <2>1 DEF IInv, ListInv, CallbackInv, TypeOK, DataOK
<1>6. IdInv'
  <2>1. \A r \in Queries : pc'[r] = IF r = q THEN label ELSE pc[r]
    BY <1>4 DEF Threads
  <2>2. \A r \in Queries : Started(r)' => Started(r)
    BY <2>1 DEF Started, OwnerStates, WorkStates
  <2>3. \A x \in stamped : x.query \in Queries
    BY DEF IInv, TypeOK, DataOK
  <2>4. \A x \in stamped : pc'[x.query] \notin {"unborn", "open"}
    BY <2>1, <2>3 DEF IInv, IdInv
  <2> QED
    BY <2>2, <2>4 DEF IInv, IdInv
<1>7. InboxInv'
  <2> SUFFICES ASSUME NEW r \in Queries, NEW i \in 1..Len(inbox'[r])
               PROVE  \/ inbox'[r][i].id = ServerId
                      \/ \E s \in sent : s.id = inbox'[r][i].id
    BY DEF InboxInv
  <2>1. inbox[r] \in Seq(Items)
    BY DEF IInv, TypeOK, LabelsOK
  <2>2. \E j \in 1..Len(inbox[r]) : inbox'[r][i] = inbox[r][j]
    <3>1. CASE inbox'[r] = inbox[r]
      BY <3>1
    <3>2. CASE inbox'[r] # inbox[r]
      <4>1. /\ r = q
            /\ inbox[r] # <<>>
            /\ inbox'[r] = Tail(inbox[r])
        BY <1>1, <3>2 DEF NextItem, IInv, TypeOK, LabelsOK
      <4>2. /\ inbox'[r][i] = inbox[r][i + 1]
            /\ i + 1 \in 1..Len(inbox[r])
        BY <2>1, <4>1
      <4> QED
        BY <4>2
    <3> QED
      BY <3>1, <3>2
  <2> QED
    BY <2>2 DEF IInv, InboxInv
<1> QED
  BY <1>2, <1>3, <1>5, <1>6, <1>7 DEF IInv, TypeOK

\* The actions that are steps of that kind.
LEMMA QuietActions ==
  ASSUME IInv, NEW q \in Queries,
         \/ New(q) \/ OpenFails(q) \/ CheckKey(q) \/ TransmitFails(q)
         \/ LoopTest(q) \/ ReceiveBadSalt(q) \/ ReceiveFails(q) \/ PeerCloses(q)
         \/ HandleDone(q) \/ HandleNotice(q) \/ CatchMiss(q)
  PROVE  IInv'
<1> USE DEF OwnerStates, WorkStates, Started
<1>0. loop' \in [Queries -> BOOLEAN]
  <2>1. loop \in [Queries -> BOOLEAN]
    BY DEF IInv, TypeOK, DataOK
  <2> QED
    BY <2>1 DEF New, OpenFails, CheckKey, TransmitFails, LoopTest, ReceiveBadSalt,
                ReceiveFails, PeerCloses, HandleDone, HandleNotice, CatchMiss
<1>1. CASE New(q) \/ OpenFails(q) \/ CheckKey(q) \/ TransmitFails(q)
  BY <1>0, <1>1, QuietStep DEF New, OpenFails, CheckKey, TransmitFails
<1>2. CASE LoopTest(q) \/ ReceiveBadSalt(q) \/ ReceiveFails(q) \/ HandleDone(q)
  BY <1>0, <1>2, QuietStep DEF LoopTest, ReceiveBadSalt, ReceiveFails, HandleDone
<1>3. CASE PeerCloses(q)
  <2>1. PICK label \in {"exit", "spin"} : Goto(q, label)
    BY <1>3 DEF PeerCloses
  <2> QED
    BY <1>0, <1>3, <2>1, QuietStep DEF PeerCloses
<1>4. CASE HandleNotice(q) \/ CatchMiss(q)
  <2>1. Goto(q, "handle")
    BY <1>4 DEF Goto, HandleNotice, CatchMiss, IInv, TypeOK, LabelsOK
  <2> QED
    BY <1>0, <1>4, <2>1, QuietStep DEF HandleNotice, CatchMiss
<1> QED
  BY <1>1, <1>2, <1>3, <1>4

-----------------------------------------------------------------------------
(***************************************************************************)
(* The steps of a query's thread that change the list, ids or messages     *)
(***************************************************************************)

\* A query enters the list once, before anybody can work on it.
LEMMA RegisterStep ==
  ASSUME IInv, NEW q \in Queries, Register(q)
  PROVE  IInv'
<1>1. LabelsOK' /\ LockInv' /\ ClaimInv' /\ AskInv' /\ FreedInv'
  BY OwnStep, OwnStepFrees DEF Register, OwnerStates, IInv, TypeOK, LabelsOK, DataOK
<1>2. \A r \in Queries : pc'[r] = IF r = q THEN "send" ELSE pc[r]
  BY DEF Register, Goto, IInv, TypeOK, LabelsOK, Threads
<1> USE DEF Register
<1>3. DataOK'
  BY DEF IInv, TypeOK, DataOK
<1>4. ListInv'
  <2>1. \A t \in Threads : target[t] # q
    BY QueueAssumption DEF IInv, TypeOK, LabelsOK, ClaimInv, Threads
  <2>2. callbacks[q] = <<>>
    BY DEF IInv, CallbackInv
  <2> QED
    BY <1>2, <2>1, <2>2 DEF IInv, ListInv, TypeOK, DataOK
<1>5. IdInv'
  BY <1>2 DEF IInv, IdInv, Started, WorkStates, TypeOK, DataOK
<1>6. InboxInv' /\ AtMostOneCallback' /\ AnswersReachTheAsker'
  BY AnswersStay DEF IInv, InboxInv, AtMostOneCallback
<1>7. CallbackInv'
  BY <1>2 DEF IInv, CallbackInv
<1> QED
  BY <1>1, <1>3, <1>4, <1>5, <1>6, <1>7 DEF IInv, TypeOK

\* A new key concerns no query.
LEMMA CreateKeyStep ==
  ASSUME IInv, NEW q \in Queries, CreateKey(q)
  PROVE  IInv'
<1>1. LabelsOK' /\ LockInv' /\ ClaimInv' /\ AskInv' /\ FreedInv'
  BY OwnStep, OwnStepFrees DEF CreateKey, OwnerStates, IInv, TypeOK, LabelsOK, DataOK
<1>2. \A r \in Queries : pc'[r] = IF r = q THEN "prepare" ELSE pc[r]
  BY DEF CreateKey, Goto, IInv, TypeOK, LabelsOK, Threads
<1> USE DEF CreateKey
<1>3. DataOK'
  <2>1. key \in Nat
    BY DEF IInv, TypeOK, DataOK
  <2>2. key' \in Nat
    BY <2>1
  <2> QED
    BY <2>2 DEF IInv, TypeOK, DataOK
<1>4. ListInv' /\ CallbackInv'
  BY <1>2 DEF IInv, ListInv, CallbackInv, TypeOK, DataOK
<1>5. IdInv'
  BY <1>2 DEF IInv, IdInv, Started, WorkStates, TypeOK, DataOK
<1>6. InboxInv' /\ AtMostOneCallback' /\ AnswersReachTheAsker'
  BY AnswersStay DEF IInv, InboxInv, AtMostOneCallback
<1> QED
  BY <1>1, <1>3, <1>4, <1>5, <1>6 DEF IInv, TypeOK

\* The new id is given to the query, whoever had it before.
LEMMA PrepareStep ==
  ASSUME IInv, NEW q \in Queries, Prepare(q)
  PROVE  IInv'
<1> DEFINE new == [id |-> clock', query |-> q]
<1>1. \A r \in Queries : pc'[r] = IF r = q THEN "transmit" ELSE pc[r]
  BY DEF Prepare, Goto, IInv, TypeOK, LabelsOK, Threads
<1>2. /\ clock' \in Nat
      /\ clock' > 0
      /\ msgid \in [Queries -> Nat]
      /\ msgid' = [msgid EXCEPT ![q] = clock']
      /\ stamped' = stamped \union {new}
  BY QueueAssumption DEF Prepare, IInv, TypeOK, DataOK
<1>3. stamped \subseteq stamped'
  BY <1>2
<1>4. LabelsOK' /\ LockInv' /\ ClaimInv' /\ AskInv'
  BY <1>3, OwnStep DEF Prepare, OwnerStates, IInv, TypeOK, LabelsOK
<1>5. FreedInv'
  BY <1>2, <1>3, OwnStepFrees DEF Prepare, OwnerStates, IInv, TypeOK, DataOK
<1>6. DataOK'
  <2>1. new \in [id : Nat, query : Queries]
    BY <1>2
  <2>2. /\ msgid' \in [Queries -> Nat]
        /\ stamped' \in SUBSET [id : Nat, query : Queries]
    BY <1>2, <2>1 DEF IInv, TypeOK, DataOK
  <2>3. usedKey' \in [Queries -> Nat]
    BY DEF Prepare, IInv, TypeOK, DataOK
  <2> QED
    BY <1>2, <2>2, <2>3 DEF Prepare, IInv, TypeOK, DataOK
<1>7. ListInv' /\ CallbackInv'
  BY <1>1 DEF Prepare, IInv, ListInv, CallbackInv, TypeOK, DataOK
<1>8. IdInv'
  <2>1. /\ \A r \in Queries : msgid'[r] = IF r = q THEN clock' ELSE msgid[r]
        /\ new \in stamped' /\ new.id = clock' /\ new.query = q
    BY <1>2
  <2>2. \A r \in Queries :
           msgid'[r] > 0 => \E x \in stamped' : x.id = msgid'[r] /\ x.query = r
    BY <1>3, <2>1 DEF IInv, IdInv
  <2>3. \A r \in Queries : Started(r)' => msgid'[r] > 0
    <3>1. \A r \in Queries : Started(r)' => r = q \/ Started(r)
      BY <1>1 DEF Started
    <3> QED
      BY <1>2, <2>1, <3>1 DEF IInv, IdInv
  <2>4. \A s \in sent' :
           s.id > 0 /\ \E x \in stamped' : x.id = s.id /\ x.query = s.query
    BY <1>3 DEF Prepare, IInv, IdInv
  <2>5. ASSUME NEW x \in stamped'
        PROVE  pc'[x.query] \notin {"unborn", "open"}
    <3>1. CASE x \in stamped
      <4>1. x.query \in Queries /\ pc[x.query] \notin {"unborn", "open"}
        BY <3>1 DEF IInv, IdInv, TypeOK, DataOK
      <4> QED
        BY <1>1, <4>1
    <3>2. CASE x = new
      BY <1>1, <2>1, <3>2
    <3> QED
      BY <1>2, <3>1, <3>2
  <2> QED
    BY <2>2, <2>3, <2>4, <2>5 DEF IdInv
<1>9. InboxInv' /\ AtMostOneCallback' /\ AnswersReachTheAsker'
  BY <1>3, AnswersStay DEF Prepare, IInv, InboxInv, AtMostOneCallback
<1> QED
  BY <1>4, <1>5, <1>6, <1>7, <1>8, <1>9 DEF IInv, TypeOK

\* The server learns an id that was given to the sender.
LEMMA TransmitStep ==
  ASSUME IInv, NEW q \in Queries, Transmit(q)
  PROVE  IInv'
<1>1. sent \subseteq sent'
  BY DEF Transmit
<1>2. LabelsOK' /\ LockInv' /\ ClaimInv' /\ AskInv' /\ FreedInv'
  BY <1>1, OwnStep, OwnStepFrees DEF Transmit, OwnerStates, IInv, TypeOK, LabelsOK, DataOK
<1>3. \A r \in Queries : pc'[r] = IF r = q THEN "loop" ELSE pc[r]
  BY DEF Transmit, Goto, IInv, TypeOK, LabelsOK, Threads
<1> USE DEF Transmit
<1>4. DataOK'
  <2>1. sent' \in SUBSET [id : Nat, query : Queries, key : Nat]
    BY DEF IInv, TypeOK, DataOK
  <2> QED
    BY <2>1 DEF IInv, TypeOK, DataOK
<1>5. ListInv' /\ CallbackInv'
  BY <1>3 DEF IInv, ListInv, CallbackInv, TypeOK, DataOK
<1>6. IdInv'
  <2>1. msgid[q] > 0 /\ \E x \in stamped : x.id = msgid[q] /\ x.query = q
    BY DEF IInv, IdInv, Started
  <2>2. \A r \in Queries : Started(r)' => Started(r)
    BY <1>3 DEF Started
  <2>3. \A s \in sent' : s \in sent \/ (s.id = msgid[q] /\ s.query = q)
    OBVIOUS
  <2>4. \A x \in stamped : pc'[x.query] \notin {"unborn", "open"}
    BY <1>3 DEF IInv, IdInv, TypeOK, DataOK
  <2> QED
    BY <2>1, <2>2, <2>3, <2>4 DEF IInv, IdInv
<1>7. InboxInv' /\ AtMostOneCallback' /\ AnswersReachTheAsker'
  BY <1>1, AnswersStay DEF IInv, InboxInv, AtMostOneCallback
<1> QED
  BY <1>2, <1>4, <1>5, <1>6, <1>7 DEF IInv, TypeOK

\* Every item of a message is about a request the server was sent, or about an
\* id of the server's own.
LEMMA ReceiveStep ==
  ASSUME IInv, NEW q \in Queries, Receive(q)
  PROVE  IInv'
<1> PICK n \in 1..MaxItems :
       \E items \in [1..n -> Arrivals(q)] : inbox' = [inbox EXCEPT ![q] = items]
  BY DEF Receive
<1>1. PICK items \in [1..n -> Arrivals(q)] : inbox' = [inbox EXCEPT ![q] = items]
  OBVIOUS
<1>2. \A a \in Arrivals(q) : /\ a \in Items
                             /\ \/ a.id = ServerId
                                \/ \E s \in sent : s.id = a.id
  BY DEF Arrivals, Items, ItemKinds, AnswerKinds, Notice, ServerId, IInv, TypeOK, DataOK
<1>3. /\ items \in Seq(Items)
      /\ Len(items) = n
  <2>1. n \in Nat
    BY QueueAssumption
  <2>2. items \in [1..n -> Items]
    BY <1>2
  <2> QED
    BY <2>1, <2>2
<1>4. /\ inbox \in [Queries -> Seq(Items)]
      /\ inbox' \in [Queries -> Seq(Items)]
      /\ \A r \in Queries : inbox'[r] = IF r = q THEN items ELSE inbox[r]
  BY <1>1, <1>3 DEF IInv, TypeOK, LabelsOK
<1>5. LabelsOK' /\ LockInv' /\ ClaimInv' /\ AskInv' /\ FreedInv'
  BY <1>4, OwnStep, OwnStepFrees DEF Receive, OwnerStates, IInv, TypeOK, DataOK
<1>6. \A r \in Queries : pc'[r] = IF r = q THEN "handle" ELSE pc[r]
  BY DEF Receive, Goto, IInv, TypeOK, LabelsOK, Threads
<1> USE DEF Receive
<1>7. DataOK'
  BY DEF IInv, TypeOK, DataOK
<1>8. ListInv' /\ CallbackInv'
  BY <1>6 DEF IInv, ListInv, CallbackInv, TypeOK, DataOK
<1>9. IdInv'
  BY <1>6 DEF IInv, IdInv, Started, WorkStates, TypeOK, DataOK
<1>10. InboxInv'
  BY <1>2, <1>3, <1>4 DEF IInv, InboxInv
<1>11. AtMostOneCallback' /\ AnswersReachTheAsker'
  BY AnswersStay DEF IInv, AtMostOneCallback
<1> QED
  BY <1>5, <1>7, <1>8, <1>9, <1>10, <1>11 DEF IInv, TypeOK

\* The end of a thread takes an entry with the query's id out of the list, if
\* there is one.  It is the query's own, unless another query was given its id.
LEMMA ExitCuts ==
  ASSUME IInv, NEW q \in Queries, Exit(q)
  PROVE  /\ listed' \subseteq listed
         /\ listed \ listed' \in SUBSET Queries
         /\ q \in listed' => Shared(msgid[q])
<1>1. listed \subseteq Queries
  BY DEF IInv, TypeOK, DataOK
<1>2. listed' \subseteq listed
  BY DEF Exit
<1>3. ASSUME q \in listed'
      PROVE  Shared(msgid[q])
  <2>1. q \in Matches(msgid[q])
    BY <1>2, <1>3 DEF Matches
  <2>2. PICK x \in Matches(msgid[q]) : listed' = listed \ {x}
    BY <2>1 DEF Exit
  <2>3. x # q /\ x \in Queries /\ msgid[x] = msgid[q]
    BY <1>1, <1>3, <2>2 DEF Matches
  <2>4. msgid[q] > 0
    BY DEF Exit, IInv, IdInv, Started
  <2>5. /\ \E y \in stamped : y.id = msgid[q] /\ y.query = q
        /\ \E z \in stamped : z.id = msgid[q] /\ z.query = x
    BY <2>3, <2>4 DEF IInv, IdInv
  <2> QED
    BY <2>3, <2>5 DEF Shared
<1> QED
  BY <1>1, <1>2, <1>3

\* A query whose id is its own is not in the list when its object is freed.
LEMMA ExitStep ==
  ASSUME IInv, NEW q \in Queries, Exit(q)
  PROVE  IInv'
<1>1. LabelsOK' /\ LockInv' /\ ClaimInv' /\ AskInv'
  BY OwnStep DEF Exit, OwnerStates, IInv, TypeOK, LabelsOK
<1>2. \A r \in Queries : pc'[r] = IF r = q THEN "gone" ELSE pc[r]
  BY DEF Exit, Goto, IInv, TypeOK, LabelsOK, Threads
<1>3. listed' \subseteq listed /\ (q \in listed' => Shared(msgid[q]))
  BY ExitCuts
<1>4. UNCHANGED <<queuem, m, loop, msgid, target, inbox, callbacks, clock, key,
                  usedKey, sent, stamped>>
  BY DEF Exit
<1>5. DataOK'
  BY <1>3, <1>4 DEF IInv, TypeOK, DataOK
<1>6. ListInv' /\ CallbackInv'
  BY <1>2, <1>3, <1>4 DEF IInv, ListInv, CallbackInv, TypeOK, DataOK
<1>7. IdInv'
  BY <1>2, <1>4 DEF IInv, IdInv, Started, WorkStates, TypeOK, DataOK
<1>8. FreedInv'
  <2>1. \A id : Shared(id)' <=> Shared(id)
    BY <1>4 DEF Shared
  <2>2. ASSUME NEW r \in listed', pc'[r] = "gone"
        PROVE  Shared(msgid[r])
    <3>1. r \in listed /\ r \in Queries
      BY <1>3 DEF IInv, TypeOK, DataOK
    <3> QED
      BY <1>2, <1>3, <2>2, <3>1 DEF IInv, FreedInv
  <2>3. \A t \in Threads : pc'[t] # "lockm"
    <3>1. \A t \in Threads : pc[t] # "lockm"
      BY QueueAssumption DEF Exit, IInv, LockInv
    <3> QED
      BY <3>1 DEF Exit, Goto, IInv, TypeOK, LabelsOK
  <2> QED
    BY <1>4, <2>1, <2>2, <2>3 DEF FreedInv
<1>9. InboxInv' /\ AtMostOneCallback' /\ AnswersReachTheAsker'
  BY <1>4, AnswersStay DEF IInv, InboxInv, AtMostOneCallback
<1> QED
  BY <1>1, <1>5, <1>6, <1>7, <1>8, <1>9 DEF IInv, TypeOK

-----------------------------------------------------------------------------
(***************************************************************************)
(* The steps of a thread that takes a query out of the list                *)
(***************************************************************************)

\* A thread takes a query out of the list: nobody else works on it, and from
\* now on nobody else can.
LEMMA CutStep ==
  ASSUME IInv, NEW t \in Threads, NEW x \in listed, queuem = Nobody, Cut(t, x),
         t \in Queries => /\ pc[t] = "handle"
                          /\ inbox[t] # <<>>
                          /\ AskedBy(x, Current(t).id) \/ Shared(Current(t).id)
                          /\ \E y \in stamped, s \in sent : y.query = x /\ y.id = s.id,
         t \in Cancellers => pc[t] = "idle",
         UNCHANGED <<m, loop, msgid, inbox, callbacks, clock, key, usedKey, sent, stamped>>
  PROVE  IInv'
<1>1. /\ \A u \in Threads : pc'[u] = IF u = t THEN "lockm" ELSE pc[u]
      /\ \A u \in Threads : target'[u] = IF u = t THEN x ELSE target[u]
      /\ queuem' = t
      /\ listed' = listed \ {x}
  BY DEF Cut, Goto, IInv, TypeOK, LabelsOK
<1>2. /\ x \in Queries
      /\ x # Nobody
      /\ t # Nobody
      /\ \A q \in Queries : q \in Threads
      /\ \A c \in Cancellers : c \in Threads /\ c \notin Queries
      /\ pc[t] \in {"handle", "idle"}
  BY QueueAssumption DEF IInv, TypeOK, DataOK, Threads
<1>3. ~Working(t) /\ Working(t)'
  BY <1>1, <1>2 DEF Working, WorkStates
<1>4. \A u \in Threads \ {t} : Working(u)' <=> Working(u)
  BY <1>1 DEF Working
<1>5. LabelsOK'
  <2>1. /\ pc' \in [Threads -> OwnerStates \union WorkStates \union CallStates]
        /\ target' \in [Threads -> Queries \union {Nobody}]
        /\ inbox' \in [Queries -> Seq(Items)]
    BY <1>2 DEF Cut, Goto, IInv, TypeOK, LabelsOK, WorkStates
  <2>2. /\ \A q \in Queries : pc'[q] \notin CallStates
        /\ \A c \in Cancellers : pc'[c] \in CallStates \union (WorkStates \ {"callback"})
    BY <1>1, <1>2 DEF IInv, TypeOK, LabelsOK, CallStates, WorkStates
  <2>3. \A u \in Threads : Working(u)' <=> target'[u] # Nobody
    BY <1>1, <1>2, <1>3, <1>4 DEF IInv, TypeOK, LabelsOK
  <2>4. \A q \in Queries : Working(q)' => inbox'[q] # <<>>
    BY <1>2, <1>4 DEF IInv, TypeOK, LabelsOK
  <2> QED
    BY <2>1, <2>2, <2>3, <2>4 DEF LabelsOK
<1>6. DataOK'
  BY <1>1 DEF IInv, TypeOK, DataOK
<1>7. ListInv'
  BY <1>1, <1>2 DEF IInv, ListInv, TypeOK, DataOK
<1>8. LockInv'
  <2>1. \A u \in Threads : queuem' = u <=> pc'[u] = "lockm"
    BY <1>1, <1>2, QueueAssumption DEF IInv, LockInv
  <2>2. ASSUME NEW u \in Threads, NEW q \in Queries
        PROVE  m'[q] = u <=> target'[u] = q /\ pc'[u] \in {"callback", "stop", "unlock"}
    BY <1>1, <1>2 DEF IInv, LockInv
  <2> QED
    BY <2>1, <2>2 DEF LockInv
<1>9. ClaimInv'
  <2> SUFFICES ASSUME NEW u \in Threads, Working(u)'
               PROVE  /\ pc'[target'[u]] \notin {"unborn", "open"}
                      /\ \A w \in Threads : target'[w] = target'[u] => w = u
                      /\ pc'[u] \in {"lockm", "callback"} /\ u \in Queries =>
                            callbacks[target'[u]] = <<>>
    BY DEF ClaimInv
  <2>1. CASE u = t
    BY <1>1, <1>2, <2>1 DEF IInv, ListInv
  <2>2. CASE u # t
    <3>1. Working(u) /\ target[u] \in Queries
      BY <1>4, <2>2 DEF IInv, TypeOK, LabelsOK
    <3>2. target[u] # x
      BY DEF IInv, ListInv
    <3> QED
      BY <1>1, <1>2, <2>2, <3>1, <3>2 DEF IInv, ClaimInv
  <2> QED
    BY <2>1, <2>2
<1>10. IdInv'
  BY <1>1, <1>2 DEF IInv, IdInv, Started, WorkStates, TypeOK, DataOK
<1>11. InboxInv' /\ CallbackInv'
  BY <1>1, <1>2 DEF IInv, InboxInv, CallbackInv
<1>12. AtMostOneCallback' /\ AnswersReachTheAsker'
  BY AnswersStay DEF IInv, AtMostOneCallback
<1>13. AskInv'
  <2>1. ASSUME NEW u \in Queries, u # t, pc'[u] \in {"lockm", "callback"}
        PROVE  /\ AskedBy(target[u], Current(u).id) \/ Shared(Current(u).id)
               /\ \E y \in stamped, s \in sent : y.query = target[u] /\ y.id = s.id
               /\ target'[u] = target[u]
    BY <1>1, <1>2, <2>1 DEF IInv, AskInv
  <2>2. \A u \in Queries : Current(u)' = Current(u)
    BY DEF Current
  <2>4. ASSUME NEW u \in Queries, pc'[u] \in {"lockm", "callback"}
        PROVE  /\ AskedBy(target'[u], Current(u).id) \/ Shared(Current(u).id)
               /\ \E y \in stamped, s \in sent : y.query = target'[u] /\ y.id = s.id
    <3>1. CASE u = t
      <4>1. target'[u] = x
        BY <1>1, <3>1
      <4> QED
        BY <3>1, <4>1
    <3>2. CASE u # t
      BY <2>1, <2>4, <3>2
    <3> QED
      BY <3>1, <3>2
  <2>5. ASSUME NEW u \in Queries, pc'[u] \in {"lockm", "callback"}
        PROVE  AskedBy(target[u], Current(u).id)' \/ Shared(Current(u).id)'
    BY <2>2, <2>4, <2>5 DEF AskedBy, Shared
  <2> QED
    BY <2>4, <2>5 DEF AskInv
<1>14. FreedInv'
  <2>1. \A id : Shared(id)' <=> Shared(id)
    BY DEF Shared
  <2>2. \A r \in Queries : pc'[r] = "gone" => pc[r] = "gone"
    BY <1>1, <1>2
  <2>3. \A r \in listed' : pc'[r] = "gone" => Shared(msgid[r])
    BY <1>1, <2>2 DEF IInv, FreedInv, TypeOK, DataOK
  <2>4. \A u \in Threads : u # t => pc'[u] # "lockm"
    BY <1>1, <1>2, QueueAssumption DEF IInv, LockInv
  <2>5. pc'[x] = "gone" => Shared(msgid[x])
    BY <1>2, <2>2 DEF IInv, FreedInv
  <2>6. \A u \in Threads :
           pc'[u] = "lockm" /\ pc'[target'[u]] = "gone" => Shared(msgid[target'[u]])
    BY <1>1, <2>4, <2>5
  <2> QED
    BY <2>1, <2>3, <2>6 DEF FreedInv
<1> QED
  BY <1>5, <1>6, <1>7, <1>8, <1>9, <1>10, <1>11, <1>12, <1>13, <1>14 DEF IInv, TypeOK

\* The query an answer is found for is the one that sent the request, unless the
\* clock gave both the same id.
LEMMA CatchFindsAsker ==
  ASSUME IInv, NEW q \in Queries, Catch(q), NEW x \in Matches(Current(q).id)
  PROVE  /\ AskedBy(x, Current(q).id) \/ Shared(Current(q).id)
         /\ \E y \in stamped, s \in sent : y.query = x /\ y.id = s.id
<1>1. x \in Queries /\ msgid[x] = Current(q).id /\ msgid[x] \in Nat
  BY DEF Matches, IInv, TypeOK, DataOK
<1>2. inbox[q] \in Seq(Items) /\ inbox[q] # <<>>
  BY DEF Catch, IInv, TypeOK, LabelsOK
<1>3. 1 \in 1..Len(inbox[q]) /\ Current(q) = inbox[q][1]
  BY <1>2 DEF Current
<1>4. Current(q).id # ServerId
  BY <1>1 DEF ServerId
<1>5. PICK s \in sent : s.id = Current(q).id
  BY <1>3, <1>4 DEF IInv, InboxInv
<1>6. PICK y \in stamped : y.id = s.id /\ y.query = s.query
  BY DEF IInv, IdInv
<1>7. PICK z \in stamped : z.id = msgid[x] /\ z.query = x
  <2>1. msgid[x] > 0
    BY <1>1, <1>5 DEF IInv, IdInv
  <2> QED
    BY <1>1, <2>1 DEF IInv, IdInv
<1>8. s.query = x \/ Shared(Current(q).id)
  BY <1>1, <1>5, <1>6, <1>7 DEF Shared
<1> QED
  BY <1>1, <1>5, <1>7, <1>8 DEF AskedBy

\* An answer takes the query it is for out of the list.
LEMMA CatchStep ==
  ASSUME IInv, NEW q \in Queries, Catch(q)
  PROVE  IInv'
<1>1. PICK x \in Matches(Current(q).id) : Cut(q, x)
  BY DEF Catch
<1>2. x \in listed
  BY DEF Matches
<1>3. /\ AskedBy(x, Current(q).id) \/ Shared(Current(q).id)
      /\ \E y \in stamped, s \in sent : y.query = x /\ y.id = s.id
  BY CatchFindsAsker
<1> QED
  BY <1>1, <1>2, <1>3, CutStep, QueueAssumption DEF Catch, Threads

\* A cancelling call takes a query out of the list as an answer does.
LEMMA CancelQueueStep ==
  ASSUME IInv, NEW c \in Cancellers, CancelQueue(c)
  PROVE  IInv'
<1>1. PICK x \in listed : Cut(c, x)
  BY DEF CancelQueue
<1> QED
  BY <1>1, CutStep, QueueAssumption DEF CancelQueue, Threads

\* queue->m of the query is free, and no other thread waits for queuem's release
\* with a query in hand.
LEMMA LockQueueStep ==
  ASSUME IInv, NEW t \in Threads, LockQueue(t)
  PROVE  IInv'
<1> DEFINE x     == target[t]
           label == IF t \in Queries THEN "callback" ELSE "stop"
<1>1. /\ x \in Queries
      /\ t # Nobody
      /\ queuem = t
      /\ pc[t] = "lockm"
      /\ \A q \in Queries : q \in Threads
      /\ \A c \in Cancellers : c \in Threads /\ c \notin Queries
      /\ \A u \in Threads : u # Nobody
  BY QueueAssumption DEF LockQueue, IInv, TypeOK, LabelsOK, LockInv, Threads, Working, WorkStates
<1>2. /\ \A u \in Threads : pc'[u] = IF u = t THEN label ELSE pc[u]
      /\ \A q \in Queries : m'[q] = IF q = x THEN t ELSE m[q]
      /\ m[x] = Nobody
      /\ queuem' = Nobody
      /\ UNCHANGED <<listed, loop, msgid, target, inbox, callbacks, clock, key,
                     usedKey, sent, stamped>>
  BY <1>1 DEF LockQueue, Goto, IInv, TypeOK, LabelsOK, DataOK
<1>3. label \in {"callback", "stop"}
  OBVIOUS
<1>4. \A u \in Threads : Working(u)' <=> Working(u)
  BY <1>1, <1>2, <1>3 DEF Working, WorkStates
<1>5. LabelsOK'
  <2>1. pc' \in [Threads -> OwnerStates \union WorkStates \union CallStates]
    BY <1>3 DEF LockQueue, Goto, IInv, TypeOK, LabelsOK, WorkStates
  <2>2. /\ \A q \in Queries : pc'[q] \notin CallStates
        /\ \A c \in Cancellers : pc'[c] \in CallStates \union (WorkStates \ {"callback"})
    BY <1>1, <1>2 DEF IInv, TypeOK, LabelsOK, CallStates, WorkStates
  <2>3. /\ \A u \in Threads : Working(u)' <=> target'[u] # Nobody
        /\ \A q \in Queries : Working(q)' => inbox'[q] # <<>>
    BY <1>1, <1>2, <1>4 DEF IInv, TypeOK, LabelsOK
  <2> QED
    BY <1>2, <2>1, <2>2, <2>3 DEF IInv, TypeOK, LabelsOK
<1>6. DataOK'
  <2>1. m' \in [Queries -> Threads \union {Nobody}]
    BY DEF LockQueue, IInv, TypeOK, DataOK
  <2> QED
    BY <1>2, <2>1 DEF IInv, TypeOK, DataOK
<1>7. ListInv'
  BY <1>1, <1>2, <1>3 DEF IInv, ListInv, TypeOK, DataOK
<1>8. LockInv'
  <2>1. \A u \in Threads : queuem' = u <=> pc'[u] = "lockm"
    BY <1>1, <1>2, <1>3 DEF IInv, LockInv
  <2>2. ASSUME NEW u \in Threads, NEW q \in Queries
        PROVE  m'[q] = u <=> target'[u] = q /\ pc'[u] \in {"callback", "stop", "unlock"}
    <3>1. CASE q = x
      <4>1. target[u] = x => Working(u)
        BY <1>1, QueueAssumption DEF IInv, TypeOK, LabelsOK, Threads
      <4>2. target[u] = x => u = t
        BY <1>1, <4>1 DEF IInv, ClaimInv, Working, WorkStates
      <4> QED
        BY <1>1, <1>2, <1>3, <3>1, <4>2
    <3>2. CASE q # x
      BY <1>1, <1>2, <3>2 DEF IInv, LockInv
    <3> QED
      BY <3>1, <3>2
  <2> QED
    BY <2>1, <2>2 DEF LockInv
<1>9. ClaimInv'
  <2> SUFFICES ASSUME NEW u \in Threads, Working(u)'
               PROVE  /\ pc'[target[u]] \notin {"unborn", "open"}
                      /\ \A w \in Threads : target[w] = target[u] => w = u
                      /\ pc'[u] \in {"lockm", "callback"} /\ u \in Queries =>
                            callbacks[target[u]] = <<>>
    BY <1>2 DEF ClaimInv
  <2>1. Working(u) /\ target[u] \in Queries
    BY <1>4 DEF IInv, TypeOK, LabelsOK
  <2>2. pc[u] \in {"lockm", "callback"} \/ u = t \/ pc'[u] \notin {"lockm", "callback"}
    BY <1>2
  <2> QED
    BY <1>1, <1>2, <1>3, <2>1, <2>2 DEF IInv, ClaimInv
<1>10. IdInv'
  BY <1>1, <1>2, <1>3 DEF IInv, IdInv, Started, WorkStates, TypeOK, DataOK
<1>11. InboxInv' /\ CallbackInv'
  BY <1>1, <1>2, <1>3 DEF IInv, InboxInv, CallbackInv
<1>12. AtMostOneCallback' /\ AnswersReachTheAsker'
  BY <1>2, AnswersStay DEF IInv, AtMostOneCallback
<1>13. AskInv'
  <2>1. \A u \in Queries : pc'[u] \in {"lockm", "callback"} =>
           /\ pc[u] \in {"lockm", "callback"}
           /\ target'[u] = target[u]
           /\ inbox'[u] = inbox[u]
    BY <1>1, <1>2, <1>3
  <2> QED
    BY <1>1, <1>2, <1>3, <2>1, AskStays DEF IInv
<1>14. FreedInv'
  <2>1. \A r \in Queries : pc'[r] = "gone" => pc[r] = "gone"
    BY <1>1, <1>2, <1>3
  <2>2. \A u \in Threads : pc'[u] = "lockm" =>
           /\ pc[u] = "lockm"
           /\ target'[u] = target[u]
           /\ target[u] \in Queries
    BY <1>1, <1>2, <1>3 DEF IInv, TypeOK, LabelsOK, Working, WorkStates
  <2>3. \A r \in listed' : r \in listed /\ r \in Queries
    BY <1>1, <1>2, <1>3 DEF IInv, TypeOK, DataOK
  <2> QED
    BY <1>1, <1>2, <1>3, <2>1, <2>2, <2>3, FreedStays DEF IInv
<1> QED
  BY <1>5, <1>6, <1>7, <1>8, <1>9, <1>10, <1>11, <1>12, <1>13, <1>14 DEF IInv, TypeOK

\* The callback of a query that was claimed for it has not run before, and what
\* it is given answers a request of that query.
LEMMA RunCallbackStep ==
  ASSUME IInv, NEW q \in Queries, RunCallback(q)
  PROVE  IInv'
<1> DEFINE x     == target[q]
           label == IF Current(q).kind = "undecoded" THEN "unlock" ELSE "stop"
<1>1. /\ x \in Queries
      /\ pc[q] = "callback"
      /\ \A r \in Queries : r \in Threads
      /\ \A c \in Cancellers : c \in Threads /\ c \notin Queries
      /\ label \in {"stop", "unlock"}
  BY QueueAssumption DEF RunCallback, IInv, TypeOK, LabelsOK, Threads, Working, WorkStates
<1>2. /\ \A u \in Threads : pc'[u] = IF u = q THEN label ELSE pc[u]
      /\ UNCHANGED <<listed, queuem, m, loop, msgid, target, inbox, clock, key,
                     usedKey, sent, stamped>>
  BY <1>1 DEF RunCallback, Goto, IInv, TypeOK, LabelsOK, DataOK
<1>3. PICK value \in Values :
         callbacks' = [callbacks EXCEPT ![x] =
                          Append(@, [id |-> Current(q).id, value |-> value])]
  BY DEF RunCallback
<1>4. /\ callbacks[x] = <<>>
      /\ AskedBy(x, Current(q).id) \/ Shared(Current(q).id)
  BY <1>1 DEF IInv, ClaimInv, AskInv, Working, WorkStates
<1>5. /\ Len(callbacks'[x]) = 1
      /\ callbacks'[x][1].id = Current(q).id
      /\ \A r \in Queries \ {x} : callbacks'[r] = callbacks[r]
      /\ callbacks' \in [Queries -> Seq([id : Int, value : Values])]
  <2>1. callbacks \in [Queries -> Seq([id : Int, value : Values])]
    BY DEF IInv, TypeOK, DataOK
  <2>2. Current(q).id \in Int
    <3>1. inbox[q] \in Seq(Items) /\ inbox[q] # <<>>
      BY <1>1 DEF IInv, TypeOK, LabelsOK, Working, WorkStates
    <3>2. Head(inbox[q]) \in Items
      BY <3>1
    <3> QED
      BY <3>2 DEF Current, Items
  <2> DEFINE call == [id |-> Current(q).id, value |-> value]
  <2>3. call \in [id : Int, value : Values] /\ call.id = Current(q).id
    BY <2>2
  <2>4. callbacks'[x] = Append(<<>>, call)
    BY <1>1, <1>3, <1>4, <2>1
  <2> HIDE DEF call
  <2>5. /\ callbacks'[x] \in Seq([id : Int, value : Values])
        /\ Len(callbacks'[x]) = 1
        /\ callbacks'[x][1] = call
    BY <2>3, <2>4
  <2>6. /\ DOMAIN callbacks' = Queries
        /\ callbacks' = [callbacks' EXCEPT ![x] = callbacks'[x]]
        /\ \A r \in Queries \ {x} : callbacks'[r] = callbacks[r]
    BY <1>1, <1>3, <2>1
  <2> QED
    BY <1>1, <1>3, <2>1, <2>3, <2>5, <2>6
<1>6. \A u \in Threads : Working(u)' <=> Working(u)
  BY <1>1, <1>2 DEF Working, WorkStates
<1>7. LabelsOK'
  <2>1. pc' \in [Threads -> OwnerStates \union WorkStates \union CallStates]
    BY DEF RunCallback, Goto, IInv, TypeOK, LabelsOK, WorkStates
  <2>2. /\ \A r \in Queries : pc'[r] \notin CallStates
        /\ \A c \in Cancellers : pc'[c] \in CallStates \union (WorkStates \ {"callback"})
    BY <1>1, <1>2 DEF IInv, TypeOK, LabelsOK, CallStates, WorkStates
  <2>3. /\ \A u \in Threads : Working(u)' <=> target'[u] # Nobody
        /\ \A r \in Queries : Working(r)' => inbox'[r] # <<>>
    BY <1>1, <1>2, <1>6 DEF IInv, TypeOK, LabelsOK
  <2> QED
    BY <1>2, <2>1, <2>2, <2>3 DEF IInv, TypeOK, LabelsOK
<1>8. DataOK'
  BY <1>2, <1>5 DEF IInv, TypeOK, DataOK
<1>9. ListInv' /\ CallbackInv'
  <2>1. x \notin listed
    BY <1>1 DEF IInv, ListInv
  <2>2. pc[x] \notin {"unborn", "open"}
    BY <1>1 DEF IInv, ClaimInv, Working, WorkStates
  <2> QED
    BY <1>1, <1>2, <1>5, <2>1, <2>2 DEF IInv, ListInv, CallbackInv, TypeOK, DataOK
<1>10. LockInv'
  BY <1>1, <1>2 DEF IInv, LockInv
<1>11. ClaimInv'
  <2> SUFFICES ASSUME NEW u \in Threads, Working(u)'
               PROVE  /\ pc'[target[u]] \notin {"unborn", "open"}
                      /\ \A w \in Threads : target[w] = target[u] => w = u
                      /\ pc'[u] \in {"lockm", "callback"} /\ u \in Queries =>
                            callbacks'[target[u]] = <<>>
    BY <1>2 DEF ClaimInv
  <2>1. Working(u) /\ target[u] \in Queries
    BY <1>6 DEF IInv, TypeOK, LabelsOK
  <2>2. u # q => target[u] # x
    BY <2>1, <1>1 DEF IInv, ClaimInv
  <2> QED
    BY <1>1, <1>2, <1>5, <2>1, <2>2 DEF IInv, ClaimInv
<1>12. IdInv'
  BY <1>1, <1>2 DEF IInv, IdInv, Started, WorkStates, TypeOK, DataOK
<1>13. InboxInv'
  BY <1>2 DEF IInv, InboxInv
<1>14. AtMostOneCallback' /\ AnswersReachTheAsker'
  <2>1. ASSUME NEW r \in Queries
        PROVE  Len(callbacks'[r]) <= 1
    <3>1. CASE r = x
      <4>1. Len(callbacks'[x]) = 1
        BY <1>5
      <4> HIDE DEF x
      <4> QED
        BY <3>1, <4>1
    <3>2. CASE r # x
      BY <1>5, <3>2 DEF IInv, AtMostOneCallback
    <3> QED
      BY <3>1, <3>2
  <2>2. ASSUME NEW r \in Queries, NEW i \in 1..Len(callbacks'[r])
        PROVE  AskedBy(r, callbacks'[r][i].id) \/ Shared(callbacks'[r][i].id)
    <3>1. CASE r = x
      <4>1. i = 1
        <5>1. Len(callbacks'[x]) = 1
          BY <1>5
        <5> HIDE DEF x
        <5>2. i \in 1..1
          BY <3>1, <5>1
        <5> QED
          BY <5>2
      <4>2. callbacks'[x][1].id = Current(q).id
        BY <1>5
      <4> HIDE DEF x
      <4> QED
        BY <1>4, <3>1, <4>1, <4>2
    <3>2. CASE r # x
      BY <1>5, <3>2 DEF IInv, AnswersReachTheAsker
    <3> QED
      BY <3>1, <3>2
  <2>3. \A r, id : (AskedBy(r, id)' <=> AskedBy(r, id)) /\ (Shared(id)' <=> Shared(id))
    BY <1>2 DEF AskedBy, Shared
  <2>4. AnswersReachTheAsker'
    BY <2>2, <2>3 DEF AnswersReachTheAsker
  <2> QED
    BY <2>1, <2>4 DEF AtMostOneCallback
<1>15. AskInv'
  <2>1. \A u \in Queries : pc'[u] \in {"lockm", "callback"} =>
           /\ pc[u] \in {"lockm", "callback"}
           /\ target'[u] = target[u]
           /\ inbox'[u] = inbox[u]
    BY <1>1, <1>2
  <2> QED
    BY <1>1, <1>2, <2>1, AskStays DEF IInv
<1>16. FreedInv'
  <2>1. \A r \in Queries : pc'[r] = "gone" => pc[r] = "gone"
    BY <1>1, <1>2
  <2>2. \A u \in Threads : pc'[u] = "lockm" =>
           /\ pc[u] = "lockm"
           /\ target'[u] = target[u]
           /\ target[u] \in Queries
    BY <1>1, <1>2 DEF IInv, TypeOK, LabelsOK, Working, WorkStates
  <2>3. \A r \in listed' : r \in listed /\ r \in Queries
    BY <1>1, <1>2 DEF IInv, TypeOK, DataOK
  <2> QED
    BY <1>1, <1>2, <2>1, <2>2, <2>3, FreedStays DEF IInv
<1> QED
  BY <1>7, <1>8, <1>9, <1>10, <1>11, <1>12, <1>13, <1>14, <1>15, <1>16 DEF IInv, TypeOK

\* Nothing the invariant speaks of depends on the loop flags.
LEMMA StopLoopStep ==
  ASSUME IInv, NEW t \in Threads, StopLoop(t)
  PROVE  IInv'
<1>1. /\ pc[t] = "stop"
      /\ \A r \in Queries : r \in Threads
      /\ \A c \in Cancellers : c \in Threads /\ c \notin Queries
  BY QueueAssumption DEF StopLoop, Threads
<1>2. /\ \A u \in Threads : pc'[u] = IF u = t THEN "unlock" ELSE pc[u]
      /\ UNCHANGED <<listed, queuem, m, msgid, target, inbox, callbacks, clock,
                     key, usedKey, sent, stamped>>
  BY <1>1 DEF StopLoop, Goto, IInv, TypeOK, LabelsOK
<1>3. \A u \in Threads : Working(u)' <=> Working(u)
  BY <1>1, <1>2 DEF Working, WorkStates
<1>4. LabelsOK'
  <2>1. pc' \in [Threads -> OwnerStates \union WorkStates \union CallStates]
    BY DEF StopLoop, Goto, IInv, TypeOK, LabelsOK, WorkStates
  <2>2. /\ \A r \in Queries : pc'[r] \notin CallStates
        /\ \A c \in Cancellers : pc'[c] \in CallStates \union (WorkStates \ {"callback"})
    BY <1>1, <1>2 DEF IInv, TypeOK, LabelsOK, CallStates, WorkStates
  <2>3. /\ \A u \in Threads : Working(u)' <=> target'[u] # Nobody
        /\ \A r \in Queries : Working(r)' => inbox'[r] # <<>>
    BY <1>1, <1>2, <1>3 DEF IInv, TypeOK, LabelsOK
  <2> QED
    BY <1>2, <2>1, <2>2, <2>3 DEF IInv, TypeOK, LabelsOK
<1>5. DataOK'
  <2>1. loop' \in [Queries -> BOOLEAN]
    BY DEF StopLoop, IInv, TypeOK, DataOK
  <2> QED
    BY <1>2, <2>1 DEF IInv, TypeOK, DataOK
<1>6. ListInv' /\ CallbackInv'
  BY <1>1, <1>2 DEF IInv, ListInv, CallbackInv, TypeOK, DataOK
<1>7. LockInv'
  BY <1>1, <1>2 DEF IInv, LockInv
<1>8. ClaimInv'
  <2> SUFFICES ASSUME NEW u \in Threads, Working(u)'
               PROVE  /\ pc'[target[u]] \notin {"unborn", "open"}
                      /\ \A w \in Threads : target[w] = target[u] => w = u
                      /\ pc'[u] \in {"lockm", "callback"} /\ u \in Queries =>
                            callbacks[target[u]] = <<>>
    BY <1>2 DEF ClaimInv
  <2>1. Working(u) /\ target[u] \in Queries
    BY <1>3 DEF IInv, TypeOK, LabelsOK
  <2> QED
    BY <1>1, <1>2, <2>1 DEF IInv, ClaimInv
<1>9. IdInv'
  BY <1>1, <1>2 DEF IInv, IdInv, Started, WorkStates, TypeOK, DataOK
<1>10. InboxInv' /\ AtMostOneCallback' /\ AnswersReachTheAsker'
  BY <1>2, AnswersStay DEF IInv, InboxInv, AtMostOneCallback
<1>11. AskInv'
  <2>1. \A u \in Queries : pc'[u] \in {"lockm", "callback"} =>
           /\ pc[u] \in {"lockm", "callback"}
           /\ target'[u] = target[u]
           /\ inbox'[u] = inbox[u]
    BY <1>1, <1>2
  <2> QED
    BY <1>1, <1>2, <2>1, AskStays DEF IInv
<1>12. FreedInv'
  <2>1. \A r \in Queries : pc'[r] = "gone" => pc[r] = "gone"
    BY <1>1, <1>2
  <2>2. \A u \in Threads : pc'[u] = "lockm" =>
           /\ pc[u] = "lockm"
           /\ target'[u] = target[u]
           /\ target[u] \in Queries
    BY <1>1, <1>2 DEF IInv, TypeOK, LabelsOK, Working, WorkStates
  <2>3. \A r \in listed' : r \in listed /\ r \in Queries
    BY <1>1, <1>2 DEF IInv, TypeOK, DataOK
  <2> QED
    BY <1>1, <1>2, <2>1, <2>2, <2>3, FreedStays DEF IInv
<1> QED
  BY <1>4, <1>5, <1>6, <1>7, <1>8, <1>9, <1>10, <1>11, <1>12 DEF IInv, TypeOK

\* The thread goes on without the query, whose claim ends with its mutex.
LEMMA UnlockQueueStep ==
  ASSUME IInv, NEW t \in Threads, UnlockQueue(t)
  PROVE  IInv'
<1> DEFINE x     == target[t]
           label == IF t \in Queries THEN "handle" ELSE "returned"
<1>1. /\ x \in Queries
      /\ pc[t] = "unlock"
      /\ \A r \in Queries : r \in Threads
      /\ \A c \in Cancellers : c \in Threads /\ c \notin Queries
      /\ label \in {"handle", "returned"}
      /\ \A u \in Threads : u # Nobody
      /\ Nobody \notin Queries
  BY QueueAssumption DEF UnlockQueue, IInv, TypeOK, LabelsOK, Threads, Working, WorkStates
<1>2. /\ \A u \in Threads : pc'[u] = IF u = t THEN label ELSE pc[u]
      /\ \A u \in Threads : target'[u] = IF u = t THEN Nobody ELSE target[u]
      /\ \A q \in Queries : m'[q] = IF q = x THEN Nobody ELSE m[q]
      /\ \A q \in Queries : inbox'[q] = IF q = t THEN Tail(inbox[q]) ELSE inbox[q]
      /\ UNCHANGED <<listed, queuem, loop, msgid, callbacks, clock, key,
                     usedKey, sent, stamped>>
  BY <1>1 DEF UnlockQueue, Goto, IInv, TypeOK, LabelsOK, DataOK
<1>3. \A u \in Threads : Working(u)' <=> u # t /\ Working(u)
  BY <1>1, <1>2 DEF Working, WorkStates
<1>4. LabelsOK'
  <2>1. /\ pc' \in [Threads -> OwnerStates \union WorkStates \union CallStates]
        /\ target' \in [Threads -> Queries \union {Nobody}]
    BY <1>1 DEF UnlockQueue, Goto, IInv, TypeOK, LabelsOK, OwnerStates, CallStates
  <2>2. /\ \A r \in Queries : pc'[r] \notin CallStates
        /\ \A c \in Cancellers : pc'[c] \in CallStates \union (WorkStates \ {"callback"})
    BY <1>1, <1>2 DEF IInv, TypeOK, LabelsOK, CallStates, WorkStates
  <2>3. \A u \in Threads : Working(u)' <=> target'[u] # Nobody
    BY <1>1, <1>2, <1>3 DEF IInv, TypeOK, LabelsOK
  <2>4. \A r \in Queries : Working(r)' => inbox'[r] # <<>>
    BY <1>1, <1>2, <1>3 DEF IInv, TypeOK, LabelsOK
  <2>5. inbox' \in [Queries -> Seq(Items)]
    <3>1. ASSUME NEW q \in Queries
          PROVE  IF q = t THEN Tail(inbox[q]) \in Seq(Items) ELSE inbox[q] \in Seq(Items)
      <4>1. inbox[q] \in Seq(Items) /\ (q = t => inbox[q] # <<>>)
        BY <1>1 DEF IInv, TypeOK, LabelsOK, Working, WorkStates
      <4> QED
        BY <4>1
    <3> QED
      BY <3>1 DEF UnlockQueue
  <2> QED
    BY <2>1, <2>2, <2>3, <2>4, <2>5 DEF LabelsOK
<1>5. DataOK'
  <2>1. m' \in [Queries -> Threads \union {Nobody}]
    BY DEF UnlockQueue, IInv, TypeOK, DataOK
  <2> QED
    BY <1>2, <2>1 DEF IInv, TypeOK, DataOK
<1>6. ListInv' /\ CallbackInv'
  <2>1. \A q \in listed : q \in Queries
    BY DEF IInv, TypeOK, DataOK
  <2> QED
    BY <1>1, <1>2, <2>1 DEF IInv, ListInv, CallbackInv
<1>7. LockInv'
  <2>1. \A u \in Threads : queuem' = u <=> pc'[u] = "lockm"
    BY <1>1, <1>2 DEF IInv, LockInv
  <2>2. ASSUME NEW u \in Threads, NEW q \in Queries
        PROVE  m'[q] = u <=> target'[u] = q /\ pc'[u] \in {"callback", "stop", "unlock"}
    <3>1. CASE q = x
      <4>1. target[u] = x => u = t
        BY <1>1 DEF IInv, ClaimInv, Working, WorkStates
      <4> QED
        BY <1>1, <1>2, <3>1, <4>1
    <3>2. CASE q # x
      BY <1>1, <1>2, <3>2 DEF IInv, LockInv
    <3> QED
      BY <3>1, <3>2
  <2> QED
    BY <2>1, <2>2 DEF LockInv
<1>8. ClaimInv'
  <2> SUFFICES ASSUME NEW u \in Threads, Working(u)'
               PROVE  /\ pc'[target'[u]] \notin {"unborn", "open"}
                      /\ \A w \in Threads : target'[w] = target'[u] => w = u
                      /\ pc'[u] \in {"lockm", "callback"} /\ u \in Queries =>
                            callbacks'[target'[u]] = <<>>
    BY DEF ClaimInv
  <2>1. Working(u) /\ u # t /\ target[u] \in Queries
    BY <1>3 DEF IInv, TypeOK, LabelsOK
  <2>2. u \in Queries => inbox'[u] = inbox[u]
    BY <1>2, <2>1
  <2>3. /\ pc'[u] = pc[u]
        /\ target'[u] = target[u]
        /\ pc'[target[u]] = pc[target[u]] \/ pc'[target[u]] \in {"handle", "returned"}
    BY <1>1, <1>2, <2>1
  <2>4. \A w \in Threads : target'[w] = target'[u] => w = u
    BY <1>1, <1>2, <2>1 DEF IInv, ClaimInv
  <2> QED
    BY <1>2, <2>1, <2>2, <2>3, <2>4 DEF IInv, ClaimInv
<1>9. IdInv'
  BY <1>1, <1>2 DEF IInv, IdInv, Started, WorkStates, TypeOK, DataOK
<1>10. InboxInv'
  <2> SUFFICES ASSUME NEW r \in Queries, NEW i \in 1..Len(inbox'[r])
               PROVE  \/ inbox'[r][i].id = ServerId
                      \/ \E s \in sent : s.id = inbox'[r][i].id
    BY <1>2 DEF InboxInv
  <2>1. inbox[r] \in Seq(Items) /\ (r = t => inbox[r] # <<>>)
    BY <1>1 DEF IInv, TypeOK, LabelsOK, Working, WorkStates
  <2>2. \E j \in 1..Len(inbox[r]) : inbox'[r][i] = inbox[r][j]
    <3>1. CASE r # t
      BY <1>2, <3>1
    <3>2. CASE r = t
      <4>1. inbox'[r] = Tail(inbox[r])
        BY <1>2, <3>2
      <4>2. /\ inbox'[r][i] = inbox[r][i + 1]
            /\ i + 1 \in 1..Len(inbox[r])
        BY <2>1, <3>2, <4>1
      <4> QED
        BY <4>2
    <3> QED
      BY <3>1, <3>2
  <2> QED
    BY <2>2 DEF IInv, InboxInv
<1>11. AtMostOneCallback' /\ AnswersReachTheAsker'
  BY <1>2, AnswersStay DEF IInv, AtMostOneCallback
<1>12. AskInv'
  <2>1. \A u \in Queries : pc'[u] \in {"lockm", "callback"} =>
           /\ pc[u] \in {"lockm", "callback"}
           /\ target'[u] = target[u]
           /\ inbox'[u] = inbox[u]
    BY <1>1, <1>2
  <2> QED
    BY <1>1, <1>2, <2>1, AskStays DEF IInv
<1>13. FreedInv'
  <2>1. \A r \in Queries : pc'[r] = "gone" => pc[r] = "gone"
    BY <1>1, <1>2
  <2>2. \A u \in Threads : pc'[u] = "lockm" =>
           /\ pc[u] = "lockm"
           /\ target'[u] = target[u]
           /\ target[u] \in Queries
    BY <1>1, <1>2 DEF IInv, TypeOK, LabelsOK, Working, WorkStates
  <2>3. \A r \in listed' : r \in listed /\ r \in Queries
    BY <1>1, <1>2 DEF IInv, TypeOK, DataOK
  <2> QED
    BY <1>1, <1>2, <2>1, <2>2, <2>3, FreedStays DEF IInv
<1> QED
  BY <1>4, <1>5, <1>6, <1>7, <1>8, <1>9, <1>10, <1>11, <1>12, <1>13 DEF IInv, TypeOK

\* Emptying the list, or finding nothing in it, ends a cancelling call.
LEMMA CancelAllOrMissStep ==
  ASSUME IInv, NEW c \in Cancellers, CancelAll(c) \/ CancelMiss(c)
  PROVE  IInv'
<1>1. /\ pc[c] = "idle"
      /\ c \in Threads
      /\ c \notin Queries
      /\ \A r \in Queries : r \in Threads /\ r # c
      /\ \A d \in Cancellers : d \in Threads
  BY QueueAssumption DEF CancelAll, CancelMiss, Threads
<1>2. /\ \A u \in Threads : pc'[u] = IF u = c THEN "returned" ELSE pc[u]
      /\ listed' \subseteq listed
      /\ UNCHANGED <<queuem, m, msgid, target, inbox, callbacks, clock, key,
                     usedKey, sent, stamped>>
  BY <1>1 DEF CancelAll, CancelMiss, Goto, IInv, TypeOK, LabelsOK
<1>3. \A u \in Threads : Working(u)' <=> Working(u)
  BY <1>1, <1>2 DEF Working, WorkStates
<1>4. LabelsOK'
  <2>1. pc' \in [Threads -> OwnerStates \union WorkStates \union CallStates]
    BY DEF CancelAll, CancelMiss, Goto, IInv, TypeOK, LabelsOK, CallStates
  <2>2. /\ \A r \in Queries : pc'[r] \notin CallStates
        /\ \A d \in Cancellers : pc'[d] \in CallStates \union (WorkStates \ {"callback"})
    BY <1>1, <1>2 DEF IInv, TypeOK, LabelsOK, CallStates, WorkStates
  <2>3. /\ \A u \in Threads : Working(u)' <=> target'[u] # Nobody
        /\ \A r \in Queries : Working(r)' => inbox'[r] # <<>>
    BY <1>1, <1>2, <1>3 DEF IInv, TypeOK, LabelsOK
  <2> QED
    BY <1>2, <2>1, <2>2, <2>3 DEF IInv, TypeOK, LabelsOK
<1>5. DataOK'
  <2>1. loop' \in [Queries -> BOOLEAN]
    BY DEF CancelAll, CancelMiss, IInv, TypeOK, DataOK
  <2> QED
    BY <1>2, <2>1 DEF IInv, TypeOK, DataOK
<1>6. ListInv' /\ CallbackInv'
  BY <1>1, <1>2 DEF IInv, ListInv, CallbackInv, TypeOK, DataOK
<1>7. LockInv'
  BY <1>1, <1>2 DEF IInv, LockInv
<1>8. ClaimInv'
  <2> SUFFICES ASSUME NEW u \in Threads, Working(u)'
               PROVE  /\ pc'[target[u]] \notin {"unborn", "open"}
                      /\ \A w \in Threads : target[w] = target[u] => w = u
                      /\ pc'[u] \in {"lockm", "callback"} /\ u \in Queries =>
                            callbacks[target[u]] = <<>>
    BY <1>2 DEF ClaimInv
  <2>1. Working(u) /\ target[u] \in Queries
    BY <1>3 DEF IInv, TypeOK, LabelsOK
  <2> QED
    BY <1>1, <1>2, <2>1 DEF IInv, ClaimInv
<1>9. IdInv'
  BY <1>1, <1>2 DEF IInv, IdInv, Started, WorkStates, TypeOK, DataOK
<1>10. InboxInv' /\ AtMostOneCallback' /\ AnswersReachTheAsker'
  BY <1>2, AnswersStay DEF IInv, InboxInv, AtMostOneCallback
<1>11. AskInv'
  <2>1. \A u \in Queries : pc'[u] \in {"lockm", "callback"} =>
           /\ pc[u] \in {"lockm", "callback"}
           /\ target'[u] = target[u]
           /\ inbox'[u] = inbox[u]
    BY <1>1, <1>2
  <2> QED
    BY <1>1, <1>2, <2>1, AskStays DEF IInv
<1>12. FreedInv'
  <2>1. \A r \in Queries : pc'[r] = "gone" => pc[r] = "gone"
    BY <1>1, <1>2
  <2>2. \A u \in Threads : pc'[u] = "lockm" =>
           /\ pc[u] = "lockm"
           /\ target'[u] = target[u]
           /\ target[u] \in Queries
    BY <1>1, <1>2 DEF IInv, TypeOK, LabelsOK, Working, WorkStates
  <2>3. \A r \in listed' : r \in listed /\ r \in Queries
    BY <1>1, <1>2 DEF IInv, TypeOK, DataOK
  <2> QED
    BY <1>1, <1>2, <2>1, <2>2, <2>3, FreedStays DEF IInv
<1> QED
  BY <1>4, <1>5, <1>6, <1>7, <1>8, <1>9, <1>10, <1>11, <1>12 DEF IInv, TypeOK

-----------------------------------------------------------------------------
(***************************************************************************)
(* The invariant, and what it gives                                        *)
(***************************************************************************)

\* Every step keeps the invariant, one action at a time.
LEMMA NextIInv ==
  ASSUME IInv, [Next]_vars
  PROVE  IInv'
<1>1. CASE UNCHANGED vars
  <2> USE <1>1 DEF vars
  <2>1. TypeOK'
    BY DEF IInv, TypeOK, LabelsOK, DataOK, Working
  <2>2. ListInv' /\ LockInv' /\ CallbackInv'
    BY DEF IInv, ListInv, LockInv, CallbackInv
  <2>3. ClaimInv'
    BY DEF IInv, ClaimInv, Working, Current
  <2>4. IdInv' /\ InboxInv'
    BY DEF IInv, IdInv, InboxInv, Started
  <2>5. AtMostOneCallback' /\ AnswersReachTheAsker'
    BY AnswersStay DEF IInv, AtMostOneCallback
  <2>6. AskInv' /\ FreedInv'
    BY AskStays, FreedStays DEF IInv
  <2> QED
    BY <2>1, <2>2, <2>3, <2>4, <2>5, <2>6 DEF IInv
<1>2. ASSUME NEW q \in Queries, Run(q) \/ Environment(q)
      PROVE  IInv'
  <2>1. CASE \/ New(q) \/ OpenFails(q) \/ CheckKey(q) \/ TransmitFails(q)
             \/ LoopTest(q) \/ ReceiveBadSalt(q) \/ ReceiveFails(q) \/ PeerCloses(q)
             \/ HandleDone(q) \/ HandleNotice(q) \/ CatchMiss(q)
    BY <2>1, QuietActions
  <2>2. CASE Register(q)
    BY <2>2, RegisterStep
  <2>3. CASE CreateKey(q)
    BY <2>3, CreateKeyStep
  <2>4. CASE Prepare(q)
    BY <2>4, PrepareStep
  <2>5. CASE Transmit(q)
    BY <2>5, TransmitStep
  <2>6. CASE Receive(q)
    BY <2>6, ReceiveStep
  <2>7. CASE Catch(q)
    BY <2>7, CatchStep
  <2>8. CASE RunCallback(q)
    BY <2>8, RunCallbackStep
  <2>9. CASE Exit(q)
    BY <2>9, ExitStep
  <2> QED
    BY <1>2, <2>1, <2>2, <2>3, <2>4, <2>5, <2>6, <2>7, <2>8, <2>9 DEF Run, Environment
<1>3. ASSUME NEW t \in Threads, Work(t)
      PROVE  IInv'
  BY <1>3, LockQueueStep, StopLoopStep, UnlockQueueStep DEF Work
<1>4. ASSUME NEW c \in Cancellers, Cancel(c)
      PROVE  IInv'
  BY <1>4, CancelAllOrMissStep, CancelQueueStep DEF Cancel
<1> QED
  BY <1>1, <1>2, <1>3, <1>4 DEF Next

\* The inductive invariant holds in every reachable state, for any number of
\* queries and cancelling threads.
THEOREM Invariance == Spec => []IInv
<1>1. Init => IInv
  BY InitIInv
<1>2. IInv /\ [Next]_vars => IInv'
  BY NextIInv
<1> QED
  BY <1>1, <1>2, PTL DEF Spec

\* Every variable keeps its type, and labels and claims go together (the labels
\* of tg_run_queue, catched_tl and tg_queue_cancell_queue).
THEOREM TypeCorrect == Spec => []TypeOK
<1>1. IInv => TypeOK
  BY DEF IInv
<1> QED
  BY <1>1, Invariance, PTL

\* on_done is never run twice for one query (catched_tl).
THEOREM CallbacksRunOnce == Spec => []AtMostOneCallback
<1>1. IInv => AtMostOneCallback
  BY DEF IInv
<1> QED
  BY <1>1, Invariance, PTL

\* on_done is given the answer to a request of its own query, whichever thread
\* read the answer (catched_tl), unless tg_get_current_time gave the id of that
\* answer to two queries.
THEOREM AnswersAreTheAskers == Spec => []AnswersReachTheAsker
<1>1. IInv => AnswersReachTheAsker
  BY DEF IInv
<1> QED
  BY <1>1, Invariance, PTL

\* The list holds no freed query whose message id is its own: what the owner
\* frees it has taken out before (tg_run_queue), but by that id.
THEOREM ListIsSound == Spec => []ListedAreAlive
<1>1. IInv => ListedAreAlive
  BY DEF IInv, ListInv, FreedInv, ListedAreAlive
<1> QED
  BY <1>1, Invariance, PTL

\* The list holds no locked query, so that the trylock of tg_queue_cancell_all
\* always succeeds.
THEOREM AlwaysUnlocked == Spec => []ListedAreUnlocked
<1>1. IInv => ListedAreUnlocked
  <2> SUFFICES ASSUME IInv, NEW q \in listed
               PROVE  m[q] = Nobody
    BY DEF ListedAreUnlocked
  <2>1. q \in Queries /\ m[q] \in Threads \union {Nobody}
    BY DEF IInv, TypeOK, DataOK
  <2> QED
    BY <2>1 DEF IInv, ListInv, LockInv
<1> QED
  BY <1>1, Invariance, PTL

\* Taking queue->m while holding queuem, in catched_tl and in
\* tg_queue_cancell_queue, cannot block, and touches a live object unless two
\* queries share its message id.
THEOREM NestedLocking == Spec => []NestedLockIsSafe
<1>1. IInv => NestedLockIsSafe
  <2> SUFFICES ASSUME IInv, NEW t \in Threads, queuem = t
               PROVE  /\ pc[t] = "lockm"
                      /\ m[target[t]] = Nobody
                      /\ pc[target[t]] = "gone" => Shared(msgid[target[t]])
    BY DEF NestedLockIsSafe
  <2>1. pc[t] = "lockm" /\ Working(t)
    BY DEF IInv, LockInv, Working, WorkStates
  <2>2. target[t] \in Queries /\ m[target[t]] \in Threads \union {Nobody}
    BY <2>1 DEF IInv, TypeOK, LabelsOK, DataOK
  <2>3. ASSUME NEW u \in Threads
        PROVE  m[target[t]] # u
    <3>1. target[u] = target[t] => u = t
      BY <2>1 DEF IInv, ClaimInv
    <3> QED
      BY <2>1, <2>2, <3>1 DEF IInv, LockInv
  <2> QED
    BY <2>1, <2>2, <2>3 DEF IInv, FreedInv
<1> QED
  BY <1>1, Invariance, PTL

-----------------------------------------------------------------------------
(***************************************************************************)
(* QueueManager implements QueryService                                    *)
(***************************************************************************)

\* A query's phase depends on these three facts alone.
LEMMA SamePhase ==
  ASSUME NEW r \in Queries,
         pc'[r] \in {"unborn", "open"} <=> pc[r] \in {"unborn", "open"},
         r \in listed' <=> r \in listed,
         Claimed(r)' <=> Claimed(r)
  PROVE  servicePhase'[r] = servicePhase[r]
BY DEF servicePhase

\* All phases are the same as long as the list is, no query begins, and nobody
\* claims a query or lets go of one.
LEMMA PhasesStay ==
  ASSUME listed' = listed,
         \A r \in Queries : pc'[r] \in {"unborn", "open"} <=> pc[r] \in {"unborn", "open"},
         \A t \in Queries : pc'[t] \in {"lockm", "callback"} <=> pc[t] \in {"lockm", "callback"},
         \A t \in Queries : pc[t] \in {"lockm", "callback"} => target'[t] = target[t]
  PROVE  servicePhase' = servicePhase
<1>1. \A r \in Queries : Claimed(r)' <=> Claimed(r)
  BY DEF Claimed
<1>2. \A r \in Queries : servicePhase'[r] = servicePhase[r]
  BY <1>1, SamePhase
<1> QED
  BY <1>2 DEF servicePhase

\* Outcomes change with callbacks only, and the served queries with ids and sends.
LEMMA OutcomesStay ==
  ASSUME UNCHANGED <<callbacks, sent, stamped>>
  PROVE  UNCHANGED <<serviceOutcome, serviceServed>>
BY DEF serviceOutcome, serviceServed

\* The abstract queries begin idle.
LEMMA InitService == Init => Service!ServiceInit
<1> SUFFICES ASSUME Init PROVE Service!ServiceInit
  OBVIOUS
<1>1. servicePhase = [q \in Queries |-> "idle"]
  BY DEF Init, servicePhase, Threads
<1>2. serviceOutcome = [q \in Queries |-> "none"]
  BY DEF Init, serviceOutcome
<1>3. serviceServed = {}
  BY DEF Init, serviceServed
<1> QED
  BY <1>1, <1>2, <1>3 DEF Service!ServiceInit

\* The steps that do not show.
LEMMA HiddenSteps ==
  ASSUME IInv, NEW q \in Queries,
         \/ New(q) \/ CheckKey(q) \/ CreateKey(q) \/ TransmitFails(q)
         \/ LoopTest(q) \/ Receive(q) \/ ReceiveBadSalt(q) \/ ReceiveFails(q)
         \/ PeerCloses(q) \/ HandleDone(q) \/ HandleNotice(q) \/ CatchMiss(q)
  PROVE  UNCHANGED Service!serviceVars
<1>1. UNCHANGED <<listed, target, callbacks, sent, stamped>>
  BY DEF New, CheckKey, CreateKey, TransmitFails, LoopTest, Receive,
         ReceiveBadSalt, ReceiveFails, PeerCloses, HandleDone, HandleNotice, CatchMiss
<1>2. \E label \in OwnerStates :
         /\ pc' = [pc EXCEPT ![q] = label]
         /\ pc[q] \in OwnerStates
         /\ label \in {"unborn", "open"} <=> pc[q] \in {"unborn", "open"}
  <2>1. CASE HandleNotice(q) \/ CatchMiss(q)
    <3>1. pc' = [pc EXCEPT ![q] = "handle"] /\ pc[q] = "handle"
      BY <2>1 DEF HandleNotice, CatchMiss, IInv, TypeOK, LabelsOK
    <3> QED
      BY <3>1 DEF OwnerStates
  <2>2. CASE \/ New(q) \/ CheckKey(q) \/ CreateKey(q)
             \/ TransmitFails(q) \/ LoopTest(q)
    BY <2>2 DEF New, CheckKey, CreateKey, TransmitFails, LoopTest, Goto, OwnerStates
  <2>3. CASE \/ Receive(q) \/ ReceiveBadSalt(q) \/ ReceiveFails(q)
             \/ PeerCloses(q) \/ HandleDone(q)
    BY <2>3 DEF Receive, ReceiveBadSalt, ReceiveFails, PeerCloses, HandleDone, Goto, OwnerStates
  <2> QED
    BY <2>1, <2>2, <2>3
<1>3. /\ \A r \in Queries : pc'[r] \in {"unborn", "open"} <=> pc[r] \in {"unborn", "open"}
      /\ \A r \in Queries : pc'[r] \in {"lockm", "callback"} <=> pc[r] \in {"lockm", "callback"}
  <2>1. \A r \in Queries : r \in Threads
    BY DEF Threads
  <2> QED
    BY <1>2, <2>1 DEF IInv, TypeOK, LabelsOK, OwnerStates
<1> QED
  BY <1>1, <1>3, PhasesStay, OutcomesStay DEF Service!serviceVars

\* The first steps of a query: it is refused, or submitted.
LEMMA StartRefines ==
  ASSUME IInv, NEW q \in Queries, OpenFails(q) \/ Register(q)
  PROVE  Service!Refuse(q) \/ Service!Submit(q)
<1>1. /\ q \in Threads
      /\ \A r \in Queries : r \in Threads
  BY DEF Threads
<1>2. CASE OpenFails(q)
  <2>1. /\ \A r \in Queries : pc'[r] = IF r = q THEN "gone" ELSE pc[r]
        /\ UNCHANGED <<listed, target, callbacks, sent, stamped>>
    BY <1>1, <1>2 DEF OpenFails, Goto, IInv, TypeOK, LabelsOK
  <2>2. pc[q] = "open" /\ q \notin listed
    BY <1>2 DEF OpenFails, IInv, ListInv
  <2>3. \A r \in Queries : Claimed(r)' <=> Claimed(r)
    BY <2>1, <2>2 DEF Claimed
  <2>4. ~Claimed(q)
    BY <1>1, <2>2 DEF Claimed, IInv, ClaimInv, Working, WorkStates
  <2>5. servicePhase[q] = "idle" /\ servicePhase'[q] = "over"
    BY <2>1, <2>2, <2>3, <2>4 DEF servicePhase
  <2>6. \A r \in Queries \ {q} : servicePhase'[r] = servicePhase[r]
    BY <2>1, <2>3, SamePhase
  <2>7. servicePhase' = [servicePhase EXCEPT ![q] = "over"]
    BY <2>5, <2>6 DEF servicePhase
  <2> QED
    BY <2>1, <2>5, <2>7, OutcomesStay DEF Service!Refuse
<1>3. CASE Register(q)
  <2>1. /\ \A r \in Queries : pc'[r] = IF r = q THEN "send" ELSE pc[r]
        /\ listed' = listed \union {q}
        /\ pc[q] = "open"
        /\ UNCHANGED <<target, callbacks, sent, stamped>>
    BY <1>1, <1>3 DEF Register, Goto, IInv, TypeOK, LabelsOK
  <2>2. \A r \in Queries : Claimed(r)' <=> Claimed(r)
    BY <2>1 DEF Claimed
  <2>3. servicePhase[q] = "idle" /\ servicePhase'[q] = "pending"
    BY <2>1 DEF servicePhase
  <2>4. \A r \in Queries \ {q} : servicePhase'[r] = servicePhase[r]
    BY <2>1, <2>2, SamePhase
  <2>5. servicePhase' = [servicePhase EXCEPT ![q] = "pending"]
    BY <2>3, <2>4 DEF servicePhase
  <2> QED
    BY <2>1, <2>3, <2>5, OutcomesStay DEF Service!Submit
<1> QED
  BY <1>2, <1>3

\* A query that is given an id the server knows is served, and so is every query
\* that has the id of a request when the server is sent it.
LEMMA ServeRefines ==
  ASSUME IInv, NEW q \in Queries, Prepare(q) \/ Transmit(q)
  PROVE  serviceServed' \in SUBSET Queries /\ Service!Serve(serviceServed')
<1>1. /\ pc[q] \in {"prepare", "transmit"}
      /\ \A r \in Queries : pc'[r] = pc[r] \/ (r = q /\ pc'[r] \in {"transmit", "loop"})
      /\ UNCHANGED <<listed, target, callbacks>>
  BY DEF Prepare, Transmit, Goto, IInv, TypeOK, LabelsOK, Threads
<1>2. servicePhase' = servicePhase
  BY <1>1, PhasesStay
<1>3. stamped \subseteq stamped' /\ sent \subseteq sent'
  BY DEF Prepare, Transmit
<1>4. ASSUME NEW x \in stamped'
      PROVE  x \in stamped \/ x.query = q
  <2>1. CASE Prepare(q)
    <3>1. PICK tick \in Ticks : stamped' = stamped \union {[id |-> clock + tick, query |-> q]}
      BY <2>1 DEF Prepare
    <3> QED
      BY <3>1
  <2>2. CASE Transmit(q)
    BY <2>2 DEF Transmit
  <2> QED
    BY <2>1, <2>2
<1>5. ASSUME NEW r \in serviceServed'
      PROVE  r \in Queries /\ servicePhase[r] # "idle"
  <2>1. PICK x \in stamped' : x.query = r
    BY <1>5 DEF serviceServed
  <2> r \in Queries
    BY <1>4, <2>1 DEF IInv, TypeOK, DataOK
  <2>2. pc[r] \notin {"unborn", "open"}
    BY <1>1, <1>4, <2>1 DEF IInv, IdInv
  <2> QED
    BY <2>1, <2>2 DEF servicePhase
<1>6. serviceServed' = serviceServed \union serviceServed'
  BY <1>3 DEF serviceServed
<1>7. serviceOutcome' = serviceOutcome
  BY <1>1 DEF serviceOutcome
<1> QED
  BY <1>2, <1>5, <1>6, <1>7 DEF Service!Serve

\* Taking a query out of the list claims it, if it is an answer's doing, and
\* withdraws it otherwise.
LEMMA CutRefines ==
  ASSUME IInv, NEW t \in Threads, NEW x \in listed, Cut(t, x),
         pc[t] \in {"handle", "idle"}, UNCHANGED <<callbacks, sent, stamped>>
  PROVE  IF t \in Queries /\ x \in serviceServed
         THEN Service!Claim(x) ELSE t \in Cancellers => Service!Withdraw({x})
<1>1. /\ \A u \in Threads : pc'[u] = IF u = t THEN "lockm" ELSE pc[u]
      /\ \A u \in Threads : target'[u] = IF u = t THEN x ELSE target[u]
      /\ listed' = listed \ {x}
      /\ x \in Queries
      /\ \A r \in Queries : r \in Threads
      /\ t \in Cancellers => t \notin Queries
  BY QueueAssumption DEF Cut, Goto, IInv, TypeOK, LabelsOK, DataOK, Threads
<1>2. /\ pc[x] \notin {"unborn", "open"}
      /\ \A u \in Threads : target[u] # x
  BY DEF IInv, ListInv
<1>3. /\ Claimed(x)' <=> t \in Queries
      /\ \A r \in Queries \ {x} : Claimed(r)' <=> Claimed(r)
  BY <1>1, <1>2 DEF Claimed
<1>4. \A r \in Queries \ {x} : servicePhase'[r] = servicePhase[r]
  BY <1>1, <1>3, SamePhase
<1>5. servicePhase[x] = "pending"
  BY <1>1, <1>2 DEF servicePhase
<1>6. pc'[x] \notin {"unborn", "open"}
  BY <1>1, <1>2
<1>7. UNCHANGED <<serviceOutcome, serviceServed>>
  BY OutcomesStay
<1>8. CASE t \in Queries /\ x \in serviceServed
  <2>1. servicePhase'[x] = "claimed"
    BY <1>1, <1>3, <1>6, <1>8 DEF servicePhase
  <2>2. servicePhase' = [servicePhase EXCEPT ![x] = "claimed"]
    BY <1>1, <1>4, <2>1 DEF servicePhase
  <2> QED
    BY <1>5, <1>7, <1>8, <2>2 DEF Service!Claim
<1>9. CASE t \in Cancellers
  <2>1. servicePhase'[x] = "over"
    BY <1>1, <1>3, <1>6, <1>9 DEF servicePhase
  <2>2. servicePhase' = [r \in Queries |-> IF r \in {x} THEN "over" ELSE servicePhase[r]]
    BY <1>1, <1>4, <2>1 DEF servicePhase
  <2> QED
    BY <1>1, <1>5, <1>7, <1>9, <2>2 DEF Service!Withdraw
<1> QED
  BY <1>8, <1>9

\* Taking queries out of the list without a claim withdraws them.
LEMMA RemovalRefines ==
  ASSUME IInv, NEW S \in SUBSET listed, listed' = listed \ S,
         \A r \in Queries : pc'[r] \in {"unborn", "open"} <=> pc[r] \in {"unborn", "open"},
         \A t \in Queries : pc'[t] \in {"lockm", "callback"} <=> pc[t] \in {"lockm", "callback"},
         UNCHANGED <<target, callbacks, sent, stamped>>
  PROVE  Service!Withdraw(S)
<1>1. \A r \in Queries : Claimed(r)' <=> Claimed(r)
  BY DEF Claimed
<1>2. \A r \in Queries \ S : servicePhase'[r] = servicePhase[r]
  BY <1>1, SamePhase
<1>3. \A r \in S : /\ r \in Queries
                   /\ pc[r] \notin {"unborn", "open"}
                   /\ ~Claimed(r)
  BY DEF IInv, ListInv, TypeOK, DataOK, Claimed, Threads
<1>4. \A r \in S : servicePhase[r] = "pending" /\ servicePhase'[r] = "over"
  BY <1>1, <1>3 DEF servicePhase
<1>5. servicePhase' = [r \in Queries |-> IF r \in S THEN "over" ELSE servicePhase[r]]
  BY <1>2, <1>4 DEF servicePhase
<1> QED
  BY <1>4, <1>5, OutcomesStay DEF Service!Withdraw

\* A callback completes the query it was claimed for.
LEMMA CallbackRefines ==
  ASSUME IInv, NEW q \in Queries, RunCallback(q)
  PROVE  \E value \in Values : Service!Complete(target[q], value)
<1> DEFINE x == target[q]
<1>1. /\ x \in Queries
      /\ pc[q] = "callback"
      /\ q \in Threads
      /\ \A r \in Queries : r \in Threads
      /\ pc'[q] \in {"stop", "unlock"}
      /\ \A r \in Queries \ {q} : pc'[r] = pc[r]
      /\ UNCHANGED <<listed, target, sent, stamped>>
  BY QueueAssumption DEF RunCallback, Goto, IInv, TypeOK, LabelsOK, Threads, Working, WorkStates
<1>2. PICK value \in Values :
         callbacks' = [callbacks EXCEPT ![x] =
                          Append(@, [id |-> Current(q).id, value |-> value])]
  BY DEF RunCallback
<1>3. /\ callbacks[x] = <<>>
      /\ pc[x] \notin {"unborn", "open"}
      /\ x \notin listed
      /\ \A u \in Threads : target[u] = x => u = q
  BY <1>1 DEF IInv, ListInv, ClaimInv, Working, WorkStates
<1>4. /\ Claimed(x) /\ ~Claimed(x)'
      /\ \A r \in Queries \ {x} : Claimed(r)' <=> Claimed(r)
  BY <1>1, <1>3 DEF Claimed
<1>5. pc'[x] \notin {"unborn", "open"}
  BY <1>1, <1>3
<1>6. servicePhase[x] = "claimed" /\ servicePhase'[x] = "over"
  BY <1>1, <1>3, <1>4, <1>5 DEF servicePhase
<1>7. \A r \in Queries \ {x} : servicePhase'[r] = servicePhase[r]
  BY <1>1, <1>4, SamePhase
<1>8. servicePhase' = [servicePhase EXCEPT ![x] = "over"]
  BY <1>1, <1>6, <1>7 DEF servicePhase
<1>9. serviceOutcome' = [serviceOutcome EXCEPT ![x] = value]
  <2> DEFINE call == [id |-> Current(q).id, value |-> value]
  <2>1. callbacks'[x] = Append(<<>>, call)
    BY <1>1, <1>2, <1>3 DEF IInv, TypeOK, DataOK
  <2>2. callbacks'[x] = <<call>>
    BY <2>1
  <2>3. call.value = value
    OBVIOUS
  <2>4. \A r \in Queries \ {x} : callbacks'[r] = callbacks[r]
    BY <1>2 DEF IInv, TypeOK, DataOK
  <2> HIDE DEF call
  <2>5. serviceOutcome'[x] = value
    <3>1. /\ callbacks'[x] # <<>>
          /\ callbacks'[x][Len(callbacks'[x])] = call
      BY <2>2
    <3> HIDE DEF x
    <3> QED
      BY <1>1, <2>3, <3>1 DEF serviceOutcome
  <2>6. \A r \in Queries \ {x} : serviceOutcome'[r] = serviceOutcome[r]
    BY <2>4 DEF serviceOutcome
  <2> QED
    BY <1>1, <2>5, <2>6 DEF serviceOutcome
<1>10. serviceServed' = serviceServed
  BY <1>1 DEF serviceServed
<1> QED
  BY <1>1, <1>6, <1>8, <1>9, <1>10 DEF Service!Complete

\* Every step of the threads is one that QueryService allows, or does not show.
LEMMA NextService ==
  ASSUME IInv, [Next]_vars
  PROVE  [Service!ServiceNext]_(Service!serviceVars)
<1> USE DEF Service!ServiceNext
<1>1. CASE UNCHANGED vars
  BY <1>1 DEF vars, Service!serviceVars, servicePhase, serviceOutcome, serviceServed, Claimed
<1>2. ASSUME NEW q \in Queries, Run(q) \/ Environment(q)
      PROVE  [Service!ServiceNext]_(Service!serviceVars)
  <2>1. CASE \/ New(q) \/ CheckKey(q) \/ CreateKey(q) \/ TransmitFails(q)
             \/ LoopTest(q) \/ Receive(q) \/ ReceiveBadSalt(q) \/ ReceiveFails(q)
             \/ PeerCloses(q) \/ HandleDone(q) \/ HandleNotice(q) \/ CatchMiss(q)
    BY <2>1, HiddenSteps
  <2>2. CASE OpenFails(q) \/ Register(q)
    BY <2>2, StartRefines
  <2>3. CASE Catch(q)
    <3>1. PICK x \in Matches(Current(q).id) : Cut(q, x)
      BY <2>3 DEF Catch
    <3>2. x \in listed /\ x \in Queries
      BY DEF Matches, IInv, TypeOK, DataOK
    <3>3. x \in serviceServed
      BY <2>3, <3>1, <3>2, CatchFindsAsker DEF serviceServed
    <3> QED
      BY <2>3, <3>1, <3>2, <3>3, CutRefines DEF Catch, Threads
  <2>4. CASE RunCallback(q)
    <3>1. target[q] \in Queries
      BY <2>4 DEF RunCallback, IInv, TypeOK, LabelsOK, Threads, Working, WorkStates
    <3>2. Values \subseteq Service!Outcomes \ {"none"}
      BY DEF Values, Service!Outcomes
    <3> QED
      BY <2>4, <3>1, <3>2, CallbackRefines
  <2>5. CASE Exit(q)
    <3> DEFINE S == listed \ listed'
    <3>1. /\ S \subseteq listed
          /\ S \in SUBSET Queries
          /\ listed' = listed \ S
      BY <2>5, ExitCuts
    <3>2. \A r \in Queries : pc'[r] = IF r = q THEN "gone" ELSE pc[r]
      BY <2>5 DEF Exit, Goto, IInv, TypeOK, LabelsOK, Threads
    <3>3. Service!Withdraw(S)
      BY <2>5, <3>1, <3>2, RemovalRefines DEF Exit
    <3> QED
      BY <3>1, <3>3
  <2>6. CASE Prepare(q) \/ Transmit(q)
    BY <2>6, ServeRefines
  <2> QED
    BY <1>2, <2>1, <2>2, <2>3, <2>4, <2>5, <2>6 DEF Run, Environment
<1>3. ASSUME NEW t \in Threads, Work(t)
      PROVE  [Service!ServiceNext]_(Service!serviceVars)
  <2>1. UNCHANGED <<listed, callbacks, sent, stamped>>
    BY <1>3 DEF Work, LockQueue, StopLoop, UnlockQueue
  <2>2. \A u \in Threads \ {t} : pc'[u] = pc[u] /\ target'[u] = target[u]
    BY <1>3 DEF Work, LockQueue, StopLoop, UnlockQueue, Goto, IInv, TypeOK, LabelsOK
  <2>3. t \in Queries =>
          \/ pc[t] = "lockm" /\ pc'[t] = "callback" /\ target' = target
          \/ pc[t] \in {"stop", "unlock"} /\ pc'[t] \in {"unlock", "handle"}
    BY <1>3 DEF Work, LockQueue, StopLoop, UnlockQueue, Goto, IInv, TypeOK, LabelsOK
  <2>4. servicePhase' = servicePhase
    BY <2>1, <2>2, <2>3, PhasesStay DEF Threads
  <2> QED
    BY <2>1, <2>4, OutcomesStay DEF Service!serviceVars
<1>4. ASSUME NEW c \in Cancellers, Cancel(c)
      PROVE  [Service!ServiceNext]_(Service!serviceVars)
  <2>1. /\ c \in Threads
        /\ c \notin Queries
        /\ \A r \in Queries : r \in Threads
    BY QueueAssumption DEF Threads
  <2>2. CASE CancelQueue(c)
    <3>1. PICK x \in listed : Cut(c, x)
      BY <2>2 DEF CancelQueue
    <3>2. x \in Queries
      BY DEF IInv, TypeOK, DataOK
    <3>3. Service!Withdraw({x})
      BY <2>1, <2>2, <3>1, CutRefines DEF CancelQueue
    <3> QED
      BY <3>2, <3>3
  <2>3. CASE CancelAll(c) \/ CancelMiss(c)
    <3> DEFINE S == listed \ listed'
    <3>1. /\ S \in SUBSET listed
          /\ S \in SUBSET Queries
          /\ listed' = listed \ S
          /\ UNCHANGED <<target, callbacks, sent, stamped>>
      BY <2>3 DEF CancelAll, CancelMiss, IInv, TypeOK, DataOK
    <3>2. \A r \in Queries : pc'[r] = pc[r]
      BY <2>1, <2>3 DEF CancelAll, CancelMiss, Goto, IInv, TypeOK, LabelsOK
    <3>3. Service!Withdraw(S)
      BY <3>1, <3>2, RemovalRefines
    <3> QED
      BY <3>1, <3>3
  <2> QED
    BY <1>4, <2>2, <2>3 DEF Cancel
<1> QED
  BY <1>1, <1>2, <1>3, <1>4 DEF Next

\* The threads of tg/queue.c implement the promise of QueryService: a callback
\* runs for a pending query whose id was sent, once, and never for a withdrawn one.
THEOREM Refinement == Spec => ImplementsQueryService
<1>1. Init => Service!ServiceInit
  BY InitService
<1>2. IInv /\ [Next]_vars => [Service!ServiceNext]_(Service!serviceVars)
  BY NextService
<1> QED
  BY <1>1, <1>2, Invariance, PTL DEF Spec, ImplementsQueryService, Service!ServiceSpec
=============================================================================
