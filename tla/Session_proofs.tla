----------------------------- MODULE Session_proofs -----------------------------
(***************************************************************************)
(* Theorems about the session, for any number of threads that send, of     *)
(* packets, of arrivals and of answers to drop.                            *)
(***************************************************************************)
EXTENDS Session, FiniteSetTheorems, TLAPS

\* The labels of a thread whose packet has nothing in it.
Early == {"idle", "wantkey", "reset", "session", "wantsession", "acks"}

Built == wire \union lost
Todo(t) == draft[t].todo
Made(t) == draft[t].messages

\* The parts of a packet come in this order: the query, alone or with what it
\* acknowledges, the answers to drop, and the container around them.
Shape(t) ==
    /\ pc[t] \in Early => Made(t) = <<>>
    /\ pc[t] \in {"drops", "encrypt", "send"} => Made(t) # <<>>
    /\ pc[t] \in {"id", "seqno"} /\ Made(t) = <<>> =>
          /\ Todo(t)[1] = Query
          /\ Len(Todo(t)) = 2 => Todo(t)[2].body = "acks"
          /\ Len(Todo(t)) \in 1..2
    /\ pc[t] \in {"id", "seqno"} /\ Made(t) # <<>> =>
          \A i \in 1..Len(Todo(t)) :
              /\ Todo(t)[i].body # "query"
              /\ Todo(t)[i].body = "container" => msgid[t] = Made(t)[1].id
    /\ Made(t) # <<>> => Made(t)[1].body = "query"
    /\ pc[t] = "seqno" /\ Todo(t) = <<Query>> => msgid[t] = draft[t].id
    /\ pc[t] \in {"encrypt", "send"} => msgid[t] = Made(t)[1].id

ShapeInv ==
    /\ \A t \in Senders : Shape(t)
    /\ \A p \in Built :
        /\ p.messages # <<>>
        /\ p.messages[1].body = "query" /\ p.messages[1].id = p.msgid

\* The last message made has an id no other one is later than.
Closing(messages) ==
    \A i \in 1..(Len(messages) - 1) : messages[i].id <= messages[Len(messages)].id
OrderInv ==
    /\ \A t \in Senders :
        /\ pc[t] = "seqno" => draft[t].id <= clock
        /\ \A i \in 1..Len(Made(t)) :
              Made(t)[i].id <= clock /\ (pc[t] = "seqno" => Made(t)[i].id <= draft[t].id)
        /\ Closing(Made(t))
    /\ \A p \in Built : Closing(p.messages)

\* The counter is past the numbers of all messages.
Rising(messages) ==
    \A i \in 1..(Len(messages) - 1) : messages[i].seqno <= messages[Len(messages)].seqno
Below(messages, n) ==
    \A i \in 1..Len(messages) : messages[i].seqno <= n /\ (Content(messages[i]) => messages[i].seqno < n)
\* Two messages of the same number that the receiver must acknowledge.
Clash(ms, i, ns, j) ==
    Content(ms[i]) /\ Content(ns[j]) /\ ms[i].seqno = ns[j].seqno
SeqnoInv ==
    ~setback =>
        /\ \A t \in Senders : Rising(Made(t)) /\ Below(Made(t), 2 * seqn)
        /\ \A p \in Built : Rising(p.messages) /\ Below(p.messages, 2 * seqn)
        /\ \A t, u \in Senders : \A i \in 1..Len(Made(t)), j \in 1..Len(Made(u)) :
              Clash(Made(t), i, Made(u), j) => t = u /\ i = j
        /\ \A t \in Senders, p \in Built :
              \A i \in 1..Len(Made(t)), j \in 1..Len(p.messages) :
                 ~Clash(Made(t), i, p.messages, j)
        /\ \A p, r \in Built : \A i \in 1..Len(p.messages), j \in 1..Len(r.messages) :
              Clash(p.messages, i, r.messages, j) => p = r /\ i = j

\* Each of the numbers up to count waits, or is in one place.
Placed(body, count, waiting) ==
    /\ \A t \in Senders : Drafted(t, body) \subseteq (1..count) \ waiting
    /\ \A p \in Built : Carried(p.messages, body) \subseteq (1..count) \ waiting
    /\ \A t, u \in Senders : t # u => Drafted(t, body) \cap Drafted(u, body) = {}
    /\ \A t \in Senders, p \in Built : Drafted(t, body) \cap Carried(p.messages, body) = {}
    /\ \A p, r \in Built :
          p # r => Carried(p.messages, body) \cap Carried(r.messages, body) = {}
    /\ \A n \in (1..count) \ waiting :
          \/ \E t \in Senders : n \in Drafted(t, body)
          \/ \E p \in Built : n \in Carried(p.messages, body)

Dropping == {todrop[i] : i \in 1..Len(todrop)}
AckInv == Placed("acks", arrived, msgids)
DropInv == Placed("drop", unwanted, Dropping)

IInv ==
    /\ TypeOK /\ ShapeInv /\ OrderInv /\ SeqnoInv
    /\ AckInv /\ DropInv

-----------------------------------------------------------------------------
(* What the parts of a packet say.                                         *)

LEMMA CarriedEmpty == \A b : Carried(<<>>, b) = {}
  BY DEF Carried

LEMMA CarriedAppend ==
  ASSUME NEW S, NEW s \in Seq(S), NEW m \in S, NEW b
  PROVE  Carried(Append(s, m), b) = Carried(s, b) \union (IF m.body = b THEN m.refs ELSE {})
<1> DEFINE a == Append(s, m)
<1>1. Len(a) = Len(s) + 1 /\ a[Len(s) + 1] = m /\ \A i \in 1..Len(s) : a[i] = s[i]
  OBVIOUS
<1>2. Len(s) \in Nat
  OBVIOUS
<1> HIDE DEF a
<1>3. {i \in 1..Len(a) : a[i].body = b}
        = {i \in 1..Len(s) : s[i].body = b} \union (IF m.body = b THEN {Len(s) + 1} ELSE {})
  BY <1>1, <1>2
<1>4. Carried(a, b) = Carried(s, b) \union (IF m.body = b THEN m.refs ELSE {})
  BY <1>1, <1>2, <1>3 DEF Carried
<1> QED
  BY <1>4 DEF a

LEMMA CarriedHead ==
  ASSUME NEW S, NEW s \in Seq(S), s # <<>>, NEW b
  PROVE  Carried(s, b) = Carried(Tail(s), b)
                            \union (IF Head(s).body = b THEN Head(s).refs ELSE {})
<1> DEFINE r == Tail(s)
<1>1. Len(s) \in Nat \ {0} /\ Len(r) = Len(s) - 1 /\ \A i \in 1..Len(r) : r[i] = s[i + 1]
  OBVIOUS
<1>2. Head(s) = s[1]
  OBVIOUS
<1> HIDE DEF r
<1>3. ASSUME NEW x PROVE x \in Carried(s, b) <=>
          x \in Carried(r, b) \/ (s[1].body = b /\ x \in s[1].refs)
  <2>1. ASSUME x \in Carried(s, b) PROVE x \in Carried(r, b) \/ (s[1].body = b /\ x \in s[1].refs)
    <3>1. PICK i \in 1..Len(s) : s[i].body = b /\ x \in s[i].refs
      BY <2>1 DEF Carried
    <3>2. CASE i = 1
      BY <3>1, <3>2
    <3>3. CASE i # 1
      <4>1. i - 1 \in 1..Len(r) /\ r[i - 1] = s[i]
        BY <1>1, <3>3
      <4> QED
        BY <3>1, <4>1 DEF Carried
    <3> QED
      BY <3>2, <3>3
  <2>2. ASSUME x \in Carried(r, b) PROVE x \in Carried(s, b)
    <3>1. PICK i \in 1..Len(r) : r[i].body = b /\ x \in r[i].refs
      BY <2>2 DEF Carried
    <3>2. i + 1 \in 1..Len(s) /\ s[i + 1] = r[i]
      BY <1>1
    <3> QED
      BY <3>1, <3>2 DEF Carried
  <2>3. ASSUME s[1].body = b, x \in s[1].refs PROVE x \in Carried(s, b)
    <3>1. 1 \in 1..Len(s)
      BY <1>1
    <3> QED
      BY <2>3, <3>1 DEF Carried
  <2> QED
    BY <2>1, <2>2, <2>3
<1>4. Carried(s, b) = Carried(r, b) \union (IF s[1].body = b THEN s[1].refs ELSE {})
  BY <1>3
<1> QED
  BY <1>2, <1>4 DEF r

LEMMA CarriedOne ==
  ASSUME NEW x, NEW b PROVE Carried(<<x>>, b) = IF x.body = b THEN x.refs ELSE {}
  BY DEF Carried

-----------------------------------------------------------------------------
LEMMA InitIInv == Init => IInv
<1> SUFFICES ASSUME Init PROVE IInv
  OBVIOUS
<1> USE SessionAssumption DEF Init
<1>1. TypeOK
  <2>1. NoDraft \in [todo : Seq(Parts), messages : Seq(Messages), id : Nat, ssid : Nat, key : Nat]
    BY DEF NoDraft
  <2>2. setback \in BOOLEAN
    OBVIOUS
  <2>3. draft \in [Senders -> [todo : Seq(Parts), messages : Seq(Messages),
                              id : Nat, ssid : Nat, key : Nat]]
        /\ \A t \in Senders : draft[t].todo = <<>>
    BY <2>1 DEF NoDraft
  <2>4. /\ {clock, seqn, key, ssid, arrived, unwanted} \subseteq Nat
        /\ msgids \in SUBSET (1..arrived) /\ todrop \in Seq(1..unwanted)
    OBVIOUS
  <2> QED
    BY <2>2, <2>3, <2>4 DEF TypeOK
<1>2. ShapeInv /\ OrderInv /\ SeqnoInv
  BY DEF ShapeInv, Shape, OrderInv, SeqnoInv, Closing, Rising, Below, Made, Todo, Built,
         Early, NoDraft
<1>4. \A t \in Senders, b \in Bodies : Drafted(t, b) = {}
  BY CarriedEmpty DEF Drafted, NoDraft
<1>5. AckInv /\ DropInv
  BY <1>4 DEF AckInv, DropInv, Placed, Bodies, Built, Dropping
<1> QED
  BY <1>1, <1>2, <1>5 DEF IInv

\* A step of one thread leaves the others' packets alone.
LEMMA Frame ==
  ASSUME TypeOK, NEW t \in Senders, CheckKey(t) \/ Build(t), NEW u \in Senders, u # t
  PROVE  pc'[u] = pc[u] /\ draft'[u] = draft[u] /\ msgid'[u] = msgid[u]
  BY DEF TypeOK, CheckKey, Build, CreateKey, ResetSeqn, CheckSession, CreateSession, TakeAcks, StampId,
         StampSeqno, TakeDrops, BeginHead, Encrypt, Send, SendFails, Goto, sharedVars

-----------------------------------------------------------------------------
\* What the numbers are.
LEMMA Numbers ==
  ASSUME TypeOK
  PROVE  /\ clock \in Nat /\ seqn \in Nat /\ key \in Nat /\ ssid \in Nat
         /\ arrived \in Nat /\ unwanted \in Nat
         /\ msgids \in SUBSET Nat /\ todrop \in Seq(Nat)
  BY DEF TypeOK

Draft == [todo : Seq(Parts), messages : Seq(Messages), id : Nat, ssid : Nat, key : Nat]

\* What a thread is building, after a step of it.
LEMMA DraftStep ==
  ASSUME IInv, NEW t \in Senders, CheckKey(t) \/ Build(t)
  PROVE  /\ draft'[t] \in Draft
         /\ pc'[t] \in {"id", "seqno"} <=> draft'[t].todo # <<>>
<1>0. /\ draft[t] \in Draft /\ draft \in [Senders -> Draft] /\ DOMAIN pc = Senders
      /\ pc[t] \in {"id", "seqno"} <=> draft[t].todo # <<>>
      /\ clock \in Nat /\ seqn \in Nat /\ key \in Nat /\ ssid \in Nat
      /\ msgids \in SUBSET Nat /\ todrop \in Seq(Nat)
  BY Numbers DEF Draft, IInv, TypeOK
<1>1. CASE CheckKey(t) \/ CreateKey(t) \/ ResetSeqn(t) \/ CheckSession(t) \/ CreateSession(t)
  BY <1>0, <1>1 DEF CheckKey, CreateKey, ResetSeqn, CheckSession, CreateSession, Goto
<1>2. CASE TakeAcks(t)
  <2>1. msgids \in SUBSET Nat
    BY <1>0
  <2>2. Query \in Parts /\ Part("acks", msgids) \in Parts
    BY <2>1 DEF Query, Part, Parts, Bodies
  <2>3. CASE msgids = {}
    <3>1. draft'[t] = [draft[t] EXCEPT !.todo = <<>>]
      BY <1>0, <1>2, <2>3 DEF TakeAcks
    <3> QED
      BY <1>0, <1>2, <2>3, <3>1 DEF TakeAcks, Goto, Draft
  <2>4. CASE msgids # {}
    <3>1. draft'[t] = [draft[t] EXCEPT !.todo = <<Query, Part("acks", msgids)>>]
      BY <1>0, <1>2, <2>4 DEF TakeAcks
    <3>2. <<Query, Part("acks", msgids)>> \in Seq(Parts)
      BY <2>2
    <3> QED
      BY <1>0, <1>2, <2>4, <3>1, <3>2 DEF TakeAcks, Goto, Draft
  <2> QED
    BY <2>3, <2>4
<1>3. CASE StampId(t)
  <2>1. draft'[t] = [draft[t] EXCEPT !.id = clock'] /\ clock' \in Nat /\ pc'[t] = "seqno"
    BY <1>0, <1>3 DEF StampId, Goto
  <2>2. draft[t].todo # <<>>
    BY <1>0, <1>3 DEF StampId
  <2> QED
    BY <1>0, <2>1, <2>2 DEF Draft
<1>4. CASE StampSeqno(t)
  <2> DEFINE part == Head(Todo(t))
             rest == Tail(Todo(t))
             m == Stamped(part, draft[t].id, seqn)
  <2>1. part \in Parts /\ rest \in Seq(Parts)
    <3>1. Todo(t) \in Seq(Parts) /\ Todo(t) # <<>>
      BY <1>0, <1>4 DEF Draft, Todo, StampSeqno
    <3> QED
      BY <3>1
  <2>2. m \in Messages
    <3>1. 2 * seqn \in Nat /\ 2 * seqn + 1 \in Nat /\ draft[t].id \in Nat
      BY <1>0 DEF Draft
    <3> QED
      BY <2>1, <3>1 DEF Stamped, Messages, Parts
  <2>3. Append(Made(t), m) \in Seq(Messages)
    BY <1>0, <2>2 DEF Made, Draft
  <2>4. /\ draft'[t] = [draft[t] EXCEPT !.todo = rest, !.messages = Append(Made(t), m)]
        /\ pc'[t] = AfterPart(part, rest)
    BY <1>0, <1>4 DEF StampSeqno, Goto, Todo, Made
  <2>5. draft'[t] \in Draft /\ draft'[t].todo = rest
    BY <1>0, <2>1, <2>3, <2>4 DEF Draft
  <2>6. AfterPart(part, rest) \in {"id", "seqno"} <=> rest # <<>>
    BY DEF AfterPart
  <2> QED
    BY <2>4, <2>5, <2>6
<1>5. CASE TakeDrops(t)
  <2> DEFINE todo == [i \in 1..Len(todrop) |-> Part("drop", {todrop[i]})]
  <2>1. todo \in Seq(Parts) /\ (todo = <<>> <=> todrop = <<>>)
    <3>1. Len(todrop) \in Nat
      BY <1>0
    <3>2. \A i \in 1..Len(todrop) : Part("drop", {todrop[i]}) \in Parts
      <4> SUFFICES ASSUME NEW i \in 1..Len(todrop) PROVE Part("drop", {todrop[i]}) \in Parts
        OBVIOUS
      <4>1. todrop[i] \in Nat
        BY <1>0
      <4> QED
        BY <4>1 DEF Part, Parts, Bodies
    <3> QED
      BY <3>1, <3>2
  <2>2. /\ draft'[t] = [draft[t] EXCEPT !.todo = todo]
        /\ pc'[t] = IF todrop = <<>> THEN "head" ELSE "id"
    BY <1>0, <1>5 DEF TakeDrops, Goto
  <2> HIDE DEF todo
  <2> QED
    BY <1>0, <2>1, <2>2 DEF Draft
<1>6. CASE BeginHead(t)
  <2> DEFINE todo == IF Made(t) = <<>> THEN <<Query>> ELSE <<Container>>
  <2>1. todo \in Seq(Parts) /\ todo # <<>>
    <3>1. Query \in Parts /\ Container \in Parts
      BY DEF Query, Container, Part, Parts, Bodies
    <3> QED
      BY <3>1
  <2>2. /\ draft'[t] = [draft[t] EXCEPT !.ssid = ssid, !.todo = todo]
        /\ pc'[t] = "id"
    BY <1>0, <1>6 DEF BeginHead, Goto, Made
  <2> HIDE DEF todo
  <2> QED
    BY <1>0, <2>1, <2>2 DEF Draft
<1>7. CASE Encrypt(t)
  BY <1>0, <1>7 DEF Encrypt, Goto, Draft
<1>8. CASE Send(t) \/ SendFails(t)
  <2>1. draft'[t] = NoDraft /\ pc'[t] = "idle"
    BY <1>0, <1>8 DEF Send, SendFails, Goto
  <2> QED
    BY <2>1 DEF NoDraft, Draft
<1> QED
  BY <1>1, <1>2, <1>3, <1>4, <1>5, <1>6, <1>7, <1>8 DEF Build

LEMMA PacketType ==
  ASSUME IInv, NEW t \in Senders PROVE Packet(t) \in Packets
<1>1. draft[t].messages \in Seq(Messages) /\ draft[t].ssid \in Nat /\ draft[t].key \in Nat
      /\ msgid[t] \in Nat
  BY DEF IInv, TypeOK
<1> QED
  BY <1>1 DEF Packet, Packets

LEMMA TypeStep ==
  ASSUME IInv, NEW t \in Senders, CheckKey(t) \/ Build(t) PROVE TypeOK'
<1>0. TypeOK
  BY DEF IInv
<1>1. /\ pc' \in [Senders -> {"idle", "wantkey", "reset", "session", "wantsession", "acks",
                              "id", "seqno", "drops", "head", "encrypt", "send"}]
  BY <1>0 DEF TypeOK, CheckKey, Build, CreateKey, ResetSeqn, CheckSession, CreateSession, TakeAcks, StampId,
         StampSeqno, TakeDrops, BeginHead, Encrypt, Send, SendFails, Goto, AfterPart
<1>2. /\ draft' \in [Senders -> Draft]
      /\ \A u \in Senders : pc'[u] \in {"id", "seqno"} <=> draft'[u].todo # <<>>
  <2>1. draft' = [u \in Senders |-> draft'[u]]
    BY <1>0 DEF TypeOK, CheckKey, Build, CreateKey, ResetSeqn, CheckSession, CreateSession, TakeAcks, StampId,
           StampSeqno, TakeDrops, BeginHead, Encrypt, Send, SendFails, sharedVars
  <2>2. ASSUME NEW u \in Senders
        PROVE  draft'[u] \in Draft /\ (pc'[u] \in {"id", "seqno"} <=> draft'[u].todo # <<>>)
    <3>1. CASE u = t
      BY <3>1, DraftStep
    <3>2. CASE u # t
      BY <1>0, <3>2, Frame DEF Draft, TypeOK
    <3> QED
      BY <3>1, <3>2
  <2> QED
    BY <2>1, <2>2
<1>3. msgid' \in [Senders -> Nat]
  <2>1. Made(t) # <<>> => Made(t)[1].id \in Nat
    <3>1. Made(t) \in Seq(Messages)
      BY <1>0 DEF Made, TypeOK
    <3>2. Made(t) # <<>> => Made(t)[1] \in Messages
      BY <3>1
    <3> QED
      BY <3>2 DEF Messages
  <2>0. msgid \in [Senders -> Nat] /\ clock \in Nat
    BY <1>0, Numbers DEF TypeOK
  <2>2. CASE TakeAcks(t)
    BY <2>0, <2>2 DEF TakeAcks
  <2>3. CASE StampId(t)
    <3>1. clock' \in Nat
      BY <2>0, <2>3 DEF StampId
    <3> QED
      BY <2>0, <2>3, <3>1 DEF StampId
  <2>4. CASE BeginHead(t)
    BY <2>0, <2>1, <2>4 DEF BeginHead, Made
  <2>5. CASE UNCHANGED msgid
    BY <2>0, <2>5
  <2> QED
    BY <2>2, <2>3, <2>4, <2>5 DEF CheckKey, Build, CreateKey, ResetSeqn, CheckSession, CreateSession,
       StampSeqno, TakeDrops, Encrypt, Send, SendFails
<1>4. {clock', seqn', key', ssid', arrived', unwanted'} \subseteq Nat /\ setback' \in BOOLEAN
  <2>1. clock' \in {clock, clock + 1} /\ seqn' \in {seqn, seqn + 1, FirstSeqn}
        /\ key' \in {key, key + 1} /\ ssid' \in {ssid, ssid + 1}
        /\ UNCHANGED <<arrived, unwanted>>
    BY DEF CheckKey, Build, CreateKey, ResetSeqn, CheckSession, CreateSession, TakeAcks,
       StampId, StampSeqno, TakeDrops, BeginHead, Encrypt, Send, SendFails, sharedVars
  <2> QED
    <3>1. FirstSeqn \in Nat
      BY SessionAssumption
    <3>2. clock' \in Nat /\ seqn' \in Nat
      BY <1>0, <2>1, <3>1, Numbers
    <3>4. setback' \in BOOLEAN
      BY <1>0 DEF TypeOK, CheckKey, Build, CreateKey, ResetSeqn, CheckSession, CreateSession,
         TakeAcks, StampId, StampSeqno, TakeDrops, BeginHead, Encrypt, Send, SendFails, sharedVars
    <3>3. key' \in Nat /\ ssid' \in Nat /\ arrived' \in Nat /\ unwanted' \in Nat
      BY <1>0, <2>1, Numbers
    <3> QED
      BY <3>2, <3>3, <3>4
<1>5. msgids' \in SUBSET (1..arrived') /\ todrop' \in Seq(1..unwanted')
      /\ todropm' \in Senders \union {Nobody}
  <2>1. /\ msgids' \in {msgids, {}} /\ UNCHANGED <<arrived, unwanted>>
        /\ todrop' \in {todrop, <<>>} /\ todropm' \in {todropm, t, Nobody}
    BY DEF CheckKey, Build, CreateKey, ResetSeqn, CheckSession, CreateSession, TakeAcks, StampId,
           StampSeqno, TakeDrops, BeginHead, Encrypt, Send, SendFails, sharedVars
  <2>2. <<>> \in Seq(1..unwanted)
    OBVIOUS
  <2> QED
    BY <1>0, <2>1, <2>2 DEF TypeOK
<1>6. wire' \union lost' \subseteq Packets
  <2>1. wire' \union lost' \subseteq (wire \union lost) \union {Packet(t)}
    BY DEF CheckKey, Build, CreateKey, ResetSeqn, CheckSession, CreateSession, TakeAcks, StampId,
           StampSeqno, TakeDrops, BeginHead, Encrypt, Send, SendFails, sharedVars
  <2> QED
    BY <1>0, <2>1, PacketType DEF TypeOK
<1> QED
  BY <1>1, <1>2, <1>3, <1>4, <1>5, <1>6 DEF Draft, TypeOK

-----------------------------------------------------------------------------
(* What each step makes of a packet.                                       *)

LEMMA DraftType ==
  ASSUME IInv, NEW t \in Senders
  PROVE  /\ Made(t) \in Seq(Messages) /\ Todo(t) \in Seq(Parts)
         /\ draft[t] \in Draft /\ draft \in [Senders -> Draft]
         /\ DOMAIN pc = Senders /\ DOMAIN msgid = Senders
         /\ draft[t].id \in Nat /\ msgid[t] \in Nat
         /\ pc[t] \in {"id", "seqno"} <=> Todo(t) # <<>>
  BY DEF IInv, TypeOK, Made, Todo, Draft

\* The step of a thread that has nothing in its packet yet.
Quiet(t) == CheckKey(t) \/ CreateKey(t) \/ ResetSeqn(t) \/ CheckSession(t) \/ CreateSession(t)

LEMMA QuietStep ==
  ASSUME IInv, NEW t \in Senders, Quiet(t)
  PROVE  /\ pc[t] \in Early /\ pc'[t] \in Early
         /\ UNCHANGED <<draft, msgid, clock, wire, lost>>
  BY DraftType DEF Quiet, CheckKey, CreateKey, ResetSeqn, CheckSession, CreateSession, Goto, Early,
                   sharedVars

LEMMA TakeAcksStep ==
  ASSUME IInv, NEW t \in Senders, TakeAcks(t)
  PROVE  /\ pc[t] = "acks" /\ Made(t) = <<>> /\ Made(t)' = <<>>
         /\ \/ msgids = {} /\ Todo(t)' = <<>> /\ pc'[t] = "head"
            \/ /\ msgids # {} /\ pc'[t] = "id"
               /\ Todo(t)' = <<Query, Part("acks", msgids)>>
         /\ UNCHANGED <<clock, wire, lost>>
<1>1. pc[t] = "acks" /\ Made(t) = <<>>
  BY DEF TakeAcks, IInv, ShapeInv, Shape, Early
<1>2. draft'[t].messages = draft[t].messages
      /\ draft'[t].todo = IF msgids = {} THEN <<>> ELSE <<Query, Part("acks", msgids)>>
  <2>1. CASE msgids = {}
    <3>1. draft'[t] = [draft[t] EXCEPT !.todo = <<>>]
      BY <2>1, DraftType DEF TakeAcks
    <3> QED
      BY <2>1, <3>1, DraftType DEF Draft
  <2>2. CASE msgids # {}
    <3>1. draft'[t] = [draft[t] EXCEPT !.todo = <<Query, Part("acks", msgids)>>]
      BY <2>2, DraftType DEF TakeAcks
    <3> QED
      BY <2>2, <3>1, DraftType DEF Draft
  <2> QED
    BY <2>1, <2>2
<1>3. pc'[t] = IF msgids = {} THEN "head" ELSE "id"
  BY DraftType DEF TakeAcks, Goto
<1> QED
  BY <1>1, <1>2, <1>3 DEF TakeAcks, Made, Todo, sharedVars

LEMMA StampIdStep ==
  ASSUME IInv, NEW t \in Senders, StampId(t)
  PROVE  /\ pc[t] = "id" /\ pc'[t] = "seqno" /\ Todo(t) # <<>>
         /\ Made(t)' = Made(t) /\ Todo(t)' = Todo(t)
         /\ clock' \in {clock, clock + 1} /\ draft'[t].id = clock'
         /\ msgid'[t] = IF Todo(t) = <<Query>> THEN clock' ELSE msgid[t]
         /\ UNCHANGED <<wire, lost>>
<1>1. draft'[t] = [draft[t] EXCEPT !.id = clock']
  BY DraftType DEF StampId
<1>2. draft'[t].id = clock' /\ draft'[t].todo = draft[t].todo
      /\ draft'[t].messages = draft[t].messages
  BY <1>1, DraftType DEF Draft
<1> QED
  BY <1>2, DraftType DEF StampId, Goto, Made, Todo, sharedVars

LEMMA StampSeqnoStep ==
  ASSUME IInv, NEW t \in Senders, StampSeqno(t)
  PROVE  LET part == Todo(t)[1]
             rest == Tail(Todo(t))
             n == Len(Made(t)) + 1
         IN
         /\ pc[t] = "seqno" /\ Todo(t) # <<>> /\ Todo(t)' = rest
         /\ pc'[t] = AfterPart(part, rest)
         /\ part \in Parts /\ Stamped(part, draft[t].id, seqn) \in Messages
         /\ Made(t)' = Append(Made(t), Stamped(part, draft[t].id, seqn))
         /\ n \in Nat \ {0} /\ Len(Made(t)') = n /\ Made(t)'[n] = Stamped(part, draft[t].id, seqn)
         /\ \A i \in 1..(n - 1) : Made(t)'[i] = Made(t)[i]
         /\ draft'[t].id = draft[t].id
         /\ seqn' = IF Content(part) THEN seqn + 1 ELSE seqn
         /\ UNCHANGED <<msgid, clock, setback, key, wire, lost>>
<1> DEFINE part == Todo(t)[1]
           rest == Tail(Todo(t))
           m == Stamped(part, draft[t].id, seqn)
<1>1. pc[t] = "seqno" /\ Todo(t) # <<>> /\ Todo(t) \in Seq(Parts)
  BY DraftType DEF StampSeqno
<1>2. part = Head(Todo(t)) /\ part \in Parts
  BY <1>1
<1>3. draft'[t] = [draft[t] EXCEPT !.todo = rest, !.messages = Append(Made(t), m)]
  BY <1>2, DraftType DEF StampSeqno, Made, Todo
<1>4. draft'[t].todo = rest /\ draft'[t].messages = Append(Made(t), m)
      /\ draft'[t].id = draft[t].id
  BY <1>3, DraftType DEF Draft
<1>5. m \in Messages
  <2>1. seqn \in Nat /\ draft[t].id \in Nat
    BY Numbers, DraftType DEF IInv
  <2>2. 2 * seqn \in Nat /\ 2 * seqn + 1 \in Nat
    BY <2>1
  <2> QED
    BY <1>2, <2>1, <2>2 DEF Stamped, Messages, Parts
<1>6. /\ Len(Append(Made(t), m)) = Len(Made(t)) + 1 /\ Len(Made(t)) \in Nat
      /\ Append(Made(t), m)[Len(Made(t)) + 1] = m
      /\ \A i \in 1..Len(Made(t)) : Append(Made(t), m)[i] = Made(t)[i]
  BY <1>5, DraftType
<1>7. pc'[t] = AfterPart(part, rest)
  BY <1>2, DraftType DEF StampSeqno, Goto, Todo
<1>8. seqn' = IF Content(part) THEN seqn + 1 ELSE seqn
  BY <1>2 DEF StampSeqno, Todo
<1>9. UNCHANGED <<msgid, clock, setback, key, wire, lost>>
  BY DEF StampSeqno
<1> HIDE DEF m
<1>10. Made(t)' = Append(Made(t), m) /\ Todo(t)' = rest
  BY <1>4 DEF Made, Todo
<1>11. /\ Len(Made(t)') = Len(Made(t)) + 1 /\ Made(t)'[Len(Made(t)) + 1] = m
       /\ \A i \in 1..Len(Made(t)) : Made(t)'[i] = Made(t)[i]
  BY <1>6, <1>10
<1> QED
  BY <1>1, <1>2, <1>4, <1>5, <1>6, <1>7, <1>8, <1>9, <1>10, <1>11 DEF m

LEMMA TakeDropsStep ==
  ASSUME IInv, NEW t \in Senders, TakeDrops(t)
  PROVE  /\ pc[t] = "drops" /\ Todo(t) = <<>> /\ Made(t) # <<>> /\ Made(t)' = Made(t)
         /\ Todo(t)' = [i \in 1..Len(todrop) |-> Part("drop", {todrop[i]})]
         /\ pc'[t] = IF todrop = <<>> THEN "head" ELSE "id"
         /\ UNCHANGED <<msgid, clock, wire, lost>>
<1>1. draft'[t] = [draft[t] EXCEPT !.todo = [i \in 1..Len(todrop) |-> Part("drop", {todrop[i]})]]
  BY DraftType DEF TakeDrops
<1>2. draft'[t].messages = draft[t].messages
      /\ draft'[t].todo = [i \in 1..Len(todrop) |-> Part("drop", {todrop[i]})]
  BY <1>1, DraftType DEF Draft
<1>3. pc[t] = "drops" /\ Todo(t) = <<>> /\ Made(t) # <<>>
  BY DraftType DEF TakeDrops, IInv, ShapeInv, Shape
<1> QED
  BY <1>2, <1>3, DraftType DEF TakeDrops, Goto, Made, Todo

LEMMA BeginHeadStep ==
  ASSUME IInv, NEW t \in Senders, BeginHead(t)
  PROVE  /\ pc[t] = "head" /\ pc'[t] = "id" /\ Todo(t) = <<>> /\ Made(t)' = Made(t)
         /\ Todo(t)' = IF Made(t) = <<>> THEN <<Query>> ELSE <<Container>>
         /\ msgid'[t] = IF Made(t) = <<>> THEN msgid[t] ELSE Made(t)[1].id
         /\ UNCHANGED <<clock, wire, lost>>
<1> DEFINE todo == IF Made(t) = <<>> THEN <<Query>> ELSE <<Container>>
<1>1. draft'[t] = [draft[t] EXCEPT !.ssid = ssid, !.todo = todo]
  BY DraftType DEF BeginHead, Made
<1> HIDE DEF todo
<1>2. draft'[t].messages = draft[t].messages /\ draft'[t].todo = todo
  BY <1>1, DraftType DEF Draft
<1>3. pc[t] = "head" /\ Todo(t) = <<>>
  BY DraftType DEF BeginHead
<1>4. msgid'[t] = IF Made(t) = <<>> THEN msgid[t] ELSE Made(t)[1].id
  BY DraftType DEF BeginHead, Made
<1> QED
  BY <1>2, <1>3, <1>4, DraftType DEF BeginHead, Goto, Made, Todo, sharedVars, todo

LEMMA EncryptStep ==
  ASSUME IInv, NEW t \in Senders, Encrypt(t)
  PROVE  /\ pc[t] = "encrypt" /\ pc'[t] = "send" /\ Todo(t) = <<>>
         /\ Made(t)' = Made(t) /\ Todo(t)' = Todo(t)
         /\ UNCHANGED <<msgid, clock, wire, lost>>
<1>1. draft'[t] = [draft[t] EXCEPT !.key = key]
  BY DraftType DEF Encrypt
<1>2. draft'[t].messages = draft[t].messages /\ draft'[t].todo = draft[t].todo
  BY <1>1, DraftType DEF Draft
<1> QED
  BY <1>2, DraftType DEF Encrypt, Goto, Made, Todo, sharedVars

LEMMA SendStep ==
  ASSUME IInv, NEW t \in Senders, Send(t) \/ SendFails(t)
  PROVE  /\ pc[t] = "send" /\ pc'[t] = "idle" /\ Todo(t) = <<>> /\ Made(t) # <<>>
         /\ Made(t)' = <<>> /\ Todo(t)' = <<>>
         /\ Built' = Built \union {Packet(t)}
         /\ Packet(t).messages = Made(t) /\ Packet(t).msgid = msgid[t]
         /\ UNCHANGED <<msgid, clock, seqn, setback, key>>
<1>1. pc[t] = "send" /\ Todo(t) = <<>> /\ Made(t) # <<>>
  BY DraftType DEF Send, SendFails, IInv, ShapeInv, Shape
<1>2. draft'[t] = NoDraft /\ pc'[t] = "idle"
  BY DraftType DEF Send, SendFails, Goto
<1>3. Built' = Built \union {Packet(t)}
  BY DEF Send, SendFails, Built
<1> QED
  BY <1>1, <1>2, <1>3 DEF Send, SendFails, Made, Todo, Packet, NoDraft

-----------------------------------------------------------------------------
LEMMA ShapeStep ==
  ASSUME IInv, NEW t \in Senders, CheckKey(t) \/ Build(t) PROVE ShapeInv'
<1>0. Shape(t) /\ ShapeInv
  BY DEF IInv, ShapeInv
<1>1. \A u \in Senders \ {t} : Shape(u)'
  <2> SUFFICES ASSUME NEW u \in Senders \ {t} PROVE Shape(u)'
    OBVIOUS
  <2>1. Shape(u) /\ pc'[u] = pc[u] /\ draft'[u] = draft[u] /\ msgid'[u] = msgid[u]
    BY <1>0, Frame DEF ShapeInv, IInv
  <2> QED
    BY <2>1 DEF Shape, Made, Todo
<1>2. Shape(t)'
  <2>1. CASE Quiet(t)
    <3>1. pc[t] \in Early /\ pc'[t] \in Early /\ Made(t)' = Made(t)
      BY <2>1, QuietStep DEF Made
    <3> QED
      BY <1>0, <3>1 DEF Shape, Early
  <2>2. CASE TakeAcks(t)
    <3>1. /\ Made(t)' = <<>>
          /\ \/ pc'[t] = "head"
             \/ pc'[t] = "id" /\ Todo(t)' = <<Query, Part("acks", msgids)>>
      BY <2>2, TakeAcksStep
    <3> QED
      BY <3>1 DEF Shape, Early, Part
  <2>3. CASE StampId(t)
    <3>1. /\ pc[t] = "id" /\ pc'[t] = "seqno" /\ Made(t)' = Made(t) /\ Todo(t)' = Todo(t)
          /\ draft'[t].id = clock'
          /\ msgid'[t] = IF Todo(t) = <<Query>> THEN clock' ELSE msgid[t]
      BY <2>3, StampIdStep
    <3>2. Made(t) # <<>> => Todo(t) # <<Query>>
      BY <1>0, <3>1 DEF Shape, Query, Part
    <3> QED
      BY <1>0, <3>1, <3>2 DEF Shape, Early
  <2>4. CASE StampSeqno(t)
    <3> DEFINE part == Todo(t)[1]
               rest == Tail(Todo(t))
               m == Stamped(part, draft[t].id, seqn)
               n == Len(Made(t)) + 1
    <3>1. /\ pc[t] = "seqno" /\ Todo(t)' = rest /\ pc'[t] = AfterPart(part, rest)
          /\ Made(t)' # <<>> /\ msgid'[t] = msgid[t]
          /\ Made(t)'[1] = IF Made(t) = <<>> THEN m ELSE Made(t)[1]
      <4>1. /\ pc[t] = "seqno" /\ Todo(t)' = rest /\ pc'[t] = AfterPart(part, rest)
            /\ n \in Nat \ {0} /\ Len(Made(t)') = n /\ Made(t)'[n] = m
            /\ \A i \in 1..(n - 1) : Made(t)'[i] = Made(t)[i]
            /\ msgid'[t] = msgid[t]
        BY <2>4, StampSeqnoStep
      <4>2. Made(t) = <<>> <=> Len(Made(t)) = 0
        BY DraftType
      <4>3. Made(t)' # <<>>
        BY <4>1
      <4> HIDE DEF m
      <4>4. Made(t)'[1] = IF Made(t) = <<>> THEN m ELSE Made(t)[1]
        BY <4>1, <4>2
      <4> QED
        BY <4>1, <4>3, <4>4
    <3>2. /\ Todo(t) \in Seq(Parts) /\ Todo(t) # <<>>
          /\ Len(rest) = Len(Todo(t)) - 1 /\ rest \in Seq(Parts)
          /\ \A i \in 1..Len(rest) : rest[i] = Todo(t)[i + 1] /\ i + 1 \in 1..Len(Todo(t))
      BY <2>4, StampSeqnoStep, DraftType
    <3>6. part = Todo(t)[1] /\ m.body = part.body /\ m.id = draft[t].id
      BY DEF Stamped
    <3> HIDE DEF part, rest, m, n
    <3>3. pc'[t] \notin Early /\ pc'[t] # "seqno"
      BY <3>1 DEF AfterPart, Early
    <3>4. CASE Made(t) = <<>>
      <4>1. part = Query /\ Len(Todo(t)) \in 1..2
            /\ (Len(Todo(t)) = 2 => Todo(t)[2].body = "acks")
        BY <1>0, <3>1, <3>4, <3>6 DEF Shape
      <4>2. Made(t)'[1].body = "query" /\ Made(t)'[1].id = draft[t].id
        BY <3>1, <3>4, <3>6, <4>1 DEF Query, Part
      <4>3. CASE Len(Todo(t)) = 1
        <5>1. rest = <<>> /\ Todo(t) = <<Query>>
          <6>1. rest = <<>>
            BY <3>2, <4>3
          <6>2. Todo(t) = <<Todo(t)[1]>>
            BY <3>2, <4>3
          <6> QED
            BY <3>6, <4>1, <6>1, <6>2
        <5>2. pc'[t] = "encrypt"
          BY <3>1, <4>1, <5>1 DEF AfterPart, Query, Part
        <5>3. msgid[t] = draft[t].id
          BY <1>0, <3>1, <5>1 DEF Shape
        <5> QED
          BY <3>1, <4>2, <5>2, <5>3 DEF Shape, Early
      <4>4. CASE Len(Todo(t)) = 2
        <5>1. rest # <<>> /\ Len(rest) = 1 /\ rest[1].body = "acks"
          <6>1. Len(rest) = 1
            BY <3>2, <4>4
          <6>2. rest[1] = Todo(t)[2]
            BY <3>2, <6>1
          <6> QED
            BY <4>1, <4>4, <6>1, <6>2
        <5>2. pc'[t] = "id"
          BY <3>1, <5>1 DEF AfterPart
        <5> QED
          BY <3>1, <4>2, <5>1, <5>2 DEF Shape, Early
      <4> QED
        BY <4>1, <4>3, <4>4
    <3>5. CASE Made(t) # <<>>
      <4>1. /\ \A i \in 1..Len(Todo(t)) :
                 /\ Todo(t)[i].body # "query"
                 /\ Todo(t)[i].body = "container" => msgid[t] = Made(t)[1].id
            /\ Made(t)[1].body = "query"
        BY <1>0, <3>1, <3>5 DEF Shape
      <4>2. \A i \in 1..Len(rest) :
               /\ rest[i].body # "query"
               /\ rest[i].body = "container" => msgid'[t] = Made(t)'[1].id
        BY <3>1, <3>2, <3>5, <4>1
      <4>3. pc'[t] = "encrypt" => part.body = "container"
        <5>1. part \in Parts /\ 1 \in 1..Len(Todo(t))
          BY <3>2, <3>6
        <5>2. part.body \in Bodies /\ part.body # "query"
          BY <3>6, <4>1, <5>1 DEF Parts
        <5> QED
          BY <3>1, <5>2 DEF AfterPart, Bodies
      <4>4. pc'[t] = "encrypt" => msgid'[t] = Made(t)'[1].id
        BY <3>1, <3>2, <3>5, <3>6, <4>1, <4>3
      <4>5. pc'[t] # "send"
        BY <3>1 DEF AfterPart
      <4> QED
        BY <3>1, <3>3, <3>5, <4>1, <4>2, <4>4, <4>5 DEF Shape
    <3> QED
      BY <3>4, <3>5
  <2>5. CASE TakeDrops(t)
    <3>1. /\ Made(t) # <<>> /\ Made(t)' = Made(t) /\ pc'[t] \in {"head", "id"}
          /\ Todo(t)' = [i \in 1..Len(todrop) |-> Part("drop", {todrop[i]})]
      BY <2>5, TakeDropsStep
    <3>2. Len(todrop) \in Nat
      BY Numbers DEF IInv
    <3>3. \A i \in 1..Len(Todo(t)') : Todo(t)'[i].body = "drop"
      BY <3>1, <3>2 DEF Part
    <3> QED
      BY <1>0, <3>1, <3>3 DEF Shape, Early
  <2>6. CASE BeginHead(t)
    <3>1. /\ pc'[t] = "id" /\ Made(t)' = Made(t)
          /\ Todo(t)' = IF Made(t) = <<>> THEN <<Query>> ELSE <<Container>>
          /\ msgid'[t] = IF Made(t) = <<>> THEN msgid[t] ELSE Made(t)[1].id
      BY <2>6, BeginHeadStep
    <3> QED
      BY <1>0, <3>1 DEF Shape, Early, Query, Container, Part
  <2>7. CASE Encrypt(t)
    <3>1. /\ pc[t] = "encrypt" /\ pc'[t] = "send" /\ Made(t)' = Made(t)
          /\ msgid' = msgid
      BY <2>7, EncryptStep
    <3> QED
      BY <1>0, <3>1 DEF Shape, Early
  <2>8. CASE Send(t) \/ SendFails(t)
    <3>1. pc'[t] = "idle" /\ Made(t)' = <<>>
      BY <2>8, SendStep
    <3> QED
      BY <3>1 DEF Shape, Early
  <2> QED
    BY <2>1, <2>2, <2>3, <2>4, <2>5, <2>6, <2>7, <2>8 DEF Build, Quiet
<1>3. \A p \in Built' :
        /\ p.messages # <<>>
        /\ p.messages[1].body = "query" /\ p.messages[1].id = p.msgid
  <2>1. CASE UNCHANGED <<wire, lost>>
    BY <1>0, <2>1 DEF ShapeInv, Built
  <2>2. CASE Send(t) \/ SendFails(t)
    <3>1. /\ pc[t] = "send" /\ Made(t) # <<>> /\ Built' = Built \union {Packet(t)}
          /\ Packet(t).messages = Made(t) /\ Packet(t).msgid = msgid[t]
      BY <2>2, SendStep
    <3>2. Made(t)[1].body = "query" /\ msgid[t] = Made(t)[1].id
      BY <1>0, <3>1 DEF Shape
    <3> QED
      BY <1>0, <3>1, <3>2 DEF ShapeInv
  <2> QED
    BY <2>1, <2>2 DEF Build, CheckKey, CreateKey, ResetSeqn, CheckSession, CreateSession, TakeAcks, StampId,
       StampSeqno, TakeDrops, BeginHead, Encrypt, sharedVars
<1> QED
  BY <1>1, <1>2, <1>3 DEF ShapeInv, Built

-----------------------------------------------------------------------------
LEMMA OrderStep ==
  ASSUME IInv, NEW t \in Senders, CheckKey(t) \/ Build(t) PROVE OrderInv'
<1> DEFINE Ordered(u) ==
      /\ pc[u] = "seqno" => draft[u].id <= clock
      /\ \A i \in 1..Len(Made(u)) :
            Made(u)[i].id <= clock /\ (pc[u] = "seqno" => Made(u)[i].id <= draft[u].id)
      /\ Closing(Made(u))
<1>0. OrderInv /\ clock \in Nat /\ clock' \in {clock, clock + 1}
  BY Numbers DEF IInv, CheckKey, Build, CreateKey, ResetSeqn, CheckSession, CreateSession, TakeAcks,
     StampId, StampSeqno, TakeDrops, BeginHead, Encrypt, Send, SendFails, sharedVars
<1>1. ASSUME NEW u \in Senders
      PROVE  Len(Made(u)) \in Nat /\ \A i \in 1..Len(Made(u)) : Made(u)[i].id \in Nat
  <2>1. Made(u) \in Seq(Messages)
    BY DraftType
  <2>2. Len(Made(u)) \in Nat /\ \A i \in 1..Len(Made(u)) : Made(u)[i] \in Messages
    BY <2>1
  <2> QED
    BY <2>2 DEF Messages
<1>2. \A u \in Senders \ {t} : Ordered(u)'
  <2> SUFFICES ASSUME NEW u \in Senders \ {t} PROVE Ordered(u)'
    OBVIOUS
  <2>1. pc'[u] = pc[u] /\ draft'[u] = draft[u] /\ Ordered(u)
    BY <1>0, Frame DEF OrderInv, IInv
  <2>2. Made(u)' = Made(u) /\ draft[u].id \in Nat
    BY <2>1, DraftType DEF Made
  <2> QED
    BY <1>0, <1>1, <2>1, <2>2
<1>3. Ordered(t)'
  <2>0. Ordered(t)
    BY <1>0 DEF OrderInv
  <2>1. CASE Made(t)' = <<>> /\ pc'[t] # "seqno"
    BY <2>1 DEF Closing
  <2>2. CASE StampId(t)
    <3>1. /\ pc[t] = "id" /\ pc'[t] = "seqno" /\ Made(t)' = Made(t)
          /\ clock' \in {clock, clock + 1} /\ draft'[t].id = clock'
      BY <2>2, StampIdStep
    <3> QED
      BY <1>0, <1>1, <2>0, <3>1
  <2>3. CASE StampSeqno(t)
    <3> DEFINE n == Len(Made(t)) + 1
               m == Stamped(Todo(t)[1], draft[t].id, seqn)
    <3>1. /\ pc[t] = "seqno" /\ n \in Nat \ {0} /\ Len(Made(t)') = n /\ Made(t)'[n] = m
          /\ \A i \in 1..(n - 1) : Made(t)'[i] = Made(t)[i]
          /\ draft'[t].id = draft[t].id /\ UNCHANGED clock
          /\ pc'[t] # "seqno"
      BY <2>3, StampSeqnoStep DEF AfterPart
    <3>2. m.id = draft[t].id
      BY DEF Stamped
    <3> HIDE DEF m
    <3> QED
      BY <1>0, <1>1, <2>0, <3>1, <3>2 DEF Closing
  <2>4. CASE TakeDrops(t) \/ BeginHead(t) \/ Encrypt(t)
    <3>1. Made(t)' = Made(t) /\ pc'[t] # "seqno" /\ UNCHANGED clock
      BY <2>4, TakeDropsStep, BeginHeadStep, EncryptStep
    <3> QED
      BY <2>0, <3>1
  <2>5. CASE Quiet(t)
    <3>1. pc[t] \in Early /\ pc'[t] \in Early /\ Made(t)' = Made(t)
      BY <2>5, QuietStep DEF Made
    <3>2. Made(t) = <<>>
      BY <3>1 DEF IInv, ShapeInv, Shape
    <3> QED
      BY <2>1, <3>1, <3>2 DEF Early
  <2>6. CASE TakeAcks(t)
    BY <2>1, <2>6, TakeAcksStep
  <2>7. CASE Send(t) \/ SendFails(t)
    BY <2>1, <2>7, SendStep
  <2> QED
    BY <2>2, <2>3, <2>4, <2>5, <2>6, <2>7 DEF Build, Quiet
<1>4. \A p \in Built' : Closing(p.messages)
  <2>1. CASE Built' = Built
    BY <1>0, <2>1 DEF OrderInv
  <2>2. CASE Send(t) \/ SendFails(t)
    <3>1. Built' = Built \union {Packet(t)} /\ Packet(t).messages = Made(t)
      BY <2>2, SendStep
    <3>2. Closing(Made(t))
      BY <1>0 DEF OrderInv
    <3> QED
      BY <1>0, <3>1, <3>2 DEF OrderInv
  <2> QED
    BY <2>1, <2>2 DEF Build, CheckKey, CreateKey, ResetSeqn, CheckSession, CreateSession, TakeAcks, StampId,
       StampSeqno, TakeDrops, BeginHead, Encrypt, sharedVars, Built
<1> QED
  BY <1>2, <1>3, <1>4 DEF OrderInv

\* Only two steps change what is in a packet, or was built.
LEMMA MadeKept ==
  ASSUME IInv, NEW t \in Senders, CheckKey(t) \/ Build(t),
         ~StampSeqno(t), ~Send(t), ~SendFails(t)
  PROVE  /\ \A u \in Senders : Made(u)' = Made(u)
         /\ Built' = Built
         /\ ResetSeqn(t) \/ UNCHANGED <<setback, seqn>>
<1>1. \A u \in Senders \ {t} : Made(u)' = Made(u)
  BY Frame DEF IInv, Made
<1>2. Made(t)' = Made(t)
  <2>1. CASE Quiet(t)
    BY <2>1, QuietStep DEF Made
  <2>2. CASE TakeAcks(t)
    BY <2>2, TakeAcksStep
  <2>3. CASE StampId(t) \/ TakeDrops(t) \/ BeginHead(t) \/ Encrypt(t)
    BY <2>3, StampIdStep, TakeDropsStep, BeginHeadStep, EncryptStep
  <2> QED
    BY <2>1, <2>2, <2>3 DEF Build, Quiet
<1>3. Built' = Built /\ (ResetSeqn(t) \/ UNCHANGED <<setback, seqn>>)
  BY DEF Build, CheckKey, CreateKey, ResetSeqn, CheckSession, CreateSession, TakeAcks, StampId,
         TakeDrops, BeginHead, Encrypt, sharedVars, Built
<1> QED
  BY <1>1, <1>2, <1>3

LEMMA SeqnoStep ==
  ASSUME IInv, NEW t \in Senders, CheckKey(t) \/ Build(t) PROVE SeqnoInv'
<1>0. SeqnoInv /\ seqn \in Nat /\ key \in Nat
  BY Numbers DEF IInv
<1>1. CASE StampSeqno(t)
  <2> SUFFICES ASSUME ~setback' PROVE SeqnoInv'
    BY DEF SeqnoInv
  <2> DEFINE part == Todo(t)[1]
             n == Len(Made(t)) + 1
             m == Stamped(part, draft[t].id, seqn)
  <2>1. /\ n \in Nat \ {0} /\ Len(Made(t)') = n /\ Made(t)'[n] = m
        /\ \A i \in 1..(n - 1) : Made(t)'[i] = Made(t)[i]
        /\ seqn' = IF Content(part) THEN seqn + 1 ELSE seqn
        /\ UNCHANGED <<setback, wire, lost>>
    BY <1>1, StampSeqnoStep
  <2>2. \A u \in Senders \ {t} : Made(u)' = Made(u)
    BY Frame DEF IInv, Made
  <2>3. Built' = Built
    BY <2>1 DEF Built
  <2>4. /\ Content(m) <=> Content(part)
        /\ m.seqno = IF Content(part) THEN 2 * seqn + 1 ELSE 2 * seqn
        /\ 2 * seqn \in Nat
    BY <1>0 DEF Content, Stamped
  <2>5. 2 * seqn' = (IF Content(part) THEN 2 * seqn + 2 ELSE 2 * seqn)
    BY <1>0, <2>1
  <2> HIDE DEF m, part
  <2>6. /\ \A u \in Senders : Rising(Made(u)) /\ Below(Made(u), 2 * seqn)
        /\ \A p \in Built : Rising(p.messages) /\ Below(p.messages, 2 * seqn)
    BY <1>0, <2>1 DEF SeqnoInv
  <2>7. /\ \A u \in Senders : \A i \in 1..Len(Made(u)) : Made(u)[i].seqno \in Nat
        /\ \A p \in Built : \A i \in 1..Len(p.messages) : p.messages[i].seqno \in Nat
    <3>1. ASSUME NEW s \in Seq(Messages), NEW i \in 1..Len(s) PROVE s[i].seqno \in Nat
      <4>1. s[i] \in Messages
        OBVIOUS
      <4> QED
        BY <4>1 DEF Messages
    <3>2. \A p \in Built : p.messages \in Seq(Messages)
      BY DEF IInv, TypeOK, Packets, Built
    <3> QED
      BY <3>1, <3>2, DraftType
  <2>8. \A u \in Senders \ {t} : Rising(Made(u)') /\ Below(Made(u)', 2 * seqn')
    <3> SUFFICES ASSUME NEW u \in Senders \ {t}
                 PROVE  Rising(Made(u)) /\ Below(Made(u), 2 * seqn')
      BY <2>2
    <3> QED
      BY <2>4, <2>5, <2>6, <2>7 DEF Below
  <2>9. \A p \in Built : Rising(p.messages) /\ Below(p.messages, 2 * seqn')
    BY <2>4, <2>5, <2>6, <2>7 DEF Below
  <2>10. Rising(Made(t)') /\ Below(Made(t)', 2 * seqn')
    <3>1. \A i \in 1..(n - 1) :
             /\ Made(t)[i].seqno \in Nat /\ Made(t)[i].seqno <= 2 * seqn
             /\ Content(Made(t)[i]) => Made(t)[i].seqno < 2 * seqn
      BY <2>1, <2>6, <2>7 DEF Below
    <3>2. m.seqno <= 2 * seqn' /\ (Content(m) => m.seqno < 2 * seqn')
          /\ 2 * seqn <= 2 * seqn' /\ 2 * seqn' \in Nat /\ 2 * seqn <= m.seqno /\ m.seqno \in Nat
      BY <2>4, <2>5
    <3>3. Rising(Made(t)')
      BY <2>1, <2>4, <3>1, <3>2 DEF Rising
    <3>4. \A i \in 1..(n - 1) :
             /\ Made(t)[i].seqno <= 2 * seqn'
             /\ Content(Made(t)[i]) => Made(t)[i].seqno < 2 * seqn'
      BY <2>4, <3>1, <3>2
    <3>5. Below(Made(t)', 2 * seqn')
      BY <2>1, <3>2, <3>4 DEF Below
    <3> QED
      BY <3>3, <3>5
  <2>11. ASSUME NEW u \in Senders, NEW i \in 1..Len(Made(t)'), NEW j \in 1..Len(Made(u)'),
                Clash(Made(t)', i, Made(u)', j)
         PROVE  t = u /\ i = j
    <3>1. CASE i \in 1..(n - 1)
      <4>1. Made(t)'[i] = Made(t)[i] /\ i \in 1..Len(Made(t))
        BY <2>1, <3>1
      <4>2. CASE u = t /\ j = n
        BY <2>1, <2>4, <2>6, <2>7, <4>1, <4>2, <2>11 DEF Below, Clash
      <4>3. CASE u = t /\ j \in 1..(n - 1)
        <5>1. Made(u)'[j] = Made(u)[j] /\ j \in 1..Len(Made(u))
          BY <2>1, <4>3
        <5>2. Clash(Made(t), i, Made(u), j)
          BY <2>11, <4>1, <5>1 DEF Clash
        <5> QED
          BY <1>0, <2>1, <4>1, <5>1, <5>2 DEF SeqnoInv
      <4>4. CASE u # t
        <5>1. Made(u)' = Made(u)
          BY <2>2, <4>4
        <5>2. Clash(Made(t), i, Made(u), j)
          BY <2>11, <4>1, <5>1 DEF Clash
        <5> QED
          BY <1>0, <2>1, <4>1, <5>1, <5>2 DEF SeqnoInv
      <4> QED
        BY <2>1, <4>2, <4>3, <4>4
    <3>2. CASE i = n
      <4>1. Made(t)'[i] = m
        BY <2>1, <3>2
      <4>2. Content(part) /\ m.seqno = 2 * seqn + 1
        BY <2>4, <2>11, <4>1 DEF Clash
      <4>3. CASE u = t /\ j = n
        BY <3>2, <4>3
      <4>4. CASE u = t /\ j \in 1..(n - 1)
        <5>1. Made(u)'[j] = Made(u)[j] /\ j \in 1..Len(Made(u))
          BY <2>1, <4>4
        <5> QED
          BY <2>4, <2>6, <2>7, <2>11, <4>1, <4>2, <5>1 DEF Below, Clash
      <4>5. CASE u # t
        <5>1. Made(u)' = Made(u)
          BY <2>2, <4>5
        <5> QED
          BY <2>4, <2>6, <2>7, <2>11, <4>1, <4>2, <5>1 DEF Below, Clash
      <4> QED
        BY <2>1, <4>3, <4>4, <4>5
    <3> QED
      BY <2>1, <3>1, <3>2
  <2>12. ASSUME NEW p \in Built, NEW i \in 1..Len(Made(t)'), NEW j \in 1..Len(p.messages)
         PROVE  ~Clash(Made(t)', i, p.messages, j)
    <3>1. CASE i \in 1..(n - 1)
      <4>1. Made(t)'[i] = Made(t)[i] /\ i \in 1..Len(Made(t))
        BY <2>1, <3>1
      <4>2. ~Clash(Made(t), i, p.messages, j)
        BY <1>0, <2>1, <4>1 DEF SeqnoInv
      <4> QED
        BY <4>1, <4>2 DEF Clash
    <3>2. CASE i = n
      <4>1. Made(t)'[i] = m
        BY <2>1, <3>2
      <4> QED
        BY <2>4, <2>6, <2>7, <4>1 DEF Below, Clash
    <3> QED
      BY <2>1, <3>1, <3>2
  <2>13. \A u, v \in Senders : \A i \in 1..Len(Made(u)'), j \in 1..Len(Made(v)') :
            Clash(Made(u)', i, Made(v)', j) => u = v /\ i = j
    <3> SUFFICES ASSUME NEW u \in Senders, NEW v \in Senders,
                        NEW i \in 1..Len(Made(u)'), NEW j \in 1..Len(Made(v)'),
                        Clash(Made(u)', i, Made(v)', j)
                 PROVE  u = v /\ i = j
      OBVIOUS
    <3>1. Clash(Made(v)', j, Made(u)', i)
      BY DEF Clash
    <3>2. CASE u = t
      BY <2>11, <3>2
    <3>3. CASE v = t
      BY <2>11, <3>1, <3>3
    <3>4. CASE u # t /\ v # t
      <4>1. Made(u)' = Made(u) /\ Made(v)' = Made(v)
        BY <2>2, <3>4
      <4>2. Clash(Made(u), i, Made(v), j)
        BY <4>1
      <4> QED
        BY <1>0, <2>1, <4>1, <4>2 DEF SeqnoInv
    <3> QED
      BY <3>2, <3>3, <3>4
  <2>14. \A u \in Senders, p \in Built : \A i \in 1..Len(Made(u)'), j \in 1..Len(p.messages) :
            ~Clash(Made(u)', i, p.messages, j)
    <3> SUFFICES ASSUME NEW u \in Senders, NEW p \in Built, u # t
                 PROVE  \A i \in 1..Len(Made(u)'), j \in 1..Len(p.messages) :
                           ~Clash(Made(u)', i, p.messages, j)
      BY <2>12
    <3>1. Made(u)' = Made(u)
      BY <2>2
    <3> QED
      BY <1>0, <2>1, <3>1 DEF SeqnoInv
  <2>15. \A p, r \in Built : \A i \in 1..Len(p.messages), j \in 1..Len(r.messages) :
            Clash(p.messages, i, r.messages, j) => p = r /\ i = j
    BY <1>0, <2>1 DEF SeqnoInv
  <2> QED
    BY <2>3, <2>8, <2>9, <2>10, <2>13, <2>14, <2>15 DEF SeqnoInv, Rising, Below, Clash
<1>2. CASE Send(t) \/ SendFails(t)
  <2> SUFFICES ASSUME ~setback PROVE SeqnoInv'
    BY <1>2, SendStep DEF SeqnoInv
  <2>1. /\ Made(t)' = <<>> /\ Built' = Built \union {Packet(t)}
        /\ Packet(t).messages = Made(t) /\ UNCHANGED <<seqn, setback>>
    BY <1>2, SendStep
  <2>2. \A u \in Senders \ {t} : Made(u)' = Made(u)
    BY Frame DEF IInv, Made
  <2>3. /\ \A u \in Senders : Rising(Made(u)) /\ Below(Made(u), 2 * seqn)
        /\ \A p \in Built : Rising(p.messages) /\ Below(p.messages, 2 * seqn)
        /\ \A u, v \in Senders : \A i \in 1..Len(Made(u)), j \in 1..Len(Made(v)) :
              Clash(Made(u), i, Made(v), j) => u = v /\ i = j
        /\ \A u \in Senders, p \in Built :
              \A i \in 1..Len(Made(u)), j \in 1..Len(p.messages) :
                 ~Clash(Made(u), i, p.messages, j)
        /\ \A p, r \in Built : \A i \in 1..Len(p.messages), j \in 1..Len(r.messages) :
              Clash(p.messages, i, r.messages, j) => p = r /\ i = j
    BY <1>0 DEF SeqnoInv
  <2>4. \A u \in Senders : Made(u)' \in {Made(u), <<>>} /\ (u = t => Made(u)' = <<>>)
    BY <2>1, <2>2
  <2>5. \A u \in Senders : Rising(Made(u)') /\ Below(Made(u)', 2 * seqn)
    BY <2>3, <2>4 DEF Rising, Below
  <2>6. \A p \in Built' : Rising(p.messages) /\ Below(p.messages, 2 * seqn)
    BY <2>1, <2>3
  <2>7. \A u, v \in Senders : \A i \in 1..Len(Made(u)'), j \in 1..Len(Made(v)') :
            Clash(Made(u)', i, Made(v)', j) => u = v /\ i = j
    BY <2>3, <2>4
  <2>8. ASSUME NEW u \in Senders, NEW p \in Built', NEW i \in 1..Len(Made(u)'),
               NEW j \in 1..Len(p.messages), Clash(Made(u)', i, p.messages, j)
        PROVE  FALSE
    <3>1. u # t /\ Made(u)' = Made(u)
      BY <2>2, <2>4, <2>8
    <3>2. CASE p \in Built
      BY <2>3, <2>8, <3>1, <3>2
    <3>3. CASE p = Packet(t)
      BY <2>1, <2>3, <2>8, <3>1, <3>3
    <3> QED
      BY <2>1, <3>2, <3>3
  <2>9. ASSUME NEW p \in Built', NEW r \in Built', NEW i \in 1..Len(p.messages),
               NEW j \in 1..Len(r.messages), Clash(p.messages, i, r.messages, j)
        PROVE  p = r /\ i = j
    <3>0. Clash(r.messages, j, p.messages, i)
      BY <2>9 DEF Clash
    <3>1. CASE p = Packet(t) /\ r = Packet(t)
      BY <2>1, <2>3, <2>9, <3>1
    <3>2. CASE p = Packet(t) /\ r \in Built
      BY <2>1, <2>3, <2>9, <3>2
    <3>3. CASE p \in Built /\ r = Packet(t)
      BY <2>1, <2>3, <3>0, <3>3
    <3>4. CASE p \in Built /\ r \in Built
      BY <2>3, <2>9, <3>4
    <3> QED
      BY <2>1, <3>1, <3>2, <3>3, <3>4
  <2> QED
    BY <2>1, <2>5, <2>6, <2>7, <2>8, <2>9 DEF SeqnoInv, Rising, Below, Clash
<1>3. CASE ResetSeqn(t)
  <2> SUFFICES ASSUME ~setback' PROVE SeqnoInv'
    BY DEF SeqnoInv
  <2>1. /\ ~setback /\ seqn <= seqn' /\ seqn' \in Nat
    <3>1. /\ seqn' = FirstSeqn
          /\ setback' = (setback \/ FirstSeqn < seqn)
      BY <1>3 DEF ResetSeqn
    <3>2. ~setback /\ ~(FirstSeqn < seqn)
      BY <3>1, Zenon
    <3>3. FirstSeqn \in Nat
      BY SessionAssumption
    <3> QED
      BY <1>0, <3>1, <3>2, <3>3
  <2>2. /\ \A u \in Senders : Made(u)' = Made(u)
        /\ Built' = Built
    BY <1>3 DEF ResetSeqn, Made, Built
  <2>3. /\ \A u \in Senders : Made(u) \in Seq(Messages)
        /\ \A p \in Built : p.messages \in Seq(Messages)
    BY DraftType DEF IInv, TypeOK, Packets, Built
  <2>4. ASSUME NEW s \in Seq(Messages), Below(s, 2 * seqn) PROVE Below(s, 2 * seqn')
    <3> SUFFICES ASSUME NEW i \in 1..Len(s)
                 PROVE  /\ s[i].seqno <= 2 * seqn'
                        /\ Content(s[i]) => s[i].seqno < 2 * seqn'
      BY DEF Below
    <3>1. s[i] \in Messages
      OBVIOUS
    <3>2. s[i].seqno \in Nat
      BY <3>1 DEF Messages
    <3>3. s[i].seqno <= 2 * seqn /\ (Content(s[i]) => s[i].seqno < 2 * seqn)
      BY <2>4 DEF Below
    <3> QED
      BY <1>0, <2>1, <3>2, <3>3
  <2>5. /\ \A u \in Senders : Below(Made(u), 2 * seqn')
        /\ \A p \in Built : Below(p.messages, 2 * seqn')
    BY <1>0, <2>1, <2>3, <2>4 DEF SeqnoInv
  <2>6. /\ \A u \in Senders : Rising(Made(u)') /\ Below(Made(u)', 2 * seqn')
        /\ \A p \in Built : Rising(p.messages) /\ Below(p.messages, 2 * seqn')
    BY <1>0, <2>1, <2>2, <2>5 DEF SeqnoInv
  <2>7. /\ \A u, v \in Senders : \A i \in 1..Len(Made(u)), j \in 1..Len(Made(v)) :
              Clash(Made(u), i, Made(v), j) => u = v /\ i = j
        /\ \A u \in Senders, p \in Built :
              \A i \in 1..Len(Made(u)), j \in 1..Len(p.messages) :
                 ~Clash(Made(u), i, p.messages, j)
        /\ \A p, r \in Built : \A i \in 1..Len(p.messages), j \in 1..Len(r.messages) :
              Clash(p.messages, i, r.messages, j) => p = r /\ i = j
    BY <1>0, <2>1 DEF SeqnoInv
  <2> QED
    BY <2>2, <2>6, <2>7 DEF SeqnoInv, Rising, Below, Clash
<1>4. CASE ~StampSeqno(t) /\ ~Send(t) /\ ~SendFails(t) /\ ~ResetSeqn(t)
  <2>1. (\A u \in Senders : Made(u)' = Made(u)) /\ Built' = Built /\ UNCHANGED <<setback, seqn>>
    BY <1>4, MadeKept
  <2> QED
    BY <1>0, <2>1 DEF SeqnoInv, Rising, Below, Clash
<1> QED
  BY <1>1, <1>2, <1>3, <1>4

LEMMA ElementIn ==
  ASSUME NEW S, NEW s \in Seq(S), NEW i \in 1..Len(s) PROVE s[i] \in S
  OBVIOUS

-----------------------------------------------------------------------------
(* Where the arrivals and the unwanted answers are.                        *)

LEMMA Untouched ==
  ASSUME IInv, NEW t \in Senders, CheckKey(t) \/ Build(t), NEW u \in Senders, u # t, NEW b
  PROVE  Drafted(u, b)' = Drafted(u, b)
<1>1. draft'[u] = draft[u]
  BY Frame DEF IInv
<1> QED
  BY <1>1 DEF Drafted, Carried

\* The other steps leave what a thread has in hand.
LEMMA DraftedKept ==
  ASSUME IInv, NEW t \in Senders, NEW b,
         \/ Quiet(t) \/ StampId(t) \/ StampSeqno(t) \/ BeginHead(t) \/ Encrypt(t)
  PROVE  Drafted(t, b)' = Drafted(t, b)
<1>0. /\ Drafted(t, b) = Carried(Todo(t), b) \union Carried(Made(t), b)
      /\ Drafted(t, b)' = Carried(Todo(t)', b) \union Carried(Made(t)', b)
  BY DEF Drafted, Todo, Made, Carried
<1>1. CASE Quiet(t) \/ StampId(t) \/ Encrypt(t)
  <2>1. Todo(t)' = Todo(t) /\ Made(t)' = Made(t)
    BY <1>1, QuietStep, StampIdStep, EncryptStep DEF Todo, Made
  <2> QED
    BY <1>0, <2>1
<1>2. CASE BeginHead(t)
  <2>1. /\ Todo(t) = <<>> /\ Made(t)' = Made(t)
        /\ Todo(t)' = <<Query>> \/ Todo(t)' = <<Container>>
    BY <1>2, BeginHeadStep
  <2>2. Query.refs = {} /\ Container.refs = {}
    BY DEF Query, Container, Part
  <2>3. Carried(Todo(t)', b) = {} /\ Carried(Todo(t), b) = {}
    BY <2>1, <2>2, CarriedOne, CarriedEmpty
  <2> QED
    BY <1>0, <2>1, <2>3
<1>3. CASE StampSeqno(t)
  <2> DEFINE part == Todo(t)[1]
             m == Stamped(part, draft[t].id, seqn)
  <2>1. /\ Todo(t) # <<>> /\ Todo(t)' = Tail(Todo(t)) /\ m \in Messages
        /\ Made(t)' = Append(Made(t), m)
    BY <1>3, StampSeqnoStep
  <2>2. m.body = part.body /\ m.refs = part.refs
    BY DEF Stamped
  <2>3. Todo(t) \in Seq(Parts) /\ Made(t) \in Seq(Messages)
    BY DraftType
  <2>4. Head(Todo(t)) = part
    BY <2>1, <2>3
  <2> HIDE DEF m, part
  <2>5. Carried(Todo(t), b) = Carried(Tail(Todo(t)), b)
                                \union (IF part.body = b THEN part.refs ELSE {})
    BY <2>1, <2>3, <2>4, CarriedHead
  <2>6. Carried(Append(Made(t), m), b)
          = Carried(Made(t), b) \union (IF m.body = b THEN m.refs ELSE {})
    BY <2>1, <2>3, CarriedAppend
  <2>7. Carried(Todo(t)', b) = Carried(Tail(Todo(t)), b)
        /\ Carried(Made(t)', b) = Carried(Append(Made(t), m), b)
    BY <2>1
  <2> QED
    BY <1>0, <2>2, <2>5, <2>6, <2>7
<1> QED
  BY <1>1, <1>2, <1>3

LEMMA DraftedTakeAcks ==
  ASSUME IInv, NEW t \in Senders, TakeAcks(t)
  PROVE  /\ Drafted(t, "acks")' = Drafted(t, "acks") \union msgids
         /\ Drafted(t, "drop")' = Drafted(t, "drop")
         /\ msgids' = {} /\ UNCHANGED <<todrop, arrived, unwanted, wire, lost>>
<1>1. /\ pc[t] = "acks" /\ Made(t) = <<>> /\ Made(t)' = <<>>
      /\ \/ msgids = {} /\ Todo(t)' = <<>>
         \/ Todo(t)' = <<Query, Part("acks", msgids)>>
  BY TakeAcksStep
<1>2. Todo(t) = <<>>
  BY <1>1, DraftType
<1>3. \A b : Drafted(t, b) = {}
  BY <1>1, <1>2, CarriedEmpty DEF Drafted, Made, Todo
<1>4. \A b : Drafted(t, b)' = Carried(Todo(t)', b)
  BY <1>1, CarriedEmpty DEF Drafted, Made, Todo, Carried
<1>5. /\ Carried(<<Query, Part("acks", msgids)>>, "acks") = msgids
      /\ Carried(<<Query, Part("acks", msgids)>>, "drop") = {}
  <2> DEFINE s == <<Query, Part("acks", msgids)>>
  <2>1. Len(s) = 2 /\ s[1].body = "query" /\ s[2].body = "acks" /\ s[2].refs = msgids
    BY DEF Query, Part
  <2> HIDE DEF s
  <2>2. {j \in 1..Len(s) : s[j].body = "acks"} = {2} /\ {j \in 1..Len(s) : s[j].body = "drop"} = {}
    BY <2>1
  <2>3. Carried(s, "acks") = msgids /\ Carried(s, "drop") = {}
    BY <2>1, <2>2 DEF Carried
  <2> QED
    BY <2>3 DEF s
<1>6. Carried(Todo(t)', "acks") = msgids /\ Carried(Todo(t)', "drop") = {}
  BY <1>1, <1>5, CarriedEmpty
<1> QED
  BY <1>3, <1>4, <1>6 DEF TakeAcks, sharedVars

LEMMA DraftedTakeDrops ==
  ASSUME IInv, NEW t \in Senders, TakeDrops(t)
  PROVE  /\ Drafted(t, "drop")' = Drafted(t, "drop") \union Dropping
         /\ Drafted(t, "acks")' = Drafted(t, "acks")
         /\ Dropping' = {} /\ UNCHANGED <<msgids, arrived, unwanted, wire, lost>>
<1> DEFINE s == [i \in 1..Len(todrop) |-> Part("drop", {todrop[i]})]
<1>1. Todo(t) = <<>> /\ Made(t)' = Made(t) /\ Todo(t)' = s
  BY TakeDropsStep
<1>2. Len(todrop) \in Nat
  BY Numbers DEF IInv
<1>3. Len(s) = Len(todrop)
      /\ \A i \in 1..Len(todrop) : s[i].body = "drop" /\ s[i].refs = {todrop[i]}
  BY <1>2 DEF Part
<1> HIDE DEF s
<1>4. Carried(s, "drop") = Dropping /\ Carried(s, "acks") = {}
  BY <1>3 DEF Carried, Dropping
<1>5. \A b : /\ Drafted(t, b) = Carried(Made(t), b)
             /\ Drafted(t, b)' = Carried(s, b) \union Carried(Made(t), b)
  BY <1>1, CarriedEmpty DEF Drafted, Made, Todo, Carried
<1>6. Dropping' = {}
  <2>1. todrop' = <<>>
    BY DEF TakeDrops
  <2> QED
    BY <2>1 DEF Dropping
<1> QED
  BY <1>4, <1>5, <1>6 DEF TakeDrops

LEMMA DraftedSend ==
  ASSUME IInv, NEW t \in Senders, Send(t) \/ SendFails(t), NEW b
  PROVE  /\ Drafted(t, b)' = {} /\ Carried(Packet(t).messages, b) = Drafted(t, b)
         /\ Built' = Built \union {Packet(t)}
         /\ UNCHANGED <<msgids, todrop, arrived, unwanted>>
<1>1. /\ Todo(t) = <<>> /\ Made(t)' = <<>> /\ Todo(t)' = <<>>
      /\ Built' = Built \union {Packet(t)} /\ Packet(t).messages = Made(t)
  BY SendStep
<1>2. Drafted(t, b) = Carried(Made(t), b)
  BY <1>1, CarriedEmpty DEF Drafted, Made, Todo
<1>3. Drafted(t, b)' = {}
  BY <1>1, CarriedEmpty DEF Drafted, Made, Todo, Carried
<1> QED
  BY <1>1, <1>2, <1>3 DEF Send, SendFails

LEMMA AckStep ==
  ASSUME IInv, NEW t \in Senders, CheckKey(t) \/ Build(t) PROVE AckInv'
<1>0. AckInv /\ arrived \in Nat /\ msgids \in SUBSET (1..arrived)
  BY Numbers DEF IInv, TypeOK
<1>1. \A u \in Senders \ {t} : Drafted(u, "acks")' = Drafted(u, "acks")
  BY Untouched
<1>2. CASE TakeAcks(t)
  <2>1. /\ Drafted(t, "acks")' = Drafted(t, "acks") \union msgids
        /\ msgids' = {} /\ arrived' = arrived /\ Built' = Built
    BY <1>2, DraftedTakeAcks DEF Built
  <2>2. /\ \A u \in Senders : Drafted(u, "acks") \subseteq (1..arrived) \ msgids
        /\ \A p \in Built : Carried(p.messages, "acks") \subseteq (1..arrived) \ msgids
        /\ \A u, v \in Senders : u # v => Drafted(u, "acks") \cap Drafted(v, "acks") = {}
        /\ \A u \in Senders, p \in Built :
              Drafted(u, "acks") \cap Carried(p.messages, "acks") = {}
        /\ \A p, r \in Built :
              p # r => Carried(p.messages, "acks") \cap Carried(r.messages, "acks") = {}
        /\ \A n \in (1..arrived) \ msgids :
              \/ \E u \in Senders : n \in Drafted(u, "acks")
              \/ \E p \in Built : n \in Carried(p.messages, "acks")
    BY <1>0 DEF AckInv, Placed
  <2>3. ASSUME NEW u \in Senders PROVE Drafted(u, "acks")' \subseteq 1..arrived
    <3>1. Drafted(u, "acks") \subseteq 1..arrived
      BY <2>2
    <3>2. CASE u = t
      BY <1>0, <2>1, <3>1, <3>2
    <3>3. CASE u # t
      BY <1>1, <3>1, <3>3
    <3> QED
      BY <3>2, <3>3
  <2>4. \A p \in Built : Carried(p.messages, "acks") \subseteq 1..arrived
    BY <2>2
  <2>5. \A u, v \in Senders : u # v => Drafted(u, "acks")' \cap Drafted(v, "acks")' = {}
    BY <1>1, <2>1, <2>2
  <2>6. \A u \in Senders, p \in Built :
           Drafted(u, "acks")' \cap Carried(p.messages, "acks") = {}
    BY <1>1, <2>1, <2>2
  <2>7. ASSUME NEW n \in 1..arrived
        PROVE  \/ \E u \in Senders : n \in Drafted(u, "acks")'
               \/ \E p \in Built : n \in Carried(p.messages, "acks")
    <3>1. CASE n \in msgids
      BY <2>1, <3>1
    <3>2. CASE n \notin msgids
      BY <1>1, <2>1, <2>2, <3>2
    <3> QED
      BY <3>1, <3>2
  <2> QED
    BY <2>1, <2>2, <2>3, <2>4, <2>5, <2>6, <2>7 DEF AckInv, Placed, Carried
<1>3. CASE Send(t) \/ SendFails(t)
  <2>1. /\ Drafted(t, "acks")' = {} /\ Carried(Packet(t).messages, "acks") = Drafted(t, "acks")
        /\ Built' = Built \union {Packet(t)}
        /\ msgids' = msgids /\ arrived' = arrived
    BY <1>3, DraftedSend
  <2> QED
    BY <1>0, <1>1, <2>1 DEF AckInv, Placed
<1>4. CASE ~TakeAcks(t) /\ ~Send(t) /\ ~SendFails(t)
  <2>1. Drafted(t, "acks")' = Drafted(t, "acks")
    BY <1>4, DraftedKept, DraftedTakeDrops DEF Build, Quiet
  <2>2. msgids' = msgids /\ arrived' = arrived /\ Built' = Built
    BY <1>4 DEF Build, CheckKey, CreateKey, ResetSeqn, CheckSession, CreateSession, StampId, StampSeqno,
       TakeDrops, BeginHead, Encrypt, sharedVars, Built
  <2> QED
    BY <1>0, <1>1, <2>1, <2>2 DEF AckInv, Placed
<1> QED
  BY <1>2, <1>3, <1>4

LEMMA DropStep ==
  ASSUME IInv, NEW t \in Senders, CheckKey(t) \/ Build(t) PROVE DropInv'
<1>0. DropInv /\ unwanted \in Nat /\ Dropping \subseteq 1..unwanted
  <2>1. todrop \in Seq(1..unwanted)
    BY DEF IInv, TypeOK
  <2>2. \A i \in 1..Len(todrop) : todrop[i] \in 1..unwanted
    BY <2>1, ElementIn
  <2> QED
    BY <2>2, Numbers DEF IInv, Dropping
<1>1. \A u \in Senders \ {t} : Drafted(u, "drop")' = Drafted(u, "drop")
  BY Untouched
<1>2. CASE TakeDrops(t)
  <2>1. /\ Drafted(t, "drop")' = Drafted(t, "drop") \union Dropping
        /\ Dropping' = {} /\ unwanted' = unwanted /\ Built' = Built
    BY <1>2, DraftedTakeDrops DEF Built
  <2>2. /\ \A u \in Senders : Drafted(u, "drop") \subseteq (1..unwanted) \ Dropping
        /\ \A p \in Built : Carried(p.messages, "drop") \subseteq (1..unwanted) \ Dropping
        /\ \A u, v \in Senders : u # v => Drafted(u, "drop") \cap Drafted(v, "drop") = {}
        /\ \A u \in Senders, p \in Built :
              Drafted(u, "drop") \cap Carried(p.messages, "drop") = {}
        /\ \A p, r \in Built :
              p # r => Carried(p.messages, "drop") \cap Carried(r.messages, "drop") = {}
        /\ \A n \in (1..unwanted) \ Dropping :
              \/ \E u \in Senders : n \in Drafted(u, "drop")
              \/ \E p \in Built : n \in Carried(p.messages, "drop")
    BY <1>0 DEF DropInv, Placed
  <2>3. ASSUME NEW u \in Senders PROVE Drafted(u, "drop")' \subseteq 1..unwanted
    <3>1. Drafted(u, "drop") \subseteq 1..unwanted
      BY <2>2
    <3>2. CASE u = t
      BY <1>0, <2>1, <3>1, <3>2
    <3>3. CASE u # t
      BY <1>1, <3>1, <3>3
    <3> QED
      BY <3>2, <3>3
  <2>4. \A p \in Built : Carried(p.messages, "drop") \subseteq 1..unwanted
    BY <2>2
  <2>5. \A u, v \in Senders : u # v => Drafted(u, "drop")' \cap Drafted(v, "drop")' = {}
    BY <1>1, <2>1, <2>2
  <2>6. \A u \in Senders, p \in Built :
           Drafted(u, "drop")' \cap Carried(p.messages, "drop") = {}
    BY <1>1, <2>1, <2>2
  <2>7. ASSUME NEW n \in 1..unwanted
        PROVE  \/ \E u \in Senders : n \in Drafted(u, "drop")'
               \/ \E p \in Built : n \in Carried(p.messages, "drop")
    <3>1. CASE n \in Dropping
      BY <2>1, <3>1
    <3>2. CASE n \notin Dropping
      BY <1>1, <2>1, <2>2, <3>2
    <3> QED
      BY <3>1, <3>2
  <2> QED
    BY <2>1, <2>2, <2>3, <2>4, <2>5, <2>6, <2>7 DEF DropInv, Placed, Carried
<1>3. CASE Send(t) \/ SendFails(t)
  <2>1. /\ Drafted(t, "drop")' = {} /\ Carried(Packet(t).messages, "drop") = Drafted(t, "drop")
        /\ Built' = Built \union {Packet(t)}
        /\ Dropping' = Dropping /\ unwanted' = unwanted
    BY <1>3, DraftedSend DEF Dropping
  <2> QED
    BY <1>0, <1>1, <2>1 DEF DropInv, Placed
<1>4. CASE ~TakeDrops(t) /\ ~Send(t) /\ ~SendFails(t)
  <2>1. Drafted(t, "drop")' = Drafted(t, "drop")
    BY <1>4, DraftedKept, DraftedTakeAcks DEF Build, Quiet
  <2>2. Dropping' = Dropping /\ unwanted' = unwanted /\ Built' = Built
    BY <1>4 DEF Build, CheckKey, CreateKey, ResetSeqn, CheckSession, CreateSession, TakeAcks, StampId,
       StampSeqno, BeginHead, Encrypt, sharedVars, Built, Dropping
  <2> QED
    BY <1>0, <1>1, <2>1, <2>2 DEF DropInv, Placed
<1> QED
  BY <1>2, <1>3, <1>4

-----------------------------------------------------------------------------
(* What comes from outside, and the invariant.                             *)

\* The parts of the invariant that speak of what the threads build and of what
\* was built hold as long as neither changes.
LEMMA BuildKept ==
  ASSUME IInv, UNCHANGED <<pc, draft, msgid, clock, seqn, setback, wire, lost>>
  PROVE  /\ ShapeInv' /\ OrderInv' /\ SeqnoInv'
         /\ \A b : \A t \in Senders : Drafted(t, b)' = Drafted(t, b)
         /\ Built' = Built
<1>0. IInv
  OBVIOUS
<1>1. (\A t \in Senders : Made(t)' = Made(t) /\ Todo(t)' = Todo(t)) /\ Built' = Built
  BY DEF Made, Todo, Built
<1>2. ShapeInv'
  BY <1>0, <1>1 DEF IInv, ShapeInv, Shape
<1>4. OrderInv'
  BY <1>0, <1>1 DEF IInv, OrderInv, Closing
<1>5. SeqnoInv'
  BY <1>0, <1>1 DEF IInv, SeqnoInv, Rising, Below, Clash
<1>6. \A b : \A t \in Senders : Drafted(t, b)' = Drafted(t, b)
  BY DEF Drafted, Carried
<1> QED
  BY <1>1, <1>2, <1>4, <1>5, <1>6

\* Something new that waits takes no place.
LEMMA AckKept ==
  ASSUME IInv, \A t \in Senders : Drafted(t, "acks")' = Drafted(t, "acks"), Built' = Built,
         \/ UNCHANGED <<arrived, msgids>>
         \/ arrived' = arrived + 1 /\ msgids' = msgids \union {arrived'}
  PROVE  AckInv'
<1>0. AckInv /\ arrived \in Nat /\ msgids \in SUBSET (1..arrived)
  BY Numbers DEF IInv, TypeOK
<1>1. (1..arrived') \ msgids' = (1..arrived) \ msgids
  BY <1>0
<1> QED
  BY <1>0, <1>1 DEF AckInv, Placed

LEMMA DropKept ==
  ASSUME IInv, \A t \in Senders : Drafted(t, "drop")' = Drafted(t, "drop"), Built' = Built,
         \/ UNCHANGED <<unwanted, todrop>>
         \/ unwanted' = unwanted + 1 /\ todrop' = Append(todrop, unwanted')
  PROVE  DropInv'
<1>0. DropInv /\ unwanted \in Nat /\ todrop \in Seq(1..unwanted)
  BY Numbers DEF IInv, TypeOK
<1>1. Dropping \subseteq 1..unwanted
  BY <1>0, ElementIn DEF Dropping
<1>2. \/ UNCHANGED <<unwanted, Dropping>>
      \/ unwanted' = unwanted + 1 /\ Dropping' = Dropping \union {unwanted'}
  <2>1. CASE UNCHANGED <<unwanted, todrop>>
    BY <2>1 DEF Dropping
  <2>2. CASE unwanted' = unwanted + 1 /\ todrop' = Append(todrop, unwanted')
    <3> DEFINE a == Append(todrop, unwanted + 1)
    <3>1. /\ Len(todrop) \in Nat /\ Len(a) = Len(todrop) + 1
          /\ a[Len(todrop) + 1] = unwanted + 1
          /\ \A i \in 1..Len(todrop) : a[i] = todrop[i]
      BY <1>0
    <3>2. todrop' = a
      BY <2>2
    <3> HIDE DEF a
    <3>3. {a[i] : i \in 1..Len(a)} = {todrop[i] : i \in 1..Len(todrop)} \union {unwanted + 1}
      BY <3>1
    <3> QED
      BY <2>2, <3>2, <3>3 DEF Dropping
  <2> QED
    BY <2>1, <2>2
<1>3. (1..unwanted') \ Dropping' = (1..unwanted) \ Dropping
  BY <1>0, <1>1, <1>2
<1>4. /\ \A t \in Senders : Drafted(t, "drop")' \subseteq (1..unwanted') \ Dropping'
      /\ \A p \in Built : Carried(p.messages, "drop") \subseteq (1..unwanted') \ Dropping'
      /\ \A n \in (1..unwanted') \ Dropping' :
            \/ \E t \in Senders : n \in Drafted(t, "drop")'
            \/ \E p \in Built : n \in Carried(p.messages, "drop")
  BY <1>0, <1>3 DEF DropInv, Placed
<1>5. /\ \A t, u \in Senders : t # u => Drafted(t, "drop")' \cap Drafted(u, "drop")' = {}
      /\ \A t \in Senders, p \in Built : Drafted(t, "drop")' \cap Carried(p.messages, "drop") = {}
      /\ \A p, r \in Built :
            p # r => Carried(p.messages, "drop") \cap Carried(r.messages, "drop") = {}
  BY <1>0 DEF DropInv, Placed
<1> QED
  BY <1>4, <1>5 DEF DropInv, Placed

LEMMA WiderSeq ==
  ASSUME NEW S, NEW T, S \subseteq T, NEW s \in Seq(S) PROVE s \in Seq(T)
  OBVIOUS

LEMMA NextIInv == IInv /\ [Next]_vars => IInv'
<1> SUFFICES ASSUME IInv, [Next]_vars PROVE IInv'
  OBVIOUS
<1>0. TypeOK
  BY DEF IInv
<1>1. ASSUME NEW t \in Senders, CheckKey(t) \/ Build(t) PROVE IInv'
  BY <1>1, TypeStep, ShapeStep, OrderStep, SeqnoStep, AckStep, DropStep DEF IInv
<1>2. CASE Arrive
  <2>1. /\ UNCHANGED <<pc, draft, msgid, clock, seqn, setback, key, ssid, todrop, todropm, unwanted, wire, lost>>
        /\ arrived' = arrived + 1 /\ msgids' = msgids \union {arrived'}
    BY <1>2 DEF Arrive
  <2>2. TypeOK'
    <3>1. arrived' \in Nat /\ msgids' \in SUBSET (1..arrived')
      <4>1. arrived \in Nat /\ msgids \subseteq 1..arrived
        BY <1>0, Numbers DEF TypeOK
      <4>2. arrived' \in Nat /\ 1..arrived \subseteq 1..arrived' /\ arrived' \in 1..arrived'
        BY <2>1, <4>1
      <4> QED
        BY <2>1, <4>1, <4>2
    <3> QED
      BY <1>0, <2>1, <3>1 DEF TypeOK
  <2> QED
    BY <2>1, <2>2, BuildKept, AckKept, DropKept DEF IInv
<1>3. CASE GiveUp
  <2>1. /\ UNCHANGED <<pc, draft, msgid, clock, seqn, setback, key, ssid, msgids, todropm, arrived, wire, lost>>
        /\ unwanted' = unwanted + 1 /\ todrop' = Append(todrop, unwanted')
    BY <1>3 DEF GiveUp
  <2>2. TypeOK'
    <3>1. unwanted' \in Nat /\ 1..unwanted \subseteq 1..unwanted' /\ unwanted' \in 1..unwanted'
      BY <1>0, <2>1, Numbers
    <3>2. todrop \in Seq(1..unwanted')
      <4>1. todrop \in Seq(1..unwanted)
        BY <1>0 DEF TypeOK
      <4> QED
        BY <3>1, <4>1, WiderSeq
    <3>3. todrop' \in Seq(1..unwanted')
      BY <2>1, <3>1, <3>2
    <3> QED
      BY <1>0, <2>1, <3>1, <3>3 DEF TypeOK
  <2> QED
    BY <2>1, <2>2, BuildKept, AckKept, DropKept DEF IInv
<1>4. CASE NewSession
  <2>1. /\ UNCHANGED <<pc, draft, msgid, clock, seqn, setback, key, msgids, todrop, todropm, arrived, unwanted, wire, lost>>
        /\ ssid' = ssid + 1
    BY <1>4 DEF NewSession
  <2>2. TypeOK'
    BY <1>0, <2>1, Numbers DEF TypeOK
  <2> QED
    BY <2>1, <2>2, BuildKept, AckKept, DropKept DEF IInv
<1>5. CASE UNCHANGED vars
  <2>1. UNCHANGED <<pc, draft, msgid, clock, seqn, setback, key, ssid, msgids, todrop, todropm, arrived, unwanted, wire, lost>>
    BY <1>5 DEF vars
  <2>2. TypeOK'
    BY <1>0, <2>1 DEF TypeOK
  <2> QED
    BY <2>1, <2>2, BuildKept, AckKept, DropKept DEF IInv
<1> QED
  BY <1>1, <1>2, <1>3, <1>4, <1>5 DEF Next

-----------------------------------------------------------------------------
(***************************************************************************)
(* The theorems                                                            *)
(***************************************************************************)

\* The invariant of the session: what it says of the threads and of the packets
\* holds however tg_header and tg_mtp_message interleave in any number of threads.
THEOREM Invariance == Spec => []IInv
  BY InitIInv, NextIInv, PTL DEF Spec

\* A thread of tg_header or tg_mtp_message that stamps a part has one to stamp,
\* and every variable of the session has its type.
THEOREM TypeCorrect == Spec => []TypeOK
<1>1. IInv => TypeOK
  BY DEF IInv
<1> QED
  BY <1>1, Invariance, PTL

\* What has a place has one only.
LEMMA PlacedOnce ==
  ASSUME NEW b, NEW count \in Nat, NEW waiting, Placed(b, count, waiting), NEW n \in 1..count
  PROVE  Mentions(n, b) = IF n \in waiting THEN 0 ELSE 1
<1> DEFINE S == {t \in Senders : n \in Drafted(t, b)}
           P == {p \in wire \union lost : n \in Carried(p.messages, b)}
<1>0. Mentions(n, b) = Cardinality(S) + Cardinality(P)
  BY DEF Mentions
<1>1. CASE n \in waiting
  <2>1. S = {} /\ P = {}
    BY <1>1 DEF Placed, Built
  <2> QED
    BY <1>0, <1>1, <2>1, FS_EmptySet
<1>2. CASE n \notin waiting
  <2>1. CASE \E t \in Senders : n \in Drafted(t, b)
    <3>1. PICK t \in Senders : n \in Drafted(t, b)
      BY <2>1
    <3>2. S = {t} /\ P = {}
      BY <3>1 DEF Placed, Built
    <3> HIDE DEF S, P
    <3>3. Cardinality(S) = 1 /\ Cardinality(P) = 0
      BY <3>2, FS_EmptySet, FS_Singleton
    <3> QED
      BY <1>0, <1>2, <3>3
  <2>2. CASE \E p \in Built : n \in Carried(p.messages, b)
    <3>1. PICK p \in Built : n \in Carried(p.messages, b)
      BY <2>2
    <3>2. P = {p} /\ S = {}
      BY <3>1 DEF Placed, Built
    <3> HIDE DEF S, P
    <3>3. Cardinality(P) = 1 /\ Cardinality(S) = 0
      BY <3>2, FS_EmptySet, FS_Singleton
    <3> QED
      BY <1>0, <1>2, <3>3
  <2> QED
    BY <1>2, <2>1, <2>2 DEF Placed
<1> QED
  BY <1>1, <1>2

\* tg_ack takes every pending acknowledgement along once: each arrival waits in
\* tg->msgids or is in one packet, whatever tg_add_msgid adds meanwhile.
THEOREM AcksAreTakenOnce == Spec => []EachAckIsTakenOnce
<1>1. IInv => EachAckIsTakenOnce
  BY PlacedOnce, Numbers DEF IInv, AckInv, EachAckIsTakenOnce
<1> QED
  BY <1>1, Invariance, PTL

\* tg_to_drop takes every unwanted answer along once: each waits in tg->todrop or
\* is in one packet, whatever tg_add_todrop adds meanwhile.
THEOREM DropsAreTakenOnce == Spec => []EachDropIsTakenOnce
<1>1. IInv => EachDropIsTakenOnce
  <2> SUFFICES ASSUME IInv, NEW n \in 1..unwanted
               PROVE  Mentions(n, "drop")
                        = IF \E i \in 1..Len(todrop) : todrop[i] = n THEN 0 ELSE 1
    BY DEF EachDropIsTakenOnce
  <2>1. Mentions(n, "drop") = IF n \in Dropping THEN 0 ELSE 1
    BY PlacedOnce, Numbers DEF IInv, DropInv
  <2>2. n \in Dropping <=> \E i \in 1..Len(todrop) : todrop[i] = n
    BY DEF Dropping
  <2> QED
    BY <2>1, <2>2
<1> QED
  BY <1>1, Invariance, PTL

\* queue->msgid, by which tg_header lets the answer be found, is the id of the
\* query's own message, in a container or not.
THEOREM AnswersNamed == Spec => []AnswersNameTheQuery
<1>1. IInv => AnswersNameTheQuery
  <2> SUFFICES ASSUME IInv, NEW p \in wire
               PROVE  \E i \in 1..Len(p.messages) :
                         p.messages[i].body = "query" /\ p.messages[i].id = p.msgid
    BY DEF AnswersNameTheQuery
  <2>1. p \in Built
    BY DEF Built
  <2>2. p.messages \in Seq(Messages) /\ p.messages # <<>>
    BY <2>1 DEF IInv, TypeOK, Packets, Built, ShapeInv
  <2>3. 1 \in 1..Len(p.messages)
    BY <2>2
  <2> QED
    BY <2>1, <2>3 DEF IInv, ShapeInv
<1> QED
  BY <1>1, Invariance, PTL

\* tg_mtp_message stamps a container after everything in it: its id is no earlier,
\* and its sequence number no smaller as long as no handshake sets the counter
\* back, whatever other threads stamp in between.
THEOREM ContainersClose == Spec => []ContainersCloseLast
<1>1. IInv => ContainersCloseLast
  BY DEF IInv, OrderInv, SeqnoInv, Closing, Rising, Built, ContainersCloseLast
<1> QED
  BY <1>1, Invariance, PTL

\* As long as no handshake in tg_send sets the counter back, no two content-related
\* messages that were sent under one key have the same sequence number:
\* tg_mtp_message reads and moves tg->seqn under one mutex.
THEOREM SeqnosUnique == Spec => []SeqnosAreUniqueUnlessSetBack
<1>1. IInv => SeqnosAreUniqueUnlessSetBack
  <2> SUFFICES ASSUME IInv, ~setback, NEW k \in KeyAtStart..key,
                      NEW x \in ContentOf(k), NEW y \in ContentOf(k),
                      x[1].messages[x[2]].seqno = y[1].messages[y[2]].seqno
               PROVE  x = y
    BY DEF SeqnosAreUniqueUnlessSetBack, SeqnosAreUnique
  <2> DEFINE I == 1..(MaxDrops + 3)
  <2>1. /\ x \in wire \X I /\ x[2] <= Len(x[1].messages) /\ Content(x[1].messages[x[2]])
        /\ y \in wire \X I /\ y[2] <= Len(y[1].messages) /\ Content(y[1].messages[y[2]])
    BY DEF ContentOf
  <2>2. PICK p \in wire, i \in I : x = <<p, i>>
    BY <2>1
  <2>3. PICK r \in wire, j \in I : y = <<r, j>>
    BY <2>1
  <2>4. p \in Built /\ r \in Built
    BY DEF Built
  <2>5. p.messages \in Seq(Messages) /\ r.messages \in Seq(Messages)
    BY <2>4 DEF IInv, TypeOK, Packets, Built
  <2>6. MaxDrops \in Nat
    BY SessionAssumption
  <2>7. i \in 1..Len(p.messages) /\ j \in 1..Len(r.messages)
    BY <2>1, <2>2, <2>3, <2>5, <2>6
  <2>8. Clash(p.messages, i, r.messages, j)
    BY <2>1, <2>2, <2>3 DEF Clash
  <2>9. p = r /\ i = j
    BY <2>4, <2>7, <2>8 DEF IInv, SeqnoInv
  <2> QED
    BY <2>2, <2>3, <2>9
<1> QED
  BY <1>1, Invariance, PTL
=============================================================================
