------------------------------ MODULE Wire_proofs ------------------------------
(***************************************************************************)
(* Theorems about serialization and the layers around it, for messages of  *)
(* any number of fields of any length.                                     *)
(***************************************************************************)
EXTENDS Wire, TLAPS

Field == [type : STRING, len : Nat]
Stacks == {"rfc", "api", "tg", "none"}

\* Fields are put one behind the other; all of them, before anything else is done.
WriteInv ==
    /\ msg \in Messages /\ step \in Steps
    /\ wrote \in Seq(Nat) /\ reads \in Seq(Nat)
    /\ Len(wrote) \in 1..(Len(msg.fields) + 1)
    /\ Len(reads) \in 1..(Len(msg.fields) + 1)
    /\ wrote[1] = 0 /\ reads[1] = 0
    /\ \A k \in 1..(Len(wrote) - 1) : wrote[k + 1] = wrote[k] + Written(msg.fields[k])
    /\ step # "serialize" => Len(wrote) = Len(msg.fields) + 1
    /\ step # "deserialize" => reads = <<0>>

\* What each layer has made of the size of what was serialized.
Wrapped == HeaderOf[msg.stack] + Last(wrote) + HeaderPad(Last(wrote))
SizeInv ==
    /\ bufsize \in Nat /\ said \in Nat /\ length \in Nat /\ cipher \in Nat
    /\ step \in {"serialize", "header"} => bufsize = Last(wrote)
    /\ step \notin {"serialize", "deserialize"} => msg.stack # "none"
    /\ step \in {"encrypt", "transport", "detransport", "decrypt", "deheader"}
         => said = Last(wrote)
    /\ step = "encrypt" => bufsize = Wrapped
    /\ step \in {"transport", "detransport", "decrypt"}
         => cipher = Wrapped + EncryptPad(Wrapped)
    /\ step \in {"transport", "decrypt"} => bufsize = EnvelopeOf[msg.stack] + cipher
    /\ step = "detransport" => bufsize = 4 + EnvelopeOf[msg.stack] + cipher
    /\ step = "deheader" /\ msg.stack # "tg" => bufsize = HeaderOf[msg.stack] + Last(wrote)
    /\ step = "deheader" => bufsize \in Nat
    /\ PeeledIsWrapped

IInv == WriteInv /\ SizeInv /\ ReadsWhereWritten

-----------------------------------------------------------------------------
\* Padding is what is missing to a whole number of blocks.
LEMMA PadIsLess ==
  ASSUME NEW n \in Nat, NEW block \in {4, 16}
  PROVE  Pad(n, block) \in Nat /\ (n + Pad(n, block)) % block = 0
  BY DEF Pad

LEMMA MessageType ==
  ASSUME WireAssumption, NEW message \in Messages
  PROVE  /\ message.stack \in Stacks
         /\ message.fields \in Seq(Field)
  BY DEF WireAssumption, Stacks, Field

LEMMA WrittenType ==
  ASSUME NEW f \in Field
  PROVE  Written(f) \in Nat
<1>1. CASE f.type = "string"
  <2>1. Prefix(f.len) + f.len \in Nat
    BY DEF Prefix, Field
  <2>2. Pad(Prefix(f.len) + f.len, 4) \in Nat
    BY <2>1, PadIsLess
  <2> QED
    BY <1>1, <2>1, <2>2 DEF Written, StringSize
<1> QED
  BY <1>1 DEF Written, Field

\* tl reads a field past exactly what was written of it.
LEMMA TlSkipsWhatIsWritten ==
  ASSUME NEW f \in Field
  PROVE  SkippedByTl(f) = Written(f)
<1>1. f.len \in Nat
  BY DEF Field
<1>2. CASE f.len <= 253
  BY <1>1, <1>2 DEF SkippedByTl, Written, StringSize, Prefix, Pad
<1>3. CASE f.len > 253
  <2>1. (4 + f.len) % 4 = f.len % 4
    BY <1>1
  <2> QED
    BY <1>1, <1>3, <2>1 DEF SkippedByTl, Written, StringSize, Prefix, Pad
<1> QED
  BY <1>1, <1>2, <1>3

\* mtx does so where a string's length is a multiple of four.
LEMMA SilSkipsMultiplesOfFour ==
  ASSUME NEW f \in Field, f.type = "string" => f.len % 4 = 0
  PROVE  SkippedBySil(f) = Written(f)
<1>1. CASE f.type # "string"
  BY <1>1 DEF SkippedBySil, Written
<1>2. CASE f.type = "string"
  <2>1. f.len \in Nat /\ f.len % 4 = 0
    BY <1>2 DEF Field
  <2>2. (1 + f.len) % 4 = 1 /\ (4 + f.len) % 4 = 0
    BY <2>1
  <2>3. Pad(1 + f.len, 4) = 3 /\ Pad(4 + f.len, 4) = 0
    BY <2>2 DEF Pad
  <2> QED
    BY <1>2, <2>1, <2>3 DEF SkippedBySil, Written, StringSize, Prefix
<1> QED
  BY <1>1, <1>2

\* The padding that enl_decrypt computes from the length in the header is the
\* one that enl_encrypt had to add to header and data.
LEMMA SamePadding ==
  ASSUME NEW n \in Nat PROVE Pad(32 + n, 16) = Pad(n, 16)
<1>1. (32 + n) % 16 = n % 16
  OBVIOUS
<1> QED
  BY <1>1 DEF Pad

-----------------------------------------------------------------------------
LEMMA InitIInv == ASSUME WireAssumption PROVE WireInit => IInv
<1> SUFFICES ASSUME WireInit PROVE IInv
  OBVIOUS
<1>1. msg.fields \in Seq(Field)
  BY MessageType DEF WireInit
<1> QED
  BY <1>1 DEF WireInit, IInv, WriteInv, SizeInv, ReadsWhereWritten, PeeledIsWrapped, Steps, Last

\* What every step needs to know about the message.
LEMMA FieldType ==
  ASSUME WireAssumption, IInv
  PROVE  /\ msg.stack \in Stacks /\ Len(msg.fields) \in Nat
         /\ \A k \in 1..Len(msg.fields) :
              /\ msg.fields[k] \in Field
              /\ Written(msg.fields[k]) \in Nat
<1>1. msg.stack \in Stacks /\ msg.fields \in Seq(Field)
  BY MessageType DEF IInv, WriteInv
<1>2. \A k \in 1..Len(msg.fields) : msg.fields[k] \in Field
  BY <1>1
<1>3. \A k \in 1..Len(msg.fields) : Written(msg.fields[k]) \in Nat
  BY <1>2, WrittenType
<1> QED
  BY <1>1, <1>2, <1>3

LEMMA SerializeStep == ASSUME WireAssumption, IInv, SerializeParam PROVE IInv'
<1> USE DEF IInv, WriteInv
<1> DEFINE k == Len(wrote)
<1>1. /\ k \in 1..Len(msg.fields) /\ Written(msg.fields[k]) \in Nat
      /\ bufsize = wrote[k] /\ bufsize \in Nat
  BY FieldType DEF SerializeParam, SizeInv, Last
<1>2. wrote' = Append(wrote, wrote[k] + Written(msg.fields[k])) /\ bufsize' = Last(wrote')
  BY <1>1 DEF SerializeParam, Last
<1>3. /\ wrote' \in Seq(Nat) /\ Len(wrote') = k + 1
      /\ \A i \in 1..k : wrote'[i] = wrote[i]
      /\ wrote'[k + 1] = wrote[k] + Written(msg.fields[k])
  BY <1>1, <1>2
<1>4. WriteInv'
  <2>0. \A i \in 1..(k - 1) : wrote[i + 1] = wrote[i] + Written(msg.fields[i])
    OBVIOUS
  <2>1. \A i \in 1..k : wrote'[i + 1] = wrote'[i] + Written(msg.fields[i])
    <3> SUFFICES ASSUME NEW i \in 1..k
                 PROVE  wrote'[i + 1] = wrote'[i] + Written(msg.fields[i])
      OBVIOUS
    <3>1. CASE i = k
      BY <1>1, <1>3, <3>1
    <3>2. CASE i \in 1..(k - 1)
      <4>1. i + 1 \in 1..k /\ i \in 1..k
        BY <1>1, <3>2
      <4>2. wrote[i + 1] = wrote[i] + Written(msg.fields[i])
        BY <2>0, <3>2
      <4> QED
        BY <1>3, <4>1, <4>2
    <3> QED
      BY <1>1, <3>1, <3>2
  <2>2. wrote'[1] = 0
    BY <1>1, <1>3
  <2>3. UNCHANGED <<msg, step, reads>> /\ step = "serialize"
    BY DEF SerializeParam
  <2>4. Len(wrote') - 1 = k /\ Len(wrote') \in 1..(Len(msg.fields) + 1)
    BY <1>1, <1>3, FieldType
  <2> QED
    BY <1>3, <2>1, <2>2, <2>3, <2>4
<1>5. SizeInv'
  BY <1>1, <1>2 DEF SerializeParam, SizeInv, PeeledIsWrapped
<1>6. ReadsWhereWritten'
  BY <1>3 DEF SerializeParam, ReadsWhereWritten
<1> QED
  BY <1>4, <1>5, <1>6

\* The steps of the layers leave what was serialized, and what was read, alone.
LEMMA LayerKeeps ==
  ASSUME WireAssumption, IInv, UNCHANGED <<msg, wrote, reads>>, step' \in Steps,
         step # "serialize" \/ Len(wrote) > Len(msg.fields), step' # "serialize",
         step # "deserialize"
  PROVE  WriteInv' /\ ReadsWhereWritten' /\ Last(wrote)' = Last(wrote)
  BY FieldType DEF IInv, WriteInv, ReadsWhereWritten, Last, Skipped

LEMMA LastType == ASSUME IInv PROVE Last(wrote) \in Nat
  BY DEF IInv, WriteInv, Last

LEMMA LayerStep ==
  ASSUME WireAssumption, IInv,
         \/ Serialized \/ Header \/ Encrypt \/ Transport
         \/ Detransport \/ Decrypt \/ Deheader
  PROVE  IInv'
<1> DEFINE L == Last(wrote)
<1>0. L \in Nat /\ msg.stack \in Stacks
  BY LastType, FieldType
<1>1. WriteInv' /\ ReadsWhereWritten' /\ Last(wrote)' = L
  <2>1. /\ UNCHANGED <<msg, wrote, reads>> /\ step' \in Steps
        /\ step # "serialize" \/ Len(wrote) > Len(msg.fields)
        /\ step' # "serialize" /\ step # "deserialize"
    BY DEF Serialized, Header, Encrypt, Transport, Detransport, Decrypt, Deheader, Steps
  <2> QED
    BY <2>1, LayerKeeps
<1>2. /\ HeaderOf[msg.stack] \in Nat \/ msg.stack = "none"
      /\ EnvelopeOf[msg.stack] \in Nat \/ msg.stack = "none"
  BY <1>0 DEF Stacks, HeaderOf, EnvelopeOf
<1>3. Pad(L, 16) \in Nat /\ Pad(32 + L, 16) = Pad(L, 16)
  BY <1>0, PadIsLess, SamePadding
<1>4. HeaderPad(L) \in Nat
  BY <1>3 DEF HeaderPad
<1>5. msg.stack # "none" => Wrapped \in Nat /\ EncryptPad(Wrapped) \in Nat
  <2> SUFFICES ASSUME msg.stack # "none"
               PROVE  Wrapped \in Nat /\ EncryptPad(Wrapped) \in Nat
    OBVIOUS
  <2>1. Wrapped \in Nat
    BY <1>0, <1>2, <1>4 DEF Wrapped
  <2>2. Pad(Wrapped, 16) \in Nat
    BY <2>1, PadIsLess
  <2> QED
    BY <2>1, <2>2 DEF EncryptPad
<1>6. SizeInv'
  <2> USE DEF IInv, SizeInv, PeeledIsWrapped, Steps
  <2>1. CASE Serialized
    BY <1>0, <1>1, <2>1 DEF Serialized, WriteInv
  <2>2. CASE Header
    <3>1. bufsize' = Wrapped /\ said' = L /\ Wrapped' = Wrapped
      BY <1>1, <2>2 DEF Header, Wrapped, HeaderPad
    <3> QED
      BY <1>0, <1>1, <1>5, <2>2, <3>1 DEF Header
  <2>3. CASE Encrypt
    <3>1. Wrapped' = Wrapped /\ EncryptPad(Wrapped)' = EncryptPad(Wrapped)
      BY <1>1, <2>3 DEF Encrypt, Wrapped, HeaderPad, EncryptPad
    <3> QED
      BY <1>0, <1>1, <1>2, <1>5, <2>3, <3>1 DEF Encrypt
  <2>4. CASE Transport
    <3>1. Wrapped' = Wrapped /\ EncryptPad(Wrapped)' = EncryptPad(Wrapped)
      BY <1>1, <2>4 DEF Transport, Wrapped, HeaderPad, EncryptPad
    <3> QED
      BY <1>0, <1>1, <1>2, <1>5, <2>4, <3>1 DEF Transport
  <2>5. CASE Detransport
    <3>1. Wrapped' = Wrapped /\ EncryptPad(Wrapped)' = EncryptPad(Wrapped)
      BY <1>1, <2>5 DEF Detransport, Wrapped, HeaderPad, EncryptPad
    <3> QED
      BY <1>0, <1>1, <1>2, <1>5, <2>5, <3>1 DEF Detransport
  <2>6. CASE Decrypt
    <3>1. bufsize' = cipher - DecryptPad /\ UNCHANGED <<msg, said, length, cipher>>
      BY <1>2, <1>5, <2>6 DEF Decrypt
    <3>2. CASE msg.stack = "tg"
      BY <1>0, <1>1, <1>5, <2>6, <3>1, <3>2 DEF Decrypt, DecryptPad
    <3>3. CASE msg.stack = "rfc"
      <4>1. cipher = 12 + L
        BY <1>0, <2>6, <3>3 DEF Decrypt, Wrapped, HeaderOf, HeaderPad, EncryptPad
      <4> QED
        BY <1>0, <1>1, <2>6, <3>1, <3>3, <4>1 DEF Decrypt, DecryptPad, HeaderOf
    <3>4. CASE msg.stack = "api"
      <4>1. Wrapped = 32 + L
        BY <1>0, <3>4 DEF Wrapped, HeaderOf, HeaderPad
      <4>2. cipher = 32 + L + Pad(L, 16) /\ DecryptPad = Pad(L, 16)
        BY <1>3, <2>6, <3>4, <4>1 DEF Decrypt, EncryptPad, DecryptPad
      <4> QED
        BY <1>0, <1>1, <1>3, <2>6, <3>1, <3>4, <4>2 DEF Decrypt, HeaderOf
    <3> QED
      BY <1>0, <2>6, <3>2, <3>3, <3>4 DEF Decrypt, Stacks
  <2>7. CASE Deheader
    <3>1. bufsize' = L
      BY <1>0, <1>2, <2>7 DEF Deheader
    <3> QED
      BY <1>0, <1>1, <2>7, <3>1 DEF Deheader
  <2> QED
    BY <2>1, <2>2, <2>3, <2>4, <2>5, <2>6, <2>7
<1> QED
  BY <1>1, <1>6 DEF IInv

LEMMA DeserializeStep == ASSUME WireAssumption, IInv, DeserializeParam PROVE IInv'
<1> USE DEF IInv, WriteInv
<1> DEFINE n == Len(reads)
<1>1. /\ n \in 1..Len(msg.fields) /\ msg.fields[n] \in Field
      /\ reads[n] \in Nat
  BY FieldType DEF DeserializeParam
<1>2. Skipped(msg.fields[n]) \in Nat
  <2>1. SkippedByTl(msg.fields[n]) \in Nat
    BY <1>1, TlSkipsWhatIsWritten, WrittenType
  <2>2. SkippedBySil(msg.fields[n]) \in Nat
    BY <1>1 DEF SkippedBySil, Field
  <2> QED
    BY <2>1, <2>2 DEF Skipped
<1>3. /\ reads' \in Seq(Nat) /\ Len(reads') = n + 1
      /\ \A i \in 1..n : reads'[i] = reads[i]
      /\ reads'[n + 1] = reads[n] + Skipped(msg.fields[n])
  BY <1>1, <1>2 DEF DeserializeParam, Last
<1>4. WriteInv'
  BY <1>1, <1>3 DEF DeserializeParam
<1>5. SizeInv'
  BY DEF DeserializeParam, SizeInv, PeeledIsWrapped
<1>6. ReadsWhereWritten'
  <2> HIDE DEF n
  <2>0. /\ DOMAIN reads' = 1..(n + 1) /\ UNCHANGED <<msg, wrote>>
        /\ \A i \in 1..n :
              (\A j \in 1..(i - 1) : msg.stack # "tg" /\ msg.fields[j].type = "string"
                                      => msg.fields[j].len % 4 = 0)
              => reads[i] = wrote[i]
    <3>1. DOMAIN reads' = 1..(n + 1) /\ DOMAIN reads = 1..n
      BY <1>3 DEF n
    <3>2. UNCHANGED <<msg, wrote>>
      BY DEF DeserializeParam
    <3> QED
      BY <3>1, <3>2 DEF ReadsWhereWritten
  <2> SUFFICES ASSUME NEW k \in 1..(n + 1),
                      \A j \in 1..(k - 1) : msg.stack # "tg" /\ msg.fields[j].type = "string"
                                             => msg.fields[j].len % 4 = 0
               PROVE  reads'[k] = wrote[k]
    BY <2>0 DEF ReadsWhereWritten
  <2>1. CASE k \in 1..n
    BY <1>3, <2>0, <2>1
  <2>2. CASE k = n + 1
    <3>1. reads[n] = wrote[n]
      <4>1. n \in 1..n /\ n - 1 \in Nat /\ 1..(n - 1) \subseteq 1..(k - 1)
        BY <1>1, <2>2
      <4> QED
        BY <2>0, <4>1
    <3>2. Skipped(msg.fields[n]) = Written(msg.fields[n])
      <4>1. msg.stack # "tg" /\ msg.fields[n].type = "string" => msg.fields[n].len % 4 = 0
        BY <1>1, <2>2
      <4> QED
        BY <1>1, <4>1, TlSkipsWhatIsWritten, SilSkipsMultiplesOfFour DEF Skipped
    <3>3. wrote[n + 1] = wrote[n] + Written(msg.fields[n])
      <4>1. Len(wrote) - 1 = Len(msg.fields)
        BY FieldType DEF DeserializeParam
      <4> QED
        BY <1>1, <4>1
    <3> QED
      BY <1>3, <2>2, <3>1, <3>2, <3>3
  <2> QED
    BY <1>1, <2>1, <2>2
<1> QED
  BY <1>4, <1>5, <1>6

LEMMA NextIInv == ASSUME WireAssumption PROVE IInv /\ [WireNext]_wireVars => IInv'
<1> SUFFICES ASSUME IInv, [WireNext]_wireVars PROVE IInv'
  OBVIOUS
<1>1. CASE UNCHANGED wireVars
  BY <1>1 DEF wireVars, IInv, WriteInv, SizeInv, ReadsWhereWritten, PeeledIsWrapped, Wrapped,
              HeaderPad, EncryptPad, Last
<1>2. CASE SerializeParam
  BY <1>2, SerializeStep
<1>3. CASE DeserializeParam
  BY <1>3, DeserializeStep
<1>4. CASE \/ Serialized \/ Header \/ Encrypt \/ Transport
           \/ Detransport \/ Decrypt \/ Deheader
  BY <1>4, LayerStep
<1> QED
  BY <1>1, <1>2, <1>3, <1>4 DEF WireNext, WireDone

\* IInv holds in every state that sending a message can reach.
THEOREM Invariance == ASSUME WireAssumption PROVE WireSpec => []IInv
<1>1. WireInit => IInv
  BY InitIInv
<1>2. IInv /\ [WireNext]_wireVars => IInv'
  BY NextIInv
<1> QED
  BY <1>1, <1>2, PTL DEF WireSpec

\* The variables of Wire have their types, and no more fields are written or read
\* than the message has (sel_serialize, sil_concrete).
THEOREM TypeCorrect == ASSUME WireAssumption PROVE WireSpec => []WireTypeOK
<1>1. IInv => WireTypeOK
  BY DEF IInv, WriteInv, SizeInv, WireTypeOK
<1>2. WireSpec => []IInv
  BY Invariance
<1> QED
  BY <1>1, <1>2, PTL

\* tl reads every field of every message where it was put; mtx does so up to the
\* first string whose length is no multiple of four (deserialize_bytes,
\* sil_concrete).
THEOREM FieldsAreFound == ASSUME WireAssumption PROVE WireSpec => []ReadsWhereWritten
<1>1. IInv => ReadsWhereWritten
  BY DEF IInv
<1>2. WireSpec => []IInv
  BY Invariance
<1> QED
  BY <1>1, <1>2, PTL

\* The layers take off as much as they put on, whatever the size of the message
\* (tg_header, tg_encrypt, tg_transport; hdl_header, enl_encrypt, trl_transport).
THEOREM LayersComeOff == ASSUME WireAssumption PROVE WireSpec => []PeeledIsWrapped
<1>1. IInv => PeeledIsWrapped
  BY DEF IInv, SizeInv
<1>2. WireSpec => []IInv
  BY Invariance
<1> QED
  BY <1>1, <1>2, PTL
=============================================================================
