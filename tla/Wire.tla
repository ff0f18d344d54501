-------------------------------- MODULE Wire --------------------------------
(***************************************************************************)
(* Serialization and the layers around it, as far as sizes and offsets go: *)
(* mtx/src (the handshake's stack, and the encrypted one of its ping),     *)
(* tl/serialize.c, tl/deserialize.c, and tg/header.c, tg/encrypt.c and     *)
(* tg/transport.c around what tl has serialized.                           *)
(*                                                                         *)
(* A message is a list of fields, each with a type and, for strings, a     *)
(* length.  It is serialized field by field, wrapped by three layers,      *)
(* unwrapped by the same layers and read field by field.  mtx skips a      *)
(* string it has read by its length plus four, whatever it takes on the    *)
(* wire; tl by the length prefix, the length and the padding.              *)
(***************************************************************************)
EXTENDS Naturals, Sequences, FiniteSets, SequencesExt

CONSTANTS
    Messages  \* [ctor, stack, fields]: the messages that are sent

WireAssumption ==
    \A message \in Messages :
        /\ message.stack \in {"rfc", "api", "tg", "none"}
        /\ message.fields \in Seq([type : STRING, len : Nat])

VARIABLES
    msg,    \* the message
    step,   \* the next layer
    wrote,  \* where each field was put, then where the next one would go
    bufsize,   \* the size of the buffer at hand
    said,   \* message_data_length, as the header says it
    length, \* the size of the packet, as the transport layer says it
    cipher, \* the size of the encrypted part
    reads   \* where each field was looked for, then where the next one would be

wireVars == <<msg, step, wrote, bufsize, said, length, cipher, reads>>

---------------------------------------------------------------------------
(* The messages of the handshake, their fields and types.  The server's    *)
(* answers are serialized the same way.                                    *)

F(type, len) == [type |-> type, len |-> len]
Nonce == F("int128", 16)
String(n) == F("string", n)
Message(stack, ctor, fields) == [stack |-> stack, ctor |-> ctor,
                                 fields |-> <<F("id", 4)>> \o fields]

ResPQ(pq, fingerprints) == Message("rfc", "resPQ",
    <<Nonce, Nonce, String(pq), F("vector_long", 8 + 8 * fingerprints)>>)
req_pq == Message("rfc", "req_pq", <<Nonce>>)
Server_DH_Params_ok(answer) == Message("rfc", "Server_DH_Params_ok",
    <<Nonce, Nonce, String(answer)>>)
req_DH_params(p, q, data) == Message("rfc", "req_DH_params",
    <<Nonce, Nonce, String(p), String(q), F("long", 8), String(data)>>)
P_Q_inner_data(pq, p, q) == Message("none", "P_Q_inner_data",
    <<String(pq), String(p), String(q), Nonce, Nonce, F("int256", 32)>>)
Server_DH_inner_data(prime, g_a) == Message("none", "server_DH_inner_data",
    <<Nonce, Nonce, F("int", 4), String(prime), String(g_a), F("int", 4)>>)
Client_DH_Inner_Data(g_b) == Message("none", "Client_DH_Inner_Data",
    <<Nonce, Nonce, F("long", 8), String(g_b)>>)
dh_gen_ok == Message("rfc", "dh_gen_ok", <<Nonce, Nonce, Nonce>>)
set_client_DH_params(data) == Message("rfc", "set_client_DH_params",
    <<Nonce, Nonce, String(data)>>)
ping == Message("api", "ping", <<F("long", 8)>>)
auth_sendCode(phone) == Message("api", "auth_sendCode",
    <<String(phone), F("int", 4), F("int", 4), String(32), String(2)>>)
\* what the library sends: serialized by tl, wrapped by tg
tl_query(a, b) == Message("tg", "query", <<F("int", 4), String(a), F("long", 8), String(b)>>)

---------------------------------------------------------------------------
(* Sizes.                                                                  *)

Pad(n, block) == (block - (n % block)) % block

\* serialize_string, serialize_bytes: one byte of length up to 253, four bytes
\* beyond, and zeros up to a multiple of four.
PrefixLate(n) == IF n <= 255 THEN 1 ELSE 4
Prefix(n) == IF n <= 253 THEN 1 ELSE 4
StringSize(n) == Prefix(n) + n + Pad(Prefix(n) + n, 4)

\* sel_serialize_param
Written(f) == IF f.type = "string" THEN StringSize(f.len) ELSE f.len

\* sil_concrete: s = add(s.data + l, ...) with l = size + 4 for a string; the
\* other fields are skipped by their width.
SkippedBySil(f) == IF f.type = "string" THEN f.len + 4 ELSE f.len

\* deserialize_bytes and its siblings move the buffer past what they read.
SkippedByTl(f) ==
    IF f.type = "string"
      THEN LET offset == IF f.len <= 253 THEN 1 ELSE 0
           IN (IF f.len <= 253 THEN 1 ELSE 4) + f.len + Pad(f.len + offset, 4)
      ELSE f.len

Skipped(f) == IF msg.stack = "tg" THEN SkippedByTl(f) ELSE SkippedBySil(f)

\* hdl_header, tg_header: message id and length; with a key also salt, session
\* id and sequence number.  tg_header pads, with 16 bytes more than are needed.
HeaderOf == [rfc |-> 12, api |-> 32, tg |-> 32]
HeaderPad(n) == IF msg.stack = "tg" THEN 16 + Pad(n, 16) ELSE 0

\* enl_encrypt, tg_encrypt: the key's id, and with a key the message key.
EnvelopeOf == [rfc |-> 8, api |-> 24, tg |-> 24]
EncryptPad(n) == IF msg.stack = "api" THEN Pad(n, 16) ELSE 0

\* enl_decrypt takes the padding off again, by the length the header says.
DecryptPadLeft == 0
DecryptPad == IF msg.stack = "api" THEN Pad(said, 16) ELSE 0

---------------------------------------------------------------------------
Steps == {"serialize", "header", "encrypt", "transport", "detransport", "decrypt",
          "deheader", "deserialize"}

WireInit ==
    /\ msg \in Messages
    /\ step = "serialize"
    /\ wrote = <<0>> /\ reads = <<0>>
    /\ bufsize = 0 /\ said = 0 /\ length = 0 /\ cipher = 0

\* sel_serialize and what tl generates: each field behind the ones before it.
SerializeParam ==
    /\ step = "serialize" /\ Len(wrote) <= Len(msg.fields)
    /\ bufsize' = bufsize + Written(msg.fields[Len(wrote)])
    /\ wrote' = Append(wrote, bufsize')
    /\ UNCHANGED <<msg, step, said, length, cipher, reads>>

\* P_Q_inner_data and the like are part of another message: their layer is RSA
\* or AES, which takes and gives what was serialized.
Serialized ==
    /\ step = "serialize" /\ Len(wrote) > Len(msg.fields)
    /\ step' = IF msg.stack = "none" THEN "deserialize" ELSE "header"
    /\ UNCHANGED <<msg, wrote, bufsize, said, length, cipher, reads>>

Header ==
    /\ step = "header" /\ step' = "encrypt"
    /\ said' = bufsize
    /\ bufsize' = HeaderOf[msg.stack] + bufsize + HeaderPad(bufsize)
    /\ UNCHANGED <<msg, wrote, length, cipher, reads>>

Encrypt ==
    /\ step = "encrypt" /\ step' = "transport"
    /\ cipher' = bufsize + EncryptPad(bufsize)
    /\ bufsize' = EnvelopeOf[msg.stack] + cipher'
    /\ UNCHANGED <<msg, wrote, said, length, reads>>

Transport ==
    /\ step = "transport" /\ step' = "detransport"
    /\ length' = bufsize
    /\ bufsize' = 4 + bufsize
    /\ UNCHANGED <<msg, wrote, said, cipher, reads>>

\* tg_detransport gives up when the length does not match, trl_detransport only
\* says so.
Detransport ==
    /\ step = "detransport"
    /\ msg.stack = "tg" => length = bufsize - 4
    /\ step' = "decrypt"
    /\ bufsize' = bufsize - 4
    /\ UNCHANGED <<msg, wrote, said, length, cipher, reads>>

\* tg_decrypt refuses what is not a whole number of blocks.
Decrypt ==
    /\ step = "decrypt"
    /\ msg.stack = "tg" => (bufsize - EnvelopeOf.tg) % 16 = 0
    /\ step' = "deheader"
    /\ bufsize' = bufsize - EnvelopeOf[msg.stack] - DecryptPad
    /\ UNCHANGED <<msg, wrote, said, length, cipher, reads>>

\* hdl_deheader goes by what is left, tg_deheader by what the header says.
Deheader ==
    /\ step = "deheader" /\ step' = "deserialize"
    /\ bufsize' = IF msg.stack = "tg" THEN said ELSE bufsize - HeaderOf[msg.stack]
    /\ UNCHANGED <<msg, wrote, said, length, cipher, reads>>

DeserializeParam ==
    /\ step = "deserialize" /\ Len(reads) <= Len(msg.fields)
    /\ reads' = Append(reads, Last(reads) + Skipped(msg.fields[Len(reads)]))
    /\ UNCHANGED <<msg, step, wrote, bufsize, said, length, cipher>>

WireDone == step = "deserialize" /\ Len(reads) > Len(msg.fields) /\ UNCHANGED wireVars

WireNext ==
    \/ SerializeParam \/ Serialized \/ Header \/ Encrypt \/ Transport
    \/ Detransport \/ Decrypt \/ Deheader \/ DeserializeParam \/ WireDone

WireSpec == WireInit /\ [][WireNext]_wireVars

---------------------------------------------------------------------------
WireTypeOK ==
    /\ msg \in Messages
    /\ step \in Steps
    /\ \A n \in {bufsize, said, length, cipher} : n \in Nat
    /\ \A s \in {wrote, reads} : Len(s) \in 1..(Len(msg.fields) + 1)

\* Every field is looked for where it was put.  For mtx that holds up to the
\* first string whose length is no multiple of four: its strings (pq, dh_prime,
\* g_a) are multiples of four, or come last (sil_concrete, deserialize_bytes).
ReadsWhereWritten ==
    \A k \in DOMAIN reads :
        (\A j \in 1..(k - 1) :
            msg.stack # "tg" /\ msg.fields[j].type = "string"
              => msg.fields[j].len % 4 = 0)
        => reads[k] = wrote[k]

\* What is read is as long as what was serialized, whatever padding was put
\* around it: the layers take off what they put on (stk_drive, tg_deheader).
PeeledIsWrapped == step = "deserialize" => bufsize = Last(wrote)
=============================================================================
