--------------------------------- MODULE Files ---------------------------------
(***************************************************************************)
(* Files that are sent and fetched part by part (tg/files.c).  The content *)
(* of a file is a sequence of units that are all different, so that a part *)
(* tells where it belongs.  Each request goes through the queue manager;   *)
(* here it reaches the server or does not, and its answer comes or is NULL.*)
(*                                                                         *)
(* The server is external: it keeps a part under its number, replaces it   *)
(* when it comes again, and gives the part of a file at an offset that is  *)
(* a multiple of the limit.                                                *)
(***************************************************************************)
EXTENDS Integers, Sequences, Common

CONSTANTS
    Sizes,     \* bound: the lengths of files
    PartSize,  \* units of a part that is sent (524288 bytes)
    BigLimit,  \* the longest file that is not a big one (10485760 bytes)
    Limit,     \* units of a part that is fetched (1048576 bytes)
    IntMax,    \* the largest int, in units
    MaxLost    \* bound: requests and answers that are lost, and reads that fail

\* Files are below 4 GiB: the length of a longer one comes round in int size.
FilesAssumption ==
    /\ Sizes \subseteq 0..(2 * IntMax + 1)
    /\ {PartSize, Limit} \subseteq Nat \ {0}
    /\ {BigLimit, IntMax, MaxLost} \subseteq Nat
    /\ BigLimit < IntMax
    /\ Null # 0

VARIABLES
    job,     \* what is called
    at,      \* where the call is
    file,    \* the file on disk, or on the server, Null when there is none
    named,   \* whether a document has a file name
    mishaps, \* history: what has befallen the file and its parts
    size,    \* int size: measured at fopen, or told by the caller
    pos,     \* what was read from the file; offset
    eof,     \* whether the stream has met the end of the file
    starts,  \* history: where each part that was read begins
    bytes,   \* the part at hand
    buf,     \* all that was read; all that the callback was given
    part,    \* file_part
    server,  \* the parts that the server has
    message, \* the message with the file, once the server has it
    lost,    \* how often a request, an answer or a read was lost
    ret      \* what the call returned

filesVars == <<job, at, file, named, mishaps, size, pos, eof, starts, bytes, buf, part,
               server, message, lost, ret>>

Jobs == {"tg_document_send", "tg_get_document", "tg_get_photo_file",
         "tg_get_document_hashes", "tg_contact_send"}
Uploads == {"tg_document_send"}
Fetches == {"tg_get_document", "tg_get_photo_file"}

Content(n) == [i \in 1..n |-> i]
\* A length that is put into an int.
AsInt(n) == IF n > IntMax THEN n - 2 * (IntMax + 1) ELSE n
Big == size > BigLimit

FilesInit ==
    /\ job \in Jobs
    /\ at = IF job \in Uploads THEN "open" ELSE IF job \in Fetches THEN "loop" ELSE "ask"
    /\ file \in {Content(n) : n \in Sizes} \cup (IF job \in Uploads THEN {Null} ELSE {})
    /\ named \in IF job \in Uploads THEN BOOLEAN ELSE {FALSE}
    /\ mishaps = {} /\ eof = FALSE /\ starts = <<>>
    /\ size \in IF job = "tg_get_document"
                  THEN {AsInt(n) : n \in Sizes}
                  ELSE {0}
    /\ pos = 0 /\ part = 0 /\ lost = 0
    /\ bytes = <<>> /\ buf = <<>> /\ server = <<>>
    /\ message = Null /\ ret = Null

Returns(r) == at' = "returned" /\ ret' = r
Crashes == at' = "crashed" /\ UNCHANGED ret
Proceed(from, to) == at = from /\ at' = to /\ UNCHANGED ret
Lose == lost < MaxLost /\ lost' = lost + 1

---------------------------------------------------------------------------
(* tg_document_send.                                                       *)

\* A big file needs a name.
Open ==
    /\ at = "open"
    /\ IF file = Null
         THEN Returns(1) /\ UNCHANGED size
         ELSE /\ size' = AsInt(Len(file))
              /\ IF size' > BigLimit /\ ~named
                   THEN Returns(1)
                   ELSE at' = "read" /\ UNCHANGED ret
    /\ UNCHANGED <<job, file, named, mishaps, pos, eof, starts, bytes, buf, part,
                   server, message, lost>>

\* fread, which does not read on once it has met the end of the file.
NextPart == IF eof THEN <<>>
            ELSE SubSeq(file, pos + 1, IF pos + PartSize < Len(file)
                                         THEN pos + PartSize ELSE Len(file))

\* Nothing is taken for the end.
Take(data) ==
    /\ IF data = <<>>
         THEN at' = "send media" /\ UNCHANGED <<bytes, buf, pos, starts>>
         ELSE /\ at' = "send part"
              /\ bytes' = data
              /\ buf' = buf \o data
              /\ pos' = pos + Len(data)
              /\ starts' = Append(starts, pos)
    /\ UNCHANGED <<job, file, named, size, part, server, message, ret>>
ReadPart ==
    /\ at = "read"
    /\ Take(NextPart)
    /\ eof' = (eof \/ Len(NextPart) < PartSize)
    /\ UNCHANGED <<mishaps, lost>>
\* An error, which nobody asks for: less is read, and the next fread goes on there.
ReadFails ==
    /\ at = "read" /\ Lose
    /\ \E n \in 0..(Len(NextPart) - 1) : Take(SubSeq(NextPart, 1, n))
    /\ mishaps' = mishaps \cup {"cut"}
    /\ UNCHANGED eof

TotalParts == size \div PartSize + (IF size % PartSize = 0 THEN 0 ELSE 1)
Stored(data) ==
    [p \in DOMAIN server \cup {part} |->
       IF p = part THEN [bytes |-> data, total |-> IF Big THEN TotalParts ELSE 0]
       ELSE server[p]]
Kept == Stored(bytes)

\* The part is sent until the server answers boolTrue, without an end.
PartSaved ==
    /\ Proceed("send part", "progress")
    /\ server' = Kept
    /\ UNCHANGED <<job, file, named, mishaps, size, pos, eof, starts, bytes, buf, part,
                   message, lost>>
PartLostIsSkipped ==
    /\ Proceed("send part", "progress") /\ Lose
    /\ server' \in {server, Kept}
    /\ UNCHANGED <<job, file, named, mishaps, size, pos, eof, starts, bytes, buf, part,
                   message>>
PartLost ==
    /\ at = "send part" /\ Lose
    /\ server' \in {server, Kept}
    /\ UNCHANGED <<job, at, file, named, mishaps, size, pos, eof, starts, bytes, buf,
                   part, message, ret>>
\* The request of a big file is freed before it is sent: what is sent is what the
\* heap holds by then, which is nothing to the server, or a part with another
\* content, which it keeps and may acknowledge; or the process ends where that
\* memory is gone.
PartGarbled ==
    /\ at = "send part" /\ Big /\ Lose
    /\ \/ UNCHANGED <<at, server, mishaps>>
       \/ /\ at' \in {"send part", "progress"}
          /\ server' = Stored(Null)
          /\ mishaps' = mishaps \cup {"garbled"}
    /\ UNCHANGED <<job, file, named, size, pos, eof, starts, bytes, buf, part, message,
                   ret>>
PartCrashes ==
    /\ at = "send part" /\ Big
    /\ Crashes
    /\ UNCHANGED <<job, file, named, mishaps, size, pos, eof, starts, bytes, buf, part,
                   server, message, lost>>

\* The application sees how far it is.  Only for a big file it may cancel.
Progress ==
    /\ Proceed("progress", "read")
    /\ part' = part + 1
    /\ UNCHANGED <<job, file, named, mishaps, size, pos, eof, starts, bytes, buf,
                   server, message, lost>>
Cancel ==
    /\ at = "progress" /\ Big
    /\ Returns(1)
    /\ UNCHANGED <<job, file, named, mishaps, size, pos, eof, starts, bytes, buf, part,
                   server, message, lost>>

\* The message names the parts, and the checksum of what was read unless the file
\* is big; its answer is not looked at further than whether there is one.
Media == [parts |-> part, big |-> Big, sum |-> IF Big THEN Null ELSE buf]
SendMedia ==
    /\ at = "send media"
    /\ \/ message' = Media /\ Returns(0) /\ UNCHANGED lost
       \/ message' = Null /\ Returns(0) /\ UNCHANGED lost
       \/ message' \in {Null, Media} /\ Returns(1) /\ Lose
    /\ UNCHANGED <<job, file, named, mishaps, size, pos, eof, starts, bytes, buf, part,
                   server>>

\* Another program writes on.
Grow ==
    /\ job \in Uploads /\ file # Null /\ at \notin {"returned", "crashed"}
    /\ "grown" \notin mishaps
    /\ mishaps' = mishaps \cup {"grown"}
    /\ file' = Append(file, Len(file) + 1)
    /\ UNCHANGED <<job, at, named, size, pos, eof, starts, bytes, buf, part, server,
                   message, lost, ret>>

---------------------------------------------------------------------------
(* tg_get_file_with_progress.                                              *)

\* A percentage is logged first: offset / size, also when size is 0.
Loop ==
    /\ at = "loop"
    /\ IF size > 0 /\ pos >= size
         THEN Returns(0)
         ELSE \/ at' = "get part" /\ UNCHANGED ret
              \/ size = 0 /\ Crashes
    /\ UNCHANGED <<job, file, named, mishaps, size, pos, eof, starts, bytes, buf, part,
                   server, message, lost>>

\* What the server gives; external.
ServerPart(offset) ==
    SubSeq(file, offset + 1, IF offset + Limit < Len(file) THEN offset + Limit
                             ELSE Len(file))
GetPart ==
    /\ Proceed("get part", "callback")
    /\ pos % Limit = 0
    /\ bytes' = ServerPart(pos)
    /\ UNCHANGED <<job, file, named, mishaps, size, pos, eof, starts, buf, part, server,
                   message, lost>>
\* No answer, one that is no part, or one that was cancelled.
GetPartFails ==
    /\ at = "get part"
    /\ pos % Limit # 0 \/ lost < MaxLost
    /\ Returns(1)
    /\ UNCHANGED <<job, file, named, mishaps, size, pos, eof, starts, bytes, buf, part,
                   server, message, lost>>

OffsetOverwritten == Len(bytes)
Offset == pos + Len(bytes)
\* The callback of a photo takes one part; that of a document may take more.
PartCallback ==
    /\ at = "callback"
    /\ pos' = Offset
    /\ buf' = buf \o bytes
    /\ \/ job = "tg_get_document" /\ at' = "loop" /\ UNCHANGED <<ret, named>>
       \/ Returns(0) /\ named' = TRUE
    /\ UNCHANGED <<job, file, mishaps, size, eof, starts, bytes, part, server, message,
                   lost>>

---------------------------------------------------------------------------
\* The number of a document is taken for the address of the answer.
GetHashes ==
    /\ at = "ask" /\ job = "tg_get_document_hashes"
    /\ Returns(0) \/ Crashes
    /\ UNCHANGED <<job, file, named, mishaps, size, pos, eof, starts, bytes, buf, part,
                   server, message, lost>>
\* Also tg_send_geopoint: an error is told apart, and updates are dropped.
SendContact ==
    /\ at = "ask" /\ job = "tg_contact_send"
    /\ \/ message' = [parts |-> 0, big |-> FALSE, sum |-> <<>>] /\ Returns(0) /\ UNCHANGED lost
       \/ message' = Null /\ Returns(1) /\ UNCHANGED lost
       \/ message' = [parts |-> 0, big |-> FALSE, sum |-> <<>>] /\ Returns(1) /\ Lose
    /\ UNCHANGED <<job, file, named, mishaps, size, pos, eof, starts, bytes, buf, part,
                   server>>

FilesDone == at \in {"returned", "crashed"} /\ UNCHANGED filesVars

FilesNext ==
    \/ Open \/ ReadPart \/ ReadFails \/ PartSaved \/ PartLost \/ PartGarbled \/ PartCrashes
    \/ Progress \/ Cancel \/ SendMedia \/ Grow
    \/ Loop \/ GetPart \/ GetPartFails \/ PartCallback
    \/ GetHashes \/ SendContact
    \/ FilesDone

FilesSpec == FilesInit /\ [][FilesNext]_filesVars

---------------------------------------------------------------------------
\* Part p of what was read.
PartRead(p) ==
    SubSeq(Content(pos), starts[p + 1] + 1,
           IF p + 1 < Len(starts) THEN starts[p + 2] ELSE pos)

\* When the server has the message, it has every part the message counts, and they
\* make up what was read of the file, each once and in its place, whatever was lost
\* and sent again; only memory that was freed may be there in place of a part of a
\* big file.  That is also what the checksum is of (tg_document_send).  All of the
\* file is read, in parts that are as long but the last, and the total told with the
\* parts of a big one is their number, unless the file has grown meanwhile or could
\* not be read.
UploadIsWhole ==
    job \in Uploads /\ message # Null =>
        /\ message.parts = Len(starts) /\ (starts = <<>> => pos = 0)
        /\ \A p \in 0..(message.parts - 1) :
              /\ p \in DOMAIN server
              /\ \/ server[p].bytes = PartRead(p)
                 \/ server[p].bytes = Null /\ message.big /\ "garbled" \in mishaps
              /\ PartRead(p) # <<>> /\ (p = 0 => starts[p + 1] = 0)
              /\ "cut" \notin mishaps => starts[p + 1] = p * PartSize
        /\ message.sum \in {Null, Content(pos)}
        /\ {"grown", "cut"} \cap mishaps = {} =>
              /\ pos = Len(file)
              /\ message.big => \A p \in DOMAIN server : server[p].total = message.parts

\* What the callback is given is the file from its beginning, without a gap and
\* without a repetition, and a call that answers 0, and was not stopped by the
\* callback, has given as much as it was told the file has
\* (tg_get_file_with_progress).
DownloadIsPrefix ==
    job \in Fetches =>
        /\ buf = Content(Len(buf)) /\ Len(buf) <= Len(file)
        /\ ret = 0 /\ ~named => Len(buf) >= size
=============================================================================
