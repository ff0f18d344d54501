---------------------------- MODULE Content_proofs ----------------------------
(***************************************************************************)
(* Theorems about files, updates and lists that are asked for, for files   *)
(* of any length, parts of any size, and any answers.                      *)
(***************************************************************************)
EXTENDS Files, Updates, Dialogs, SequenceTheorems, WellFoundedInduction, TLAPS

-----------------------------------------------------------------------------
(* Files that are fetched.                                                 *)

\* What is at hand when a part has come, and what the callback was given so far.
FetchInv ==
    job \in Fetches =>
        /\ Len(file) \in Nat /\ file = Content(Len(file))
        /\ size \in Int /\ pos \in Nat /\ pos <= Len(file)
        /\ buf = Content(pos)
        /\ at \in {"loop", "get part", "callback", "returned", "crashed"}
        /\ at = "callback" => bytes = ServerPart(pos)
        /\ at # "returned" => ret = Null /\ named = FALSE
        /\ ret = 0 /\ ~named => pos >= size

\* The beginning of a file, and the next of it.
LEMMA ContentSeq ==
  ASSUME NEW n \in Nat PROVE Content(n) \in Seq(Nat) /\ Len(Content(n)) = n
  BY DEF Content

LEMMA PartFollows ==
  ASSUME NEW n \in Nat, NEW k \in Nat, k <= n, NEW e \in Nat, k <= e, e <= n
  PROVE  /\ Content(k) \o SubSeq(Content(n), k + 1, e) = Content(e)
         /\ Len(SubSeq(Content(n), k + 1, e)) = e - k
<1> DEFINE s == SubSeq(Content(n), k + 1, e)
<1>1. /\ s \in Seq(Nat) /\ Len(s) = e - k
      /\ \A i \in 1..(e - k) : s[i] = k + i
  <2>1. \A i \in (k + 1)..e : Content(n)[i] = i /\ i \in Nat
    BY DEF Content
  <2>2. /\ s \in Seq(Nat)
        /\ Len(s) = IF k + 1 <= e THEN e - (k + 1) + 1 ELSE 0
        /\ \A i \in 1..(e - (k + 1) + 1) : s[i] = Content(n)[k + 1 + i - 1]
    BY <2>1, SubSeqProperties
  <2>3. Len(s) = e - k
    BY <2>2
  <2>4. ASSUME NEW i \in 1..(e - k) PROVE s[i] = k + i
    <3>1. i \in 1..(e - (k + 1) + 1) /\ k + 1 + i - 1 = k + i /\ k + i \in (k + 1)..e
      OBVIOUS
    <3>2. s[i] = Content(n)[k + 1 + i - 1]
      BY <2>2, <3>1
    <3> QED
      BY <2>1, <3>1, <3>2
  <2> QED
    BY <2>2, <2>3, <2>4
<1> HIDE DEF s
<1>2. Content(k) \in Seq(Nat) /\ Len(Content(k)) = k /\ \A i \in 1..k : Content(k)[i] = i
  BY DEF Content
<1>3. /\ Content(k) \o s \in Seq(Nat) /\ Len(Content(k) \o s) = e
      /\ \A i \in 1..e : (Content(k) \o s)[i] = i
  <2> DEFINE c == Content(k)
  <2>1. c \in Seq(Nat) /\ Len(c) = k /\ \A i \in 1..k : c[i] = i
    BY <1>2
  <2> HIDE DEF c
  <2>2. /\ c \o s \in Seq(Nat) /\ Len(c \o s) = k + (e - k)
        /\ \A i \in 1..(k + (e - k)) : (c \o s)[i] = IF i <= k THEN c[i] ELSE s[i - k]
    <3>1. /\ c \o s \in Seq(Nat) /\ Len(c \o s) = Len(c) + Len(s)
          /\ \A i \in 1..(Len(c) + Len(s)) :
                (c \o s)[i] = IF i <= Len(c) THEN c[i] ELSE s[i - Len(c)]
      BY <1>1, <2>1, ConcatProperties
    <3>2. Len(c) = k /\ Len(s) = e - k
      BY <1>1, <2>1
    <3> QED
      BY <3>1, <3>2
  <2>3. ASSUME NEW i \in 1..e PROVE (c \o s)[i] = i
    <3>1. i \in Int /\ 1 <= i /\ i <= e /\ k + (e - k) = e
      OBVIOUS
    <3>2. (c \o s)[i] = IF i <= k THEN c[i] ELSE s[i - k]
      BY <2>2, <3>1
    <3>3. CASE i <= k
      BY <2>1, <3>1, <3>2, <3>3
    <3>4. CASE ~(i <= k)
      <4>1. i - k \in 1..(e - k) /\ k + (i - k) = i
        BY <3>1, <3>4
      <4> QED
        BY <1>1, <3>2, <3>4, <4>1
    <3> QED
      BY <3>3, <3>4
  <2>4. k + (e - k) = e
    OBVIOUS
  <2> QED
    BY <2>2, <2>3, <2>4 DEF c
<1>4. Content(e) \in Seq(Nat) /\ Len(Content(e)) = e /\ \A i \in 1..e : Content(e)[i] = i
  BY DEF Content
<1>5. Content(k) \o s = Content(e)
  BY <1>3, <1>4, SeqEqual
<1> QED
  BY <1>1, <1>5 DEF s

\* What the server gives is the next of the file, of which there may be none.
LEMMA NextOfFile ==
  ASSUME FilesAssumption, NEW n \in Nat, file = Content(n), NEW k \in Nat, k <= n
  PROVE  \E e \in k..n : Content(k) \o ServerPart(k) = Content(e) /\ Len(ServerPart(k)) = e - k
<1> DEFINE e == IF k + Limit < n THEN k + Limit ELSE n
<1>1. Limit \in Nat /\ Len(file) = n
  BY ContentSeq DEF FilesAssumption
<1>2. e \in Nat /\ k <= e /\ e <= n
  BY <1>1
<1>3. ServerPart(k) = SubSeq(Content(n), k + 1, e)
  BY <1>1 DEF ServerPart
<1> HIDE DEF e
<1>4. /\ Content(k) \o SubSeq(Content(n), k + 1, e) = Content(e)
      /\ Len(SubSeq(Content(n), k + 1, e)) = e - k
  BY <1>2, PartFollows
<1>5. e \in k..n
  BY <1>2
<1> QED
  BY <1>3, <1>4, <1>5

LEMMA InitFetch == ASSUME FilesAssumption, FilesInit PROVE FetchInv
<1> SUFFICES ASSUME job \in Fetches PROVE FetchInv
  BY DEF FetchInv
<1>1. job \notin Uploads
  BY DEF Fetches, Uploads
<1>2. PICK n \in Sizes : file = Content(n)
  BY <1>1 DEF FilesInit
<1>3. n \in Nat /\ Len(file) = n
  BY <1>2, ContentSeq DEF FilesAssumption
<1>4. size \in Int
  <2>1. \A k \in Sizes : AsInt(k) \in Int
    BY DEF FilesAssumption, AsInt
  <2> QED
    BY <2>1 DEF FilesInit
<1>5. Content(0) = <<>>
  BY DEF Content
<1>6. at = "loop" /\ named = FALSE /\ pos = 0 /\ buf = <<>> /\ ret = Null /\ Null # 0
  BY <1>1 DEF FilesInit, FilesAssumption
<1> QED
  BY <1>2, <1>3, <1>4, <1>5, <1>6 DEF FetchInv

LEMMA NextFetch == ASSUME FilesAssumption, FetchInv, [FilesNext]_filesVars PROVE FetchInv'
<1> SUFFICES ASSUME job' \in Fetches PROVE FetchInv'
  BY DEF FetchInv
<1>0. job' = job
  BY DEF FilesNext, filesVars, Open, ReadPart, ReadFails, Take, PartSaved, PartLost, PartGarbled, PartCrashes, Progress,
     Cancel, SendMedia, Grow, Loop, GetPart, GetPartFails, PartCallback, GetHashes, SendContact, FilesDone
<1>1. /\ job \in Fetches /\ job \notin Uploads /\ job \notin {"tg_get_document_hashes", "tg_contact_send"}
      /\ Len(file) \in Nat /\ file = Content(Len(file))
      /\ size \in Int /\ pos \in Nat /\ pos <= Len(file)
      /\ buf = Content(pos)
      /\ at \in {"loop", "get part", "callback", "returned", "crashed"}
      /\ at = "callback" => bytes = ServerPart(pos)
      /\ at # "returned" => ret = Null /\ named = FALSE
      /\ ret = 0 /\ ~named => pos >= size
  BY <1>0 DEF FetchInv, Fetches, Uploads
<1>2. Null # 0
  BY DEF FilesAssumption
<1>3. CASE Loop
  BY <1>1, <1>2, <1>3 DEF Loop, Returns, Crashes, FetchInv, ServerPart
<1>4. CASE GetPart
  <2>1. UNCHANGED <<job, file, named, size, pos, buf, ret>> /\ at' = "callback" /\ at = "get part"
        /\ bytes' = ServerPart(pos)
    BY <1>4 DEF GetPart, Proceed
  <2>2. ServerPart(pos)' = ServerPart(pos)
    BY <2>1 DEF ServerPart
  <2> QED
    BY <1>1, <1>2, <2>1, <2>2 DEF FetchInv
<1>5. CASE GetPartFails
  <2>1. /\ UNCHANGED <<job, file, named, size, pos, buf>> /\ at' = "returned" /\ ret' = 1
    BY <1>5 DEF GetPartFails, Returns
  <2>2. /\ Len(file)' \in Nat /\ file' = Content(Len(file))'
        /\ size' \in Int /\ pos' \in Nat /\ pos' <= Len(file)' /\ buf' = Content(pos)'
    BY <1>1, <2>1
  <2>3. at' \in {"loop", "get part", "callback", "returned", "crashed"} /\ at' # "callback"
    BY <2>1
  <2>4. ret' # 0
    BY <2>1
  <2> QED
    BY <2>1, <2>2, <2>3, <2>4 DEF FetchInv
<1>6. CASE PartCallback
  <2>1. /\ UNCHANGED <<job, file, size>> /\ at = "callback"
        /\ pos' = pos + Len(bytes) /\ buf' = buf \o bytes
        /\ \/ at' = "loop" /\ UNCHANGED <<ret, named>>
           \/ at' = "returned" /\ ret' = 0 /\ named' = TRUE
    BY <1>6 DEF PartCallback, Offset, Returns
  <2>2. PICK e \in pos..Len(file) :
           Content(pos) \o ServerPart(pos) = Content(e) /\ Len(ServerPart(pos)) = e - pos
    BY <1>1, NextOfFile
  <2>3. pos' = e /\ buf' = Content(e)
    BY <1>1, <2>1, <2>2
  <2>4. pos' \in Nat /\ pos' <= Len(file)' /\ buf' = Content(pos')
    BY <1>1, <2>1, <2>2, <2>3
  <2> QED
    BY <1>1, <1>2, <2>1, <2>4 DEF FetchInv, Content
<1>7. CASE UNCHANGED filesVars
  BY <1>1, <1>7 DEF FetchInv, filesVars, ServerPart
<1>8. CASE Open \/ ReadPart \/ ReadFails \/ PartSaved \/ PartLost \/ PartGarbled \/ PartCrashes \/ Progress
           \/ Cancel \/ SendMedia \/ Grow \/ GetHashes \/ SendContact
  <2>1. at \in {"open", "read", "send part", "progress", "send media"} \/ job \in Uploads
        \/ job \in {"tg_get_document_hashes", "tg_contact_send"}
    BY <1>8 DEF Open, ReadPart, ReadFails, PartSaved, PartLost, PartGarbled, PartCrashes, Progress, Cancel,
       SendMedia, Grow, GetHashes, SendContact, Proceed
  <2> QED
    BY <1>1, <2>1
<1> QED
  BY <1>3, <1>4, <1>5, <1>6, <1>7, <1>8 DEF FilesNext, FilesDone

-----------------------------------------------------------------------------
\* The invariant of tg_get_file_with_progress: offset is the length of what the
\* callback was given, and the part at hand is the one that follows it.
THEOREM Invariance == ASSUME FilesAssumption PROVE FilesSpec => []FetchInv
<1>1. FilesInit => FetchInv
  BY InitFetch
<1>2. FetchInv /\ [FilesNext]_filesVars => FetchInv'
  BY NextFetch
<1> QED
  BY <1>1, <1>2, PTL DEF FilesSpec

\* What tg_get_file_with_progress gives its callback is a beginning of the file,
\* and all that was asked for when it answers 0, for every size of file and part.
THEOREM DownloadsArePrefixes == ASSUME FilesAssumption PROVE FilesSpec => []DownloadIsPrefix
<1>1. FetchInv => DownloadIsPrefix
  <2> SUFFICES ASSUME FetchInv, job \in Fetches
               PROVE  /\ buf = Content(Len(buf)) /\ Len(buf) <= Len(file)
                      /\ ret = 0 /\ ~named => Len(buf) >= size
    BY DEF DownloadIsPrefix
  <2>1. Len(buf) = pos
    BY ContentSeq DEF FetchInv
  <2> QED
    BY <2>1 DEF FetchInv
<1> QED
  BY <1>1, Invariance, PTL

-----------------------------------------------------------------------------
(* Files that are sent.                                                    *)

\* The units of a file after the first n.
Slice(n, len) == [i \in 1..len |-> n + i]

\* Where part p ends, and how the first n parts lie in what was read.
PartEnd(p) == IF p + 1 < Len(starts) THEN starts[p + 2] ELSE pos
InPlace(n) ==
    /\ starts \in Seq(Nat) /\ Len(starts) = n
    /\ IF n = 0 THEN pos = 0 ELSE starts[1] = 0
    /\ \A p \in 0..(n - 1) : starts[p + 1] < PartEnd(p) /\ PartEnd(p) <= pos
    /\ "cut" \notin mishaps =>
          /\ \A p \in 0..(n - 1) : starts[p + 1] = p * PartSize
          /\ pos <= n * PartSize /\ (~eof => pos = n * PartSize)

\* The server has the first n parts, but for those of which freed memory was sent.
Has(p) ==
    /\ p \in DOMAIN server
    /\ \/ server[p].bytes = PartRead(p)
       \/ server[p].bytes = Null /\ Big /\ "garbled" \in mishaps
HasParts(n) == \A p \in 0..(n - 1) : Has(p)
Totals == \A p \in DOMAIN server : server[p].total = IF Big THEN TotalParts ELSE 0

Sending == {"read", "send part", "progress", "send media"}
Untouched == {"grown", "cut"} \cap mishaps = {}

FileInv ==
    /\ Len(file) \in Nat /\ file = Content(Len(file)) /\ pos <= Len(file)
    /\ "grown" \notin mishaps => Len(file) <= 2 * IntMax + 1
SendInv ==
    /\ buf = Content(pos)
    /\ "grown" \notin mishaps => size = AsInt(Len(file))
    /\ eof /\ Untouched => pos = Len(file)
    /\ InPlace(IF at \in {"send part", "progress"} THEN part + 1 ELSE part)
    /\ at \in {"send part", "progress"} => bytes = PartRead(part)
    /\ HasParts(IF at = "progress" THEN part + 1 ELSE part)
    /\ Totals

\* How far the reading, the sending and the numbering of the parts are.
UploadInv ==
    job \in Uploads =>
        /\ part \in Nat /\ pos \in Nat /\ size \in Int
        /\ eof \in BOOLEAN
        /\ at \in Sending \cup {"open", "returned", "crashed"}
        /\ at = "open" => /\ part = 0 /\ pos = 0 /\ buf = <<>> /\ server = <<>>
                          /\ starts = <<>> /\ eof = FALSE
        /\ at \in Sending \/ (at = "open" /\ file # Null) => FileInv
        /\ at \in Sending => SendInv
        /\ at = "send media" /\ Untouched => pos = Len(file)
        /\ message # Null => at = "returned" /\ UploadIsWhole

\* Blocks of the same length, one after another.
LEMMA Times ==
  ASSUME NEW b \in Nat \ {0}, NEW q \in Nat
  PROVE  /\ q * b \in Nat /\ (q + 1) * b = q * b + b
         /\ \A r \in 0..(b - 1) : (q * b + r) \div b = q /\ (q * b + r) % b = r
         /\ \A p \in Nat : p < q => p * b \in Nat /\ p * b + b <= q * b
<1>1. q * b \in Nat /\ (q + 1) * b = q * b + b
  OBVIOUS
<1>2. ASSUME NEW r \in 0..(b - 1) PROVE (q * b + r) \div b = q /\ (q * b + r) % b = r
  OBVIOUS
<1>3. ASSUME NEW p \in Nat, p < q PROVE p * b \in Nat /\ p * b + b <= q * b
  <2>1. PICK c \in Nat : q = p + 1 + c
    <3>1. q - p - 1 \in Nat /\ q = p + 1 + (q - p - 1)
      BY <1>3
    <3> QED
      BY <3>1
  <2>2. q * b = p * b + b + c * b /\ c * b \in Nat /\ p * b \in Nat
    BY <2>1
  <2> QED
    BY <2>2
<1> QED
  BY <1>1, <1>2, <1>3

\* A part of a file is a slice of it.
LEMMA SliceOfFile ==
  ASSUME NEW n \in Nat, NEW k \in Nat, NEW e \in Nat, k <= e, e <= n
  PROVE  SubSeq(Content(n), k + 1, e) = Slice(k, e - k)
<1> DEFINE s == SubSeq(Content(n), k + 1, e)
<1>1. \A i \in (k + 1)..e : Content(n)[i] = i /\ i \in Nat
  BY DEF Content
<1>2. /\ s \in Seq(Nat)
      /\ Len(s) = IF k + 1 <= e THEN e - (k + 1) + 1 ELSE 0
      /\ \A i \in 1..(e - (k + 1) + 1) : s[i] = Content(n)[k + 1 + i - 1]
  BY <1>1, SubSeqProperties
<1>3. Len(s) = e - k
  BY <1>2
<1>4. ASSUME NEW i \in 1..(e - k) PROVE s[i] = k + i
  <2>1. i \in 1..(e - (k + 1) + 1) /\ k + 1 + i - 1 = k + i /\ k + i \in (k + 1)..e
    OBVIOUS
  <2>2. s[i] = Content(n)[k + 1 + i - 1]
    BY <1>2, <2>1
  <2> QED
    BY <1>1, <2>1, <2>2
<1> HIDE DEF s
<1>5. /\ Slice(k, e - k) \in Seq(Nat) /\ Len(Slice(k, e - k)) = e - k
      /\ \A i \in 1..(e - k) : Slice(k, e - k)[i] = k + i
  BY DEF Slice
<1>6. s = Slice(k, e - k)
  BY <1>2, <1>3, <1>4, <1>5, SeqEqual
<1> QED
  BY <1>6 DEF s

\* A part is a slice of the file.
LEMMA PartIsSlice ==
  ASSUME NEW n \in Nat, InPlace(n), pos \in Nat, NEW p \in 0..(n - 1)
  PROVE  /\ starts[p + 1] \in Nat /\ PartEnd(p) \in Nat
         /\ PartRead(p) = Slice(starts[p + 1], PartEnd(p) - starts[p + 1])
         /\ PartRead(p) # <<>>
<1>1. starts \in Seq(Nat) /\ Len(starts) = n /\ starts[p + 1] < PartEnd(p) /\ PartEnd(p) <= pos
  BY DEF InPlace
<1>2. PICK k \in Nat : k = starts[p + 1]
  <2>1. p + 1 \in 1..Len(starts)
    BY <1>1
  <2> QED
    BY <1>1, <2>1
<1>3. PICK e \in Nat : e = PartEnd(p)
  <2>1. p + 1 < Len(starts) => p + 2 \in 1..Len(starts)
    BY <1>1
  <2> QED
    BY <1>1, <2>1 DEF PartEnd
<1>4. k < e /\ e <= pos
  BY <1>1, <1>2, <1>3
<1>5. PartRead(p) = SubSeq(Content(pos), k + 1, e)
  BY <1>2, <1>3 DEF PartRead, PartEnd
<1>6. SubSeq(Content(pos), k + 1, e) = Slice(k, e - k)
  BY <1>4, SliceOfFile
<1>7. Slice(k, e - k) # <<>>
  <2>1. e - k \in Nat /\ e - k > 0
    BY <1>4
  <2>2. Len(Slice(k, e - k)) = e - k
    BY <2>1 DEF Slice
  <2> QED
    BY <2>1, <2>2
<1> QED
  BY <1>2, <1>3, <1>5, <1>6, <1>7

\* What is read next, all of it or less.
LEMMA NextOfDisk ==
  ASSUME NEW n \in Nat, file = Content(n), pos \in Nat, NEW e \in pos..n
  PROVE  /\ SubSeq(file, pos + 1, e) = Slice(pos, e - pos)
         /\ Len(SubSeq(file, pos + 1, e)) = e - pos
         /\ SubSeq(file, pos + 1, e) = <<>> <=> e = pos
         /\ Content(pos) \o SubSeq(file, pos + 1, e) = Content(e)
<1> DEFINE s == SubSeq(file, pos + 1, e)
<1>1. PICK k \in Nat, f \in Nat : k = pos /\ f = e /\ k <= f /\ f <= n /\ k <= n
  OBVIOUS
<1>2. s = SubSeq(Content(n), k + 1, f)
  BY <1>1
<1>3. SubSeq(Content(n), k + 1, f) = Slice(k, f - k)
  BY <1>1, SliceOfFile
<1>4. /\ Content(k) \o SubSeq(Content(n), k + 1, f) = Content(f)
      /\ Len(SubSeq(Content(n), k + 1, f)) = f - k
  BY <1>1, PartFollows
<1> HIDE DEF s
<1>5. s = Slice(pos, e - pos) /\ Len(s) = e - pos /\ Content(pos) \o s = Content(e)
  BY <1>1, <1>2, <1>3, <1>4
<1>6. s = <<>> <=> e = pos
  <2>1. s = <<>> => Len(s) = 0
    OBVIOUS
  <2>2. e = pos => s = <<>>
    <3>1. e = pos => e - pos = 0
      OBVIOUS
    <3>2. Slice(pos, 0) = <<>>
      BY DEF Slice
    <3> QED
      BY <1>5, <3>1, <3>2
  <2>3. e - pos = 0 => e = pos
    OBVIOUS
  <2> QED
    BY <1>5, <2>1, <2>2, <2>3
<1> QED
  BY <1>5, <1>6 DEF s

\* Less of a part is less of the file.
LEMMA LessOfPart ==
  ASSUME NEW n \in Nat, file = Content(n), pos \in Nat, NEW e \in pos..n,
         NEW m \in 0..(e - pos)
  PROVE  SubSeq(SubSeq(file, pos + 1, e), 1, m) = SubSeq(file, pos + 1, pos + m)
<1>1. SubSeq(file, pos + 1, e) = Slice(pos, e - pos)
  BY NextOfDisk
<1>2. PICK f \in pos..n : f = pos + m
  OBVIOUS
<1>3. SubSeq(file, pos + 1, f) = Slice(pos, f - pos)
  BY NextOfDisk
<1>4. f - pos = m
  BY <1>2
<1> DEFINE s == Slice(pos, e - pos)
           r == SubSeq(s, 1, m)
<1>5. PICK l \in Nat : l = e - pos /\ m <= l /\ m \in Nat
  <2>1. e - pos \in Nat
    OBVIOUS
  <2> QED
    BY <2>1
<1>6. \A i \in 1..m : s[i] = pos + i /\ s[i] \in Nat
  BY <1>5 DEF Slice
<1> HIDE DEF s
<1>7. /\ r \in Seq(Nat)
      /\ Len(r) = IF 1 <= m THEN m - 1 + 1 ELSE 0
      /\ \A i \in 1..(m - 1 + 1) : r[i] = s[1 + i - 1]
  BY <1>5, <1>6, SubSeqProperties
<1>8. Len(r) = m /\ \A i \in 1..m : r[i] = pos + i
  <2>1. m - 1 + 1 = m /\ \A i \in 1..m : 1 + i - 1 = i
    BY <1>5
  <2> QED
    BY <1>5, <1>6, <1>7, <2>1
<1> HIDE DEF r
<1>9. /\ Slice(pos, m) \in Seq(Nat) /\ Len(Slice(pos, m)) = m
      /\ \A i \in 1..m : Slice(pos, m)[i] = pos + i
  BY <1>5 DEF Slice
<1>10. r = Slice(pos, m)
  BY <1>7, <1>8, <1>9, SeqEqual
<1> QED
  BY <1>1, <1>2, <1>3, <1>4, <1>10 DEF r, s

\* The total that is told is the number of the parts.
LEMMA TotalIsParts ==
  ASSUME FilesAssumption, NEW n \in Nat \ {0}, size \in Nat,
         (n - 1) * PartSize < size, size <= n * PartSize
  PROVE  TotalParts = n
<1>1. PartSize \in Nat \ {0}
  BY DEF FilesAssumption
<1>2. PICK m \in Nat : n = m + 1
  <2>1. n - 1 \in Nat /\ n = (n - 1) + 1
    OBVIOUS
  <2> QED
    BY <2>1
<1>3. /\ m * PartSize \in Nat /\ n * PartSize = m * PartSize + PartSize /\ n - 1 = m
      /\ n * PartSize \in Nat
      /\ \A r \in 0..(PartSize - 1) : /\ (m * PartSize + r) \div PartSize = m
                                      /\ (m * PartSize + r) % PartSize = r
      /\ (n * PartSize + 0) \div PartSize = n /\ (n * PartSize + 0) % PartSize = 0
  <2>1. n \in Nat /\ 0 \in 0..(PartSize - 1)
    BY <1>1
  <2> QED
    BY <1>1, <1>2, <2>1, Times
<1>4. CASE size = n * PartSize
  BY <1>3, <1>4 DEF TotalParts
<1>5. CASE size # n * PartSize
  <2>1. PICK r \in 0..(PartSize - 1) : r # 0 /\ size = m * PartSize + r
    <3>1. size - m * PartSize \in 1..(PartSize - 1)
      BY <1>1, <1>3, <1>5
    <3>2. size = m * PartSize + (size - m * PartSize)
      BY <1>3
    <3> QED
      BY <3>1, <3>2
  <2> QED
    BY <1>2, <1>3, <2>1 DEF TotalParts
<1> QED
  BY <1>4, <1>5

LEMMA InitUpload == ASSUME FilesAssumption, FilesInit PROVE UploadInv
<1> SUFFICES ASSUME job \in Uploads PROVE UploadInv
  BY DEF UploadInv
<1>1. /\ at = "open" /\ part = 0 /\ pos = 0 /\ server = <<>> /\ size = 0
      /\ buf = <<>> /\ message = Null /\ eof = FALSE /\ starts = <<>>
  BY DEF FilesInit, Uploads
<1>2. ASSUME file # Null
      PROVE  Len(file) \in Nat /\ file = Content(Len(file)) /\ Len(file) <= 2 * IntMax + 1
  <2>1. PICK n \in Sizes : file = Content(n)
    BY <1>2 DEF FilesInit
  <2>2. n \in Nat /\ n <= 2 * IntMax + 1
    BY DEF FilesAssumption
  <2> QED
    BY <2>1, <2>2, ContentSeq
<1>3. at = "open" /\ file # Null => FileInv
  BY <1>1, <1>2 DEF FileInv
<1>4. at \notin Sending /\ at \in Sending \cup {"open", "returned", "crashed"} /\ eof \in BOOLEAN
  BY <1>1 DEF Sending
<1> QED
  BY <1>1, <1>3, <1>4 DEF UploadInv

\* The file is opened and measured.
LEMMA OpenUpload == ASSUME FilesAssumption, UploadInv, job \in Uploads, Open PROVE UploadInv'
<1>1. /\ at = "open" /\ part = 0 /\ pos = 0 /\ server = <<>> /\ buf = <<>>
      /\ starts = <<>> /\ eof = FALSE
      /\ message = Null /\ size \in Int
      /\ file # Null => FileInv
  BY DEF UploadInv, Open
<1>2. /\ UNCHANGED <<job, file, mishaps, pos, eof, starts, bytes, buf, part, server, message>>
      /\ at' \in {"returned", "read"} /\ (at' = "read" => file # Null)
      /\ file # Null => size' = AsInt(Len(file))
      /\ file = Null => size' = size
  BY DEF Open, Returns
<1>3. size' \in Int
  BY <1>1, <1>2 DEF FileInv, AsInt, FilesAssumption
<1>4. ASSUME at' = "read" PROVE SendInv' /\ FileInv'
  <2>1. Content(0) = <<>> /\ DOMAIN <<>> = {} /\ 0 * PartSize = 0 /\ <<>> \in Seq(Nat) /\ Len(<<>>) = 0
    BY DEF Content, FilesAssumption
  <2>2. InPlace(0)'
    BY <1>1, <1>2, <2>1 DEF InPlace
  <2>3. HasParts(0)'
    BY DEF HasParts
  <2>4. Totals'
    BY <1>1, <1>2, <2>1 DEF Totals
  <2>5. FileInv'
    BY <1>1, <1>2, <1>4 DEF FileInv, Content
  <2>6. buf' = Content(pos)'
    BY <1>1, <1>2, <2>1
  <2>7. size' = AsInt(Len(file))'
    BY <1>2, <1>4 DEF AsInt
  <2>8. part' = 0 /\ eof' = FALSE /\ at' \notin {"send part", "progress"}
    BY <1>1, <1>2, <1>4
  <2> QED
    BY <2>2, <2>3, <2>4, <2>5, <2>6, <2>7, <2>8 DEF SendInv
<1> QED
  BY <1>1, <1>2, <1>3, <1>4 DEF UploadInv, Sending

\* What there is while the file is sent.
LEMMA WhileSending ==
  ASSUME FilesAssumption, UploadInv, job \in Uploads, at \in Sending
  PROVE  /\ part \in Nat /\ pos \in Nat /\ size \in Int /\ eof \in BOOLEAN /\ message = Null
         /\ PartSize \in Nat \ {0} /\ part * PartSize \in Nat
         /\ (part + 1) * PartSize = part * PartSize + PartSize
         /\ FileInv /\ SendInv
<1>1. at # "returned"
  BY DEF Sending
<1>2. PartSize \in Nat \ {0} /\ part \in Nat
  BY DEF UploadInv, FilesAssumption
<1>3. part * PartSize \in Nat /\ (part + 1) * PartSize = part * PartSize + PartSize
  BY <1>2, Times
<1> QED
  BY <1>1, <1>2, <1>3 DEF UploadInv

\* The parts that were read stay what they are when the next one is.
LEMMA NextInPlace ==
  ASSUME FilesAssumption, NEW n \in Nat, InPlace(n), pos \in Nat, pos' \in Nat, pos < pos',
         starts' = Append(starts, pos),
         mishaps' \in {mishaps, mishaps \cup {"cut"}},
         "cut" \notin mishaps' =>
            ~eof /\ pos' <= pos + PartSize /\ (~eof' => pos' = pos + PartSize)
  PROVE  InPlace(n + 1)' /\ (\A p \in 0..(n - 1) : PartRead(p)' = PartRead(p))
         /\ PartRead(n)' = SubSeq(Content(pos'), pos + 1, pos')
<1>1. /\ starts \in Seq(Nat) /\ Len(starts) = n /\ (IF n = 0 THEN pos = 0 ELSE starts[1] = 0)
      /\ \A p \in 0..(n - 1) : starts[p + 1] < PartEnd(p) /\ PartEnd(p) <= pos
      /\ "cut" \notin mishaps =>
            /\ \A p \in 0..(n - 1) : starts[p + 1] = p * PartSize
            /\ pos <= n * PartSize /\ (~eof => pos = n * PartSize)
  BY DEF InPlace
<1>2. /\ starts' \in Seq(Nat) /\ Len(starts') = n + 1 /\ starts'[n + 1] = pos
      /\ \A p \in 0..(n - 1) : starts'[p + 1] = starts[p + 1]
  BY <1>1
<1>3. \A p \in 0..(n - 1) : PartEnd(p)' = PartEnd(p)
  <2> TAKE p \in 0..(n - 1)
  <2>1. PartEnd(p)' = starts'[p + 2]
    BY <1>2 DEF PartEnd
  <2>2. CASE p = n - 1
    BY <1>1, <1>2, <2>1, <2>2 DEF PartEnd
  <2>3. CASE p # n - 1
    <3>1. p + 1 \in 0..(n - 1) /\ p + 1 < n /\ (p + 1) + 1 = p + 2
      BY <2>3
    <3>2. starts'[(p + 1) + 1] = starts[(p + 1) + 1]
      BY <1>2, <3>1
    <3> QED
      BY <1>1, <2>1, <3>1, <3>2 DEF PartEnd
  <2> QED
    BY <2>2, <2>3
<1>4. PartEnd(n)' = pos'
  BY <1>2 DEF PartEnd
<1>5. PartRead(n)' = SubSeq(Content(pos'), pos + 1, pos')
  BY <1>2, <1>4 DEF PartRead, PartEnd, Content
<1>6. ASSUME NEW p \in 0..(n - 1) PROVE PartRead(p)' = PartRead(p)
  <2>1. PICK k \in Nat, e \in Nat : k = starts[p + 1] /\ e = PartEnd(p)
    BY PartIsSlice
  <2>2. k <= e /\ e <= pos
    BY <1>1, <2>1
  <2>3. PartRead(p) = SubSeq(Content(pos), k + 1, e)
    BY <2>1 DEF PartRead, PartEnd
  <2>4. PartRead(p)' = SubSeq(Content(pos'), k + 1, e)
    <3>1. starts'[p + 1] = k /\ PartEnd(p)' = e
      BY <1>2, <1>3, <2>1
    <3> QED
      BY <3>1 DEF PartRead, PartEnd, Content
  <2>5. SubSeq(Content(pos), k + 1, e) = Slice(k, e - k)
    <3>1. PICK l \in Nat : l = pos
      OBVIOUS
    <3> QED
      BY <2>2, <3>1, SliceOfFile
  <2>6. PICK l \in Nat : l = pos'
    OBVIOUS
  <2>7. SubSeq(Content(l), k + 1, e) = Slice(k, e - k)
    <3>1. e <= l /\ k <= e
      BY <2>2, <2>6
    <3> QED
      BY <3>1, SliceOfFile
  <2> QED
    BY <2>3, <2>4, <2>5, <2>6, <2>7
<1>7. InPlace(n + 1)'
  <2>1. \A p \in 0..n : starts'[p + 1] < PartEnd(p)' /\ PartEnd(p)' <= pos'
    <3> TAKE p \in 0..n
    <3>1. CASE p = n
      BY <1>2, <1>4, <3>1
    <3>2. CASE p # n
      <4>1. p \in 0..(n - 1)
        BY <3>2
      <4>2. starts[p + 1] \in Nat /\ PartEnd(p) \in Nat
        BY <4>1, PartIsSlice
      <4> QED
        BY <1>1, <1>2, <1>3, <4>1, <4>2
    <3> QED
      BY <3>1, <3>2
  <2>2. starts'[1] = 0
    <3>1. CASE n = 0
      BY <1>1, <1>2, <3>1
    <3>2. CASE n # 0
      <4>1. 0 \in 0..(n - 1) /\ 0 + 1 = 1
        BY <3>2
      <4>2. starts'[0 + 1] = starts[0 + 1]
        BY <1>2, <4>1
      <4> QED
        BY <1>1, <3>2, <4>1, <4>2
    <3> QED
      BY <3>1, <3>2
  <2>3. ASSUME "cut" \notin mishaps'
        PROVE  /\ \A p \in 0..n : starts'[p + 1] = p * PartSize
               /\ pos' <= (n + 1) * PartSize /\ (~eof' => pos' = (n + 1) * PartSize)
    <3>1. "cut" \notin mishaps /\ ~eof /\ pos = n * PartSize
      BY <1>1, <2>3
    <3>2. \A p \in 0..n : starts'[p + 1] = p * PartSize
      <4> TAKE p \in 0..n
      <4>1. CASE p = n
        BY <1>2, <3>1, <4>1
      <4>2. CASE p # n
        <5>1. p \in 0..(n - 1)
          BY <4>2
        <5> QED
          BY <1>1, <1>2, <3>1, <5>1
      <4> QED
        BY <4>1, <4>2
    <3>3. (n + 1) * PartSize = n * PartSize + PartSize
      BY Times DEF FilesAssumption
    <3> QED
      BY <2>3, <3>1, <3>2, <3>3
  <2>4. (n + 1) - 1 = n /\ n + 1 # 0
    OBVIOUS
  <2> QED
    BY <1>2, <2>1, <2>2, <2>3, <2>4 DEF InPlace
<1> QED
  BY <1>5, <1>6, <1>7

\* A part is taken from what was read, or the end is.
LEMMA TakeUpload ==
  ASSUME FilesAssumption, UploadInv, job \in Uploads, at = "read",
         NEW data, Take(data), NEW e \in pos..Len(file), data = SubSeq(file, pos + 1, e),
         eof' \in BOOLEAN,
         mishaps' \in {mishaps, mishaps \cup {"cut"}},
         "cut" \notin mishaps' =>
            /\ e <= pos + PartSize
            /\ eof => e = pos
            /\ eof' => eof \/ e = Len(file)
            /\ ~eof' => e = pos + PartSize
            /\ e = pos /\ ~eof => e = Len(file)
  PROVE  UploadInv'
<1>0. at \in Sending
  BY DEF Sending
<1>1. /\ part \in Nat /\ pos \in Nat /\ size \in Int /\ eof \in BOOLEAN /\ message = Null
      /\ PartSize \in Nat \ {0} /\ FileInv /\ SendInv
  BY <1>0, WhileSending
<1>2. InPlace(part) /\ HasParts(part) /\ Totals /\ buf = Content(pos)
  BY <1>1 DEF SendInv
<1>3. UNCHANGED <<job, file, size, part, server, message>> /\ Big' = Big /\ TotalParts' = TotalParts
  BY DEF Take, Big, TotalParts
<1>4. Len(file) \in Nat /\ file = Content(Len(file)) /\ pos <= Len(file) /\ e \in Nat
      /\ Len(file)' = Len(file)
  BY <1>1, <1>3 DEF FileInv
<1>5. /\ data = <<>> <=> e = pos
      /\ Len(data) = e - pos
      /\ Content(pos) \o data = Content(e)
  <2>1. PICK n \in Nat : n = Len(file) /\ file = Content(n)
    BY <1>4
  <2> QED
    BY <1>1, <2>1, NextOfDisk
<1>6. /\ Untouched' => Untouched /\ "cut" \notin mishaps'
      /\ "grown" \in mishaps' <=> "grown" \in mishaps
      /\ "cut" \notin mishaps' => "cut" \notin mishaps
      /\ "garbled" \in mishaps' <=> "garbled" \in mishaps
  BY DEF Untouched
<1>7. \/ data = <<>> /\ at' = "send media" /\ UNCHANGED <<bytes, buf, pos, starts>>
      \/ /\ data # <<>> /\ at' = "send part" /\ bytes' = data /\ buf' = buf \o data
         /\ pos' = pos + Len(data) /\ starts' = Append(starts, pos)
  BY DEF Take
<1>8. pos' = e /\ buf' = Content(e)
  <2>1. pos + (e - pos) = e
    BY <1>1, <1>4
  <2> QED
    BY <1>2, <1>5, <1>7, <2>1
<1>9. FileInv' /\ Totals' /\ buf' = Content(pos)'
  <2>1. Content(Len(file))' = Content(Len(file)) /\ Content(pos)' = Content(pos')
    BY <1>3 DEF Content
  <2>2. Totals'
    BY <1>2, <1>3 DEF Totals
  <2> QED
    BY <1>1, <1>3, <1>4, <1>6, <1>8, <2>1, <2>2 DEF FileInv
<1>10. "grown" \notin mishaps' => size' = AsInt(Len(file))'
  BY <1>1, <1>3, <1>6 DEF SendInv, AsInt
<1>11. eof' /\ Untouched' => pos' = Len(file)'
  BY <1>1, <1>3, <1>4, <1>6, <1>8 DEF SendInv
<1>12. CASE data = <<>>
  <2>1. at' = "send media" /\ UNCHANGED <<bytes, buf, pos, starts>> /\ e = pos
    BY <1>5, <1>7, <1>12
  <2>2. InPlace(part)'
    <3>1. \A p : PartEnd(p)' = PartEnd(p)
      BY <2>1 DEF PartEnd
    <3>2. "cut" \notin mishaps' => (~eof' => pos = part * PartSize)
      <4>1. ASSUME "cut" \notin mishaps', ~eof' PROVE FALSE
        <5>1. e = pos + PartSize
          BY <4>1
        <5>2. pos \in Nat /\ PartSize \in Nat \ {0} /\ e = pos
          BY <1>1, <2>1
        <5> QED
          BY <5>1, <5>2
      <4> QED
        BY <4>1
    <3>3. /\ starts' \in Seq(Nat) /\ Len(starts') = part
          /\ IF part = 0 THEN pos' = 0 ELSE starts'[1] = 0
          /\ \A p \in 0..(part - 1) : starts'[p + 1] < PartEnd(p)' /\ PartEnd(p)' <= pos'
      BY <1>2, <2>1, <3>1 DEF InPlace
    <3>4. "cut" \notin mishaps' =>
              /\ \A p \in 0..(part - 1) : starts'[p + 1] = p * PartSize
              /\ pos' <= part * PartSize
      BY <1>2, <1>6, <2>1 DEF InPlace
    <3> QED
      BY <1>3, <2>1, <3>2, <3>3, <3>4 DEF InPlace
  <2>3. HasParts(part)'
    BY <1>2, <1>3, <1>6, <2>1 DEF HasParts, Has, PartRead, Content
  <2>4. Untouched' => pos' = Len(file)'
    BY <1>1, <1>3, <1>6, <1>8, <2>1 DEF SendInv
  <2>5. SendInv'
    BY <1>3, <1>9, <1>10, <1>11, <2>1, <2>2, <2>3 DEF SendInv
  <2> QED
    BY <1>1, <1>3, <1>9, <2>1, <2>4, <2>5 DEF UploadInv, Sending
<1>13. CASE data # <<>>
  <2>1. /\ at' = "send part" /\ bytes' = data /\ starts' = Append(starts, pos)
        /\ pos' \in Nat /\ pos < pos'
    <3>1. e # pos /\ pos' = e
      BY <1>5, <1>8, <1>13
    <3>2. pos' \in Nat /\ pos < pos'
      BY <1>1, <1>4, <3>1
    <3> QED
      BY <1>7, <1>13, <3>2
  <2>2. "cut" \notin mishaps' =>
            ~eof /\ pos' <= pos + PartSize /\ (~eof' => pos' = pos + PartSize)
    <3>1. e # pos
      BY <1>5, <1>13
    <3> QED
      BY <1>8, <3>1
  <2>3. /\ InPlace(part + 1)' /\ (\A p \in 0..(part - 1) : PartRead(p)' = PartRead(p))
        /\ PartRead(part)' = SubSeq(Content(pos'), pos + 1, pos')
    <3>1. PICK n \in Nat : n = part
      BY <1>1
    <3>2. InPlace(n)
      BY <1>2, <3>1
    <3>3. InPlace(n + 1)' /\ (\A p \in 0..(n - 1) : PartRead(p)' = PartRead(p))
          /\ PartRead(n)' = SubSeq(Content(pos'), pos + 1, pos')
      BY <1>1, <2>1, <2>2, <3>2, NextInPlace
    <3> QED
      BY <1>3, <3>1, <3>3 DEF InPlace, PartRead, Content
  <2>4. bytes' = PartRead(part)'
    <3>1. PICK n \in Nat : n = Len(file) /\ file = Content(n)
      BY <1>4
    <3>2. SubSeq(file, pos + 1, e) = Slice(pos, e - pos)
      BY <1>1, <3>1, NextOfDisk
    <3>3. PICK k \in Nat, f \in Nat : k = pos /\ f = e /\ k <= f /\ f <= f
      BY <1>1, <1>4
    <3>4. SubSeq(Content(f), k + 1, f) = Slice(k, f - k)
      BY <3>3, SliceOfFile
    <3> QED
      BY <1>8, <2>1, <2>3, <3>2, <3>3, <3>4
  <2>5. HasParts(part)'
    <3>1. ASSUME NEW p \in 0..(part - 1) PROVE Has(p)'
      <4>1. Has(p) /\ PartRead(p)' = PartRead(p)
        BY <1>2, <2>3 DEF HasParts
      <4> QED
        BY <1>3, <1>6, <4>1 DEF Has
    <3> QED
      BY <1>3, <3>1 DEF HasParts
  <2>6. SendInv'
    BY <1>3, <1>9, <1>10, <1>11, <2>1, <2>3, <2>4, <2>5 DEF SendInv
  <2> QED
    BY <1>1, <1>3, <1>9, <2>1, <2>6 DEF UploadInv, Sending
<1> QED
  BY <1>12, <1>13

\* A part is read, or the end is found; or the reading fails.
LEMMA ReadUpload ==
  ASSUME FilesAssumption, UploadInv, job \in Uploads, ReadPart \/ ReadFails PROVE UploadInv'
<1>0. at = "read" /\ at \in Sending
  BY DEF ReadPart, ReadFails, Sending
<1>1. /\ pos \in Nat /\ eof \in BOOLEAN /\ PartSize \in Nat \ {0}
      /\ Len(file) \in Nat /\ file = Content(Len(file)) /\ pos <= Len(file)
  BY <1>0, WhileSending DEF FileInv
<1>2. PICK e \in pos..Len(file) :
         /\ e <= pos + PartSize /\ (eof => e = pos)
         /\ ~eof => (e = pos <=> pos = Len(file)) /\ (e < pos + PartSize => e = Len(file))
         /\ NextPart = SubSeq(file, pos + 1, e)
  <2>1. CASE eof
    <3>1. NextPart = <<>>
      BY <2>1 DEF NextPart
    <3>2. SubSeq(file, pos + 1, pos) = <<>>
      <4>1. PICK n \in Nat : n = Len(file) /\ file = Content(n)
        BY <1>1
      <4>2. PICK k \in pos..n : k = pos
        BY <1>1, <4>1
      <4> QED
        BY <1>1, <4>1, <4>2, NextOfDisk
    <3> QED
      BY <1>1, <2>1, <3>1, <3>2
  <2>2. CASE ~eof
    <3> DEFINE f == IF pos + PartSize < Len(file) THEN pos + PartSize ELSE Len(file)
    <3>1. NextPart = SubSeq(file, pos + 1, f)
      BY <2>2 DEF NextPart
    <3>2. f \in pos..Len(file) /\ f <= pos + PartSize /\ (f = pos <=> pos = Len(file))
          /\ (f < pos + PartSize => f = Len(file))
      BY <1>1
    <3> QED
      BY <2>2, <3>1, <3>2
  <2> QED
    BY <1>1, <2>1, <2>2
<1>3. Len(NextPart) = e - pos
  <2>1. PICK n \in Nat : n = Len(file) /\ file = Content(n)
    BY <1>1
  <2> QED
    BY <1>1, <1>2, <2>1, NextOfDisk
<1>4. CASE ReadPart
  <2>1. Take(NextPart) /\ mishaps' = mishaps /\ eof' = (eof \/ Len(NextPart) < PartSize)
    BY <1>4 DEF ReadPart
  <2>2. eof' \in BOOLEAN
    BY <2>1
  <2>3. (eof' <=> eof \/ e < pos + PartSize)
    <3>1. Len(NextPart) < PartSize <=> e < pos + PartSize
      BY <1>1, <1>3
    <3> QED
      BY <2>1, <3>1
  <2>4. /\ eof' => eof \/ e = Len(file)
        /\ ~eof' => e = pos + PartSize
        /\ e = pos /\ ~eof => e = Len(file)
    BY <1>1, <1>2, <2>3
  <2> QED
    BY <1>0, <1>2, <2>1, <2>2, <2>4, TakeUpload
<1>5. CASE ReadFails
  <2>1. PICK m \in 0..(Len(NextPart) - 1) : Take(SubSeq(NextPart, 1, m))
    BY <1>5 DEF ReadFails
  <2>2. mishaps' = mishaps \cup {"cut"} /\ eof' = eof
    BY <1>5 DEF ReadFails
  <2>3. m \in 0..(e - pos)
    BY <1>1, <1>2, <1>3, <2>1
  <2>4. SubSeq(NextPart, 1, m) = SubSeq(file, pos + 1, pos + m)
    <3>1. PICK n \in Nat : n = Len(file) /\ file = Content(n)
      BY <1>1
    <3> QED
      BY <1>1, <1>2, <2>3, <3>1, LessOfPart
  <2>5. PICK f \in pos..Len(file) : f = pos + m
    BY <1>1, <2>3
  <2>6. "cut" \in mishaps'
    BY <2>2
  <2> QED
    BY <1>0, <1>1, <2>1, <2>2, <2>4, <2>5, <2>6, TakeUpload
<1> QED
  BY <1>4, <1>5

\* The server answers, or the request or its answer is lost and it is sent again, or
\* freed memory is sent.
LEMMA SendPartUpload ==
  ASSUME FilesAssumption, UploadInv, job \in Uploads,
         PartSaved \/ PartLost \/ PartGarbled \/ PartCrashes
  PROVE  UploadInv'
<1>0. at = "send part" /\ at \in Sending
  BY DEF PartSaved, PartLost, PartGarbled, PartCrashes, Proceed, Sending
<1>1. /\ part \in Nat /\ pos \in Nat /\ size \in Int /\ eof \in BOOLEAN /\ message = Null
      /\ FileInv /\ SendInv
  BY <1>0, WhileSending
<1>2. InPlace(part + 1) /\ bytes = PartRead(part) /\ HasParts(part) /\ Totals
  BY <1>0, <1>1 DEF SendInv
<1>3. UNCHANGED <<job, file, size, pos, eof, starts, bytes, buf, part, message>>
  BY DEF PartSaved, PartLost, PartGarbled, PartCrashes
<1>4. Big' = Big /\ TotalParts' = TotalParts /\ \A p : PartRead(p)' = PartRead(p)
  BY <1>3 DEF Big, TotalParts, PartRead, Content
<1>5. /\ mishaps' \in {mishaps, mishaps \cup {"garbled"}}
      /\ at' \in {"send part", "progress", "crashed"}
      /\ \/ server' = server /\ at' # "progress"
         \/ server' = Kept
         \/ server' = Stored(Null) /\ Big /\ "garbled" \in mishaps'
  BY <1>0 DEF PartSaved, PartLost, PartGarbled, PartCrashes, Proceed, Crashes
<1>6. /\ "cut" \in mishaps' <=> "cut" \in mishaps
      /\ "grown" \in mishaps' <=> "grown" \in mishaps
      /\ "garbled" \in mishaps => "garbled" \in mishaps'
      /\ Untouched' <=> Untouched
  BY <1>5 DEF Untouched
<1>7. ASSUME NEW data
      PROVE  /\ DOMAIN Stored(data) = DOMAIN server \cup {part}
             /\ Stored(data)[part] = [bytes |-> data, total |-> IF Big THEN TotalParts ELSE 0]
             /\ \A p \in DOMAIN server : p # part => Stored(data)[p] = server[p]
  BY DEF Stored
<1>8. Totals'
  <2>1. ASSUME NEW data
        PROVE  \A p \in DOMAIN Stored(data) :
                  Stored(data)[p].total = IF Big THEN TotalParts ELSE 0
    <3>1. Stored(data)[part].total = IF Big THEN TotalParts ELSE 0
      <4>1. Stored(data)[part] = [bytes |-> data, total |-> IF Big THEN TotalParts ELSE 0]
        BY <1>7
      <4> QED
        BY <4>1
    <3> QED
      BY <1>2, <1>7, <3>1 DEF Totals
  <2>2. \A p \in DOMAIN server' : server'[p].total = IF Big THEN TotalParts ELSE 0
    BY <1>2, <1>5, <2>1 DEF Totals, Kept
  <2> QED
    BY <1>4, <2>2 DEF Totals
<1>9. HasParts(part)'
  <2>1. ASSUME NEW p \in 0..(part - 1) PROVE Has(p)'
    <3>1. p # part /\ Has(p)
      BY <1>1, <1>2 DEF HasParts
    <3>2. p \in DOMAIN server' /\ server'[p] = server[p]
      BY <1>5, <1>7, <3>1 DEF Has, Kept
    <3> QED
      BY <1>4, <1>6, <3>1, <3>2 DEF Has
  <2> QED
    BY <1>3, <2>1 DEF HasParts
<1>10. at' = "progress" => HasParts(part + 1)'
  <2>0. SUFFICES ASSUME at' = "progress" PROVE HasParts(part + 1)'
    OBVIOUS
  <2>1. Has(part)'
    <3>1. part \in DOMAIN server'
      BY <1>5, <1>7, <2>0 DEF Kept
    <3>2. \/ server'[part].bytes = bytes
          \/ server'[part].bytes = Null /\ Big /\ "garbled" \in mishaps'
      <4>1. /\ Stored(bytes)[part] = [bytes |-> bytes, total |-> IF Big THEN TotalParts ELSE 0]
            /\ Stored(Null)[part] = [bytes |-> Null, total |-> IF Big THEN TotalParts ELSE 0]
        BY <1>7
      <4>2. Stored(bytes)[part].bytes = bytes /\ Stored(Null)[part].bytes = Null
        BY <4>1
      <4> QED
        BY <1>5, <2>0, <4>2 DEF Kept
    <3>3. PartRead(part)' = bytes /\ Big'= Big
      <4>1. PartRead(part)' = PartRead(part)
        BY <1>3 DEF PartRead, Content
      <4> QED
        BY <1>2, <1>4, <4>1
    <3> QED
      BY <1>3, <3>1, <3>2, <3>3 DEF Has
  <2>2. \A p \in 0..part : p = part \/ p \in 0..(part - 1)
    BY <1>1
  <2>3. (part + 1) - 1 = part
    BY <1>1
  <2> QED
    BY <1>3, <1>9, <2>1, <2>2, <2>3 DEF HasParts
<1>11. InPlace(part + 1)'
  <2>1. \A p : PartEnd(p)' = PartEnd(p)
    BY <1>3 DEF PartEnd
  <2> QED
    BY <1>2, <1>3, <1>6, <2>1 DEF InPlace
<1>12. FileInv'
  BY <1>1, <1>3, <1>6 DEF FileInv, Content
<1>13. buf' = Content(pos)' /\ ("grown" \notin mishaps' => size' = AsInt(Len(file))')
       /\ (eof' /\ Untouched' => pos' = Len(file)')
  BY <1>1, <1>3, <1>6 DEF SendInv, Content, AsInt
<1>14. at' \in {"send part", "progress"} => SendInv'
  BY <1>2, <1>3, <1>4, <1>8, <1>9, <1>10, <1>11, <1>13 DEF SendInv
<1> QED
  BY <1>1, <1>3, <1>5, <1>12, <1>14 DEF UploadInv, Sending

\* The application is told, and may cancel.
LEMMA ProgressUpload ==
  ASSUME FilesAssumption, UploadInv, job \in Uploads, Progress \/ Cancel
  PROVE  UploadInv'
<1>0. at = "progress" /\ at \in Sending
  BY DEF Progress, Cancel, Proceed, Sending
<1>1. /\ part \in Nat /\ pos \in Nat /\ size \in Int /\ eof \in BOOLEAN /\ message = Null
      /\ FileInv /\ SendInv
  BY <1>0, WhileSending
<1>2. UNCHANGED <<job, file, mishaps, size, pos, eof, starts, bytes, buf, server, message>>
  BY DEF Progress, Cancel
<1>3. CASE Progress
  <2>1. at' = "read" /\ part' = part + 1 /\ part' \in Nat
    BY <1>1, <1>3 DEF Progress, Proceed
  <2>2. InPlace(part + 1) /\ HasParts(part + 1)
    BY <1>0, <1>1 DEF SendInv
  <2>3. InPlace(part)' /\ HasParts(part)'
    <3>1. PICK n \in Nat : n = part + 1
      BY <1>1
    <3>2. \A p : PartEnd(p)' = PartEnd(p) /\ (Has(p)' <=> Has(p))
      BY <1>2 DEF PartEnd, Has, PartRead, Content, Big
    <3>3. InPlace(n)' /\ HasParts(n)'
      BY <1>2, <2>2, <3>1, <3>2 DEF InPlace, HasParts
    <3> QED
      BY <2>1, <3>1, <3>3
  <2>4. Totals' /\ FileInv'
    <3>1. Totals'
      BY <1>1, <1>2 DEF SendInv, Totals, Big, TotalParts
    <3> QED
      BY <1>1, <1>2, <3>1 DEF FileInv, Content
  <2>5. SendInv'
    <3>1. /\ buf' = Content(pos)'
          /\ "grown" \notin mishaps' => size' = AsInt(Len(file))'
          /\ eof' /\ Untouched' => pos' = Len(file)'
      BY <1>1, <1>2 DEF SendInv, Untouched, Content, AsInt
    <3> QED
      BY <2>1, <2>3, <2>4, <3>1 DEF SendInv
  <2> QED
    BY <1>1, <1>2, <2>1, <2>4, <2>5 DEF UploadInv, Sending
<1>4. CASE Cancel
  <2>1. at' = "returned" /\ part' = part
    BY <1>4 DEF Cancel, Returns
  <2> QED
    BY <1>1, <1>2, <2>1 DEF UploadInv, Sending
<1> QED
  BY <1>3, <1>4

\* Another program appends to the file.
LEMMA GrowUpload ==
  ASSUME FilesAssumption, UploadInv, job \in Uploads, Grow
  PROVE  UploadInv'
<1>1. /\ file # Null /\ mishaps' = mishaps \cup {"grown"} /\ file' = Append(file, Len(file) + 1)
      /\ UNCHANGED <<job, at, size, pos, eof, starts, bytes, buf, part, server, message>>
      /\ at \in Sending \cup {"open"}
  BY DEF Grow, UploadInv
<1>2. Len(file) \in Nat /\ file = Content(Len(file)) /\ pos <= Len(file) /\ pos \in Nat
  BY <1>1 DEF UploadInv, FileInv
<1>3. /\ Len(file') = Len(file) + 1 /\ file' = Content(Len(file'))
  <2> DEFINE n == Len(file)
             f == Content(n)
  <2>1. n \in Nat /\ f \in Seq(Nat) /\ Len(f) = n /\ \A i \in 1..n : f[i] = i
    BY <1>2, ContentSeq DEF Content
  <2>2. file' = Append(f, n + 1)
    BY <1>1, <1>2
  <2> HIDE DEF n, f
  <2>3. /\ Append(f, n + 1) \in Seq(Nat) /\ Len(Append(f, n + 1)) = n + 1
        /\ \A i \in 1..(n + 1) : Append(f, n + 1)[i] = IF i = n + 1 THEN n + 1 ELSE f[i]
    BY <2>1, AppendProperties
  <2>4. /\ Content(n + 1) \in Seq(Nat) /\ Len(Content(n + 1)) = n + 1
        /\ \A i \in 1..(n + 1) : Content(n + 1)[i] = i
    BY <2>1 DEF Content
  <2>5. \A i \in 1..(n + 1) : Append(f, n + 1)[i] = i
    BY <2>1, <2>3
  <2>6. Append(f, n + 1) = Content(n + 1)
    BY <2>3, <2>4, <2>5, SeqEqual
  <2> QED
    BY <2>2, <2>3, <2>6 DEF n
<1>4. FileInv' /\ ~Untouched'
  BY <1>1, <1>2, <1>3 DEF FileInv, Untouched, Content
<1>5. message = Null
  BY <1>1 DEF UploadInv, Sending
<1>6. ASSUME SendInv PROVE SendInv'
  <2>1. Big' = Big /\ TotalParts' = TotalParts /\ \A p : PartRead(p)' = PartRead(p)
    BY <1>1 DEF Big, TotalParts, PartRead, Content
  <2>2. ("garbled" \in mishaps' <=> "garbled" \in mishaps) /\ ("cut" \in mishaps' <=> "cut" \in mishaps)
    BY <1>1
  <2>3. \A p : (PartEnd(p)' = PartEnd(p)) /\ (Has(p)' <=> Has(p))
    BY <1>1, <2>1, <2>2 DEF PartEnd, Has
  <2>4. /\ InPlace(part)' <=> InPlace(part)
        /\ InPlace(part + 1)' <=> InPlace(part + 1)
        /\ HasParts(part)' <=> HasParts(part)
        /\ HasParts(part + 1)' <=> HasParts(part + 1)
        /\ Totals' <=> Totals
    BY <1>1, <2>1, <2>2, <2>3 DEF InPlace, HasParts, Totals
  <2>5. Content(pos)' = Content(pos)
    BY <1>1 DEF Content
  <2> QED
    BY <1>1, <1>4, <1>6, <2>1, <2>4, <2>5 DEF SendInv
<1> QED
  BY <1>1, <1>4, <1>5, <1>6 DEF UploadInv, Sending

\* The message is sent: the server has what it names.
LEMMA MediaUpload ==
  ASSUME FilesAssumption, UploadInv, job \in Uploads, SendMedia
  PROVE  UploadInv'
<1>0. at = "send media" /\ at \in Sending
  BY DEF SendMedia, Sending
<1>1. /\ part \in Nat /\ pos \in Nat /\ size \in Int /\ eof \in BOOLEAN /\ message = Null
      /\ PartSize \in Nat \ {0} /\ FileInv /\ SendInv /\ (Untouched => pos = Len(file))
  BY <1>0, WhileSending DEF UploadInv
<1>2. InPlace(part) /\ HasParts(part) /\ Totals /\ buf = Content(pos)
  BY <1>0, <1>1 DEF SendInv
<1>3. UNCHANGED <<job, file, mishaps, size, part, pos, eof, starts, bytes, buf, server>>
      /\ at' = "returned" /\ message' \in {Null, Media}
  BY DEF SendMedia, Returns
<1>4. /\ Len(starts) = part /\ (starts = <<>> => pos = 0)
      /\ \A p \in 0..(part - 1) : PartRead(p) # <<>>
      /\ \A p \in 0..(part - 1) : p = 0 => starts[p + 1] = 0
      /\ "cut" \notin mishaps => \A p \in 0..(part - 1) : starts[p + 1] = p * PartSize
  <2>1. \A p \in 0..(part - 1) : PartRead(p) # <<>>
    BY <1>1, <1>2, PartIsSlice
  <2>2. starts = <<>> => Len(starts) = 0
    OBVIOUS
  <2> QED
    BY <1>1, <1>2, <2>1, <2>2 DEF InPlace
<1>5. ASSUME Untouched, Big
      PROVE  \A p \in DOMAIN server : server[p].total = part
  <2>1. /\ BigLimit \in Nat /\ IntMax \in Nat /\ size > BigLimit /\ size = AsInt(pos)
        /\ pos <= 2 * IntMax + 1 /\ "cut" \notin mishaps
    BY <1>1, <1>5 DEF Big, FilesAssumption, FileInv, SendInv, Untouched
  <2>2. size = pos /\ size \in Nat /\ size # 0
    BY <1>1, <2>1 DEF AsInt
  <2>3. part # 0 /\ pos <= part * PartSize
    BY <1>1, <1>2, <2>1, <2>2 DEF InPlace
  <2>4. (part - 1) * PartSize < pos
    <3>1. part - 1 \in 0..(part - 1) /\ (part - 1) + 1 = part
      BY <1>1, <2>3
    <3>2. starts[(part - 1) + 1] = (part - 1) * PartSize /\ PartEnd(part - 1) = pos
          /\ starts[(part - 1) + 1] < PartEnd(part - 1)
      BY <1>2, <2>1, <3>1 DEF InPlace, PartEnd
    <3> QED
      BY <3>2
  <2>5. TotalParts = part
    BY <1>1, <2>2, <2>3, <2>4, TotalIsParts
  <2> QED
    BY <1>2, <1>5, <2>5 DEF Totals
<1>6. ASSUME message' = Media PROVE UploadIsWhole'
  <2>1. message'.parts = part /\ message'.big = Big /\ message'.sum \in {Null, Content(pos)}
    BY <1>2, <1>6 DEF Media
  <2>2. \A p : PartRead(p)' = PartRead(p)
    BY <1>3 DEF PartRead, Content
  <2>3. \A p \in 0..(part - 1) :
           /\ p \in DOMAIN server'
           /\ \/ server'[p].bytes = PartRead(p)'
              \/ server'[p].bytes = Null /\ message'.big /\ "garbled" \in mishaps'
           /\ PartRead(p)' # <<>> /\ (p = 0 => starts'[p + 1] = 0)
           /\ "cut" \notin mishaps' => starts'[p + 1] = p * PartSize
    BY <1>2, <1>3, <1>4, <2>1, <2>2 DEF HasParts, Has
  <2>4. message'.parts = Len(starts') /\ (starts' = <<>> => pos' = 0)
    BY <1>3, <1>4, <2>1
  <2>5. message'.sum \in {Null, Content(pos)'}
    BY <1>3, <2>1 DEF Content
  <2>6. {"grown", "cut"} \cap mishaps' = {} =>
           /\ pos' = Len(file')
           /\ message'.big => \A p \in DOMAIN server' : server'[p].total = message'.parts
    BY <1>1, <1>3, <1>5, <2>1 DEF Untouched
  <2> QED
    BY <2>1, <2>3, <2>4, <2>5, <2>6 DEF UploadIsWhole
<1> QED
  BY <1>1, <1>3, <1>6 DEF UploadInv, Sending

LEMMA NextUpload == ASSUME FilesAssumption, UploadInv, [FilesNext]_filesVars PROVE UploadInv'
<1> SUFFICES ASSUME job' \in Uploads PROVE UploadInv'
  BY DEF UploadInv
<1>0. job \in Uploads
  BY DEF FilesNext, filesVars, Open, ReadPart, ReadFails, Take, PartSaved, PartLost, PartGarbled,
     PartCrashes, Progress, Cancel, SendMedia, Grow, Loop, GetPart, GetPartFails, PartCallback,
     GetHashes, SendContact, FilesDone
<1>1. CASE Open \/ ReadPart \/ ReadFails
  BY <1>0, <1>1, OpenUpload, ReadUpload
<1>2. CASE PartSaved \/ PartLost \/ PartGarbled \/ PartCrashes
  BY <1>0, <1>2, SendPartUpload
<1>3. CASE Progress \/ Cancel \/ Grow
  BY <1>0, <1>3, ProgressUpload, GrowUpload
<1>4. CASE SendMedia
  BY <1>0, <1>4, MediaUpload
<1>5. CASE UNCHANGED filesVars
  <2>1. UNCHANGED <<job, at, file, mishaps, size, pos, eof, starts, bytes, buf, part, server, message>>
    BY <1>5 DEF filesVars
  <2>2. \A p : PartEnd(p)' = PartEnd(p) /\ PartRead(p)' = PartRead(p) /\ (Has(p)' <=> Has(p))
    BY <2>1 DEF PartEnd, Has, PartRead, Content, Big
  <2>3. (FileInv' <=> FileInv) /\ (Untouched' <=> Untouched) /\ (Totals' <=> Totals)
    BY <2>1 DEF FileInv, Untouched, Totals, Content, Big, TotalParts
  <2>4. /\ InPlace(part)' <=> InPlace(part)
        /\ InPlace(part + 1)' <=> InPlace(part + 1)
        /\ HasParts(part)' <=> HasParts(part)
        /\ HasParts(part + 1)' <=> HasParts(part + 1)
    BY <2>1, <2>2 DEF InPlace, HasParts
  <2>5. SendInv' <=> SendInv
    BY <2>1, <2>2, <2>3, <2>4 DEF SendInv, Content, AsInt
  <2>6. UploadIsWhole' <=> UploadIsWhole
    BY <2>1, <2>2 DEF UploadIsWhole, Content
  <2> QED
    BY <1>0, <2>1, <2>3, <2>5, <2>6 DEF UploadInv
<1>6. CASE Loop \/ GetPart \/ GetPartFails \/ PartCallback \/ GetHashes \/ SendContact
  <2>1. at \in {"loop", "get part", "callback", "ask"}
    BY <1>6 DEF Loop, GetPart, GetPartFails, PartCallback, GetHashes, SendContact, Proceed
  <2> QED
    BY <1>0, <2>1 DEF UploadInv, Sending
<1> QED
  BY <1>1, <1>2, <1>3, <1>4, <1>5, <1>6 DEF FilesNext, FilesDone

-----------------------------------------------------------------------------
\* The invariant of tg_document_send: the parts that were read lie one after the
\* other from the beginning of the file, and those before the one at hand are on the
\* server, but where freed memory was sent for them.
THEOREM UploadInvariance == ASSUME FilesAssumption PROVE FilesSpec => []UploadInv
<1>1. FilesInit => UploadInv
  BY InitUpload
<1>2. UploadInv /\ [FilesNext]_filesVars => UploadInv'
  BY NextUpload
<1> QED
  BY <1>1, <1>2, PTL DEF FilesSpec

\* When the server has the message of a file (tg_document_send), it has every part
\* the message counts, each once and in its place, for files and parts of any size
\* and whatever was lost and sent again, could not be read, or came as freed memory:
\* that is the one thing which may lie there instead.
THEOREM UploadsAreWhole == ASSUME FilesAssumption PROVE FilesSpec => []UploadIsWhole
<1>1. UploadInv => UploadIsWhole
  BY DEF UploadInv, UploadIsWhole
<1> QED
  BY <1>1, UploadInvariance, PTL

-----------------------------------------------------------------------------
(* What is announced of an answer, and what is kept of it.                 *)

Carries(a) == a # Null /\ a.is \in Carriers
Shorts == {"updateShortMessage", "updateShortChatMessage"}
ShortOf(a) == Tell(IF a.is = "updateShortMessage" THEN "MESSAGE" ELSE "CHAT_MESSAGE",
                   [is |-> "short", id |-> NumberOf(a), text |-> a.text,
                    from |-> IF a.is = "updateShortMessage" THEN Null ELSE a.from])

\* Where a thread is, and what it has of its answer.
ThreadOK(t) ==
    /\ doing[t] \in {"idle", "users", "chats", "updates", "message", "callback", "crashed"}
    /\ next[t] \in Nat \ {0} /\ ans[t] \in Answers \cup {Null} /\ IsList(told[t])
    /\ doing[t] # "idle" => ans[t] # Null
    /\ doing[t] \in {"users", "chats", "updates", "crashed"} => Carries(ans[t])
    /\ doing[t] \in {"message", "callback"} => ans[t].is \in Shorts
    /\ doing[t] \in {"users", "chats", "message", "callback"} => told[t] = <<>>

\* What was told of updates has no short message in it; of anything else it is at
\* most that message.
ToldIs(t) ==
    /\ ans[t] = Null => told[t] = <<>>
    /\ Carries(ans[t]) => \A i \in DOMAIN told[t] : ~IsShort(told[t][i])
    /\ ans[t] # Null /\ ~Carries(ans[t]) /\ told[t] # <<>> =>
          doing[t] = "idle" /\ ans[t].is \in Shorts /\ told[t] = <<ShortOf(ans[t])>>

\* The updates that are behind a thread were announced.
AnnouncedSoFar(t) ==
    Carries(ans[t]) =>
        /\ doing[t] = "updates" => /\ next[t] <= Len(ans[t].updates) + 1
                                   /\ AreTidingsOf(told[t], ans[t].updates, next[t] - 1)
        /\ doing[t] = "idle" => AreTidingsOf(told[t], ans[t].updates, Len(ans[t].updates))
        /\ doing[t] = "crashed" =>
              \E n \in 0..Len(ans[t].updates) : AreTidingsOf(told[t], ans[t].updates, n)

\* The users and the chats that are behind a thread are found.
UsersBehind(t) ==
    busy = 0 /\ Carries(ans[t]) =>
        \A i \in 1..Len(ans[t].users) :
            ans[t].users[i] # Null /\ ans[t].users[i].name # "quoted"
            /\ (doing[t] = "users" => i < next[t]) =>
                ans[t].users[i].id \in Found
ChatsBehind(t) ==
    busy = 0 /\ Carries(ans[t]) /\ doing[t] # "users" =>
        \A i \in 1..Len(ans[t].chats) :
            ans[t].chats[i] # Null /\ ans[t].chats[i].title # "quoted"
            /\ (doing[t] = "chats" => i < next[t]) =>
                Key(ans[t].chats[i]) \in chats

\* A short message that is behind a thread has a row, and in it its text.
TextBehind(t) ==
    busy = 0 /\ ans[t] # Null /\ ans[t].is = "updateShortMessage"
        /\ doing[t] # "message" /\ ans[t].text \notin {Null, "quoted"} =>
            ans[t].id \in DOMAIN rows /\ rows[ans[t].id] = ans[t].text

ThreadInv(t) ==
    /\ ThreadOK(t) /\ ToldIs(t) /\ AnnouncedSoFar(t) /\ UsersBehind(t) /\ ChatsBehind(t)
    /\ TextBehind(t)

ContactsKept ==
    \A id \in DOMAIN contact :
        contact[id].kept => id \in Found /\ users[id].contact = contact[id].is

UpdatesInv ==
    /\ DOMAIN doing = Threads /\ DOMAIN next = Threads /\ DOMAIN ans = Threads
    /\ DOMAIN told = Threads /\ busy \in Nat
    /\ \A t \in Threads : ThreadInv(t)
    /\ ContactsKept

\* A list of one.
LEMMA OneIsList == ASSUME NEW x PROVE IsList(<<x>>) /\ Len(<<x>>) = 1
  BY DEF IsList, Range

LEMMA NoneIsList == IsList(<<>>) /\ Len(<<>>) = 0 /\ DOMAIN <<>> = {}
  BY DEF IsList, Range

\* What is in a list.
LEMMA ListHas ==
  ASSUME NEW s, IsList(s)
  PROVE  Len(s) \in Nat /\ DOMAIN s = 1..Len(s) /\ \A i \in 1..Len(s) : s[i] \in Range(s)
  BY DEF IsList, Range

\* A list after a list.
LEMMA JoinedLists ==
  ASSUME NEW s, NEW r, IsList(s), IsList(r)
  PROVE  /\ IsList(s \o r) /\ Len(s \o r) = Len(s) + Len(r)
         /\ \A i \in 1..Len(s) : (s \o r)[i] = s[i]
         /\ \A i \in 1..Len(r) : (s \o r)[Len(s) + i] = r[i]
<1> DEFINE S == Range(s) \cup Range(r)
<1>1. s \in Seq(S) /\ r \in Seq(S) /\ Len(s) \in Nat /\ Len(r) \in Nat
  <2>1. /\ s = [i \in 1..Len(s) |-> s[i]] /\ Len(s) \in Nat
        /\ r = [i \in 1..Len(r) |-> r[i]] /\ Len(r) \in Nat
    BY DEF IsList
  <2>2. /\ \A i \in 1..Len(s) : s[i] \in Range(s)
        /\ \A i \in 1..Len(r) : r[i] \in Range(r)
    BY ListHas
  <2> QED
    BY <2>1, <2>2
<1> HIDE DEF S
<1>2. /\ s \o r \in Seq(S) /\ Len(s \o r) = Len(s) + Len(r)
      /\ \A i \in 1..(Len(s) + Len(r)) :
            (s \o r)[i] = IF i <= Len(s) THEN s[i] ELSE r[i - Len(s)]
  BY <1>1, ConcatProperties
<1>3. \A i \in 1..Len(s) : (s \o r)[i] = s[i]
  BY <1>1, <1>2
<1>4. ASSUME NEW i \in 1..Len(r) PROVE (s \o r)[Len(s) + i] = r[i]
  <2>1. Len(s) + i \in 1..(Len(s) + Len(r)) /\ ~(Len(s) + i <= Len(s)) /\ Len(s) + i - Len(s) = i
    BY <1>1
  <2> QED
    BY <1>2, <2>1
<1>5. IsList(s \o r)
  <2> DEFINE c == s \o r
  <2>1. c \in Seq(S)
    BY <1>2
  <2> HIDE DEF c
  <2>2. c = [i \in 1..Len(c) |-> c[i]] /\ Len(c) \in Nat /\ DOMAIN c = 1..Len(c)
    BY <2>1
  <2>3. \A i \in 1..Len(c) : c[i] \in Range(c)
    BY <2>2 DEF Range
  <2>4. c \in Seq(Range(c))
    BY <2>2, <2>3
  <2> QED
    BY <2>4 DEF IsList, c
<1> QED
  BY <1>2, <1>3, <1>4, <1>5

\* A part of a list, of the list and of a longer one.
LEMMA SliceOfLonger ==
  ASSUME NEW s, NEW r, IsList(s), IsList(r), NEW k \in Nat, NEW e \in Nat, k <= e, e <= Len(s)
  PROVE  SubSeq(s \o r, k + 1, e) = SubSeq(s, k + 1, e)
<1>1. /\ Len(s) \in Nat /\ Len(s \o r) \in Nat /\ Len(s \o r) >= Len(s)
      /\ \A i \in 1..Len(s) : (s \o r)[i] = s[i]
  BY JoinedLists, ListHas
<1>2. \A i \in (k + 1)..e : s[i] \in Range(s) /\ (s \o r)[i] = s[i]
  BY <1>1, ListHas
<1> DEFINE c == s \o r
           u == SubSeq(s, k + 1, e)
           v == SubSeq(c, k + 1, e)
           m == IF k + 1 <= e THEN e - (k + 1) + 1 ELSE 0
<1>3. \A i \in (k + 1)..e : c[i] = s[i] /\ s[i] \in Range(s) /\ c[i] \in Range(s)
  BY <1>2
<1> HIDE DEF c
<1>4. /\ u \in Seq(Range(s)) /\ Len(u) = m
      /\ \A i \in 1..(e - (k + 1) + 1) : u[i] = s[k + 1 + i - 1]
  BY <1>3, SubSeqProperties
<1>5. /\ v \in Seq(Range(s)) /\ Len(v) = m
      /\ \A i \in 1..(e - (k + 1) + 1) : v[i] = c[k + 1 + i - 1]
  BY <1>3, SubSeqProperties
<1>6. ASSUME NEW i \in 1..m PROVE u[i] = v[i]
  <2>1. i \in 1..(e - (k + 1) + 1) /\ k + 1 + i - 1 \in (k + 1)..e
    OBVIOUS
  <2> QED
    BY <1>3, <1>4, <1>5, <2>1
<1> HIDE DEF u, v, m
<1>7. u = v
  BY <1>4, <1>5, <1>6, SeqEqual
<1> QED
  BY <1>7 DEF u, v, c

\* The part of a longer list that is the list behind.
LEMMA SliceBehind ==
  ASSUME NEW s, NEW r, IsList(s), IsList(r)
  PROVE  SubSeq(s \o r, Len(s) + 1, Len(s) + Len(r)) = r
<1>1. /\ Len(s) \in Nat /\ Len(r) \in Nat
      /\ \A i \in 1..Len(r) : (s \o r)[Len(s) + i] = r[i] /\ r[i] \in Range(r)
  BY JoinedLists, ListHas
<1>2. PICK from \in Nat, to \in Nat : from = Len(s) + 1 /\ to = Len(s) + Len(r)
  BY <1>1
<1> DEFINE c == s \o r
           v == SubSeq(c, from, to)
<1>3. ASSUME NEW i \in 1..Len(r)
      PROVE  from + i - 1 \in from..to /\ c[from + i - 1] = r[i] /\ r[i] \in Range(r)
  <2>1. from + i - 1 = Len(s) + i /\ from + i - 1 \in from..to
    BY <1>1, <1>2
  <2> QED
    BY <1>1, <2>1
<1> HIDE DEF c
<1>4. \A j \in from..to : c[j] \in Range(r)
  <2>1. ASSUME NEW j \in from..to PROVE c[j] \in Range(r)
    <3>1. j - from + 1 \in 1..Len(r) /\ from + (j - from + 1) - 1 = j
      BY <1>1, <1>2
    <3> QED
      BY <1>3, <3>1
  <2> QED
    BY <2>1
<1>5. /\ v \in Seq(Range(r)) /\ Len(v) = (IF from <= to THEN to - from + 1 ELSE 0)
      /\ \A i \in 1..(to - from + 1) : v[i] = c[from + i - 1]
  BY <1>4, SubSeqProperties
<1>6. Len(v) = Len(r) /\ to - from + 1 = Len(r)
  BY <1>1, <1>2, <1>5
<1>7. \A i \in 1..Len(r) : v[i] = r[i]
  BY <1>3, <1>5, <1>6
<1>8. r \in Seq(Range(r))
  BY DEF IsList
<1> HIDE DEF v
<1>9. v = r
  BY <1>5, <1>6, <1>7, <1>8, SeqEqual
<1> QED
  BY <1>2, <1>9 DEF v, c

\* Nothing is announced of no updates.
LEMMA NoTidings == ASSUME NEW updates PROVE AreTidingsOf(<<>>, updates, 0)
<1> DEFINE cut == [i \in 0..0 |-> 0]
<1>1. cut \in [0..0 -> 0..Len(<<>>)] /\ cut[0] = 0 /\ Len(<<>>) = 0 /\ 1..0 = {}
  BY NoneIsList
<1> QED
  BY <1>1 DEF AreTidingsOf

\* One more update is announced.
LEMMA MoreTidings ==
  ASSUME NEW e, NEW updates, NEW n \in Nat, IsList(e), IsList(Tidings(updates[n + 1])),
         AreTidingsOf(e, updates, n)
  PROVE  AreTidingsOf(e \o Tidings(updates[n + 1]), updates, n + 1)
<1> DEFINE r == Tidings(updates[n + 1])
           c == e \o r
<1>1. /\ Len(e) \in Nat /\ Len(r) \in Nat /\ Len(c) = Len(e) + Len(r)
      /\ \A k, m \in Nat : k <= m /\ m <= Len(e) => SubSeq(c, k + 1, m) = SubSeq(e, k + 1, m)
      /\ SubSeq(c, Len(e) + 1, Len(e) + Len(r)) = r
  BY JoinedLists, ListHas, SliceOfLonger, SliceBehind
<1>2. PICK cut \in [0..n -> 0..Len(e)] :
         /\ cut[0] = 0 /\ cut[n] = Len(e)
         /\ \A i \in 1..n : /\ cut[i - 1] <= cut[i]
                           /\ SubSeq(e, cut[i - 1] + 1, cut[i]) = Tidings(updates[i])
  BY DEF AreTidingsOf
<1> HIDE DEF c
<1> DEFINE more == [i \in 0..(n + 1) |-> IF i <= n THEN cut[i] ELSE Len(c)]
<1>3. more \in [0..(n + 1) -> 0..Len(c)] /\ more[0] = 0 /\ more[n + 1] = Len(c) /\ more[n] = Len(e)
  <2>1. ASSUME NEW i \in 0..(n + 1) PROVE (IF i <= n THEN cut[i] ELSE Len(c)) \in 0..Len(c)
    <3>1. CASE i <= n
      <4>1. cut[i] \in 0..Len(e)
        BY <1>2, <3>1
      <4> QED
        BY <1>1, <3>1, <4>1
    <3>2. CASE ~(i <= n)
      BY <1>1, <3>2
    <3> QED
      BY <3>1, <3>2
  <2> QED
    BY <1>2, <2>1
<1>4. ASSUME NEW i \in 1..(n + 1)
      PROVE  /\ more[i - 1] <= more[i]
             /\ SubSeq(c, more[i - 1] + 1, more[i]) = Tidings(updates[i])
  <2>1. CASE i <= n
    <3>1. i \in 1..n /\ i - 1 \in 0..n /\ i \in 0..n /\ more[i] = cut[i] /\ more[i - 1] = cut[i - 1]
      BY <2>1
    <3>2. cut[i] \in Nat /\ cut[i - 1] \in Nat /\ cut[i] <= Len(e) /\ cut[i - 1] <= cut[i]
      BY <1>1, <1>2, <3>1
    <3> QED
      BY <1>1, <1>2, <3>1, <3>2
  <2>2. CASE i = n + 1
    <3>1. more[i] = Len(c) /\ more[i - 1] = Len(e)
      BY <1>3, <2>2
    <3>2. SubSeq(c, more[i - 1] + 1, more[i]) = r
      BY <1>1, <3>1
    <3>3. more[i - 1] <= more[i]
      BY <1>1, <3>1
    <3> QED
      BY <2>2, <3>2, <3>3
  <2>3. i <= n \/ i = n + 1
    OBVIOUS
  <2> QED
    BY <2>1, <2>2, <2>3
<1> HIDE DEF more
<1>5. AreTidingsOf(c, updates, n + 1)
  BY <1>3, <1>4 DEF AreTidingsOf
<1> QED
  BY <1>5 DEF c

\* What an update tells: a list, without a short message.
LEMMA EventsAreList ==
  ASSUME NEW u, u.is = "updateDeleteMessages" => IsList(u.messages)
  PROVE  IsList(EventsOf(u)) /\ \A i \in DOMAIN EventsOf(u) : ~IsShort(EventsOf(u)[i])
<1>1. ASSUME NEW x, ~IsShort(x)
      PROVE  IsList(<<x>>) /\ \A i \in DOMAIN <<x>> : ~IsShort(<<x>>[i])
  BY <1>1, OneIsList
<1>2. IsList(<<>>) /\ \A i \in DOMAIN <<>> : ~IsShort(<<>>[i])
  BY NoneIsList
<1>3. CASE u.is = "updateNewMessage"
  <2>1. EventsOf(u) = OfMessage(u.message)
    BY <1>3 DEF EventsOf
  <2>2. CASE u.message # Null /\ u.message.is \in {"message", "messageService"}
    <3>1. OfMessage(u.message) = <<Tell("MESSAGE", u.message)>> /\ ~IsShort(Tell("MESSAGE", u.message))
      BY <2>2 DEF OfMessage, Tell, IsShort
    <3> QED
      BY <1>1, <2>1, <3>1
  <2>3. CASE ~(u.message # Null /\ u.message.is \in {"message", "messageService"})
    <3>1. OfMessage(u.message) = <<Tell("MESSAGE", Garbage)>> /\ ~IsShort(Tell("MESSAGE", Garbage))
      BY <2>3 DEF OfMessage, Tell, IsShort, Garbage
    <3> QED
      BY <1>1, <2>1, <3>1
  <2> QED
    BY <2>2, <2>3
<1>4. CASE u.is = "updateDeleteMessages"
  <2> DEFINE m == u.messages
             e == [i \in DOMAIN m |-> Tell("MESSAGE_DELETE", m[i])]
  <2>1. EventsOf(u) = e
    BY <1>4 DEF EventsOf
  <2>2. Len(m) \in Nat /\ DOMAIN m = 1..Len(m)
    BY <1>4, ListHas
  <2>3. \A i \in DOMAIN m : e[i] = Tell("MESSAGE_DELETE", m[i]) /\ ~IsShort(e[i])
    BY DEF Tell, IsShort
  <2>4. DOMAIN e = DOMAIN m
    OBVIOUS
  <2>5. IsList(e)
    <3>1. PICK n \in Nat : DOMAIN e = 1..n
      BY <2>2, <2>4
    <3>2. \A i \in 1..n : e[i] \in Range(e)
      BY <3>1 DEF Range
    <3> HIDE DEF e
    <3>3. e = [i \in DOMAIN e |-> e[i]]
      BY DEF e
    <3>4. e \in [1..n -> Range(e)]
      BY <3>1, <3>2, <3>3
    <3>5. e \in Seq(Range(e))
      BY <3>4, SeqDef
    <3> QED
      BY <3>5 DEF IsList
  <2> QED
    BY <2>1, <2>3, <2>4, <2>5
<1>5. CASE u.is \in {"updateUserTyping", "updateChatUserTyping", "updateChannelUserTyping"}
  <2>1. EventsOf(u) = OfTyping(u)
    BY <1>5 DEF EventsOf
  <2>2. CASE u.from = Null \/ u.action \notin {"typing", "cancel", "upload", "record"}
    BY <1>2, <2>1, <2>2 DEF OfTyping
  <2>3. CASE ~(u.from = Null \/ u.action \notin {"typing", "cancel", "upload", "record"})
    <3>1. ~IsShort(Tell(u.action, <<u.in, u.from>>))
      BY <2>3 DEF Tell, IsShort
    <3>2. EventsOf(u) = <<Tell(u.action, <<u.in, u.from>>)>>
      BY <2>1, <2>3 DEF OfTyping
    <3> QED
      BY <1>1, <3>1, <3>2
  <2> QED
    BY <2>2, <2>3
<1>6. CASE u.is = "updateUserStatus"
  <2> DEFINE x == Tell("USER_STATUS", <<u.from, IF u.status = "unknown" THEN 0 ELSE 1>>)
  <2>1. EventsOf(u) = <<x>>
    BY <1>6 DEF EventsOf
  <2>2. ~IsShort(x)
    BY DEF Tell, IsShort
  <2> HIDE DEF x
  <2> QED
    BY <1>1, <2>1, <2>2
<1>7. CASE u.is \notin {"updateNewMessage", "updateDeleteMessages", "updateUserTyping",
                        "updateChatUserTyping", "updateChannelUserTyping", "updateUserStatus"}
  BY <1>2, <1>7 DEF EventsOf
<1> QED
  BY <1>3, <1>4, <1>5, <1>6, <1>7

\* A thread that does nothing: the users and the chats that are found only grow in
\* number, and a text that is there stays.
LEMMA OthersKeep ==
  ASSUME UpdatesAssumption, NEW s \in Threads, ThreadInv(s), doing'[s] = doing[s],
         next'[s] = next[s], ans'[s] = ans[s], told'[s] = told[s],
         Found \subseteq Found', chats \subseteq chats', busy' = 0 => busy = 0,
         \A a \in Answers :
            a.is = "updateShortMessage" /\ a.text \notin {Null, "quoted"}
            /\ a.id \in DOMAIN rows /\ rows[a.id] = a.text =>
               a.id \in DOMAIN rows' /\ rows'[a.id] = a.text
  PROVE  ThreadInv(s)'
<1>1. ThreadOK(s)'
  BY DEF ThreadInv, ThreadOK
<1>2. ToldIs(s)'
  BY DEF ThreadInv, ToldIs
<1>3. AnnouncedSoFar(s)'
  BY DEF ThreadInv, AnnouncedSoFar
<1>4. UsersBehind(s)' /\ ChatsBehind(s)'
  BY DEF ThreadInv, UsersBehind, ChatsBehind
<1>5. TextBehind(s)'
  BY DEF ThreadInv, ThreadOK, TextBehind
<1> QED
  BY <1>1, <1>2, <1>3, <1>4, <1>5 DEF ThreadInv

LEMMA InitUpdates == ASSUME UpdatesAssumption, UpdatesInit PROVE UpdatesInv
<1>1. ASSUME NEW t \in Threads PROVE ThreadInv(t)
  <2>1. doing[t] = "idle" /\ ans[t] = Null /\ next[t] = 1 /\ told[t] = <<>>
    BY DEF UpdatesInit
  <2>2. ThreadOK(t) /\ ToldIs(t)
    BY <2>1, NoneIsList DEF ThreadOK, ToldIs, Carries
  <2> QED
    BY <2>1, <2>2 DEF ThreadInv, AnnouncedSoFar, UsersBehind, ChatsBehind, TextBehind, Carries
<1> QED
  BY <1>1 DEF UpdatesInv, UpdatesInit, ContactsKept

\* A step of a thread, when what it leaves alone is what the others need.
Alone(t) ==
    /\ DOMAIN doing' = Threads /\ DOMAIN next' = Threads /\ DOMAIN ans' = Threads
    /\ DOMAIN told' = Threads
    /\ \A s \in Threads : s # t => /\ doing'[s] = doing[s] /\ next'[s] = next[s]
                                   /\ ans'[s] = ans[s] /\ told'[s] = told[s]
    /\ busy' \in Nat /\ (busy' = 0 => busy = 0)
    /\ Found \subseteq Found' /\ chats \subseteq chats'
    /\ \A b \in Answers :
          b.is = "updateShortMessage" /\ b.text \notin {Null, "quoted"}
          /\ b.id \in DOMAIN rows /\ rows[b.id] = b.text =>
             b.id \in DOMAIN rows' /\ rows'[b.id] = b.text

LEMMA OneThread ==
  ASSUME UpdatesAssumption, UpdatesInv, NEW t \in Threads, ThreadInv(t)', ContactsKept', Alone(t)
  PROVE  UpdatesInv'
<1>1. ASSUME NEW s \in Threads PROVE ThreadInv(s)'
  <2>1. CASE s = t
    BY <2>1
  <2>2. CASE s # t
    BY <2>2, OthersKeep DEF Alone, UpdatesInv
  <2> QED
    BY <2>1, <2>2
<1> QED
  BY <1>1 DEF UpdatesInv, Alone

\* An answer comes.
LEMMA ReceiveKeeps ==
  ASSUME UpdatesAssumption, UpdatesInv, NEW t \in Threads, NEW a \in Answers, Receive(t, a)
  PROVE  UpdatesInv'
<1>1. /\ doing' = [doing EXCEPT ![t] = Stage(a.is)] /\ next' = [next EXCEPT ![t] = 1]
      /\ ans' = [ans EXCEPT ![t] = a] /\ told' = [told EXCEPT ![t] = <<>>]
      /\ UNCHANGED <<users, chats, rows, contact, busy>>
  BY DEF Receive, Goto
<1>2. doing'[t] = Stage(a.is) /\ next'[t] = 1 /\ ans'[t] = a /\ told'[t] = <<>>
  BY <1>1 DEF UpdatesInv
<1>3. a # Null /\ (Carries(a) <=> Stage(a.is) \in {"users", "updates"})
      /\ (Stage(a.is) = "message" <=> a.is \in Shorts)
      /\ Stage(a.is) \in {"users", "updates", "message", "idle"}
      /\ (Stage(a.is) = "updates" <=> a.is = "updateShort")
  BY DEF Stage, Carries, Carriers, Shorts, UpdatesAssumption
<1>4. Carries(a) => /\ IsList(a.users) /\ IsList(a.updates)
                    /\ (a.is = "updateShort" => a.users = <<>> /\ a.chats = <<>>)
  BY DEF Carries, UpdatesAssumption
<1>5. ThreadInv(t)'
  <2>1. ThreadOK(t)'
    BY <1>2, <1>3, NoneIsList DEF ThreadOK, Carries
  <2>2. ToldIs(t)'
    BY <1>2, NoneIsList DEF ToldIs
  <2>3. AnnouncedSoFar(t)'
    <3>1. Carries(a) => Len(a.updates) \in Nat
      BY <1>4, ListHas
    <3>2. AreTidingsOf(<<>>, a.updates, 0)
      BY NoTidings
    <3>3. Carries(a) => doing'[t] \in {"users", "updates"}
      BY <1>2, <1>3
    <3>4. next'[t] - 1 = 0
      BY <1>2
    <3>5. AreTidingsOf(told[t], ans[t].updates, next[t] - 1)'
      BY <1>2, <3>2, <3>4
    <3>6. Carries(a) => next'[t] <= Len(a.updates) + 1
      BY <1>2, <3>1
    <3> QED
      BY <1>2, <3>3, <3>5, <3>6 DEF AnnouncedSoFar, Carries
  <2>4. UsersBehind(t)' /\ ChatsBehind(t)'
    <3>1. Stage(a.is) = "updates" /\ Carries(a) => Len(a.users) = 0 /\ Len(a.chats) = 0
      BY <1>3, <1>4, NoneIsList
    <3>2. Carries(a) => Len(a.users) \in Nat
      BY <1>4, ListHas
    <3>3. \A i \in 1..0 : FALSE
      OBVIOUS
    <3>4. \A n \in Nat : \A i \in 1..n : ~(i < 1)
      OBVIOUS
    <3> QED
      BY <1>2, <1>3, <3>1, <3>2, <3>3, <3>4 DEF UsersBehind, ChatsBehind, Carries
  <2>5. TextBehind(t)'
    BY <1>2, <1>3 DEF TextBehind, Shorts
  <2> QED
    BY <2>1, <2>2, <2>3, <2>4, <2>5 DEF ThreadInv
<1>6. ContactsKept'
  BY <1>1 DEF UpdatesInv, ContactsKept, Found
<1>7. Alone(t)
  BY <1>1 DEF UpdatesInv, Alone, Found
<1> QED
  BY <1>5, <1>6, <1>7, OneThread

\* A list of users, or of chats, or of updates, is at its end.
LEMMA EndKeeps ==
  ASSUME UpdatesAssumption, UpdatesInv, NEW t \in Threads,
         UsersSaved(t) \/ ChatsSaved(t) \/ UpdatesDone(t)
  PROVE  UpdatesInv'
<1>1. ThreadInv(t) /\ DOMAIN doing = Threads /\ DOMAIN next = Threads /\ ContactsKept /\ busy \in Nat
      /\ DOMAIN ans = Threads /\ DOMAIN told = Threads
  BY DEF UpdatesInv
<1>2. PICK to \in {"chats", "updates", "idle"} :
         /\ doing' = [doing EXCEPT ![t] = to] /\ next' = [next EXCEPT ![t] = 1]
         /\ UNCHANGED <<ans, told, users, chats, rows, contact, busy>>
         /\ to = "chats" => doing[t] = "users" /\ next[t] > Len(ans[t].users)
         /\ to = "updates" => doing[t] = "chats" /\ next[t] > Len(ans[t].chats)
         /\ to = "idle" => doing[t] = "updates" /\ next[t] > Len(ans[t].updates)
  BY DEF UsersSaved, ChatsSaved, UpdatesDone, EndOf
<1>3. doing'[t] = to /\ next'[t] = 1 /\ ans'[t] = ans[t] /\ told'[t] = told[t]
  BY <1>1, <1>2
<1>4. /\ ThreadOK(t) /\ ToldIs(t) /\ AnnouncedSoFar(t) /\ UsersBehind(t) /\ ChatsBehind(t)
      /\ TextBehind(t)
      /\ doing[t] \in {"users", "chats", "updates"} /\ Carries(ans[t])
  BY <1>1, <1>2 DEF ThreadInv, ThreadOK
<1>5. /\ ans[t] \in Answers /\ IsList(ans[t].users) /\ IsList(ans[t].updates)
      /\ Len(ans[t].users) \in Nat /\ Len(ans[t].updates) \in Nat /\ next[t] \in Nat
      /\ Len(ans[t].chats) \in Nat
  <2>1. ans[t] \in Answers /\ ans[t].is \in Carriers /\ next[t] \in Nat
    BY <1>4 DEF ThreadOK, Carries
  <2>2. IsList(ans[t].users) /\ IsList(ans[t].updates) /\ IsList(ans[t].chats)
    BY <2>1 DEF UpdatesAssumption
  <2> QED
    BY <2>1, <2>2, ListHas
<1>6. ThreadOK(t)'
  BY <1>2, <1>3, <1>4 DEF ThreadOK, Carries
<1>7. ToldIs(t)'
  BY <1>3, <1>4 DEF ToldIs
<1>8. AnnouncedSoFar(t)'
  <2>1. CASE to = "chats"
    BY <1>3, <2>1 DEF AnnouncedSoFar
  <2>2. CASE to = "updates"
    <3>1. told[t] = <<>>
      BY <1>2, <1>4, <2>2 DEF ThreadOK
    <3>2. AreTidingsOf(told[t], ans[t].updates, 0)
      BY <3>1, NoTidings
    <3>3. next'[t] - 1 = 0
      BY <1>3
    <3>4. AreTidingsOf(told[t], ans[t].updates, next[t] - 1)'
      BY <1>3, <3>2, <3>3
    <3>5. next'[t] <= Len(ans'[t].updates) + 1
      BY <1>3, <1>5
    <3> QED
      BY <1>3, <2>2, <3>4, <3>5 DEF AnnouncedSoFar
  <2>3. CASE to = "idle"
    <3>1. next[t] <= Len(ans[t].updates) + 1 /\ AreTidingsOf(told[t], ans[t].updates, next[t] - 1)
      BY <1>2, <1>4, <2>3 DEF AnnouncedSoFar
    <3>2. next[t] - 1 = Len(ans[t].updates)
      BY <1>2, <1>5, <2>3, <3>1
    <3>3. AreTidingsOf(told[t], ans[t].updates, Len(ans[t].updates))'
      BY <1>3, <3>1, <3>2
    <3> QED
      BY <1>3, <2>3, <3>3 DEF AnnouncedSoFar
  <2> QED
    BY <2>1, <2>2, <2>3
<1>9. UsersBehind(t)'
  <2>1. to = "chats" => \A i \in 1..Len(ans[t].users) : i < next[t]
    BY <1>2, <1>5
  <2> QED
    BY <1>2, <1>3, <1>4, <2>1 DEF UsersBehind, Found
<1>13. ChatsBehind(t)'
  <2>1. to = "updates" => \A i \in 1..Len(ans[t].chats) : i < next[t]
    BY <1>2, <1>5
  <2>2. \A i \in 1..Len(ans[t].chats) : ~(i < 1)
    BY <1>5
  <2> QED
    BY <1>2, <1>3, <1>4, <2>1, <2>2 DEF ChatsBehind
<1>10. TextBehind(t)'
  BY <1>2, <1>3, <1>4 DEF TextBehind
<1>11. ThreadInv(t)' /\ ContactsKept'
  BY <1>1, <1>2, <1>6, <1>7, <1>8, <1>9, <1>10, <1>13 DEF ThreadInv, ContactsKept, Found
<1>12. Alone(t)
  BY <1>1, <1>2 DEF Alone, Found
<1> QED
  BY <1>11, <1>12, OneThread

\* What a thread with an answer of several parts has.
LEMMA OfCarrier ==
  ASSUME UpdatesAssumption, UpdatesInv, NEW t \in Threads, doing[t] \in {"users", "chats", "updates"}
  PROVE  /\ ThreadOK(t) /\ ToldIs(t) /\ AnnouncedSoFar(t) /\ UsersBehind(t) /\ ChatsBehind(t)
         /\ TextBehind(t)
         /\ Carries(ans[t]) /\ ans[t] \in Answers /\ next[t] \in Nat \ {0}
         /\ IsList(ans[t].users) /\ IsList(ans[t].updates)
         /\ Len(ans[t].users) \in Nat /\ Len(ans[t].updates) \in Nat /\ Len(ans[t].chats) \in Nat
         /\ \A i \in DOMAIN ans[t].updates :
               ans[t].updates[i] # Null /\ ans[t].updates[i].is = "updateDeleteMessages" =>
                   IsList(ans[t].updates[i].messages)
<1>1. ThreadOK(t) /\ ToldIs(t) /\ AnnouncedSoFar(t) /\ UsersBehind(t) /\ ChatsBehind(t) /\ TextBehind(t)
  BY DEF UpdatesInv, ThreadInv
<1>2. Carries(ans[t]) /\ ans[t] \in Answers /\ next[t] \in Nat \ {0}
  BY <1>1 DEF ThreadOK, Carries
<1>3. /\ IsList(ans[t].users) /\ IsList(ans[t].updates) /\ IsList(ans[t].chats)
      /\ \A i \in DOMAIN ans[t].updates :
            ans[t].updates[i] # Null /\ ans[t].updates[i].is = "updateDeleteMessages" =>
                IsList(ans[t].updates[i].messages)
  BY <1>2 DEF Carries, UpdatesAssumption
<1> QED
  BY <1>1, <1>2, <1>3, ListHas

\* A user is saved, or not.
LEMMA SaveUserKeeps ==
  ASSUME UpdatesAssumption, UpdatesInv, NEW t \in Threads, SaveUser(t)
  PROVE  UpdatesInv'
<1>0. /\ DOMAIN doing = Threads /\ DOMAIN next = Threads /\ DOMAIN ans = Threads
      /\ DOMAIN told = Threads /\ ContactsKept /\ busy \in Nat
  BY DEF UpdatesInv
<1>1. doing[t] = "users" /\ next[t] <= Len(ans[t].users) /\ next' = [next EXCEPT ![t] = next[t] + 1]
      /\ UNCHANGED <<doing, ans, told, chats, rows>>
  BY DEF SaveUser, Advance
<1>2. /\ ThreadOK(t) /\ ToldIs(t) /\ AnnouncedSoFar(t) /\ UsersBehind(t) /\ TextBehind(t)
      /\ Carries(ans[t]) /\ next[t] \in Nat \ {0} /\ Len(ans[t].users) \in Nat
  BY <1>1, OfCarrier
<1>3. doing'[t] = doing[t] /\ next'[t] = next[t] + 1 /\ ans'[t] = ans[t] /\ told'[t] = told[t]
  BY <1>0, <1>1
<1>4. PICK user : user = ans[t].users[next[t]]
  OBVIOUS
<1>5. \/ user = Null /\ Saved(TRUE) /\ UNCHANGED <<users, contact>>
      \/ /\ user # Null /\ Saved(FALSE)
         /\ users' \in {users, Inserted(user.id)} /\ contact' = ToldInFull(user, FALSE)
      \/ /\ user # Null /\ Saved(TRUE) /\ user.name = "quoted"
         /\ users' = Inserted(user.id) /\ contact' = ToldInFull(user, FALSE)
      \/ /\ user # Null /\ Saved(TRUE) /\ user.name # "quoted"
         /\ users' = Put(users, user.id, UserRow(OldUser(user.id), user))
         /\ contact' = ToldInFull(user, TRUE)
  BY <1>4 DEF SaveUser
<1>6. ASSUME NEW b \in BOOLEAN, Saved(b)
      PROVE  busy' \in Nat /\ (busy' = 0 => busy = 0) /\ (b = FALSE => busy' # 0)
  BY <1>0, <1>6 DEF Saved
<1>7. /\ busy' \in Nat /\ (busy' = 0 => busy = 0)
      /\ Found \subseteq Found' /\ ContactsKept'
      /\ busy' = 0 /\ user # Null /\ user.name # "quoted" => user.id \in Found'
  <2>1. CASE user = Null /\ Saved(TRUE) /\ UNCHANGED <<users, contact>>
    BY <1>0, <1>6, <2>1 DEF ContactsKept, Found
  <2>2. ASSUME users' \in {users, Inserted(user.id)}, contact' = ToldInFull(user, FALSE)
        PROVE  Found \subseteq Found' /\ ContactsKept'
    <3>1. /\ DOMAIN users \subseteq DOMAIN users'
          /\ \A id \in DOMAIN users : users'[id] = users[id]
      BY <2>2 DEF Inserted, Put, OldUser
    <3>2. Found \subseteq Found'
      BY <3>1 DEF Found
    <3>3. \A id \in DOMAIN contact' :
             contact'[id].kept => id \in DOMAIN contact /\ contact[id] = contact'[id]
      <4>1. CASE user.min
        BY <2>2, <4>1 DEF ToldInFull
      <4>2. CASE ~user.min
        <5>1. contact' = Put(contact, user.id, [is |-> user.contact, kept |-> FALSE])
          BY <2>2, <4>2 DEF ToldInFull
        <5> QED
          BY <5>1 DEF Put
      <4> QED
        BY <4>1, <4>2
    <3> QED
      BY <1>0, <3>1, <3>2, <3>3 DEF ContactsKept, Found
  <2>3. CASE /\ user # Null /\ Saved(FALSE)
             /\ users' \in {users, Inserted(user.id)} /\ contact' = ToldInFull(user, FALSE)
    BY <1>6, <2>2, <2>3
  <2>4. CASE /\ user # Null /\ Saved(TRUE) /\ user.name = "quoted"
             /\ users' = Inserted(user.id) /\ contact' = ToldInFull(user, FALSE)
    BY <1>6, <2>2, <2>4
  <2>5. CASE /\ user # Null /\ Saved(TRUE) /\ user.name # "quoted"
             /\ users' = Put(users, user.id, UserRow(OldUser(user.id), user))
             /\ contact' = ToldInFull(user, TRUE)
    <3>1. PICK id, row : id = user.id /\ row = UserRow(OldUser(user.id), user)
      OBVIOUS
    <3>2. users' = Put(users, id, row) /\ row.mine = TRUE
      BY <2>5, <3>1 DEF UserRow
    <3>3. /\ DOMAIN users' = DOMAIN users \cup {id} /\ users'[id] = row
          /\ \A x \in DOMAIN users : x # id => users'[x] = users[x]
      BY <3>2 DEF Put
    <3>4. Found \subseteq Found' /\ id \in Found'
      BY <3>2, <3>3 DEF Found
    <3>5. CASE user.min
      <4>1. id \in DOMAIN users => row.contact = users[id].contact
        BY <3>1, <3>5 DEF OldUser, UserRow
      <4>2. contact' = contact
        BY <2>5, <3>5 DEF ToldInFull
      <4>3. ContactsKept'
        <5>1. ASSUME NEW x \in DOMAIN contact, contact[x].kept
              PROVE  x \in Found' /\ users'[x].contact = contact[x].is
          <6>1. x \in Found /\ x \in DOMAIN users /\ users[x].contact = contact[x].is
            BY <1>0, <5>1 DEF ContactsKept, Found
          <6> QED
            BY <3>3, <3>4, <4>1, <6>1
        <5> QED
          BY <4>2, <5>1 DEF ContactsKept
      <4> QED
        BY <1>6, <2>5, <3>1, <3>4, <4>3
    <3>6. CASE ~user.min
      <4>1. row.contact = user.contact
        BY <3>1, <3>6 DEF UserRow
      <4>2. contact' = Put(contact, id, [is |-> user.contact, kept |-> TRUE])
        BY <2>5, <3>1, <3>6 DEF ToldInFull
      <4>3. /\ DOMAIN contact' = DOMAIN contact \cup {id}
            /\ contact'[id] = [is |-> user.contact, kept |-> TRUE]
            /\ \A x \in DOMAIN contact : x # id => contact'[x] = contact[x]
        BY <4>2 DEF Put
      <4>4. ContactsKept'
        <5>1. ASSUME NEW x \in DOMAIN contact', contact'[x].kept
              PROVE  x \in Found' /\ users'[x].contact = contact'[x].is
          <6>1. CASE x = id
            BY <3>3, <3>4, <4>1, <4>3, <6>1
          <6>2. CASE x # id
            <7>1. x \in DOMAIN contact /\ contact'[x] = contact[x]
              BY <4>3, <6>2
            <7>2. x \in Found /\ x \in DOMAIN users /\ users[x].contact = contact[x].is
              BY <1>0, <5>1, <7>1 DEF ContactsKept, Found
            <7> QED
              BY <3>3, <3>4, <6>2, <7>1, <7>2
          <6> QED
            BY <6>1, <6>2
        <5> QED
          BY <5>1 DEF ContactsKept
      <4> QED
        BY <1>6, <2>5, <3>1, <3>4, <4>4
    <3> QED
      BY <3>5, <3>6
  <2> QED
    BY <1>5, <2>1, <2>3, <2>4, <2>5
<1>8. ThreadOK(t)'
  BY <1>2, <1>3 DEF ThreadOK
<1>9. ToldIs(t)' /\ AnnouncedSoFar(t)' /\ TextBehind(t)' /\ ChatsBehind(t)'
  <2>1. doing'[t] = "users" /\ Carries(ans[t])
    BY <1>1, <1>2, <1>3
  <2>2. ans[t].is # "updateShortMessage"
    BY <1>2 DEF Carries, Carriers
  <2> QED
    BY <1>2, <1>3, <2>1, <2>2 DEF ToldIs, AnnouncedSoFar, TextBehind, ChatsBehind
<1>10. UsersBehind(t)'
  <2>1. SUFFICES ASSUME busy' = 0, NEW i \in 1..Len(ans[t].users), ans[t].users[i] # Null,
                        ans[t].users[i].name # "quoted", i < next[t] + 1
                 PROVE  ans[t].users[i].id \in Found'
    BY <1>1, <1>3 DEF UsersBehind
  <2>2. CASE i < next[t]
    BY <1>1, <1>2, <1>7, <2>1, <2>2 DEF UsersBehind
  <2>3. CASE ~(i < next[t])
    <3>1. i = next[t]
      BY <1>2, <2>1, <2>3
    <3> QED
      BY <1>4, <1>7, <2>1, <3>1
  <2> QED
    BY <2>2, <2>3
<1>11. Alone(t)
  BY <1>0, <1>1, <1>7 DEF Alone
<1> QED
  BY <1>7, <1>8, <1>9, <1>10, <1>11, OneThread DEF ThreadInv

\* A chat or a channel is saved, or not.
LEMMA SaveChatKeeps ==
  ASSUME UpdatesAssumption, UpdatesInv, NEW t \in Threads, SaveChat(t)
  PROVE  UpdatesInv'
<1>0. /\ DOMAIN doing = Threads /\ DOMAIN next = Threads /\ DOMAIN ans = Threads
      /\ DOMAIN told = Threads /\ ContactsKept /\ busy \in Nat
  BY DEF UpdatesInv
<1>1. doing[t] = "chats" /\ next' = [next EXCEPT ![t] = next[t] + 1]
      /\ next[t] <= Len(ans[t].chats)
      /\ UNCHANGED <<doing, ans, told, users, contact, rows>>
  BY DEF SaveChat, Advance
<1>2. /\ ThreadOK(t) /\ ToldIs(t) /\ AnnouncedSoFar(t) /\ UsersBehind(t) /\ ChatsBehind(t)
      /\ TextBehind(t)
      /\ Carries(ans[t]) /\ next[t] \in Nat \ {0} /\ Len(ans[t].chats) \in Nat
  BY <1>1, OfCarrier
<1>3. doing'[t] = doing[t] /\ next'[t] = next[t] + 1 /\ ans'[t] = ans[t] /\ told'[t] = told[t]
  BY <1>0, <1>1
<1>4. PICK chat : chat = ans[t].chats[next[t]]
  OBVIOUS
<1>5. /\ busy' \in Nat /\ (busy' = 0 => busy = 0) /\ chats \subseteq chats'
      /\ busy' = 0 /\ chat # Null /\ chat.title # "quoted" => Key(chat) \in chats'
  <2>1. ASSUME NEW b \in BOOLEAN, Saved(b)
        PROVE  busy' \in Nat /\ (busy' = 0 => busy = 0) /\ (b = FALSE => busy' # 0)
    BY <1>0, <2>1 DEF Saved
  <2>2. \/ Saved(TRUE) /\ chat = Null /\ UNCHANGED chats
        \/ Saved(FALSE) /\ chat # Null /\ UNCHANGED chats
        \/ Saved(TRUE) /\ chat # Null /\ chat.title = "quoted" /\ UNCHANGED chats
        \/ Saved(TRUE) /\ chat # Null /\ chat.title # "quoted" /\ chats' = chats \cup {Key(chat)}
    BY <1>4 DEF SaveChat
  <2> QED
    BY <2>1, <2>2
<1>6. ThreadOK(t)'
  BY <1>2, <1>3 DEF ThreadOK
<1>7. ToldIs(t)' /\ AnnouncedSoFar(t)' /\ TextBehind(t)' /\ UsersBehind(t)'
  <2>1. doing'[t] = "chats" /\ users' = users /\ ans[t].is # "updateShortMessage"
    BY <1>1, <1>2, <1>3 DEF Carries, Carriers
  <2> QED
    BY <1>1, <1>2, <1>3, <1>5, <2>1 DEF ToldIs, AnnouncedSoFar, TextBehind, UsersBehind, Found
<1>8. ChatsBehind(t)'
  <2>1. SUFFICES ASSUME busy' = 0, NEW i \in 1..Len(ans[t].chats), ans[t].chats[i] # Null,
                        ans[t].chats[i].title # "quoted", i < next[t] + 1
                 PROVE  Key(ans[t].chats[i]) \in chats'
    BY <1>1, <1>3 DEF ChatsBehind
  <2>2. CASE i < next[t]
    BY <1>1, <1>2, <1>5, <2>1, <2>2 DEF ChatsBehind
  <2>3. CASE ~(i < next[t])
    <3>1. i = next[t]
      BY <1>2, <2>1, <2>3
    <3> QED
      BY <1>4, <1>5, <2>1, <3>1
  <2> QED
    BY <2>2, <2>3
<1>9. ContactsKept' /\ Alone(t)
  BY <1>0, <1>1, <1>5 DEF ContactsKept, Alone, Found
<1> QED
  BY <1>6, <1>7, <1>8, <1>9, OneThread DEF ThreadInv

\* An update is announced, or passed over, or is the end.
LEMMA AnnounceKeeps ==
  ASSUME UpdatesAssumption, UpdatesInv, NEW t \in Threads, Announce(t)
  PROVE  UpdatesInv'
<1>0. /\ DOMAIN doing = Threads /\ DOMAIN next = Threads /\ DOMAIN ans = Threads
      /\ DOMAIN told = Threads /\ ContactsKept /\ busy \in Nat
  BY DEF UpdatesInv
<1>1. /\ doing[t] = "updates" /\ next[t] <= Len(ans[t].updates)
      /\ UNCHANGED <<ans, users, chats, rows, contact, busy>>
  BY DEF Announce
<1>2. /\ ThreadOK(t) /\ ToldIs(t) /\ AnnouncedSoFar(t) /\ UsersBehind(t) /\ ChatsBehind(t)
      /\ TextBehind(t)
      /\ Carries(ans[t]) /\ ans[t] \in Answers /\ next[t] \in Nat \ {0} /\ IsList(ans[t].updates)
      /\ Len(ans[t].updates) \in Nat /\ IsList(told[t])
      /\ \A i \in DOMAIN ans[t].updates :
            ans[t].updates[i] # Null /\ ans[t].updates[i].is = "updateDeleteMessages" =>
                IsList(ans[t].updates[i].messages)
  BY <1>1, OfCarrier DEF ThreadOK
<1>a. PICK n \in Nat : next[t] = n + 1
  <2>1. next[t] - 1 \in Nat /\ next[t] = (next[t] - 1) + 1
    BY <1>2
  <2> QED
    BY <2>1
<1>b. PICK updates : updates = ans[t].updates
  OBVIOUS
<1>c. PICK e : e = told[t]
  OBVIOUS
<1>d. PICK u : u = updates[n + 1]
  OBVIOUS
<1>3. /\ n = next[t] - 1 /\ updates = ans[t].updates /\ u = updates[n + 1] /\ e = told[t]
      /\ next[t] = n + 1
  BY <1>a, <1>b, <1>c, <1>d
<1>4. IsList(e) /\ AreTidingsOf(e, updates, n) /\ n + 1 <= Len(updates) /\ n + 1 \in DOMAIN updates
  <2>1. DOMAIN updates = 1..Len(updates)
    BY <1>2, <1>3, ListHas
  <2> QED
    BY <1>1, <1>2, <1>3, <2>1 DEF AnnouncedSoFar
<1>5. \/ /\ u = Null /\ doing' = doing /\ next' = [next EXCEPT ![t] = n + 2] /\ told' = told
      \/ /\ doing' = doing /\ next' = [next EXCEPT ![t] = n + 2]
         /\ told' = [told EXCEPT ![t] = e \o Tidings(u)]
      \/ doing' = [doing EXCEPT ![t] = "crashed"] /\ next' = next /\ told' = told
  <2>1. next[t] + 1 = n + 2 /\ ans[t].updates[next[t]] = u
    BY <1>3
  <2> QED
    BY <1>3, <2>1 DEF Announce, AfterUnread, Advance
<1>6. IsList(Tidings(u)) /\ \A i \in DOMAIN Tidings(u) : ~IsShort(Tidings(u)[i])
  <2>1. CASE u = Null
    BY <2>1, NoneIsList DEF Tidings
  <2>2. CASE u # Null
    <3>1. u.is = "updateDeleteMessages" => IsList(u.messages)
      BY <1>2, <1>3, <1>4, <2>2
    <3> QED
      BY <2>2, <3>1, EventsAreList DEF Tidings
  <2> QED
    BY <2>1, <2>2
<1>7. AreTidingsOf(e \o Tidings(u), updates, n + 1)
  BY <1>3, <1>4, <1>6, MoreTidings
<1>8. e \o Tidings(u) = e \/ u # Null
  <2>1. Tidings(Null) = <<>>
    BY DEF Tidings
  <2>2. e \o <<>> = e
    <3>1. e \in Seq(Range(e))
      BY <1>4 DEF IsList
    <3> QED
      BY <3>1, ConcatEmptySeq
  <2> QED
    BY <2>1, <2>2
<1>9. CASE doing' = doing /\ next' = [next EXCEPT ![t] = n + 2] /\ told'[t] = e \o Tidings(u)
           /\ DOMAIN told' = Threads /\ \A s \in Threads : s # t => told'[s] = told[s]
  <2>1. doing'[t] = "updates" /\ next'[t] = n + 2 /\ ans'[t] = ans[t] /\ n + 2 \in Nat \ {0}
    BY <1>0, <1>1, <1>9
  <2>2. /\ IsList(e \o Tidings(u))
        /\ \A i \in DOMAIN (e \o Tidings(u)) : ~IsShort((e \o Tidings(u))[i])
    <3>1. \A i \in DOMAIN e : ~IsShort(e[i])
      BY <1>2, <1>3 DEF ToldIs
    <3> DEFINE r == Tidings(u)
    <3>2. IsList(r) /\ \A i \in DOMAIN r : ~IsShort(r[i])
      BY <1>6
    <3> HIDE DEF r
    <3>3. /\ IsList(e \o r) /\ Len(e \o r) = Len(e) + Len(r)
          /\ \A i \in 1..Len(e) : (e \o r)[i] = e[i]
          /\ \A i \in 1..Len(r) : (e \o r)[Len(e) + i] = r[i]
      BY <1>4, <3>2, JoinedLists
    <3>4. /\ Len(e) \in Nat /\ Len(r) \in Nat /\ DOMAIN e = 1..Len(e) /\ DOMAIN r = 1..Len(r)
          /\ DOMAIN (e \o r) = 1..(Len(e) + Len(r))
      BY <1>4, <3>2, <3>3, ListHas
    <3>5. ASSUME NEW i \in 1..(Len(e) + Len(r)) PROVE ~IsShort((e \o r)[i])
      <4>1. CASE i <= Len(e)
        BY <3>1, <3>3, <3>4, <4>1
      <4>2. CASE ~(i <= Len(e))
        <5>1. i - Len(e) \in 1..Len(r) /\ Len(e) + (i - Len(e)) = i
          BY <3>4, <4>2
        <5> QED
          BY <3>2, <3>3, <3>4, <5>1
      <4> QED
        BY <4>1, <4>2
    <3> QED
      BY <3>3, <3>4, <3>5 DEF r
  <2>3. ThreadOK(t)'
    BY <1>2, <1>9, <2>1, <2>2 DEF ThreadOK
  <2>4. ToldIs(t)'
    BY <1>2, <1>9, <2>1, <2>2 DEF ToldIs, Carries
  <2>5. AnnouncedSoFar(t)'
    <3>0. Len(updates) \in Nat
      BY <1>2, <1>3
    <3>1. next'[t] - 1 = n + 1 /\ next'[t] <= Len(updates) + 1
      <4>1. (n + 2) - 1 = n + 1 /\ n + 2 <= Len(updates) + 1
        BY <1>4, <3>0
      <4> QED
        BY <2>1, <4>1
    <3>2. AreTidingsOf(told[t], ans[t].updates, next[t] - 1)'
      BY <1>3, <1>7, <1>9, <2>1, <3>1
    <3> QED
      BY <1>3, <2>1, <3>1, <3>2 DEF AnnouncedSoFar
  <2>6. UsersBehind(t)' /\ ChatsBehind(t)' /\ TextBehind(t)'
    <3>1. ans[t].is # "updateShortMessage"
      BY <1>2 DEF Carries, Carriers
    <3> QED
      BY <1>1, <1>2, <2>1, <3>1 DEF UsersBehind, ChatsBehind, TextBehind, Found
  <2>7. ContactsKept' /\ Alone(t)
    BY <1>0, <1>1, <1>9 DEF ContactsKept, Alone, Found
  <2> QED
    BY <2>3, <2>4, <2>5, <2>6, <2>7, OneThread DEF ThreadInv
<1>10. CASE doing' = [doing EXCEPT ![t] = "crashed"] /\ next' = next /\ told' = told
  <2>1. doing'[t] = "crashed" /\ next'[t] = next[t] /\ ans'[t] = ans[t] /\ told'[t] = told[t]
    BY <1>0, <1>1, <1>10
  <2>2. ThreadOK(t)' /\ ToldIs(t)'
    BY <1>2, <2>1 DEF ThreadOK, ToldIs, Carries
  <2>3. AnnouncedSoFar(t)'
    <3>1. n \in 0..Len(updates)
      BY <1>2, <1>3, <1>4
    <3>2. AreTidingsOf(told[t], ans[t].updates, n)'
      BY <1>3, <1>4, <2>1
    <3>3. n \in 0..Len(ans'[t].updates)
      BY <1>3, <2>1, <3>1
    <3> QED
      BY <2>1, <3>2, <3>3 DEF AnnouncedSoFar
  <2>4. UsersBehind(t)' /\ ChatsBehind(t)' /\ TextBehind(t)'
    <3>1. ans[t].is # "updateShortMessage"
      BY <1>2 DEF Carries, Carriers
    <3> QED
      BY <1>1, <1>2, <2>1, <3>1 DEF UsersBehind, ChatsBehind, TextBehind, Found
  <2>5. ContactsKept' /\ Alone(t)
    BY <1>0, <1>1, <1>10 DEF ContactsKept, Alone, Found
  <2> QED
    BY <2>2, <2>3, <2>4, <2>5, OneThread DEF ThreadInv
<1>11. CASE doing' = doing /\ next' = [next EXCEPT ![t] = n + 2]
            /\ told' = [told EXCEPT ![t] = e \o Tidings(u)]
  BY <1>0, <1>9, <1>11
<1>12. CASE u = Null /\ doing' = doing /\ next' = [next EXCEPT ![t] = n + 2] /\ told' = told
  BY <1>0, <1>3, <1>8, <1>9, <1>12
<1> QED
  BY <1>5, <1>10, <1>11, <1>12

\* A short message is saved, or not.
LEMMA MessageKeeps ==
  ASSUME UpdatesAssumption, UpdatesInv, NEW t \in Threads, message_update(t)
  PROVE  UpdatesInv'
<1>0. /\ DOMAIN doing = Threads /\ DOMAIN next = Threads /\ DOMAIN ans = Threads
      /\ DOMAIN told = Threads /\ ContactsKept /\ busy \in Nat
      /\ ThreadOK(t) /\ ToldIs(t) /\ AnnouncedSoFar(t) /\ UsersBehind(t) /\ TextBehind(t)
      /\ ChatsBehind(t)
  BY DEF UpdatesInv, ThreadInv
<1>1. doing[t] = "message" /\ doing' = [doing EXCEPT ![t] = "callback"]
      /\ UNCHANGED <<ans, next, told, users, chats, contact>>
  BY DEF message_update, Goto
<1>2. doing'[t] = "callback" /\ ans'[t] = ans[t] /\ next'[t] = next[t] /\ told'[t] = told[t]
  BY <1>0, <1>1
<1>3. ans[t] \in Answers /\ ans[t].is \in Shorts /\ told[t] = <<>> /\ ~Carries(ans[t])
  BY <1>0, <1>1 DEF ThreadOK, Shorts, Carries, Carriers
<1>4. PICK id, text : id = NumberOf(ans[t]) /\ text = ans[t].text
  OBVIOUS
<1>5. /\ busy' \in Nat /\ (busy' = 0 => busy = 0)
      /\ \/ busy' # 0 /\ rows' = rows
         \/ busy' # 0 /\ rows' = Put(rows, id, OldText(id))
         \/ rows' = Put(rows, id, IF text \in {Null, "quoted"} THEN OldText(id) ELSE text)
  <2>1. CASE Saved(FALSE) /\ rows' \in {rows, Put(rows, id, OldText(id))}
    BY <1>0, <2>1 DEF Saved
  <2>2. CASE /\ Saved(TRUE)
             /\ rows' = Put(rows, id, IF text \in {Null, "quoted"} THEN OldText(id) ELSE text)
    BY <1>0, <2>2 DEF Saved
  <2> QED
    BY <1>4, <2>1, <2>2 DEF message_update
<1>6. rows' # rows \/ busy' = 0 =>
        /\ DOMAIN rows' = DOMAIN rows \cup {id}
        /\ text \notin {Null, "quoted"} /\ busy' = 0 => rows'[id] = text
        /\ id \in DOMAIN rows => rows'[id] = rows[id] \/ (text \notin {Null, "quoted"} /\ rows'[id] = text)
        /\ \A x \in DOMAIN rows : x # id => rows'[x] = rows[x]
  BY <1>5 DEF Put, OldText
<1>7. ASSUME NEW b \in Answers, b.is = "updateShortMessage", b.text \notin {Null, "quoted"},
             b.id \in DOMAIN rows, rows[b.id] = b.text
      PROVE  b.id \in DOMAIN rows' /\ rows'[b.id] = b.text
  <2>1. CASE rows' = rows
    BY <1>7, <2>1
  <2>2. CASE rows' # rows
    <3>1. CASE b.id # id
      BY <1>6, <1>7, <2>2, <3>1
    <3>2. CASE b.id = id
      <4>1. ans[t].is = "updateShortMessage" /\ ans[t].id = b.id
        BY <1>3, <1>4, <1>7, <3>2 DEF NumberOf, Shorts, UpdatesAssumption
      <4>2. text = b.text
        BY <1>3, <1>4, <1>7, <4>1 DEF UpdatesAssumption
      <4> QED
        BY <1>6, <1>7, <2>2, <3>2, <4>2
    <3> QED
      BY <3>1, <3>2
  <2> QED
    BY <2>1, <2>2
<1>8. ThreadOK(t)' /\ ToldIs(t)' /\ AnnouncedSoFar(t)' /\ UsersBehind(t)' /\ ChatsBehind(t)'
  BY <1>0, <1>1, <1>2, <1>3, <1>5 DEF ThreadOK, ToldIs, AnnouncedSoFar, UsersBehind,
     ChatsBehind, Carries, Found
<1>9. TextBehind(t)'
  <2>1. SUFFICES ASSUME busy' = 0, ans[t].is = "updateShortMessage", text \notin {Null, "quoted"}
                 PROVE  ans[t].id \in DOMAIN rows' /\ rows'[ans[t].id] = text
    BY <1>2, <1>4 DEF TextBehind
  <2> QED
    BY <1>4, <1>6, <2>1 DEF NumberOf
<1>10. ContactsKept' /\ Alone(t)
  BY <1>0, <1>1, <1>5, <1>7 DEF ContactsKept, Alone, Found
<1> QED
  BY <1>8, <1>9, <1>10, OneThread DEF ThreadInv

\* A short message is told.
LEMMA ShortKeeps ==
  ASSUME UpdatesAssumption, UpdatesInv, NEW t \in Threads, ShortMessage(t)
  PROVE  UpdatesInv'
<1>0. /\ DOMAIN doing = Threads /\ DOMAIN next = Threads /\ DOMAIN ans = Threads
      /\ DOMAIN told = Threads /\ ContactsKept /\ busy \in Nat
      /\ ThreadOK(t) /\ ToldIs(t) /\ AnnouncedSoFar(t) /\ UsersBehind(t) /\ TextBehind(t)
      /\ ChatsBehind(t)
  BY DEF UpdatesInv, ThreadInv
<1>1. /\ doing[t] = "callback" /\ doing' = [doing EXCEPT ![t] = "idle"]
      /\ told' = [told EXCEPT ![t] = <<ShortOf(ans[t])>>]
      /\ UNCHANGED <<ans, next, users, chats, rows, contact, busy>>
  BY DEF ShortMessage, Goto, ShortOf
<1>2. doing'[t] = "idle" /\ ans'[t] = ans[t] /\ next'[t] = next[t] /\ told'[t] = <<ShortOf(ans[t])>>
  BY <1>0, <1>1
<1>3. ans[t] \in Answers /\ ans[t] # Null /\ ans[t].is \in Shorts /\ ~Carries(ans[t])
      /\ next[t] \in Nat \ {0}
  BY <1>0, <1>1 DEF ThreadOK, Shorts, Carries, Carriers
<1>4. ThreadOK(t)'
  <2>1. PICK x : x = ShortOf(ans[t])
    OBVIOUS
  <2>2. IsList(<<x>>)
    BY OneIsList
  <2> QED
    BY <1>2, <1>3, <2>1, <2>2 DEF ThreadOK
<1>5. ToldIs(t)'
  <2>1. ShortOf(ans[t])' = ShortOf(ans[t])
    BY <1>2 DEF ShortOf, Tell, NumberOf
  <2> QED
    BY <1>2, <1>3, <2>1 DEF ToldIs, Carries
<1>6. AnnouncedSoFar(t)' /\ UsersBehind(t)' /\ ChatsBehind(t)'
  BY <1>2, <1>3 DEF AnnouncedSoFar, UsersBehind, ChatsBehind, Carries
<1>7. TextBehind(t)'
  BY <1>0, <1>1, <1>2 DEF TextBehind
<1>8. ContactsKept' /\ Alone(t)
  BY <1>0, <1>1 DEF ContactsKept, Alone, Found
<1> QED
  BY <1>4, <1>5, <1>6, <1>7, <1>8, OneThread DEF ThreadInv

LEMMA NextUpdates == ASSUME UpdatesAssumption, UpdatesInv, [UpdatesNext]_updatesVars PROVE UpdatesInv'
<1>1. CASE \E t \in Threads :
             \/ \E a \in Answers : Receive(t, a)
             \/ SaveUser(t) \/ UsersSaved(t) \/ SaveChat(t) \/ ChatsSaved(t)
             \/ Announce(t) \/ UpdatesDone(t)
             \/ message_update(t) \/ ShortMessage(t)
  BY <1>1, ReceiveKeeps, SaveUserKeeps, EndKeeps, SaveChatKeeps, AnnounceKeeps, MessageKeeps,
     ShortKeeps
<1>2. CASE UNCHANGED updatesVars
  <2>1. /\ doing' = doing /\ next' = next /\ ans' = ans /\ told' = told /\ users' = users /\ chats' = chats
        /\ rows' = rows /\ contact' = contact /\ busy' = busy
    BY <1>2 DEF updatesVars
  <2>2. ASSUME NEW t \in Threads PROVE ThreadInv(t)'
    BY <2>1, OthersKeep DEF UpdatesInv, Found
  <2> QED
    BY <2>1, <2>2 DEF UpdatesInv, ContactsKept, Found
<1> QED
  BY <1>1, <1>2 DEF UpdatesNext, UpdatesOver

-----------------------------------------------------------------------------
\* The invariant of tg_do_updates: what is behind each thread in its answer was
\* told and is kept, whatever the other threads have saved since.
THEOREM UpdatesInvariance == ASSUME UpdatesAssumption PROVE UpdatesSpec => []UpdatesInv
<1>1. UpdatesInit => UpdatesInv
  BY InitUpdates
<1>2. UpdatesInv /\ [UpdatesNext]_updatesVars => UpdatesInv'
  BY NextUpdates
<1> QED
  BY <1>1, <1>2, PTL DEF UpdatesSpec

\* Every update of an answer is announced once and in its order (tg_do_updates),
\* for any answers and however many threads receive them.
THEOREM UpdatesAreAnnounced == ASSUME UpdatesAssumption PROVE UpdatesSpec => []EveryUpdateIsAnnounced
<1>1. UpdatesInv => EveryUpdateIsAnnounced
  <2>1. SUFFICES ASSUME UpdatesInv, NEW t \in Threads, ans[t] # Null, ans[t].is \in Carriers
                 PROVE  \E n \in 0..Len(ans[t].updates) :
                           /\ AreTidingsOf(told[t], ans[t].updates, n)
                           /\ doing[t] = "idle" => n = Len(ans[t].updates)
    BY DEF EveryUpdateIsAnnounced
  <2>2. ThreadOK(t) /\ AnnouncedSoFar(t) /\ Carries(ans[t])
    BY <2>1 DEF UpdatesInv, ThreadInv, Carries
  <2>3. Len(ans[t].updates) \in Nat /\ next[t] \in Nat \ {0}
    <3>1. ans[t] \in Answers /\ next[t] \in Nat \ {0}
      BY <2>1, <2>2 DEF ThreadOK
    <3>2. IsList(ans[t].updates)
      BY <2>1, <3>1 DEF UpdatesAssumption
    <3> QED
      BY <3>1, <3>2, ListHas
  <2>4. CASE doing[t] \in {"users", "chats"}
    <3>1. told[t] = <<>>
      BY <2>2, <2>4 DEF ThreadOK
    <3>2. AreTidingsOf(told[t], ans[t].updates, 0)
      BY <3>1, NoTidings
    <3>3. 0 \in 0..Len(ans[t].updates)
      BY <2>3
    <3> QED
      BY <2>4, <3>2, <3>3
  <2>5. CASE doing[t] = "updates"
    <3>1. next[t] - 1 \in 0..Len(ans[t].updates)
      BY <2>2, <2>3, <2>5 DEF AnnouncedSoFar
    <3> QED
      BY <2>2, <2>5, <3>1 DEF AnnouncedSoFar
  <2>6. CASE doing[t] = "idle"
    <3>1. Len(ans[t].updates) \in 0..Len(ans[t].updates)
      BY <2>3
    <3> QED
      BY <2>2, <2>6, <3>1 DEF AnnouncedSoFar
  <2>7. CASE doing[t] = "crashed"
    BY <2>2, <2>7 DEF AnnouncedSoFar
  <2>8. doing[t] \notin {"message", "callback"}
    BY <2>1, <2>2 DEF ThreadOK, Shorts, Carriers
  <2> QED
    BY <2>2, <2>4, <2>5, <2>6, <2>7, <2>8 DEF ThreadOK
<1> QED
  BY <1>1, UpdatesInvariance, PTL

\* What the application is told is in the database by then, but for what a locked
\* database or an apostrophe keeps out of it (tg_do_updates, tg_user_save,
\* message_update), and a telling in full that was kept is not undone by one in part,
\* for any answers and threads.
THEOREM ToldIsKept == ASSUME UpdatesAssumption PROVE UpdatesSpec => []DatabaseIsCurrent
<1>1. UpdatesInv => DatabaseIsCurrent
  <2>1. SUFFICES ASSUME UpdatesInv
                 PROVE  DatabaseIsCurrent
    OBVIOUS
  <2>2. ASSUME busy = 0, NEW t \in Threads
        PROVE  /\ told[t] # <<>> /\ ans[t].is \in Carriers =>
                     UsersOf(ans[t]) \subseteq Found /\ ChatsOf(ans[t]) \subseteq chats
               /\ \A i \in DOMAIN told[t] :
                     IsShort(told[t][i]) /\ told[t][i].of.text \notin {Null, "quoted"} =>
                         told[t][i].of.id \in DOMAIN rows
                         /\ rows[told[t][i].of.id] = told[t][i].of.text
    <3>1. ThreadOK(t) /\ ToldIs(t) /\ UsersBehind(t) /\ ChatsBehind(t) /\ TextBehind(t)
      BY <2>1 DEF UpdatesInv, ThreadInv
    <3>2. CASE told[t] = <<>>
      BY <3>2, NoneIsList
    <3>3. CASE told[t] # <<>> /\ Carries(ans[t])
      <4>1. doing[t] \notin {"users", "chats"}
        BY <3>1, <3>3 DEF ThreadOK
      <4>2. IsList(ans[t].users) /\ IsList(ans[t].chats)
        BY <3>1, <3>3 DEF ThreadOK, Carries, UpdatesAssumption
      <4>3. DOMAIN ans[t].users = 1..Len(ans[t].users) /\ DOMAIN ans[t].chats = 1..Len(ans[t].chats)
        BY <4>2, ListHas
      <4>4. UsersOf(ans[t]) \subseteq Found
        BY <2>2, <3>1, <3>3, <4>1, <4>3 DEF UsersBehind, UsersOf, Entries, Range
      <4>5. ChatsOf(ans[t]) \subseteq chats
        BY <2>2, <3>1, <3>3, <4>1, <4>3 DEF ChatsBehind, ChatsOf, Entries, Range
      <4>6. \A i \in DOMAIN told[t] : ~IsShort(told[t][i])
        BY <3>1, <3>3 DEF ToldIs
      <4> QED
        BY <4>4, <4>5, <4>6
    <3>4. CASE told[t] # <<>> /\ ~Carries(ans[t])
      <4>1. ans[t] # Null /\ doing[t] = "idle" /\ ans[t].is \in Shorts
            /\ told[t] = <<ShortOf(ans[t])>>
        BY <3>1, <3>4 DEF ToldIs
      <4>2. \A i \in DOMAIN told[t] : told[t][i] = ShortOf(ans[t])
        BY <4>1
      <4>3. IsShort(ShortOf(ans[t])) =>
               /\ ans[t].is = "updateShortMessage"
               /\ ShortOf(ans[t]).of.id = ans[t].id /\ ShortOf(ans[t]).of.text = ans[t].text
        BY DEF IsShort, ShortOf, Tell, NumberOf
      <4>4. ans[t].is \notin Carriers
        BY <4>1 DEF Shorts, Carriers
      <4> QED
        BY <2>2, <3>1, <4>1, <4>2, <4>3, <4>4 DEF TextBehind
    <3> QED
      BY <3>2, <3>3, <3>4
  <2> QED
    BY <2>1, <2>2 DEF DatabaseIsCurrent, UpdatesInv, ContactsKept
<1> QED
  BY <1>1, UpdatesInvariance, PTL

-----------------------------------------------------------------------------
(* Lists that are asked for.                                               *)

\* How far the callback has come in the page, and what it is given of a dialog.
UpTo == IF ended THEN nth ELSE nth - 1
DialogOf(of) == MatchMessages(MatchPeers(Begun(of)))

\* What was shown is, in order, what can be shown of the page so far, each as it is.
ShownInv ==
    /\ nth \in Nat \ {0} /\ IsList(shown)
    /\ \A j, k \in DOMAIN shown : j < k => shown[j].of < shown[k].of
    /\ \A k \in DOMAIN shown : shown[k].of \in Nat /\ shown[k].of <= UpTo
    /\ IF page.is = "other" THEN shown = <<>> /\ stage # "show"
       ELSE /\ Given = {i \in Wanted : i <= UpTo}
            /\ stage = "shown" /\ ~ended => nth > Len(page.items)
    /\ call \in OfDialogs =>
          \A k \in DOMAIN shown : shown[k].as = DialogOf(page.items[shown[k].of])

\* Where the call is.
ListInv ==
    /\ call \in Calls /\ page \in Pages[call] /\ DOMAIN outcome = {Query}
    /\ stage \in {"ask", "asked", "page", "show", "shown", "returned", "crashed"}
    /\ ended \in BOOLEAN /\ (ended => stage \in {"shown", "returned"})
    /\ dones \in {0, 1} /\ (stage # "returned" => dones = 0)
    /\ stage \in {"page", "show", "shown"} /\ call # "tg_get_dialogs" =>
          outcome[Query] # "none"
    /\ dones = 1 => outcome[Query] # "none"
    /\ ShownInv

\* Some numbers that are bounded have a greatest one.
LEMMA GreatestOf ==
  ASSUME NEW S \in SUBSET Nat, S # {}, NEW n \in Nat, \A i \in S : i <= n
  PROVE  Max(S) \in S
<1> DEFINE T == {n - i : i \in S}
<1>2. T \in SUBSET Nat /\ T # {}
  <2>1. \A i \in S : n - i \in Nat
    OBVIOUS
  <2> QED
    BY <2>1
<1> DEFINE R == OpToRel(<, Nat)
<1>1. IsWellFoundedOn(R, Nat)
  BY NatLessThanWellFounded
<1>3. PICK x \in T : \A y \in T : ~(<<y, x>> \in R)
  <2> HIDE DEF R, T
  <2> QED
    BY <1>1, <1>2, WFMin
<1>4. PICK most \in S : x = n - most
  BY <1>3
<1>5. ASSUME NEW i \in S PROVE most >= i
  <2>1. n - i \in T /\ n - i \in Nat /\ x \in Nat
    BY <1>2
  <2>2. ~(n - i < x)
    BY <1>3, <2>1 DEF OpToRel
  <2>3. n \in Nat /\ i \in Nat /\ most \in Nat
    OBVIOUS
  <2> QED
    BY <1>4, <2>2, <2>3
<1> QED
  BY <1>5 DEF Max

\* The page of a dialog has lists.
PageOK ==
    /\ IsList(page.users) /\ IsList(page.chats) /\ IsList(page.messages)
    /\ \A x \in ToSet(page.users) \cup ToSet(page.chats) : x # Null => x.id # 0
    /\ Null \notin {"user", "chat", "channel"}

\* What is looked through is m users, and n chats after them.
ScannedIs(m, n) ==
    /\ Len(page.users) = m /\ DOMAIN page.users = 1..m /\ DOMAIN page.chats = 1..n
    /\ DOMAIN Scanned = 1..(m + n)
    /\ \A i \in 1..m : Scanned[i] = page.users[i]
    /\ \A i \in 1..n : Scanned[m + i] = page.chats[i]

LEMMA UsersAndChats ==
  ASSUME PageOK PROVE \E m \in Nat, n \in Nat : ScannedIs(m, n)
<1>1. PICK us, cs : us = page.users /\ cs = page.chats
  OBVIOUS
<1>2. /\ Len(us) \in Nat /\ DOMAIN us = 1..Len(us) /\ IsList(us)
      /\ Len(cs) \in Nat /\ DOMAIN cs = 1..Len(cs) /\ IsList(cs)
  <2>1. IsList(us) /\ IsList(cs)
    BY <1>1 DEF PageOK
  <2> QED
    BY <2>1, ListHas
<1>3. /\ IsList(us \o cs) /\ Len(us \o cs) = Len(us) + Len(cs)
      /\ \A i \in 1..Len(us) : (us \o cs)[i] = us[i]
      /\ \A i \in 1..Len(cs) : (us \o cs)[Len(us) + i] = cs[i]
  BY <1>2, JoinedLists
<1>4. DOMAIN (us \o cs) = 1..(Len(us) + Len(cs))
  BY <1>3, ListHas
<1>5. ScannedIs(Len(us), Len(cs))
  BY <1>1, <1>2, <1>3, <1>4 DEF Scanned, ScannedIs
<1> QED
  BY <1>2, <1>5

\* A candidate is a peer, and a peer is a candidate.
LEMMA CandidateIsPeer ==
  ASSUME NEW m \in Nat, NEW n \in Nat, ScannedIs(m, n), NEW i \in Candidates
  PROVE  i \in Nat /\ i <= m + n /\ Scanned[i] \in Peers
<1>1. i \in 1..(m + n) /\ Is(Scanned[i], IF i <= m THEN {"user"} ELSE {"chat", "channel"})
  BY DEF Candidates, ScannedIs
<1>2. CASE i <= m
  <2>1. i \in 1..m
    BY <1>1, <1>2
  <2>2. i \in DOMAIN page.users /\ Scanned[i] = page.users[i]
    BY <2>1 DEF ScannedIs
  <2> QED
    BY <1>1, <1>2, <2>2 DEF Peers, ToSet
<1>3. CASE ~(i <= m)
  <2>1. PICK j \in 1..n : i = m + j
    <3>1. i - m \in 1..n /\ i = m + (i - m)
      BY <1>1, <1>3
    <3> QED
      BY <3>1
  <2>2. j \in DOMAIN page.chats /\ Scanned[i] = page.chats[j]
    BY <2>1 DEF ScannedIs
  <2> QED
    BY <1>1, <1>3, <2>2 DEF Peers, ToSet
<1> QED
  BY <1>2, <1>3

LEMMA PeerIsCandidate ==
  ASSUME NEW m \in Nat, NEW n \in Nat, ScannedIs(m, n), NEW p \in Peers
  PROVE  \E i \in Candidates : Scanned[i] = p
<1>1. CASE p \in ToSet(page.users) /\ Is(p, {"user"})
  <2>1. PICK i \in 1..m : p = page.users[i]
    BY <1>1 DEF ToSet, ScannedIs
  <2>2. i \in DOMAIN Scanned /\ Scanned[i] = p /\ i <= Len(page.users)
    BY <2>1 DEF ScannedIs
  <2> QED
    BY <1>1, <2>2 DEF Candidates
<1>2. CASE p \in ToSet(page.chats) /\ Is(p, {"chat", "channel"})
  <2>1. PICK j \in 1..n : p = page.chats[j]
    BY <1>2 DEF ToSet, ScannedIs
  <2>2. PICK i \in 1..(m + n) : i = m + j /\ ~(i <= m)
    <3>1. m + j \in 1..(m + n) /\ ~(m + j <= m)
      OBVIOUS
    <3> QED
      BY <3>1
  <2>3. i \in DOMAIN Scanned /\ Scanned[i] = p /\ ~(i <= Len(page.users))
    BY <2>1, <2>2 DEF ScannedIs
  <2> QED
    BY <1>2, <2>3 DEF Candidates
<1> QED
  BY <1>1, <1>2 DEF Peers

\* A peer of a number is found if there is one.
LEMMA FoundIfThere ==
  ASSUME PageOK, NEW of
  PROVE  LET id == IF of.peer = Null THEN 0 ELSE of.peer.id
             found == {i \in Candidates : Scanned[i].id = id}
             hashed == {i \in found : Scanned[i].kind # "chat"}
         IN /\ found = {} <=> SameNumber(of.peer) = {}
            /\ found # {} => Max(found) \in found
            /\ hashed # {} => Max(hashed) \in hashed
            /\ \A i \in found : Scanned[i] \in SameNumber(of.peer)
<1> DEFINE id == IF of.peer = Null THEN 0 ELSE of.peer.id
           found == {i \in Candidates : Scanned[i].id = id}
           hashed == {i \in found : Scanned[i].kind # "chat"}
<1>0. PICK m \in Nat, n \in Nat : ScannedIs(m, n)
  BY UsersAndChats
<1>1. \A p \in Peers : p # Null /\ p.id # 0
  BY DEF Peers, PageOK, Is
<1>2. ASSUME NEW i \in found PROVE Scanned[i] \in SameNumber(of.peer)
  <2>1. Scanned[i] \in Peers /\ Scanned[i].id = id
    BY <1>0, CandidateIsPeer
  <2>2. of.peer # Null
    BY <1>1, <2>1
  <2> QED
    BY <2>1, <2>2 DEF SameNumber
<1>3. ASSUME NEW p \in SameNumber(of.peer) PROVE found # {}
  <2>1. of.peer # Null /\ p \in Peers /\ p.id = of.peer.id
    BY DEF SameNumber
  <2>2. PICK i \in Candidates : Scanned[i] = p
    BY <1>0, <2>1, PeerIsCandidate
  <2> QED
    BY <2>1, <2>2
<1>4. found \in SUBSET Nat /\ \A i \in found : i <= m + n
  BY <1>0, CandidateIsPeer
<1>5. m + n \in Nat
  OBVIOUS
<1>6. found # {} => Max(found) \in found
  <2> HIDE DEF found
  <2> QED
    BY <1>4, <1>5, GreatestOf
<1>7. hashed # {} => Max(hashed) \in hashed
  <2>1. hashed \in SUBSET Nat /\ \A i \in hashed : i <= m + n
    BY <1>4
  <2> HIDE DEF hashed, found
  <2> QED
    BY <1>5, <2>1, GreatestOf
<1> QED
  BY <1>2, <1>3, <1>6, <1>7

\* A dialog that is given to the callback, field by field.
Places(of) ==
    {i \in Candidates : Scanned[i].id = IF of.peer = Null THEN 0 ELSE of.peer.id}
Hashed(of) == {i \in Places(of) : Scanned[i].kind # "chat"}
Top(of) ==
    {i \in DOMAIN page.messages :
        /\ page.messages[i] # Null /\ page.messages[i].is = "message"
        /\ page.messages[i].id = of.top}
Labelled(of) == {i \in Top(of) : LabelOf(page.messages[i]) # Null}
Sent(of) == {i \in Top(of) : page.messages[i].from # Null}

LEMMA DialogFound ==
  ASSUME NEW of, Places(of) # {}
  PROVE  MatchPeers(Begun(of)) =
            [id |-> IF of.peer = Null THEN 0 ELSE of.peer.id,
             type |-> Scanned[Max(Places(of))].kind, name |-> Scanned[Max(Places(of))],
             hash |-> IF Hashed(of) = {} THEN Null ELSE Scanned[Max(Hashed(of))],
             top |-> of.top, text |-> Null, from |-> Null]
<1>1. Begun(of) = [id |-> IF of.peer = Null THEN 0 ELSE of.peer.id, type |-> Null,
                   name |-> Null, hash |-> Null, top |-> of.top, text |-> Null,
                   from |-> Null]
  <2>1. PICK id : id = IF of.peer = Null THEN 0 ELSE of.peer.id
    OBVIOUS
  <2>2. Begun(of) = [Blank EXCEPT !.id = id, !.top = of.top]
    BY <2>1 DEF Begun
  <2>3. Begun(of) = [id |-> id, type |-> Null, name |-> Null, hash |-> Null, top |-> of.top,
                     text |-> Null, from |-> Null]
    BY <2>2 DEF Blank
  <2> QED
    BY <2>1, <2>3
<1> DEFINE b == Begun(of)
<1>2. b.id = (IF of.peer = Null THEN 0 ELSE of.peer.id) /\ b.hash = Null
  BY <1>1
<1> HIDE DEF b
<1>3. Match(b) = Places(of)
  BY <1>2 DEF Match, Places
<1>4. MatchPeers(b) = [b EXCEPT !.type = Scanned[Max(Places(of))].kind,
                                !.name = Scanned[Max(Places(of))],
                                !.hash = IF Hashed(of) = {} THEN Null
                                         ELSE Scanned[Max(Hashed(of))]]
  <2>1. {i \in Match(b) : Scanned[i].kind # "chat"} = Hashed(of)
    BY <1>3 DEF Hashed
  <2> QED
    BY <1>2, <1>3, <2>1 DEF MatchPeers
<1>5. PICK id, last, hash :
         /\ id = IF of.peer = Null THEN 0 ELSE of.peer.id
         /\ last = Scanned[Max(Places(of))]
         /\ hash = IF Hashed(of) = {} THEN Null ELSE Scanned[Max(Hashed(of))]
  OBVIOUS
<1>6. b = [id |-> id, type |-> Null, name |-> Null, hash |-> Null, top |-> of.top,
           text |-> Null, from |-> Null]
  BY <1>1, <1>5 DEF b
<1>7. MatchPeers(b) = [b EXCEPT !.type = last.kind, !.name = last, !.hash = hash]
  BY <1>4, <1>5
<1>8. MatchPeers(b) = [id |-> id, type |-> last.kind, name |-> last, hash |-> hash,
                       top |-> of.top, text |-> Null, from |-> Null]
  BY <1>6, <1>7
<1> QED
  BY <1>5, <1>8 DEF b

LEMMA DialogMatched ==
  ASSUME NEW of, Places(of) # {}
  PROVE  DialogOf(of) =
            [id |-> IF of.peer = Null THEN 0 ELSE of.peer.id,
             type |-> Scanned[Max(Places(of))].kind, name |-> Scanned[Max(Places(of))],
             hash |-> IF Hashed(of) = {} THEN Null ELSE Scanned[Max(Hashed(of))],
             top |-> of.top,
             text |-> IF Labelled(of) = {} THEN Null
                      ELSE LabelOf(page.messages[Max(Labelled(of))]),
             from |-> IF Sent(of) = {} THEN Null ELSE page.messages[Max(Sent(of))].from]
<1> DEFINE f == MatchPeers(Begun(of))
<1>1. f = [id |-> IF of.peer = Null THEN 0 ELSE of.peer.id,
           type |-> Scanned[Max(Places(of))].kind, name |-> Scanned[Max(Places(of))],
           hash |-> IF Hashed(of) = {} THEN Null ELSE Scanned[Max(Hashed(of))],
           top |-> of.top, text |-> Null, from |-> Null]
  BY DialogFound
<1> HIDE DEF f
<1>2. f.top = of.top /\ f.text = Null /\ f.from = Null
  BY <1>1
<1>3. MatchMessage(f) = Top(of)
  BY <1>2 DEF MatchMessage, Top
<1>4. /\ {i \in MatchMessage(f) : LabelOf(page.messages[i]) # Null} = Labelled(of)
      /\ {i \in MatchMessage(f) : page.messages[i].from # Null} = Sent(of)
  BY <1>3 DEF Labelled, Sent
<1>5. MatchMessages(f) =
        [f EXCEPT !.text = IF Labelled(of) = {} THEN Null
                           ELSE LabelOf(page.messages[Max(Labelled(of))]),
                  !.from = IF Sent(of) = {} THEN Null
                           ELSE page.messages[Max(Sent(of))].from]
  BY <1>2, <1>4 DEF MatchMessages
<1>6. MatchMessages(f) = DialogOf(of)
  BY DEF DialogOf, f
<1> QED
  BY <1>1, <1>5, <1>6

\* The peer and the top message of a dialog, where it is the only one.
LEMMA DialogHasItsPeer ==
  ASSUME PageOK, NEW of, SameNumber(of.peer) = {of.peer}
  PROVE  /\ DialogOf(of).type = of.peer.kind /\ DialogOf(of).name = of.peer
         /\ DialogOf(of).hash = IF of.peer.kind = "chat" THEN Null ELSE of.peer
<1>1. /\ Places(of) # {} /\ Max(Places(of)) \in Places(of)
      /\ Hashed(of) # {} => Max(Hashed(of)) \in Hashed(of)
      /\ \A i \in Places(of) : Scanned[i] = of.peer
  <2>1. SameNumber(of.peer) # {}
    OBVIOUS
  <2> QED
    BY <2>1, FoundIfThere DEF Places, Hashed
<1>2. Hashed(of) = {} <=> of.peer.kind = "chat"
  BY <1>1 DEF Hashed
<1>3. Hashed(of) # {} => Scanned[Max(Hashed(of))] = of.peer
  BY <1>1 DEF Hashed
<1> QED
  BY <1>1, <1>2, <1>3, DialogMatched

LEMMA DialogHasItsMessage ==
  ASSUME PageOK, NEW of, Places(of) # {}
  PROVE  /\ TopMessages(of) = {} => DialogOf(of).text = Null /\ DialogOf(of).from = Null
         /\ \A m \in TopMessages(of) :
               TopMessages(of) = {m} =>
                   DialogOf(of).text = LabelOf(m) /\ DialogOf(of).from = m.from
<1>1. /\ \A i \in Top(of) : page.messages[i] \in TopMessages(of)
      /\ \A m \in TopMessages(of) : \E i \in Top(of) : page.messages[i] = m
  BY DEF Top, TopMessages, ToSet
<1>2. /\ Labelled(of) # {} => Max(Labelled(of)) \in Labelled(of)
      /\ Sent(of) # {} => Max(Sent(of)) \in Sent(of)
  <2>1. PICK ms : ms = page.messages
    OBVIOUS
  <2>2. Len(ms) \in Nat /\ DOMAIN ms = 1..Len(ms)
    <3>1. IsList(ms)
      BY <2>1 DEF PageOK
    <3> QED
      BY <3>1, ListHas
  <2>3. Top(of) \in SUBSET (1..Len(ms))
    BY <2>1, <2>2 DEF Top
  <2>4. ASSUME NEW S \in SUBSET Top(of), S # {} PROVE Max(S) \in S
    <3>1. S \in SUBSET Nat /\ \A i \in S : i <= Len(ms)
      BY <2>2, <2>3
    <3> QED
      BY <2>2, <2>4, <3>1, GreatestOf
  <2> QED
    BY <2>4 DEF Labelled, Sent
<1>3. /\ DialogOf(of).text = IF Labelled(of) = {} THEN Null
                             ELSE LabelOf(page.messages[Max(Labelled(of))])
      /\ DialogOf(of).from = IF Sent(of) = {} THEN Null ELSE page.messages[Max(Sent(of))].from
  BY DialogMatched
<1>4. ASSUME TopMessages(of) = {} PROVE DialogOf(of).text = Null /\ DialogOf(of).from = Null
  <2>1. Labelled(of) = {} /\ Sent(of) = {}
    BY <1>1, <1>4 DEF Labelled, Sent
  <2> QED
    BY <1>3, <2>1
<1>5. ASSUME NEW m \in TopMessages(of), TopMessages(of) = {m}
      PROVE  DialogOf(of).text = LabelOf(m) /\ DialogOf(of).from = m.from
  <2>1. \A i \in Top(of) : page.messages[i] = m
    BY <1>1, <1>5
  <2>2. PICK i \in Top(of) : page.messages[i] = m
    BY <1>1
  <2>3. DialogOf(of).text = LabelOf(m)
    <3>1. CASE Labelled(of) = {}
      BY <1>3, <2>2, <3>1 DEF Labelled
    <3>2. CASE Labelled(of) # {}
      BY <1>2, <1>3, <2>1, <3>2 DEF Labelled
    <3> QED
      BY <3>1, <3>2
  <2>4. DialogOf(of).from = m.from
    <3>1. CASE Sent(of) = {}
      BY <1>3, <2>2, <3>1 DEF Sent
    <3>2. CASE Sent(of) # {}
      BY <1>2, <1>3, <2>1, <3>2 DEF Sent
    <3> QED
      BY <3>1, <3>2
  <2> QED
    BY <2>3, <2>4
<1> QED
  BY <1>4, <1>5

\* The page of a dialog has lists, and what is found of a dialog can be shown.
LEMMA DialogPage ==
  ASSUME DialogsAssumption, call \in OfDialogs, page \in Pages[call], page.is # "other"
  PROVE  PageOK
<1>1. call \in Calls
  BY DEF Calls
<1> QED
  BY <1>1 DEF DialogsAssumption, PageOK

LEMMA FoundOrNot ==
  ASSUME PageOK, NEW of
  PROVE  /\ SameNumber(of.peer) # {} <=> Places(of) # {}
         /\ MatchPeers(Begun(of)).type # Null <=> Places(of) # {}
<1>1. /\ Places(of) = {} <=> SameNumber(of.peer) = {}
      /\ Places(of) # {} => Max(Places(of)) \in Places(of)
      /\ \A i \in Places(of) : Scanned[i] \in SameNumber(of.peer)
  BY FoundIfThere DEF Places
<1>2. CASE Places(of) # {}
  <2>1. Scanned[Max(Places(of))] \in Peers
    BY <1>1, <1>2 DEF SameNumber
  <2>2. Scanned[Max(Places(of))].kind \in {"user", "chat", "channel"}
    BY <2>1 DEF Peers, Is
  <2>3. MatchPeers(Begun(of)).type = Scanned[Max(Places(of))].kind
    BY <1>2, DialogFound
  <2> QED
    BY <1>1, <1>2, <2>2, <2>3 DEF PageOK
<1>3. CASE Places(of) = {}
  <2>1. Begun(of).id = (IF of.peer = Null THEN 0 ELSE of.peer.id) /\ Begun(of).type = Null
    <3>1. PICK id : id = IF of.peer = Null THEN 0 ELSE of.peer.id
      OBVIOUS
    <3>2. Begun(of) = [Blank EXCEPT !.id = id, !.top = of.top]
      BY <3>1 DEF Begun
    <3> QED
      BY <3>1, <3>2 DEF Blank
  <2>2. Match(Begun(of)) = Places(of)
    BY <2>1 DEF Match, Places
  <2>3. MatchPeers(Begun(of)) = Begun(of)
    BY <1>3, <2>2 DEF MatchPeers
  <2> QED
    BY <1>1, <1>3, <2>1, <2>3
<1> QED
  BY <1>2, <1>3

\* The next of a page is passed over, or given to the callback, or ends in a crash.
LEMMA NextOfPage ==
  ASSUME DialogsAssumption, ListInv, ShowNext
  PROVE  /\ stage = "show" /\ page.is # "other" /\ nth \in DOMAIN page.items
         /\ UNCHANGED <<call, outcome, page, dones>>
         /\ \/ Skip /\ nth \notin Wanted
            \/ Crash
            \/ \E x : /\ Callback(x) /\ nth \in Wanted
                      /\ call \in OfDialogs => x = DialogOf(page.items[nth])
<1>1. /\ stage = "show" /\ page.is # "other" /\ nth \in Nat \ {0} /\ nth <= Len(page.items)
      /\ UNCHANGED <<call, outcome, page, dones>>
      /\ call \in Calls /\ page \in Pages[call]
  BY DEF ShowNext, ListInv, ShownInv
<1>2. nth \in DOMAIN page.items
  <2>1. PICK items : items = page.items
    OBVIOUS
  <2>2. IsList(items)
    BY <1>1, <2>1 DEF DialogsAssumption
  <2>3. DOMAIN items = 1..Len(items) /\ Len(items) \in Nat
    BY <2>2, ListHas
  <2> QED
    BY <1>1, <2>1, <2>3
<1>3. nth \in Wanted <=> Showable(nth)
  BY <1>2 DEF Wanted
<1>4. CASE call \in OfDialogs
  <2>1. PageOK
    BY <1>1, <1>4, DialogPage
  <2>2. PICK of : of = page.items[nth]
    OBVIOUS
  <2>3. Showable(nth) <=> IsDialog(of) /\ Places(of) # {}
    <3>1. SameNumber(of.peer) # {} <=> Places(of) # {}
      BY <2>1, FoundOrNot
    <3>2. call # "tg_channel_search_global"
      BY <1>4 DEF OfDialogs
    <3>3. Showable(nth) <=> IsDialog(of) /\ SameNumber(of.peer) # {}
      BY <1>4, <2>2, <3>2 DEF Showable, IsDialog
    <3> QED
      BY <3>1, <3>3
  <2>4. MatchPeers(Begun(of)).type # Null <=> Places(of) # {}
    BY <2>1, FoundOrNot
  <2>5. ShowDialog
    <3>1. call \notin OfMessages /\ call # "tg_channel_search_global"
      BY <1>4 DEF OfDialogs, OfMessages
    <3> QED
      BY <1>4, <3>1 DEF ShowNext
  <2>6. CASE ~IsDialog(of)
    <3>1. Skip
      BY <2>2, <2>5, <2>6 DEF ShowDialog, Item
    <3> QED
      BY <1>1, <1>2, <1>3, <2>3, <2>6, <3>1
  <2>7. CASE IsDialog(of)
    <3>1. \/ /\ MatchPeers(Begun(of)).type # Null
             /\ d' = MatchMessages(MatchPeers(Begun(of))) /\ Callback(d')
          \/ Crash
          \/ MatchPeers(Begun(of)).type = Null /\ Skip
      BY <2>2, <2>5, <2>7 DEF ShowDialog, Item
    <3> QED
      BY <1>1, <1>2, <1>3, <2>2, <2>3, <2>4, <2>7, <3>1 DEF DialogOf
  <2> QED
    BY <2>6, <2>7
<1>5. CASE call \in OfMessages
  <2>1. call \notin OfDialogs /\ call # "tg_channel_search_global"
    BY <1>5 DEF OfMessages, OfDialogs
  <2>2. ShowMessage
    BY <1>5, <2>1 DEF ShowNext
  <2>3. \/ page.items[nth] = Null /\ Skip
        \/ page.items[nth] # Null /\ (Crash \/ \E x : Callback(x))
    BY <2>2 DEF ShowMessage, Item
  <2>4. Showable(nth) <=> page.items[nth] # Null
    BY <2>1 DEF Showable
  <2> QED
    BY <1>1, <1>2, <1>3, <2>1, <2>3, <2>4
<1>6. CASE call = "tg_channel_search_global"
  <2>1. call \notin OfDialogs /\ call \notin OfMessages
    BY <1>6 DEF OfMessages, OfDialogs
  <2>2. ShowChannel
    BY <1>6, <2>1 DEF ShowNext
  <2>3. Showable(nth) <=> page.items[nth] # Null /\ page.items[nth].kind = "channel"
    BY <1>6, <2>1 DEF Showable
  <2> QED
    BY <1>1, <1>2, <1>3, <2>1, <2>2, <2>3 DEF ShowChannel, Item
<1>7. CASE call = "tg_get_peer_colors"
  <2>1. call \notin OfDialogs /\ call \notin OfMessages /\ call # "tg_channel_search_global"
    BY <1>7 DEF OfMessages, OfDialogs
  <2>2. ShowColours
    BY <1>7, <2>1 DEF ShowNext
  <2>3. Showable(nth) <=> page.items[nth] # Null
    BY <2>1 DEF Showable
  <2>4. Crash \/ (page.items[nth] # Null /\ \E x : Callback(x))
    BY <2>2 DEF ShowColours, Item
  <2> QED
    BY <1>1, <1>2, <1>3, <2>1, <2>3, <2>4
<1> QED
  BY <1>1, <1>4, <1>5, <1>6, <1>7 DEF Calls

\* A list with one more.
LEMMA LongerList ==
  ASSUME NEW s, IsList(s), NEW x
  PROVE  /\ IsList(Append(s, x)) /\ DOMAIN Append(s, x) = 1..(Len(s) + 1) /\ Len(s) \in Nat
         /\ \A i \in 1..Len(s) : Append(s, x)[i] = s[i]
         /\ Append(s, x)[Len(s) + 1] = x
<1> DEFINE S == Range(s) \cup {x}
<1>1. s \in Seq(S)
  <2>1. s = [i \in 1..Len(s) |-> s[i]] /\ Len(s) \in Nat /\ \A i \in 1..Len(s) : s[i] \in S
    BY ListHas DEF IsList
  <2> HIDE DEF S
  <2> QED
    BY <2>1
<1>2. x \in S
  OBVIOUS
<1> HIDE DEF S
<1>3. /\ Append(s, x) \in Seq(S) /\ Len(Append(s, x)) = Len(s) + 1 /\ Len(s) \in Nat
      /\ \A i \in 1..Len(s) : Append(s, x)[i] = s[i]
      /\ Append(s, x)[Len(s) + 1] = x
  BY <1>1, <1>2
<1>4. DOMAIN Append(s, x) = 1..(Len(s) + 1)
  BY <1>3
<1>5. IsList(Append(s, x))
  <2>1. PICK r : r = Append(s, x)
    OBVIOUS
  <2>2. r \in Seq(S)
    BY <1>3, <2>1
  <2>3. r = [i \in 1..Len(r) |-> r[i]] /\ Len(r) \in Nat /\ DOMAIN r = 1..Len(r)
    BY <2>2
  <2>4. \A i \in 1..Len(r) : r[i] \in Range(r)
    BY <2>3 DEF Range
  <2>5. r \in Seq(Range(r))
    BY <2>3, <2>4
  <2> QED
    BY <2>1, <2>5 DEF IsList
<1> QED
  BY <1>3, <1>4, <1>5

\* What a page can show does not change while the page stays.
LEMMA PageStays ==
  ASSUME call' = call, page' = page
  PROVE  /\ Wanted' = Wanted /\ Peers' = Peers
         /\ \A of : DialogOf(of)' = DialogOf(of)
<1>1. Peers' = Peers
  BY DEF Peers
<1>2. \A p : SameNumber(p)' = SameNumber(p)
  BY <1>1 DEF SameNumber
<1>3. \A k : Showable(k)' = Showable(k)
  BY <1>2 DEF Showable
<1>4. Wanted' = Wanted
  BY <1>3 DEF Wanted
<1>5. Scanned' = Scanned /\ Candidates' = Candidates
  BY DEF Scanned, Candidates
<1>6. \A dialog : MatchPeers(dialog)' = MatchPeers(dialog)
  BY <1>5 DEF MatchPeers, Match
<1>7. \A dialog : MatchMessages(dialog)' = MatchMessages(dialog)
  BY DEF MatchMessages, MatchMessage
<1>8. \A of : DialogOf(of)' = DialogOf(of)
  BY <1>6, <1>7 DEF DialogOf
<1> QED
  BY <1>1, <1>4, <1>8

\* A step that shows nothing and stays where it is in the page.
LEMMA ShownStays ==
  ASSUME ShownInv, UNCHANGED <<call, page, nth, shown, ended>>,
         page.is = "other" => stage' # "show",
         page.is # "other" /\ stage' = "shown" /\ ~ended => nth > Len(page.items)
  PROVE  ShownInv'
<1>1. Wanted' = Wanted /\ Peers' = Peers /\ \A of : DialogOf(of)' = DialogOf(of)
  BY PageStays
<1>2. UpTo' = UpTo /\ Given' = Given
  BY DEF UpTo, Given
<1> QED
  BY <1>1, <1>2 DEF ShownInv

\* The next of the page is behind.
LEMMA ShowKeeps ==
  ASSUME DialogsAssumption, ListInv, ShowNext
  PROVE  ListInv'
<1>1. /\ stage = "show" /\ page.is # "other" /\ nth \in DOMAIN page.items
      /\ UNCHANGED <<call, outcome, page, dones>>
      /\ \/ Skip /\ nth \notin Wanted
         \/ Crash
         \/ \E x : /\ Callback(x) /\ nth \in Wanted
                   /\ call \in OfDialogs => x = DialogOf(page.items[nth])
  BY NextOfPage
<1>2. /\ Wanted' = Wanted /\ Peers' = Peers /\ \A of : DialogOf(of)' = DialogOf(of)
  BY <1>1, PageStays
<1>3. ListInv /\ ShownInv /\ ended = FALSE /\ nth \in Nat \ {0} /\ UpTo = nth - 1
  BY <1>1 DEF ListInv, ShownInv, UpTo
<1>4. Wanted \subseteq Nat
  <2>1. PICK items : items = page.items
    OBVIOUS
  <2>2. IsList(items)
    BY <1>1, <2>1 DEF DialogsAssumption, ListInv
  <2>3. DOMAIN items \subseteq Nat
    BY <2>2, ListHas
  <2> QED
    BY <2>1, <2>3 DEF Wanted
<1>5. CASE Crash
  <2>1. ShownInv'
    BY <1>1, <1>3, <1>5, ShownStays DEF Crash
  <2> QED
    BY <1>1, <1>2, <1>3, <1>5, <2>1 DEF Crash, ListInv
<1>6. CASE Skip /\ nth \notin Wanted
  <2>1. /\ nth' = nth + 1 /\ UNCHANGED <<stage, shown, ended>>
        /\ UpTo' = nth /\ Given' = Given
    BY <1>3, <1>6 DEF Skip, UpTo, Given
  <2>2. Given' = {i \in Wanted' : i <= UpTo'}
    <3>1. Given = {i \in Wanted : i <= nth - 1}
      BY <1>1, <1>3 DEF ShownInv
    <3>2. \A i \in Wanted : i <= nth <=> i <= nth - 1
      BY <1>3, <1>4, <1>6
    <3> QED
      BY <1>2, <2>1, <3>1, <3>2
  <2>3. \A k \in DOMAIN shown : shown[k].of \in Nat /\ shown[k].of <= nth
    BY <1>3 DEF ShownInv
  <2>4. ShownInv'
    BY <1>1, <1>2, <1>3, <2>1, <2>2, <2>3 DEF ShownInv
  <2> QED
    BY <1>1, <1>2, <1>3, <2>1, <2>4 DEF ListInv
<1>7. ASSUME NEW x, Callback(x), nth \in Wanted, call \in OfDialogs => x = DialogOf(page.items[nth])
      PROVE  ListInv'
  <2>1. /\ shown' = Append(shown, [of |-> nth, as |-> x])
        /\ stage' \in {"show", "shown"} /\ ended' \in BOOLEAN /\ (ended' <=> stage' = "shown")
        /\ UpTo' = nth /\ nth' \in Nat \ {0}
    <3>1. \/ nth' = nth + 1 /\ stage' = "show" /\ ended' = FALSE
          \/ nth' = nth /\ stage' = "shown" /\ ended' = TRUE
      BY <1>1, <1>3, <1>7 DEF Callback
    <3>2. nth + 1 \in Nat \ {0} /\ (nth + 1) - 1 = nth
      BY <1>3
    <3>3. shown' = Append(shown, [of |-> nth, as |-> x])
      BY <1>7 DEF Callback, Show
    <3>4. UpTo' = nth
      BY <3>1, <3>2 DEF UpTo
    <3> QED
      BY <1>3, <3>1, <3>2, <3>3, <3>4
  <2>2. PICK n \in Nat : n = Len(shown) /\ DOMAIN shown = 1..n
    BY <1>3, ListHas DEF ShownInv
  <2>3. /\ IsList(shown') /\ DOMAIN shown' = 1..(n + 1)
        /\ \A k \in 1..n : shown'[k] = shown[k]
        /\ shown'[n + 1].of = nth /\ shown'[n + 1].as = x
    <3>1. PICK last : last = [of |-> nth, as |-> x]
      OBVIOUS
    <3>2. IsList(shown)
      BY <1>3 DEF ShownInv
    <3>3. PICK s : s = shown
      OBVIOUS
    <3>4. /\ IsList(Append(s, last)) /\ DOMAIN Append(s, last) = 1..(n + 1)
          /\ \A k \in 1..n : Append(s, last)[k] = s[k]
          /\ Append(s, last)[n + 1] = last
      BY <2>2, <3>2, <3>3, LongerList
    <3> QED
      BY <2>1, <3>1, <3>3, <3>4
  <2>4. \A k \in 1..n : shown[k].of \in Nat /\ shown[k].of <= nth - 1
    BY <1>3, <2>2 DEF ShownInv
  <2>5. \A k \in DOMAIN shown' : k \in 1..n \/ k = n + 1
    BY <2>3
  <2>6. \A k \in DOMAIN shown' : shown'[k].of \in Nat /\ shown'[k].of <= UpTo'
    BY <1>3, <2>1, <2>3, <2>4, <2>5
  <2>7. \A j, k \in DOMAIN shown' : j < k => shown'[j].of < shown'[k].of
    <3>1. ASSUME NEW j \in DOMAIN shown', NEW k \in DOMAIN shown', j < k
          PROVE  shown'[j].of < shown'[k].of
      <4>1. j \in 1..n
        BY <2>3, <2>5, <3>1
      <4>2. CASE k \in 1..n
        BY <1>3, <2>2, <2>3, <3>1, <4>1, <4>2 DEF ShownInv
      <4>3. CASE k = n + 1
        BY <1>3, <2>3, <2>4, <4>1, <4>3
      <4> QED
        BY <2>5, <4>2, <4>3
    <3> QED
      BY <3>1
  <2>8. Given' = {i \in Wanted' : i <= UpTo'}
    <3>1. Given = {i \in Wanted : i <= nth - 1}
      BY <1>1, <1>3 DEF ShownInv
    <3>2. \A i \in Wanted : i <= nth <=> i <= nth - 1 \/ i = nth
      BY <1>3, <1>4
    <3>3. Given' = Given \cup {nth}
      <4>1. Given' = {shown'[k].of : k \in 1..(n + 1)}
        BY <2>3 DEF Given
      <4>2. Given = {shown[k].of : k \in 1..n}
        BY <2>2 DEF Given
      <4>3. \A k : k \in 1..(n + 1) <=> k \in 1..n \/ k = n + 1
        OBVIOUS
      <4> QED
        BY <2>3, <4>1, <4>2, <4>3
    <3> QED
      BY <1>2, <1>3, <1>7, <2>1, <3>1, <3>2, <3>3
  <2>9. ASSUME call' \in OfDialogs, NEW k \in DOMAIN shown'
        PROVE  shown'[k].as = DialogOf(page.items[shown[k].of])'
    <3>1. PICK of : of = page'.items[shown'[k].of]
      OBVIOUS
    <3>2. shown'[k].as = DialogOf(of)
      <4>1. CASE k \in 1..n
        BY <1>1, <1>3, <2>2, <2>3, <2>9, <3>1, <4>1 DEF ShownInv
      <4>2. CASE k = n + 1
        BY <1>1, <1>7, <2>3, <2>9, <3>1, <4>2
      <4> QED
        BY <2>5, <4>1, <4>2
    <3>3. DialogOf(of)' = DialogOf(of)
      BY <1>2
    <3> QED
      BY <3>1, <3>2, <3>3
  <2>10. ShownInv'
    BY <1>1, <2>1, <2>3, <2>6, <2>7, <2>8, <2>9 DEF ShownInv
  <2> QED
    BY <1>1, <1>2, <1>3, <2>1, <2>10 DEF ListInv
<1> QED
  BY <1>1, <1>5, <1>6, <1>7

LEMMA InitList == ASSUME DialogsAssumption, DialogsInit PROVE ListInv
<1>1. /\ call \in Calls /\ page \in Pages[call] /\ stage = "ask" /\ nth = 1 /\ shown = <<>>
      /\ ended = FALSE /\ dones = 0 /\ outcome = [x \in {Query} |-> "none"]
  BY DEF DialogsInit, QS!ServiceInit
<1>2. UpTo = 0 /\ Given = {} /\ IsList(shown) /\ DOMAIN shown = {}
  BY <1>1, NoneIsList DEF UpTo, Given
<1>3. page.is # "other" => {i \in Wanted : i <= 0} = {}
  <2>1. ASSUME page.is # "other", NEW i \in Wanted PROVE i \in Nat \ {0}
    <3>1. PICK items : items = page.items
      OBVIOUS
    <3>2. IsList(items)
      BY <1>1, <2>1, <3>1 DEF DialogsAssumption
    <3> QED
      BY <2>1, <3>1, <3>2, ListHas DEF Wanted
  <2> QED
    BY <2>1
<1>4. ShownInv
  BY <1>1, <1>2, <1>3 DEF ShownInv
<1>5. DOMAIN outcome = {Query}
  BY <1>1
<1>6. shown = <<>> /\ stage = "ask" /\ dones = 0 /\ ended = FALSE
  BY <1>1
<1>7. call \in Calls /\ page \in Pages[call]
  BY <1>1
<1>8. ended \in BOOLEAN
  BY <1>6
<1>9. /\ dones \in {0, 1} /\ dones # 1
      /\ stage \in {"ask", "asked", "page", "show", "shown", "returned", "crashed"}
      /\ stage \notin {"page", "show", "shown"}
  BY <1>6
<1> QED
  BY <1>4, <1>5, <1>6, <1>7, <1>8, <1>9 DEF ListInv

LEMMA NextList ==
  ASSUME DialogsAssumption, ListInv, [DialogsNext]_dialogsVars
  PROVE  ListInv'
<1>0. ListInv /\ ShownInv /\ call \in Calls /\ page \in Pages[call]
  BY DEF ListInv
<1>1. ASSUME UNCHANGED <<call, page, nth, shown, ended>>,
             DOMAIN outcome' = {Query},
             outcome[Query] # "none" => outcome'[Query] # "none",
             stage' \in {"ask", "asked", "page", "show", "shown", "returned", "crashed"},
             ended => stage' \in {"shown", "returned"},
             stage' = "show" => stage = "show",
             page.is # "other" /\ stage' = "shown" /\ ~ended => nth > Len(page.items),
             dones' \in {0, 1}, stage' # "returned" => dones' = 0,
             stage' \in {"page", "show", "shown"} /\ call # "tg_get_dialogs" =>
                 outcome'[Query] # "none",
             dones' = 1 => outcome'[Query] # "none"
      PROVE  ListInv'
  <2>1. page.is = "other" => stage' # "show"
    BY <1>0, <1>1 DEF ShownInv
  <2>2. ShownInv'
    BY <1>0, <1>1, <2>1, ShownStays
  <2> QED
    BY <1>0, <1>1, <2>2 DEF ListInv
<1>2. ASSUME UNCHANGED dialogsVars PROVE ListInv'
  BY <1>0, <1>1, <1>2 DEF dialogsVars, ListInv, ShownInv
<1>3. ASSUME Ask PROVE ListInv'
  <2>1. /\ stage = "ask" /\ UNCHANGED <<call, page, nth, shown, ended, dones, outcome>>
        /\ stage' = "asked" \/ (call = "tg_get_dialogs" /\ stage' \in {"page", "returned"})
    BY <1>3 DEF Ask, Asks, tg_get_dialogs, tg_get_dialogs_async, tg_messages_get_history,
                tg_messages_get_history_async, tg_get_messages, tg_get_channel_messages,
                tg_channel_search_global, tg_get_peer_colors, listVars, QS!Submit, QS!Refuse
  <2> QED
    BY <1>0, <1>1, <2>1 DEF ListInv
<1>4. ASSUME Underway \/ NoAnswer PROVE ListInv'
  <2>1. /\ stage = "asked" /\ UNCHANGED <<call, page, nth, shown, ended, dones, outcome>>
        /\ stage' \in {"asked", "returned"}
    BY <1>4 DEF Underway, NoAnswer, listVars, QS!Serve, QS!Claim, QS!Withdraw
  <2> QED
    BY <1>0, <1>1, <2>1 DEF ListInv
<1>5. ASSUME Answered \/ AnsweredNull PROVE ListInv'
  <2>1. /\ stage = "asked" /\ UNCHANGED <<call, page, nth, shown, ended>>
        /\ DOMAIN outcome' = {Query} /\ outcome'[Query] \in {"answer", "null"}
        /\ \/ stage' = "page" /\ dones' = dones
           \/ stage' = "returned" /\ dones' \in {dones, dones + 1}
           \/ stage' = "crashed" /\ dones' = dones
    BY <1>0, <1>5 DEF Answered, AnsweredNull, listVars, QS!Complete, ListInv
  <2>2. dones = 0 /\ ended = FALSE
    BY <1>0, <2>1 DEF ListInv
  <2> QED
    BY <1>0, <1>1, <2>1, <2>2
<1>6. ASSUME Page PROVE ListInv'
  <2>1. /\ stage = "page" /\ UNCHANGED <<call, page, nth, shown, ended, dones, outcome>>
        /\ \/ page.is = "other" /\ stage' = "shown"
           \/ page.is # "other" /\ stage' = "show"
    BY <1>6 DEF Page, listVars
  <2>2. ShownInv'
    BY <1>0, <2>1, ShownStays DEF ShownInv
  <2> QED
    BY <1>0, <2>1, <2>2 DEF ListInv
<1>7. ASSUME PageEnds PROVE ListInv'
  <2>1. /\ stage = "show" /\ stage' = "shown" /\ nth > Len(page.items)
        /\ UNCHANGED <<call, page, nth, shown, ended, dones, outcome>>
    BY <1>7 DEF PageEnds, listVars
  <2> QED
    BY <1>0, <1>1, <2>1 DEF ListInv
<1>8. ASSUME Return PROVE ListInv'
  <2>1. /\ stage = "shown" /\ stage' = "returned" /\ dones = 0
        /\ UNCHANGED <<call, page, nth, shown, ended, outcome>>
        /\ dones' = IF call \in Async THEN dones + 1 ELSE dones
    BY <1>0, <1>8 DEF Return, listVars, ListInv
  <2>2. dones' \in {0, 1} /\ (dones' = 1 => call # "tg_get_dialogs")
    BY <2>1 DEF Async
  <2>3. dones' = 1 => outcome[Query] # "none"
    BY <1>0, <2>1, <2>2 DEF ListInv
  <2> QED
    BY <1>0, <1>1, <2>1, <2>2, <2>3 DEF ListInv
<1> QED
  BY <1>2, <1>3, <1>4, <1>5, <1>6, <1>7, <1>8, ShowKeeps DEF DialogsNext, DialogsDone

\* ListInv is an invariant of the lists that are asked for: the callback has come so
\* far in the page, and on_done is not called before.
THEOREM DialogsInvariance == ASSUME DialogsAssumption PROVE DialogsSpec => []ListInv
<1>1. DialogsInit => ListInv
  BY InitList
<1>2. ListInv /\ [DialogsNext]_dialogsVars => ListInv'
  BY NextList
<1> QED
  BY <1>1, <1>2, PTL DEF DialogsSpec

\* The callback is given each of a page that can be shown once and in order, up to
\* the one where it ends the list (tg_dialogs_from_tl, parse_msgs), and on_done is
\* called at most once and last, for any pages.
THEOREM ListsAreGivenOnce == ASSUME DialogsAssumption PROVE DialogsSpec => []EachIsGivenOnce
<1>1. ListInv => EachIsGivenOnce
  <2> SUFFICES ASSUME ListInv PROVE EachIsGivenOnce
    OBVIOUS
  <2>1. ListInv /\ ShownInv
    BY DEF ListInv
  <2>2. ASSUME page.is # "other"
        PROVE  /\ Given \subseteq Wanted
               /\ \A given \in Given, i \in Wanted : i < given => i \in Given
               /\ stage = "shown" /\ ~ended => Given = Wanted
    <3>1. Given = {i \in Wanted : i <= UpTo} /\ nth \in Nat \ {0}
      BY <2>1, <2>2 DEF ShownInv
    <3>2. PICK m \in Nat : DOMAIN page.items = 1..m /\ Len(page.items) = m
      <4>1. PICK items : items = page.items
        OBVIOUS
      <4>2. IsList(items)
        BY <2>1, <2>2, <4>1 DEF DialogsAssumption, ListInv
      <4> QED
        BY <4>1, <4>2, ListHas
    <3>3. Wanted \subseteq 1..m
      BY <3>2 DEF Wanted
    <3>4. UpTo \in Int
      BY <3>1 DEF UpTo
    <3>5. \A given \in Given, i \in Wanted : i < given => i \in Given
      BY <3>1, <3>3, <3>4
    <3>6. ASSUME stage = "shown", ~ended PROVE Given = Wanted
      <4>1. nth > m /\ UpTo = nth - 1
        BY <2>1, <2>2, <3>2, <3>6 DEF ShownInv, UpTo
      <4>2. \A i \in 1..m : i <= nth - 1
        BY <3>1, <4>1
      <4> QED
        BY <3>1, <3>3, <4>1, <4>2
    <3> QED
      BY <3>1, <3>5, <3>6
  <2>3. dones <= 1
    BY <2>1 DEF ListInv
  <2> QED
    BY <2>1, <2>2, <2>3 DEF EachIsGivenOnce, ListInv, ShownInv
<1> QED
  BY <1>1, DialogsInvariance, PTL

\* A dialog has the type, name, access hash, text and sender of its own peer and top
\* message, whatever dialogs come before it.
THEOREM DialogsAreTheirPeers ==
  ASSUME DialogsAssumption PROVE DialogsSpec => []DialogIsItsPeer
<1>1. ListInv => DialogIsItsPeer
  <2> SUFFICES ASSUME ListInv, call \in OfDialogs, NEW k \in DOMAIN shown
               PROVE  LET of == page.items[shown[k].of]  as == shown[k].as
                      IN /\ SameNumber(of.peer) = {of.peer} =>
                              /\ as.type = of.peer.kind /\ as.name = of.peer
                              /\ as.hash = IF of.peer.kind = "chat" THEN Null ELSE of.peer
                         /\ TopMessages(of) = {} => as.text = Null /\ as.from = Null
                         /\ \A m \in TopMessages(of) :
                              TopMessages(of) = {m} /\ m.peer = of.peer =>
                                  as.text = LabelOf(m) /\ as.from = m.from
    BY DEF DialogIsItsPeer
  <2>1. ListInv /\ ShownInv
    BY DEF ListInv
  <2>2. page.is # "other"
    BY <2>1 DEF ShownInv
  <2>3. PageOK
    BY <2>1, <2>2, DialogPage DEF ListInv
  <2>4. PICK of : of = page.items[shown[k].of]
    OBVIOUS
  <2>5. shown[k].as = DialogOf(of)
    BY <2>1, <2>4 DEF ShownInv
  <2>6. Showable(shown[k].of)
    BY <2>1, <2>2 DEF ShownInv, Given, Wanted
  <2>7. SameNumber(of.peer) # {}
    BY <2>4, <2>6 DEF Showable, OfDialogs
  <2>8. Places(of) # {}
    BY <2>3, <2>7, FoundOrNot
  <2> QED
    BY <2>3, <2>4, <2>5, <2>8, DialogHasItsPeer, DialogHasItsMessage
<1> QED
  BY <1>1, DialogsInvariance, PTL
=============================================================================
