# A TLA+ verification of libtg

libtg is a Telegram client library in C.  This directory holds TLA+ models of
its concurrent core (queries, threads, mutexes, the session), of what comes before
the first query (key exchange, layers and lengths, factorization, database, signing
in) and of what is done with answers (files, updates, lists), the TLC
configurations that check them on small instances, and proofs, checked by TLAPS,
that hold for every value of the constants.

## 1. Inventory

### Components, their state and their operations

| component | source | state | operations |
|---|---|---|---|
| queue manager | `tg/queue.c`, `tg/list.h` | the list `tg->queue` under `queuem`; in each object `msgid`, `loop`, `on_done`, under `queue->m` | `tg_send_query_async`, `tg_send_query_sync`, one thread per query, `tg_queue_cancell_all`, `tg_queue_cancell_queue` |
| MTProto session | `tg/header.c`, `tg/ack.c`, `tg/encrypt.c`, `tg/prepare_query.c` | `key`, `ssid`, `salt`, `seqn` (under `seqnm`), `msgids` (`msgidsm`), `todrop` (`todropm`) | `tg_header`, `tg_deheader`, `tg_ack`, `tg_to_drop`, `tg_add_msgid`, `tg_add_todrop`, `tg_new_session` |
| synchronous exchange | `tg/send_query.c`, `tg/answer.c`, `tg/net.c` | the mutex `send_query`, one socket per call | `tg_send_query`, `tg_parse_answer` |
| authorization and connection | `tg/auth.c`, `tg/connect.c`, `tg/tg.c` | `tg->ip`, `tg->key`, the tables of addresses and keys | `tg_new`, `tg_connect`, `tg_is_authorized`, `tg_auth_sendCode`, `tg_auth_signIn` |
| database | `tg/database.c`, the tables of `tg/chat.c`, `channel.c`, `user.c`, `dialogs.c`, `messages.c` | SQLite tables keyed by account number, `databasem` | `*_to_database`, `*_from_database`, `*_save`, `*_get`, `*_create_table` |
| file transfer | `tg/files.c` | offset, part number, number of retries, all that was read | `tg_document_send`, `tg_get_file_with_progress` |
| updates | `tg/updates.c` | `on_update`, the tables users, chats, channels, messages | `tg_do_updates`, `tg_do_update`, `message_update` |
| key exchange | `mtx/src/*` | the process-wide `shared_rc` and `t` (`sil.c`) | `api.app.open`, `srl_init`, `srl_auth`, `stk_drive` |
| TL codec and layers | `tl/*`, `mtx/src/sel.c`, `hdl.c`, `enl.c`, `tg/header.c`, `tg/encrypt.c`, `tg/transport.c` | sizes | `serialize_*`, `deserialize_*`, a wrapping and an unwrapping function of each layer, twice |
| factorization | `mtx/src/fact.cpp` | a map of factors | `factorize` and the methods it tries |
| dialogs, messages, channels, colours | `tg/dialogs.c`, `tg/messages.c`, `tg/channel.c`, `tg/peer.c` | the dialog at hand, the tables | `tg_get_dialogs`, `tg_messages_get_history`, `tg_channel_search_global`, ... |

How they interact: every request of the upper components goes through the queue
manager (dialogs also use the synchronous exchange).  A query thread calls the
session to wrap its request, reads its own socket, and hands what it reads to the
session (acknowledgements), to updates, or to the query named in an rpc_result,
whose callback it runs in its own thread.  The database is called from those
callbacks.  A thread that finds no key runs the key exchange, which leaves its
result in `shared_rc`.

### What is hard

* **Interleaving.**  A query belongs to its thread, to any thread that reads its
  answer, and to any thread that cancels it.  Two kinds of mutex guard it, and
  `loop` is read without either.
* **Check, then act.**  Key, session id and salt are tested without a mutex and
  made with one.  A packet is built in many steps from shared counters.
* **Time.**  Message ids come from a clock whose readings may be equal, and a list of
  queries is searched by them.
* **Failure.**  Sockets fail at each step; what a packet took along (pending
  acknowledgements, answers to drop) is gone, and a callback that frees data
  is not called.
* **Retry.**  bad_server_salt sends a query again, with a new message id, while
  answers to the old id may still come.
* **Crash.**  Token, key and address are saved one after the other, each by several
  statements that are committed one by one.
* **Process-wide state.**  `shared_rc` and `t` are used under two different mutexes,
  and keep what an earlier handshake has left in them.
* **Boundaries.**  Strings of 253 and 254 bytes, paddings to 4 and to 16, a file of
  no size, of a multiple of a part, or longer than an `int`.
* **Parts that cannot be read.**  An object that does not deserialize is NULL, in
  the middle of a list too; some of the code tests for that and some does not.

### What makes each component correct

* queue manager: a callback runs at most once, with the answer to its own query;
  the list never names freed memory; no lock is waited for in a circle; answers
  that are read are delivered; threads that are done end.  Two queries that got the
  same id are the exception to what rests on ids.
* session: what has arrived is acknowledged once; unwanted answers are dropped
  once; sequence numbers are used once while the counter is not set back; a container
  is no earlier than what is in it; a query is known by the id its answer will name.
* synchronous exchange: one exchange at a time; every path releases the mutex;
  an answer belongs to the request.
* authorization: a key that is saved is known at the address that is saved; who
  has signed in is not asked again.
* database: what a save named is read; of another account's values only those are seen
  that no save has named since.
* key exchange: a key is used only if the server has agreed to it.
* codec and layers: a field is read where it was written; a layer takes off what it
  put on.
* factorization: the product of the factors is `pq`, and they are prime.
* transfer: the server has the parts a message counts, and they are what was read of the
  file; what is fetched is a beginning of the file.
* updates: each is announced once and in order, and a read finds what the
  application is told of.
* lists: each entry is given once, with what belongs to it, and `on_done` is the last
  that is heard of a call.

`PROJECT.json` lists the hazards one by one, each with its line, and the
properties that cover it.

## 2. Modules

| module | models | 
|---|---|
| `QueryService` | abstract: what a caller of `tg_send_query_async` is promised |
| `QueueManager` | `tg/queue.c`: threads, list, mutexes, callbacks; refines `QueryService` |
| `QueueManager_proofs` | the theorems about it |
| `MCQueueManager` | small instances of it |
| `Session` | `tg/header.c`, `tg/ack.c` and how `tg_send` makes a key and a session id |
| `Session_proofs` | the theorems about it |
| `MCSession` | small instances of it |
| `SendQuery` | `tg/send_query.c`, `tg/answer.c`, `tg/net.c`: concurrent synchronous calls |
| `SendQuery_proofs` | the theorems about it |
| `MCSendQuery` | small instances of it |
| `KeyExchange` | `mtx/src/srl.c`, `scl.c`, `sil.c`, `stk.c`, `net.c` and its callers: handshakes at the same time |
| `Wire` | `mtx/src/sel.c`, `sil.c`, `hdl.c`, `enl.c`, `tl/serialize.c`, `tl/deserialize.c`, `tg/header.c`, `tg/encrypt.c`, `tg/transport.c`: lengths |
| `Wire_proofs` | the theorems about it |
| `Factor` | `mtx/src/fact.cpp` |
| `Factor_proofs` | the theorems about it |
| `Store` | `tg/database.c` and the tables of the other files |
| `Store_proofs` | the theorems about it |
| `Connect` | `tg/tg.c`, `tg/connect.c`, `tg/auth.c`: signing in, crashes and restarts |
| `Startup_proofs` | the theorems about `Connect` and `KeyExchange` |
| `MCStartup` | small instances of `KeyExchange`, `Factor`, `Store` and `Connect`, one at a time |
| `Common` | `Null`, lists and rows under a number, for the next three |
| `Files` | `tg/files.c` |
| `Updates` | `tg/updates.c`, and what of users and chats is saved |
| `Dialogs` | lists of dialogs, messages, channels and colours; uses `QueryService` |
| `Content_proofs` | the theorems about `Files`, `Updates` and `Dialogs` |
| `MCContent` | small instances of these three and of `Wire`, one at a time |

### QueryService

A query is `idle`, `pending`, `claimed` or `over`.  It is submitted once; it can be
claimed only when the server was sent its request; a claimed query is completed
with one outcome, an object or NULL; a pending one may be withdrawn, and then no
callback runs.  A request serves a set of queries: those its id was given to, which is
one unless the clock gave an id twice.  There are no threads, mutexes or ids.

### QueueManager

A query object and the thread that runs it share one name; `pc[q] = "gone"` means
that the object is freed and the thread has ended.

| state | code |
|---|---|
| `listed` | the entries of `tg->queue` |
| `queuem`, `m[q]` | the holders of `tg->queuem` and `queue->m` |
| `loop[q]`, `msgid[q]` | `queue->loop`, `queue->msgid` |
| `target[t]` | the object a thread got from `list_cut` and is working on |
| `inbox[q]` | the items of a received message that `handle_tl` has still to visit |
| `callbacks[q]` | history: the calls of `queue->on_done` |
| `key`, `usedKey[q]` | which key is current, and which one the last request used |
| `clock` | what `tg_get_current_time` gives; `Ticks` is how far it may move between two ids: 0 for a clock that stands still |
| `sent` | history: the requests handed to `send()` |
| `stamped` | history: the ids the clock gave, each with its query |

| actions | code |
|---|---|
| `New`, `OpenFails`, `Register` | `tg_queue_new`, the start of `tg_run_queue` |
| `CheckKey`, `CreateKey`, `Prepare`, `Transmit`, `TransmitFails` | `tg_send` |
| `LoopTest` | `while (queue->loop)` |
| `Receive`, `ReceiveBadSalt`, `ReceiveFails`, `PeerCloses` | `_tg_receive`: RTL_RQ, RTL_RS, RTL_ER/RTL_EX, and end of stream |
| `HandleDone`, `HandleNotice` | `handle_tl` on what leaves the queries alone |
| `CatchMiss`, `Catch`, `LockQueue`, `RunCallback`, `StopLoop`, `UnlockQueue` | `catched_tl`, one action per stretch between two mutex operations or shared writes |
| `Exit` | the end of `tg_run_queue`: `list_cut`, `free` |
| `CancelAll`, `CancelQueue`, `CancelMiss` | the cancelling calls |

A critical section of `queuem` in which nothing blocks is one action, guarded by
`queuem = Nobody`; only the section in which `queue->m` is locked is held over
steps (label `lockm`).  What arrives (`Arrivals`) is anything the server can say
about requests it was sent under the key the connection's request used: any
answer, any number of times, on any connection, with answers to withdrawn
requests and to earlier ids of a request included.  Sequences of items stand for
containers (nested ones are flattened, as `handle_tl` visits them) and for
`gzip_packed`.

Two queries with one id (`Shared`) are possible, since two readings of the clock may be
equal: `tg_get_current_time` (`header.c:26`) multiplies a double, whose steps are some
238 ns at today's dates, and takes no lock.  `list_cut` then finds either of them: an
answer goes to the other query, and a thread that ends takes the other's entry out and
leaves its own, freed, in the list.  The steps on freed memory that follow are modelled as
if the object were still there; what else may then be in that memory is not followed.

Left out: the failure of `pthread_mutex_lock` and of allocation; the closing of
sockets (no property speaks of them); the salt (a refusal may come at any time);
`on_done == NULL`; a message that deserializes to NULL at `queue.c:441`; the
callers blocked in `pthread_join`.  Between the reset of `queue->msgid` to 0 in
`tg_header` and its new value no answer finds the query, which is what the single
step `Prepare` gives, for the new id is not known to the server before `Transmit`.

### Session

Threads build packets concurrently.  A packet under construction is a `draft`: the
parts still to stamp, the messages stamped so far, session id and key.

| actions | code |
|---|---|
| `CheckKey`, `CreateKey`, `ResetSeqn`, `CheckSession`, `CreateSession` | `tg_send` before `tg_prepare_query` |
| `TakeAcks` | `tg_ack` |
| `StampId`, `StampSeqno` | the two halves of `tg_mtp_message`, and of the head in `tg_header` |
| `TakeDrops` | `tg_to_drop`; `todropm` is released by the last `StampSeqno` |
| `BeginHead`, `Encrypt` | the rest of `tg_header`; `tg_encrypt` |
| `Send`, `SendFails` | `send()` |
| `Arrive`, `GiveUp`, `NewSession` | `tg_add_msgid`, `tg_add_todrop`, `tg_new_session` |

Arrivals and unwanted answers are numbers, so that each can be followed into the
packet that mentions it.  A handshake writes the key (`queue.c:496`) and later the counter
(`queue.c:501`), both under `queuem`; `CreateKey` and `ResetSeqn` are two steps, since those
who stamp take `seqnm` only and come between them: `setback` is the history that says that
a counter was made smaller so.  The clock may stand still between two ids of one thread or of two,
up to `MaxClock`, but is taken not to be set back.  Left out: salt, padding and ciphers; the time difference,
which `ntp_time_diff` always reports as 0; that a session id that does not match is
only logged.  The key is read once in `Encrypt`, where the code reads `tg->key`
several times.  The seqno critical section is one step.

### SendQuery

Callers run `tg_send_query_via_with_progress` at the same time, once each.

| state | code |
|---|---|
| `holder` | the holder of `tg->send_query` |
| `owner[f]` | descriptor `f` is open, and who opened it |
| `socket[c]`, `fdset[c]` | the locals `socket` and `fdset` |
| `key` | counts the values of `tg->key`, 0 while it is empty |
| `asked[c]`, `lastId` | `msg_id`; history: the last id any request was sent with |
| `returned[c]` | what the call returned |

| actions | code |
|---|---|
| `Open`, `OpenFails`, `Lock` | the part before the mutex, `tg_net_open` |
| `CheckKey`, `CreateKey`, `Send`, `SendFails` | `tg_send` |
| `CheckSet`, `ReportClosed`, `ReceiveFails` | `tg_receive` and its early returns |
| `ReceiveBadSalt`, `ReceiveAgain`, `ReceiveObject` | `tg_parse_answer` and what follows it |

A descriptor is the lowest free number, as POSIX has it, so that a number closed by
one caller may be the next one's.  A message is a single item or a container;
`Answering` and `Outcome` are what `tg_parse_answer` makes of it: the object of the
last item that names the request, or else the whole message.  Anything may arrive on
any connection: results of other calls, of requests refused before, notices, updates,
objects without a request.

Left out: acknowledgements (in `Session`: `Arrive`) and the effect of updates; a
handshake that fails or finds no descriptor; `tg_prepare_query` failing, which it
cannot for a query that is not empty; `gzip_packed` at the top level, which reads an
uninitialised pointer (`answer.c:121`); a rpc_result whose result does not
deserialize, which is dereferenced; the failure of `pthread_mutex_lock`.

### KeyExchange

Clients run the handshake (`api.app.open`, `srl_auth`) when they find no key: those
of `tg/queue.c` test before they lock `queuem`, those of `tg/send_query.c` test
inside `send_query` (the constants `TestFirst` and `Guard`).  `rc` is `shared_rc`,
`sockfd` its connection, `t` the structure of `sil.c` in which whatever is
understood stays; `m[c]` is the caller's copy of it.  Each request is answered by
the server on the connection it was sent on, with what the handshake expects or
with something else.  A handshake is `sound` when no other one overlapped with it
and each answer was what it was waiting for.  Nonces stand for all that is
derived from them; `new_nonce`, of which `buf` gives 32 zero bytes twice, is what
makes the answer readable; a key with a leading zero byte is too short, in one
handshake of 256.  Left out: the RSA encryption, the proof of work, time-outs of
the socket (a failed read ends the process, as it does in the code).

### Wire

One message goes through all layers of one of the two stacks (`api` for the
handshake, `tg` for queries), and what is tracked is lengths: of each field when it is
written (`sel_serialize`, `serialize_bytes`) and when it is read (`sil_concrete` or
`deserialize_*`), of the heads and the paddings each layer adds and takes off.
`Message` operators are the constructors and methods of `mtx/src/tgt.c`, with the lengths
of their strings as parameters.

### Factor

| state | code |
|---|---|
| `todo` | the calls of `factorize` that are still to be made, in the place of its recursion |
| `result` | the map of factors, with repetitions |
| `search` | the method that looks for a divisor, and the variables of its loop |
| `by` | history: the method that found the last divisor |
| `ended` | whether `factor` has returned, or has divided by zero |

Each number is one (`One`), prime (`Prime`), divided by its least divisor
(`DivideTrivially`) or given to the methods (`Split`), in the order the code tries
them: one turn of the loop of `pollard_monte_carlo`, `pollard_rho`, the search for a base of
`pollard_p_1` or `ferma` is one step, and the last one either returns a divisor (`Returns`) or
begins the next method (`GoesOn`).  `pollard_bent` is one step, since its inner loop never
runs.  What the loops without a choice compute (`powmod`, `gcd`, `jacobi`, the largest power
of a prime) are recursive functions.  `Rem` and `Quotient` are C++'s, which round to zero;
`rand()` is one of a few values.  The integers have no width.  In the code they are `long long`s, whose products go through
`mulmod` or are less than 2^63, but for one: `cur` of `pollard_monte_carlo` may overflow when `pq` is
above 2^63 / 97.  That only changes the exponent that is tried; the proofs use no more of it than
that it is a natural number.

### Store

A save is a script: calls of `tg_sqlite3_exec`, each a list of statements; each
statement is an action, and the database may be locked at each by another account's
statement, whose process may end at any time.  A statement fails when a column exists
already or is missing, when an apostrophe ends its text early (the text `"quoted"`
stands for one that has an apostrophe), or when it is not
SQL (`UPDATE TABLE`).  Each kind of table has its script; a row has an account, a key, and
three columns that tell which save wrote them: a number, which every save names; a text,
which stands for the texts of the table, named by an UPDATE only when there is one
(`chat.c:167`, `user.c:170`); and what a `min` user leaves alone (`user.c:177`), here
`contact`.  Every SELECT names all columns, so that one that is missing makes the read
fail.  Reads take no lock and are operators of the state.  Left out: the other columns,
each of which is treated like one of these three.

### Connect

| state | code |
|---|---|
| `at[a]` | where in `tg_connect` the account is |
| `tg[a]` | `tg->ip`, `tg->key` |
| `ips`, `keys` | the two tables |
| `signed` | the server: which keys are signed in |
| `welcomed`, `spoiled` | history: who has signed in, and whose saved data were lost or taken |

The actions are the stretches of `tg_connect` between two queries or two saves, and
`Stop`, after which the account starts again from what was saved.  `SaveIp` gives every
row to the account that saves, as the UPDATE without WHERE does; `Store` has its
statements.  Left out: the token, which is never read; the password, which the code
asks for and does not use.

### Files

Units of a file are numbers, so that a part tells where it belongs.  Uploading:
`ReadPart` (`fread`), `ReadFails` (a read error: fewer units or none, which is taken for the end,
`files.c:380`), `PartSaved`, `PartLost` (no answer or not boolTrue: again), for a big file
`PartGarbled` and `PartCrashes` (the request is freed before it is sent, `files.c:401`: what is
sent is nothing to the server, or a part whose content is another), `Progress`, `Cancel`,
`SendMedia`.  Downloading: `Loop`, `GetPart`, `GetPartFails`, `PartCallback`.  `Grow` is
another program that appends to the file.  The histories `starts` and `mishaps` say where each
part that was read begins, and whether the file has grown, was cut by a read error, or a part was
garbled.  The server's side is external.  `IntMax`
is the largest `int`: the size of a larger file comes out negative, or, from 4 GiB
on, as a smaller number; `FilesAssumption` leaves the latter out, since what is then sent is
the beginning of the file only.

### Updates

Several threads each hand an answer to `tg_do_updates`: users, chats, then each
update; a short message is saved and then announced.  `Null` is what could not be
read; `crashed` is a NULL that is used.  `told[t]` is what `on_update` was called
with.  A user's row has whether the user is a contact, and whether an UPDATE has named the
account (`mine`), without which `tg_user_get` (`user.c:244`) does not find it: an apostrophe in the
name stops the UPDATE after the INSERT, and a locked database may, too.  `contact` is a history: what
a user was when last told in full, and whether that could be kept.  A chat or a channel is there
or not, under its kind and number.  An update that comes alone and could not be read is
used for the log only (`updates.c:32`), whose arguments are evaluated if the application has
set one: the process ends there, or nothing happens.  Not followed: the access hash and the other
columns, which `Store` has.
`UpdatesAssumption` says what the server and the generated reader give: lists are
lists, `updateShort` brings no users and no chats, a message has one text however often it is told,
and the number of no short message of a user is the constructor number `Ctor`, under
which short messages of chats are saved.

### Dialogs

A call asks (one action per function), waits as `QueryService` promises, and then shows
the page, one entry at a time (`ShowNext`), until it ends or the callback ends it.
`MatchPeers` and `MatchMessages` are the inner loops of `tg_dialogs_from_tl`; `ShowMessage` is
`parse_msgs`; `TextOf` is what `tg_message_from_tl` and `tg_message_from_tl_service`
make of a text.  The users, chats and dialogs of a page are saved on the way; these saves are
not here, since nobody looks at their result: `Updates` has them, and what becomes of them when the
database is locked.  A dialog without a peer is used for the log only (`dialogs.c:261`): it ends
the process or is passed over.  A `dialogFolder` without a folder ends it (`dialogs.c:133`).  Left
out: the marks that a `dialogFolder` takes over from the dialog before it, since `dialog` is never
cleared (`dialogs.c:116`).  `DialogsAssumption`: lists are lists, and the server gives no user and no chat the
number 0, which is that of a dialog whose peer could not be read.

## 3. Runs

| run | bounds | result |
|---|---|---|
| `QueueSafety` | 2 queries, 1 canceller, containers of 2 items, 2 requests, a key, a clock that may stand still | 4.1 million states; six invariants and the refinement hold |
| `QueueLiveness` | 2 queries, 1 canceller, no key at first, single items, no refused salt | three liveness properties hold |
| `QueueCallback` | 2 queries | `CallbackRunsOnDone` is violated |
| `QueueFree` | 2 queries | `LockedQueueIsAlive` is violated |
| `QueueResend` | 2 queries, 1 canceller | `StoppedIsNotSentAgain` is violated |
| `SessionSafety` | 2 senders, no key at first, 2 packets, 2 arrivals, 1 drop, 2 session ids, 2 ticks of the clock | 0.8 million states; six invariants and a liveness property hold |
| `SessionAcks` | 2 senders, 1 arrival | `ArrivalsAreAcknowledged` is violated |
| `SessionSeqno` | 2 senders, no key at first | `SeqnosAreUnique` is violated |
| `SendQuerySafety` | 3 callers, no key at first, 3 descriptors, containers of 2 items, refused salts up to 3 requests | 98,684 states; four invariants and a liveness property hold |
| `SendQueryClosed` | 2 callers, no key at first | `ReportedSocketIsClosed` is violated |
| `Startup` | 3 handshakes (2 of queries, 1 synchronous); 17 numbers of up to 16 bits, 3 random numbers, trial division up to 31, a turn of `pollard_rho`, 3 calls that wait; 2 accounts, 1 key, 2 saves each (with a text, without, with an apostrophe, of a min user), 2 faults, 15 tables; 2 accounts that sign in, 2 data centres, 2 starts each, 2 errors, 4 keys | 1.4 million states; nine invariants and an action property hold |
| `Content` | messages with strings of 0 to 15 and 250 to 257 bytes; files of 0 to 10 units in parts of 2 and 4, big above 4, too long for an `int` above 9, 2 losses or failed reads; 2 threads and 3 answers out of 18, 1 locked save; lists of up to 4 entries with every kind of unreadable part | 0.3 million states; eight invariants hold |

**Why the bounds are enough.**  The hazards of the queue manager involve at most
three actors: the owner of a query, a thread that read its answer (the owner of
another query) and a canceller.  Containers of two items let one message answer
two queries, or one query twice.  `MaxSends` bounds only refused salts, and lets one
query be sent again under a new id while the answer to the old one arrives.  In
`QueueSafety` the clock moves by one or not at all (`CoarseClock`), so that both queries, and both
requests of one, may get one id; the other runs, whose properties ids have no part in, have a clock that moves
at each id (`FineClock`).  That
the proofs hold for every value of the constants confirms the choice.  In the session
two builders suffice for every overlap, and two arrivals for one packet with and
one without a container, or a container of two; the drop makes the longest packet.
Only one key is made after a second thread found none, which is all two first
queries can do.  The synchronous exchange has three callers, for one inside the
mutex, one that takes the descriptor closed for the handshake, and one more that
waits; with three descriptors `socket()` also fails for want of one.  Symmetry is used in `QueueSafety` only, which has no liveness
property.  In `Startup`, two accounts and two data centres
are what it takes to have one account's key at another's address; a second save is one that finds
the columns there; two faults are a lost statement and a crash.  The numbers
to factorize include a prime, a square and a cube, products of two and of three primes that are
small or near to each other, pseudoprimes of base 2 (2047, 3277, 4033, 4681) and of the
test of Lucas (5777, 10877); the smaller limit of trial division and a single turn of `pollard_rho`
make every method be reached and fail.
In `Content`, parts of 2 and 4 units in files of 0 to 10 are none, one, a whole number of
and some more parts, on both sides of the limits.  The lengths of strings
cover each remainder of 4 and of 16 on both sides of the one-byte head.
`Startup` and `Content` check their modules one at a time: each behaviour is
of one of them and leaves the variables of the others as they are.  `MCStartup` extends
`Connect`, `Factor`, `KeyExchange` and `Store`, and `MCContent` extends `Wire`, `Files`,
`Updates` and `Dialogs`, so that the runs check the very definitions that are proved.
The types of the variables of `Connect`, `KeyExchange` and `Wire` are part of invariants that
are proved, and no run repeats them.
Deadlock is checked in these two runs, whose modules have a step `Done` for the ends they
mean, and not in the others, whose models stop when every query has ended or
the bounds are reached.

**Properties of the queue manager.**  `AtMostOneCallback`, `AnswersReachTheAsker`,
`ListedAreAlive`, `ListedAreUnlocked` and `NestedLockIsSafe` are the promises of
section 1.  What they say of ids has an exception where the clock gave one id to two queries
(`Shared`): then an answer may go to the other query, and a freed one may stay in the list and be
locked there.  That a callback runs once, that no listed query is locked, and that nobody waits while
holding `queuem` has none.  `ImplementsQueryService` adds that no callback runs for a query that was
withdrawn or that no request has served.  `AnswersAreDelivered`: an answer in hand reaches its query,
unless the query leaves the list or is sent again.  `AnsweredThreadEnds` and
`StoppedThreadEndsOrWaits`: a thread that answered its own query ends; one that was
told to stop by another ends, or stays for ever in `recv`.  The second alternative
is real: nothing wakes the thread up, and its caller stays in `pthread_join`.

**Properties of the session.**  `EachAckIsTakenOnce` and `EachDropIsTakenOnce` relate
the lists and the packets built; `AnswersNameTheQuery`, `ContainersCloseLast` and
`SeqnosAreUniqueUnlessSetBack` are about what the server sees: ids need not be unique, and a handshake
that makes the counter smaller after others have stamped with it is the one thing that repeats
a sequence number, under the first key too, when a thread stamps between `queue.c:496`
and `:501`;
`PacketsAreFinished` says that no sender waits for a mutex in vain.

**Properties of the synchronous exchange.**  `SocketsAreNotShared`: the number a
caller uses is that of its own open socket, although sockets are opened outside the
mutex and closed inside.  `KeyIsMadeOnce`: one key is made, unlike in the queue
manager.  `ResultsAreOwn`: a result that is returned is that of the call's last
request.  It does not say that a call returns its result: a container without it, or
`new_session_created`, is returned in its place, which the model shows as `Other`.
`EveryCallReturns`: a caller that waits for the mutex returns, or stays behind one
that reads its socket for ever (`recv` has no time limit, and loops at end of stream).

**Properties of the start.**  `KeyIsAgreed`: a key that came out of a handshake nothing
disturbed is one the server has, whatever earlier handshakes have left in the
process-wide state.  It claims nothing of overlapping handshakes, whose keys may be mixed.
`ProductIsKept`, `FoundArePrime`, `CrashIsBents`:
nothing is lost or made up until `pollard_bent` hands on a negative divisor, which is
the only way to a division by zero.  `SavedIsRead`, `ReadsItsOwn`, `NullIsTorn`: what a save that answers 0 has saved is
read, in each column it named, until somebody saves the same row, unless the text column, which a
save without a text does not miss, was never made; what an account reads is all of one
save of its own, but for the columns this save did not name, in which another account's
values may be left; the address that ends `tg_new` (a NULL that `strcpy` reads) is only there between INSERT and UPDATE or
after a fault.  `KeyFitsAddress`, `AskedOnlyWhenNeeded`: saved key and
address fit but for the cases their definition names, and who has signed in is
asked again for one of those reasons only.

**Properties of what follows.**  `ReadsWhereWritten`, `PeeledIsWrapped`: writer and
reader agree on every position, and each stack takes off what it put on.
`UploadIsWhole` relates the message, the parts the
server has, what was read and the file: every part is there and in its place, but freed memory in place
of one of a big file, and all of the file was read, unless it grew or a read failed, which
nobody notices.  `DownloadIsPrefix` relates what the callback was given and the file.
`EveryUpdateIsAnnounced` and `DatabaseIsCurrent` relate an answer, what the application
was told and the tables, with two threads at once; the latter excepts saves that were lost to a locked
database or to an apostrophe, but a full telling that was kept is not undone by one in part in any case.  `DialogIsItsPeer`: type, name, access hash, text and sender of a dialog are
its own, if numbers are not shared between kinds of peers.  `EachIsGivenOnce`: completeness and
order up to where the callback ends the list, and `on_done`, which is never called for a query without an answer.

**Disagreements found** (`PROJECT.json`, "findings").  `libtg.h:51` promises a callback
on done, and none runs when the socket fails.  The object of a query may be freed by its
thread while another one, which `queue.c:756` has in mind, still works on it under
its mutex.  A query that was stopped is sent again after a refused salt.
Acknowledgements are lost with a failed `send()`.  Two first queries make two keys,
and a sequence number is used twice under the second.  A synchronous call that made
the key may find its new socket missing from the `fd_set` and report an open socket
as closed.

**Fairness.**  `QueueManager` assumes strong fairness of what a query thread does by
itself, and weak fairness of the steps on a query taken from the list; `Session`
assumes strong fairness of building a packet; `SendQuery` assumes weak fairness of
what a call does by itself and strong fairness of locking the mutex.  Each thread is a POSIX thread that the
system schedules; strong fairness is needed where it locks a mutex others lock again
and again, and says that such a thread is not passed over for ever.  POSIX does not
promise that, but it is what the code relies on, and critical sections are short.
Nothing is assumed of the network, the server, the application, or the cancellers:
a socket may stay silent for ever, and `recv` has no time limit.  The other modules
state no fairness: their loops (a part that is sent again for ever, a download
that never ends) are unbounded in the code, and nothing there promises an end.

## 4. Proofs

`QueueManager_proofs` proves, for every set of queries and cancelling threads and
every bound, and for every clock, one that stands still or goes back too:

| theorem | statement |
|---|---|
| `Invariance` | `Spec => []IInv` |
| `TypeCorrect` | `Spec => []TypeOK` |
| `CallbacksRunOnce` | `Spec => []AtMostOneCallback` |
| `AnswersAreTheAskers` | `Spec => []AnswersReachTheAsker` |
| `ListIsSound` | `Spec => []ListedAreAlive` |
| `AlwaysUnlocked` | `Spec => []ListedAreUnlocked` |
| `NestedLocking` | `Spec => []NestedLockIsSafe` |
| `Refinement` | `Spec => ImplementsQueryService` |

**The clock.**  Nothing is assumed of `Ticks` but that they are integers, since the code does
not ensure that two ids differ.  So `AnswersReachTheAsker`, `ListedAreAlive` and `NestedLockIsSafe`
each say what holds of a query whose id is its own, and what is left when it is not.

**The argument.**  None of the properties is inductive: that a callback runs at most
once depends on who holds a query that is not in the list, and this on the mutexes.
`IInv` adds

* `ListInv`: a listed query is registered and unanswered, and nobody works on it;
* `LockInv`: which mutex is held at which label;
* `ClaimInv`: at most one thread works on a query, it was registered, and it is
  unanswered until its callback runs;
* `AskInv`: the answer in hand names a request of the query it has found, or an id that two
  queries share;
* `FreedInv`: a freed query is in the list, or about to be locked, only if it shares its id;
* `IdInv`: the ids in use, in the objects and at the server, were given to those who use them, after
  they registered;
* `InboxInv`: what is being handled came from the server, or has an id that is no
  request's;
* `CallbackInv`: a query that is not registered has no callback.

`list_cut` under `queuem` moves a query from `ListInv` to `ClaimInv`, which is why it
is claimed once, whatever its id.  By `IdInv` the query found under the id of an answer was
given that id, and so was the one that asked: they are the same or share it, which is `AskInv`.
In the same way `Exit` removes the owner's own entry or one that shares its id, which is
`FreedInv`; that an id is shared once is for ever, because `stamped` only grows.  For the refinement, `LockQueue`
and the like are stuttering steps, `Catch` is `Claim`, `RunCallback` is
`Complete`, `CancelAll`, `CancelQueue` and `Exit` are `Withdraw`, and `Transmit` is `Serve` of all
queries the id was given to; `Prepare` stutters too, unless it gives an id that the server was sent
already, which is `Serve` of that query.

`SendQuery_proofs` proves, for every set of callers and every bound, under
`SendQueryAssumption` alone (the bounds are naturals, `Nobody` is no caller):

| theorem | statement |
|---|---|
| `Invariance` | `Spec => []IInv` |
| `TypeCorrect` | `Spec => []TypeOK` |
| `SocketsAreOwn` | `Spec => []SocketsAreNotShared` |
| `OneKey` | `Spec => []KeyIsMadeOnce` |
| `ResultsBelong` | `Spec => []ResultsAreOwn` |

There `IInv` adds to `TypeOK` and `SocketsAreNotShared`

* `KeyInv`: a caller about to make a key holds the mutex and there is none, for which
  the test under the mutex is needed;
* `AskedInv`: ids are distinct and not above the last one;
* `ReturnInv`: a call that returned stays so, with the result of its request.

`ReceivedItems` is the lemma about `tg_parse_answer`: whatever the message, an item
taken for a result has the id of the request.  It is about one level of container, as
the model has it.

`Session_proofs` proves, for every set of senders and every bound, under
`SessionAssumption` alone:

| theorem | statement |
|---|---|
| `Invariance` | `Spec => []IInv` |
| `TypeCorrect` | `Spec => []TypeOK` |
| `AcksAreTakenOnce` | `Spec => []EachAckIsTakenOnce` |
| `DropsAreTakenOnce` | `Spec => []EachDropIsTakenOnce` |
| `AnswersNamed` | `Spec => []AnswersNameTheQuery` |
| `ContainersClose` | `Spec => []ContainersCloseLast` |
| `SeqnosUnique` | `Spec => []SeqnosAreUniqueUnlessSetBack` |

There `IInv` adds to `TypeOK`

* `ShapeInv`: which parts a packet has at which label, the query first and the
  container last;
* `OrderInv`: no id is ahead of the clock, the last message of a packet has an id no other
  one in it is later than, and the one in hand is no earlier;
* `SeqnoInv`, while the counter was not set back: the numbers of a packet rise, each is below the
  counter, or is the counter's and of a message nobody acknowledges, and no two content-related messages
  share one;
* `AckInv`, `DropInv`: each number waits or is in exactly one packet.

`AckInv` and `DropInv` are stronger than the two properties in that they give the place:
`TakeAcks` and `TakeDrops` move all that waits into one draft, `StampSeqno` moves a part
to the messages of the same draft (`DraftedKept`), and `Send` or `SendFails` a draft to what is
built (`DraftedSend`).  Nothing rests on ids being
distinct: an answer names the query's own message because the packet's `msgid` is that message's
id (`ShapeInv`).

`Startup_proofs` proves, for any accounts, data centres and bounds, under
`ConnectAssumption`:

| theorem | statement |
|---|---|
| `ConnectInvariance` | `ConnectSpec => []ConnectInv` |
| `SavedKeyFits` | `ConnectSpec => []KeyFitsAddress` |
| `AskedWithReason` | `ConnectSpec => AskedOnlyWhenNeeded` |

`ConnectInv` adds to `ConnectTypeOK` where a key can be: a key in `tg` that was made in this process is
one of the address in `tg`, from `sendCode` on; the key at `savekey` and `saveip` is
that of the address that will be saved; and who was `welcomed` and not `spoiled` has a
saved key that is signed in and known at the saved address, which is what the next
start reads.

It also proves, for any threads that shake hands and any mutexes, under `KeyExchangeAssumption`:

| theorem | statement |
|---|---|
| `ExchangeInvariance` | `ExchangeSpec => []ExchangeInv` |
| `TypeCorrect` | `ExchangeSpec => []ExchangeTypeOK` |
| `KeyAgreed` | `ExchangeSpec => []KeyIsAgreed` |

`ExchangeInv` has `OpenInv` (nothing is read from a connection before it is opened, and a
handshake under way has one) and `SoundInv`: while a handshake is sound it is the only
one under way, the connection is its own, at most one answer is there to be read, and
the nonces it has kept are those of one handshake of the server.  That is why what an earlier handshake left in
`t` is overwritten each time before it is used.

`Wire_proofs` proves, for any set of messages with fields of any lengths, under
`WireAssumption`:

| theorem | statement |
|---|---|
| `Invariance` | `WireSpec => []IInv` |
| `TypeCorrect` | `WireSpec => []WireTypeOK` |
| `FieldsAreFound` | `WireSpec => []ReadsWhereWritten` |
| `LayersComeOff` | `WireSpec => []PeeledIsWrapped` |

The lemmas are about padding: that it is less than the block, that two ways to compute
it agree (`SamePadding`), and that a field that was written with a head of one or of four bytes
is skipped by both readers exactly (`TlSkipsWhatIsWritten`, `SilSkipsMultiplesOfFour`).
`IInv` says at each step how the size relates to the length of the message.

`Store_proofs` proves, for any accounts and keys, any of the tables, and any number of saves
and faults, under `StoreAssumption` (`Null` is none of the other values):

| theorem | statement |
|---|---|
| `StoreInvariant` | `StoreSpec => []StoreInv` |
| `StoreTypeCorrect` | `StoreSpec => []StoreTypeOK` |
| `ReadsWhatWasSaved` | `StoreSpec => []SavedIsRead` |
| `AccountsReadTheirOwn` | `StoreSpec => []ReadsItsOwn` |
| `NullsAreTorn` | `StoreSpec => []NullIsTorn` |

`StoreInv` adds to `StoreTypeOK`

* `Valid`: each account is at a statement its script has, with a key its table has (it is
  what makes `Statement` defined);
* `RowsOwn`: a number is in the row of the account that wrote it, with all else that save
  named, which is what `UPDATE ... SET id = ...` ensures when it takes a row over;
* `Columns`: the columns a save writes to are there when it comes to them, while nothing
  failed; each script adds them in an earlier call;
* `Found`: an UPDATE has a row to change, since nobody deletes rows between it and the
  INSERT before it;
* `SavedRow`: what was saved is in every row the read selects, in each column the save named, and
  nobody is saving the like: a save forgets what was saved of its row when it begins;
* `Torn`: a row without an address is in the making, by a save between its two statements.

`ScriptShape`, `OtherScripts` and `CreateShape` say of the scripts what the rest relies on; each of these parts
has a lemma that a statement, a locked database, a new save and a crash keep it.  The
reads choose the first or the last of the rows that are selected; `RowOfPlaces` says that
there is one, from the well-foundedness of the naturals.

`Content_proofs` proves, for files of any length below 4 GiB and parts of any size
(`FilesAssumption`), for any threads and answers (`UpdatesAssumption`) and for any pages
(`DialogsAssumption`):

| theorem | statement |
|---|---|
| `Invariance` | `FilesSpec => []FetchInv` |
| `DownloadsArePrefixes` | `FilesSpec => []DownloadIsPrefix` |
| `UploadInvariance` | `FilesSpec => []UploadInv` |
| `UploadsAreWhole` | `FilesSpec => []UploadIsWhole` |
| `UpdatesInvariance` | `UpdatesSpec => []UpdatesInv` |
| `UpdatesAreAnnounced` | `UpdatesSpec => []EveryUpdateIsAnnounced` |
| `ToldIsKept` | `UpdatesSpec => []DatabaseIsCurrent` |
| `DialogsInvariance` | `DialogsSpec => []ListInv` |
| `ListsAreGivenOnce` | `DialogsSpec => []EachIsGivenOnce` |
| `DialogsAreTheirPeers` | `DialogsSpec => []DialogIsItsPeer` |

`FetchInv` says that `offset` is the length of what was given, and that the part at hand
follows it; `PartFollows` is the lemma about sequences.  `UploadInv` says that the parts before
`part` are on the server, each with what was read for it or, of a big file, with freed memory
(`HasParts`), and how these lie in what was read (`InPlace`): one behind the other, and in steps
of `PartSize` unless a read was cut short.  `SendInv` adds that the part at hand is the one that was read last, and
that the end of the stream is the end of a file nothing has befallen; `Totals` that the parts told to
the server of a big file have the total that its size has given.  A part that is sent again is the same, because nothing is
read until it is acknowledged.

`UpdatesInv` says for each thread what is behind it in its own answer: the updates before `next` were
announced, in order (`AnnouncedSoFar`), the users and chats before it are found by a read
(`UsersBehind`, `ChatsBehind`), the short message has its row and its text (`TextBehind`); and
what a thread of short messages has told is no more than that message (`ToldIs`).  No row is ever deleted and a text is
only written over by the same one, which is why a thread keeps these facts
while others save (`OthersKeep`); `ContactsKept` relates the history `contact` to the rows, which
a telling in part leaves alone, and an INSERT for a row that is there already too.

`ListInv` says that what was shown is exactly what can be shown of the page up to `UpTo`,
in order, each dialog as `DialogOf` makes it of its entry alone.  That is where the reset of
the dialog (`Begun`) at each turn is needed: without it the fields of the dialog
before would be left.  `FoundIfThere` says that a peer is found if and only if the page has
one with the number, `GreatestOf` that the last one exists.

`Factor_proofs` proves, for any numbers, any limit of trial division, any numbers of turns and any
random numbers, under `FactorAssumption`:

| theorem | statement |
|---|---|
| `FactorKeepsTheProduct` | `FactorSpec => []ProductIsKept` |
| `FactorResultIsComplete` | `FactorSpec => [](ended = "yes" => Product(result) = pq)` |
| `FactorCrashesAfterBent` | `FactorSpec => []CrashIsBents` |
| `FactorFindsPrimes` | `TestsDecide` implies `FactorSpec => []FoundArePrime` |

The methods compute with recursive functions, which are proved about in two steps.
`LoopHasResult` says that a loop has a result as a function of where it begins (it is built
from the paths of the loop), so that `gcd`, `powmod`, `largest` and `product` satisfy their
equations (`GcdTurn`, `PowModTurn`, `LargestTurn`, `ProductTurn`); `Induction` is strong
induction for a set of naturals, from the well-foundedness of `<`, and gives `GcdDivides` (the
gcd is a common divisor, negative only if an argument is), the types of the powers, and
`ProductIsLinear`.  `TrialDivision` says what trial division tells, from `LeastDivisor`:
0 only for a number below 2 or not below the square of the limit, 1 only for a prime, and otherwise
a prime divisor of a number that is not prime.

`IInv` has `ProductInv`, which the first theorem states; `SignInv`, that all numbers that wait are positive, unless
`pollard_bent` has just returned a negative divisor, which is the next number;
`SearchInv`, that only positive numbers are given to the methods; and `FermaInv`, that
`r` is x^2 - y^2 - n in `ferma`.  Every method returns a divisor of
the number (`ReturnsStep`), and all but `pollard_bent` a positive one.  A number that is below 2,
not 1 and not above the limit is negative, and is the only one trial division answers 0 for: hence
`CrashIsBents`.  `TestsDecide` is the hypothesis that
Miller-Rabin with base 2 and Lucas together tell the primes among the divisors of `pq` from 29 * 29 on.
It is a statement about numbers: the code follows the test of Baillie, Pomerance, Selfridge and
Wagstaff, which no composite is known to pass, and none below 2^64 does.  TLC evaluates it for the numbers of the run.  Below 29 * 29 it is proved (`SmallIsDecided`).

**Only model-checked**: the five liveness properties (`AnswersAreDelivered`,
`AnsweredThreadEnds`, `StoppedThreadEndsOrWaits`, `PacketsAreFinished`, `EveryCallReturns`),
since TLAPS does not reason about fairness and ENABLED here.  Every invariant and action
property that a passing run checks is also proved.

## 5. Plan

1. `QueueManager` and `SendQuery` together: a key made by both at once under different
   mutexes while queries are sent, and `tg_send_query_sync`, whose caller's stack frame a late
   callback uses.
2. The calls of one query each (sending a text, typing, reading, configuration), and
   the hashes of lists at their width.

## 6. Not modelled

Ciphers, hashes and big integers (`crypto/`, `mtx/src/` but for what is named above):
arithmetic TLC cannot evaluate; `crypto/fact.cpp` is not built.  The TL generator and the schema:
build-time code.  Field-by-field conversions of dialogs, messages, chats, channels and
users, beyond the fields the properties speak of; images.  `tools/`, `test.c`, `stb_ds.h`,
`darwin-posix-rt`: not part of the library or third-party.  `tg/run_api.c` and
`tg/auth_key.c`: not built.
