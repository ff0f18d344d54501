--------------------------------- MODULE Store ---------------------------------
(***************************************************************************)
(* What libtg keeps in SQLite (tg/database.c and the tables of chats,      *)
(* channels, users, dialogs and messages), statement by statement.         *)
(*                                                                         *)
(* A save is a script: a list of calls of tg_sqlite3_exec, each a list of  *)
(* statements that are executed one by one, each committed by itself, up   *)
(* to the first that fails.  Two accounts share one database file.  Each   *)
(* has its mutex databasem, so an account runs one save at a time, but     *)
(* nothing orders the accounts: a statement fails when the other account   *)
(* writes, since busy_timeout is set on a connection that is closed at     *)
(* once.  The process of an account may end between any two statements.    *)
(*                                                                         *)
(* Each behaviour is about the table of one kind.                          *)
(***************************************************************************)
EXTENDS Naturals, Sequences, FiniteSets, FiniteSetsExt

CONSTANTS
    Accounts,  \* tg->id of the accounts that share the database
    Keys,      \* what rows are kept about: photos, peers, chats, users
    Kinds,     \* the tables
    Null,      \* SQL's NULL
    MaxSaves,  \* bound: the saves of an account
    MaxFaults  \* bound: crashes and statements that fail as busy

Tables == {"ip", "phone", "token", "key", "dialogs_hash", "messages_hash", "photo",
           "peer_photo", "chat", "channel", "user", "dialog", "message", "read", "top"}

\* What is saved is named for the account that saves it, the count of its saves,
\* the text it gives, which may be missing or have an apostrophe in it, and whether
\* it is a user the server told little of (min).
Texts == {Null, "text", "quoted"}
Numbers == [by : Accounts, nth : Nat, text : Texts, min : BOOLEAN]
\* What a read gives of a row: the save that wrote each of its columns.
Values == [num : Numbers \cup {Null}, text : Numbers \cup {Null},
           contact : Numbers \cup {Null}]

StoreAssumption ==
    /\ Kinds \subseteq Tables
    /\ Null \notin Accounts \cup Keys
    /\ Null \notin Numbers \cup Values \cup {"text", "quoted"}
    /\ {MaxSaves, MaxFaults} \subseteq Nat

VARIABLES
    kind,   \* the table
    cols,   \* its columns, besides id
    rows,   \* its rows
    op,     \* what each account is doing
    saves,  \* how many saves each account has begun
    faults, \* how many faults have happened
    saved   \* history: what reads must find, Null where that is not known

storeVars == <<kind, cols, rows, op, saves, faults, saved>>

---------------------------------------------------------------------------
(* The scripts.                                                            *)

Alter(c) == [do |-> "alter", by |-> c]
InsertMissing(by) == [do |-> "insert_missing", by |-> by]
Insert == [do |-> "insert", by |-> "id"]
Update(by) == [do |-> "update", by |-> by]
Bad == [do |-> "syntax_error", by |-> "id"]

\* Rows of chats, channels, users, dialogs and messages, whose columns are made at
\* start.
RowKinds == {"chat", "channel", "user", "dialog", "message"}
CreateTable == <<<<Alter("num")>>, <<Alter("text")>>>>
tg_chat_create_table == CreateTable
tg_channel_create_table == CreateTable
tg_user_create_table == CreateTable
tg_dialogs_create_table == CreateTable
tg_messages_create_table == CreateTable

OneRow == <<<<Alter("num")>>, <<InsertMissing("id"), Update("all")>>>>
OneRowQuoted == <<<<Alter("num")>>, <<InsertMissing("id"), Update("none")>>>>
RowOfKey == <<<<InsertMissing("key"), Update("key")>>>>
RowOfKeyNoInsert == <<<<Update("key")>>>>

ip_address_to_database == OneRow
phone_number_to_database == OneRow
auth_token_to_database == <<<<Alter("num")>>, <<Insert>>>>
auth_key_to_database == <<<<Alter("num")>>, <<InsertMissing("id")>>, <<Update("id")>>>>
dialogs_hash_to_database == <<<<Alter("num"), InsertMissing("id"), Update("all")>>>>
messages_hash_to_database ==
    <<<<Alter("num"), Alter("key"), InsertMissing("key"), Update("none")>>>>
photo_to_database ==
    <<<<Alter("num"), Alter("key")>>, <<InsertMissing("key"), Update("key")>>>>
peer_photo_to_database ==
    <<<<Alter("num"), Alter("key"), Alter("text")>>,
      <<InsertMissing("key"), Update("key")>>>>
tg_chat_save == RowOfKey
tg_channel_save == RowOfKey
tg_user_save == RowOfKey
tg_dialog_to_database == RowOfKey
\* is disabled: it answers 0 at once
tg_message_to_database == <<>>
\* UPDATE TABLE is not SQL
tg_messages_set_read == <<<<Bad>>>>
tg_dialog_set_top_message == <<<<Bad>>>>

ScriptOf(k) ==
    CASE k = "ip" -> ip_address_to_database
      [] k = "phone" -> phone_number_to_database
      [] k = "token" -> auth_token_to_database
      [] k = "key" -> auth_key_to_database
      [] k = "dialogs_hash" -> dialogs_hash_to_database
      [] k = "messages_hash" -> messages_hash_to_database
      [] k = "photo" -> photo_to_database
      [] k = "peer_photo" -> peer_photo_to_database
      [] k = "chat" -> tg_chat_save
      [] k = "channel" -> tg_channel_save
      [] k = "user" -> tg_user_save
      [] k = "dialog" -> tg_dialog_to_database
      [] k = "message" -> tg_message_to_database
      [] k = "read" -> tg_messages_set_read
      [] k = "top" -> tg_dialog_set_top_message

CreateOf(k) ==
    CASE k = "chat" -> tg_chat_create_table
      [] k = "channel" -> tg_channel_create_table
      [] k = "user" -> tg_user_create_table
      [] k = "dialog" -> tg_dialogs_create_table
      [] k = "message" -> tg_messages_create_table

\* The tables with one row for an account.
AccountKinds == {"ip", "phone", "token", "key", "dialogs_hash"}
KeyOf(k, key) == IF k \in AccountKinds THEN Null ELSE key
StartColumns == IF kind \in RowKinds THEN {"key"} ELSE {}
TextKinds == RowKinds \cup {"peer_photo"}

---------------------------------------------------------------------------
Idle == [at |-> "idle"]
Starting == [at |-> "start", exec |-> 1, stmt |-> 1]
InOp(a) == op[a].at # "idle"
Script(a) == IF op[a].at = "start" THEN CreateOf(kind) ELSE ScriptOf(kind)
Statement(a) == Script(a)[op[a].exec][op[a].stmt]

\* database_init; for the kinds whose tables get their columns when something
\* is saved, nothing of it is left to be done.
Start == IF kind \in RowKinds THEN Starting ELSE Idle

StoreInit ==
    /\ kind \in Kinds
    /\ cols = StartColumns
    /\ rows = <<>>
    /\ op = [a \in Accounts |-> Start]
    /\ saves = [a \in Accounts |-> 0]
    /\ faults = 0
    /\ saved = [a \in Accounts |-> [k \in Keys \cup {Null} |-> Null]]

\* A save begins: databasem is locked.
Save(a, key, text, min) ==
    /\ op[a] = Idle /\ saves[a] < MaxSaves
    /\ ScriptOf(kind) # <<>>
    /\ saves' = [saves EXCEPT ![a] = @ + 1]
    /\ op' = [op EXCEPT ![a] = [at |-> "save", exec |-> 1, stmt |-> 1, ok |-> TRUE,
                                key |-> KeyOf(kind, key), inserted |-> FALSE,
                                num |-> [by |-> a, nth |-> saves'[a],
                                         text |-> text, min |-> min]]]
    /\ saved' = [b \in Accounts |->
                   [saved[b] EXCEPT ![KeyOf(kind, key)] = Null]]
    /\ UNCHANGED <<kind, cols, rows, faults>>

\* A row: the columns that each save writes, those of texts, and those that the
\* save of a user leaves as they are when the server told little of him.
NewRow(id, key, num) ==
    [id |-> id, key |-> key, num |-> num, text |-> Null, contact |-> num]

\* What a statement makes of the table; it fails when a column is missing or
\* there already, or when an apostrophe ends the text too early.  The column of a
\* text is named only where there is a text.
Needs(a, s) ==
    (IF s.by = "key" \/ s.by = "none" THEN {"key"} ELSE {})
    \cup (IF s.do \in {"update", "insert"} THEN {"num"} ELSE {})
    \cup (IF s.do = "update" /\ kind \in TextKinds /\ op[a].num.text # Null
           THEN {"text"} ELSE {})

Fails(a, s) ==
    \/ s.do = "alter" /\ s.by \in cols
    \/ s.do # "alter" /\ ~(Needs(a, s) \subseteq cols)
    \/ s.do = "update" /\ op[a].num.text = "quoted" /\ kind \in TextKinds
    \/ s.do = "syntax_error"

Matches(a, s, row) ==
    CASE s.by = "all" -> TRUE
      [] s.by = "id" -> row.id = a
      [] s.by = "key" -> row.key = op[a].key
      [] OTHER -> FALSE

\* A text that is missing is not written, and so the old one stays, whichever
\* account saved it, and so do the contact columns of a min user.
UpdatedOf(row, id, a) ==
    [row EXCEPT !.id = id, !.num = op[a].num,
                !.text = IF op[a].num.text = Null THEN @ ELSE op[a].num,
                !.contact = IF op[a].num.min THEN @ ELSE op[a].num]
UpdatedKeepingId(a, row) == UpdatedOf(row, row.id, a)
UpdatedSwapped(a, row) == UpdatedOf(row, row.key, a)
Updated(a, row) == UpdatedOf(row, a, a)

Execute(a, s) ==
    CASE s.do = "alter" -> cols' = cols \cup {s.by} /\ UNCHANGED rows
      [] s.do = "insert" -> rows' = Append(rows, NewRow(a, Null, op[a].num))
                            /\ UNCHANGED cols
      [] s.do = "insert_missing" ->
            /\ rows' = IF \E i \in DOMAIN rows : Matches(a, s, rows[i]) THEN rows
                       ELSE Append(rows, IF s.by = "id" THEN NewRow(a, Null, Null)
                                         ELSE NewRow(Null, op[a].key, Null))
            /\ UNCHANGED cols
      [] OTHER ->
            /\ rows' = [i \in DOMAIN rows |->
                          IF Matches(a, s, rows[i]) THEN Updated(a, rows[i])
                          ELSE rows[i]]
            /\ UNCHANGED cols

\* The next statement: of this call when this one was executed, else of the next
\* call.
NextOf(a, ok) ==
    LET exec == IF ok /\ op[a].stmt < Len(Script(a)[op[a].exec]) THEN op[a].exec
                ELSE op[a].exec + 1
    IN [exec |-> exec, stmt |-> IF exec = op[a].exec THEN op[a].stmt + 1 ELSE 1]

\* An ignored failure: of all calls but the last, and of the step that writes the
\* key.
Ignored(a) ==
    \/ op[a].exec < Len(Script(a))
    \/ kind = "dialog"
    \/ kind = "key" /\ "num" \in cols

\* The other accounts are not in the middle of a save of the same row.
AloneOn(a) ==
    \A b \in Accounts \ {a} : op[b].at = "save" => op[b].key # op[a].key

\* What is done after a statement: the save goes on, or returns.
Step(a, ok) ==
    LET next == NextOf(a, ok)
        good == op[a].at = "save" => op[a].ok /\ (ok \/ Ignored(a))
        inserted == op[a].inserted \/ (ok /\ Statement(a).do = "insert_missing")
        over == next.exec > Len(Script(a))
    IN IF ~over
         THEN /\ op' = [op EXCEPT ![a] =
                          IF op[a].at = "start"
                            THEN [op[a] EXCEPT !.exec = next.exec, !.stmt = next.stmt]
                            ELSE [op[a] EXCEPT !.exec = next.exec, !.stmt = next.stmt,
                                               !.ok = good, !.inserted = inserted]]
              /\ UNCHANGED saved
         ELSE /\ op' = [op EXCEPT ![a] = Idle]
              /\ saved' = IF op[a].at = "save" /\ good /\ AloneOn(a)
                            THEN [saved EXCEPT ![a][op[a].key] = op[a].num]
                            ELSE saved

Statements(a) ==
    /\ InOp(a)
    /\ LET s == Statement(a)
       IN IF Fails(a, s)
            THEN Step(a, FALSE) /\ UNCHANGED <<cols, rows>>
            ELSE Step(a, TRUE) /\ Execute(a, s)
    /\ UNCHANGED <<kind, saves, faults>>

\* The database is locked: the other account has a statement of its own under way.
Busy(a) ==
    /\ InOp(a) /\ faults < MaxFaults
    /\ \E b \in Accounts \ {a} : InOp(b)
    /\ faults' = faults + 1
    /\ Step(a, FALSE)
    /\ UNCHANGED <<kind, cols, rows, saves>>

\* The process ends, and is started again.
Crash(a) ==
    /\ faults < MaxFaults
    /\ faults' = faults + 1
    /\ op' = [op EXCEPT ![a] = Start]
    /\ UNCHANGED <<kind, cols, rows, saves, saved>>

TextsOf(k) ==
    IF k \in RowKinds THEN Texts ELSE IF k \in TextKinds THEN {"text"} ELSE {Null}
MinOf(k) == IF k = "user" THEN BOOLEAN ELSE {FALSE}

StoreDone ==
    /\ \A a \in Accounts : ~InOp(a) /\ (saves[a] = MaxSaves \/ ScriptOf(kind) = <<>>)
    /\ UNCHANGED storeVars

StoreNext ==
    \/ \E a \in Accounts :
          \/ \E key \in Keys, text \in TextsOf(kind), min \in MinOf(kind) :
                Save(a, key, text, min)
          \/ Statements(a)
          \/ Busy(a)
          \/ Crash(a)
    \/ StoreDone

StoreSpec == StoreInit /\ [][StoreNext]_storeVars

---------------------------------------------------------------------------
(* The reads, which take no lock.                                          *)

\* A SELECT names each column there is to the kind.
Named(key) ==
    {"num"} \cup (IF key = Null THEN {} ELSE {"key"})
    \cup (IF kind \in TextKinds THEN {"text"} ELSE {})

\* The places of the rows that SELECT gives; none when a column is missing.
Selected(a, key) ==
    IF Named(key) \subseteq cols
      THEN {i \in DOMAIN rows : rows[i].id = a /\ (key = Null \/ rows[i].key = key)}
      ELSE {}

Row(r) == [num |-> r.num, text |-> r.text, contact |-> r.contact]
FirstRow(a, key) == IF Selected(a, key) = {} THEN Null ELSE Row(rows[Min(Selected(a, key))])
LastRow(a, key) == IF Selected(a, key) = {} THEN Null ELSE Row(rows[Max(Selected(a, key))])

ip_address_from_database(a) == LastRow(a, Null)
phone_number_from_database(a) == LastRow(a, Null)
auth_key_from_database(a) == LastRow(a, Null)
dialogs_hash_from_database(a) == LastRow(a, Null)
messages_hash_from_database(a, key) == LastRow(a, key)
photo_file_from_database(a, key) == FirstRow(a, key)
peer_photo_file_from_database(a, key) == FirstRow(a, key)
tg_chat_get(a, key) == FirstRow(a, key)
tg_channel_get(a, key) == FirstRow(a, key)
tg_user_get(a, key) == FirstRow(a, key)
\* the rows of all peers, in no order: 'top_message_date' is a literal
tg_get_dialogs_from_database(a, key) == FirstRow(a, key)
\* the table stays empty
tg_get_messages_from_database(a, key) == FirstRow(a, key)
\* asks for a column its subquery does not have
auth_tokens_from_database(a) == Null

Read(a, key) ==
    CASE kind = "ip" -> ip_address_from_database(a)
      [] kind = "phone" -> phone_number_from_database(a)
      [] kind = "token" -> auth_tokens_from_database(a)
      [] kind = "key" -> auth_key_from_database(a)
      [] kind = "dialogs_hash" -> dialogs_hash_from_database(a)
      [] kind = "messages_hash" -> messages_hash_from_database(a, key)
      [] kind = "photo" -> photo_file_from_database(a, key)
      [] kind = "peer_photo" -> peer_photo_file_from_database(a, key)
      [] kind = "chat" -> tg_chat_get(a, key)
      [] kind = "channel" -> tg_channel_get(a, key)
      [] kind = "user" -> tg_user_get(a, key)
      [] kind = "message" -> tg_get_messages_from_database(a, key)
      [] OTHER -> tg_get_dialogs_from_database(a, key)

\* strcpy from a column that is NULL: ip_address_from_database in tg_new, and
\* phone_number_from_database in tg_connect.
ReadCrashes(a) ==
    /\ kind \in {"ip", "phone"} /\ "num" \in cols
    /\ \E i \in DOMAIN rows : rows[i].id = a /\ rows[i].num = Null

---------------------------------------------------------------------------
\* What an account can be doing.
Ops == [at : {"idle"}] \cup [at : {"start"}, exec : 1..2, stmt : {1}]
       \cup [at : {"save"}, exec : 1..3, stmt : 1..4, ok : BOOLEAN, inserted : BOOLEAN,
             key : Keys \cup {Null}, num : Numbers]

StoreTypeOK ==
    /\ kind \in Kinds
    /\ cols \subseteq {"num", "key", "text"}
    /\ rows \in Seq([id : Accounts \cup {Null}, key : Keys \cup {Null},
                     num : Numbers \cup {Null}, text : Numbers \cup {Null},
                     contact : Numbers \cup {Null}])
    /\ op \in [Accounts -> Ops]
    /\ saves \in [Accounts -> 0..MaxSaves]
    /\ faults \in 0..MaxFaults
    /\ saved \in [Accounts -> [Keys \cup {Null} -> Numbers \cup {Null}]]

\* Saves that answer 0 and can be relied on: not tokens, which are never read, nor
\* messages, which are never written, nor hashes of messages, nor keys, whose last
\* step may fail unnoticed, nor dialogs, which answer 0 in any case; the last two
\* are relied on where nothing fails.
Reliable == Kinds \ {"token", "messages_hash", "message"}

\* The row has all that this save named.
AsSaved(r, s) ==
    /\ r.num = s
    /\ s.text # Null => r.text = s
    /\ ~s.min => r.contact = s

\* What a save said it has saved is what is read, in each column it named, until a
\* save of the same row begins, by whichever account (tg_chat_save,
\* photo_to_database and the others).  Exceptions are the key and the dialog that
\* the database was too busy to take, and a table whose text column was never made:
\* a save without a text does not miss it, and every read does.
SavedIsRead ==
    \A a \in Accounts, key \in Keys \cup {Null} :
        LET s == saved[a][key]
        IN (kind \in Reliable /\ s # Null
            /\ (kind \in RowKinds => "text" \in cols)
            /\ (kind \in {"key", "dialog"} => faults = 0 /\ s.text # "quoted"))
           => /\ Read(a, key) # Null
              /\ AsSaved(Read(a, key), s)

\* What an account reads is all of one save of its own, though accounts write to
\* the same rows: an UPDATE that takes a row over sets id and values at once.  Only
\* in the columns this save did not name, texts that are missing and what a min user
\* keeps, can there be something older, of another account too.
ReadsItsOwn ==
    \A a \in Accounts, key \in Keys \cup {Null} :
        LET r == Read(a, key)
        IN r # Null /\ r.num # Null => r.num.by = a /\ AsSaved(r, r.num)

\* An address that is NULL, which would end the next tg_new, is only there while
\* it is being saved, or after a fault, and then every tg_new ends at strcpy until
\* some account has saved an address (ip_address_to_database).
NullIsTorn ==
    (\E a \in Accounts : ReadCrashes(a)) =>
        faults > 0 \/ \E a \in Accounts : op[a].at = "save" /\ op[a].inserted
=============================================================================
