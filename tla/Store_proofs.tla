----------------------------- MODULE Store_proofs -----------------------------
(***************************************************************************)
(* Theorems about the tables that accounts share, for any accounts, peers, *)
(* saves and faults.                                                       *)
(***************************************************************************)
EXTENDS Store, WellFoundedInduction, TLAPS

Statement_ ==
    [do : {"alter"}, by : {"num", "text", "key"}]
    \cup [do : {"insert_missing", "insert", "update", "syntax_error"},
          by : {"key", "id", "all", "none"}]
RowSet == [id : Accounts \cup {Null}, key : Keys \cup {Null},
           num : Numbers \cup {Null}, text : Numbers \cup {Null},
           contact : Numbers \cup {Null}]
SaveOps == [at : {"save"}, exec : 1..3, stmt : 1..4, ok : BOOLEAN, inserted : BOOLEAN,
            key : Keys \cup {Null}, num : Numbers]
\* The keys of rows of this table.
RowsOf == IF kind \in AccountKinds THEN {Null} ELSE Keys

---------------------------------------------------------------------------
(* The scripts.                                                            *)

\* Calls and statements of a script.
IsScript(s) ==
    /\ Len(s) \in 0..3 /\ (Len(s) = 0 => s = <<>>)
    /\ \A e \in 1..Len(s) :
          /\ Len(s[e]) \in 1..4
          /\ \A j \in 1..Len(s[e]) : s[e][j] \in Statement_

LEMMA ScriptShape == ASSUME NEW k \in Tables PROVE IsScript(ScriptOf(k))
<1>1. CASE k \in {"ip", "phone"}
  <2>1. ScriptOf(k) = OneRow
    BY <1>1 DEF ScriptOf, ip_address_to_database, phone_number_to_database
  <2>2. /\ Len(OneRow) = 2
        /\ Len(OneRow[1]) = 1
        /\ OneRow[1][1] = Alter("num")
        /\ Len(OneRow[2]) = 2
        /\ OneRow[2][1] = InsertMissing("id")
        /\ OneRow[2][2] = Update("all")
    BY DEF OneRow
  <2> QED
    BY <1>1, <2>1, <2>2 DEF IsScript, Statement_, Alter, InsertMissing, Insert, Update, Bad
<1>2. CASE k = "key"
  <2>1. ScriptOf(k) = auth_key_to_database
    BY <1>2 DEF ScriptOf
  <2>2. /\ Len(auth_key_to_database) = 3
        /\ Len(auth_key_to_database[1]) = 1
        /\ auth_key_to_database[1][1] = Alter("num")
        /\ Len(auth_key_to_database[2]) = 1
        /\ auth_key_to_database[2][1] = InsertMissing("id")
        /\ Len(auth_key_to_database[3]) = 1
        /\ auth_key_to_database[3][1] = Update("id")
    BY DEF auth_key_to_database
  <2> QED
    BY <1>2, <2>1, <2>2 DEF IsScript, Statement_, Alter, InsertMissing, Insert, Update, Bad
<1>3. CASE k = "dialogs_hash"
  <2>1. ScriptOf(k) = dialogs_hash_to_database
    BY <1>3 DEF ScriptOf
  <2>2. /\ Len(dialogs_hash_to_database) = 1
        /\ Len(dialogs_hash_to_database[1]) = 3
        /\ dialogs_hash_to_database[1][1] = Alter("num")
        /\ dialogs_hash_to_database[1][2] = InsertMissing("id")
        /\ dialogs_hash_to_database[1][3] = Update("all")
    BY DEF dialogs_hash_to_database
  <2> QED
    BY <1>3, <2>1, <2>2 DEF IsScript, Statement_, Alter, InsertMissing, Insert, Update, Bad
<1>4. CASE k = "photo"
  <2>1. ScriptOf(k) = photo_to_database
    BY <1>4 DEF ScriptOf
  <2>2. /\ Len(photo_to_database) = 2
        /\ Len(photo_to_database[1]) = 2
        /\ photo_to_database[1][1] = Alter("num")
        /\ photo_to_database[1][2] = Alter("key")
        /\ Len(photo_to_database[2]) = 2
        /\ photo_to_database[2][1] = InsertMissing("key")
        /\ photo_to_database[2][2] = Update("key")
    BY DEF photo_to_database
  <2> QED
    BY <1>4, <2>1, <2>2 DEF IsScript, Statement_, Alter, InsertMissing, Insert, Update, Bad
<1>5. CASE k = "peer_photo"
  <2>1. ScriptOf(k) = peer_photo_to_database
    BY <1>5 DEF ScriptOf
  <2>2. /\ Len(peer_photo_to_database) = 2
        /\ Len(peer_photo_to_database[1]) = 3
        /\ peer_photo_to_database[1][1] = Alter("num")
        /\ peer_photo_to_database[1][2] = Alter("key")
        /\ peer_photo_to_database[1][3] = Alter("text")
        /\ Len(peer_photo_to_database[2]) = 2
        /\ peer_photo_to_database[2][1] = InsertMissing("key")
        /\ peer_photo_to_database[2][2] = Update("key")
    BY DEF peer_photo_to_database
  <2> QED
    BY <1>5, <2>1, <2>2 DEF IsScript, Statement_, Alter, InsertMissing, Insert, Update, Bad
<1>6. CASE k \in {"chat", "channel", "user", "dialog"}
  <2>1. ScriptOf(k) = RowOfKey
    BY <1>6 DEF ScriptOf, tg_chat_save, tg_channel_save, tg_user_save, tg_dialog_to_database
  <2>2. /\ Len(RowOfKey) = 1
        /\ Len(RowOfKey[1]) = 2
        /\ RowOfKey[1][1] = InsertMissing("key")
        /\ RowOfKey[1][2] = Update("key")
    BY DEF RowOfKey
  <2> QED
    BY <1>6, <2>1, <2>2 DEF IsScript, Statement_, Alter, InsertMissing, Insert, Update, Bad
<1>7. CASE k = "token"
  <2>1. ScriptOf(k) = auth_token_to_database
    BY <1>7 DEF ScriptOf
  <2>2. /\ Len(auth_token_to_database) = 2
        /\ Len(auth_token_to_database[1]) = 1
        /\ auth_token_to_database[1][1] = Alter("num")
        /\ Len(auth_token_to_database[2]) = 1
        /\ auth_token_to_database[2][1] = Insert
    BY DEF auth_token_to_database
  <2> QED
    BY <1>7, <2>1, <2>2 DEF IsScript, Statement_, Alter, InsertMissing, Insert, Update, Bad
<1>8. CASE k = "messages_hash"
  <2>1. ScriptOf(k) = messages_hash_to_database
    BY <1>8 DEF ScriptOf
  <2>2. /\ Len(messages_hash_to_database) = 1
        /\ Len(messages_hash_to_database[1]) = 4
        /\ messages_hash_to_database[1][1] = Alter("num")
        /\ messages_hash_to_database[1][2] = Alter("key")
        /\ messages_hash_to_database[1][3] = InsertMissing("key")
        /\ messages_hash_to_database[1][4] = Update("none")
    BY DEF messages_hash_to_database
  <2> QED
    BY <1>8, <2>1, <2>2 DEF IsScript, Statement_, Alter, InsertMissing, Insert, Update, Bad
<1>9. CASE k = "read"
  <2>1. ScriptOf(k) = tg_messages_set_read
    BY <1>9 DEF ScriptOf
  <2>2. /\ Len(tg_messages_set_read) = 1
        /\ Len(tg_messages_set_read[1]) = 1
        /\ tg_messages_set_read[1][1] = Bad
    BY DEF tg_messages_set_read
  <2> QED
    BY <1>9, <2>1, <2>2 DEF IsScript, Statement_, Alter, InsertMissing, Insert, Update, Bad
<1>10. CASE k = "top"
  <2>1. ScriptOf(k) = tg_dialog_set_top_message
    BY <1>10 DEF ScriptOf
  <2>2. /\ Len(tg_dialog_set_top_message) = 1
        /\ Len(tg_dialog_set_top_message[1]) = 1
        /\ tg_dialog_set_top_message[1][1] = Bad
    BY DEF tg_dialog_set_top_message
  <2> QED
    BY <1>10, <2>1, <2>2 DEF IsScript, Statement_, Alter, InsertMissing, Insert, Update, Bad
<1>11. CASE k = "message"
  <2>1. ScriptOf(k) = tg_message_to_database
    BY <1>11 DEF ScriptOf
  <2>2. Len(tg_message_to_database) = 0 /\ tg_message_to_database = <<>>
    BY DEF tg_message_to_database
  <2> QED
    BY <1>11, <2>1, <2>2 DEF IsScript, Statement_, Alter, InsertMissing, Insert, Update, Bad
<1> QED
  BY <1>1, <1>2, <1>3, <1>4, <1>5, <1>6, <1>7, <1>8, <1>9, <1>10, <1>11 DEF Tables

\* The tables whose rows are made once and then updated.
OfRows == Reliable \ {"read", "top"}

\* In the scripts of these tables the UPDATE comes last, behind an INSERT of the row
\* that it is to find: in the same call, but for the key.
WellPlaced(s, k, e, j) ==
    /\ s[e][j].do = "update" <=> e = Len(s) /\ j = Len(s[e])
    /\ s[e][j].do \in {"update", "alter", "insert_missing"}
    /\ s[e][j].do = "insert_missing" =>
          s[e][j].by = IF k \in AccountKinds THEN "id" ELSE "key"
    /\ s[e][j].do = "update" =>
          \/ /\ k # "key" /\ j > 1
             /\ s[e][j - 1].do = "insert_missing"
             /\ \/ s[e][j - 1].by = "id" /\ s[e][j].by = "all" /\ k \in AccountKinds
                \/ s[e][j - 1].by = "key" /\ s[e][j].by = "key" /\ k \notin AccountKinds
          \/ /\ k = "key" /\ e = 3 /\ j = 1 /\ s[e][j].by = "id"
             /\ Len(s[2]) = 1 /\ s[2][1] = InsertMissing("id")
UpdateComesLast(k) ==
    /\ Len(ScriptOf(k)) > 0
    /\ \A e \in 1..Len(ScriptOf(k)) : \A j \in 1..Len(ScriptOf(k)[e]) :
          WellPlaced(ScriptOf(k), k, e, j)

LEMMA Order == ASSUME NEW k \in Tables \ {"token", "messages_hash", "message", "read", "top"}
               PROVE UpdateComesLast(k)
<1>1. CASE k \in {"ip", "phone"}
  <2>1. ScriptOf(k) = OneRow
    BY <1>1 DEF ScriptOf, ip_address_to_database, phone_number_to_database
  <2>2. /\ Len(OneRow) = 2
        /\ Len(OneRow[1]) = 1
        /\ OneRow[1][1] = Alter("num")
        /\ Len(OneRow[2]) = 2
        /\ OneRow[2][1] = InsertMissing("id")
        /\ OneRow[2][2] = Update("all")
    BY DEF OneRow
  <2>3. WellPlaced(OneRow, k, 1, 1)
    BY <1>1, <2>2 DEF WellPlaced, Alter, InsertMissing, Update, AccountKinds
  <2>4. WellPlaced(OneRow, k, 2, 1)
    BY <1>1, <2>2 DEF WellPlaced, Alter, InsertMissing, Update, AccountKinds
  <2>5. WellPlaced(OneRow, k, 2, 2)
    BY <1>1, <2>2 DEF WellPlaced, Alter, InsertMissing, Update, AccountKinds
  <2>6. ASSUME NEW e \in 1..2, NEW j \in 1..Len(OneRow[e])
       PROVE  WellPlaced(OneRow, k, e, j)
    <3>1. CASE e = 1
      <4>1. j \in 1..1
        BY <2>2, <3>1
      <4> QED
        BY <2>3, <3>1, <4>1
    <3>2. CASE e = 2
      <4>1. j \in 1..2
        BY <2>2, <3>2
      <4> QED
        BY <2>4, <2>5, <3>2, <4>1
    <3> QED
      BY <3>1, <3>2
  <2> QED
    BY <2>1, <2>2, <2>6 DEF UpdateComesLast
<1>2. CASE k = "key"
  <2>1. ScriptOf(k) = auth_key_to_database
    BY <1>2 DEF ScriptOf
  <2>2. /\ Len(auth_key_to_database) = 3
        /\ Len(auth_key_to_database[1]) = 1
        /\ auth_key_to_database[1][1] = Alter("num")
        /\ Len(auth_key_to_database[2]) = 1
        /\ auth_key_to_database[2][1] = InsertMissing("id")
        /\ Len(auth_key_to_database[3]) = 1
        /\ auth_key_to_database[3][1] = Update("id")
    BY DEF auth_key_to_database
  <2>3. WellPlaced(auth_key_to_database, k, 1, 1)
    BY <1>2, <2>2 DEF WellPlaced, Alter, InsertMissing, Update, AccountKinds
  <2>4. WellPlaced(auth_key_to_database, k, 2, 1)
    BY <1>2, <2>2 DEF WellPlaced, Alter, InsertMissing, Update, AccountKinds
  <2>5. WellPlaced(auth_key_to_database, k, 3, 1)
    BY <1>2, <2>2 DEF WellPlaced, Alter, InsertMissing, Update, AccountKinds
  <2>6. ASSUME NEW e \in 1..3, NEW j \in 1..Len(auth_key_to_database[e])
       PROVE  WellPlaced(auth_key_to_database, k, e, j)
    <3>1. CASE e = 1
      <4>1. j \in 1..1
        BY <2>2, <3>1
      <4> QED
        BY <2>3, <3>1, <4>1
    <3>2. CASE e = 2
      <4>1. j \in 1..1
        BY <2>2, <3>2
      <4> QED
        BY <2>4, <3>2, <4>1
    <3>3. CASE e = 3
      <4>1. j \in 1..1
        BY <2>2, <3>3
      <4> QED
        BY <2>5, <3>3, <4>1
    <3> QED
      BY <3>1, <3>2, <3>3
  <2> QED
    BY <2>1, <2>2, <2>6 DEF UpdateComesLast
<1>3. CASE k = "dialogs_hash"
  <2>1. ScriptOf(k) = dialogs_hash_to_database
    BY <1>3 DEF ScriptOf
  <2>2. /\ Len(dialogs_hash_to_database) = 1
        /\ Len(dialogs_hash_to_database[1]) = 3
        /\ dialogs_hash_to_database[1][1] = Alter("num")
        /\ dialogs_hash_to_database[1][2] = InsertMissing("id")
        /\ dialogs_hash_to_database[1][3] = Update("all")
    BY DEF dialogs_hash_to_database
  <2>3. WellPlaced(dialogs_hash_to_database, k, 1, 1)
    BY <1>3, <2>2 DEF WellPlaced, Alter, InsertMissing, Update, AccountKinds
  <2>4. WellPlaced(dialogs_hash_to_database, k, 1, 2)
    BY <1>3, <2>2 DEF WellPlaced, Alter, InsertMissing, Update, AccountKinds
  <2>5. WellPlaced(dialogs_hash_to_database, k, 1, 3)
    BY <1>3, <2>2 DEF WellPlaced, Alter, InsertMissing, Update, AccountKinds
  <2>6. ASSUME NEW e \in 1..1, NEW j \in 1..Len(dialogs_hash_to_database[e])
       PROVE  WellPlaced(dialogs_hash_to_database, k, e, j)
    <3>1. CASE e = 1
      <4>1. j \in 1..3
        BY <2>2, <3>1
      <4> QED
        BY <2>3, <2>4, <2>5, <3>1, <4>1
    <3> QED
      BY <3>1
  <2> QED
    BY <2>1, <2>2, <2>6 DEF UpdateComesLast
<1>4. CASE k = "photo"
  <2>1. ScriptOf(k) = photo_to_database
    BY <1>4 DEF ScriptOf
  <2>2. /\ Len(photo_to_database) = 2
        /\ Len(photo_to_database[1]) = 2
        /\ photo_to_database[1][1] = Alter("num")
        /\ photo_to_database[1][2] = Alter("key")
        /\ Len(photo_to_database[2]) = 2
        /\ photo_to_database[2][1] = InsertMissing("key")
        /\ photo_to_database[2][2] = Update("key")
    BY DEF photo_to_database
  <2>3. WellPlaced(photo_to_database, k, 1, 1)
    BY <1>4, <2>2 DEF WellPlaced, Alter, InsertMissing, Update, AccountKinds
  <2>4. WellPlaced(photo_to_database, k, 1, 2)
    BY <1>4, <2>2 DEF WellPlaced, Alter, InsertMissing, Update, AccountKinds
  <2>5. WellPlaced(photo_to_database, k, 2, 1)
    BY <1>4, <2>2 DEF WellPlaced, Alter, InsertMissing, Update, AccountKinds
  <2>6. WellPlaced(photo_to_database, k, 2, 2)
    BY <1>4, <2>2 DEF WellPlaced, Alter, InsertMissing, Update, AccountKinds
  <2>7. ASSUME NEW e \in 1..2, NEW j \in 1..Len(photo_to_database[e])
       PROVE  WellPlaced(photo_to_database, k, e, j)
    <3>1. CASE e = 1
      <4>1. j \in 1..2
        BY <2>2, <3>1
      <4> QED
        BY <2>3, <2>4, <3>1, <4>1
    <3>2. CASE e = 2
      <4>1. j \in 1..2
        BY <2>2, <3>2
      <4> QED
        BY <2>5, <2>6, <3>2, <4>1
    <3> QED
      BY <3>1, <3>2
  <2> QED
    BY <2>1, <2>2, <2>7 DEF UpdateComesLast
<1>5. CASE k = "peer_photo"
  <2>1. ScriptOf(k) = peer_photo_to_database
    BY <1>5 DEF ScriptOf
  <2>2. /\ Len(peer_photo_to_database) = 2
        /\ Len(peer_photo_to_database[1]) = 3
        /\ peer_photo_to_database[1][1] = Alter("num")
        /\ peer_photo_to_database[1][2] = Alter("key")
        /\ peer_photo_to_database[1][3] = Alter("text")
        /\ Len(peer_photo_to_database[2]) = 2
        /\ peer_photo_to_database[2][1] = InsertMissing("key")
        /\ peer_photo_to_database[2][2] = Update("key")
    BY DEF peer_photo_to_database
  <2>3. WellPlaced(peer_photo_to_database, k, 1, 1)
    BY <1>5, <2>2 DEF WellPlaced, Alter, InsertMissing, Update, AccountKinds
  <2>4. WellPlaced(peer_photo_to_database, k, 1, 2)
    BY <1>5, <2>2 DEF WellPlaced, Alter, InsertMissing, Update, AccountKinds
  <2>5. WellPlaced(peer_photo_to_database, k, 1, 3)
    BY <1>5, <2>2 DEF WellPlaced, Alter, InsertMissing, Update, AccountKinds
  <2>6. WellPlaced(peer_photo_to_database, k, 2, 1)
    BY <1>5, <2>2 DEF WellPlaced, Alter, InsertMissing, Update, AccountKinds
  <2>7. WellPlaced(peer_photo_to_database, k, 2, 2)
    BY <1>5, <2>2 DEF WellPlaced, Alter, InsertMissing, Update, AccountKinds
  <2>8. ASSUME NEW e \in 1..2, NEW j \in 1..Len(peer_photo_to_database[e])
       PROVE  WellPlaced(peer_photo_to_database, k, e, j)
    <3>1. CASE e = 1
      <4>1. j \in 1..3
        BY <2>2, <3>1
      <4> QED
        BY <2>3, <2>4, <2>5, <3>1, <4>1
    <3>2. CASE e = 2
      <4>1. j \in 1..2
        BY <2>2, <3>2
      <4> QED
        BY <2>6, <2>7, <3>2, <4>1
    <3> QED
      BY <3>1, <3>2
  <2> QED
    BY <2>1, <2>2, <2>8 DEF UpdateComesLast
<1>6. CASE k \in {"chat", "channel", "user", "dialog"}
  <2>1. ScriptOf(k) = RowOfKey
    BY <1>6 DEF ScriptOf, tg_chat_save, tg_channel_save, tg_user_save, tg_dialog_to_database
  <2>2. /\ Len(RowOfKey) = 1
        /\ Len(RowOfKey[1]) = 2
        /\ RowOfKey[1][1] = InsertMissing("key")
        /\ RowOfKey[1][2] = Update("key")
    BY DEF RowOfKey
  <2>3. /\ RowOfKey[1][1].do = "insert_missing" /\ RowOfKey[1][1].by = "key"
        /\ RowOfKey[1][2].do = "update" /\ RowOfKey[1][2].by = "key"
    BY <2>2 DEF InsertMissing, Update
  <2>4. k # "key" /\ k \notin AccountKinds
    BY <1>6 DEF AccountKinds
  <2>5. WellPlaced(RowOfKey, k, 1, 1)
    BY <2>2, <2>3, <2>4 DEF WellPlaced
  <2>6. WellPlaced(RowOfKey, k, 1, 2)
    BY <2>2, <2>3, <2>4 DEF WellPlaced
  <2>7. ASSUME NEW e \in 1..1, NEW j \in 1..Len(RowOfKey[e])
       PROVE  WellPlaced(RowOfKey, k, e, j)
    <3>1. CASE e = 1
      <4>1. j \in 1..2
        BY <2>2, <3>1
      <4> QED
        BY <2>5, <2>6, <3>1, <4>1
    <3> QED
      BY <3>1
  <2> QED
    BY <2>1, <2>2, <2>7 DEF UpdateComesLast
<1> QED
  BY <1>1, <1>2, <1>3, <1>4, <1>5, <1>6 DEF Tables

\* The statements for an address and a phone number.
LEMMA OneRowScript ==
  ASSUME NEW k \in {"ip", "phone"}
  PROVE  /\ Len(ScriptOf(k)) = 2 /\ Len(ScriptOf(k)[1]) = 1 /\ Len(ScriptOf(k)[2]) = 2
         /\ ScriptOf(k)[1][1] = Alter("num")
         /\ ScriptOf(k)[2][1] = InsertMissing("id") /\ ScriptOf(k)[2][2] = Update("all")
  BY DEF ScriptOf, ip_address_to_database, phone_number_to_database, OneRow

LEMMA CreateShape ==
  ASSUME NEW k \in RowKinds
  PROVE  /\ Len(CreateOf(k)) = 2 /\ Len(CreateOf(k)[1]) = 1 /\ Len(CreateOf(k)[2]) = 1
         /\ CreateOf(k)[1][1] = Alter("num") /\ CreateOf(k)[2][1] = Alter("text")
         /\ IsScript(CreateOf(k))
<1>1. CreateOf(k) = CreateTable
  BY DEF RowKinds, CreateOf, tg_chat_create_table, tg_channel_create_table,
       tg_user_create_table, tg_dialogs_create_table, tg_messages_create_table
<1>2. /\ Len(CreateTable) = 2 /\ Len(CreateTable[1]) = 1 /\ Len(CreateTable[2]) = 1
      /\ CreateTable[1][1] = Alter("num") /\ CreateTable[2][1] = Alter("text")
  BY DEF CreateTable
<1>3. \A e \in 1..2 : e = 1 \/ e = 2
  OBVIOUS
<1>4. Alter("num") \in Statement_ /\ Alter("text") \in Statement_
  BY DEF Statement_, Alter
<1>5. IsScript(CreateTable)
  BY <1>2, <1>3, <1>4 DEF IsScript
<1> QED
  BY <1>1, <1>2, <1>5

LEMMA OtherScripts ==
  /\ Len(ScriptOf("key")) = 3 /\ Len(ScriptOf("key")[3]) = 1
     /\ ScriptOf("key")[3][1] = Update("id")
  /\ Len(ScriptOf("dialog")) = 1 /\ Len(ScriptOf("dialog")[1]) = 2
     /\ ScriptOf("dialog")[1][1] = InsertMissing("key")
     /\ ScriptOf("dialog")[1][2] = Update("key")
  /\ \A k \in {"read", "top"} :
        Len(ScriptOf(k)) = 1 /\ Len(ScriptOf(k)[1]) = 1 /\ ScriptOf(k)[1][1] = Bad
<1>1. /\ ScriptOf("key") = auth_key_to_database /\ ScriptOf("dialog") = RowOfKey
      /\ \A k \in {"read", "top"} : ScriptOf(k) = <<<<Bad>>>>
  BY DEF ScriptOf, tg_dialog_to_database, tg_messages_set_read, tg_dialog_set_top_message
<1>2. /\ Len(auth_key_to_database) = 3 /\ Len(auth_key_to_database[3]) = 1
      /\ auth_key_to_database[3][1] = Update("id")
  BY DEF auth_key_to_database
<1>3. /\ Len(RowOfKey) = 1 /\ Len(RowOfKey[1]) = 2
      /\ RowOfKey[1][1] = InsertMissing("key") /\ RowOfKey[1][2] = Update("key")
  BY DEF RowOfKey
<1>4. Len(<<<<Bad>>>>) = 1 /\ Len(<<<<Bad>>>>[1]) = 1 /\ <<<<Bad>>>>[1][1] = Bad
  OBVIOUS
<1> QED
  BY <1>1, <1>2, <1>3, <1>4

---------------------------------------------------------------------------
(* The inductive invariant.                                                *)

\* Where an account is, in the script of what it does.
Valid(a) ==
    /\ op[a].at = "start" => kind \in RowKinds
    /\ op[a].at = "save" =>
          /\ op[a].exec \in 1..Len(ScriptOf(kind))
          /\ op[a].stmt \in 1..Len(ScriptOf(kind)[op[a].exec])
          /\ op[a].key \in RowsOf
          /\ op[a].num.by = a /\ op[a].num.text \in TextsOf(kind)
    /\ op[a].at = "save" /\ kind \in {"ip", "phone"} /\ op[a].inserted =>
          op[a].exec = 2 /\ op[a].stmt = 2

\* A row is all of the last save of it, which was of the account whose row it is.
OwnRow(row) == row.num # Null => row.num.by = row.id /\ AsSaved(row, row.num)
RowsOwn == \A i \in DOMAIN rows : OwnRow(rows[i])

\* The columns a save finds, as long as nothing fails.
Columns ==
    /\ kind \in RowKinds => "key" \in cols
    /\ kind = "dialog" /\ faults = 0 =>
          \A a \in Accounts :
             /\ op[a].at = "start" /\ op[a].exec = 2 => "num" \in cols
             /\ op[a].at # "start" => {"num", "text"} \subseteq cols
    /\ kind \in {"ip", "phone"} /\ faults = 0 =>
          \A a \in Accounts : op[a].at = "save" /\ op[a].exec = 2 => "num" \in cols

\* An UPDATE finds the row that was inserted for it.
Found ==
    \A a \in Accounts :
        (/\ op[a].at = "save" /\ kind \in OfRows /\ (kind = "key" => faults = 0)
         /\ Statement(a).do = "update")
        => \E i \in DOMAIN rows : Matches(a, Statement(a), rows[i])

\* What was saved is in the rows, and nobody is saving the like.
Trusted(s) == kind \in {"key", "dialog"} => faults = 0 /\ s.text # "quoted"
Places(a, k) == {i \in DOMAIN rows : rows[i].id = a /\ (k = Null \/ rows[i].key = k)}
\* The columns that a save of any text needs and a read names.
Written(k) ==
    {"num"} \cup (IF k = Null THEN {} ELSE {"key"})
    \cup (IF kind = "peer_photo" THEN {"text"} ELSE {})
InRows(a, k) ==
    /\ Written(k) \subseteq cols
    /\ Places(a, k) # {}
    /\ \A i \in Places(a, k) : AsSaved(rows[i], saved[a][k])
SavedRow ==
    \A a \in Accounts, k \in Keys \cup {Null} : saved[a][k] # Null =>
        /\ k \in RowsOf /\ kind \notin {"read", "top"}
        /\ \A b \in Accounts : op[b].at = "save" => op[b].key # k
        /\ kind \in OfRows /\ Trusted(saved[a][k]) => InRows(a, k)

\* A row that is not filled yet is in the making.
Torn ==
    (kind \in {"ip", "phone"} /\ faults = 0 /\ \E i \in DOMAIN rows : rows[i].num = Null)
    => \E a \in Accounts : op[a].at = "save" /\ op[a].inserted

StoreInv ==
    /\ StoreTypeOK
    /\ \A a \in Accounts : Valid(a)
    /\ RowsOwn
    /\ Columns
    /\ Found
    /\ SavedRow
    /\ Torn

---------------------------------------------------------------------------
(* What a step does to the operation it is a step of.                      *)

LEMMA OpCases ==
  ASSUME NEW o \in Ops
  PROVE  \/ o.at = "idle" /\ o = Idle
         \/ /\ o.at = "start" /\ o.exec \in 1..2 /\ o.stmt = 1
            /\ o \in [at : {"start"}, exec : 1..2, stmt : {1}]
         \/ o.at = "save" /\ o \in SaveOps
<1>1. CASE o \in [at : {"idle"}]
  BY <1>1 DEF Idle
<1>2. CASE o \in [at : {"start"}, exec : 1..2, stmt : {1}]
  BY <1>2
<1>3. CASE o \in SaveOps
  BY <1>3 DEF SaveOps
<1> QED
  BY <1>1, <1>2, <1>3 DEF Ops, SaveOps

LEMMA OpsMembers ==
  /\ Idle \in Ops /\ Starting \in Ops /\ SaveOps \subseteq Ops
  /\ [at : {"start"}, exec : {2}, stmt : {1}] \subseteq Ops
  BY DEF Ops, Idle, Starting, SaveOps

\* The length of a call.
LEMMA CallLength ==
  ASSUME NEW s, IsScript(s), NEW e \in 1..Len(s)
  PROVE  Len(s) \in Nat /\ Len(s) <= 3 /\ Len(s[e]) \in Nat /\ Len(s[e]) >= 1 /\ Len(s[e]) <= 4
<1>1. Len(s) \in 0..3
  BY DEF IsScript
<1>2. Len(s[e]) \in 1..4
  BY DEF IsScript
<1>3. \A n \in 0..3 : n \in Nat /\ n <= 3
  OBVIOUS
<1>4. \A n \in 1..4 : n \in Nat /\ n >= 1 /\ n <= 4
  OBVIOUS
<1> QED
  BY <1>1, <1>2, <1>3, <1>4, Zenon

LEMMA KindHasScript ==
  ASSUME StoreAssumption, kind \in Kinds
  PROVE  IsScript(ScriptOf(kind)) /\ (kind \in RowKinds => IsScript(CreateOf(kind)))
  BY ScriptShape, CreateShape DEF StoreAssumption

\* The start: two calls of one statement.
LEMMA StepOfStart ==
  ASSUME StoreAssumption, StoreTypeOK, NEW a \in Accounts, Valid(a), op[a].at = "start",
         NEW ok \in BOOLEAN, Step(a, ok)
  PROVE  /\ saved' = saved
         /\ \/ op[a].exec = 2 /\ op' = [op EXCEPT ![a] = Idle]
            \/ /\ op[a].exec = 1
               /\ \E o \in [at : {"start"}, exec : {2}, stmt : {1}] :
                     op' = [op EXCEPT ![a] = o]
<1>1. kind \in RowKinds /\ Script(a) = CreateOf(kind)
  BY DEF Valid, Script
<1>2. Len(Script(a)) = 2 /\ Len(Script(a)[1]) = 1 /\ Len(Script(a)[2]) = 1
  BY <1>1, CreateShape
<1>3. /\ op[a].exec \in 1..2 /\ op[a].stmt = 1
      /\ op[a] \in [at : {"start"}, exec : 1..2, stmt : {1}]
  BY OpCases DEF StoreTypeOK, Idle
<1>4. op[a].exec = 1 \/ op[a].exec = 2
  BY <1>3
<1>5. NextOf(a, ok) = [exec |-> op[a].exec + 1, stmt |-> 1]
  <2>1. CASE op[a].exec = 1
    BY <2>1, <1>2, <1>3 DEF NextOf
  <2>2. CASE op[a].exec = 2
    BY <2>2, <1>2, <1>3 DEF NextOf
  <2> QED
    BY <1>4, <2>1, <2>2
<1>6. CASE op[a].exec = 1
  <2>1. NextOf(a, ok).exec = 2 /\ NextOf(a, ok).stmt = 1 /\ ~(NextOf(a, ok).exec > Len(Script(a)))
    BY <1>2, <1>5, <1>6
  <2>2. /\ saved' = saved
        /\ op' = [op EXCEPT ![a] = [op[a] EXCEPT !.exec = 2, !.stmt = 1]]
    BY <2>1 DEF Step
  <2>3. [op[a] EXCEPT !.exec = 2, !.stmt = 1] \in [at : {"start"}, exec : {2}, stmt : {1}]
    BY <1>3
  <2> QED
    BY <1>6, <2>2, <2>3
<1>7. CASE op[a].exec = 2
  <2>1. NextOf(a, ok).exec > Len(Script(a))
    BY <1>2, <1>5, <1>7
  <2> QED
    BY <1>7, <2>1, <1>3 DEF Step
<1> QED
  BY <1>4, <1>6, <1>7

\* The places of a script after which a save goes on, or is over.
After(a, ok, e, j) ==
    \/ ok /\ e = op[a].exec /\ j = op[a].stmt + 1
    \/ /\ e = op[a].exec + 1 /\ j = 1
       /\ ok => op[a].stmt = Len(ScriptOf(kind)[op[a].exec])

\* A save that goes on, and one that is over.
GoesOn(a, ok, e, j, good, inserted) ==
    /\ After(a, ok, e, j)
    /\ e \in 1..Len(ScriptOf(kind)) /\ j \in 1..Len(ScriptOf(kind)[e])
    /\ inserted <=> (op[a].inserted \/ (ok /\ Statement(a).do = "insert_missing"))
    /\ op' = [op EXCEPT ![a] = [op[a] EXCEPT !.exec = e, !.stmt = j, !.ok = good,
                                             !.inserted = inserted]]
    /\ saved' = saved
IsSaved(a, ok) ==
    /\ ok \/ Ignored(a)
    /\ AloneOn(a)
    /\ saved' = [saved EXCEPT ![a][op[a].key] = op[a].num]
IsOver(a, ok) ==
    /\ op[a].exec = Len(ScriptOf(kind))
    /\ ok => op[a].stmt = Len(ScriptOf(kind)[op[a].exec])
    /\ op' = [op EXCEPT ![a] = Idle]
    /\ saved' = saved \/ IsSaved(a, ok)

LEMMA StepOfSave ==
  ASSUME StoreAssumption, StoreTypeOK, NEW a \in Accounts, Valid(a), op[a].at = "save",
         NEW ok \in BOOLEAN, Step(a, ok)
  PROVE  \/ \E e \in 1..3, j \in 1..4, good \in BOOLEAN, inserted \in BOOLEAN :
               GoesOn(a, ok, e, j, good, inserted)
         \/ IsOver(a, ok)
<1> DEFINE s == ScriptOf(kind)
           n == NextOf(a, ok)
<1>1. Script(a) = s
  BY DEF Script
<1>2. /\ op[a] \in SaveOps
      /\ op[a].exec \in 1..Len(s) /\ op[a].stmt \in 1..Len(s[op[a].exec])
  BY OpCases DEF StoreTypeOK, Valid, Idle
<1>3. IsScript(s)
  BY KindHasScript DEF StoreTypeOK
<1>4. /\ Len(s) \in Nat /\ Len(s) <= 3
      /\ Len(s[op[a].exec]) \in Nat /\ Len(s[op[a].exec]) <= 4
  BY <1>2, <1>3, CallLength
<1>5. op[a].exec \in Nat /\ op[a].stmt \in Nat
  BY <1>2 DEF SaveOps
<1>6. After(a, ok, n.exec, n.stmt)
  BY <1>1, <1>2, <1>4, <1>5 DEF After, NextOf
<1>7. CASE ~(n.exec > Len(s))
  <2>1. n.exec \in 1..Len(s) /\ n.exec \in 1..3
    BY <1>2, <1>4, <1>5, <1>6, <1>7 DEF After
  <2>2. Len(s[n.exec]) \in Nat /\ Len(s[n.exec]) >= 1 /\ Len(s[n.exec]) <= 4
    BY <1>3, <2>1, CallLength
  <2>3. n.stmt \in 1..Len(s[n.exec]) /\ n.stmt \in 1..4
    <3>1. CASE n.exec = op[a].exec
      BY <3>1, <1>1, <1>2, <1>4, <1>5, <2>2 DEF NextOf
    <3>2. CASE n.exec # op[a].exec
      BY <3>2, <1>1, <1>2, <1>4, <1>5, <2>2 DEF NextOf
    <3> QED
      BY <3>1, <3>2
  <2>4. PICK good \in BOOLEAN, inserted \in BOOLEAN :
          /\ inserted <=> (op[a].inserted \/ (ok /\ Statement(a).do = "insert_missing"))
          /\ op' = [op EXCEPT ![a] = [op[a] EXCEPT !.exec = n.exec, !.stmt = n.stmt,
                                               !.ok = good, !.inserted = inserted]]
          /\ saved' = saved
    <3> DEFINE g == op[a].at = "save" => op[a].ok /\ (ok \/ Ignored(a))
               i == op[a].inserted \/ (ok /\ Statement(a).do = "insert_missing")
    <3>1. g \in BOOLEAN /\ i \in BOOLEAN
      OBVIOUS
    <3>2. op' = [op EXCEPT ![a] = [op[a] EXCEPT !.exec = n.exec, !.stmt = n.stmt,
                                            !.ok = g, !.inserted = i]]
          /\ saved' = saved
      BY <1>1, <1>7 DEF Step
    <3>3. i <=> (op[a].inserted \/ (ok /\ Statement(a).do = "insert_missing"))
      OBVIOUS
    <3> HIDE DEF g, i
    <3> QED
      BY <3>1, <3>2, <3>3
  <2>5. GoesOn(a, ok, n.exec, n.stmt, good, inserted)
    BY <1>6, <2>1, <2>3, <2>4 DEF GoesOn
  <2> HIDE DEF n
  <2> QED
    BY <2>1, <2>3, <2>5
<1>8. CASE n.exec > Len(s)
  <2>1. op[a].exec = Len(s) /\ (ok => op[a].stmt = Len(s[op[a].exec]))
    BY <1>2, <1>4, <1>5, <1>6, <1>8 DEF After
  <2>2. op' = [op EXCEPT ![a] = Idle]
    BY <1>1, <1>8 DEF Step
  <2>3. saved' = saved \/ IsSaved(a, ok)
    BY <1>1, <1>8 DEF Step, IsSaved
  <2> QED
    BY <2>1, <2>2, <2>3 DEF IsOver
<1> QED
  BY <1>7, <1>8

\* The same, of the fields of the operation.
NextInScript(a, ok) ==
    /\ op'[a] \in SaveOps
    /\ op'[a].key = op[a].key /\ op'[a].num = op[a].num
    /\ op'[a].inserted <=> (op[a].inserted \/ (ok /\ Statement(a).do = "insert_missing"))
    /\ After(a, ok, op'[a].exec, op'[a].stmt)
    /\ op'[a].exec \in 1..Len(ScriptOf(kind))
    /\ op'[a].stmt \in 1..Len(ScriptOf(kind)[op'[a].exec])
    /\ saved' = saved

LEMMA NextOfSave ==
  ASSUME StoreAssumption, StoreTypeOK, NEW a \in Accounts, Valid(a), op[a].at = "save",
         NEW ok \in BOOLEAN, Step(a, ok)
  PROVE  NextInScript(a, ok) \/ (op'[a] = Idle /\ IsOver(a, ok))
<1>1. op \in [Accounts -> Ops] /\ op[a] \in SaveOps
  BY OpCases DEF StoreTypeOK, Idle
<1>2. ASSUME NEW e \in 1..3, NEW j \in 1..4, NEW good \in BOOLEAN, NEW inserted \in BOOLEAN,
             GoesOn(a, ok, e, j, good, inserted)
      PROVE  NextInScript(a, ok)
  <2> DEFINE o == [op[a] EXCEPT !.exec = e, !.stmt = j, !.ok = good, !.inserted = inserted]
  <2>1. /\ o \in SaveOps
        /\ o.key = op[a].key /\ o.num = op[a].num
        /\ o.exec = e /\ o.stmt = j /\ o.inserted = inserted
    BY <1>1 DEF SaveOps
  <2>2. op' = [op EXCEPT ![a] = o]
    BY <1>2 DEF GoesOn
  <2> HIDE DEF o
  <2>3. op'[a] = o
    BY <1>1, <2>2
  <2>4. /\ After(a, ok, op'[a].exec, op'[a].stmt)
        /\ op'[a].exec \in 1..Len(ScriptOf(kind))
        /\ op'[a].stmt \in 1..Len(ScriptOf(kind)[op'[a].exec])
        /\ op'[a].inserted <=> (op[a].inserted \/ (ok /\ Statement(a).do = "insert_missing"))
        /\ saved' = saved
    BY <1>2, <2>1, <2>3 DEF GoesOn
  <2> QED
    BY <2>1, <2>3, <2>4 DEF NextInScript
<1>3. IsOver(a, ok) => op'[a] = Idle
  BY <1>1 DEF IsOver
<1> QED
  BY <1>2, <1>3, StepOfSave

\* A step is of one account, and leaves every account at a place of its script.
LEMMA StepFrame ==
  ASSUME StoreAssumption, StoreTypeOK, \A b \in Accounts : Valid(b), kind' = kind,
         NEW a \in Accounts, InOp(a), NEW ok \in BOOLEAN, Step(a, ok)
  PROVE  /\ op' \in [Accounts -> Ops]
         /\ \A b \in Accounts \ {a} : op'[b] = op[b]
         /\ \A b \in Accounts : Valid(b)'
         /\ saved' \in [Accounts -> [Keys \cup {Null} -> Numbers \cup {Null}]]
<1>0. op \in [Accounts -> Ops] /\ saved \in [Accounts -> [Keys \cup {Null} -> Numbers \cup {Null}]]
  BY DEF StoreTypeOK
<1>1. RowsOf' = RowsOf
  BY DEF RowsOf
<1>2. ASSUME NEW o \in Ops, op' = [op EXCEPT ![a] = o],
             o.at = "start" => kind \in RowKinds,
             o.at = "save" =>
                /\ o.exec \in 1..Len(ScriptOf(kind))
                /\ o.stmt \in 1..Len(ScriptOf(kind)[o.exec])
                /\ o.key \in RowsOf
                /\ o.num.by = a /\ o.num.text \in TextsOf(kind),
             o.at = "save" /\ kind \in {"ip", "phone"} /\ o.inserted =>
                o.exec = 2 /\ o.stmt = 2
      PROVE  /\ op' \in [Accounts -> Ops]
             /\ \A b \in Accounts \ {a} : op'[b] = op[b]
             /\ \A b \in Accounts : Valid(b)'
  <2>1. op' \in [Accounts -> Ops] /\ op'[a] = o /\ \A b \in Accounts \ {a} : op'[b] = op[b]
    BY <1>0, <1>2
  <2>2. Valid(a)'
    BY <1>1, <1>2, <2>1 DEF Valid
  <2>3. ASSUME NEW b \in Accounts \ {a} PROVE Valid(b)'
    <3>1. op'[b] = op[b] /\ Valid(b)
      BY <2>1
    <3> QED
      BY <1>1, <3>1 DEF Valid
  <2> QED
    BY <2>1, <2>2, <2>3
<1>3. Idle \in Ops /\ Idle.at = "idle"
  BY OpsMembers DEF Idle
<1>4. CASE op[a].at = "start"
  <2>1. /\ saved' = saved
        /\ \/ op' = [op EXCEPT ![a] = Idle]
           \/ \E o \in [at : {"start"}, exec : {2}, stmt : {1}] :
                 op' = [op EXCEPT ![a] = o]
    BY <1>4, StepOfStart
  <2>2. CASE op' = [op EXCEPT ![a] = Idle]
    BY <1>0, <1>2, <1>3, <2>1, <2>2
  <2>3. ASSUME NEW o \in [at : {"start"}, exec : {2}, stmt : {1}], op' = [op EXCEPT ![a] = o]
        PROVE  /\ op' \in [Accounts -> Ops]
               /\ \A b \in Accounts \ {a} : op'[b] = op[b]
               /\ \A b \in Accounts : Valid(b)'
    <3>1. o \in Ops /\ o.at = "start" /\ kind \in RowKinds
      BY <1>4, OpsMembers DEF Valid
    <3> QED
      BY <1>2, <2>3, <3>1
  <2> QED
    BY <1>0, <2>1, <2>2, <2>3
<1>5. CASE op[a].at = "save"
  <2>1. op[a] \in SaveOps
    BY <1>0, <1>5, OpCases DEF Idle
  <2>2. IsOver(a, ok) \/ \E e \in 1..3, j \in 1..4, good \in BOOLEAN, inserted \in BOOLEAN :
                   GoesOn(a, ok, e, j, good, inserted)
    BY <1>5, StepOfSave
  <2>3. ASSUME IsOver(a, ok)
        PROVE  /\ op' \in [Accounts -> Ops]
               /\ \A b \in Accounts \ {a} : op'[b] = op[b]
               /\ \A b \in Accounts : Valid(b)'
    BY <1>2, <1>3, <2>3 DEF IsOver
  <2>4. ASSUME IsOver(a, ok)
        PROVE  saved' \in [Accounts -> [Keys \cup {Null} -> Numbers \cup {Null}]]
    <3>1. op[a].num \in Numbers
      BY <2>1 DEF SaveOps
    <3>2. op[a].key \in Keys \cup {Null}
      BY <2>1 DEF SaveOps
    <3> DEFINE v == op[a].num
               key == op[a].key
    <3>3. saved' = saved \/ saved' = [saved EXCEPT ![a][key] = v]
      BY <2>4 DEF IsOver, IsSaved
    <3>4. v \in Numbers \cup {Null} /\ key \in Keys \cup {Null}
      BY <3>1, <3>2
    <3> HIDE DEF v, key
    <3>5. [saved EXCEPT ![a][key] = v] \in [Accounts -> [Keys \cup {Null} -> Numbers \cup {Null}]]
      BY <1>0, <3>4
    <3> QED
      BY <1>0, <3>3, <3>5
  <2>5. ASSUME NEW e \in 1..3, NEW j \in 1..4, NEW good \in BOOLEAN, NEW inserted \in BOOLEAN,
               GoesOn(a, ok, e, j, good, inserted)
        PROVE  /\ op' \in [Accounts -> Ops]
               /\ \A b \in Accounts \ {a} : op'[b] = op[b]
               /\ \A b \in Accounts : Valid(b)'
    <3> DEFINE o == [op[a] EXCEPT !.exec = e, !.stmt = j, !.ok = good,
                                  !.inserted = inserted]
    <3>1. /\ o \in SaveOps /\ o.at = "save" /\ o.exec = e /\ o.stmt = j
          /\ o.inserted = inserted /\ o.key = op[a].key /\ o.num = op[a].num
      BY <2>1 DEF SaveOps
    <3>2. o \in Ops
      BY <3>1, OpsMembers
    <3>3. op[a].key \in RowsOf /\ op[a].num.by = a /\ op[a].num.text \in TextsOf(kind)
      BY <1>5 DEF Valid
    <3>4. ASSUME kind \in {"ip", "phone"}, inserted
          PROVE  e = 2 /\ j = 2
      <4>1. /\ Len(ScriptOf(kind)) = 2
            /\ Len(ScriptOf(kind)[1]) = 1 /\ Len(ScriptOf(kind)[2]) = 2
            /\ ScriptOf(kind)[1][1] = Alter("num")
        BY <3>4, OneRowScript
      <4>2. op[a].exec \in 1..2 /\ op[a].stmt \in 1..Len(ScriptOf(kind)[op[a].exec])
        BY <1>5, <4>1 DEF Valid
      <4>3. CASE op[a].inserted
        <5>1. op[a].exec = 2 /\ op[a].stmt = 2
          BY <1>5, <3>4, <4>3 DEF Valid
        <5>2. j \in 1..Len(ScriptOf(kind)[e]) /\ e \in 1..2
          BY <2>5, <4>1 DEF GoesOn
        <5>3. e = 2
          BY <2>5, <5>1, <5>2 DEF After, GoesOn
        <5>4. j \in 1..2
          BY <4>1, <5>2, <5>3
        <5> QED
          BY <2>5, <5>1, <5>3, <5>4 DEF After, GoesOn
      <4>4. CASE ok /\ Statement(a).do = "insert_missing"
        <5>1. Statement(a) = ScriptOf(kind)[op[a].exec][op[a].stmt]
          BY <1>5 DEF Statement, Script
        <5>2. op[a].exec = 2
          <6>1. SUFFICES ASSUME op[a].exec = 1 PROVE FALSE
            BY <4>2
          <6>2. op[a].stmt \in 1..1
            BY <4>1, <4>2, <6>1
          <6>3. Statement(a) = Alter("num")
            BY <4>1, <5>1, <6>1, <6>2
          <6> QED
            BY <4>4, <6>3 DEF Alter
        <5>3. op[a].stmt \in 1..2 /\ Len(ScriptOf(kind)[op[a].exec]) = 2
          BY <4>1, <4>2, <5>2
        <5>4. e \in 1..2
          BY <2>5, <4>1 DEF GoesOn
        <5>5. e = 2 /\ j = op[a].stmt + 1
          BY <2>5, <4>4, <5>2, <5>3, <5>4 DEF After, GoesOn
        <5>6. j \in 1..2
          BY <2>5, <4>1, <5>5 DEF GoesOn
        <5> QED
          BY <5>3, <5>5, <5>6
      <4> QED
        BY <2>5, <3>4, <4>3, <4>4 DEF GoesOn
    <3>5. op' = [op EXCEPT ![a] = o]
      BY <2>5 DEF GoesOn
    <3> HIDE DEF o
    <3> QED
      BY <1>2, <2>5, <3>1, <3>2, <3>3, <3>4, <3>5 DEF GoesOn
  <2>6. ASSUME NEW e \in 1..3, NEW j \in 1..4, NEW good \in BOOLEAN, NEW inserted \in BOOLEAN,
               GoesOn(a, ok, e, j, good, inserted)
        PROVE  saved' \in [Accounts -> [Keys \cup {Null} -> Numbers \cup {Null}]]
    BY <1>0, <2>6 DEF GoesOn
  <2> QED
    BY <2>2, <2>3, <2>4, <2>5, <2>6
<1> QED
  BY <1>0, <1>4, <1>5, OpCases DEF InOp, Idle

---------------------------------------------------------------------------
(* What a statement does to the rows.                                      *)

LEMMA StatementShape ==
  ASSUME StoreAssumption, StoreTypeOK, NEW a \in Accounts, Valid(a), InOp(a)
  PROVE  /\ Statement(a) \in Statement_
         /\ op[a].at = "start" => Statement(a).do = "alter"
         /\ op[a].at = "save" =>
               Statement(a) = ScriptOf(kind)[op[a].exec][op[a].stmt]
<1>1. CASE op[a].at = "start"
  <2>1. kind \in RowKinds /\ Statement(a) = CreateOf(kind)[op[a].exec][op[a].stmt]
    BY <1>1 DEF Valid, Statement, Script
  <2>2. (op[a].exec = 1 \/ op[a].exec = 2) /\ op[a].stmt = 1
    BY <1>1, OpCases DEF StoreTypeOK, Idle
  <2>3. Statement(a) = Alter("num") \/ Statement(a) = Alter("text")
    BY <2>1, <2>2, CreateShape
  <2> QED
    BY <1>1, <2>3 DEF Alter, Statement_
<1>2. CASE op[a].at = "save"
  <2>1. Statement(a) = ScriptOf(kind)[op[a].exec][op[a].stmt]
    BY <1>2 DEF Statement, Script
  <2>2. /\ op[a].exec \in 1..Len(ScriptOf(kind))
        /\ op[a].stmt \in 1..Len(ScriptOf(kind)[op[a].exec])
    BY <1>2 DEF Valid
  <2>3. IsScript(ScriptOf(kind))
    BY KindHasScript DEF StoreTypeOK
  <2> QED
    BY <1>2, <2>1, <2>2, <2>3 DEF IsScript
<1> QED
  BY <1>1, <1>2, OpCases DEF InOp, StoreTypeOK, Idle

\* An update keeps what a row is, and an insertion what is there.
LEMMA UpdatedRow ==
  ASSUME NEW row \in RowSet, NEW a \in Accounts, op[a] \in SaveOps
  PROVE  /\ Updated(a, row) \in RowSet
         /\ Updated(a, row).id = a /\ Updated(a, row).num = op[a].num
         /\ Updated(a, row).key = row.key
         /\ AsSaved(Updated(a, row), op[a].num)
  BY DEF Updated, UpdatedOf, RowSet, SaveOps, AsSaved

LEMMA NewRows ==
  ASSUME NEW a \in Accounts, op[a] \in SaveOps
  PROVE  /\ NewRow(a, Null, op[a].num) \in RowSet /\ NewRow(a, Null, Null) \in RowSet
         /\ NewRow(Null, op[a].key, Null) \in RowSet
  BY DEF NewRow, RowSet, SaveOps

\* The rows that an INSERT adds.
Added(a, row) ==
    \/ Statement(a).do = "insert" /\ row = NewRow(a, Null, op[a].num)
    \/ /\ Statement(a).do = "insert_missing" /\ Statement(a).by = "id"
       /\ row = NewRow(a, Null, Null)
    \/ /\ Statement(a).do = "insert_missing" /\ Statement(a).by # "id"
       /\ row = NewRow(Null, op[a].key, Null)

LEMMA Executed ==
  ASSUME StoreAssumption, StoreTypeOK, NEW a \in Accounts, Valid(a), InOp(a),
         ~Fails(a, Statement(a)), Execute(a, Statement(a))
  PROVE  /\ cols \subseteq cols' /\ cols' \subseteq {"num", "key", "text"}
         /\ Statement(a).do = "alter" => cols' = cols \cup {Statement(a).by}
         /\ rows' \in Seq(RowSet)
         /\ \/ rows' = rows /\ Statement(a).do = "alter"
            \/ rows' = rows /\ Statement(a).do = "insert_missing" /\ op[a] \in SaveOps
               /\ \E i \in DOMAIN rows : Matches(a, Statement(a), rows[i])
            \/ /\ op[a] \in SaveOps
               /\ Len(rows') = Len(rows) + 1 /\ \A i \in DOMAIN rows : rows'[i] = rows[i]
               /\ Added(a, rows'[Len(rows) + 1])
            \/ /\ op[a] \in SaveOps /\ Statement(a).do = "update"
               /\ Needs(a, Statement(a)) \subseteq cols
               /\ rows' = [i \in DOMAIN rows |->
                             IF Matches(a, Statement(a), rows[i]) THEN Updated(a, rows[i])
                             ELSE rows[i]]
<1> DEFINE s == Statement(a)
<1>1. /\ s \in Statement_
      /\ op[a].at = "start" => s.do = "alter"
  BY StatementShape
<1>2. cols \subseteq {"num", "key", "text"} /\ rows \in Seq(RowSet)
  BY DEF StoreTypeOK, RowSet
<1>3. op[a].at = "save" => op[a] \in SaveOps
  BY OpCases DEF StoreTypeOK, Idle
<1>4. op[a].at \in {"start", "save"}
  BY OpCases DEF StoreTypeOK, InOp, Idle
<1>5. CASE s.do = "alter"
  <2>1. s.by \in {"num", "text", "key"}
    BY <1>1, <1>5 DEF Statement_
  <2> QED
    BY <1>2, <1>5, <2>1 DEF Execute
<1>6. CASE s.do = "insert"
  <2>1. op[a] \in SaveOps
    BY <1>1, <1>3, <1>4, <1>6
  <2>2. rows' = Append(rows, NewRow(a, Null, op[a].num)) /\ cols' = cols
    BY <1>6 DEF Execute
  <2>3. NewRow(a, Null, op[a].num) \in RowSet
    BY <2>1, NewRows
  <2>4. rows' \in Seq(RowSet) /\ Len(rows') = Len(rows) + 1
        /\ (\A i \in DOMAIN rows : rows'[i] = rows[i])
        /\ rows'[Len(rows) + 1] = NewRow(a, Null, op[a].num)
    BY <1>2, <2>2, <2>3
  <2> QED
    BY <1>2, <1>6, <2>1, <2>2, <2>4 DEF Added
<1>7. CASE s.do = "insert_missing"
  <2>1. op[a] \in SaveOps
    BY <1>1, <1>3, <1>4, <1>7
  <2> DEFINE row == IF s.by = "id" THEN NewRow(a, Null, Null) ELSE NewRow(Null, op[a].key, Null)
  <2>2. cols' = cols
        /\ rows' = IF \E i \in DOMAIN rows : Matches(a, s, rows[i]) THEN rows
                   ELSE Append(rows, row)
    BY <1>7 DEF Execute
  <2>3. CASE \E i \in DOMAIN rows : Matches(a, s, rows[i])
    BY <1>2, <1>7, <2>1, <2>2, <2>3
  <2>4. CASE ~\E i \in DOMAIN rows : Matches(a, s, rows[i])
    <3>1. row \in RowSet
      BY <2>1, NewRows
    <3>2. Added(a, row)
      BY <1>7 DEF Added
    <3>3. rows' = Append(rows, row)
      BY <2>2, <2>4
    <3> HIDE DEF row
    <3>4. rows' \in Seq(RowSet) /\ Len(rows') = Len(rows) + 1
          /\ (\A i \in DOMAIN rows : rows'[i] = rows[i])
          /\ rows'[Len(rows) + 1] = row
      BY <1>2, <3>1, <3>3
    <3> QED
      BY <1>2, <1>7, <2>1, <2>2, <3>2, <3>4
  <2> QED
    BY <2>3, <2>4
<1>8. CASE s.do = "update"
  <2>1. op[a] \in SaveOps
    BY <1>1, <1>3, <1>4, <1>8
  <2>2. cols' = cols
        /\ rows' = [i \in DOMAIN rows |-> IF Matches(a, s, rows[i]) THEN Updated(a, rows[i])
                                          ELSE rows[i]]
    BY <1>8 DEF Execute
  <2>3. Needs(a, s) \subseteq cols
    BY <1>8 DEF Fails
  <2>4. \A i \in DOMAIN rows : rows[i] \in RowSet
    BY <1>2
  <2>5. \A i \in DOMAIN rows : rows'[i] \in RowSet
    BY <2>1, <2>2, <2>4, UpdatedRow
  <2>6. rows' \in Seq(RowSet)
    <3>1. DOMAIN rows' = 1..Len(rows) /\ Len(rows) \in Nat
      BY <1>2, <2>2
    <3>2. rows' = [i \in 1..Len(rows) |-> rows'[i]]
      BY <2>2, <3>1
    <3> QED
      BY <1>2, <2>5, <3>1, <3>2
  <2> QED
    BY <1>2, <1>8, <2>1, <2>2, <2>3, <2>6
<1>9. s.do # "syntax_error"
  BY DEF Fails
<1> QED
  BY <1>1, <1>5, <1>6, <1>7, <1>8, <1>9 DEF Statement_

---------------------------------------------------------------------------
(* A statement that is executed, fails, or finds the database busy.        *)

Stepped(a, ok) ==
    /\ InOp(a) /\ Step(a, ok)
    /\ kind' = kind /\ saves' = saves /\ faults' \in 0..MaxFaults
    /\ \/ faults' = faults /\ (~ok => Fails(a, Statement(a)))
       \/ faults' = faults + 1
    /\ \/ ok /\ ~Fails(a, Statement(a)) /\ Execute(a, Statement(a))
       \/ ~ok /\ cols' = cols /\ rows' = rows

LEMMA StatementsAndBusy ==
  ASSUME StoreAssumption, StoreTypeOK, NEW a \in Accounts, Statements(a) \/ Busy(a)
  PROVE  \E ok \in BOOLEAN : Stepped(a, ok)
<1>1. faults \in 0..MaxFaults /\ MaxFaults \in Nat
  BY DEF StoreTypeOK, StoreAssumption
<1>2. CASE Statements(a)
  <2>1. InOp(a) /\ kind' = kind /\ saves' = saves /\ faults' = faults
    BY <1>2 DEF Statements
  <2>2. CASE Fails(a, Statement(a))
    <3>1. Step(a, FALSE) /\ cols' = cols /\ rows' = rows
      BY <1>2, <2>2 DEF Statements
    <3>2. Stepped(a, FALSE)
      BY <1>1, <2>1, <2>2, <3>1 DEF Stepped
    <3> QED
      BY <3>2
  <2>3. CASE ~Fails(a, Statement(a))
    <3>1. Step(a, TRUE) /\ Execute(a, Statement(a))
      BY <1>2, <2>3 DEF Statements
    <3>2. Stepped(a, TRUE)
      BY <1>1, <2>1, <2>3, <3>1 DEF Stepped
    <3> QED
      BY <3>2
  <2> QED
    BY <2>2, <2>3
<1>3. CASE Busy(a)
  <2>1. /\ InOp(a) /\ kind' = kind /\ saves' = saves /\ faults < MaxFaults
        /\ faults' = faults + 1 /\ Step(a, FALSE) /\ cols' = cols /\ rows' = rows
    BY <1>3 DEF Busy
  <2>2. faults' \in 0..MaxFaults
    BY <1>1, <2>1
  <2>3. Stepped(a, FALSE)
    BY <2>1, <2>2 DEF Stepped
  <2> QED
    BY <2>3
<1> QED
  BY <1>2, <1>3

LEMMA Faultless ==
  ASSUME StoreTypeOK, StoreAssumption, NEW a \in Accounts, NEW ok \in BOOLEAN, Stepped(a, ok),
         faults' = 0
  PROVE  faults = 0 /\ (~ok => Fails(a, Statement(a)))
<1>1. faults \in Nat
  BY DEF StoreTypeOK, StoreAssumption
<1> QED
  BY <1>1 DEF Stepped

LEMMA SteppedFrame ==
  ASSUME StoreAssumption, StoreInv, NEW a \in Accounts, NEW ok \in BOOLEAN, Stepped(a, ok)
  PROVE  /\ op' \in [Accounts -> Ops]
         /\ \A b \in Accounts \ {a} : op'[b] = op[b]
         /\ (\A b \in Accounts : Valid(b))'
         /\ saved' \in [Accounts -> [Keys \cup {Null} -> Numbers \cup {Null}]]
         /\ StoreTypeOK'
         /\ cols \subseteq cols' /\ RowsOf' = RowsOf
<1>1. StoreTypeOK /\ (\A b \in Accounts : Valid(b)) /\ kind' = kind
  BY DEF StoreInv, Stepped
<1>2. /\ op' \in [Accounts -> Ops]
      /\ \A b \in Accounts \ {a} : op'[b] = op[b]
      /\ \A b \in Accounts : Valid(b)'
      /\ saved' \in [Accounts -> [Keys \cup {Null} -> Numbers \cup {Null}]]
  BY <1>1, StepFrame DEF Stepped
<1>3. cols \subseteq cols' /\ cols' \subseteq {"num", "key", "text"} /\ rows' \in Seq(RowSet)
  <2>1. CASE ok
    <3>1. ~Fails(a, Statement(a)) /\ Execute(a, Statement(a)) /\ InOp(a)
      BY <2>1 DEF Stepped
    <3> QED
      BY <1>1, <3>1, Executed
  <2>2. CASE ~ok
    BY <1>1, <2>2 DEF Stepped, StoreTypeOK, RowSet
  <2> QED
    BY <2>1, <2>2
<1>4. StoreTypeOK'
  BY <1>1, <1>2, <1>3 DEF StoreTypeOK, Stepped, RowSet
<1> QED
  BY <1>1, <1>2, <1>3, <1>4 DEF RowsOf

\* A column that an ALTER is for is there once it is over, executed or not.
LEMMA ColumnAdded ==
  ASSUME StoreAssumption, StoreInv, NEW a \in Accounts, NEW ok \in BOOLEAN, Stepped(a, ok),
         faults' = 0, NEW c, Statement(a) = Alter(c)
  PROVE  c \in cols'
<1>1. CASE ok
  BY <1>1 DEF Stepped, Execute, Alter
<1>2. CASE ~ok
  BY <1>2, Faultless DEF Stepped, Fails, Alter, StoreInv
<1> QED
  BY <1>1, <1>2

LEMMA ColumnsKept ==
  ASSUME StoreAssumption, StoreInv, NEW a \in Accounts, NEW ok \in BOOLEAN, Stepped(a, ok)
  PROVE  Columns'
<1>1. /\ StoreTypeOK /\ (\A b \in Accounts : Valid(b)) /\ Columns /\ InOp(a) /\ kind' = kind
      /\ Step(a, ok)
  BY DEF StoreInv, Stepped
<1>2. cols \subseteq cols' /\ \A b \in Accounts \ {a} : op'[b] = op[b]
  BY SteppedFrame
<1>3. op \in [Accounts -> Ops]
  BY <1>1 DEF StoreTypeOK
<1>4. CASE op[a].at = "start"
  <2>1. kind \in RowKinds /\ kind \notin {"ip", "phone"}
    BY <1>1, <1>4 DEF Valid, RowKinds
  <2>2. \/ op[a].exec = 2 /\ op' = [op EXCEPT ![a] = Idle]
        \/ /\ op[a].exec = 1
           /\ \E o \in [at : {"start"}, exec : {2}, stmt : {1}] :
                 op' = [op EXCEPT ![a] = o]
    BY <1>1, <1>4, StepOfStart
  <2>3. Statement(a) = CreateOf(kind)[op[a].exec][op[a].stmt] /\ op[a].stmt = 1
    BY <1>3, <1>4, OpCases DEF Statement, Script, Idle
  <2>4. op[a].exec = 1 => Statement(a) = Alter("num")
    BY <2>1, <2>3, CreateShape
  <2>5. op[a].exec = 2 => Statement(a) = Alter("text")
    BY <2>1, <2>3, CreateShape
  <2>6. ASSUME kind = "dialog", faults' = 0, NEW b \in Accounts
        PROVE  /\ op'[b].at = "start" /\ op'[b].exec = 2 => "num" \in cols'
               /\ op'[b].at # "start" => {"num", "text"} \subseteq cols'
    <3>1. faults = 0
      BY <1>1, <2>6, Faultless
    <3>2. CASE b # a
      BY <1>1, <1>2, <2>6, <3>1, <3>2 DEF Columns
    <3>3. CASE b = a /\ op[a].exec = 1
      <4>1. "num" \in cols'
        BY <2>4, <2>6, <3>3, ColumnAdded
      <4>2. op'[a].at = "start"
        BY <1>3, <2>2, <3>3
      <4> QED
        BY <3>3, <4>1, <4>2
    <3>4. CASE b = a /\ op[a].exec = 2
      <4>1. "num" \in cols
        BY <1>1, <1>4, <2>6, <3>1, <3>4 DEF Columns
      <4>2. "text" \in cols'
        BY <2>5, <2>6, <3>4, ColumnAdded
      <4> QED
        BY <1>2, <3>4, <4>1, <4>2
    <3> QED
      BY <2>2, <3>2, <3>3, <3>4
  <2> QED
    BY <1>1, <1>2, <2>1, <2>6 DEF Columns
<1>5. CASE op[a].at = "save"
  <2>1. op'[a].at # "start"
    <3>1. op'[a] = Idle \/ op'[a].at = op[a].at
      BY <1>1, <1>5, NextOfSave DEF SaveOps, NextInScript
    <3> QED
      BY <1>5, <3>1 DEF Idle
  <2>2. ASSUME kind = "dialog", faults' = 0, NEW b \in Accounts
        PROVE  /\ op'[b].at = "start" /\ op'[b].exec = 2 => "num" \in cols'
               /\ op'[b].at # "start" => {"num", "text"} \subseteq cols'
    <3>1. faults = 0
      BY <1>1, <2>2, Faultless
    <3>2. {"num", "text"} \subseteq cols'
      BY <1>1, <1>2, <1>5, <2>2, <3>1 DEF Columns
    <3> QED
      BY <3>2
  <2>3. ASSUME kind \in {"ip", "phone"}, faults' = 0, NEW b \in Accounts,
               op'[b].at = "save", op'[b].exec = 2
        PROVE  "num" \in cols'
    <3>1. faults = 0
      BY <1>1, <2>3, Faultless
    <3>2. CASE b # a
      BY <1>1, <1>2, <2>3, <3>1, <3>2 DEF Columns
    <3>3. CASE b = a
      <4>1. op'[a].exec = op[a].exec \/ op'[a].exec = op[a].exec + 1
        <5>1. op'[a] # Idle
          BY <2>3, <3>3 DEF Idle
        <5>2. After(a, ok, op'[a].exec, op'[a].stmt)
          BY <1>1, <1>5, <5>1, NextOfSave DEF NextInScript
        <5> QED
          BY <5>2 DEF After
      <4>2. op[a].exec \in 1..2 /\ op[a].stmt \in 1..Len(ScriptOf(kind)[op[a].exec])
        BY <1>1, <1>5, <2>3, OneRowScript DEF Valid
      <4>3. CASE op[a].exec = 2
        BY <1>1, <1>2, <1>5, <2>3, <3>1, <4>3 DEF Columns
      <4>4. CASE op[a].exec = 1
        <5>1. op[a].stmt \in 1..1
          BY <2>3, <4>2, <4>4, OneRowScript
        <5>2. Statement(a) = Alter("num")
          BY <1>5, <2>3, <4>4, <5>1, OneRowScript DEF Statement, Script
        <5> QED
          BY <2>3, <5>2, ColumnAdded
      <4> QED
        BY <4>2, <4>3, <4>4
    <3> QED
      BY <3>2, <3>3
  <2> QED
    BY <1>1, <1>2, <2>2, <2>3 DEF Columns
<1> QED
  BY <1>1, <1>3, <1>4, <1>5, OpCases DEF InOp, Idle

LEMMA RowStatement ==
  ASSUME StoreAssumption, StoreTypeOK, NEW a \in Accounts, Valid(a), op[a].at = "save",
         kind \in OfRows
  PROVE  /\ WellPlaced(ScriptOf(kind), kind, op[a].exec, op[a].stmt)
         /\ Statement(a) = ScriptOf(kind)[op[a].exec][op[a].stmt]
         /\ Statement(a).do \in {"update", "alter", "insert_missing"}
         /\ Statement(a).do = "insert_missing" =>
               Statement(a).by = IF kind \in AccountKinds THEN "id" ELSE "key"
         /\ Statement(a).do = "update" =>
               Statement(a).by = IF kind = "key" THEN "id"
                                 ELSE IF kind \in AccountKinds THEN "all" ELSE "key"
<1>1. kind \in Tables \ {"token", "messages_hash", "message", "read", "top"}
  BY DEF OfRows, Reliable, StoreAssumption
<1>2. UpdateComesLast(kind)
  BY <1>1, Order
<1>3. /\ op[a].exec \in 1..Len(ScriptOf(kind))
      /\ op[a].stmt \in 1..Len(ScriptOf(kind)[op[a].exec])
  BY DEF Valid
<1>4. WellPlaced(ScriptOf(kind), kind, op[a].exec, op[a].stmt)
  BY <1>2, <1>3 DEF UpdateComesLast
<1>5. Statement(a) = ScriptOf(kind)[op[a].exec][op[a].stmt]
  BY DEF Statement, Script
<1> QED
  BY <1>4, <1>5 DEF WellPlaced

LEMMA RowsOwnKept ==
  ASSUME StoreAssumption, StoreInv, NEW a \in Accounts, NEW ok \in BOOLEAN, Stepped(a, ok)
  PROVE  RowsOwn'
<1>1. /\ StoreTypeOK /\ Valid(a) /\ RowsOwn /\ InOp(a)
      /\ rows \in Seq(RowSet)
  BY DEF StoreInv, Stepped, StoreTypeOK, RowSet
<1>2. CASE rows' = rows
  BY <1>1, <1>2 DEF RowsOwn, OwnRow
<1>3. CASE rows' # rows
  <2>1. ok /\ ~Fails(a, Statement(a)) /\ Execute(a, Statement(a))
    BY <1>3 DEF Stepped
  <2>2. /\ op[a] \in SaveOps /\ op[a].num.by = a /\ op[a].num.text \in TextsOf(kind)
        /\ rows' \in Seq(RowSet)
        /\ \/ /\ Len(rows') = Len(rows) + 1 /\ \A i \in DOMAIN rows : rows'[i] = rows[i]
              /\ Added(a, rows'[Len(rows) + 1])
           \/ rows' = [i \in DOMAIN rows |->
                         IF Matches(a, Statement(a), rows[i]) THEN Updated(a, rows[i])
                         ELSE rows[i]]
    <3>1. op[a] \in SaveOps => op[a].num.by = a /\ op[a].num.text \in TextsOf(kind)
      BY <1>1 DEF Valid, SaveOps
    <3> QED
      BY <1>1, <1>3, <2>1, <3>1, Executed
  <2>3. CASE /\ Len(rows') = Len(rows) + 1 /\ \A i \in DOMAIN rows : rows'[i] = rows[i]
             /\ Added(a, rows'[Len(rows) + 1])
    <3> DEFINE row == rows'[Len(rows) + 1]
    <3>1. OwnRow(row)
      <4>1. SUFFICES ASSUME row = NewRow(a, Null, op[a].num), Statement(a).do = "insert"
                     PROVE  op[a].num.text = Null
        BY <2>2, <2>3 DEF Added, NewRow, OwnRow, AsSaved
      <4>2. kind \notin TextKinds
        <5>1. op[a].at = "save" /\ op[a].exec \in 1..Len(ScriptOf(kind))
          BY <1>1, <2>2 DEF SaveOps, Valid
        <5>2. kind \notin OfRows
          BY <1>1, <4>1, <5>1, RowStatement
        <5>3. kind # "message"
          <6>1. ScriptOf("message") = <<>>
            BY DEF ScriptOf, tg_message_to_database
          <6>2. kind = "message" => 1..Len(ScriptOf(kind)) = {}
            BY <6>1
          <6> QED
            BY <5>1, <6>2
        <5> QED
          BY <1>1, <5>2, <5>3 DEF OfRows, Reliable, TextKinds, RowKinds, StoreTypeOK
      <4> QED
        BY <2>2, <4>2 DEF TextsOf, TextKinds
    <3>2. ASSUME NEW i \in DOMAIN rows' PROVE OwnRow(rows'[i])
      <4>1. i \in DOMAIN rows \/ i = Len(rows) + 1
        BY <1>1, <2>2, <2>3
      <4> QED
        BY <1>1, <2>3, <3>1, <4>1 DEF RowsOwn
    <3> QED
      BY <3>2 DEF RowsOwn, OwnRow
  <2>4. CASE rows' = [i \in DOMAIN rows |->
                        IF Matches(a, Statement(a), rows[i]) THEN Updated(a, rows[i])
                        ELSE rows[i]]
    <3>1. ASSUME NEW i \in DOMAIN rows' PROVE OwnRow(rows'[i])
      <4>1. i \in DOMAIN rows /\ rows[i] \in RowSet
        BY <1>1, <2>4
      <4>2. CASE rows'[i] = Updated(a, rows[i])
        BY <2>2, <4>1, <4>2, UpdatedRow DEF OwnRow
      <4>3. CASE rows'[i] = rows[i]
        BY <1>1, <4>1, <4>3 DEF RowsOwn
      <4> QED
        BY <2>4, <4>1, <4>2, <4>3
    <3> QED
      BY <3>1 DEF RowsOwn, OwnRow
  <2> QED
    BY <2>2, <2>3, <2>4
<1> QED
  BY <1>2, <1>3

\* What an update was to find is found still after a step of another account.
LEMMA FoundOfOthers ==
  ASSUME StoreAssumption, StoreInv, NEW a \in Accounts, NEW ok \in BOOLEAN, Stepped(a, ok),
         kind \in OfRows,
         NEW b \in Accounts \ {a}, op[b].at = "save", Statement(b).do = "update",
         NEW i \in DOMAIN rows, Matches(b, Statement(b), rows[i])
  PROVE  i \in DOMAIN rows' /\ Matches(b, Statement(b), rows'[i])
<1>1. /\ StoreTypeOK /\ Valid(a) /\ Valid(b) /\ InOp(a) /\ rows \in Seq(RowSet)
      /\ op[a] \in SaveOps => op[a].at = "save"
  BY DEF StoreInv, Stepped, StoreTypeOK, RowSet, SaveOps
<1>2. CASE ~ok
  BY <1>2 DEF Stepped
<1>3. CASE ok
  <2>1. ~Fails(a, Statement(a)) /\ Execute(a, Statement(a))
    BY <1>3 DEF Stepped
  <2>2. CASE i \in DOMAIN rows' /\ rows'[i] = rows[i]
    BY <2>2
  <2>3. CASE /\ op[a] \in SaveOps /\ Statement(a).do = "update"
             /\ rows' = [j \in DOMAIN rows |->
                           IF Matches(a, Statement(a), rows[j]) THEN Updated(a, rows[j])
                           ELSE rows[j]]
    <3>1. i \in DOMAIN rows' /\ rows[i] \in RowSet
      BY <1>1, <2>3
    <3>2. CASE ~Matches(a, Statement(a), rows[i])
      BY <2>3, <3>1, <3>2
    <3>3. CASE Matches(a, Statement(a), rows[i])
      <4>1. rows'[i] = Updated(a, rows[i])
        BY <2>3, <3>3
      <4>2. rows'[i].key = rows[i].key
        BY <2>3, <3>1, <4>1, UpdatedRow
      <4>3. Statement(a).by = Statement(b).by /\ Statement(b).by \in {"id", "all", "key"}
        BY <1>1, <2>3, RowStatement
      <4>4. Statement(b).by # "id"
        BY <3>3, <4>3 DEF Matches
      <4> QED
        BY <3>1, <4>2, <4>3, <4>4 DEF Matches
    <3> QED
      BY <3>2, <3>3
  <2> QED
    <3>1. \/ rows' = rows
          \/ Len(rows') = Len(rows) + 1 /\ rows' \in Seq(RowSet) /\ rows'[i] = rows[i]
          \/ /\ op[a] \in SaveOps /\ Statement(a).do = "update"
             /\ rows' = [j \in DOMAIN rows |->
                           IF Matches(a, Statement(a), rows[j]) THEN Updated(a, rows[j])
                           ELSE rows[j]]
      BY <1>1, <2>1, Executed
    <3>2. Len(rows') = Len(rows) + 1 /\ rows' \in Seq(RowSet) => i \in DOMAIN rows'
      BY <1>1
    <3> QED
      BY <2>2, <2>3, <3>1, <3>2
<1> QED
  BY <1>2, <1>3

\* The INSERT of a missing row leaves a row for the UPDATE behind it.
LEMMA FoundAfterInsert ==
  ASSUME StoreAssumption, StoreInv, NEW a \in Accounts, Stepped(a, TRUE),
         Statement(a).do = "insert_missing", NEW by,
         \/ Statement(a).by = "id" /\ by \in {"id", "all"}
         \/ Statement(a).by = "key" /\ by = "key"
  PROVE  \E i \in DOMAIN rows' :
            CASE by = "all" -> TRUE
              [] by = "id" -> rows'[i].id = a
              [] by = "key" -> rows'[i].key = op[a].key
              [] OTHER -> FALSE
<1>1. /\ StoreTypeOK /\ Valid(a) /\ InOp(a) /\ rows \in Seq(RowSet)
      /\ ~Fails(a, Statement(a)) /\ Execute(a, Statement(a))
  BY DEF StoreInv, Stepped, StoreTypeOK, RowSet
<1>2. \/ rows' = rows /\ \E i \in DOMAIN rows : Matches(a, Statement(a), rows[i])
      \/ /\ rows' \in Seq(RowSet) /\ Len(rows') = Len(rows) + 1
         /\ Added(a, rows'[Len(rows) + 1])
  BY <1>1, Executed
<1>3. CASE rows' = rows /\ \E i \in DOMAIN rows : Matches(a, Statement(a), rows[i])
  BY <1>3 DEF Matches
<1>4. CASE /\ rows' \in Seq(RowSet) /\ Len(rows') = Len(rows) + 1
           /\ Added(a, rows'[Len(rows) + 1])
  <2>1. Len(rows) + 1 \in DOMAIN rows'
    BY <1>1, <1>4
  <2>2. /\ Statement(a).by = "id" => rows'[Len(rows) + 1].id = a
        /\ Statement(a).by = "key" => rows'[Len(rows) + 1].key = op[a].key
    BY <1>4 DEF Added, NewRow
  <2> QED
    BY <2>1, <2>2
<1> QED
  BY <1>2, <1>3, <1>4

LEMMA FoundKept ==
  ASSUME StoreAssumption, StoreInv, NEW a \in Accounts, NEW ok \in BOOLEAN, Stepped(a, ok)
  PROVE  Found'
<1>1. /\ StoreTypeOK /\ (\A b \in Accounts : Valid(b)) /\ Found /\ InOp(a) /\ kind' = kind
      /\ Step(a, ok)
  BY DEF StoreInv, Stepped
<1>2. /\ \A b \in Accounts \ {a} : op'[b] = op[b]
      /\ OfRows' = OfRows /\ StoreTypeOK' /\ (\A b \in Accounts : Valid(b))'
  BY <1>1, SteppedFrame DEF OfRows, Reliable
<1>3. SUFFICES ASSUME NEW b \in Accounts, op'[b].at = "save", kind \in OfRows,
                      kind = "key" => faults' = 0, Statement(b)'.do = "update"
               PROVE  \E i \in DOMAIN rows' : Matches(b, Statement(b), rows[i])'
  BY <1>1, <1>2 DEF Found
<1>4. faults' = 0 => faults = 0
  BY <1>1, Faultless
<1>5. CASE b # a
  <2>1. op'[b] = op[b]
    BY <1>2, <1>5
  <2>2. Statement(b)' = Statement(b)
    BY <1>1, <2>1 DEF Statement, Script
  <2>3. PICK i \in DOMAIN rows : Matches(b, Statement(b), rows[i])
    BY <1>1, <1>3, <1>4, <2>1, <2>2 DEF Found
  <2>4. i \in DOMAIN rows' /\ Matches(b, Statement(b), rows'[i])
    BY <1>3, <1>5, <2>1, <2>2, <2>3, FoundOfOthers
  <2>5. Matches(b, Statement(b), rows[i])'
    BY <2>1, <2>2, <2>4 DEF Matches
  <2> QED
    BY <2>4, <2>5
<1>6. CASE b = a
  <2> DEFINE s == ScriptOf(kind)
             e == op'[a].exec
             j == op'[a].stmt
  <2>1. Statement(a)' = s[e][j]
    BY <1>1, <1>3, <1>6 DEF Statement, Script
  <2>2. /\ op[a].at = "save"
        /\ After(a, ok, e, j) /\ e \in 1..Len(s) /\ j \in 1..Len(s[e])
        /\ op'[a].key = op[a].key
    <3>1. op'[a] # Idle /\ op'[a].at # "start"
      BY <1>3, <1>6 DEF Idle
    <3>2. op[a].at = "save"
      <4>1. op[a].at = "start" => op'[a] = Idle \/ op'[a].at = "start"
        BY <1>1, StepOfStart DEF StoreTypeOK
      <4> QED
        BY <1>1, <3>1, <4>1, OpCases DEF InOp, StoreTypeOK, Idle
    <3> QED
      BY <1>1, <3>1, <3>2, NextOfSave DEF NextInScript
  <2>3. UpdateComesLast(kind)
    <3>1. kind \in Tables \ {"token", "messages_hash", "message", "read", "top"}
      BY <1>1, <1>3 DEF OfRows, Reliable, StoreAssumption, StoreTypeOK
    <3> QED
      BY <3>1, Order
  <2>4. WellPlaced(s, kind, e, j)
    BY <2>2, <2>3 DEF UpdateComesLast
  <2>5. s[e][j].do = "update"
    BY <1>3, <1>6, <2>1
  <2>6. op[a].exec \in Nat /\ op[a].stmt \in Nat \ {0} /\ Statement(a) = s[op[a].exec][op[a].stmt]
    <3>1. op[a] \in SaveOps
      BY <1>1, <2>2, OpCases DEF StoreTypeOK, Idle
    <3>2. op[a].exec \in 1..3 /\ op[a].stmt \in 1..4
      BY <3>1 DEF SaveOps
    <3> QED
      BY <2>2, <3>2 DEF Statement, Script
  <2>7. /\ ok /\ Statement(a).do = "insert_missing"
        /\ \/ Statement(a).by = "id" /\ s[e][j].by \in {"id", "all"}
           \/ Statement(a).by = "key" /\ s[e][j].by = "key"
    <3>1. CASE kind # "key"
      <4>1. /\ j > 1 /\ s[e][j - 1].do = "insert_missing"
            /\ \/ s[e][j - 1].by = "id" /\ s[e][j].by = "all"
               \/ s[e][j - 1].by = "key" /\ s[e][j].by = "key"
        BY <2>4, <2>5, <3>1 DEF WellPlaced
      <4>2. ok /\ op[a].exec = e /\ op[a].stmt = j - 1
        BY <2>2, <2>6, <4>1 DEF After
      <4> QED
        BY <2>6, <4>1, <4>2
    <3>2. CASE kind = "key"
      <4>1. /\ e = 3 /\ j = 1 /\ s[e][j].by = "id"
            /\ Len(s[2]) = 1 /\ s[2][1] = InsertMissing("id")
        BY <2>4, <2>5, <3>2 DEF WellPlaced
      <4>2. op[a].exec = 2
        BY <2>2, <2>6, <4>1 DEF After
      <4>3. op[a].stmt \in 1..1
        BY <1>1, <2>2, <4>1, <4>2 DEF Valid
      <4>4. Statement(a) = InsertMissing("id")
        BY <2>6, <4>1, <4>2, <4>3
      <4>5. ~Fails(a, Statement(a))
        BY <4>4 DEF Fails, Needs, InsertMissing
      <4>6. ok
        BY <1>1, <1>3, <3>2, <4>5, Faultless
      <4> QED
        BY <4>1, <4>4, <4>6 DEF InsertMissing
    <3> QED
      BY <3>1, <3>2
  <2>8. \E i \in DOMAIN rows' :
            CASE s[e][j].by = "all" -> TRUE
              [] s[e][j].by = "id" -> rows'[i].id = a
              [] s[e][j].by = "key" -> rows'[i].key = op[a].key
              [] OTHER -> FALSE
    <3>1. Stepped(a, TRUE)
      BY <2>7
    <3> HIDE DEF s, e, j
    <3> QED
      BY <2>7, <3>1, FoundAfterInsert
  <2>9. \A i \in DOMAIN rows' : Matches(a, Statement(a), rows[i])' <=>
            CASE s[e][j].by = "all" -> TRUE
              [] s[e][j].by = "id" -> rows'[i].id = a
              [] s[e][j].by = "key" -> rows'[i].key = op[a].key
              [] OTHER -> FALSE
    BY <2>1, <2>2 DEF Matches
  <2> QED
    BY <1>6, <2>8, <2>9
<1> QED
  BY <1>5, <1>6

\* The rows of a peer stay what they are while another is saved.
LEMMA RowsOfOthers ==
  ASSUME StoreAssumption, StoreInv, NEW a \in Accounts, NEW ok \in BOOLEAN, Stepped(a, ok),
         kind \in OfRows, NEW c \in Accounts, NEW k \in RowsOf,
         op[a].at = "save" => op[a].key # k
  PROVE  Places(c, k)' = Places(c, k) /\ \A i \in Places(c, k) : rows'[i] = rows[i]
<1>1. /\ StoreTypeOK /\ Valid(a) /\ InOp(a) /\ rows \in Seq(RowSet)
      /\ op[a] \in SaveOps => op[a].at = "save"
      /\ kind' = kind /\ cols \subseteq cols'
  BY SteppedFrame DEF StoreInv, Stepped, StoreTypeOK, RowSet, SaveOps
<1>2. /\ DOMAIN rows \subseteq DOMAIN rows'
      /\ \A i \in DOMAIN rows : rows'[i] = rows[i] \/ (rows[i].key # k /\ rows'[i].key # k)
      /\ \A i \in DOMAIN rows' : i \notin DOMAIN rows => (k # Null /\ rows'[i].key # k)
  <2>1. CASE rows' = rows
    BY <2>1
  <2>2. CASE rows' # rows
    <3>1. ok /\ ~Fails(a, Statement(a)) /\ Execute(a, Statement(a))
      BY <2>2 DEF Stepped
    <3>2. op[a] \in SaveOps
      BY <1>1, <2>2, <3>1, Executed
    <3>3. k # Null /\ kind \notin AccountKinds
      <4>1. op[a].key \in RowsOf /\ op[a].key # k
        BY <1>1, <3>2 DEF Valid
      <4> QED
        BY <4>1 DEF RowsOf, StoreAssumption
    <3>4. \/ Statement(a).do = "alter"
          \/ Statement(a).do \in {"update", "insert_missing"} /\ Statement(a).by = "key"
      <4>1. kind # "key"
        BY <3>3 DEF AccountKinds
      <4> QED
        BY <1>1, <3>2, <3>3, <4>1, RowStatement
    <3>5. op[a].key # k
      BY <1>1, <3>2
    <3>6. CASE /\ rows' \in Seq(RowSet)
               /\ Len(rows') = Len(rows) + 1 /\ \A i \in DOMAIN rows : rows'[i] = rows[i]
               /\ Added(a, rows'[Len(rows) + 1])
      <4>1. rows'[Len(rows) + 1].key = op[a].key
        BY <3>4, <3>6 DEF Added, NewRow
      <4>2. /\ DOMAIN rows \subseteq DOMAIN rows'
            /\ \A i \in DOMAIN rows' : i \notin DOMAIN rows => i = Len(rows) + 1
        BY <1>1, <3>6
      <4> QED
        BY <3>3, <3>5, <3>6, <4>1, <4>2
    <3>7. CASE /\ Statement(a).do = "update"
               /\ rows' = [i \in DOMAIN rows |->
                             IF Matches(a, Statement(a), rows[i]) THEN Updated(a, rows[i])
                             ELSE rows[i]]
      <4>1. DOMAIN rows' = DOMAIN rows
        BY <3>7
      <4>2. ASSUME NEW i \in DOMAIN rows, rows'[i] # rows[i]
            PROVE  rows[i].key # k /\ rows'[i].key # k
        <5>1. Matches(a, Statement(a), rows[i]) /\ rows'[i] = Updated(a, rows[i])
          BY <3>7, <4>2
        <5>2. rows[i].key = op[a].key
          BY <3>4, <3>7, <5>1 DEF Matches
        <5>3. rows[i] \in RowSet
          BY <1>1
        <5>4. rows'[i].key = rows[i].key
          BY <3>2, <5>1, <5>3, UpdatedRow
        <5> QED
          BY <3>5, <5>2, <5>4
      <4> QED
        BY <4>1, <4>2
    <3> QED
      BY <1>1, <2>2, <3>1, <3>6, <3>7, Executed
  <2> QED
    BY <2>1, <2>2
<1>3. Places(c, k) = {i \in DOMAIN rows : rows[i].id = c /\ (k = Null \/ rows[i].key = k)}
  BY DEF Places
<1>4. Places(c, k)' = {i \in DOMAIN rows' : rows'[i].id = c /\ (k = Null \/ rows'[i].key = k)}
  BY DEF Places
<1>5. CASE k # Null
  <2>1. ASSUME NEW i \in DOMAIN rows', rows'[i].key = k
        PROVE  i \in DOMAIN rows /\ rows'[i] = rows[i]
    <3>1. i \in DOMAIN rows
      BY <1>2, <2>1
    <3> QED
      BY <1>2, <2>1, <3>1
  <2>2. \A i \in DOMAIN rows : rows[i].key = k => i \in DOMAIN rows' /\ rows'[i] = rows[i]
    BY <1>2
  <2> QED
    BY <1>3, <1>4, <1>5, <2>1, <2>2
<1>6. CASE k = Null
  <2>1. rows' = rows
    <3>1. SUFFICES ASSUME rows' # rows PROVE FALSE
      OBVIOUS
    <3>2. ok /\ ~Fails(a, Statement(a)) /\ Execute(a, Statement(a))
      BY <3>1 DEF Stepped
    <3>3. op[a] \in SaveOps
      BY <1>1, <3>1, <3>2, Executed
    <3>4. op[a].key \in RowsOf /\ op[a].key # k
      BY <1>1, <3>3 DEF Valid
    <3> QED
      BY <1>6, <3>4 DEF RowsOf, StoreAssumption
  <2> QED
    BY <1>3, <1>4, <2>1
<1> QED
  BY <1>5, <1>6

\* A save that is over has left the row as it was to be.
LEMMA SavedInRows ==
  ASSUME StoreAssumption, StoreInv, NEW a \in Accounts, NEW ok \in BOOLEAN, Stepped(a, ok),
         op[a].at = "save", IsOver(a, ok), IsSaved(a, ok), kind \in OfRows,
         kind \in {"key", "dialog"} => faults' = 0 /\ op[a].num.text # "quoted",
         NEW k, k = op[a].key
  PROVE  /\ Written(k) \subseteq cols'
         /\ Places(a, k)' # {}
         /\ \A i \in Places(a, k)' : AsSaved(rows'[i], op[a].num)
<1>1. /\ StoreTypeOK /\ Valid(a) /\ InOp(a) /\ rows \in Seq(RowSet) /\ kind' = kind
      /\ Columns /\ Found /\ op[a] \in SaveOps /\ op[a].key \in RowsOf
      /\ op[a].exec \in 1..Len(ScriptOf(kind))
      /\ op[a].stmt \in 1..Len(ScriptOf(kind)[op[a].exec])
  BY OpCases DEF StoreInv, Stepped, StoreTypeOK, RowSet, Idle, Valid
<1>2. ok
  <2>1. SUFFICES ASSUME ~ok PROVE FALSE
    OBVIOUS
  <2>2. Ignored(a) /\ op[a].exec = Len(ScriptOf(kind)) /\ Script(a) = ScriptOf(kind)
    BY <2>1 DEF IsSaved, IsOver, Script
  <2>3. kind = "dialog" \/ (kind = "key" /\ "num" \in cols)
    BY <1>1, <2>2, KindHasScript, CallLength DEF Ignored, IsScript
  <2>4. faults = 0 /\ Fails(a, Statement(a)) /\ op[a].num.text # "quoted"
    BY <1>1, <2>1, <2>3, Faultless
  <2>5. CASE kind = "dialog"
    <3>1. {"num", "text", "key"} \subseteq cols
      BY <1>1, <2>4, <2>5 DEF Columns, RowKinds
    <3>2. op[a].exec = 1 /\ op[a].stmt \in 1..2
      BY <1>1, <2>2, <2>5, OtherScripts
    <3>3. Statement(a) = InsertMissing("key") \/ Statement(a) = Update("key")
      BY <2>2, <2>5, <3>2, OtherScripts DEF Statement
    <3> QED
      BY <2>4, <3>1, <3>3 DEF Fails, Needs, InsertMissing, Update
  <2>6. CASE kind = "key" /\ "num" \in cols
    <3>1. op[a].exec = 3 /\ op[a].stmt \in 1..1
      BY <1>1, <2>2, <2>6, OtherScripts
    <3>2. Statement(a) = Update("id")
      BY <2>2, <2>6, <3>1, OtherScripts DEF Statement
    <3>3. kind \notin TextKinds
      BY <2>6 DEF TextKinds, RowKinds
    <3> QED
      BY <2>4, <2>6, <3>2, <3>3 DEF Fails, Needs, Update
  <2> QED
    BY <2>3, <2>5, <2>6
<1>3. /\ Statement(a).do = "update"
      /\ Statement(a).by = IF kind = "key" THEN "id"
                           ELSE IF kind \in AccountKinds THEN "all" ELSE "key"
  <2>1. op[a].exec = Len(ScriptOf(kind)) /\ op[a].stmt = Len(ScriptOf(kind)[op[a].exec])
    BY <1>2 DEF IsOver
  <2>2. WellPlaced(ScriptOf(kind), kind, op[a].exec, op[a].stmt)
        /\ Statement(a) = ScriptOf(kind)[op[a].exec][op[a].stmt]
    BY <1>1, RowStatement
  <2>3. Statement(a).do = "update"
    BY <2>1, <2>2 DEF WellPlaced
  <2> QED
    BY <1>1, <2>3, RowStatement
<1>4. /\ Needs(a, Statement(a)) \subseteq cols /\ cols \subseteq cols'
      /\ rows' = [i \in DOMAIN rows |->
                    IF Matches(a, Statement(a), rows[i]) THEN Updated(a, rows[i]) ELSE rows[i]]
  <2>1. ~Fails(a, Statement(a)) /\ Execute(a, Statement(a))
    BY <1>2 DEF Stepped
  <2>2. rows' = [i \in DOMAIN rows |->
                   IF Matches(a, Statement(a), rows[i]) THEN Updated(a, rows[i]) ELSE rows[i]]
    BY <1>3, <2>1 DEF Execute
  <2>3. Needs(a, Statement(a)) \subseteq cols /\ cols' = cols
    BY <1>3, <2>1 DEF Fails, Execute
  <2> QED
    BY <2>2, <2>3
<1>5. PICK found \in DOMAIN rows : Matches(a, Statement(a), rows[found])
  BY <1>1, <1>3, Faultless DEF Found
<1>6. (k = Null <=> kind \in AccountKinds) /\ k \in Keys \cup {Null}
  BY <1>1 DEF RowsOf, StoreAssumption
<1>7. Places(a, k)' = {i \in DOMAIN rows' : rows'[i].id = a /\ (k = Null \/ rows'[i].key = k)}
  BY DEF Places
<1>12. Written(k) \subseteq cols'
  <2>1. "num" \in cols'
    BY <1>3, <1>4 DEF Needs
  <2>2. k # Null => "key" \in cols'
    <3>1. k # Null => Statement(a).by = "key"
      BY <1>3, <1>6 DEF AccountKinds
    <3> QED
      BY <1>4, <3>1 DEF Needs
  <2>3. kind = "peer_photo" => "text" \in cols'
    <3>1. kind = "peer_photo" => kind \in TextKinds /\ kind \notin RowKinds
      BY DEF TextKinds, RowKinds
    <3>2. kind = "peer_photo" => op[a].num.text # Null
      BY <1>1, <3>1 DEF Valid, TextsOf, StoreAssumption
    <3> QED
      BY <1>3, <1>4, <3>1, <3>2 DEF Needs
  <2> QED
    BY <2>1, <2>2, <2>3 DEF Written
<1>8. \A i \in DOMAIN rows : rows[i] \in RowSet /\ i \in DOMAIN rows'
  BY <1>1, <1>4
<1>9. ASSUME NEW i \in DOMAIN rows, Matches(a, Statement(a), rows[i])
      PROVE  /\ i \in DOMAIN rows' /\ rows'[i].id = a /\ rows'[i].key = rows[i].key
             /\ AsSaved(rows'[i], op[a].num)
  <2>1. rows'[i] = Updated(a, rows[i])
    BY <1>4, <1>9
  <2> QED
    BY <1>1, <1>8, <2>1, UpdatedRow
<1>10. ASSUME NEW i \in Places(a, k)'
       PROVE  i \in DOMAIN rows /\ Matches(a, Statement(a), rows[i])
  <2>1. i \in DOMAIN rows /\ rows'[i].id = a /\ (k = Null \/ rows'[i].key = k)
    BY <1>4, <1>7, <1>10
  <2>2. SUFFICES ASSUME ~Matches(a, Statement(a), rows[i]) PROVE FALSE
    BY <2>1
  <2>3. rows'[i] = rows[i]
    BY <1>4, <2>1, <2>2
  <2>4. CASE kind = "key"
    BY <1>3, <2>1, <2>2, <2>3, <2>4 DEF Matches
  <2>5. CASE kind # "key" /\ kind \in AccountKinds
    BY <1>3, <2>2, <2>5 DEF Matches
  <2>6. CASE kind \notin AccountKinds
    <3>1. kind # "key"
      BY <2>6 DEF AccountKinds
    <3> QED
      BY <1>3, <1>6, <2>1, <2>2, <2>3, <2>6, <3>1 DEF Matches
  <2> QED
    BY <2>4, <2>5, <2>6
<1>11. found \in Places(a, k)'
  <2>1. k # Null => rows[found].key = k
    <3>1. k # Null => Statement(a).by = "key"
      BY <1>3, <1>6 DEF AccountKinds
    <3> QED
      BY <1>5, <3>1 DEF Matches
  <2> QED
    BY <1>5, <1>7, <1>9, <2>1
<1> QED
  BY <1>9, <1>10, <1>11, <1>12

LEMMA SavedRowKept ==
  ASSUME StoreAssumption, StoreInv, NEW a \in Accounts, NEW ok \in BOOLEAN, Stepped(a, ok)
  PROVE  SavedRow'
<1>1. /\ StoreTypeOK /\ (\A b \in Accounts : Valid(b)) /\ SavedRow /\ InOp(a) /\ kind' = kind
      /\ Step(a, ok)
      /\ op \in [Accounts -> Ops]
      /\ saved \in [Accounts -> [Keys \cup {Null} -> Numbers \cup {Null}]]
  BY DEF StoreInv, Stepped, StoreTypeOK
<1>2. /\ \A b \in Accounts \ {a} : op'[b] = op[b]
      /\ OfRows' = OfRows /\ RowsOf' = RowsOf /\ cols \subseteq cols'
  BY <1>1, SteppedFrame DEF OfRows, Reliable
<1>3. \A b \in Accounts : op'[b].at = "save" => op[b].at = "save" /\ op'[b].key = op[b].key
  <2>1. op'[a].at = "save" => op[a].at = "save" /\ op'[a].key = op[a].key
    <3>1. CASE op[a].at = "start"
      <4>1. op'[a] = Idle \/ op'[a].at = "start"
        BY <1>1, <3>1, StepOfStart
      <4> QED
        BY <4>1 DEF Idle
    <3>2. CASE op[a].at = "save"
      BY <1>1, <3>2, NextOfSave DEF NextInScript, Idle
    <3> QED
      BY <1>1, <3>1, <3>2, OpCases DEF InOp, Idle
  <2> QED
    BY <1>2, <2>1
<1>4. SUFFICES ASSUME NEW c \in Accounts, NEW k \in Keys \cup {Null}, saved'[c][k] # Null
               PROVE  /\ k \in RowsOf /\ kind \notin {"read", "top"}
                      /\ \A b \in Accounts : op'[b].at = "save" => op'[b].key # k
                      /\ kind \in OfRows /\ Trusted(saved[c][k])' => InRows(c, k)'
  BY <1>1, <1>2 DEF SavedRow, Trusted
<1>5. CASE saved'[c][k] = saved[c][k]
  <2>1. /\ k \in RowsOf /\ kind \notin {"read", "top"}
        /\ \A b \in Accounts : op[b].at = "save" => op[b].key # k
        /\ kind \in OfRows /\ Trusted(saved[c][k]) => InRows(c, k)
    BY <1>1, <1>4, <1>5 DEF SavedRow
  <2>2. ASSUME kind \in OfRows, Trusted(saved[c][k])'
        PROVE  InRows(c, k)'
    <3>1. Trusted(saved[c][k])
      <4>1. faults' = 0 => faults = 0
        BY <1>1, Faultless
      <4> QED
        BY <1>1, <1>5, <2>2, <4>1 DEF Trusted
    <3>2. /\ Written(k) \subseteq cols /\ Places(c, k) # {}
          /\ \A i \in Places(c, k) : AsSaved(rows[i], saved[c][k])
      BY <2>1, <2>2, <3>1 DEF InRows
    <3>3. Places(c, k)' = Places(c, k) /\ \A i \in Places(c, k) : rows'[i] = rows[i]
      BY <2>1, <2>2, <3>2, RowsOfOthers
    <3>4. \A i \in Places(c, k)' : AsSaved(rows[i], saved[c][k])'
      BY <1>5, <3>2, <3>3 DEF AsSaved
    <3>5. (Written(k) \subseteq cols)'
      BY <1>1, <1>2, <3>2 DEF Written
    <3> QED
      BY <3>2, <3>3, <3>4, <3>5 DEF InRows
  <2> QED
    BY <1>3, <2>1, <2>2
<1>6. CASE saved'[c][k] # saved[c][k]
  <2>1. op[a].at = "save"
    <3>1. op[a].at # "start"
      BY <1>1, <1>6, StepOfStart
    <3> QED
      BY <1>1, <3>1, OpCases DEF InOp, Idle
  <2>2. op'[a] = Idle /\ IsOver(a, ok) /\ IsSaved(a, ok)
    BY <1>1, <1>6, <2>1, NextOfSave DEF NextInScript, IsOver
  <2>3. op[a].key \in RowsOf /\ op[a].key \in Keys \cup {Null}
    BY <1>1, <2>1 DEF Valid, RowsOf
  <2> DEFINE v == op[a].num
  <2>4. saved' = [saved EXCEPT ![a][op[a].key] = v]
    BY <2>2 DEF IsSaved
  <2>5. c = a /\ k = op[a].key /\ saved'[c][k] = v
    <3> DEFINE key == op[a].key
    <3>1. key \in Keys \cup {Null} /\ saved' = [saved EXCEPT ![a][key] = v]
      BY <2>3, <2>4
    <3> HIDE DEF v, key
    <3>2. c = a /\ k = key
      BY <1>1, <1>6, <3>1
    <3>3. saved'[c][k] = v
      BY <1>1, <3>1, <3>2
    <3> QED
      BY <3>2, <3>3 DEF key
  <2>6. kind \notin {"read", "top"}
    <3>1. SUFFICES ASSUME kind \in {"read", "top"} PROVE FALSE
      OBVIOUS
    <3>2. op[a].exec \in 1..1 /\ op[a].stmt \in 1..Len(ScriptOf(kind)[op[a].exec])
      BY <1>1, <2>1, <3>1, OtherScripts DEF Valid
    <3>3. op[a].exec = 1 /\ op[a].stmt \in 1..1
      <4>1. op[a].exec = 1
        BY <3>2
      <4>2. Len(ScriptOf(kind)[1]) = 1
        BY <3>1, OtherScripts
      <4> QED
        BY <3>2, <4>1, <4>2
    <3>4. Statement(a) = Bad /\ Script(a) = ScriptOf(kind) /\ Len(ScriptOf(kind)) = 1
      BY <2>1, <3>1, <3>3, OtherScripts DEF Statement, Script
    <3>5. Fails(a, Statement(a))
      BY <3>4 DEF Fails, Bad
    <3>6. ~ok
      BY <3>5 DEF Stepped
    <3>7. ~Ignored(a)
      BY <3>1, <3>3, <3>4 DEF Ignored
    <3> QED
      BY <2>2, <3>6, <3>7 DEF IsSaved
  <2>7. \A b \in Accounts : op'[b].at = "save" => op'[b].key # k
    <3>1. ASSUME NEW b \in Accounts, op'[b].at = "save" PROVE op'[b].key # k
      <4>1. b # a
        BY <2>2, <3>1 DEF Idle
      <4>2. op[b].at = "save" /\ op'[b].key = op[b].key
        BY <1>3, <3>1
      <4> QED
        BY <2>2, <2>5, <4>1, <4>2 DEF IsSaved, AloneOn
    <3> QED
      BY <3>1
  <2>8. ASSUME kind \in OfRows, Trusted(saved[c][k])'
        PROVE  InRows(c, k)'
    <3>1. kind \in {"key", "dialog"} => faults' = 0 /\ op[a].num.text # "quoted"
      BY <1>1, <2>5, <2>8 DEF Trusted
    <3>2. /\ (Written(k) \subseteq cols)' /\ Places(a, k)' # {}
          /\ \A i \in Places(a, k)' : AsSaved(rows'[i], v)
      BY <1>1, <2>1, <2>2, <2>5, <2>8, <3>1, SavedInRows DEF Written
    <3>3. \A i \in Places(a, k)' : AsSaved(rows[i], saved[c][k])'
      BY <2>5, <3>2 DEF AsSaved
    <3> QED
      BY <2>5, <3>2, <3>3 DEF InRows
  <2> QED
    BY <2>3, <2>5, <2>6, <2>7, <2>8
<1> QED
  BY <1>5, <1>6

LEMMA TornKept ==
  ASSUME StoreAssumption, StoreInv, NEW a \in Accounts, NEW ok \in BOOLEAN, Stepped(a, ok)
  PROVE  Torn'
<1>1. /\ StoreTypeOK /\ (\A b \in Accounts : Valid(b)) /\ Torn /\ Columns /\ InOp(a)
      /\ kind' = kind /\ Step(a, ok) /\ rows \in Seq(RowSet)
      /\ \A b \in Accounts \ {a} : op'[b] = op[b]
  BY SteppedFrame DEF StoreInv, Stepped, StoreTypeOK, RowSet
<1>2. SUFFICES ASSUME kind \in {"ip", "phone"}, faults' = 0,
                      NEW i \in DOMAIN rows', rows'[i].num = Null
               PROVE  \E b \in Accounts : op'[b].at = "save" /\ op'[b].inserted
  BY <1>1 DEF Torn
<1>3. faults = 0 /\ (~ok => Fails(a, Statement(a)))
  BY <1>1, <1>2, Faultless
<1>4. op[a].at = "save" /\ op[a] \in SaveOps
  <2>1. op[a].at # "start"
    BY <1>1, <1>2 DEF Valid, RowKinds
  <2> QED
    BY <1>1, <2>1, OpCases DEF InOp, Idle, StoreTypeOK
<1>5. /\ Len(ScriptOf(kind)) = 2 /\ Len(ScriptOf(kind)[1]) = 1 /\ Len(ScriptOf(kind)[2]) = 2
      /\ ScriptOf(kind)[1][1] = Alter("num")
      /\ ScriptOf(kind)[2][1] = InsertMissing("id") /\ ScriptOf(kind)[2][2] = Update("all")
  BY <1>2, OneRowScript
<1>6. /\ op[a].exec \in 1..2 /\ op[a].stmt \in 1..Len(ScriptOf(kind)[op[a].exec])
      /\ Statement(a) = ScriptOf(kind)[op[a].exec][op[a].stmt]
  BY <1>1, <1>4, <1>5 DEF Valid, Statement, Script
<1>7. ASSUME op[a].exec = 2, op[a].stmt = 2
      PROVE  FALSE
  <2>1. Statement(a) = Update("all")
    BY <1>5, <1>6, <1>7
  <2>2. "num" \in cols /\ kind \notin TextKinds
    BY <1>1, <1>2, <1>3, <1>4, <1>7 DEF Columns, TextKinds, RowKinds
  <2>3. ~Fails(a, Statement(a))
    BY <2>1, <2>2 DEF Fails, Needs, Update
  <2>4. Execute(a, Statement(a))
    BY <1>3, <2>3 DEF Stepped
  <2>5. rows' = [j \in DOMAIN rows |-> Updated(a, rows[j])]
    <3>1. rows' = [j \in DOMAIN rows |->
                     IF Matches(a, Statement(a), rows[j]) THEN Updated(a, rows[j]) ELSE rows[j]]
      BY <2>1, <2>4 DEF Execute, Update
    <3>2. \A j \in DOMAIN rows : Matches(a, Statement(a), rows[j])
      BY <2>1 DEF Matches, Update
    <3> QED
      BY <3>1, <3>2
  <2>6. i \in DOMAIN rows /\ rows[i] \in RowSet
    BY <1>1, <1>2, <2>5
  <2>7. rows'[i].num = op[a].num
    BY <1>4, <2>5, <2>6, UpdatedRow
  <2> QED
    BY <1>2, <1>4, <2>7 DEF SaveOps, StoreAssumption
<1>8. CASE op[a].exec = 2 /\ op[a].stmt = 1 /\ ok
  <2>1. Statement(a) = InsertMissing("id")
    BY <1>5, <1>6, <1>8
  <2>2. ~IsOver(a, ok)
    <3>1. Len(ScriptOf(kind)[op[a].exec]) = 2 /\ op[a].stmt = 1 /\ ok
      BY <1>5, <1>8
    <3> QED
      BY <3>1 DEF IsOver
  <2>3. NextInScript(a, ok)
    BY <1>1, <1>4, <2>2, NextOfSave
  <2>4. op'[a].at = "save" /\ op'[a].inserted
    BY <1>8, <2>1, <2>3 DEF NextInScript, SaveOps, InsertMissing
  <2> QED
    BY <2>4
<1>9. CASE op[a].exec = 1 \/ ~ok
  <2>1. rows' = rows
    <3>1. CASE ~ok
      BY <3>1 DEF Stepped
    <3>2. CASE ok
      <4>1. op[a].exec = 1 /\ op[a].stmt \in 1..1
        BY <1>5, <1>6, <1>9, <3>2
      <4>2. Statement(a) = Alter("num")
        BY <1>5, <1>6, <4>1
      <4> QED
        BY <3>2, <4>2 DEF Stepped, Execute, Alter
    <3> QED
      BY <3>1, <3>2
  <2>2. PICK b \in Accounts : op[b].at = "save" /\ op[b].inserted
    BY <1>1, <1>2, <1>3, <2>1 DEF Torn
  <2>3. b # a
    <3>1. op[b].exec = 2 /\ op[b].stmt = 2
      BY <1>1, <1>2, <2>2 DEF Valid
    <3> QED
      BY <1>7, <3>1
  <2> QED
    BY <1>1, <2>2, <2>3
<1>10. op[a].exec = 1 \/ (op[a].exec = 2 /\ op[a].stmt \in 1..2)
  BY <1>5, <1>6
<1> QED
  BY <1>7, <1>8, <1>9, <1>10

---------------------------------------------------------------------------
(* The other actions.                                                      *)

LEMMA StoreInitOK == ASSUME StoreAssumption, StoreInit PROVE StoreInv
<1>1. Start \in Ops /\ Start.at # "save" /\ (Start.at = "start" => kind \in RowKinds)
      /\ (Start.at = "start" => Start.exec = 1) /\ (kind = "dialog" => Start.at = "start")
  BY OpsMembers DEF Start, Starting, Idle, RowKinds
<1>2. op \in [Accounts -> Ops] /\ \A a \in Accounts : op[a] = Start
  BY <1>1 DEF StoreInit
<1>3. rows = <<>> /\ DOMAIN rows = {}
  BY DEF StoreInit
<1>4. saved \in [Accounts -> [Keys \cup {Null} -> Numbers \cup {Null}]]
      /\ \A a \in Accounts, k \in Keys \cup {Null} : saved[a][k] = Null
  BY DEF StoreInit
<1>5. StoreTypeOK
  <2>1. cols \subseteq {"num", "key", "text"}
    BY DEF StoreInit, StartColumns
  <2>2. rows \in Seq([id : Accounts \cup {Null}, key : Keys \cup {Null},
                      num : Numbers \cup {Null}, text : Numbers \cup {Null},
                      contact : Numbers \cup {Null}])
    BY <1>3
  <2>3. saves \in [Accounts -> 0..MaxSaves] /\ faults \in 0..MaxFaults
    BY DEF StoreInit, StoreAssumption
  <2> QED
    BY <1>2, <1>4, <2>1, <2>2, <2>3 DEF StoreTypeOK, StoreInit
<1>6. \A a \in Accounts : Valid(a)
  BY <1>1, <1>2 DEF Valid
<1>7. RowsOwn
  BY <1>3 DEF RowsOwn
<1>8. Columns
  BY <1>1, <1>2 DEF Columns, StoreInit, StartColumns
<1>9. Found
  BY <1>1, <1>2 DEF Found
<1>10. SavedRow
  BY <1>4 DEF SavedRow
<1>11. Torn
  BY <1>3 DEF Torn
<1> QED
  BY <1>5, <1>6, <1>7, <1>8, <1>9, <1>10, <1>11 DEF StoreInv

\* An account that begins something is somewhere else, and the rows stay.
Begins(a, o, gone) ==
    /\ kind' = kind /\ cols' = cols /\ rows' = rows /\ op' = [op EXCEPT ![a] = o]
    /\ o.at = "start" => kind \in RowKinds
    /\ o.at = "save" => /\ o.exec = 1 /\ o.stmt = 1 /\ ScriptOf(kind) # <<>>
                        /\ o.key \in RowsOf /\ ~o.inserted
                        /\ o.num.by = a /\ o.num.text \in TextsOf(kind)
                        /\ op[a] = Idle /\ gone = o.key
                        /\ \A b \in Accounts, k \in Keys \cup {Null} :
                              saved'[b][k] # Null => k # gone
    /\ (faults' = faults /\ o.at = "save") \/ faults' # 0
    /\ \A b \in Accounts, k \in Keys \cup {Null} :
          saved'[b][k] = saved[b][k] \/ saved'[b][k] = Null

LEMMA OperationBegins ==
  ASSUME StoreAssumption, StoreInv, NEW a \in Accounts, NEW o \in Ops,
         NEW gone \in Keys \cup {Null}, Begins(a, o, gone)
  PROVE  /\ (\A b \in Accounts : Valid(b))' /\ RowsOwn' /\ Columns' /\ Found'
         /\ SavedRow' /\ Torn'
<1>0. /\ kind' = kind /\ cols' = cols /\ rows' = rows /\ op' = [op EXCEPT ![a] = o]
      /\ o.at = "start" => kind \in RowKinds
      /\ o.at = "save" => /\ o.exec = 1 /\ o.stmt = 1 /\ ScriptOf(kind) # <<>>
                          /\ o.key \in RowsOf /\ ~o.inserted
                          /\ o.num.by = a /\ o.num.text \in TextsOf(kind)
                          /\ op[a] = Idle /\ gone = o.key
                          /\ \A b \in Accounts, k \in Keys \cup {Null} :
                                saved'[b][k] # Null => k # gone
      /\ (faults' = faults /\ o.at = "save") \/ faults' # 0
      /\ \A b \in Accounts, k \in Keys \cup {Null} :
            saved'[b][k] = saved[b][k] \/ saved'[b][k] = Null
  BY DEF Begins
<1>1. /\ StoreTypeOK /\ (\A b \in Accounts : Valid(b)) /\ RowsOwn /\ Columns /\ Found
      /\ SavedRow /\ Torn /\ op \in [Accounts -> Ops] /\ kind \in Tables
  BY <1>0 DEF StoreInv, StoreTypeOK, StoreAssumption
<1>2. op'[a] = o /\ \A b \in Accounts \ {a} : op'[b] = op[b]
  BY <1>0, <1>1
<1>3. RowsOf' = RowsOf /\ OfRows' = OfRows
  BY <1>0 DEF RowsOf, OfRows, Reliable
<1>4. (\A b \in Accounts : Valid(b))'
  <2>1. Valid(a)'
    <3>1. ASSUME o.at = "save"
          PROVE  1 \in 1..Len(ScriptOf(kind)) /\ 1 \in 1..Len(ScriptOf(kind)[1])
      <4>1. IsScript(ScriptOf(kind))
        BY <1>0, <1>1, ScriptShape
      <4>2. Len(ScriptOf(kind)) \in 0..3 /\ Len(ScriptOf(kind)) # 0
        BY <1>0, <3>1, <4>1 DEF IsScript
      <4>3. 1 \in 1..Len(ScriptOf(kind))
        BY <1>0, <4>2
      <4>4. Len(ScriptOf(kind)[1]) \in 1..4
        BY <1>0, <4>1, <4>3 DEF IsScript
      <4>5. \A n \in 1..4 : 1 \in 1..n
        OBVIOUS
      <4> QED
        BY <1>0, <4>3, <4>4, <4>5, Zenon
    <3> QED
      BY <1>0, <1>2, <1>3, <3>1 DEF Valid
  <2>2. ASSUME NEW b \in Accounts \ {a} PROVE Valid(b)'
    BY <1>0, <1>1, <1>2, <1>3 DEF Valid
  <2> QED
    BY <1>0, <2>1, <2>2
<1>5. RowsOwn'
  BY <1>0, <1>1 DEF RowsOwn
<1>6. Columns'
  <2>1. o.at = "save" => op[a].at = "idle" /\ o.exec = 1
    BY <1>0 DEF Idle
  <2> QED
    BY <1>0, <1>1, <1>2, <2>1 DEF Columns
<1>7. Found'
  <2>1. SUFFICES ASSUME NEW b \in Accounts, op'[b].at = "save", kind \in OfRows,
                        kind = "key" => faults' = 0, Statement(b)'.do = "update"
                 PROVE  \E i \in DOMAIN rows' : Matches(b, Statement(b), rows[i])'
    BY <1>0, <1>3 DEF Found
  <2>2. CASE b = a
    <3>1. Statement(a)' = ScriptOf(kind)[1][1]
      BY <1>0, <1>2, <2>1, <2>2 DEF Statement, Script
    <3>2. WellPlaced(ScriptOf(kind), kind, 1, 1)
      <4>1. UpdateComesLast(kind)
        BY <1>0, <1>1, <2>1, Order DEF OfRows, Reliable
      <4>2. Valid(a)' /\ op'[a].at = "save" /\ op'[a].exec = 1 /\ op'[a].stmt = 1
        BY <1>0, <1>2, <1>4, <2>1, <2>2
      <4>3. 1 \in 1..Len(ScriptOf(kind)) /\ 1 \in 1..Len(ScriptOf(kind)[1])
        BY <1>0, <4>2 DEF Valid
      <4> QED
        BY <1>0, <4>1, <4>3 DEF UpdateComesLast
    <3> QED
      BY <1>0, <2>1, <2>2, <3>1, <3>2 DEF WellPlaced
  <2>3. CASE b # a
    <3>1. op'[b] = op[b] /\ Statement(b)' = Statement(b)
      BY <1>0, <1>2, <2>3 DEF Statement, Script
    <3>2. PICK i \in DOMAIN rows : Matches(b, Statement(b), rows[i])
      BY <1>0, <1>1, <2>1, <3>1 DEF Found
    <3>3. Matches(b, Statement(b), rows[i])'
      BY <1>0, <3>1, <3>2 DEF Matches
    <3> QED
      BY <1>0, <3>2, <3>3
  <2> QED
    BY <1>0, <2>2, <2>3
<1>8. SavedRow'
  <2>1. SUFFICES ASSUME NEW c \in Accounts, NEW k \in Keys \cup {Null}, saved'[c][k] # Null
                 PROVE  /\ k \in RowsOf /\ kind \notin {"read", "top"}
                        /\ \A b \in Accounts : op'[b].at = "save" => op'[b].key # k
                        /\ kind \in OfRows /\ Trusted(saved[c][k])' => InRows(c, k)'
    BY <1>0, <1>3 DEF SavedRow
  <2>2. saved'[c][k] = saved[c][k]
    BY <1>0, <2>1
  <2>3. /\ k \in RowsOf /\ kind \notin {"read", "top"}
        /\ \A b \in Accounts : op[b].at = "save" => op[b].key # k
        /\ kind \in OfRows /\ Trusted(saved[c][k]) => InRows(c, k)
    BY <1>0, <1>1, <2>1, <2>2 DEF SavedRow
  <2>4. \A b \in Accounts : op'[b].at = "save" => op'[b].key # k
    BY <1>0, <1>2, <2>1, <2>3
  <2>5. Trusted(saved[c][k])' => Trusted(saved[c][k])
    BY <1>0, <2>2 DEF Trusted
  <2>6. InRows(c, k) => InRows(c, k)'
    <3>1. Places(c, k)' = Places(c, k) /\ Written(k)' = Written(k)
      BY <1>0 DEF Places, Written
    <3> QED
      BY <1>0, <2>2, <3>1 DEF InRows, AsSaved
  <2> QED
    BY <1>0, <2>3, <2>4, <2>5, <2>6
<1>9. Torn'
  <2>1. SUFFICES ASSUME kind \in {"ip", "phone"}, faults' = 0,
                        \E i \in DOMAIN rows : rows[i].num = Null
                 PROVE  \E b \in Accounts : op'[b].at = "save" /\ op'[b].inserted
    BY <1>0 DEF Torn
  <2>2. PICK b \in Accounts : op[b].at = "save" /\ op[b].inserted
    BY <1>0, <1>1, <2>1 DEF Torn
  <2>3. b # a
    BY <1>0, <2>1, <2>2 DEF Idle
  <2> QED
    BY <1>0, <1>2, <2>2, <2>3
<1> QED
  BY <1>0, <1>4, <1>5, <1>6, <1>7, <1>8, <1>9

LEMMA SaveKeeps ==
  ASSUME StoreAssumption, StoreInv, NEW a \in Accounts, NEW key \in Keys,
         NEW text \in TextsOf(kind), NEW min \in MinOf(kind), Save(a, key, text, min)
  PROVE  StoreInv'
<1> DEFINE k == KeyOf(kind, key)
           n == [by |-> a, nth |-> saves'[a], text |-> text, min |-> min]
           o == [at |-> "save", exec |-> 1, stmt |-> 1, ok |-> TRUE, key |-> k,
                 inserted |-> FALSE, num |-> n]
<1>1. /\ StoreTypeOK /\ saves \in [Accounts -> 0..MaxSaves] /\ MaxSaves \in Nat
      /\ saved \in [Accounts -> [Keys \cup {Null} -> Numbers \cup {Null}]]
  BY DEF StoreInv, StoreTypeOK, StoreAssumption
<1>2. k \in RowsOf /\ k \in Keys \cup {Null}
  BY DEF KeyOf, RowsOf
<1>3. saves' \in [Accounts -> 0..MaxSaves] /\ saves'[a] \in Nat
  BY <1>1 DEF Save
<1>4. o \in SaveOps /\ o \in Ops
  <2>1. text \in Texts /\ min \in BOOLEAN
    BY DEF TextsOf, Texts, MinOf
  <2>2. n \in Numbers
    BY <1>3, <2>1 DEF Numbers
  <2> HIDE DEF k, n
  <2>3. o \in SaveOps
    BY <1>2, <2>1, <2>2 DEF SaveOps
  <2> QED
    BY <2>3, OpsMembers
<1>5. /\ op[a] = Idle /\ ScriptOf(kind) # <<>> /\ op' = [op EXCEPT ![a] = o]
      /\ saved' = [b \in Accounts |-> [saved[b] EXCEPT ![k] = Null]]
      /\ kind' = kind /\ cols' = cols /\ rows' = rows /\ faults' = faults
  BY DEF Save
<1>6. /\ o.at = "save" /\ o.exec = 1 /\ o.stmt = 1 /\ o.key = k /\ ~o.inserted
      /\ o.num.by = a /\ o.num.text \in TextsOf(kind)
  OBVIOUS
<1> HIDE DEF o, k, n
<1>7. saved' \in [Accounts -> [Keys \cup {Null} -> Numbers \cup {Null}]]
  BY <1>1, <1>2, <1>5
<1>8. \A b \in Accounts, j \in Keys \cup {Null} :
         /\ saved'[b][j] = saved[b][j] \/ saved'[b][j] = Null
         /\ saved'[b][j] # Null => j # k
  BY <1>1, <1>2, <1>5
<1>9. /\ (\A b \in Accounts : Valid(b))' /\ RowsOwn' /\ Columns' /\ Found'
      /\ SavedRow' /\ Torn'
  <2>1. PICK r \in Ops, gone \in Keys \cup {Null} : r = o /\ gone = k
    BY <1>2, <1>4
  <2>2. /\ r.at = "save" /\ r.exec = 1 /\ r.stmt = 1 /\ r.key = gone /\ gone \in RowsOf
        /\ r.num.by = a /\ r.num.text \in TextsOf(kind) /\ ~r.inserted /\ op' = [op EXCEPT ![a] = r]
    BY <1>2, <1>5, <1>6, <2>1
  <2>3. \A b \in Accounts, j \in Keys \cup {Null} :
           /\ saved'[b][j] = saved[b][j] \/ saved'[b][j] = Null
           /\ saved'[b][j] # Null => j # gone
    BY <1>8, <2>1
  <2>4. Begins(a, r, gone)
    BY <1>5, <2>2, <2>3 DEF Begins
  <2> QED
    BY <2>4, OperationBegins
<1>10. op' \in [Accounts -> Ops]
  BY <1>1, <1>4, <1>5 DEF StoreTypeOK
<1>11. StoreTypeOK'
  BY <1>1, <1>3, <1>5, <1>7, <1>10 DEF StoreTypeOK
<1> QED
  BY <1>9, <1>11 DEF StoreInv

LEMMA CrashKeeps ==
  ASSUME StoreAssumption, StoreInv, NEW a \in Accounts, Crash(a)
  PROVE  StoreInv'
<1>1. /\ StoreTypeOK /\ faults \in 0..MaxFaults /\ MaxFaults \in Nat
      /\ op \in [Accounts -> Ops]
  BY DEF StoreInv, StoreTypeOK, StoreAssumption
<1>2. /\ faults < MaxFaults /\ faults' = faults + 1 /\ op' = [op EXCEPT ![a] = Start]
      /\ kind' = kind /\ cols' = cols /\ rows' = rows /\ saves' = saves /\ saved' = saved
  BY DEF Crash
<1>3. Start \in Ops /\ Start.at # "save" /\ (Start.at = "start" => kind \in RowKinds)
  BY OpsMembers DEF Start, Starting, Idle
<1>4. faults' # 0 /\ faults' \in 0..MaxFaults
  BY <1>1, <1>2
<1> DEFINE o == Start
<1>5. /\ (\A b \in Accounts : Valid(b))' /\ RowsOwn' /\ Columns' /\ Found'
      /\ SavedRow' /\ Torn'
  <2>1. /\ o \in Ops /\ o.at # "save" /\ (o.at = "start" => kind \in RowKinds)
        /\ op' = [op EXCEPT ![a] = o]
    BY <1>2, <1>3
  <2> HIDE DEF o
  <2>2. Begins(a, o, Null)
    BY <1>2, <1>4, <2>1 DEF Begins
  <2> QED
    BY <1>3, <2>1, <2>2, OperationBegins
<1>6. op' \in [Accounts -> Ops]
  BY <1>1, <1>2, <1>3
<1>7. StoreTypeOK'
  BY <1>1, <1>2, <1>4, <1>6 DEF StoreTypeOK
<1> QED
  BY <1>5, <1>7 DEF StoreInv

LEMMA StoreNextKeeps == ASSUME StoreAssumption, StoreInv, [StoreNext]_storeVars PROVE StoreInv'
<1>1. CASE \E a \in Accounts, key \in Keys, text \in TextsOf(kind), min \in MinOf(kind) :
              Save(a, key, text, min)
  BY <1>1, SaveKeeps
<1>2. CASE \E a \in Accounts : Statements(a) \/ Busy(a)
  <2>1. PICK a \in Accounts : Statements(a) \/ Busy(a)
    BY <1>2
  <2>2. PICK ok \in BOOLEAN : Stepped(a, ok)
    BY <2>1, StatementsAndBusy DEF StoreInv
  <2>3. StoreTypeOK' /\ (\A b \in Accounts : Valid(b))'
    BY <2>2, SteppedFrame
  <2>4. RowsOwn' /\ Columns' /\ Found' /\ SavedRow' /\ Torn'
    BY <2>2, RowsOwnKept, ColumnsKept, FoundKept, SavedRowKept, TornKept
  <2> QED
    BY <2>3, <2>4 DEF StoreInv
<1>3. CASE \E a \in Accounts : Crash(a)
  BY <1>3, CrashKeeps
<1>4. CASE UNCHANGED storeVars
  <2>1. /\ kind' = kind /\ cols' = cols /\ rows' = rows /\ op' = op /\ saves' = saves
        /\ faults' = faults /\ saved' = saved
    BY <1>4 DEF storeVars
  <2>2. RowsOf' = RowsOf /\ OfRows' = OfRows
    BY <2>1 DEF RowsOf, OfRows, Reliable
  <2>3. StoreTypeOK' /\ (\A a \in Accounts : Valid(a))' /\ RowsOwn' /\ Columns'
    BY <2>1, <2>2 DEF StoreInv, StoreTypeOK, Valid, RowsOwn, OwnRow, AsSaved, Columns
  <2>4. Found' /\ Torn'
    BY <2>1, <2>2 DEF StoreInv, Found, Torn, Statement, Script, Matches
  <2>5. SavedRow'
    BY <2>1, <2>2 DEF StoreInv, SavedRow, Trusted, InRows, Places, Written, AsSaved
  <2> QED
    BY <2>3, <2>4, <2>5 DEF StoreInv
<1> QED
  BY <1>1, <1>2, <1>3, <1>4 DEF StoreNext, StoreDone

\* What holds of the tables at any time, however many accounts share them.
THEOREM StoreInvariant == ASSUME StoreAssumption PROVE StoreSpec => []StoreInv
<1>1. StoreInit => StoreInv
  BY StoreInitOK
<1>2. StoreInv /\ [StoreNext]_storeVars => StoreInv'
  BY StoreNextKeeps
<1> QED
  BY <1>1, <1>2, PTL DEF StoreSpec

---------------------------------------------------------------------------
(* What the reads give.                                                    *)

\* Some numbers have a least one.
LEMMA LeastOf ==
  ASSUME NEW T \in SUBSET Nat, T # {}
  PROVE  \E x \in T : \A y \in T : x <= y
<1>1. IsWellFoundedOn(OpToRel(<, Nat), Nat)
  BY NatLessThanWellFounded
<1> DEFINE R == OpToRel(<, Nat)
<1>2. PICK x \in T : \A y \in T : ~(<<y, x>> \in R)
  <2> HIDE DEF R
  <2> QED
    BY <1>1, WFMin DEF R
<1>3. \A y \in T : ~(y < x)
  BY <1>2 DEF OpToRel
<1> QED
  BY <1>3

\* The first and the last of some rows.
LEMMA RowOfPlaces ==
  ASSUME NEW S \in SUBSET Nat, S # {}, NEW n \in Nat, \A i \in S : i <= n
  PROVE  Min(S) \in S /\ Max(S) \in S
<1>1. PICK least \in S : \A i \in S : least <= i
  BY LeastOf
<1>2. Min(S) \in S
  BY <1>1 DEF Min
<1> DEFINE T == {n - i : i \in S}
<1>3. PICK x \in T : \A y \in T : x <= y
  <2>1. T \in SUBSET Nat /\ T # {}
    OBVIOUS
  <2> HIDE DEF T
  <2> QED
    BY <2>1, LeastOf
<1>4. PICK most \in S : x = n - most
  BY <1>3
<1>5. ASSUME NEW i \in S PROVE most >= i
  <2>1. n - i \in T
    OBVIOUS
  <2>2. x <= n - i
    BY <1>3, <2>1
  <2>3. n \in Nat /\ i \in Nat /\ most \in Nat
    OBVIOUS
  <2> QED
    BY <1>4, <2>2, <2>3
<1> QED
  BY <1>2, <1>5 DEF Max

\* What a read gives is in a row that is selected.
LEMMA ReadIsSelected ==
  ASSUME StoreTypeOK, StoreAssumption, NEW a \in Accounts, NEW key \in Keys \cup {Null}
  PROVE  /\ Read(a, key) # Null =>
               \/ \E i \in Selected(a, Null) : Read(a, key) = Row(rows[i])
               \/ \E i \in Selected(a, key) : Read(a, key) = Row(rows[i])
         /\ (kind \in OfRows /\ key \in RowsOf /\ Selected(a, key) # {}) =>
               \E i \in Selected(a, key) : Read(a, key) = Row(rows[i])
<1>1. ASSUME NEW k
      PROVE  /\ FirstRow(a, k) # Null => \E i \in Selected(a, k) : FirstRow(a, k) = Row(rows[i])
             /\ LastRow(a, k) # Null => \E i \in Selected(a, k) : LastRow(a, k) = Row(rows[i])
             /\ Selected(a, k) # {} =>
                   /\ \E i \in Selected(a, k) : FirstRow(a, k) = Row(rows[i])
                   /\ \E i \in Selected(a, k) : LastRow(a, k) = Row(rows[i])
  <2>1. Selected(a, k) \subseteq Nat /\ Len(rows) \in Nat /\ \A i \in Selected(a, k) : i <= Len(rows)
    BY DEF Selected, StoreTypeOK
  <2>2. Selected(a, k) # {} => Min(Selected(a, k)) \in Selected(a, k)
                               /\ Max(Selected(a, k)) \in Selected(a, k)
    BY <2>1, RowOfPlaces
  <2> QED
    BY <2>2 DEF FirstRow, LastRow
<1>2. Read(a, key) \in {FirstRow(a, key), LastRow(a, key), LastRow(a, Null), Null}
  BY DEF Read, ip_address_from_database, phone_number_from_database, auth_key_from_database,
       dialogs_hash_from_database, messages_hash_from_database, photo_file_from_database,
       peer_photo_file_from_database, tg_chat_get, tg_channel_get, tg_user_get,
       tg_get_dialogs_from_database, tg_get_messages_from_database, auth_tokens_from_database
<1>3. kind \in OfRows /\ key \in RowsOf => Read(a, key) \in {FirstRow(a, key), LastRow(a, key)}
  <2>1. SUFFICES ASSUME kind \in OfRows, key \in RowsOf
                 PROVE  Read(a, key) \in {FirstRow(a, key), LastRow(a, key)}
    OBVIOUS
  <2>2. kind # "token" /\ kind \in Tables /\ (kind \in AccountKinds => key = Null)
    BY <2>1 DEF OfRows, Reliable, RowsOf, StoreAssumption
  <2> QED
    BY <2>2 DEF Read, ip_address_from_database, phone_number_from_database,
       auth_key_from_database, dialogs_hash_from_database, messages_hash_from_database,
       photo_file_from_database, peer_photo_file_from_database, tg_chat_get, tg_channel_get,
       tg_user_get, tg_get_dialogs_from_database, tg_get_messages_from_database, AccountKinds
<1> QED
  BY <1>1, <1>2, <1>3

\* Every variable of the tables keeps its type, and each account is at a statement of
\* its script (tg_sqlite3_exec).
THEOREM StoreTypeCorrect == ASSUME StoreAssumption PROVE StoreSpec => []StoreTypeOK
<1>1. StoreInv => StoreTypeOK
  BY DEF StoreInv
<1> QED
  BY <1>1, StoreInvariant, PTL

\* What a save said it has saved is what is read, in each column it named, until a
\* save of the same row begins, by whichever account (tg_chat_save, photo_to_database
\* and the others), unless the text column that every read names was never made.
THEOREM ReadsWhatWasSaved == ASSUME StoreAssumption PROVE StoreSpec => []SavedIsRead
<1>1. StoreInv => SavedIsRead
  <2>1. SUFFICES ASSUME StoreInv, NEW a \in Accounts, NEW key \in Keys \cup {Null},
                        kind \in Reliable, saved[a][key] # Null,
                        kind \in RowKinds => "text" \in cols,
                        kind \in {"key", "dialog"} =>
                           faults = 0 /\ saved[a][key].text # "quoted"
                 PROVE  Read(a, key) # Null /\ AsSaved(Read(a, key), saved[a][key])
    BY DEF SavedIsRead
  <2>2. /\ key \in RowsOf /\ kind \notin {"read", "top"}
        /\ kind \in OfRows /\ Trusted(saved[a][key]) => InRows(a, key)
    BY <2>1 DEF StoreInv, SavedRow
  <2>3. kind \in OfRows /\ Trusted(saved[a][key])
    BY <2>1, <2>2 DEF OfRows, Trusted
  <2>4. Selected(a, key) = Places(a, key) /\ Places(a, key) # {}
    <3>1. Named(key) \subseteq cols
      BY <2>1, <2>2, <2>3 DEF InRows, Written, Named, TextKinds
    <3> QED
      BY <2>2, <2>3, <3>1 DEF InRows, Selected, Places
  <2>5. PICK i \in Selected(a, key) : Read(a, key) = Row(rows[i])
    BY <2>1, <2>2, <2>3, <2>4, ReadIsSelected DEF StoreInv
  <2>6. AsSaved(rows[i], saved[a][key])
    BY <2>2, <2>3, <2>4, <2>5 DEF InRows
  <2>7. Row(rows[i]) \in Values
    <3>1. i \in DOMAIN rows
      BY <2>5 DEF Selected
    <3>2. rows \in Seq(RowSet)
      BY <2>1 DEF StoreInv, StoreTypeOK, RowSet
    <3>3. rows[i] \in RowSet
      BY <3>1, <3>2
    <3> QED
      BY <3>3 DEF RowSet, Row, Values
  <2>8. Read(a, key) # Null
    BY <2>5, <2>7 DEF StoreAssumption
  <2> QED
    BY <2>5, <2>6, <2>8 DEF AsSaved, Row
<1> QED
  BY <1>1, StoreInvariant, PTL

\* What an account reads is all of one save of its own, but for the columns that save
\* did not name (the UPDATE that takes a row over).
THEOREM AccountsReadTheirOwn == ASSUME StoreAssumption PROVE StoreSpec => []ReadsItsOwn
<1>1. StoreInv => ReadsItsOwn
  <2>1. SUFFICES ASSUME StoreInv, NEW a \in Accounts, NEW key \in Keys \cup {Null},
                        Read(a, key) # Null, Read(a, key).num # Null
                 PROVE  Read(a, key).num.by = a /\ AsSaved(Read(a, key), Read(a, key).num)
    BY DEF ReadsItsOwn
  <2>2. PICK i \in Selected(a, Null) \cup Selected(a, key) : Read(a, key) = Row(rows[i])
    BY <2>1, ReadIsSelected DEF StoreInv
  <2>3. i \in DOMAIN rows /\ rows[i].id = a
    BY <2>2 DEF Selected
  <2> QED
    BY <2>1, <2>2, <2>3 DEF StoreInv, RowsOwn, OwnRow, AsSaved, Row
<1> QED
  BY <1>1, StoreInvariant, PTL

\* An address that is NULL is one that is being saved, or is left by a fault
\* (ip_address_to_database, and strcpy in ip_address_from_database).
THEOREM NullsAreTorn == ASSUME StoreAssumption PROVE StoreSpec => []NullIsTorn
<1>1. StoreInv => NullIsTorn
  <2>1. SUFFICES ASSUME StoreInv, NEW a \in Accounts, ReadCrashes(a), ~(faults > 0)
                 PROVE  \E b \in Accounts : op[b].at = "save" /\ op[b].inserted
    BY DEF NullIsTorn
  <2>2. faults = 0
    BY <2>1 DEF StoreInv, StoreTypeOK, StoreAssumption
  <2> QED
    BY <2>1, <2>2 DEF StoreInv, Torn, ReadCrashes
<1> QED
  BY <1>1, StoreInvariant, PTL
=============================================================================
