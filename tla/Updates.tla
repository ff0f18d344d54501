-------------------------------- MODULE Updates --------------------------------
(***************************************************************************)
(* How the answers of the server that carry updates are handed to the      *)
(* application (tg/updates.c), and what of them is kept in the database    *)
(* first: users (tg/user.c), chats (tg/chat.c, tg/channel.c) and short     *)
(* messages.  The thread of each query does it for what it receives, so    *)
(* that several threads do it at once, each save under databasem.          *)
(***************************************************************************)
EXTENDS Naturals, Sequences, Common

CONSTANTS
    Threads,
    Answers,    \* what the server may send
    MaxAnswers, \* bound: how many answers come
    MaxBusy,    \* bound: saves that find the database locked
    Ctor        \* the constructor number of updateShortChatMessage

\* The answers that carry updates.  A list is a list; a message has one text, and
\* no message has a constructor's number.
Carriers == {"updates", "updatesCombined", "updateShort"}

UpdatesAssumption ==
    /\ {MaxAnswers, MaxBusy} \subseteq Nat
    /\ Null \notin Answers
    /\ \A a \in Answers : a.is \in Carriers =>
          /\ IsList(a.users) /\ IsList(a.chats) /\ IsList(a.updates)
          /\ a.is = "updateShort" => a.users = <<>> /\ a.chats = <<>>
          /\ \A i \in DOMAIN a.updates :
                a.updates[i] # Null /\ a.updates[i].is = "updateDeleteMessages" =>
                    IsList(a.updates[i].messages)
    /\ \A a, b \in {c \in Answers : c.is = "updateShortMessage"} :
          a.id # Ctor /\ (a.id = b.id => a.text = b.text)

VARIABLES
    doing,   \* what each thread is doing
    ans,     \* the answer it is about, Null before the first
    next,    \* i: what of the answer is next
    told,    \* what on_update was told about the answer
    users,   \* table users: the rows by user_id
    chats,   \* tables chats and channels: the rows that a read finds
    rows,    \* table messages: the text of each row, by msg_id
    contact, \* history: whether a user was a contact when last told in full, and
             \* whether that could be kept
    came,    \* how many answers have come
    busy     \* how many saves found the database locked

updatesVars == <<doing, ans, next, told, users, chats, rows, contact, came, busy>>

UpdatesInit ==
    /\ doing = [t \in Threads |-> "idle"]
    /\ ans = [t \in Threads |-> Null]
    /\ next = [t \in Threads |-> 1]
    /\ told = [t \in Threads |-> <<>>]
    /\ users = <<>> /\ chats = {} /\ rows = <<>> /\ contact = <<>>
    /\ came = 0 /\ busy = 0

Running == \A t \in Threads : doing[t] # "crashed"
Goto(t, from, to) == doing[t] = from /\ doing' = [doing EXCEPT ![t] = to]

---------------------------------------------------------------------------
(* tg_do_updates.                                                          *)

\* The parts of an answer are a user's row each, a chat's, or an update; Null
\* stands for one that could not be read.
Stage(is) ==
    CASE is \in {"updateShortMessage", "updateShortChatMessage"} -> "message"
      [] is = "updateShort" -> "updates"
      [] is \in {"updates", "updatesCombined"} -> "users"
      [] OTHER -> "idle"   \* updatesTooLong, updateShortSentMessage, not updates

Receive(t, a) ==
    /\ Running /\ came < MaxAnswers
    /\ Goto(t, "idle", Stage(a.is))
    /\ ans' = [ans EXCEPT ![t] = a]
    /\ next' = [next EXCEPT ![t] = 1]
    /\ told' = [told EXCEPT ![t] = <<>>]
    /\ came' = came + 1
    /\ UNCHANGED <<users, chats, rows, contact, busy>>

\* A save fails while another process writes; nobody looks at the result.
Saved(b) == busy' = busy + (IF b THEN 0 ELSE 1) /\ busy' <= MaxBusy

Advance(t) == next' = [next EXCEPT ![t] = @ + 1]
EndOf(t, part, to) ==
    /\ Running /\ next[t] > Len(part)
    /\ doing' = [doing EXCEPT ![t] = to]
    /\ next' = [next EXCEPT ![t] = 1]
    /\ UNCHANGED <<ans, told, users, chats, rows, contact, came, busy>>

\* tg_user_from_tl and tg_user_save: a user that is told in part ("min") leaves
\* alone whether it is a contact.  The row is there after the INSERT, but tg_user_get
\* finds it only when an UPDATE has named the account it is of; an apostrophe in the
\* name ("quoted") stops the UPDATE, and so does a database that is locked by then.
NewUser == [contact |-> Null, mine |-> FALSE]
UserRowOfAnyKind(old, user) == [contact |-> user.contact, mine |-> TRUE]
UserRow(old, user) ==
    [contact |-> IF user.min THEN old.contact ELSE user.contact, mine |-> TRUE]
OldUser(id) == IF id \in DOMAIN users THEN users[id] ELSE NewUser
Inserted(id) == Put(users, id, OldUser(id))
ToldInFull(user, kept) ==
    IF user.min THEN contact
    ELSE Put(contact, user.id, [is |-> user.contact, kept |-> kept])

SaveUser(t) ==
    /\ Running /\ doing[t] = "users" /\ next[t] <= Len(ans[t].users)
    /\ LET user == ans[t].users[next[t]]
       IN \/ user = Null /\ Saved(TRUE) /\ UNCHANGED <<users, contact>>
          \/ /\ user # Null /\ Saved(FALSE)
             /\ users' \in {users, Inserted(user.id)}
             /\ contact' = ToldInFull(user, FALSE)
          \/ /\ user # Null /\ Saved(TRUE) /\ user.name = "quoted"
             /\ users' = Inserted(user.id)
             /\ contact' = ToldInFull(user, FALSE)
          \/ /\ user # Null /\ Saved(TRUE) /\ user.name # "quoted"
             /\ users' = Put(users, user.id, UserRow(OldUser(user.id), user))
             /\ contact' = ToldInFull(user, TRUE)
    /\ Advance(t)
    /\ UNCHANGED <<doing, ans, told, chats, rows, came>>
UsersSaved(t) == doing[t] = "users" /\ EndOf(t, ans[t].users, "chats")

\* tg_chat_from_tl, tg_chat_save, tg_channel_from_tl and tg_channel_save.
Key(chat) == <<chat.kind, chat.id>>
SaveChat(t) ==
    /\ Running /\ doing[t] = "chats" /\ next[t] <= Len(ans[t].chats)
    /\ LET chat == ans[t].chats[next[t]]
       IN \/ Saved(TRUE) /\ chat = Null /\ UNCHANGED chats
          \/ Saved(FALSE) /\ chat # Null /\ UNCHANGED chats
          \/ Saved(TRUE) /\ chat # Null /\ chat.title = "quoted" /\ UNCHANGED chats
          \/ /\ Saved(TRUE) /\ chat # Null /\ chat.title # "quoted"
             /\ chats' = chats \cup {Key(chat)}
    /\ Advance(t)
    /\ UNCHANGED <<doing, ans, told, users, rows, contact, came>>
ChatsSaved(t) == doing[t] = "chats" /\ EndOf(t, ans[t].chats, "updates")

---------------------------------------------------------------------------
(* tg_do_update.                                                           *)

Tell(is, of) == [is |-> is, of |-> of]

\* tg_message_from_tl_unknown leaves a message it does not know as it was: what is
\* on the stack is told, and then freed.
Garbage == [is |-> "garbage", from |-> Null]
OfMessage(m) ==
    IF m # Null /\ m.is \in {"message", "messageService"}
      THEN <<Tell("MESSAGE", m)>> ELSE <<Tell("MESSAGE", Garbage)>>

\* Also that of a user in a chat, where one who is no user is not told, and an
\* action that is not known, like typing in a game, never is.
OfTyping(u) ==
    IF u.from = Null \/ u.action \notin {"typing", "cancel", "upload", "record"} THEN <<>>
    ELSE <<Tell(u.action, <<u.in, u.from>>)>>

EventsOf(u) ==
    CASE u.is = "updateNewMessage" -> OfMessage(u.message)
      [] u.is = "updateDeleteMessages" ->
            [i \in DOMAIN u.messages |-> Tell("MESSAGE_DELETE", u.messages[i])]
      [] u.is \in {"updateUserTyping", "updateChatUserTyping", "updateChannelUserTyping"} ->
            OfTyping(u)
      [] u.is = "updateUserStatus" ->
            <<Tell("USER_STATUS", <<u.from, IF u.status = "unknown" THEN 0 ELSE 1>>)>>
      [] OTHER -> <<>>

\* A part that could not be read is used without a test, and so is the reason of a
\* call that is not over; Null stands for an action of either kind.  The update
\* itself, where it comes alone, is used only if somebody reads the log.
TornAction(m) == m # Null /\ m.is = "messageService" /\ m.action = Null
MayCrash(u) ==
    \/ u = Null
    \/ u # Null /\ u.is = "updateNewMessage" /\ TornAction(u.message)
    \/ u # Null /\ u.is = "updateNewMessage" /\ OfMessage(u.message)[1].of = Garbage
    \/ /\ u # Null /\ u.is \in {"updateUserTyping", "updateChatUserTyping",
                                 "updateChannelUserTyping"}
       /\ u.from # Null /\ u.action = Null
    \/ u # Null /\ u.is = "updateUserStatus" /\ u.status = Null
MustCrash(u) ==
    /\ u # Null /\ MayCrash(u)
    /\ u.is = "updateNewMessage" => TornAction(u.message)
Tidings(u) == IF u = Null THEN <<>> ELSE EventsOf(u)

\* The loop in tg_do_updates: what could not be read is passed over.
AfterUnreadNone(t) == Len(ans[t].updates) + 1
AfterUnread(t) == next[t] + 1

Announce(t) ==
    /\ Running /\ doing[t] = "updates" /\ next[t] <= Len(ans[t].updates)
    /\ LET u == ans[t].updates[next[t]]
       IN IF u = Null /\ ans[t].is # "updateShort"
            THEN next' = [next EXCEPT ![t] = AfterUnread(t)] /\ UNCHANGED <<told, doing>>
            ELSE \/ /\ ~MustCrash(u)
                    /\ told' = [told EXCEPT ![t] = @ \o Tidings(u)]
                    /\ Advance(t) /\ UNCHANGED doing
                 \/ /\ MayCrash(u)
                    /\ doing' = [doing EXCEPT ![t] = "crashed"]
                    /\ UNCHANGED <<told, next>>
    /\ UNCHANGED <<ans, users, chats, rows, contact, came, busy>>
UpdatesDone(t) == doing[t] = "updates" /\ EndOf(t, ans[t].updates, "idle")

\* message_update: all short messages of chats have one number.  A text that is
\* empty does not replace the old one; one with an apostrophe stops the UPDATE,
\* after the INSERT.  Who sent a short message of a user is not told.
NumberOf(a) == IF a.is = "updateShortChatMessage" THEN Ctor ELSE a.id
OldText(id) == IF id \in DOMAIN rows THEN rows[id] ELSE Null
message_update(t) ==
    /\ Running
    /\ Goto(t, "message", "callback")
    /\ \/ /\ Saved(FALSE)
          /\ rows' \in {rows, Put(rows, NumberOf(ans[t]), OldText(NumberOf(ans[t])))}
       \/ /\ Saved(TRUE)
          /\ rows' = Put(rows, NumberOf(ans[t]),
                         IF ans[t].text \in {Null, "quoted"} THEN OldText(NumberOf(ans[t]))
                         ELSE ans[t].text)
    /\ UNCHANGED <<ans, next, told, users, chats, contact, came>>
ShortMessage(t) ==
    /\ Running
    /\ Goto(t, "callback", "idle")
    /\ told' = [told EXCEPT ![t] =
                  <<Tell(IF ans[t].is = "updateShortMessage" THEN "MESSAGE"
                         ELSE "CHAT_MESSAGE",
                         [is |-> "short", id |-> NumberOf(ans[t]), text |-> ans[t].text,
                          from |-> IF ans[t].is = "updateShortMessage" THEN Null
                                   ELSE ans[t].from])>>]
    /\ UNCHANGED <<ans, next, users, chats, rows, contact, came, busy>>

---------------------------------------------------------------------------
UpdatesOver ==
    /\ ~Running \/ (came = MaxAnswers /\ \A t \in Threads : doing[t] = "idle")
    /\ UNCHANGED updatesVars

UpdatesNext ==
    \/ \E t \in Threads :
          \/ \E a \in Answers : Receive(t, a)
          \/ SaveUser(t) \/ UsersSaved(t) \/ SaveChat(t) \/ ChatsSaved(t)
          \/ Announce(t) \/ UpdatesDone(t)
          \/ message_update(t) \/ ShortMessage(t)
    \/ UpdatesOver

UpdatesSpec == UpdatesInit /\ [][UpdatesNext]_updatesVars

---------------------------------------------------------------------------
\* The events e are those of the first n updates: cut where the updates end, they
\* fall into what each update tells.
AreTidingsOf(e, updates, n) ==
    \E cut \in [0..n -> 0..Len(e)] :
        /\ cut[0] = 0 /\ cut[n] = Len(e)
        /\ \A i \in 1..n : /\ cut[i - 1] <= cut[i]
                          /\ SubSeq(e, cut[i - 1] + 1, cut[i]) = Tidings(updates[i])

\* At any time the application has been told of the first updates of an answer, each
\* once and in their order; and once the thread has done with it of all of them,
\* those behind an update that could not be read too (tg_do_updates).
EveryUpdateIsAnnounced ==
    \A t \in Threads :
        ans[t] # Null /\ ans[t].is \in Carriers =>
            \E n \in 0..Len(ans[t].updates) :
                /\ AreTidingsOf(told[t], ans[t].updates, n)
                /\ doing[t] = "idle" => n = Len(ans[t].updates)

IsShort(e) == e.is = "MESSAGE" /\ e.of.is = "short"

\* What tg_user_get finds, and what of an answer can be kept.
Found == {id \in DOMAIN users : users[id].mine}
Entries(list) == Range(list) \ {Null}
UsersOf(a) == {u.id : u \in {v \in Entries(a.users) : v.name # "quoted"}}
ChatsOf(a) == {Key(c) : c \in {d \in Entries(a.chats) : d.title # "quoted"}}

\* When the application is told of anything in an answer, a read finds every user,
\* chat and channel that the answer has, and a short message of a user that has a
\* text is kept with it, unless a save was lost to a locked database or to an
\* apostrophe in the text.  And if that a user is a contact, or none, could be kept
\* when it was last told in full, the user's row says so still, whatever has been
\* told of it in part since, or is told by another answer at the same time
\* (tg_do_updates, tg_user_save, message_update).
DatabaseIsCurrent ==
    /\ busy = 0 => \A t \in Threads :
          /\ told[t] # <<>> /\ ans[t].is \in Carriers =>
                UsersOf(ans[t]) \subseteq Found /\ ChatsOf(ans[t]) \subseteq chats
          /\ \A i \in DOMAIN told[t] :
                LET e == told[t][i]
                IN IsShort(e) /\ e.of.text \notin {Null, "quoted"} =>
                      e.of.id \in DOMAIN rows /\ rows[e.of.id] = e.of.text
    /\ \A id \in DOMAIN contact :
          contact[id].kept => id \in Found /\ users[id].contact = contact[id].is
=============================================================================
