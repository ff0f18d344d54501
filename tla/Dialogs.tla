-------------------------------- MODULE Dialogs --------------------------------
(***************************************************************************)
(* Lists that are asked for and given to the application one by one:       *)
(* dialogs (tg/dialogs.c), messages (tg/messages.c), channels that were    *)
(* found (tg/channel.c) and colours (tg/peer.c).  The application's        *)
(* callback may end the list; on_done tells that an asynchronous call is   *)
(* over.                                                                   *)
(*                                                                         *)
(* The calls are made of the queue manager, of which QueryService is what  *)
(* they rely on.  Peers are records of a kind and a number; Null stands    *)
(* for an object that could not be read.  What is saved on the way (users, *)
(* chats and the dialogs themselves) is not here: nobody looks whether a   *)
(* save is lost, and Updates has those saves.                              *)
(***************************************************************************)
EXTENDS Naturals, Sequences, SequencesExt, FiniteSetsExt, Common

CONSTANTS
    Query,   \* the query
    Pages    \* for each call, the answers it may get

VARIABLES
    call,    \* the function that was called
    phase, served, outcome,  \* of the query (QueryService)
    page,    \* the answer
    stage,   \* where the call is
    nth,    \* i: which of the page is next
    d,       \* the dialog at hand
    shown,   \* what the callback was given
    ended,   \* whether the callback has ended the list
    dones    \* how often on_done was called

dialogsVars == <<call, phase, served, outcome, page, stage, nth, d, shown, ended, dones>>

Async == {"tg_get_dialogs_async", "tg_messages_get_history_async"}
OfDialogs == {"tg_get_dialogs", "tg_get_dialogs_async"}
OfMessages == {"tg_messages_get_history", "tg_messages_get_history_async",
               "tg_get_messages", "tg_get_channel_messages"}
Calls == OfDialogs \cup OfMessages
         \cup {"tg_channel_search_global", "tg_get_peer_colors"}

\* A list is a list, and no user and no chat has the number 0.
DialogsAssumption ==
    /\ Null \notin {"user", "chat", "channel"}
    /\ \A c \in Calls : \A p \in Pages[c] : p.is # "other" =>
          /\ IsList(p.items)
          /\ c \in OfDialogs =>
                /\ IsList(p.users) /\ IsList(p.chats) /\ IsList(p.messages)
                /\ \A x \in ToSet(p.users) \cup ToSet(p.chats) : x # Null => x.id # 0

QS == INSTANCE QueryService WITH Queries <- {Query}

Blank == [id |-> 0, type |-> Null, name |-> Null, hash |-> Null, top |-> 0,
          text |-> Null, from |-> Null]

DialogsInit ==
    /\ call \in Calls
    /\ QS!ServiceInit
    /\ page \in Pages[call]
    /\ stage = "ask" /\ nth = 1 /\ d = Blank
    /\ shown = <<>> /\ ended = FALSE /\ dones = 0

listVars == <<call, page, nth, d, shown, ended>>

---------------------------------------------------------------------------
(* The call and its answer.                                                *)

\* The query is handed to the queue manager, whose socket may not open.
Asks(c) ==
    /\ call = c /\ stage = "ask"
    /\ QS!Submit(Query) \/ QS!Refuse(Query)
    /\ stage' = "asked"
    /\ UNCHANGED listVars /\ UNCHANGED dones

tg_get_dialogs_async == Asks("tg_get_dialogs_async")
tg_messages_get_history == Asks("tg_messages_get_history")
tg_messages_get_history_async == Asks("tg_messages_get_history_async")
tg_get_messages == Asks("tg_get_messages")
tg_get_channel_messages == Asks("tg_get_channel_messages")
tg_channel_search_global == Asks("tg_channel_search_global")
tg_get_peer_colors == Asks("tg_get_peer_colors")

\* This one sends its query with tg_send_query instead, on a socket of its own: it
\* is asked and answered at once here, or not at all.
tg_get_dialogs ==
    /\ call = "tg_get_dialogs" /\ stage = "ask"
    /\ stage' \in {"page", "returned"}
    /\ UNCHANGED <<phase, served, outcome, dones>> /\ UNCHANGED listVars

Ask ==
    \/ tg_get_dialogs \/ tg_get_dialogs_async
    \/ tg_messages_get_history \/ tg_messages_get_history_async
    \/ tg_get_messages \/ tg_get_channel_messages
    \/ tg_channel_search_global \/ tg_get_peer_colors

Underway ==
    /\ stage = "asked"
    /\ (phase[Query] = "pending" /\ Query \notin served /\ QS!Serve({Query}))
       \/ QS!Claim(Query) \/ QS!Withdraw({Query})
    /\ UNCHANGED <<stage, dones>> /\ UNCHANGED listVars

\* No callback is ever run: a call that waits returns without an answer, and the
\* on_done of one that does not wait is never called.
NoAnswer ==
    /\ stage = "asked" /\ phase[Query] = "over" /\ outcome[Query] = "none"
    /\ stage' = "returned"
    /\ UNCHANGED <<phase, served, outcome, dones>> /\ UNCHANGED listVars

Answered ==
    /\ stage = "asked" /\ QS!Complete(Query, "answer")
    /\ stage' = "page"
    /\ UNCHANGED dones /\ UNCHANGED listVars

AnsweredNullAndOn ==
    /\ stage = "asked" /\ QS!Complete(Query, "null")
    /\ stage' = IF call \in Async THEN "shown" ELSE "crashed"
    /\ dones' = IF call \in Async THEN dones + 1 ELSE dones
    /\ UNCHANGED listVars
\* The callback is run on NULL (msg_detailed_info): one that waits uses it.
AnsweredNull ==
    /\ stage = "asked" /\ QS!Complete(Query, "null")
    /\ stage' = IF call \in Async THEN "returned" ELSE "crashed"
    /\ dones' = IF call \in Async THEN dones + 1 ELSE dones
    /\ UNCHANGED listVars

---------------------------------------------------------------------------
(* The page.                                                               *)

Is(p, kinds) == p # Null /\ p.kind \in kinds

\* An answer of another kind, like dialogsNotModified, gives nothing.
Page ==
    /\ stage = "page"
    /\ stage' = IF page.is = "other" THEN "shown" ELSE "show"
    /\ UNCHANGED <<phase, served, outcome, dones>> /\ UNCHANGED listVars

\* The places of users, and behind them of chats, that have the number of a dialog.
Scanned == page.users \o page.chats
Candidates ==
    {i \in DOMAIN Scanned :
        Is(Scanned[i], IF i <= Len(page.users) THEN {"user"} ELSE {"chat", "channel"})}
Match(dialog) == {i \in Candidates : Scanned[i].id = dialog.id}

\* A peer is found by its number alone, and the last one that has it counts; that
\* of a chat leaves the access hash of who had it before.
MatchPeers(dialog) ==
    LET found == Match(dialog)
        hashed == {i \in found : Scanned[i].kind # "chat"}
    IN IF found = {} THEN dialog
       ELSE [dialog EXCEPT !.type = Scanned[Max(found)].kind, !.name = Scanned[Max(found)],
                           !.hash = IF hashed = {} THEN @ ELSE Scanned[Max(hashed)]]

\* tg_message_from_tl: what the media of a message says of it.  That it is a video
\* is only known from the attribute.
tg_message_from_tl(m) ==
    [isVideo |-> "video attribute" \in m.media, isRound |-> "round" \in m.media,
     isVoice |-> "voice" \in m.media, title |-> "audio attribute" \in m.media,
     document |-> "document" \in m.media]
LabelOf(m) ==
    LET tgm == tg_message_from_tl(m)
    IN CASE m.text # Null -> m.text
         [] tgm.isVideo -> "*video*"
         [] tgm.isRound -> "*round*"
         [] tgm.isVoice -> "*voice message*"
         [] tgm.title -> "title"
         [] tgm.document -> "*document*"
         [] "contact" \in m.media -> "*contact*"
         [] "photo" \in m.media -> "*photo*"
         [] "geo" \in m.media -> "*geopoint*"
         [] OTHER -> Null

\* The top message is found by its number alone too; what it does not say is left.
MatchMessage(dialog) ==
    {i \in DOMAIN page.messages :
        LET m == page.messages[i]
        IN m # Null /\ m.is = "message" /\ m.id = dialog.top}
MatchMessages(dialog) ==
    LET labelled == {i \in MatchMessage(dialog) : LabelOf(page.messages[i]) # Null}
        sent == {i \in MatchMessage(dialog) : page.messages[i].from # Null}
    IN [dialog EXCEPT
          !.text = IF labelled = {} THEN @ ELSE LabelOf(page.messages[Max(labelled)]),
          !.from = IF sent = {} THEN @ ELSE page.messages[Max(sent)].from]

\* Of a dialogFolder only the peer and the top message are taken over.
Cleared(of) == [d EXCEPT !.id = IF of.peer = Null THEN @ ELSE of.peer.id, !.top = of.top]
Begun(of) == [Blank EXCEPT !.id = IF of.peer = Null THEN 0 ELSE of.peer.id, !.top = of.top]

Item == page.items[nth]
Show(x) == shown' = Append(shown, [of |-> nth, as |-> x])
Skip == nth' = nth + 1 /\ UNCHANGED <<stage, shown, ended>>
\* The callback: it may end the list.
Callback(x) ==
    /\ Show(x)
    /\ \/ nth' = nth + 1 /\ UNCHANGED <<stage, ended>>
       \/ stage' = "shown" /\ ended' = TRUE /\ UNCHANGED nth
Crash == stage' = "crashed" /\ UNCHANGED <<nth, shown, ended>>

\* A dialog whose peer is not found is passed over; but one that has no peer is used
\* for the log, if there is one, and a dialogFolder that has no folder at once.
IsDialog(of) == of # Null /\ of.is \in {"dialog", "dialogFolder"}
LacksFolder(of) == of.is = "dialogFolder" /\ of.folder = Null
ShowDialog ==
    LET found == MatchPeers(Begun(Item))
    IN \/ ~IsDialog(Item) /\ Skip /\ UNCHANGED d
       \/ IsDialog(Item) /\ LacksFolder(Item) /\ Crash /\ UNCHANGED d
       \/ /\ IsDialog(Item) /\ ~LacksFolder(Item)
          /\ IF found.type # Null
               THEN d' = MatchMessages(found) /\ Callback(d')
               ELSE d' = found /\ (Skip \/ (Item.peer = Null /\ Crash))

\* What is written of a call: why it ended, but nothing for a reason that is not
\* known.
CallText(action) ==
    IF action.reason \in {"missed", "disconnect", "hangup", "busy"}
      THEN <<action.reason, action.video>> ELSE Null
\* tg_message_from_tl_service: of the users who were added none is named, since
\* each number is compared with a constructor.
ActionText(action) ==
    CASE action.is = "chatAddUser" -> <<"chat add users">>
      [] action.is = "phoneCall" -> CallText(action)
      [] OTHER -> <<action.is, action.of>>
\* An action that could not be read, and the reason of a call that is not over.
Torn(m) ==
    /\ m.is = "messageService"
    /\ \/ m.action = Null
       \/ m.action # Null /\ m.action.is = "phoneCall" /\ m.action.reason = Null
\* The emoji of a sticker takes the place of the text.
TextOf(m) ==
    CASE m.is = "messageService" -> ActionText(m.action)
      [] m.is = "message" /\ "sticker" \in m.media -> "emoji"
      [] OTHER -> m.text

\* parse_msgs: a message of a kind it does not know is what the stack holds.
ShowMessage ==
    /\ UNCHANGED d
    /\ CASE Item = Null -> Skip
         [] Item # Null /\ Item.is \in {"message", "messageService"} ->
              IF Torn(Item) THEN Crash
              ELSE Callback([id |-> Item.id, text |-> TextOf(Item)])
         [] OTHER -> Callback(Null) \/ Crash

\* tg_parse_chennels does not test what could not be read.
ShowChannel ==
    /\ UNCHANGED d
    /\ CASE Item = Null -> Crash
         [] Item # Null /\ Item.kind = "channel" -> Callback(Item)
         [] OTHER -> Skip

\* tg_peer_color_set_to_colors: the third colour is put where the second was.
At(c, i) == IF i \in DOMAIN c THEN c[i] ELSE 0
Colours(c) == <<At(c, 1), IF Len(c) > 2 THEN c[3] ELSE At(c, 2), 0>>
ShowColours ==
    /\ UNCHANGED d
    /\ IF Item = Null THEN Crash ELSE Callback(Colours(Item))

ShowNext ==
    /\ stage = "show" /\ nth <= Len(page.items)
    /\ CASE call \in OfDialogs -> ShowDialog
         [] call \in OfMessages -> ShowMessage
         [] call = "tg_channel_search_global" -> ShowChannel
         [] OTHER -> ShowColours
    /\ UNCHANGED <<call, phase, served, outcome, page, dones>>

PageEnds ==
    /\ stage = "show" /\ nth > Len(page.items)
    /\ stage' = "shown"
    /\ UNCHANGED <<phase, served, outcome, dones>> /\ UNCHANGED listVars

Return ==
    /\ stage = "shown"
    /\ stage' = "returned"
    /\ dones' = IF call \in Async THEN dones + 1 ELSE dones
    /\ UNCHANGED <<phase, served, outcome>> /\ UNCHANGED listVars

DialogsDone == stage \in {"returned", "crashed"} /\ UNCHANGED dialogsVars

DialogsNext ==
    \/ Ask \/ Underway \/ NoAnswer \/ Answered \/ AnsweredNull
    \/ Page \/ ShowNext \/ PageEnds \/ Return
    \/ DialogsDone

DialogsSpec == DialogsInit /\ [][DialogsNext]_dialogsVars

---------------------------------------------------------------------------
Peers == {p \in ToSet(page.users) : Is(p, {"user"})}
         \cup {p \in ToSet(page.chats) : Is(p, {"chat", "channel"})}
SameNumber(p) == IF p = Null THEN {} ELSE {q \in Peers : q.id = p.id}
TopMessages(of) ==
    {m \in ToSet(page.messages) \ {Null} : m.is = "message" /\ m.id = of.top}

\* A dialog has the type, the name and the access hash of its own peer, and its
\* text and sender are those of its own top message, or of none, whatever dialogs
\* come before it, as long as no other peer of the page has the same number and no
\* message of another dialog that of the top message (tg_dialogs_from_tl).
DialogIsItsPeer ==
    call \in OfDialogs => \A k \in DOMAIN shown :
        LET of == page.items[shown[k].of]  as == shown[k].as
        IN /\ SameNumber(of.peer) = {of.peer} =>
                /\ as.type = of.peer.kind /\ as.name = of.peer
                /\ as.hash = IF of.peer.kind = "chat" THEN Null ELSE of.peer
           /\ TopMessages(of) = {} => as.text = Null /\ as.from = Null
           /\ \A m \in TopMessages(of) :
                TopMessages(of) = {m} /\ m.peer = of.peer =>
                    as.text = LabelOf(m) /\ as.from = m.from

\* What of a page can be shown.
Showable(k) ==
    LET of == page.items[k]
    IN CASE of = Null -> FALSE
         [] call \in OfDialogs /\ of # Null -> IsDialog(of) /\ SameNumber(of.peer) # {}
         [] call = "tg_channel_search_global" /\ of # Null -> of.kind = "channel"
         [] OTHER -> TRUE
Wanted == {k \in DOMAIN page.items : Showable(k)}
Given == {shown[k].of : k \in DOMAIN shown}

\* The callback is given each of the page that can be shown once and in order, up
\* to the one where it ends the list; and on_done is called at most once, when
\* nothing follows, but not at all for a query that was withdrawn
\* (tg_get_dialogs_async_cb, parse_msgs).
EachIsGivenOnce ==
    /\ \A j, k \in DOMAIN shown : j < k => shown[j].of < shown[k].of
    /\ IF page.is = "other" THEN shown = <<>>
       ELSE /\ Given \subseteq Wanted
            /\ \A given \in Given, i \in Wanted : i < given => i \in Given
            /\ stage = "shown" /\ ~ended => Given = Wanted
    /\ dones <= 1
    /\ stage # "returned" => dones = 0
    /\ dones = 1 => outcome[Query] # "none"
=============================================================================
