------------------------------- MODULE MCContent -------------------------------
(***************************************************************************)
(* What goes into queries and is done with their answers, each part on     *)
(* its own: the layers around a message (Wire), files, updates, and lists  *)
(* of dialogs, messages, channels and colours.  A behaviour is one of one  *)
(* part.                                                                   *)
(***************************************************************************)
EXTENDS TLC, Wire, Files, Updates, Dialogs

CONSTANTS
    t1, t2,  \* threads of queries
    q        \* a query

VARIABLE
    theme    \* which part the behaviour is about

MCMessages ==
    {ResPQ(8, n) : n \in 1..3} \cup {req_pq, dh_gen_ok, ping}
    \cup {P_Q_inner_data(8, 4, 4), req_DH_params(4, 4, 256)}
    \cup {Server_DH_Params_ok(n) : n \in {592, 596}}
    \cup {Server_DH_inner_data(256, n) : n \in 253..256}
    \cup {Client_DH_Inner_Data(n) : n \in 253..256}
    \cup {set_client_DH_params(336)}
    \cup {auth_sendCode(n) : n \in 8..15}
    \cup {tl_query(a, b) : a \in (0..4) \cup (250..257), b \in {0, 5, 253, 254}}

---------------------------------------------------------------------------
User(id, full, is_contact, name) ==
    [id |-> id, min |-> ~full, contact |-> is_contact, name |-> name]
Chat(kind, title) == [kind |-> kind, id |-> 1, title |-> title]
NewMessage(m) == [is |-> "updateNewMessage", message |-> m]
From(is, id) == [is |-> is, from |-> id]
ServiceFrom(id, action) == [is |-> "messageService", from |-> id, action |-> action]
Typing(in, from, action) ==
    [is |-> "update" \o in \o "Typing", in |-> in, from |-> from, action |-> action]
Status(s) == [is |-> "updateUserStatus", from |-> 1, status |-> s]
Long(is, us, cs, ups) == [is |-> is, users |-> us, chats |-> cs, updates |-> ups]
Short(is, id, from, text) == [is |-> is, id |-> id, from |-> from, text |-> text]

MCAnswers ==
    {Long("updates", <<User(1, TRUE, TRUE, "n")>>, <<Chat("chat", "t")>>,
          <<Null, NewMessage(From("message", 1)),
            [is |-> "updateDeleteMessages", messages |-> <<1, 2>>]>>),
     Long("updatesCombined", <<Null, User(1, FALSE, FALSE, "n")>>,
          <<Null, Chat("channel", "t")>>,
          <<NewMessage(ServiceFrom(1, "title")), Null, Typing("User", 1, "typing")>>),
     Long("updates", <<User(1, TRUE, FALSE, "n"), User(2, TRUE, TRUE, "quoted")>>,
          <<Chat("chat", "quoted")>>,
          <<NewMessage(From("message", 2)), Typing("ChatUser", 2, "game"),
                  [is |-> "updateConfig"]>>),
     Long("updates", <<User(2, FALSE, TRUE, "n")>>, <<>>, <<NewMessage(From("message", 2))>>),
     Long("updateShort", <<>>, <<>>, <<NewMessage(From("messageEmpty", Null))>>),
     Long("updateShort", <<>>, <<>>, <<NewMessage(Null)>>),
     Long("updateShort", <<>>, <<>>, <<NewMessage(ServiceFrom(1, Null))>>),
     Long("updateShort", <<>>, <<>>, <<Null>>),
     Long("updateShort", <<>>, <<>>, <<Typing("ChannelUser", Null, Null)>>),
     Long("updateShort", <<>>, <<>>, <<Typing("ChannelUser", 1, Null)>>),
     Long("updateShort", <<>>, <<>>, <<Status("online")>>),
     Long("updateShort", <<>>, <<>>, <<Status("unknown")>>),
     Long("updateShort", <<>>, <<>>, <<Status(Null)>>),
     [is |-> "updatesTooLong"],
     Short("updateShortMessage", 1, 1, "text"), Short("updateShortMessage", 2, 1, "quoted"),
     Short("updateShortChatMessage", 1, 1, "text"),
     Short("updateShortChatMessage", 2, 1, Null)}

---------------------------------------------------------------------------
Peer(kind, id) == [kind |-> kind, id |-> id]
u1 == Peer("user", 1)
u2 == Peer("user", 2)
c1 == Peer("chat", 1)
c3 == Peer("chat", 3)
ch2 == Peer("channel", 2)
ch4 == Peer("channel", 4)
M(is, id, peer, text, media) ==
    [is |-> is, id |-> id, peer |-> peer, text |-> text, media |-> media,
     from |-> IF peer = c3 THEN u1 ELSE Null]
Texts == {M("message", 1, u1, "hello", {})}
    \cup {M("message", 1, u1, Null, m) :
            m \in {{"document", "video attribute", "round"}, {"document", "round"},
                   {"document", "voice", "audio attribute"},
                   {"document", "audio attribute"}, {"document"}, {"contact"},
                   {"photo"}, {"geo"}, {}}}
D(of, top) == [is |-> "dialog", peer |-> of, top |-> top]
Folder(of, top, in) == [is |-> "dialogFolder", peer |-> of, top |-> top, folder |-> in]

DialogPages ==
    {[is |-> "dialogs", items |-> items, users |-> us, chats |-> cs, messages |-> ms] :
        items \in {<<a, b>> : a, b \in {D(u1, 1), D(c3, 3), D(ch4, 1), D(ch2, 3),
                                        Folder(u2, 2, 1), Null, [is |-> "unknown"]}}
                  \cup {<<D(Null, 1), D(u1, 1)>>, <<D(u1, 1), Folder(u2, 2, Null)>>,
                   <<D(u1, 1), D(u2, 2), D(c3, 3)>>},
        us \in {<<>>, <<u1>>, <<Peer("empty", 2), u1, Null, u2>>},
        cs \in {<<>>, <<c3, ch4>>, <<Null, c1, ch2>>, <<ch2, c1, c3>>},
        ms \in {<<>>,
                <<M("message", 1, u1, "hello", {}), Null, M("message", 2, u2, "you", {})>>,
                <<M("messageService", 1, u1, "hello", {}),
                  M("message", 3, c3, Null, {"photo"})>>}}
    \cup {[is |-> "dialogs", items |-> <<D(u1, 1)>>, users |-> <<u1>>, chats |-> <<>>,
           messages |-> <<m>>] : m \in Texts}
Service(id, action) == [is |-> "messageService", id |-> id, action |-> action]
Actions == {[is |-> "chatAddUser"], [is |-> "chatEditTitle", of |-> "title"], Null}
    \cup {[is |-> "phoneCall", video |-> v, reason |-> r] :
            v \in {FALSE, TRUE}, r \in {"missed", "other", Null}}
MessagePages ==
    {[is |-> "messages", items |-> items, users |-> <<u1>>, chats |-> <<ch2>>] :
        items \in {<<>>, <<M("message", 1, u1, "hello", {}), Null,
                           M("message", 3, u1, "you", {"document", "sticker"})>>,
                   <<M("message", 1, u1, "hello", {}), M("messageEmpty", 2, Null, Null, {})>>}
                  \cup {<<Service(1, a), M("message", 2, u1, Null, {"photo"})>> :
                            a \in Actions}}
Other == [is |-> "other"]

MCPages ==
    [c \in {"tg_get_dialogs", "tg_get_dialogs_async"} |-> DialogPages \cup {Other}]
    @@ [c \in {"tg_messages_get_history", "tg_messages_get_history_async",
               "tg_get_messages", "tg_get_channel_messages"} |->
          MessagePages \cup {Other}]
    @@ [c \in {"tg_channel_search_global"} |->
          {[is |-> "messages", items |-> items] : items \in {<<c3, ch4, ch2>>, <<ch4, Null>>}}]
    @@ [c \in {"tg_get_peer_colors"} |->
          {[is |-> "colors", items |-> items] :
             items \in {<<<<>>, <<1>>, <<1, 2>>, <<1, 2, 3, 4>>>>, <<<<1>>, Null>>}}]

ASSUME ContentAssumption ==
    WireAssumption /\ FilesAssumption /\ UpdatesAssumption /\ DialogsAssumption

---------------------------------------------------------------------------
\* The parts that a behaviour is not about stay as they are at first.
contentVars == <<theme, wireVars, filesVars, updatesVars, dialogsVars>>

ContentInit ==
    /\ theme \in {"wire", "files", "updates", "lists"}
    /\ WireInit /\ (theme # "wire" => msg = ping)
    /\ FilesInit /\ (theme # "files" => job = "tg_contact_send" /\ file = <<>>)
    /\ UpdatesInit
    /\ DialogsInit /\ (theme # "lists" => page = Other /\ call = "tg_get_dialogs")

ContentNext ==
    /\ UNCHANGED theme
    /\ \/ /\ theme = "wire" /\ WireNext
          /\ UNCHANGED <<filesVars, updatesVars, dialogsVars>>
       \/ /\ theme = "files" /\ FilesNext
          /\ UNCHANGED <<wireVars, updatesVars, dialogsVars>>
       \/ /\ theme = "updates" /\ UpdatesNext
          /\ UNCHANGED <<wireVars, filesVars, dialogsVars>>
       \/ /\ theme = "lists" /\ DialogsNext
          /\ UNCHANGED <<wireVars, filesVars, updatesVars>>

ContentSpec == ContentInit /\ [][ContentNext]_contentVars
=============================================================================
