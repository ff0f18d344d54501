----------------------------- MODULE Startup_proofs -----------------------------
(***************************************************************************)
(* Theorems about the handshake, for any threads that run it and any       *)
(* mutexes they hold meanwhile, and about signing in, for any number of    *)
(* accounts and data centres.                                              *)
(***************************************************************************)
EXTENDS Connect, KeyExchange, SequenceTheorems, TLAPS

-----------------------------------------------------------------------------
(* Signing in.                                                             *)

\* The steps for which a key is needed, and those past the migration.
Asking == {"sendcode", "code", "signin", "savekey", "saveip"}
Moved == {"code", "signin", "savekey", "saveip"}

\* Who asks has a key of the data centre at the address.
KeyInv == \A a \in Users : at[a] \in Asking => Known(a)

\* Between the two saves the key is in the database, or known to be lost.
SavedInv == \A a \in Users : at[a] = "saveip" => keys[a] = tg[a].key \/ a \in spoiled

\* Who is past tg_auth_sendCode has come home, and signs in there.
HomeInv ==
    \A a \in Users :
        /\ at[a] \in Moved => tg[a].ip = Home[a]
        /\ at[a] \in {"savekey", "saveip"} => <<tg[a].key, a>> \in signed

\* What is saved of an account that has signed in, and what it works with.
WelcomeInv ==
    \A a \in Users :
        a \in welcomed /\ a \notin spoiled =>
            /\ keys[a] # NoAuthKey /\ keys[a][1] = ips[a] /\ ips[a] = Home[a]
            /\ <<keys[a], a>> \in signed
            /\ at[a] # "down" => tg[a].key = keys[a] /\ tg[a].ip = ips[a]

ConnectInv == ConnectTypeOK /\ KeyInv /\ SavedInv /\ HomeInv /\ WelcomeInv /\ KeyFitsAddress

-----------------------------------------------------------------------------
LEMMA InitConnectInv == ASSUME ConnectAssumption PROVE ConnectInit => ConnectInv
  BY DEF ConnectAssumption, ConnectInit, ConnectInv, ConnectTypeOK, KeyInv, SavedInv, HomeInv,
         WelcomeInv, KeyFitsAddress, Asking, Moved, NoAuthKey, AuthKeys, Places

\* A step of an account keeps the types.
LEMMA UserTypeStep ==
  ASSUME ConnectAssumption, ConnectInv, NEW a \in Users, UserStep(a)
  PROVE  ConnectTypeOK'
<1> USE DEF ConnectAssumption, ConnectInv, ConnectTypeOK, Goto, Error, Places
<1>0. NoAuthKey \in AuthKeys
  BY DEF AuthKeys, NoAuthKey
<1>1. CASE New(a)
  BY <1>1 DEF New, Stored
<1>2. CASE TgConnect(a)
  BY <1>2 DEF TgConnect
<1>3. CASE IsAuthorized(a)
  BY <1>3 DEF IsAuthorized
<1>4. CASE GetSelf(a)
  BY <1>4 DEF GetSelf
<1>5. CASE PhoneNumber(a)
  BY <1>5 DEF PhoneNumber
<1>6. CASE InitConnection(a)
  <2>1. made' \in 0..MaxKeys
    BY <1>6 DEF InitConnection
  <2>2. tg' \in [Users -> [ip : Centres, key : AuthKeys]]
    <3>1. CASE tg' = [tg EXCEPT ![a].key = <<tg[a].ip, made'>>]
      <4>1. <<tg[a].ip, made'>> \in AuthKeys
        BY <2>1, <3>1 DEF AuthKeys
      <4> QED
        BY <3>1, <4>1
    <3>2. CASE UNCHANGED tg
      BY <3>2
    <3> QED
      BY <1>6, <3>1, <3>2 DEF InitConnection
  <2>3. at' \in [Users -> Places] /\ errors' \in 0..MaxErrors
    BY <1>6 DEF InitConnection
  <2> QED
    BY <1>6, <2>1, <2>2, <2>3 DEF InitConnection
<1>7. CASE SendCode(a)
  <2>1. Home[a] \in Centres /\ tg[a] \in [ip : Centres, key : AuthKeys]
    OBVIOUS
  <2>2. tg' \in [Users -> [ip : Centres, key : AuthKeys]]
    BY <1>0, <1>7, <2>1 DEF SendCode, MigratedTo
  <2>3. at' \in [Users -> Places] /\ errors' \in 0..MaxErrors
    BY <1>7 DEF SendCode
  <2> QED
    BY <1>7, <2>2, <2>3 DEF SendCode
<1>8. CASE PhoneCode(a)
  BY <1>8 DEF PhoneCode
<1>9. CASE SignIn(a)
  BY <1>9 DEF SignIn
<1>10. CASE SaveKey(a)
  BY <1>10 DEF SaveKey
<1>11. CASE SaveIp(a)
  BY <1>11 DEF SaveIp, IpsAfter
<1>12. CASE Stop(a)
  BY <1>12 DEF Stop
<1> QED
  BY <1>1, <1>2, <1>3, <1>4, <1>5, <1>6, <1>7, <1>8, <1>9, <1>10, <1>11, <1>12 DEF UserStep

\* The other accounts' tg_t and keys are their own: a step of one account leaves
\* them alone, and what it does to ips is seen in spoiled.
LEMMA OtherUsersStep ==
  ASSUME ConnectAssumption, ConnectInv, NEW a \in Users, UserStep(a), NEW b \in Users, b # a
  PROVE  /\ at'[b] = at[b] /\ tg'[b] = tg[b] /\ keys'[b] = keys[b]
         /\ <<keys[b], b>> \in signed => <<keys[b], b>> \in signed'
         /\ <<tg[b].key, b>> \in signed => <<tg[b].key, b>> \in signed'
         /\ b \in welcomed' <=> b \in welcomed
         /\ b \in spoiled => b \in spoiled'
         /\ b \notin spoiled' => ips'[b] = ips[b]
<1> USE DEF ConnectAssumption, ConnectInv, ConnectTypeOK, Goto, Error
<1>1. CASE New(a) \/ TgConnect(a) \/ IsAuthorized(a) \/ GetSelf(a) \/ PhoneNumber(a)
  BY <1>1 DEF New, TgConnect, IsAuthorized, GetSelf, PhoneNumber
<1>2. CASE InitConnection(a) \/ SendCode(a) \/ PhoneCode(a)
  BY <1>2 DEF InitConnection, SendCode, PhoneCode
<1>3. CASE SignIn(a) \/ SaveKey(a) \/ Stop(a)
  BY <1>3 DEF SignIn, SaveKey, Stop
<1>4. CASE SaveIp(a)
  BY <1>4 DEF SaveIp, IpsAfter
<1> QED
  BY <1>1, <1>2, <1>3, <1>4 DEF UserStep

-----------------------------------------------------------------------------
\* What the steps of an account keep for the account itself.
LEMMA KeyOfUserStep ==
  ASSUME ConnectAssumption, ConnectInv, NEW a \in Users, UserStep(a), at'[a] \in Asking
  PROVE  Known(a)'
<1> USE DEF ConnectAssumption, ConnectInv, ConnectTypeOK, Goto, Error, KeyInv, Asking, Known
<1>1. CASE New(a) \/ TgConnect(a) \/ IsAuthorized(a) \/ GetSelf(a) \/ PhoneNumber(a)
  BY <1>1 DEF New, TgConnect, IsAuthorized, GetSelf, PhoneNumber
<1>2. CASE InitConnection(a)
  <2>1. CASE UNCHANGED tg /\ Known(a)
    BY <1>2, <2>1
  <2>2. CASE made' = made + 1 /\ tg' = [tg EXCEPT ![a].key = <<tg[a].ip, made'>>]
    <3>1. tg'[a].key = <<tg[a].ip, made'>> /\ tg'[a].ip = tg[a].ip
      BY <2>2
    <3>2. made' # 0
      BY <2>2
    <3> QED
      BY <3>1, <3>2 DEF NoAuthKey
  <2> QED
    BY <1>2, <2>1, <2>2 DEF InitConnection
<1>3. CASE SendCode(a) \/ PhoneCode(a)
  BY <1>3 DEF SendCode, PhoneCode
<1>4. CASE SignIn(a) \/ SaveKey(a) \/ SaveIp(a) \/ Stop(a)
  BY <1>4 DEF SignIn, SaveKey, SaveIp, Stop
<1> QED
  BY <1>1, <1>2, <1>3, <1>4 DEF UserStep

LEMMA SavedStep ==
  ASSUME ConnectAssumption, ConnectInv, NEW a \in Users, UserStep(a), at'[a] = "saveip"
  PROVE  (keys[a] = tg[a].key \/ a \in spoiled)'
<1> USE DEF ConnectAssumption, ConnectInv, ConnectTypeOK, Goto, Error
<1>1. SaveKey(a)
  BY DEF UserStep, New, TgConnect, IsAuthorized, GetSelf, PhoneNumber, InitConnection,
         SendCode, PhoneCode, SignIn, SaveKey, SaveIp, Stop
<1> QED
  BY <1>1 DEF SaveKey

LEMMA HomeStep ==
  ASSUME ConnectAssumption, ConnectInv, NEW a \in Users, UserStep(a)
  PROVE  /\ at'[a] \in Moved => tg'[a].ip = Home[a]
         /\ at'[a] \in {"savekey", "saveip"} => <<tg'[a].key, a>> \in signed'
<1> USE DEF ConnectAssumption, ConnectInv, ConnectTypeOK, Goto, Error, HomeInv, Moved
<1>1. CASE New(a) \/ TgConnect(a) \/ IsAuthorized(a) \/ GetSelf(a) \/ PhoneNumber(a)
           \/ InitConnection(a)
  BY <1>1 DEF New, TgConnect, IsAuthorized, GetSelf, PhoneNumber, InitConnection
<1>2. CASE SendCode(a) \/ PhoneCode(a) \/ SignIn(a)
  BY <1>2 DEF SendCode, PhoneCode, SignIn
<1>3. CASE SaveKey(a) \/ SaveIp(a) \/ Stop(a)
  BY <1>3 DEF SaveKey, SaveIp, Stop
<1> QED
  BY <1>1, <1>2, <1>3 DEF UserStep

LEMMA WelcomeStep ==
  ASSUME ConnectAssumption, ConnectInv, NEW a \in Users, UserStep(a),
         a \in welcomed', a \notin spoiled'
  PROVE  /\ keys'[a] # NoAuthKey /\ keys'[a][1] = ips'[a] /\ ips'[a] = Home[a]
         /\ <<keys'[a], a>> \in signed'
         /\ at'[a] # "down" => tg'[a].key = keys'[a] /\ tg'[a].ip = ips'[a]
<1> USE DEF ConnectAssumption, ConnectInv, ConnectTypeOK, Goto, Error, WelcomeInv
<1>1. CASE New(a)
  BY <1>1 DEF New, Stored
<1>2. CASE TgConnect(a) \/ IsAuthorized(a) \/ GetSelf(a) \/ PhoneNumber(a)
           \/ PhoneCode(a)
  BY <1>2 DEF TgConnect, IsAuthorized, GetSelf, PhoneNumber, PhoneCode
<1>3. CASE InitConnection(a) \/ SendCode(a)
  \* the key is there and at home
  BY <1>3 DEF InitConnection, SendCode, Known
<1>4. CASE SignIn(a) \/ Stop(a)
  BY <1>4 DEF SignIn, Stop
<1>5. CASE SaveKey(a)
  BY <1>5 DEF SaveKey
<1>6. CASE SaveIp(a)
  <2>1. keys[a] = tg[a].key /\ ips'[a] = tg[a].ip /\ UNCHANGED <<tg, keys, signed>>
    BY <1>6 DEF SaveIp, IpsAfter, SavedInv
  <2>2. Known(a) /\ tg[a].ip = Home[a] /\ <<tg[a].key, a>> \in signed
    BY <1>6 DEF SaveIp, KeyInv, Asking, HomeInv, Moved
  <2> QED
    BY <2>1, <2>2 DEF Known
<1> QED
  BY <1>1, <1>2, <1>3, <1>4, <1>5, <1>6 DEF UserStep

LEMMA FitStep ==
  ASSUME ConnectAssumption, ConnectInv, NEW a \in Users, UserStep(a),
         keys'[a] # NoAuthKey, a \notin spoiled', at'[a] # "saveip"
  PROVE  keys'[a][1] = ips'[a]
<1> USE DEF ConnectAssumption, ConnectInv, ConnectTypeOK, Goto, Error, KeyFitsAddress
<1>1. CASE New(a) \/ TgConnect(a) \/ IsAuthorized(a) \/ GetSelf(a) \/ PhoneNumber(a)
  BY <1>1 DEF New, TgConnect, IsAuthorized, GetSelf, PhoneNumber
<1>2. CASE InitConnection(a) \/ SendCode(a) \/ PhoneCode(a) \/ SignIn(a)
  BY <1>2 DEF InitConnection, SendCode, PhoneCode, SignIn
<1>3. CASE SaveKey(a) \/ Stop(a)
  BY <1>3 DEF SaveKey, Stop
<1>4. CASE SaveIp(a)
  <2>1. Known(a)
    BY <1>4 DEF SaveIp, KeyInv, Asking
  <2> QED
    BY <1>4, <2>1 DEF SaveIp, IpsAfter, SavedInv, Known
<1> QED
  BY <1>1, <1>2, <1>3, <1>4 DEF UserStep

-----------------------------------------------------------------------------
LEMMA UserConnectInv ==
  ASSUME ConnectAssumption, ConnectInv, NEW a \in Users, UserStep(a)
  PROVE  ConnectInv'
<1>1. ConnectTypeOK'
  BY UserTypeStep
<1>2. KeyInv'
  <2> SUFFICES ASSUME NEW b \in Users, at'[b] \in Asking PROVE Known(b)'
    BY DEF KeyInv
  <2>1. CASE b = a
    BY <2>1, KeyOfUserStep
  <2>2. CASE b # a
    BY <2>2, OtherUsersStep DEF ConnectInv, KeyInv, Known
  <2> QED
    BY <2>1, <2>2
<1>3. SavedInv'
  <2> SUFFICES ASSUME NEW b \in Users, at'[b] = "saveip"
               PROVE  keys'[b] = tg'[b].key \/ b \in spoiled'
    BY DEF SavedInv
  <2>1. CASE b = a
    BY <2>1, SavedStep
  <2>2. CASE b # a
    BY <2>2, OtherUsersStep DEF ConnectInv, SavedInv
  <2> QED
    BY <2>1, <2>2
<1>4. HomeInv'
  <2> SUFFICES ASSUME NEW b \in Users
               PROVE  /\ at'[b] \in Moved => tg'[b].ip = Home[b]
                      /\ at'[b] \in {"savekey", "saveip"} => <<tg'[b].key, b>> \in signed'
    BY DEF HomeInv
  <2>1. CASE b = a
    BY <2>1, HomeStep
  <2>2. CASE b # a
    BY <2>2, OtherUsersStep DEF ConnectInv, HomeInv
  <2> QED
    BY <2>1, <2>2
<1>5. WelcomeInv'
  <2> SUFFICES ASSUME NEW b \in Users, b \in welcomed', b \notin spoiled'
               PROVE  /\ keys'[b] # NoAuthKey /\ keys'[b][1] = ips'[b] /\ ips'[b] = Home[b]
                      /\ <<keys'[b], b>> \in signed'
                      /\ at'[b] # "down" => tg'[b].key = keys'[b] /\ tg'[b].ip = ips'[b]
    BY DEF WelcomeInv, NoAuthKey
  <2>1. CASE b = a
    BY <2>1, WelcomeStep
  <2>2. CASE b # a
    BY <2>2, OtherUsersStep DEF ConnectInv, WelcomeInv
  <2> QED
    BY <2>1, <2>2
<1>6. KeyFitsAddress'
  <2> SUFFICES ASSUME NEW b \in Users, keys'[b] # NoAuthKey, b \notin spoiled',
                      at'[b] # "saveip"
               PROVE  keys'[b][1] = ips'[b]
    BY DEF KeyFitsAddress, NoAuthKey
  <2>1. CASE b = a
    BY <2>1, FitStep
  <2>2. CASE b # a
    BY <2>2, OtherUsersStep DEF ConnectInv, KeyFitsAddress
  <2> QED
    BY <2>1, <2>2
<1> QED
  BY <1>1, <1>2, <1>3, <1>4, <1>5, <1>6 DEF ConnectInv

LEMMA NextConnectInv ==
  ASSUME ConnectAssumption
  PROVE  ConnectInv /\ [ConnectNext]_connectVars => ConnectInv'
<1> SUFFICES ASSUME ConnectInv, [ConnectNext]_connectVars PROVE ConnectInv'
  OBVIOUS
<1>1. CASE UNCHANGED connectVars
  BY <1>1 DEF connectVars, ConnectInv, ConnectTypeOK, KeyInv, SavedInv, HomeInv, WelcomeInv,
              KeyFitsAddress,
              Known, NoAuthKey
<1>2. ASSUME NEW a \in Users, UserStep(a) PROVE ConnectInv'
  BY <1>2, UserConnectInv
<1> QED
  BY <1>1, <1>2 DEF ConnectNext, ConnectDone

\* ConnectInv holds in every state that signing in can reach.
THEOREM ConnectInvariance == ASSUME ConnectAssumption PROVE ConnectSpec => []ConnectInv
<1>1. ConnectInit => ConnectInv
  BY InitConnectInv
<1>2. ConnectInv /\ [ConnectNext]_connectVars => ConnectInv'
  BY NextConnectInv
<1> QED
  BY <1>1, <1>2, PTL DEF ConnectSpec

\* The saved key is one that the data centre at the saved address knows, unless a
\* fault or another account's save of its address is known to have spoiled it
\* (tg_auth_signIn, auth_key_to_database, ip_address_to_database).
THEOREM SavedKeyFits == ASSUME ConnectAssumption PROVE ConnectSpec => []KeyFitsAddress
<1>1. ConnectInv => KeyFitsAddress
  BY DEF ConnectInv
<1>2. ConnectSpec => []ConnectInv
  BY ConnectInvariance
<1> QED
  BY <1>1, <1>2, PTL

LEMMA AskedStep ==
  ASSUME ConnectAssumption, ConnectInv, [ConnectNext]_connectVars PROVE AskedForReason
<1> SUFFICES ASSUME NEW b \in Users, at[b] \in {"isauth", "getself"}, at'[b] = "phone",
                    b \in welcomed, b \notin spoiled
             PROVE  errors' > errors
  BY DEF AskedForReason
<1> USE DEF ConnectInv, ConnectTypeOK
<1>1. Known(b) /\ <<tg[b].key, b>> \in signed
  BY DEF WelcomeInv, Known
<1>2. PICK a \in Users : UserStep(a)
  BY DEF ConnectNext, ConnectDone, connectVars
<1>3. a = b
  BY <1>2, OtherUsersStep
<1>4. IsAuthorized(b) \/ GetSelf(b)
  BY <1>2, <1>3 DEF UserStep, New, TgConnect, IsAuthorized, GetSelf, PhoneNumber,
     InitConnection, SendCode, PhoneCode, SignIn, SaveKey, SaveIp, Stop, Goto
<1>5. Error
  BY <1>1, <1>4 DEF IsAuthorized, GetSelf, Goto
<1> QED
  BY <1>5 DEF ConnectAssumption, Error

\* Who has signed in is asked for a phone number only after an error, or when what
\* was saved is spoiled (tg_is_authorized).
THEOREM AskedWithReason ==
  ASSUME ConnectAssumption PROVE ConnectSpec => AskedOnlyWhenNeeded
<1>1. ConnectInv /\ [ConnectNext]_connectVars => AskedForReason
  BY AskedStep
<1>2. ConnectSpec => []ConnectInv
  BY ConnectInvariance
<1> QED
  BY <1>1, <1>2, PTL DEF ConnectSpec, AskedOnlyWhenNeeded

-----------------------------------------------------------------------------
(* The handshake.                                                          *)

\* A thread whose handshake has a connection and has not been copied yet.
Active(c) == pc[c] \in (Steps \cup {"take"}) \ {"open"}

Answers == [kind : Fields \cup {"ok", "other"}, sn : 0..nonces]
Keys == [sn : 0..nonces, b : Clients \cup {NoOne}, salt : 0..nonces, whole : BOOLEAN,
         sound : BOOLEAN]

TypeInv ==
    /\ ExchangeTypeOK
    /\ nonces \in Nat
    /\ {rc, key} \subseteq Keys
    /\ inbox \in [Clients -> Seq(Answers)]

\* Nothing is read from a connection before it is opened.
OpenInv ==
    \A c \in Clients :
        /\ pc[c] \in {"start", "lock", "open"} => inbox[c] = <<>> /\ sockfd # c
        /\ Active(c) => sockfd \in Clients

AgreedWith(c) == m[c].inner = m[c].pq /\ <<m[c].inner, c>> \in agreed

\* What a handshake that nothing has disturbed has come to.
Alone(c) ==
    /\ sockfd = c
    /\ \A d \in Clients \ {c} : ~Active(d)
    /\ pc[c] \in {"sendpq", "senddh", "sendset"} => inbox[c] = <<>>
    /\ pc[c] \in {"recvpq", "recvdh", "recvset"} => Len(inbox[c]) = 1
    /\ pc[c] = "recvdh" /\ inbox[c][1].kind = "dh" => inbox[c][1].sn = m[c].pq
    /\ pc[c] = "sendset" => m[c].dh = m[c].pq
    /\ pc[c] = "recvset" /\ inbox[c][1].kind = "ok" => AgreedWith(c)
    /\ pc[c] = "finish" => AgreedWith(c)
    /\ pc[c] = "take" => rc.b = c /\ rc.salt = rc.sn /\ <<rc.sn, c>> \in agreed

SoundInv == \A c \in Clients : sound[c] /\ Active(c) => Alone(c)

ExchangeInv == TypeInv /\ OpenInv /\ SoundInv /\ KeyIsAgreed

-----------------------------------------------------------------------------
LEMMA InitExchangeInv == ASSUME KeyExchangeAssumption, ExchangeInit PROVE ExchangeInv
<1> USE DEF ExchangeInit
<1>1. TypeInv
  <2>1. 0 \in 0..nonces /\ nonces \in Nat
    OBVIOUS
  <2>2. rc \in Keys /\ key \in Keys
    BY <2>1 DEF NoKey, Keys
  <2>3. inbox \in [Clients -> Seq(Answers)]
    OBVIOUS
  <2>4. ExchangeTypeOK
    BY <2>1 DEF ExchangeTypeOK, Nothing
  <2> QED
    BY <2>1, <2>2, <2>3, <2>4 DEF TypeInv
<1>2. \A c \in Clients : pc[c] \in {"start", "lock"} /\ ~Active(c)
  BY DEF Active, Steps
<1>4. OpenInv /\ SoundInv
  BY <1>2 DEF OpenInv, SoundInv, KeyExchangeAssumption
<1>5. KeyIsAgreed
  BY DEF KeyIsAgreed, NoKey
<1> QED
  BY <1>1, <1>4, <1>5 DEF ExchangeInv

-----------------------------------------------------------------------------
(* Types.                                                                  *)

\* The numbers that are drawn only become more.
LEMMA Wider ==
  ASSUME TypeInv, nonces' \in {nonces, nonces + 1}
  PROVE  /\ nonces' \in Nat /\ 0..nonces \subseteq 0..nonces'
         /\ Answers \subseteq Answers'
         /\ Keys \subseteq Keys'
         /\ \A s \in Seq(Answers) : s \in Seq(Answers')
<1>1. nonces' \in Nat /\ 0..nonces \subseteq 0..nonces'
  BY DEF TypeInv
<1>2. Answers \subseteq Answers'
  BY <1>1 DEF Answers
<1>3. Keys \subseteq Keys'
  BY <1>1 DEF Keys
<1>4. ASSUME NEW S, NEW T, S \subseteq T, NEW s \in Seq(S) PROVE s \in Seq(T)
  BY <1>4
<1> QED
  BY <1>1, <1>2, <1>3, <1>4

LEMMA TypeStay ==
  ASSUME TypeInv, UNCHANGED <<holder, sockfd, rc, t, m, inbox, key, nonces, agreed, sound>>,
         pc' = pc
  PROVE  TypeInv'
  BY DEF TypeInv, ExchangeTypeOK, Keys, Answers

\* Where a step takes its thread.
LEMMA PlaceType ==
  ASSUME TypeInv, NEW c \in Clients, ClientStep(c)
  PROVE  pc' \in [Clients -> Steps \cup {"start", "lock", "take", "unlock", "done"}]
  BY DEF TypeInv, ExchangeTypeOK, ClientStep, Test, Lock, Open, SendPq, RecvPq, SendDH, RecvDH, SendSet,
         RecvSet, Receive, ReceiveFails, Finish, FinishWith, TakeKey, Unlock, Proceed, Steps

\* What goes to a connection, and what is left of it after a recv.
LEMMA RequestType ==
  ASSUME TypeInv, OpenInv, NEW c \in Clients, Active(c), nonces' \in {nonces, nonces + 1},
         NEW a, a \in Answers', Request(c, a)
  PROVE  inbox' \in [Clients -> Seq(Answers')] /\ inbox'[sockfd] = Append(inbox[sockfd], a)
<1>1. sockfd \in Clients
  BY DEF OpenInv
<1>2. inbox \in [Clients -> Seq(Answers')]
  <2>1. \A s \in Seq(Answers) : s \in Seq(Answers')
    BY Wider
  <2> QED
    BY <2>1 DEF TypeInv
<1>3. inbox' = [inbox EXCEPT ![sockfd] = Append(@, a)]
  BY DEF Request
<1> QED
  BY <1>1, <1>2, <1>3

LEMMA OtherType == TypeInv => Other \in Answers
  BY DEF TypeInv, Other, Answers, Fields

LEMMA ReceiveType ==
  ASSUME TypeInv, OpenInv, NEW c \in Clients, NEW from, from \in Steps \ {"open"}, NEW to,
         NEW kind, kind \in Fields \cup {"ok"}, Receive(c, from, to, kind)
  PROVE  /\ t' \in [Fields -> 0..nonces] /\ m' \in [Clients -> [Fields -> 0..nonces]]
         /\ inbox' \in [Clients -> Seq(Answers)]
         /\ sound' \in [Clients -> BOOLEAN]
         /\ UNCHANGED <<holder, sockfd, rc, key, nonces, agreed>>
<1>0. /\ t \in [Fields -> 0..nonces] /\ m \in [Clients -> [Fields -> 0..nonces]]
      /\ inbox \in [Clients -> Seq(Answers)] /\ sound \in [Clients -> BOOLEAN]
      /\ sockfd \in Clients
  <2>1. Active(c)
    BY DEF Receive, Proceed, Active, Dies
  <2> QED
    BY <2>1 DEF TypeInv, ExchangeTypeOK, OpenInv
<1> DEFINE msg == Head(inbox[sockfd])
           read == [k \in Fields |-> IF k = msg.kind THEN msg.sn ELSE t[k]]
<1>1. msg \in Answers
  BY <1>0 DEF Receive
<1>2. read \in [Fields -> 0..nonces]
  BY <1>0, <1>1 DEF Answers
<1>3. CASE Dies
  BY <1>0, <1>3 DEF Dies
<1>4. CASE ~Dies
  <2>1. /\ t' = read
        /\ m' = IF kind = "ok" THEN m ELSE [m EXCEPT ![c][kind] = read[kind]]
        /\ \E n \in 2..(Len(inbox[sockfd]) + 1) :
              inbox' = [inbox EXCEPT ![sockfd] = SubSeq(@, n, Len(@))]
        /\ sound' = [sound EXCEPT ![c] = @ /\ msg.kind = kind]
        /\ UNCHANGED <<holder, sockfd, rc, key, nonces, agreed>>
    BY <1>4 DEF Receive
  <2> HIDE DEF read
  <2>2. t' \in [Fields -> 0..nonces] /\ m' \in [Clients -> [Fields -> 0..nonces]]
    BY <1>0, <1>2, <2>1
  <2>3. inbox' \in [Clients -> Seq(Answers)]
    <3>1. PICK n \in 2..(Len(inbox[sockfd]) + 1) :
             inbox' = [inbox EXCEPT ![sockfd] = SubSeq(@, n, Len(@))]
      BY <2>1
    <3>2. SubSeq(inbox[sockfd], n, Len(inbox[sockfd])) \in Seq(Answers)
      <4> DEFINE s == inbox[sockfd]
      <4>1. s \in Seq(Answers) /\ n \in 1..(Len(s) + 1) /\ Len(s) \in Nat
        BY <1>0
      <4>2. ASSUME NEW i \in n..Len(s) PROVE s[i] \in Answers
        BY <4>1
      <4> QED
        BY <4>1, <4>2, SubSeqProperties
    <3> QED
      BY <1>0, <3>1, <3>2
  <2>4. sound' \in [Clients -> BOOLEAN]
    BY <1>0, <2>1
  <2> QED
    BY <2>1, <2>2, <2>3, <2>4
<1> QED
  BY <1>3, <1>4

LEMMA ClientTypeStep ==
  ASSUME TypeInv, OpenInv, NEW c \in Clients, ClientStep(c)
  PROVE  TypeInv'
<1>0. /\ pc \in [Clients -> Steps \cup {"start", "lock", "take", "unlock", "done"}]
      /\ holder \in [{Guard[d] : d \in Clients} -> Clients \cup {NoOne}]
      /\ sockfd \in Clients \cup {NoOne}
      /\ t \in [Fields -> 0..nonces] /\ m \in [Clients -> [Fields -> 0..nonces]]
      /\ agreed \subseteq (1..nonces) \X Clients /\ sound \in [Clients -> BOOLEAN]
      /\ nonces \in Nat /\ rc \in Keys /\ key \in Keys
      /\ inbox \in [Clients -> Seq(Answers)]
  BY DEF TypeInv, ExchangeTypeOK
<1>1. pc' \in [Clients -> Steps \cup {"start", "lock", "take", "unlock", "done"}]
  BY PlaceType
<1>2. CASE Test(c) \/ ReceiveFails(c)
  <2>1. UNCHANGED <<holder, sockfd, rc, t, m, inbox, key, nonces, agreed, sound>>
    BY <1>2 DEF Test, ReceiveFails, Dies
  <2> QED
    BY <1>0, <1>1, <2>1 DEF TypeInv, ExchangeTypeOK, Keys, Answers
<1>3. CASE Lock(c) \/ Unlock(c)
  <2>1. UNCHANGED <<sockfd, rc, t, m, inbox, key, nonces, agreed, sound>>
    BY <1>3 DEF Lock, Unlock
  <2>2. holder' \in [{Guard[d] : d \in Clients} -> Clients \cup {NoOne}]
    BY <1>0, <1>3 DEF Lock, Unlock
  <2> QED
    BY <1>0, <1>1, <2>1, <2>2 DEF TypeInv, ExchangeTypeOK, Keys, Answers
<1>4. CASE Open(c)
  <2>1. UNCHANGED <<holder, t, m, inbox, key, nonces, agreed>> /\ sockfd' = c
    BY <1>4 DEF Open
  <2>2. rc' \in Keys
    BY <1>0, <1>4 DEF Open, NoKey, Keys
  <2>3. sound' \in [Clients -> BOOLEAN]
    BY <1>0, <1>4 DEF Open
  <2> QED
    BY <1>0, <1>1, <2>1, <2>2, <2>3 DEF TypeInv, ExchangeTypeOK, Keys, Answers
<1>5. CASE SendPq(c)
  <2>1. Active(c) /\ UNCHANGED <<holder, sockfd, rc, t, m, key, agreed, sound>>
    BY <1>5 DEF SendPq, Proceed, Active, Steps
  <2>2. PICK a : Request(c, a) /\ a \in Answers' /\ nonces' \in {nonces, nonces + 1}
    <3>1. CASE nonces' = nonces + 1 /\ Request(c, [kind |-> "pq", sn |-> nonces'])
      <4>1. [kind |-> "pq", sn |-> nonces'] \in Answers'
        BY <1>0, <3>1 DEF Answers, Fields
      <4> QED
        BY <3>1, <4>1
    <3>2. CASE Request(c, Other) /\ UNCHANGED nonces
      <4>1. Other \in Answers'
        BY <3>2, OtherType, Wider
      <4> QED
        BY <3>2, <4>1
    <3> QED
      BY <1>5, <3>1, <3>2 DEF SendPq
  <2>3. inbox' \in [Clients -> Seq(Answers')]
    BY <2>1, <2>2, RequestType
  <2>4. nonces' \in Nat /\ 0..nonces \subseteq 0..nonces' /\ Keys \subseteq Keys'
    BY <2>2, Wider
  <2>5. /\ t' \in [Fields -> 0..nonces'] /\ m' \in [Clients -> [Fields -> 0..nonces']]
        /\ agreed' \subseteq (1..nonces') \X Clients
    BY <1>0, <2>1, <2>4
  <2>6. rc' \in Keys' /\ key' \in Keys'
    BY <1>0, <2>1, <2>4
  <2> QED
    BY <1>0, <1>1, <2>1, <2>3, <2>4, <2>5, <2>6 DEF TypeInv, ExchangeTypeOK
<1>6. CASE SendDH(c)
  <2>1. /\ Active(c)
        /\ UNCHANGED <<holder, sockfd, rc, t, m, key, nonces, agreed, sound>>
    BY <1>6 DEF SendDH, Proceed, Active, Steps
  <2>2. PICK a \in {[kind |-> "dh", sn |-> m[c].pq], Other} : Request(c, a)
    BY <1>6 DEF SendDH
  <2>3. m[c].pq \in 0..nonces
    BY <1>0 DEF Fields
  <2>4. a \in Answers'
    <3>1. [kind |-> "dh", sn |-> m[c].pq] \in Answers
      BY <2>3 DEF Answers, Fields
    <3>2. Answers' = Answers
      BY <2>1 DEF Answers
    <3> QED
      BY <2>2, <3>1, <3>2, OtherType
  <2>5. inbox' \in [Clients -> Seq(Answers')]
    BY <2>1, <2>2, <2>4, RequestType
  <2> QED
    BY <1>0, <1>1, <2>1, <2>5 DEF TypeInv, ExchangeTypeOK, Keys
<1>7. CASE SendSet(c)
  <2> DEFINE inner == IF m[c].dh = m[c].pq /\ NewNonce(1) = NewNonce(2) THEN m[c].dh ELSE t.inner
  <2>0. Active(c) /\ UNCHANGED <<holder, sockfd, rc, key, nonces, sound>>
    BY <1>7 DEF SendSet, Proceed, Active, Steps, Dies
  <2>1. CASE inner = 0
    <3>1. Dies
      BY <1>7, <2>1 DEF SendSet
    <3> QED
      BY <1>0, <1>1, <3>1 DEF Dies, TypeInv, ExchangeTypeOK, Keys, Answers
  <2>2. CASE inner # 0
    <3>1. inner \in 1..nonces
      BY <1>0, <2>2 DEF Fields
    <3>2. /\ t' = [t EXCEPT !.inner = inner] /\ m' = [m EXCEPT ![c].inner = inner]
          /\ \/ /\ agreed' = agreed \cup {<<inner, c>>}
                /\ Request(c, [kind |-> "ok", sn |-> inner])
             \/ Request(c, Other) /\ UNCHANGED agreed
      BY <1>7, <2>2 DEF SendSet
    <3> HIDE DEF inner
    <3>3. t' \in [Fields -> 0..nonces] /\ m' \in [Clients -> [Fields -> 0..nonces]]
      <4>1. inner \in 0..nonces
        BY <1>0, <3>1
      <4>2. t' \in [Fields -> 0..nonces]
        BY <1>0, <3>2, <4>1
      <4>3. [m[c] EXCEPT !.inner = inner] \in [Fields -> 0..nonces]
        BY <1>0, <4>1
      <4>4. m' \in [Clients -> [Fields -> 0..nonces]]
        BY <1>0, <3>2, <4>3
      <4> QED
        BY <4>2, <4>4
    <3>4. agreed' \subseteq (1..nonces) \X Clients
      BY <1>0, <3>1, <3>2
    <3>5. PICK a : Request(c, a) /\ a \in Answers
      <4>1. [kind |-> "ok", sn |-> inner] \in Answers
        BY <1>0, <3>1 DEF Answers
      <4> QED
        BY <3>2, <4>1, OtherType
    <3>6. a \in Answers' /\ Answers' = Answers
      BY <2>0, <3>5 DEF Answers
    <3>7. inbox' \in [Clients -> Seq(Answers')]
      BY <2>0, <3>5, <3>6, RequestType
    <3> QED
      BY <1>0, <1>1, <2>0, <3>3, <3>4, <3>7 DEF TypeInv, ExchangeTypeOK, Keys
  <2> QED
    BY <2>1, <2>2
<1>8. CASE RecvPq(c) \/ RecvDH(c) \/ RecvSet(c)
  <2>1. /\ t' \in [Fields -> 0..nonces] /\ m' \in [Clients -> [Fields -> 0..nonces]]
        /\ inbox' \in [Clients -> Seq(Answers)]
        /\ sound' \in [Clients -> BOOLEAN]
        /\ UNCHANGED <<holder, sockfd, rc, key, nonces, agreed>>
    BY <1>8, ReceiveType DEF RecvPq, RecvDH, RecvSet, Steps, Fields
  <2> QED
    BY <1>0, <1>1, <2>1 DEF TypeInv, ExchangeTypeOK, Keys, Answers
<1>9. CASE Finish(c)
  <2>1. UNCHANGED <<holder, sockfd, t, m, inbox, key, nonces, agreed, sound>>
    BY <1>9 DEF Finish, FinishWith
  <2>2. rc' \in Keys
    <3>1. PICK whole \in BOOLEAN :
             rc' = [sn |-> m[c].inner, b |-> c, salt |-> m[c].pq, whole |-> whole,
                    sound |-> sound[c]]
      BY <1>9 DEF Finish, FinishWith
    <3>2. m[c].inner \in 0..nonces /\ m[c].pq \in 0..nonces /\ sound[c] \in BOOLEAN
      BY <1>0 DEF Fields
    <3> QED
      BY <3>1, <3>2 DEF Keys
  <2> QED
    BY <1>0, <1>1, <2>1, <2>2 DEF TypeInv, ExchangeTypeOK, Keys, Answers
<1>10. CASE TakeKey(c)
  <2>1. UNCHANGED <<holder, sockfd, rc, t, m, inbox, nonces, agreed, sound>>
    BY <1>10 DEF TakeKey
  <2>2. key' \in Keys
    BY <1>0, <1>10 DEF TakeKey, Keys
  <2> QED
    BY <1>0, <1>1, <2>1, <2>2 DEF TypeInv, ExchangeTypeOK, Keys, Answers
<1> QED
  BY <1>2, <1>3, <1>4, <1>5, <1>6, <1>7, <1>8, <1>9, <1>10 DEF ClientStep

-----------------------------------------------------------------------------
(* Connections.                                                            *)

\* A step moves its own thread only, and leaves soundness where it is for the
\* others, unless it opens a connection.
LEMMA Others ==
  ASSUME TypeInv, NEW c \in Clients, ClientStep(c), NEW d \in Clients, d # c
  PROVE  /\ pc'[d] = pc[d] /\ m'[d] = m[d]
         /\ sound'[d] => sound[d]
         /\ Open(c) /\ Active(d) => ~sound'[d]
<1>1. pc'[d] = pc[d]
  BY DEF TypeInv, ExchangeTypeOK, ClientStep, Test, Lock, Open, SendPq, RecvPq, SendDH, RecvDH, SendSet,
         RecvSet, Receive, ReceiveFails, Finish, FinishWith, TakeKey, Unlock, Proceed
<1>2. m'[d] = m[d]
  BY DEF TypeInv, ExchangeTypeOK, ClientStep, Test, Lock, Open, SendPq, RecvPq, SendDH, RecvDH, SendSet,
         RecvSet, Receive, ReceiveFails, Finish, FinishWith, TakeKey, Unlock, Dies
<1>3. CASE Open(c)
  BY <1>1, <1>2, <1>3 DEF Open, TypeInv, ExchangeTypeOK, Active
<1>4. CASE ~Open(c)
  <2>1. sound'[d] = sound[d]
    BY <1>4 DEF TypeInv, ExchangeTypeOK, ClientStep, Test, Lock, SendPq, RecvPq, SendDH, RecvDH, SendSet,
           RecvSet, Receive, ReceiveFails, Finish, FinishWith, TakeKey, Unlock, Dies
  <2> QED
    BY <1>1, <1>2, <1>4, <2>1
<1> QED
  BY <1>3, <1>4

\* What is sent and what is read is on the connection that is the current one.
LEMMA InboxKept ==
  ASSUME TypeInv, OpenInv, NEW c \in Clients, ClientStep(c), NEW d \in Clients, sockfd # d
  PROVE  inbox'[d] = inbox[d]
  BY DEF TypeInv, ClientStep, Test, Lock, Open, SendPq, RecvPq, SendDH, RecvDH, SendSet,
         RecvSet, Receive, ReceiveFails, Finish, FinishWith, TakeKey, Unlock, Dies, Request

LEMMA OpenStep ==
  ASSUME TypeInv, OpenInv, NEW c \in Clients, ClientStep(c)
  PROVE  OpenInv'
<1> SUFFICES ASSUME NEW d \in Clients
             PROVE  /\ pc'[d] \in {"start", "lock", "open"} => inbox'[d] = <<>> /\ sockfd' # d
                    /\ Active(d)' => sockfd' \in Clients
  BY DEF OpenInv
<1>0. pc \in [Clients -> Steps \cup {"start", "lock", "take", "unlock", "done"}]
  BY DEF TypeInv, ExchangeTypeOK
<1>1. sockfd' = IF Open(c) THEN c ELSE sockfd
  BY DEF ClientStep, Test, Lock, Open, SendPq, RecvPq, SendDH, RecvDH, SendSet,
         RecvSet, Receive, ReceiveFails, Finish, FinishWith, TakeKey, Unlock, Dies
<1>2. pc'[d] \in {"start", "lock", "open"} => inbox'[d] = <<>> /\ sockfd' # d
  <2> SUFFICES ASSUME pc'[d] \in {"start", "lock", "open"} PROVE inbox'[d] = <<>> /\ sockfd' # d
    OBVIOUS
  <2>1. pc[d] \in {"start", "lock", "open"} /\ (d = c => ~Open(c))
    <3>1. CASE d # c
      BY <3>1, Others
    <3>2. CASE d = c
      BY <1>0, <3>2 DEF ClientStep, Test, Lock, Open, SendPq, RecvPq, SendDH, RecvDH, SendSet,
         RecvSet, Receive, ReceiveFails, Finish, FinishWith, TakeKey, Unlock, Proceed
    <3> QED
      BY <3>1, <3>2
  <2>2. inbox[d] = <<>> /\ sockfd # d
    BY <2>1 DEF OpenInv
  <2> QED
    BY <1>1, <2>1, <2>2, InboxKept
<1>3. Active(d)' => sockfd' \in Clients
  <2> SUFFICES ASSUME Active(d)', ~Open(c) PROVE Active(d)
    BY <1>1 DEF OpenInv
  <2>1. CASE d # c
    BY <2>1, Others DEF Active
  <2>2. CASE d = c
    BY <1>0, <2>2 DEF ClientStep, Test, Lock, SendPq, RecvPq, SendDH, RecvDH, SendSet,
       RecvSet, Receive, ReceiveFails, Finish, FinishWith, TakeKey, Unlock, Proceed, Active, Steps
  <2> QED
    BY <2>1, <2>2
<1> QED
  BY <1>2, <1>3

-----------------------------------------------------------------------------
(* A handshake that runs alone.                                            *)

LEMMA OneSent ==
  ASSUME TypeInv, OpenInv, NEW c \in Clients, sockfd = c, inbox[c] = <<>>, NEW a, Request(c, a)
  PROVE  Len(inbox'[c]) = 1 /\ inbox'[c][1] = a
<1>1. inbox'[c] = Append(<<>>, a)
  BY DEF Request, TypeInv
<1> QED
  BY <1>1

LEMMA OneReceived ==
  ASSUME TypeInv, OpenInv, NEW c \in Clients, sockfd = c, Len(inbox[c]) = 1,
         NEW from, NEW to, NEW kind, kind \in Fields \cup {"ok"},
         Receive(c, from, to, kind), ~Dies, sound'[c]
  PROVE  /\ inbox'[c] = <<>> /\ pc'[c] = to
         /\ inbox[c][1].kind = kind
         /\ kind = "ok" => m'[c] = m[c]
         /\ kind # "ok" => m'[c][kind] = inbox[c][1].sn
         /\ \A k \in Fields \ {kind} : m'[c][k] = m[c][k]
         /\ UNCHANGED <<sockfd, agreed>>
<1>0. /\ pc \in [Clients -> Steps \cup {"start", "lock", "take", "unlock", "done"}]
      /\ m \in [Clients -> [Fields -> 0..nonces]]
      /\ inbox \in [Clients -> Seq(Answers)] /\ sound \in [Clients -> BOOLEAN]
  BY DEF TypeInv, ExchangeTypeOK
<1> DEFINE msg == Head(inbox[sockfd])
           read == [k \in Fields |-> IF k = msg.kind THEN msg.sn ELSE t[k]]
<1>1. msg = inbox[c][1]
  BY <1>0
<1>2. /\ Proceed(c, from, to)
      /\ m' = IF kind = "ok" THEN m ELSE [m EXCEPT ![c][kind] = read[kind]]
      /\ \E n \in 2..(Len(inbox[sockfd]) + 1) :
            inbox' = [inbox EXCEPT ![sockfd] = SubSeq(@, n, Len(@))]
      /\ sound' = [sound EXCEPT ![c] = @ /\ msg.kind = kind]
      /\ UNCHANGED <<sockfd, agreed>>
  BY DEF Receive
<1> HIDE DEF msg
<1>3. msg.kind = kind
  BY <1>0, <1>2
<1>4. pc'[c] = to
  BY <1>0, <1>2 DEF Proceed
<1>5. inbox'[c] = <<>>
  <2>1. inbox'[c] = SubSeq(inbox[c], 2, 1)
    <3>1. PICK n \in 2..(Len(inbox[c]) + 1) :
             inbox' = [inbox EXCEPT ![c] = SubSeq(@, n, Len(@))]
      BY <1>2
    <3>2. n = 2
      BY <3>1
    <3> QED
      BY <1>0, <3>1, <3>2
  <2> QED
    BY <2>1, SubSeqEmpty
<1>6. kind \in Fields => read[kind] = msg.sn
  BY <1>3
<1> HIDE DEF read
<1>7. /\ kind = "ok" => m'[c] = m[c]
      /\ kind # "ok" => m'[c][kind] = msg.sn
      /\ \A k \in Fields \ {kind} : m'[c][k] = m[c][k]
  BY <1>0, <1>2, <1>6
<1> QED
  BY <1>1, <1>2, <1>3, <1>4, <1>5, <1>7

\* Its own steps.
LEMMA OwnStep ==
  ASSUME TypeInv, OpenInv, SoundInv, NEW c \in Clients, ClientStep(c), sound'[c], Active(c)'
  PROVE  Alone(c)'
<1>0. /\ pc \in [Clients -> Steps \cup {"start", "lock", "take", "unlock", "done"}]
      /\ m \in [Clients -> [Fields -> 0..nonces]] /\ sound \in [Clients -> BOOLEAN]
      /\ inbox \in [Clients -> Seq(Answers)]
  BY DEF TypeInv, ExchangeTypeOK
<1>1. \A d \in Clients \ {c} : pc'[d] = pc[d]
  BY Others
<1>2. CASE Open(c)
  <2>1. pc[c] = "open" /\ pc'[c] = "sendpq" /\ sockfd' = c /\ inbox' = inbox
    BY <1>0, <1>2 DEF Open, Proceed
  <2>2. \A d \in Clients \ {c} : ~Active(d)'
    BY <1>0, <1>1, <1>2 DEF Open, Active
  <2>3. inbox[c] = <<>>
    BY <2>1 DEF OpenInv
  <2> QED
    BY <2>1, <2>2, <2>3 DEF Alone
<1>3. CASE ~Open(c)
  <2>1. Active(c)
    BY <1>0, <1>3 DEF ClientStep, Test, Lock, SendPq, RecvPq, SendDH, RecvDH, SendSet,
       RecvSet, Receive, ReceiveFails, Finish, FinishWith, TakeKey, Unlock, Proceed, Active, Steps
  <2>2. sound[c]
    BY <1>0, <1>3 DEF ClientStep, Test, Lock, SendPq, RecvPq, SendDH, RecvDH, SendSet,
       RecvSet, Receive, ReceiveFails, Finish, FinishWith, TakeKey, Unlock, Dies
  <2>3. Alone(c)
    BY <2>1, <2>2 DEF SoundInv
  <2>4. sockfd' = c /\ \A d \in Clients \ {c} : ~Active(d)'
    <3>1. sockfd' = sockfd
      BY <1>3 DEF ClientStep, Test, Lock, SendPq, RecvPq, SendDH, RecvDH, SendSet,
         RecvSet, Receive, ReceiveFails, Finish, FinishWith, TakeKey, Unlock, Dies
    <3> QED
      BY <1>1, <2>3, <3>1 DEF Alone, Active
  <2>5. pc'[c] = pc[c] \/ ~Dies
    <3>1. ~dead
      BY DEF ClientStep, Test, Lock, Open, SendPq, RecvPq, SendDH, RecvDH, SendSet,
         RecvSet, Receive, ReceiveFails, Finish, FinishWith, TakeKey, Unlock, Proceed
    <3>2. dead' = dead => ~Dies
      BY <3>1 DEF Dies
    <3>3. CASE RecvPq(c) \/ RecvDH(c) \/ RecvSet(c)
      BY <1>0, <3>2, <3>3 DEF RecvPq, RecvDH, RecvSet, Receive, Proceed
    <3>4. CASE SendSet(c)
      BY <1>0, <3>2, <3>4 DEF SendSet, Proceed
    <3>5. CASE ReceiveFails(c)
      BY <1>0, <3>5 DEF ReceiveFails, Proceed
    <3>6. CASE Test(c) \/ Lock(c) \/ SendPq(c) \/ SendDH(c) \/ Finish(c) \/ TakeKey(c) \/ Unlock(c)
      BY <3>2, <3>6 DEF Test, Lock, SendPq, SendDH, Finish, FinishWith, TakeKey, Unlock
    <3> QED
      BY <1>3, <3>3, <3>4, <3>5, <3>6 DEF ClientStep
  <2>6. CASE Dies
    <3>1. UNCHANGED <<inbox, m, agreed, rc>>
      BY <2>6 DEF Dies
    <3>2. pc'[c] = pc[c]
      BY <2>5, <2>6
    <3> QED
      BY <2>3, <2>4, <3>1, <3>2 DEF Alone, AgreedWith
  <2>7. CASE ~Dies
    <3>1. CASE SendPq(c)
      <4>1. pc[c] = "sendpq" /\ pc'[c] = "recvpq" /\ \E a : Request(c, a)
        BY <1>0, <3>1 DEF SendPq, Proceed
      <4>2. Len(inbox'[c]) = 1
        BY <2>3, <4>1, OneSent DEF Alone
      <4> QED
        BY <2>4, <4>1, <4>2 DEF Alone
    <3>2. CASE RecvPq(c)
      <4>1. pc[c] = "recvpq"
        BY <3>2 DEF RecvPq, Receive, Proceed
      <4>2. inbox'[c] = <<>> /\ pc'[c] = "senddh"
        <5>1. Receive(c, "recvpq", "senddh", "pq") /\ "pq" \in Fields \cup {"ok"} /\ "pq" # "ok"
          BY <3>2 DEF RecvPq, Fields
        <5>2. sockfd = c /\ Len(inbox[c]) = 1
          BY <2>3, <4>1 DEF Alone
        <5> QED
          BY <2>7, <5>1, <5>2, OneReceived
      <4> QED
        BY <2>4, <4>2 DEF Alone
    <3>3. CASE SendDH(c)
      <4>1. /\ pc[c] = "senddh" /\ pc'[c] = "recvdh" /\ m' = m
            /\ \E a \in {[kind |-> "dh", sn |-> m[c].pq], Other} : Request(c, a)
        BY <1>0, <3>3 DEF SendDH, Proceed
      <4>2. PICK a \in {[kind |-> "dh", sn |-> m[c].pq], Other} :
               Len(inbox'[c]) = 1 /\ inbox'[c][1] = a
        BY <2>3, <4>1, OneSent DEF Alone
      <4>3. a.kind = "dh" => a.sn = m[c].pq
        BY <4>2 DEF Other
      <4> QED
        BY <2>4, <4>1, <4>2, <4>3 DEF Alone
    <3>4. CASE RecvDH(c)
      <4>1. pc[c] = "recvdh"
        BY <3>4 DEF RecvDH, Receive, Proceed
      <4>2. /\ inbox'[c] = <<>> /\ pc'[c] = "sendset" /\ inbox[c][1].kind = "dh"
            /\ m'[c]["dh"] = inbox[c][1].sn /\ m'[c]["pq"] = m[c]["pq"]
        <5>1. Receive(c, "recvdh", "sendset", "dh") /\ "dh" \in Fields \cup {"ok"} /\ "dh" # "ok"
          BY <3>4 DEF RecvDH, Fields
        <5>2. sockfd = c /\ Len(inbox[c]) = 1
          BY <2>3, <4>1 DEF Alone
        <5>3. "pq" \in Fields \ {"dh"}
          BY DEF Fields
        <5> QED
          BY <2>7, <5>1, <5>2, <5>3, OneReceived
      <4>3. inbox[c][1].sn = m[c].pq
        BY <2>3, <4>1, <4>2 DEF Alone
      <4>4. m'[c].dh = m'[c].pq
        BY <1>0, <4>2, <4>3 DEF Fields
      <4> QED
        BY <2>4, <4>2, <4>4 DEF Alone
    <3>5. CASE SendSet(c)
      <4>1. pc[c] = "sendset"
        BY <3>5 DEF SendSet, Proceed
      <4>2. m[c].dh = m[c].pq /\ inbox[c] = <<>> /\ sockfd = c
        BY <2>3, <4>1 DEF Alone
      <4>3. /\ pc'[c] = "recvset" /\ m' = [m EXCEPT ![c].inner = m[c].dh]
            /\ \/ /\ agreed' = agreed \cup {<<m[c].dh, c>>}
                  /\ Request(c, [kind |-> "ok", sn |-> m[c].dh])
               \/ Request(c, Other)
        BY <1>0, <2>7, <3>5, <4>2 DEF SendSet, Proceed, NewNonce
      <4>4. AgreedWith(c)' \/ Request(c, Other)
        <5>1. m'[c] = [m[c] EXCEPT !.inner = m[c].dh]
          BY <1>0, <4>3
        <5>2. m'[c].inner = m[c].dh /\ m'[c].pq = m[c].pq
          BY <1>0, <5>1 DEF Fields
        <5> QED
          BY <4>2, <4>3, <5>2 DEF AgreedWith
      <4>5. Len(inbox'[c]) = 1 /\ (Request(c, Other) => inbox'[c][1].kind = "other")
        <5>1. Other.kind = "other"
          BY DEF Other
        <5> QED
          BY <4>2, <4>3, <5>1, OneSent
      <4> QED
        BY <2>4, <4>3, <4>4, <4>5 DEF Alone
    <3>6. CASE RecvSet(c)
      <4>1. pc[c] = "recvset"
        BY <3>6 DEF RecvSet, Receive, Proceed
      <4>2. /\ inbox'[c] = <<>> /\ pc'[c] = "finish" /\ inbox[c][1].kind = "ok"
            /\ m'[c] = m[c] /\ agreed' = agreed
        BY <2>3, <2>7, <3>6, <4>1, OneReceived DEF RecvSet, Alone
      <4>3. AgreedWith(c)
        BY <2>3, <4>1, <4>2 DEF Alone
      <4> QED
        BY <2>4, <4>2, <4>3 DEF Alone, AgreedWith
    <3>7. CASE Finish(c)
      <4>1. /\ pc[c] = "finish" /\ pc'[c] = "take" /\ agreed' = agreed
            /\ rc'.sn = m[c].inner /\ rc'.b = c /\ rc'.salt = m[c].pq
        BY <1>0, <3>7 DEF Finish, FinishWith, Proceed
      <4>2. AgreedWith(c)
        BY <2>3, <4>1 DEF Alone
      <4> QED
        BY <2>4, <4>1, <4>2 DEF Alone, AgreedWith
    <3>8. CASE ReceiveFails(c)
      BY <2>7, <3>8 DEF ReceiveFails
    <3>9. CASE Test(c) \/ Lock(c) \/ TakeKey(c) \/ Unlock(c)
      <4>1. pc[c] \in {"start", "lock", "unlock"} \/ pc'[c] = "unlock"
        BY <1>0, <3>9 DEF Test, Lock, TakeKey, Unlock, Proceed
      <4> QED
        BY <2>1, <4>1 DEF Active, Steps
    <3> QED
      BY <1>3, <3>1, <3>2, <3>3, <3>4, <3>5, <3>6, <3>7, <3>8, <3>9 DEF ClientStep
  <2> QED
    BY <2>6, <2>7
<1> QED
  BY <1>2, <1>3

\* The steps of the others.
LEMMA OtherClientsStep ==
  ASSUME TypeInv, OpenInv, SoundInv, NEW c \in Clients, NEW d \in Clients, d # c, ClientStep(d),
         sound'[c], Active(c)'
  PROVE  Alone(c)'
<1>0. pc \in [Clients -> Steps \cup {"start", "lock", "take", "unlock", "done"}]
  BY DEF TypeInv, ExchangeTypeOK
<1>1. pc'[c] = pc[c] /\ m'[c] = m[c] /\ sound[c]
  BY Others
<1>2. Active(c)
  BY <1>1 DEF Active
<1>3. Alone(c) /\ ~Active(d) /\ ~Open(d)
  <2>1. Alone(c)
    BY <1>1, <1>2 DEF SoundInv
  <2> QED
    BY <1>2, <2>1, Others DEF Alone
<1>4. Test(d) \/ Lock(d) \/ Unlock(d)
  BY <1>3 DEF ClientStep, SendPq, RecvPq, SendDH, RecvDH, SendSet, RecvSet, Receive,
     ReceiveFails, Finish, FinishWith, TakeKey, Proceed, Active, Steps
<1>5. UNCHANGED <<sockfd, inbox, agreed, rc>> /\ ~Active(d)'
  BY <1>0, <1>4 DEF Test, Lock, Unlock, Proceed, Active, Steps
<1>6. \A e \in Clients \ {c} : ~Active(e)'
  <2> SUFFICES ASSUME NEW e \in Clients \ {c}, e # d PROVE ~Active(e)'
    BY <1>5
  <2>1. pc'[e] = pc[e]
    BY Others
  <2> QED
    BY <1>3, <2>1 DEF Alone, Active
<1> QED
  BY <1>1, <1>3, <1>5, <1>6 DEF Alone, AgreedWith

-----------------------------------------------------------------------------
LEMMA KeyOfClientStep ==
  ASSUME ExchangeInv, NEW c \in Clients, ClientStep(c) PROVE KeyIsAgreed'
<1>1. agreed \subseteq agreed'
  BY DEF ClientStep, Test, Lock, Open, SendPq, RecvPq, SendDH, RecvDH, SendSet,
     RecvSet, Receive, ReceiveFails, Finish, FinishWith, TakeKey, Unlock, Dies
<1>2. CASE TakeKey(c)
  <2> SUFFICES ASSUME key'.sound PROVE <<key'.sn, key'.b>> \in agreed' /\ key'.salt = key'.sn
    BY DEF KeyIsAgreed
  <2>1. key' = [rc EXCEPT !.sound = sound[c]] /\ pc[c] = "take" /\ rc \in Keys
    BY <1>2 DEF TakeKey, Proceed, ExchangeInv, TypeInv
  <2>2. key'.sn = rc.sn /\ key'.b = rc.b /\ key'.salt = rc.salt /\ key'.sound = sound[c]
    BY <2>1 DEF Keys
  <2>3. Alone(c)
    BY <2>1, <2>2 DEF ExchangeInv, SoundInv, Active
  <2> QED
    BY <1>1, <2>1, <2>2, <2>3 DEF Alone
<1>3. CASE ~TakeKey(c)
  <2>1. key' = key
    BY <1>3 DEF ClientStep, Test, Lock, Open, SendPq, RecvPq, SendDH, RecvDH, SendSet,
       RecvSet, Receive, ReceiveFails, Finish, FinishWith, Unlock, Dies
  <2> QED
    BY <1>1, <2>1 DEF ExchangeInv, KeyIsAgreed
<1> QED
  BY <1>2, <1>3

LEMMA NextExchangeInv == ExchangeInv /\ [ExchangeNext]_exchangeVars => ExchangeInv'
<1> SUFFICES ASSUME ExchangeInv, [ExchangeNext]_exchangeVars PROVE ExchangeInv'
  OBVIOUS
<1>1. ASSUME NEW c \in Clients, ClientStep(c) PROVE ExchangeInv'
  <2>1. TypeInv' /\ OpenInv'
    BY <1>1, ClientTypeStep, OpenStep DEF ExchangeInv
  <2>2. SoundInv'
    <3> SUFFICES ASSUME NEW d \in Clients, sound'[d], Active(d)' PROVE Alone(d)'
      BY DEF SoundInv
    <3>1. CASE d = c
      BY <1>1, <3>1, OwnStep DEF ExchangeInv
    <3>2. CASE d # c
      BY <1>1, <3>2, OtherClientsStep DEF ExchangeInv
    <3> QED
      BY <3>1, <3>2
  <2> QED
    BY <1>1, <2>1, <2>2, KeyOfClientStep DEF ExchangeInv
<1>2. CASE UNCHANGED exchangeVars
  <2>1. TypeInv'
    BY <1>2, TypeStay DEF exchangeVars, ExchangeInv
  <2>2. OpenInv'
    BY <1>2 DEF exchangeVars, ExchangeInv, OpenInv, Active
  <2>3. SoundInv'
    BY <1>2 DEF exchangeVars, ExchangeInv, SoundInv, Active, Alone, AgreedWith
  <2>4. KeyIsAgreed'
    BY <1>2 DEF exchangeVars, ExchangeInv, KeyIsAgreed
  <2> QED
    BY <2>1, <2>2, <2>3, <2>4 DEF ExchangeInv
<1> QED
  BY <1>1, <1>2 DEF ExchangeNext

\* The invariant of the handshake: what holds of one that runs alone, wherever it
\* is in srl_auth and whatever an earlier one left in shared_rc and t.
THEOREM ExchangeInvariance ==
  ASSUME KeyExchangeAssumption PROVE ExchangeSpec => []ExchangeInv
<1>1. ExchangeInit => ExchangeInv
  BY InitExchangeInv
<1> QED
  BY <1>1, NextExchangeInv, PTL DEF ExchangeSpec

\* Every variable of the handshake has its type.
THEOREM TypeCorrect ==
  ASSUME KeyExchangeAssumption PROVE ExchangeSpec => []ExchangeTypeOK
<1>1. ExchangeInv => ExchangeTypeOK
  BY DEF ExchangeInv, TypeInv
<1> QED
  BY <1>1, ExchangeInvariance, PTL

\* A key that srl_auth made with nothing to disturb it, and that is as long as it
\* should be, is one that the server has agreed to, with the salt of the same
\* handshake; whichever mutex each thread holds.
THEOREM KeyAgreed ==
  ASSUME KeyExchangeAssumption PROVE ExchangeSpec => []KeyIsAgreed
<1>1. ExchangeInv => KeyIsAgreed
  BY DEF ExchangeInv
<1> QED
  BY <1>1, ExchangeInvariance, PTL
=============================================================================
