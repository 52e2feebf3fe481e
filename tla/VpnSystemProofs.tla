--------------------------- MODULE VpnSystemProofs ---------------------------
(***************************************************************************)
(* A client that takes itself for connected is served, for every number of *)
(* addresses, keys and slots, every length of the socket's buffer and all  *)
(* settings of the intervals.                                              *)
(*                                                                         *)
(* The argument follows the age of what the client hears.  An answer under *)
(* way is as old as its flight, so the server heard from the socket at     *)
(* most DELAY before the answer arrives; from then on the client counts    *)
(* pong_age, and gives up before the server's clock for it can pass        *)
(* CLIENT_TIMEOUT.                                                         *)
(***************************************************************************)
EXTENDS VpnSystem, TLAPS

(* The datagrams of a client; packets of the server in the socket's buffer *)
(* and under way.                                                          *)
Datagram == [type : {"CONNECT_REQ", "DATA", "PING", "DISCONNECT"}, from : Addr]
Arrived(p) == \E k \in DOMAIN inbox : inbox[k] = p

Types ==
  /\ pc \in {"start", "await", "tun", "loop", "select", "sleep", "exited"}
  /\ ping_age \in Nat /\ pong_age \in Nat /\ timer \in Nat /\ backoff \in Nat
  /\ inbox \in Seq(Client!Packet) /\ wire \in SUBSET Client!Flight
  /\ sock \in Addr /\ sent \in SUBSET Datagram

(* What the client's clock shows in each blocking call; the TUN device is  *)
(* set up once, after the first connection.                                *)
Stages ==
  /\ pc \in {"start", "tun"} => tun_ip = 0
  /\ pc \in {"loop", "select", "sleep"} => tun_ip # 0
  /\ pc = "tun" => vpn_ip # 0 /\ pong_age + timer <= 1
  /\ pc = "loop" /\ connected => pong_age <= PONG_TIMEOUT
  /\ pc = "select" => pong_age + timer <= PONG_TIMEOUT + 1

(* The second main sleeps before the device is set up does not make a PONG *)
(* older than it looks, because nothing was pinged before.                 *)
NoPongYet ==
  tun_ip = 0 => /\ \A d \in sent : d.type # "PING"
                /\ \A f \in wire : f.packet.type # "PONG"
                /\ \A p : Arrived(p) => p.type # "PONG"

(* A DISCONNECT that could be repeated is the last the client sent. *)
NoGoodbyeYet == pc # "exited" => \A d \in sent : d.type # "DISCONNECT"

ClientSide == Types /\ Stages /\ NoPongYet /\ NoGoodbyeYet

(* The server heard from the socket when it sent what arrives. *)
AnswersAge ==
  /\ \A f \in wire : Server!Heard(table, sock, f.age)
  /\ pc \in {"await", "loop", "select"} =>
       \A p : Arrived(p) /\ p.type = "PONG" => Server!Heard(table, sock, DELAY)

(* CLIENT_TIMEOUT leaves room for pong_timeout, one select() and the delay *)
(* of an answer.                                                           *)
Roomy == CLIENT_TIMEOUT > PONG_TIMEOUT + DELAY

(* An offer the client may still accept is good. *)
OffersHold ==
  Roomy /\ pc = "await" =>
    /\ \A f \in wire : f.packet.type = "RESP"
         => Server!Known(table, sock, f.packet.ip)
    /\ \A p : Arrived(p) /\ p.type = "RESP"
         => Server!Known(table, sock, p.ip) /\ Server!Heard(table, sock, DELAY)

(* While the client takes itself for connected the server knows it, and    *)
(* has heard from it not much longer ago than the client from the server.  *)
UpHolds ==
  Roomy /\ Up => /\ Server!Known(table, sock, vpn_ip)
                 /\ Server!Heard(table, sock, pong_age + DELAY)

Links == AnswersAge /\ OffersHold /\ UpHolds

-----------------------------------------------------------------------------
(* What the client relies on a step of the server for. *)
ServerKeeps ==
  /\ \A a, n : n \in Nat /\ Server!Heard(table, a, n) => Server!Heard(table', a, n)
  /\ \A a, ip : /\ Server!Known(table, a, ip)
                /\ Server!Heard(table, a, CLIENT_TIMEOUT)
                => Server!Known(table', a, ip)

ServerAges ==
  /\ \A a, n : n \in Nat /\ Server!Heard(table, a, n) => Server!Heard(table', a, n + 1)
  /\ \A a, ip : Server!Known(table, a, ip) => Server!Known(table', a, ip)

ServerAnswers(a) ==
  /\ out'.type \in {"CONNECT_RESP", "PONG"} => Server!Heard(table', a, 0)
  /\ out'.type = "CONNECT_RESP" =>
       /\ granted'[a].vpn_ip \in FIRST_IP .. LAST_IP
       /\ Server!Known(table', a, granted'[a].vpn_ip)

Gentle(d) ==
  /\ ServerKeeps
  /\ ServerAnswers(d.from)
  /\ out'.type = "PONG" => d.type = "PING"

HeardMore ==
  \A a : \A m, n \in Nat :
    m <= n /\ Server!Heard(table, a, m) => Server!Heard(table, a, n)

Promised ==
  /\ HeardMore
  /\ \A d \in Datagram : Handle(d) /\ d.type # "DISCONNECT" => Gentle(d)
  /\ Server!TunPacket \/ Server!Idle => ServerKeeps
  /\ Server!Tick => ServerAges

-----------------------------------------------------------------------------
(* Settings and packets. *)
LEMMA Settings ==
  /\ PONG_TIMEOUT \in Nat \ {0} /\ DELAY \in Nat /\ CLIENT_TIMEOUT \in Nat
  /\ CONNECT_TIMEOUT \in Nat /\ KEEPALIVE \in Nat
  /\ INITIAL_BACKOFF \in Nat /\ MAX_BACKOFF \in Nat
  /\ 0 \notin FIRST_IP .. LAST_IP
BY SettingsAssumption

LEMMA Packets ==
  /\ \A ip \in FIRST_IP .. LAST_IP : [type |-> "RESP", ip |-> ip] \in Client!Packet
  /\ [type |-> "PONG"] \in Client!Packet
  /\ [type |-> "DATA"] \in Client!Packet
  /\ [type |-> "REFUSED"] \in Client!Packet
BY DEF Client!Packet

LEMMA RespIp ==
  ASSUME NEW p \in Client!Packet, p.type = "RESP" PROVE p.ip \in FIRST_IP .. LAST_IP
BY DEF Client!Packet

LEMMA Flights ==
  /\ \A f \in Client!Flight : f.packet \in Client!Packet /\ f.age \in 0 .. DELAY
  /\ \A p \in Client!Packet : Client!Sent(p) \in Client!Flight
  /\ \A p : Client!Sent(p).packet = p /\ Client!Sent(p).age = 0
BY Settings DEF Client!Flight, Client!Sent

LEMMA BufferEmptied ==
  ASSUME inbox' = << >>
  PROVE  inbox' \in Seq(Client!Packet) /\ \A p : ~Arrived(p)'
BY DEF Arrived

LEMMA BufferRead ==
  ASSUME inbox \in Seq(Client!Packet), inbox # << >>, inbox' = Tail(inbox)
  PROVE  /\ inbox' \in Seq(Client!Packet)
         /\ \A p : Arrived(p)' => Arrived(p)
         /\ Head(inbox) \in Client!Packet
         /\ Arrived(Head(inbox))
<1>1. /\ inbox' \in Seq(Client!Packet)
      /\ Len(inbox') = Len(inbox) - 1
      /\ \A k \in 1 .. Len(inbox') : inbox'[k] = inbox[k + 1]
      /\ Len(inbox) \in Nat /\ Len(inbox) > 0
  OBVIOUS
<1>2. \A k \in DOMAIN inbox' : k + 1 \in DOMAIN inbox /\ inbox'[k] = inbox[k + 1]
  BY <1>1
<1>3. \A p : Arrived(p)' => Arrived(p)
  BY <1>2 DEF Arrived
<1>4. 1 \in DOMAIN inbox /\ Head(inbox) = inbox[1] /\ inbox[1] \in Client!Packet
  BY <1>1
<1>5. Arrived(Head(inbox))
  BY <1>4 DEF Arrived
<1> QED BY <1>1, <1>3, <1>4, <1>5

LEMMA BufferFilled ==
  ASSUME inbox \in Seq(Client!Packet), NEW q \in Client!Packet,
         inbox' = Append(inbox, q)
  PROVE  /\ inbox' \in Seq(Client!Packet)
         /\ \A p : Arrived(p)' => Arrived(p) \/ p = q
<1>1. /\ inbox' \in Seq(Client!Packet)
      /\ DOMAIN inbox' = 1 .. Len(inbox) + 1
      /\ DOMAIN inbox = 1 .. Len(inbox)
      /\ Len(inbox) \in Nat
      /\ \A k \in 1 .. Len(inbox) : inbox'[k] = inbox[k]
      /\ inbox'[Len(inbox) + 1] = q
  OBVIOUS
<1>2. \A k \in DOMAIN inbox' : k \in DOMAIN inbox \/ k = Len(inbox) + 1
  BY <1>1
<1> QED BY <1>1, <1>2 DEF Arrived

LEMMA BufferKept ==
  ASSUME inbox' = inbox PROVE \A p : Arrived(p)' <=> Arrived(p)
BY DEF Arrived

LEMMA InitClient == Init => ClientSide /\ Links
<1> SUFFICES ASSUME Init PROVE ClientSide /\ Links
  OBVIOUS
<1>1. /\ pc = "start" /\ timer = 1 /\ tun_ip = 0 /\ ping_age = 0 /\ pong_age = 0
      /\ backoff = INITIAL_BACKOFF /\ inbox = << >> /\ wire = {}
      /\ sock \in Addr /\ sent = {}
  BY DEF Init, Client!Init
<1>2. \A p : ~Arrived(p)
  BY <1>1 DEF Arrived
<1>3. inbox \in Seq(Client!Packet)
  BY <1>1
<1>4. Types
  BY <1>1, <1>3, Settings DEF Types
<1>5. Stages /\ NoPongYet /\ NoGoodbyeYet
  BY <1>1, <1>2 DEF Stages, NoPongYet, NoGoodbyeYet
<1>6. Links
  BY <1>1 DEF Links, AnswersAge, OffersHold, UpHolds, Up
<1> QED BY <1>4, <1>5, <1>6 DEF ClientSide

(* Every handler but that of a DISCONNECT, and what it answers a PONG to. *)
LEMMA HandleCases ==
  ASSUME NEW d, Handle(d), d.type # "DISCONNECT"
  PROVE  /\ \/ Server!ConnectRefused(d.from, client_public_key)
            \/ Server!ConnectAccepted(d.from, client_public_key)
            \/ Server!DataUnknown(d.from)
            \/ Server!Data(d.from, session_key)
            \/ Server!Ping(d.from)
         /\ out'.type = "PONG" => d.type = "PING"
<1>1. ASSUME NEW a, NEW pk, Server!ConnectAccepted(a, pk)
      PROVE  out'.type # "PONG"
  BY <1>1 DEF Server!ConnectAccepted
<1>2. ASSUME NEW a, NEW pk, Server!ConnectRefused(a, pk) \/ Server!DataUnknown(a)
      PROVE  out'.type # "PONG"
  BY <1>2 DEF Server!ConnectRefused, Server!DataUnknown, Server!Silent
<1>3. ASSUME NEW a, NEW key, Server!Data(a, key) PROVE out'.type # "PONG"
  BY <1>3 DEF Server!Data, Server!Silent
<1> QED BY ZenonT(30), <1>1, <1>2, <1>3 DEF Handle

-----------------------------------------------------------------------------
(* The client's side.  Each lemma is a step of the client with what the    *)
(* server does in the same step.                                           *)

LEMMA KeptDatagrams ==
  ASSUME Types, NEW d \in Datagram, Kept(d)
  PROVE  /\ sent' \in SUBSET Datagram
         /\ \A e \in sent' : e \in sent \/ e = d
BY DEF Types, Kept

LEMMA PongFrame ==
  ASSUME NoPongYet, tun_ip' = 0 => tun_ip = 0,
         \A d \in sent' : d \in sent \/ d.type # "PING",
         \A f \in wire' : f \in wire \/ f.packet.type # "PONG",
         \A p : Arrived(p)' => \/ Arrived(p) \/ p.type # "PONG"
                              \/ \E f \in wire : f.packet = p
  PROVE  NoPongYet'
BY ZenonT(30) DEF NoPongYet

LEMMA GoodbyeFrame ==
  ASSUME NoGoodbyeYet, pc' # "exited" => pc # "exited",
         pc' # "exited" => \A d \in sent' : d \in sent \/ d.type # "DISCONNECT"
  PROVE  NoGoodbyeYet'
BY ZenonT(30) DEF NoGoodbyeYet

(* The client's step that ends the process, and the ones that only move it *)
(* from one blocking call to the next.                                     *)
Exits ==
  /\ pc' = "exited" /\ inbox' = << >> /\ wire' = {}
  /\ UNCHANGED <<tun_ip, ping_age, pong_age, timer>>
  /\ backoff' \in Nat

Moves ==
  /\ UNCHANGED <<ping_age, pong_age, vpn_ip, backoff, inbox, wire>>
  /\ pc # "exited"
  /\ \/ /\ UNCHANGED <<pc, connected, tun_ip>>
        /\ timer' \in {timer, 0}
     \/ /\ pc = "tun" /\ pc' = "loop" /\ UNCHANGED <<connected, timer>>
        /\ timer = 0 /\ tun_ip' = vpn_ip
     \/ /\ pc = "loop" /\ connected /\ pc' = "select" /\ timer' = 1
        /\ UNCHANGED <<connected, tun_ip>>
     \/ /\ pc = "loop" /\ pc' = "sleep" /\ timer' = backoff
        /\ UNCHANGED <<connected, tun_ip>>
     \/ /\ pc = "select" /\ pc' = "loop" /\ ~connected'
        /\ UNCHANGED <<timer, tun_ip>>

LEMMA ClientCases ==
  ASSUME Types,
         \/ Client!SendConnectFails \/ Client!RespAccepted \/ Client!RespFails
         \/ Client!TunUp \/ Client!TunFails
         \/ Client!LoopEnds \/ Client!EnterSelect \/ Client!BeginReconnect
         \/ Client!GiveUp \/ Client!ConnectionLost \/ Client!Signal
  PROVE  Exits \/ Client!RespAccepted \/ Moves
<1>0. backoff \in Nat
  BY DEF Types
<1>1. ASSUME Client!Exit PROVE Exits
  BY <1>0, <1>1 DEF Client!Exit, Client!session, Exits
<1>2. CASE Client!SendConnectFails
  <2>1. backoff' \in Nat
    BY <1>0, <1>2, Settings
       DEF Client!SendConnectFails, Client!AfterBackoff, Client!Smallest
  <2> QED BY <1>2, <2>1 DEF Client!SendConnectFails, Exits
<1>3. CASE Client!RespFails \/ Client!TunFails \/ Client!LoopEnds \/ Client!GiveUp
  BY <1>1, <1>3
     DEF Client!RespFails, Client!TunFails, Client!LoopEnds, Client!GiveUp
<1>4. CASE Client!TunUp
  BY <1>4 DEF Client!TunUp, Client!network, Moves
<1>5. CASE Client!EnterSelect
  BY <1>5 DEF Client!EnterSelect, Client!network, Client!session, Moves
<1>6. CASE Client!BeginReconnect
  BY <1>6 DEF Client!BeginReconnect, Client!network, Moves
<1>7. CASE Client!ConnectionLost
  BY <1>7 DEF Client!ConnectionLost, Client!network, Moves
<1>8. CASE Client!Signal
  <2>1. /\ pc # "exited"
        /\ UNCHANGED <<connected, vpn_ip, backoff, tun_ip, ping_age, pong_age>>
    BY <1>8 DEF Client!Signal, Client!session
  <2>2. \/ UNCHANGED <<pc, inbox, wire>> /\ timer' \in {timer, 0}
        \/ pc' = "exited" /\ inbox' = << >> /\ wire' = {} /\ timer' = timer
    BY <1>8 DEF Client!Signal, Client!network
  <2>3. CASE UNCHANGED <<pc, inbox, wire>> /\ timer' \in {timer, 0}
    BY <2>1, <2>3 DEF Moves
  <2>4. CASE pc' = "exited" /\ inbox' = << >> /\ wire' = {} /\ timer' = timer
    BY <1>0, <2>1, <2>4 DEF Exits
  <2> QED BY <2>2, <2>3, <2>4
<1> QED BY <1>2, <1>3, <1>4, <1>5, <1>6, <1>7, <1>8

LEMMA ExitsClient ==
  ASSUME ClientSide, Exits, sock' = sock,
         \/ sent' = sent
         \/ Kept([type |-> "DISCONNECT", from |-> sock])
  PROVE  ClientSide'
<1> DEFINE d == [type |-> "DISCONNECT", from |-> sock]
<1>1. Types /\ NoPongYet
  BY DEF ClientSide
<1>2. d \in Datagram
  BY <1>1 DEF Types, Datagram
<1>3. sent' \in SUBSET Datagram /\ \A e \in sent' : e \in sent \/ e.type # "PING"
  <2>1. CASE sent' = sent
    BY <1>1, <2>1 DEF Types
  <2>2. CASE Kept(d)
    <3>1. d.type # "PING"
      OBVIOUS
    <3> HIDE DEF d
    <3> QED BY <1>1, <1>2, <2>2, <3>1, KeptDatagrams
  <2> QED BY <2>1, <2>2
<1>4. Types'
  BY <1>1, <1>3 DEF Types, Exits
<1>5. Stages' /\ NoGoodbyeYet'
  BY DEF Exits, Stages, NoGoodbyeYet
<1>6. \A p : ~Arrived(p)'
  BY BufferEmptied DEF Exits
<1>7. NoPongYet'
  BY <1>1, <1>3, <1>6, PongFrame DEF Exits
<1> QED BY <1>4, <1>5, <1>7 DEF ClientSide

LEMMA MovesClient ==
  ASSUME ClientSide, Moves, UNCHANGED <<sock, sent>>
  PROVE  ClientSide'
<1>1. Types /\ NoPongYet /\ NoGoodbyeYet /\ Stages
  BY DEF ClientSide
<1>2. Types'
  BY <1>1 DEF Types, Moves
<1>3. Stages'
  BY <1>1, Settings DEF Types, Stages, Moves
<1>4. tun_ip' = 0 => tun_ip = 0
  BY <1>1 DEF Stages, Moves
<1>5. \A p : Arrived(p)' <=> Arrived(p)
  BY BufferKept DEF Moves
<1>6. NoPongYet'
  BY <1>1, <1>4, <1>5, PongFrame DEF Moves
<1>7. NoGoodbyeYet'
  BY <1>1, GoodbyeFrame DEF Moves
<1> QED BY <1>2, <1>3, <1>6, <1>7 DEF ClientSide

LEMMA AcceptClient ==
  ASSUME ClientSide, Client!RespAccepted, UNCHANGED <<sock, sent>>
  PROVE  ClientSide'
<1>1. Types /\ NoPongYet /\ NoGoodbyeYet /\ Stages
  BY DEF ClientSide
<1>2. /\ inbox \in Seq(Client!Packet) /\ inbox # << >> /\ inbox' = Tail(inbox)
      /\ pc = "await" /\ Head(inbox).type = "RESP"
      /\ vpn_ip' = Head(inbox).ip
      /\ ping_age' = 0 /\ pong_age' = 0 /\ timer' = 1
      /\ backoff' = INITIAL_BACKOFF
      /\ IF tun_ip = 0 THEN pc' = "tun" ELSE pc' = "select"
      /\ UNCHANGED <<tun_ip, wire>>
  BY <1>1 DEF Types, Client!RespAccepted
<1>3. /\ inbox' \in Seq(Client!Packet)
      /\ \A p : Arrived(p)' => Arrived(p)
      /\ Head(inbox) \in Client!Packet
  BY <1>2, BufferRead
<1>4. vpn_ip' # 0
  BY <1>2, <1>3, RespIp, Settings
<1>5. Types'
  BY <1>1, <1>2, <1>3, Settings DEF Types
<1>6. Stages'
  BY <1>2, <1>4, Settings DEF Stages
<1>7. NoPongYet'
  BY <1>1, <1>2, <1>3, PongFrame
<1>8. NoGoodbyeYet'
  BY <1>1, <1>2, GoodbyeFrame
<1> QED BY <1>5, <1>6, <1>7, <1>8 DEF ClientSide

LEMMA ConnectClient ==
  ASSUME ClientSide, Connect
  PROVE  ClientSide'
<1>1. Types /\ NoPongYet /\ NoGoodbyeYet /\ Stages
  BY DEF ClientSide
<1>2. /\ pc \in {"start", "sleep"} /\ pc' = "await" /\ timer' = CONNECT_TIMEOUT
      /\ inbox' = << >>
      /\ wire' \in Client!ConnectAnswers
      /\ UNCHANGED <<tun_ip, ping_age, pong_age>>
  BY DEF Connect, Client!SendConnect
<1>3. backoff' \in Nat
  BY <1>1, Settings
     DEF Types, Connect, Client!SendConnect, Client!AfterBackoff,
         Client!Smallest
<1>4. \A f \in wire' : f \in Client!Flight /\ f.packet.type # "PONG"
  <2> DEFINE R(ip) == [type |-> "RESP", ip |-> ip]
             N == [type |-> "REFUSED"]
  <2>1. /\ \A ip \in FIRST_IP .. LAST_IP :
             R(ip) \in Client!Packet /\ R(ip).type # "PONG"
        /\ N \in Client!Packet /\ N.type # "PONG"
    BY Packets
  <2>2. \/ \E ip \in FIRST_IP .. LAST_IP : wire' = {Client!Sent(R(ip))}
        \/ wire' = {}
        \/ wire' = {Client!Sent(N)}
    BY <1>2 DEF Client!ConnectAnswers
  <2> HIDE DEF R, N
  <2> QED BY <2>1, <2>2, Flights
<1> DEFINE d == [type |-> "CONNECT_REQ", from |-> sock']
<1>5. sock' \in Addr /\ Kept(d)
  BY DEF Connect, Handled, Lost
<1>6. d \in Datagram /\ d.type \notin {"PING", "DISCONNECT"}
  BY <1>5 DEF Datagram
<1> HIDE DEF d
<1>7. /\ sent' \in SUBSET Datagram
      /\ \A e \in sent' : e \in sent \/ e.type \notin {"PING", "DISCONNECT"}
  BY <1>1, <1>5, <1>6, KeptDatagrams
<1>8. inbox' \in Seq(Client!Packet) /\ \A p : ~Arrived(p)'
  BY <1>2, BufferEmptied
<1>9. Types'
  BY <1>1, <1>2, <1>3, <1>4, <1>5, <1>7, <1>8, Settings DEF Types
<1>10. Stages'
  BY <1>2 DEF Stages
<1>11. NoPongYet'
  BY <1>1, <1>2, <1>4, <1>7, <1>8, PongFrame
<1>12. NoGoodbyeYet'
  BY <1>1, <1>2, <1>7, GoodbyeFrame
<1> QED BY <1>9, <1>10, <1>11, <1>12 DEF ClientSide

(* In an iteration the answer to a PING, if any, is all that is new on the *)
(* wire, and only if the server handled that PING.                         *)
IteratesWith(d) ==
  /\ d.from = sock
  /\ d.type \in {"PING", "DATA"}
  /\ Kept(d)
  /\ \/ /\ Handle(d) /\ d.type = "PING"
        /\ \/ wire' = wire
           \/ wire' = wire \cup {Client!Sent([type |-> "PONG"])}
     \/ /\ Handle(d) \/ ServerSilent
        /\ wire' = wire

LEMMA IterateCases ==
  ASSUME Types, Iterate
  PROVE  \/ NothingSent /\ wire' = wire
         \/ \E d \in Datagram : IteratesWith(d)
<1> DEFINE ping == [type |-> "PING", from |-> sock]
           data == [type |-> "DATA", from |-> sock]
<1>1. ping_age \in Nat /\ KEEPALIVE \in Nat /\ sock \in Addr
  BY Settings DEF Types
<1>2. Client!MaybePing
  BY DEF Iterate, Client!Iterate
<1>3. ~Pinged => wire' = wire
  BY <1>1, <1>2 DEF Pinged, Client!MaybePing
<1>4. wire' = wire \/ wire' = wire \cup {Client!Sent([type |-> "PONG"])}
  BY <1>2 DEF Client!MaybePing, Client!PingAnswers
<1>5. /\ ping \in Datagram /\ ping.type = "PING" /\ ping.from = sock
      /\ data \in Datagram /\ data.type = "DATA" /\ data.from = sock
  BY <1>1 DEF Datagram
<1>6. \/ Pinged /\ Handled(ping)
      \/ Pinged /\ Lost(ping) /\ wire' = wire
      \/ ~Pinged /\ NothingSent
      \/ ~Pinged /\ Handled(data)
      \/ ~Pinged /\ Lost(data)
  BY DEF Iterate
<1> HIDE DEF ping, data
<1>7. CASE Pinged /\ Handled(ping)
  <2>1. IteratesWith(ping)
    BY ZenonT(30), <1>4, <1>5, <1>7 DEF IteratesWith, Handled
  <2> QED BY <1>5, <2>1
<1>8. CASE Pinged /\ Lost(ping) /\ wire' = wire
  <2>1. IteratesWith(ping)
    BY ZenonT(30), <1>5, <1>8 DEF IteratesWith, Lost
  <2> QED BY <1>5, <2>1
<1>9. CASE ~Pinged /\ NothingSent
  BY <1>3, <1>9
<1>10. CASE ~Pinged /\ (Handled(data) \/ Lost(data))
  <2>1. IteratesWith(data)
    BY ZenonT(30), <1>3, <1>5, <1>10 DEF IteratesWith, Handled, Lost
  <2> QED BY <1>5, <2>1
<1> QED BY <1>6, <1>7, <1>8, <1>9, <1>10

(* What an iteration reads. *)
LEMMA IterateReads ==
  ASSUME Types, Client!Iterate
  PROVE  /\ inbox' \in Seq(Client!Packet)
         /\ \A p : Arrived(p)' => Arrived(p)
         /\ \/ pong_age' = pong_age
            \/ pong_age' = 0 /\ \E p : Arrived(p) /\ p.type = "PONG"
<1>1. inbox \in Seq(Client!Packet) /\ Client!ReadOne
  BY DEF Types, Client!Iterate
<1>2. CASE inbox = << >>
  <2>1. UNCHANGED <<inbox, pong_age>>
    BY <1>1, <1>2 DEF Client!ReadOne
  <2> QED BY <1>1, <2>1, BufferKept
<1>3. CASE inbox # << >>
  <2>1. /\ inbox' = Tail(inbox)
        /\ pong_age' = IF Head(inbox).type = "PONG" THEN 0 ELSE pong_age
    BY <1>1, <1>3 DEF Client!ReadOne
  <2>2. /\ inbox' \in Seq(Client!Packet)
        /\ \A p : Arrived(p)' => Arrived(p)
        /\ Arrived(Head(inbox))
    BY <1>1, <1>3, <2>1, BufferRead
  <2>3. CASE Head(inbox).type = "PONG"
    BY <2>1, <2>2, <2>3
  <2>4. CASE Head(inbox).type # "PONG"
    BY <2>1, <2>2, <2>4
  <2> QED BY <2>3, <2>4
<1> QED BY <1>2, <1>3

LEMMA IterateClient ==
  ASSUME ClientSide, Iterate
  PROVE  ClientSide'
<1>1. Types /\ NoPongYet /\ NoGoodbyeYet /\ Stages
  BY DEF ClientSide
<1>2. /\ Client!Iterate
      /\ pc = "select" /\ ~(pong_age > PONG_TIMEOUT) /\ pc' = "loop"
      /\ UNCHANGED <<connected, vpn_ip, backoff, tun_ip, timer, sock>>
  BY DEF Iterate, Client!Iterate, Client!session, Client!PongOverdue
<1>3. ping_age' \in Nat
  BY <1>1, <1>2 DEF Types, Client!Iterate, Client!MaybePing
<1>4. /\ inbox' \in Seq(Client!Packet)
      /\ pong_age' \in {0, pong_age}
  BY <1>1, <1>2, IterateReads
<1>5. /\ wire' \in SUBSET Client!Flight
      /\ sent' \in SUBSET Datagram
      /\ \A e \in sent' : e \in sent \/ e.type # "DISCONNECT"
  <2>1. CASE NothingSent /\ wire' = wire
    BY <1>1, <2>1 DEF NothingSent, Types
  <2>2. ASSUME NEW d \in Datagram, IteratesWith(d)
        PROVE  /\ wire' \in SUBSET Client!Flight
               /\ sent' \in SUBSET Datagram
               /\ \A e \in sent' : e \in sent \/ e.type # "DISCONNECT"
    <3>1. Client!Sent([type |-> "PONG"]) \in Client!Flight
      BY Packets, Flights
    <3>2. wire' \in SUBSET Client!Flight
      BY <1>1, <2>2, <3>1 DEF IteratesWith, Types
    <3>3. Kept(d) /\ d.type # "DISCONNECT"
      BY <2>2 DEF IteratesWith
    <3> QED BY <1>1, <3>2, <3>3, KeptDatagrams
  <2> QED BY <1>1, <2>1, <2>2, IterateCases
<1>6. Types'
  BY <1>1, <1>2, <1>3, <1>4, <1>5 DEF Types
<1>7. Stages'
  BY <1>1, <1>2, <1>4, Settings DEF Types, Stages
<1>8. NoPongYet'
  BY <1>1, <1>2 DEF Stages, NoPongYet
<1>9. NoGoodbyeYet'
  BY <1>1, <1>2, <1>5, GoodbyeFrame
<1> QED BY <1>6, <1>7, <1>8, <1>9 DEF ClientSide

LEMMA ForwardClient ==
  ASSUME ClientSide, Forward
  PROVE  /\ ClientSide'
         /\ UNCHANGED <<pc, connected, vpn_ip, pong_age, wire, sock>>
         /\ \A p : Arrived(p)' => Arrived(p) \/ p.type = "DATA"
<1>1. Types /\ NoPongYet /\ NoGoodbyeYet /\ Stages
  BY DEF ClientSide
<1>2. /\ pc # "exited"
      /\ UNCHANGED <<pc, connected, vpn_ip, backoff, tun_ip, ping_age, pong_age,
                     timer, wire, sock, sent>>
      /\ inbox' = inbox \/ inbox' = Append(inbox, [type |-> "DATA"])
  BY DEF Forward, Client!ArriveData, Client!session, clientVars, session
<1>3. /\ inbox' \in Seq(Client!Packet)
      /\ \A p : Arrived(p)' => Arrived(p) \/ p.type = "DATA"
  <2>0. inbox \in Seq(Client!Packet)
    BY <1>1 DEF Types
  <2>1. CASE inbox' = inbox
    BY <2>0, <2>1, BufferKept
  <2>2. CASE inbox' = Append(inbox, [type |-> "DATA"])
    BY <2>0, <2>2, BufferFilled, Packets
  <2> QED BY <1>2, <2>1, <2>2
<1>4. Types'
  BY <1>1, <1>2, <1>3 DEF Types
<1>5. Stages'
  BY <1>1, <1>2 DEF Stages
<1>6. NoPongYet'
  BY <1>1, <1>2, <1>3, PongFrame
<1>7. NoGoodbyeYet'
  BY <1>1, <1>2, GoodbyeFrame
<1> QED BY <1>2, <1>3, <1>4, <1>5, <1>6, <1>7 DEF ClientSide

LEMMA IdleClient ==
  ASSUME ClientSide, UNCHANGED <<clientVars, sock, sent>>
  PROVE  ClientSide'
<1>1. UNCHANGED <<pc, connected, vpn_ip, backoff, tun_ip, ping_age, pong_age,
                  timer, inbox, wire, sock, sent>>
  BY DEF clientVars, session
<1>2. Types' /\ Stages'
  BY <1>1 DEF ClientSide, Types, Stages
<1>3. NoPongYet' /\ NoGoodbyeYet'
  BY <1>1 DEF ClientSide, NoPongYet, NoGoodbyeYet, Arrived
<1> QED BY <1>2, <1>3 DEF ClientSide

(* An answer that arrives was under way. *)
LEMMA ArriveClient ==
  ASSUME ClientSide, Arrive
  PROVE  /\ ClientSide'
         /\ UNCHANGED <<pc, connected, vpn_ip, pong_age, sock>>
         /\ wire' \subseteq wire
         /\ \A p : Arrived(p)' => Arrived(p) \/ \E f \in wire : f.packet = p
<1>1. Types /\ NoPongYet /\ NoGoodbyeYet /\ Stages
  BY DEF ClientSide
<1>2. /\ pc # "exited"
      /\ UNCHANGED <<pc, connected, vpn_ip, backoff, tun_ip, ping_age, pong_age,
                     timer, sock, sent>>
  BY DEF Arrive, NothingSent, Client!ArriveAnswer, Client!session
<1>3. PICK f \in wire : /\ wire' = wire \ {f}
                        /\ inbox' = Append(inbox, f.packet) \/ inbox' = inbox
  BY DEF Arrive, Client!ArriveAnswer
<1>4. inbox \in Seq(Client!Packet) /\ f.packet \in Client!Packet
  BY <1>1, Flights DEF Types
<1>5. /\ inbox' \in Seq(Client!Packet)
      /\ \A p : Arrived(p)' => Arrived(p) \/ p = f.packet
  BY <1>3, <1>4, BufferFilled, BufferKept
<1>6. \A p : Arrived(p)' => Arrived(p) \/ \E g \in wire : g.packet = p
  BY <1>5
<1>7. wire' \subseteq wire
  BY <1>3
<1>8. Types'
  BY <1>1, <1>2, <1>5, <1>7 DEF Types
<1>9. Stages'
  BY <1>1, <1>2 DEF Stages
<1>10. NoPongYet'
  BY <1>1, <1>2, <1>6, <1>7, PongFrame
<1>11. NoGoodbyeYet'
  BY <1>1, <1>2, GoodbyeFrame
<1> QED BY <1>2, <1>6, <1>7, <1>8, <1>9, <1>10, <1>11 DEF ClientSide

(* The answers of the server to a datagram that reaches it. *)
FreshAnswer(f) ==
  /\ f.age = 0
  /\ Server!Heard(table', sock', 0)
  /\ f.packet.type = "RESP" => Server!Known(table', sock', f.packet.ip)

LEMMA AnswersFresh ==
  ASSUME NEW d, Gentle(d), d.from = sock', NEW f \in Answers(sock')
  PROVE  /\ f \in Client!Flight
         /\ FreshAnswer(f)
         /\ f.packet.type = "PONG" => d.type = "PING"
<1> DEFINE r == [type |-> "RESP", ip |-> granted'[sock'].vpn_ip]
           o == [type |-> "PONG"]
<1>1. /\ out'.type = "PONG" => d.type = "PING"
      /\ out'.type \in {"CONNECT_RESP", "PONG"} => Server!Heard(table', sock', 0)
      /\ out'.type = "CONNECT_RESP" =>
           /\ granted'[sock'].vpn_ip \in FIRST_IP .. LAST_IP
           /\ Server!Known(table', sock', granted'[sock'].vpn_ip)
  BY DEF Gentle, ServerAnswers
<1>2. \/ out'.type = "CONNECT_RESP" /\ f = Client!Sent(r)
      \/ out'.type = "PONG" /\ f = Client!Sent(o)
  BY ZenonT(30) DEF Answers
<1>3. CASE out'.type = "CONNECT_RESP" /\ f = Client!Sent(r)
  <2>1. r \in Client!Packet
    BY <1>1, <1>3, Packets
  <2>2. r.type = "RESP" /\ r.ip = granted'[sock'].vpn_ip
    OBVIOUS
  <2> HIDE DEF r
  <2>3. f \in Client!Flight /\ f.packet = r /\ f.age = 0
    BY <1>3, <2>1, Flights
  <2> QED BY <1>1, <1>3, <2>2, <2>3 DEF FreshAnswer
<1>4. CASE out'.type = "PONG" /\ f = Client!Sent(o)
  <2>1. o \in Client!Packet /\ o.type = "PONG"
    BY Packets
  <2> HIDE DEF o
  <2>2. f \in Client!Flight /\ f.packet = o /\ f.age = 0
    BY <1>4, <2>1, Flights
  <2> QED BY <1>1, <1>4, <2>1, <2>2 DEF FreshAnswer
<1> QED BY <1>2, <1>3, <1>4

(* A datagram repeated while the client runs is no DISCONNECT. *)
LEMMA RepeatClient ==
  ASSUME ClientSide, Promised, Repeat
  PROVE  /\ ClientSide'
         /\ ServerKeeps
         /\ UNCHANGED <<pc, connected, vpn_ip, pong_age, inbox, sock>>
         /\ \A f \in wire' : f \in wire \/ FreshAnswer(f)
<1>1. Types /\ NoPongYet /\ NoGoodbyeYet /\ Stages
  BY DEF ClientSide
<1>2. /\ pc # "exited"
      /\ UNCHANGED <<pc, connected, vpn_ip, backoff, tun_ip, ping_age, pong_age,
                     timer, inbox, sock, sent>>
  BY DEF Repeat, session
<1>3. PICK d \in sent : /\ Handle(d)
                        /\ \/ d.from = sock /\ wire' = wire \cup Answers(sock)
                           \/ wire' = wire
  BY DEF Repeat
<1>4. d \in Datagram /\ d.type # "DISCONNECT"
  BY <1>1, <1>2 DEF Types, NoGoodbyeYet
<1>5. Gentle(d)
  BY <1>3, <1>4 DEF Promised
<1>6. \A f \in wire' : \/ f \in wire
                       \/ /\ f \in Client!Flight /\ FreshAnswer(f)
                          /\ f.packet.type = "PONG" => d.type = "PING"
  <2>1. CASE d.from = sock /\ wire' = wire \cup Answers(sock)
    <3>1. Answers(sock') = Answers(sock)
      BY <1>2
    <3> QED BY <1>2, <1>5, <2>1, <3>1, AnswersFresh
  <2>2. CASE wire' = wire
    BY <2>2
  <2> QED BY <1>3, <2>1, <2>2
<1>7. Types'
  BY <1>1, <1>2, <1>6 DEF Types
<1>8. Stages'
  BY <1>1, <1>2 DEF Stages
<1>9. \A p : Arrived(p)' <=> Arrived(p)
  BY <1>2, BufferKept
<1>10. NoPongYet'
  BY ZenonT(30), <1>1, <1>2, <1>6, <1>9 DEF NoPongYet
<1>11. NoGoodbyeYet'
  BY <1>1, <1>2, GoodbyeFrame
<1> QED BY <1>2, <1>5, <1>6, <1>7, <1>8, <1>10, <1>11 DEF ClientSide, Gentle

(* A second passes for what is under way. *)
LEMMA FlightsAge ==
  ASSUME Types, Client!Tick
  PROVE  \A g \in wire' : /\ g \in Client!Flight
                          /\ \E f \in wire : /\ g.packet = f.packet
                                             /\ g.age = f.age + 1
                                             /\ f.age \in Nat
<1> SUFFICES ASSUME NEW f \in wire, NEW g, g = [f EXCEPT !.age = @ + 1]
             PROVE  /\ g \in Client!Flight
                    /\ g.packet = f.packet /\ g.age = f.age + 1 /\ f.age \in Nat
  BY DEF Client!Tick
<1>1. f \in Client!Flight /\ f.age < DELAY
  BY DEF Types, Client!Tick
<1> QED BY <1>1, Settings DEF Client!Flight

LEMMA TickClient ==
  ASSUME ClientSide, Client!Tick, UNCHANGED <<sock, sent>>
  PROVE  ClientSide'
<1>1. Types /\ NoPongYet /\ NoGoodbyeYet /\ Stages
  BY DEF ClientSide
<1>2. /\ pc \in {"start", "sleep", "tun", "await", "select"} /\ timer > 0
      /\ timer' = timer - 1
      /\ ping_age' = Client!Smallest(ping_age + 1, KEEPALIVE)
      /\ pong_age' = Client!Smallest(pong_age + 1, PONG_TIMEOUT + 2)
      /\ UNCHANGED <<pc, connected, vpn_ip, backoff, tun_ip, inbox>>
  BY DEF Client!Tick, Client!Blocked, Client!session
<1>3. timer' \in Nat /\ ping_age' \in Nat /\ pong_age' \in Nat /\ pong_age' <= pong_age + 1
  BY <1>1, <1>2, Settings DEF Types, Client!Smallest
<1>4. Types'
  BY <1>1, <1>2, <1>3, FlightsAge DEF Types
<1>5. Stages'
  <2>1. pong_age' + timer' <= pong_age + timer
    BY <1>1, <1>2, <1>3 DEF Types
  <2>2. pong_age \in Nat /\ timer \in Nat
    BY <1>1 DEF Types
  <2> QED BY <1>1, <1>2, <1>3, <2>1, <2>2, Settings DEF Stages
<1>6. \A p : Arrived(p)' <=> Arrived(p)
  BY <1>2, BufferKept
<1>7. \A g \in wire' : \E f \in wire : g.packet = f.packet
  BY <1>1, FlightsAge
<1>8. NoPongYet'
  BY ZenonT(30), <1>1, <1>2, <1>6, <1>7 DEF NoPongYet
<1>9. NoGoodbyeYet'
  BY <1>1, <1>2, GoodbyeFrame
<1> QED BY <1>4, <1>5, <1>8, <1>9 DEF ClientSide

-----------------------------------------------------------------------------
(* Both sides together. *)

(* What is under way was heard within DELAY, and a client that is up gives *)
(* up before the server forgets it.                                        *)
LEMMA WithinTimeout ==
  ASSUME Types, Stages
  PROVE  /\ \A f \in wire : f.age \in Nat /\ f.age <= DELAY
         /\ Roomy => DELAY <= CLIENT_TIMEOUT
         /\ Up => pong_age <= PONG_TIMEOUT + 1
         /\ Roomy /\ Up => pong_age + DELAY <= CLIENT_TIMEOUT
         /\ DELAY \in Nat /\ CLIENT_TIMEOUT \in Nat /\ pong_age + DELAY \in Nat
<1>1. /\ pong_age \in Nat /\ timer \in Nat /\ DELAY \in Nat /\ CLIENT_TIMEOUT \in Nat
      /\ PONG_TIMEOUT \in Nat \ {0}
  BY Settings DEF Types
<1>2. \A f \in wire : f.age \in Nat /\ f.age <= DELAY
  BY <1>1, Flights DEF Types
<1>3. Up => pong_age <= PONG_TIMEOUT + 1
  BY <1>1 DEF Up, Stages
<1> QED BY <1>1, <1>2, <1>3 DEF Roomy

LEMMA ExitsLinks ==
  ASSUME Exits PROVE Links'
BY DEF Exits, Links, AnswersAge, OffersHold, UpHolds, Up

LEMMA MovesLinks ==
  ASSUME ClientSide, Links, Moves, UNCHANGED <<table, sock>>
  PROVE  Links'
<1>1. \A p : Arrived(p)' <=> Arrived(p)
  BY BufferKept DEF Moves
<1>2. UNCHANGED <<table, sock, wire, pong_age, vpn_ip>>
  BY DEF Moves
<1>3. /\ pc' \in {"await", "loop", "select"} => pc \in {"await", "tun", "loop", "select"}
      /\ pc' = "await" => pc = "await"
      /\ Up' => Up
  BY DEF Moves, Up
<1>4. pc = "tun" => \A p : Arrived(p) => p.type # "PONG"
  BY DEF ClientSide, Stages, NoPongYet
<1>5. AnswersAge'
  BY <1>1, <1>2, <1>3, <1>4 DEF Links, AnswersAge
<1>6. OffersHold'
  BY <1>1, <1>2, <1>3 DEF Links, OffersHold, Roomy
<1>7. UpHolds'
  BY <1>2, <1>3 DEF Links, UpHolds, Roomy
<1> QED BY <1>5, <1>6, <1>7 DEF Links

LEMMA AcceptLinks ==
  ASSUME ClientSide, Links, Client!RespAccepted, UNCHANGED <<table, sock>>
  PROVE  Links'
<1>1. Types
  BY DEF ClientSide
<1>2. /\ inbox \in Seq(Client!Packet) /\ inbox # << >> /\ inbox' = Tail(inbox)
      /\ pc = "await" /\ pc' # "await" /\ Head(inbox).type = "RESP"
      /\ vpn_ip' = Head(inbox).ip /\ pong_age' = 0 /\ wire' = wire
  BY <1>1 DEF Types, Client!RespAccepted
<1>3. /\ \A p : Arrived(p)' => Arrived(p)
      /\ Arrived(Head(inbox))
  BY <1>2, BufferRead
<1>4. AnswersAge'
  BY <1>2, <1>3 DEF Links, AnswersAge
<1>5. OffersHold'
  BY <1>2 DEF OffersHold
<1>6. Roomy => /\ Server!Known(table, sock, vpn_ip')
               /\ Server!Heard(table, sock, DELAY)
  BY <1>2, <1>3 DEF Links, OffersHold
<1>7. pong_age' + DELAY = DELAY
  BY <1>2, Settings
<1>8. UpHolds'
  BY <1>6, <1>7 DEF UpHolds, Roomy
<1> QED BY <1>4, <1>5, <1>8 DEF Links

(* The server's steps, and answers that join what is under way. *)
LEMMA ServerLinks ==
  ASSUME ClientSide, Links, HeardMore, ServerKeeps,
         UNCHANGED <<pc, connected, vpn_ip, pong_age, sock>>,
         \A f \in wire' : f \in wire \/ FreshAnswer(f),
         \A p : Arrived(p)' => Arrived(p) \/ p.type = "DATA"
  PROVE  Links'
<1>1. /\ \A f \in wire : f.age \in Nat /\ f.age <= DELAY
      /\ Roomy => DELAY <= CLIENT_TIMEOUT
      /\ Roomy /\ Up => pong_age + DELAY <= CLIENT_TIMEOUT
      /\ DELAY \in Nat /\ CLIENT_TIMEOUT \in Nat /\ pong_age + DELAY \in Nat
  BY WithinTimeout DEF ClientSide
<1>2. \A n \in Nat : Server!Heard(table, sock, n) => Server!Heard(table', sock, n)
  BY DEF ServerKeeps
<1>3. ASSUME NEW ip, NEW n \in Nat, n <= CLIENT_TIMEOUT,
             Server!Known(table, sock, ip), Server!Heard(table, sock, n)
      PROVE  Server!Known(table', sock, ip)
  <2>1. Server!Heard(table, sock, CLIENT_TIMEOUT)
    BY <1>1, <1>3 DEF HeardMore
  <2> QED BY <1>3, <2>1 DEF ServerKeeps
<1>4. AnswersAge'
  <2>1. ASSUME NEW f \in wire' PROVE Server!Heard(table', sock', f.age)
    <3>1. CASE f \in wire
      BY <1>1, <1>2, <3>1 DEF Links, AnswersAge
    <3>2. CASE FreshAnswer(f)
      BY ZenonT(30), <3>2 DEF FreshAnswer
    <3> QED BY <3>1, <3>2
  <2>2. ASSUME pc' \in {"await", "loop", "select"}, NEW p, Arrived(p)', p.type = "PONG"
        PROVE  Server!Heard(table', sock', DELAY)
    BY <1>1, <1>2, <2>2 DEF Links, AnswersAge
  <2> QED BY <2>1, <2>2 DEF AnswersAge
<1>5. OffersHold'
  <2> SUFFICES ASSUME Roomy, pc = "await" PROVE OffersHold'
    BY ZenonT(30) DEF OffersHold, Roomy
  <2>1. ASSUME NEW f \in wire', f.packet.type = "RESP"
        PROVE  Server!Known(table', sock', f.packet.ip)
    <3>1. CASE f \in wire
      <4>1. Server!Known(table, sock, f.packet.ip) /\ Server!Heard(table, sock, f.age)
        BY ZenonT(30), <2>1, <3>1 DEF Links, OffersHold, AnswersAge
      <4>2. f.age \in Nat /\ f.age <= CLIENT_TIMEOUT
        BY <1>1, <3>1
      <4> QED BY <1>3, <4>1, <4>2
    <3>2. CASE FreshAnswer(f)
      BY <2>1, <3>2 DEF FreshAnswer
    <3> QED BY <3>1, <3>2
  <2>2. ASSUME NEW p, Arrived(p)', p.type = "RESP"
        PROVE  Server!Known(table', sock', p.ip) /\ Server!Heard(table', sock', DELAY)
    <3>1. Server!Known(table, sock, p.ip) /\ Server!Heard(table, sock, DELAY)
      BY ZenonT(30), <2>2 DEF Links, OffersHold
    <3> QED BY <1>1, <1>2, <1>3, <3>1
  <2> QED BY ZenonT(30), <2>1, <2>2 DEF OffersHold
<1>6. UpHolds'
  <2> SUFFICES ASSUME Roomy, Up
               PROVE  /\ Server!Known(table', sock, vpn_ip)
                      /\ Server!Heard(table', sock, pong_age + DELAY)
    BY DEF UpHolds, Roomy, Up
  <2>1. /\ Server!Known(table, sock, vpn_ip)
        /\ Server!Heard(table, sock, pong_age + DELAY)
    BY DEF Links, UpHolds
  <2> QED BY <1>1, <1>2, <1>3, <2>1
<1> QED BY <1>4, <1>5, <1>6 DEF Links

LEMMA UnchangedKeeps == ASSUME table' = table PROVE ServerKeeps
BY DEF ServerKeeps

(* A datagram that is handled, or lost. *)
LEMMA HandledKeeps ==
  ASSUME Promised, NEW d \in Datagram, d.type # "DISCONNECT",
         Handle(d) \/ ServerSilent
  PROVE  ServerKeeps /\ (Handle(d) => Gentle(d))
<1>1. ASSUME Handle(d) PROVE Gentle(d)
  BY <1>1 DEF Promised
<1>2. ASSUME ServerSilent PROVE ServerKeeps
  BY <1>2, UnchangedKeeps DEF ServerSilent
<1> QED BY <1>1, <1>2 DEF Gentle

LEMMA ConnectLinks ==
  ASSUME Promised, Connect
  PROVE  Links'
<1> DEFINE d == [type |-> "CONNECT_REQ", from |-> sock']
<1>1. /\ pc' = "await" /\ inbox' = << >> /\ sock' \in Addr
      /\ wire' = {} \/ (Handle(d) /\ wire' = Answers(sock'))
  BY DEF Connect, Client!SendConnect, Handled
<1>2. d \in Datagram /\ d.type # "DISCONNECT" /\ d.from = sock'
  BY <1>1 DEF Datagram
<1> HIDE DEF d
<1>3. \A f \in wire' : FreshAnswer(f)
  <2>1. CASE Handle(d) /\ wire' = Answers(sock')
    BY <1>2, <2>1, HandledKeeps, AnswersFresh
  <2> QED BY <1>1, <2>1
<1>4. \A p : ~Arrived(p)'
  BY <1>1, BufferEmptied
<1>5. ~Up'
  BY <1>1 DEF Up
<1> QED BY ZenonT(30), <1>1, <1>3, <1>4, <1>5
       DEF Links, AnswersAge, OffersHold, UpHolds, FreshAnswer

LEMMA IterateLinks ==
  ASSUME ClientSide, Links, Promised, Iterate
  PROVE  Links'
<1>1. Types /\ Stages
  BY DEF ClientSide
<1>2. /\ Client!Iterate /\ pc = "select" /\ pc' = "loop"
      /\ UNCHANGED <<connected, vpn_ip, sock>>
  BY DEF Iterate, Client!Iterate, Client!session
<1>3. /\ ServerKeeps
      /\ \A f \in wire' : f \in wire \/ (f.age = 0 /\ Server!Heard(table', sock, 0))
  <2>1. CASE NothingSent /\ wire' = wire
    BY <2>1, UnchangedKeeps DEF NothingSent, ServerSilent
  <2>2. ASSUME NEW d \in Datagram, IteratesWith(d)
        PROVE  /\ ServerKeeps
               /\ \A f \in wire' :
                    f \in wire \/ (f.age = 0 /\ Server!Heard(table', sock, 0))
    <3>1. d.type # "DISCONNECT" /\ (Handle(d) \/ ServerSilent) /\ d.from = sock
      BY <2>2 DEF IteratesWith
    <3>2. ServerKeeps /\ (Handle(d) => Gentle(d))
      BY <3>1, HandledKeeps
    <3>3. CASE wire' = wire
      BY <3>2, <3>3
    <3>4. CASE wire' # wire
      <4>1. /\ Handle(d) /\ d.type = "PING"
            /\ wire' = wire \cup {Client!Sent([type |-> "PONG"])}
        BY <2>2, <3>4 DEF IteratesWith
      <4>2. out'.type = "PONG"
        BY <4>1 DEF Handle, Server!Ping
      <4>3. Server!Heard(table', sock, 0)
        BY <3>1, <3>2, <4>1, <4>2 DEF Gentle, ServerAnswers
      <4>4. \A f \in wire' : f \in wire \/ f.age = 0
        BY <4>1, Flights
      <4> QED BY <3>2, <4>3, <4>4
    <3> QED BY <3>3, <3>4
  <2> QED BY <1>1, <2>1, <2>2, IterateCases
<1>4. /\ \A p : Arrived(p)' => Arrived(p)
      /\ \/ pong_age' = pong_age
         \/ pong_age' = 0 /\ \E p : Arrived(p) /\ p.type = "PONG"
  BY <1>1, <1>2, IterateReads
<1>5. /\ \A f \in wire : f.age \in Nat
      /\ Roomy /\ Up => pong_age + DELAY <= CLIENT_TIMEOUT
      /\ DELAY \in Nat /\ CLIENT_TIMEOUT \in Nat /\ pong_age + DELAY \in Nat
  BY <1>1, WithinTimeout
<1>6. \A n \in Nat : Server!Heard(table, sock, n) => Server!Heard(table', sock, n)
  BY <1>3 DEF ServerKeeps
<1>7. AnswersAge'
  <2>1. ASSUME NEW f \in wire' PROVE Server!Heard(table', sock, f.age)
    BY <1>3, <1>5, <1>6 DEF Links, AnswersAge
  <2>2. ASSUME NEW p, Arrived(p)', p.type = "PONG"
        PROVE  Server!Heard(table', sock, DELAY)
    BY <1>2, <1>4, <1>5, <1>6, <2>2 DEF Links, AnswersAge
  <2> QED BY <1>2, <2>1, <2>2 DEF AnswersAge
<1>8. OffersHold'
  BY <1>2 DEF OffersHold
<1>9. UpHolds'
  <2> SUFFICES ASSUME Roomy, Up
               PROVE  /\ Server!Known(table', sock, vpn_ip)
                      /\ Server!Heard(table', sock, pong_age' + DELAY)
    BY <1>2 DEF UpHolds, Roomy, Up
  <2>1. /\ Server!Known(table, sock, vpn_ip)
        /\ Server!Heard(table, sock, pong_age + DELAY)
    BY DEF Links, UpHolds
  <2>2. Server!Heard(table, sock, CLIENT_TIMEOUT)
    BY <1>5, <2>1 DEF Promised, HeardMore
  <2>3. Server!Known(table', sock, vpn_ip)
    BY <1>3, <2>1, <2>2 DEF ServerKeeps
  <2>4. CASE pong_age' = pong_age
    BY <1>5, <1>6, <2>1, <2>3, <2>4
  <2>5. CASE pong_age' = 0 /\ \E p : Arrived(p) /\ p.type = "PONG"
    <3>1. Server!Heard(table, sock, DELAY)
      BY <1>2, <2>5 DEF Links, AnswersAge
    <3>2. pong_age' + DELAY = DELAY
      BY <1>5, <2>5
    <3> QED BY <1>5, <1>6, <2>3, <3>1, <3>2
  <2> QED BY <1>4, <2>4, <2>5
<1> QED BY <1>7, <1>8, <1>9 DEF Links

LEMMA ArriveLinks ==
  ASSUME ClientSide, Links, HeardMore, Arrive
  PROVE  Links'
<1>1. /\ UNCHANGED <<pc, connected, vpn_ip, pong_age, sock>>
      /\ wire' \subseteq wire
      /\ \A p : Arrived(p)' => Arrived(p) \/ \E f \in wire : f.packet = p
  BY ArriveClient
<1>2. table' = table
  BY DEF Arrive, NothingSent, ServerSilent
<1>3. \A f \in wire : Server!Heard(table, sock, DELAY)
  <2>1. /\ \A f \in wire : f.age \in Nat /\ f.age <= DELAY
        /\ DELAY \in Nat
    BY WithinTimeout DEF ClientSide
  <2> QED BY <2>1 DEF HeardMore, Links, AnswersAge
<1>4. AnswersAge'
  BY ZenonT(30), <1>1, <1>2, <1>3 DEF Links, AnswersAge
<1>5. OffersHold'
  <2> SUFFICES ASSUME Roomy, pc = "await" PROVE OffersHold'
    BY ZenonT(30), <1>1 DEF OffersHold, Roomy
  <2>1. \A f \in wire' : f.packet.type = "RESP"
          => Server!Known(table, sock, f.packet.ip)
    BY ZenonT(30), <1>1 DEF Links, OffersHold
  <2>2. ASSUME NEW p, Arrived(p)', p.type = "RESP"
        PROVE  Server!Known(table, sock, p.ip) /\ Server!Heard(table, sock, DELAY)
    BY ZenonT(30), <1>1, <1>3, <2>2 DEF Links, OffersHold
  <2> QED BY ZenonT(30), <1>1, <1>2, <2>1, <2>2 DEF OffersHold
<1>6. UpHolds'
  BY <1>1, <1>2 DEF Links, UpHolds, Roomy, Up
<1> QED BY <1>4, <1>5, <1>6 DEF Links

LEMMA TickLinks ==
  ASSUME ClientSide, Links, Promised, Tick
  PROVE  Links'
<1>1. Types /\ Stages
  BY DEF ClientSide
<1>2. /\ Client!Tick
      /\ pc \in {"start", "sleep", "tun", "await", "select"} /\ timer > 0
      /\ pc \in {"await", "select"} => inbox = << >>
      /\ pong_age' = Client!Smallest(pong_age + 1, PONG_TIMEOUT + 2)
      /\ UNCHANGED <<pc, connected, vpn_ip, inbox, sock>>
  BY DEF Tick, Client!Tick, Client!Blocked, Client!session
<1>3. ServerAges
  BY DEF Tick, Promised
<1>4. \A n \in Nat : Server!Heard(table, sock, n) => Server!Heard(table', sock, n + 1)
  BY <1>3 DEF ServerAges
<1>5. \A ip : Server!Known(table, sock, ip) => Server!Known(table', sock, ip)
  BY <1>3 DEF ServerAges
<1>6. \A g \in wire' : \E f \in wire : /\ g.packet = f.packet
                                      /\ g.age = f.age + 1
                                      /\ f.age \in Nat
  BY <1>1, <1>2, FlightsAge
<1>7. pc \in {"await", "select"} => \A p : ~Arrived(p)'
  BY <1>2, BufferEmptied
<1>8. AnswersAge'
  <2>1. ASSUME NEW g \in wire' PROVE Server!Heard(table', sock, g.age)
    BY <1>4, <1>6 DEF Links, AnswersAge
  <2> QED BY <1>2, <1>7, <2>1 DEF AnswersAge
<1>9. OffersHold'
  <2> SUFFICES ASSUME Roomy, pc = "await" PROVE OffersHold'
    BY <1>2 DEF OffersHold, Roomy
  <2>1. ASSUME NEW g \in wire', g.packet.type = "RESP"
        PROVE  Server!Known(table', sock, g.packet.ip)
    BY ZenonT(30), <1>5, <1>6, <2>1 DEF Links, OffersHold
  <2> QED BY <1>2, <1>7, <2>1 DEF OffersHold
<1>10. UpHolds'
  <2> SUFFICES ASSUME Roomy, Up
               PROVE  /\ Server!Known(table', sock, vpn_ip)
                      /\ Server!Heard(table', sock, pong_age' + DELAY)
    BY <1>2 DEF UpHolds, Roomy, Up
  <2>1. /\ Server!Known(table, sock, vpn_ip)
        /\ Server!Heard(table, sock, pong_age + DELAY)
    BY DEF Links, UpHolds
  <2>2. pc \in {"tun", "select"}
    BY <1>2 DEF Up
  <2>3. pong_age \in Nat /\ timer \in Nat /\ pong_age + timer <= PONG_TIMEOUT + 1
    BY <1>1, <2>2, Settings DEF Types, Stages
  <2>4. pong_age' + DELAY = (pong_age + DELAY) + 1 /\ pong_age + DELAY \in Nat
    BY <1>2, <2>3, Settings DEF Client!Smallest
  <2> QED BY <1>4, <1>5, <2>1, <2>4
<1> QED BY <1>8, <1>9, <1>10 DEF Links

(* The client's own steps. *)
LEMMA ClientStepLinks ==
  ASSUME ClientSide, Links, ClientStep
  PROVE  ClientSide' /\ Links'
<1> DEFINE d == [type |-> "DISCONNECT", from |-> sock]
<1>1. Exits \/ Client!RespAccepted \/ Moves
  BY ClientCases DEF ClientStep, ClientSide
<1>2. sock' = sock
  BY DEF ClientStep
<1>3. sent' = sent \/ Kept(d)
  BY DEF ClientStep, Handled, Lost, NothingSent
<1>4. pc' # "exited" => UNCHANGED <<table, sent>>
  BY DEF ClientStep, NothingSent, ServerSilent
<1> HIDE DEF d
<1>5. CASE Exits
  BY <1>2, <1>3, <1>5, ExitsClient, ExitsLinks DEF d
<1>6. CASE Client!RespAccepted
  <2>1. pc' # "exited"
    BY <1>6 DEF Client!RespAccepted
  <2> QED BY <1>2, <1>4, <1>6, <2>1, AcceptClient, AcceptLinks
<1>7. CASE Moves
  <2>1. pc' # "exited"
    BY <1>7 DEF Moves
  <2> QED BY <1>2, <1>4, <1>7, <2>1, MovesClient, MovesLinks
<1> QED BY <1>1, <1>5, <1>6, <1>7

(* Each step of the system preserves what ties the two sides together, if  *)
(* the server does what the client relies on.                              *)
LEMMA LinksStep ==
  ASSUME ClientSide, Links, Promised, [Next]_vars
  PROVE  ClientSide' /\ Links'
<1>0. HeardMore
  BY DEF Promised
<1>1. CASE Connect
  BY <1>1, ConnectClient, ConnectLinks
<1>2. CASE Iterate
  BY <1>2, IterateClient, IterateLinks
<1>3. CASE ClientStep
  BY <1>3, ClientStepLinks
<1>4. CASE Forward
  <2>1. ServerKeeps
    BY <1>4 DEF Forward, Promised
  <2> QED BY <1>0, <1>4, <2>1, ForwardClient, ServerLinks
<1>5. CASE ServerIdle
  <2>1. ServerKeeps
    BY <1>5 DEF ServerIdle, Promised
  <2>2. /\ UNCHANGED <<clientVars, sock, sent>>
        /\ UNCHANGED <<pc, connected, vpn_ip, pong_age, sock, wire, inbox>>
    BY <1>5 DEF ServerIdle, clientVars, session
  <2> QED BY <1>0, <2>1, <2>2, IdleClient, BufferKept, ServerLinks
<1>6. CASE Arrive
  BY <1>0, <1>6, ArriveClient, ArriveLinks
<1>7. CASE Repeat
  BY <1>0, <1>7, RepeatClient, BufferKept, ServerLinks
<1>8. CASE Tick
  BY <1>8, TickClient, TickLinks DEF Tick
<1>9. CASE UNCHANGED vars
  <2>1. /\ UNCHANGED <<clientVars, sock, sent>>
        /\ UNCHANGED <<table, pc, connected, vpn_ip, pong_age, sock, wire, inbox>>
    BY <1>9 DEF vars, serverVars, clientVars, session
  <2> QED BY <1>0, <2>1, UnchangedKeeps, IdleClient, BufferKept, ServerLinks
<1> QED BY <1>1, <1>2, <1>3, <1>4, <1>5, <1>6, <1>7, <1>8, <1>9 DEF Next

(* What holds after every step of the server that the client's steps come  *)
(* with, holds after every step of the system.                             *)
LEMMA ServerCases ==
  ASSUME Types, [Next]_vars, NEW ACTION Q,
         ServerSilent \/ UNCHANGED serverVars => Q,
         \A d \in Datagram : Handle(d) => Q,
         Server!TunPacket \/ Server!Idle => Q,
         Server!Tick => Q
  PROVE  Q
<1>1. ASSUME NEW d \in Datagram, Handle(d) \/ ServerSilent PROVE Q
  BY <1>1
<1>2. CASE Connect
  <2> DEFINE d == [type |-> "CONNECT_REQ", from |-> sock']
  <2>1. Handle(d) \/ ServerSilent
    BY ZenonT(30), <1>2 DEF Connect, Handled, Lost
  <2>2. d \in Datagram
    BY <1>2 DEF Connect, Datagram
  <2> HIDE DEF d
  <2> QED BY <1>1, <2>1, <2>2
<1>3. CASE Iterate
  <2>1. CASE NothingSent
    BY <2>1 DEF NothingSent
  <2>2. ASSUME NEW d \in Datagram, IteratesWith(d) PROVE Q
    BY <1>1, <2>2 DEF IteratesWith
  <2> QED BY <1>3, <2>1, <2>2, IterateCases
<1>4. CASE ClientStep
  <2> DEFINE d == [type |-> "DISCONNECT", from |-> sock]
  <2>1. Handle(d) \/ ServerSilent
    BY <1>4 DEF ClientStep, Handled, Lost, NothingSent
  <2>2. d \in Datagram
    BY DEF Types, Datagram
  <2> HIDE DEF d
  <2> QED BY <1>1, <2>1, <2>2
<1>5. CASE Forward \/ ServerIdle
  BY <1>5 DEF Forward, ServerIdle
<1>6. CASE Arrive
  BY <1>6 DEF Arrive, NothingSent
<1>7. CASE Repeat
  BY <1>7 DEF Repeat, Types
<1>8. CASE Tick
  BY <1>8 DEF Tick
<1>9. CASE UNCHANGED vars
  BY <1>9 DEF vars
<1> QED BY <1>2, <1>3, <1>4, <1>5, <1>6, <1>7, <1>8, <1>9 DEF Next

-----------------------------------------------------------------------------
(* The server of the composition is the server of VpnServerProofs: its     *)
(* operators and actions are those of the module its lemmas are about.     *)
SP == INSTANCE VpnServerProofs

LEMMA ServerAssumptions ==
  /\ MAX_CLIENTS \in Nat \ {0} /\ FIRST_IP \in Nat \ {0} /\ LAST_IP \in Nat
  /\ FIRST_IP <= LAST_IP /\ CLIENT_TIMEOUT \in Nat
  /\ MAX_KEYS \in Nat \ {0} /\ InvalidKey \notin PublicKey
  /\ CHECK_INTERVAL \in Nat
BY SettingsAssumption

LEMMA SameBasics ==
  /\ Server!NULL = SP!NULL
  /\ Server!EmptyTable = SP!EmptyTable
  /\ \A S : Server!FirstSlot(S) = SP!FirstSlot(S)
  /\ \A t, i, e : Server!Put(t, i, e) = SP!Put(t, i, e)
  /\ \A t, S : Server!Clear(t, S) = SP!Clear(t, S)
  /\ \A S : Server!Cardinality(S) = SP!Cardinality(S)
  /\ Server!Slots = SP!Slots /\ Server!VpnIp = SP!VpnIp
  /\ Server!KeySlots = SP!KeySlots
  /\ Server!Silent = SP!Silent /\ Server!NoGrant = SP!NoGrant
  /\ \A pk : Server!ecdh_fails(pk) <=> SP!ecdh_fails(pk)
  /\ \A m, ip : Server!KeySlotsOf(m, ip) = SP!KeySlotsOf(m, ip)
  /\ \A pk, sk :
       Server!derive_session_key(pk, sk) = SP!derive_session_key(pk, sk)
BY ZenonT(30) DEF Server!NULL, SP!NULL, Server!EmptyTable, SP!EmptyTable,
       Server!FirstSlot, SP!FirstSlot, Server!Put, SP!Put, Server!Clear,
       SP!Clear, Server!Cardinality, SP!Cardinality, Server!IsFiniteSet,
       SP!IsFiniteSet, Server!Slots, SP!Slots, Server!VpnIp, SP!VpnIp,
       Server!KeySlots, SP!KeySlots, Server!Silent, SP!Silent,
       Server!NoGrant, SP!NoGrant, Server!ecdh_fails, SP!ecdh_fails,
       Server!KeySlotsOf, SP!KeySlotsOf,
       Server!derive_session_key, SP!derive_session_key

LEMMA SameFinds ==
  /\ Server!init_client_table = SP!init_client_table
  /\ \A t, ip :
       Server!find_client_by_vpn_ip(t, ip) = SP!find_client_by_vpn_ip(t, ip)
  /\ \A t, a : Server!find_client_by_addr(t, a) = SP!find_client_by_addr(t, a)
  /\ \A t, a : Server!HasEntry(t, a) <=> SP!HasEntry(t, a)
  /\ \A t, a, ip : Server!Known(t, a, ip) <=> SP!Known(t, a, ip)
  /\ \A t, a, n : Server!Heard(t, a, n) <=> SP!Heard(t, a, n)
  /\ \A t, i :
       Server!update_client_activity(t, i) = SP!update_client_activity(t, i)
  /\ \A t : Server!AllocatedIp(t) = SP!AllocatedIp(t)
  /\ \A t : Server!TimedOut(t) = SP!TimedOut(t)
  /\ \A t : Server!OlderTable(t) = SP!OlderTable(t)
BY ZenonT(30), SameBasics
   DEF Server!init_client_table, SP!init_client_table,
       Server!find_client_by_vpn_ip, SP!find_client_by_vpn_ip,
       Server!find_client_by_addr, SP!find_client_by_addr,
       Server!HasEntry, SP!HasEntry, Server!Known, SP!Known,
       Server!Heard, SP!Heard, Server!update_client_activity,
       SP!update_client_activity, Server!WithClients, SP!WithClients,
       Server!AllocatedIp, SP!AllocatedIp, Server!TimedOut, SP!TimedOut,
       Server!OlderTable, SP!OlderTable

LEMMA SameRemoval ==
  /\ \A t, a : Server!EntryOf(t, a) = SP!EntryOf(t, a)
  /\ \A t, ip : Server!remove_client(t, ip) = SP!remove_client(t, ip)
  /\ \A t : Server!check_client_timeouts(t) = SP!check_client_timeouts(t)
BY ZenonT(30), SameBasics, SameFinds
   DEF Server!EntryOf, SP!EntryOf, Server!remove_client, SP!remove_client,
       Server!check_client_timeouts, SP!check_client_timeouts,
       Server!WithClients, SP!WithClients

LEMMA SameAdd == \A t, a : Server!add_client(t, a) = SP!add_client(t, a)
BY ZenonT(30), SameBasics, SameFinds DEF Server!add_client, SP!add_client

LEMMA SameKeys ==
  /\ \A sk : Server!init_key_manager(sk) = SP!init_key_manager(sk)
  /\ \A m, ip : Server!HasKey(m, ip) <=> SP!HasKey(m, ip)
  /\ \A m, ip : Server!get_key(m, ip) = SP!get_key(m, ip)
  /\ \A m : Server!KeyTableFull(m) <=> SP!KeyTableFull(m)
  /\ \A m, ip : Server!remove_key(m, ip) = SP!remove_key(m, ip)
  /\ \A m, ip, k : Server!add_key(m, ip, k) = SP!add_key(m, ip, k)
BY ZenonT(30), SameBasics
   DEF Server!init_key_manager, SP!init_key_manager, Server!HasKey, SP!HasKey,
       Server!get_key, SP!get_key, Server!KeyTableFull, SP!KeyTableFull,
       Server!remove_key, SP!remove_key, Server!WithKeys, SP!WithKeys,
       Server!add_key, SP!add_key

LEMMA SameCalls ==
  /\ \A ip, pk : Server!enclave_handshake(ip, pk) = SP!enclave_handshake(ip, pk)
  /\ \A ip, key :
       Server!enclave_decrypt_ok(ip, key) <=> SP!enclave_decrypt_ok(ip, key)
  /\ \A ip : Server!enclave_encrypt_ok(ip) <=> SP!enclave_encrypt_ok(ip)
  /\ \A a, pk : Server!ConnectIncidents(a, pk) = SP!ConnectIncidents(a, pk)
  /\ \A a, pk : Server!HandshakeIncidents(a, pk) = SP!HandshakeIncidents(a, pk)
BY ZenonT(30), SameBasics, SameFinds, SameKeys
   DEF Server!perform_handshake, SP!perform_handshake,
       Server!enclave_handshake, SP!enclave_handshake,
       Server!enclave_decrypt_ok, SP!enclave_decrypt_ok,
       Server!enclave_encrypt_ok, SP!enclave_encrypt_ok,
       Server!ConnectIncidents, SP!ConnectIncidents,
       Server!HandshakeIncidents, SP!HandshakeIncidents

(* Its steps. *)
LEMMA SameInit == Server!Init <=> SP!Init
BY ZenonT(30), SameBasics, SameFinds, SameKeys DEF Server!Init, SP!Init

LEMMA SameConnect ==
  ASSUME NEW a, NEW pk
  PROVE  /\ Server!ConnectRefused(a, pk) <=> SP!ConnectRefused(a, pk)
         /\ Server!ConnectAccepted(a, pk) <=> SP!ConnectAccepted(a, pk)
BY ZenonT(30), SameBasics, SameAdd, SameCalls
   DEF Server!ConnectRefused, SP!ConnectRefused,
       Server!ConnectAccepted, SP!ConnectAccepted

LEMMA SamePackets ==
  ASSUME NEW a
  PROVE  /\ Server!DataUnknown(a) <=> SP!DataUnknown(a)
         /\ \A key : Server!Data(a, key) <=> SP!Data(a, key)
         /\ Server!Ping(a) <=> SP!Ping(a)
BY ZenonT(30), SameBasics, SameFinds, SameRemoval, SameCalls
   DEF Server!DataUnknown, SP!DataUnknown, Server!Data, SP!Data,
       Server!Ping, SP!Ping

LEMMA SameDisconnect ==
  ASSUME NEW a
  PROVE  Server!Disconnect(a) <=> SP!Disconnect(a)
BY ZenonT(30), SameBasics, SameFinds, SameRemoval, SameKeys
   DEF Server!Disconnect, SP!Disconnect

LEMMA SameTun == Server!TunPacket <=> SP!TunPacket
BY ZenonT(30), SameBasics, SameFinds, SameKeys, SameCalls
   DEF Server!TunPacket, SP!TunPacket, Server!TunDropped, SP!TunDropped,
       Server!TunForwarded, SP!TunForwarded

LEMMA SameClock == /\ Server!Idle <=> SP!Idle
                   /\ Server!Tick <=> SP!Tick
BY ZenonT(30), SameBasics, SameFinds, SameRemoval
   DEF Server!Idle, SP!Idle, Server!Tick, SP!Tick

-----------------------------------------------------------------------------
(* What the server's own proof gives: its invariant, and the only key. *)
ServerSide == SP!IInv /\ SP!OneKey(client_public_key)

LEMMA HandleServer ==
  ASSUME ServerSide, NEW d \in Datagram, Handle(d)
  PROVE  ServerSide' /\ (d.type # "DISCONNECT" => Gentle(d))
<1>1. CASE d.type # "DISCONNECT"
  <2>1. \/ SP!ConnectRefused(d.from, client_public_key)
        \/ SP!ConnectAccepted(d.from, client_public_key)
        \/ SP!DataUnknown(d.from) \/ SP!Data(d.from, session_key)
        \/ SP!Ping(d.from)
    BY ZenonT(30), <1>1, HandleCases, SameConnect, SamePackets
  <2>2. ServerSide' /\ SP!Keeps(table, table') /\ SP!Answered(d.from)
    BY ZenonT(30), <2>1, SameBasics, ServerAssumptions, ClientKeyAssumption, SP!HandlerServes
       DEF ServerSide, Datagram, session_key
  <2> QED BY ZenonT(30), <1>1, <2>2, HandleCases, SameFinds
          DEF Gentle, SP!Keeps, ServerKeeps, SP!Answered, ServerAnswers,
              SP!VpnIp
<1>2. CASE d.type = "DISCONNECT"
  <2>1. SP!Disconnect(d.from)
    BY ZenonT(30), <1>2, SameDisconnect DEF Handle
  <2> QED BY ZenonT(30), <1>2, <2>1, ServerAssumptions, SP!DisconnectServes
          DEF ServerSide, Datagram
<1> QED BY ZenonT(30), <1>1, <1>2

LEMMA RestServer ==
  ASSUME ServerSide, Server!TunPacket \/ Server!Idle
  PROVE  ServerSide' /\ ServerKeeps
<1>1. ServerSide' /\ SP!Keeps(table, table')
  BY ZenonT(30), SameTun, SameClock, ServerAssumptions, SP!RestServes DEF ServerSide
<1> QED BY ZenonT(30), <1>1, SameFinds DEF SP!Keeps, ServerKeeps

LEMMA TickServer ==
  ASSUME ServerSide, Server!Tick
  PROVE  ServerSide' /\ ServerAges
<1>1. ServerSide' /\ SP!Ages(table, table')
  BY ZenonT(30), SameClock, ServerAssumptions, SP!TickServes DEF ServerSide
<1> QED BY ZenonT(30), <1>1, SameFinds DEF SP!Ages, ServerAges

LEMMA SilentServer ==
  ASSUME ServerSide, ServerSilent \/ UNCHANGED serverVars
  PROVE  ServerSide'
BY ZenonT(30), SameBasics, ServerAssumptions, SP!SilentServes
   DEF ServerSide, ServerSilent, serverVars

(* The server keeps its promises in every state its invariant allows. *)
LEMMA ServerPromises ==
  ASSUME ServerSide PROVE Promised
<1>1. SP!SoundTable(table)
  BY ZenonT(30) DEF ServerSide, SP!IInv
<1>2. HeardMore
  BY ZenonT(30), <1>1, ServerAssumptions, SameFinds, SP!HeardLonger DEF HeardMore
<1> QED BY ZenonT(30), <1>2, HandleServer, RestServer, TickServer DEF Promised

(* The inductive invariant of the system. *)
SysInv == ClientSide /\ Links /\ ServerSide

LEMMA InitSysInv == Init => SysInv
<1> SUFFICES ASSUME Init PROVE ServerSide
  BY ZenonT(30), InitClient DEF SysInv
<1>1. SP!Init
  BY ZenonT(30), SameInit DEF Init
<1>2. SP!OneKey(client_public_key)
  BY ZenonT(30), <1>1 DEF SP!Init, SP!OneKey
<1> QED BY ZenonT(30), <1>1, <1>2, ServerAssumptions, SP!InitIInv DEF ServerSide

LEMMA SysInvStep == SysInv /\ [Next]_vars => SysInv'
<1> SUFFICES ASSUME SysInv, [Next]_vars PROVE SysInv'
  OBVIOUS
<1>1. ClientSide /\ Links /\ ServerSide /\ Types
  BY ZenonT(30) DEF SysInv, ClientSide
<1>2. ServerSide'
  BY ZenonT(30), <1>1, ServerCases, SilentServer, HandleServer, RestServer, TickServer
<1> QED BY ZenonT(30), <1>1, <1>2, ServerPromises, LinksStep DEF SysInv

LEMMA SysInvServed == SysInv => ConnectedMeansServed
<1> SUFFICES ASSUME SysInv, Up, hist = {}, Roomy
             PROVE  /\ Routed(vpn_ip)
                    /\ Server!EntryOf(table, sock).vpn_ip = vpn_ip
                    /\ Server!HasKey(km, vpn_ip)
                    /\ Server!get_key(km, vpn_ip) = session_key
  BY ZenonT(30) DEF ConnectedMeansServed, Roomy
<1>1. SP!Known(table, sock, vpn_ip)
  BY ZenonT(30), SameFinds DEF SysInv, Links, UpHolds
<1>2. /\ SP!find_client_by_vpn_ip(table, vpn_ip) # SP!NULL
      /\ table.clients[SP!find_client_by_vpn_ip(table, vpn_ip)].addr = sock
      /\ SP!EntryOf(table, sock).vpn_ip = vpn_ip
      /\ SP!HasKey(km, vpn_ip)
      /\ SP!get_key(km, vpn_ip)
           = SP!derive_session_key(client_public_key, km.server_key)
  BY ZenonT(30), <1>1, ServerAssumptions, SP!KnownServed DEF SysInv, ServerSide
<1> QED BY ZenonT(30), <1>2, SameBasics, SameFinds, SameRemoval, SameKeys
        DEF Routed, session_key

(* A client that takes itself for connected can be reached by the server   *)
(* at the VPN address it was told, and the enclave holds its key, as long  *)
(* as the address pool has not started over, no key was refused, and       *)
(* CLIENT_TIMEOUT exceeds pong_timeout and the delay of an answer: the     *)
(* loop of vpn_client_run gives up a silent server before                  *)
(* check_client_timeouts forgets the client, whatever is lost, late or     *)
(* repeated.                                                               *)
THEOREM ConnectedServed == Spec => []ConnectedMeansServed
BY InitSysInv, SysInvStep, SysInvServed, PTL DEF Spec

=============================================================================
