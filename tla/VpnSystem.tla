------------------------------ MODULE VpnSystem ------------------------------
(***************************************************************************)
(* A VPN client, the VPN server and the network between them.  Every step  *)
(* is a step of VpnClient, of VpnServer, or of both: what one side leaves  *)
(* to its environment, the answers to its requests on one side and the     *)
(* packets that arrive on the other, here comes from the other side.       *)
(*                                                                         *)
(* The server handles a datagram as it is sent; DELAY is for the way there *)
(* and back.  On a lossy network a datagram of either side may be lost,    *)
(* and any datagram the client ever sent, from this socket or an earlier   *)
(* one, may reach the server again at any later time.  The model ends with *)
(* the client process.                                                     *)
(***************************************************************************)
EXTENDS Naturals, Sequences

CONSTANTS
  Addr, PublicKey, InvalidKey, ServerKey, MAX_CLIENTS, FIRST_IP, LAST_IP,
  CLIENT_TIMEOUT, CHECK_INTERVAL, MAX_KEYS,
  MaxAttempts, KEEPALIVE, PONG_TIMEOUT, INITIAL_BACKOFF, MAX_BACKOFF,
  CONNECT_TIMEOUT, DELAY, INBOX,
  client_public_key,  \* of the key pair init_vpn_client generates
  Repeatable          \* bound: the types of datagrams the network repeats

ASSUME ClientKeyAssumption == client_public_key \in PublicKey

(* Those of the server's and of the client's constants. *)
ASSUME SettingsAssumption ==
  /\ MAX_CLIENTS \in Nat \ {0} /\ MAX_KEYS \in Nat \ {0}
  /\ InvalidKey \notin PublicKey
  /\ FIRST_IP \in Nat \ {0} /\ LAST_IP \in Nat /\ FIRST_IP <= LAST_IP
  /\ CLIENT_TIMEOUT \in Nat /\ CHECK_INTERVAL \in Nat
  /\ MaxAttempts \subseteq Nat
  /\ {KEEPALIVE, PONG_TIMEOUT, INITIAL_BACKOFF, MAX_BACKOFF,
      CONNECT_TIMEOUT, INBOX} \subseteq Nat \ {0}
  /\ DELAY \in Nat
  /\ INITIAL_BACKOFF <= MAX_BACKOFF

VARIABLES
  table, km, since_check, out, granted, hist,           \* of VpnServer
  pc, auto_reconnect, max_attempts, running, connected, vpn_ip, attempts,
  backoff, tun_ip, ping_age, pong_age, timer, inbox, wire, served, lossy,
  lost,                                                 \* of VpnClient
  sock,       \* the address of the client's socket
  sent        \* the datagrams of the client the network may repeat

Server == INSTANCE VpnServer
Client == INSTANCE VpnClient WITH VpnIp <- FIRST_IP .. LAST_IP

serverVars == <<table, km, since_check, out, granted, hist>>
session == <<connected, vpn_ip, attempts, backoff, tun_ip>>
clientVars == <<pc, auto_reconnect, max_attempts, running, session, ping_age,
                pong_age, timer, inbox, wire, served, lossy, lost>>
vars == <<serverVars, clientVars, sock, sent>>

Init ==
  /\ Server!Init
  /\ Client!Init
  /\ sock \in Addr
  /\ sent = {}

-----------------------------------------------------------------------------
(* The key both ends derive from the client's key pair and the server's. *)
session_key == Server!derive_session_key(client_public_key, km.server_key)

(* The server's handler for a datagram of the client. *)
Handle(d) ==
  \/ /\ d.type = "CONNECT_REQ"
     /\ \/ Server!ConnectRefused(d.from, client_public_key)
        \/ Server!ConnectAccepted(d.from, client_public_key)
  \/ /\ d.type = "DATA"
     /\ Server!DataUnknown(d.from) \/ Server!Data(d.from, session_key)
  \/ d.type = "PING" /\ Server!Ping(d.from)
  \/ d.type = "DISCONNECT" /\ Server!Disconnect(d.from)

(* What the handler's step sends back to address a. *)
Answers(a) ==
  IF out'.type = "CONNECT_RESP"
  THEN {Client!Sent([type |-> "RESP", ip |-> granted'[a].vpn_ip])}
  ELSE IF out'.type = "PONG" THEN {Client!Sent([type |-> "PONG"])} ELSE {}

ServerSilent ==
  /\ out' = Server!Silent
  /\ UNCHANGED <<table, km, since_check, granted, hist>>

(* The client sends a datagram: it is handled or lost. *)
Kept(d) == sent' = IF d.type \in Repeatable THEN sent \cup {d} ELSE sent
Handled(d) == Handle(d) /\ Kept(d)
Lost(d) == lossy /\ ServerSilent /\ Kept(d)
NothingSent == ServerSilent /\ UNCHANGED sent

(* vpn_connect on a new socket, whose port may be one used before. *)
Connect ==
  /\ Client!SendConnect
  /\ sock' \in Addr
  /\ LET d == [type |-> "CONNECT_REQ", from |-> sock']
     IN  \/ /\ Handled(d)
            /\ served' = (out'.type = "CONNECT_RESP")
            /\ wire' \in {{}, Answers(sock')}
         \/ Lost(d) /\ ~served' /\ wire' = {}

(* An iteration of the loop, with a PING if one is due, or with a packet   *)
(* read from the TUN device.                                               *)
Pinged == ping_age >= KEEPALIVE /\ ping_age' = 0

Iterate ==
  /\ Client!Iterate
  /\ LET ping == [type |-> "PING", from |-> sock]
         data == [type |-> "DATA", from |-> sock]
     IN  \/ Pinged /\ Handled(ping)
         \/ Pinged /\ Lost(ping) /\ wire' = wire
         \/ ~Pinged /\ NothingSent
         \/ ~Pinged /\ Handled(data)
         \/ ~Pinged /\ Lost(data)
  /\ UNCHANGED sock

(* The other steps of the client; destroy_vpn_client sends a DISCONNECT if *)
(* the client was connected.                                               *)
ClientStep ==
  /\ \/ Client!SendConnectFails \/ Client!RespAccepted \/ Client!RespFails
     \/ Client!TunUp \/ Client!TunFails
     \/ Client!LoopEnds \/ Client!EnterSelect \/ Client!BeginReconnect
     \/ Client!GiveUp \/ Client!ConnectionLost \/ Client!Signal
  /\ LET d == [type |-> "DISCONNECT", from |-> sock]
     IN  IF pc' = "exited" /\ connected' THEN Handled(d) \/ Lost(d)
                                         ELSE NothingSent
  /\ UNCHANGED sock

-----------------------------------------------------------------------------
(* A packet from the TUN device of the server: to the client's socket, to  *)
(* one it had before, or to nobody.                                        *)
ToClient == IF out'.type = "DATA" THEN out'.addr = sock ELSE FALSE
Forward ==
  /\ pc # "exited"
  /\ Server!TunPacket
  /\ \/ ToClient /\ Client!ArriveData
     \/ (~ToClient \/ lossy) /\ UNCHANGED clientVars
  /\ UNCHANGED <<sock, sent>>

(* The network delivers an answer, or a datagram of the client once more.  *)
Arrive ==
  /\ Client!ArriveAnswer
  /\ NothingSent
  /\ UNCHANGED sock

Repeat ==
  /\ pc # "exited"
  /\ lossy
  /\ \E d \in sent :
       /\ Handle(d)
       /\ \/ d.from = sock /\ wire' = wire \cup Answers(sock)
          \/ UNCHANGED wire
  /\ UNCHANGED <<pc, auto_reconnect, max_attempts, running, session, ping_age,
                 pong_age, timer, inbox, served, lossy, lost, sock, sent>>

ServerIdle ==
  /\ pc # "exited"
  /\ Server!Idle
  /\ UNCHANGED <<clientVars, sock, sent>>

(* A second passes for both. *)
Tick ==
  /\ Server!Tick
  /\ Client!Tick
  /\ UNCHANGED <<sock, sent>>

Next ==
  \/ Connect \/ Iterate \/ ClientStep
  \/ Forward \/ ServerIdle
  \/ Arrive \/ Repeat \/ Tick

Spec == Init /\ [][Next]_vars

-----------------------------------------------------------------------------
Up == connected /\ pc \in {"tun", "loop", "select"}

(* The server routes packets for VPN address ip to the client's socket.    *)
Routed(ip) ==
  LET i == Server!find_client_by_vpn_ip(table, ip)
  IN  i # Server!NULL /\ table.clients[i].addr = sock

(* A client that takes itself for connected is: the server finds its       *)
(* socket by the VPN address it was told and the other way round, and the  *)
(* enclave finds the key it derived.  So the server forgets a client only  *)
(* after the client has given the connection up, whatever entries and keys *)
(* earlier connections and repeated requests left behind, provided         *)
(* CLIENT_TIMEOUT leaves room for pong_timeout, one select() and the delay *)
(* of an answer.                                                           *)
ConnectedMeansServed ==
  Up /\ hist = {} /\ CLIENT_TIMEOUT > PONG_TIMEOUT + DELAY =>
    /\ Routed(vpn_ip)
    /\ Server!EntryOf(table, sock).vpn_ip = vpn_ip
    /\ Server!HasKey(km, vpn_ip)
    /\ Server!get_key(km, vpn_ip) = session_key

(* A client that is connected, the first time or again, can be reached at  *)
(* the address its TUN device has.                                         *)
ReachableAtTunAddress ==
  connected /\ pc \in {"loop", "select"} /\ hist = {} => Routed(tun_ip)

=============================================================================
