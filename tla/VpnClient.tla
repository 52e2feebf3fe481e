------------------------------ MODULE VpnClient ------------------------------
(***************************************************************************)
(* The VPN client process (VPN/src/client/vpn_client.c): connecting, the   *)
(* event loop with its keep-alive, reconnection and the end of the         *)
(* process.                                                                *)
(*                                                                         *)
(* Time is counted in seconds, as time() and sleep() do.  The process      *)
(* blocks in sleep(), in recvfrom() with a time-out and in select() with a *)
(* time-out of one second; everything between two such calls takes no      *)
(* time.  The environment is the server and the network: a request is      *)
(* answered within DELAY seconds or, on a lossy network, perhaps never.    *)
(* Every connection has a socket of its own, so nothing sent to an earlier *)
(* one arrives.                                                            *)
(***************************************************************************)
EXTENDS Naturals, Sequences

CONSTANTS
  VpnIp,              \* addresses the server hands out
  MaxAttempts,        \* settings of max_reconnect_attempts, 10 by default
  KEEPALIVE,          \* config: keepalive_interval, 30 s
  PONG_TIMEOUT,       \* config: pong_timeout, 60 s
  INITIAL_BACKOFF,    \* 1 s
  MAX_BACKOFF,        \* 60 s
  CONNECT_TIMEOUT,    \* SO_RCVTIMEO of the connection's socket, 5 s
  DELAY,              \* the server's answers arrive within this time
  INBOX               \* datagrams the socket's buffer holds

ASSUME VpnClientAssumption ==
  /\ 0 \notin VpnIp
  /\ MaxAttempts \subseteq Nat
  /\ {KEEPALIVE, PONG_TIMEOUT, INITIAL_BACKOFF, MAX_BACKOFF,
      CONNECT_TIMEOUT, INBOX} \subseteq Nat \ {0}
  /\ DELAY \in Nat
  /\ INITIAL_BACKOFF <= MAX_BACKOFF

VARIABLES
  pc,          \* the blocking call the process is in, the head of main's
               \* loop ("loop"), or "exited"
  auto_reconnect, max_attempts,           \* fields of vpn_config_t
  running,     \* client_running
  connected, vpn_ip, attempts, backoff,   \* fields of vpn_client_t
  tun_ip,      \* address the TUN device was configured with, 0: no device
  ping_age,    \* time since last_ping_sent, saturated
  pong_age,    \* time since last_pong_received, saturated
  timer,       \* what is left of the blocking call's time-out
  inbox,       \* datagrams waiting in the socket
  wire,        \* answers under way, with their age
  served,      \* the server handled the CONNECT_REQ sent from this socket
  lossy,       \* whether datagrams may be lost
  lost         \* history: check_keepalive found the connection lost

session == <<connected, vpn_ip, attempts, backoff, tun_ip>>
network == <<inbox, wire, served, lossy>>
config == <<auto_reconnect, max_attempts>>
vars == <<pc, config, running, session, ping_age, pong_age, timer, network, lost>>

Packet == [type : {"RESP"}, ip : VpnIp] \cup [type : {"PONG", "DATA", "REFUSED"}]
Flight == [packet : Packet, age : 0 .. DELAY]
Largest(a, b) == IF a > b THEN a ELSE b
Smallest(a, b) == IF a < b THEN a ELSE b

(* Every variable holds a value the code's field or the network can have.  *)
TypeOK ==
  /\ pc \in {"start", "await", "tun", "loop", "select", "sleep", "exited"}
  /\ running \in BOOLEAN /\ connected \in BOOLEAN
  /\ vpn_ip \in VpnIp \cup {0} /\ tun_ip \in VpnIp \cup {0}
  /\ auto_reconnect \in BOOLEAN /\ max_attempts \in MaxAttempts
  /\ attempts \in 0 .. max_attempts
  /\ backoff \in INITIAL_BACKOFF .. MAX_BACKOFF
  /\ ping_age \in 0 .. KEEPALIVE /\ pong_age \in 0 .. PONG_TIMEOUT + 2
  /\ timer \in 0 .. Largest(MAX_BACKOFF, CONNECT_TIMEOUT)
  /\ inbox \in Seq(Packet) /\ Len(inbox) <= INBOX
  /\ wire \in SUBSET Flight
  /\ served \in BOOLEAN /\ lossy \in BOOLEAN /\ lost \in BOOLEAN

(* init_vpn_client, then sleep(1). *)
Init ==
  /\ pc = "start" /\ timer = 1 /\ running = TRUE
  /\ connected = FALSE /\ vpn_ip = 0 /\ tun_ip = 0
  /\ attempts = 0 /\ backoff = INITIAL_BACKOFF
  /\ ping_age = 0 /\ pong_age = 0
  /\ inbox = << >> /\ wire = {} /\ served = FALSE
  /\ lossy \in BOOLEAN /\ lost = FALSE
  /\ auto_reconnect \in BOOLEAN /\ max_attempts \in MaxAttempts

-----------------------------------------------------------------------------
(* What the environment makes of a datagram the client sends: its answers. *)
Sent(p) == [packet |-> p, age |-> 0]
ConnectAnswers ==
  {{Sent([type |-> "RESP", ip |-> ip])} : ip \in VpnIp}
    \cup (IF lossy THEN {{}, {Sent([type |-> "REFUSED"])}} ELSE {})
PingAnswers == {{Sent([type |-> "PONG"])}} \cup (IF lossy THEN {{}} ELSE {})

(* destroy_vpn_client and the end of main.  The DISCONNECT it sends when   *)
(* connected needs no answer.                                              *)
Exit ==
  /\ pc' = "exited"
  /\ inbox' = << >> /\ wire' = {} /\ served' = FALSE
  /\ UNCHANGED <<config, running, session, ping_age, pong_age, timer, lossy, lost>>

(* vpn_connect up to its recvfrom(), from main or, after the back-off,     *)
(* from attempt_reconnect.                                                 *)
AfterBackoff ==
  IF pc = "sleep"
  THEN /\ backoff' = Smallest(2 * backoff, MAX_BACKOFF)
       /\ connected' = FALSE
  ELSE UNCHANGED <<backoff, connected>>

SendConnect ==
  /\ pc \in {"start", "sleep"} /\ timer = 0
  /\ AfterBackoff
  /\ \E answers \in ConnectAnswers :
       /\ wire' = answers
       /\ served' \in (IF lossy THEN BOOLEAN ELSE {TRUE})
       /\ answers # {} => served'
  /\ inbox' = << >>
  /\ pc' = "await" /\ timer' = CONNECT_TIMEOUT
  /\ UNCHANGED <<config, running, vpn_ip, attempts, tun_ip, ping_age, pong_age,
                 lossy, lost>>

(* No socket, or the network refuses to send. *)
SendConnectFails ==
  /\ pc \in {"start", "sleep"} /\ timer = 0 /\ lossy
  /\ AfterBackoff
  /\ pc' = "exited"
  /\ inbox' = << >> /\ wire' = {} /\ served' = FALSE
  /\ UNCHANGED <<config, running, vpn_ip, attempts, tun_ip, ping_age, pong_age, timer, lossy, lost>>

(* The first datagram is the answer; setup_client_tun after a reconnection *)
(* finds the device open and leaves it as it is.                           *)
RespAccepted_old_times ==
  /\ pc = "await" /\ inbox # << >>
  /\ Head(inbox).type = "RESP"
  /\ vpn_ip' = Head(inbox).ip
  /\ connected' = TRUE /\ attempts' = 0 /\ backoff' = INITIAL_BACKOFF
  /\ inbox' = Tail(inbox)
  /\ IF tun_ip = 0 THEN pc' = "tun" /\ timer' = 1
                   ELSE pc' = "select" /\ timer' = 1
  /\ UNCHANGED <<config, running, tun_ip, ping_age, pong_age, wire, served,
                 lossy, lost>>

RespAccepted ==
  /\ pc = "await" /\ inbox # << >>
  /\ Head(inbox).type = "RESP"
  /\ vpn_ip' = Head(inbox).ip
  /\ connected' = TRUE /\ attempts' = 0 /\ backoff' = INITIAL_BACKOFF
  /\ ping_age' = 0 /\ pong_age' = 0
  /\ inbox' = Tail(inbox)
  /\ IF tun_ip = 0 THEN pc' = "tun" /\ timer' = 1
                   ELSE pc' = "select" /\ timer' = 1
  /\ UNCHANGED <<config, running, tun_ip, wire, served, lossy, lost>>

RespFails_retry ==
  /\ pc = "await"
  /\ IF inbox # << >> THEN Head(inbox).type # "RESP" ELSE timer = 0
  /\ IF tun_ip = 0 THEN Exit
     ELSE /\ pc' = "loop"
          /\ UNCHANGED <<config, running, session, ping_age, pong_age, timer,
                         network, lost>>

RespFails ==
  /\ pc = "await"
  /\ IF inbox # << >> THEN Head(inbox).type # "RESP" ELSE timer = 0
  /\ Exit

(* setup_client_tun when the client starts. *)
TunUp ==
  /\ pc = "tun" /\ timer = 0
  /\ tun_ip' = vpn_ip /\ pc' = "loop"
  /\ UNCHANGED <<config, running, connected, vpn_ip, attempts, backoff, ping_age,
                 pong_age, timer, network, lost>>

TunFails ==
  /\ pc = "tun" /\ timer = 0
  /\ Exit

-----------------------------------------------------------------------------
(* The head of main's loop.  After a reconnection the loop goes on to      *)
(* select() without testing client_running again.                          *)
LoopEnds ==
  /\ pc = "loop" /\ ~running
  /\ Exit

EnterSelect_no_test ==
  /\ pc = "loop" /\ connected
  /\ pc' = "select" /\ timer' = 1
  /\ UNCHANGED <<config, running, session, ping_age, pong_age, network, lost>>

EnterSelect ==
  /\ pc = "loop" /\ running /\ connected
  /\ pc' = "select" /\ timer' = 1
  /\ UNCHANGED <<config, running, session, ping_age, pong_age, network, lost>>

BeginReconnect_no_limit ==
  /\ pc = "loop" /\ running /\ ~connected
  /\ auto_reconnect
  /\ attempts' = attempts + 1
  /\ pc' = "sleep" /\ timer' = backoff
  /\ UNCHANGED <<config, running, connected, vpn_ip, backoff, tun_ip, ping_age,
                 pong_age, network, lost>>

BeginReconnect ==
  /\ pc = "loop" /\ running /\ ~connected
  /\ auto_reconnect /\ attempts < max_attempts
  /\ attempts' = attempts + 1
  /\ pc' = "sleep" /\ timer' = backoff
  /\ UNCHANGED <<config, running, connected, vpn_ip, backoff, tun_ip, ping_age,
                 pong_age, network, lost>>

GiveUp_no_limit ==
  /\ pc = "loop" /\ running /\ ~connected
  /\ ~auto_reconnect
  /\ Exit

GiveUp ==
  /\ pc = "loop" /\ running /\ ~connected
  /\ auto_reconnect => attempts >= max_attempts
  /\ Exit

(* select() returned, for a datagram, for a packet of the TUN device or    *)
(* after a second.  check_keepalive runs before anything is read.          *)
PongOverdue_idle == pong_age > PONG_TIMEOUT /\ inbox = << >>
PongOverdue == pong_age > PONG_TIMEOUT

ConnectionLost ==
  /\ pc = "select" /\ PongOverdue
  /\ pc' = "loop"
  /\ connected' = FALSE /\ lost' = TRUE
  /\ UNCHANGED <<config, running, vpn_ip, attempts, backoff, tun_ip, ping_age,
                 pong_age, timer, network>>

(* send_ping when it is due; a ping that could not be sent stays due. *)
MaybePing ==
  IF ping_age < KEEPALIVE THEN UNCHANGED <<ping_age, wire>>
  ELSE \/ /\ ping_age' = 0
          /\ \E answers \in PingAnswers : wire' = wire \cup answers
       \/ lossy /\ UNCHANGED <<ping_age, wire>>

(* handle_udp_to_tun reads one datagram; handle_tun_to_udp changes nothing *)
(* of the client.                                                          *)
ReadOne ==
  IF inbox = << >> THEN UNCHANGED <<inbox, pong_age>>
  ELSE /\ inbox' = Tail(inbox)
       /\ pong_age' = IF Head(inbox).type = "PONG" THEN 0 ELSE pong_age

Iterate ==
  /\ pc = "select" /\ ~PongOverdue
  /\ MaybePing
  /\ ReadOne
  /\ pc' = "loop"
  /\ UNCHANGED <<config, running, session, timer, served, lossy, lost>>

-----------------------------------------------------------------------------
(* SIGINT or SIGTERM.  The signal ends a sleep() and makes select(), or    *)
(* recvfrom() with a time-out, fail; just before the call it does neither. *)
Signal ==
  /\ running /\ pc # "exited"
  /\ running' = FALSE
  /\ \/ UNCHANGED <<pc, timer, network>>
     \/ /\ pc \in {"start", "sleep", "tun"}
        /\ timer' = 0
        /\ UNCHANGED <<pc, network>>
     \/ /\ pc \in {"await", "select"} /\ inbox = << >>
        /\ pc' = "exited"
        /\ inbox' = << >> /\ wire' = {} /\ served' = FALSE
        /\ UNCHANGED <<timer, lossy>>
  /\ UNCHANGED <<config, session, ping_age, pong_age, lost>>

(* An answer arrives, in any order.  A full socket buffer drops it, which  *)
(* counts as a loss.                                                       *)
ArriveAnswer ==
  /\ pc # "exited"
  /\ \E f \in wire :
       /\ wire' = wire \ {f}
       /\ IF Len(inbox) < INBOX THEN inbox' = Append(inbox, f.packet)
                                ELSE lossy /\ UNCHANGED inbox
  /\ UNCHANGED <<pc, config, running, session, ping_age, pong_age, timer, served,
                 lossy, lost>>

(* Tunnelled data arrives once the server knows this socket. *)
ArriveData ==
  /\ pc # "exited" /\ served /\ Len(inbox) < INBOX
  /\ inbox' = Append(inbox, [type |-> "DATA"])
  /\ UNCHANGED <<pc, config, running, session, ping_age, pong_age, timer, wire,
                 served, lossy, lost>>

(* A second passes: only in a blocking call that goes on waiting, and not  *)
(* past the delay of an answer.                                            *)
Blocked ==
  /\ pc \in {"start", "sleep", "tun", "await", "select"} /\ timer > 0
  /\ pc \in {"await", "select"} => inbox = << >>

Tick ==
  /\ Blocked
  /\ \A f \in wire : f.age < DELAY
  /\ wire' = {[f EXCEPT !.age = @ + 1] : f \in wire}
  /\ timer' = timer - 1
  /\ ping_age' = Smallest(ping_age + 1, KEEPALIVE)
  /\ pong_age' = Smallest(pong_age + 1, PONG_TIMEOUT + 2)
  /\ UNCHANGED <<pc, config, running, session, inbox, served, lossy, lost>>

Connecting == SendConnect \/ SendConnectFails \/ RespAccepted \/ RespFails
                \/ TunUp \/ TunFails
Loop == LoopEnds \/ EnterSelect \/ BeginReconnect \/ GiveUp \/ ConnectionLost \/ Iterate
Next == Connecting \/ Loop \/ Signal \/ ArriveAnswer \/ ArriveData \/ Tick

Spec == Init /\ [][Next]_vars

(* The process runs when it is not blocked, time passes while it is, and   *)
(* what is under way arrives.                                              *)
FairSpec == Spec /\ WF_vars(Connecting) /\ WF_vars(Loop) /\ WF_vars(Tick)
                 /\ WF_vars(ArriveAnswer)

-----------------------------------------------------------------------------
(* A dead connection is noticed within a second of pong_timeout, whatever  *)
(* other traffic keeps the loop busy: check_keepalive runs in every        *)
(* iteration, not only in idle ones.                                       *)
LossNoticed == pc \in {"loop", "select"} /\ connected => pong_age <= PONG_TIMEOUT + 1

(* If the server answers every PING within DELAY, and pong_timeout leaves  *)
(* room for one keep-alive interval and that delay, the client never gives *)
(* a connection up, although check_keepalive looks at the clock before the *)
(* PONG that may already wait in the socket is read, and although it is    *)
(* not called during the second main sleeps before the device is set up.   *)
NoFalseAlarm ==
  ~lossy /\ KEEPALIVE >= 2 /\ KEEPALIVE + DELAY <= PONG_TIMEOUT => ~lost

(* The first failed reconnection ends the client: there is never a second  *)
(* attempt in a row and the back-off never grows past one doubling.        *)
OneAttemptPerLoss ==
  /\ attempts <= 1
  /\ backoff <= 2 * INITIAL_BACKOFF

(* What max_reconnect_attempts says: a client whose reconnection fails     *)
(* gives up only after that many attempts.                                 *)
RetriesUntilLimit ==
  pc = "exited" /\ running /\ lost /\ ~connected /\ auto_reconnect
    => attempts >= max_attempts

(* A signal ends the process, from whatever blocking call it interrupts.   *)
SignalEnds == ~running ~> pc = "exited"

(* A connection found lost is replaced or the process ends: it does not    *)
(* stay half connected.                                                    *)
LossHandled == (pc = "loop" /\ ~connected) ~> (connected \/ pc = "exited")

=============================================================================
