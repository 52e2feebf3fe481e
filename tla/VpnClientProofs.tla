--------------------------- MODULE VpnClientProofs ---------------------------
(***************************************************************************)
(* Properties of the client's loop, for every setting of its time-outs and *)
(* limits: a dead connection is noticed in time, a live one is not given   *)
(* up, and there is never a second attempt to reconnect in a row.          *)
(***************************************************************************)
EXTENDS VpnClient, TLAPS

(* What the counters and clocks are, and what each place of the process    *)
(* says about them.                                                        *)
Counters ==
  /\ pc \in {"start", "await", "tun", "loop", "select", "sleep", "exited"}
  /\ {attempts, backoff, pong_age, timer} \subseteq Nat

(* Outside a reconnection both are as vpn_connect left them; the back-off  *)
(* doubles once, on the way to the answer.                                 *)
Attempts ==
  /\ pc \in {"start", "tun", "loop", "select"} => attempts = 0
  /\ attempts <= 1
  /\ pc \in {"start", "tun", "loop", "select", "sleep"}
       => backoff = INITIAL_BACKOFF
  /\ backoff <= 2 * INITIAL_BACKOFF

(* check_keepalive ran since the last full second: at the head of the loop *)
(* the PONG is not overdue, and select() adds at most its second.          *)
Clock ==
  /\ pc = "tun" => pong_age + timer <= 1
  /\ pc = "loop" /\ connected => pong_age <= PONG_TIMEOUT
  /\ pc = "select" => connected /\ timer <= 1
                        /\ pong_age + timer <= PONG_TIMEOUT + 1

ClientIInv == Counters /\ Attempts /\ Clock

LEMMA SmallestNat ==
  ASSUME NEW a \in Nat, NEW b \in Nat
  PROVE  /\ Smallest(a, b) \in Nat
         /\ Smallest(a, b) <= a
  BY DEF Smallest

LEMMA ClientInit == Init => ClientIInv
  BY VpnClientAssumption DEF Init, ClientIInv, Counters, Attempts, Clock

(* A step that leaves the process where it is, or ends it. *)
LEMMA ExitStep ==
  ASSUME ClientIInv, Exit
  PROVE  ClientIInv'
  BY DEF ClientIInv, Counters, Attempts, Clock, Exit, session, config

LEMMA ConnectingStep ==
  ASSUME ClientIInv, Connecting
  PROVE  ClientIInv'
<1> USE VpnClientAssumption
<1>1. ASSUME AfterBackoff, pc \in {"start", "sleep"}
      PROVE  backoff' \in Nat /\ backoff' <= 2 * INITIAL_BACKOFF
  <2>1. backoff \in Nat /\ backoff = INITIAL_BACKOFF /\ MAX_BACKOFF \in Nat
    BY <1>1 DEF ClientIInv, Counters, Attempts
  <2>2. CASE pc = "sleep"
    BY <1>1, <2>1, <2>2, SmallestNat DEF AfterBackoff
  <2>3. CASE pc # "sleep"
    BY <1>1, <2>1, <2>3 DEF AfterBackoff
  <2> QED BY <2>2, <2>3
<1>2. CASE SendConnect
  BY <1>1, <1>2 DEF SendConnect, ClientIInv, Counters, Attempts, Clock
<1>3. CASE SendConnectFails
  BY <1>1, <1>3 DEF SendConnectFails, ClientIInv, Counters, Attempts, Clock
<1>4. CASE RespAccepted
  BY <1>4 DEF RespAccepted, ClientIInv, Counters, Attempts, Clock
<1>5. CASE RespFails
  BY <1>5, ExitStep DEF RespFails
<1>6. CASE TunUp
  BY <1>6 DEF TunUp, ClientIInv, Counters, Attempts, Clock
<1>7. CASE TunFails
  BY <1>7, ExitStep DEF TunFails
<1> QED BY <1>2, <1>3, <1>4, <1>5, <1>6, <1>7 DEF Connecting

LEMMA LoopStep ==
  ASSUME ClientIInv, Loop
  PROVE  ClientIInv'
<1> USE VpnClientAssumption
<1>1. CASE LoopEnds
  BY <1>1, ExitStep DEF LoopEnds
<1>2. CASE EnterSelect
  BY <1>2 DEF EnterSelect, session, ClientIInv, Counters, Attempts, Clock
<1>3. CASE BeginReconnect
  BY <1>3 DEF BeginReconnect, ClientIInv, Counters, Attempts, Clock
<1>4. CASE GiveUp
  BY <1>4, ExitStep DEF GiveUp
<1>5. CASE ConnectionLost
  BY <1>5 DEF ConnectionLost, ClientIInv, Counters, Attempts, Clock
<1>6. CASE Iterate
  <2>1. pong_age' \in Nat /\ pong_age' <= PONG_TIMEOUT
    BY <1>6 DEF Iterate, ReadOne, PongOverdue, ClientIInv, Counters
  <2> QED
    BY <1>6, <2>1 DEF Iterate, session, ClientIInv, Counters, Attempts, Clock
<1> QED BY <1>1, <1>2, <1>3, <1>4, <1>5, <1>6 DEF Loop

LEMMA EnvironmentStep ==
  ASSUME ClientIInv, Signal \/ ArriveAnswer \/ ArriveData \/ Tick
  PROVE  ClientIInv'
<1> USE VpnClientAssumption
<1>1. CASE Signal
  <2>1. UNCHANGED <<connected, attempts, backoff, pong_age>>
    BY <1>1 DEF Signal, session
  <2>2. \/ pc' = pc /\ timer' = timer
        \/ pc' = pc /\ timer' = 0 /\ pc \in {"start", "sleep", "tun"}
        \/ pc' = "exited" /\ timer' = timer
    BY <1>1 DEF Signal
  <2> QED
    BY <2>1, <2>2 DEF ClientIInv, Counters, Attempts, Clock
<1>2. CASE ArriveAnswer
  BY <1>2 DEF ArriveAnswer, session, ClientIInv, Counters, Attempts, Clock
<1>3. CASE ArriveData
  BY <1>3 DEF ArriveData, session, ClientIInv, Counters, Attempts, Clock
<1>4. CASE Tick
  <2>1. /\ pong_age' \in Nat /\ pong_age' <= pong_age + 1
        /\ timer > 0 /\ timer' = timer - 1
        /\ pc \in {"start", "sleep", "tun", "await", "select"}
    <3>1. pong_age \in Nat /\ pong_age + 1 \in Nat /\ PONG_TIMEOUT + 2 \in Nat
      BY DEF ClientIInv, Counters
    <3> QED BY <1>4, <3>1, SmallestNat DEF Tick, Blocked
  <2>2. pc' = pc /\ UNCHANGED session
    BY <1>4 DEF Tick
  <2> QED
    BY <2>1, <2>2 DEF session, ClientIInv, Counters, Attempts, Clock
<1> QED BY <1>1, <1>2, <1>3, <1>4

LEMMA ClientInvariance == Spec => []ClientIInv
<1>1. ClientIInv /\ [Next]_vars => ClientIInv'
  <2> SUFFICES ASSUME ClientIInv, [Next]_vars PROVE ClientIInv'
    OBVIOUS
  <2>1. CASE Next
    BY <2>1, ConnectingStep, LoopStep, EnvironmentStep DEF Next
  <2>2. CASE UNCHANGED vars
    BY <2>2 DEF vars, session, ClientIInv, Counters, Attempts, Clock
  <2> QED BY <2>1, <2>2
<1> QED BY <1>1, ClientInit, PTL DEF Spec

(* The keep-alive of main's loop notices a dead connection within a second *)
(* of pong_timeout, whatever the intervals and the traffic.                *)
THEOREM LossNoticedInTime == Spec => []LossNoticed
<1>1. ClientIInv => LossNoticed
  BY VpnClientAssumption DEF ClientIInv, Counters, Clock, LossNoticed
<1> QED BY <1>1, ClientInvariance, PTL

(* main leaves its loop after the first failed reconnection, so there is   *)
(* one attempt and one doubling at most, whatever max_reconnect_attempts.  *)
THEOREM OneAttempt == Spec => []OneAttemptPerLoss
<1>1. ClientIInv => OneAttemptPerLoss
  BY DEF ClientIInv, Attempts, OneAttemptPerLoss
<1> QED BY <1>1, ClientInvariance, PTL

-----------------------------------------------------------------------------
(* Types, in three parts: the process, its clocks and the network. *)
ProcessType ==
  /\ pc \in {"start", "await", "tun", "loop", "select", "sleep", "exited"}
  /\ running \in BOOLEAN /\ connected \in BOOLEAN
  /\ vpn_ip \in VpnIp \cup {0} /\ tun_ip \in VpnIp \cup {0}
  /\ auto_reconnect \in BOOLEAN /\ max_attempts \in MaxAttempts
  /\ attempts \in 0 .. max_attempts
  /\ served \in BOOLEAN /\ lossy \in BOOLEAN /\ lost \in BOOLEAN
ClockType ==
  /\ backoff \in INITIAL_BACKOFF .. MAX_BACKOFF
  /\ ping_age \in 0 .. KEEPALIVE /\ pong_age \in 0 .. PONG_TIMEOUT + 2
  /\ timer \in 0 .. Largest(MAX_BACKOFF, CONNECT_TIMEOUT)
NetworkType ==
  /\ inbox \in Seq(Packet) /\ Len(inbox) <= INBOX
  /\ wire \in SUBSET Flight
Types == ProcessType /\ ClockType /\ NetworkType

LEMMA Settings ==
  /\ KEEPALIVE \in Nat /\ PONG_TIMEOUT \in Nat /\ INBOX \in Nat /\ DELAY \in Nat
  /\ INITIAL_BACKOFF \in Nat /\ MAX_BACKOFF \in Nat /\ CONNECT_TIMEOUT \in Nat
  /\ 0 < KEEPALIVE /\ 0 < INBOX /\ 0 < MAX_BACKOFF /\ 0 < CONNECT_TIMEOUT
  /\ INITIAL_BACKOFF <= MAX_BACKOFF
  /\ MaxAttempts \subseteq Nat
  BY VpnClientAssumption

LEMMA LargestTimer ==
  /\ Largest(MAX_BACKOFF, CONNECT_TIMEOUT) \in Nat
  /\ MAX_BACKOFF <= Largest(MAX_BACKOFF, CONNECT_TIMEOUT)
  /\ CONNECT_TIMEOUT <= Largest(MAX_BACKOFF, CONNECT_TIMEOUT)
  /\ 1 <= Largest(MAX_BACKOFF, CONNECT_TIMEOUT)
  BY Settings DEF Largest

LEMMA SentFlight == \A p \in Packet : Sent(p) \in Flight
  BY Settings DEF Sent, Flight

LEMMA AnswersInFlight ==
  /\ \A a \in ConnectAnswers : a \in SUBSET Flight
  /\ \A a \in PingAnswers : a \in SUBSET Flight
<1>1. /\ \A ip \in VpnIp : [type |-> "RESP", ip |-> ip] \in Packet
      /\ [type |-> "PONG"] \in Packet /\ [type |-> "REFUSED"] \in Packet
  BY DEF Packet
<1>2. \A a \in ConnectAnswers : a \in SUBSET Flight
  BY <1>1, SentFlight DEF ConnectAnswers
<1>3. \A a \in PingAnswers : a \in SUBSET Flight
  BY <1>1, SentFlight DEF PingAnswers
<1> QED BY <1>2, <1>3

LEMMA HeadAndTail ==
  ASSUME NetworkType, inbox # << >>
  PROVE  /\ Head(inbox) \in Packet /\ Tail(inbox) \in Seq(Packet)
         /\ Len(Tail(inbox)) <= INBOX
         /\ Head(inbox).type = "RESP" => Head(inbox).ip \in VpnIp
<1>1. /\ Head(inbox) \in Packet /\ Tail(inbox) \in Seq(Packet)
      /\ Len(Tail(inbox)) <= INBOX
  BY Settings DEF NetworkType
<1>2. \A p \in Packet : p.type = "RESP" => p.ip \in VpnIp
  BY DEF Packet
<1> QED BY <1>1, <1>2

(* A socket with nothing in it. *)
LEMMA EmptyNetwork ==
  ASSUME inbox' = << >>, wire' \in SUBSET Flight
  PROVE  NetworkType'
  BY Settings DEF NetworkType

LEMMA TypesInit == Init => Types
<1> SUFFICES ASSUME Init PROVE Types
  OBVIOUS
<1> USE Settings, LargestTimer
<1>1. ProcessType
  <2>1. max_attempts \in Nat /\ attempts = 0
    BY DEF Init
  <2>2. attempts \in 0 .. max_attempts
    BY <2>1
  <2> QED BY <2>2, Zenon DEF Init, ProcessType
<1>2. ClockType
  BY DEF Init, ClockType
<1>3. NetworkType
  BY DEF Init, NetworkType
<1> QED BY <1>1, <1>2, <1>3 DEF Types

LEMMA ExitTypes ==
  ASSUME Types, Exit
  PROVE  Types'
<1>1. NetworkType'
  BY EmptyNetwork DEF Exit
<1>2. ProcessType' /\ ClockType'
  BY DEF Types, Exit, ProcessType, ClockType, session, config
<1> QED BY <1>1, <1>2 DEF Types

LEMMA ConnectingTypes ==
  ASSUME Types, Connecting
  PROVE  Types'
<1> USE Settings, LargestTimer
<1>1. ASSUME AfterBackoff
      PROVE  backoff' \in INITIAL_BACKOFF .. MAX_BACKOFF /\ connected' \in BOOLEAN
  <2>1. CASE pc = "sleep"
    <3>1. backoff' = Smallest(2 * backoff, MAX_BACKOFF) /\ connected' = FALSE
      BY <1>1, <2>1 DEF AfterBackoff
    <3>2. backoff \in INITIAL_BACKOFF .. MAX_BACKOFF
      BY DEF Types, ClockType
    <3>3. \A a, b, c \in Nat : a <= b /\ b <= c =>
            Smallest(2 * b, c) \in a .. c
      BY DEF Smallest
    <3>4. /\ {backoff, INITIAL_BACKOFF, MAX_BACKOFF} \subseteq Nat
          /\ INITIAL_BACKOFF <= backoff /\ backoff <= MAX_BACKOFF
      BY <3>2
    <3> QED BY <3>1, <3>3, <3>4
  <2>2. CASE pc # "sleep"
    <3>1. UNCHANGED <<backoff, connected>>
      BY <1>1, <2>2 DEF AfterBackoff
    <3> QED BY <3>1 DEF Types, ClockType, ProcessType
  <2> QED BY <2>1, <2>2
<1>2. CASE SendConnect
  <2>1. wire' \in SUBSET Flight /\ served' \in BOOLEAN
    BY <1>2, AnswersInFlight DEF SendConnect
  <2>2. NetworkType'
    BY <1>2, <2>1, EmptyNetwork DEF SendConnect
  <2>3. ProcessType'
    BY <1>1, <1>2, <2>1 DEF SendConnect, Types, ProcessType, config
  <2>4. ClockType'
    BY <1>1, <1>2 DEF SendConnect, Types, ClockType
  <2> QED BY <2>2, <2>3, <2>4 DEF Types
<1>3. CASE SendConnectFails
  <2>1. NetworkType'
    BY <1>3, EmptyNetwork DEF SendConnectFails
  <2>2. ProcessType'
    BY <1>1, <1>3 DEF SendConnectFails, Types, ProcessType, config
  <2>3. ClockType'
    BY <1>1, <1>3 DEF SendConnectFails, Types, ClockType
  <2> QED BY <2>1, <2>2, <2>3 DEF Types
<1>4. CASE RespAccepted
  <2>1. NetworkType'
    BY <1>4, HeadAndTail DEF RespAccepted, Types, NetworkType
  <2>2. vpn_ip' \in VpnIp
    BY <1>4, HeadAndTail DEF RespAccepted, Types
  <2>3. ProcessType'
    BY <1>4, <2>2 DEF RespAccepted, Types, ProcessType, config
  <2>4. ClockType'
    BY <1>4 DEF RespAccepted, Types, ClockType
  <2> QED BY <2>1, <2>3, <2>4 DEF Types
<1>5. CASE RespFails \/ TunFails
  BY <1>5, ExitTypes DEF RespFails, TunFails
<1>6. CASE TunUp
  BY <1>6 DEF TunUp, Types, ProcessType, ClockType, NetworkType, network, config
<1> QED BY <1>2, <1>3, <1>4, <1>5, <1>6 DEF Connecting

LEMMA LoopTypes ==
  ASSUME Types, Loop
  PROVE  Types'
<1> USE Settings, LargestTimer
<1>1. CASE LoopEnds \/ GiveUp
  BY <1>1, ExitTypes DEF LoopEnds, GiveUp
<1>2. CASE EnterSelect
  BY <1>2 DEF EnterSelect, session, network, config, Types, ProcessType, ClockType,
              NetworkType
<1>3. CASE BeginReconnect
  <2>1. attempts' \in 0 .. max_attempts /\ max_attempts' = max_attempts
    BY <1>3 DEF BeginReconnect, config, Types, ProcessType
  <2>2. ProcessType'
    BY <1>3, <2>1 DEF BeginReconnect, network, config, Types, ProcessType
  <2>3. ClockType' /\ NetworkType'
    BY <1>3 DEF BeginReconnect, network, Types, ClockType, NetworkType
  <2> QED BY <2>2, <2>3 DEF Types
<1>4. CASE ConnectionLost
  BY <1>4 DEF ConnectionLost, network, config, Types, ProcessType, ClockType,
              NetworkType
<1>5. CASE Iterate
  <2>1. ping_age' \in 0 .. KEEPALIVE /\ wire' \in SUBSET Flight
    <3>1. CASE UNCHANGED <<ping_age, wire>>
      BY <3>1 DEF Types, ClockType, NetworkType
    <3>2. CASE ping_age' = 0 /\ \E answers \in PingAnswers : wire' = wire \cup answers
      BY <3>2, AnswersInFlight DEF Types, NetworkType
    <3> QED BY <1>5, <3>1, <3>2 DEF Iterate, MaybePing
  <2>2. /\ pong_age' \in 0 .. PONG_TIMEOUT + 2
        /\ inbox' \in Seq(Packet) /\ Len(inbox') <= INBOX
    <3>1. CASE inbox = << >>
      BY <1>5, <3>1 DEF Iterate, ReadOne, Types, ClockType, NetworkType
    <3>2. CASE inbox # << >>
      <4>1. inbox' = Tail(inbox) /\ pong_age' \in {0, pong_age}
        BY <1>5, <3>2 DEF Iterate, ReadOne
      <4>2. pong_age' \in 0 .. PONG_TIMEOUT + 2
        BY <4>1 DEF Types, ClockType
      <4> QED BY <3>2, <4>1, <4>2, HeadAndTail DEF Types
    <3> QED BY <3>1, <3>2
  <2> QED
    BY <1>5, <2>1, <2>2
    DEF Iterate, session, config, Types, ProcessType, ClockType, NetworkType
<1> QED BY <1>1, <1>2, <1>3, <1>4, <1>5 DEF Loop

LEMMA Aged ==
  ASSUME Types, Tick, NEW f \in wire
  PROVE  /\ [f EXCEPT !.age = @ + 1] \in Flight
         /\ [f EXCEPT !.age = @ + 1].age = f.age + 1
         /\ [f EXCEPT !.age = @ + 1].packet = f.packet
<1>1. f \in Flight /\ f.age < DELAY
  BY DEF Types, NetworkType, Tick
<1> QED BY <1>1, Settings DEF Flight

LEMMA EnvironmentTypes ==
  ASSUME Types, Signal \/ ArriveAnswer \/ ArriveData \/ Tick
  PROVE  Types'
<1> USE Settings, LargestTimer
<1>1. CASE Signal
  <2>1. NetworkType'
    <3>1. CASE UNCHANGED network
      BY <3>1 DEF Types, NetworkType, network
    <3>2. CASE inbox' = << >> /\ wire' = {}
      BY <3>2, EmptyNetwork
    <3> QED BY <1>1, <3>1, <3>2 DEF Signal
  <2>2. ProcessType'
    BY <1>1 DEF Signal, session, network, config, Types, ProcessType
  <2>3. ClockType'
    BY <1>1 DEF Signal, session, Types, ClockType
  <2> QED BY <2>1, <2>2, <2>3 DEF Types
<1>2. CASE ArriveAnswer
  <2>1. PICK f \in wire :
          /\ wire' = wire \ {f}
          /\ IF Len(inbox) < INBOX THEN inbox' = Append(inbox, f.packet)
                                   ELSE lossy /\ UNCHANGED inbox
    BY <1>2 DEF ArriveAnswer
  <2>2. f.packet \in Packet
    BY DEF Types, NetworkType, Flight
  <2>3. inbox' \in Seq(Packet) /\ Len(inbox') <= INBOX
    <3>1. CASE Len(inbox) < INBOX
      <4>1. inbox' = Append(inbox, f.packet) /\ inbox \in Seq(Packet)
        BY <2>1, <3>1 DEF Types, NetworkType
      <4>2. inbox' \in Seq(Packet) /\ Len(inbox') = Len(inbox) + 1
        BY <2>2, <4>1
      <4> QED BY <3>1, <4>1, <4>2
    <3>2. CASE ~(Len(inbox) < INBOX)
      BY <2>1, <3>2 DEF Types, NetworkType
    <3> QED BY <3>1, <3>2
  <2>4. wire' \in SUBSET Flight
    BY <2>1 DEF Types, NetworkType
  <2> QED
    BY <1>2, <2>3, <2>4 DEF NetworkType, ArriveAnswer, session, config, Types, ProcessType, ClockType
<1>3. CASE ArriveData
  <2>1. [type |-> "DATA"] \in Packet
    BY DEF Packet
  <2>2. NetworkType'
    BY <1>3, <2>1 DEF ArriveData, Types, NetworkType
  <2> QED
    BY <1>3, <2>2 DEF ArriveData, session, config, Types, ProcessType, ClockType
<1>4. CASE Tick
  <2>1. NetworkType'
    <3>1. wire' \in SUBSET Flight
      BY <1>4, Aged DEF Tick
    <3> QED BY <1>4, <3>1 DEF Tick, Types, NetworkType
  <2>2. ClockType'
    <3>1. \A a, b \in Nat : Smallest(a + 1, b) \in 0 .. b
      BY DEF Smallest
    <3>2. ping_age \in Nat /\ pong_age \in Nat /\ PONG_TIMEOUT + 2 \in Nat
      BY DEF Types, ClockType
    <3>3. /\ ping_age' \in 0 .. KEEPALIVE /\ pong_age' \in 0 .. PONG_TIMEOUT + 2
          /\ timer > 0 /\ timer' = timer - 1 /\ backoff' = backoff
      BY <1>4, <3>1, <3>2 DEF Tick, Blocked, session
    <3> QED BY <3>3 DEF Types, ClockType
  <2> QED BY <1>4, <2>1, <2>2 DEF Tick, session, config, Types, ProcessType
<1> QED BY <1>1, <1>2, <1>3, <1>4

LEMMA TypesInvariance == Spec => []Types
<1>1. Types /\ [Next]_vars => Types'
  <2> SUFFICES ASSUME Types, [Next]_vars PROVE Types'
    OBVIOUS
  <2>1. CASE Next
    BY <2>1, ConnectingTypes, LoopTypes, EnvironmentTypes DEF Next
  <2>2. CASE UNCHANGED vars
    BY <2>2 DEF vars, session, network, config, Types, ProcessType, ClockType,
                NetworkType
  <2> QED BY <2>1, <2>2
<1> QED BY <1>1, TypesInit, PTL DEF Spec

(* The fields of vpn_client_t and the socket hold values of their types,   *)
(* and reconnect_attempts stays within its limit, whatever the settings.   *)
THEOREM ClientTypeCorrect == Spec => []TypeOK
<1>1. Types => TypeOK
  BY DEF Types, ProcessType, ClockType, NetworkType, TypeOK
<1> QED BY <1>1, TypesInvariance, PTL

-----------------------------------------------------------------------------
(* Why a live connection is not given up: the last PONG was read after the *)
(* last PING was sent, or one that was sent in time is under way or waits  *)
(* in the socket.  Several may be, if DELAY is longer than KEEPALIVE.      *)
InTime == ~lossy /\ KEEPALIVE >= 2 /\ KEEPALIVE + DELAY <= PONG_TIMEOUT

PongOnWire == \E f \in wire : f.packet.type = "PONG" /\ pong_age <= KEEPALIVE + f.age
PongInSocket ==
  /\ \E i \in 1 .. Len(inbox) : inbox[i].type = "PONG"
  /\ pong_age <= KEEPALIVE + DELAY
Fresh == pong_age <= ping_age \/ PongOnWire \/ PongInSocket

(* A due PING is sent before select() waits again. *)
PingInTime ==
  /\ pc = "tun" => ping_age + timer <= 1 /\ pong_age <= ping_age
  /\ pc = "loop" => ping_age < KEEPALIVE
  /\ pc = "select" => ping_age + timer <= KEEPALIVE

Alive == InTime =>
  ~lost /\ PingInTime /\ (pc \in {"tun", "loop", "select"} => Fresh)

LEMMA FreshNotOverdue ==
  ASSUME Types, InTime, Fresh
  PROVE  ~PongOverdue
<1> USE Settings
<1>1. /\ pong_age \in Nat /\ ping_age \in Nat /\ ping_age <= KEEPALIVE
      /\ KEEPALIVE + DELAY <= PONG_TIMEOUT
  BY DEF Types, ClockType, InTime
<1>2. CASE pong_age <= ping_age
  BY <1>1, <1>2 DEF PongOverdue
<1>3. CASE PongOnWire
  <2>1. PICK f \in wire : pong_age <= KEEPALIVE + f.age
    BY <1>3 DEF PongOnWire
  <2>2. f.age \in 0 .. DELAY
    BY DEF Types, NetworkType, Flight
  <2> QED BY <1>1, <2>1, <2>2 DEF PongOverdue
<1>4. CASE PongInSocket
  BY <1>1, <1>4 DEF PongInSocket, PongOverdue
<1> QED BY <1>2, <1>3, <1>4 DEF Fresh

LEMMA AliveInit == Init => Alive
  BY DEF Init, Alive, PingInTime

(* Out of the loop nothing is claimed. *)
LEMMA AwayAlive ==
  ASSUME Alive, UNCHANGED <<lossy, lost>>, pc' \notin {"tun", "loop", "select"}
  PROVE  Alive'
  BY DEF Alive, InTime, PingInTime

LEMMA SameAlive ==
  ASSUME Alive, UNCHANGED <<pc, ping_age, pong_age, timer, inbox, wire, lossy, lost>>
  PROVE  Alive'
  BY DEF Alive, InTime, PingInTime, Fresh, PongOnWire, PongInSocket

LEMMA ConnectingAlive ==
  ASSUME Types, Alive, Connecting
  PROVE  Alive'
<1> USE Settings
<1>1. CASE SendConnect \/ SendConnectFails \/ RespFails \/ TunFails
  <2>1. UNCHANGED <<lossy, lost>> /\ pc' \in {"await", "exited"}
    BY <1>1 DEF SendConnect, SendConnectFails, RespFails, TunFails, Exit
  <2> QED BY <2>1, AwayAlive
<1>2. CASE RespAccepted
  <2>1. /\ UNCHANGED <<lossy, lost>> /\ ping_age' = 0 /\ pong_age' = 0
        /\ timer' = 1 /\ pc' \in {"tun", "select"}
    BY <1>2 DEF RespAccepted
  <2> QED BY <2>1 DEF Alive, InTime, PingInTime, Fresh
<1>3. CASE TunUp
  <2>1. /\ UNCHANGED <<lossy, lost, ping_age, pong_age, inbox, wire>>
        /\ pc = "tun" /\ timer = 0 /\ pc' = "loop"
    BY <1>3 DEF TunUp, network
  <2>2. Fresh' <=> Fresh
    BY <2>1 DEF Fresh, PongOnWire, PongInSocket
  <2>3. ping_age \in Nat
    BY DEF Types, ClockType
  <2> QED BY <2>1, <2>2, <2>3 DEF Alive, InTime, PingInTime
<1> QED BY <1>1, <1>2, <1>3 DEF Connecting

(* One iteration: a PING that is due is sent, one datagram is read. *)
LEMMA IterateAlive ==
  ASSUME Types, Alive, Iterate, InTime
  PROVE  PingInTime' /\ Fresh'
<1> USE Settings
<1>1. /\ pc = "select" /\ pc' = "loop" /\ ~lossy /\ Fresh
      /\ pong_age \in Nat /\ ping_age \in 0 .. KEEPALIVE /\ KEEPALIVE \in Nat \ {0}
  BY DEF Iterate, Alive, InTime, Types, ClockType
<1>2. \/ ping_age < KEEPALIVE /\ UNCHANGED <<ping_age, wire>>
      \/ /\ ping_age = KEEPALIVE /\ ping_age' = 0
         /\ wire' = wire \cup {Sent([type |-> "PONG"])}
  BY <1>1 DEF Iterate, MaybePing, PingAnswers
<1>3. PingInTime'
  BY <1>1, <1>2 DEF PingInTime
<1>4. \/ UNCHANGED <<inbox, pong_age>>
      \/ inbox # << >> /\ pong_age' = 0
      \/ /\ inbox # << >> /\ inbox' = Tail(inbox) /\ pong_age' = pong_age
         /\ Head(inbox).type # "PONG"
  BY DEF Iterate, ReadOne
<1> SUFFICES Fresh'
  BY <1>3
<1>5. wire \subseteq wire'
  BY <1>2
<1>6. CASE pong_age' = 0
  BY <1>1, <1>2, <1>6 DEF Fresh
<1>7. CASE pong_age' = pong_age /\ pong_age <= ping_age
  <2>1. CASE ping_age' = ping_age
    BY <1>7, <2>1 DEF Fresh
  <2>2. CASE /\ ping_age = KEEPALIVE
             /\ wire' = wire \cup {Sent([type |-> "PONG"])}
    <3>1. /\ Sent([type |-> "PONG"]) \in wire'
          /\ Sent([type |-> "PONG"]).packet.type = "PONG"
          /\ Sent([type |-> "PONG"]).age = 0
      BY <2>2 DEF Sent
    <3>2. pong_age' <= KEEPALIVE + 0
      BY <1>1, <1>7, <2>2
    <3>3. PongOnWire'
      BY <3>1, <3>2 DEF PongOnWire
    <3> QED BY <3>3 DEF Fresh
  <2> QED BY <1>2, <2>1, <2>2
<1>8. CASE pong_age' = pong_age /\ PongOnWire
  <2>1. PongOnWire'
    BY <1>5, <1>8 DEF PongOnWire
  <2> QED BY <2>1 DEF Fresh
<1>9. CASE pong_age' = pong_age /\ PongInSocket
  <2>1. PICK i \in 1 .. Len(inbox) : inbox[i].type = "PONG"
    BY <1>9 DEF PongInSocket
  <2>2. CASE inbox' = inbox
    BY <1>9, <2>2 DEF Fresh, PongInSocket
  <2>3. CASE inbox # << >> /\ inbox' = Tail(inbox) /\ Head(inbox).type # "PONG"
    <3>1. inbox \in Seq(Packet)
      BY DEF Types, NetworkType
    <3>2. i # 1
      BY <2>1, <2>3, <3>1
    <3>3. i - 1 \in 1 .. Len(Tail(inbox)) /\ Tail(inbox)[i - 1] = inbox[i]
      BY <2>1, <2>3, <3>1, <3>2
    <3>4. PongInSocket'
      BY <1>9, <2>1, <2>3, <3>3 DEF PongInSocket
    <3> QED BY <3>4 DEF Fresh
  <2>4. CASE pong_age' = 0
    BY <1>6, <2>4
  <2> QED BY <1>4, <2>2, <2>3, <2>4
<1> QED BY <1>1, <1>4, <1>6, <1>7, <1>8, <1>9 DEF Fresh

LEMMA LoopAlive ==
  ASSUME Types, Alive, Loop
  PROVE  Alive'
<1> USE Settings
<1>1. CASE LoopEnds \/ GiveUp \/ BeginReconnect
  <2>1. UNCHANGED <<lossy, lost>> /\ pc' \in {"exited", "sleep"}
    BY <1>1 DEF LoopEnds, GiveUp, BeginReconnect, Exit, network
  <2> QED BY <2>1, AwayAlive
<1>2. CASE EnterSelect
  <2>1. /\ UNCHANGED <<lossy, lost, ping_age, pong_age, inbox, wire>>
        /\ pc = "loop" /\ timer' = 1 /\ pc' = "select"
    BY <1>2 DEF EnterSelect, network
  <2>2. Fresh' <=> Fresh
    BY <2>1 DEF Fresh, PongOnWire, PongInSocket
  <2>3. ping_age \in Nat
    BY DEF Types, ClockType
  <2> QED BY <2>1, <2>2, <2>3 DEF Alive, InTime, PingInTime
<1>3. CASE ConnectionLost
  <2>1. pc = "select" /\ PongOverdue /\ lossy' = lossy
    BY <1>3 DEF ConnectionLost, network
  <2>2. ~InTime
    BY <2>1, FreshNotOverdue DEF Alive
  <2> QED BY <2>1, <2>2 DEF Alive, InTime
<1>4. CASE Iterate
  <2>1. UNCHANGED <<lossy, lost>>
    BY <1>4 DEF Iterate
  <2> QED BY <1>4, <2>1, IterateAlive DEF Alive, InTime
<1> QED BY <1>1, <1>2, <1>3, <1>4 DEF Loop

(* What arrives is in the socket instead of under way. *)
LEMMA ArriveFresh ==
  ASSUME Types, InTime, Fresh, ArriveAnswer
  PROVE  Fresh'
<1> USE Settings
<1>1. PICK f \in wire :
        /\ wire' = wire \ {f}
        /\ IF Len(inbox) < INBOX THEN inbox' = Append(inbox, f.packet)
                                 ELSE lossy /\ UNCHANGED inbox
  BY DEF ArriveAnswer
<1>2. /\ inbox' = Append(inbox, f.packet) /\ UNCHANGED <<ping_age, pong_age>>
      /\ inbox \in Seq(Packet) /\ f \in Flight /\ pong_age \in Nat
  BY <1>1 DEF ArriveAnswer, InTime, Types, NetworkType, ClockType
<1>3. f.packet \in Packet /\ f.age \in 0 .. DELAY
  BY <1>2 DEF Flight
<1>4. /\ Len(inbox') = Len(inbox) + 1 /\ Len(inbox) \in Nat
      /\ \A i \in 1 .. Len(inbox) : inbox'[i] = inbox[i]
      /\ inbox'[Len(inbox) + 1] = f.packet
  BY <1>2, <1>3
<1>5. CASE pong_age <= ping_age
  BY <1>2, <1>5 DEF Fresh
<1>6. CASE PongOnWire
  <2>1. PICK g \in wire : g.packet.type = "PONG" /\ pong_age <= KEEPALIVE + g.age
    BY <1>6 DEF PongOnWire
  <2>2. CASE g = f
    <3>1. pong_age <= KEEPALIVE + DELAY
      <4>1. \A a, k, x, d \in Nat : a <= k + x /\ x <= d => a <= k + d
        OBVIOUS
      <4>2. f.age \in Nat /\ f.age <= DELAY /\ pong_age <= KEEPALIVE + f.age
        BY <1>3, <2>1, <2>2
      <4> QED BY <1>2, <4>1, <4>2
    <3>2. PongInSocket'
      BY <1>2, <1>4, <2>1, <2>2, <3>1 DEF PongInSocket
    <3> QED BY <3>2 DEF Fresh
  <2>3. CASE g # f
    <3>1. PongOnWire'
      BY <1>1, <1>2, <2>1, <2>3 DEF PongOnWire
    <3> QED BY <3>1 DEF Fresh
  <2> QED BY <2>2, <2>3
<1>7. CASE PongInSocket
  <2>1. PongInSocket'
    BY <1>2, <1>4, <1>7 DEF PongInSocket
  <2> QED BY <2>1 DEF Fresh
<1> QED BY <1>5, <1>6, <1>7 DEF Fresh

LEMMA DataFresh ==
  ASSUME Types, Fresh, ArriveData
  PROVE  Fresh'
<1>1. /\ inbox' = Append(inbox, [type |-> "DATA"]) /\ UNCHANGED <<ping_age, pong_age, wire>>
      /\ inbox \in Seq(Packet) /\ [type |-> "DATA"] \in Packet
  BY DEF ArriveData, Types, NetworkType, Packet
<1>2. /\ Len(inbox') = Len(inbox) + 1 /\ Len(inbox) \in Nat
      /\ \A i \in 1 .. Len(inbox) : inbox'[i] = inbox[i]
  BY <1>1
<1>3. PongInSocket => PongInSocket'
  BY <1>1, <1>2 DEF PongInSocket
<1>4. PongOnWire => PongOnWire'
  BY <1>1 DEF PongOnWire
<1> QED BY <1>1, <1>3, <1>4 DEF Fresh

(* Time passes for the client and for what is under way; while a PONG      *)
(* waits in the socket select() does not wait.                             *)
LEMMA TickFresh ==
  ASSUME Types, Alive, InTime, Tick, pc \in {"tun", "select"}
  PROVE  PingInTime' /\ Fresh'
<1> USE Settings
<1>1. /\ pc' = pc /\ timer > 0 /\ timer' = timer - 1 /\ timer \in Nat
      /\ ping_age \in Nat /\ pong_age \in Nat /\ KEEPALIVE \in Nat
      /\ pc = "select" => inbox = << >>
  BY LargestTimer DEF Tick, Blocked, Types, ClockType
<1>2. /\ ping_age + timer <= KEEPALIVE
      /\ pc = "tun" => ping_age + timer <= 1 /\ pong_age <= ping_age
  BY <1>1 DEF Alive, PingInTime, InTime
<1>3. ping_age' = ping_age + 1
  <2>1. ping_age + 1 <= KEEPALIVE
    BY <1>1, <1>2
  <2>2. \A a, b \in Nat : a <= b => Smallest(a, b) = a
    BY DEF Smallest
  <2>3. ping_age + 1 \in Nat
    BY <1>1
  <2>4. ping_age' = Smallest(ping_age + 1, KEEPALIVE)
    BY Zenon DEF Tick
  <2> QED BY <2>1, <2>2, <2>3, <2>4
<1>4. pong_age' \in Nat /\ pong_age' <= pong_age + 1
  <2>1. pong_age + 1 \in Nat /\ PONG_TIMEOUT + 2 \in Nat
    BY <1>1
  <2> QED BY <2>1, SmallestNat DEF Tick
<1>5. PingInTime'
  BY <1>1, <1>2, <1>3, <1>4 DEF PingInTime
<1> SUFFICES Fresh'
  BY <1>5
<1>6. CASE pong_age <= ping_age
  BY <1>1, <1>3, <1>4, <1>6 DEF Fresh
<1>7. CASE PongOnWire
  <2>1. PICK f \in wire : f.packet.type = "PONG" /\ pong_age <= KEEPALIVE + f.age
    BY <1>7 DEF PongOnWire
  <2>2. f.age \in Nat
    BY DEF Types, NetworkType, Flight
  <2>3. PICK g \in wire' : g.age = f.age + 1 /\ g.packet = f.packet
    <3>1. [f EXCEPT !.age = @ + 1] \in wire'
      BY DEF Tick
    <3> QED BY <3>1, Aged
  <2>4. pong_age' <= KEEPALIVE + g.age
    <3>1. \A a, b, k, x \in Nat : a <= k + x /\ b <= a + 1 => b <= k + (x + 1)
      OBVIOUS
    <3> QED BY <1>1, <1>4, <2>1, <2>2, <2>3, <3>1
  <2>5. PongOnWire'
    BY <2>1, <2>3, <2>4 DEF PongOnWire
  <2> QED BY <2>5 DEF Fresh
<1>8. CASE PongInSocket
  <2>1. inbox # << >>
    BY <1>8 DEF PongInSocket
  <2> QED BY <1>1, <1>2, <1>6, <2>1
<1> QED BY <1>6, <1>7, <1>8 DEF Alive, Fresh

LEMMA EnvironmentAlive ==
  ASSUME Types, Alive, Signal \/ ArriveAnswer \/ ArriveData \/ Tick
  PROVE  Alive'
<1> USE Settings
<1>1. CASE Signal
  <2>1. UNCHANGED <<ping_age, pong_age, lossy, lost>>
    BY <1>1 DEF Signal, network
  <2>2. CASE pc' = "exited"
    BY <2>1, <2>2, AwayAlive
  <2>3. CASE UNCHANGED <<pc, timer, network>>
    BY <2>1, <2>3, SameAlive DEF network
  <2>4. CASE pc \in {"start", "sleep", "tun"} /\ timer' = 0 /\ UNCHANGED <<pc, network>>
    <3>1. CASE pc = "tun"
      <4>1. ping_age \in Nat /\ timer \in Nat
        BY LargestTimer DEF Types, ClockType
      <4>2. PingInTime => PingInTime'
        BY <2>1, <2>4, <3>1, <4>1 DEF PingInTime
      <4>3. Fresh' <=> Fresh
        BY <2>1, <2>4 DEF network, Fresh, PongOnWire, PongInSocket
      <4> QED BY <2>1, <2>4, <4>2, <4>3 DEF Alive, InTime
    <3>2. CASE pc # "tun"
      BY <2>1, <2>4, <3>2, AwayAlive
    <3> QED BY <3>1, <3>2
  <2> QED BY <1>1, <2>2, <2>3, <2>4 DEF Signal
<1>2. CASE ArriveAnswer
  <2>1. UNCHANGED <<pc, ping_age, pong_age, timer, lossy, lost>>
    BY <1>2 DEF ArriveAnswer
  <2> QED BY <1>2, <2>1, ArriveFresh DEF Alive, InTime, PingInTime
<1>3. CASE ArriveData
  <2>1. UNCHANGED <<pc, ping_age, pong_age, timer, lossy, lost>>
    BY <1>3 DEF ArriveData
  <2> QED BY <1>3, <2>1, DataFresh DEF Alive, InTime, PingInTime
<1>4. CASE Tick
  <2>1. UNCHANGED <<pc, lossy, lost>> /\ pc # "loop"
    BY <1>4 DEF Tick, Blocked
  <2>2. CASE pc \in {"tun", "select"}
    BY <1>4, <2>1, <2>2, TickFresh DEF Alive, InTime
  <2>3. CASE pc \notin {"tun", "select"}
    BY <2>1, <2>3, AwayAlive
  <2> QED BY <2>2, <2>3
<1> QED BY <1>1, <1>2, <1>3, <1>4

(* If PINGs are answered within DELAY and pong_timeout leaves room for an  *)
(* interval and that delay, check_keepalive never gives a connection up,   *)
(* whatever the intervals, the traffic and the order of arrival.           *)
THEOREM LiveNotGivenUp == Spec => []NoFalseAlarm
<1>1. Types /\ Alive /\ [Next]_vars => Alive'
  <2> SUFFICES ASSUME Types, Alive, [Next]_vars PROVE Alive'
    OBVIOUS
  <2>1. CASE Next
    BY <2>1, ConnectingAlive, LoopAlive, EnvironmentAlive DEF Next
  <2>2. CASE UNCHANGED vars
    BY <2>2, SameAlive DEF vars, network
  <2> QED BY <2>1, <2>2
<1>2. Alive => NoFalseAlarm
  BY DEF Alive, InTime, NoFalseAlarm
<1> QED BY <1>1, <1>2, AliveInit, TypesInvariance, PTL DEF Spec

=============================================================================
