------------------------ MODULE EnclaveProcessProofs ------------------------
(***************************************************************************)
(* Proofs about EnclaveProcess: the IPC calls implement EnclaveService,    *)
(* how the two processes end, and the types of their variables.            *)
(***************************************************************************)
EXTENDS EnclaveProcess, TLAPS

(* The call the server is busy with, and what of it is on the stream: the  *)
(* request, its answer, or nothing because the enclave has ended.          *)
Requested == to_enclave = <<call>> /\ to_server = <<>> /\ km = km0

Answered ==
  /\ to_enclave = <<>>
  /\ to_server = <<Answer(km0, call)>>
  /\ enc \in Serving => km = KeysAfter(km0, call)

Lost == to_enclave = <<>> /\ to_server = <<>> /\ conn = "reset"

Lockstep ==
  /\ server \in {"send", "wait"} => call \in Request
  /\ server \notin {"send", "wait", "sigpipe", "killed"} => call = NoCall
  /\ server \notin {"wait", "killed"} => to_enclave = <<>>
  /\ server # "wait" => to_server = <<>>
  /\ server = "send" /\ enc \in Serving => km = km0
  /\ server = "wait" => \/ Requested /\ conn # "reset"
                        \/ Answered
                        \/ Lost

(* The enclave's end of the connection goes with its control state. *)
Connection ==
  /\ enc \in EnclaveStates
  /\ enc \in {"none", "boot"} => conn = "none"
  /\ enc = "listen" => conn \in {"none", "backlog"}
  /\ enc \in {"serve", "handle"} => conn = "accepted"
  /\ enc \in {"zombie", "reaped"} => conn \in {"none", "reset"}
  /\ enc \notin Serving => km = NoKeys
  /\ call # NoCall \/ "enclave" \in open => conn # "none"

(* What the server process holds at each point of main. *)
AllOpen == {"enclave", "tun", "udp"}
Descriptors ==
  /\ server \in ServerStates
  /\ server \in {"start", "connect", "stopped", "failed", "sigpipe", "killed"}
       => open = {}
  /\ server \in {"send", "wait"}
       => open = IF call = PING THEN {"enclave"} ELSE AllOpen
  /\ server = "tun" => open = {"enclave"}
  /\ server \in {"tun_ip", "tun_up", "udp"} => open = {"enclave", "tun"}
  /\ server \in {"table", "loop", "tun_packet"} => open = AllOpen
  /\ server \in {"stop", "grace"}
       => open = IF status = 0 THEN {"tun", "udp"} ELSE {}
  /\ server \notin {"stop", "grace", "stopped", "failed", "sigpipe", "killed"}
       => status = 0
  /\ server = "start" => enc = "none"
  /\ enc = "none" => server \in {"start", "failed", "killed"}
  /\ enc = "reaped" => server \in Ended
  /\ server \in {"stopped", "failed", "sigpipe"} => enc \in {"none", "reaped"}

(* Without a disturbance the enclave's flag falls only when the server has *)
(* asked for it, and only then the enclave ends.                           *)
Order ==
  ~disturbed =>
    /\ server \notin {"sigpipe", "killed"}
    /\ ~enclave_running =>
         \/ server \in {"stop", "grace", "stopped", "failed"}
         \/ server = "wait" /\ call = SHUTDOWN /\ to_server # <<>>
    /\ conn = "reset" => ~enclave_running \/ server \in {"stopped", "failed"}

IInv == Lockstep /\ Connection /\ Descriptors /\ Order

-----------------------------------------------------------------------------
LEMMA NoCallIsNoRequest == NoCall \notin Request
BY DEF NoCall, Request, HandlerRequest, PING, SHUTDOWN

LEMMA RequestsKnown ==
  /\ PING \in Request /\ SHUTDOWN \in Request /\ PING # SHUTDOWN
  /\ HandlerRequest \subseteq Request
  /\ PING \notin HandlerRequest /\ SHUTDOWN \notin HandlerRequest
  /\ \A ip \in Ip : [command |-> "ENCRYPT", vpn_ip |-> ip] \in HandlerRequest
BY DEF Request, HandlerRequest, PING, SHUTDOWN

(* The stream with one message. *)
LEMMA OneMessage ==
  ASSUME NEW x
  PROVE  /\ Head(<<x>>) = x /\ Tail(<<x>>) = <<>>
         /\ Append(<<>>, x) = <<x>> /\ <<x>> # <<>>
OBVIOUS

USE DEF serverVars, enclaveVars, ipcVars, Serving, Alive, EnclaveStates,
        ServerStates, Setup, Ended, AllOpen

LEMMA InitInv == Init => IInv
BY DEF Init, IInv, Lockstep, Connection, Descriptors, Order, NoCall

(* The steps of the enclave. *)
LEMMA BootsInv ==
  ASSUME IInv, EnclaveBoots
  PROVE  IInv'
<1>1. Lockstep'
  BY NoCallIsNoRequest, RequestsKnown
  DEF IInv, Lockstep, Connection, Descriptors, Requested, Answered, Lost,
      EnclaveBoots
<1>2. Connection'
  BY NoCallIsNoRequest, RequestsKnown
  DEF IInv, Lockstep, Connection, Descriptors,
      EnclaveBoots
<1>3. Descriptors'
  BY NoCallIsNoRequest, RequestsKnown
  DEF IInv, Lockstep, Connection, Descriptors,
      EnclaveBoots
<1>4. Order'
  BY NoCallIsNoRequest, RequestsKnown
  DEF IInv, Lockstep, Connection, Descriptors, Order, Requested, Answered,
      Lost, EnclaveBoots
<1> QED BY <1>1, <1>2, <1>3, <1>4 DEF IInv

LEMMA BootFailsInv ==
  ASSUME IInv, EnclaveBootFails
  PROVE  IInv'
<1>1. Lockstep'
  BY NoCallIsNoRequest, RequestsKnown
  DEF IInv, Lockstep, Connection, Descriptors, Requested, Answered, Lost,
      EnclaveBootFails, Gone
<1>2. Connection'
  BY NoCallIsNoRequest, RequestsKnown
  DEF IInv, Lockstep, Connection, Descriptors,
      EnclaveBootFails, Gone
<1>3. Descriptors'
  BY NoCallIsNoRequest, RequestsKnown
  DEF IInv, Lockstep, Connection, Descriptors,
      EnclaveBootFails, Gone
<1>4. Order'
  BY NoCallIsNoRequest, RequestsKnown
  DEF IInv, Lockstep, Connection, Descriptors, Order, Requested, Answered,
      Lost, EnclaveBootFails, Gone
<1> QED BY <1>1, <1>2, <1>3, <1>4 DEF IInv

LEMMA AcceptInv ==
  ASSUME IInv, Accept
  PROVE  IInv'
<1>1. Lockstep'
  BY NoCallIsNoRequest, RequestsKnown
  DEF IInv, Lockstep, Connection, Descriptors, Requested, Answered, Lost,
      Accept
<1>2. Connection'
  BY NoCallIsNoRequest, RequestsKnown
  DEF IInv, Lockstep, Connection, Descriptors,
      Accept
<1>3. Descriptors'
  BY NoCallIsNoRequest, RequestsKnown
  DEF IInv, Lockstep, Connection, Descriptors,
      Accept
<1>4. Order'
  BY NoCallIsNoRequest, RequestsKnown
  DEF IInv, Lockstep, Connection, Descriptors, Order, Requested, Answered,
      Lost, Accept
<1> QED BY <1>1, <1>2, <1>3, <1>4 DEF IInv

LEMMA SelectInv ==
  ASSUME IInv, Select
  PROVE  IInv'
<1>1. Lockstep'
  BY NoCallIsNoRequest, RequestsKnown
  DEF IInv, Lockstep, Connection, Descriptors, Requested, Answered, Lost,
      Select
<1>2. Connection'
  BY NoCallIsNoRequest, RequestsKnown
  DEF IInv, Lockstep, Connection, Descriptors,
      Select
<1>3. Descriptors'
  BY NoCallIsNoRequest, RequestsKnown
  DEF IInv, Lockstep, Connection, Descriptors,
      Select
<1>4. Order'
  BY NoCallIsNoRequest, RequestsKnown
  DEF IInv, Lockstep, Connection, Descriptors, Order, Requested, Answered,
      Lost, Select
<1> QED BY <1>1, <1>2, <1>3, <1>4 DEF IInv

LEMMA HandleEofInv ==
  ASSUME IInv, HandleEof
  PROVE  IInv'
<1>1. Lockstep'
  BY NoCallIsNoRequest, RequestsKnown
  DEF IInv, Lockstep, Connection, Descriptors, Requested, Answered, Lost,
      HandleEof
<1>2. Connection'
  BY NoCallIsNoRequest, RequestsKnown
  DEF IInv, Lockstep, Connection, Descriptors,
      HandleEof
<1>3. Descriptors'
  BY NoCallIsNoRequest, RequestsKnown
  DEF IInv, Lockstep, Connection, Descriptors,
      HandleEof
<1>4. Order'
  BY NoCallIsNoRequest, RequestsKnown
  DEF IInv, Lockstep, Connection, Descriptors, Order, Requested, Answered,
      Lost, HandleEof
<1> QED BY <1>1, <1>2, <1>3, <1>4 DEF IInv

LEMMA HandleInv ==
  ASSUME IInv, handle_ipc_request
  PROVE  IInv'
<1>1. Lockstep'
  BY NoCallIsNoRequest, RequestsKnown, OneMessage
  DEF IInv, Lockstep, Connection, Descriptors, Requested, Answered, Lost,
      handle_ipc_request, Gone
<1>2. Connection'
  BY NoCallIsNoRequest, RequestsKnown, OneMessage
  DEF IInv, Lockstep, Connection, Descriptors,
      handle_ipc_request, Gone
<1>3. Descriptors'
  BY NoCallIsNoRequest, RequestsKnown, OneMessage
  DEF IInv, Lockstep, Connection, Descriptors,
      handle_ipc_request, Gone
<1>4. Order'
  BY NoCallIsNoRequest, RequestsKnown, OneMessage
  DEF IInv, Lockstep, Connection, Descriptors, Order, Requested, Answered,
      Lost, handle_ipc_request, Gone
<1> QED BY <1>1, <1>2, <1>3, <1>4 DEF IInv

LEMMA ReturnsInv ==
  ASSUME IInv, EnclaveReturns
  PROVE  IInv'
<1>1. Lockstep'
  BY NoCallIsNoRequest, RequestsKnown
  DEF IInv, Lockstep, Connection, Descriptors, Requested, Answered, Lost,
      EnclaveReturns, Gone
<1>2. Connection'
  BY NoCallIsNoRequest, RequestsKnown
  DEF IInv, Lockstep, Connection, Descriptors,
      EnclaveReturns, Gone
<1>3. Descriptors'
  BY NoCallIsNoRequest, RequestsKnown
  DEF IInv, Lockstep, Connection, Descriptors,
      EnclaveReturns, Gone
<1>4. Order'
  BY NoCallIsNoRequest, RequestsKnown
  DEF IInv, Lockstep, Connection, Descriptors, Order, Requested, Answered,
      Lost, EnclaveReturns, Gone
<1> QED BY <1>1, <1>2, <1>3, <1>4 DEF IInv

-----------------------------------------------------------------------------
(* The steps of the server. *)
LEMMA ForkInv ==
  ASSUME NEW ok \in BOOLEAN, IInv, Fork(ok)
  PROVE  IInv'
<1>1. Lockstep'
  BY
  DEF IInv, Lockstep, Connection, Descriptors, Requested, Answered, Lost,
      Fork
<1>2. Connection'
  BY
  DEF IInv, Lockstep, Connection, Descriptors,
      Fork
<1>3. Descriptors'
  BY
  DEF IInv, Lockstep, Connection, Descriptors,
      Fork
<1>4. Order'
  BY
  DEF IInv, Lockstep, Connection, Descriptors, Order, Requested, Answered,
      Lost, Fork
<1> QED BY <1>1, <1>2, <1>3, <1>4 DEF IInv

LEMMA ConnectInv ==
  ASSUME NEW ok \in BOOLEAN, IInv, Connect(ok)
  PROVE  IInv'
<1>1. Lockstep'
  BY NoCallIsNoRequest, RequestsKnown
  DEF IInv, Lockstep, Connection, Descriptors, Requested, Answered, Lost,
      Connect, Begin, GiveUp
<1>2. Connection'
  BY NoCallIsNoRequest, RequestsKnown
  DEF IInv, Lockstep, Connection, Descriptors,
      Connect, Begin, GiveUp
<1>3. Descriptors'
  BY NoCallIsNoRequest, RequestsKnown
  DEF IInv, Lockstep, Connection, Descriptors,
      Connect, Begin, GiveUp
<1>4. Order'
  BY NoCallIsNoRequest, RequestsKnown
  DEF IInv, Lockstep, Connection, Descriptors, Order, Requested, Answered,
      Lost, Connect, Begin, GiveUp
<1> QED BY <1>1, <1>2, <1>3, <1>4 DEF IInv

LEMMA SendInv ==
  ASSUME IInv, Send
  PROVE  IInv'
<1>1. Lockstep'
  BY NoCallIsNoRequest, RequestsKnown
  DEF IInv, Lockstep, Connection, Descriptors, Requested, Answered, Lost,
      Send
<1>2. Connection'
  BY NoCallIsNoRequest, RequestsKnown
  DEF IInv, Lockstep, Connection, Descriptors,
      Send
<1>3. Descriptors'
  BY NoCallIsNoRequest, RequestsKnown
  DEF IInv, Lockstep, Connection, Descriptors,
      Send
<1>4. Order'
  BY NoCallIsNoRequest, RequestsKnown
  DEF IInv, Lockstep, Connection, Descriptors, Order, Requested, Answered,
      Lost, Send
<1> QED BY <1>1, <1>2, <1>3, <1>4 DEF IInv

LEMMA ReceiveInv ==
  ASSUME IInv, Receive
  PROVE  IInv'
<1>1. Lockstep'
  BY NoCallIsNoRequest, RequestsKnown, OneMessage
  DEF IInv, Lockstep, Connection, Descriptors, Requested, Answered, Lost,
      Receive, Continue, GiveUp
<1>2. Connection'
  BY NoCallIsNoRequest, RequestsKnown, OneMessage
  DEF IInv, Lockstep, Connection, Descriptors,
      Receive, Continue, GiveUp
<1>3. Descriptors'
  BY NoCallIsNoRequest, RequestsKnown, OneMessage
  DEF IInv, Lockstep, Connection, Descriptors,
      Receive, Continue, GiveUp
<1>4. Order'
  BY NoCallIsNoRequest, RequestsKnown, OneMessage
  DEF IInv, Lockstep, Connection, Descriptors, Order, Requested, Answered,
      Lost, Receive, Continue, GiveUp
<1> QED BY <1>1, <1>2, <1>3, <1>4 DEF IInv

LEMMA ReceiveFailsInv ==
  ASSUME IInv, ReceiveFails
  PROVE  IInv'
<1>1. Lockstep'
  BY NoCallIsNoRequest, RequestsKnown
  DEF IInv, Lockstep, Connection, Descriptors, Requested, Answered, Lost,
      ReceiveFails, Continue, GiveUp
<1>2. Connection'
  BY NoCallIsNoRequest, RequestsKnown
  DEF IInv, Lockstep, Connection, Descriptors,
      ReceiveFails, Continue, GiveUp
<1>3. Descriptors'
  BY NoCallIsNoRequest, RequestsKnown
  DEF IInv, Lockstep, Connection, Descriptors,
      ReceiveFails, Continue, GiveUp
<1>4. Order'
  BY NoCallIsNoRequest, RequestsKnown
  DEF IInv, Lockstep, Connection, Descriptors, Order, Requested, Answered,
      Lost, ReceiveFails, Continue, GiveUp
<1> QED BY <1>1, <1>2, <1>3, <1>4 DEF IInv

LEMMA SetupInv ==
  ASSUME NEW ok \in BOOLEAN, IInv, SetupStage(ok)
  PROVE  IInv'
<1>1. Lockstep'
  BY
  DEF IInv, Lockstep, Connection, Descriptors, Requested, Answered, Lost,
      SetupStage, Stage, GiveUp, create_tun_interface, create_udp_server
<1>2. Connection'
  BY
  DEF IInv, Lockstep, Connection, Descriptors,
      SetupStage, Stage, GiveUp, create_tun_interface, create_udp_server
<1>3. Descriptors'
  BY
  DEF IInv, Lockstep, Connection, Descriptors,
      SetupStage, Stage, GiveUp, create_tun_interface, create_udp_server
<1>4. Order'
  BY
  DEF IInv, Lockstep, Connection, Descriptors, Order, Requested, Answered,
      Lost, SetupStage, Stage, GiveUp, create_tun_interface, create_udp_server
<1> QED BY <1>1, <1>2, <1>3, <1>4 DEF IInv

LEMMA HandlerInv ==
  ASSUME NEW r \in HandlerRequest, IInv, Handler(r)
  PROVE  IInv'
<1>1. Lockstep'
  BY NoCallIsNoRequest, RequestsKnown
  DEF IInv, Lockstep, Connection, Descriptors, Requested, Answered, Lost,
      Handler, Begin
<1>2. Connection'
  BY NoCallIsNoRequest, RequestsKnown
  DEF IInv, Lockstep, Connection, Descriptors,
      Handler, Begin
<1>3. Descriptors'
  BY NoCallIsNoRequest, RequestsKnown
  DEF IInv, Lockstep, Connection, Descriptors,
      Handler, Begin
<1>4. Order'
  BY NoCallIsNoRequest, RequestsKnown
  DEF IInv, Lockstep, Connection, Descriptors, Order, Requested, Answered,
      Lost, Handler, Begin
<1> QED BY <1>1, <1>2, <1>3, <1>4 DEF IInv

LEMMA TunHandlerInv ==
  ASSUME NEW ip \in Ip, IInv, TunHandler(ip)
  PROVE  IInv'
<1>1. Lockstep'
  BY NoCallIsNoRequest, RequestsKnown
  DEF IInv, Lockstep, Connection, Descriptors, Requested, Answered, Lost,
      TunHandler, Begin
<1>2. Connection'
  BY NoCallIsNoRequest, RequestsKnown
  DEF IInv, Lockstep, Connection, Descriptors,
      TunHandler, Begin
<1>3. Descriptors'
  BY NoCallIsNoRequest, RequestsKnown
  DEF IInv, Lockstep, Connection, Descriptors,
      TunHandler, Begin
<1>4. Order'
  BY NoCallIsNoRequest, RequestsKnown
  DEF IInv, Lockstep, Connection, Descriptors, Order, Requested, Answered,
      Lost, TunHandler, Begin
<1> QED BY <1>1, <1>2, <1>3, <1>4 DEF IInv

LEMMA LeaveLoopInv ==
  ASSUME IInv, LeaveLoop
  PROVE  IInv'
<1>1. Lockstep'
  BY NoCallIsNoRequest, RequestsKnown
  DEF IInv, Lockstep, Connection, Descriptors, Requested, Answered, Lost,
      LeaveLoop, Begin
<1>2. Connection'
  BY NoCallIsNoRequest, RequestsKnown
  DEF IInv, Lockstep, Connection, Descriptors,
      LeaveLoop, Begin
<1>3. Descriptors'
  BY NoCallIsNoRequest, RequestsKnown
  DEF IInv, Lockstep, Connection, Descriptors,
      LeaveLoop, Begin
<1>4. Order'
  BY NoCallIsNoRequest, RequestsKnown
  DEF IInv, Lockstep, Connection, Descriptors, Order, Requested, Answered,
      Lost, LeaveLoop, Begin
<1> QED BY <1>1, <1>2, <1>3, <1>4 DEF IInv

LEMMA StopInv ==
  ASSUME IInv, stop_enclave_process
  PROVE  IInv'
<1>1. Lockstep'
  BY
  DEF IInv, Lockstep, Connection, Descriptors, Requested, Answered, Lost,
      stop_enclave_process, Interrupt, Collect, Gone
<1>2. Connection'
  BY
  DEF IInv, Lockstep, Connection, Descriptors,
      stop_enclave_process, Interrupt, Collect, Gone
<1>3. Descriptors'
  BY
  DEF IInv, Lockstep, Connection, Descriptors,
      stop_enclave_process, Interrupt, Collect, Gone
<1>4. Order'
  BY
  DEF IInv, Lockstep, Connection, Descriptors, Order, Requested, Answered,
      Lost, stop_enclave_process, Interrupt, Collect, Gone
<1> QED BY <1>1, <1>2, <1>3, <1>4 DEF IInv

LEMMA EndOfGraceInv ==
  ASSUME IInv, EndOfGrace
  PROVE  IInv'
<1>1. Lockstep'
  BY
  DEF IInv, Lockstep, Connection, Descriptors, Requested, Answered, Lost,
      EndOfGrace, Collect
<1>2. Connection'
  BY
  DEF IInv, Lockstep, Connection, Descriptors,
      EndOfGrace, Collect
<1>3. Descriptors'
  BY
  DEF IInv, Lockstep, Connection, Descriptors,
      EndOfGrace, Collect
<1>4. Order'
  BY
  DEF IInv, Lockstep, Connection, Descriptors, Order, Requested, Answered,
      Lost, EndOfGrace, Collect
<1> QED BY <1>1, <1>2, <1>3, <1>4 DEF IInv

-----------------------------------------------------------------------------
(* Signals and crashes. *)
LEMMA TermInv ==
  ASSUME IInv, Term
  PROVE  IInv'
<1>1. Lockstep'
  BY NoCallIsNoRequest, RequestsKnown
  DEF IInv, Lockstep, Connection, Descriptors, Requested, Answered, Lost,
      Term
<1>2. Connection'
  BY NoCallIsNoRequest, RequestsKnown
  DEF IInv, Lockstep, Connection, Descriptors,
      Term
<1>3. Descriptors'
  BY NoCallIsNoRequest, RequestsKnown
  DEF IInv, Lockstep, Connection, Descriptors,
      Term
<1>4. Order'
  BY NoCallIsNoRequest, RequestsKnown
  DEF IInv, Lockstep, Connection, Descriptors, Order, Requested, Answered,
      Lost, Term
<1> QED BY <1>1, <1>2, <1>3, <1>4 DEF IInv

LEMMA CtrlCInv ==
  ASSUME IInv, CtrlC
  PROVE  IInv'
<1>1. Lockstep'
  BY NoCallIsNoRequest, RequestsKnown
  DEF IInv, Lockstep, Connection, Descriptors, Requested, Answered, Lost,
      CtrlC, Interrupt, Gone
<1>2. Connection'
  BY NoCallIsNoRequest, RequestsKnown
  DEF IInv, Lockstep, Connection, Descriptors,
      CtrlC, Interrupt, Gone
<1>3. Descriptors'
  BY NoCallIsNoRequest, RequestsKnown
  DEF IInv, Lockstep, Connection, Descriptors,
      CtrlC, Interrupt, Gone
<1>4. Order'
  BY NoCallIsNoRequest, RequestsKnown
  DEF IInv, Lockstep, Connection, Descriptors, Order, Requested, Answered,
      Lost, CtrlC, Interrupt, Gone
<1> QED BY <1>1, <1>2, <1>3, <1>4 DEF IInv

LEMMA EnclaveCrashInv ==
  ASSUME IInv, EnclaveCrash
  PROVE  IInv'
<1>1. Lockstep'
  BY NoCallIsNoRequest, RequestsKnown
  DEF IInv, Lockstep, Connection, Descriptors, Requested, Answered, Lost,
      EnclaveCrash, Gone
<1>2. Connection'
  BY NoCallIsNoRequest, RequestsKnown
  DEF IInv, Lockstep, Connection, Descriptors,
      EnclaveCrash, Gone
<1>3. Descriptors'
  BY NoCallIsNoRequest, RequestsKnown
  DEF IInv, Lockstep, Connection, Descriptors,
      EnclaveCrash, Gone
<1>4. Order'
  BY NoCallIsNoRequest, RequestsKnown
  DEF IInv, Lockstep, Connection, Descriptors, Order, Requested, Answered,
      Lost, EnclaveCrash, Gone
<1> QED BY <1>1, <1>2, <1>3, <1>4 DEF IInv

LEMMA ServerCrashInv ==
  ASSUME IInv, ServerCrash
  PROVE  IInv'
<1>1. Lockstep'
  BY NoCallIsNoRequest, RequestsKnown
  DEF IInv, Lockstep, Connection, Descriptors, Requested, Answered, Lost,
      ServerCrash
<1>2. Connection'
  BY NoCallIsNoRequest, RequestsKnown
  DEF IInv, Lockstep, Connection, Descriptors,
      ServerCrash
<1>3. Descriptors'
  BY NoCallIsNoRequest, RequestsKnown
  DEF IInv, Lockstep, Connection, Descriptors,
      ServerCrash
<1>4. Order'
  BY NoCallIsNoRequest, RequestsKnown
  DEF IInv, Lockstep, Connection, Descriptors, Order, Requested, Answered,
      Lost, ServerCrash
<1> QED BY <1>1, <1>2, <1>3, <1>4 DEF IInv

LEMMA StepInv == IInv /\ [Next]_vars => IInv'
<1> SUFFICES ASSUME IInv, [Next]_vars PROVE IInv'
  OBVIOUS
<1>1. CASE ServerStep
  BY <1>1, ForkInv, ConnectInv, SetupInv, SendInv, ReceiveInv, ReceiveFailsInv,
     TunHandlerInv, LeaveLoopInv, StopInv, EndOfGraceInv DEF ServerStep
<1>2. CASE Packet
  BY <1>2, HandlerInv DEF Packet
<1>3. CASE EnclaveStep
  BY <1>3, BootsInv, BootFailsInv, AcceptInv, SelectInv, HandleEofInv,
     HandleInv, ReturnsInv DEF EnclaveStep
<1>4. CASE UNCHANGED vars
  BY <1>4 DEF vars, IInv, Lockstep, Connection, Descriptors, Order, Requested,
              Answered, Lost
<1> QED
  BY <1>1, <1>2, <1>3, <1>4, TermInv, CtrlCInv, EnclaveCrashInv, ServerCrashInv
  DEF Next

LEMMA Invariance == Spec => []IInv
BY InitInv, StepInv, PTL DEF Spec

(* However main is left, the descriptors are closed and the enclave is     *)
(* gone.                                                                   *)
THEOREM NothingLeft == Spec => []NothingLeftBehind
<1>1. IInv => NothingLeftBehind
  BY DEF IInv, Descriptors, NothingLeftBehind
<1> QED BY <1>1, Invariance, PTL

(* Without a crash and without Ctrl+C no call loses its answer and SIGPIPE *)
(* does not end the server.                                                *)
THEOREM Orderly == Spec => []OrderlyUnlessDisturbed
<1>1. IInv => OrderlyUnlessDisturbed
  BY DEF IInv, Order, OrderlyUnlessDisturbed
<1> QED BY <1>1, Invariance, PTL

-----------------------------------------------------------------------------
(* Refinement: the steps of the two processes as steps of EnclaveService.  *)
Unseen == UNCHANGED <<EnclavePhase, EnclaveKeys, result>>

LEMMA InitImplements == Init => Service!Init
BY DEF Init, Service!Init, EnclavePhase, EnclaveKeys

LEMMA BootsImplements ==
  ASSUME IInv, EnclaveBoots
  PROVE  Service!Start
BY NoCallIsNoRequest
DEF IInv, Lockstep, Connection, EnclaveBoots, Service!Start, EnclavePhase,
    EnclaveKeys

(* What the stream holds when the server reads it. *)
LEMMA ReceiveImplements ==
  ASSUME IInv, Receive
  PROVE  Service!Call(call)
<1>1. /\ server = "wait" /\ Answered /\ call \in Request
      /\ Head(to_server) = Answer(km0, call)
      /\ to_server' = <<>>
  BY OneMessage DEF IInv, Lockstep, Requested, Answered, Lost, Receive
<1>2. EnclavePhase = "up" /\ EnclaveKeys = km0
  BY <1>1, NoCallIsNoRequest DEF IInv, Connection, EnclavePhase, EnclaveKeys, Receive
<1>3. result' = Answer(km0, call)
  BY <1>1 DEF Receive, Answer
<1>4. call' = NoCall /\ UNCHANGED <<enc, km>>
  BY DEF Receive
<1>5. CASE enc \in Serving
  <2>1. EnclavePhase' = "up" /\ EnclaveKeys' = KeysAfter(km0, call)
    BY <1>1, <1>4, <1>5 DEF EnclavePhase, EnclaveKeys, Answered
  <2> QED BY <1>2, <1>3, <2>1 DEF Service!Call
<1>6. CASE enc \notin Serving
  <2>1. EnclavePhase' = "down" /\ EnclaveKeys' = NoKeys
    BY <1>1, <1>4, <1>6, NoCallIsNoRequest
    DEF IInv, Connection, EnclavePhase, EnclaveKeys, Receive
  <2> QED BY <1>2, <1>3, <2>1 DEF Service!Call
<1> QED BY <1>5, <1>6

LEMMA ReceiveFailsImplements ==
  ASSUME IInv, ReceiveFails
  PROVE  Service!CallFails(call)
BY NoCallIsNoRequest
DEF IInv, Lockstep, Connection, ReceiveFails, Service!CallFails, EnclavePhase,
    EnclaveKeys

(* The steps the server process does not see. *)
LEMMA EnclaveUnseen ==
  ASSUME IInv, Accept \/ Select \/ HandleEof
  PROVE  Unseen
BY NoCallIsNoRequest, RequestsKnown, OneMessage
DEF IInv, Lockstep, Connection, Descriptors, Requested, Answered, Lost, Unseen,
    EnclavePhase, EnclaveKeys, Accept, Select, HandleEof

(* The server's own steps.  A call that begins freezes the key table it    *)
(* will be answered from.                                                  *)
LEMMA ConnectUnseen ==
  ASSUME IInv, NEW ok \in BOOLEAN, Connect(ok)
  PROVE  Unseen
BY NoCallIsNoRequest, RequestsKnown, OneMessage
DEF IInv, Lockstep, Connection, Descriptors, Requested, Answered, Lost, Unseen,
    EnclavePhase, EnclaveKeys, Connect, Begin, GiveUp

LEMMA SetupUnseen ==
  ASSUME IInv, NEW ok \in BOOLEAN, SetupStage(ok)
  PROVE  Unseen
BY NoCallIsNoRequest, RequestsKnown, OneMessage
DEF IInv, Lockstep, Connection, Descriptors, Requested, Answered, Lost, Unseen,
    EnclavePhase, EnclaveKeys, SetupStage, Stage, GiveUp

LEMMA HandlerUnseen ==
  ASSUME IInv, NEW r \in HandlerRequest, Handler(r)
  PROVE  Unseen
BY NoCallIsNoRequest, RequestsKnown, OneMessage
DEF IInv, Lockstep, Connection, Descriptors, Requested, Answered, Lost, Unseen,
    EnclavePhase, EnclaveKeys, Handler, Begin

LEMMA TunHandlerUnseen ==
  ASSUME IInv, NEW ip \in Ip, TunHandler(ip)
  PROVE  Unseen
BY NoCallIsNoRequest, RequestsKnown, OneMessage
DEF IInv, Lockstep, Connection, Descriptors, Requested, Answered, Lost, Unseen,
    EnclavePhase, EnclaveKeys, TunHandler, Begin

LEMMA LeaveUnseen ==
  ASSUME IInv, LeaveLoop \/ Term
  PROVE  Unseen
BY NoCallIsNoRequest, RequestsKnown, OneMessage
DEF IInv, Lockstep, Connection, Descriptors, Requested, Answered, Lost, Unseen,
    EnclavePhase, EnclaveKeys, LeaveLoop, Begin, Term

LEMMA ForkUnseen ==
  ASSUME IInv, NEW ok \in BOOLEAN, Fork(ok)
  PROVE  Unseen
BY NoCallIsNoRequest, RequestsKnown, OneMessage
DEF IInv, Lockstep, Connection, Descriptors, Requested, Answered, Lost, Unseen,
    EnclavePhase, EnclaveKeys, Fork

LEMMA SendUnseen ==
  ASSUME IInv, Send
  PROVE  Unseen
BY NoCallIsNoRequest, RequestsKnown, OneMessage
DEF IInv, Lockstep, Connection, Descriptors, Requested, Answered, Lost, Unseen,
    EnclavePhase, EnclaveKeys, Send

(* The steps with which the enclave may end. *)
LEMMA HandleImplements ==
  ASSUME IInv, handle_ipc_request
  PROVE  Service!End \/ Unseen
BY NoCallIsNoRequest, RequestsKnown, OneMessage
DEF IInv, Lockstep, Connection, Descriptors, Requested, Answered, Lost, Unseen,
    EnclavePhase, EnclaveKeys, Service!End,
    handle_ipc_request, Gone

LEMMA EnclaveEnds ==
  ASSUME IInv, EnclaveBootFails \/ EnclaveReturns \/ EnclaveCrash
  PROVE  Service!End \/ Unseen
BY NoCallIsNoRequest, RequestsKnown, OneMessage
DEF IInv, Lockstep, Connection, Descriptors, Requested, Answered, Lost, Unseen,
    EnclavePhase, EnclaveKeys, Service!End,
    EnclaveBootFails, EnclaveReturns, EnclaveCrash, Gone

LEMMA StopImplements ==
  ASSUME IInv, stop_enclave_process
  PROVE  Service!End \/ Unseen
BY NoCallIsNoRequest, RequestsKnown, OneMessage
DEF IInv, Lockstep, Connection, Descriptors, Requested, Answered, Lost, Unseen,
    EnclavePhase, EnclaveKeys, Service!End,
    stop_enclave_process, Interrupt, Collect, Gone

LEMMA GraceImplements ==
  ASSUME IInv, EndOfGrace
  PROVE  Service!End \/ Unseen
BY NoCallIsNoRequest, RequestsKnown, OneMessage
DEF IInv, Lockstep, Connection, Descriptors, Requested, Answered, Lost, Unseen,
    EnclavePhase, EnclaveKeys, Service!End, EndOfGrace,
    Collect

LEMMA CtrlCImplements ==
  ASSUME IInv, CtrlC
  PROVE  Service!End \/ Unseen
BY NoCallIsNoRequest, RequestsKnown, OneMessage
DEF IInv, Lockstep, Connection, Descriptors, Requested, Answered, Lost, Unseen,
    EnclavePhase, EnclaveKeys, Service!End, CtrlC,
    Interrupt, Gone

LEMMA ServerCrashImplements ==
  ASSUME IInv, ServerCrash
  PROVE  Service!End \/ Unseen
BY NoCallIsNoRequest, RequestsKnown, OneMessage
DEF IInv, Lockstep, Connection, Descriptors, Requested, Answered, Lost, Unseen,
    EnclavePhase, EnclaveKeys, Service!End,
    ServerCrash

LEMMA StepImplements ==
  IInv /\ [Next]_vars => [Service!Next]_(Service!serviceVars)
<1> SUFFICES ASSUME IInv, [Next]_vars
             PROVE  Service!Next \/ Unseen
  BY DEF Unseen, Service!serviceVars
<1>0. (Service!Start => Service!Next) /\ (Service!End => Service!Next)
  BY DEF Service!Next
<1>1. CASE ServerStep
  <2>1. Receive \/ ReceiveFails => call \in Request
    BY DEF IInv, Lockstep, Receive, ReceiveFails
  <2>2. Receive \/ ReceiveFails => Service!Next
    BY <2>1, ReceiveImplements, ReceiveFailsImplements DEF Service!Next
  <2>3. ASSUME NEW ok \in BOOLEAN, Fork(ok) \/ Connect(ok) \/ SetupStage(ok)
        PROVE  Unseen
    BY <2>3, ForkUnseen, ConnectUnseen, SetupUnseen
  <2>4. (\E ip \in Ip : TunHandler(ip)) \/ LeaveLoop \/ Send => Unseen
    BY TunHandlerUnseen, LeaveUnseen, SendUnseen
  <2>5. stop_enclave_process \/ EndOfGrace => Service!Next \/ Unseen
    BY <1>0, StopImplements, GraceImplements
  <2> QED
    BY <1>1, <2>2, <2>3, <2>4, <2>5, ZenonT(30) DEF ServerStep
<1>2. CASE Packet
  BY <1>2, HandlerUnseen DEF Packet
<1>3. CASE EnclaveStep
  BY <1>0, <1>3, BootsImplements, EnclaveUnseen, HandleImplements, EnclaveEnds
  DEF EnclaveStep
<1>4. CASE UNCHANGED vars
  BY <1>4 DEF vars, Unseen, EnclavePhase, EnclaveKeys
<1>5. Term \/ CtrlC \/ EnclaveCrash \/ ServerCrash => Service!Next \/ Unseen
  BY <1>0, LeaveUnseen, CtrlCImplements, EnclaveEnds, ServerCrashImplements
<1> QED
  BY <1>1, <1>2, <1>3, <1>4, <1>5 DEF Next

(* The two processes and the stream between them implement EnclaveService: *)
(* a call is carried out once, on the key table as it was when the call    *)
(* began, and gets its own answer.                                         *)
THEOREM AtomicCalls == Spec => CallsAreAtomic
BY InitImplements, StepImplements, Invariance, PTL
DEF Spec, CallsAreAtomic, Service!Spec

-----------------------------------------------------------------------------
(* The enclave's key table.  A search of it finds a slot if there is one   *)
(* to find, because every set of naturals has a least element.             *)
WF == INSTANCE WellFoundedInduction

LEMMA FirstSlotFound ==
  ASSUME NEW S, S \subseteq Nat, S # {}
  PROVE  FirstSlot(S) \in S
<1> DEFINE Less == {p \in Nat \X Nat : p[1] < p[2]}
<1>1. WF!OpToRel(<, Nat) = Less
  BY DEF WF!OpToRel
<1>2. WF!IsWellFoundedOn(Less, Nat)
  BY <1>1, WF!NatLessThanWellFounded
<1>3. PICK i \in S : \A j \in S : <<j, i>> \notin Less
  <2> HIDE DEF Less
  <2> QED BY <1>2, WF!WFMin
<1>4. ASSUME NEW j \in S
      PROVE  i <= j
  <2>1. i \in Nat /\ j \in Nat
    OBVIOUS
  <2>2. ~(j < i)
    BY <1>3, <2>1
  <2> QED BY <2>1, <2>2
<1> QED BY <1>4 DEF FirstSlot

(* The key manager of an enclave that is up. *)
KeyTable(k) == IsKeyManager(k) /\ k # NoKeys

LEMMA WithKeysIsTable ==
  ASSUME NEW k, IsKeyManager(k), NEW D, D \subseteq KeySlots,
         NEW t \in [D -> KeyEntry], NEW n \in Int
  PROVE  KeyTable(WithKeys(k, t, n))
<1>1. "keys" \in DOMAIN WithKeys(k, t, n) /\ "keys" \notin DOMAIN NoKeys
  BY DEF WithKeys, NoKeys
<1> QED BY <1>1 DEF WithKeys, KeyTable, IsKeyManager

LEMMA KeyTableKept ==
  ASSUME NEW k, KeyTable(k), NEW ip
  PROVE  /\ ip \in Nat => \A key \in SessionKey : KeyTable(add_key(k, ip, key))
         /\ KeyTable(remove_key(k, ip))
         /\ HasKey(k, ip) => get_key(k, ip) \in SessionKey
<1>1. /\ IsKeyManager(k) /\ KeySlots \subseteq Nat
      /\ DOMAIN k.keys \subseteq KeySlots /\ k.count \in Int
      /\ k.keys \in [DOMAIN k.keys -> KeyEntry]
  BY KeyManagerAssumption DEF KeyTable, IsKeyManager, KeySlots
<1>2. ASSUME ip \in Nat, NEW key \in SessionKey
      PROVE  KeyTable(add_key(k, ip, key))
  <2> DEFINE i == FirstSlot(KeySlots \ DOMAIN k.keys)
             e == [vpn_ip |-> ip, session_key |-> key]
  <2>1. CASE i = NULL
    BY <2>1 DEF add_key
  <2>2. CASE i # NULL
    <3>1. i \in KeySlots
      BY <1>1, <2>2, FirstSlotFound DEF FirstSlot
    <3>2. e \in KeyEntry
      BY <1>2 DEF KeyEntry
    <3> HIDE DEF i, e
    <3>3. Put(k.keys, i, e) \in [DOMAIN k.keys \cup {i} -> KeyEntry]
      BY <1>1, <3>2 DEF Put
    <3>4. KeyTable(WithKeys(k, Put(k.keys, i, e), k.count + 1))
      BY <1>1, <3>1, <3>3, WithKeysIsTable
    <3> QED BY <2>2, <3>4 DEF add_key, i, e
  <2> QED BY <2>1, <2>2
<1>3. KeyTable(remove_key(k, ip))
  <2> DEFINE i == FirstSlot(KeySlotsOf(k, ip))
  <2>1. Clear(k.keys, {i}) \in [DOMAIN k.keys \ {i} -> KeyEntry]
    BY <1>1 DEF Clear
  <2>2. KeyTable(WithKeys(k, Clear(k.keys, {i}), k.count - 1))
    BY <1>1, <2>1, WithKeysIsTable
  <2> QED BY <2>2 DEF remove_key
<1>4. ASSUME HasKey(k, ip)
      PROVE  get_key(k, ip) \in SessionKey
  <2>1. FirstSlot(KeySlotsOf(k, ip)) \in KeySlotsOf(k, ip)
    BY <1>1, <1>4, FirstSlotFound DEF HasKey, KeySlotsOf
  <2>2. FirstSlot(KeySlotsOf(k, ip)) \in DOMAIN k.keys
    BY <2>1 DEF KeySlotsOf
  <2> QED BY <1>1, <2>2 DEF get_key, KeyEntry
<1> QED BY <1>2, <1>3, <1>4

LEMMA FreshKeyTable ==
  ASSUME NEW sk \in ServerKey
  PROVE  KeyTable(init_key_manager(sk))
<1>1. DOMAIN EmptyTable = {} /\ EmptyTable \in [{} -> KeyEntry]
  BY DEF EmptyTable
<1>2. "keys" \in DOMAIN init_key_manager(sk) /\ "keys" \notin DOMAIN NoKeys
  BY DEF init_key_manager, NoKeys
<1> QED BY <1>1, <1>2 DEF KeyTable, init_key_manager, IsKeyManager

(* What a request holds besides its command. *)
LEMMA RequestFields ==
  ASSUME NEW r \in Request
  PROVE  /\ r.command = "ADD_KEY" => r.vpn_ip \in Nat /\ r.key \in SessionKey
         /\ r.command = "HANDSHAKE"
              => r.vpn_ip \in Nat /\ r.key \in PublicKey \cup {InvalidKey}
         /\ r.command \in {"ADD_KEY", "DECRYPT", "HANDSHAKE", "ENCRYPT",
                           "REMOVE_KEY", "PING", "SHUTDOWN"}
<1>1. CASE r \in {PING, SHUTDOWN}
  BY <1>1 DEF PING, SHUTDOWN
<1>2. CASE r \in [command : {"HANDSHAKE"}, vpn_ip : Ip,
                 key : PublicKey \cup {InvalidKey}]
  BY <1>2, IpAssumption
<1>3. CASE r \in [command : {"DECRYPT"}, vpn_ip : Ip, key : SessionKey]
  BY <1>3, IpAssumption
<1>4. CASE r \in [command : {"ENCRYPT", "REMOVE_KEY"}, vpn_ip : Ip]
  BY <1>4, IpAssumption
<1>5. CASE r \in [command : {"ADD_KEY"}, vpn_ip : Ip, key : SessionKey]
  BY <1>5, IpAssumption
<1> QED BY <1>1, <1>2, <1>3, <1>4, <1>5 DEF Request, HandlerRequest

LEMMA HandshakeSound ==
  ASSUME NEW k, KeyTable(k), NEW pk \in PublicKey \cup {InvalidKey}, NEW ip \in Nat
  PROVE  /\ KeyTable(perform_handshake(k, ip, pk).km)
         /\ perform_handshake(k, ip, pk).status = 0
              => derive_session_key(pk, k.server_key) \in SessionKey
<1>1. CASE ecdh_fails(pk)
  BY <1>1 DEF perform_handshake
<1>2. CASE ~ecdh_fails(pk)
  <2>1. derive_session_key(pk, k.server_key) \in SessionKey
    BY <1>2 DEF ecdh_fails, derive_session_key, SessionKey, KeyTable, IsKeyManager
  <2> QED BY <1>2, <2>1, KeyTableKept DEF perform_handshake
<1> QED BY <1>1, <1>2

(* A request leaves a key table behind, and its answer is one. *)
LEMMA RequestKeepsTable ==
  ASSUME NEW k, KeyTable(k), NEW r \in Request
  PROVE  KeyTable(KeysAfter(k, r))
<1>1. CASE r.command = "ADD_KEY"
  BY <1>1, RequestFields, KeyTableKept DEF KeysAfter
<1>2. CASE r.command = "REMOVE_KEY"
  BY <1>2, KeyTableKept DEF KeysAfter
<1>3. CASE r.command = "HANDSHAKE"
  BY <1>3, RequestFields, HandshakeSound DEF KeysAfter
<1>4. CASE r.command \notin {"ADD_KEY", "REMOVE_KEY", "HANDSHAKE"}
  BY <1>4 DEF KeysAfter
<1> QED BY <1>1, <1>2, <1>3, <1>4

LEMMA AnswerIsResponse ==
  ASSUME NEW k, KeyTable(k), NEW r \in Request
  PROVE  Answer(k, r) \in Response
<1>1. CASE ~Succeeds(k, r)
  BY <1>1 DEF Answer, Response
<1>2. CASE Succeeds(k, r) /\ r.command = "ENCRYPT"
  <2>1. get_key(k, r.vpn_ip) \in SessionKey
    BY <1>2, KeyTableKept DEF Succeeds
  <2> QED BY <1>2, <2>1 DEF Answer, Response
<1>3. CASE Succeeds(k, r) /\ r.command = "HANDSHAKE"
  <2>1. derive_session_key(r.key, k.server_key) \in SessionKey
    BY <1>3, RequestFields, HandshakeSound DEF Succeeds
  <2> QED BY <1>3, <2>1 DEF Answer, Response
<1>4. CASE Succeeds(k, r) /\ r.command \notin {"ENCRYPT", "HANDSHAKE"}
  BY <1>4 DEF Answer, Response
<1> QED BY <1>1, <1>2, <1>3, <1>4

-----------------------------------------------------------------------------
(* Types.  The control states are in IInv; an enclave that serves has a  *)
(* key table.                                                              *)
Fields ==
  /\ running \in BOOLEAN /\ status \in {0, 1} /\ open \subseteq AllOpen
  /\ call \in Request \cup {NoCall}
  /\ enclave_running \in BOOLEAN
  /\ conn \in {"none", "backlog", "accepted", "reset"}
  /\ disturbed \in BOOLEAN

Streams ==
  /\ to_enclave \in Seq(Request)
  /\ to_server \in Seq(Response)
  /\ result \in Response \cup {NoResult}
  /\ enc \in Serving => KeyTable(km)

TypeInv == IInv /\ Fields /\ Streams

LEMMA NoMessages == <<>> \in Seq(Request) /\ <<>> \in Seq(Response)
OBVIOUS

LEMMA TypeInvImplies == TypeInv => TypeOK
BY DEF TypeInv, Fields, Streams, TypeOK, IInv, Connection,
   Descriptors, KeyTable

LEMMA EnclaveFields ==
  ASSUME IInv, Fields, EnclaveStep
  PROVE  Fields'
BY DEF Fields, EnclaveStep, EnclaveBoots, EnclaveBootFails, Accept, Select,
   HandleEof, handle_ipc_request, EnclaveReturns, Gone

LEMMA ServerFields ==
  ASSUME IInv, Fields, ServerStep
  PROVE  Fields'
<1>1. ASSUME NEW ok \in BOOLEAN, Fork(ok) \/ Connect(ok) \/ SetupStage(ok)
      PROVE  Fields'
  BY <1>1, RequestsKnown DEF Fields, Fork, Connect, Begin, GiveUp, SetupStage,
     Stage, create_tun_interface, create_udp_server
<1>2. CASE Send \/ Receive \/ ReceiveFails
  BY <1>2 DEF Fields, Send, Receive, ReceiveFails, Continue, GiveUp
<1>3. ASSUME NEW ip \in Ip, TunHandler(ip)
      PROVE  Fields'
  BY <1>3, RequestsKnown DEF Fields, TunHandler, Begin
<1>4. CASE LeaveLoop
  BY <1>4, RequestsKnown DEF Fields, LeaveLoop, Begin
<1>5. CASE stop_enclave_process
  BY <1>5 DEF Fields, stop_enclave_process, Collect, Interrupt, Gone
<1>6. CASE EndOfGrace
  BY <1>6 DEF Fields, EndOfGrace, Collect
<1> QED BY <1>1, <1>2, <1>3, <1>4, <1>5, <1>6 DEF ServerStep

LEMMA OtherFields ==
  ASSUME IInv, Fields, Packet \/ Term \/ CtrlC \/ EnclaveCrash \/ ServerCrash
  PROVE  Fields'
<1>1. CASE Packet
  BY <1>1, RequestsKnown DEF Fields, Packet, Handler, Begin
<1>2. CASE Term \/ CtrlC \/ EnclaveCrash \/ ServerCrash
  BY <1>2 DEF Fields, Term, CtrlC, Interrupt, EnclaveCrash, ServerCrash, Gone
<1> QED BY <1>1, <1>2

LEMMA EnclaveStreams ==
  ASSUME IInv, Streams, EnclaveStep
  PROVE  Streams'
<1>1. CASE EnclaveBoots
  BY <1>1, FreshKeyTable DEF Streams, EnclaveBoots
<1>2. CASE EnclaveBootFails \/ EnclaveReturns
  BY <1>2, NoMessages DEF Streams, EnclaveBootFails, EnclaveReturns, Gone
<1>3. CASE Accept \/ Select \/ HandleEof
  BY <1>3 DEF Streams, Accept, Select, HandleEof
<1>4. CASE handle_ipc_request
  <2>1. CASE "enclave" \in open
    <3> DEFINE r == Head(to_enclave)
    <3>1. r \in Request /\ Tail(to_enclave) \in Seq(Request)
      BY <1>4 DEF Streams, handle_ipc_request
    <3>2. KeyTable(km)
      BY <1>4 DEF Streams, handle_ipc_request
    <3>3. /\ km' = KeysAfter(km, r) /\ to_enclave' = Tail(to_enclave)
          /\ to_server' = Append(to_server, Answer(km, r))
          /\ UNCHANGED result
      BY <1>4, <2>1 DEF handle_ipc_request
    <3> HIDE DEF r
    <3>4. KeyTable(km') /\ Answer(km, r) \in Response
      BY <3>1, <3>2, <3>3, RequestKeepsTable, AnswerIsResponse
    <3> QED BY <3>1, <3>3, <3>4 DEF Streams
  <2>2. CASE "enclave" \notin open
    BY <1>4, <2>2 DEF Streams, handle_ipc_request, Gone
  <2> QED BY <2>1, <2>2
<1> QED BY <1>1, <1>2, <1>3, <1>4 DEF EnclaveStep

LEMMA ServerStreams ==
  ASSUME IInv, Streams, ServerStep
  PROVE  Streams'
<1>1. ASSUME NEW ok \in BOOLEAN, Fork(ok) \/ Connect(ok) \/ SetupStage(ok)
      PROVE  Streams'
  BY <1>1 DEF Streams, Fork, Connect, GiveUp, SetupStage, Stage
<1>2. CASE Send
  <2>1. call \in Request
    BY <1>2 DEF Send, IInv, Lockstep
  <2>2. Append(to_enclave, call) \in Seq(Request)
    BY <2>1 DEF Streams
  <2> QED BY <1>2, <2>2 DEF Streams, Send
<1>3. CASE Receive
  <2>1. Head(to_server) \in Response /\ Tail(to_server) \in Seq(Response)
    BY <1>3 DEF Streams, Receive
  <2>2. call \in Request
    BY <1>3 DEF Receive, IInv, Lockstep
  <2>3. [Head(to_server) EXCEPT !.req = call] \in Response
    BY <2>1, <2>2 DEF Response
  <2> QED BY <1>3, <2>1, <2>3 DEF Streams, Receive
<1>4. CASE ReceiveFails
  <2>1. NoAnswer(call) \in Response
    BY <1>4 DEF ReceiveFails, IInv, Lockstep, NoAnswer, Response
  <2> QED BY <1>4, <2>1 DEF Streams, ReceiveFails
<1>5. ASSUME NEW ip \in Ip, TunHandler(ip)
      PROVE  Streams'
  BY <1>5 DEF Streams, TunHandler
<1>6. CASE LeaveLoop
  BY <1>6 DEF Streams, LeaveLoop
<1>7. CASE stop_enclave_process
  BY <1>7, NoMessages DEF Streams, stop_enclave_process, Collect, Interrupt, Gone
<1>8. CASE EndOfGrace
  BY <1>8, NoMessages DEF Streams, EndOfGrace, Collect
<1> QED BY <1>1, <1>2, <1>3, <1>4, <1>5, <1>6, <1>7, <1>8 DEF ServerStep

LEMMA OtherStreams ==
  ASSUME IInv, Streams, Packet \/ Term \/ CtrlC \/ EnclaveCrash \/ ServerCrash
  PROVE  Streams'
<1>1. CASE Packet
  BY <1>1 DEF Streams, Packet, Handler
<1>2. CASE Term \/ CtrlC \/ EnclaveCrash \/ ServerCrash
  BY <1>2, NoMessages DEF Streams, Term, CtrlC, Interrupt, EnclaveCrash, ServerCrash, Gone
<1> QED BY <1>1, <1>2

(* Every variable of the two processes and of the stream between them has  *)
(* its type, whatever crashes and signals: in particular an enclave that   *)
(* serves has a key table, and what it answers is an answer.               *)
THEOREM TypeCorrect == Spec => []TypeOK
<1>1. Init => Fields /\ Streams
  BY NoMessages DEF Init, Fields, Streams
<1>2. IInv /\ Fields /\ Streams /\ [Next]_vars => Fields' /\ Streams'
  <2> SUFFICES ASSUME IInv, Fields, Streams, [Next]_vars
               PROVE  Fields' /\ Streams'
    OBVIOUS
  <2>1. CASE Next
    BY <2>1, EnclaveFields, ServerFields, OtherFields, EnclaveStreams,
       ServerStreams, OtherStreams DEF Next
  <2>2. CASE UNCHANGED vars
    BY <2>2 DEF vars, Fields, Streams
  <2> QED BY <2>1, <2>2
<1>3. IInv /\ Fields /\ Streams => TypeOK
  BY TypeInvImplies DEF TypeInv
<1> QED BY <1>1, <1>2, <1>3, Invariance, PTL DEF Spec

=============================================================================
