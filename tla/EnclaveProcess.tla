---------------------------- MODULE EnclaveProcess ----------------------------
(***************************************************************************)
(* The VPN server process and the enclave process it forks: how the server *)
(* starts (main in VPN/src/server/vpn_server.c), the IPC over a Unix       *)
(* stream socket (enclave_client.c on the server's side, enclave_main.c on *)
(* the enclave's), and how both end (enclave.c).  What the handlers do     *)
(* with the client table is VpnServer's; here a handler is the call it     *)
(* makes.                                                                  *)
(*                                                                         *)
(* There is no clock: the two seconds the server gives the enclave to come *)
(* up and the five it gives it to end may or may not be enough.  Neither   *)
(* process asks for a receive timeout, ignores SIGPIPE or handles SIGCHLD, *)
(* and signal() restarts an interrupted recv but not an interrupted        *)
(* select.                                                                 *)
(***************************************************************************)
EXTENDS EnclaveRequests, Sequences

VARIABLES
  server,           \* control state of the server process
  running,          \* its `running' flag
  status,           \* what main will return
  open,             \* the file descriptors it holds
  call,             \* the IPC request it is busy with
  result,           \* what the last finished call gave it
  enc,              \* control state of the enclave process
  enclave_running,  \* its `enclave_running' flag
  km,               \* its key manager
  conn,             \* the enclave's end of the IPC connection
  to_enclave,       \* the two directions of the stream
  to_server,
  km0,              \* history: the key manager when the call began
  disturbed         \* history: a process crashed, or Ctrl+C reached both

serverVars == <<server, running, status, open, call, result, km0>>
enclaveVars == <<enc, enclave_running, km>>
ipcVars == <<conn, to_enclave, to_server>>
vars == <<serverVars, enclaveVars, ipcVars, disturbed>>

NoCall == [command |-> "none"]
NoKeys == [count |-> -1]
NoResult == [status |-> -2]

Ended == {"stopped", "failed", "sigpipe", "killed"}
Setup == {"tun", "tun_ip", "tun_up", "udp", "table"}
ServerStates ==
  {"start", "connect", "send", "wait", "loop", "tun_packet", "stop", "grace"}
    \cup Setup \cup Ended
Serving == {"listen", "serve", "handle"}
Alive == {"boot"} \cup Serving
EnclaveStates == {"none", "zombie", "reaped"} \cup Alive
Response ==
  [req : Request, status : {OK, FAILED}, data : SessionKey \cup {NoData}]

(* Every variable holds a value of the data structure the code declares.   *)
TypeOK ==
  /\ server \in ServerStates
  /\ running \in BOOLEAN
  /\ status \in {0, 1}
  /\ open \subseteq {"enclave", "tun", "udp"}
  /\ call \in Request \cup {NoCall}
  /\ result \in Response \cup {NoResult}
  /\ enc \in EnclaveStates
  /\ enclave_running \in BOOLEAN
  /\ enc \in Serving => km # NoKeys /\ IsKeyManager(km)
  /\ conn \in {"none", "backlog", "accepted", "reset"}
  /\ to_enclave \in Seq(Request)
  /\ to_server \in Seq(Response)
  /\ disturbed \in BOOLEAN

Init ==
  /\ server = "start" /\ running = TRUE /\ status = 0 /\ open = {}
  /\ call = NoCall /\ result = NoResult /\ km0 = NoKeys
  /\ enc = "none" /\ enclave_running = TRUE /\ km = NoKeys
  /\ conn = "none" /\ to_enclave = <<>> /\ to_server = <<>>
  /\ disturbed = FALSE

-----------------------------------------------------------------------------
(* The enclave process ends, for whatever reason: the kernel closes its    *)
(* sockets, and its entry stays until the parent collects it, or at once   *)
(* if there is no parent any more.                                         *)
Gone ==
  /\ enc' = IF server \in Ended THEN "reaped" ELSE "zombie"
  /\ km' = NoKeys
  /\ conn' = IF conn = "none" THEN conn ELSE "reset"
  /\ to_enclave' = <<>>

(* Fault: the key manager is not set up. *)
EnclaveBoots_no_keys ==
  /\ enc = "boot"
  /\ enc' = "listen"
  /\ UNCHANGED <<serverVars, enclave_running, km, ipcVars, disturbed>>

(* main up to the main loop; exec, libsodium, the key manager or the       *)
(* socket may fail.                                                        *)
EnclaveBoots ==
  /\ enc = "boot"
  /\ enc' = "listen"
  /\ \E sk \in ServerKey : km' = init_key_manager(sk)
  /\ UNCHANGED <<serverVars, enclave_running, ipcVars, disturbed>>

EnclaveBootFails ==
  /\ enc = "boot"
  /\ Gone
  /\ UNCHANGED <<serverVars, enclave_running, to_server, disturbed>>

(* The outer loop takes the connection. *)
Accept ==
  /\ enc = "listen"
  /\ enclave_running
  /\ conn = "backlog"
  /\ enc' = "serve"
  /\ conn' = "accepted"
  /\ UNCHANGED <<serverVars, enclave_running, km, to_enclave, to_server,
                 disturbed>>

(* The inner loop: select() reports a request, or the end of the stream,   *)
(* for which the loop is not left.                                         *)
Select ==
  /\ enc = "serve"
  /\ enclave_running
  /\ to_enclave # <<>> \/ "enclave" \notin open
  /\ enc' = "handle"
  /\ UNCHANGED <<serverVars, enclave_running, km, ipcVars, disturbed>>

HandleEof ==
  /\ enc = "handle"
  /\ to_enclave = <<>>
  /\ enc' = "serve"
  /\ UNCHANGED <<serverVars, enclave_running, km, ipcVars, disturbed>>

(* Faults: a request that fails is not answered; SHUTDOWN is not answered; *)
(* a request is carried out twice.                                         *)
handle_request_by(answers, keys(_, _)) ==
  LET r == Head(to_enclave)
  IN  /\ enc = "handle" /\ to_enclave # <<>> /\ "enclave" \in open
      /\ to_enclave' = Tail(to_enclave)
      /\ enclave_running' = (enclave_running /\ r # SHUTDOWN)
      /\ enc' = "serve" /\ km' = keys(km, r)
      /\ to_server' = IF answers THEN Append(to_server, Answer(km, r))
                                 ELSE to_server
      /\ UNCHANGED <<serverVars, conn, disturbed>>

handle_ipc_request_silent ==
  handle_request_by(Succeeds(km, Head(to_enclave)), KeysAfter)

handle_ipc_request_no_goodbye ==
  handle_request_by(Head(to_enclave) # SHUTDOWN, KeysAfter)

handle_ipc_request_twice ==
  handle_request_by(TRUE, LAMBDA k, r : KeysAfter(KeysAfter(k, r), r))

(* One request is carried out and answered.  If the server is gone, so is  *)
(* the enclave: send() raises SIGPIPE.                                     *)
handle_ipc_request ==
  LET r == Head(to_enclave)
  IN  /\ enc = "handle"
      /\ to_enclave # <<>>
      /\ enclave_running' = (enclave_running /\ r # SHUTDOWN)
      /\ IF "enclave" \in open
         THEN /\ enc' = "serve"
              /\ km' = KeysAfter(km, r)
              /\ to_enclave' = Tail(to_enclave)
              /\ to_server' = Append(to_server, Answer(km, r))
              /\ UNCHANGED conn
         ELSE Gone /\ UNCHANGED to_server
      /\ UNCHANGED <<serverVars, disturbed>>

(* Either loop ends, the sockets are closed and main returns. *)
EnclaveReturns ==
  /\ enc \in {"listen", "serve"}
  /\ ~enclave_running
  /\ Gone
  /\ UNCHANGED <<serverVars, enclave_running, to_server, disturbed>>

EnclaveStep ==
  \/ EnclaveBoots \/ EnclaveBootFails \/ Accept \/ Select \/ HandleEof
  \/ handle_ipc_request \/ EnclaveReturns

-----------------------------------------------------------------------------
(* start_enclave_process. *)
Fork(ok) ==
  /\ server = "start"
  /\ IF ok THEN server' = "connect" /\ enc' = "boot" /\ UNCHANGED status
           ELSE server' = "failed" /\ status' = 1 /\ UNCHANGED enc
  /\ UNCHANGED <<running, open, call, result, km0, enclave_running, km,
                 ipcVars, disturbed>>

(* A call begins. *)
Begin(r) ==
  /\ server' = "send"
  /\ call' = r
  /\ km0' = km

(* The error returns of main: what is open is closed, then the enclave is  *)
(* stopped.                                                                *)
GiveUp(closed) ==
  /\ server' = "stop"
  /\ status' = 1
  /\ open' = open \ closed

(* enclave_connect, followed by the PING that tries the connection. *)
Connect(ok) ==
  /\ server = "connect"
  /\ IF ok
     THEN /\ enc = "listen"
          /\ Begin(PING)
          /\ conn' = "backlog"
          /\ open' = open \cup {"enclave"}
          /\ UNCHANGED status
     ELSE GiveUp({}) /\ UNCHANGED <<call, km0, conn>>
  /\ UNCHANGED <<running, result, enclaveVars, to_enclave, to_server,
                 disturbed>>

(* send() of send_ipc_request.  To a closed connection it ends the         *)
(* process: its descriptors are closed and its child, which has ended, is  *)
(* collected by init.                                                      *)
Send ==
  /\ server = "send"
  /\ IF conn = "reset"
     THEN /\ server' = "sigpipe"
          /\ open' = {}
          /\ enc' = "reaped"
          /\ UNCHANGED to_enclave
     ELSE /\ server' = "wait"
          /\ to_enclave' = Append(to_enclave, call)
          /\ UNCHANGED <<open, enc>>
  /\ UNCHANGED <<running, status, call, result, km0, enclave_running, km, conn,
                 to_server, disturbed>>

(* Where the server goes on after a call.  A handler of a UDP packet may   *)
(* be followed, in the same iteration, by one of a TUN packet.             *)
Continue(r, ok) ==
  \/ r = PING /\ ok /\ server' = "tun" /\ UNCHANGED <<status, open>>
  \/ r = PING /\ ~ok /\ GiveUp({"enclave"})
  \/ /\ r = SHUTDOWN
     /\ server' = "stop"
     /\ open' = open \ {"enclave"}
     /\ UNCHANGED status
  \/ /\ r \notin {PING, SHUTDOWN}
     /\ \/ server' = "loop"
        \/ server' = "tun_packet" /\ r.command # "ENCRYPT"
     /\ UNCHANGED <<status, open>>

(* recv() of send_ipc_request: the answer, whose request_id is not looked  *)
(* at, or the end of the stream.                                           *)
Receive ==
  /\ server = "wait"
  /\ to_server # <<>>
  /\ result' = [Head(to_server) EXCEPT !.req = call]
  /\ to_server' = Tail(to_server)
  /\ Continue(call, Head(to_server).status = OK)
  /\ call' = NoCall
  /\ UNCHANGED <<running, km0, enclaveVars, conn, to_enclave, disturbed>>

ReceiveFails ==
  /\ server = "wait"
  /\ to_server = <<>>
  /\ conn = "reset"
  /\ result' = NoAnswer(call)
  /\ Continue(call, FALSE)
  /\ call' = NoCall
  /\ UNCHANGED <<running, km0, enclaveVars, ipcVars, disturbed>>

-----------------------------------------------------------------------------
(* The wrappers of tun_manager.c and udp_server.c: a call that fails       *)
(* leaves no descriptor open.                                              *)
create_tun_interface(ok) == IF ok THEN {"tun"} ELSE {}
create_udp_server(ok) == IF ok THEN {"udp"} ELSE {}

(* The rest of main's setup, stage by stage: what a stage opens, and what  *)
(* main closes before it stops the enclave if the stage fails.             *)
Stage(from, to, opened, closed, ok) ==
  /\ server = from
  /\ IF ok THEN /\ server' = to
                /\ open' = open \cup opened
                /\ UNCHANGED status
           ELSE GiveUp(closed)
  /\ UNCHANGED <<running, call, result, km0, enclaveVars, ipcVars, disturbed>>

(* Fault: the UDP socket is left open. *)
SetupStage_leak(ok) ==
  \/ Stage("tun", "tun_ip", create_tun_interface(ok), {"enclave"}, ok)
  \/ Stage("tun_ip", "tun_up", {}, {"tun", "enclave"}, ok)
  \/ Stage("tun_up", "udp", {}, {"tun", "enclave"}, ok)
  \/ Stage("udp", "table", create_udp_server(ok), {"tun", "enclave"}, ok)
  \/ Stage("table", "loop", {}, {"tun", "enclave"}, ok)

SetupStage(ok) ==
  \/ Stage("tun", "tun_ip", create_tun_interface(ok), {"enclave"}, ok)
  \/ Stage("tun_ip", "tun_up", {}, {"tun", "enclave"}, ok)
  \/ Stage("tun_up", "udp", {}, {"tun", "enclave"}, ok)
  \/ Stage("udp", "table", create_udp_server(ok), {"tun", "enclave"}, ok)
  \/ Stage("table", "loop", {}, {"udp", "tun", "enclave"}, ok)

(* A packet whose handler calls the enclave: UDP or TUN as the iteration   *)
(* begins, TUN after a UDP packet whatever became of the flag meanwhile.   *)
Handler(r) ==
  /\ server = "loop"
  /\ running
  /\ Begin(r)
  /\ UNCHANGED <<running, status, open, result, enclaveVars, ipcVars,
                 disturbed>>

TunHandler(ip) ==
  /\ server = "tun_packet"
  /\ Begin([command |-> "ENCRYPT", vpn_ip |-> ip])
  /\ UNCHANGED <<running, status, open, result, enclaveVars, ipcVars,
                 disturbed>>

(* kill(pid, 0): a process that has ended but was not waited for is there. *)
is_enclave_running == enc \notin {"none", "reaped"}

(* The loop ends, by the flag or because the idle branch misses the        *)
(* enclave: the cleanup begins with enclave_shutdown.                      *)
LeaveLoop ==
  /\ server = "loop"
  /\ ~running \/ ~is_enclave_running
  /\ Begin(SHUTDOWN)
  /\ UNCHANGED <<running, status, open, result, enclaveVars, ipcVars,
                 disturbed>>

(* A SIGTERM or SIGINT reaches the enclave: it is noted, or kills a        *)
(* process that has not come to signal() yet.                              *)
Interrupt ==
  \/ /\ enc \in Alive
     /\ enclave_running' = FALSE
     /\ UNCHANGED <<enc, km, conn, to_enclave>>
  \/ enc = "boot" /\ Gone /\ UNCHANGED enclave_running

(* The child is collected and main goes on to its end. *)
Collect ==
  /\ enc' = "reaped"
  /\ server' = IF status = 0 THEN "stopped" ELSE "failed"
  /\ open' = IF status = 0 THEN open \ {"udp", "tun"} ELSE open
  /\ UNCHANGED <<running, status, call, result, km0, enclave_running,
                 to_server, disturbed>>

(* SIGTERM, and waitpid without waiting: it has ended, or is given time.   *)
stop_enclave_process ==
  /\ server = "stop"
  /\ \/ enc = "zombie" /\ Collect /\ UNCHANGED <<km, conn, to_enclave>>
     \/ /\ Interrupt
        /\ server' = "grace"
        /\ UNCHANGED <<running, status, open, call, result, km0, to_server,
                       disturbed>>

(* The time is over: collected, or killed and collected. *)
EndOfGrace ==
  /\ server = "grace"
  /\ Collect
  /\ km' = NoKeys
  /\ conn' = IF conn = "none" THEN conn ELSE "reset"
  /\ to_enclave' = <<>>

ServerStep ==
  \/ \E ok \in BOOLEAN : Fork(ok) \/ Connect(ok) \/ SetupStage(ok)
  \/ Send \/ Receive \/ ReceiveFails
  \/ \E ip \in Ip : TunHandler(ip)
  \/ LeaveLoop \/ stop_enclave_process \/ EndOfGrace

Packet == \E r \in HandlerRequest : Handler(r)

-----------------------------------------------------------------------------
(* SIGTERM to the server; or Ctrl+C, which the terminal sends to both      *)
(* processes.                                                              *)
Term ==
  /\ server \notin Ended \cup {"start"}
  /\ running' = FALSE
  /\ UNCHANGED <<server, status, open, call, result, km0, enclaveVars, ipcVars,
                 disturbed>>

CtrlC ==
  /\ server \notin Ended \cup {"start"}
  /\ Interrupt
  /\ running' = FALSE
  /\ disturbed' = TRUE
  /\ UNCHANGED <<server, status, open, call, result, km0, to_server>>

(* Either process may be killed from outside, or crash. *)
EnclaveCrash ==
  /\ enc \in Alive
  /\ Gone
  /\ disturbed' = TRUE
  /\ UNCHANGED <<serverVars, enclave_running, to_server>>

ServerCrash ==
  /\ server \notin Ended
  /\ server' = "killed"
  /\ open' = {}
  /\ to_server' = <<>>
  /\ enc' = IF enc = "zombie" THEN "reaped" ELSE enc
  /\ disturbed' = TRUE
  /\ UNCHANGED <<running, status, call, result, km0, enclave_running, km, conn,
                 to_enclave>>

Next ==
  \/ ServerStep \/ Packet \/ EnclaveStep
  \/ Term \/ CtrlC \/ EnclaveCrash \/ ServerCrash

Spec == Init /\ [][Next]_vars

(* Both processes run; packets, signals and crashes need not come. *)
FairSpec == Spec /\ WF_vars(ServerStep) /\ WF_vars(EnclaveStep)

-----------------------------------------------------------------------------
(* Every call the server makes is one indivisible operation on the         *)
(* enclave's key table, carried out exactly once and answered with its own *)
(* answer, or fails because the enclave has ended: what the handlers of    *)
(* VpnServer rely on.  A call counts as carried out when its answer is     *)
(* read; an enclave that ended is still up while its last answer is        *)
(* unread.                                                                 *)
EnclavePhase ==
  IF enc \in {"none", "boot"} THEN "new"
  ELSE IF enc \in Serving \/ to_server # <<>> THEN "up" ELSE "down"

EnclaveKeys ==
  IF EnclavePhase # "up" THEN NoKeys ELSE IF call # NoCall THEN km0 ELSE km

Service == INSTANCE EnclaveService WITH
  phase     <- EnclavePhase,
  keys      <- EnclaveKeys,
  FreshKeys <- {init_key_manager(sk) : sk \in ServerKey}

CallsAreAtomic == Service!Spec

(* A server that returns from main has closed what it opened, and no       *)
(* enclave survives it, whichever stage of the setup failed and however    *)
(* the loop was left; nor does one if SIGPIPE ends the server.             *)
NothingLeftBehind ==
  /\ server \in {"stopped", "failed"} => open = {}
  /\ server \in {"stopped", "failed", "sigpipe"} => enc \in {"none", "reaped"}

(* Without a crash and without Ctrl+C the enclave is there for every call  *)
(* until the server lets it go: no call waits on a closed stream, and the  *)
(* server's cleanup is not cut short by SIGPIPE.                           *)
OrderlyUnlessDisturbed ==
  ~disturbed => /\ server # "sigpipe"
                /\ server = "wait" /\ conn = "reset" => to_server # <<>>

(* Once asked to stop, the server ends, though its recv() has no timeout   *)
(* and is restarted after a signal: the enclave answers or its end closes  *)
(* the stream.                                                             *)
SignalEndsServer == ~running ~> server \in Ended

(* An enclave that has died is noticed: the server does not go on without  *)
(* it.                                                                     *)
DeathNoticed == enc = "zombie" ~> server \in Ended

=============================================================================
