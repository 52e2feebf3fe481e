------------------------------ MODULE VmService ------------------------------
(***************************************************************************)
(* The VM service of the web application (VmServiceImpl.java), the client  *)
(* of the Proxmox API it uses (ProxmoxApiService.java), the database and   *)
(* Proxmox.  Requests run concurrently, one per thread, and nothing locks: *)
(* each is a database transaction around several remote calls.             *)
(*                                                                         *)
(* Database and Proxmox are external.  A transaction reads the rows as     *)
(* they were at its first query (MySQL's repeatable read) and writes when  *)
(* it commits; a commit may fail, and changing or deleting a row that is   *)
(* gone does.  Proxmox rejects calls with an old ticket, may refuse any    *)
(* other call, and clones and deletes VMs in tasks that end later.         *)
(***************************************************************************)
EXTENDS Naturals, FiniteSetsExt

CONSTANTS
  Thread,
  FIRST_IP, LAST_IP,    \* last byte of the internal addresses: 9 to 99
  FIRST_VMID,           \* 100
  TEMPLATE,             \* proxmox.template-vmid
  EXISTING,             \* VMs that exist when the application starts
  MAX_CREATED,          \* bound: VMs asked for, those included
  MAX_EXPIRED           \* bound: tickets that expire

ASSUME VmServiceAssumption ==
  /\ {FIRST_IP, LAST_IP, FIRST_VMID, TEMPLATE, EXISTING, MAX_CREATED,
      MAX_EXPIRED} \subseteq Nat
  /\ FIRST_IP > 0 /\ EXISTING <= MAX_CREATED
  /\ FIRST_IP + EXISTING <= LAST_IP + 1 /\ FIRST_VMID + EXISTING <= TEMPLATE

VARIABLES
  rows,      \* the committed rows of table vmachine, by their id
  vms,       \* the VMs at Proxmox, by their number
  ticket,    \* the cached ticket, 0: null
  valid,     \* the ticket Proxmox accepts
  req,       \* what each thread is doing
  created,   \* the number of VMs asked for so far: the next row id
  hist       \* history: which of Incidents have happened

vars == <<rows, vms, ticket, valid, req, created, hist>>

(***************************************************************************)
(* hist records events after which database and Proxmox may differ: a      *)
(* request that failed after Proxmox had done its part, two requests for   *)
(* one VM at a time, and two creations at a time.  No action reads it.     *)
(***************************************************************************)
Incidents == {"half_done", "same_vm", "creations"}

Ip == FIRST_IP .. LAST_IP
RowId == 1 .. MAX_CREATED
VmStatus == {"STOPPED", "RUNNING"}
Row == [vmid : Nat, ip : Ip, status : VmStatus]
Vm == [status : {"cloning", "stopped", "running", "deleting"}, ip : Ip \cup {0}]

Remote == {"next", "clone", "wait", "configure", "start", "stop", "delete", "get"}
Request ==
  [op : {"none", "create", "start", "stop", "delete", "get"},
   step : Remote \cup {"idle", "save"}, row : RowId \cup {0}, vmid : Nat,
   ip : Ip \cup {0}, used : SUBSET Ip, dirty : BOOLEAN, auth : Nat]
Idle ==
  [op |-> "none", step |-> "idle", row |-> 0, vmid |-> 0, ip |-> 0, used |-> {},
   dirty |-> FALSE, auth |-> 0]

(* Every variable holds a value of the data structure the code declares.   *)
TypeOK ==
  /\ DOMAIN rows \subseteq RowId /\ \A r \in DOMAIN rows : rows[r] \in Row
  /\ DOMAIN vms \subseteq Nat /\ \A v \in DOMAIN vms : vms[v] \in Vm
  /\ ticket \in 0 .. valid /\ valid \in 1 .. MAX_EXPIRED + 1
  /\ req \in [Thread -> Request]
  /\ created \in 0 .. MAX_CREATED
  /\ hist \subseteq Incidents

(* The application starts, without a ticket, on what it left behind: VMs   *)
(* created one after the other.                                            *)
Init ==
  /\ rows = [r \in 1 .. EXISTING |->
              [vmid |-> FIRST_VMID + r - 1, ip |-> FIRST_IP + r - 1,
               status |-> "STOPPED"]]
  /\ vms = [v \in FIRST_VMID .. FIRST_VMID + EXISTING - 1 |->
             [status |-> "stopped", ip |-> FIRST_IP + (v - FIRST_VMID)]]
  /\ ticket = 0 /\ valid = 1
  /\ req = [t \in Thread |-> Idle]
  /\ created = EXISTING /\ hist = {}

With(f, x, y) == [z \in DOMAIN f \cup {x} |-> IF z = x THEN y ELSE f[z]]
Without(f, x) == [z \in DOMAIN f \ {x} |-> f[z]]

-----------------------------------------------------------------------------
(* The requests.  The addresses in use are those of the rows the           *)
(* transaction sees.                                                       *)
Begin(t, op, step, r, vmid, used, dirty, incidents) ==
  /\ req[t] = Idle
  /\ req' = [req EXCEPT ![t] =
               [op |-> op, step |-> step, row |-> r, vmid |-> vmid, ip |-> 0,
                used |-> used, dirty |-> dirty, auth |-> 0]]
  /\ hist' = hist \cup incidents

createVm(t) ==
  /\ created < MAX_CREATED
  /\ created' = created + 1
  /\ Begin(t, "create", "next", created', 0,
           {rows[r].ip : r \in DOMAIN rows}, TRUE,
           {i \in {"creations"} : \E u \in Thread : req[u].op = "create"})
  /\ UNCHANGED <<rows, vms, ticket, valid>>

(* startVm, stopVm, deleteVm and getVm of an existing VM.  A status that   *)
(* is set to what was read is not written.                                 *)
StatusAfter(op) == IF op = "start" THEN "RUNNING" ELSE "STOPPED"

OnVm(t, op, r) ==
  /\ Begin(t, op, op, r, rows[r].vmid, {},
           op \in {"start", "stop"} => rows[r].status # StatusAfter(op),
           {i \in {"same_vm"} :
              op # "get" /\ \E u \in Thread : req[u].op # "get" /\ req[u].row = r})
  /\ UNCHANGED <<rows, vms, ticket, valid, created>>

Goto(t, step) == req' = [req EXCEPT ![t].step = step, ![t].auth = 0]

(* An exception ends the request and rolls its transaction back. *)
Done(q) == q.step \in {"wait", "configure", "save"}
Fail(t, done) ==
  /\ req' = [req EXCEPT ![t] = Idle]
  /\ hist' = hist \cup {i \in {"half_done"} : done}

-----------------------------------------------------------------------------
(* A remote call is sent with the cached ticket, after a new one has been  *)
(* fetched if there is none.                                               *)
ensureAuthenticated(t) ==
  /\ req[t].step \in Remote /\ req[t].auth = 0
  /\ ticket' = IF ticket = 0 THEN valid ELSE ticket
  /\ req' = [req EXCEPT ![t].auth = ticket']
  /\ UNCHANGED <<rows, vms, valid, created, hist>>

Sent(t, step) == req[t].step = step /\ req[t].auth # 0
Accepted(t, step) == Sent(t, step) /\ req[t].auth = valid
(* A step of several calls, where later ones use the ticket cached then. *)
AllAccepted(t, step) == Sent(t, step) /\ valid \in {req[t].auth, ticket}

(* The calls that expect an old ticket: it is thrown away and another one  *)
(* fetched, whoever may have renewed it meanwhile, and the call is made    *)
(* again.  A thread that finds no ticket in between fetches the same one.  *)
RetryUnauthorized(t) ==
  /\ Sent(t, "next") \/ Sent(t, "get")
  /\ req[t].auth # valid
  /\ ticket' = valid
  /\ Goto(t, req[t].step)
  /\ UNCHANGED <<rows, vms, valid, created, hist>>

(* Mutant: a refused deletion is logged only. *)
RemoteFails_delete_logged(t) ==
  /\ req[t].step \in Remote
  /\ IF req[t].step \in {"configure", "delete"} THEN Goto(t, "save") /\ UNCHANGED hist
                                  ELSE Fail(t, Done(req[t]))
  /\ UNCHANGED <<rows, vms, ticket, valid, created>>

(* Mutant: a refused stop is logged only. *)
RemoteFails_stop_logged(t) ==
  /\ req[t].step \in Remote
  /\ IF req[t].step \in {"configure", "stop"} THEN Goto(t, "save") /\ UNCHANGED hist
                                  ELSE Fail(t, Done(req[t]))
  /\ UNCHANGED <<rows, vms, ticket, valid, created>>

(* Any call may be refused: for its ticket, by Proxmox, or because nobody  *)
(* answers.  Only the configuration may fail without consequences.         *)
RemoteFails(t) ==
  /\ req[t].step \in Remote
  /\ IF req[t].step = "configure" THEN Goto(t, "save") /\ UNCHANGED hist
                                  ELSE Fail(t, Done(req[t]))
  /\ UNCHANGED <<rows, vms, ticket, valid, created>>

(* The list of VMs, without the template. *)
VmIds == {v \in DOMAIN vms : v >= FIRST_VMID}
getNextVmId == IF VmIds = {} THEN FIRST_VMID ELSE Max(VmIds) + 1

(* Mutant: the addresses in use are not looked up. *)
allocateInternalIp_first(used) == Min(Ip)

allocateInternalIp(used) == Min(Ip \ used)

(* Mutant: the range ends one address too late. *)
NextVmId_one_more(t) ==
  /\ Accepted(t, "next")
  /\ req' = [req EXCEPT ![t].step = "clone", ![t].auth = 0,
                        ![t].vmid = getNextVmId, ![t].used = {},
                        ![t].ip = Min((FIRST_IP .. LAST_IP + 1) \ req[t].used)]
  /\ UNCHANGED <<rows, vms, ticket, valid, created, hist>>

NextVmId(t) ==
  /\ Accepted(t, "next")
  /\ IF Ip \subseteq req[t].used
     THEN Fail(t, FALSE)
     ELSE /\ req' = [req EXCEPT ![t].step = "clone", ![t].auth = 0,
                                ![t].vmid = getNextVmId, ![t].used = {},
                                ![t].ip = allocateInternalIp(req[t].used)]
          /\ UNCHANGED hist
  /\ UNCHANGED <<rows, vms, ticket, valid, created>>

(* A call takes effect at Proxmox; its answer may still be lost. *)
Effect(t, step) ==
  /\ \/ Goto(t, step) /\ UNCHANGED hist
     \/ Fail(t, TRUE)
  /\ UNCHANGED <<rows, ticket, valid, created>>

cloneVm(t) ==
  /\ Accepted(t, "clone")
  /\ req[t].vmid \notin DOMAIN vms \cup {TEMPLATE}
  /\ vms' = With(vms, req[t].vmid, [status |-> "cloning", ip |-> 0])
  /\ Effect(t, "wait")

(* waitForTask: until the clone is there or, after 120 s, although it is   *)
(* not.                                                                    *)
waitForTask(t) ==
  /\ AllAccepted(t, "wait")
  /\ Goto(t, "configure")
  /\ UNCHANGED <<rows, vms, ticket, valid, created, hist>>

Has(t, S) == req[t].vmid \in DOMAIN vms /\ vms[req[t].vmid].status \in S

(* configureVmSpec, resizeVmDisk and configureCloudInit; the last one only *)
(* if the request has an SSH key.                                          *)
configure(t) ==
  /\ AllAccepted(t, "configure")
  /\ Has(t, {"stopped", "running"})
  /\ \E ip \in {req[t].ip, vms[req[t].vmid].ip} :
       vms' = [vms EXCEPT ![req[t].vmid].ip = ip]
  /\ Goto(t, "save")
  /\ UNCHANGED <<rows, ticket, valid, created, hist>>

startVm(t) ==
  /\ Accepted(t, "start")
  /\ Has(t, {"stopped", "running"})
  /\ vms' = [vms EXCEPT ![req[t].vmid].status = "running"]
  /\ Effect(t, "save")

stopVm(t) ==
  /\ Accepted(t, "stop")
  /\ Has(t, {"stopped", "running"})
  /\ vms' = [vms EXCEPT ![req[t].vmid].status = "stopped"]
  /\ Effect(t, "save")

deleteVm(t) ==
  /\ Accepted(t, "delete")
  /\ Has(t, {"stopped"})
  /\ vms' = [vms EXCEPT ![req[t].vmid].status = "deleting"]
  /\ Effect(t, "save")

(* getVm shows the status Proxmox reports; its transaction is read-only,   *)
(* so that the row it saves is never written.                              *)
getVm(t) ==
  /\ Accepted(t, "get")
  /\ Fail(t, FALSE)
  /\ UNCHANGED <<rows, vms, ticket, valid, created>>

-----------------------------------------------------------------------------
(* The end of a request: its transaction commits. *)
RowsAfter(q) ==
  IF q.op = "create"
  THEN With(rows, q.row, [vmid |-> q.vmid, ip |-> q.ip, status |-> "STOPPED"])
  ELSE IF q.op = "delete" THEN Without(rows, q.row)
  ELSE IF q.dirty THEN [rows EXCEPT ![q.row].status = StatusAfter(q.op)]
  ELSE rows

Commit(t) ==
  /\ req[t].step = "save"
  /\ req[t].op # "create" /\ req[t].dirty => req[t].row \in DOMAIN rows
  /\ rows' = RowsAfter(req[t])
  /\ req' = [req EXCEPT ![t] = Idle]
  /\ UNCHANGED <<vms, ticket, valid, created, hist>>

CommitFails(t) ==
  /\ req[t].step = "save"
  /\ Fail(t, TRUE)
  /\ UNCHANGED <<rows, vms, ticket, valid, created>>

(* Proxmox by itself: tasks end, tickets expire, guests shut down. *)
CloneEnds(v) ==
  /\ vms[v].status = "cloning"
  /\ vms' = [vms EXCEPT ![v].status = "stopped"]
  /\ UNCHANGED <<rows, ticket, valid, req, created, hist>>

DeleteEnds(v) ==
  /\ vms[v].status = "deleting"
  /\ vms' = Without(vms, v)
  /\ UNCHANGED <<rows, ticket, valid, req, created, hist>>

GuestStops(v) ==
  /\ vms[v].status = "running"
  /\ vms' = [vms EXCEPT ![v].status = "stopped"]
  /\ UNCHANGED <<rows, ticket, valid, req, created, hist>>

Expire ==
  /\ valid <= MAX_EXPIRED
  /\ valid' = valid + 1
  /\ UNCHANGED <<rows, vms, ticket, req, created, hist>>

Step(t) ==
  \/ ensureAuthenticated(t) \/ RetryUnauthorized(t) \/ RemoteFails(t)
  \/ NextVmId(t) \/ cloneVm(t) \/ waitForTask(t) \/ configure(t)
  \/ startVm(t) \/ stopVm(t) \/ deleteVm(t) \/ getVm(t)
  \/ Commit(t) \/ CommitFails(t)

NewRequest(t) ==
  \/ createVm(t)
  \/ \E op \in {"start", "stop", "delete", "get"}, r \in DOMAIN rows :
       OnVm(t, op, r)

Proxmox ==
  \/ \E v \in DOMAIN vms : CloneEnds(v) \/ DeleteEnds(v) \/ GuestStops(v)
  \/ Expire

Next == (\E t \in Thread : Step(t) \/ NewRequest(t)) \/ Proxmox

Spec == Init /\ [][Next]_vars

-----------------------------------------------------------------------------
(* Until one of the first two incidents, the database and Proxmox agree    *)
(* outside the requests under way: every row has its own VM, which has the *)
(* row's address if it was given one, and every VM has a row, however      *)
(* requests for different VMs interleave and VM numbers are used again.    *)
Cloned(q) == q.op = "create" /\ q.step \in {"wait", "configure", "save"}
Creating == {req[t].vmid : t \in {u \in Thread : Cloned(req[u])}}
Deleting == {req[t].row : t \in {u \in Thread : req[u].op = "delete"}}

RowsMatchVms ==
  hist \cap {"half_done", "same_vm"} = {} =>
    /\ \A r \in DOMAIN rows \ Deleting :
         /\ rows[r].vmid \in DOMAIN vms
         /\ vms[rows[r].vmid].status # "deleting"
         /\ vms[rows[r].vmid].ip \in {0, rows[r].ip}
         /\ \A q \in DOMAIN rows \ Deleting :
              rows[q].vmid = rows[r].vmid => q = r
    /\ \A v \in DOMAIN vms :
         \/ vms[v].status = "deleting"
         \/ v \in Creating
         \/ \E r \in DOMAIN rows : rows[r].vmid = v

(* A VM runs only if its row says so, except while a request changes it:   *)
(* a running VM is never shown as stopped, and is never lost sight of.     *)
Changing == {req[t].row : t \in {u \in Thread : req[u].op # "get"}}

RunningIsShown ==
  hist \cap {"half_done", "same_vm"} = {} =>
    \A v \in DOMAIN vms : vms[v].status = "running" =>
      \E r \in DOMAIN rows :
        rows[r].vmid = v /\ (rows[r].status = "RUNNING" \/ r \in Changing)

(* If creations do not overlap, no two VMs are given one internal address. *)
IpsUniqueUnlessConcurrent ==
  "creations" \notin hist =>
    \A q, r \in DOMAIN rows : rows[q].ip = rows[r].ip => q = r

=============================================================================
