--------------------------- MODULE VmServiceSteps ---------------------------
(***************************************************************************)
(* What the proofs about VmService say of its steps, and how rows, VMs and *)
(* requests fit together.                                                  *)
(***************************************************************************)
EXTENDS VmService

(* What a step does to the requests: the one of thread t goes on to step   *)
(* s, ends, or begins; the others stay as they are.                        *)
Others(t) == \A u \in Thread : u # t => req'[u] = req[u]
SameData(t) ==
  /\ req'[t].op = req[t].op /\ req'[t].row = req[t].row
  /\ req'[t].vmid = req[t].vmid /\ req'[t].ip = req[t].ip
  /\ req'[t].used = req[t].used /\ req'[t].dirty = req[t].dirty
Moved(t, s) == Others(t) /\ SameData(t) /\ req'[t].step = s
Ended(t) == Others(t) /\ req'[t] = Idle
Begun(t, op, step, r, vmid, used, dirty) ==
  /\ Others(t) /\ req[t] = Idle
  /\ req'[t].op = op /\ req'[t].step = step /\ req'[t].row = r
  /\ req'[t].vmid = vmid /\ req'[t].ip = 0 /\ req'[t].used = used
  /\ req'[t].dirty = dirty
Dirty(op, r) == op \in {"start", "stop"} => rows[r].status # StatusAfter(op)

(* Types, one variable at a time; the numbers of the VMs are bounded. *)
Bounded == \E b \in Nat : \A v \in DOMAIN vms : v <= b
RowsType == DOMAIN rows \subseteq RowId /\ \A r \in DOMAIN rows : rows[r] \in Row
VmsType ==
  /\ DOMAIN vms \subseteq Nat /\ \A v \in DOMAIN vms : vms[v] \in Vm
  /\ Bounded
ReqType == req \in [Thread -> Request]

(* Row ids: a creation has its own, which is not in the table yet. *)
IdsInv ==
  /\ \A r \in DOMAIN rows : r <= created
  /\ \A t \in Thread : req[t].op = "create" =>
       req[t].row <= created /\ req[t].row \notin DOMAIN rows
  /\ \A t, u \in Thread :
       req[t].op = "create" /\ req[u].op = "create" /\ req[t].row = req[u].row => t = u

(***************************************************************************)
(* How rows, VMs and requests fit together until a request fails halfway   *)
(* or two are about one VM.  A row is live until Proxmox has deleted its   *)
(* VM.  Live rows and finished clones have VMs, each its own; every other  *)
(* VM is being deleted; a VM runs only if its row says so or a start is    *)
(* about to be committed.                                                  *)
(***************************************************************************)
Calm == hist \cap {"half_done", "same_vm"} = {}
OnRow(q) == q.op \in {"start", "stop", "delete"}
Removed(q) == q.op = "delete" /\ q.step = "save"
Started(q) == q.op = "start" /\ q.step = "save"
Stopped(q) == q.op = "stop" /\ q.step = "save"
Live(r) == r \in DOMAIN rows /\ \A t \in Thread : Removed(req[t]) => req[t].row # r
StartedOn(r) == \E t \in Thread : Started(req[t]) /\ req[t].row = r

RowHasVm(r) ==
  /\ rows[r].vmid \in DOMAIN vms
  /\ vms[rows[r].vmid].status # "deleting"
  /\ vms[rows[r].vmid].ip \in {0, rows[r].ip}
  /\ vms[rows[r].vmid].status = "running" => rows[r].status = "RUNNING" \/ StartedOn(r)
CloneHasVm(q) ==
  /\ q.vmid \in DOMAIN vms
  /\ vms[q.vmid].status \in {"cloning", "stopped"}
  /\ vms[q.vmid].ip \in {0, q.ip}
RequestHasRow(q) ==
  /\ q.row \in DOMAIN rows /\ q.vmid = rows[q.row].vmid
  /\ q.op # "delete" /\ ~q.dirty => rows[q.row].status = StatusAfter(q.op)

RowsHave == \A r \in DOMAIN rows : Live(r) => RowHasVm(r)
RowsDiffer ==
  \A q, r \in DOMAIN rows : Live(q) /\ Live(r) /\ rows[q].vmid = rows[r].vmid => q = r
ClonesHave == \A t \in Thread : Cloned(req[t]) => CloneHasVm(req[t])
ClonesDiffer ==
  /\ \A t \in Thread, r \in DOMAIN rows :
       Cloned(req[t]) /\ Live(r) => rows[r].vmid # req[t].vmid
  /\ \A t, u \in Thread :
       Cloned(req[t]) /\ Cloned(req[u]) /\ req[t].vmid = req[u].vmid => t = u
Owned(v) ==
  \/ \E t \in Thread : Cloned(req[t]) /\ req[t].vmid = v
  \/ \E r \in DOMAIN rows : Live(r) /\ rows[r].vmid = v
VmsHave == \A v \in DOMAIN vms : vms[v].status = "deleting" \/ Owned(v)
RequestsHave == \A t \in Thread : OnRow(req[t]) => RequestHasRow(req[t])
RequestsDiffer ==
  \A t, u \in Thread :
    OnRow(req[t]) /\ OnRow(req[u]) /\ req[t].row = req[u].row => t = u
StopsWork ==
  \A t \in Thread : Stopped(req[t]) /\ req[t].vmid \in DOMAIN vms =>
    vms[req[t].vmid].status # "running"

Match ==
  /\ RowsHave /\ RowsDiffer /\ ClonesHave /\ ClonesDiffer /\ VmsHave
  /\ RequestsHave /\ RequestsDiffer /\ StopsWork
MatchInv == Calm => Match

=============================================================================
