-------------------------- MODULE VmServiceProofs ---------------------------
(***************************************************************************)
(* For any number of threads, addresses and requests: database and Proxmox *)
(* agree as long as no request failed halfway and no two were about one VM.*)
(***************************************************************************)
EXTENDS VmServiceRequestProofs, VmServiceMatchProofs

(* Row ids. *)
LEMMA IdsKept ==
  ASSUME IdsInv, UNCHANGED created, DOMAIN rows' \subseteq DOMAIN rows,
         \A u \in Thread : req'[u].op = "create" =>
           req[u].op = "create" /\ req'[u].row = req[u].row
  PROVE  IdsInv'
BY DEF IdsInv

LEMMA CommitIds ==
  ASSUME TInv, IdsInv, NEW t \in Thread, Commit(t)
  PROVE  IdsInv'
<1>1. ReqType /\ rows' = RowsAfter(req[t]) /\ UNCHANGED created
  BY TInvParts DEF Commit
<1>2. req'[t].op = "none" /\ \A u \in Thread : u # t => req'[u] = req[u]
  BY <1>1 DEF Commit, Idle, ReqType
<1>3. CASE req[t].op = "create"
  <2>1. DOMAIN rows' = DOMAIN rows \cup {req[t].row}
    BY <1>1, <1>3 DEF RowsAfter, With
  <2> QED BY <1>1, <1>2, <1>3, <2>1 DEF IdsInv
<1>4. CASE req[t].op # "create"
  <2>1. DOMAIN rows' \subseteq DOMAIN rows
    BY <1>1, <1>4 DEF RowsAfter, Without
  <2> QED BY <1>1, <1>2, <2>1, IdsKept
<1> QED BY <1>3, <1>4

LEMMA CreateIds ==
  ASSUME TInv, IdsInv, NEW t \in Thread, createVm(t)
  PROVE  IdsInv'
<1>1. created \in Nat /\ RowsType /\ ReqType
  BY TInvParts, VmServiceAssumption DEF RestType
<1>2. /\ req'[t].op = "create" /\ req'[t].row = created + 1
      /\ \A u \in Thread : u # t => req'[u] = req[u]
      /\ created' = created + 1 /\ UNCHANGED rows
  BY Zenon, CreateKind DEF Begun, Others
<1>3. \A r \in DOMAIN rows : r \in Nat
  BY <1>1, VmServiceAssumption DEF RowsType, RowId
<1>4. \A u \in Thread : req[u].row \in Nat
  BY <1>1, VmServiceAssumption DEF ReqType, Request, RowId
<1>5. \A r \in DOMAIN rows : r <= created' /\ r # created + 1
  BY <1>1, <1>2, <1>3 DEF IdsInv
<1>6. \A u \in Thread : u # t /\ req'[u].op = "create" =>
        /\ req'[u].row <= created' /\ req'[u].row # created + 1
        /\ req'[u].row \notin DOMAIN rows
  BY <1>1, <1>2, <1>4 DEF IdsInv
<1> QED BY <1>1, <1>2, <1>5, <1>6 DEF IdsInv

(* What the other steps of a thread do to creations. *)
LEMMA StepIds ==
  ASSUME TInv, Forms, IdsInv, NEW t \in Thread, Step(t)
  PROVE  IdsInv'
<1>1. CASE Commit(t)
  BY <1>1, CommitIds
<1>2. CASE ~Commit(t)
  <2>1. /\ UNCHANGED <<rows, created>>
        /\ \A u \in Thread : req'[u].op = "create" =>
             req[u].op = "create" /\ req'[u].row = req[u].row
    <3>1. \A s : Moved(t, s) => \A u \in Thread : req'[u].op = "create" =>
                                  req[u].op = "create" /\ req'[u].row = req[u].row
      BY DEF Moved, Others, SameData
    <3>2. Ended(t) => \A u \in Thread : req'[u].op = "create" =>
                        req[u].op = "create" /\ req'[u].row = req[u].row
      BY DEF Ended, Others, Idle
    <3>3. CASE ensureAuthenticated(t) \/ RetryUnauthorized(t)
      BY <3>1, <3>3, AuthKind
    <3>4. CASE waitForTask(t) \/ (RemoteFails(t) /\ req[t].step = "configure")
      BY <3>1, <3>4, GotoKind
    <3>5. CASE \/ RemoteFails(t) /\ req[t].step # "configure"
               \/ getVm(t)
               \/ NextVmId(t) /\ Ip \subseteq req[t].used
               \/ CommitFails(t)
      BY <3>2, <3>5, FailKind
    <3>6. CASE NextVmId(t) /\ ~(Ip \subseteq req[t].used)
      <4>1. UNCHANGED <<rows, created>>
        BY <3>6 DEF NextVmId
      <4> QED BY <3>6, <4>1, NextAllocates DEF Allocated, Others
    <3>7. CASE Call(t)
      <4>1. PICK s \in {"wait", "save"} : Effect(t, s)
        BY Zenon, <3>7, CallKind DEF Call
      <4> QED BY <3>1, <3>2, <4>1, EffectKind DEF Remote
    <3>8. CASE configure(t)
      BY Zenon, <3>1, <3>8, ConfigureKind
    <3> QED BY <1>2, <3>3, <3>4, <3>5, <3>6, <3>7, <3>8 DEF Step, Call
  <2> QED BY <2>1, IdsKept
<1> QED BY <1>1, <1>2

LEMMA NextIds ==
  ASSUME TInv, Forms, IdsInv, Next
  PROVE  IdsInv'
<1>1. ASSUME NEW t \in Thread, NEW op \in OnVmOp, NEW r \in DOMAIN rows, OnVm(t, op, r)
      PROVE  IdsInv'
  <2>1. op # "create"
    BY DEF OnVmOp
  <2> QED BY <1>1, <2>1, OnVmKind, IdsKept DEF Begun, Others
<1>2. ASSUME Proxmox
      PROVE  IdsInv'
  BY <1>2, IdsKept DEF Proxmox, CloneEnds, DeleteEnds, GuestStops, Expire
<1> QED BY <1>1, <1>2, StepIds, CreateIds DEF Next, NewRequest, OnVmOp

LEMMA InitIds == Init => IdsInv
<1>1. EXISTING \in Nat
  BY VmServiceAssumption
<1> QED BY <1>1 DEF Init, Idle, IdsInv

-----------------------------------------------------------------------------
(* Database and Proxmox. *)
LEMMA InitMatch == Init => Match
<1> SUFFICES ASSUME Init PROVE Match
  OBVIOUS
<1>1. EXISTING \in Nat /\ FIRST_VMID \in Nat /\ FIRST_IP \in Nat
  BY VmServiceAssumption
<1>2. \A t \in Thread : req[t] = Idle
  BY DEF Init
<1>3. \A r : (Live(r) <=> r \in 1 .. EXISTING)
  BY <1>2, IdleIsNone DEF Live, Init
<1>4. /\ DOMAIN rows = 1 .. EXISTING
      /\ DOMAIN vms = FIRST_VMID .. FIRST_VMID + EXISTING - 1
      /\ \A r \in 1 .. EXISTING : rows[r].vmid = FIRST_VMID + r - 1
                                  /\ rows[r].ip = FIRST_IP + r - 1
      /\ \A v \in DOMAIN vms : vms[v].status = "stopped"
                               /\ vms[v].ip = FIRST_IP + (v - FIRST_VMID)
  BY DEF Init
<1>5. ASSUME NEW r \in 1 .. EXISTING PROVE RowHasVm(r)
  <2>1. rows[r].vmid \in DOMAIN vms
    BY <1>1, <1>4
  <2>2. FIRST_IP + (rows[r].vmid - FIRST_VMID) = rows[r].ip
    BY <1>1, <1>4
  <2> QED BY <1>4, <2>1, <2>2 DEF RowHasVm
<1>6. RowsHave
  BY <1>3, <1>5 DEF RowsHave
<1>7. RowsDiffer
  BY <1>1, <1>4 DEF RowsDiffer
<1>8. ASSUME NEW v \in DOMAIN vms PROVE Owned(v)
  <2>1. v - FIRST_VMID + 1 \in 1 .. EXISTING
    BY <1>1, <1>4
  <2>2. rows[v - FIRST_VMID + 1].vmid = v
    BY <1>1, <1>4, <2>1
  <2> QED BY <1>3, <1>4, <2>1, <2>2 DEF Owned
<1>9. VmsHave
  BY <1>8 DEF VmsHave
<1>10. ClonesHave /\ ClonesDiffer
  BY <1>2, IdleIsNone DEF ClonesHave, ClonesDiffer
<1>11. RequestsHave /\ RequestsDiffer /\ StopsWork
  BY <1>2, IdleIsNone DEF RequestsHave, RequestsDiffer, StopsWork
<1> QED BY <1>6, <1>7, <1>9, <1>10, <1>11 DEF Match

(* Steps after which every request is as before, or irrelevant. *)
LEMMA QuietMatch ==
  ASSUME TInv, Forms, Match, NEW t \in Thread,
         \/ ensureAuthenticated(t) \/ RetryUnauthorized(t)
         \/ waitForTask(t) \/ (RemoteFails(t) /\ req[t].step = "configure")
         \/ NextVmId(t) /\ ~(Ip \subseteq req[t].used)
  PROVE  Match'
<1>1. ReqType
  BY TInvParts
<1>2. CASE ensureAuthenticated(t) \/ RetryUnauthorized(t)
  <2>1. Moved(t, req[t].step) /\ UNCHANGED <<rows, vms>>
    BY <1>2, AuthKind
  <2>2. \A u \in Thread : Alike(req[u], req'[u])
    BY <2>1 DEF Moved, Others, SameData, Alike, Cloned
  <2> QED BY <2>1, <2>2, AlikeMatch
<1>3. CASE waitForTask(t) \/ (RemoteFails(t) /\ req[t].step = "configure")
  <2>1. PICK s \in {"configure", "save"} :
          /\ Moved(t, s) /\ req[t].step \in {"wait", "configure"}
          /\ UNCHANGED <<rows, vms>>
    BY <1>3, GotoKind
  <2>2. req[t].op = "create"
    BY <1>1, <2>1, OpOfStep
  <2>3. \A u \in Thread : Alike(req[u], req'[u])
    BY <2>1, <2>2 DEF Moved, Others, SameData, Alike, Cloned, OnRow
  <2> QED BY <2>1, <2>3, AlikeMatch
<1>4. CASE NextVmId(t) /\ ~(Ip \subseteq req[t].used)
  <2>1. UNCHANGED <<rows, vms>> /\ req[t].step = "next"
    BY <1>4 DEF NextVmId, Accepted, Sent
  <2>2. req[t].op = "create"
    BY <1>1, <2>1, OpOfStep
  <2>3. Allocated(t)
    BY <1>4, NextAllocates
  <2>4. \A u \in Thread : Alike(req[u], req'[u])
    BY <2>1, <2>2, <2>3 DEF Allocated, Others, Alike, Irrelevant, Cloned, OnRow
  <2> QED BY <2>1, <2>4, AlikeMatch
<1> QED BY <1>2, <1>3, <1>4

(* An exception before Proxmox has done anything. *)
LEMMA FailMatch ==
  ASSUME TInv, Match, Calm', NEW t \in Thread,
         \/ RemoteFails(t) /\ req[t].step # "configure"
         \/ getVm(t)
         \/ NextVmId(t) /\ Ip \subseteq req[t].used
         \/ CommitFails(t)
  PROVE  Match'
<1>1. Ended(t) /\ UNCHANGED <<rows, vms>> /\ ~Done(req[t])
  BY FailKind DEF Calm
<1>2. req[t].step # "save" /\ ~Cloned(req[t])
  BY <1>1 DEF Done, Cloned
<1> QED BY <1>1, <1>2, EndedMatch

(* A call whose answer arrives. *)
LEMMA CallsMatch ==
  ASSUME TInv, Forms, Match, Calm', NEW t \in Thread, Call(t)
  PROVE  Match'
<1>1. ReqType /\ VmsType
  BY TInvParts
<1>2. \A s \in {"wait", "save"} : Effect(t, s) => Moved(t, s) /\ UNCHANGED rows
  BY EffectKind DEF Remote, Calm
<1>3. CASE cloneVm(t)
  <2>1. /\ Effect(t, "wait") /\ req[t].step = "clone" /\ req[t].vmid \notin DOMAIN vms
        /\ vms' = With(vms, req[t].vmid, [status |-> "cloning", ip |-> 0])
    BY Zenon, <1>3, CallKind
  <2>2. req[t].op = "create" /\ Moved(t, "wait") /\ UNCHANGED rows
    BY <1>1, <1>2, <2>1, OpOfStep
  <2> QED BY <2>1, <2>2, CloneMatch
<1>4. CASE startVm(t) \/ stopVm(t) \/ deleteVm(t)
  <2>1. /\ Effect(t, "save") /\ req[t].step \in {"start", "stop", "delete"}
        /\ req[t].vmid \in DOMAIN vms
        /\ vms' = [vms EXCEPT ![req[t].vmid].status = CallStatus(req[t].step)]
    BY Zenon, <1>4, CallKind DEF Has, CallStatus
  <2>2. /\ req[t].op = req[t].step /\ OnRow(req[t])
        /\ Moved(t, "save") /\ UNCHANGED rows
    BY <1>1, <1>2, <2>1, OpOfStep DEF OnRow
  <2>3. Touched(req[t].vmid, CallStatus(req[t].op))
    BY Zenon, <1>1, <2>1, <2>2, StatusTouches
  <2> QED BY <2>2, <2>3, CallMatch
<1> QED BY <1>3, <1>4 DEF Call

LEMMA ConfiguresMatch ==
  ASSUME TInv, Forms, Match, NEW t \in Thread, configure(t)
  PROVE  Match'
<1>1. ReqType /\ VmsType
  BY TInvParts
<1>2. /\ Moved(t, "save") /\ UNCHANGED rows /\ req[t].vmid \in DOMAIN vms
      /\ req[t].step = "configure"
  BY Zenon, ConfigureKind
<1>3. PICK ip \in {req[t].ip, vms[req[t].vmid].ip} :
        vms' = [vms EXCEPT ![req[t].vmid].ip = ip]
  BY ConfigureKind
<1>4. req[t].op = "create"
  BY <1>1, <1>2, OpOfStep
<1> QED BY Zenon, <1>1, <1>2, <1>3, <1>4, ConfigureMatch

LEMMA CommitsMatch ==
  ASSUME TInv, Forms, IdsInv, Match, NEW t \in Thread, Commit(t)
  PROVE  Match'
<1>1. ReqType /\ RowsType
  BY TInvParts
<1>2. req[t].step = "save" /\ rows' = RowsAfter(req[t]) /\ UNCHANGED vms
  BY DEF Commit
<1>3. Ended(t)
  BY Zenon, <1>1, FailEnds DEF Commit
<1>4. PICK r0 : r0 = req[t].row
  OBVIOUS
<1>5. CASE req[t].op = "create"
  <2>1. Cloned(req[t]) /\ r0 \notin DOMAIN rows
    BY <1>2, <1>4, <1>5 DEF Cloned, IdsInv
  <2>2. rows' = With(rows, r0, [vmid |-> req[t].vmid, ip |-> req[t].ip, status |-> "STOPPED"])
    BY <1>2, <1>4, <1>5 DEF RowsAfter
  <2> QED BY <1>2, <1>3, <2>1, <2>2, CommitCreateMatch
<1>6. CASE req[t].op = "delete"
  <2>1. Removed(req[t]) /\ rows' = Without(rows, r0)
    BY <1>2, <1>4, <1>6 DEF Removed, RowsAfter
  <2> QED BY <1>2, <1>3, <1>4, <2>1, CommitDeleteMatch
<1>7. CASE req[t].op \in {"start", "stop"}
  <2>1. (Started(req[t]) \/ Stopped(req[t])) /\ OnRow(req[t])
    BY <1>2, <1>7 DEF Started, Stopped, OnRow
  <2>2. r0 \in DOMAIN rows /\ (~req[t].dirty => rows[r0].status = StatusAfter(req[t].op))
    BY <1>4, <1>7, <2>1 DEF Match, RequestsHave, RequestHasRow
  <2>3. /\ DOMAIN rows' = DOMAIN rows
        /\ \A r \in DOMAIN rows : /\ r # r0 => rows'[r] = rows[r]
                                  /\ rows'[r].vmid = rows[r].vmid /\ rows'[r].ip = rows[r].ip
        /\ rows'[r0].status = StatusAfter(req[t].op)
    <3>1. CASE req[t].dirty
      <4>1. rows' = [rows EXCEPT ![r0].status = StatusAfter(req[t].op)]
        BY <1>2, <1>4, <1>7, <3>1 DEF RowsAfter
      <4> QED BY <1>1, <2>2, <4>1 DEF RowsType, Row
    <3>2. CASE ~req[t].dirty
      BY <1>2, <1>7, <2>2, <3>2 DEF RowsAfter
    <3> QED BY <3>1, <3>2
  <2> QED BY <1>2, <1>3, <1>4, <2>1, <2>3, CommitStatusMatch
<1> QED BY <1>1, <1>2, <1>5, <1>6, <1>7, OpOfStep

LEMMA NewMatch ==
  ASSUME TInv, Match, Calm', NEW t \in Thread, NewRequest(t)
  PROVE  Match'
<1>1. CASE createVm(t)
  <2>1. /\ Begun(t, "create", "next", created + 1, 0, UsedIps, TRUE)
        /\ UNCHANGED <<rows, vms>>
    BY Zenon, <1>1, CreateKind
  <2>2. \A u \in Thread : Alike(req[u], req'[u])
    BY <2>1, IdleIsNone DEF Begun, Others, Alike, Irrelevant, Cloned, OnRow
  <2> QED BY <2>1, <2>2, AlikeMatch
<1>2. ASSUME NEW op \in OnVmOp, NEW r \in DOMAIN rows, OnVm(t, op, r)
      PROVE  Match'
  <2>1. /\ Begun(t, op, op, r, rows[r].vmid, {}, Dirty(op, r))
        /\ UNCHANGED <<rows, vms>>
        /\ op # "get" => \A u \in Thread : req[u].op # "get" => req[u].row # r
    BY <1>2, OnVmKind DEF Calm
  <2>2. CASE op = "get"
    <3>1. \A u \in Thread : Alike(req[u], req'[u])
      BY <2>1, <2>2, IdleIsNone DEF Begun, Others, Alike, Irrelevant, Cloned, OnRow
    <3> QED BY <2>1, <3>1, AlikeMatch
  <2>3. CASE op \in {"start", "stop", "delete"}
    BY <2>1, <2>3, BegunMatch
  <2> QED BY <2>2, <2>3 DEF OnVmOp
<1> QED BY <1>1, <1>2 DEF NewRequest, OnVmOp

LEMMA NextMatch ==
  ASSUME TInv, Forms, IdsInv, MatchInv, Next
  PROVE  MatchInv'
<1> SUFFICES ASSUME Calm' PROVE Match'
  BY DEF MatchInv
<1>1. hist \subseteq hist'
  <2>1. ASSUME NEW t \in Thread, Step(t) PROVE hist \subseteq hist'
    BY Zenon, <2>1 DEF Step, ensureAuthenticated, RetryUnauthorized, RemoteFails, NextVmId,
       cloneVm, waitForTask, configure, startVm, stopVm, deleteVm, getVm, Commit,
       CommitFails, Effect, Fail
  <2>2. ASSUME NEW t \in Thread, NewRequest(t) PROVE hist \subseteq hist'
    BY <2>2 DEF NewRequest, createVm, OnVm, Begin
  <2>3. ASSUME Proxmox PROVE hist \subseteq hist'
    BY <2>3 DEF Proxmox, CloneEnds, DeleteEnds, GuestStops, Expire
  <2> QED BY <2>1, <2>2, <2>3 DEF Next
<1>2. Match
  BY <1>1 DEF MatchInv, Calm
<1>3. ASSUME NEW t \in Thread, Step(t) PROVE Match'
  BY <1>2, <1>3, QuietMatch, FailMatch, CallsMatch, ConfiguresMatch, CommitsMatch
     DEF Step, Call
<1>4. ASSUME NEW v \in DOMAIN vms, CloneEnds(v) \/ DeleteEnds(v) \/ GuestStops(v)
      PROVE  Match'
  <2>1. VmsType /\ UNCHANGED <<rows, req>>
    BY <1>4, TInvParts DEF CloneEnds, DeleteEnds, GuestStops
  <2> QED BY <1>2, <1>4, <2>1, ProxmoxMatch
<1>5. ASSUME Expire PROVE Match'
  <2>1. UNCHANGED <<rows, vms, req>>
    BY <1>5 DEF Expire
  <2>2. \A u \in Thread : Alike(req[u], req'[u])
    BY <2>1 DEF Alike
  <2> QED BY <1>2, <2>1, <2>2, AlikeMatch
<1> QED BY <1>2, <1>3, <1>4, <1>5, NewMatch DEF Next, Proxmox

LEMMA SameMatch == IdsInv /\ MatchInv /\ UNCHANGED vars => IdsInv' /\ MatchInv'
<1> SUFFICES ASSUME IdsInv, MatchInv, UNCHANGED vars PROVE IdsInv' /\ MatchInv'
  OBVIOUS
<1>1. UNCHANGED <<rows, vms, req, created, hist>>
  BY DEF vars
<1>2. IdsInv'
  BY <1>1 DEF IdsInv
<1>3. \A u \in Thread : Alike(req[u], req'[u])
  BY <1>1 DEF Alike
<1> QED BY <1>1, <1>2, <1>3, AlikeMatch DEF MatchInv, Calm

(* The invariant the two theorems below rest on. *)
FitInv == TInv /\ Forms /\ IdsInv /\ MatchInv

LEMMA InitFit == Init => FitInv
<1>1. Init => Match
  BY InitMatch
<1> QED BY <1>1, InitTypes, InitForms, InitIds DEF FitInv, MatchInv

LEMMA NextFit == FitInv /\ [Next]_vars => FitInv'
<1>1. FitInv /\ Next => TInv' /\ Forms' /\ IdsInv' /\ MatchInv'
  BY NextTypes, NextIds, NextMatch DEF FitInv
<1>2. FitInv /\ UNCHANGED vars => TInv' /\ Forms' /\ IdsInv' /\ MatchInv'
  BY SameTInv, SameMatch DEF FitInv
<1> QED BY <1>1, <1>2 DEF FitInv

(* As long as no request fails after Proxmox has done its part and no two  *)
(* requests are about one VM, every row of the database has its own VM     *)
(* with its address, and every VM its row, whatever interleaves: the       *)
(* requests of VmServiceImpl and the tasks of Proxmox.                     *)
THEOREM RowsAndVmsMatch == Spec => []RowsMatchVms
<1>1. FitInv => RowsMatchVms
  <2> SUFFICES ASSUME FitInv, hist \cap {"half_done", "same_vm"} = {}
               PROVE  /\ \A r \in DOMAIN rows \ Deleting :
                           /\ rows[r].vmid \in DOMAIN vms
                           /\ vms[rows[r].vmid].status # "deleting"
                           /\ vms[rows[r].vmid].ip \in {0, rows[r].ip}
                           /\ \A q \in DOMAIN rows \ Deleting :
                                rows[q].vmid = rows[r].vmid => q = r
                      /\ \A v \in DOMAIN vms :
                           \/ vms[v].status = "deleting"
                           \/ v \in Creating
                           \/ \E r \in DOMAIN rows : rows[r].vmid = v
    BY DEF RowsMatchVms
  <2>1. Match
    BY DEF FitInv, MatchInv, Calm
  <2>2. \A r \in DOMAIN rows \ Deleting : Live(r)
    BY DEF Deleting, Live, Removed
  <2>3. \A r \in DOMAIN rows \ Deleting : RowHasVm(r)
    BY <2>1, <2>2 DEF Match, RowsHave
  <2>4. \A q, r \in DOMAIN rows \ Deleting : rows[q].vmid = rows[r].vmid => q = r
    BY <2>1, <2>2 DEF Match, RowsDiffer
  <2>5. ASSUME NEW v \in DOMAIN vms, vms[v].status # "deleting"
        PROVE  v \in Creating \/ \E r \in DOMAIN rows : rows[r].vmid = v
    BY <2>1, <2>5 DEF Match, VmsHave, Owned, Creating
  <2> QED BY <2>3, <2>4, <2>5 DEF RowHasVm
<1> QED BY <1>1, InitFit, NextFit, PTL DEF Spec

(* Under the same condition a VM runs only if its row says so, unless a    *)
(* request about it is under way: startVm and stopVm leave no VM running   *)
(* that the database shows as stopped.                                     *)
THEOREM RunningVmsShown == Spec => []RunningIsShown
<1>1. FitInv => RunningIsShown
  <2> SUFFICES ASSUME FitInv, hist \cap {"half_done", "same_vm"} = {},
                      NEW v \in DOMAIN vms, vms[v].status = "running"
               PROVE  \E r \in DOMAIN rows :
                        rows[r].vmid = v /\ (rows[r].status = "RUNNING" \/ r \in Changing)
    BY DEF RunningIsShown
  <2>1. Match
    BY DEF FitInv, MatchInv, Calm
  <2>2. \A t \in Thread : Cloned(req[t]) => req[t].vmid # v
    BY <2>1 DEF Match, ClonesHave, CloneHasVm
  <2>3. PICK r \in DOMAIN rows : Live(r) /\ rows[r].vmid = v
    BY <2>1, <2>2 DEF Match, VmsHave, Owned
  <2>4. rows[r].status = "RUNNING" \/ StartedOn(r)
    BY <2>1, <2>3 DEF Match, RowsHave, RowHasVm
  <2>5. StartedOn(r) => r \in Changing
    BY DEF StartedOn, Started, Changing
  <2> QED BY <2>3, <2>4, <2>5
<1> QED BY <1>1, InitFit, NextFit, PTL DEF Spec

=============================================================================
