------------------------ MODULE VmServiceMatchProofs ------------------------
(***************************************************************************)
(* What has to be kept for rows, VMs and requests to fit together, and that*)
(* everything keeps it: what requests do before they commit, the commits,  *)
(* and what Proxmox does by itself.                                        *)
(***************************************************************************)
EXTENDS VmServiceSteps, TLAPS

-----------------------------------------------------------------------------
(* What is kept of each part, and what that part needs to stay true. *)
KeptRows ==
  \A r : Live(r)' => /\ Live(r)
                     /\ rows'[r].vmid = rows[r].vmid /\ rows'[r].ip = rows[r].ip
KeptClones ==
  \A u \in Thread : Cloned(req'[u]) =>
    Cloned(req[u]) /\ req'[u].vmid = req[u].vmid /\ req'[u].ip = req[u].ip
KeptRequests ==
  \A u \in Thread : OnRow(req'[u]) =>
    /\ OnRow(req[u]) /\ req'[u].op = req[u].op /\ req'[u].row = req[u].row
    /\ req'[u].vmid = req[u].vmid /\ req'[u].dirty = req[u].dirty

(* A VM is as it was, or stopped. *)
Mild(v) ==
  /\ v \in DOMAIN vms' /\ vms'[v].ip = vms[v].ip
  /\ vms'[v].status \in {vms[v].status, "stopped"}

LEMMA RowsDifferKept ==
  ASSUME RowsDiffer, KeptRows
  PROVE  RowsDiffer'
BY DEF RowsDiffer, KeptRows, Live

LEMMA ClonesDifferKept ==
  ASSUME ClonesDiffer, KeptRows, KeptClones
  PROVE  ClonesDiffer'
<1>1. \A u \in Thread, r \in DOMAIN rows' :
        Cloned(req'[u]) /\ Live(r)' => rows'[r].vmid # req'[u].vmid
  BY DEF ClonesDiffer, KeptRows, KeptClones, Live
<1>2. \A u, w \in Thread :
        Cloned(req'[u]) /\ Cloned(req'[w]) /\ req'[u].vmid = req'[w].vmid => u = w
  BY DEF ClonesDiffer, KeptClones
<1> QED BY <1>1, <1>2 DEF ClonesDiffer, Cloned

LEMMA ClonesHaveKept ==
  ASSUME ClonesHave, KeptClones,
         \A u \in Thread : Cloned(req[u]) /\ CloneHasVm(req[u]) => Mild(req[u].vmid)
  PROVE  ClonesHave'
BY DEF ClonesHave, KeptClones, CloneHasVm, Mild, Cloned

LEMMA RowStays ==
  ASSUME NEW r, RowHasVm(r), Mild(rows[r].vmid),
         rows'[r].vmid = rows[r].vmid, rows'[r].ip = rows[r].ip,
         rows'[r].status = rows[r].status, StartedOn(r) => StartedOn(r)'
  PROVE  RowHasVm(r)'
BY DEF RowHasVm, Mild

LEMMA RowsHaveKept ==
  ASSUME RowsHave, KeptRows,
         \A r : Live(r)' /\ RowHasVm(r) => RowHasVm(r)'
  PROVE  RowsHave'
BY DEF RowsHave, KeptRows, Live

LEMMA RowsStay ==
  ASSUME RowsHave, KeptRows,
         \A v \in DOMAIN vms : vms[v].status # "deleting" => Mild(v),
         \A r : Live(r) => rows'[r].status = rows[r].status,
         \A r : StartedOn(r) => StartedOn(r)'
  PROVE  RowsHave'
<1> SUFFICES ASSUME NEW r, Live(r)', RowHasVm(r) PROVE RowHasVm(r)'
  BY RowsHaveKept
<1>1. /\ Live(r) /\ rows'[r].vmid = rows[r].vmid /\ rows'[r].ip = rows[r].ip
      /\ rows'[r].status = rows[r].status
  BY DEF KeptRows
<1>2. Mild(rows[r].vmid)
  BY DEF RowHasVm
<1> QED BY <1>1, <1>2, RowStays

LEMMA RequestsKept ==
  ASSUME RequestsHave, RequestsDiffer, KeptRequests,
         \A u \in Thread : OnRow(req'[u]) /\ req[u].row \in DOMAIN rows =>
           req[u].row \in DOMAIN rows' /\ rows'[req[u].row] = rows[req[u].row]
  PROVE  RequestsHave' /\ RequestsDiffer'
<1>1. RequestsHave'
  BY DEF RequestsHave, KeptRequests, RequestHasRow, OnRow
<1>2. RequestsDiffer'
  BY DEF RequestsDiffer, KeptRequests, OnRow
<1> QED BY <1>1, <1>2

KeptStops ==
  \A u \in Thread : Stopped(req'[u]) => Stopped(req[u]) /\ req'[u].vmid = req[u].vmid

LEMMA StopsKept ==
  ASSUME StopsWork, KeptStops,
         \A v \in DOMAIN vms' : vms'[v].status = "running" =>
           v \in DOMAIN vms /\ vms[v].status = "running"
  PROVE  StopsWork'
BY DEF StopsWork, KeptStops, Stopped

(* Rows that stay live and clones that stay keep their VMs. *)
LEMMA OwnedStays ==
  ASSUME NEW v, Owned(v),
         \A u \in Thread : Cloned(req[u]) /\ req[u].vmid = v =>
           Cloned(req'[u]) /\ req'[u].vmid = v,
         \A r : Live(r) /\ rows[r].vmid = v => Live(r)' /\ rows'[r].vmid = v
  PROVE  Owned(v)'
<1>1. CASE \E u \in Thread : Cloned(req[u]) /\ req[u].vmid = v
  BY <1>1 DEF Owned, Cloned
<1>2. CASE \E r \in DOMAIN rows : Live(r) /\ rows[r].vmid = v
  BY <1>2 DEF Owned, Live
<1> QED BY <1>1, <1>2 DEF Owned

-----------------------------------------------------------------------------
(* Steps of requests that change neither a row nor a VM.  Stages: which    *)
(* VMs have been cloned, deleted and started by whom stays the same.       *)
SameStages ==
  \A u \in Thread :
    /\ Cloned(req'[u]) <=> Cloned(req[u])
    /\ Cloned(req[u]) => req'[u].vmid = req[u].vmid /\ req'[u].ip = req[u].ip
    /\ Removed(req'[u]) <=> Removed(req[u])
    /\ Started(req'[u]) <=> Started(req[u])
    /\ Removed(req[u]) \/ Started(req[u]) => req'[u].row = req[u].row

LEMMA SameLive ==
  ASSUME SameStages, DOMAIN rows' = DOMAIN rows
  PROVE  \A r : (Live(r)' <=> Live(r)) /\ (StartedOn(r)' <=> StartedOn(r))
BY DEF SameStages, Live, StartedOn, Removed, Started

LEMMA RequestsMatch ==
  ASSUME Match, UNCHANGED <<rows, vms>>, SameStages,
         RequestsHave', RequestsDiffer', StopsWork'
  PROVE  Match'
<1>1. \A r : (Live(r)' <=> Live(r)) /\ (StartedOn(r)' <=> StartedOn(r))
  BY SameLive
<1>2. KeptRows /\ KeptClones
  BY <1>1 DEF KeptRows, KeptClones, SameStages
<1>3. RowsHave'
  BY <1>1, <1>2, RowsStay DEF Match, Mild
<1>4. RowsDiffer' /\ ClonesDiffer'
  BY <1>2, RowsDifferKept, ClonesDifferKept DEF Match
<1>5. ClonesHave'
  BY <1>2, ClonesHaveKept DEF Match, Mild, CloneHasVm
<1>6. \A v : Owned(v) => Owned(v)'
  BY <1>1, OwnedStays DEF SameStages
<1>7. VmsHave'
  BY <1>6 DEF Match, VmsHave
<1> QED BY <1>3, <1>4, <1>5, <1>7 DEF Match

(* Requests that are about no row and no clone do not matter. *)
Irrelevant(q) == ~OnRow(q) /\ ~Cloned(q)
Alike(p, q) ==
  \/ Irrelevant(p) /\ Irrelevant(q)
  \/ /\ p.op = q.op /\ p.row = q.row /\ p.vmid = q.vmid /\ p.ip = q.ip
     /\ p.dirty = q.dirty /\ (Cloned(p) <=> Cloned(q)) /\ (OnRow(p) => p.step = q.step)

LEMMA AlikeMatch ==
  ASSUME Match, \A u \in Thread : Alike(req[u], req'[u]), UNCHANGED <<rows, vms>>
  PROVE  Match'
<1>1. SameStages
  BY DEF SameStages, Alike, Irrelevant, OnRow, Removed, Started
<1>2. KeptRequests /\ KeptStops
  BY DEF KeptRequests, KeptStops, Alike, Irrelevant, OnRow, Stopped
<1>3. RequestsHave' /\ RequestsDiffer'
  BY <1>2, RequestsKept DEF Match
<1>4. StopsWork'
  BY <1>2, StopsKept DEF Match
<1> QED BY <1>1, <1>3, <1>4, RequestsMatch

(* A request that ends is Idle, which has done nothing. *)
LEMMA IdleIsNone ==
  ~OnRow(Idle) /\ ~Cloned(Idle) /\ ~Removed(Idle) /\ ~Started(Idle) /\ ~Stopped(Idle)
BY DEF OnRow, Cloned, Removed, Started, Stopped, Idle

LEMMA EndedKeeps ==
  ASSUME NEW t \in Thread, Ended(t)
  PROVE  /\ KeptClones /\ KeptRequests /\ KeptStops
         /\ \A u \in Thread : OnRow(req'[u]) => u # t
BY IdleIsNone DEF Ended, Others, KeptClones, KeptRequests, KeptStops

LEMMA EndedMatch ==
  ASSUME Match, NEW t \in Thread, Ended(t), req[t].step # "save", ~Cloned(req[t]),
         UNCHANGED <<rows, vms>>
  PROVE  Match'
<1>1. SameStages
  BY IdleIsNone DEF Ended, Others, SameStages, Removed, Started
<1>2. RequestsHave' /\ RequestsDiffer'
  BY EndedKeeps, RequestsKept DEF Match
<1>3. StopsWork'
  BY EndedKeeps, StopsKept DEF Match
<1> QED BY <1>1, <1>2, <1>3, RequestsMatch

LEMMA BegunMatch ==
  ASSUME Match, NEW t \in Thread, NEW op \in {"start", "stop", "delete"},
         NEW r \in DOMAIN rows,
         Begun(t, op, op, r, rows[r].vmid, {}, Dirty(op, r)), UNCHANGED <<rows, vms>>,
         \A u \in Thread : req[u].op # "get" => req[u].row # r
  PROVE  Match'
<1>1. /\ req'[t].op = op /\ req'[t].step = op /\ req'[t].row = r
      /\ req'[t].vmid = rows[r].vmid /\ req'[t].dirty = Dirty(op, r)
      /\ req[t] = Idle /\ \A u \in Thread : u # t => req'[u] = req[u]
  BY DEF Begun, Others
<1>2. /\ ~Cloned(req'[t]) /\ ~Removed(req'[t]) /\ ~Started(req'[t]) /\ ~Stopped(req'[t])
      /\ OnRow(req'[t])
  BY <1>1 DEF OnRow, Cloned, Removed, Started, Stopped
<1>3. SameStages /\ KeptStops
  BY <1>1, <1>2, IdleIsNone DEF SameStages, KeptStops
<1>4. RequestHasRow(req[t])'
  BY Zenon, <1>1 DEF RequestHasRow, Dirty
<1>5. RequestsHave'
  <2>1. \A u \in Thread : u # t => (OnRow(req[u]) => RequestHasRow(req[u]))'
    BY <1>1 DEF Match, RequestsHave, RequestHasRow, OnRow
  <2> QED BY <1>4, <2>1 DEF RequestsHave
<1>6. RequestsDiffer'
  <2>1. \A u \in Thread : u # t /\ OnRow(req'[u]) => req'[u].row # r
    BY <1>1 DEF OnRow
  <2> QED BY <1>1, <2>1 DEF Match, RequestsDiffer, OnRow
<1>7. StopsWork'
  BY <1>3, StopsKept DEF Match
<1> QED BY <1>3, <1>5, <1>6, <1>7, RequestsMatch

-----------------------------------------------------------------------------

(* The row of a request that has not deleted its VM is live. *)
LEMMA RequestLive ==
  ASSUME Match, NEW t \in Thread, OnRow(req[t]), ~Removed(req[t])
  PROVE  Live(req[t].row) /\ req[t].vmid = rows[req[t].row].vmid
<1>1. req[t].row \in DOMAIN rows /\ req[t].vmid = rows[req[t].row].vmid
  BY DEF Match, RequestsHave, RequestHasRow
<1>2. \A u \in Thread : Removed(req[u]) => req[u].row # req[t].row
  BY DEF Match, RequestsDiffer, Removed, OnRow
<1> QED BY <1>1, <1>2 DEF Live

(* The VM v of a live row r belongs to nothing else. *)
OnlyOf(r, v) ==
  /\ \A q : Live(q) /\ q # r => rows[q].vmid # v
  /\ \A u \in Thread : Cloned(req[u]) => req[u].vmid # v
  /\ \A u \in Thread : OnRow(req[u]) /\ ~Removed(req[u]) /\ req[u].row # r => req[u].vmid # v

LEMMA LiveOwns ==
  ASSUME Match, NEW r, Live(r)
  PROVE  r \in DOMAIN rows /\ RowHasVm(r) /\ OnlyOf(r, rows[r].vmid)
<1>1. r \in DOMAIN rows /\ RowHasVm(r)
  BY DEF Live, Match, RowsHave
<1>2. \A q : Live(q) /\ q # r => rows[q].vmid # rows[r].vmid
  BY <1>1 DEF Match, RowsDiffer, Live
<1>3. \A u \in Thread : Cloned(req[u]) => req[u].vmid # rows[r].vmid
  BY <1>1 DEF Match, ClonesDiffer
<1>4. ASSUME NEW u \in Thread, OnRow(req[u]), ~Removed(req[u]), req[u].row # r
      PROVE  req[u].vmid # rows[r].vmid
  <2>1. Live(req[u].row) /\ req[u].vmid = rows[req[u].row].vmid
    BY <1>4, RequestLive
  <2> QED BY <1>2, <1>4, <2>1
<1> QED BY <1>1, <1>2, <1>3, <1>4 DEF OnlyOf

(* A call gives the VM v status s. *)
Touched(v, s) ==
  /\ DOMAIN vms' = DOMAIN vms /\ v \in DOMAIN vms
  /\ \A x \in DOMAIN vms : x # v => vms'[x] = vms[x]
  /\ vms'[v].status = s /\ vms'[v].ip = vms[v].ip

LEMMA StatusTouches ==
  ASSUME VmsType, NEW v \in DOMAIN vms, NEW s, vms' = [vms EXCEPT ![v].status = s]
  PROVE  Touched(v, s)
<1>1. vms[v] \in Vm
  BY DEF VmsType
<1> QED BY <1>1 DEF Touched, Vm

(* What startVm, stopVm and deleteVm make of a VM. *)
CallStatus(op) ==
  IF op = "start" THEN "running" ELSE IF op = "stop" THEN "stopped" ELSE "deleting"

(* A call moves its request on, which keeps its row and its VM. *)
LEMMA CallKeeps ==
  ASSUME NEW t \in Thread, OnRow(req[t]), req[t].step # "save", Moved(t, "save"),
         UNCHANGED rows, NEW r0, r0 = req[t].row
  PROVE  /\ KeptClones /\ KeptRequests
         /\ \A u \in Thread : Cloned(req[u]) => Cloned(req'[u]) /\ req'[u].vmid = req[u].vmid
         /\ \A r : Live(r)' <=> Live(r) /\ ~(req[t].op = "delete" /\ r = r0)
         /\ \A r : StartedOn(r) => StartedOn(r)'
         /\ req[t].op = "start" => StartedOn(r0)'
         /\ \A u \in Thread : Stopped(req'[u]) /\ u # t =>
              Stopped(req[u]) /\ req'[u].vmid = req[u].vmid
<1>1. /\ req'[t].step = "save" /\ req'[t].op = req[t].op /\ req'[t].row = req[t].row
      /\ \A u \in Thread : u # t => req'[u] = req[u]
      /\ \A u \in Thread : /\ req'[u].op = req[u].op /\ req'[u].row = req[u].row
                           /\ req'[u].vmid = req[u].vmid /\ req'[u].ip = req[u].ip
                           /\ req'[u].dirty = req[u].dirty
  BY DEF Moved, Others, SameData
<1>2. /\ KeptClones
      /\ \A u \in Thread : Cloned(req[u]) => Cloned(req'[u]) /\ req'[u].vmid = req[u].vmid
  BY <1>1 DEF KeptClones, Cloned, OnRow
<1>3. KeptRequests
  BY <1>1 DEF KeptRequests, OnRow
<1>4. \A r : Live(r)' <=> Live(r) /\ ~(req[t].op = "delete" /\ r = r0)
  BY <1>1 DEF Live, Removed
<1>5. \A r : StartedOn(r) => StartedOn(r)'
  BY <1>1 DEF StartedOn, Started
<1>6. req[t].op = "start" => StartedOn(r0)'
  BY <1>1 DEF StartedOn, Started
<1>7. \A u \in Thread : Stopped(req'[u]) /\ u # t =>
        Stopped(req[u]) /\ req'[u].vmid = req[u].vmid
  BY <1>1
<1> QED BY <1>2, <1>3, <1>4, <1>5, <1>6, <1>7

(* startVm, stopVm and deleteVm. *)
LEMMA CallMatch ==
  ASSUME Match, NEW t \in Thread, OnRow(req[t]), req[t].step = req[t].op,
         Moved(t, "save"), UNCHANGED rows,
         Touched(req[t].vmid, CallStatus(req[t].op))
  PROVE  Match'
<1>1. PICK op, r0, v0 : op = req[t].op /\ r0 = req[t].row /\ v0 = req[t].vmid
  OBVIOUS
<1>2. op \in {"start", "stop", "delete"} /\ Touched(v0, CallStatus(op))
  BY <1>1 DEF OnRow
<1>3. Live(r0) /\ v0 = rows[r0].vmid
  BY <1>1, <1>2, RequestLive DEF Removed
<1>4. OnlyOf(r0, v0) /\ RowHasVm(r0)
  BY <1>3, LiveOwns
<1>5. /\ KeptClones /\ KeptRequests
      /\ \A u \in Thread : Cloned(req[u]) => Cloned(req'[u]) /\ req'[u].vmid = req[u].vmid
      /\ \A r : Live(r)' <=> Live(r) /\ ~(op = "delete" /\ r = r0)
      /\ \A r : StartedOn(r) => StartedOn(r)'
      /\ op = "start" => StartedOn(r0)'
      /\ \A u \in Thread : Stopped(req'[u]) /\ u # t =>
           Stopped(req[u]) /\ req'[u].vmid = req[u].vmid
  BY <1>1, <1>2, CallKeeps
<1>6. KeptRows
  BY <1>5 DEF KeptRows
<1>7. \A v \in DOMAIN vms : v # v0 => Mild(v)
  BY <1>2 DEF Touched, Mild
<1>8. RowsHave'
  <2> SUFFICES ASSUME NEW r, Live(r)', RowHasVm(r) PROVE RowHasVm(r)'
    BY <1>6, RowsHaveKept DEF Match
  <2>1. CASE r # r0
    <3>1. Live(r) /\ rows[r].vmid # v0 /\ rows[r].vmid \in DOMAIN vms
      BY <1>4, <1>5, <2>1 DEF OnlyOf, RowHasVm
    <3> QED BY <1>5, <1>7, <3>1, RowStays
  <2>2. CASE r = r0 /\ op = "start"
    BY <1>2, <1>3, <1>5, <2>2 DEF RowHasVm, Touched, CallStatus
  <2>3. CASE r = r0 /\ op = "stop"
    BY <1>2, <1>3, <2>3 DEF RowHasVm, Touched, CallStatus
  <2> QED BY <1>2, <1>5, <2>1, <2>2, <2>3
<1>9. RowsDiffer' /\ ClonesDiffer'
  BY <1>5, <1>6, RowsDifferKept, ClonesDifferKept DEF Match
<1>10. ClonesHave'
  BY <1>4, <1>5, <1>7, ClonesHaveKept DEF Match, OnlyOf, CloneHasVm
<1>11. VmsHave'
  <2> SUFFICES ASSUME NEW v \in DOMAIN vms, vms'[v].status # "deleting" PROVE Owned(v)'
    BY <1>2 DEF VmsHave, Touched
  <2>1. CASE v # v0
    <3>1. Owned(v)
      BY <1>2, <2>1 DEF Match, VmsHave, Touched
    <3> QED BY <1>3, <1>5, <2>1, <3>1, OwnedStays
  <2>2. CASE v = v0
    <3>1. Live(r0)' /\ rows'[r0].vmid = v0
      BY <1>2, <1>3, <1>5, <2>2 DEF Touched, CallStatus
    <3> QED BY <2>2, <3>1 DEF Owned, Live
  <2> QED BY <2>1, <2>2
<1>12. RequestsHave' /\ RequestsDiffer'
  BY <1>5, RequestsKept DEF Match
<1>13. StopsWork'
  <2> SUFFICES ASSUME NEW u \in Thread, Stopped(req'[u]), req'[u].vmid \in DOMAIN vms
               PROVE  vms'[req'[u].vmid].status # "running"
    BY <1>2 DEF StopsWork, Stopped, Touched
  <2>1. CASE u = t
    BY <1>1, <1>2, <2>1 DEF Stopped, Moved, SameData, Touched, CallStatus
  <2>2. CASE u # t
    <3>1. Stopped(req[u]) /\ req'[u].vmid = req[u].vmid
      BY <1>5, <2>2
    <3>2. OnRow(req[u]) /\ ~Removed(req[u])
      BY <3>1 DEF Stopped, OnRow, Removed
    <3>3. req[u].row # r0
      BY <1>1, <2>2, <3>2 DEF Match, RequestsDiffer
    <3>4. req[u].vmid # v0
      BY <1>4, <3>2, <3>3 DEF OnlyOf
    <3> QED BY <1>2, <3>1, <3>4 DEF Match, StopsWork, Touched
  <2> QED BY <2>1, <2>2
<1> QED BY <1>8, <1>9, <1>10, <1>11, <1>12, <1>13 DEF Match

(* Steps of a creation concern no row: whatever it does, rows stay live. *)
LEMMA CreationLive ==
  ASSUME NEW t \in Thread, req[t].op = "create", NEW s, Moved(t, s), UNCHANGED rows
  PROVE  /\ KeptRows /\ KeptRequests /\ KeptStops
         /\ \A r : (Live(r)' <=> Live(r)) /\ (StartedOn(r)' <=> StartedOn(r))
<1>1. /\ req'[t].op = "create" /\ \A u \in Thread : u # t => req'[u] = req[u]
  BY DEF Moved, Others, SameData
<1>2. \A r : (Live(r)' <=> Live(r)) /\ (StartedOn(r)' <=> StartedOn(r))
  BY <1>1 DEF Live, StartedOn, Removed, Started
<1>3. KeptRequests /\ KeptStops
  BY <1>1 DEF KeptRequests, KeptStops, OnRow, Stopped
<1> QED BY <1>2, <1>3 DEF KeptRows

(* cloneVm makes a VM that nothing has yet. *)
LEMMA CloneMatch ==
  ASSUME Match, NEW t \in Thread, req[t].op = "create", req[t].step = "clone",
         Moved(t, "wait"), UNCHANGED rows, req[t].vmid \notin DOMAIN vms,
         vms' = With(vms, req[t].vmid, [status |-> "cloning", ip |-> 0])
  PROVE  Match'
<1>1. PICK v0 : v0 = req[t].vmid
  OBVIOUS
<1>2. /\ DOMAIN vms' = DOMAIN vms \cup {v0} /\ v0 \notin DOMAIN vms
      /\ \A x \in DOMAIN vms : vms'[x] = vms[x]
      /\ vms'[v0].status = "cloning" /\ vms'[v0].ip = 0
  BY <1>1 DEF With
<1>3. /\ req'[t].vmid = v0 /\ Cloned(req'[t]) /\ ~Cloned(req[t])
      /\ \A u \in Thread : u # t => req'[u] = req[u]
  BY <1>1 DEF Moved, Others, SameData, Cloned
<1>4. /\ KeptRows /\ KeptRequests /\ KeptStops
      /\ \A r : (Live(r)' <=> Live(r)) /\ (StartedOn(r)' <=> StartedOn(r))
  BY CreationLive
<1>5. \A v \in DOMAIN vms : Mild(v)
  BY <1>2 DEF Mild
<1>6. RowsHave'
  BY <1>4, <1>5, RowsStay DEF Match
<1>7. RowsDiffer'
  BY <1>4, RowsDifferKept DEF Match
<1>8. \A u \in Thread : u # t /\ Cloned(req'[u]) => CloneHasVm(req[u])
  BY <1>3 DEF Match, ClonesHave
<1>9. ClonesHave'
  <2>1. CloneHasVm(req[t])'
    BY <1>2, <1>3 DEF CloneHasVm
  <2>2. ASSUME NEW u \in Thread, u # t, Cloned(req'[u]) PROVE CloneHasVm(req[u])'
    <3>1. CloneHasVm(req[u]) /\ req'[u] = req[u]
      BY <1>3, <1>8, <2>2
    <3> QED BY <1>2, <3>1 DEF CloneHasVm
  <2> QED BY <2>1, <2>2 DEF ClonesHave, Cloned
<1>10. ClonesDiffer'
  <2>1. \A r : Live(r) => rows[r].vmid # v0
    BY <1>2 DEF Match, RowsHave, RowHasVm, Live
  <2>2. \A u \in Thread : u # t /\ Cloned(req'[u]) => Cloned(req[u]) /\ req'[u].vmid # v0
    BY <1>2, <1>3, <1>8 DEF CloneHasVm
  <2>3. ASSUME NEW u \in Thread, NEW r \in DOMAIN rows', Cloned(req'[u]), Live(r)'
        PROVE  rows'[r].vmid # req'[u].vmid
    <3>1. Live(r) /\ r \in DOMAIN rows
      BY <1>4, <2>3
    <3>2. CASE u = t
      BY <1>3, <2>1, <3>1, <3>2
    <3>3. CASE u # t
      BY <1>3, <2>2, <2>3, <3>1, <3>3 DEF Match, ClonesDiffer
    <3> QED BY <3>2, <3>3
  <2>4. \A u, w \in Thread :
          Cloned(req'[u]) /\ Cloned(req'[w]) /\ req'[u].vmid = req'[w].vmid => u = w
    BY <1>3, <2>2 DEF Match, ClonesDiffer
  <2> QED BY <2>3, <2>4 DEF ClonesDiffer, Cloned
<1>11. VmsHave'
  <2>1. Owned(v0)'
    BY <1>3 DEF Owned, Cloned
  <2>2. \A v : Owned(v) => Owned(v)'
    BY <1>3, <1>4, OwnedStays
  <2> QED BY <1>2, <2>1, <2>2 DEF Match, VmsHave
<1>12. RequestsHave' /\ RequestsDiffer'
  BY <1>4, RequestsKept DEF Match
<1>13. StopsWork'
  BY <1>2, <1>4, StopsKept DEF Match
<1> QED BY <1>6, <1>7, <1>9, <1>10, <1>11, <1>12, <1>13 DEF Match

(* configure gives the clone its address, if anything. *)
LEMMA ConfigureMatch ==
  ASSUME VmsType, Match, NEW t \in Thread, req[t].op = "create", req[t].step = "configure",
         Moved(t, "save"), UNCHANGED rows, req[t].vmid \in DOMAIN vms,
         NEW ip \in {req[t].ip, vms[req[t].vmid].ip},
         vms' = [vms EXCEPT ![req[t].vmid].ip = ip]
  PROVE  Match'
<1>1. PICK v0 : v0 = req[t].vmid
  OBVIOUS
<1>2. /\ DOMAIN vms' = DOMAIN vms /\ v0 \in DOMAIN vms
      /\ \A x \in DOMAIN vms : vms'[x].status = vms[x].status
      /\ \A x \in DOMAIN vms : x # v0 => vms'[x].ip = vms[x].ip
      /\ vms'[v0].ip = ip
  BY <1>1 DEF VmsType, Vm
<1>3. /\ Cloned(req[t])
      /\ \A u \in Thread : /\ Cloned(req'[u]) <=> Cloned(req[u])
                           /\ req'[u].vmid = req[u].vmid /\ req'[u].ip = req[u].ip
  BY DEF Moved, Others, SameData, Cloned
<1>4. /\ KeptRows /\ KeptRequests /\ KeptStops
      /\ \A r : (Live(r)' <=> Live(r)) /\ (StartedOn(r)' <=> StartedOn(r))
  BY CreationLive
<1>5. KeptClones
  BY <1>3 DEF KeptClones
<1>6. \A v \in DOMAIN vms : v # v0 => Mild(v)
  BY <1>2 DEF Mild
<1>7. RowsHave'
  <2> SUFFICES ASSUME NEW r, Live(r)', RowHasVm(r) PROVE RowHasVm(r)'
    BY <1>4, RowsHaveKept DEF Match
  <2>1. rows[r].vmid # v0
    BY <1>1, <1>3, <1>4 DEF Match, ClonesDiffer, Live
  <2> QED BY <1>4, <1>6, <2>1, RowStays DEF RowHasVm
<1>8. RowsDiffer' /\ ClonesDiffer'
  BY <1>4, <1>5, RowsDifferKept, ClonesDifferKept DEF Match
<1>9. ClonesHave'
  <2> SUFFICES ASSUME NEW u \in Thread, Cloned(req[u]) PROVE CloneHasVm(req[u])'
    BY <1>3 DEF ClonesHave, Cloned
  <2>1. CloneHasVm(req[u])
    BY DEF Match, ClonesHave
  <2>2. CASE u = t
    BY <1>1, <1>2, <1>3, <2>1, <2>2 DEF CloneHasVm
  <2>3. CASE u # t
    <3>1. req[u].vmid # v0
      BY <1>1, <1>3, <2>3 DEF Match, ClonesDiffer
    <3> QED BY <1>2, <1>3, <2>1, <3>1 DEF CloneHasVm
  <2> QED BY <2>2, <2>3
<1>10. VmsHave'
  <2>1. \A v : Owned(v) => Owned(v)'
    BY <1>3, <1>4, OwnedStays
  <2> QED BY <1>2, <2>1 DEF Match, VmsHave
<1>11. RequestsHave' /\ RequestsDiffer'
  BY <1>4, RequestsKept DEF Match
<1>12. StopsWork'
  BY <1>2, <1>4, StopsKept DEF Match
<1> QED BY <1>7, <1>8, <1>9, <1>10, <1>11, <1>12 DEF Match

-----------------------------------------------------------------------------
(* The commits.  deleteVm's: its row was not live any more. *)
LEMMA CommitDeleteMatch ==
  ASSUME Match, NEW t \in Thread, Ended(t), Removed(req[t]), NEW r0, r0 = req[t].row,
         rows' = Without(rows, r0), UNCHANGED vms
  PROVE  Match'
<1>1. DOMAIN rows' = DOMAIN rows \ {r0} /\ \A r \in DOMAIN rows' : rows'[r] = rows[r]
  BY DEF Without
<1>2. OnRow(req[t]) /\ ~Cloned(req[t]) /\ ~Started(req[t])
  BY DEF Removed, OnRow, Cloned, Started
<1>3. \A u \in Thread : u # t /\ OnRow(req[u]) => req[u].row # r0
  BY <1>2 DEF Match, RequestsDiffer
<1>4. /\ KeptClones /\ KeptRequests /\ KeptStops
      /\ \A u \in Thread : OnRow(req'[u]) => u # t
  BY EndedKeeps
<1>5. \A u \in Thread : u # t => req'[u] = req[u]
  BY DEF Ended, Others
<1>6. \A u \in Thread : u # t /\ Removed(req[u]) => req[u].row # r0
  BY <1>3 DEF Removed, OnRow
<1>7. \A r : Live(r)' <=> Live(r)
  BY <1>1, <1>5, <1>6, IdleIsNone DEF Live, Removed, Ended
<1>8. \A r : StartedOn(r) => StartedOn(r)'
  BY <1>2, <1>5 DEF StartedOn, Started
<1>9. \A r : Live(r) => rows'[r] = rows[r]
  BY <1>1 DEF Live
<1>10. KeptRows
  BY <1>7, <1>9 DEF KeptRows
<1>11. \A v \in DOMAIN vms : Mild(v)
  BY DEF Mild
<1>12. RowsHave'
  BY <1>8, <1>9, <1>10, <1>11, RowsStay DEF Match
<1>13. RowsDiffer' /\ ClonesDiffer'
  BY <1>4, <1>10, RowsDifferKept, ClonesDifferKept DEF Match
<1>14. ClonesHave'
  BY <1>4, <1>11, ClonesHaveKept DEF Match, CloneHasVm
<1>15. VmsHave'
  <2>1. \A v : Owned(v) => Owned(v)'
    BY <1>2, <1>5, <1>7, <1>9, OwnedStays
  <2> QED BY <2>1 DEF Match, VmsHave
<1>16. RequestsHave' /\ RequestsDiffer'
  <2>1. \A u \in Thread : OnRow(req'[u]) => u # t /\ OnRow(req[u])
    BY <1>4 DEF KeptRequests
  <2> QED BY <1>1, <1>3, <1>4, <2>1, RequestsKept DEF Match
<1>17. StopsWork'
  BY <1>4, StopsKept DEF Match
<1> QED BY <1>12, <1>13, <1>14, <1>15, <1>16, <1>17 DEF Match

(* startVm's and stopVm's: the row gets the status the VM was given. *)
LEMMA CommitStatusMatch ==
  ASSUME Match, NEW t \in Thread, Ended(t), Started(req[t]) \/ Stopped(req[t]),
         NEW r0, r0 = req[t].row, UNCHANGED vms, DOMAIN rows' = DOMAIN rows,
         \A r \in DOMAIN rows : /\ r # r0 => rows'[r] = rows[r]
                                /\ rows'[r].vmid = rows[r].vmid /\ rows'[r].ip = rows[r].ip,
         rows'[r0].status = StatusAfter(req[t].op)
  PROVE  Match'
<1>1. OnRow(req[t]) /\ ~Cloned(req[t]) /\ ~Removed(req[t])
  BY DEF Removed, OnRow, Cloned, Started, Stopped
<1>2. Live(r0) /\ req[t].vmid = rows[r0].vmid
  BY <1>1, RequestLive
<1>3. \A u \in Thread : u # t /\ OnRow(req[u]) => req[u].row # r0
  BY <1>1 DEF Match, RequestsDiffer
<1>4. /\ KeptClones /\ KeptRequests /\ KeptStops
      /\ \A u \in Thread : OnRow(req'[u]) => u # t
  BY EndedKeeps
<1>5. \A u \in Thread : u # t => req'[u] = req[u]
  BY DEF Ended, Others
<1>6. \A r : Live(r)' <=> Live(r)
  BY <1>1, <1>5, IdleIsNone DEF Live, Removed, Ended
<1>7. \A r : r # r0 /\ StartedOn(r) => StartedOn(r)'
  BY <1>5 DEF StartedOn, Started
<1>8. KeptRows
  BY <1>6 DEF KeptRows, Live
<1>9. \A v \in DOMAIN vms : Mild(v)
  BY DEF Mild
<1>10. RowsHave'
  <2> SUFFICES ASSUME NEW r, Live(r)', RowHasVm(r) PROVE RowHasVm(r)'
    BY <1>8, RowsHaveKept DEF Match
  <2>1. r \in DOMAIN rows
    BY <1>6 DEF Live
  <2>2. CASE r # r0
    BY <1>7, <1>9, <2>1, <2>2, RowStays DEF RowHasVm
  <2>3. CASE r = r0 /\ Started(req[t])
    BY <2>1, <2>3 DEF RowHasVm, Started, StatusAfter
  <2>4. CASE r = r0 /\ Stopped(req[t])
    <3>1. vms[rows[r0].vmid].status # "running"
      BY <1>2, <2>4 DEF Match, StopsWork, RowHasVm
    <3> QED BY <2>1, <2>4, <3>1 DEF RowHasVm
  <2> QED BY <2>2, <2>3, <2>4
<1>11. RowsDiffer' /\ ClonesDiffer'
  BY <1>4, <1>8, RowsDifferKept, ClonesDifferKept DEF Match
<1>12. ClonesHave'
  BY <1>4, <1>9, ClonesHaveKept DEF Match, CloneHasVm
<1>13. VmsHave'
  <2>1. \A r : Live(r) => rows'[r].vmid = rows[r].vmid
    BY DEF Live
  <2>2. \A v : Owned(v) => Owned(v)'
    BY <1>1, <1>5, <1>6, <2>1, OwnedStays
  <2> QED BY <2>2 DEF Match, VmsHave
<1>14. RequestsHave' /\ RequestsDiffer'
  <2>1. \A u \in Thread : OnRow(req'[u]) => u # t /\ OnRow(req[u])
    BY <1>4 DEF KeptRequests
  <2> QED BY <1>3, <1>4, <2>1, RequestsKept DEF Match
<1>15. StopsWork'
  BY <1>4, StopsKept DEF Match
<1> QED BY <1>10, <1>11, <1>12, <1>13, <1>14, <1>15 DEF Match

(* createVm's: the clone becomes the VM of a new row. *)
LEMMA CommitCreateMatch ==
  ASSUME Match, NEW t \in Thread, Ended(t), Cloned(req[t]), UNCHANGED vms,
         NEW r0, r0 \notin DOMAIN rows,
         rows' = With(rows, r0, [vmid |-> req[t].vmid, ip |-> req[t].ip, status |-> "STOPPED"])
  PROVE  Match'
<1>0. PICK v0 : v0 = req[t].vmid
  OBVIOUS
<1>1. /\ DOMAIN rows' = DOMAIN rows \cup {r0}
      /\ \A r \in DOMAIN rows : rows'[r] = rows[r]
      /\ rows'[r0].vmid = v0 /\ rows'[r0].ip = req[t].ip
  BY <1>0 DEF With
<1>2. ~OnRow(req[t]) /\ ~Removed(req[t]) /\ ~Started(req[t])
  BY DEF OnRow, Cloned, Removed, Started
<1>3. /\ KeptClones /\ KeptRequests /\ KeptStops
      /\ \A u \in Thread : OnRow(req'[u]) => u # t
  BY EndedKeeps
<1>4. req'[t] = Idle /\ \A u \in Thread : u # t => req'[u] = req[u]
  BY DEF Ended, Others
<1>5. \A u \in Thread : OnRow(req[u]) => req[u].row \in DOMAIN rows
  BY DEF Match, RequestsHave, RequestHasRow
<1>6. \A r : Live(r)' <=> Live(r) \/ r = r0
  <2>1. \A u \in Thread : Removed(req[u]) => req[u].row # r0
    BY <1>5 DEF Removed, OnRow
  <2>2. \A u \in Thread : Removed(req'[u]) <=> u # t /\ Removed(req[u])
    BY <1>4, IdleIsNone
  <2>3. \A u \in Thread : Removed(req'[u]) => req'[u] = req[u]
    BY <1>4, <2>2
  <2>4. \A u \in Thread : Removed(req[u]) => u # t
    BY <1>2
  <2> QED BY <1>1, <2>1, <2>2, <2>3, <2>4 DEF Live
<1>7. \A r : StartedOn(r) => StartedOn(r)'
  BY <1>2, <1>4 DEF StartedOn, Started
<1>8. \A r : Live(r) => r # r0 /\ rows'[r] = rows[r] /\ rows[r].vmid # v0
  BY <1>0, <1>1 DEF Live, Match, ClonesDiffer
<1>9. CloneHasVm(req[t])
  BY DEF Match, ClonesHave
<1>10. RowsHave'
  <2>1. RowHasVm(r0)'
    <3>1. /\ v0 \in DOMAIN vms /\ vms[v0].status \in {"cloning", "stopped"}
          /\ vms[v0].ip \in {0, req[t].ip}
      BY <1>0, <1>9 DEF CloneHasVm
    <3> QED BY <1>1, <3>1 DEF RowHasVm
  <2>2. ASSUME NEW r, Live(r) PROVE RowHasVm(r)'
    <3>1. RowHasVm(r)
      BY <2>2, LiveOwns
    <3> QED BY <1>7, <1>8, <2>2, <3>1 DEF RowHasVm
  <2> QED BY <1>6, <2>1, <2>2 DEF RowsHave
<1>11. RowsDiffer'
  <2>1. \A q, r : Live(q) /\ Live(r) /\ rows[q].vmid = rows[r].vmid => q = r
    BY DEF Match, RowsDiffer, Live
  <2> QED BY <1>1, <1>6, <1>8, <2>1 DEF RowsDiffer
<1>12. ClonesHave'
  BY <1>3, ClonesHaveKept DEF Match, CloneHasVm, Mild
<1>13. ClonesDiffer'
  <2>1. \A u \in Thread : Cloned(req'[u]) =>
          u # t /\ req'[u] = req[u] /\ Cloned(req[u]) /\ req[u].vmid # v0
    BY <1>0, <1>4, IdleIsNone DEF Match, ClonesDiffer
  <2>2. ASSUME NEW u \in Thread, NEW r \in DOMAIN rows', Cloned(req'[u]), Live(r)'
        PROVE  rows'[r].vmid # req'[u].vmid
    <3>1. CASE r = r0
      BY <1>1, <2>1, <2>2, <3>1
    <3>2. CASE r # r0
      <4>1. Live(r) /\ r \in DOMAIN rows /\ rows'[r] = rows[r]
        BY <1>1, <1>6, <2>2, <3>2 DEF Live
      <4> QED BY <2>1, <2>2, <4>1 DEF Match, ClonesDiffer
    <3> QED BY <3>1, <3>2
  <2>3. \A u, w \in Thread :
          Cloned(req'[u]) /\ Cloned(req'[w]) /\ req'[u].vmid = req'[w].vmid => u = w
    BY <2>1 DEF Match, ClonesDiffer
  <2> QED BY <2>2, <2>3 DEF ClonesDiffer, Cloned
<1>14. VmsHave'
  <2> SUFFICES ASSUME NEW v, Owned(v) PROVE Owned(v)'
    BY DEF Match, VmsHave
  <2>1. CASE v = v0
    BY <1>1, <1>6, <2>1 DEF Owned
  <2>2. CASE v # v0
    BY <1>0, <1>4, <1>6, <1>8, <2>2, OwnedStays
  <2> QED BY <2>1, <2>2
<1>15. RequestsHave' /\ RequestsDiffer'
  <2>1. \A u \in Thread : OnRow(req'[u]) => OnRow(req[u])
    BY <1>3 DEF KeptRequests
  <2> QED BY <1>1, <1>3, <2>1, RequestsKept DEF Match
<1>16. StopsWork'
  BY <1>3, StopsKept DEF Match
<1> QED BY <1>10, <1>11, <1>12, <1>13, <1>14, <1>15, <1>16 DEF Match

-----------------------------------------------------------------------------
(* Proxmox ends a task, or a guest shuts down: VMs that are not being      *)
(* deleted stay as they are or stop.                                       *)
LEMMA ProxmoxMatch ==
  ASSUME VmsType, Match, UNCHANGED <<rows, req>>, NEW v \in DOMAIN vms,
         CloneEnds(v) \/ DeleteEnds(v) \/ GuestStops(v)
  PROVE  Match'
<1>1. \A r : (Live(r)' <=> Live(r)) /\ (StartedOn(r)' <=> StartedOn(r))
  BY DEF Live, StartedOn
<1>2. KeptRows /\ KeptClones /\ KeptRequests /\ KeptStops
  BY <1>1 DEF KeptRows, KeptClones, KeptRequests, KeptStops
<1>3. /\ \A x \in DOMAIN vms : vms[x].status # "deleting" => Mild(x)
      /\ \A x \in DOMAIN vms' : /\ x \in DOMAIN vms
                                /\ \/ vms'[x] = vms[x]
                                   \/ /\ vms[x].status # "deleting"
                                      /\ vms'[x].status = "stopped"
  <2>1. CASE CloneEnds(v) \/ GuestStops(v)
    <3>1. Touched(v, "stopped") /\ vms[v].status # "deleting"
      BY <2>1, StatusTouches DEF CloneEnds, GuestStops
    <3> QED BY <3>1 DEF Touched, Mild
  <2>2. CASE DeleteEnds(v)
    BY <2>2 DEF DeleteEnds, Without, Mild
  <2> QED BY <2>1, <2>2
<1>4. RowsHave'
  BY <1>1, <1>2, <1>3, RowsStay DEF Match
<1>5. RowsDiffer' /\ ClonesDiffer'
  BY <1>2, RowsDifferKept, ClonesDifferKept DEF Match
<1>6. ClonesHave'
  BY <1>2, <1>3, ClonesHaveKept DEF Match, CloneHasVm
<1>7. VmsHave'
  <2>1. \A x : Owned(x) => Owned(x)'
    BY <1>1, OwnedStays
  <2> QED BY <1>3, <2>1 DEF Match, VmsHave
<1>8. RequestsHave' /\ RequestsDiffer'
  BY <1>2, RequestsKept DEF Match
<1>9. StopsWork'
  BY <1>2, <1>3, StopsKept DEF Match
<1> QED BY <1>4, <1>5, <1>6, <1>7, <1>8, <1>9 DEF Match

=============================================================================
