----------------------- MODULE VmServiceRequestProofs -----------------------
(***************************************************************************)
(* For any number of threads, addresses and VMs: what the actions of       *)
(* VmService do to the requests, that every variable keeps its type, and   *)
(* that no internal address is given out twice as long as creations do not *)
(* overlap.                                                                *)
(***************************************************************************)
EXTENDS VmServiceSteps, WellFoundedInduction, TLAPS

TInv == TypeOK /\ Bounded

(* Every non-empty set of naturals has a least element. *)
LEMMA LeastNat ==
  ASSUME NEW S, S \subseteq Nat, S # {}
  PROVE  \E i \in S : \A j \in S : i <= j
<1> DEFINE Less == {p \in Nat \X Nat : p[1] < p[2]}
<1>1. OpToRel(<, Nat) = Less
  BY DEF OpToRel
<1>2. IsWellFoundedOn(Less, Nat)
  BY Zenon, <1>1, NatLessThanWellFounded
<1>3. PICK i \in S : \A j \in S : <<j, i>> \notin Less
  <2> HIDE DEF Less
  <2> QED BY Zenon, <1>2, WFMin
<1>4. ASSUME NEW j \in S
      PROVE  i <= j
  <2>1. i \in Nat /\ j \in Nat
    OBVIOUS
  <2>2. ~(j < i)
    <3>1. SUFFICES ASSUME j < i PROVE <<j, i>> \in Less
      BY <1>3
    <3> QED BY <2>1, <3>1
  <2> QED BY <2>1, <2>2
<1> QED BY <1>4

(* The greatest element of a bounded set of naturals. *)
LEMMA MaxFinds ==
  ASSUME NEW S, S \subseteq Nat, S # {}, NEW b \in Nat, \A x \in S : x <= b
  PROVE  Max(S) \in S
<1> DEFINE T == {b - x : x \in S}
<1>0. \A x \in S : b - x \in Nat
  OBVIOUS
<1>1. T \subseteq Nat /\ T # {}
  BY Zenon, <1>0
<1>2. PICK i \in T : \A j \in T : i <= j
  BY Zenon, <1>1, LeastNat
<1>3. PICK x \in S : i = b - x
  OBVIOUS
<1>4. \A y \in S : x >= y
  <2> TAKE y \in S
  <2>1. i <= b - y
    BY <1>2
  <2> QED BY <1>3, <2>1
<1> QED BY Zenon, <1>4 DEF Max

(* The least element of a set of naturals. *)
LEMMA MinFinds ==
  ASSUME NEW S, S \subseteq Nat, S # {}
  PROVE  Min(S) \in S
BY Zenon, LeastNat DEF Min

(* getNextVmId returns a number. *)
LEMMA NextVmIdNat ==
  ASSUME TInv
  PROVE  getNextVmId \in Nat
<1>1. FIRST_VMID \in Nat /\ VmIds \subseteq Nat
  BY VmServiceAssumption DEF TInv, TypeOK, VmIds
<1>2. PICK b \in Nat : \A v \in VmIds : v <= b
  BY DEF TInv, Bounded, VmIds
<1>3. VmIds # {} => Max(VmIds) \in VmIds
  BY Zenon, <1>1, <1>2, MaxFinds
<1>4. CASE VmIds # {}
  <2>1. Max(VmIds) \in Nat
    BY Zenon, <1>1, <1>3, <1>4
  <2>2. getNextVmId = Max(VmIds) + 1
    BY <1>4 DEF getNextVmId
  <2> QED BY <2>1, <2>2
<1> QED BY <1>1, <1>4 DEF getNextVmId

(* allocateInternalIp returns an address that is not in use. *)
LEMMA AllocatesFree ==
  ASSUME NEW used, ~(Ip \subseteq used)
  PROVE  allocateInternalIp(used) \in Ip \ used
<1>1. Ip \ used \subseteq Nat /\ Ip \ used # {}
  BY VmServiceAssumption DEF Ip
<1> QED BY <1>1, MinFinds DEF allocateInternalIp

-----------------------------------------------------------------------------
LEMMA IdleType == Idle \in Request
BY DEF Idle, Request, Remote

LEMMA GotoMoves ==
  ASSUME ReqType, NEW t \in Thread, NEW s \in Remote \cup {"save"}, Goto(t, s)
  PROVE  Moved(t, s) /\ ReqType'
<1>1. req[t] \in Request
  BY DEF ReqType
<1>2. req' = [req EXCEPT ![t] = [req[t] EXCEPT !.step = s, !.auth = 0]]
  BY Zenon, <1>1 DEF Goto, ReqType, Request
<1>3. [req[t] EXCEPT !.step = s, !.auth = 0] \in Request
  BY Zenon, <1>1 DEF Request
<1> QED BY <1>1, <1>2, <1>3 DEF Moved, Others, SameData, ReqType, Request

LEMMA AuthMoves ==
  ASSUME ReqType, NEW t \in Thread, NEW a \in Nat, req' = [req EXCEPT ![t].auth = a]
  PROVE  Moved(t, req[t].step) /\ ReqType'
<1>1. req[t] \in Request
  BY DEF ReqType
<1>2. [req[t] EXCEPT !.auth = a] \in Request
  BY <1>1 DEF Request
<1> QED BY <1>1, <1>2 DEF Moved, Others, SameData, ReqType, Request

LEMMA FailEnds ==
  ASSUME ReqType, NEW t \in Thread, req' = [req EXCEPT ![t] = Idle]
  PROVE  Ended(t) /\ ReqType'
BY IdleType DEF Ended, Others, ReqType

LEMMA BeginBegins ==
  ASSUME ReqType, NEW t \in Thread,
         NEW op \in {"create", "start", "stop", "delete", "get"},
         NEW step \in Remote, NEW r \in RowId, NEW vmid \in Nat,
         NEW used \in SUBSET Ip, NEW dirty \in BOOLEAN, NEW inc,
         Begin(t, op, step, r, vmid, used, dirty, inc)
  PROVE  Begun(t, op, step, r, vmid, used, dirty) /\ ReqType'
<1> DEFINE q == [op |-> op, step |-> step, row |-> r, vmid |-> vmid, ip |-> 0,
                 used |-> used, dirty |-> dirty, auth |-> 0]
<1>1. q \in Request
  BY DEF Request
<1>2. req' = [req EXCEPT ![t] = q] /\ req[t] = Idle
  BY DEF Begin
<1> QED BY <1>1, <1>2 DEF Begun, Others, ReqType

(* NextVmId, when an address is free. *)
Allocated(t) ==
  /\ Others(t)
  /\ req'[t].op = req[t].op /\ req'[t].row = req[t].row
  /\ req'[t].step = "clone" /\ req'[t].ip \in Ip \ req[t].used
  /\ req'[t].dirty = req[t].dirty

LEMMA NextAllocates ==
  ASSUME TInv, NEW t \in Thread, NextVmId(t), ~(Ip \subseteq req[t].used)
  PROVE  Allocated(t) /\ ReqType'
<1> DEFINE ip == allocateInternalIp(req[t].used)
           q == [req[t] EXCEPT !.step = "clone", !.auth = 0, !.vmid = getNextVmId,
                               !.used = {}, !.ip = ip]
<1>1. req[t] \in Request /\ ReqType
  BY DEF ReqType, TInv, TypeOK
<1>2. getNextVmId \in Nat
  BY NextVmIdNat
<1>3. ip \in Ip \ req[t].used
  BY AllocatesFree
<1>4. req' = [req EXCEPT ![t] = q]
  <2> HIDE DEF ip
  <2> QED BY Zenon, <1>1 DEF NextVmId, ReqType, Request, ip
<1> HIDE DEF ip
<1>5. q \in Request
  BY Zenon, <1>1, <1>2, <1>3 DEF Request, Remote
<1>6. /\ q.op = req[t].op /\ q.row = req[t].row /\ q.step = "clone"
      /\ q.ip = ip /\ q.dirty = req[t].dirty
  BY <1>1 DEF Request
<1> HIDE DEF q
<1> QED BY <1>1, <1>3, <1>4, <1>5, <1>6 DEF Allocated, Others, ReqType

-----------------------------------------------------------------------------
(* Types, one variable at a time. *)
TicketType == ticket \in 0 .. valid /\ valid \in 1 .. MAX_EXPIRED + 1
RestType == created \in 0 .. MAX_CREATED /\ hist \subseteq Incidents

LEMMA TInvParts == TInv <=> RowsType /\ VmsType /\ TicketType /\ ReqType /\ RestType
BY ZenonT(30) DEF TInv, TypeOK, RowsType, VmsType, TicketType, ReqType, RestType

LEMMA SameTypes ==
  /\ RowsType /\ UNCHANGED rows => RowsType'
  /\ VmsType /\ UNCHANGED vms => VmsType'
  /\ TicketType /\ UNCHANGED <<ticket, valid>> => TicketType'
  /\ RestType /\ UNCHANGED <<created, hist>> => RestType'
BY DEF RowsType, VmsType, Bounded, TicketType, RestType

LEMMA InitTypes == Init => TInv
<1> SUFFICES ASSUME Init PROVE TInv
  OBVIOUS
<1>0. /\ FIRST_IP \in Nat /\ LAST_IP \in Nat /\ FIRST_VMID \in Nat
      /\ EXISTING \in Nat /\ MAX_CREATED \in Nat /\ MAX_EXPIRED \in Nat
      /\ EXISTING <= MAX_CREATED /\ FIRST_IP + EXISTING <= LAST_IP + 1
  BY VmServiceAssumption
<1> USE <1>0 DEF Init
<1>1. RowsType
  <2>1. DOMAIN rows = 1 .. EXISTING
    OBVIOUS
  <2>2. \A r \in DOMAIN rows : FIRST_VMID + r - 1 \in Nat
    BY <2>1
  <2>3. \A r \in DOMAIN rows : FIRST_IP + r - 1 \in Ip
    BY <2>1 DEF Ip
  <2>4. \A r \in DOMAIN rows : rows[r] \in Row
    BY Zenon, <2>1, <2>2, <2>3 DEF Row, VmStatus
  <2>5. DOMAIN rows \subseteq RowId
    BY <2>1 DEF RowId
  <2> QED BY Zenon, <2>4, <2>5 DEF RowsType
<1>2. VmsType
  <2>1. DOMAIN vms = FIRST_VMID .. FIRST_VMID + EXISTING - 1
    OBVIOUS
  <2>2. \A v \in DOMAIN vms : v <= FIRST_VMID + EXISTING
    BY <2>1
  <2>3. \A v \in DOMAIN vms : FIRST_IP + (v - FIRST_VMID) \in Ip
    BY <2>1 DEF Ip
  <2>4. \A v \in DOMAIN vms : vms[v] \in Vm
    BY Zenon, <2>1, <2>3 DEF Vm
  <2>5. FIRST_VMID + EXISTING \in Nat
    OBVIOUS
  <2>6. Bounded
    BY <2>2, <2>5, Zenon DEF Bounded
  <2>7. DOMAIN vms \subseteq Nat
    BY <2>1
  <2> QED BY <2>4, <2>6, <2>7, Zenon DEF VmsType
<1>3. TicketType
  BY DEF TicketType
<1>4. ReqType
  BY IdleType DEF ReqType
<1>5. RestType
  BY DEF RestType
<1> QED BY <1>1, <1>2, <1>3, <1>4, <1>5, TInvParts

(* An exception adds at most the incident. *)
LEMMA FailTypes ==
  ASSUME RestType, ReqType, NEW t \in Thread, NEW done, Fail(t, done),
         UNCHANGED created
  PROVE  RestType' /\ ReqType' /\ Ended(t)
<1>1. RestType'
  BY Zenon DEF RestType, Fail, Incidents
<1> QED BY Zenon, <1>1, FailEnds DEF Fail

(* A call that takes effect. *)
LEMMA EffectTypes ==
  ASSUME TInv, NEW t \in Thread, NEW s \in Remote \cup {"save"}, Effect(t, s)
  PROVE  RowsType' /\ TicketType' /\ ReqType' /\ RestType'
<1>1. RowsType /\ TicketType /\ ReqType /\ RestType
  BY TInvParts
<1>2. RowsType' /\ TicketType'
  BY <1>1, SameTypes DEF Effect
<1>3. UNCHANGED created
  BY DEF Effect
<1>4. CASE Goto(t, s) /\ UNCHANGED hist
  BY <1>1, <1>2, <1>3, <1>4, GotoMoves, SameTypes
<1>5. CASE Fail(t, TRUE)
  BY Zenon, <1>1, <1>2, <1>3, <1>5, FailTypes
<1> QED BY Zenon, <1>4, <1>5 DEF Effect

(* A change of one VM. *)
LEMMA ChangedVmTypes ==
  ASSUME VmsType, NEW v \in DOMAIN vms, NEW w \in Vm,
         vms' = [vms EXCEPT ![v] = w]
  PROVE  VmsType'
BY DEF VmsType, Bounded

LEMMA StatusTypes ==
  ASSUME VmsType, NEW v \in DOMAIN vms,
         NEW s \in {"cloning", "stopped", "running", "deleting"},
         vms' = [vms EXCEPT ![v].status = s]
  PROVE  VmsType'
<1>1. [vms[v] EXCEPT !.status = s] \in Vm
  BY DEF VmsType, Vm
<1> QED BY Zenon, <1>1, ChangedVmTypes

LEMMA IpTypes ==
  ASSUME VmsType, NEW v \in DOMAIN vms, NEW ip \in Ip \cup {0},
         vms' = [vms EXCEPT ![v].ip = ip]
  PROVE  VmsType'
<1>1. [vms[v] EXCEPT !.ip = ip] \in Vm
  BY DEF VmsType, Vm
<1> QED BY Zenon, <1>1, ChangedVmTypes

LEMMA NewVmTypes ==
  ASSUME VmsType, NEW v \in Nat, NEW w \in Vm, vms' = With(vms, v, w)
  PROVE  VmsType'
<1>1. DOMAIN vms' = DOMAIN vms \cup {v} /\ \A x \in DOMAIN vms' : vms'[x] \in Vm
  BY DEF With, VmsType
<1>2. PICK b \in Nat : \A x \in DOMAIN vms : x <= b
  BY DEF VmsType, Bounded
<1>3. b + v \in Nat /\ \A x \in DOMAIN vms' : x <= b + v
  BY <1>1, <1>2 DEF VmsType
<1>4. Bounded'
  BY <1>3, Zenon DEF Bounded
<1>5. DOMAIN vms' \subseteq Nat
  BY <1>1 DEF VmsType
<1> QED BY <1>1, <1>4, <1>5, Zenon DEF VmsType

LEMMA CommitTypes ==
  ASSUME RowsType, ReqType, NEW t \in Thread, Commit(t),
         req[t].op = "create" => req[t].ip \in Ip /\ req[t].row \in RowId
  PROVE  RowsType'
<1>1. req[t] \in Request
  BY DEF ReqType
<1>2. rows' = RowsAfter(req[t])
  BY DEF Commit
<1>3. CASE req[t].op = "create"
  <2> DEFINE new == [vmid |-> req[t].vmid, ip |-> req[t].ip, status |-> "STOPPED"]
  <2>1. new \in Row /\ req[t].row \in RowId
    BY <1>1, <1>3 DEF Request, Row, VmStatus
  <2>2. rows' = With(rows, req[t].row, new)
    BY <1>2, <1>3 DEF RowsAfter
  <2> HIDE DEF new
  <2> QED BY <2>1, <2>2 DEF RowsType, With
<1>4. CASE req[t].op = "delete"
  BY <1>2, <1>4 DEF RowsAfter, RowsType, Without
<1>5. CASE req[t].op \notin {"create", "delete"} /\ req[t].dirty
  <2>1. req[t].row \in DOMAIN rows
    BY <1>5 DEF Commit
  <2>2. [rows[req[t].row] EXCEPT !.status = StatusAfter(req[t].op)] \in Row
    BY <2>1 DEF RowsType, Row, VmStatus, StatusAfter
  <2> QED BY <1>2, <1>5, <2>1, <2>2 DEF RowsAfter, RowsType
<1>6. CASE req[t].op \notin {"create", "delete"} /\ ~req[t].dirty
  BY <1>2, <1>6 DEF RowsAfter, RowsType
<1> QED BY <1>3, <1>4, <1>5, <1>6

-----------------------------------------------------------------------------
(* Which steps a request has, and what it carries then. *)
Formed(q) ==
  /\ q.op = "create" =>
       /\ q.step \in {"next", "clone", "wait", "configure", "save"}
       /\ q.row \in RowId
       /\ q.step # "next" => q.ip \in Ip
  /\ q.op \in {"start", "stop", "delete"} => q.step \in {q.op, "save"}
  /\ q.op = "get" => q.step = "get"
  /\ q.op = "none" => q.step = "idle"
Forms == \A t \in Thread : Formed(req[t])

LEMMA IdleFormed == Formed(Idle)
BY DEF Formed, Idle

LEMMA EndedForms ==
  ASSUME Forms, NEW t \in Thread, Ended(t)
  PROVE  Forms'
BY IdleFormed DEF Forms, Ended, Others, Formed

(* A request goes on to the next step of its kind. *)
Follows(op, step, s) ==
  \/ s = step
  \/ op = "create" /\ step # "next" /\ s \in {"wait", "configure", "save"}
  \/ op \in {"start", "stop", "delete"} /\ s = "save"

LEMMA MovedForms ==
  ASSUME Forms, NEW t \in Thread, NEW s, Moved(t, s),
         Follows(req[t].op, req[t].step, s)
  PROVE  Forms'
<1>1. Formed(req[t])
  BY DEF Forms
<1>2. Formed(req'[t])
  BY <1>1 DEF Moved, SameData, Formed, Follows
<1>3. \A u \in Thread : u # t => Formed(req'[u])
  BY DEF Forms, Moved, Others
<1>4. \A u \in Thread : Formed(req'[u])
  BY <1>2, <1>3
<1> QED BY <1>4 DEF Forms, Formed

(* What a request is, told by its step. *)
LEMMA OpOfStep ==
  ASSUME ReqType, Forms, NEW t \in Thread
  PROVE  /\ req[t].step \in {"next", "clone", "wait", "configure"} => req[t].op = "create"
         /\ req[t].step \in {"start", "stop", "delete", "get"} => req[t].op = req[t].step
         /\ req[t].step = "save" => req[t].op \in {"create", "start", "stop", "delete"}
<1>1. req[t] \in Request /\ Formed(req[t])
  BY DEF ReqType, Forms
<1>2. req[t].op \in {"none", "create", "start", "stop", "delete", "get"}
  BY <1>1 DEF Request
<1> QED BY <1>1, <1>2 DEF Formed

-----------------------------------------------------------------------------
(* What the actions of a thread do, apart from tickets. *)
Grows == hist \subseteq hist' /\ hist' \subseteq hist \cup {"half_done"}

LEMMA AuthKind ==
  ASSUME TInv, NEW t \in Thread, ensureAuthenticated(t) \/ RetryUnauthorized(t)
  PROVE  /\ Moved(t, req[t].step) /\ ReqType' /\ TicketType'
         /\ UNCHANGED <<rows, vms, created, hist>>
<1>1. ReqType /\ TicketType
  BY TInvParts
<1>2. MAX_EXPIRED \in Nat /\ valid \in Nat /\ ticket \in Nat
  BY <1>1, VmServiceAssumption DEF TicketType
<1>3. CASE ensureAuthenticated(t)
  <2>1. ticket' \in Nat /\ TicketType'
    BY <1>1, <1>2, <1>3 DEF ensureAuthenticated, TicketType
  <2>2. req' = [req EXCEPT ![t].auth = ticket']
    BY <1>3 DEF ensureAuthenticated
  <2>3. UNCHANGED <<rows, vms, created, hist>>
    BY <1>3 DEF ensureAuthenticated
  <2> QED BY Zenon, <1>1, <2>1, <2>2, <2>3, AuthMoves
<1>4. CASE RetryUnauthorized(t)
  <2>1. TicketType'
    BY <1>1, <1>2, <1>4 DEF RetryUnauthorized, TicketType
  <2>2. Goto(t, req[t].step) /\ req[t].step \in Remote
    BY <1>4 DEF RetryUnauthorized, Sent, Remote
  <2>3. UNCHANGED <<rows, vms, created, hist>>
    BY <1>4 DEF RetryUnauthorized
  <2> QED BY <1>1, <2>1, <2>2, <2>3, GotoMoves
<1> QED BY <1>3, <1>4

LEMMA GotoKind ==
  ASSUME TInv, NEW t \in Thread
  PROVE  /\ waitForTask(t) =>
              /\ Moved(t, "configure") /\ ReqType' /\ req[t].step = "wait"
              /\ UNCHANGED <<rows, vms, ticket, valid, created, hist>>
         /\ RemoteFails(t) /\ req[t].step = "configure" =>
              /\ Moved(t, "save") /\ ReqType'
              /\ UNCHANGED <<rows, vms, ticket, valid, created, hist>>
<1>1. ReqType
  BY TInvParts
<1>2. ASSUME waitForTask(t)
      PROVE  /\ Moved(t, "configure") /\ ReqType' /\ req[t].step = "wait"
             /\ UNCHANGED <<rows, vms, ticket, valid, created, hist>>
  <2>1. /\ Goto(t, "configure") /\ req[t].step = "wait"
        /\ UNCHANGED <<rows, vms, ticket, valid, created, hist>>
    BY <1>2 DEF waitForTask, AllAccepted, Sent
  <2> QED BY <1>1, <2>1, GotoMoves DEF Remote
<1>3. ASSUME RemoteFails(t), req[t].step = "configure"
      PROVE  /\ Moved(t, "save") /\ ReqType'
             /\ UNCHANGED <<rows, vms, ticket, valid, created, hist>>
  <2>1. Goto(t, "save") /\ UNCHANGED <<rows, vms, ticket, valid, created, hist>>
    BY <1>3 DEF RemoteFails
  <2> QED BY <1>1, <2>1, GotoMoves
<1> QED BY <1>2, <1>3

LEMMA FailKind ==
  ASSUME TInv, NEW t \in Thread,
         \/ RemoteFails(t) /\ req[t].step # "configure"
         \/ getVm(t)
         \/ NextVmId(t) /\ Ip \subseteq req[t].used
         \/ CommitFails(t)
  PROVE  /\ Ended(t) /\ ReqType' /\ RestType' /\ Grows
         /\ Done(req[t]) => "half_done" \in hist'
         /\ UNCHANGED <<rows, vms, ticket, valid, created>>
<1>1. ReqType /\ RestType
  BY TInvParts
<1>2. UNCHANGED <<rows, vms, ticket, valid, created>>
  BY Zenon DEF RemoteFails, getVm, NextVmId, CommitFails
<1>3. PICK done \in BOOLEAN : Fail(t, done) /\ (Done(req[t]) => done)
  <2>1. CASE RemoteFails(t) /\ req[t].step # "configure"
    <3>1. Fail(t, Done(req[t])) /\ Done(req[t]) \in BOOLEAN
      BY <2>1 DEF RemoteFails, Done
    <3> QED BY <3>1
  <2>2. CASE getVm(t)
    BY Zenon, <2>2 DEF getVm, Accepted, Sent, Done
  <2>3. CASE NextVmId(t) /\ Ip \subseteq req[t].used
    BY Zenon, <2>3 DEF NextVmId, Accepted, Sent, Done
  <2>4. CASE CommitFails(t)
    BY Zenon, <2>4 DEF CommitFails
  <2> QED BY <2>1, <2>2, <2>3, <2>4
<1>4. Grows /\ (Done(req[t]) => "half_done" \in hist')
  BY <1>3 DEF Grows, Fail
<1>5. Ended(t) /\ ReqType' /\ RestType'
  BY <1>1, <1>2, <1>3, FailTypes
<1> QED BY <1>2, <1>4, <1>5

LEMMA EffectKind ==
  ASSUME TInv, NEW t \in Thread, NEW s \in Remote \cup {"save"}, Effect(t, s)
  PROVE  /\ \/ Moved(t, s) /\ UNCHANGED hist
            \/ Ended(t) /\ "half_done" \in hist' /\ Grows
         /\ UNCHANGED <<rows, ticket, valid, created>>
<1>1. ReqType /\ RestType
  BY TInvParts
<1>2. UNCHANGED <<rows, ticket, valid, created>>
  BY DEF Effect
<1>3. CASE Goto(t, s) /\ UNCHANGED hist
  BY <1>1, <1>2, <1>3, GotoMoves
<1>4. CASE Fail(t, TRUE)
  <2>1. Grows /\ "half_done" \in hist'
    BY <1>4 DEF Fail, Grows
  <2> QED BY Zenon, <1>1, <1>2, <1>4, <2>1, FailTypes
<1> QED BY Zenon, <1>3, <1>4 DEF Effect

-----------------------------------------------------------------------------
(* The calls that change a VM. *)
LEMMA CallKind ==
  ASSUME TInv, Forms, NEW t \in Thread
  PROVE  /\ cloneVm(t) => /\ Effect(t, "wait") /\ req[t].step = "clone"
                          /\ req[t].vmid \notin DOMAIN vms
                          /\ vms' = With(vms, req[t].vmid, [status |-> "cloning", ip |-> 0])
         /\ startVm(t) => /\ Effect(t, "save") /\ req[t].step = "start"
                          /\ Has(t, {"stopped", "running"})
                          /\ vms' = [vms EXCEPT ![req[t].vmid].status = "running"]
         /\ stopVm(t) => /\ Effect(t, "save") /\ req[t].step = "stop"
                         /\ Has(t, {"stopped", "running"})
                         /\ vms' = [vms EXCEPT ![req[t].vmid].status = "stopped"]
         /\ deleteVm(t) => /\ Effect(t, "save") /\ req[t].step = "delete"
                           /\ Has(t, {"stopped"})
                           /\ vms' = [vms EXCEPT ![req[t].vmid].status = "deleting"]
BY DEF cloneVm, startVm, stopVm, deleteVm, Accepted, Sent

Call(t) == cloneVm(t) \/ startVm(t) \/ stopVm(t) \/ deleteVm(t)

LEMMA CallTypes ==
  ASSUME TInv, Forms, NEW t \in Thread, Call(t)
  PROVE  TInv' /\ Forms'
<1>1. VmsType /\ ReqType /\ req[t] \in Request
  BY TInvParts DEF ReqType
<1>2. req[t].vmid \in Nat
  BY <1>1 DEF Request
<1>3. VmsType'
  <2>1. CASE cloneVm(t)
    <3>1. [status |-> "cloning", ip |-> 0] \in Vm
      BY DEF Vm
    <3> QED BY Zenon, <1>1, <1>2, <2>1, <3>1, CallKind, NewVmTypes
  <2>2. CASE startVm(t)
    BY Zenon, <1>1, <2>2, CallKind, StatusTypes DEF Has
  <2>3. CASE stopVm(t)
    BY Zenon, <1>1, <2>3, CallKind, StatusTypes DEF Has
  <2>4. CASE deleteVm(t)
    BY Zenon, <1>1, <2>4, CallKind, StatusTypes DEF Has
  <2> QED BY <2>1, <2>2, <2>3, <2>4 DEF Call
<1>4. PICK s \in {"wait", "save"} :
        Effect(t, s) /\ Follows(req[t].op, req[t].step, s)
  BY Zenon, <1>1, CallKind, OpOfStep DEF Follows, Call
<1>5. RowsType' /\ TicketType' /\ ReqType' /\ RestType'
  BY <1>4, EffectTypes DEF Remote
<1>6. Moved(t, s) \/ Ended(t)
  BY <1>4, EffectKind DEF Remote
<1>7. Forms'
  BY <1>4, <1>6, MovedForms, EndedForms
<1>8. TInv'
  BY <1>3, <1>5, TInvParts, PTL
<1> QED BY <1>7, <1>8

LEMMA ConfigureKind ==
  ASSUME TInv, NEW t \in Thread, configure(t)
  PROVE  /\ Moved(t, "save") /\ ReqType' /\ VmsType' /\ req[t].step = "configure"
         /\ req[t].vmid \in DOMAIN vms
         /\ \E ip \in {req[t].ip, vms[req[t].vmid].ip} :
              vms' = [vms EXCEPT ![req[t].vmid].ip = ip]
         /\ UNCHANGED <<rows, ticket, valid, created, hist>>
<1>1. VmsType /\ ReqType /\ req[t] \in Request
  BY TInvParts DEF ReqType
<1>2. /\ Goto(t, "save") /\ req[t].vmid \in DOMAIN vms /\ req[t].step = "configure"
      /\ UNCHANGED <<rows, ticket, valid, created, hist>>
  BY DEF configure, Has, AllAccepted, Sent
<1>3. PICK ip \in {req[t].ip, vms[req[t].vmid].ip} :
        vms' = [vms EXCEPT ![req[t].vmid].ip = ip]
  BY Zenon DEF configure
<1>4. ip \in Ip \cup {0}
  BY <1>1, <1>2, <1>3 DEF VmsType, Vm, Request
<1>5. VmsType'
  BY Zenon, <1>1, <1>2, <1>3, <1>4, IpTypes
<1> QED BY Zenon, <1>1, <1>2, <1>3, <1>5, GotoMoves

(* The actions of Proxmox. *)
LEMMA ProxmoxTypes ==
  ASSUME TInv, Proxmox
  PROVE  TInv'
<1>1. RowsType /\ VmsType /\ TicketType /\ ReqType /\ RestType
  BY TInvParts
<1>2. CASE Expire
  <2>1. TicketType'
    BY <1>1, <1>2, VmServiceAssumption DEF Expire, TicketType
  <2>2. RowsType' /\ VmsType' /\ RestType'
    BY <1>1, <1>2, SameTypes DEF Expire
  <2>3. ReqType'
    BY <1>1, <1>2 DEF Expire, ReqType
  <2> QED BY <2>1, <2>2, <2>3, TInvParts, PTL
<1>3. ASSUME NEW v \in DOMAIN vms, CloneEnds(v) \/ DeleteEnds(v) \/ GuestStops(v)
      PROVE  TInv'
  <2>1. UNCHANGED <<rows, ticket, valid, req, created, hist>>
    BY <1>3 DEF CloneEnds, DeleteEnds, GuestStops
  <2>2. RowsType' /\ TicketType' /\ RestType'
    BY <1>1, <2>1, SameTypes
  <2>3. ReqType'
    BY <1>1, <2>1 DEF ReqType
  <2>4. VmsType'
    <3>1. CASE DeleteEnds(v)
      BY <1>1, <3>1 DEF DeleteEnds, Without, VmsType, Bounded
    <3>2. CASE CloneEnds(v) \/ GuestStops(v)
      BY <1>1, <3>2, StatusTypes DEF CloneEnds, GuestStops
    <3> QED BY <1>3, <3>1, <3>2
  <2> QED BY <2>2, <2>3, <2>4, TInvParts, PTL
<1> QED BY <1>2, <1>3 DEF Proxmox

-----------------------------------------------------------------------------
(* New requests. *)
UsedIps == {rows[r].ip : r \in DOMAIN rows}

LEMMA CreateKind ==
  ASSUME TInv, NEW t \in Thread, createVm(t)
  PROVE  /\ Begun(t, "create", "next", created + 1, 0, UsedIps, TRUE)
         /\ ReqType' /\ RestType' /\ created' = created + 1 /\ created + 1 \in RowId
         /\ hist \subseteq hist' /\ hist' \subseteq hist \cup {"creations"}
         /\ (\E u \in Thread : req[u].op = "create") => "creations" \in hist'
         /\ UNCHANGED <<rows, vms, ticket, valid>>
<1>1. RowsType /\ ReqType /\ RestType
  BY TInvParts
<1> DEFINE inc == {i \in {"creations"} : \E u \in Thread : req[u].op = "create"}
<1>2. /\ created < MAX_CREATED /\ created' = created + 1
      /\ Begin(t, "create", "next", created', 0, UsedIps, TRUE, inc)
      /\ UNCHANGED <<rows, vms, ticket, valid>>
  BY Zenon DEF createVm, UsedIps
<1>3. created + 1 \in RowId /\ created' \in 0 .. MAX_CREATED
  BY <1>1, <1>2, VmServiceAssumption DEF RestType, RowId
<1>4. UsedIps \subseteq Ip
  BY <1>1 DEF UsedIps, RowsType, Row
<1>5. hist' = hist \cup inc
  BY <1>2 DEF Begin
<1>6. /\ hist \subseteq hist' /\ hist' \subseteq hist \cup {"creations"}
      /\ (\E u \in Thread : req[u].op = "create") => "creations" \in hist'
  BY <1>5
<1>7. RestType'
  BY <1>1, <1>3, <1>6 DEF RestType, Incidents
<1>8. Begun(t, "create", "next", created + 1, 0, UsedIps, TRUE) /\ ReqType'
  <2> HIDE DEF inc
  <2>1. Begin(t, "create", "next", created + 1, 0, UsedIps, TRUE, inc)
    BY Zenon, <1>2
  <2> QED BY Zenon, <1>1, <1>3, <1>4, <2>1, BeginBegins DEF Remote
<1> QED BY Zenon, <1>2, <1>3, <1>6, <1>7, <1>8

OnVmOp == {"start", "stop", "delete", "get"}

LEMMA OnVmKind ==
  ASSUME TInv, NEW t \in Thread, NEW op \in OnVmOp, NEW r \in DOMAIN rows,
         OnVm(t, op, r)
  PROVE  /\ Begun(t, op, op, r, rows[r].vmid, {}, Dirty(op, r))
         /\ ReqType' /\ RestType'
         /\ hist \subseteq hist' /\ hist' \subseteq hist \cup {"same_vm"}
         /\ op # "get" /\ (\E u \in Thread : req[u].op # "get" /\ req[u].row = r)
              => "same_vm" \in hist'
         /\ UNCHANGED <<rows, vms, ticket, valid, created>>
<1>1. RowsType /\ ReqType /\ RestType
  BY TInvParts
<1> DEFINE inc == {i \in {"same_vm"} :
                op # "get" /\ \E u \in Thread : req[u].op # "get" /\ req[u].row = r}
<1>2. /\ Begin(t, op, op, r, rows[r].vmid, {}, Dirty(op, r), inc)
      /\ UNCHANGED <<rows, vms, ticket, valid, created>>
  BY DEF OnVm, Dirty
<1>3. r \in RowId /\ rows[r].vmid \in Nat /\ Dirty(op, r) \in BOOLEAN
  BY <1>1 DEF RowsType, Row, Dirty
<1>4. hist' = hist \cup inc
  BY <1>2 DEF Begin
<1>5. /\ hist \subseteq hist' /\ hist' \subseteq hist \cup {"same_vm"}
      /\ op # "get" /\ (\E u \in Thread : req[u].op # "get" /\ req[u].row = r)
           => "same_vm" \in hist'
  BY <1>4
<1>6. RestType'
  BY <1>1, <1>2, <1>5 DEF RestType, Incidents
<1>7. Begun(t, op, op, r, rows[r].vmid, {}, Dirty(op, r)) /\ ReqType'
  <2> HIDE DEF inc
  <2> QED BY <1>1, <1>2, <1>3, BeginBegins DEF Remote, OnVmOp
<1> QED BY <1>2, <1>5, <1>6, <1>7

LEMMA BegunForms ==
  ASSUME Forms, NEW t \in Thread, NEW op \in {"create"} \cup OnVmOp, NEW s, NEW r,
         NEW vmid, NEW used, NEW dirty, Begun(t, op, s, r, vmid, used, dirty),
         IF op = "create" THEN s = "next" /\ r \in RowId ELSE s = op
  PROVE  Forms'
<1>1. Formed(req'[t])
  BY DEF Begun, Formed, OnVmOp
<1>2. \A u \in Thread : u # t => Formed(req'[u])
  BY DEF Forms, Begun, Others
<1>3. \A u \in Thread : Formed(req'[u])
  BY <1>1, <1>2
<1> QED BY <1>3 DEF Forms, Formed

(* Types and forms are kept by every step. *)
LEMMA StepTypes ==
  ASSUME TInv, Forms, NEW t \in Thread, Step(t)
  PROVE  TInv' /\ Forms'
<1>0. RowsType' /\ VmsType' /\ TicketType' /\ ReqType' /\ RestType' => TInv'
  BY TInvParts, PTL
<1>1. RowsType /\ VmsType /\ TicketType /\ ReqType /\ RestType
  BY TInvParts
<1>2. CASE ensureAuthenticated(t) \/ RetryUnauthorized(t)
  BY <1>0, <1>1, <1>2, AuthKind, SameTypes, MovedForms DEF Follows
<1>3. CASE waitForTask(t) \/ (RemoteFails(t) /\ req[t].step = "configure")
  BY <1>0, <1>1, <1>3, GotoKind, SameTypes, MovedForms, OpOfStep DEF Follows
<1>4. CASE \/ RemoteFails(t) /\ req[t].step # "configure"
           \/ getVm(t)
           \/ NextVmId(t) /\ Ip \subseteq req[t].used
           \/ CommitFails(t)
  BY <1>0, <1>1, <1>4, FailKind, SameTypes, EndedForms
<1>5. CASE NextVmId(t) /\ ~(Ip \subseteq req[t].used)
  <2>1. UNCHANGED <<rows, vms, ticket, valid, created, hist>> /\ req[t].step = "next"
    BY <1>5 DEF NextVmId, Accepted, Sent
  <2>2. Allocated(t) /\ ReqType'
    BY <1>5, NextAllocates
  <2>3. req[t].op = "create" /\ Formed(req[t])
    BY <1>0, <1>1, <2>1, OpOfStep DEF Forms
  <2>4. Formed(req'[t])
    BY <2>2, <2>3 DEF Allocated, Formed
  <2>5. \A u \in Thread : Formed(req'[u])
    BY <2>2, <2>4 DEF Allocated, Others, Forms
  <2>6. Forms'
    BY <2>5 DEF Forms, Formed
  <2> QED BY <1>0, <1>1, <2>1, <2>2, <2>6, SameTypes
<1>6. CASE Call(t)
  BY <1>6, CallTypes
<1>7. CASE configure(t)
  BY Zenon, <1>0, <1>1, <1>7, ConfigureKind, SameTypes, MovedForms, OpOfStep DEF Follows
<1>8. CASE Commit(t)
  <2>1. /\ req' = [req EXCEPT ![t] = Idle] /\ req[t].step = "save"
        /\ UNCHANGED <<vms, ticket, valid, created, hist>>
    BY <1>8 DEF Commit
  <2>2. req[t].op = "create" => req[t].ip \in Ip /\ req[t].row \in RowId
    BY <2>1 DEF Forms, Formed
  <2>3. RowsType'
    BY <1>0, <1>1, <1>8, <2>2, CommitTypes
  <2> QED BY Zenon, <1>0, <1>1, <2>1, <2>3, FailEnds, EndedForms, SameTypes
<1> QED BY <1>2, <1>3, <1>4, <1>5, <1>6, <1>7, <1>8 DEF Step, Call

LEMMA NextTypes ==
  ASSUME TInv, Forms, Next
  PROVE  TInv' /\ Forms'
<1>1. RowsType' /\ VmsType' /\ TicketType' /\ ReqType' /\ RestType' => TInv'
  BY TInvParts, PTL
<1>2. RowsType /\ VmsType /\ TicketType /\ ReqType /\ RestType
  BY TInvParts
<1>3. ASSUME NEW t \in Thread, NewRequest(t)
      PROVE  TInv' /\ Forms'
  <2>1. CASE createVm(t)
    BY Zenon, <1>1, <1>2, <2>1, CreateKind, BegunForms, SameTypes
  <2>2. ASSUME NEW op \in OnVmOp, NEW r \in DOMAIN rows, OnVm(t, op, r)
        PROVE  TInv' /\ Forms'
    <3>1. op # "create"
      BY DEF OnVmOp
    <3> QED BY Zenon, <1>1, <1>2, <2>2, <3>1, OnVmKind, BegunForms, SameTypes
  <2> QED BY <1>3, <2>1, <2>2 DEF NewRequest, OnVmOp
<1>4. ASSUME Proxmox
      PROVE  TInv' /\ Forms'
  <2>1. UNCHANGED req
    BY <1>4 DEF Proxmox, CloneEnds, DeleteEnds, GuestStops, Expire
  <2> QED BY <1>4, <2>1, ProxmoxTypes DEF Forms, Formed
<1> QED BY <1>3, <1>4, StepTypes DEF Next

LEMMA SameTInv == TInv /\ Forms /\ UNCHANGED vars => TInv' /\ Forms'
BY DEF vars, TInv, TypeOK, Bounded, Forms, Formed

LEMMA InitForms == Init => Forms
BY IdleFormed DEF Init, Forms

(* Rows, VMs, tickets and requests keep their types, for any number of     *)
(* threads, addresses and VMs.                                             *)
THEOREM TypeCorrect == Spec => []TypeOK
<1>1. Init => TInv /\ Forms
  BY InitTypes, InitForms
<1>2. TInv /\ Forms /\ [Next]_vars => (TInv /\ Forms)'
  BY NextTypes, SameTInv
<1>3. TInv => TypeOK
  BY DEF TInv
<1> QED BY <1>1, <1>2, <1>3, PTL DEF Spec

-----------------------------------------------------------------------------
(* While creations do not overlap, the only one knows every address in     *)
(* use, and takes another.                                                 *)
IpsUnique == \A q, r \in DOMAIN rows : rows[q].ip = rows[r].ip => q = r
OneCreation == \A t, u \in Thread : req[t].op = "create" /\ req[u].op = "create" => t = u
Knows(q) ==
  q.op = "create" =>
    \A r \in DOMAIN rows : IF q.step = "next" THEN rows[r].ip \in q.used
                                              ELSE rows[r].ip # q.ip
IpsInv ==
  "creations" \notin hist =>
    IpsUnique /\ OneCreation /\ \A t \in Thread : Knows(req[t])

LEMMA IpsInvInit == Init => IpsInv
<1> SUFFICES ASSUME Init PROVE IpsInv
  OBVIOUS
<1>1. FIRST_IP \in Nat /\ EXISTING \in Nat
  BY VmServiceAssumption
<1>2. IpsUnique
  BY <1>1 DEF Init, IpsUnique
<1>3. \A t \in Thread : req[t].op = "none"
  BY DEF Init, Idle
<1> QED BY <1>2, <1>3 DEF IpsInv, OneCreation, Knows

LEMMA MovedIps ==
  ASSUME IpsInv, NEW t \in Thread, NEW s, Moved(t, s), UNCHANGED rows,
         hist \subseteq hist', s = "next" <=> req[t].step = "next"
  PROVE  IpsInv'
<1> SUFFICES ASSUME "creations" \notin hist'
             PROVE  (IpsUnique /\ OneCreation /\ \A u \in Thread : Knows(req[u]))'
  BY DEF IpsInv
<1>1. IpsUnique /\ OneCreation /\ \A u \in Thread : Knows(req[u])
  BY DEF IpsInv
<1>2. \A u \in Thread : req'[u].op = req[u].op
  BY DEF Moved, Others, SameData
<1>3. Knows(req[t])'
  BY Zenon, <1>1 DEF Moved, SameData, Knows
<1>4. \A u \in Thread : u # t => Knows(req[u])'
  BY <1>1 DEF Moved, Others, Knows
<1>5. IpsUnique' /\ OneCreation'
  BY <1>1, <1>2 DEF IpsUnique, OneCreation
<1> QED BY <1>3, <1>4, <1>5

LEMMA EndedIps ==
  ASSUME IpsInv, NEW t \in Thread, Ended(t), UNCHANGED rows, hist \subseteq hist'
  PROVE  IpsInv'
<1> SUFFICES ASSUME "creations" \notin hist'
             PROVE  (IpsUnique /\ OneCreation /\ \A u \in Thread : Knows(req[u]))'
  BY DEF IpsInv
<1>1. IpsUnique /\ OneCreation /\ \A u \in Thread : Knows(req[u])
  BY DEF IpsInv
<1>2. req'[t].op = "none" /\ \A u \in Thread : u # t => req'[u] = req[u]
  BY DEF Ended, Others, Idle
<1> QED BY <1>1, <1>2 DEF IpsUnique, OneCreation, Knows

LEMMA BegunIps ==
  ASSUME IpsInv, NEW t \in Thread, NEW op, NEW s, NEW r, NEW vmid, NEW used, NEW dirty,
         Begun(t, op, s, r, vmid, used, dirty), UNCHANGED rows, hist \subseteq hist',
         op = "create" => /\ s = "next" /\ used = UsedIps
                          /\ (\E u \in Thread : req[u].op = "create") => "creations" \in hist'
  PROVE  IpsInv'
<1> SUFFICES ASSUME "creations" \notin hist'
             PROVE  (IpsUnique /\ OneCreation /\ \A u \in Thread : Knows(req[u]))'
  BY DEF IpsInv
<1>1. IpsUnique /\ OneCreation /\ \A u \in Thread : Knows(req[u])
  BY DEF IpsInv
<1>2. /\ req'[t].op = op /\ req'[t].step = s /\ req'[t].used = used
      /\ \A u \in Thread : u # t => req'[u] = req[u]
  BY DEF Begun, Others
<1>3. OneCreation'
  BY <1>1, <1>2 DEF OneCreation
<1>4. Knows(req[t])'
  BY <1>2 DEF Knows, UsedIps
<1>5. \A u \in Thread : u # t => Knows(req[u])'
  BY <1>1, <1>2 DEF Knows
<1> QED BY <1>1, <1>3, <1>4, <1>5 DEF IpsUnique

LEMMA AllocatedIps ==
  ASSUME IpsInv, NEW t \in Thread, Allocated(t), UNCHANGED <<rows, hist>>,
         req[t].step = "next", req[t].op = "create"
  PROVE  IpsInv'
<1> SUFFICES ASSUME "creations" \notin hist'
             PROVE  (IpsUnique /\ OneCreation /\ \A u \in Thread : Knows(req[u]))'
  BY DEF IpsInv
<1>1. IpsUnique /\ OneCreation /\ \A u \in Thread : Knows(req[u])
  BY DEF IpsInv
<1>2. /\ req'[t].op = "create" /\ req'[t].step = "clone"
      /\ req'[t].ip \notin req[t].used
      /\ \A u \in Thread : u # t => req'[u] = req[u]
  BY DEF Allocated, Others
<1>3. Knows(req[t])'
  BY <1>1, <1>2 DEF Knows
<1>4. \A u \in Thread : u # t => Knows(req[u])'
  BY <1>1, <1>2 DEF Knows
<1>5. OneCreation'
  BY <1>1, <1>2 DEF OneCreation
<1> QED BY <1>1, <1>3, <1>4, <1>5 DEF IpsUnique

LEMMA CommitIps ==
  ASSUME TInv, Forms, IpsInv, NEW t \in Thread, Commit(t)
  PROVE  IpsInv'
<1> SUFFICES ASSUME "creations" \notin hist'
             PROVE  (IpsUnique /\ OneCreation /\ \A u \in Thread : Knows(req[u]))'
  BY DEF IpsInv
<1>1. IpsUnique /\ OneCreation /\ \A u \in Thread : Knows(req[u])
  BY DEF IpsInv, Commit
<1>2. rows' = RowsAfter(req[t]) /\ req[t].step = "save" /\ RowsType /\ ReqType
  BY TInvParts DEF Commit
<1>3. req'[t].op = "none" /\ \A u \in Thread : u # t => req'[u] = req[u]
  BY <1>2 DEF Commit, Idle, ReqType
<1>4. OneCreation'
  BY <1>1, <1>3 DEF OneCreation
<1>5. CASE req[t].op = "create"
  <2> DEFINE new == [vmid |-> req[t].vmid, ip |-> req[t].ip, status |-> "STOPPED"]
  <2>1. rows' = With(rows, req[t].row, new) /\ new.ip = req[t].ip
    BY <1>2, <1>5 DEF RowsAfter
  <2> HIDE DEF new
  <2>2. \A r \in DOMAIN rows : rows[r].ip # req[t].ip
    BY <1>1, <1>2, <1>5 DEF Knows
  <2>3. IpsUnique'
    BY <1>1, <2>1, <2>2 DEF IpsUnique, With
  <2>4. \A u \in Thread : req'[u].op # "create"
    BY <1>1, <1>3, <1>5 DEF OneCreation
  <2> QED BY <1>4, <2>3, <2>4 DEF Knows
<1>6. CASE req[t].op # "create"
  <2>1. \A r \in DOMAIN rows' : r \in DOMAIN rows /\ rows'[r].ip = rows[r].ip
    <3>1. CASE req[t].op = "delete"
      BY <1>2, <3>1 DEF RowsAfter, Without
    <3>2. CASE req[t].op # "delete" /\ req[t].dirty
      <4>1. rows' = [rows EXCEPT ![req[t].row].status = StatusAfter(req[t].op)]
        BY <1>2, <1>6, <3>2 DEF RowsAfter
      <4> QED BY <1>2, <4>1 DEF RowsType, Row
    <3>3. CASE req[t].op # "delete" /\ ~req[t].dirty
      BY <1>2, <1>6, <3>3 DEF RowsAfter
    <3> QED BY <3>1, <3>2, <3>3
  <2>2. IpsUnique'
    BY <1>1, <2>1 DEF IpsUnique
  <2>3. \A u \in Thread : Knows(req[u])'
    BY <1>1, <1>3, <2>1 DEF Knows
  <2> QED BY <1>4, <2>2, <2>3
<1> QED BY <1>5, <1>6

LEMMA NextIps ==
  ASSUME TInv, Forms, IpsInv, Next
  PROVE  IpsInv'
<1>1. ReqType /\ \A t \in Thread : Formed(req[t])
  BY TInvParts DEF Forms
<1>2. ASSUME NEW t \in Thread, Step(t)
      PROVE  IpsInv'
  <2>1. CASE ensureAuthenticated(t) \/ RetryUnauthorized(t)
    BY <2>1, AuthKind, MovedIps
  <2>2. CASE waitForTask(t) \/ (RemoteFails(t) /\ req[t].step = "configure")
    BY <2>2, GotoKind, MovedIps
  <2>3. CASE \/ RemoteFails(t) /\ req[t].step # "configure"
             \/ getVm(t)
             \/ NextVmId(t) /\ Ip \subseteq req[t].used
             \/ CommitFails(t)
    BY <2>3, FailKind, EndedIps DEF Grows
  <2>4. CASE NextVmId(t) /\ ~(Ip \subseteq req[t].used)
    <3>1. UNCHANGED <<rows, hist>> /\ req[t].step = "next"
      BY <2>4 DEF NextVmId, Accepted, Sent
    <3> QED BY <1>1, <2>4, <3>1, NextAllocates, AllocatedIps, OpOfStep
  <2>5. CASE Call(t)
    <3>1. PICK s \in {"wait", "save"} : Effect(t, s) /\ req[t].step # "next"
      BY Zenon, <2>5, CallKind DEF Call
    <3>2. /\ UNCHANGED rows
          /\ \/ Moved(t, s) /\ UNCHANGED hist
             \/ Ended(t) /\ Grows
      BY <3>1, EffectKind DEF Remote
    <3> QED BY <3>1, <3>2, MovedIps, EndedIps DEF Grows
  <2>6. CASE configure(t)
    BY Zenon, <2>6, ConfigureKind, MovedIps
  <2>7. CASE Commit(t)
    BY <2>7, CommitIps
  <2> QED BY <1>2, <2>1, <2>2, <2>3, <2>4, <2>5, <2>6, <2>7 DEF Step, Call
<1>3. ASSUME NEW t \in Thread, NewRequest(t)
      PROVE  IpsInv'
  <2>1. CASE createVm(t)
    BY Zenon, <2>1, CreateKind, BegunIps
  <2>2. ASSUME NEW op \in OnVmOp, NEW r \in DOMAIN rows, OnVm(t, op, r)
        PROVE  IpsInv'
    <3>1. op # "create"
      BY DEF OnVmOp
    <3> QED BY <2>2, <3>1, OnVmKind, BegunIps
  <2> QED BY <1>3, <2>1, <2>2 DEF NewRequest, OnVmOp
<1>4. ASSUME Proxmox
      PROVE  IpsInv'
  <2>1. UNCHANGED <<rows, req, hist>>
    BY <1>4 DEF Proxmox, CloneEnds, DeleteEnds, GuestStops, Expire
  <2> QED BY <2>1 DEF IpsInv, IpsUnique, OneCreation, Knows
<1> QED BY <1>2, <1>3, <1>4 DEF Next

LEMMA SameIps == IpsInv /\ UNCHANGED vars => IpsInv'
BY DEF vars, IpsInv, IpsUnique, OneCreation, Knows

(* If creations do not overlap, allocateInternalIp never gives out an      *)
(* address that another VM has.                                            *)
THEOREM IpsUniqueUnlessOverlap == Spec => []IpsUniqueUnlessConcurrent
<1>1. Init => TInv /\ Forms /\ IpsInv
  BY InitTypes, InitForms, IpsInvInit
<1>2. TInv /\ Forms /\ IpsInv /\ [Next]_vars => (TInv /\ Forms /\ IpsInv)'
  BY NextTypes, NextIps, SameTInv, SameIps
<1>3. IpsInv => IpsUniqueUnlessConcurrent
  BY DEF IpsInv, IpsUnique, IpsUniqueUnlessConcurrent
<1> QED BY <1>1, <1>2, <1>3, PTL DEF Spec

=============================================================================
