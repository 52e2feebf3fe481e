---------------------------- MODULE EnclaveService ----------------------------
(***************************************************************************)
(* What enclave_client.h promises the VPN server, and what VpnServer takes *)
(* for granted: the enclave is an object with a key table, and a call is   *)
(* one indivisible operation on it.  The enclave starts once; it may end   *)
(* at any moment, its keys with it, and from then on every call fails.     *)
(* The operations are parameters.                                          *)
(***************************************************************************)
CONSTANTS
  Request,         \* what can be asked for
  FreshKeys,       \* the key tables an enclave may start with
  Answer(_, _),    \* the answer to a request, given the key table
  KeysAfter(_, _), \* the key table after a request
  NoAnswer(_),     \* what a call reports that the enclave cannot answer
  NoKeys,
  NoResult

VARIABLES
  phase,   \* "new", "up" or "down"
  keys,    \* the enclave's key table while it is up
  result   \* what the last call that returned reported

serviceVars == <<phase, keys, result>>

Init ==
  /\ phase = "new"
  /\ keys = NoKeys
  /\ result = NoResult

Start ==
  /\ phase = "new"
  /\ phase' = "up"
  /\ keys' \in FreshKeys
  /\ UNCHANGED result

(* The call takes effect and returns its answer; the enclave may end right *)
(* after answering.                                                        *)
Call(r) ==
  /\ phase = "up"
  /\ result' = Answer(keys, r)
  /\ \/ phase' = "up"   /\ keys' = KeysAfter(keys, r)
     \/ phase' = "down" /\ keys' = NoKeys

CallFails(r) ==
  /\ phase = "down"
  /\ result' = NoAnswer(r)
  /\ UNCHANGED <<phase, keys>>

End ==
  /\ phase \in {"new", "up"}
  /\ phase' = "down"
  /\ keys' = NoKeys
  /\ UNCHANGED result

Next ==
  \/ Start
  \/ \E r \in Request : Call(r) \/ CallFails(r)
  \/ End

Spec == Init /\ [][Next]_serviceVars

=============================================================================
