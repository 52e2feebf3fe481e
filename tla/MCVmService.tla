----------------------------- MODULE MCVmService -----------------------------
(* The VM service on a small instance. *)
EXTENDS VmService, TLC

(* What follows a request that failed halfway, or two requests for one VM, *)
(* is not explored: the properties about rows and VMs end there.           *)
NoIncident == hist \cap {"half_done", "same_vm"} = {}

Symmetry == Permutations(Thread)
=============================================================================
