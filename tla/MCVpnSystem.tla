----------------------------- MODULE MCVpnSystem -----------------------------
(* The VPN client and server together, on a small instance. *)
EXTENDS VpnSystem, TLC

Symmetry == Permutations(Addr)

(* The properties do not speak of what comes after an incident. *)
NoIncident == hist = {}
=============================================================================
