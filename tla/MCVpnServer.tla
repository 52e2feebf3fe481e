----------------------------- MODULE MCVpnServer -----------------------------
(* The VPN server on small instances.                                      *)
EXTENDS VpnServer, TLC

Symmetry == Permutations(Addr) \cup Permutations(PublicKey)
=============================================================================
