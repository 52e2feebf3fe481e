----------------------------- MODULE MCVpnClient -----------------------------
(* The VPN client on a small instance. *)
EXTENDS VpnClient
=============================================================================
