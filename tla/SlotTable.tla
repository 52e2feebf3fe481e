------------------------------ MODULE SlotTable ------------------------------
(***************************************************************************)
(* Fixed arrays of slots with an `active' flag, as the client table        *)
(* (client_manager.c) and the key table (key_manager.c) of the VPN use     *)
(* them.  A table is the function of its active slots only: the code never *)
(* reads a slot whose flag is 0 except to look for a free one, so what a   *)
(* freed slot still holds is left out.                                     *)
(***************************************************************************)
EXTENDS Integers, FiniteSets

(* The C code's `index = -1' and NULL pointers: no slot was found. *)
NULL == -1

(***************************************************************************)
(* The loops `for (i = 0; i < N; i++) if (...) { found i; break; }': the   *)
(* lowest slot of a set of candidates.                                     *)
(***************************************************************************)
FirstSlot(S) ==
  IF S = {} THEN NULL ELSE CHOOSE i \in S : \A j \in S : i <= j

(* memset(table, 0, ...): no slot is active. *)
EmptyTable == [i \in {} |-> NULL]

(* Fill slot i with entry e and set its flag. *)
Put(t, i, e) == [j \in DOMAIN t \cup {i} |-> IF j = i THEN e ELSE t[j]]

(* Clear the flags of the slots in S. *)
Clear(t, S) == [j \in DOMAIN t \ S |-> t[j]]

=============================================================================
