------------------------------ MODULE KeyManager ------------------------------
(***************************************************************************)
(* The enclave's key table: VPN/src/enclave/key_manager.c.                 *)
(*                                                                         *)
(* A key manager is a record [keys, count, server_key].  `keys' maps each  *)
(* active slot to [vpn_ip, session_key].  A session key is derived from    *)
(* one client key pair and one server key pair and from nothing else (no   *)
(* salt is passed), so it is that pair: both ends of a handshake obtain    *)
(* it, every repetition of the handshake obtains it again, and different   *)
(* key pairs obtain different keys.                                        *)
(***************************************************************************)
EXTENDS SlotTable

CONSTANTS
  MAX_KEYS,        \* slots of the key table: 256
  PublicKey,       \* the clients' public keys
  InvalidKey,      \* a public key with which the ECDH computation fails
  ServerKey        \* the server key pairs enclave processes generate

ASSUME KeyManagerAssumption ==
  /\ MAX_KEYS \in Nat \ {0}
  /\ InvalidKey \notin PublicKey

KeySlots == 0 .. MAX_KEYS - 1
SessionKey == PublicKey \X ServerKey
KeyEntry == [vpn_ip : Nat, session_key : SessionKey]

IsKeyManager(km) ==
  /\ DOMAIN km.keys \subseteq KeySlots
  /\ km.keys \in [DOMAIN km.keys -> KeyEntry]
  /\ km.count \in Int
  /\ km.server_key \in ServerKey

-----------------------------------------------------------------------------
init_key_manager(sk) == [keys |-> EmptyTable, count |-> 0, server_key |-> sk]

(* The key manager with other keys and a matching count. *)
WithKeys(km, k, n) == [keys |-> k, count |-> n, server_key |-> km.server_key]

(* The active slots that hold a key for a VPN address. *)
KeySlotsOf(km, ip) == {i \in DOMAIN km.keys : km.keys[i].vpn_ip = ip}

KeyTableFull(km) == KeySlots \ DOMAIN km.keys = {}

(* The first free slot; whether the address already has a key is not       *)
(* looked at.  A full table is left as it is (the code returns -1).        *)
add_key(km, ip, key) ==
  LET i == FirstSlot(KeySlots \ DOMAIN km.keys)
  IN  IF i = NULL THEN km
      ELSE WithKeys(km, Put(km.keys, i, [vpn_ip |-> ip, session_key |-> key]),
                    km.count + 1)

HasKey(km, ip) == KeySlotsOf(km, ip) # {}

(* Fault: the address is not compared. *)
get_key_any(km, ip) == km.keys[FirstSlot(DOMAIN km.keys)].session_key

(* The key in the first slot of that address, where HasKey(km, ip). *)
get_key(km, ip) == km.keys[FirstSlot(KeySlotsOf(km, ip))].session_key

(* Fault: the address is not compared. *)
remove_key_any(km, ip) ==
  LET i == FirstSlot(DOMAIN km.keys)
  IN  IF i = NULL THEN km
      ELSE WithKeys(km, Clear(km.keys, {i}), km.count - 1)

remove_key(km, ip) ==
  LET i == FirstSlot(KeySlotsOf(km, ip))
  IN  IF i = NULL THEN km
      ELSE WithKeys(km, Clear(km.keys, {i}), km.count - 1)

(* crypto_ecdh followed by crypto_derive_session_key, with their status. *)
ecdh_fails(pk) == pk = InvalidKey
derive_session_key(pk, sk) == <<pk, sk>>

(* Status and key table after a handshake.  Whether add_key found room     *)
(* does not show in the status.                                            *)
perform_handshake(km, ip, pk) ==
  IF ecdh_fails(pk)
  THEN [status |-> -1, km |-> km]
  ELSE [status |-> 0,
        km |-> add_key(km, ip, derive_session_key(pk, km.server_key))]

=============================================================================
