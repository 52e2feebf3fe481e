--------------------------- MODULE EnclaveRequests ---------------------------
(***************************************************************************)
(* The requests of the IPC protocol (VPN/include/ipc_protocol.h) and what  *)
(* the enclave does with one (handle_ipc_request in enclave_main.c).       *)
(*                                                                         *)
(* A request is its command, a VPN address and the data the enclave tells  *)
(* apart: the public key of a HANDSHAKE, the key an ADD_KEY brings, the    *)
(* session key a DECRYPT's ciphertext was made with.  Altered or truncated *)
(* ciphertext is ciphertext under a key the table does not hold.  vpn_     *)
(* server.c sends every command but ADD_KEY, which only the test program   *)
(* test_enclave_ipc.c uses.                                                *)
(***************************************************************************)
EXTENDS KeyManager

CONSTANT Ip   \* VPN addresses in requests

ASSUME IpAssumption == Ip \subseteq Nat

PING == [command |-> "PING"]
SHUTDOWN == [command |-> "SHUTDOWN"]

(* What the handlers of the event loop ask for. *)
HandlerRequest ==
  [command : {"HANDSHAKE"}, vpn_ip : Ip, key : PublicKey \cup {InvalidKey}]
    \cup [command : {"DECRYPT"}, vpn_ip : Ip, key : SessionKey]
    \cup [command : {"ENCRYPT", "REMOVE_KEY"}, vpn_ip : Ip]

Request == {PING, SHUTDOWN} \cup HandlerRequest
             \cup [command : {"ADD_KEY"}, vpn_ip : Ip, key : SessionKey]

NoData == <<>>
OK == 0
FAILED == -1

(* Whether the enclave can do what is asked. *)
Succeeds(k, r) ==
  CASE r.command \in {"PING", "SHUTDOWN", "REMOVE_KEY"} -> TRUE
    [] r.command = "ADD_KEY" -> ~KeyTableFull(k)
    [] r.command = "HANDSHAKE" -> perform_handshake(k, r.vpn_ip, r.key).status = 0
    [] r.command = "ENCRYPT" -> HasKey(k, r.vpn_ip)
    [] r.command = "DECRYPT" -> HasKey(k, r.vpn_ip) /\ get_key(k, r.vpn_ip) = r.key

(* The key table after a request. *)
KeysAfter(k, r) ==
  CASE r.command = "ADD_KEY" -> add_key(k, r.vpn_ip, r.key)
    [] r.command = "REMOVE_KEY" -> remove_key(k, r.vpn_ip)
    [] r.command = "HANDSHAKE" -> perform_handshake(k, r.vpn_ip, r.key).km
    [] OTHER -> k

(* The answer: the request it is for (request_id), the status and, of the  *)
(* data, the key it was made with or the session key agreed on.            *)
Answer(k, r) ==
  [req    |-> r,
   status |-> IF Succeeds(k, r) THEN OK ELSE FAILED,
   data   |-> IF ~Succeeds(k, r) THEN NoData
              ELSE IF r.command = "ENCRYPT" THEN get_key(k, r.vpn_ip)
              ELSE IF r.command = "HANDSHAKE"
                   THEN derive_session_key(r.key, k.server_key)
              ELSE NoData]

(* What a call returns when the connection fails it. *)
NoAnswer(r) == [req |-> r, status |-> FAILED, data |-> NoData]

=============================================================================
