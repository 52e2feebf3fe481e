------------------------------ MODULE VpnServer ------------------------------
(***************************************************************************)
(* The event loop of the VPN server process (VPN/src/server/vpn_server.c): *)
(* the client table and, behind the IPC calls, the enclave's key table.    *)
(* The loop is single-threaded and every IPC call waits for its answer, so *)
(* each handler is one step; the enclave stays up in this module.          *)
(*                                                                         *)
(* The network is the environment: any packet may arrive from any address  *)
(* at any time, which covers lost, delayed, duplicated and reordered       *)
(* datagrams, clients that restart with a new key pair on an old address   *)
(* and clients that move to a new address with the same key pair.          *)
(***************************************************************************)
EXTENDS ClientTable, KeyManager

CONSTANT CHECK_INTERVAL   \* time between two timeout checks: 30 s

ASSUME CheckIntervalAssumption == CHECK_INTERVAL \in Nat

VARIABLES
  table,        \* the client table
  km,           \* the enclave's key manager
  since_check,  \* now - last_timeout_check, saturated at CHECK_INTERVAL
  out,          \* what the last step sent on the UDP socket or wrote to TUN;
                \* what a CONNECT_RESP says is kept in granted
  granted,      \* history: the last CONNECT_RESP made for each address
  hist          \* history: which of Incidents have happened

vars == <<table, km, since_check, out, granted, hist>>

(***************************************************************************)
(* The history variables.  granted[a] is what the last CONNECT_RESP told   *)
(* the client at a: its VPN address, and the session key that client       *)
(* derives from the server key in the packet.  hist records three events   *)
(* the code does not guard against: the address pool starting over, a key  *)
(* that found no free slot in the enclave, and a client that repeats its   *)
(* CONNECT_REQ with another key pair.  No action reads them.               *)
(***************************************************************************)
NoGrant == [vpn_ip |-> 0]
Grant == [vpn_ip : VpnIp, key : SessionKey]
Incidents == {"wrap", "key_refused", "rekey"}

Silent == [type |-> "none"]
Outputs ==
  [type : {"none", "CONNECT_RESP", "PONG"}]
    \cup [type : {"DATA"}, addr : Addr, dst : VpnIp, key : SessionKey]
    \cup [type : {"TUN"}, addr : Addr, key : SessionKey]

(* Every variable holds a value of the data structure the code declares.   *)
TypeOK ==
  /\ IsClientTable(table)
  /\ IsKeyManager(km)
  /\ since_check \in 0 .. CHECK_INTERVAL
  /\ out \in Outputs
  /\ granted \in [Addr -> Grant \cup {NoGrant}]
  /\ hist \in SUBSET Incidents

Init ==
  /\ table = init_client_table
  /\ \E sk \in ServerKey : km = init_key_manager(sk)
  /\ since_check = 0
  /\ out = Silent
  /\ granted = [a \in Addr |-> NoGrant]
  /\ hist = {}

-----------------------------------------------------------------------------
(* IPC calls (enclave_client.c) and the enclave's side of them. *)
enclave_handshake(ip, pk) == perform_handshake(km, ip, pk)
enclave_decrypt_ok(ip, key) == HasKey(km, ip) /\ get_key(km, ip) = key
enclave_encrypt_ok(ip) == HasKey(km, ip)

(* PKT_CONNECT_REQ from address a with public key pk.  No free entry: the  *)
(* request is dropped without an answer.                                   *)
ConnectRefused(a, pk) ==
  /\ add_client(table, a).vpn_ip = 0
  /\ out' = Silent
  /\ UNCHANGED <<table, km, since_check, granted, hist>>

(* The incidents a CONNECT_REQ brings about. *)
ConnectIncidents(a, pk) ==
  {x \in {"wrap"} : ~HasEntry(table, a) /\ table.next_ip > LAST_IP}

HandshakeIncidents(a, pk) ==
  {x \in {"key_refused"} : KeyTableFull(km)}
    \cup {x \in {"rekey"} :
            /\ HasEntry(table, a)
            /\ granted[a] # NoGrant
            /\ granted[a].key # derive_session_key(pk, km.server_key)}

(* The handshake fails: the address just found or allocated is removed,    *)
(* also when the client had it before this request.                        *)
ConnectFailed(a, pk) ==
  LET added == add_client(table, a)
      hs    == enclave_handshake(added.vpn_ip, pk)
  IN  /\ added.vpn_ip # 0
      /\ hs.status # 0
      /\ table' = remove_client(added.table, added.vpn_ip)
      /\ km' = hs.km
      /\ out' = Silent
      /\ hist' = hist \cup ConnectIncidents(a, pk)
      /\ UNCHANGED <<since_check, granted>>

ConnectAccepted(a, pk) ==
  LET added == add_client(table, a)
      hs    == enclave_handshake(added.vpn_ip, pk)
  IN  /\ added.vpn_ip # 0
      /\ hs.status = 0
      /\ table' = added.table
      /\ km' = hs.km
      /\ out' = [type |-> "CONNECT_RESP"]
      /\ granted' = [granted EXCEPT ![a] =
                       [vpn_ip |-> added.vpn_ip,
                        key    |-> derive_session_key(pk, km.server_key)]]
      /\ hist' = hist \cup ConnectIncidents(a, pk) \cup HandshakeIncidents(a, pk)
      /\ UNCHANGED since_check

(* PKT_DATA from a, encrypted under a session key; the packet's sequence   *)
(* number and timestamp are not looked at.                                 *)
DataUnknown(a) ==
  /\ ~HasEntry(table, a)
  /\ out' = Silent
  /\ UNCHANGED <<table, km, since_check, granted, hist>>

Data(a, key) ==
  /\ HasEntry(table, a)
  /\ table' = update_client_activity(table, find_client_by_addr(table, a))
  /\ out' = IF enclave_decrypt_ok(EntryOf(table, a).vpn_ip, key)
            THEN [type |-> "TUN", addr |-> a, key |-> key]
            ELSE Silent
  /\ UNCHANGED <<km, since_check, granted, hist>>

(* Mutant: a PING is answered but does not count as activity. *)
Ping_no_activity(a) ==
  /\ out' = [type |-> "PONG"]
  /\ UNCHANGED <<table, km, since_check, granted, hist>>

(* PKT_PING: answered whether or not the sender is known. *)
Ping(a) ==
  /\ table' = IF HasEntry(table, a)
              THEN update_client_activity(table, find_client_by_addr(table, a))
              ELSE table
  /\ out' = [type |-> "PONG"]
  /\ UNCHANGED <<km, since_check, granted, hist>>

(* PKT_DISCONNECT: both removals go by VPN address. *)
Disconnect(a) ==
  /\ IF HasEntry(table, a)
     THEN LET ip == EntryOf(table, a).vpn_ip
          IN  /\ km' = remove_key(km, ip)
              /\ table' = remove_client(table, ip)
     ELSE UNCHANGED <<table, km>>
  /\ out' = Silent
  /\ UNCHANGED <<since_check, granted, hist>>

-----------------------------------------------------------------------------
(* An IPv4 packet for VPN address d read from TUN (handle_tun_to_udp): no  *)
(* client, no key, or sent to the client's address.  `sent' is whether     *)
(* sendto() succeeded.                                                     *)
TunDropped(d) ==
  /\ \/ find_client_by_vpn_ip(table, d) = NULL
     \/ ~enclave_encrypt_ok(d)
  /\ out' = Silent
  /\ UNCHANGED <<table, km, since_check, granted, hist>>

TunForwarded(d, sent) ==
  LET i == find_client_by_vpn_ip(table, d)
  IN  /\ i # NULL
      /\ enclave_encrypt_ok(d)
      /\ table' = IF sent THEN update_client_activity(table, i) ELSE table
      /\ out' = IF sent THEN [type |-> "DATA", addr |-> table.clients[i].addr,
                              dst |-> d, key |-> get_key(km, d)]
                        ELSE Silent
      /\ UNCHANGED <<km, since_check, granted, hist>>

(* select() timed out: the timeout check, when it is due.  The enclave is  *)
(* up, so is_enclave_running() holds and the loop continues.               *)
Idle ==
  /\ IF since_check >= CHECK_INTERVAL
     THEN /\ table' = check_client_timeouts(table)
          /\ since_check' = 0
     ELSE UNCHANGED <<table, since_check>>
  /\ out' = Silent
  /\ UNCHANGED <<km, granted, hist>>

(* Time passes. *)
Tick ==
  /\ table' = OlderTable(table)
  /\ since_check' = IF since_check < CHECK_INTERVAL THEN since_check + 1
                                                    ELSE since_check
  /\ out' = Silent
  /\ UNCHANGED <<km, granted, hist>>

UdpPacket(a) ==
  \/ \E pk \in PublicKey \cup {InvalidKey} :
       \/ ConnectRefused(a, pk)
       \/ ConnectFailed(a, pk)
       \/ ConnectAccepted(a, pk)
  \/ DataUnknown(a)
  \/ \E key \in SessionKey : Data(a, key)
  \/ Ping(a)
  \/ Disconnect(a)

TunPacket == \E d \in VpnIp :
  \/ TunDropped(d)
  \/ \E sent \in BOOLEAN : TunForwarded(d, sent)

Loop == (\E a \in Addr : UdpPacket(a)) \/ TunPacket \/ Idle

Next == Loop \/ Tick

Spec == Init /\ [][Next]_vars

(* The loop never blocks for longer than a second, and time passes. *)
FairSpec == Spec /\ WF_vars(Loop) /\ WF_vars(Tick)

-----------------------------------------------------------------------------
(* The counters add_client and add_key compare with their limits are the   *)
(* numbers of active slots, after any sequence of handlers.                *)
CountsMatch ==
  /\ CountIsActive(table)
  /\ km.count = Cardinality(DOMAIN km.keys)

(* An address never has two active entries, however CONNECT_REQs are       *)
(* repeated, so find_client_by_addr is unambiguous.                        *)
OneEntryPerAddr == AddrsDistinct(table)

(* No two active clients hold the same VPN address: what routing by        *)
(* find_client_by_vpn_ip and removal by remove_client rely on.             *)
VpnIpUnique == IpsDistinct(table)

(* Until the address pool starts over, VPN addresses are unique.           *)
VpnIpUniqueBeforeWrap == "wrap" \notin hist => VpnIpUnique

(* A client with an active entry can talk to the server: the last          *)
(* CONNECT_RESP for its address named the VPN address the server still     *)
(* has for it, and the key the enclave finds for that address is the one   *)
(* the client derived.                                                     *)
Served(a) ==
  /\ granted[a] # NoGrant
  /\ granted[a].vpn_ip = EntryOf(table, a).vpn_ip
  /\ HasKey(km, granted[a].vpn_ip)
  /\ get_key(km, granted[a].vpn_ip) = granted[a].key

KeyAgreement == \A a \in Addr : HasEntry(table, a) => Served(a)

(* Nor may the addresses and keys of earlier clients come between a new    *)
(* client and its key: unless it changed its own key pair, a client told   *)
(* "success" is served.                                                    *)
KeyAgreementUnlessRekey == "rekey" \notin hist => KeyAgreement

(* None of the three incidents: every active client is served, whatever    *)
(* keys earlier clients and repeated handshakes left in the enclave.       *)
KeyAgreementUnlessIncident == hist = {} => KeyAgreement

(* Without incidents, a packet for VPN address d leaves only towards the   *)
(* client that was told d, encrypted under the key that client derived,    *)
(* and a packet is put on the TUN device only if it was encrypted under    *)
(* the key of the client it came from.                                     *)
TrafficUnderGrantedKey ==
  hist = {} =>
    /\ out.type = "DATA"
         => granted[out.addr] = [vpn_ip |-> out.dst, key |-> out.key]
    /\ out.type = "TUN" => granted[out.addr].key = out.key

(* Before the pool starts over a client's entry disappears only through a  *)
(* packet of its own or after CLIENT_TIMEOUT without one.                  *)
OwnRemoval(a) ==
  "wrap" \notin hist' /\ HasEntry(table, a) /\ ~HasEntry(table', a)
    => \/ Disconnect(a)
       \/ \E pk \in PublicKey \cup {InvalidKey} : ConnectFailed(a, pk)
       \/ EntryOf(table, a).idle > CLIENT_TIMEOUT
RemovedOnlyByOwner == [][\A a \in Addr : OwnRemoval(a)]_vars

(* An expired entry is eventually dropped or its client heard from.        *)
Expired(a) == HasEntry(table, a) /\ EntryOf(table, a).idle > CLIENT_TIMEOUT
SilentClientDropped == \A a \in Addr : Expired(a) ~> ~Expired(a)

(* If the loop finds a due check in an idle second again and again, no     *)
(* silent client keeps its entry for ever.                                 *)
SilentClientDroppedIfIdle == []<>(since_check = 0) => SilentClientDropped

=============================================================================
