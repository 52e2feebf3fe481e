----------------------------- MODULE ClientTable -----------------------------
(***************************************************************************)
(* The VPN server's table of clients: VPN/src/server/client_manager.c.     *)
(*                                                                         *)
(* A table is a record [clients, count, next_ip].  `clients' maps each     *)
(* active slot to an entry [vpn_ip, addr, idle]; `idle' is the time since  *)
(* last_seen, saturated at CLIENT_TIMEOUT + 1 because the code only ever   *)
(* asks whether it exceeds CLIENT_TIMEOUT.  VPN addresses are the numbers  *)
(* they denote: next_ip is kept in host byte order and vpn_ip in network   *)
(* byte order, but the two are never compared.  The session id is left     *)
(* out: it is sent once and nothing reads it.                              *)
(***************************************************************************)
EXTENDS SlotTable

CONSTANTS
  Addr,            \* UDP source addresses (IP and port) clients send from
  MAX_CLIENTS,     \* slots of the table: 254
  FIRST_IP,        \* 10.8.0.2
  LAST_IP,         \* 10.8.0.255
  CLIENT_TIMEOUT   \* 300 s

ASSUME ClientTableAssumption ==
  /\ MAX_CLIENTS \in Nat \ {0}
  /\ FIRST_IP \in Nat \ {0}
  /\ LAST_IP \in Nat
  /\ FIRST_IP <= LAST_IP
  /\ CLIENT_TIMEOUT \in Nat

Slots == 0 .. MAX_CLIENTS - 1
VpnIp == FIRST_IP .. LAST_IP
Entry == [vpn_ip : VpnIp, addr : Addr, idle : 0 .. CLIENT_TIMEOUT + 1]

IsClientTable(t) ==
  /\ DOMAIN t.clients \subseteq Slots
  /\ t.clients \in [DOMAIN t.clients -> Entry]
  /\ t.count \in Int
  /\ t.next_ip \in FIRST_IP .. LAST_IP + 1

-----------------------------------------------------------------------------
init_client_table == [clients |-> EmptyTable, count |-> 0, next_ip |-> FIRST_IP]

find_client_by_vpn_ip(t, ip) ==
  FirstSlot({i \in DOMAIN t.clients : t.clients[i].vpn_ip = ip})

find_client_by_addr(t, a) ==
  FirstSlot({i \in DOMAIN t.clients : t.clients[i].addr = a})

(* The table with other entries and a matching count. *)
WithClients(t, c, n) == [clients |-> c, count |-> n, next_ip |-> t.next_ip]

update_client_activity(t, i) ==
  WithClients(t, [t.clients EXCEPT ![i].idle = 0], t.count)

(* Fault: the pool does not start over. *)
AllocatedIp_no_restart(t) == t.next_ip

(* The address add_client would hand out: next_ip, or the first one again  *)
(* once the pool is used up.  Whether some client still holds it is not    *)
(* looked at.                                                              *)
AllocatedIp(t) == IF t.next_ip > LAST_IP THEN FIRST_IP ELSE t.next_ip

(* Faults: the search for a known client is left out; next_ip is not       *)
(* advanced.                                                               *)
FilledSlot(t, a) ==
  Put(t.clients, FirstSlot(Slots \ DOMAIN t.clients),
      [vpn_ip |-> AllocatedIp(t), addr |-> a, idle |-> 0])

add_client_no_lookup(t, a) ==
  IF t.count >= MAX_CLIENTS THEN [vpn_ip |-> 0, table |-> t]
  ELSE [vpn_ip |-> AllocatedIp(t),
        table  |-> [clients |-> FilledSlot(t, a), count |-> t.count + 1,
                    next_ip |-> AllocatedIp(t) + 1]]

add_client_same_ip(t, a) ==
  LET known == find_client_by_addr(t, a)
  IN  IF t.count >= MAX_CLIENTS THEN [vpn_ip |-> 0, table |-> t]
      ELSE IF known # NULL
           THEN [vpn_ip |-> t.clients[known].vpn_ip,
                 table  |-> update_client_activity(t, known)]
      ELSE [vpn_ip |-> AllocatedIp(t),
            table  |-> [clients |-> FilledSlot(t, a), count |-> t.count + 1,
                        next_ip |-> AllocatedIp(t)]]

(* Returns the VPN address (0: failure) and the table left behind.  The    *)
(* limit is tested first, so a full table also turns away a known client.  *)
add_client(t, a) ==
  LET known  == find_client_by_addr(t, a)
      slot   == FirstSlot(Slots \ DOMAIN t.clients)
      failed == [vpn_ip |-> 0, table |-> t]
  IN  IF t.count >= MAX_CLIENTS THEN failed
      ELSE IF known # NULL
           THEN [vpn_ip |-> t.clients[known].vpn_ip,
                 table  |-> update_client_activity(t, known)]
      ELSE IF slot = NULL THEN failed
      ELSE [vpn_ip |-> AllocatedIp(t),
            table  |-> [clients |-> Put(t.clients, slot,
                                        [vpn_ip |-> AllocatedIp(t),
                                         addr   |-> a,
                                         idle   |-> 0]),
                        count   |-> t.count + 1,
                        next_ip |-> AllocatedIp(t) + 1]]

remove_client(t, ip) ==
  LET i == find_client_by_vpn_ip(t, ip)
  IN  IF i = NULL THEN t
      ELSE WithClients(t, Clear(t.clients, {i}), t.count - 1)

(* Fault: >= for >. *)
TimedOut_early(t) ==
  {i \in DOMAIN t.clients : t.clients[i].idle >= CLIENT_TIMEOUT}

TimedOut(t) == {i \in DOMAIN t.clients : t.clients[i].idle > CLIENT_TIMEOUT}

(* Faults: count is not lowered; the loop stops at the first free slot. *)
check_client_timeouts_no_count(t) ==
  WithClients(t, Clear(t.clients, TimedOut(t)), t.count)

check_client_timeouts_break(t) ==
  LET T == {i \in TimedOut(t) : 0 .. i \subseteq DOMAIN t.clients}
  IN  WithClients(t, Clear(t.clients, T), t.count - Cardinality(T))

check_client_timeouts(t) ==
  WithClients(t, Clear(t.clients, TimedOut(t)),
              t.count - Cardinality(TimedOut(t)))

(* One unit of time passes for every entry's last_seen. *)
OlderTable(t) ==
  WithClients(t,
    [i \in DOMAIN t.clients |->
       [t.clients[i] EXCEPT !.idle = IF @ > CLIENT_TIMEOUT THEN @ ELSE @ + 1]],
    t.count)

-----------------------------------------------------------------------------
(* The entry of address a, where the table has one. *)
HasEntry(t, a) == \E i \in DOMAIN t.clients : t.clients[i].addr = a
EntryOf(t, a)  == t.clients[find_client_by_addr(t, a)]

(* Address a has an entry with VPN address ip; none of its entries has     *)
(* been idle for longer than n.                                            *)
Known(t, a, ip) ==
  \E i \in DOMAIN t.clients : t.clients[i].addr = a /\ t.clients[i].vpn_ip = ip
Heard(t, a, n) ==
  \A i \in DOMAIN t.clients : t.clients[i].addr = a => t.clients[i].idle <= n

(* What the server relies on; the modules that use the table say when. *)
CountIsActive(t) == t.count = Cardinality(DOMAIN t.clients)

AddrsDistinct(t) ==
  \A i, j \in DOMAIN t.clients : t.clients[i].addr = t.clients[j].addr => i = j

IpsDistinct(t) ==
  \A i, j \in DOMAIN t.clients :
    t.clients[i].vpn_ip = t.clients[j].vpn_ip => i = j

(* Addresses still to be handed out before the pool starts over are above  *)
(* those in use.                                                           *)
IpsBelowNext(t) == \A i \in DOMAIN t.clients : t.clients[i].vpn_ip < t.next_ip

=============================================================================
