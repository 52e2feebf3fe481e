--------------------------- MODULE VpnServerProofs ---------------------------
(***************************************************************************)
(* Safety of the VPN server for every number of clients, addresses, keys   *)
(* and slots.  The properties of VpnServer that its runs check follow from *)
(* one inductive invariant.                                                *)
(***************************************************************************)
EXTENDS VpnServer, TableProofs

(* The variables other than the two tables have their types. *)
RestOK ==
  /\ since_check \in 0 .. CHECK_INTERVAL
  /\ out \in Outputs
  /\ granted \in [Addr -> Grant \cup {NoGrant}]
  /\ hist \in SUBSET Incidents

(* While the pool has not started over, addresses above next_ip are fresh  *)
(* in both tables: the enclave keeps keys of clients long gone, and only   *)
(* this says that none of them waits for a new client under its address.   *)
FreshAddresses ==
  "wrap" \notin hist =>
    /\ IpsDistinct(table)
    /\ IpsBelowNext(table)
    /\ \A j \in DOMAIN km.keys : km.keys[j].vpn_ip < table.next_ip

(* Every active client was granted its VPN address, and every key the      *)
(* enclave has for that address is the one granted with it.  That the      *)
(* first one found is would not survive remove_key.                        *)
Granted(i) ==
  LET c == table.clients[i]
  IN  /\ granted[c.addr] \in Grant
      /\ granted[c.addr].vpn_ip = c.vpn_ip
      /\ KeysAre(km, c.vpn_ip, granted[c.addr].key)
AllGranted == hist = {} => \A i \in DOMAIN table.clients : Granted(i)

IInv ==
  /\ SoundTable(table)
  /\ SoundKeys(km)
  /\ RestOK
  /\ FreshAddresses
  /\ AllGranted
  /\ TrafficUnderGrantedKey

LEMMA InitIInv == Init => IInv
<1> SUFFICES ASSUME Init PROVE IInv
  OBVIOUS
<1>1. /\ table.clients = EmptyTable
      /\ table.count = 0
      /\ table.next_ip = FIRST_IP
  BY DEF Init, init_client_table
<1>2. PICK sk \in ServerKey : km = init_key_manager(sk)
  BY DEF Init
<1>3. km.keys = EmptyTable /\ km.count = 0 /\ km.server_key = sk
  BY <1>2 DEF init_key_manager
<1>4. DOMAIN EmptyTable = {} /\ \A S : EmptyTable \in [{} -> S]
  BY DEF EmptyTable
<1>5. Cardinality({}) = 0
  BY FS_EmptySet
<1>6. SoundTable(table)
  BY <1>1, <1>4, <1>5, ClientTableAssumption
     DEF SoundTable, IsClientTable, CountIsActive, AddrsDistinct
<1>7. SoundKeys(km)
  BY <1>3, <1>4, <1>5 DEF SoundKeys, IsKeyManager
<1>8. RestOK
  BY CheckIntervalAssumption DEF Init, RestOK, Outputs, Silent
<1>9. FreshAddresses /\ AllGranted
  BY <1>1, <1>3, <1>4 DEF FreshAddresses, AllGranted, IpsDistinct, IpsBelowNext
<1>10. TrafficUnderGrantedKey
  BY DEF Init, Silent, TrafficUnderGrantedKey
<1> QED BY ZenonT(30), <1>6, <1>7, <1>8, <1>9, <1>10 DEF IInv

(* A step that only drops entries or changes idle times, and sends nothing *)
(* the invariant does not allow, preserves it.                             *)
LEMMA QuietStep ==
  ASSUME IInv, SoundTable(table'), SubTable(table', table),
         UNCHANGED <<km, granted, hist>>,
         since_check' \in 0 .. CHECK_INTERVAL, out' \in Outputs,
         TrafficUnderGrantedKey'
  PROVE  IInv'
<1>1. SoundKeys(km') /\ RestOK'
  BY DEF IInv, RestOK
<1>2. FreshAddresses'
  <2> SUFFICES ASSUME "wrap" \notin hist PROVE FreshAddresses'
    BY DEF FreshAddresses
  <2>1. IpsDistinct(table) /\ IpsBelowNext(table)
    BY DEF IInv, FreshAddresses
  <2>2. IpsDistinct(table') /\ IpsBelowNext(table')
    BY <2>1, SubTableKeeps
  <2>3. \A j \in DOMAIN km.keys : km.keys[j].vpn_ip < table'.next_ip
    BY DEF IInv, FreshAddresses, SubTable
  <2> QED BY <2>2, <2>3 DEF FreshAddresses
<1>3. AllGranted'
  <2> SUFFICES ASSUME hist = {}, NEW i \in DOMAIN table'.clients
               PROVE  Granted(i)'
    BY DEF AllGranted
  <2>1. Granted(i)
    BY DEF IInv, AllGranted, SubTable
  <2>2. /\ table'.clients[i].addr = table.clients[i].addr
        /\ table'.clients[i].vpn_ip = table.clients[i].vpn_ip
    BY DEF SubTable
  <2> QED BY ZenonT(30), <2>1, <2>2 DEF Granted
<1> QED BY <1>1, <1>2, <1>3 DEF IInv

(* What is not DATA or TUN traffic needs no key. *)
LEMMA NoTraffic ==
  ASSUME out' \in [type : {"none", "CONNECT_RESP", "PONG"}]
  PROVE  out' \in Outputs /\ TrafficUnderGrantedKey'
BY DEF Outputs, TrafficUnderGrantedKey

(* The packets that do not change who is connected. *)
LEMMA DataStep ==
  ASSUME IInv, NEW a \in Addr, NEW key \in SessionKey, Data(a, key)
  PROVE  IInv'
<1> DEFINE i == find_client_by_addr(table, a)
<1>1. SoundTable(table) /\ IsClientTable(table)
  BY DEF IInv, SoundTable
<1>2. i \in DOMAIN table.clients /\ table.clients[i].addr = a
  BY <1>1, FindByAddr DEF Data
<1>3. EntryOf(table, a) = table.clients[i]
  BY DEF EntryOf
<1>4. table' = update_client_activity(table, i)
  BY DEF Data
<1> HIDE DEF i
<1>5. SoundTable(table') /\ SubTable(table', table)
  BY ZenonT(30), <1>1, <1>2, <1>4, TouchSound
<1>6. out' \in Outputs /\ TrafficUnderGrantedKey'
  <2>1. CASE out' = Silent
    BY <2>1, NoTraffic DEF Silent
  <2>2. CASE out' # Silent
    <3>1. /\ out' = [type |-> "TUN", addr |-> a, key |-> key]
          /\ enclave_decrypt_ok(table.clients[i].vpn_ip, key)
      BY <1>3, <2>2 DEF Data
    <3>2. out' \in Outputs
      BY <3>1 DEF Outputs
    <3>3. hist = {} => granted[a].key = key
      <4> SUFFICES ASSUME hist = {} PROVE granted[a].key = key
        OBVIOUS
      <4>1. KeysAre(km, table.clients[i].vpn_ip, granted[a].key)
        BY ZenonT(30), <1>2 DEF IInv, AllGranted, Granted
      <4>2. get_key(km, table.clients[i].vpn_ip) = granted[a].key
        BY <4>1, GetKeyFinds DEF IInv, SoundKeys
      <4> QED BY <3>1, <4>2 DEF enclave_decrypt_ok
    <3>4. granted' = granted /\ hist' = hist
      BY DEF Data
    <3> QED BY ZenonT(30), <3>1, <3>2, <3>3, <3>4 DEF TrafficUnderGrantedKey
  <2> QED BY <2>1, <2>2
<1>7. UNCHANGED <<km, granted, hist>> /\ since_check' \in 0 .. CHECK_INTERVAL
  BY DEF Data, IInv, RestOK
<1> QED BY ZenonT(30), <1>5, <1>6, <1>7, QuietStep

LEMMA PingStep ==
  ASSUME IInv, NEW a \in Addr, Ping(a)
  PROVE  IInv'
<1> DEFINE i == find_client_by_addr(table, a)
<1>1. SoundTable(table) /\ IsClientTable(table)
  BY DEF IInv, SoundTable
<1>2. SoundTable(table') /\ SubTable(table', table)
  <2>1. CASE HasEntry(table, a)
    <3>1. i \in DOMAIN table.clients
      BY <1>1, <2>1, FindByAddr
    <3>2. table' = update_client_activity(table, i)
      BY <2>1 DEF Ping
    <3> HIDE DEF i
    <3> QED BY <1>1, <3>1, <3>2, TouchSound
  <2>2. CASE ~HasEntry(table, a)
    BY <1>1, <2>2 DEF Ping, SubTable
  <2> QED BY <2>1, <2>2
<1>3. out' \in Outputs /\ TrafficUnderGrantedKey'
  BY NoTraffic DEF Ping
<1>4. UNCHANGED <<km, granted, hist>> /\ since_check' \in 0 .. CHECK_INTERVAL
  BY DEF Ping, IInv, RestOK
<1> QED BY <1>2, <1>3, <1>4, QuietStep

LEMMA TunForwardedStep ==
  ASSUME IInv, NEW d \in VpnIp, NEW sent \in BOOLEAN, TunForwarded(d, sent)
  PROVE  IInv'
<1> DEFINE i == find_client_by_vpn_ip(table, d)
<1>1. SoundTable(table) /\ IsClientTable(table) /\ IsKeyManager(km)
  BY DEF IInv, SoundTable, SoundKeys
<1>2. i \in DOMAIN table.clients /\ table.clients[i].vpn_ip = d
  BY <1>1, FindByIp DEF TunForwarded
<1>3. /\ HasKey(km, d)
      /\ table' = IF sent THEN update_client_activity(table, i) ELSE table
      /\ out' = IF sent THEN [type |-> "DATA", addr |-> table.clients[i].addr,
                              dst |-> d, key |-> get_key(km, d)]
                        ELSE Silent
      /\ UNCHANGED <<km, since_check, granted, hist>>
  BY DEF TunForwarded, enclave_encrypt_ok
<1> HIDE DEF i
<1>4. SoundTable(table') /\ SubTable(table', table)
  BY ZenonT(30), <1>1, <1>2, <1>3, TouchSound DEF SubTable
<1>5. out' \in Outputs /\ TrafficUnderGrantedKey'
  <2>1. CASE ~sent
    BY <1>3, <2>1, NoTraffic DEF Silent
  <2>2. CASE sent
    <3> DEFINE a == table.clients[i].addr
    <3>1. out' = [type |-> "DATA", addr |-> a, dst |-> d, key |-> get_key(km, d)]
      BY <1>3, <2>2
    <3>2. a \in Addr
      BY <1>1, <1>2 DEF IsClientTable, Entry
    <3>3. get_key(km, d) \in SessionKey
      BY ZenonT(30), <1>1, <1>3, GetKeyType
    <3>4. out' \in Outputs
      BY ZenonT(30), <3>1, <3>2, <3>3 DEF Outputs
    <3>5. hist = {} => granted[a] = [vpn_ip |-> d, key |-> get_key(km, d)]
      <4> SUFFICES ASSUME hist = {}
                   PROVE  granted[a] = [vpn_ip |-> d, key |-> get_key(km, d)]
        OBVIOUS
      <4>1. /\ granted[a] \in Grant
            /\ granted[a].vpn_ip = d
            /\ KeysAre(km, d, granted[a].key)
        BY ZenonT(30), <1>2 DEF IInv, AllGranted, Granted
      <4>2. get_key(km, d) = granted[a].key
        BY ZenonT(30), <1>1, <4>1, GetKeyFinds
      <4> QED BY ZenonT(30), <4>1, <4>2 DEF Grant
    <3> QED BY <1>3, <3>1, <3>4, <3>5 DEF TrafficUnderGrantedKey
  <2> QED BY <2>1, <2>2
<1>6. since_check' \in 0 .. CHECK_INTERVAL
  BY <1>3 DEF IInv, RestOK
<1> QED BY ZenonT(30), <1>3, <1>4, <1>5, <1>6, QuietStep

LEMMA IdleStep ==
  ASSUME IInv, Idle
  PROVE  IInv'
<1>1. SoundTable(table)
  BY DEF IInv
<1>2. SoundTable(table') /\ SubTable(table', table)
  <2>1. CASE since_check >= CHECK_INTERVAL
    BY <1>1, <2>1, TimeoutsSound DEF Idle
  <2>2. CASE ~ since_check >= CHECK_INTERVAL
    BY <1>1, <2>2 DEF Idle, SubTable
  <2> QED BY <2>1, <2>2
<1>3. since_check' \in 0 .. CHECK_INTERVAL
  BY CheckIntervalAssumption DEF Idle, IInv, RestOK
<1>4. out' \in Outputs /\ TrafficUnderGrantedKey'
  BY NoTraffic DEF Idle, Silent
<1>5. UNCHANGED <<km, granted, hist>>
  BY DEF Idle
<1> QED BY ZenonT(30), <1>2, <1>3, <1>4, <1>5, QuietStep

LEMMA TickStep ==
  ASSUME IInv, Tick
  PROVE  IInv'
<1>1. SoundTable(table') /\ SubTable(table', table)
  BY OlderSound DEF IInv, Tick
<1>2. since_check' \in 0 .. CHECK_INTERVAL
  BY CheckIntervalAssumption DEF Tick, IInv, RestOK
<1>3. out' \in Outputs /\ TrafficUnderGrantedKey'
  BY NoTraffic DEF Tick, Silent
<1>4. UNCHANGED <<km, granted, hist>>
  BY DEF Tick
<1> QED BY ZenonT(30), <1>1, <1>2, <1>3, <1>4, QuietStep

(* Packets that are dropped, and stuttering. *)
LEMMA DroppedStep ==
  ASSUME IInv, UNCHANGED <<table, km, since_check, granted, hist>>,
         out' = Silent \/ out' = out
  PROVE  IInv'
<1>1. SoundTable(table') /\ SubTable(table', table)
  BY DEF IInv, SubTable
<1>2. since_check' \in 0 .. CHECK_INTERVAL
  BY DEF IInv, RestOK
<1>3. out' \in Outputs /\ TrafficUnderGrantedKey'
  <2>1. CASE out' = Silent
    BY <2>1, NoTraffic DEF Silent
  <2>2. CASE out' = out
    BY <2>2 DEF IInv, RestOK, TrafficUnderGrantedKey
  <2> QED BY <2>1, <2>2
<1> QED BY <1>1, <1>2, <1>3, QuietStep

LEMMA DisconnectStep ==
  ASSUME IInv, NEW a \in Addr, Disconnect(a)
  PROVE  IInv'
<1>1. SoundTable(table) /\ IsClientTable(table) /\ SoundKeys(km)
  BY DEF IInv, SoundTable
<1>2. CASE ~HasEntry(table, a)
  BY <1>2, DroppedStep DEF Disconnect
<1>3. CASE HasEntry(table, a)
  <2> DEFINE i  == find_client_by_addr(table, a)
             ip == table.clients[i].vpn_ip
  <2>1. i \in DOMAIN table.clients
    BY <1>1, <1>3, FindByAddr
  <2>2. /\ km' = remove_key(km, ip)
        /\ table' = remove_client(table, ip)
        /\ UNCHANGED <<since_check, granted, hist>>
    BY <1>3 DEF Disconnect, EntryOf
  <2> HIDE DEF i
  <2>3. SoundTable(table') /\ SubTable(table', table)
    BY ZenonT(30), <1>1, <2>2, RemoveSound
  <2>4. /\ SoundKeys(km')
        /\ DOMAIN km'.keys \subseteq DOMAIN km.keys
        /\ \A j \in DOMAIN km'.keys : km'.keys[j] = km.keys[j]
        /\ \A d, k : d # ip /\ KeysAre(km, d, k) => KeysAre(km', d, k)
    BY <1>1, <2>2, RemoveKey
  <2>5. /\ TrafficUnderGrantedKey'
        /\ RestOK'
    BY ZenonT(30), <2>2, NoTraffic DEF Disconnect, Silent, IInv, RestOK
  <2>6. FreshAddresses'
    <3> SUFFICES ASSUME "wrap" \notin hist PROVE FreshAddresses'
      BY ZenonT(30), <2>2 DEF FreshAddresses
    <3>1. IpsDistinct(table') /\ IpsBelowNext(table')
      BY <2>3, SubTableKeeps DEF IInv, FreshAddresses
    <3>2. \A j \in DOMAIN km'.keys : km'.keys[j].vpn_ip < table'.next_ip
      BY ZenonT(30), <2>3, <2>4 DEF IInv, FreshAddresses, SubTable
    <3> QED BY SMTT(30), <3>1, <3>2 DEF FreshAddresses
  <2>7. AllGranted'
    <3> SUFFICES ASSUME hist = {}, NEW j \in DOMAIN table'.clients
                 PROVE  Granted(j)'
      BY <2>2 DEF AllGranted
    <3>1. IpsDistinct(table)
      BY SMTT(30) DEF IInv, FreshAddresses
    <3>2. /\ j \in DOMAIN table.clients
          /\ table'.clients[j] = table.clients[j]
          /\ table.clients[j].vpn_ip # ip
      <4>1. Minus(table', table, i)
        BY ZenonT(30), <1>1, <2>1, <2>2, <3>1, RemoveUnique
      <4>2. j \in DOMAIN table.clients /\ j # i /\ table'.clients[j] = table.clients[j]
        BY <4>1 DEF Minus
      <4> QED BY ZenonT(30), <2>1, <3>1, <4>2 DEF IpsDistinct
    <3>3. Granted(j)
      BY <3>2 DEF IInv, AllGranted
    <3> QED BY ZenonT(30), <2>2, <2>4, <3>2, <3>3 DEF Granted
  <2> QED BY ZenonT(30), <2>3, <2>4, <2>5, <2>6, <2>7 DEF IInv
<1> QED BY <1>2, <1>3

(* The table add_client leaves when the pool does not start over. *)
LEMMA AddedFresh ==
  ASSUME IInv, NEW a \in Addr, NEW pk, add_client(table, a).vpn_ip # 0,
         "wrap" \notin hist \cup ConnectIncidents(a, pk)
  PROVE  LET u == add_client(table, a).table
         IN  /\ "wrap" \notin hist
             /\ HasEntry(table, a) \/ table.next_ip <= LAST_IP
             /\ IpsDistinct(u)
             /\ IpsBelowNext(u)
             /\ table.next_ip \in Int /\ u.next_ip \in Int
             /\ table.next_ip <= u.next_ip
<1>1. SoundTable(table) /\ SoundTable(add_client(table, a).table)
  BY AddSound DEF IInv
<1>2. /\ table.next_ip \in Int
      /\ add_client(table, a).table.next_ip \in Int
  BY <1>1, ClientTableAssumption DEF SoundTable, IsClientTable
<1>3. "wrap" \notin hist
  OBVIOUS
<1>4. HasEntry(table, a) \/ ~ table.next_ip > LAST_IP
  BY DEF ConnectIncidents
<1>5. HasEntry(table, a) \/ table.next_ip <= LAST_IP
  BY <1>2, <1>4, ClientTableAssumption
<1>6. IpsDistinct(table) /\ IpsBelowNext(table)
  BY SMTT(30), <1>3 DEF IInv, FreshAddresses
<1> QED BY ZenonT(30), <1>1, <1>2, <1>3, <1>5, <1>6, AddKeepsIpsDistinct

(* A failed handshake: the entry that was found or made is removed again.  *)
(* Without a new start of the pool every remaining entry was there before. *)
KeptBut(u, a) ==
  /\ DOMAIN u.clients
       = {j \in DOMAIN table.clients : table.clients[j].addr # a}
  /\ \A j \in DOMAIN u.clients :
       /\ u.clients[j].addr = table.clients[j].addr
       /\ u.clients[j].vpn_ip = table.clients[j].vpn_ip

LEMMA FailedKeeps ==
  ASSUME IInv, NEW a \in Addr, NEW pk, add_client(table, a).vpn_ip # 0,
         "wrap" \notin hist \cup ConnectIncidents(a, pk),
         NEW t, t = add_client(table, a).table,
         NEW ip, ip = add_client(table, a).vpn_ip,
         NEW u, u = remove_client(t, ip)
  PROVE  KeptBut(u, a)
<1>1. SoundTable(table) /\ SoundTable(t) /\ IpsDistinct(t) /\ AddrsDistinct(table)
  BY ZenonT(30), AddSound, AddedFresh DEF IInv, SoundTable
<1>2. CASE HasEntry(table, a)
  <2> DEFINE i == find_client_by_addr(table, a)
  <2>1. /\ i \in DOMAIN table.clients
        /\ table.clients[i].addr = a
        /\ ip = table.clients[i].vpn_ip
        /\ t = update_client_activity(table, i)
    BY <1>1, <1>2, AddKnown
  <2>2. SubTable(t, table) /\ DOMAIN t.clients = DOMAIN table.clients
    BY <1>1, <2>1, TouchSound
  <2> HIDE DEF i
  <2>3. ip = t.clients[i].vpn_ip /\ i \in DOMAIN t.clients
    BY ZenonT(30), <2>1, <2>2 DEF SubTable
  <2>4. /\ DOMAIN u.clients = DOMAIN t.clients \ {i}
        /\ \A j \in DOMAIN u.clients : u.clients[j] = t.clients[j]
    <3>1. Minus(u, t, i)
      BY ZenonT(30), <1>1, <2>3, RemoveUnique
    <3> QED BY ZenonT(30), <3>1 DEF Minus
  <2>5. DOMAIN table.clients \ {i}
          = {j \in DOMAIN table.clients : table.clients[j].addr # a}
    BY <1>1, <2>1 DEF AddrsDistinct
  <2>6. \A j \in DOMAIN u.clients :
          /\ u.clients[j].addr = table.clients[j].addr
          /\ u.clients[j].vpn_ip = table.clients[j].vpn_ip
    <3>1. \A j \in DOMAIN t.clients :
            /\ t.clients[j].addr = table.clients[j].addr
            /\ t.clients[j].vpn_ip = table.clients[j].vpn_ip
      BY <2>2 DEF SubTable
    <3>2. \A j \in DOMAIN u.clients :
            j \in DOMAIN t.clients /\ u.clients[j] = t.clients[j]
      BY <2>4
    <3> QED BY <3>1, <3>2
  <2> QED BY ZenonT(30), <2>2, <2>4, <2>5, <2>6 DEF KeptBut
<1>3. CASE ~HasEntry(table, a)
  <2>1. PICK s \in Slots \ DOMAIN table.clients :
          /\ DOMAIN t.clients = DOMAIN table.clients \cup {s}
          /\ t.clients[s].vpn_ip = ip
          /\ \A j \in DOMAIN table.clients : t.clients[j] = table.clients[j]
    <3>0. NewSlot(t, table, [vpn_ip |-> ip, addr |-> a, idle |-> 0])
      BY ZenonT(30), <1>1, <1>3, AddedSlot
    <3>1. PICK s \in Slots \ DOMAIN table.clients :
            /\ DOMAIN t.clients = DOMAIN table.clients \cup {s}
            /\ t.clients[s] = [vpn_ip |-> ip, addr |-> a, idle |-> 0]
            /\ \A j \in DOMAIN table.clients : t.clients[j] = table.clients[j]
      BY ZenonT(30), <3>0 DEF NewSlot
    <3>2. t.clients[s].vpn_ip = ip
      BY <3>1
    <3> QED BY ZenonT(30), <3>1, <3>2
  <2>2. s \in DOMAIN t.clients
    BY <2>1
  <2>3. /\ DOMAIN u.clients = DOMAIN t.clients \ {s}
        /\ \A j \in DOMAIN u.clients : u.clients[j] = t.clients[j]
    <3>1. Minus(u, t, s)
      BY ZenonT(30), <1>1, <2>1, <2>2, RemoveUnique
    <3> QED BY ZenonT(30), <3>1 DEF Minus
  <2>4. DOMAIN u.clients = DOMAIN table.clients
    BY <2>1, <2>3
  <2>5. \A j \in DOMAIN table.clients : table.clients[j].addr # a
    BY <1>3 DEF HasEntry
  <2> QED BY ZenonT(30), <2>1, <2>3, <2>4, <2>5 DEF KeptBut
<1> QED BY <1>2, <1>3

LEMMA ConnectFailedStep ==
  ASSUME IInv, NEW a \in Addr, NEW pk, ConnectFailed(a, pk)
  PROVE  IInv'
<1> DEFINE t  == add_client(table, a).table
           ip == add_client(table, a).vpn_ip
<1>1. /\ ip # 0
      /\ table' = remove_client(t, ip)
      /\ km' = km
      /\ hist' = hist \cup ConnectIncidents(a, pk)
      /\ UNCHANGED <<since_check, granted>>
      /\ out' = Silent
  BY DEF ConnectFailed, enclave_handshake, perform_handshake
<1>2. SoundTable(t)
  BY <1>1, AddSound DEF IInv
<1>3. SoundTable(table') /\ SubTable(table', t)
  BY ZenonT(30), <1>1, <1>2, RemoveSound
<1>4. TrafficUnderGrantedKey' /\ out' \in Outputs
  BY <1>1, NoTraffic DEF Silent
<1>5. RestOK'
  BY ZenonT(30), <1>1, <1>4 DEF IInv, RestOK, ConnectIncidents, Incidents
<1>6. FreshAddresses'
  <2> SUFFICES ASSUME "wrap" \notin hist' PROVE FreshAddresses'
    BY SMTT(30) DEF FreshAddresses
  <2>1. /\ "wrap" \notin hist
        /\ IpsDistinct(t) /\ IpsBelowNext(t)
        /\ table.next_ip \in Int /\ t.next_ip \in Int
        /\ table.next_ip <= t.next_ip
    BY ZenonT(30), <1>1, AddedFresh
  <2> HIDE DEF t
  <2>2. IpsDistinct(table') /\ IpsBelowNext(table') /\ table'.next_ip = t.next_ip
    BY ZenonT(30), <1>3, <2>1, SubTableKeeps DEF SubTable
  <2>3. \A j \in DOMAIN km.keys : /\ km.keys[j].vpn_ip \in Int
                                  /\ km.keys[j].vpn_ip < table.next_ip
    BY SMTT(30), <2>1 DEF IInv, FreshAddresses, SoundKeys, IsKeyManager, KeyEntry
  <2>4. \A j \in DOMAIN km'.keys : km'.keys[j].vpn_ip < table'.next_ip
    BY SMTT(30), <1>1, <2>1, <2>2, <2>3
  <2> QED BY <2>2, <2>4 DEF FreshAddresses
<1>7. AllGranted'
  <2> SUFFICES ASSUME hist' = {}, NEW j \in DOMAIN table'.clients
               PROVE  Granted(j)'
    BY DEF AllGranted
  <2>1. hist = {}
    BY SMTT(30), <1>1
  <2>2. /\ j \in DOMAIN table.clients
        /\ table'.clients[j].addr = table.clients[j].addr
        /\ table'.clients[j].vpn_ip = table.clients[j].vpn_ip
    <3>1. KeptBut(table', a)
      BY ZenonT(30), <1>1, <2>1, FailedKeeps
    <3> QED BY ZenonT(30), <3>1 DEF KeptBut
  <2>3. Granted(j)
    BY ZenonT(30), <2>1, <2>2 DEF IInv, AllGranted
  <2> QED BY ZenonT(30), <1>1, <2>2, <2>3 DEF Granted
<1> QED BY ZenonT(30), <1>1, <1>3, <1>4, <1>5, <1>6, <1>7 DEF IInv

(* The entries after a CONNECT_REQ that was accepted without a new start   *)
(* of the pool: the sender's has the address it is told, the others are as *)
(* they were and have other addresses.                                     *)
OwnOrKept(u, ip, a, j) ==
  \/ u.clients[j].addr = a /\ u.clients[j].vpn_ip = ip
  \/ /\ j \in DOMAIN table.clients
     /\ u.clients[j].addr # a
     /\ u.clients[j].addr = table.clients[j].addr
     /\ u.clients[j].vpn_ip = table.clients[j].vpn_ip
     /\ u.clients[j].vpn_ip # ip

LEMMA AcceptedEntries ==
  ASSUME IInv, NEW a \in Addr, NEW pk, add_client(table, a).vpn_ip # 0,
         "wrap" \notin hist \cup ConnectIncidents(a, pk),
         NEW u, u = add_client(table, a).table,
         NEW ip, ip = add_client(table, a).vpn_ip
  PROVE  \A j \in DOMAIN u.clients : OwnOrKept(u, ip, a, j)
<1>1. /\ SoundTable(table) /\ SoundTable(u)
      /\ IpsDistinct(u) /\ AddrsDistinct(u)
  BY ZenonT(30), AddSound, AddedFresh DEF IInv, SoundTable
<1>2. PICK s \in DOMAIN u.clients :
        /\ u.clients[s].addr = a
        /\ u.clients[s].vpn_ip = ip
        /\ \A j \in DOMAIN u.clients \ {s} :
             /\ j \in DOMAIN table.clients
             /\ u.clients[j].addr = table.clients[j].addr
             /\ u.clients[j].vpn_ip = table.clients[j].vpn_ip
  <2>1. CASE HasEntry(table, a)
    <3> DEFINE i == find_client_by_addr(table, a)
    <3>1. /\ i \in DOMAIN table.clients
          /\ table.clients[i].addr = a
          /\ ip = table.clients[i].vpn_ip
          /\ u = update_client_activity(table, i)
      BY <1>1, <2>1, AddKnown
    <3>2. SubTable(u, table) /\ DOMAIN u.clients = DOMAIN table.clients
      BY <1>1, <3>1, TouchSound
    <3> HIDE DEF i
    <3>3. \A j \in DOMAIN u.clients :
            /\ j \in DOMAIN table.clients
            /\ u.clients[j].addr = table.clients[j].addr
            /\ u.clients[j].vpn_ip = table.clients[j].vpn_ip
      BY <3>2 DEF SubTable
    <3>4. i \in DOMAIN u.clients /\ u.clients[i].addr = a /\ u.clients[i].vpn_ip = ip
      BY ZenonT(30), <3>1, <3>2, <3>3
    <3> QED BY ZenonT(30), <3>3, <3>4
  <2>2. CASE ~HasEntry(table, a)
    <3>0. NewSlot(u, table, [vpn_ip |-> ip, addr |-> a, idle |-> 0])
      BY ZenonT(30), <1>1, <2>2, AddedSlot
    <3>1. PICK s \in Slots \ DOMAIN table.clients :
            /\ DOMAIN u.clients = DOMAIN table.clients \cup {s}
            /\ u.clients[s] = [vpn_ip |-> ip, addr |-> a, idle |-> 0]
            /\ \A j \in DOMAIN table.clients : u.clients[j] = table.clients[j]
      BY ZenonT(30), <3>0 DEF NewSlot
    <3>2. u.clients[s].addr = a /\ u.clients[s].vpn_ip = ip
      BY <3>1
    <3> QED BY ZenonT(30), <3>1, <3>2
  <2> QED BY ZenonT(30), <2>1, <2>2
<1> SUFFICES ASSUME NEW j \in DOMAIN u.clients PROVE OwnOrKept(u, ip, a, j)
  OBVIOUS
<1> DEFINE c == u.clients
<1>5. c[s].addr = a /\ c[s].vpn_ip = ip
  BY <1>2
<1>6. \A k, l \in DOMAIN c : c[k].addr = c[l].addr => k = l
  BY <1>1 DEF AddrsDistinct
<1>7. \A k, l \in DOMAIN c : c[k].vpn_ip = c[l].vpn_ip => k = l
  BY <1>1 DEF IpsDistinct
<1>3. CASE j = s
  BY <1>2, <1>3 DEF OwnOrKept
<1>4. CASE j # s
  <2>1. u.clients[j].addr # a
    BY <1>4, <1>5, <1>6
  <2>2. u.clients[j].vpn_ip # ip
    BY <1>4, <1>5, <1>7
  <2> QED BY <1>2, <1>4, <2>1, <2>2 DEF OwnOrKept
<1> QED BY <1>3, <1>4

(* Without incidents, the keys the enclave already has for the address a   *)
(* CONNECT_REQ is given are the key the handshake derives: a client that   *)
(* repeats its request derives the same key, and a new address has none.   *)
LEMMA OldKeysAgree ==
  ASSUME IInv, NEW a \in Addr, NEW pk, add_client(table, a).vpn_ip # 0,
         hist = {}, ConnectIncidents(a, pk) = {}, HandshakeIncidents(a, pk) = {}
  PROVE  \A i \in KeySlotsOf(km, add_client(table, a).vpn_ip) :
           km.keys[i].session_key = derive_session_key(pk, km.server_key)
<1> DEFINE ip  == add_client(table, a).vpn_ip
           key == derive_session_key(pk, km.server_key)
<1>1. SoundTable(table)
  BY SMTT(30) DEF IInv
<1>2. CASE HasEntry(table, a)
  <2> DEFINE i == find_client_by_addr(table, a)
  <2>1. /\ i \in DOMAIN table.clients
        /\ table.clients[i].addr = a
        /\ ip = table.clients[i].vpn_ip
    BY SMTT(30), <1>1, <1>2, AddKnown
  <2> HIDE DEF i, ip
  <2>2. granted[a] \in Grant /\ KeysAre(km, ip, granted[a].key)
    BY ZenonT(30), <2>1 DEF IInv, AllGranted, Granted
  <2>3. granted[a] # NoGrant
    BY <2>2, ClientTableAssumption DEF Grant, NoGrant, VpnIp
  <2>4. granted[a].key = key
    BY <1>2, <2>3 DEF HandshakeIncidents
  <2> QED BY ZenonT(30), <2>2, <2>4 DEF KeysAre, ip
<1>3. CASE ~HasEntry(table, a)
  <2>1. ip = AllocatedIp(table)
    BY ZenonT(30), <1>1, <1>3, AddNew
  <2>2. ~ table.next_ip > LAST_IP
    BY <1>3 DEF ConnectIncidents
  <2>3. ip = table.next_ip
    BY <2>1, <2>2 DEF AllocatedIp
  <2>4. \A j \in DOMAIN km.keys : km.keys[j].vpn_ip < table.next_ip
    BY DEF IInv, FreshAddresses
  <2>5. table.next_ip \in Int
    BY <1>1, ClientTableAssumption DEF SoundTable, IsClientTable
  <2> HIDE DEF ip
  <2>6. KeySlotsOf(km, ip) = {}
    BY <2>3, <2>4, <2>5 DEF KeySlotsOf
  <2> QED BY <2>6 DEF ip
<1> QED BY <1>2, <1>3

LEMMA GrantedNow ==
  ASSUME IInv, hist = {}
  PROVE  \A i \in DOMAIN table.clients : Granted(i)
  BY DEF IInv, AllGranted

LEMMA ConnectAcceptedStep ==
  ASSUME IInv, NEW a \in Addr, NEW pk \in PublicKey \cup {InvalidKey},
         ConnectAccepted(a, pk)
  PROVE  IInv'
<1> DEFINE ip  == add_client(table, a).vpn_ip
           key == derive_session_key(pk, km.server_key)
<1>1. ~ecdh_fails(pk)
  BY DEF ConnectAccepted, enclave_handshake, perform_handshake
<1>2. ip # 0 /\ table' = add_client(table, a).table
  BY DEF ConnectAccepted
<1>3. km' = add_key(km, ip, key)
  BY <1>1 DEF ConnectAccepted, enclave_handshake, perform_handshake
<1>4. granted' = [granted EXCEPT ![a] = [vpn_ip |-> ip, key |-> key]]
  BY DEF ConnectAccepted
<1>5. hist' = hist \cup ConnectIncidents(a, pk) \cup HandshakeIncidents(a, pk)
  BY DEF ConnectAccepted
<1>6. SoundTable(table') /\ ip \in VpnIp
  BY <1>2, AddSound DEF IInv
<1>7. ip \in Nat /\ key \in SessionKey
  BY SMTT(30), <1>1, <1>6, ClientTableAssumption
     DEF IInv, SoundKeys, IsKeyManager, derive_session_key, SessionKey,
         ecdh_fails, VpnIp
<1>8. /\ TrafficUnderGrantedKey'
      /\ out' \in Outputs
      /\ since_check' \in 0 .. CHECK_INTERVAL
  BY NoTraffic DEF ConnectAccepted, IInv, RestOK
<1>9. SoundTable(table) /\ SoundKeys(km)
  BY DEF IInv
<1> HIDE DEF ip, key
<1>10. SoundKeys(km')
  BY ZenonT(30), <1>3, <1>7, <1>9, AddKey
<1>11. [vpn_ip |-> ip, key |-> key] \in Grant
  BY <1>6, <1>7 DEF Grant
<1>12. /\ granted' \in [Addr -> Grant \cup {NoGrant}]
       /\ granted'[a] \in Grant
       /\ granted'[a].vpn_ip = ip
       /\ granted'[a].key = key
       /\ \A b \in Addr : b # a => granted'[b] = granted[b]
  BY <1>4, <1>11 DEF IInv, RestOK
<1>13. RestOK'
  <2>1. hist' \in SUBSET Incidents
    BY ZenonT(30), <1>5 DEF IInv, RestOK, ConnectIncidents, HandshakeIncidents, Incidents
  <2> QED BY ZenonT(30), <1>8, <1>12, <2>1 DEF RestOK
<1>14. FreshAddresses'
  <2> SUFFICES ASSUME "wrap" \notin hist' PROVE FreshAddresses'
    BY SMTT(30) DEF FreshAddresses
  <2>1. /\ "wrap" \notin hist
        /\ IpsDistinct(table') /\ IpsBelowNext(table')
        /\ table.next_ip \in Int /\ table'.next_ip \in Int
        /\ table.next_ip <= table'.next_ip
    BY ZenonT(30), <1>2, <1>5, AddedFresh DEF ip
  <2>2. \A j \in DOMAIN km.keys : /\ km.keys[j].vpn_ip \in Int
                                  /\ km.keys[j].vpn_ip < table.next_ip
    BY <2>1 DEF IInv, FreshAddresses, SoundKeys, IsKeyManager, KeyEntry
  <2>3. ip < table'.next_ip
    <3>1. \E j \in DOMAIN table'.clients : table'.clients[j].vpn_ip = ip
      BY ZenonT(30), <1>2, <1>9, AddedHasIp DEF ip
    <3> QED BY <2>1, <3>1 DEF IpsBelowNext
  <2>4. \A j \in DOMAIN km'.keys :
          \/ j \in DOMAIN km.keys /\ km'.keys[j].vpn_ip = km.keys[j].vpn_ip
          \/ km'.keys[j].vpn_ip = ip
    BY ZenonT(30), <1>3, <1>7, <1>9, AddKeyAddrs
  <2>5. \A j \in DOMAIN km'.keys : km'.keys[j].vpn_ip < table'.next_ip
    BY SMTT(30), <2>1, <2>2, <2>3, <2>4
  <2> QED BY <2>1, <2>5 DEF FreshAddresses
<1>15. AllGranted'
  <2> SUFFICES ASSUME hist' = {}, NEW j \in DOMAIN table'.clients
               PROVE  Granted(j)'
    BY DEF AllGranted
  <2>1. hist = {} /\ ConnectIncidents(a, pk) = {} /\ HandshakeIncidents(a, pk) = {}
    BY <1>5
  <2>2. ~KeyTableFull(km)
    BY <2>1 DEF HandshakeIncidents
  <2>3. \A i \in KeySlotsOf(km, ip) : km.keys[i].session_key = key
    BY ZenonT(30), <1>2, <2>1, OldKeysAgree DEF key, ip
  <2>4. /\ KeysAre(km', ip, key)
        /\ \A d, k : d # ip /\ KeysAre(km, d, k) => KeysAre(km', d, k)
    BY ZenonT(30), <1>3, <1>7, <1>9, <2>2, <2>3, AddKeyAgrees
  <2>5. OwnOrKept(table', ip, a, j)
    <3>1. "wrap" \notin hist \cup ConnectIncidents(a, pk)
      BY <2>1
    <3> QED BY ZenonT(30), <1>2, <3>1, AcceptedEntries DEF ip
  <2>6. CASE table'.clients[j].addr = a /\ table'.clients[j].vpn_ip = ip
    BY ZenonT(30), <1>12, <2>4, <2>6 DEF Granted
  <2>7. CASE /\ j \in DOMAIN table.clients
             /\ table'.clients[j].addr # a
             /\ table'.clients[j].addr = table.clients[j].addr
             /\ table'.clients[j].vpn_ip = table.clients[j].vpn_ip
             /\ table'.clients[j].vpn_ip # ip
    <3>1. Granted(j)
      BY ZenonT(30), <2>1, <2>7, GrantedNow
    <3>2. table.clients[j].addr \in Addr
      BY ZenonT(30), <1>9, <2>7 DEF SoundTable, IsClientTable, Entry
    <3>3. granted'[table.clients[j].addr] = granted[table.clients[j].addr]
      BY ZenonT(30), <1>12, <2>7, <3>2
    <3> QED BY ZenonT(30), <2>4, <2>7, <3>1, <3>3 DEF Granted
  <2> QED BY ZenonT(30), <2>5, <2>6, <2>7 DEF OwnOrKept
<1> QED BY ZenonT(30), <1>6, <1>8, <1>10, <1>13, <1>14, <1>15 DEF IInv

LEMMA IInvStep == IInv /\ [Next]_vars => IInv'
<1> SUFFICES ASSUME IInv, [Next]_vars PROVE IInv'
  OBVIOUS
<1>1. ASSUME NEW a \in Addr, UdpPacket(a) PROVE IInv'
  <2>1. ASSUME NEW pk \in PublicKey \cup {InvalidKey}, ConnectRefused(a, pk)
        PROVE  IInv'
    BY <2>1, DroppedStep DEF ConnectRefused
  <2>2. ASSUME NEW pk \in PublicKey \cup {InvalidKey}, ConnectFailed(a, pk)
        PROVE  IInv'
    BY <2>2, ConnectFailedStep
  <2>3. ASSUME NEW pk \in PublicKey \cup {InvalidKey}, ConnectAccepted(a, pk)
        PROVE  IInv'
    BY <2>3, ConnectAcceptedStep
  <2>4. CASE DataUnknown(a)
    BY <2>4, DroppedStep DEF DataUnknown
  <2>5. ASSUME NEW key \in SessionKey, Data(a, key) PROVE IInv'
    BY <2>5, DataStep
  <2>6. CASE Ping(a)
    BY <2>6, PingStep
  <2>7. CASE Disconnect(a)
    BY <2>7, DisconnectStep
  <2> QED BY SMTT(30), <1>1, <2>1, <2>2, <2>3, <2>4, <2>5, <2>6, <2>7 DEF UdpPacket
<1>2. ASSUME NEW d \in VpnIp, TunDropped(d) PROVE IInv'
  BY <1>2, DroppedStep DEF TunDropped
<1>3. ASSUME NEW d \in VpnIp, NEW sent \in BOOLEAN, TunForwarded(d, sent)
      PROVE  IInv'
  BY <1>3, TunForwardedStep
<1>4. CASE Idle
  BY <1>4, IdleStep
<1>5. CASE Tick
  BY <1>5, TickStep
<1>6. CASE UNCHANGED vars
  BY <1>6, DroppedStep DEF vars
<1> QED BY ZenonT(30), <1>1, <1>2, <1>3, <1>4, <1>5, <1>6 DEF Next, Loop, TunPacket

LEMMA Invariance == Spec => []IInv
BY InitIInv, IInvStep, PTL DEF Spec

-----------------------------------------------------------------------------
(* Every variable keeps the shape of the code's data structure: no slot    *)
(* outside the arrays is filled, no address outside the pool handed out.   *)
THEOREM TypeCorrect == Spec => []TypeOK
<1>1. IInv => TypeOK
  BY DEF IInv, SoundTable, SoundKeys, RestOK, TypeOK
<1> QED BY <1>1, Invariance, PTL

(* The counters tested against the table limits count the active slots.    *)
THEOREM CountsCorrect == Spec => []CountsMatch
<1>1. IInv => CountsMatch
  BY DEF IInv, SoundTable, SoundKeys, CountsMatch
<1> QED BY <1>1, Invariance, PTL

(* However CONNECT_REQs repeat, an address has at most one entry.          *)
THEOREM OneEntry == Spec => []OneEntryPerAddr
<1>1. IInv => OneEntryPerAddr
  BY DEF IInv, SoundTable, OneEntryPerAddr
<1> QED BY <1>1, Invariance, PTL

(* VPN addresses are unique until the address pool starts over.            *)
THEOREM UniqueBeforeWrap == Spec => []VpnIpUniqueBeforeWrap
<1>1. IInv => VpnIpUniqueBeforeWrap
  BY SMTT(30) DEF IInv, FreshAddresses, VpnIpUniqueBeforeWrap, VpnIpUnique
<1> QED BY <1>1, Invariance, PTL

(* Unless the pool started over, a key found no slot or a client changed   *)
(* its key pair, every active client and the enclave hold the same key for *)
(* the address the client was given.                                       *)
THEOREM KeysAgree == Spec => []KeyAgreementUnlessIncident
<1>1. IInv => KeyAgreementUnlessIncident
  <2> SUFFICES ASSUME IInv, hist = {}, NEW a \in Addr, HasEntry(table, a)
               PROVE  Served(a)
    BY SMTT(30) DEF KeyAgreementUnlessIncident, KeyAgreement
  <2> DEFINE i == find_client_by_addr(table, a)
  <2>1. i \in DOMAIN table.clients /\ table.clients[i].addr = a
    BY FindByAddr DEF IInv, SoundTable
  <2>2. EntryOf(table, a) = table.clients[i]
    BY SMTT(30) DEF EntryOf
  <2> HIDE DEF i
  <2>3. /\ granted[a] \in Grant
        /\ granted[a].vpn_ip = table.clients[i].vpn_ip
        /\ KeysAre(km, granted[a].vpn_ip, granted[a].key)
    BY ZenonT(30), <2>1 DEF IInv, AllGranted, Granted
  <2>4. granted[a] # NoGrant
    BY SMTT(30), <2>3, ClientTableAssumption DEF Grant, NoGrant, VpnIp
  <2>5. /\ HasKey(km, granted[a].vpn_ip)
        /\ get_key(km, granted[a].vpn_ip) = granted[a].key
    BY ZenonT(30), <2>3, GetKeyFinds DEF IInv, SoundKeys
  <2> QED BY ZenonT(30), <2>2, <2>3, <2>4, <2>5 DEF Served
<1> QED BY <1>1, Invariance, PTL

(* Under the same condition traffic leaves only under the key, and to the  *)
(* address, of the client it is for or from.                               *)
THEOREM TrafficKeyed == Spec => []TrafficUnderGrantedKey
<1>1. IInv => TrafficUnderGrantedKey
  BY DEF IInv
<1> QED BY <1>1, Invariance, PTL

-----------------------------------------------------------------------------
(* An entry stays when its slot does and keeps its address. *)
LEMMA EntryKept ==
  ASSUME NEW a, NEW t, NEW u, NEW i \in DOMAIN t.clients,
         t.clients[i].addr = a, i \in DOMAIN u.clients,
         u.clients[i].addr = t.clients[i].addr
  PROVE  HasEntry(u, a)
BY DEF HasEntry

(* What add_client leaves still has every entry the table had. *)
LEMMA AddKeepsEntries ==
  ASSUME NEW t, SoundTable(t), NEW a, HasEntry(t, a), NEW b \in Addr,
         add_client(t, b).vpn_ip # 0
  PROVE  HasEntry(add_client(t, b).table, a)
<1>1. CASE HasEntry(t, b)
  <2> DEFINE i == find_client_by_addr(t, b)
             u == add_client(t, b).table
  <2>1. i \in DOMAIN t.clients /\ u = update_client_activity(t, i)
    BY ZenonT(30), <1>1, AddKnown
  <2>2. SubTable(u, t) /\ DOMAIN u.clients = DOMAIN t.clients
    BY <2>1, TouchSound
  <2> HIDE DEF u
  <2>3. HasEntry(u, a)
    BY ZenonT(30), <2>2 DEF HasEntry, SubTable
  <2> QED BY SMTT(30), <2>3 DEF u
<1>2. CASE ~HasEntry(t, b)
  <2> DEFINE u == add_client(t, b).table
  <2>1. \E s \in Slots \ DOMAIN t.clients :
          /\ DOMAIN u.clients = DOMAIN t.clients \cup {s}
          /\ \A j \in DOMAIN t.clients : u.clients[j] = t.clients[j]
    BY ZenonT(30), <1>2, AddNew
  <2> HIDE DEF u
  <2>2. HasEntry(u, a)
    BY <2>1 DEF HasEntry
  <2> QED BY <2>2 DEF u
<1> QED BY ZenonT(30), <1>1, <1>2

(* A step of the server is one that touches, one that times out, or one of *)
(* the sender's own that removes.                                          *)
LEMMA OwnRemovalStep ==
  ASSUME IInv, Next, NEW a \in Addr
  PROVE  OwnRemoval(a)
<1> SUFFICES ASSUME "wrap" \notin hist', HasEntry(table, a),
                    ~HasEntry(table', a)
             PROVE  \/ Disconnect(a)
                    \/ \E pk \in PublicKey \cup {InvalidKey} : ConnectFailed(a, pk)
                    \/ EntryOf(table, a).idle > CLIENT_TIMEOUT
  BY DEF OwnRemoval
<1>1. SoundTable(table) /\ IsClientTable(table) /\ AddrsDistinct(table)
  BY DEF IInv, SoundTable
<1>2. PICK i \in DOMAIN table.clients : table.clients[i].addr = a
  BY DEF HasEntry
<1>3. ~ \E k \in DOMAIN table.clients : table' = update_client_activity(table, k)
  <2> SUFFICES ASSUME NEW k \in DOMAIN table.clients,
                      table' = update_client_activity(table, k)
               PROVE  FALSE
    OBVIOUS
  <2>1. SubTable(table', table) /\ DOMAIN table'.clients = DOMAIN table.clients
    BY <1>1, TouchSound
  <2> QED BY ZenonT(30), <1>2, <2>1, EntryKept DEF SubTable
<1>4. table' # table
  OBVIOUS
<1>5. ASSUME NEW b \in Addr, UdpPacket(b)
      PROVE  Disconnect(a)
               \/ \E pk \in PublicKey \cup {InvalidKey} : ConnectFailed(a, pk)
  <2>1. ASSUME NEW pk \in PublicKey \cup {InvalidKey}, ConnectFailed(b, pk)
        PROVE  b = a
    <3>1. /\ add_client(table, b).vpn_ip # 0
          /\ table' = remove_client(add_client(table, b).table,
                                    add_client(table, b).vpn_ip)
          /\ hist' = hist \cup ConnectIncidents(b, pk)
      BY ZenonT(30), <2>1 DEF ConnectFailed
    <3>2. KeptBut(table', b)
      BY ZenonT(30), <3>1, FailedKeeps
    <3>3. i \in DOMAIN table'.clients => table'.clients[i].addr # a
      BY EntryKept
    <3> QED BY <1>2, <3>2, <3>3 DEF KeptBut
  <2>2. ASSUME NEW pk \in PublicKey \cup {InvalidKey}, ConnectAccepted(b, pk)
        PROVE  FALSE
    BY ZenonT(30), <1>1, <2>2, AddKeepsEntries DEF ConnectAccepted
  <2>3. ASSUME Disconnect(b) PROVE b = a
    <3>1. HasEntry(table, b)
      BY ZenonT(30), <1>4, <2>3 DEF Disconnect
    <3> DEFINE k == find_client_by_addr(table, b)
    <3>2. k \in DOMAIN table.clients /\ table.clients[k].addr = b
      BY ZenonT(30), <1>1, <3>1, FindByAddr
    <3>3. table' = remove_client(table, table.clients[k].vpn_ip) /\ hist' = hist
      BY ZenonT(30), <2>3, <3>1 DEF Disconnect, EntryOf
    <3> HIDE DEF k
    <3>4. IpsDistinct(table)
      BY ZenonT(30), <3>3 DEF IInv, FreshAddresses
    <3>5. /\ DOMAIN table'.clients = DOMAIN table.clients \ {k}
          /\ \A j \in DOMAIN table'.clients : table'.clients[j] = table.clients[j]
      <4>1. Minus(table', table, k)
        BY ZenonT(30), <1>1, <3>2, <3>3, <3>4, RemoveUnique
      <4> QED BY ZenonT(30), <4>1 DEF Minus
    <3> QED BY ZenonT(30), <1>2, <3>2, <3>5, EntryKept
  <2>4. ~ \E pk \in PublicKey \cup {InvalidKey} : ConnectRefused(b, pk)
    BY <1>4 DEF ConnectRefused
  <2>5. ~ DataUnknown(b) /\ ~ Ping(b) /\ ~ \E key \in SessionKey : Data(b, key)
    <3>1. HasEntry(table, b) => find_client_by_addr(table, b) \in DOMAIN table.clients
      BY <1>1, FindByAddr
    <3>2. ~ DataUnknown(b)
      BY <1>4 DEF DataUnknown
    <3>3. ~ Ping(b)
      BY ZenonT(30), <1>3, <1>4, <3>1 DEF Ping
    <3>4. ~ \E key \in SessionKey : Data(b, key)
      BY <1>3, <3>1 DEF Data
    <3> QED BY ZenonT(30), <3>2, <3>3, <3>4
  <2>6. \/ Disconnect(b)
        \/ \E pk \in PublicKey \cup {InvalidKey} : ConnectFailed(b, pk)
    BY ZenonT(60), <1>5, <2>2, <2>4, <2>5 DEF UdpPacket
  <2>7. CASE Disconnect(b)
    BY ZenonT(60), <2>3, <2>7
  <2>8. CASE \E pk \in PublicKey \cup {InvalidKey} : ConnectFailed(b, pk)
    <3>1. b = a
      BY ZenonT(60), <2>1, <2>8
    <3> QED BY ZenonT(60), <2>8, <3>1
  <2> QED BY ZenonT(60), <2>6, <2>7, <2>8
<1>6. ~ TunPacket
  <2>1. \A d : find_client_by_vpn_ip(table, d) # NULL
                 => find_client_by_vpn_ip(table, d) \in DOMAIN table.clients
    BY ZenonT(30), <1>1, FindByIp
  <2>2. ASSUME NEW d \in VpnIp PROVE ~TunDropped(d)
    BY SMTT(30), <1>4 DEF TunDropped
  <2>3. ASSUME NEW d \in VpnIp, NEW sent \in BOOLEAN PROVE ~TunForwarded(d, sent)
    BY ZenonT(30), <1>3, <1>4, <2>1 DEF TunForwarded
  <2> QED BY <2>2, <2>3 DEF TunPacket
<1>7. ~ Tick
  <2> SUFFICES ASSUME Tick PROVE FALSE
    OBVIOUS
  <2>1. SubTable(table', table) /\ DOMAIN table'.clients = DOMAIN table.clients
    BY ZenonT(30), <1>1, OlderSound DEF Tick
  <2> QED BY ZenonT(30), <1>2, <2>1, EntryKept DEF SubTable
<1>8. ASSUME Idle PROVE EntryOf(table, a).idle > CLIENT_TIMEOUT
  <2>1. table' = check_client_timeouts(table)
    BY <1>4, <1>8 DEF Idle
  <2>2. /\ SubTable(table', table)
        /\ DOMAIN table'.clients = DOMAIN table.clients \ TimedOut(table)
    BY ZenonT(30), <1>1, <2>1, TimeoutsSound
  <2>3. i \in TimedOut(table)
    BY ZenonT(30), <1>2, <2>2, EntryKept DEF SubTable
  <2>4. EntryOf(table, a) = table.clients[i]
    BY ZenonT(30), <1>1, <1>2, EntryOfAddr
  <2> QED BY ZenonT(30), <2>3, <2>4 DEF TimedOut
<1> QED BY ZenonT(30), <1>5, <1>6, <1>7, <1>8 DEF Next, Loop

(* Until the pool starts over, only a client's own packets or its silence  *)
(* past CLIENT_TIMEOUT remove its entry.                                   *)
THEOREM RemovalsOwn == Spec => RemovedOnlyByOwner
<1>1. IInv /\ [Next]_vars => [\A a \in Addr : OwnRemoval(a)]_vars
  BY OwnRemovalStep
<1> QED BY <1>1, Invariance, PTL DEF Spec, RemovedOnlyByOwner

-----------------------------------------------------------------------------
(* Who is told to be connected, or alive, has just been heard from, and is *)
(* known under the address it is told.                                     *)
Answered(a) ==
  /\ out'.type \in {"CONNECT_RESP", "PONG"} => Heard(table', a, 0)
  /\ out'.type = "CONNECT_RESP" =>
       granted'[a].vpn_ip \in VpnIp /\ Known(table', a, granted'[a].vpn_ip)

LEMMA ConnectKeeps ==
  ASSUME IInv, NEW a \in Addr, NEW pk, ConnectAccepted(a, pk)
  PROVE  /\ Keeps(table, table')
         /\ Answered(a)
         /\ km'.server_key = km.server_key
         /\ granted'[a].key = derive_session_key(pk, km.server_key)
         /\ \A b \in Addr : b # a => granted'[b] = granted[b]
<1> DEFINE ip  == add_client(table, a).vpn_ip
           key == derive_session_key(pk, km.server_key)
<1>1. ip # 0 /\ table' = add_client(table, a).table
  BY DEF ConnectAccepted
<1>2. km' = perform_handshake(km, ip, pk).km
  BY DEF ConnectAccepted, enclave_handshake
<1>3. granted' = [granted EXCEPT ![a] = [vpn_ip |-> ip, key |-> key]]
  BY DEF ConnectAccepted
<1>4. SoundTable(table)
  BY ZenonT(30) DEF IInv
<1>5. ip \in VpnIp
  BY ZenonT(30), <1>1, <1>4, AddSound
<1> HIDE DEF ip, key
<1>6. granted \in [Addr -> Grant \cup {NoGrant}]
  BY ZenonT(30) DEF IInv, RestOK
<1>7. /\ granted'[a].vpn_ip = ip
      /\ granted'[a].key = key
      /\ \A b \in Addr : b # a => granted'[b] = granted[b]
  BY <1>3, <1>6
<1>8. Keeps(table, table') /\ Heard(table', a, 0) /\ Known(table', a, ip)
  <2>1. ip = add_client(table, a).vpn_ip
    BY DEF ip
  <2>2. \A u : u = add_client(table, a).table
                => Keeps(table, u) /\ Heard(u, a, 0) /\ Known(u, a, ip)
    BY <1>1, <1>4, <2>1, AddKeeps
  <2> QED BY <1>1, <2>2
<1>9. km'.server_key = km.server_key
  <2>1. km' = km \/ km' = add_key(km, ip, key)
    BY <1>2 DEF perform_handshake, key
  <2>2. add_key(km, ip, key).server_key = km.server_key
    BY DEF add_key, WithKeys
  <2> QED BY <2>1, <2>2
<1> QED BY ZenonT(30), <1>5, <1>7, <1>8, <1>9 DEF Answered, key

LEMMA DataKeeps ==
  ASSUME IInv, NEW a, NEW key, Data(a, key)
  PROVE  Keeps(table, table') /\ Answered(a)
<1>1. SoundTable(table) /\ IsClientTable(table)
  BY ZenonT(30) DEF IInv, SoundTable
<1>2. find_client_by_addr(table, a) \in DOMAIN table.clients
  BY <1>1, FindByAddr DEF Data
<1>3. table' = update_client_activity(table, find_client_by_addr(table, a))
  BY ZenonT(30) DEF Data
<1>4. Keeps(table, table')
  BY ZenonT(30), <1>1, <1>2, <1>3, TouchKeeps
<1>5. out'.type \notin {"CONNECT_RESP", "PONG"}
  BY DEF Data, Silent
<1> QED BY ZenonT(30), <1>4, <1>5 DEF Answered

LEMMA PingKeeps ==
  ASSUME IInv, NEW a, Ping(a)
  PROVE  Keeps(table, table') /\ Answered(a)
<1> DEFINE i == find_client_by_addr(table, a)
<1>1. SoundTable(table) /\ IsClientTable(table)
  BY ZenonT(30) DEF IInv, SoundTable
<1>2. out'.type = "PONG"
  BY DEF Ping
<1>3. CASE HasEntry(table, a)
  <2>1. i \in DOMAIN table.clients /\ table.clients[i].addr = a
    BY <1>1, <1>3, FindByAddr
  <2>2. table' = update_client_activity(table, i)
    BY <1>3 DEF Ping
  <2> HIDE DEF i
  <2>3. Keeps(table, table') /\ Heard(table', a, 0)
    BY ZenonT(30), <1>1, <2>1, <2>2, TouchKeeps
  <2> QED BY <1>2, <2>3 DEF Answered
<1>4. CASE ~HasEntry(table, a)
  <2>1. table' = table
    BY <1>4 DEF Ping
  <2>2. Heard(table', a, 0)
    BY ZenonT(30), <1>4, <2>1 DEF Heard, HasEntry
  <2> QED BY <1>2, <2>1, <2>2, KeepsItself DEF Answered
<1> QED BY <1>3, <1>4

LEMMA DisconnectKeeps ==
  ASSUME NEW a, Disconnect(a)
  PROVE  km'.server_key = km.server_key /\ granted' = granted
<1>1. granted' = granted /\ (km' = km \/ \E ip : km' = remove_key(km, ip))
  BY DEF Disconnect
<1>2. \A ip : remove_key(km, ip).server_key = km.server_key
  BY DEF remove_key, WithKeys
<1> QED BY <1>1, <1>2

(* A packet to a client counts as hearing from it. *)
LEMMA TunKeeps ==
  ASSUME IInv, TunPacket
  PROVE  Keeps(table, table') /\ UNCHANGED <<km, granted>>
<1>1. SoundTable(table) /\ IsClientTable(table)
  BY ZenonT(30) DEF IInv, SoundTable
<1>2. ASSUME NEW d, TunDropped(d)
      PROVE  table' = table /\ UNCHANGED <<km, granted>>
  BY <1>2 DEF TunDropped
<1>3. ASSUME NEW d, NEW sent \in BOOLEAN, TunForwarded(d, sent)
      PROVE  Keeps(table, table') /\ UNCHANGED <<km, granted>>
  <2> DEFINE i == find_client_by_vpn_ip(table, d)
  <2>1. i \in DOMAIN table.clients
    BY <1>1, <1>3, FindByIp DEF TunForwarded
  <2>2. /\ table' = update_client_activity(table, i) \/ table' = table
        /\ UNCHANGED <<km, granted>>
    BY <1>3 DEF TunForwarded
  <2> HIDE DEF i
  <2> QED BY ZenonT(30), <1>1, <2>1, <2>2, TouchKeeps, KeepsItself
<1> QED BY ZenonT(30), <1>2, <1>3, KeepsItself DEF TunPacket

LEMMA IdleKeeps ==
  ASSUME IInv, Idle
  PROVE  Keeps(table, table') /\ UNCHANGED <<km, granted>>
<1>1. SoundTable(table)
  BY ZenonT(30) DEF IInv
<1>2. table' = check_client_timeouts(table) \/ table' = table
  BY DEF Idle
<1>3. UNCHANGED <<km, granted>>
  BY DEF Idle
<1> QED BY ZenonT(30), <1>1, <1>2, <1>3, TimeoutsKeep, KeepsItself

LEMMA TickAges ==
  ASSUME IInv, Tick
  PROVE  Ages(table, table') /\ UNCHANGED <<km, granted>>
<1>1. SoundTable(table)
  BY ZenonT(30) DEF IInv
<1>2. table' = OlderTable(table) /\ UNCHANGED <<km, granted>>
  BY DEF Tick
<1> QED BY ZenonT(30), <1>1, <1>2, OlderAges

-----------------------------------------------------------------------------
(* The steps of a server all of whose clients have the key pair of pk, as  *)
(* those clients see them.                                                 *)
OneKey(pk) ==
  \A a \in Addr : granted[a] # NoGrant
    => granted[a].key = derive_session_key(pk, km.server_key)

LEMMA OneKeyFrame ==
  ASSUME NEW pk, OneKey(pk), km'.server_key = km.server_key, granted' = granted
  PROVE  OneKey(pk)'
BY DEF OneKey

LEMMA SilentServes ==
  ASSUME NEW pk, IInv, OneKey(pk), out' = Silent \/ out' = out,
         UNCHANGED <<table, km, since_check, granted, hist>>
  PROVE  IInv' /\ OneKey(pk)'
BY DroppedStep, OneKeyFrame

LEMMA HandlerServes ==
  ASSUME NEW pk \in PublicKey, IInv, OneKey(pk), NEW a \in Addr,
         \/ ConnectRefused(a, pk) \/ ConnectAccepted(a, pk)
         \/ DataUnknown(a) \/ Data(a, derive_session_key(pk, km.server_key))
         \/ Ping(a)
  PROVE  IInv' /\ OneKey(pk)' /\ Keeps(table, table') /\ Answered(a)
<1> DEFINE key == derive_session_key(pk, km.server_key)
<1>1. CASE ConnectRefused(a, pk) \/ DataUnknown(a)
  <2>1. out' = Silent /\ UNCHANGED <<table, km, since_check, granted, hist>>
    BY <1>1 DEF ConnectRefused, DataUnknown
  <2>2. out'.type \notin {"CONNECT_RESP", "PONG"}
    BY <2>1 DEF Silent
  <2>3. IInv' /\ OneKey(pk)' /\ Keeps(table, table')
    BY <2>1, SilentServes, KeepsItself
  <2> QED BY ZenonT(30), <2>2, <2>3 DEF Answered
<1>2. CASE ConnectAccepted(a, pk)
  <2>1. IInv'
    BY <1>2, ConnectAcceptedStep
  <2>2. OneKey(pk)'
    BY <1>2, ConnectKeeps DEF OneKey
  <2> QED BY <1>2, <2>1, <2>2, ConnectKeeps
<1>3. CASE Data(a, key)
  <2>1. key \in SessionKey
    <3>1. km.server_key \in ServerKey
      BY DEF IInv, SoundKeys, IsKeyManager
    <3> QED BY <3>1 DEF derive_session_key, SessionKey
  <2>2. IInv'
    BY <1>3, <2>1, DataStep
  <2>3. UNCHANGED <<km, granted>>
    BY <1>3 DEF Data
  <2> QED BY <1>3, <2>2, <2>3, DataKeeps, OneKeyFrame
<1>4. CASE Ping(a)
  <2>1. UNCHANGED <<km, granted>>
    BY <1>4 DEF Ping
  <2> QED BY <1>4, <2>1, PingStep, PingKeeps, OneKeyFrame
<1> QED BY <1>1, <1>2, <1>3, <1>4

LEMMA DisconnectServes ==
  ASSUME NEW pk, IInv, OneKey(pk), NEW a \in Addr, Disconnect(a)
  PROVE  IInv' /\ OneKey(pk)'
BY DisconnectStep, DisconnectKeeps, OneKeyFrame

LEMMA RestServes ==
  ASSUME NEW pk, IInv, OneKey(pk), TunPacket \/ Idle
  PROVE  IInv' /\ OneKey(pk)' /\ Keeps(table, table')
<1>1. IInv'
  BY IInvStep DEF Next, Loop
<1> QED BY <1>1, TunKeeps, IdleKeeps, OneKeyFrame

LEMMA TickServes ==
  ASSUME NEW pk, IInv, OneKey(pk), Tick
  PROVE  IInv' /\ OneKey(pk)' /\ Ages(table, table')
BY TickStep, TickAges, OneKeyFrame

(* Without incidents a known client can be reached, and reach the server:  *)
(* it is the one found under its VPN address, and the enclave has its key. *)
LEMMA KnownServed ==
  ASSUME NEW pk, IInv, OneKey(pk), hist = {}, NEW a, NEW ip,
         Known(table, a, ip)
  PROVE  /\ find_client_by_vpn_ip(table, ip) # NULL
         /\ table.clients[find_client_by_vpn_ip(table, ip)].addr = a
         /\ EntryOf(table, a).vpn_ip = ip
         /\ HasKey(km, ip)
         /\ get_key(km, ip) = derive_session_key(pk, km.server_key)
<1>1. IsClientTable(table) /\ AddrsDistinct(table) /\ IsKeyManager(km)
  BY ZenonT(30) DEF IInv, SoundTable, SoundKeys
<1>2. PICK i \in DOMAIN table.clients :
        table.clients[i].addr = a /\ table.clients[i].vpn_ip = ip
  BY DEF Known
<1>3. IpsDistinct(table)
  BY SMTT(30) DEF IInv, FreshAddresses
<1> DEFINE k == find_client_by_vpn_ip(table, ip)
<1>4. k # NULL /\ k \in DOMAIN table.clients /\ table.clients[k].vpn_ip = ip
  BY <1>1, <1>2, FindByIp
<1>5. k = i
  BY ZenonT(30), <1>2, <1>3, <1>4 DEF IpsDistinct
<1>6. EntryOf(table, a) = table.clients[i]
  BY ZenonT(30), <1>1, <1>2, EntryOfAddr
<1>7. /\ granted[a] \in Grant
      /\ KeysAre(km, ip, granted[a].key)
  BY ZenonT(30), <1>2, GrantedNow DEF Granted
<1>8. granted[a] # NoGrant
  BY <1>7, ClientTableAssumption DEF Grant, NoGrant, VpnIp
<1>9. HasKey(km, ip) /\ get_key(km, ip) = granted[a].key
  BY ZenonT(30), <1>1, <1>7, GetKeyFinds
<1>10. a \in Addr
  BY <1>1, <1>2 DEF IsClientTable, Entry
<1>11. granted[a].key = derive_session_key(pk, km.server_key)
  BY <1>8, <1>10 DEF OneKey
<1> HIDE DEF k
<1> QED BY ZenonT(30), <1>2, <1>4, <1>5, <1>6, <1>9, <1>11 DEF k

=============================================================================
