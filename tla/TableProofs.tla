---------------------------- MODULE TableProofs -----------------------------
(***************************************************************************)
(* What each function of client_manager.c and key_manager.c returns and    *)
(* preserves, for every table size, address pool and timeout.              *)
(***************************************************************************)
EXTENDS ClientTable, KeyManager, FiniteSetTheorems, WellFoundedInduction, TLAPS

(* Every non-empty set of naturals has a least element: the search loops   *)
(* of client_manager.c and key_manager.c find one if there is one.         *)
LEMMA LeastSlot ==
  ASSUME NEW S, S \subseteq Nat, S # {}
  PROVE  \E i \in S : \A j \in S : i <= j
<1> DEFINE Less == {p \in Nat \X Nat : p[1] < p[2]}
<1>1. OpToRel(<, Nat) = Less
  BY DEF OpToRel
<1>2. IsWellFoundedOn(Less, Nat)
  BY <1>1, NatLessThanWellFounded
<1>3. PICK i \in S : \A j \in S : <<j, i>> \notin Less
  <2> HIDE DEF Less
  <2> QED BY <1>2, WFMin
<1>4. ASSUME NEW j \in S
      PROVE  i <= j
  <2>1. i \in Nat /\ j \in Nat
    OBVIOUS
  <2>2. ~(j < i)
    <3>1. SUFFICES ASSUME j < i PROVE <<j, i>> \in Less
      BY <1>3
    <3> QED BY <2>1, <3>1
  <2> QED BY <2>1, <2>2
<1> QED BY <1>4

(* FirstSlot returns the least candidate, and NULL exactly when there is   *)
(* none.                                                                   *)
LEMMA FirstSlotFinds ==
  ASSUME NEW S, S \subseteq Nat
  PROVE  /\ FirstSlot(S) = NULL <=> S = {}
         /\ FirstSlot(S) # NULL => FirstSlot(S) \in S
         /\ \A j \in S : FirstSlot(S) <= j
<1>1. CASE S = {}
  BY <1>1 DEF FirstSlot, NULL
<1>2. CASE S # {}
  <2> DEFINE f == CHOOSE i \in S : \A j \in S : i <= j
  <2>1. f \in S /\ \A j \in S : f <= j
    BY <1>2, LeastSlot
  <2>2. FirstSlot(S) = f
    BY <1>2 DEF FirstSlot
  <2> HIDE DEF f
  <2>3. f # NULL
    BY <2>1 DEF NULL
  <2> QED BY <1>2, <2>1, <2>2, <2>3
<1> QED BY <1>1, <1>2

(* Put fills one slot and leaves the others as they are. *)
LEMMA PutFills ==
  ASSUME NEW D, NEW E, NEW t \in [D -> E], NEW i, NEW e \in E
  PROVE  /\ Put(t, i, e) \in [D \cup {i} -> E]
         /\ DOMAIN Put(t, i, e) = D \cup {i}
         /\ Put(t, i, e)[i] = e
         /\ \A j \in D : j # i => Put(t, i, e)[j] = t[j]
BY DEF Put

(* Clear frees the given slots and leaves the others as they are. *)
LEMMA ClearFrees ==
  ASSUME NEW D, NEW E, NEW t \in [D -> E], NEW S
  PROVE  /\ Clear(t, S) \in [D \ S -> E]
         /\ DOMAIN Clear(t, S) = D \ S
         /\ \A j \in D \ S : Clear(t, S)[j] = t[j]
BY DEF Clear

(* The active slots of a table are finitely many, and no more than it has. *)
LEMMA SlotsBounded ==
  ASSUME NEW n \in Nat, NEW D, D \subseteq 0 .. n - 1
  PROVE  /\ IsFiniteSet(D)
         /\ Cardinality(D) \in 0 .. n
         /\ Cardinality(D) = n => D = 0 .. n - 1
<1>1. IsFiniteSet(0 .. n - 1) /\ Cardinality(0 .. n - 1) = n
  BY FS_Interval, 0 \in Int, n - 1 \in Int
<1>2. IsFiniteSet(D) /\ Cardinality(D) <= n
      /\ (Cardinality(0 .. n - 1) = Cardinality(D) => 0 .. n - 1 = D)
  BY <1>1, FS_Subset
<1>3. Cardinality(D) \in Nat
  BY <1>2, FS_CardinalityType
<1> QED BY <1>1, <1>2, <1>3

-----------------------------------------------------------------------------
(* client_manager.c *)

(* What every function of client_manager.c keeps true of the table. *)
SoundTable(t) == IsClientTable(t) /\ CountIsActive(t) /\ AddrsDistinct(t)

(* u has some of the entries of t, as far as addresses are concerned. *)
SubTable(u, t) ==
  /\ DOMAIN u.clients \subseteq DOMAIN t.clients
  /\ \A i \in DOMAIN u.clients : /\ u.clients[i].addr = t.clients[i].addr
                                 /\ u.clients[i].vpn_ip = t.clients[i].vpn_ip
  /\ u.next_ip = t.next_ip

(* Dropping entries, or changing their idle times, keeps addresses         *)
(* distinct and below next_ip.                                             *)
LEMMA SubTableKeeps ==
  ASSUME NEW t, NEW u, SubTable(u, t)
  PROVE  /\ AddrsDistinct(t) => AddrsDistinct(u)
         /\ IpsDistinct(t) => IpsDistinct(u)
         /\ IpsBelowNext(t) => IpsBelowNext(u)
BY DEF SubTable, AddrsDistinct, IpsDistinct, IpsBelowNext

(* The active slots of a well-formed table. *)
LEMMA ActiveSlots ==
  ASSUME NEW t, IsClientTable(t)
  PROVE  /\ IsFiniteSet(DOMAIN t.clients)
         /\ Cardinality(DOMAIN t.clients) \in 0 .. MAX_CLIENTS
         /\ Cardinality(DOMAIN t.clients) = MAX_CLIENTS
              => DOMAIN t.clients = Slots
         /\ DOMAIN t.clients \subseteq Nat
<1>1. MAX_CLIENTS \in Nat /\ DOMAIN t.clients \subseteq 0 .. MAX_CLIENTS - 1
  BY ClientTableAssumption DEF IsClientTable, Slots
<1> QED BY <1>1, SlotsBounded DEF Slots

(* find_client_by_addr finds an entry of that address if there is one. *)
LEMMA FindByAddr ==
  ASSUME NEW t, IsClientTable(t), NEW a
  PROVE  LET i == find_client_by_addr(t, a)
         IN  /\ i # NULL <=> HasEntry(t, a)
             /\ i # NULL => i \in DOMAIN t.clients /\ t.clients[i].addr = a
<1> DEFINE S == {i \in DOMAIN t.clients : t.clients[i].addr = a}
<1>1. S \subseteq Nat
  BY ActiveSlots
<1>2. find_client_by_addr(t, a) = FirstSlot(S)
  BY DEF find_client_by_addr
<1>3. HasEntry(t, a) <=> S # {}
  BY DEF HasEntry
<1>4. /\ FirstSlot(S) = NULL <=> S = {}
      /\ FirstSlot(S) # NULL => FirstSlot(S) \in S
  <2> HIDE DEF S
  <2> QED BY <1>1, FirstSlotFinds
<1> QED BY <1>2, <1>3, <1>4

(* find_client_by_vpn_ip finds an entry with that VPN address if there is  *)
(* one.                                                                    *)
LEMMA FindByIp ==
  ASSUME NEW t, IsClientTable(t), NEW ip
  PROVE  LET i == find_client_by_vpn_ip(t, ip)
         IN  /\ i = NULL <=> \A j \in DOMAIN t.clients : t.clients[j].vpn_ip # ip
             /\ i # NULL => i \in DOMAIN t.clients /\ t.clients[i].vpn_ip = ip
<1> DEFINE S == {i \in DOMAIN t.clients : t.clients[i].vpn_ip = ip}
<1>1. S \subseteq Nat
  BY ActiveSlots
<1>2. find_client_by_vpn_ip(t, ip) = FirstSlot(S)
  BY DEF find_client_by_vpn_ip
<1>3. (\A j \in DOMAIN t.clients : t.clients[j].vpn_ip # ip) <=> S = {}
  OBVIOUS
<1>4. /\ FirstSlot(S) = NULL <=> S = {}
      /\ FirstSlot(S) # NULL => FirstSlot(S) \in S
  <2> HIDE DEF S
  <2> QED BY <1>1, FirstSlotFinds
<1> QED BY <1>2, <1>3, <1>4

(* In a table without duplicate addresses EntryOf is the one entry.        *)
LEMMA EntryOfAddr ==
  ASSUME NEW t, IsClientTable(t), AddrsDistinct(t), NEW i \in DOMAIN t.clients
  PROVE  /\ HasEntry(t, t.clients[i].addr)
         /\ find_client_by_addr(t, t.clients[i].addr) = i
         /\ EntryOf(t, t.clients[i].addr) = t.clients[i]
<1>1. HasEntry(t, t.clients[i].addr)
  BY DEF HasEntry
<1>2. LET j == find_client_by_addr(t, t.clients[i].addr)
      IN  j \in DOMAIN t.clients /\ t.clients[j].addr = t.clients[i].addr
  BY <1>1, FindByAddr
<1>3. find_client_by_addr(t, t.clients[i].addr) = i
  BY <1>2 DEF AddrsDistinct
<1> QED BY <1>1, <1>3 DEF EntryOf

(* Removing one active slot keeps the table sound. *)
LEMMA ClearOne ==
  ASSUME NEW t, SoundTable(t), NEW i \in DOMAIN t.clients
  PROVE  LET u == WithClients(t, Clear(t.clients, {i}), t.count - 1)
         IN  /\ SoundTable(u)
             /\ SubTable(u, t)
             /\ DOMAIN u.clients = DOMAIN t.clients \ {i}
<1> DEFINE D == DOMAIN t.clients
           u == WithClients(t, Clear(t.clients, {i}), t.count - 1)
<1>1. /\ u.clients \in [D \ {i} -> Entry]
      /\ DOMAIN u.clients = D \ {i}
      /\ \A j \in D \ {i} : u.clients[j] = t.clients[j]
      /\ u.count = t.count - 1
      /\ u.next_ip = t.next_ip
  <2>1. t.clients \in [D -> Entry]
    BY DEF SoundTable, IsClientTable
  <2>2. /\ Clear(t.clients, {i}) \in [D \ {i} -> Entry]
        /\ \A j \in D \ {i} : Clear(t.clients, {i})[j] = t.clients[j]
    BY <2>1 DEF Clear
  <2> QED BY <2>2 DEF WithClients
<1> HIDE DEF u
<1>2. SubTable(u, t)
  BY <1>1 DEF SubTable
<1>3. IsClientTable(u)
  BY <1>1 DEF IsClientTable, SoundTable
<1>4. CountIsActive(u)
  <2>1. IsFiniteSet(D) /\ Cardinality(D \ {i}) = Cardinality(D) - 1
    BY ActiveSlots, FS_RemoveElement DEF SoundTable
  <2> QED BY <2>1, <1>1 DEF SoundTable, CountIsActive
<1>5. AddrsDistinct(u)
  BY <1>2, SubTableKeeps DEF SoundTable
<1>6. SoundTable(u)
  BY <1>3, <1>4, <1>5 DEF SoundTable
<1> QED BY <1>1, <1>2, <1>6 DEF u

(* Changing only idle times keeps the table sound. *)
LEMMA Retimed ==
  ASSUME NEW t, SoundTable(t), NEW c \in [DOMAIN t.clients -> Entry],
         \A i \in DOMAIN t.clients : /\ c[i].addr = t.clients[i].addr
                                     /\ c[i].vpn_ip = t.clients[i].vpn_ip
  PROVE  LET u == WithClients(t, c, t.count)
         IN  /\ SoundTable(u)
             /\ SubTable(u, t)
             /\ DOMAIN u.clients = DOMAIN t.clients
<1> DEFINE u == WithClients(t, c, t.count)
<1>1. u.clients = c /\ u.count = t.count /\ u.next_ip = t.next_ip
  BY DEF WithClients
<1>2. DOMAIN u.clients = DOMAIN t.clients
  BY <1>1
<1> HIDE DEF u
<1>3. SubTable(u, t)
  BY <1>1, <1>2 DEF SubTable
<1>4. IsClientTable(u) /\ CountIsActive(u)
  BY <1>1, <1>2 DEF SoundTable, IsClientTable, CountIsActive
<1>5. SoundTable(u)
  BY <1>3, <1>4, SubTableKeeps DEF SoundTable
<1> QED BY <1>2, <1>3, <1>5 DEF u

(* update_client_activity and the passing of time are such changes. *)
LEMMA TouchSound ==
  ASSUME NEW t, SoundTable(t), NEW i \in DOMAIN t.clients
  PROVE  LET u == update_client_activity(t, i)
         IN  /\ SoundTable(u)
             /\ SubTable(u, t)
             /\ DOMAIN u.clients = DOMAIN t.clients
<1> DEFINE c == [t.clients EXCEPT ![i].idle = 0]
<1>1. t.clients \in [DOMAIN t.clients -> Entry] /\ CLIENT_TIMEOUT \in Nat
  BY ClientTableAssumption DEF SoundTable, IsClientTable
<1>2. /\ c \in [DOMAIN t.clients -> Entry]
      /\ \A j \in DOMAIN t.clients : /\ c[j].addr = t.clients[j].addr
                                     /\ c[j].vpn_ip = t.clients[j].vpn_ip
  BY <1>1 DEF Entry
<1> HIDE DEF c
<1>3. update_client_activity(t, i) = WithClients(t, c, t.count)
  BY DEF update_client_activity, c
<1> QED BY <1>2, <1>3, Retimed

LEMMA OlderSound ==
  ASSUME NEW t, SoundTable(t)
  PROVE  LET u == OlderTable(t)
         IN  /\ SoundTable(u)
             /\ SubTable(u, t)
             /\ DOMAIN u.clients = DOMAIN t.clients
<1> DEFINE c == [i \in DOMAIN t.clients |->
                   [t.clients[i] EXCEPT
                      !.idle = IF @ > CLIENT_TIMEOUT THEN @ ELSE @ + 1]]
<1>1. t.clients \in [DOMAIN t.clients -> Entry] /\ CLIENT_TIMEOUT \in Nat
  BY ClientTableAssumption DEF SoundTable, IsClientTable
<1>2. /\ c \in [DOMAIN t.clients -> Entry]
      /\ \A j \in DOMAIN t.clients : /\ c[j].addr = t.clients[j].addr
                                     /\ c[j].vpn_ip = t.clients[j].vpn_ip
  BY <1>1 DEF Entry
<1> HIDE DEF c
<1>3. OlderTable(t) = WithClients(t, c, t.count)
  BY DEF OlderTable, c
<1> QED BY <1>2, <1>3, Retimed

(* remove_client removes the first entry with that VPN address, if any. *)
LEMMA RemoveSound ==
  ASSUME NEW t, SoundTable(t), NEW ip
  PROVE  LET u == remove_client(t, ip)
         IN  /\ SoundTable(u)
             /\ SubTable(u, t)
             /\ DOMAIN u.clients = DOMAIN t.clients \ {find_client_by_vpn_ip(t, ip)}
             /\ \A j \in DOMAIN u.clients : u.clients[j] = t.clients[j]
<1> DEFINE i == find_client_by_vpn_ip(t, ip)
<1>1. i # NULL => i \in DOMAIN t.clients
  BY FindByIp DEF SoundTable
<1>2. NULL \notin DOMAIN t.clients
  BY ActiveSlots DEF SoundTable, NULL
<1>3. SubTable(t, t)
  BY DEF SubTable
<1>4. CASE i = NULL
  <2>1. remove_client(t, ip) = t
    BY <1>4 DEF remove_client
  <2> QED BY <2>1, <1>2, <1>3, <1>4
<1>5. CASE i # NULL
  <2>1. remove_client(t, ip) = WithClients(t, Clear(t.clients, {i}), t.count - 1)
    BY <1>5 DEF remove_client
  <2>2. \A j \in DOMAIN t.clients \ {i} :
          WithClients(t, Clear(t.clients, {i}), t.count - 1).clients[j]
            = t.clients[j]
    BY DEF WithClients, Clear
  <2> HIDE DEF i
  <2>3. i \in DOMAIN t.clients
    BY <1>1, <1>5
  <2> QED BY ZenonT(30), <2>1, <2>2, <2>3, ClearOne DEF i
<1> QED BY <1>4, <1>5

(* check_client_timeouts removes exactly the entries past the timeout. *)
LEMMA TimeoutsSound ==
  ASSUME NEW t, SoundTable(t)
  PROVE  LET u == check_client_timeouts(t)
         IN  /\ SoundTable(u)
             /\ SubTable(u, t)
             /\ DOMAIN u.clients = DOMAIN t.clients \ TimedOut(t)
<1> DEFINE D == DOMAIN t.clients
           T == TimedOut(t)
           u == check_client_timeouts(t)
<1>1. t.clients \in [D -> Entry]
  BY DEF SoundTable, IsClientTable
<1>2. /\ u.clients \in [D \ T -> Entry]
      /\ DOMAIN u.clients = D \ T
      /\ \A j \in D \ T : u.clients[j] = t.clients[j]
      /\ u.count = t.count - Cardinality(T)
      /\ u.next_ip = t.next_ip
  <2> HIDE DEF T
  <2> QED BY <1>1 DEF check_client_timeouts, WithClients, Clear, T
<1>3. T \subseteq D
  BY DEF TimedOut
<1> HIDE DEF u, T
<1>4. SubTable(u, t)
  BY <1>2 DEF SubTable
<1>5. IsFiniteSet(D) /\ IsFiniteSet(T)
  BY <1>3, ActiveSlots, FS_Subset DEF SoundTable
<1>6. /\ Cardinality(D \ T) = Cardinality(D) - Cardinality(D \cap T)
      /\ D \cap T = T
      /\ Cardinality(T) \in Nat
  BY <1>3, <1>5, FS_Difference, FS_CardinalityType
<1>7. IsClientTable(u)
  BY <1>2, <1>6 DEF SoundTable, IsClientTable
<1>8. CountIsActive(u)
  BY <1>2, <1>6 DEF SoundTable, CountIsActive
<1>9. SoundTable(u)
  BY <1>4, <1>7, <1>8, SubTableKeeps DEF SoundTable
<1> QED BY <1>2, <1>4, <1>9 DEF u, T

(* add_client for an address that has an entry: that entry is touched. *)
LEMMA AddKnown ==
  ASSUME NEW t, SoundTable(t), NEW a, HasEntry(t, a),
         add_client(t, a).vpn_ip # 0
  PROVE  /\ find_client_by_addr(t, a) \in DOMAIN t.clients
         /\ t.clients[find_client_by_addr(t, a)].addr = a
         /\ add_client(t, a).vpn_ip = t.clients[find_client_by_addr(t, a)].vpn_ip
         /\ add_client(t, a).table
              = update_client_activity(t, find_client_by_addr(t, a))
<1>1. /\ find_client_by_addr(t, a) # NULL
      /\ find_client_by_addr(t, a) \in DOMAIN t.clients
      /\ t.clients[find_client_by_addr(t, a)].addr = a
  BY FindByAddr DEF SoundTable
<1>2. ~ t.count >= MAX_CLIENTS
  BY DEF add_client
<1> QED BY <1>1, <1>2 DEF add_client

(* add_client for a new address: a free slot is filled with the next       *)
(* address of the pool.                                                    *)
LEMMA AddNew ==
  ASSUME NEW t, SoundTable(t), NEW a \in Addr, ~HasEntry(t, a),
         add_client(t, a).vpn_ip # 0
  PROVE  LET u  == add_client(t, a).table
             ip == AllocatedIp(t)
         IN  /\ add_client(t, a).vpn_ip = ip
             /\ ip \in VpnIp
             /\ SoundTable(u)
             /\ u.next_ip = ip + 1
             /\ \E s \in Slots \ DOMAIN t.clients :
                  /\ DOMAIN u.clients = DOMAIN t.clients \cup {s}
                  /\ u.clients[s] = [vpn_ip |-> ip, addr |-> a, idle |-> 0]
                  /\ \A j \in DOMAIN t.clients : u.clients[j] = t.clients[j]
<1> DEFINE D  == DOMAIN t.clients
           F  == Slots \ D
           s  == FirstSlot(F)
           ip == AllocatedIp(t)
           e  == [vpn_ip |-> ip, addr |-> a, idle |-> 0]
           u  == [clients |-> Put(t.clients, s, e),
                  count |-> t.count + 1, next_ip |-> ip + 1]
<1>1. ~ t.count >= MAX_CLIENTS /\ find_client_by_addr(t, a) = NULL
  BY FindByAddr DEF SoundTable, add_client
<1>2. s # NULL
  BY <1>1 DEF add_client
<1>3. add_client(t, a).vpn_ip = ip /\ add_client(t, a).table = u
  BY <1>1, <1>2 DEF add_client
<1>4. /\ t.clients \in [D -> Entry]
      /\ D \subseteq Slots
      /\ t.count \in Int
      /\ t.next_ip \in FIRST_IP .. LAST_IP + 1
      /\ t.count = Cardinality(D)
  BY DEF SoundTable, IsClientTable, CountIsActive
<1>5. F \subseteq Nat
  BY ClientTableAssumption DEF Slots
<1>6. s \in F
  <2> HIDE DEF F
  <2> QED BY <1>2, <1>5, FirstSlotFinds
<1>7. ip \in VpnIp /\ e \in Entry
  BY <1>4, ClientTableAssumption DEF AllocatedIp, VpnIp, Entry
<1> HIDE DEF s, ip
<1>8. e.addr = a
  OBVIOUS
<1> HIDE DEF e
<1>9. /\ Put(t.clients, s, e) \in [D \cup {s} -> Entry]
      /\ Put(t.clients, s, e)[s] = e
      /\ \A j \in D : Put(t.clients, s, e)[j] = t.clients[j]
  BY <1>4, <1>6, <1>7 DEF Put
<1>10. /\ u.clients \in [D \cup {s} -> Entry]
       /\ DOMAIN u.clients = D \cup {s}
       /\ u.clients[s] = e
       /\ \A j \in D : u.clients[j] = t.clients[j]
       /\ u.count = t.count + 1
       /\ u.next_ip = ip + 1
  BY <1>9
<1> HIDE DEF u
<1>11. IsClientTable(u)
  BY <1>4, <1>6, <1>7, <1>10, ClientTableAssumption DEF IsClientTable, VpnIp
<1>12. CountIsActive(u)
  <2>1. IsFiniteSet(D)
    BY ActiveSlots DEF SoundTable
  <2>2. Cardinality(D \cup {s}) = Cardinality(D) + 1
    BY <1>6, <2>1, FS_AddElement
  <2> QED BY <1>4, <1>10, <2>2 DEF CountIsActive
<1>13. AddrsDistinct(u)
  <2>1. \A j \in D : t.clients[j].addr # a
    BY DEF HasEntry
  <2>2. AddrsDistinct(t)
    BY DEF SoundTable
  <2> QED BY <1>8, <1>10, <2>1, <2>2 DEF AddrsDistinct
<1>14. SoundTable(u)
  BY <1>11, <1>12, <1>13 DEF SoundTable
<1> QED BY <1>3, <1>6, <1>7, <1>10, <1>14 DEF e, ip

(* Whatever add_client does, it leaves a sound table. *)
LEMMA AddSound ==
  ASSUME NEW t, SoundTable(t), NEW a \in Addr, add_client(t, a).vpn_ip # 0
  PROVE  /\ SoundTable(add_client(t, a).table)
         /\ add_client(t, a).vpn_ip \in VpnIp
<1>1. CASE HasEntry(t, a)
  <2>1. \A i \in DOMAIN t.clients : t.clients[i].vpn_ip \in VpnIp
    BY DEF SoundTable, IsClientTable, Entry
  <2> QED BY <1>1, <2>1, AddKnown, TouchSound
<1>2. CASE ~HasEntry(t, a)
  BY ZenonT(30), <1>2, AddNew
<1> QED BY <1>1, <1>2

(* Until the pool starts over, add_client hands out an address nobody has. *)
LEMMA AddKeepsIpsDistinct ==
  ASSUME NEW t, SoundTable(t), IpsDistinct(t), IpsBelowNext(t), NEW a \in Addr,
         add_client(t, a).vpn_ip # 0, HasEntry(t, a) \/ t.next_ip <= LAST_IP
  PROVE  LET u == add_client(t, a).table
         IN  IpsDistinct(u) /\ IpsBelowNext(u) /\ t.next_ip <= u.next_ip
<1> DEFINE u == add_client(t, a).table
<1>0. t.next_ip \in Int /\ t.next_ip <= t.next_ip
  BY ClientTableAssumption DEF SoundTable, IsClientTable
<1>1. CASE HasEntry(t, a)
  <2>1. SubTable(u, t)
    BY <1>1, AddKnown, TouchSound
  <2> HIDE DEF u
  <2>2. u.next_ip = t.next_ip
    BY <2>1 DEF SubTable
  <2> QED BY <1>0, <2>1, <2>2, SubTableKeeps DEF u
<1>2. CASE ~HasEntry(t, a)
  <2>1. ~ t.next_ip > LAST_IP
    BY <1>0, <1>2, ClientTableAssumption
  <2>2. AllocatedIp(t) = t.next_ip
    BY <2>1 DEF AllocatedIp
  <2>3. /\ u.next_ip = t.next_ip + 1
        /\ \E s \in Slots \ DOMAIN t.clients :
             /\ DOMAIN u.clients = DOMAIN t.clients \cup {s}
             /\ u.clients[s] = [vpn_ip |-> t.next_ip, addr |-> a, idle |-> 0]
             /\ \A j \in DOMAIN t.clients : u.clients[j] = t.clients[j]
    BY <1>2, <2>2, AddNew
  <2>4. PICK s \in Slots \ DOMAIN t.clients :
             /\ DOMAIN u.clients = DOMAIN t.clients \cup {s}
             /\ u.clients[s].vpn_ip = t.next_ip
             /\ \A j \in DOMAIN t.clients : u.clients[j] = t.clients[j]
    BY <2>3
  <2>5. \A j \in DOMAIN t.clients : /\ t.clients[j].vpn_ip \in Int
                                    /\ t.clients[j].vpn_ip < t.next_ip
    BY ClientTableAssumption
       DEF SoundTable, IsClientTable, Entry, VpnIp, IpsBelowNext
  <2> HIDE DEF u
  <2>6. IpsDistinct(u)
    BY <1>0, <2>4, <2>5 DEF IpsDistinct
  <2>7. IpsBelowNext(u)
    BY <1>0, <2>3, <2>4, <2>5 DEF IpsBelowNext
  <2> QED BY <1>0, <2>3, <2>6, <2>7 DEF u
<1> QED BY <1>1, <1>2

(* add_client leaves an entry with the address it returns. *)
LEMMA AddedHasIp ==
  ASSUME NEW t, SoundTable(t), NEW a \in Addr, add_client(t, a).vpn_ip # 0
  PROVE  LET u == add_client(t, a).table
         IN  \E j \in DOMAIN u.clients :
               u.clients[j].vpn_ip = add_client(t, a).vpn_ip
<1> DEFINE u  == add_client(t, a).table
           ip == add_client(t, a).vpn_ip
<1>1. CASE HasEntry(t, a)
  <2> DEFINE i == find_client_by_addr(t, a)
  <2>1. /\ i \in DOMAIN t.clients
        /\ ip = t.clients[i].vpn_ip
        /\ u = update_client_activity(t, i)
    BY <1>1, AddKnown
  <2>2. SubTable(u, t) /\ DOMAIN u.clients = DOMAIN t.clients
    BY <2>1, TouchSound
  <2> HIDE DEF i, u, ip
  <2>3. i \in DOMAIN u.clients /\ u.clients[i].vpn_ip = ip
    BY <2>1, <2>2 DEF SubTable
  <2> QED BY <2>3 DEF u, ip
<1>2. CASE ~HasEntry(t, a)
  <2>1. /\ ip = AllocatedIp(t)
        /\ \E s \in Slots \ DOMAIN t.clients :
             /\ DOMAIN u.clients = DOMAIN t.clients \cup {s}
             /\ u.clients[s]
                  = [vpn_ip |-> AllocatedIp(t), addr |-> a, idle |-> 0]
    BY <1>2, AddNew
  <2> HIDE DEF u, ip
  <2>2. \E j \in DOMAIN u.clients : u.clients[j].vpn_ip = ip
    BY <2>1
  <2> QED BY <2>2 DEF u, ip
<1> QED BY <1>1, <1>2

(* Where VPN addresses are unique, remove_client removes the entry meant   *)
(* and no other entry has that address afterwards.                         *)
Minus(u, t, i) ==
  /\ DOMAIN u.clients = DOMAIN t.clients \ {i}
  /\ \A j \in DOMAIN u.clients : u.clients[j] = t.clients[j]

LEMMA RemoveUnique ==
  ASSUME NEW t, SoundTable(t), IpsDistinct(t), NEW i \in DOMAIN t.clients,
         NEW ip, ip = t.clients[i].vpn_ip, NEW u, u = remove_client(t, ip)
  PROVE  Minus(u, t, i)
<1> DEFINE k == find_client_by_vpn_ip(t, ip)
<1>1. k \in DOMAIN t.clients /\ t.clients[k].vpn_ip = ip
  BY FindByIp DEF SoundTable
<1>2. k = i
  BY ZenonT(30), <1>1 DEF IpsDistinct
<1>3. /\ DOMAIN u.clients = DOMAIN t.clients \ {i}
      /\ \A j \in DOMAIN u.clients : u.clients[j] = t.clients[j]
  BY <1>2, RemoveSound
<1> QED BY ZenonT(30), <1>3 DEF Minus

(* A client without an entry is given a free slot; nothing else changes. *)
NewSlot(u, t, e) ==
  \E s \in Slots \ DOMAIN t.clients :
    /\ DOMAIN u.clients = DOMAIN t.clients \cup {s}
    /\ u.clients[s] = e
    /\ \A j \in DOMAIN t.clients : u.clients[j] = t.clients[j]

LEMMA AddedSlot ==
  ASSUME NEW t, SoundTable(t), NEW a \in Addr, ~HasEntry(t, a),
         NEW u, u = add_client(t, a).table,
         NEW ip, ip = add_client(t, a).vpn_ip, ip # 0
  PROVE  NewSlot(u, t, [vpn_ip |-> ip, addr |-> a, idle |-> 0])
<1>1. /\ add_client(t, a).vpn_ip = AllocatedIp(t)
      /\ NewSlot(add_client(t, a).table, t,
                 [vpn_ip |-> AllocatedIp(t), addr |-> a, idle |-> 0])
  BY ZenonT(30), AddNew DEF NewSlot
<1> QED BY ZenonT(30), <1>1

(* What a step leaves of a client the server has heard from, seen from the *)
(* client: nobody is heard from less recently for a packet of anybody, and *)
(* an entry that is not past the timeout stays, with its VPN address.      *)
Keeps(t, u) ==
  /\ \A a, n : n \in Nat /\ Heard(t, a, n) => Heard(u, a, n)
  /\ \A a, ip : Known(t, a, ip) /\ Heard(t, a, CLIENT_TIMEOUT) => Known(u, a, ip)

(* As time passes every entry stays and grows older by at most one. *)
Ages(t, u) ==
  /\ \A a, n : n \in Nat /\ Heard(t, a, n) => Heard(u, a, n + 1)
  /\ \A a, ip : Known(t, a, ip) => Known(u, a, ip)

LEMMA KeepsItself == ASSUME NEW t PROVE Keeps(t, t)
BY DEF Keeps

LEMMA IdleTimes ==
  ASSUME NEW t, SoundTable(t)
  PROVE  \A i \in DOMAIN t.clients : t.clients[i].idle \in Nat
<1>1. t.clients \in [DOMAIN t.clients -> Entry]
  BY ZenonT(30) DEF SoundTable, IsClientTable
<1>2. CLIENT_TIMEOUT \in Nat
  BY ClientTableAssumption
<1>3. \A e \in Entry : e.idle \in Nat
  BY <1>2 DEF Entry
<1> QED BY ZenonT(30), <1>1, <1>3

LEMMA HeardLonger ==
  ASSUME NEW t, SoundTable(t), NEW a, NEW m \in Nat, NEW n \in Nat, m <= n,
         Heard(t, a, m)
  PROVE  Heard(t, a, n)
BY IdleTimes DEF Heard

LEMMA KeepsEntries ==
  ASSUME NEW t, NEW u, SoundTable(t), SoundTable(u), SubTable(u, t),
         \A i \in DOMAIN u.clients : u.clients[i].idle <= t.clients[i].idle,
         \A i \in DOMAIN t.clients :
           t.clients[i].idle <= CLIENT_TIMEOUT => i \in DOMAIN u.clients
  PROVE  Keeps(t, u)
<1> DEFINE T == DOMAIN t.clients
           U == DOMAIN u.clients
<1>1. /\ \A i \in T : t.clients[i].idle \in Nat
      /\ \A i \in U : u.clients[i].idle \in Nat
  BY IdleTimes
<1>2. /\ U \subseteq T
      /\ \A i \in U : /\ u.clients[i].addr = t.clients[i].addr
                      /\ u.clients[i].vpn_ip = t.clients[i].vpn_ip
  BY DEF SubTable
<1>3. ASSUME NEW a, NEW n \in Nat, Heard(t, a, n)
      PROVE  Heard(u, a, n)
  <2> SUFFICES ASSUME NEW i \in U, u.clients[i].addr = a
               PROVE  u.clients[i].idle <= n
    BY DEF Heard
  <2>1. i \in T /\ t.clients[i].addr = a
    BY <1>2
  <2>2. t.clients[i].idle <= n
    BY <1>3, <2>1 DEF Heard
  <2>3. u.clients[i].idle <= t.clients[i].idle
    OBVIOUS
  <2>4. t.clients[i].idle \in Nat /\ u.clients[i].idle \in Nat
    BY <1>1, <2>1
  <2> QED BY <2>2, <2>3, <2>4
<1>4. ASSUME NEW a, NEW ip, Known(t, a, ip), Heard(t, a, CLIENT_TIMEOUT)
      PROVE  Known(u, a, ip)
  <2>1. PICK i \in T : t.clients[i].addr = a /\ t.clients[i].vpn_ip = ip
    BY <1>4 DEF Known
  <2>2. t.clients[i].idle <= CLIENT_TIMEOUT
    BY <1>4, <2>1 DEF Heard
  <2>3. i \in U
    BY <2>2
  <2> QED BY <1>2, <2>1, <2>3 DEF Known
<1> QED BY ZenonT(30), <1>3, <1>4 DEF Keeps

(* update_client_activity restarts the clock of one entry. *)
LEMMA TouchKeeps ==
  ASSUME NEW t, SoundTable(t), NEW i \in DOMAIN t.clients,
         NEW u, u = update_client_activity(t, i)
  PROVE  /\ Keeps(t, u)
         /\ Heard(u, t.clients[i].addr, 0)
<1>1. /\ SoundTable(u)
      /\ SubTable(u, t)
      /\ DOMAIN u.clients = DOMAIN t.clients
  BY ZenonT(30), TouchSound
<1>2. t.clients \in [DOMAIN t.clients -> Entry]
  BY ZenonT(30) DEF SoundTable, IsClientTable
<1>3. /\ u.clients[i].idle = 0
      /\ \A j \in DOMAIN t.clients : j # i => u.clients[j] = t.clients[j]
  <2>1. u.clients = [t.clients EXCEPT ![i].idle = 0]
    BY DEF update_client_activity, WithClients
  <2>2. t.clients[i] \in Entry
    BY <1>2
  <2>3. [t.clients[i] EXCEPT !.idle = 0].idle = 0
    BY <2>2 DEF Entry
  <2> QED BY <1>2, <2>1, <2>3
<1>4. \A j \in DOMAIN t.clients : t.clients[j].idle \in Nat
  BY IdleTimes
<1>5. \A j \in DOMAIN u.clients : u.clients[j].idle <= t.clients[j].idle
  BY <1>1, <1>3, <1>4
<1>6. Keeps(t, u)
  BY ZenonT(30), <1>1, <1>5, KeepsEntries
<1>7. \A j \in DOMAIN u.clients : u.clients[j].addr = t.clients[i].addr => j = i
  BY ZenonT(30), <1>1 DEF SoundTable, AddrsDistinct, SubTable
<1>8. Heard(u, t.clients[i].addr, 0)
  BY <1>3, <1>7 DEF Heard
<1> QED BY <1>6, <1>8

(* check_client_timeouts drops only what is past the timeout. *)
LEMMA TimeoutsKeep ==
  ASSUME NEW t, SoundTable(t), NEW u, u = check_client_timeouts(t)
  PROVE  Keeps(t, u)
<1>1. /\ SoundTable(u)
      /\ SubTable(u, t)
      /\ DOMAIN u.clients = DOMAIN t.clients \ TimedOut(t)
  BY ZenonT(30), TimeoutsSound
<1>2. \A j \in DOMAIN u.clients : u.clients[j] = t.clients[j]
  BY <1>1 DEF check_client_timeouts, WithClients, Clear
<1>3. /\ CLIENT_TIMEOUT \in Nat
      /\ \A j \in DOMAIN t.clients : t.clients[j].idle \in Nat
  BY IdleTimes, ClientTableAssumption
<1>4. \A j \in DOMAIN t.clients :
        t.clients[j].idle <= CLIENT_TIMEOUT => j \in DOMAIN u.clients
  BY <1>1, <1>3 DEF TimedOut
<1>5. \A j \in DOMAIN u.clients : u.clients[j].idle <= t.clients[j].idle
  BY <1>1, <1>2, <1>3
<1> QED BY ZenonT(30), <1>1, <1>4, <1>5, KeepsEntries

LEMMA OlderAges ==
  ASSUME NEW t, SoundTable(t), NEW u, u = OlderTable(t)
  PROVE  Ages(t, u)
<1>1. DOMAIN u.clients = DOMAIN t.clients /\ SubTable(u, t)
  BY ZenonT(30), OlderSound
<1>2. t.clients \in [DOMAIN t.clients -> Entry] /\ CLIENT_TIMEOUT \in Nat
  BY ClientTableAssumption DEF SoundTable, IsClientTable
<1>3. \A i \in DOMAIN t.clients :
        /\ u.clients[i].idle <= t.clients[i].idle + 1
        /\ u.clients[i].idle \in Nat /\ t.clients[i].idle \in Nat
  <2> SUFFICES ASSUME NEW i \in DOMAIN t.clients
               PROVE  /\ u.clients[i].idle <= t.clients[i].idle + 1
                      /\ u.clients[i].idle \in Nat /\ t.clients[i].idle \in Nat
    OBVIOUS
  <2>1. t.clients[i] \in Entry
    BY <1>2
  <2>2. u.clients[i] = [t.clients[i] EXCEPT
                          !.idle = IF @ > CLIENT_TIMEOUT THEN @ ELSE @ + 1]
    BY DEF OlderTable, WithClients
  <2> QED BY <1>2, <2>1, <2>2 DEF Entry
<1>4. \A i \in DOMAIN t.clients : /\ u.clients[i].addr = t.clients[i].addr
                                  /\ u.clients[i].vpn_ip = t.clients[i].vpn_ip
  BY <1>1 DEF SubTable
<1>5. ASSUME NEW a, NEW n \in Nat, Heard(t, a, n) PROVE Heard(u, a, n + 1)
  BY <1>1, <1>3, <1>4, <1>5 DEF Heard
<1>6. ASSUME NEW a, NEW ip, Known(t, a, ip) PROVE Known(u, a, ip)
  BY <1>1, <1>4, <1>6 DEF Known
<1> QED BY ZenonT(30), <1>5, <1>6 DEF Ages

(* add_client leaves the sender known under the address it returns. *)
LEMMA AddKeeps ==
  ASSUME NEW t, SoundTable(t), NEW a \in Addr,
         NEW u, u = add_client(t, a).table,
         NEW ip, ip = add_client(t, a).vpn_ip, ip # 0
  PROVE  Keeps(t, u) /\ Heard(u, a, 0) /\ Known(u, a, ip)
<1>1. CASE HasEntry(t, a)
  <2> DEFINE i == find_client_by_addr(t, a)
  <2>1. /\ i \in DOMAIN t.clients
        /\ t.clients[i].addr = a
        /\ ip = t.clients[i].vpn_ip
        /\ u = update_client_activity(t, i)
    BY ZenonT(30), <1>1, AddKnown
  <2> HIDE DEF i
  <2>2. Keeps(t, u) /\ Heard(u, a, 0)
    BY ZenonT(30), <2>1, TouchKeeps
  <2>3. SubTable(u, t) /\ i \in DOMAIN u.clients
    BY ZenonT(30), <2>1, TouchSound
  <2>4. Known(u, a, ip)
    BY ZenonT(30), <2>1, <2>3 DEF Known, SubTable
  <2> QED BY <2>2, <2>4
<1>2. CASE ~HasEntry(t, a)
  <2>1. PICK s \in Slots \ DOMAIN t.clients :
          /\ DOMAIN u.clients = DOMAIN t.clients \cup {s}
          /\ u.clients[s] = [vpn_ip |-> ip, addr |-> a, idle |-> 0]
          /\ \A j \in DOMAIN t.clients : u.clients[j] = t.clients[j]
    <3>1. NewSlot(u, t, [vpn_ip |-> ip, addr |-> a, idle |-> 0])
      BY ZenonT(30), <1>2, AddedSlot
    <3> QED BY ZenonT(30), <3>1 DEF NewSlot
  <2>2. /\ u.clients[s].addr = a
        /\ u.clients[s].vpn_ip = ip
        /\ u.clients[s].idle = 0
    BY <2>1
  <2>3. Known(u, a, ip)
    BY <2>1, <2>2 DEF Known
  <2>4. \A j \in DOMAIN t.clients : t.clients[j].addr # a
    BY ZenonT(30), <1>2 DEF HasEntry
  <2>5. Heard(u, a, 0)
    BY <2>1, <2>2, <2>4 DEF Heard
  <2>6. ASSUME NEW b, NEW n \in Nat, Heard(t, b, n) PROVE Heard(u, b, n)
    BY <2>1, <2>2, <2>6 DEF Heard
  <2>7. ASSUME NEW b, NEW d, Known(t, b, d) PROVE Known(u, b, d)
    BY <2>1, <2>7 DEF Known
  <2>8. Keeps(t, u)
    BY ZenonT(30), <2>6, <2>7 DEF Keeps
  <2> QED BY <2>3, <2>5, <2>8
<1> QED BY <1>1, <1>2

-----------------------------------------------------------------------------
(* key_manager.c.  The table is searched by VPN address and may hold       *)
(* several keys for one address, so what a lookup returns follows from     *)
(* what all the slots of the address hold.                                 *)

(* What every function of key_manager.c keeps true of the table. *)
SoundKeys(m) == IsKeyManager(m) /\ m.count = Cardinality(DOMAIN m.keys)

(* Address ip has a key, and whichever slot is found first it is `key'. *)
KeysAre(m, ip, key) ==
  /\ KeySlotsOf(m, ip) # {}
  /\ \A i \in KeySlotsOf(m, ip) : m.keys[i].session_key = key

LEMMA ActiveKeys ==
  ASSUME NEW m, IsKeyManager(m)
  PROVE  /\ IsFiniteSet(DOMAIN m.keys)
         /\ DOMAIN m.keys \subseteq Nat
         /\ KeySlots \subseteq Nat
<1>1. MAX_KEYS \in Nat /\ DOMAIN m.keys \subseteq 0 .. MAX_KEYS - 1
  BY KeyManagerAssumption DEF IsKeyManager, KeySlots
<1>2. IsFiniteSet(DOMAIN m.keys)
  BY <1>1, SlotsBounded
<1>3. KeySlots \subseteq Nat
  BY <1>1 DEF KeySlots
<1> QED BY <1>1, <1>2, <1>3 DEF KeySlots

(* get_key finds the key of an address all of whose slots agree. *)
LEMMA GetKeyFinds ==
  ASSUME NEW m, IsKeyManager(m), NEW ip, NEW key, KeysAre(m, ip, key)
  PROVE  HasKey(m, ip) /\ get_key(m, ip) = key
<1>1. KeySlotsOf(m, ip) \subseteq Nat
  BY ActiveKeys DEF KeySlotsOf
<1>2. FirstSlot(KeySlotsOf(m, ip)) \in KeySlotsOf(m, ip)
  BY <1>1, FirstSlotFinds DEF KeysAre
<1> QED BY <1>2 DEF HasKey, get_key, KeysAre

(* get_key returns some session key when it finds one. *)
LEMMA GetKeyType ==
  ASSUME NEW m, IsKeyManager(m), NEW ip, HasKey(m, ip)
  PROVE  get_key(m, ip) \in SessionKey
<1>1. KeySlotsOf(m, ip) \subseteq Nat
  BY ActiveKeys DEF KeySlotsOf
<1>2. FirstSlot(KeySlotsOf(m, ip)) \in KeySlotsOf(m, ip)
  BY <1>1, FirstSlotFinds DEF HasKey
<1>3. FirstSlot(KeySlotsOf(m, ip)) \in DOMAIN m.keys
  BY <1>2 DEF KeySlotsOf
<1> QED BY <1>3 DEF get_key, IsKeyManager, KeyEntry

(* add_key fills one free slot, or changes nothing when there is none. *)
LEMMA AddKey ==
  ASSUME NEW m, SoundKeys(m), NEW ip \in Nat, NEW key \in SessionKey
  PROVE  LET n == add_key(m, ip, key)
         IN  /\ SoundKeys(n)
             /\ n.server_key = m.server_key
             /\ KeyTableFull(m) => n = m
             /\ ~KeyTableFull(m) =>
                  \E s \in KeySlots \ DOMAIN m.keys :
                    /\ DOMAIN n.keys = DOMAIN m.keys \cup {s}
                    /\ n.keys[s].vpn_ip = ip
                    /\ n.keys[s].session_key = key
                    /\ \A j \in DOMAIN m.keys : n.keys[j] = m.keys[j]
<1> DEFINE D == DOMAIN m.keys
           F == KeySlots \ D
           s == FirstSlot(F)
           e == [vpn_ip |-> ip, session_key |-> key]
           n == WithKeys(m, Put(m.keys, s, e), m.count + 1)
<1>1. /\ m.keys \in [D -> KeyEntry]
      /\ D \subseteq KeySlots
      /\ m.count \in Int
      /\ m.count = Cardinality(D)
      /\ m.server_key \in ServerKey
  BY DEF SoundKeys, IsKeyManager
<1>2. F \subseteq Nat
  BY ActiveKeys DEF SoundKeys
<1>3. /\ s = NULL <=> F = {}
      /\ s # NULL => s \in F
  <2> HIDE DEF F
  <2> QED BY <1>2, FirstSlotFinds
<1>4. CASE F = {}
  <2>1. s = NULL
    BY <1>3, <1>4
  <2>2. add_key(m, ip, key) = m
    BY <2>1 DEF add_key
  <2> QED BY <1>4, <2>2 DEF KeyTableFull
<1>5. CASE F # {}
  <2>1. s # NULL /\ s \in F
    BY <1>3, <1>5
  <2>2. add_key(m, ip, key) = n
    BY <2>1 DEF add_key
  <2> HIDE DEF s
  <2>3. e \in KeyEntry /\ e.vpn_ip = ip /\ e.session_key = key
    BY DEF KeyEntry
  <2> HIDE DEF e
  <2>4. /\ Put(m.keys, s, e) \in [D \cup {s} -> KeyEntry]
        /\ Put(m.keys, s, e)[s] = e
        /\ \A j \in D : Put(m.keys, s, e)[j] = m.keys[j]
    BY <1>1, <2>1, <2>3 DEF Put
  <2>5. /\ n.keys \in [D \cup {s} -> KeyEntry]
        /\ DOMAIN n.keys = D \cup {s}
        /\ n.keys[s] = e
        /\ \A j \in D : n.keys[j] = m.keys[j]
        /\ n.count = m.count + 1
        /\ n.server_key = m.server_key
    BY <2>4 DEF WithKeys
  <2> HIDE DEF n
  <2>6. Cardinality(D \cup {s}) = Cardinality(D) + 1
    <3>1. IsFiniteSet(D)
      BY ActiveKeys DEF SoundKeys
    <3> QED BY <2>1, <3>1, FS_AddElement
  <2>7. SoundKeys(n)
    BY <1>1, <2>1, <2>5, <2>6 DEF SoundKeys, IsKeyManager
  <2>8. ~KeyTableFull(m)
    BY <1>5 DEF KeyTableFull
  <2> QED BY <2>1, <2>2, <2>3, <2>5, <2>7, <2>8
<1> QED BY <1>4, <1>5

(* No slot but the one of the new key changes its address. *)
LEMMA AddKeyAddrs ==
  ASSUME NEW m, SoundKeys(m), NEW ip \in Nat, NEW key \in SessionKey
  PROVE  LET n == add_key(m, ip, key)
         IN  \A j \in DOMAIN n.keys :
               \/ j \in DOMAIN m.keys /\ n.keys[j].vpn_ip = m.keys[j].vpn_ip
               \/ n.keys[j].vpn_ip = ip
<1> DEFINE n == add_key(m, ip, key)
<1>1. CASE KeyTableFull(m)
  <2>1. n = m
    BY <1>1, AddKey
  <2> QED BY <2>1
<1>2. CASE ~KeyTableFull(m)
  <2>1. PICK s \in KeySlots \ DOMAIN m.keys :
          /\ DOMAIN n.keys = DOMAIN m.keys \cup {s}
          /\ n.keys[s].vpn_ip = ip
          /\ \A j \in DOMAIN m.keys : n.keys[j] = m.keys[j]
    BY SMTT(30), <1>2, AddKey
  <2> HIDE DEF n
  <2>2. \A j \in DOMAIN n.keys :
          \/ j \in DOMAIN m.keys /\ n.keys[j].vpn_ip = m.keys[j].vpn_ip
          \/ n.keys[j].vpn_ip = ip
    BY <2>1
  <2> QED BY <2>2 DEF n
<1> QED BY <1>1, <1>2

(* Adding a key to an address whose other keys, if any, are the same makes *)
(* all its slots agree, and no other address loses or gains a key.         *)
LEMMA AddKeyAgrees ==
  ASSUME NEW m, SoundKeys(m), NEW ip \in Nat, NEW key \in SessionKey,
         ~KeyTableFull(m)
  PROVE  LET n == add_key(m, ip, key)
         IN  /\ (\A i \in KeySlotsOf(m, ip) : m.keys[i].session_key = key)
                  => KeysAre(n, ip, key)
             /\ \A d, k : d # ip /\ KeysAre(m, d, k) => KeysAre(n, d, k)
<1> DEFINE n == add_key(m, ip, key)
<1>1. PICK s \in KeySlots \ DOMAIN m.keys :
        /\ DOMAIN n.keys = DOMAIN m.keys \cup {s}
        /\ n.keys[s].vpn_ip = ip
        /\ n.keys[s].session_key = key
        /\ \A j \in DOMAIN m.keys : n.keys[j] = m.keys[j]
  BY AddKey
<1> HIDE DEF n
<1>2. KeySlotsOf(n, ip) = KeySlotsOf(m, ip) \cup {s}
  BY <1>1 DEF KeySlotsOf
<1>3. ASSUME \A i \in KeySlotsOf(m, ip) : m.keys[i].session_key = key
      PROVE  KeysAre(n, ip, key)
  BY <1>1, <1>2, <1>3 DEF KeysAre, KeySlotsOf
<1>4. ASSUME NEW d, NEW k, d # ip, KeysAre(m, d, k)
      PROVE  KeysAre(n, d, k)
  <2>1. KeySlotsOf(n, d) = KeySlotsOf(m, d)
    BY <1>1, <1>4 DEF KeySlotsOf
  <2> QED BY <1>1, <1>4, <2>1 DEF KeysAre, KeySlotsOf
<1> QED BY <1>3, <1>4 DEF n

(* remove_key clears at most one slot, of that address. *)
LEMMA RemoveKey ==
  ASSUME NEW m, SoundKeys(m), NEW ip
  PROVE  LET n == remove_key(m, ip)
         IN  /\ SoundKeys(n)
             /\ n.server_key = m.server_key
             /\ DOMAIN n.keys \subseteq DOMAIN m.keys
             /\ \A j \in DOMAIN n.keys : n.keys[j] = m.keys[j]
             /\ \A d, k : d # ip /\ KeysAre(m, d, k) => KeysAre(n, d, k)
<1> DEFINE D == DOMAIN m.keys
           i == FirstSlot(KeySlotsOf(m, ip))
           n == WithKeys(m, Clear(m.keys, {i}), m.count - 1)
<1>1. /\ m.keys \in [D -> KeyEntry]
      /\ D \subseteq KeySlots
      /\ m.count \in Int
      /\ m.count = Cardinality(D)
      /\ m.server_key \in ServerKey
  BY DEF SoundKeys, IsKeyManager
<1>2. KeySlotsOf(m, ip) \subseteq Nat
  BY ActiveKeys DEF KeySlotsOf, SoundKeys
<1>3. CASE i = NULL
  <2>1. remove_key(m, ip) = m
    BY <1>3 DEF remove_key
  <2> QED BY <2>1
<1>4. CASE i # NULL
  <2>1. i \in KeySlotsOf(m, ip)
    BY <1>2, <1>4, FirstSlotFinds
  <2>2. remove_key(m, ip) = n
    BY <1>4 DEF remove_key
  <2> HIDE DEF i
  <2>3. i \in D /\ m.keys[i].vpn_ip = ip
    BY <2>1 DEF KeySlotsOf
  <2>4. /\ Clear(m.keys, {i}) \in [D \ {i} -> KeyEntry]
        /\ \A j \in D \ {i} : Clear(m.keys, {i})[j] = m.keys[j]
    BY <1>1 DEF Clear
  <2>5. /\ n.keys \in [D \ {i} -> KeyEntry]
        /\ DOMAIN n.keys = D \ {i}
        /\ \A j \in D \ {i} : n.keys[j] = m.keys[j]
        /\ n.count = m.count - 1
        /\ n.server_key = m.server_key
    BY <2>4 DEF WithKeys
  <2> HIDE DEF n
  <2>6. Cardinality(D \ {i}) = Cardinality(D) - 1
    <3>1. IsFiniteSet(D)
      BY ActiveKeys DEF SoundKeys
    <3> QED BY <2>3, <3>1, FS_RemoveElement
  <2>7. SoundKeys(n)
    BY <1>1, <2>5, <2>6 DEF SoundKeys, IsKeyManager
  <2>8. ASSUME NEW d, NEW k, d # ip, KeysAre(m, d, k)
        PROVE  KeysAre(n, d, k)
    <3>1. KeySlotsOf(n, d) = KeySlotsOf(m, d)
      BY <2>3, <2>5, <2>8 DEF KeySlotsOf
    <3> QED BY <2>5, <2>8, <3>1 DEF KeysAre, KeySlotsOf
  <2> QED BY <2>2, <2>5, <2>7, <2>8
<1> QED BY <1>3, <1>4

=============================================================================
