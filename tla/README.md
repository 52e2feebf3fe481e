# Verification of cloud-service

TLA+ models of the VPN (C, `VPN/`) and of the VM service (Java,
`CloudService/`), checked with TLC on small instances and proved with TLAPS for
every value of the constants. Paths below are relative to the repository.

## 1. The system

| Part | State | Operations | Interacts with |
|---|---|---|---|
| Client table, `VPN/src/server/client_manager.c` | slots (address, VPN address, last activity), `count`, `next_ip` | add, find by address / VPN address, remove, time-outs, touch | event loop |
| Key table, `VPN/src/enclave/key_manager.c` | slots (VPN address, session key), `count`, server key pair | handshake, add, get, remove | IPC requests |
| Event loop, `VPN/src/server/vpn_server.c` | both tables (one by IPC), `last_timeout_check` | UDP packet (CONNECT_REQ, DATA, PING, DISCONNECT), TUN packet, idle second | clients, enclave, TUN |
| Enclave process and IPC, `enclave_main.c`, `enclave.c`, `enclave_client.c` | child process, socket pair of request and answer | start, serve, detect death, stop | event loop |
| VPN client, `VPN/src/client/vpn_client.c` | `connected`, VPN address, attempts, back-off, times of last PING and PONG | connect, loop iteration, keep-alive, reconnect, signal, exit | server, network |
| VM service, `VmServiceImpl.java` | rows of VMs and their internal addresses | create, start, stop, delete, query | database, Proxmox |
| Proxmox client, `ProxmoxApiService.java` | authentication ticket | next id, clone, wait, configure, start, stop, delete | Proxmox |
| Members and sessions | members, HTTP session | sign up, log in | database |

What is hard in it: UDP loses, repeats and reorders; a client may come back with
a new key pair on an old address or with an old key pair on a new one; two
tables in two processes describe the same sessions and are changed by different
code paths (a time-out touches only one of them); three resources are finite
(entries, addresses, keys) and run out differently; the time-out check competes
with traffic for the loop; the client mixes clocks, blocking calls and signals;
the VM service makes several remote calls per request without a lock.
`PROJECT.json` lists each such hazard at the line where it bites.

What correct means: a client told "success" can exchange packets, and only under
its own key; no two clients hold one VPN address; an entry goes only when its
owner says so or falls silent; silent entries do go; a client notices a dead
connection and does not drop a live one, and while it believes in a connection
the server knows it; calls to the enclave behave like calls of an object; a
stopped process ends and leaves nothing behind; every VM has its row and every row
its VM, with an address of its own.

## 2. Modules

| Module | Models | State and actions |
|---|---|---|
| `SlotTable` | the "first inactive slot" arrays both tables are | a table is a function from the active slots to entries |
| `ClientTable` | `client_manager.c` | one operator per function, under the function's name |
| `KeyManager` | `key_manager.c`, key derivation of `crypto.c` | the same; a session key is the pair of key pairs it is derived from |
| `VpnServer` | `vpn_server.c` and the enclave's requests | one action per packet type and outcome, `Idle` for the branch without packets, `Tick` for time |
| `VpnClient` | `vpn_client.c` | `pc` is the blocking call the process is in; one action per outcome of a call |
| `VpnSystem` | client, network and server together | instances of `VpnClient` and `VpnServer`; a step is a step of one or of both |
| `EnclaveRequests` | the requests of `ipc_protocol.h` and what they do to the key table | operators |
| `EnclaveProcess` | `enclave_main.c`, `enclave.c`, `enclave_client.c`, setup and shutdown of `vpn_server.c` | the two processes, their socket and what the server holds open |
| `EnclaveService` | what `enclave_client.h` promises | the abstract object `EnclaveProcess` implements |
| `VmService` | `VmServiceImpl.java`, `ProxmoxApiService.java` | the rows, the VMs at Proxmox, the ticket, and one record per thread |
| `VmServiceSteps` | | what the proofs say about steps of `VmService`: the parts of its inductive invariant |
| `MC*` | | instances for TLC: symmetry, and constraints described under Bounds |
| `TableProofs` | | theorems about `SlotTable`, `ClientTable` and `KeyManager` |
| `VmServiceMatchProofs`, `VmServiceRequestProofs`, `VmServiceProofs` | | theorems about `VmService`, see section 4 |
| other `*Proofs` | | theorems about the module of that name |

**Server.** The loop is single-threaded and every IPC call waits for its answer,
so a handler is one atomic step over both tables (that it may be taken for one is
`CallsAreAtomic`, below). The environment sends any
packet from any address at any time; that covers loss, delay, duplication and
reordering of datagrams towards the server. `last_activity` is kept as the time
since then (`idle`), saturated just above `CLIENT_TIMEOUT`. Two history variables
that no action reads support the properties: `granted` (what the last
CONNECT_RESP told each address) and `hist` (which of three incidents happened:
`wrap`, the pool started over; `key_refused`, a handshake found the key table
full, which the code reports as success; `rekey`, a client with an entry
repeated its request with another key pair).

**Client.** Time is in seconds. Time passes only in `sleep`, `recvfrom` and
`select`, and not past their time-outs; `select` may return at any moment because
of the TUN device. A signal may arrive just before a blocking call, or in it. The
server and the network are the environment: an answer arrives within `DELAY`, in
any order with tunnelled data, and on a `lossy` network perhaps never. Whether
the network is lossy, `auto_reconnect` and `max_reconnect_attempts` are chosen in
`Init` and stay, so one run covers all combinations. The session key and packet
contents are left out here.

**Client and server.** In `VpnSystem` a datagram of the client is handled by the
server as it is sent, and the answer travels for up to `DELAY`. On a lossy network
datagrams of either side are lost, and any CONNECT_REQ or PING the client ever
sent, also from a port it no longer uses, may reach the server again at any time
(`Repeatable` names the kinds; DATA and DISCONNECT are handled once). A
reconnection takes any port, also one used before.

**Enclave.** `EnclaveProcess` has the server from `fork` to `exit` and the enclave
from its start to its collection. A call is three steps: the request is written,
the enclave handles it, the answer is read; in between either process may crash
or get a signal (SIGTERM to the server, Ctrl+C to both). A write to a closed
socket ends the server by SIGPIPE. A failed stage of the setup takes the exit the
code has for it. The variable `disturbed`, which no action reads, records a crash
or a Ctrl+C. `EnclaveService`
is one object with a key table whose calls are indivisible; `CallsAreAtomic` says
that `EnclaveProcess` implements it. The operations are parameters there, so the
refinement does not depend on what a request does.

**VM service.** A thread's request is a transaction around remote calls. It reads
the rows when it begins (MySQL's repeatable read from its first query) and writes
them when it commits. Between any two steps other requests run, tickets expire,
clones and deletions end and guests shut down. Any call may be refused, with or
without having taken effect; a commit may fail. `getVm` is read-only: its class is
`@Transactional(readOnly = true)`, so the status it saves is not written. The
history variable `hist` records three incidents: `half_done`, a request failed
after Proxmox had done its part; `same_vm`, two requests for one VM at a time;
`creations`, two creations at a time. Database and Proxmox are external, modelled
from how the code uses them, with two idealisations: an accepted start or stop
takes effect at once, and Proxmox refuses to delete a VM that runs.

Operators named after a definition with a suffix (`add_client_no_lookup`,
`RespFails_retry`, ...) are faulty variants used to confirm that each property
can fail.

## 3. Runs

| Run | Result | What it shows |
|---|---|---|
| `server_safety` | passes | counters match the tables, one entry per address, unique VPN addresses before the pool starts over, agreement on keys and correctly keyed traffic without incidents, entries removed only by their owner or silence |
| `server_expiry` | passes | an expired entry does not stay if the loop completes a due check again and again |
| `client_loop` | passes | a dead connection is noticed within a second of `pong_timeout`; a live one is never dropped; one attempt per loss; a signal ends the process; a lost connection is replaced or the process ends |
| `vpn_system` | passes | while a client takes itself for connected, the server has its entry under the address it was told, and the enclave its key, whatever was lost, repeated or left behind |
| `enclave_ipc` | passes | calls are atomic operations on one key table; however `main` returns, no enclave and no descriptor is left; without a crash or Ctrl+C no call waits on a closed stream and no SIGPIPE cuts the cleanup short; a signal ends the server |
| `vm_service` | passes | rows and VMs correspond and running VMs are shown as running until a request fails halfway or two are for one VM; addresses are unique if creations do not overlap |
| `ip_pool_restart` | violated | after 10.8.0.255 `add_client` starts again at 10.8.0.2 without looking for holders |
| `stale_key` | violated | a time-out leaves the key in the enclave; the next client with that address is told success, and the old key is found first |
| `busy_no_expiry` | violated | `check_client_timeouts` runs only in seconds without packets, so steady traffic keeps expired entries for ever |
| `client_retries` | violated | `main` breaks on the first failed `attempt_reconnect`; the limit of ten attempts and the growing back-off are never reached |
| `enclave_death` | violated | `kill(pid, 0)` succeeds for a child that has ended and was not waited for, so the idle check never sees the enclave dead |
| `reconnect_address` | violated | a reconnection from a new port gives another VPN address; `setup_client_tun` finds the device open and leaves the old address on it |

The six violated properties are what the repository's documentation and headers
say; `findings` in `PROJECT.json` quotes the lines.

**Bounds.** Server: two addresses, two key pairs and an invalid one, two entries,
a pool of two addresses and two keys. Each resource runs out and the pool starts
over while entries and left-over keys exist; a second address is enough because
every property relates at most two clients. Addresses and key pairs are
symmetric. The two runs with liveness use one key pair, one key slot and no
symmetry. `CLIENT_TIMEOUT` and `CHECK_INTERVAL` are 1, so both sides of each
comparison occur. Client: `KEEPALIVE` 2, `PONG_TIMEOUT` 3, `DELAY` 1, the tightest
values for which `NoFalseAlarm` promises anything; with `DELAY` 2 a live
connection is dropped, and with `KEEPALIVE` 1 the second `main` sleeps before it
sets up the device is longer than the interval (the defaults, 30 and 60, are far
from either). `MaxAttempts` is {0, 3}, the socket buffer holds two datagrams.
The client run does not check for deadlock since the process may end. Nor do the
runs of `VpnSystem`, `EnclaveProcess` and `VmService`: processes end, and `VmService`
stops when `MAX_CREATED` is reached and all VMs are deleted.

System: two ports, a client table and a pool of two, three key slots, `KEEPALIVE`
1, `PONG_TIMEOUT` 2, `DELAY` 1 and `CLIENT_TIMEOUT` 4, the least value for which
`ConnectedMeansServed` promises anything; what the server keeps of an abandoned
port meets the next connection. Behaviours are not followed past an incident of
`VpnServer`, where the properties end. Enclave: two key pairs
and an invalid one, one VPN address, two key slots, so that the table fills up. VM service: two threads, one VM to begin
with and two more to create, two addresses, one expiry; VM 102 is the template, so
that both running out of addresses and reaching the template's number happen.
VM numbers are used again after deletions. Behaviours are not followed past
`half_done` and `same_vm`.

**Fairness.** Server: the loop goes on (`WF(Loop)`) and time passes (`WF(Tick)`).
Nothing makes an idle second happen, and the code does not either: this is what
`busy_no_expiry` shows, and why `server_expiry` carries it as a premise. Client:
the process goes on when no call blocks it (`WF(Connecting)`, `WF(Loop)`), time
passes while one does (`WF(Tick)`), and an answer that was not lost arrives
(`WF(ArriveAnswer)`). Signals and tunnelled data are never owed. Enclave: each
process goes on when it can, since the system schedules both; packets, signals
and crashes are never owed. The VM service has no liveness property: that a
request ends depends on Proxmox and on HTTP time-outs that are not in this
repository.

## 4. Proofs

For all sets of addresses and keys, table sizes, pools and intervals allowed by
the named assumptions of the modules (`ClientTableAssumption`,
`KeyManagerAssumption`, `CheckIntervalAssumption`, `VpnClientAssumption`,
`VmServiceAssumption`, and `SettingsAssumption` of `VpnSystem`, which repeats those
of client and server), and for any number of threads:

| Theorem | States |
|---|---|
| `TypeCorrect`, `CountsCorrect`, `OneEntry` | `TypeOK`, `CountsMatch`, `OneEntryPerAddr` always |
| `UniqueBeforeWrap` | VPN addresses are unique until the pool starts over |
| `KeysAgree`, `TrafficKeyed` | without incidents, clients and enclave agree and packets travel under the right key |
| `RemovalsOwn` | the action property `RemovedOnlyByOwner` |
| `LossNoticedInTime`, `LiveNotGivenUp`, `OneAttempt`, `ClientTypeCorrect` | `LossNoticed`, `NoFalseAlarm`, `OneAttemptPerLoss` and `TypeOK` of the client |
| `ConnectedServed` | `ConnectedMeansServed` of client, network and server together |
| `NothingLeft`, `Orderly`, `TypeCorrect` (enclave) | `NothingLeftBehind`, `OrderlyUnlessDisturbed` and `TypeOK` of the server and its enclave |
| `AtomicCalls` | `EnclaveProcess` implements `EnclaveService` (safety) |
| `TypeCorrect` (VM service), `IpsUniqueUnlessOverlap` | `TypeOK`; internal addresses are unique unless creations overlap |
| `RowsAndVmsMatch`, `RunningVmsShown` | `RowsMatchVms` and `RunningIsShown` |

**Server.** `IInv` strengthens the properties in two ways. `FreshAddresses`: before
the pool starts over, every address in either table is below `next_ip`. The
enclave keeps keys of clients long gone, so uniqueness in the client table alone
does not tell that a new client's address has no old key. `AllGranted`: *every*
key the enclave holds for an active client's address is the granted one. That
the *first* one is would not be inductive, because `remove_key` clears only the
first. `TableProofs` says what each operator
preserves (`SoundTable`, `SoundKeys`); `VpnServerProofs` has one lemma per action.

**Client.** `ClientIInv` says what each place of the process implies: outside a
reconnection `attempts` is 0 and the back-off initial; at the head of the loop the
PONG is not overdue; in `select` the PONG's age and what is left of the second
add up to at most `PONG_TIMEOUT` + 1. For `NoFalseAlarm` the invariant `Alive` says
that the last PONG is no older than the last PING, or one that was sent in time is
under way or waits in the socket; several may be, since nothing makes `DELAY`
shorter than `KEEPALIVE`. It is kept because time does not pass in `select` while
a datagram waits, and because a due PING is sent before the next wait.

**Client and server.** `ConnectedMeansServed` is about clocks on two sides.
`SysInv` follows the age of what the client hears. `AnswersAge`: an answer that
has been under way for n seconds means that the server heard from the socket at
most n seconds ago, and one that waits in the socket's buffer at most `DELAY`
seconds ago. `OffersHold`: an address the client may still accept is one the
server has it under. `UpHolds`: a client that is up is known, and the server heard
from it at most `pong_age` + `DELAY` seconds ago; since `pong_age` stays below
`PONG_TIMEOUT` + 2 the server's clock does not pass `CLIENT_TIMEOUT`. Two facts
about the client are needed for this: no PONG is on its way before the TUN device
is set up (main sleeps there for a second with the socket unread, so a PONG could
be older than it looks), and a DISCONNECT is the last thing it sends. What the
proof needs of the server is said in `Promised`: no step makes a client heard from
less recently, and none but a DISCONNECT removes an entry that is not past the
time-out. `VpnServerProofs` proves it of the server by itself (`HandlerServes`,
`RestServes`, `TickServes`), together with the key: all the client's sessions have
one key pair, so what the enclave holds for it is the key the client derived
(`OneKey`). `VpnSystemProofs` takes these lemmas from an instance of
`VpnServerProofs` after showing that its operators are those of the server in
`VpnSystem` (`SameBasics` to `SameClock`).

**Enclave.** The inductive invariant relates the place of the server, the place of
the enclave and the content of the socket: at most one request or answer is under
way, it belongs to the call the server is in, and what the server holds open is
what the stage it has reached opened. The types are part of it: an enclave that
serves has a key table. For `AtomicCalls` the abstract key table is the enclave's
own, except that between the handling of a request and the reading of its answer
it is still the table before the request: a call takes effect when it returns.

**VM service.** `FitInv` is the inductive invariant. It has four parts. `TInv` and
`Forms`: types, and what each step of each kind of request implies about its
fields (that the numbers of the VMs are bounded, so that `getNextVmId` has a
maximum to take, is part of the types). `IdsInv`: row ids are handed out once.
`MatchInv`: outside the requests under way, rows and VMs correspond one to one;
every clone made and not yet committed has its own VM that no row has; every
request on a row has a row that no other request is changing; a VM runs only if
its row says so or a start is about to be committed; and the VM of a stop about to
be committed does not run. `RowsMatchVms` alone is not inductive: it does not say
that two clones under way differ, nor that the VM a request is about is still its
row's. `VmServiceMatchProofs` shows which of these facts a step leaves alone and
treats the remote calls, the commits and Proxmox's own steps,
`VmServiceRequestProofs` the types and the addresses, and `VmServiceProofs` puts
them together.

The invariants were model-checked before they were proved. Every safety property
a passing run checks is proved. Only model-checked: the liveness properties
(`SilentClientDroppedIfIdle`, `SignalEnds`, `LossHandled`, `SignalEndsServer`),
which rest on fairness and are out of the prover's reach.

## 5. Not modelled

- Printing, logging, packet layout, HTML pages, test programs: no property is
  about them. Configuration files are read once; what they set are constants.
- Encryption is abstract: a packet opens under the key it was made with and no
  other. Sequence numbers are not looked at by the code and are left out; neither
  side promises that a tunnelled packet is delivered at most once.
- A restart of the VPN server under running clients: the code keeps nothing and
  the clients' PINGs are answered; there is no recovery to check.
- The sizes of IPC messages, and requests that arrive in parts: both ends read and
  write whole structures.
- An end of the enclave after its server was killed: the request loop is not left at
  the end of the connection (`HandleEof`). The model has it; no line of the
  repository says otherwise.
- Members and sessions: sign-up and log-in are one query and one insert, and what
  could interleave is decided by a unique column of the database.
- `getMyVms`, monitoring and the VPN pages: they read and show.
- What happens to the VM service after an incident. The code has no repair: a VM
  left by a failed creation stays, a row whose VM is gone stays, and each later
  request for it fails.
