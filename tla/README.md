# Verification of the Ethernet-over-BLE bridge

The app connects an Android phone to a device that speaks Ethernet over a
Bluetooth LE characteristic.  A native library (`src/app/src/main/cpp`) carries
the packets: it cuts datagrams into GATT writes and puts them together again,
routes them between the BLE link and an lwIP stack inside the process, gives the
device an address and lets it reach the internet through a NAT and a DNS proxy.
This directory models the parts of the library where threads meet, and the
protocol its DHCP server takes part in.

Paths below are relative to `src/app/src/main/cpp` unless they start with
`java/` (`src/app/src/main/java/ua/cn/stu/navigation`).

## The system

| Part | State | Operations | Interacts with |
|------|-------|------------|----------------|
| Memory and queue manager, `eth_mem.c` | free chain of pbufs, queue of free requests, pool of queue entries, input queue, one output queue per interface with a length counter and a "callback pending" flag | allocate, request a free, submit a packet, get a packet, forward to an output queue; the task `EthQueueTask` | called by both drivers, lwIP's custom free function and the DNS proxy; calls the router and the drivers' callbacks |
| Router, `eth_router.c` | interface up flags | `eth_route_block`: drop, or forward BLE to lwIP and back | called by `EthQueueTask`; calls the NAT's rewriting |
| Task notifications, `xlib.c` | atomic word of bits, semaphore | `TNotifyAdd`, `TNotifyWait` | every task of the library |
| lwIP driver, `lwip/eth_router_if_lwip.c` | `block_to_send`, shared without a lock | output to the bridge, input task, 100 ms timer, callback | manager, lwIP stack |
| BLE flow control, `ble_tcp.c` | chunk waiting to be sent, sequence index, busy flag, acknowledgement state, one-shot timer | `BLE_TCP_Task`, write completion, received data, connection reset | JNI bridge, fragmentation |
| BLE fragmentation, `ble_eth.c` | block being sent and position, pbuf being filled and last sequence number, reset requests | `get_next_chunk`, `process_dgram_asm`, callback from the router | flow control, manager |
| JNI bridge, `bt_drv.c` | connection status | `bt_send`, `char_wr_cbk`, `new_dg_from_bt`, `eth_ble_stack_control` | Java side, flow control |
| NAT, `eth_nat.c` | translation table, per connection a ring of pbufs, a socket, an lwIP pcb | rewriting in both directions, two select loops, lwIP callbacks | router, lwIP, sockets |
| DNS proxy, `lwip/dnsproxy.c`, `eth_queue.c` | queue of requests with a length counter, the thread's notification handle | lwIP receive callback, resolver thread, decoding and encoding of names | manager, lwIP, `getaddrinfo` |
| DHCP server, `lwip/dhcp_server.c` | list of leased addresses sorted by address, `client_address_plus`, one counter per lease | message handler, lease timer, start | lwIP's UDP; the device |
| Connection management, `java/MainActivity.kt`, `java/ble/BluetoothLeService.java` | connection and scanning flags, GATT objects | scan, bind, connect, reconnect threads, broadcasts | JNI bridge |
| Topology and raw Ethernet, `lwip/net_topology.c`, `lwip/net_raw.c` | node table | not started (`topology_init` is commented out) | lwIP |
| lwIP stack, user interface | | | |

What is hard here:

* **Concurrency.**  The main thread, the GATT callback thread, a timer thread,
  `BLE_TCP_Task`, `EthQueueTask`, the lwIP input task, the NAT tasks and the DNS
  thread share queues.  Some state is under `eth_mem_sem`, `tcp_tx_sem` or the
  lwIP core lock; flags such as `ble_tx_busy`, `cbk_pending` and `block_to_send`
  are not.  Notifications are sent after the lock is released.
* **Ownership.**  A pbuf passes through many hands, each with several paths on
  which it drops the packet.
* **Limits.**  400 pbufs but 100 queue entries, output queues of 20; overflow
  paths run only under load.
* **Failure.**  The link drops in the middle of a datagram or of a write, writes
  are refused, chunks are lost or (after a reconnection registered the receiver
  twice) repeated; DHCP messages are lost, repeated or late, and the process is
  killed and restarted without its leases; a name is not found.
* **Liveness.**  A driver waits for a callback, a task for a bit, a chunk for the
  completion of the previous write; each chain must always lead to a next step.

The correctness properties that follow from it: every pbuf and queue entry has
one owner; no assertion of the code fires; a sleeping task with work has a
wakeup on its way; a waiting driver is owed a callback; packets of one interface
stay in order; datagrams arrive whole; an accepted datagram leaves while the
link is up; a connection's data goes to that connection; an answer goes to the
client that asked; no two clients hold one address.  `PROJECT.json` lists the
hazards line by line with the properties that would catch them.

## Modules

| Module | Models | Kind |
|--------|--------|------|
| `EthMem` | manager, router and the calls of both drivers | component |
| `LossyFifo`, `EthMemFifo` | what the bridge promises, and the refinement | abstract spec |
| `TNotify`, `AtomicNotify` | notifications in two steps, and what they promise | component, abstract spec |
| `LwipIf` | transmitting side of the lwIP driver at the grain of `block_to_send` | component |
| `BleChunk` | sequence numbers | shared definitions |
| `BleTx` | flow control, fragmentation, status and reset | component |
| `BleAsm` | reassembly | component |
| `BlePath` | `BleTx` and `BleAsm` joined by a link that loses and repeats | composition |
| `Nat` | translation table, diverted connections, both socket tasks | component |
| `DnsProxy` | DNS proxy with its queue, over the shared pool of buffers | component |
| `Dhcp` | DHCP server, its clients, a link that loses and repeats, restarts of the process | component |
| `DhcpList` | the server's linked list, run in step with `Dhcp` | detailed data structure |
| `MCEthMem`, `MCBleTx`, `MCBlePath`, `MCNat`, `MCDnsProxy`, `MCDhcp` | small instances for TLC | |
| `EthMemProofs`, `TNotifyProofs`, `LwipIfProofs`, `BleProofs`, `NatProofs`, `DnsProofs`, `DhcpProofs` | theorems | proofs |
| `DataLemmas` | queues without repetition, least elements, recursion, insertion, removal and concatenation | lemmas |

Definitions named "Mutant" in a comment are faulty variants of the definition
that follows; they document which property notices which mistake and are used by
no specification.

### EthMem

One action is one section under `eth_mem_sem`, or one access outside it.  The
variables keep the names of the code (`free_chain`, `free_pbuf_q`, `q_input`,
`q_output`, `callback_pending`); linked lists are sequences, the two LIFO free
lists a set and a count, because which free element is taken makes no
difference.  The positions of each thread inside a call are `rx_pc`, `tx_pc`,
`task_pc` and `core_pc`.

| Action | Code |
|--------|------|
| `RxAlloc`, `RxFree` | `eth_pbuf_alloc`; the error paths of `process_dgram_asm` and `lwip_output_to_bridge` |
| `RxSubmit`, `RxEnqueue`, `RxNotify` | `eth_add_packet_to_router_queue`: entry allocated, packet queued, bit set |
| `TxGetPacket`, `TxEntryFree` | `eth_get_packet` and the `eth_queue_entry_free` at its end |
| `BleTxFree`, `BleTxNotify` | the last chunk of a datagram is copied out |
| `LwipInput`, `LwipPbufRef`, `LwipPbufUnref`, `LwipPbufFree`, `LwipNotify` | `netif->input`; what lwIP (external) does to a pbuf; the custom free function |
| `TaskWait`, `FreeBlk`, `FreeBlkDone`, `TaskPop`, `TaskRoute`, `TaskDrop*`, `TaskEntryFree`, `TaskCallback` | `EthQueueTask` with `free_blk`, `eth_route_block` and `eth_add_packet_to_output_queue` |

`EM_ASSERT` spins for ever, so a failed assertion sets `fault` and stops the
model, as does the NULL dereference in `eth_pbuf_alloc`.  Init is the state in
`JNI_OnLoad` just before the lwIP interface goes up.

### TNotify

`atomic_fetch_or`, `sem_post`, `sem_wait` and `atomic_exchange` are separate
steps; the semaphore saturates.  The other modules use the atomic form
(`AtomicNotify`), which `TNotify` is shown to implement.

### LwipIf

`block_to_send` is written by the router's callback and read, cleared and read
again by the task.  The router is reduced to what it does to this driver; lwIP
is external.

### BleTx, BleAsm, BlePath

`BleTx` has one action per step of `BLE_TCP_Task` between accesses to shared
state, and the steps of the timer, completion, router and main threads.  All the
bits the task acts on lead to the same code, so they are one flag `woken`.
`ack_differs` stands for `ack_sent_value!=rx_nack_blk`; a received
acknowledgement sets it to anything.  Two constants select what the environment
may do: `Reorder` lets the two plain stores of `callback_from_bridge` be seen in
either order, `Flaky` lets `writeCharacteristic` refuse a write although none of
this program is in flight.  `BleAsm` handles one chunk per step, as the code does
under `RX_LOCK`; payload bytes are replaced by the pair (datagram, position).
`BlePath` delivers each finished write to `BleAsm`.  The far end of the link is
firmware outside this repository; it is taken to follow the same chunk format.

### Nat

`forward_nat` runs on the router's thread without a lock and is two steps:
`ForwardFind` looks the flow up or chooses the entry to replace, `ForwardWrite`
overwrites it.  Everything else holds the lwIP core lock: the callbacks
(`Accept`, `Recv`, `RecvFin`, `Sent`, `TcpErr`) are one action each, and so is
what a task does from the return of `select` to the next `select` (`TaskTurn`,
`RxTurn`).  What a task saw before `select` is in `wfd` and `rfd`; that the table
may have changed meanwhile is the point of the model.  `time` is kept as a rank:
`Tick` moves the present millisecond into the past.  A pbuf is represented by the
socket of the connection it came from, so that data of one connection in
another's ring is visible.  Descriptors are never closed by the code
(`eth_nat.c:140`); with all `MaxSock` of them open `socket()` fails.  Which
segments lwIP receives, and when sockets become ready, is left open.

### DnsProxy

`pdns_recv` runs on the lwIP task under the core lock and is four steps:
`Recv` (a datagram is there), `Alloc`, `Decode` and `Add`, with the notification
that follows.  `dnsproxy_thread` runs without that lock: `Wait`, `Get`,
`Resolve` (the blocking `getaddrinfo`, which finds an address or does not),
`Send` and `Free`.  Buffers come from the pool of `EthMem`, whose calls are one
step each here; `others` are those the rest of the bridge holds, and `FreeBlk`
is the router's task returning what was freed.

Names are modelled byte by byte, because `query_decode` and `dns_encode_name`
are where a length can be off by one: `Question[r]` is the name section of a
query, `query_decode` what is passed to `getaddrinfo`, `Answer` the name and
length of the reply with `dpos` cut to eight bits.  A name that does not fit into
`rec->name` (`NameSize`) is refused, and the readers of `rec->name` stop at its
first zero byte (`CString`), so a label with a zero byte or a dot in it comes
back as another name; `WellFormed` says which names have neither.

### Dhcp, DhcpList

Each handler of the server runs to its end under the core lock, so
`handle_dhcp` takes one message and answers it in one step; the timer is
`dhcps_tmr`.  `Dhcp` keeps the list as a set of nodes and says what the two
loops that search for an address find (`Chosen`); `DhcpList` runs the code's
loops on a sequence, and `ListAgrees` and `LoopsAgree` say that the two never
differ.  The clients follow RFC 2131: they discover, reboot into a remembered
address, renew, release, decline, repeat and give up.  A message carries what
will remain of the lease it asks for (`left`), counted from its sending as the
RFC has clients count, so that `Tick` ages messages and leases alike; `cur` says
whether the message belongs to the client's current transaction (the `xid`).
Two FIFOs of together at most `Cap` messages lose and, by `Retry`, repeat.
`Restart` empties the server's list and its counters; the clients keep their
leases.

## Runs

| Run | Question | Instance | Result |
|-----|----------|----------|--------|
| `ethmem` | ownership, assertions, entries, wakeups, callbacks | 3 pbufs, 2 entries, queues of 1, 1 reference | holds |
| `ethmem_fifo` | the bridge implements the lossy channel; every freed pbuf becomes allocatable; no assertion fires with shared pbufs | 2 pbufs, 2 entries, queues of 1, 2 references | holds |
| `tnotify` | two-step notifications are atomic and delivered | 3 adders, 2 bits, semaphore limit 2 | holds |
| `lwipif` | hand-over through `block_to_send` | 3 pbufs, queue of 2 | holds |
| `lwipif_null` | the task has a packet when told so | 2 pbufs, queue of 1 | **violated** |
| `bletx` | the callback overwrites no block; accepted datagrams leave | datagrams of 2 and 1 chunks, 2 connections | holds |
| `bletx_stall` | accepted datagrams leave, when a write may be refused | 1 connection, `Flaky` | **violated** |
| `blepath` | datagrams arrive whole and in order | two datagrams of 2 chunks, 1 fault, 2 connections, numbers modulo 3 | holds |
| `nat` | stale entries, control blocks and wakeups of the NAT tasks | 2 entries, 3 flows of 2 sources, 2 blocks, 2 descriptors, rings of 1, pipes of 1 | holds |
| `nat_evict` | entries of open connections are left alone | as `nat` | **violated** |
| `dns` | buffers, wakeups, answers to the right client, names repeated byte for byte, every queued request worked off | 6 questions, 3 buffers, queue of 2, names of up to 5 characters, `W` = 34 | holds |
| `dhcp` | one address, one client; free addresses are found; list and set agree | 3 clients, 2 addresses, leases of 2 ticks, 2 messages | holds |

The bounds are small but reach every limit: with two entries and queues of one,
three pbufs exhaust the entries, fill an output queue and empty the pool.  Two
connections give one reset in the middle of a datagram; modulus 3 makes sequence
numbers wrap; semaphore limit 2 with three adders makes `sem_post` fail. In
`nat` the table has as many entries as lwIP has control blocks, as in the code
(16 each); one source has two flows, so entries share a source; a pipe of one
byte is full after one wakeup, and two descriptors let an entry be used a
second time. In `dns` three buffers fill the queue of two and empty the pool;
the questions are a name whose answer just fits into `dpos`, one that is a byte
longer, the empty name, a label with a dot and a zero byte in it, a section
that ends early and a name too long for `rec->name`. In `dhcp` three clients
for two addresses exhaust the pool and make `client_address_plus` pass its end;
leases of two ticks let one run out while a message is under way. In addition
TLC compares the list's loops with what they stand for on every sorted list of
up to five nodes (`ListOperators`). In `blepath` `MaxFaults` bounds the chunks
lost or repeated within a connection; reconnections lose chunks without
counting. `MaxRef` bounds lwIP's references to a pbuf, `MaxConn` the
connections of a behaviour. Symmetry over pbufs is used only in runs without
liveness properties.

The `bletx` and `blepath` runs switch off the deadlock check: without a link and
with all datagrams routed nothing has to happen any more.  In the other modules
a stopped process stutters explicitly, so a deadlock would be an error of the
program.

Fairness:

* `EthMem`: weak fairness of `EthQueueTask` and of each thread between unlocking
  and `TNotifyAdd`; POSIX threads keep running.  The drivers may stop calling.
* `TNotify`: weak fairness of the waiting task and of a started `TNotifyAdd`.
* `LwipIf`: weak fairness of the task and of the callback.
* `BleTx`: weak fairness of every thread of the process and of the write
  completion, which Android reports for every accepted write; strong fairness of
  a successful write, so that one which is attempted again and again is accepted
  some day.  Nothing is assumed of link, peer or router input.
* `DnsProxy`: weak fairness of the lwIP task inside `pdns_recv`, of the resolver
  thread (threads keep running and `getaddrinfo` returns, it has a timeout) and
  of the router's task that returns freed buffers.  Nothing makes requests arrive
  or other parts of the bridge give their buffers back.
* `Dhcp` and `Nat` are checked for safety only.

### What the violated runs show

* `lwipif_null`: the loop of `to_lwip_QueueTask` reads `block_to_send` again
  after it allowed the callback (`eth_router_if_lwip.c:96`); it consumes the
  packet, and the notification that follows finds NULL.
* `bletx_stall`: a refused write leaves no timer running (`ble_tcp.c:112`,
  `159`).
* `nat_evict`: `forward_nat` falls back on entry 0 even if its connection is open
  (`eth_nat.c:82`), and an entry that was idle when chosen may have been accepted
  before it is overwritten (`eth_nat.c:89`).  From there the former connection's
  error clears the new one's entry, and the check in `nat_tcp_recv`
  (`eth_nat.c:377`) can loop for ever; the model stops with `pcb_not_match`.

Two more hazards were shown by runs while the models grew and are recorded in
`PROJECT.json` only: `eth_pbuf_alloc` writes to the NULL its helper returned
(`eth_mem.c:61`; `EthMem` stops with fault `null_deref`), and on a weakly ordered
processor the two plain stores of `callback_from_bridge` (`ble_eth.c:147`) may be
seen in the other order, which `BleTx` shows with `Reorder` true: `BlockKept`
fails and a pbuf is lost.

## Proofs

TLAPS checks the following for every value of the constants.  The assumptions
are the named `ASSUME`s of the modules: NULL is not a pbuf, an address or a
control block, and the limits are numbers, positive where the code needs room.

* **`EthMemProofs`**: `TypeOK`, `Ownership`, `NoEmAssert`, `EntriesConserved`,
  `CallbackOwed`, `PendingMeansEmpty`, `NoLostWakeup`.  None is inductive alone.
  `IInv` adds: a thread holds a pbuf exactly at the positions where the code does
  (`SlotInv`); a pbuf has no reference in the free chain, one elsewhere and at
  least one inside lwIP (`RefInv`), which is what assertions 1, 3, 8, 11 and 20
  need; packets on their way to the router know their interface (`IfIdxInv`,
  assertion 22); the counter beside an output queue is its length (`LenInv`,
  assertion 7); the flag is cleared before the callback (`CallbackOnce`).
  Ownership is stated as "at exactly one of eleven places"; `MoveLemma` says that
  moving one pbuf from one place to another keeps this, `PushLemma` and
  `PopLemma` of `DataLemmas` say what appending to and taking from a queue does
  to its range.  One lemma per action, combined in `NextInv`.  The wakeups need
  one fact more (`WakeInv`): a turn that started for free requests only leaves
  the router's bit set, or about to be set, if input is queued meanwhile.
* **`EthMemProofs`** also holds `BridgeIsLossyFifo`, the refinement of `LossyFifo`.
  Each step of `EthMem` is, for each interface, one of the channel's steps (send,
  deliver, release, lose) or leaves channel and buffer alone; one lemma per
  action or group of actions.  The mapping filters `q_input` by the interface a
  packet came from (`FromIf`); `FromIfAppend`, `FromIfTail` and `FromIfSame` say
  what it does when the queue grows, shrinks or other packets change.  That a
  packet is sent once only follows from `Ownership`.
* **`TNotifyProofs`**: `TypeOK`, `BitsHaveWakeup`, and the refinement of
  `AtomicNotify`'s safety part.  The invariant is inductive together with the
  types: a post that fails does so at a positive semaphore.
* **`LwipIfProofs`**: `TypeOK`, `NoOverwrite`, `NoStrandedBlock`.  `LwipIfInv`
  relates the position of the task to whether a callback may come: while one may,
  the variable is empty and the task is neither clearing it nor asking for a
  packet.
* **`BleProofs`**, all under the assumption that the build keeps the order of the
  two stores (`~Reorder`).  The sender alone: `TypeOK` and `BlockKept`; the types
  depend on the order too, since a block stored while another is being cut would
  leave `tx_ptr` past its end.  `CallbackInv` says that from the request for a
  callback until the router clears `cbk_pending` no block is current and the task
  leaves it so; `EthTypes` adds that no chunk is counted between two blocks.
  Both ends: `PathImplementsSender` (the composition steps as `BleTx` or leaves
  its variables alone), `PathTypeOK`, `DgramsWhole`, `DgramsInOrder` and `NoGap`,
  from `PathIInv`: the chunk waiting and the chunk in flight are cut at the right
  place and the position follows them (`SenderInv`, `FollowInv`); what the sender
  will send next continues what the reassembly has so far, exactly without loss
  and recognisably with one (`SyncInv`); a chunk sent on a new connection before
  its reset ran is what may break this (`EarlyInv`); a chunk to be delivered once
  more is the last one delivered (`EchoInv`); and the datagram under construction
  consists of one datagram's chunks (`PartInv`).  The order rests on the numbers
  of the datagrams along the path, from the router's queue through block, chunk,
  flight and reassembly to the datagrams handed on (`SendOrder`, `ReceiveOrder`).
* **`NatProofs`**: `TypeOK`, `SendsOwnData`, `ActiveHasPcb`, `PipeWakes`.  The
  invariant adds that an entry has a control block exactly while it is active,
  that the sockets of active entries and the watched ones are open (so a new
  descriptor is none of them, although the code never closes one), and that a
  watched ring has data.  `CloseLemma` covers every path that closes entries;
  one lemma per callback and per turn of a task.
* **`DnsProofs`**: `TypeOK`, `Ownership`, `AnswersOwn`, `WakeupKept`,
  `AnswersRepeat`.  `Holds` relates the positions of both threads to the buffers
  they hold and says that a buffer's request is still the one written into it;
  `QueueCounted` that the counter beside the queue is its length; `Decoded` that
  only decoded names are queued and the empty one is not answered.  That encoding
  undoes decoding (`EncodeDecoded`) is about names of any length: the recursion
  of `query_decode` has a solution (`DecodesExists`, filled in from the last byte
  to the first), which from each length on is the text behind it
  (`DecodesText`); the label that `dns_encode_name` counts is then as long as the
  question said (`LabelLength`).
* **`DhcpProofs`**: `TypeOK`, `PoolSound`, `FreeAddressFound`,
  `NoAddressConflict`.  The last rests on `LeasesBacked`: a lease this run has
  granted is covered by a node of its client with at least as many ticks, as is
  every acknowledgement under way; and no message that may still arrive before
  the client's own can take the node away.  That a search ends at the least
  unused address needs a least element of a set of numbers, `MinExists`, which
  follows from the well-foundedness of inclusion on finite sets.
  For the linked list: `ListImplementsPool` (`ListSpec => Spec`, so all of the
  above holds of the list), `ListAgrees` and `LoopsAgree`.  The invariant
  (`ListIInv`) is that the list ascends and its range is the pool.  What a loop
  finds is read off its history, the sequence of its states
  (`LoopHistory`), by going along it from turn to turn (`UpTo`).

The prover has no induction over data.  Where a proof needs it, `UpTo` of
`DataLemmas` takes its place: a set of numbers that has 0 and is closed under the
next number up to `n` has all of them, from least elements of sets of numbers.
With it `LoopHistory` shows that a recursive function over `0 .. n` exists.

Only model-checked: all liveness properties (`FreedReturns`, `HandedOver`,
`DatagramsLeave`, `AcceptedEnds`) and the fairness part of `AtomicNotify`, which
are outside the prover's reach.  Every safety property of a passing run is a
theorem, save that `ImplementsAtomic` is proved without its fairness.

Two limits of what is proved.  `DgramsWhole` speaks of at most one lost chunk in
the process's life, and not of one lost after a chunk went out before its
connection's reset: with two losses, the last chunk of one datagram and
the first of the next, and enough acknowledgements sent alone between them to
make the numbers wrap, pieces of two datagrams are joined (TLC shows it with
`MaxFaults` 2 once `Detectable` admits two losses).  `AnswersRepeat` speaks of
names that fit into `dpos` and have neither a zero byte nor a dot in a label.

## Not modelled

* The NOMEM callback path of the allocator and `eth_mem_clone`: nothing calls
  them.  `dhcps_stop`, `dhcps_delete` and `kill_oldest_dhcps_pool`: nothing calls
  the first two, and the third waits for a list longer than the pool.
* Connection management beyond what reaches the library: which `BluetoothGatt`
  the reconnect threads of `MainActivity` use depends on Android's life cycle of
  a bound service and the order of its broadcasts, which this repository does not
  fix; a model would be one of Android.  The two hazards stay in the list.
* `input_queue_len` (`eth_mem.c:177`, a counter that only gates a notification
  nobody heeds), chains of pbufs in `NAT_Task`, the pbufs that `nat_accept_fn`
  drops with an old ring, and data that waits in `txbuf` (whether it moves depends
  on the remote server): listed as hazards.
* DHCP: addresses are numbers of one /24 network, so the code's comparison of
  them in network order agrees with that of the last octet; a failed `mem_malloc`
  for a node (`dhcp_server.c:929`), which is not tested; the last fraction of a
  tick by which a client's and the server's clocks differ.  Leases of a former
  process are outside `NoAddressConflict`.  `INFORM` and `DECLINE` from an unknown
  client reserve an entry, and `DECLINE` does not give one up, as in the code.
* DNS: the result of `getaddrinfo` is never freed; a label that contains a dot is
  encoded as two; names longer than `dpos` can count, which the code accepts, are
  outside `AnswersRepeat`.  lwIP calls of the thread without the core lock
  (`dnsproxy.c:228`) reach into lwIP, which is external.
* Topology and raw Ethernet: not started by the program.  lwIP: third-party, and
  most of the lines under `src/app/src/main/cpp`.  User interface, settings,
  statistics: no effect on the bridge.
* Threads that are started before their notification handle is initialised
  (`ble_tcp.c:182`, `eth_router_if_lwip.c:137`, `lwip/dnsproxy.c:252`): the
  models start after initialisation.

## Plan

Done, in this order: `EthMem` and its proofs, `LossyFifo`, `TNotify`, `LwipIf`,
`BleTx`, `BleAsm`, `BlePath`, `Nat`, `Dhcp` with `DhcpList`, `DnsProxy`, and the
proofs listed above.

What could follow: a composition of `EthMem` with the grain of `LwipIf` and
`BleTx`, showing that both drivers implement the driver actions of `EthMem`;
`Topology`, if it is switched on again.
