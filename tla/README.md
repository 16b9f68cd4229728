# EAMRP: a verification development

EAMRP is a multipath, on-demand routing protocol for mobile ad hoc networks,
written as a routing agent of the ns-2 simulator (`src/EAMRP/eamrp/`, C++). It
is AOMDV with another name: a node that lacks a route floods a request, answers
come back along the reverse routes that the flood has set up, nodes keep several
node-disjoint paths for a destination, and lost routes are reported by errors.
The TLA+ modules of this directory model the agent and its data structures, TLC
checks them on small networks, and TLAPS proves their safety properties and
refinements for every network, packet set and time-out.

Line numbers refer to `src/EAMRP/`.

## 1. Inventory

### Components

| Component | Source | State | Operations |
|---|---|---|---|
| Routing table entry, path list | `eamrp/eamrp_rtable.{h,cc}` | per destination: flags, sequence number, advertised hop count, list of paths, highest number heard in an error, error flag, request state | insert, look up, delete, purge a path; minimum and maximum hop count; add and find entries |
| Routing agent | `eamrp/eamrp.{h,cc}` | own sequence number and broadcast identifier; routing table; caches below | `recv`, `rt_resolve`, `recvRequest`, `recvReply`, `recvError`, `recvHello`, `forward`, `sendRequest`, `sendReply`, `sendError`, `sendHello`, `rt_purge`, `id_purge`, `nb_purge`, `nb_delete`, `handle_link_failure`, `rt_down` |
| Rate limiter and expanding ring | `sendRequest`, `rt_purge` | per entry: request count, last TTL, time before which no request is sent | ask, hold back, give up |
| Send buffer | `eamrp/eamrp_rqueue.{h,cc}` | linked list of packets with deadlines | `enque`, `deque`, `deque(dst)`, `find`, `purge` |
| Neighbor cache | `nb_insert`, `nb_lookup`, `nb_delete`, `nb_purge` | neighbors with the time at which they count as lost | see left |
| Broadcast identifier cache | `id_insert`, `id_get`, `id_purge` | requests seen, each with a count of the replies sent for it | see left |
| Interface priority queue | `queue/priqueue.cc` | packets that wait for the link layer, whether it is busy | `recv`, `recvHighPriority`, `filter`, `Terminate` |
| Packet pool | `common/packet.h` | free list, headers | `alloc`, `free` |
| Traces, Tcl library, scenarios, scripts | `cmu-trace.cc`, `tcl/`, `eamrptcl/`, ... | - | simulator infrastructure |

### Interactions

An agent is driven by the event scheduler of the simulator: `recv` for every
packet that arrives or that the application sends, and a handler for each of its
timers (broadcast identifiers, hello, neighbors, route cache). Handlers run to
completion. Agents share nothing; they exchange packets that may be delayed by
the interface queue, jittered by random delays when they are sent, or lost.
The agent calls its send buffer when a route is missing and empties it when a
route comes up; `nb_delete` reaches into the interface queue and takes out what
waits for a lost neighbor.

### What is hard

* **Interleavings of copies.** A flood reaches a node by several ways; each copy
  may add an alternate path, long after the first one was propagated. The field
  that is to keep such paths from leading back, the advertised hop count, is
  never fixed in the program as it is built (section 2): sequence numbers alone
  keep packets from going in circles.
* **Old messages.** Requests, replies and errors that are delayed meet tables
  that have moved on: assertions of the code abort the simulator when they do
  not fit.
* **Numbers nodes invent.** A node that loses a route raises the sequence number
  of somebody else; the code separates the two kinds by parity.
* **Buffered packets.** Three handlers may bring a route up, and each has to
  empty the buffer.
* **Retries.** Rate limiting, counters that start over, long pauses and a timer
  decide together if a waiting packet is ever settled.
* **Hand-written lists.** The send buffer is threaded through the packets, with a
  tail pointer and a length of its own. The pool and the interface queue use the
  same field of the packet, and packets change lists in the middle of a traversal.
* **Deadlines against jitter.** Neighbors and paths live on borrowed time that
  beacons, requests and data renew; two timers with periods of their own enforce
  the deadlines.

### What makes each part correct

* *Entries:* up means an even number and at least one path; down means no path
  and an odd number (or an entry never used). Information is never replaced by
  older information. Paths are disjoint.
* *Agents together:* next hops are never older; nothing closes a forwarding loop
  but the fall back to an alternate path; assertions never fail; nobody gets
  ahead of a destination's own numbering by more than one; discoveries end; data
  leaves.
* *Send buffer:* a bounded first-in first-out queue with deadlines; never loses
  a packet except where it says so.
* *Rate limiter:* whoever waits stops waiting, before the buffer's deadline, and
  the network is flooded a bounded number of times.
* *Neighbor cache:* who is heard is kept, who is silent is forgotten, in time.
* *Interface queue and pool:* every packet has exactly one owner, but for those
  that the send buffer's `purge` forgets; routing packets go first and data is
  sacrificed first; the queue is never stuck.

## 2. Which build is modelled

`eamrp.h` defines `EAMRP_PACKET_SALVAGING`, `EAMRP_NODE_DISJOINT_PATHS`,
`EAMRP_EXPANDING_RING_SEARCH` and `EAMRP_LOCAL_REPAIR`. It does not define
`EAMRP_LINK_LAYER_DETECTION` nor `EAMRP_LINK_DISJOINT_PATHS`: `rt_ll_failed`
only drops its packet, local repair and `forwardReply` are never reached.

**INFINITY.** `eamrp.h:96` comments out `#define INFINITY 0xff`, so the word is
the one of `math.h`, a float. Storing it in the 16 bits of `rt_advertised_hops`
is undefined; g++ stores 65535, and the comparison `rt_advertised_hops ==
INFINITY` (`eamrp.cc:887, 964, 1124`) is never true. The modules describe this
program: `Infinity` is the number that is stored (65535 in the runs, any number of
16 bits in the proofs), and `IsINFINITY`, the comparison, is false. In consequence
the advertised hop count of an entry never changes, every relay announces its low
eight bits, 255, every path over a relay counts 256 hops, and every copy with the
number of an entry passes the test for a "better hop count". The program that the
commented-out line would make is not modelled.

## 3. Modules

| Module | Models | Lines of the code |
|---|---|---|
| `EamrpRtEntry` | one routing table entry and its paths, as operators | `eamrp_rtable.cc`, and the entry-local parts of `recvRequest`, `recvReply`, `recvError`, `handle_link_failure`, `rt_purge` |
| `EamrpRouting` | all agents, and the messages between them; extends `EamrpRtEntry` | `eamrp.cc` |
| `MCEamrpRouting` | networks for TLC | - |
| `EamrpRoutingProofs` | types, parity and buffered packets of `EamrpRouting` | - |
| `EamrpStepProofs` | what one step of any handler can do; numbers and disjoint paths | - |
| `EamrpRulesProofs` | the agents follow `RouteRules`; next hops, loops, assertions | - |
| `RouteRules` | the rules by which numbers and paths change, without messages or timers: what an agent promises | - |
| `RouteRulesProofs` | what the rules guarantee in every network | - |
| `RQueueSpec` | what the send buffer promises | - |
| `RQueue`, `MCRQueue` | the send buffer as it is coded | `eamrp_rqueue.cc` |
| `RQueueProofs` | the pointers form a list that implements `RQueueSpec` | - |
| `RouteRequest` | one entry's request state in real time | `sendRequest`, `rt_purge` |
| `RouteRequestProofs` | searches and waiting are bounded | - |
| `NeighborCache` | one neighbor, its beacons and the direct path to it in real time | timers, `recvHello`, `nb_*`, `path_purge` |
| `NeighborCacheProofs` | deadlines are kept, no false alarms | - |
| `InterfaceQueue`, `MCInterfaceQueue` | the packets of one node: pool, send buffer, event queue, interface queue, link layer | `priqueue.cc`, `packet.h`, `nb_delete`, `forward` |
| `InterfaceQueueProofs` | one owner of every packet, routing packets first | - |

`EamrpRouting` refines `RouteRules` (`ImplementsRules`), `RQueue` refines
`RQueueSpec` (`ImplementsQueue`); both are checked and proved. `InterfaceQueue`
composes the interface queue with the pool, the send buffer and the parts of the
agent that put packets in and, in `nb_delete`, take them out.

Operators marked *Variant* in the modules are deliberately wrong forms of the
operator that follows them (a dropped guard, an off-by-one, a missing reset).
They are not used by the specifications; `PROJECT.json` pairs each with the
property that fails when it takes the place of the right one.

### EamrpRouting: state and actions

| Variable | In the code |
|---|---|
| `rt[n][d]` | the `eamrp_rt_entry` for `d` in `n`'s table; an entry that does not exist is `NewEntry`, as `rt_add` would make it |
| `seqno[n]`, `bid[n]` | `EAMRP::seqno`, `EAMRP::bid` |
| `bcache[n]`, `replied[n]` | `bihead`; the identifiers whose `count` is set |
| `nb[n]` | `nbhead` |
| `buf[n]` | destinations with packets in `rqueue` |
| `msgs` | packets in the interface queues and on the air, one record for each receiver |

| Action | Handler |
|---|---|
| `AppSend` | `recv` and `rt_resolve` for the node's own packet, with `sendRequest` |
| `Retry`, `GiveUp` | `rt_purge` for an entry that is down, with `sendRequest` |
| `RecvOwnRequest` ... `ForwardRequest` | the ways through `recvRequest` |
| `DiscardReply`, `KeepReply`, `ForwardReply` | the ways through `recvReply` |
| `SendHello`, `RecvHello` | hello timer, `recvHello` followed by `recvReply` |
| `RecvError` | `recvError` for all destinations it lists, and the error it sends on |
| `NbDelete` | `nb_purge` for one neighbor: `nb_delete`, `handle_link_failure`, salvaging |
| `RtPurge`, `IdPurge` | `rt_purge` for an entry that is up, `id_purge` |
| `RecvData` | `recv`, `rt_resolve`, `forward` for a packet of another node |
| `Lose` | a packet lost on the air, dropped from a full queue, out of hops, or dropped by `rt_ll_failed` |

Abstractions, each of which allows more behaviours than the code:

* Time is gone: a path, an identifier or a neighbor may expire whenever it
  exists, the rate limiter may hold any request back, and it may give up at any
  time. `MaxTimers` bounds the number of such events. `RouteRequest` has the
  timing of requests.
* A broadcast is one message for each node that may hear it; copies are received
  in any order. `Link` says who may ever hear whom, so mobility is a matter of
  messages lost and neighbors expired.
* `rt_purge` visits every entry of a table in one go. Entries do not depend on
  each other there, so each expired path is a step of its own; likewise
  `nb_purge` and several neighbors.
* The list of unreachable destinations in an error is a set, without the limit
  of a hundred.
* The send buffer is the set of destinations that have packets in it. Its order,
  limit and deadlines are in `RQueue`; `RouteRequest` shows that deadlines are
  not met by waiting packets.
* Assertions on `rt_hops` are left out: nothing ever assigns the field.
* A packet may be salvaged any number of times, or dropped instead (`S` of
  `NbDelete`). The count of salvages is in `InterfaceQueue`.
* All application packets are of a type `DATA_PACKET` knows, as the CBR traffic
  of the scenarios is: others would never be salvaged nor set `rt_error`.

Kept as they are: the parity rules, the 16-bit and 8-bit hop count fields, the
order in which paths are inserted and searched, which path is used (the first),
when the error flag is set, and every early return.

### RouteRules: the abstraction

A node has for each destination a number and a list of paths, each with its next
hop and length. In one step one node changes any of its routes, each by a rule: it
may lose a path but not the last one (`Keep`); a newer announcement replaces
everything (`Adopt`); one with the same number adds a path behind the others
(`Extend`); giving a destination up raises the number (`GiveUp`). A fifth rule is
about what is announced (`Truthful`): a destination announces itself with a number
it has issued and no hops, any other node the number of its route and the hop count
`Relayed`, while it has a path. In the refinement the announcements are the requests
(about their source), replies and beacons in flight, and `Relayed` is the byte of
`Infinity`. `nb_delete` and `recvError` change many entries in one step.

### NeighborCache: state and actions

`nb` and `path` are the cache entry and the direct path with the time each has
left (`nb_expire`, `expire`), `other` says whether the entry for the neighbor has
paths through other nodes, `hello` is the time until the neighbor's hello timer
fires, `phase` and `due` the two timers of the agent; `number` relates the
entry's sequence number to the neighbor's own: older, the same, or one ahead.
`HelloTimer` is a beacon sent and heard, or missed; `NeighborTimer` is `nb_purge`
with `nb_delete` and `handle_link_failure`; `RouteCacheTimer` is `rt_purge`;
`Forward` a packet sent along the path; `Renumber` a request of the neighbor or
a change among its neighbors; `RecvRequest` a late copy of its request and
`RecvReply` its answer to one. `HeardElsewhere` is a request or reply about the
neighbor that comes through a third node: a newer number deletes all paths, the
direct one included. `OtherLost` is the loss of the paths through third nodes,
`Move` and `Activity` are the environment. The unit is a quarter of a second, in
which every constant involved is a whole number; what is due at the same moment
happens in any order.

### InterfaceQueue: state and actions

`free`, `buf`, `sched`, `ifq` and `mac` are the places a packet may be in:
`Packet::free_`, `rqueue`, the scheduler's events, `PriQueue`, the link layer
(`blocked_` is `mac # NULL`). `hdr` has the type, the destination of data,
`next_hop_` and `eamrp_salvage_count_`. `SendControl`, `ForwardData`, `BufferData`,
`FlushBuffer`, `DropBuffer` and `NbDelete` are what the agent does with packets,
`Enter` is `PriQueue::recv` with `recvHighPriority`, `Resume` the link layer's
callback, `Terminate` the reset. Flushes and drops take the packets for one
destination and leave the others in their order; `NbDelete` looks up a route for
each packet it takes out. Whatever touches the send buffer purges it first
(`Purge`): any number of packets at its head may have aged, `RQueue` having shown
that the aged ones are the first. `purge` unlinks them and does nothing else, so
they are in no list for ever (`purged`); `MaxPurged` bounds their number. The
contents of routing packets do not matter here; the DropTail queue below `PriQueue`
is external and is modelled by what `PriQueue` expects of it.

## 4. Runs

Bounds are in the `.cfg` files. Deadlock is not looked for where the bounds end
every behaviour.

| Run | Network and bounds | Shows |
|---|---|---|
| `routing_line` | s-a-d with losses; 2 packets, 2 requests, 2 timer events | types; `RouteState`, `AnnouncedParity`, `NoStrandedPacket`, `NeverAheadOfDestination`, `AssertionsHold`; `AdvertisementStable`, `ImplementsRules`. A second discovery after a loss is needed for stale messages to meet new numbers: hence the two of everything on a small network |
| `routing_ring` | a ring of five nodes with a short cut, floods heard in one direction (links that point away from the source: the broadcasts back collide, unicasts arrive), the destination out of reach, data from the source and from the far side; 1 request per node, 2 timer events | `LoopsOnlyByFallback`, `NextHopNotOlder`, `DisjointPaths`, and `RouteState`, `AssertionsHold` with several paths. A flood that nobody answers lets the nodes of the far side gather paths from both ways round, and two losses are what it takes for two nodes to fall back on each other: the loops the property allows are among the states. The timer events may also be a beacon and the loss of the neighbor it announced, which salvages data |
| `routing_live` | the diamond, discoveries in both directions, nothing lost | `DiscoveryCompletes`, `DataLeaves` under fairness; `ImplementsRules` where alternate paths are added |
| `routing_nearer` (fails) | a two-way ring of five with the destination beside its far side; 1 request, no timer event | `SmallerHopCount` is violated |
| `rqueue` | 4 packets, 2 destinations, limit 3, deadline 2, 5 moments | types, `verifyQueue`, `NothingCutOff`, `AgedAtHead`, `InTime`, refinement of `RQueueSpec`. Limit 3 gives a head, a middle and a tail, the fourth packet meets the full buffer |
| `route_request` | the code's constants in units of 20 ms; routes of 1 hop (to a neighbor) and of 256 (over a relay), the only lengths there are | `SettledBeforeTimeout`, and `WaitingEnds` under fairness. Ages are counted in runs of `rt_purge` (half a second), up to the 60 that make 30 seconds |
| `route_request_searches` (fails) | as `route_request` | `SearchesAsAllowed` is violated |
| `neighbor_cache` | one neighbor; silence is counted to 6 seconds, beyond the 5.5 in which a neighbor is deleted, missed beacons to 3 | `DeadlinesKept`, `SameNumberIsUp`, `NoFalseAlarm`; `SilentIsForgotten`, `DeadPathEnds` under fairness. Time itself is not bounded: deadlines are kept as time left |
| `neighbor_route` (fails) | the same | `BeaconAddsRoute` is violated |
| `interface_queue` | 4 packets, 2 destinations, 2 neighbors, one of them with address 0; limit 3 (two packets wait, a third is too many while the fourth is being sent), send buffer 2, 1 salvage, 2 packets purged | types (with the limit of salvages), `OneOwner`, `WorkConserving`, `ControlFirst`, `DataYields` |
| `interface_queue_live` | 3 packets, of which 1 is purged; two wait while the third is being sent | `QueueDrains` under fairness |
| `interface_queue_errors` (fails) | 4 packets, 1 purged | `BroadcastStays` is violated |

`interface_queue` declares packets and destinations symmetric, which its safety
properties allow. The other runs declare no symmetry: the nodes of a network have
different parts, and liveness does not admit it. Each run takes two minutes at most.

### Fairness

* `EamrpRouting!FairSpec`: weak fairness of receiving *some* message in flight
  and of every `Retry`. The scheduler dispatches every event it holds, and the
  route cache timer starts itself again in its handler. It is only used without
  losses and expirations (`MaxTimers = 0`): the protocol promises no discovery
  on a network that loses everything.
* `RouteRequest!Spec`: weak fairness of time and of the route cache timer. The
  application and the network are not assumed to do anything.
* `NeighborCache!Spec`: weak fairness of time and the timers together: the
  scheduler's clock goes on, and each timer starts itself again in its handler
  (`eamrp.cc:154-179`). The neighbor, the air and the traffic are free.
* `InterfaceQueue!Spec`: weak fairness of `Resume` (the link layer finishes or
  gives up each packet, and calls back) and of each packet's `Enter` (the
  scheduler fires every event). Nothing is assumed of the agent.

## 5. Findings

1. **The float INFINITY** (`routing_nearer`): the advertised hop count is never
   fixed, so paths of any length are accepted for a sequence number although the
   comment at `eamrp.cc:769-770` asks for a "better hop count". A node adds an
   alternate path through a neighbor that is not nearer; two neighbors may hold each
   other so, and forward to each other once both have lost their first path. That
   loops arise in no other way is `LoopsOnlyByFallback`.
2. **One search too many** (`route_request_searches`): `sendRequest` tests
   `rt_req_cnt` before the request that raises it (`eamrp.cc:1362`), so the network is
   searched `RREQ_RETRIES + 1` times before the long pause. The comments call
   `RREQ_RETRIES` "the maximum number we will allow" (`eamrp.cc:1358-1360`) and the
   "No. of times to do network-wide search" (`eamrp.h:67`).
3. **A beacon need not add a route** (`neighbor_route`): `recvHello` announces
   "Add a route to this neighbor" (`eamrp.cc:1603`), but once the path was lost
   the entry's number is one ahead of the neighbor's own, and its beacons are
   discarded by `recvReply` until the neighbor raises its number. The neighbor is
   in the cache meanwhile.
4. **Errors addressed to node 0** (`interface_queue_errors`): `sendError` gives its
   broadcast the next hop 0 (`eamrp.cc:1526`), so the loss of the neighbor 0 drops
   errors that wait in the interface queue, meant for other neighbors.

Smaller observations without a run of their own: `purge` of the send buffer
unlinks aged packets without dropping or freeing them (`eamrp_rqueue.cc:213`),
which is latent because the agent always settles a packet first
(`SettledBeforeTimeout`); the difference of path lengths is signed, so a much shorter
path is kept beside longer ones (`eamrp.cc:792-795`); `nb_purge` runs every
`HELLO_INTERVAL`, its comment says 1.5 times that (`eamrp.cc:1699-1700`); the first
request for a destination is not a ring of `TTL_START`, because a new entry has a last
hop count of 255, which overrides it (`eamrp.cc:1381-1384`).

## 6. Proofs

Every safety property that a passing run checks is also a theorem of the
specification, for all values of the constants that satisfy the assumptions named
below. The assumptions of the modules (`...Assumption`) are evaluated by TLC in
the runs; a theorem that needs more says so in its statement.

### Agents: types, parity, buffered packets (`EamrpRoutingProofs`)

For every set of nodes, every set of links and flows, all bounds, every number that
INFINITY may be stored as, and with or without losses:

| Theorem | States |
|---|---|
| `Invariance` | `Spec => []IInv` |
| `TypeCorrect` | `Spec => []TypeOK`, the widths of the hop counts included |
| `RouteStateHolds` | `Spec => []RouteState` |
| `AnnouncedParityHolds` | `Spec => []AnnouncedParity` |
| `NothingStranded` | `Spec => []NoStrandedPacket` |
| `AdvertisementsAreStable` | `Spec => AdvertisementStable` |

None of these is inductive alone. That an entry is even when up depends on the
numbers in the messages that bring it up; that errors carry odd numbers depends on
the entries that were taken down; both depend on `rt_highest_seqno_heard`, into
which errors are merged. `IInv` therefore says the same thing of everything that
holds a number: `Issued` numbers (even, at least 2) in own counters, in routes that
are up and in requests, replies and beacons; `Lost` numbers (odd, or 0) in entries
that are down, in the highest number heard and in errors. `GoodEntry` and `GoodMsg`
are the sets of entries and messages that obey this and their types. One lemma for
each operator of `EamrpRtEntry` shows that it leads from good entries to good
entries and that the result `Succeeds` the argument; one for each kind of message
shows that handlers build good messages; one for each action shows that it
preserves `IInv` and that every entry is succeeded by its new value, which yields
the action property with the same induction.

### Agents: one step (`EamrpStepProofs`)

| Theorem | States |
|---|---|
| `NeverAhead` | `Spec => []NeverAheadOfDestination` |
| `PathsDisjoint` | `Spec => []DisjointPaths` |

Both hold under the same assumptions. The module sums up what a step of any handler
can do, so that the properties that follow need not go through the handlers again:
`StepEffects` says that each entry stays, loses paths, goes down or learns from one
announcement that was received, and that each message sent announces an entry or a
number of the sender's own; `OneNodeActs`, that one node at most changes its table.
Numbers stay
behind their destination (`NumbersBehind`) because a node adds at most one to a
number that is in use, and a request carries such a number home before the
destination answers with a newer one. That paths stay disjoint is a fact about the
operators on path lists (`RemoveAtDisjoint`, `AppendDisjoint`), whatever is removed.

### The rules (`RouteRulesProofs`)

For every set of nodes and every hop count that relays announce:

| Theorem | States |
|---|---|
| `RulesNotOlder` | `Spec => []NotOlder`: next hops know the destination at least as recently |
| `RulesLoopsOnlyByFallback` | no step closes a forwarding loop unless a node falls back to an alternate path |
| `RulesNoLoop` | a behaviour in which nobody falls back has no forwarding loop |

The invariant is that next hops are not older (`NotOlder`) and that the sender of an
announcement in flight is not older than it (`NewsOK`), which is what makes the
former inductive when news arrive late; numbers only grow (`NumbersGrow`).

A loop is a set of nodes that forward among each other only (`Closed`). What one
step can do to such a set is the argument of `LoopStep`. One node acts. If its first
path stays, or is lost with the last, no set becomes closed. If it takes up a newer
number through a member of a set that is then closed, consider the members at least
as fresh as that number: the sender is one (`NewsOK`), the node itself was not, and
their next hops are as fresh as they are, hence members too (`FreshClosed`). They were a closed
set before the step. What is left is a node that loses its first path and keeps
another: the fall back.

### Agents: rules, loops and assertions (`EamrpRulesProofs`)

| Theorem | States |
|---|---|
| `AssertionsNeverFail` | `Spec => []AssertionsHold` |
| `Refines` | `Spec => ImplementsRules` |
| `NextHopsNotOlder` | `Spec => []NextHopNotOlder` |
| `LoopsNeedFallback` | `Spec => LoopsOnlyByFallback` |
| `NoFallbackNoLoop` | without a fall back, `[]NoForwardingLoop` |

None of them assumes anything of the network or of its size. `NothingFixed` is the
invariant that the comparison with INFINITY entails: the advertised hop count of an
entry that was ever used is `Infinity`, every relay announces its low byte, and all
paths to a destination over a relay have the same length. It gives the assertions on
hop counts directly, and, with the parity of the numbers, those on entries that must
be up. Each step follows the rules by `StepEffects`, `OneNodeActs` and
`NothingFixed` (`EntryFollowsRules`, `AnnouncesTruthfully`, `StepFollowsRules`); the
two properties about next hops and loops are those of the rules, read from the
tables of the agents (`NextHopsAre`, `LoopsAre`, `FallbacksAre`).

### Send buffer (`RQueueProofs`)

For every finite set of packets, every destination function, limit and time-out:

| Theorem | States |
|---|---|
| `Invariance` | `Spec => []IInv` |
| `TypeCorrect` | `Spec => []TypeOK` |
| `QueueVerified` | `Spec => []verifyQueue` |
| `NoneCutOff` | `Spec => []NothingCutOff` |
| `DeadlinesInOrder` | `Spec => []AgedAtHead` |
| `OutBeforeDeadline` | `Spec => InTime` |
| `Implements` | `Spec => ImplementsQueue` |

`Links(l, c)` says that the head, the tail, the length and the next fields of `l`
are those of a list of the packets `c`. The walk from the head then finds exactly
`c` (`ChainOfLinks`), `remove_head`, `Unlink` and `Link` turn it into the links of
`c` without a member or with one more (`RemoveHeadLinks`, `UnlinkLinks`,
`LinkLinks`), and `len_` turns of `purge` remove the aged packets (`PurgeLinks`).
The walk and the loop are recursive functions: their equations have a solution,
which is given, and a solution that differed from it would first differ somewhere
(`LeastMember`), where the equation says it does not.

The invariant has two parts that no property states: a packet is queued exactly if
it is linked, and no deadline is further away than the time-out. The second makes
the order of the deadlines inductive: a packet that enters has the latest one. The
order in turn makes `purge` a removal of the first packets, which is what `Live`
says in `RQueueSpec` (`AtRest`, `PurgingSeen`).

### Request timing (`RouteRequestProofs`)

For all lengths of routes, rates of packets and phases of the timer:

| Theorem | States | Assumes |
|---|---|---|
| `Invariance`, `TypeCorrect` | types; the counter never wraps | - |
| `SearchesAreBounded` | `Spec => [](req_cnt <= RREQ_RETRIES + 1)`: one search more than the comments allow | - |
| `Settled` | `Spec => []SettledBeforeTimeout` | `8 * (MaxWait + Frequency) + Frequency < RtqTimeout` |

The inequality is one between the code's constants and holds there by a factor of
two: 8 * (50 + 25) + 25 = 625 units of 20 ms, of 1500. The invariant is a measure:
the time waited, plus the cost of the rings and searches still to come (`Asks`),
plus what is left of the present wait (`Pending`), never exceeds what eight requests
can cost. A run of the timer moves time from the second or third part to the first;
a request pays for its wait with one unit of `Asks`.

### Neighbor cache (`NeighborCacheProofs`)

| Theorem | States | Assumes |
|---|---|---|
| `DeadlinesAreKept` | `Spec => []DeadlinesKept` | - |
| `SameNumberUp` | `Spec => []SameNumberIsUp` | - |
| `NeverAFalseAlarm` | `Spec => NoFalseAlarm` | `MaxMissed >= 2` |

`MaxMissed` is the bound up to which the model counts missed beacons; below 2 it
could not tell the case. The constants of the code are definitions here, so the
theorems are about them. The invariant relates each deadline to the phase of the
timer that enforces it (`DueInPhase`, `NeighborInTime`, `PathInTime`), the time left
to the silence (`HeardSince`), and, with the longest jittered interval, to the number
of beacons missed (`MissedSince`). `NumberTells` relates the numbers to the paths.
What `NeverAFalseAlarm` allows besides missed beacons is what the code does with a
newer number that comes through a third node; such a step leaves a path through it.

### Interface queue (`InterfaceQueueProofs`)

For every number of packets, destinations and neighbors and every limit:

| Theorem | States |
|---|---|
| `Invariance`, `TypeCorrect` | types, with the limits of the send buffer and of salvaging |
| `OnePlace` | `Spec => []OneOwner` |
| `QueueWorks` | `Spec => []WorkConserving` |
| `RoutingFirst` | `Spec => []ControlFirst` |
| `DataYieldsFirst` | `Spec => DataYields` |

`OneOwner` counts occurrences; the invariant says instead that the lists have no
repetition and that with the pool, the events, the link layer and the packets purged
they divide the packets (`OneList`). Order is kept because whatever a filter leaves is a
`Subsequence`, and a subsequence of an ordered queue is ordered
(`SubsequenceKeeps`); that a filter picks the positions in order is a counting
argument (`NthOfSet`).

### Only model-checked

Liveness: `DiscoveryCompletes` and `DataLeaves` of the agents, `WaitingEnds`,
`SilentIsForgotten`, `DeadPathEnds` and `QueueDrains`. Liveness under fairness is
outside of the prover's reach. The four properties that a run shows to be violated
have no proof.

## 7. Not modelled

* Local repair, link layer detection, the link-disjoint variant, `forwardReply`:
  not compiled in, or never reached.
* `PriQueue::filter(fn)`: nobody calls it. Reference counts, user data and packet
  type names of `packet.h`: the agent does not use them.
* The limit of a hundred destinations in an error (`eamrp.cc:414`), and the
  assertions on `rt_hops`, which nothing assigns (`eamrp.cc:509`): see the hazards
  in `PROJECT.json`.
* Trace formatting (`cmu-trace.cc`, `eamrp_logs.cc`): output that the protocol does
  not read.
* Tcl and awk files: configuration and evaluation.

## 8. Plan

Done, the most important behaviour first: entries and agents (`EamrpRtEntry`,
`EamrpRouting`) with the first theorems, the send buffer with its abstract
specification, request timing, the abstract rules of routing, the neighbor cache in real time, the interface queue with the
packet pool.

Proved since: every safety property the runs check, and both refinements.

To come:

1. Tighten what is assumed: `Settled` holds under an inequality between the
   constants that the code satisfies by a factor of two; the exact bound would say
   how far `EAMRP_RTQ_TIMEOUT` could be lowered.
2. A composition of `RQueue` and `RouteRequest`, which would turn "the agent always
   settles a packet before `purge` could lose it" into a property of one behaviour.
3. Forwarding loops by fall back: how long they last once they are closed, under
   the lifetimes of the paths that forwarding prolongs (`DeadPathEnds` says it for
   one neighbor).
