--------------------------- MODULE InterfaceQueue ---------------------------
(***************************************************************************)
(* The packets of one node and the places through which they pass: the     *)
(* packet pool (Packet::alloc and free), the agent's send buffer, the      *)
(* event queue in which a packet waits between the agent and the interface *)
(* queue, the interface queue (class PriQueue) and the link layer below.   *)
(* The lists are threaded through one field of the packet, next_, so a     *)
(* packet in two of them would corrupt both.                               *)
(*                                                                         *)
(* What the agent sends, and when a route comes up or is lost, is any      *)
(* choice; the order in which the event queue releases packets is any      *)
(* order, as the agent delays broadcasts by jitter.  When the time of a    *)
(* packet in the send buffer is up is any choice as well, up to the order  *)
(* RQueue shows: the aged packets are the first ones.                      *)
(***************************************************************************)
EXTENDS Naturals, Sequences, SequencesExt, FiniteSetsExt

CONSTANTS
    Packet,         \* the packets ever allocated
    Neighbor,       \* the addresses of neighbors
    Zero,           \* the neighbor whose address is 0
    Dest,           \* the destinations of data
    Limit,          \* qlim_, the length of the interface queue
    BufferLimit,    \* EAMRP_RTQ_MAX_LEN
    MaxSalvage,     \* EAMRP_MAX_SALVAGE_COUNT
    MaxPurged,      \* bound: packets that purge() forgets
    NULL            \* no packet

ASSUME ZeroAssumption == Zero \in Neighbor
ASSUME LimitAssumption ==
    /\ Limit \in Nat \ {0} /\ BufferLimit \in Nat \ {0} /\ MaxSalvage \in Nat
    /\ MaxPurged \in Nat
ASSUME NullAssumption == NULL \notin Packet

VARIABLES
    hdr,        \* hdr[p]: type, destination, next hop and salvage count
    free,       \* the pool of free packets
    buf,        \* the send buffer
    sched,      \* packets on their way to the interface queue
    ifq,        \* the interface queue
    mac,        \* the packet the link layer is sending; the queue is blocked
    purged      \* packets that purge() took from the send buffer

vars == <<hdr, free, buf, sched, ifq, mac, purged>>

NoHop == "none"   \* next_hop_ = -2, as Packet::alloc sets it

NoDest == "none"  \* routing packets are not salvaged: their destination
                  \* does not matter

Header(type, dst, hop) ==
    [type |-> type, dst |-> dst, hop |-> hop, salvaged |-> 0]
Blank == Header("none", NoDest, NoHop)

(* The routing packets, which Prefer_Routing_Protocols puts first: replies *)
(* to one neighbor; requests and beacons, which keep the next hop of a new *)
(* packet; errors, which are broadcast as well but have the next hop 0.    *)
ControlHeaders ==
    {Header("RREP", NoDest, h) : h \in Neighbor}
        \cup {Header("RREQ", NoDest, NoHop), Header("RERR", NoDest, Zero)}

Control(p) == hdr[p].type \in {"RREP", "RREQ", "RERR"}
Data(p) == hdr[p].type = "data"

Init ==
    /\ hdr = [p \in Packet |-> Blank]
    /\ free = Packet
    /\ buf = << >>
    /\ sched = {}
    /\ ifq = << >>
    /\ mac = NULL
    /\ purged = {}

(* Packet::free: the packets of S return to the pool, their headers are    *)
(* cleared.                                                                *)
Freed(S, headers) ==
    /\ free' = free \cup S
    /\ hdr' = [p \in Packet |-> IF p \in S THEN Blank ELSE headers[p]]

---------------------------------------------------------------------------
(* The agent. *)

(* sendRequest, sendReply, sendError and sendHello. *)
SendControl ==
    \E p \in free, h \in ControlHeaders :
        /\ free' = free \ {p}
        /\ hdr' = [hdr EXCEPT ![p] = h]
        /\ sched' = sched \cup {p}
        /\ UNCHANGED <<buf, ifq, mac, purged>>

(* rt_resolve and forward, for a packet with a route.  One that is relayed *)
(* brings the count of its salvages along.                                 *)
ForwardData ==
    \E p \in free, d \in Dest, h \in Neighbor, k \in 0 .. MaxSalvage :
        /\ free' = free \ {p}
        /\ hdr' = [hdr EXCEPT ![p] = [Header("data", d, h) EXCEPT !.salvaged = k]]
        /\ sched' = sched \cup {p}
        /\ UNCHANGED <<buf, ifq, mac, purged>>

(* The packets of q at the positions of I, in their order: the k-th of     *)
(* them is at the position with k positions of I up to it.                 *)
At(q, I) ==
    [k \in 1 .. Cardinality(I) |->
        q[CHOOSE i \in I : Cardinality({j \in I : j <= i}) = k]]

(* The positions of the send buffer after the first k. *)
After(k) == k + 1 .. Len(buf)

(* eamrp_rqueue::purge, with which enque and deque begin: the first k      *)
(* packets, whose time is up, are unlinked and neither dropped nor freed.  *)
Purge(k) ==
    /\ Cardinality(purged) + k <= MaxPurged
    /\ purged' = purged \cup {buf[i] : i \in 1 .. k}

(* rt_resolve for one without: eamrp_rqueue::enque makes room at the head. *)
BufferData ==
    \E p \in free, d \in Dest, k \in 0 .. Len(buf) :
        LET kept == At(buf, After(k))
            full == Len(kept) = BufferLimit
            out == IF full THEN {Head(kept)} ELSE {}
        IN  /\ Purge(k)
            /\ free' = (free \ {p}) \cup out
            /\ hdr' = [x \in Packet |-> IF x = p THEN Header("data", d, NoHop)
                                        ELSE IF x \in out THEN Blank
                                        ELSE hdr[x]]
            /\ buf' = Append(IF full THEN Tail(kept) ELSE kept, p)
            /\ UNCHANGED <<sched, ifq, mac>>

(* deque(d), called until it returns nothing: where the packets for d are. *)
Waiting(d, k) == {i \in After(k) : hdr[buf[i]].dst = d}

(* A route to d comes up (recvRequest, recvReply): what waits for it is    *)
(* forwarded at once, with the next hop of this moment.                    *)
FlushBuffer(d) ==
    \E h \in Neighbor, k \in 0 .. Len(buf) :
        LET out == {buf[i] : i \in Waiting(d, k)}
        IN  /\ Purge(k)
            /\ hdr' = [p \in Packet |-> IF p \in out THEN [hdr[p] EXCEPT !.hop = h]
                                        ELSE hdr[p]]
            /\ sched' = sched \cup out
            /\ buf' = At(buf, After(k) \ Waiting(d, k))
            /\ UNCHANGED <<free, ifq, mac>>

(* sendRequest for d gives up, or rt_purge finds the route to d expired. *)
DropBuffer(d) ==
    \E k \in 0 .. Len(buf) :
        /\ Purge(k)
        /\ Freed({buf[i] : i \in Waiting(d, k)}, hdr)
        /\ buf' = At(buf, After(k) \ Waiting(d, k))
        /\ UNCHANGED <<sched, ifq, mac>>

(* Variant: the packet stays in the queue. *)
FilterCopies(q, id) == [out |-> {p \in Range(q) : hdr[p].hop = id}, left |-> q]

(* PriQueue::filter(id), called until it returns nothing. *)
filter(q, id) ==
    [out |-> {p \in Range(q) : hdr[p].hop = id},
     left |-> At(q, {i \in DOMAIN q : hdr[q[i]].hop # id})]

(* The next hops to the destinations once the paths through id are gone:   *)
(* NoHop where the route is down.                                          *)
Routes(id) == [Dest -> (Neighbor \ {id}) \cup {NoHop}]

(* The headers after data of S is forwarded again. *)
Salvaged(S, route) ==
    [p \in Packet |->
        IF p \in S
        THEN [hdr[p] EXCEPT !.hop = route[hdr[p].dst], !.salvaged = @ + 1]
        ELSE hdr[p]]

(* Variant: salvages are counted but not limited. *)
SalvageForEver(id) ==
    \E route \in Routes(id) :
        LET f == filter(ifq, id)
            saved == {p \in f.out : Data(p) /\ route[hdr[p].dst] # NoHop}
        IN  /\ Freed(f.out \ saved, Salvaged(saved, route))
            /\ sched' = sched \cup saved
            /\ ifq' = f.left
            /\ UNCHANGED <<buf, mac, purged>>

(* nb_delete: what is queued for neighbor id is taken out.  Data whose     *)
(* destination has another path is salvaged a bounded number of times; the *)
(* rest is dropped.                                                        *)
NbDelete(id) ==
    \E route \in Routes(id) :
        LET f == filter(ifq, id)
            saved == {p \in f.out : /\ Data(p)
                                    /\ route[hdr[p].dst] # NoHop
                                    /\ hdr[p].salvaged < MaxSalvage}
        IN  /\ Freed(f.out \ saved, Salvaged(saved, route))
            /\ sched' = sched \cup saved
            /\ ifq' = f.left
            /\ UNCHANGED <<buf, mac, purged>>

---------------------------------------------------------------------------
(* The interface queue. *)

(* If the link layer is idle the head of q is handed down. *)
Start(q) ==
    IF mac = NULL /\ q # << >>
    THEN mac' = Head(q) /\ ifq' = Tail(q)
    ELSE mac' = mac /\ ifq' = q

(* Variant: a full queue drops its head to make room. *)
HighPriorityDropsHead(p) ==
    IF Len(ifq) + 1 >= Limit
    THEN IF ifq = << >> THEN [q |-> << >>, out |-> {p}]
         ELSE [q |-> <<p>> \o Tail(ifq), out |-> {Head(ifq)}]
    ELSE [q |-> <<p>> \o ifq, out |-> {}]

(* recvHighPriority: p goes to the head, and the last packet of a full     *)
(* queue is dropped.                                                       *)
HighPriority(p) ==
    LET q == <<p>> \o ifq
    IN  IF Len(q) >= Limit THEN [q |-> Front(q), out |-> {Last(q)}]
                           ELSE [q |-> q, out |-> {}]

(* DropTail::enque: p goes to the tail unless the queue is full. *)
LowPriority(p) ==
    IF Len(ifq) + 1 >= Limit THEN [q |-> ifq, out |-> {p}]
                             ELSE [q |-> Append(ifq, p), out |-> {}]

(* Variant: routing packets are not preferred. *)
EnterByArrival(p) ==
    LET r == LowPriority(p)
    IN  /\ p \in sched
        /\ sched' = sched \ {p}
        /\ Freed(r.out, hdr)
        /\ Start(r.q)
        /\ UNCHANGED <<buf, purged>>

(* PriQueue::recv *)
Enter(p) ==
    LET r == IF Control(p) THEN HighPriority(p) ELSE LowPriority(p)
    IN  /\ p \in sched
        /\ sched' = sched \ {p}
        /\ Freed(r.out, hdr)
        /\ Start(r.q)
        /\ UNCHANGED <<buf, purged>>

(* Variant: the queue is unblocked, and waits for the next arrival. *)
ResumeUnblocks ==
    /\ mac # NULL
    /\ Freed({mac}, hdr)
    /\ mac' = NULL
    /\ UNCHANGED <<buf, sched, ifq, purged>>

(* The link layer has sent its packet or given it up (rt_ll_failed) and    *)
(* calls Queue::resume.                                                    *)
Resume ==
    /\ mac # NULL
    /\ Freed({mac}, hdr)
    /\ mac' = IF ifq = << >> THEN NULL ELSE Head(ifq)
    /\ ifq' = IF ifq = << >> THEN ifq ELSE Tail(ifq)
    /\ UNCHANGED <<buf, sched, purged>>

(* PriQueue::Terminate: the queue is reset. *)
Terminate ==
    /\ ifq # << >>
    /\ Freed(Range(ifq), hdr)
    /\ ifq' = << >>
    /\ UNCHANGED <<buf, sched, mac, purged>>

Next ==
    \/ SendControl
    \/ ForwardData
    \/ BufferData
    \/ \E d \in Dest : FlushBuffer(d) \/ DropBuffer(d)
    \/ \E id \in Neighbor : NbDelete(id)
    \/ \E p \in Packet : Enter(p)
    \/ Resume
    \/ Terminate

(* The scheduler fires every event and the link layer finishes each packet.*)
Spec == Init /\ [][Next]_vars /\ WF_vars(Resume) /\ \A p \in Packet : WF_vars(Enter(p))

---------------------------------------------------------------------------
(* Every variable holds a value of its type. *)
TypeOK ==
    /\ hdr \in [Packet -> [type : {"data"}, dst : Dest, hop : Neighbor \cup {NoHop},
                           salvaged : 0 .. MaxSalvage]
                    \cup [type : {"none", "RREP", "RREQ", "RERR"}, dst : {NoDest},
                          hop : Neighbor \cup {NoHop}, salvaged : {0}]]
    /\ free \subseteq Packet
    /\ buf \in Seq(Packet) /\ Len(buf) <= BufferLimit
    /\ sched \subseteq Packet
    /\ ifq \in Seq(Packet)
    /\ mac \in Packet \cup {NULL}
    /\ purged \subseteq Packet

(* How often p is found in the lists. *)
Occurrences(p) ==
    Quantify(DOMAIN buf, LAMBDA i : buf[i] = p)
        + Quantify(DOMAIN ifq, LAMBDA i : ifq[i] = p)
        + Quantify(1 .. 3, LAMBDA i : p \in <<free, sched, {mac}>>[i])

(* Every packet is in exactly one place: a drop, a salvage, a flush or a   *)
(* reset neither loses a packet's memory nor leaves it in a list whose     *)
(* next_ field another list would overwrite (packet.h: "for queues and the *)
(* free list").  The one exception is purge(): what it takes from the send *)
(* buffer (eamrp_rqueue.cc:204-232) is in no list and never comes back.    *)
OneOwner ==
    \A p \in Packet : Occurrences(p) = IF p \in purged THEN 0 ELSE 1

(* Packets wait only while the link layer is busy, and one slot of the     *)
(* limit always stays empty: an arrival never finds the queue stuck.       *)
WorkConserving == Len(ifq) < Limit /\ (ifq # << >> => mac # NULL)

(* No data waits in front of a routing packet, also when data that was     *)
(* queued is salvaged and queued again.                                    *)
ControlFirst ==
    \A i, j \in DOMAIN ifq : i < j /\ Control(ifq[j]) => Control(ifq[i])

(* A full queue sacrifices data before routing packets. *)
DataYields ==
    [][(\E p \in Packet : Enter(p)) =>
          \A p \in free' \ free :
              Control(p) => \A i \in DOMAIN ifq : Control(ifq[i])]_vars

(* Only the loss of the neighbor it is addressed to takes a packet out of  *)
(* the queue: errors, which are "broadcast to upstream neighbors"          *)
(* (eamrp.cc:535-536), have none.                                          *)
BroadcastStays ==
    [][(\E id \in Neighbor : NbDelete(id)) =>
          \A p \in Range(ifq) \ Range(ifq') : hdr[p].type # "RERR"]_vars

(* Routing packets overtake everything, the ones queued before them too.   *)
(* Once no more of them arrive, every queued packet leaves the queue.      *)
QueueDrains ==
    <>[](\A p \in sched : ~ Control(p)) =>
        \A p \in Packet : p \in Range(ifq) ~> p \notin Range(ifq)
=============================================================================
