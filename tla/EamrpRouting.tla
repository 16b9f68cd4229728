---------------------------- MODULE EamrpRouting ----------------------------
(***************************************************************************)
(* The routing protocol of the EAMRP agents (class EAMRP): route discovery *)
(* by flooding requests, replies along reverse routes, alternate disjoint  *)
(* paths, hello beacons, route errors, and data packets handed from hop to *)
(* hop.  Every event handler of the agent is one atomic step, as it is in  *)
(* the single-threaded event loop of the simulator.                        *)
(*                                                                         *)
(* Time is abstracted: a path, a cached broadcast identifier or a neighbor *)
(* may expire at any moment, and the rate limiter of sendRequest may hold  *)
(* back any request.  A message in flight is one record per receiver; it   *)
(* is received at any later moment, in any order, or never.  A packet that *)
(* runs out of hops, is lost on the air or leaves a full interface queue   *)
(* is a lost message.                                                      *)
(***************************************************************************)
EXTENDS EamrpRtEntry

CONSTANTS
    Node,       \* the agents
    Link,       \* the pairs <<n, m>> such that m can hear n at some moment
    Flow,       \* the pairs <<s, d>> with application data from s to d
    MaxData,    \* bound: data packets the application sends per flow
    MaxBid,     \* bound: route requests a node originates
    MaxTimers,  \* bound: expirations and hello beacons in a behaviour
    Lossy       \* whether messages may be lost

ASSUME LinkAssumption == Link \subseteq {l \in Node \X Node : l[1] # l[2]}
ASSUME FlowAssumption == Flow \subseteq {f \in Node \X Node : f[1] # f[2]}
ASSUME BoundAssumption ==
    MaxData \in Nat /\ MaxBid \in Nat /\ MaxTimers \in Nat
ASSUME LossyAssumption == Lossy \in BOOLEAN

VARIABLES
    rt,         \* rt[n][d]: n's routing table entry for d
    seqno,      \* seqno[n]: n's own sequence number
    bid,        \* bid[n]: the broadcast identifier of n's next request
    bcache,     \* bcache[n]: the <<source, bid>> pairs n remembers
    replied,    \* replied[n]: those of them whose count is set
    nb,         \* nb[n]: n's neighbor list
    buf,        \* buf[n]: destinations with packets in n's send buffer
    msgs,       \* messages in flight
    app,        \* app[f]: data packets sent so far on flow f
    timers      \* timer-driven events so far

vars == <<rt, seqno, bid, bcache, replied, nb, buf, msgs, app, timers>>

---------------------------------------------------------------------------
(* Messages. *)

Neighbors(n) == {m \in Node : <<n, m>> \in Link}

RequestMsg(n, to, src, id, sseq, dst, dseq, hop, first) ==
    [type |-> "RREQ", from |-> n, to |-> to, src |-> src, bid |-> id,
     sseq |-> sseq, dst |-> dst, dseq |-> dseq, hop |-> hop, first |-> first]

ReplyMsg(n, to, ipdst, hop, dst, dseq, id, first) ==
    [type |-> "RREP", from |-> n, to |-> to, ipdst |-> ipdst, hop |-> hop,
     dst |-> dst, dseq |-> dseq, bid |-> id, first |-> first]

HelloMsg(n, to) ==
    [type |-> "HELLO", from |-> n, to |-> to, dst |-> n, dseq |-> seqno[n],
     hop |-> 0, first |-> to]

ErrorMsg(n, to, dests) ==
    [type |-> "RERR", from |-> n, to |-> to, dests |-> dests]

DataMsg(n, to, src, dst) ==
    [type |-> "DATA", from |-> n, to |-> to, src |-> src, dst |-> dst]

(* sendError broadcasts the list of unreachable destinations, if any. *)
sendError(n, dests) ==
    IF dests = {} THEN {} ELSE {ErrorMsg(n, to, dests) : to \in Neighbors(n)}

(* Variant: the packet is handed to the last hop of the path. *)
ForwardToLastHop(n, e, src, dst) ==
    DataMsg(n, path_find(e.paths).lasthop, src, dst)

(* forward hands a data packet to the first path of an entry that is up. *)
forward(n, e, src, dst) == DataMsg(n, path_find(e.paths).nexthop, src, dst)

(* The packets for d that leave n's send buffer when d's entry e is up. *)
Flushed(n, d, e) == IF d \in buf[n] THEN {forward(n, e, n, d)} ELSE {}

---------------------------------------------------------------------------
Init ==
    /\ rt = [n \in Node |-> [d \in Node |-> NewEntry]]
    /\ seqno = [n \in Node |-> 2]
    /\ bid = [n \in Node |-> 1]
    /\ bcache = [n \in Node |-> {}]
    /\ replied = [n \in Node |-> {}]
    /\ nb = [n \in Node |-> {}]
    /\ buf = [n \in Node |-> {}]
    /\ msgs = {}
    /\ app = [f \in Flow |-> 0]
    /\ timers = 0

Tick == timers < MaxTimers /\ timers' = timers + 1

---------------------------------------------------------------------------
(* Originating data and route requests. *)

(* sendRequest once the rate limiter lets the request through. *)
SendRequest(n, d) ==
    /\ bid[n] <= MaxBid
    /\ bid' = [bid EXCEPT ![n] = @ + 1]
    /\ seqno' = [seqno EXCEPT ![n] = @ + 2]
    /\ msgs' = msgs \cup
         {RequestMsg(n, to, n, bid[n], seqno[n] + 2, d, rt[n][d].seqno, 0, to)
            : to \in Neighbors(n)}

(* rt_resolve for a packet of n's own application: forward it, or buffer   *)
(* it and ask for a route.  The rate limiter may hold the request back;    *)
(* after too many network-wide searches sendRequest drops the packets.     *)
AppSend(n, d) ==
    /\ <<n, d>> \in Flow
    /\ app[<<n, d>>] < MaxData
    /\ app' = [app EXCEPT ![<<n, d>>] = @ + 1]
    /\ \/ /\ rt[n][d].flags = "UP"
          /\ msgs' = msgs \cup {forward(n, rt[n][d], n, d)}
          /\ UNCHANGED <<seqno, bid, buf, timers>>
       \/ /\ rt[n][d].flags = "DOWN"
          /\ buf' = [buf EXCEPT ![n] = @ \cup {d}]
          /\ SendRequest(n, d) \/ UNCHANGED <<seqno, bid, msgs>>
          /\ UNCHANGED timers
       \/ /\ rt[n][d].flags = "DOWN"
          /\ Tick
          /\ buf' = [buf EXCEPT ![n] = @ \ {d}]
          /\ UNCHANGED <<seqno, bid, msgs>>
    /\ UNCHANGED <<rt, bcache, replied, nb>>

(* rt_purge finds packets waiting for a route that is down. *)
Retry(n, d) ==
    /\ rt[n][d].flags = "DOWN"
    /\ d \in buf[n]
    /\ SendRequest(n, d)
    /\ UNCHANGED <<rt, bcache, replied, nb, buf, app, timers>>

(* rt_purge finds such packets, and sendRequest drops them. *)
GiveUp(n, d) ==
    /\ rt[n][d].flags = "DOWN"
    /\ d \in buf[n]
    /\ Tick
    /\ buf' = [buf EXCEPT ![n] = @ \ {d}]
    /\ UNCHANGED <<rt, seqno, bid, bcache, replied, nb, msgs, app>>

---------------------------------------------------------------------------
(* recvRequest. *)

(* Variant: the hop to the sender is not counted. *)
RequestPathUncounted(m) ==
    Path(m.from, m.hop, IF m.hop = 0 THEN m.to ELSE m.first)

(* The path back to the source that a request announces. *)
RequestPath(m) ==
    Path(m.from, m.hop + 1, IF m.hop = 0 THEN m.to ELSE m.first)

(* The request carries nothing better than the reverse route, or its path  *)
(* is too long, or its destination already has a path with that last hop.  *)
RequestDiscarded(m) ==
    LET e == rt[m.to][m.src]
        p == RequestPath(m)
        known == WithLastHop(e.paths, p.lasthop)
    IN  /\ ~ IsNewer(e, m.sseq)
        /\ \/ ~ IsBetter(e, m.sseq, m.hop)
           \/ new_disjoint_path(e.paths, p) /\ TooLong(e, p)
           \/ /\ ~ new_disjoint_path(e.paths, p)
              /\ ~ disjoint_path_lookup(e.paths, p)
              /\ m.dst = m.to
              /\ \/ known = {}
                 \/ p.hopcount > path_lookup_lasthop(e.paths, p.lasthop).hopcount

ReverseEntry(m) == UpdatedEntry(rt[m.to][m.src], m.sseq, RequestPath(m))

(* A usable route to the destination at least as fresh as asked for. *)
FreshRoute(m) ==
    rt[m.to][m.dst].flags = "UP" /\ rt[m.to][m.dst].seqno >= m.dseq

Remember(m) ==
    bcache' = [bcache EXCEPT ![m.to] = @ \cup {<<m.src, m.bid>>}]

RecvOwnRequest(m) ==
    /\ m.src = m.to
    /\ msgs' = msgs \ {m}
    /\ UNCHANGED <<rt, seqno, bid, bcache, replied, nb, buf, app, timers>>

DiscardRequest(m) ==
    /\ m.src # m.to
    /\ RequestDiscarded(m)
    /\ Remember(m)
    /\ msgs' = msgs \ {m}
    /\ UNCHANGED <<rt, seqno, bid, replied, nb, buf, app, timers>>

(* What the handlers of an accepted request share: the reverse route is in *)
(* the table and packets waiting for the source of the request leave.      *)
AcceptRequest(m, sent) ==
    /\ m.src # m.to
    /\ ~ RequestDiscarded(m)
    /\ Remember(m)
    /\ buf' = [buf EXCEPT ![m.to] = @ \ {m.src}]
    /\ msgs' = (msgs \ {m}) \cup Flushed(m.to, m.src, ReverseEntry(m)) \cup sent
    /\ UNCHANGED <<bid, nb, app, timers>>

(* The sequence number with which the destination answers. *)
AnswerSeqno(own, asked) ==
    LET s == IF own < asked THEN asked + 1 ELSE own
    IN  IF s % 2 = 1 THEN s + 1 ELSE s

(* The request has reached its destination. *)
AnswerRequest(m) ==
    LET s == AnswerSeqno(seqno[m.to], m.dseq)
    IN  /\ m.dst = m.to
        /\ AcceptRequest(m, {ReplyMsg(m.to, m.from, m.src, 0, m.to, s,
                                      m.bid, m.from)})
        /\ rt' = [rt EXCEPT ![m.to][m.src] = ReverseEntry(m)]
        /\ seqno' = [seqno EXCEPT ![m.to] = s]
        /\ UNCHANGED replied

(* A node with a fresh route answers for the destination, once per request *)
(* and only along a reverse path it has kept.                              *)
MayAnswer(m) ==
    /\ HoldsPath(rt[m.to][m.src], m.sseq, RequestPath(m))
    /\ <<m.src, m.bid>> \notin replied[m.to]

AnswerFromTable(m) ==
    LET e == Advertise(rt[m.to][m.dst])
    IN  /\ m.dst # m.to
        /\ FreshRoute(m)
        /\ MayAnswer(m)
        /\ AcceptRequest(m, {ReplyMsg(m.to, m.from, m.src, Byte(e.adv), m.dst,
                                      e.seqno, m.bid,
                                      path_find(e.paths).lasthop)})
        /\ rt' = [rt EXCEPT ![m.to][m.src] = ReverseEntry(m),
                            ![m.to][m.dst] = [e EXCEPT !.err = TRUE]]
        /\ replied' = [replied EXCEPT ![m.to] = @ \cup {<<m.src, m.bid>>}]
        /\ UNCHANGED seqno

(* A fresh route, but the request was answered before or left no path; or  *)
(* no fresh route and the request was propagated before.                   *)
AbsorbRequest(m) ==
    /\ m.dst # m.to
    /\ IF FreshRoute(m) THEN ~ MayAnswer(m)
                        ELSE <<m.src, m.bid>> \in bcache[m.to]
    /\ AcceptRequest(m, {})
    /\ rt' = [rt EXCEPT ![m.to][m.src] = ReverseEntry(m)]
    /\ UNCHANGED <<seqno, replied>>

ForwardRequest(m) ==
    LET e == Advertise(ReverseEntry(m))
        dseq == Larger(rt[m.to][m.dst].seqno, m.dseq)
    IN  /\ m.dst # m.to
        /\ ~ FreshRoute(m)
        /\ <<m.src, m.bid>> \notin bcache[m.to]
        /\ AcceptRequest(m,
             {RequestMsg(m.to, to, m.src, m.bid, m.sseq, m.dst, dseq,
                         Byte(e.adv), path_find(e.paths).lasthop)
                : to \in Neighbors(m.to)})
        /\ rt' = [rt EXCEPT ![m.to][m.src] = e]
        /\ UNCHANGED <<seqno, replied>>

RecvRequest(m) ==
    /\ m \in msgs
    /\ m.type = "RREQ"
    /\ \/ RecvOwnRequest(m)
       \/ DiscardRequest(m)
       \/ AnswerRequest(m)
       \/ AnswerFromTable(m)
       \/ AbsorbRequest(m)
       \/ ForwardRequest(m)

---------------------------------------------------------------------------
(* recvReply and recvHello. *)

(* The path to the announced destination, through the sender. *)
ReplyPath(m) == Path(m.from, m.hop + 1, m.first)

(* Nothing better than the entry, or a path that cannot be kept. *)
ReplyDiscarded(m) ==
    LET e == rt[m.to][m.dst]
    IN  \/ m.dst = m.to
        \/ /\ ~ IsNewer(e, m.dseq)
           /\ \/ ~ IsBetter(e, m.dseq, m.hop)
              \/ ~ HoldsPath(e, m.dseq, ReplyPath(m))

ForwardEntry(m) == UpdatedEntry(rt[m.to][m.dst], m.dseq, ReplyPath(m))

DiscardReply(m) ==
    /\ ReplyDiscarded(m)
    /\ msgs' = msgs \ {m}
    /\ UNCHANGED <<rt, buf, replied>>

(* Variant: packets waiting for the destination stay in the buffer. *)
AcceptReplyKeepsBuffer(m, sent) ==
    /\ ~ ReplyDiscarded(m)
    /\ msgs' = (msgs \ {m}) \cup sent
    /\ UNCHANGED buf

(* The route is up: packets waiting for the destination leave. *)
AcceptReply(m, sent) ==
    /\ ~ ReplyDiscarded(m)
    /\ buf' = [buf EXCEPT ![m.to] = @ \ {m.dst}]
    /\ msgs' = (msgs \ {m}) \cup Flushed(m.to, m.dst, ForwardEntry(m)) \cup sent

(* Variant: the count of the broadcast identifier is tested the wrong way. *)
OnlyRepeatedReply(m) ==
    /\ m.ipdst # m.to
    /\ rt[m.to][m.ipdst].flags = "UP"
    /\ <<m.ipdst, m.bid>> \in bcache[m.to] \cap replied[m.to]

(* There is a reverse route, the request passed here and no other reply to *)
(* it was forwarded.                                                       *)
CanForwardReply(m) ==
    /\ m.ipdst # m.to
    /\ rt[m.to][m.ipdst].flags = "UP"
    /\ <<m.ipdst, m.bid>> \in bcache[m.to] \ replied[m.to]

KeepReply(m) ==
    /\ ~ CanForwardReply(m)
    /\ AcceptReply(m, {})
    /\ rt' = [rt EXCEPT ![m.to][m.dst] = ForwardEntry(m)]
    /\ UNCHANGED replied

ForwardReply(m) ==
    LET e == Advertise(ForwardEntry(m))
        next == path_find(rt[m.to][m.ipdst].paths).nexthop
    IN  /\ CanForwardReply(m)
        /\ AcceptReply(m, {ReplyMsg(m.to, next, m.ipdst, Byte(e.adv), m.dst,
                                    m.dseq, m.bid, path_find(e.paths).lasthop)})
        /\ rt' = [rt EXCEPT ![m.to][m.dst] = [e EXCEPT !.err = TRUE]]
        /\ replied' = [replied EXCEPT ![m.to] = @ \cup {<<m.ipdst, m.bid>>}]

RecvReply(m) ==
    /\ m \in msgs
    /\ m.type = "RREP"
    /\ DiscardReply(m) \/ KeepReply(m) \/ ForwardReply(m)
    /\ UNCHANGED <<seqno, bid, bcache, nb, app, timers>>

rt_has_active_route(n) == \E d \in Node : rt[n][d].flags = "UP"

(* HelloTimer: a beacon, only while some route is up. *)
SendHello(n) ==
    /\ rt_has_active_route(n)
    /\ Tick
    /\ msgs' = msgs \cup {HelloMsg(n, to) : to \in Neighbors(n)}
    /\ UNCHANGED <<rt, seqno, bid, bcache, replied, nb, buf, app>>

(* A beacon is a reply, addressed to the receiver, that announces its      *)
(* sender.                                                                 *)
RecvHello(m) ==
    /\ m \in msgs
    /\ m.type = "HELLO"
    /\ nb' = [nb EXCEPT ![m.to] = @ \cup {m.dst}]
    /\ \/ DiscardReply(m)
       \/ /\ AcceptReply(m, {})
          /\ rt' = [rt EXCEPT ![m.to][m.dst] = ForwardEntry(m)]
          /\ UNCHANGED replied
    /\ UNCHANGED <<seqno, bid, bcache, app, timers>>

---------------------------------------------------------------------------
(* Losing routes. *)

(* The unreachable destinations that n reports when its entries become     *)
(* after: those that lost their last path and were announced to somebody.  *)
Unreachable(n, after) ==
    {[dst |-> d, seqno |-> after[d].seqno] :
        d \in {x \in Node : /\ rt[n][x].flags = "UP"
                            /\ after[x].flags = "DOWN"
                            /\ rt[n][x].err}}

(* The report r of m makes its receiver give up the path through m.from. *)
Heeded(m, r) ==
    LET e == rt[m.to][r.dst]
    IN  e.flags = "UP" /\ path_lookup(e.paths, m.from) /\ e.seqno <= r.seqno

(* recvError. *)
RecvError(m) ==
    LET hit == {r \in m.dests : Heeded(m, r)}
        after == [d \in Node |->
                    IF \E r \in hit : r.dst = d
                    THEN AfterError(rt[m.to][d], m.from,
                                    (CHOOSE r \in hit : r.dst = d).seqno)
                    ELSE rt[m.to][d]]
    IN  /\ m \in msgs
        /\ m.type = "RERR"
        /\ rt' = [rt EXCEPT ![m.to] = after]
        /\ msgs' = (msgs \ {m}) \cup sendError(m.to, Unreachable(m.to, after))
        /\ UNCHANGED <<seqno, bid, bcache, replied, nb, buf, app, timers>>

(* Packets n has queued for next hop id, still in the interface queue. *)
Queued(n, id) == {m \in msgs : m.type \in {"RREP", "DATA"} /\ m.from = n /\ m.to = id}

(* Of the packets in S, which were not salvaged too often before, the data *)
(* with an alternate path is forwarded along it.                           *)
Salvaged(n, S, after) ==
    {forward(n, after[m.dst], m.src, m.dst) :
        m \in {x \in S : x.type = "DATA" /\ after[x.dst].flags = "UP"}}

(* forward sets the error flag of the route a relayed packet takes. *)
Marked(n, S, after) ==
    [d \in Node |->
        IF /\ after[d].flags = "UP"
           /\ \E m \in S : m.type = "DATA" /\ m.dst = d /\ m.src # n
        THEN [after[d] EXCEPT !.err = TRUE]
        ELSE after[d]]

(* nb_purge finds that neighbor id has been silent for too long: nb_delete *)
(* and handle_link_failure.  The packets Q are still in the interface      *)
(* queue; those in S may be salvaged once more, the rest is dropped.       *)
NbDelete(n, id, Q, S) ==
    LET after == [d \in Node |->
                    IF /\ rt[n][d].flags = "UP"
                       /\ path_lookup(rt[n][d].paths, id)
                    THEN AfterLinkFailure(rt[n][d], id)
                    ELSE rt[n][d]]
    IN  /\ id \in nb[n]
        /\ Tick
        /\ seqno' = [seqno EXCEPT ![n] = @ + 2]
        /\ nb' = [nb EXCEPT ![n] = @ \ {id}]
        /\ rt' = [rt EXCEPT ![n] = Marked(n, S, after)]
        /\ msgs' = (msgs \ Q) \cup Salvaged(n, S, after)
                              \cup sendError(n, Unreachable(n, after))
        /\ UNCHANGED <<bid, bcache, replied, buf, app>>

(* rt_purge: a path of d's entry has expired.  The timer handler visits    *)
(* every entry; as entries do not depend on each other, each expiration is *)
(* a run of the handler that finds one expired path.                       *)
RtPurge(n, d, i) ==
    LET e == AfterExpiry(rt[n][d], i)
    IN  /\ rt[n][d].flags = "UP"
        /\ i \in DOMAIN rt[n][d].paths
        /\ Tick
        /\ rt' = [rt EXCEPT ![n][d] = e]
        /\ buf' = IF e.flags = "DOWN" THEN [buf EXCEPT ![n] = @ \ {d}] ELSE buf
        /\ UNCHANGED <<seqno, bid, bcache, replied, nb, msgs, app>>

(* id_purge: a remembered request has expired. *)
IdPurge(n, x) ==
    /\ x \in bcache[n]
    /\ Tick
    /\ bcache' = [bcache EXCEPT ![n] = @ \ {x}]
    /\ replied' = [replied EXCEPT ![n] = @ \ {x}]
    /\ UNCHANGED <<rt, seqno, bid, nb, buf, msgs, app>>

---------------------------------------------------------------------------
(* The error with which rt_resolve answers a packet it cannot relay. *)
NoRoute(n, d) == sendError(n, {[dst |-> d, seqno |-> rt[n][d].seqno]})

(* recv and rt_resolve for a data packet that arrives from another node:   *)
(* delivered, dropped by its source (a loop), relayed, or reported as      *)
(* undeliverable.                                                          *)
RecvData(m) ==
    LET n == m.to
        e == rt[n][m.dst]
    IN  /\ m \in msgs
        /\ m.type = "DATA"
        /\ \/ /\ n \in {m.dst, m.src}
              /\ msgs' = msgs \ {m}
              /\ UNCHANGED rt
           \/ /\ n \notin {m.dst, m.src}
              /\ e.flags = "UP"
              /\ msgs' = (msgs \ {m}) \cup {forward(n, e, m.src, m.dst)}
              /\ rt' = [rt EXCEPT ![n][m.dst].err = TRUE]
           \/ /\ n \notin {m.dst, m.src}
              /\ e.flags = "DOWN"
              /\ msgs' = (msgs \ {m}) \cup NoRoute(n, m.dst)
              /\ UNCHANGED rt
        /\ UNCHANGED <<seqno, bid, bcache, replied, nb, buf, app, timers>>

Lose(m) ==
    /\ Lossy
    /\ msgs' = msgs \ {m}
    /\ UNCHANGED <<rt, seqno, bid, bcache, replied, nb, buf, app, timers>>

Deliver(m) ==
    RecvRequest(m) \/ RecvReply(m) \/ RecvHello(m) \/ RecvError(m) \/ RecvData(m)

Next ==
    \/ \E n, d \in Node : AppSend(n, d) \/ Retry(n, d) \/ GiveUp(n, d)
    \/ \E m \in msgs : Deliver(m) \/ Lose(m)
    \/ \E n \in Node : SendHello(n)
    \/ \E n, id \in Node : \E Q \in SUBSET Queued(n, id) :
           \E S \in SUBSET Q : NbDelete(n, id, Q, S)
    \/ \E n, d \in Node : \E i \in 1 .. MaxPaths : RtPurge(n, d, i)
    \/ \E n \in Node : \E x \in bcache[n] : IdPurge(n, x)

Spec == Init /\ [][Next]_vars

(* The scheduler dispatches every event: a message that is not lost is     *)
(* received, and the route cache timer keeps asking for missing routes.    *)
Fairness ==
    /\ WF_vars(\E m \in msgs : Deliver(m))
    /\ \A n, d \in Node : WF_vars(Retry(n, d))

FairSpec == Spec /\ Fairness

---------------------------------------------------------------------------
(* Types. *)

PathLength == {k \in Nat : 1 <= k /\ k <= 256}

PathType == [nexthop : Node, hopcount : PathLength, lasthop : Node]

PathList == Seq(PathType)

EntryType ==
    [flags : {"UP", "DOWN"}, seqno : Nat, adv : Word,
     paths : PathList, hiseq : Nat, err : BOOLEAN]

RequestType ==
    [type : {"RREQ"}, from : Node, to : Node, src : Node, bid : Nat,
     sseq : Nat, dst : Node, dseq : Nat, hop : Octet, first : Node]

ReplyType ==
    [type : {"RREP"}, from : Node, to : Node, ipdst : Node, hop : Octet,
     dst : Node, dseq : Nat, bid : Nat, first : Node]

HelloType ==
    [type : {"HELLO"}, from : Node, to : Node, dst : Node, dseq : Nat,
     hop : {0}, first : Node]

ErrorType ==
    [type : {"RERR"}, from : Node, to : Node,
     dests : SUBSET [dst : Node, seqno : Nat]]

DataType ==
    [type : {"DATA"}, from : Node, to : Node, src : Node, dst : Node]

MsgType == RequestType \cup ReplyType \cup HelloType \cup ErrorType \cup DataType

(* Every variable holds a value the agent's data structures can hold. *)
TypeOK ==
    /\ rt \in [Node -> [Node -> EntryType]]
    /\ seqno \in [Node -> Nat]
    /\ bid \in [Node -> Nat]
    /\ bcache \in [Node -> SUBSET (Node \X Nat)]
    /\ replied \in [Node -> SUBSET (Node \X Nat)]
    /\ nb \in [Node -> SUBSET Node]
    /\ buf \in [Node -> SUBSET Node]
    /\ msgs \subseteq MsgType
    /\ app \in [Flow -> Nat]
    /\ timers \in Nat

---------------------------------------------------------------------------
(* Safety. *)

Even(k) == k % 2 = 0

(* An entry that is up has an even sequence number and a path; one that is *)
(* down has none and is new or has an odd number.  The code asserts the    *)
(* parity before it uses a route (eamrp.cc:406, 879, 1221) and dereferences*)
(* path_find of an entry that is up without a test.                        *)
RouteState ==
    \A n, d \in Node :
        LET e == rt[n][d]
        IN  IF e.flags = "UP"
            THEN Even(e.seqno) /\ e.seqno >= 2 /\ e.paths # << >>
            ELSE /\ e.seqno = 0 \/ ~ Even(e.seqno)
                 /\ e.paths = << >>

(* Requests, replies and beacons announce even sequence numbers: only the  *)
(* announced node issues them.  Errors announce odd ones, or 0 when the    *)
(* reporter never had a route; so does rt_highest_seqno_heard.             *)
AnnouncedParity ==
    /\ \A n \in Node : Even(seqno[n]) /\ seqno[n] >= 2
    /\ \A n, d \in Node : rt[n][d].hiseq = 0 \/ ~ Even(rt[n][d].hiseq)
    /\ \A m \in msgs :
        /\ m.type = "RREQ" => Even(m.sseq) /\ m.sseq >= 2
        /\ m.type \in {"RREP", "HELLO"} => Even(m.dseq) /\ m.dseq >= 2
        /\ m.type = "RERR" =>
              \A r \in m.dests : r.seqno = 0 \/ ~ Even(r.seqno)

(* No packet waits in the send buffer for a destination whose route is up: *)
(* every handler that brings a route up empties the buffer.  The check in  *)
(* rt_purge that "should not be needed" (eamrp.cc:579-582) is never        *)
(* reached, so nothing else would send such a packet.                      *)
NoStrandedPacket ==
    \A n, d \in Node : d \in buf[n] => rt[n][d].flags = "DOWN"

(* An announcement that is no better than the entry but passes the test of *)
(* recvRequest or recvReply meets the assertions made there: the entry is  *)
(* up (eamrp.cc:776, 1034), and a path that is already known has the       *)
(* announced length (eamrp.cc:782, 1037).                                  *)
Meets(e, seq, hop, p) ==
    IsBetter(e, seq, hop) =>
        /\ e.flags = "UP"
        /\ \A i \in DOMAIN e.paths :
              /\ e.paths[i].nexthop = p.nexthop
              /\ e.paths[i].lasthop = p.lasthop
              => e.paths[i].hopcount = hop + 1

AssertionsHold ==
    \A m \in msgs :
        /\ m.type = "RREQ" /\ m.src # m.to
              => Meets(rt[m.to][m.src], m.sseq, m.hop, RequestPath(m))
        /\ m.type \in {"RREP", "HELLO"} /\ m.dst # m.to
              => Meets(rt[m.to][m.dst], m.dseq, m.hop, ReplyPath(m))

(* The paths of an entry are node disjoint as far as the node can tell: no *)
(* two share a next hop or a last hop, and there are at most MaxPaths.     *)
DisjointPaths ==
    \A n, d \in Node :
        LET ps == rt[n][d].paths
        IN  /\ Len(ps) <= MaxPaths
            /\ \A i, j \in DOMAIN ps :
                  i # j => /\ ps[i].nexthop # ps[j].nexthop
                           /\ ps[i].lasthop # ps[j].lasthop

(* Whoever n has a path to d through knows d at least as recently as n, so *)
(* that packets for d never go from a fresher route to a staler one; and a *)
(* path through d itself has one hop.                                      *)
NextHopNotOlder ==
    \A n, d \in Node : \A i \in DOMAIN rt[n][d].paths :
        LET p == rt[n][d].paths[i]
        IN  IF p.nexthop = d THEN p.hopcount = 1
                             ELSE rt[p.nexthop][d].seqno >= rt[n][d].seqno

(* The node to which n forwards packets for d, if its route is up. *)
NextHop(n, d) ==
    LET ps == rt[n][d].paths
    IN  IF ps = << >> THEN {} ELSE {path_find(ps).nexthop}

(* The nodes that pass on packets for d. *)
Forwarders(d) == {n \in Node \ {d} : NextHop(n, d) # {}}

(* No set of nodes passes a packet for d around for ever. *)
NoForwardingLoop ==
    \A d \in Node : \A C \in SUBSET Forwarders(d) :
        C # {} => \E n \in C : NextHop(n, d) \cap C = {}

(* n loses its first path to d and goes on with an alternate one. *)
FallsBack(n, d) ==
    LET ps == rt[n][d].paths
        qs == rt'[n][d].paths
    IN  /\ rt'[n][d].seqno = rt[n][d].seqno
        /\ qs # << >>
        /\ path_find(qs) \in Range(ps) \ {path_find(ps)}

(* Requests, replies, errors and expirations in any order never close a    *)
(* forwarding loop: only a node that loses its first path and falls back   *)
(* to an alternate one can do so.  It can, as the test for the "better hop *)
(* count" (eamrp.cc:769-770) does not keep alternate paths from leading    *)
(* back.                                                                   *)
LoopsOnlyByFallback ==
    [][NoForwardingLoop /\ (\A n, d \in Node : ~ FallsBack(n, d))
          => NoForwardingLoop']_vars

(* Another path for the same sequence number is accepted only from a node  *)
(* that is nearer ("same seqno, better hop count", eamrp.cc:769-770): the  *)
(* paths of the node an alternate path leads through are all shorter.      *)
SmallerHopCount ==
    \A n, d \in Node : \A i \in DOMAIN rt[n][d].paths :
        LET p == rt[n][d].paths[i]
            e == rt[p.nexthop][d]
        IN  i > 1 /\ e.seqno = rt[n][d].seqno =>
                \A h \in HopCounts(e.paths) : h < p.hopcount

(* A route in use never carries a number its destination has not issued,   *)
(* and a lost one is at most one ahead, so the destination's next answer   *)
(* (seqno = rq_dst_seqno + 1) restores the order.                          *)
NeverAheadOfDestination ==
    /\ \A n, d \in Node :
          rt[n][d].seqno <= seqno[d] + (IF rt[n][d].flags = "UP" THEN 0 ELSE 1)
    /\ \A m \in msgs : m.type = "RREQ" => m.dseq <= seqno[m.dst] + 1

(* Entry f may follow entry e. *)
Succeeds(e, f) ==
    f.seqno > e.seqno \/ (f.seqno = e.seqno /\ f.adv = e.adv)

(* A node never replaces what it knows of a destination by something older *)
(* and, for one sequence number, never changes the hop count it advertises:*)
(* what neighbors were told stays valid whatever is received or lost.      *)
AdvertisementStable ==
    [][\A n, d \in Node : Succeeds(rt[n][d], rt'[n][d])]_vars

(* What is announced, and by whom: the source by a request, the            *)
(* destination by a reply, its sender by a beacon.                         *)
Announced ==
    {[by |-> m.from, to |-> m.to, dst |-> m.src, seq |-> m.sseq, hop |-> m.hop] :
        m \in {x \in msgs : x.type = "RREQ"}}
    \cup
    {[by |-> m.from, to |-> m.to, dst |-> m.dst, seq |-> m.dseq, hop |-> m.hop] :
        m \in {x \in msgs : x.type \in {"RREP", "HELLO"}}}

(* The sequence numbers and the paths of the routing tables. *)
Numbers == [n \in Node |-> [d \in Node |-> rt[n][d].seqno]]

Routes ==
    [n \in Node |-> [d \in Node |->
        [i \in DOMAIN rt[n][d].paths |->
            [nexthop |-> rt[n][d].paths[i].nexthop,
             hopcount |-> rt[n][d].paths[i].hopcount]]]]

Rules == INSTANCE RouteRules WITH
    Relayed <- Byte(Infinity),
    own <- seqno, number <- Numbers, paths <- Routes, news <- Announced

(* Every handler, whatever it does at once, changes the table and announces*)
(* routes only by the rules of RouteRules, from which NextHopNotOlder and  *)
(* LoopsOnlyByFallback follow for any network.                             *)
ImplementsRules == Rules!Spec

---------------------------------------------------------------------------
(* Liveness. *)

(* With no loss and no expiration, a route discovery ends: whoever has     *)
(* packets waiting gets a route.                                           *)
DiscoveryCompletes ==
    \A f \in Flow : f[2] \in buf[f[1]] ~> rt[f[1]][f[2]].flags = "UP"

(* Data packets do not travel for ever. *)
DataLeaves ==
    []<>(\A m \in msgs : m.type # "DATA")
=============================================================================
