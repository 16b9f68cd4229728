------------------------------- MODULE RQueue -------------------------------
(***************************************************************************)
(* The send buffer as it is coded (class eamrp_rqueue): a singly linked    *)
(* list threaded through the next_ field of the packets, with a pointer to *)
(* its tail and a separate length.                                         *)
(***************************************************************************)
EXTENDS Naturals, FiniteSets, Sequences, SequencesExt

CONSTANTS
    Packet, Dest, dst, Limit, Timeout, MaxNow,  \* as in RQueueSpec
    NULL                                        \* the null pointer

ASSUME DstAssumption == dst \in [Packet -> Dest]
ASSUME BoundAssumption ==
    Limit \in Nat \ {0} /\ Timeout \in Nat /\ MaxNow \in Nat
ASSUME PacketAssumption == IsFiniteSet(Packet) /\ NULL \notin Packet

VARIABLES
    q,          \* head_, tail_, len_ and the next_ field of every packet
    ts,         \* the deadline (ts_) in every packet's header
    fate,       \* fate[p]: in the list, returned, dropped or unlinked
    now         \* CURRENT_TIME

vars == <<q, ts, fate, now>>

(* The list from the head on: the walk of findPacketWithDst,               *)
(* findAgedPacket and verifyQueue.                                         *)
Chain(l) ==
    LET n == Cardinality(Packet)
        at[k \in 0 .. n] == IF k = 0 THEN l.head
                            ELSE IF at[k - 1] = NULL THEN NULL
                            ELSE l.next[at[k - 1]]
    IN  [k \in 1 .. Cardinality({k \in 0 .. n : at[k] # NULL}) |-> at[k - 1]]

remove_head(l) ==
    [l EXCEPT !.head = IF l.head = l.tail THEN NULL ELSE l.next[l.head],
              !.tail = IF l.head = l.tail THEN NULL ELSE @,
              !.len = IF l.head = NULL THEN @ ELSE @ - 1]

(* The packet before p in the list. *)
Prev(l, p) ==
    LET c == Chain(l) IN c[(CHOOSE k \in DOMAIN c : c[k] = p) - 1]

(* Variant: the tail is not moved when the last packet leaves. *)
UnlinkKeepsTail(l, p) ==
    IF p = l.head THEN remove_head(l)
    ELSE [l EXCEPT !.next[Prev(l, p)] = l.next[p], !.len = @ - 1]

(* Variant: the rest of the list is cut off. *)
UnlinkCutsOff(l, p) ==
    IF p = l.head THEN remove_head(l)
    ELSE [l EXCEPT !.next[Prev(l, p)] = NULL, !.tail = Prev(l, p), !.len = @ - 1]

(* Taking p out of the list, as deque(dst) and purge do. *)
Unlink(l, p) ==
    IF p = l.head THEN remove_head(l)
    ELSE IF p = l.tail
    THEN [l EXCEPT !.next[Prev(l, p)] = NULL, !.tail = Prev(l, p), !.len = @ - 1]
    ELSE [l EXCEPT !.next[Prev(l, p)] = l.next[p], !.len = @ - 1]

(* Variant: packets are found one moment too late. *)
AgedLate(l) == LET c == Chain(l) IN {k \in DOMAIN c : ts[c[k]] + 1 < now}

(* The positions of the packets findAgedPacket looks for. *)
Aged(l) == LET c == Chain(l) IN {k \in DOMAIN c : ts[c[k]] < now}

(* purge: while findAgedPacket finds one, the first aged packet is         *)
(* unlinked; none is dropped.                                              *)
purge ==
    LET left[k \in 0 .. q.len] ==
          IF k = 0 THEN q
          ELSE LET l == left[k - 1]
               IN  IF Aged(l) = {} THEN l ELSE Unlink(l, Chain(l)[Min(Aged(l))])
    IN  left[q.len]

AfterPurge ==
    [p \in Packet |-> IF \E k \in Aged(q) : Chain(q)[k] = p
                      THEN "unlinked" ELSE fate[p]]

Init ==
    /\ q = [head |-> NULL, tail |-> NULL, len |-> 0,
            next |-> [p \in Packet |-> NULL]]
    /\ ts = [p \in Packet |-> 0]
    /\ fate = [p \in Packet |-> "new"]
    /\ now = 0

(* Variant: p becomes the head. *)
LinkAtHead(l, p) ==
    [l EXCEPT !.head = p, !.next[p] = l.head, !.len = @ + 1,
              !.tail = IF @ = NULL THEN p ELSE @]

(* Appending p at the tail. *)
Link(l, p) ==
    IF l.head = NULL
    THEN [l EXCEPT !.head = p, !.tail = p, !.next[p] = NULL, !.len = @ + 1]
    ELSE [l EXCEPT !.next = [@ EXCEPT ![p] = NULL, ![l.tail] = p],
                   !.tail = p, !.len = @ + 1]

(* Variant: the limit is tested one packet too late. *)
EnqueOverLimit(p) ==
    /\ fate[p] = "new"
    /\ ts' = [ts EXCEPT ![p] = now + Timeout]
    /\ IF purge.len > Limit
       THEN /\ q' = Link(remove_head(purge), p)
            /\ fate' = [AfterPurge EXCEPT ![p] = "queued",
                                          ![purge.head] = "dropped"]
       ELSE /\ q' = Link(purge, p)
            /\ fate' = [AfterPurge EXCEPT ![p] = "queued"]
    /\ UNCHANGED now

enque(p) ==
    /\ fate[p] = "new"
    /\ ts' = [ts EXCEPT ![p] = now + Timeout]
    /\ IF purge.len = Limit
       THEN /\ q' = Link(remove_head(purge), p)
            /\ fate' = [AfterPurge EXCEPT ![p] = "queued",
                                          ![purge.head] = "dropped"]
       ELSE /\ q' = Link(purge, p)
            /\ fate' = [AfterPurge EXCEPT ![p] = "queued"]
    /\ UNCHANGED now

(* deque(): the packet at the head. *)
deque ==
    /\ q' = remove_head(purge)
    /\ fate' = IF purge.head = NULL THEN AfterPurge
               ELSE [AfterPurge EXCEPT ![purge.head] = "out"]
    /\ UNCHANGED <<ts, now>>

(* Variant: the last packet for destination d. *)
DequeLast(d) ==
    LET c == Chain(purge)
        at == {k \in DOMAIN c : dst[c[k]] = d}
    IN  /\ \/ /\ at = {}
              /\ q' = purge
              /\ fate' = AfterPurge
           \/ \E k \in at :
                /\ \A j \in at : j <= k
                /\ q' = Unlink(purge, c[k])
                /\ fate' = [AfterPurge EXCEPT ![c[k]] = "out"]
        /\ UNCHANGED <<ts, now>>

(* deque(dst): the first packet for destination d. *)
dequeDst(d) ==
    LET c == Chain(purge)
        at == {k \in DOMAIN c : dst[c[k]] = d}
    IN  /\ \/ /\ at = {}
              /\ q' = purge
              /\ fate' = AfterPurge
           \/ \E k \in at :
                /\ \A j \in at : k <= j
                /\ q' = Unlink(purge, c[k])
                /\ fate' = [AfterPurge EXCEPT ![c[k]] = "out"]
        /\ UNCHANGED <<ts, now>>

Tick == now < MaxNow /\ now' = now + 1 /\ UNCHANGED <<q, ts, fate>>

Next ==
    \/ \E p \in Packet : enque(p)
    \/ deque
    \/ \E d \in Dest : dequeDst(d)
    \/ Tick

Spec == Init /\ [][Next]_vars

---------------------------------------------------------------------------
(* Every variable holds a value of its type, and the length its bound. *)
TypeOK ==
    /\ q \in [head : Packet \cup {NULL}, tail : Packet \cup {NULL},
              len : 0 .. Limit, next : [Packet -> Packet \cup {NULL}]]
    /\ ts \in [Packet -> Nat]
    /\ fate \in [Packet -> {"new", "queued", "out", "dropped", "unlinked"}]
    /\ now \in 0 .. MaxNow

(* verifyQueue's assertions (eamrp_rqueue.cc:171-172) after every          *)
(* operation: the list has len_ packets and tail_ is the last of them.     *)
verifyQueue ==
    LET c == Chain(q)
    IN  /\ Len(c) = q.len
        /\ q.tail = IF c = << >> THEN NULL ELSE c[Len(c)]

(* The list holds exactly the packets that were accepted and have not left,*)
(* each once: unlinking one packet never cuts others off.                  *)
NothingCutOff ==
    /\ \A p \in Packet :
          fate[p] = "queued" <=> \E k \in DOMAIN Chain(q) : Chain(q)[k] = p
    /\ \A j, k \in DOMAIN Chain(q) : Chain(q)[j] = Chain(q)[k] => j = k

(* The aged packets are always at the head: the full scan of purge removes *)
(* what the commented-out purge (eamrp_rqueue.cc:177-189), which stops at  *)
(* the first packet that is not aged, would have removed.                  *)
AgedAtHead ==
    \A j, k \in DOMAIN Chain(q) : j <= k => ts[Chain(q)[j]] <= ts[Chain(q)[k]]

(* No packet is handed out after its deadline. *)
InTime ==
    [][\A p \in Packet :
          fate[p] = "queued" /\ fate'[p] = "out" => ts[p] >= now]_vars

(* The list implements the queue of RQueueSpec. *)
Abstract == INSTANCE RQueueSpec WITH
    queue <- Chain(q),
    fate <- [p \in Packet |-> IF fate[p] = "unlinked" THEN "expired" ELSE fate[p]]

ImplementsQueue == Abstract!Spec
=============================================================================
