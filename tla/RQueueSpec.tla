----------------------------- MODULE RQueueSpec -----------------------------
(***************************************************************************)
(* What the send buffer (class eamrp_rqueue) promises its agent: a bounded *)
(* first-in first-out queue from which packets can be taken by destination *)
(* and in which no packet stays past its deadline once it is looked at.    *)
(***************************************************************************)
EXTENDS Naturals, FiniteSets, Sequences, SequencesExt

CONSTANTS
    Packet,     \* the packets
    Dest,       \* their destinations
    dst,        \* dst[p]: the destination of p
    Limit,      \* EAMRP_RTQ_MAX_LEN
    Timeout,    \* EAMRP_RTQ_TIMEOUT
    MaxNow      \* bound: the last moment of a behaviour

VARIABLES
    queue,      \* the packets in the buffer, oldest first
    ts,         \* ts[p]: the deadline of p
    fate,       \* fate[p]: where p is
    now         \* the clock

qvars == <<queue, ts, fate, now>>

Fate == {"new", "queued", "out", "dropped", "expired"}

(* The members of s at the positions of I, in their order. *)
At(s, I) ==
    [k \in 1 .. Cardinality(I) |->
        s[CHOOSE i \in I : Cardinality({j \in I : j <= i}) = k]]

(* The queue without the packets whose deadline has passed. *)
Live == At(queue, {i \in DOMAIN queue : ts[queue[i]] >= now})

(* The fate of packets after those past their deadline have left. *)
Purged == [p \in Packet |-> IF fate[p] = "queued" /\ ts[p] < now
                            THEN "expired" ELSE fate[p]]

Init ==
    /\ queue = << >>
    /\ ts = [p \in Packet |-> 0]
    /\ fate = [p \in Packet |-> "new"]
    /\ now = 0

(* A packet enters; the oldest one makes room when the buffer is full. *)
Enque(p) ==
    /\ fate[p] = "new"
    /\ ts' = [ts EXCEPT ![p] = now + Timeout]
    /\ IF Len(Live) = Limit
       THEN /\ queue' = Append(Tail(Live), p)
            /\ fate' = [Purged EXCEPT ![p] = "queued", ![Head(Live)] = "dropped"]
       ELSE /\ queue' = Append(Live, p)
            /\ fate' = [Purged EXCEPT ![p] = "queued"]
    /\ UNCHANGED now

(* The oldest packet among those in S leaves, if there is one. *)
Take(S) ==
    LET at == {i \in DOMAIN Live : Live[i] \in S}
    IN  /\ \/ /\ at = {}
              /\ queue' = Live
              /\ fate' = Purged
           \/ \E i \in at :
                /\ \A j \in at : i <= j
                /\ queue' = RemoveAt(Live, i)
                /\ fate' = [Purged EXCEPT ![Live[i]] = "out"]
        /\ UNCHANGED <<ts, now>>

Tick == now < MaxNow /\ now' = now + 1 /\ UNCHANGED <<queue, ts, fate>>

Next ==
    \/ \E p \in Packet : Enque(p)
    \/ Take(Packet)
    \/ \E d \in Dest : Take({p \in Packet : dst[p] = d})
    \/ Tick

Spec == Init /\ [][Next]_qvars
=============================================================================
