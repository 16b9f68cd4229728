--------------------------- MODULE NeighborCache ----------------------------
(***************************************************************************)
(* One agent, one neighbor and the clock: the beacons of the neighbor, the *)
(* neighbor cache (nb_insert, nb_delete, nb_purge) and the lifetime of the *)
(* direct path to the neighbor.  Of the paths to the neighbor through      *)
(* other nodes only their presence is kept: requests and replies that come *)
(* the longer way may renew the entry, and with it end the direct path.    *)
(*                                                                         *)
(* The unit of time is a quarter of a second.  Deadlines are kept as the   *)
(* time that is left, so the clock needs no bound.  What is due at one     *)
(* moment happens in any order.  Of sequence numbers only the relation     *)
(* between the agent's entry and the neighbor's own number is kept.        *)
(***************************************************************************)
EXTENDS Integers

CONSTANTS
    MaxSilence,     \* bound: silence, and the time by which something is
                    \* overdue, are counted up to here
    MaxMissed       \* bound: missed beacons are counted up to here

ASSUME BoundAssumption == MaxSilence \in Nat /\ MaxMissed \in Nat

HELLO_INTERVAL == 4
ALLOWED_HELLO_LOSS == 3
MinHelloInterval == 3
MaxHelloInterval == 5
FREQUENCY == 2                  \* the period of the route cache timer
ACTIVE_ROUTE_TIMEOUT == 40
MY_ROUTE_TIMEOUT == 40
REV_ROUTE_LIFE == 24

VARIABLES
    phase,      \* the time within a period of the neighbor cache timer
    due,        \* the timers of the agent that have not been handled yet
    hello,      \* the time until the neighbor's hello timer fires
    linked,     \* whether the agent hears the neighbor
    active,     \* whether the neighbor has an active route
    nb,         \* the cache entry: present, and the time it has left
    path,       \* the direct path: present, and the time it has left
    other,      \* whether the entry has a path through another node
    number,     \* the entry's sequence number against the neighbor's own
    silence,    \* the time since a beacon was heard
    missed      \* the beacons missed since then

vars == <<phase, due, hello, linked, active, nb, path, other, number, silence,
          missed>>

Gone == [in |-> FALSE, left |-> 0]
Lasting(t) == [in |-> TRUE, left |-> t]

Init ==
    /\ phase = 0
    /\ due = {}
    /\ hello \in 1 .. MaxHelloInterval
    /\ linked = TRUE
    /\ active = FALSE
    /\ nb = Gone
    /\ path = Gone
    /\ other = FALSE
    /\ number = "old"
    /\ silence = MaxSilence
    /\ missed = MaxMissed

Least(a, b) == IF a <= b THEN a ELSE b
Most(a, b) == IF a >= b THEN a ELSE b

---------------------------------------------------------------------------
(* The neighbor. *)

(* The neighbor comes within reach or leaves. *)
Move ==
    /\ linked' = ~ linked
    /\ UNCHANGED <<phase, due, hello, active, nb, path, other, number, silence,
                   missed>>

(* The neighbor finds its first or loses its last route. *)
Activity ==
    /\ active' = ~ active
    /\ UNCHANGED <<phase, due, hello, linked, nb, path, other, number, silence,
                   missed>>

(* The neighbor raises its own number: by a request of its own, which      *)
(* gives an agent that hears it a reverse path and no other, or because    *)
(* its own neighbors changed.                                              *)
Renumber ==
    /\ \/ /\ linked
          /\ path' = Lasting(REV_ROUTE_LIFE)
          /\ other' = FALSE
          /\ number' = "same"
       \/ /\ number' = "old"
          /\ UNCHANGED <<path, other>>
    /\ UNCHANGED <<phase, due, hello, linked, active, nb, silence, missed>>

(* A request of the neighbor, or a reply about it, comes through another   *)
(* node: a newer number deletes all paths, the direct one included, and    *)
(* the number of the entry may add an alternate path.                      *)
HeardElsewhere ==
    /\ \/ /\ number = "old"
          /\ path' = Gone
          /\ number' \in {"old", "same"}
       \/ /\ path.in \/ other
          /\ UNCHANGED <<path, number>>
    /\ other' = TRUE
    /\ UNCHANGED <<phase, due, hello, linked, active, nb, silence, missed>>

(* Variant: only the first beacon counts. *)
NeighborNotRefreshed ==
    IF nb.in THEN nb ELSE Lasting(HELLO_INTERVAL * ALLOWED_HELLO_LOSS)

(* The cache entry after a beacon: nb_insert, or a longer lease. *)
HeardNeighbor ==
    IF nb.in
    THEN Lasting((3 * ALLOWED_HELLO_LOSS * HELLO_INTERVAL) \div 2)
    ELSE Lasting(HELLO_INTERVAL * ALLOWED_HELLO_LOSS)

BeaconLifetime == (1 + ALLOWED_HELLO_LOSS) * HELLO_INTERVAL

(* The neighbor announces its own number, for a path that lasts for time   *)
(* t: a newer number restarts the entry; the same one prolongs the direct  *)
(* path, or adds it to the others unless recvReply refuses it; and an      *)
(* entry that was lost is one ahead and ignores the announcement.          *)
HeardPath(t) ==
    \/ /\ number = "old"
       /\ path' = Lasting(t) /\ other' = FALSE /\ number' = "same"
    \/ /\ number = "same" /\ path.in
       /\ path' = Lasting(Most(path.left, t))
       /\ UNCHANGED <<other, number>>
    \/ /\ number = "same" /\ ~ path.in
       /\ path' \in {Gone, Lasting(t)}
       /\ UNCHANGED <<other, number>>
    \/ /\ number = "ahead"
       /\ UNCHANGED <<path, other, number>>

(* recvHello *)
RecvHello ==
    /\ nb' = HeardNeighbor
    /\ HeardPath(BeaconLifetime)
    /\ silence' = 0
    /\ missed' = 0

(* recvRequest: another copy of the neighbor's request, after those that   *)
(* came by other nodes. *)
RecvRequest ==
    /\ linked
    /\ HeardPath(REV_ROUTE_LIFE)
    /\ UNCHANGED <<phase, due, hello, linked, active, nb, silence, missed>>

(* recvReply: the neighbor itself answers a request of the agent. *)
RecvReply ==
    /\ linked
    /\ HeardPath(MY_ROUTE_TIMEOUT)
    /\ UNCHANGED <<phase, due, hello, linked, active, nb, silence, missed>>

(* The hello timer of the neighbor: a beacon while it has a route, heard   *)
(* or lost.                                                                *)
HelloTimer ==
    /\ hello = 0
    /\ hello' \in MinHelloInterval .. MaxHelloInterval
    /\ \/ /\ active /\ linked
          /\ RecvHello
       \/ /\ missed' = Least(missed + 1, MaxMissed)
          /\ UNCHANGED <<nb, path, other, number, silence>>
    /\ UNCHANGED <<phase, due, linked, active>>

---------------------------------------------------------------------------
(* The agent. *)

(* A packet is sent to the neighbor: forward prolongs the path. *)
Forward ==
    /\ path.in
    /\ path' = Lasting(ACTIVE_ROUTE_TIMEOUT)
    /\ UNCHANGED <<phase, due, hello, linked, active, nb, other, number, silence,
                   missed>>

(* Losing the last path raises the number of the entry, at least to the    *)
(* next odd one and at most to the one the neighbor's loss is reported by. *)
AfterLoss == IF number = "same" THEN {"ahead"} ELSE {"old", "ahead"}

(* Variant: the number of the entry is not raised. *)
LosePathKeepsNumber == path' = Gone /\ UNCHANGED <<other, number>>

LosePath ==
    /\ path' = Gone
    /\ number' \in IF other THEN {number} ELSE AfterLoss
    /\ UNCHANGED other

(* The paths through other nodes expire, or errors take them. *)
OtherLost ==
    /\ other
    /\ other' = FALSE
    /\ number' \in IF path.in THEN {number} ELSE AfterLoss
    /\ UNCHANGED <<phase, due, hello, linked, active, nb, path, silence, missed>>

Overdue == nb.in /\ nb.left <= 0

(* nb_purge, nb_delete and handle_link_failure.  That nb_delete raises the *)
(* agent's own number is a Renumber step to the neighbor.                  *)
NeighborTimer ==
    /\ "nb" \in due
    /\ due' = due \ {"nb"}
    /\ nb' = IF Overdue THEN Gone ELSE nb
    /\ IF Overdue /\ path.in THEN LosePath ELSE UNCHANGED <<path, other, number>>
    /\ UNCHANGED <<phase, hello, linked, active, silence, missed>>

(* rt_purge and path_purge *)
RouteCacheTimer ==
    /\ "rt" \in due
    /\ due' = due \ {"rt"}
    /\ IF path.in /\ path.left < 0 THEN LosePath ELSE UNCHANGED <<path, other, number>>
    /\ UNCHANGED <<phase, hello, linked, active, nb, silence, missed>>

Older(x) == IF x.in THEN Lasting(Most(x.left - 1, - MaxSilence)) ELSE x

(* Variant: the route cache timer has the period of the neighbor cache's. *)
FiringTogether(t) == IF t % HELLO_INTERVAL = 0 THEN {"nb", "rt"} ELSE {}

(* Variant: the neighbor cache timer is not scheduled again. *)
FiringRoutesOnly(t) == IF t % FREQUENCY = 0 THEN {"rt"} ELSE {}

(* Variant: the route cache timer is not scheduled again. *)
FiringNeighborsOnly(t) == IF t % HELLO_INTERVAL = 0 THEN {"nb"} ELSE {}

(* The timers of the agent that fire at time t. *)
Firing(t) ==
    (IF t % HELLO_INTERVAL = 0 THEN {"nb"} ELSE {})
        \cup (IF t % FREQUENCY = 0 THEN {"rt"} ELSE {})

(* Time passes once everything that is due has been handled. *)
Clock ==
    /\ due = {}
    /\ hello > 0
    /\ phase' = (phase + 1) % HELLO_INTERVAL
    /\ due' = Firing(phase')
    /\ hello' = hello - 1
    /\ nb' = Older(nb)
    /\ path' = Older(path)
    /\ silence' = Least(silence + 1, MaxSilence)
    /\ UNCHANGED <<linked, active, other, number, missed>>

Timers == HelloTimer \/ NeighborTimer \/ RouteCacheTimer \/ Clock

Next ==
    \/ Move \/ Activity \/ Renumber \/ HeardElsewhere
    \/ RecvRequest \/ RecvReply \/ OtherLost \/ Forward \/ Timers

(* The simulator's clock goes on and handles every event in its turn. *)
Spec == Init /\ [][Next]_vars /\ WF_vars(Timers)

---------------------------------------------------------------------------
(* The timers that enforce a deadline run often enough: a neighbor that is *)
(* silent is deleted within 5.5 seconds, and a path is used at most half a *)
(* second after its time, so that the lifetime recvRequest announces for   *)
(* it (eamrp.cc:898) is negative by no more than that.                     *)
DeadlinesKept ==
    /\ nb.in => silence < HeardNeighbor.left + HELLO_INTERVAL
    /\ path.in => path.left >= - FREQUENCY

(* An entry with the neighbor's own number has a path: recvReply asserts   *)
(* that the route is up (eamrp.cc:1034) when a beacon has that number.     *)
SameNumberIsUp == number = "same" => path.in \/ other

(* A neighbor within reach that beacons is not deleted unless two beacons  *)
(* in a row are missed, whatever the phases of the timers and the jitter   *)
(* of the beacons.  Without that its direct path can only end when a newer *)
(* number arrives by another node, which leaves the entry with a path      *)
(* through that node.                                                      *)
NoFalseAlarm ==
    [][/\ nb.in /\ ~ nb'.in => missed >= 2
       /\ path.in /\ ~ path'.in => missed >= 2 \/ (number = "old" /\ other')]_vars

(* A beacon adds "a route to this neighbor" (eamrp.cc:1603). *)
BeaconAddsRoute ==
    [][HelloTimer /\ missed' = 0 => path'.in \/ other']_vars

(* A neighbor that has gone for good, or has become silent, is forgotten:  *)
(* no schedule of late beacons, requests and packets sent to it keeps it.  *)
SilentIsForgotten ==
    <>[](~ linked \/ ~ active) => <>[](~ nb.in)

(* The path to a neighbor that has gone ends, in the cache or not, once no *)
(* more packets are sent along it: forward prolongs a path by sending on   *)
(* it (eamrp.cc:1295), whether or not anybody receives.                    *)
DeadPathEnds ==
    <>[](~ linked) /\ <>[][~ Forward]_vars => <>[](~ path.in)
=============================================================================
