------------------------- MODULE NeighborCacheProofs -------------------------
(***************************************************************************)
(* Proofs about NeighborCache: the safety properties, whatever the bounds  *)
(* up to which silence and missed beacons are counted.                     *)
(***************************************************************************)
EXTENDS NeighborCache, TLAPS

Entry == [in : BOOLEAN, left : Int]

Types ==
    /\ phase \in 0 .. 3
    /\ due \subseteq {"nb", "rt"}
    /\ hello \in 0 .. MaxHelloInterval
    /\ nb \in Entry
    /\ path \in Entry
    /\ other \in BOOLEAN
    /\ number \in {"old", "same", "ahead"}
    /\ silence \in 0 .. MaxSilence
    /\ missed \in 0 .. MaxMissed

(* A timer is due in its phase only, and between two of its runs an entry  *)
(* is overdue by no more than the time since the last one.                 *)
DueInPhase ==
    /\ "nb" \in due => phase = 0
    /\ "rt" \in due => phase % FREQUENCY = 0

NeighborInTime ==
    nb.in => nb.left >= 1 - phase - (IF "nb" \in due THEN HELLO_INTERVAL ELSE 0)

PathInTime ==
    path.in =>
        path.left >= - (phase % FREQUENCY) - (IF "rt" \in due THEN FREQUENCY ELSE 0)

(* What is left of a neighbor's time says how long ago it was heard.       *)
HeardSince == nb.in => silence + nb.left <= 18

(* So many beacons were missed since then, however the neighbor's timer is *)
(* jittered.                                                               *)
MissedSince ==
    missed < MaxMissed =>
        /\ nb.in => 12 - nb.left + hello <= MaxHelloInterval * (missed + 1)
        /\ path.in => BeaconLifetime - path.left + hello <= MaxHelloInterval * (missed + 1)

(* The number tells whether there is a path. *)
NumberTells ==
    /\ number = "same" => path.in \/ other
    /\ number = "ahead" => ~ path.in /\ ~ other

IInv ==
    /\ Types
    /\ DueInPhase
    /\ NeighborInTime
    /\ PathInTime
    /\ HeardSince
    /\ MissedSince
    /\ NumberTells

LEMMA InitGood == Init => IInv
<1> SUFFICES ASSUME Init PROVE IInv
  OBVIOUS
<1>1. Types
  <2>1. phase \in 0 .. 3 /\ hello \in 0 .. MaxHelloInterval
    BY DEF Init, MaxHelloInterval
  <2>2. nb \in Entry /\ path \in Entry
    BY DEF Init, Entry, Gone
  <2>3. silence \in 0 .. MaxSilence /\ missed \in 0 .. MaxMissed
    BY BoundAssumption DEF Init
  <2> QED
    BY <2>1, <2>2, <2>3 DEF Init, Types
<1>2. NumberTells
  BY DEF Init, NumberTells
<1> QED
  BY <1>1, <1>2 DEF Init, IInv, Gone, DueInPhase, NeighborInTime,
     PathInTime, HeardSince, MissedSince

(* An entry that lasts. *)
LEMMA LastingEntry ==
    \A t \in Int : /\ Lasting(t) \in Entry
                   /\ Lasting(t).in = TRUE /\ Lasting(t).left = t
BY DEF Lasting, Entry

LEMMA GoneEntry == Gone \in Entry /\ Gone.in = FALSE
BY DEF Gone, Entry

(* What the neighbor's own announcement leaves of the entry.               *)
LEMMA PathHeard ==
    ASSUME IInv, NEW t \in Int, t >= 16, HeardPath(t)
    PROVE  /\ path' \in Entry /\ other' \in BOOLEAN
           /\ path'.in => path'.left >= 16
           /\ path.in => path'.in
           /\ number' \in {"same", "ahead"}
           /\ NumberTells'
<1>1. CASE /\ number = "old"
           /\ path' = Lasting(t) /\ other' = FALSE /\ number' = "same"
  BY <1>1, LastingEntry DEF NumberTells
<1>2. CASE /\ number = "same" /\ path.in
           /\ path' = Lasting(Most(path.left, t))
           /\ UNCHANGED <<other, number>>
  <2>1. Most(path.left, t) \in Int /\ Most(path.left, t) >= 16
    BY DEF IInv, Types, Entry, Most
  <2> QED
    BY <1>2, <2>1, LastingEntry DEF IInv, Types, NumberTells
<1>3. CASE /\ number = "same" /\ ~ path.in
           /\ path' \in {Gone, Lasting(t)}
           /\ UNCHANGED <<other, number>>
  BY <1>3, LastingEntry, GoneEntry DEF IInv, Types, NumberTells
<1>4. CASE number = "ahead" /\ UNCHANGED <<path, other, number>>
  BY <1>4 DEF IInv, Types, NumberTells
<1> QED
  BY <1>1, <1>2, <1>3, <1>4 DEF HeardPath

LEMMA Beacon ==
    ASSUME IInv, HelloTimer
    PROVE  IInv'
<1> USE DEF MaxHelloInterval, MinHelloInterval, FREQUENCY, HELLO_INTERVAL,
            ALLOWED_HELLO_LOSS
<1>1. /\ hello = 0 /\ hello' \in 3 .. 5 /\ phase' = phase /\ due' = due
  BY DEF HelloTimer
<1>2. CASE RecvHello
  <2>1. BeaconLifetime = 16
    BY DEF BeaconLifetime
  <2>2. /\ nb' \in Entry /\ nb'.in = TRUE
        /\ nb'.left = 12 \/ nb'.left = 18
    <3>1. HeardNeighbor = Lasting(18) \/ HeardNeighbor = Lasting(12)
      BY DEF HeardNeighbor
    <3> QED
      BY <1>2, <3>1, LastingEntry DEF RecvHello
  <2>3. silence' = 0 /\ missed' = 0
    BY <1>2 DEF RecvHello
  <2>4. /\ path' \in Entry /\ other' \in BOOLEAN
        /\ path'.in => path'.left >= 16
        /\ number' \in {"same", "ahead"}
        /\ NumberTells'
    BY <1>2, <2>1, PathHeard DEF RecvHello
  <2>5. Types'
    BY <1>1, <2>2, <2>3, <2>4, BoundAssumption DEF IInv, Types
  <2>6. DueInPhase'
    BY <1>1 DEF IInv, DueInPhase
  <2>7. NeighborInTime' /\ HeardSince'
    BY <1>1, <2>2, <2>3 DEF IInv, Types, NeighborInTime, HeardSince, Entry
  <2>8. PathInTime'
    BY <1>1, <2>4 DEF IInv, Types, PathInTime, Entry
  <2>9. MissedSince'
    BY <1>1, <2>1, <2>2, <2>3, <2>4 DEF MissedSince, Entry
  <2> QED
    BY <2>4, <2>5, <2>6, <2>7, <2>8, <2>9 DEF IInv
<1>3. CASE /\ missed' = Least(missed + 1, MaxMissed)
           /\ UNCHANGED <<nb, path, other, number, silence>>
  <2>1. /\ missed' \in 0 .. MaxMissed
        /\ missed' < MaxMissed => missed < MaxMissed /\ missed' = missed + 1
    BY <1>3, BoundAssumption DEF IInv, Types, Least
  <2>2. MissedSince'
    BY <1>1, <1>3, <2>1 DEF IInv, Types, Entry, MissedSince, BeaconLifetime
  <2>3. Types'
    BY <1>1, <1>3, <2>1 DEF IInv, Types
  <2> QED
    BY <1>1, <1>3, <2>2, <2>3 DEF IInv, DueInPhase, NeighborInTime, PathInTime,
       HeardSince, NumberTells
<1> QED
  BY <1>2, <1>3 DEF HelloTimer

(* The number of an entry that loses a path. *)
LEMMA NumberAfterLoss ==
    ASSUME Types
    PROVE  AfterLoss \subseteq {"old", "ahead"}
BY DEF AfterLoss

LEMMA PathLost ==
    ASSUME IInv, LosePath
    PROVE  /\ path' \in Entry /\ ~ path'.in /\ other' \in BOOLEAN
           /\ number' \in {"old", "same", "ahead"}
           /\ NumberTells'
<1>1. path' = Gone /\ other' = other /\ other \in BOOLEAN
  BY DEF LosePath, IInv, Types
<1>2. CASE other
  BY <1>1, <1>2, GoneEntry DEF LosePath, IInv, Types, NumberTells
<1>3. CASE ~ other
  <2>1. number' \in {"old", "ahead"}
    BY <1>3, NumberAfterLoss DEF LosePath, IInv
  <2> QED
    BY <1>1, <1>3, <2>1, GoneEntry DEF NumberTells
<1> QED
  BY <1>1, <1>2, <1>3

LEMMA Purge ==
    ASSUME IInv, NeighborTimer \/ RouteCacheTimer
    PROVE  IInv'
<1> USE DEF FREQUENCY, HELLO_INTERVAL
<1>1. /\ phase' = phase /\ hello' = hello /\ silence' = silence /\ missed' = missed
      /\ due' \subseteq due
  BY DEF NeighborTimer, RouteCacheTimer
<1>2. /\ path' \in Entry /\ other' \in BOOLEAN
      /\ number' \in {"old", "same", "ahead"}
      /\ path'.in => path'.left = path.left /\ path.in
      /\ NumberTells'
  <2>1. CASE LosePath
    BY <2>1, PathLost
  <2>2. CASE UNCHANGED <<path, other, number>>
    BY <2>2 DEF IInv, Types, NumberTells
  <2> QED
    BY <2>1, <2>2 DEF NeighborTimer, RouteCacheTimer
<1>3. nb' \in Entry /\ (nb'.in => nb'.left = nb.left /\ nb.in)
  BY GoneEntry DEF NeighborTimer, RouteCacheTimer, IInv, Types
<1>4. Types' /\ DueInPhase' /\ NumberTells'
  BY <1>1, <1>2, <1>3 DEF IInv, Types, DueInPhase
<1>5. HeardSince' /\ MissedSince'
  BY <1>1, <1>2, <1>3 DEF IInv, HeardSince, MissedSince
<1>6. NeighborInTime'
  <2>1. CASE NeighborTimer
    <3>1. nb'.in => nb.left > 0
      BY <2>1, GoneEntry DEF NeighborTimer, Overdue, IInv, Types, Entry
    <3> QED
      BY <1>1, <1>3, <3>1 DEF NeighborInTime, IInv, Types, Entry
  <2>2. CASE RouteCacheTimer
    <3>1. nb' = nb /\ ("nb" \in due' <=> "nb" \in due)
      BY <2>2 DEF RouteCacheTimer
    <3> QED
      BY <1>1, <3>1 DEF NeighborInTime, IInv
  <2> QED
    BY <2>1, <2>2
<1>7. PathInTime'
  <2>1. CASE NeighborTimer
    <3>1. "rt" \in due' <=> "rt" \in due
      BY <2>1 DEF NeighborTimer
    <3> QED
      BY <1>1, <1>2, <3>1 DEF PathInTime, IInv
  <2>2. CASE RouteCacheTimer
    <3>1. path'.in => path.left >= 0
      BY <1>2, <2>2, GoneEntry DEF RouteCacheTimer, LosePath, IInv, Types, Entry
    <3>2. "rt" \notin due'
      BY <2>2 DEF RouteCacheTimer
    <3> QED
      BY <1>1, <1>2, <3>1, <3>2 DEF PathInTime, IInv, Types, Entry
  <2> QED
    BY <2>1, <2>2
<1> QED
  BY <1>4, <1>5, <1>6, <1>7 DEF IInv

(* An entry after one unit of time. *)
LEMMA OlderEntry ==
    ASSUME NEW x \in Entry
    PROVE  /\ Older(x) \in Entry /\ Older(x).in = x.in
           /\ x.in => \/ Older(x).left = x.left - 1
                      \/ /\ Older(x).left = - MaxSilence
                         /\ Older(x).left > x.left - 1
<1> DEFINE t == Most(x.left - 1, - MaxSilence)
<1>1. /\ t \in Int
      /\ t = x.left - 1 \/ (t = - MaxSilence /\ t > x.left - 1)
  BY BoundAssumption DEF Most, Entry
<1>2. Older(x) = IF x.in THEN Lasting(t) ELSE x
  BY DEF Older
<1> QED
  BY <1>1, <1>2, LastingEntry DEF Entry

LEMMA TimePasses ==
    ASSUME IInv, Clock
    PROVE  IInv'
<1> USE DEF FREQUENCY, HELLO_INTERVAL, MaxHelloInterval
<1>1. /\ due = {} /\ hello > 0 /\ hello' = hello - 1
      /\ phase' = (phase + 1) % 4 /\ due' = Firing(phase')
      /\ nb' = Older(nb) /\ path' = Older(path)
      /\ other' = other /\ number' = number /\ missed' = missed
      /\ silence' = Least(silence + 1, MaxSilence)
  BY DEF Clock
<1>2. /\ phase' \in 0 .. 3 /\ phase' = IF phase = 3 THEN 0 ELSE phase + 1
  BY <1>1 DEF IInv, Types
<1>3. /\ due' \subseteq {"nb", "rt"}
      /\ "nb" \in due' <=> phase' = 0
      /\ "rt" \in due' <=> phase' % 2 = 0
  BY <1>1, <1>2 DEF Firing
<1>4. /\ nb' \in Entry /\ path' \in Entry /\ nb'.in = nb.in /\ path'.in = path.in
      /\ nb.in => nb'.left >= nb.left - 1
      /\ path.in => path'.left >= path.left - 1
      /\ nb.in => nb'.left = nb.left - 1 \/ nb'.left = - MaxSilence
  BY <1>1, OlderEntry, BoundAssumption DEF IInv, Types, Entry
<1>5. silence' \in 0 .. MaxSilence /\ silence' <= silence + 1
  BY <1>1, BoundAssumption DEF IInv, Types, Least
<1>6. Types'
  BY <1>1, <1>2, <1>3, <1>4, <1>5 DEF IInv, Types
<1>7. DueInPhase'
  BY <1>3 DEF DueInPhase
<1>8. NeighborInTime'
  BY <1>1, <1>2, <1>3, <1>4 DEF IInv, Types, NeighborInTime, Entry
<1>9. PathInTime'
  BY <1>1, <1>2, <1>3, <1>4 DEF IInv, Types, PathInTime, Entry
<1>10. HeardSince'
  BY <1>4, <1>5, BoundAssumption DEF IInv, Types, HeardSince, Entry
<1>11. MissedSince'
  BY <1>1, <1>4 DEF IInv, Types, MissedSince, Entry, BeaconLifetime, ALLOWED_HELLO_LOSS
<1>12. NumberTells'
  BY <1>1, <1>4 DEF IInv, NumberTells
<1> QED
  BY <1>6, <1>7, <1>8, <1>9, <1>10, <1>11, <1>12 DEF IInv

(* Steps that concern the paths only: the direct path is gone, untouched,  *)
(* or has as much time left as a beacon gives.                             *)
LEMMA PathsOnly ==
    ASSUME IInv,
           path' \in Entry, other' \in BOOLEAN,
           number' \in {"old", "same", "ahead"},
           path'.in => path'.left >= 16 \/ path' = path,
           NumberTells',
           UNCHANGED <<phase, due, hello, nb, silence, missed>>
    PROVE  IInv'
<1>1. Types'
  BY DEF IInv, Types
<1>2. PathInTime'
  BY DEF IInv, Types, PathInTime, FREQUENCY, Entry
<1>3. MissedSince'
  <2>1. CASE path' = path
    BY <2>1 DEF IInv, MissedSince
  <2>2. CASE path' # path
    BY <2>2 DEF IInv, Types, Entry, MissedSince, BeaconLifetime, HELLO_INTERVAL,
       ALLOWED_HELLO_LOSS, MaxHelloInterval
  <2> QED
    BY <2>1, <2>2
<1> QED
  BY <1>1, <1>2, <1>3 DEF IInv, DueInPhase, NeighborInTime, HeardSince

LEMMA StepGood == IInv /\ [Next]_vars => IInv'
<1> SUFFICES ASSUME IInv, [Next]_vars PROVE IInv'
  OBVIOUS
<1>0. /\ path \in Entry /\ other \in BOOLEAN /\ NumberTells
      /\ number \in {"old", "same", "ahead"}
  BY DEF IInv, Types
<1>1. CASE Move \/ Activity \/ UNCHANGED vars
  BY <1>0, <1>1, PathsOnly DEF Move, Activity, vars, NumberTells
<1>2. CASE Renumber
  <2>1. CASE path' = Lasting(REV_ROUTE_LIFE) /\ other' = FALSE /\ number' = "same"
    <3>1. path' \in Entry /\ path'.in /\ path'.left >= 16
      BY <2>1, LastingEntry DEF REV_ROUTE_LIFE
    <3> QED
      BY <1>2, <2>1, <3>1, PathsOnly DEF Renumber, NumberTells
  <2>2. CASE number' = "old" /\ UNCHANGED <<path, other>>
    BY <1>0, <1>2, <2>2, PathsOnly DEF Renumber, NumberTells
  <2> QED
    BY <1>2, <2>1, <2>2 DEF Renumber
<1>3. CASE HeardElsewhere
  <2>1. CASE number = "old" /\ path' = Gone /\ number' \in {"old", "same"}
    BY <1>3, <2>1, GoneEntry, PathsOnly DEF HeardElsewhere, NumberTells
  <2>2. CASE (path.in \/ other) /\ UNCHANGED <<path, number>>
    BY <1>0, <1>3, <2>2, PathsOnly DEF HeardElsewhere, NumberTells
  <2> QED
    BY <1>3, <2>1, <2>2 DEF HeardElsewhere
<1>4. CASE RecvReply \/ RecvRequest
  <2>1. PICK t \in Int : t >= 16 /\ HeardPath(t)
    BY <1>4 DEF RecvReply, RecvRequest, MY_ROUTE_TIMEOUT, REV_ROUTE_LIFE
  <2>2. UNCHANGED <<phase, due, hello, nb, silence, missed>>
    BY <1>4 DEF RecvReply, RecvRequest
  <2> QED
    BY <2>1, <2>2, PathHeard, PathsOnly
<1>5. CASE OtherLost
  <2>1. CASE path.in
    BY <1>0, <1>5, <2>1, PathsOnly DEF OtherLost, NumberTells
  <2>2. CASE ~ path.in
    <3>1. number' \in {"old", "ahead"}
      BY <1>5, <2>2, NumberAfterLoss DEF OtherLost, IInv
    <3> QED
      BY <1>0, <1>5, <2>2, <3>1, PathsOnly DEF OtherLost, NumberTells
  <2> QED
    BY <2>1, <2>2
<1>6. CASE Forward
  <2>1. path' \in Entry /\ path'.in /\ path'.left >= 16
    BY <1>6, LastingEntry DEF Forward, ACTIVE_ROUTE_TIMEOUT
  <2> QED
    BY <1>0, <1>6, <2>1, PathsOnly DEF Forward, NumberTells
<1>7. CASE Timers
  BY <1>7, Beacon, Purge, TimePasses DEF Timers
<1> QED
  BY <1>1, <1>2, <1>3, <1>4, <1>5, <1>6, <1>7 DEF Next

THEOREM Invariance == Spec => []IInv
BY InitGood, StepGood, PTL DEF Spec

(* A neighbor that is silent is deleted within five and a half seconds, and*)
(* no path is used more than half a second after its time: the periods of  *)
(* the timers keep the deadlines, in whatever order they fire.             *)
THEOREM DeadlinesAreKept == Spec => []DeadlinesKept
<1>1. IInv => DeadlinesKept
  <2> SUFFICES ASSUME IInv PROVE DeadlinesKept
    OBVIOUS
  <2>1. ASSUME nb.in
        PROVE  silence < HeardNeighbor.left + HELLO_INTERVAL
    <3>1. HeardNeighbor.left = 18
      BY <2>1, LastingEntry DEF HeardNeighbor, HELLO_INTERVAL, ALLOWED_HELLO_LOSS
    <3>2. silence + nb.left <= 18 /\ nb.left >= -3
      BY <2>1 DEF IInv, Types, Entry, HeardSince, NeighborInTime, DueInPhase,
                  HELLO_INTERVAL
    <3> QED
      BY <3>1, <3>2 DEF IInv, Types, Entry, HELLO_INTERVAL
  <2>2. ASSUME path.in
        PROVE  path.left >= - FREQUENCY
    BY <2>2 DEF IInv, Types, Entry, PathInTime, DueInPhase, FREQUENCY
  <2> QED
    BY <2>1, <2>2 DEF DeadlinesKept
<1> QED
  BY <1>1, Invariance, PTL

(* An entry with the neighbor's own number has a path, whatever requests,  *)
(* beacons, losses and expirations it went through.                        *)
THEOREM SameNumberUp == Spec => []SameNumberIsUp
<1>1. IInv => SameNumberIsUp
  BY DEF IInv, NumberTells, SameNumberIsUp
<1> QED
  BY <1>1, Invariance, PTL

(* Two beacons in a row must be missed before a neighbor is deleted, or    *)
(* its direct path lost other than to a newer number that came by another  *)
(* node.  (Beacons must be counted at least that far.)                     *)
THEOREM NeverAFalseAlarm ==
    ASSUME MaxMissed >= 2
    PROVE  Spec => NoFalseAlarm
<1>1. ASSUME IInv, [Next]_vars
      PROVE  /\ nb.in /\ ~ nb'.in => nb.left <= 0
             /\ path.in /\ ~ path'.in
                   => \/ path.left < 0
                      \/ nb.in /\ nb.left <= 0
                      \/ number = "old" /\ other'
  <2>1. CASE NeighborTimer
    BY <2>1 DEF NeighborTimer, Overdue
  <2>2. CASE RouteCacheTimer
    BY <2>2 DEF RouteCacheTimer
  <2>3. CASE HelloTimer
    <3>1. CASE RecvHello
      <4>1. nb'.in
        <5>1. nb' = HeardNeighbor
          BY <3>1 DEF RecvHello
        <5>2. HeardNeighbor = Lasting(18) \/ HeardNeighbor = Lasting(12)
          BY DEF HeardNeighbor, ALLOWED_HELLO_LOSS, HELLO_INTERVAL
        <5> QED
          BY <5>1, <5>2, LastingEntry
      <4>2. BeaconLifetime = 16
        BY DEF BeaconLifetime, ALLOWED_HELLO_LOSS, HELLO_INTERVAL
      <4>3. path.in => path'.in
        BY <1>1, <3>1, <4>2, PathHeard DEF RecvHello
      <4> QED
        BY <4>1, <4>3
    <3>2. CASE UNCHANGED <<nb, path, other, number, silence>>
      BY <3>2
    <3> QED
      BY <2>3, <3>1, <3>2 DEF HelloTimer
  <2>4. CASE Clock
    BY <1>1, <2>4, OlderEntry DEF Clock, IInv, Types
  <2>5. CASE RecvReply \/ RecvRequest
    <3>1. PICK t \in Int : t >= 16 /\ HeardPath(t)
      BY <2>5 DEF RecvReply, RecvRequest, MY_ROUTE_TIMEOUT, REV_ROUTE_LIFE
    <3>2. nb' = nb
      BY <2>5 DEF RecvReply, RecvRequest
    <3> QED
      BY <1>1, <3>1, <3>2, PathHeard
  <2>6. CASE HeardElsewhere
    BY <2>6 DEF HeardElsewhere
  <2>7. CASE Renumber \/ Forward \/ OtherLost
    BY <2>7, LastingEntry DEF Renumber, Forward, OtherLost, REV_ROUTE_LIFE,
       ACTIVE_ROUTE_TIMEOUT
  <2>8. CASE Move \/ Activity \/ UNCHANGED vars
    BY <2>8 DEF Move, Activity, vars
  <2> QED
    BY <1>1, <2>1, <2>2, <2>3, <2>4, <2>5, <2>6, <2>7, <2>8 DEF Next, Timers
<1>2. ASSUME IInv, (nb.in /\ nb.left <= 0) \/ (path.in /\ path.left < 0)
      PROVE  missed >= 2
  BY <1>2, BoundAssumption DEF IInv, Types, Entry, MissedSince, BeaconLifetime,
     HELLO_INTERVAL, ALLOWED_HELLO_LOSS, MaxHelloInterval
<1>3. IInv /\ [Next]_vars
        => [/\ nb.in /\ ~ nb'.in => missed >= 2
            /\ path.in /\ ~ path'.in
                 => missed >= 2 \/ (number = "old" /\ other')]_vars
  BY <1>1, <1>2
<1> QED
  BY <1>3, Invariance, PTL DEF Spec, NoFalseAlarm
=============================================================================
