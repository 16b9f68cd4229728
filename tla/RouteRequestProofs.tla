------------------------- MODULE RouteRequestProofs --------------------------
(***************************************************************************)
(* Proofs about RouteRequest: how often a network is searched for one      *)
(* destination and how long a packet waits, for every timing.              *)
(***************************************************************************)
EXTENDS RouteRequest, TLAPS

(* The requests that sendRequest still makes before it gives up: the rings *)
(* that are left and the network-wide searches.                            *)
Rings(last) == IF last < TTL_THRESHOLD THEN (TTL_THRESHOLD + 1 - last) \div 2 ELSE 0

Asks == Rings(Larger(last_ttl, last_hops)) + (RREQ_RETRIES + 1 - req_cnt)

(* What a request can cost a waiting packet. *)
Cost == MaxWait + Frequency

(* The time a packet has waited, as far as it counts, and the time it may  *)
(* still have to wait.                                                     *)
Pending == IF wait > 0 THEN (Frequency - poll) + wait ELSE 0

Patience == age * Frequency + Asks * Cost + Pending

Numbers ==
    /\ req_cnt \in 0 .. RREQ_RETRIES + 1
    /\ last_ttl \in Nat
    /\ last_hops \in 1 .. 256
    /\ wait \in 0 .. MaxWait
    /\ poll \in 0 .. Frequency
    /\ age \in Nat
    /\ ttl \in 0 .. NETWORK_DIAMETER

Types == up \in BOOLEAN /\ waiting \in BOOLEAN /\ Numbers

(* Only packets that wait for a route have an age. *)
AgeOfWaiting == (up => ~ waiting) /\ (~ waiting => age = 0)

IInv == Types /\ AgeOfWaiting /\ Patience <= 8 * Cost

---------------------------------------------------------------------------
(* Multiples. *)

LEMMA Multiple ==
    ASSUME NEW k \in Nat, NEW c \in Nat
    PROVE  k * c \in Nat /\ (k + 1) * c = k * c + c
OBVIOUS

LEMMA MultipleGrows ==
    ASSUME NEW a \in Nat, NEW b \in Nat, NEW c \in Nat, a <= b
    PROVE  a * c <= b * c
<1> DEFINE k == b - a
<1>1. k \in Nat /\ b = a + k
  OBVIOUS
<1>2. k * c \in Nat
  BY <1>1, Multiple
<1>3. (a + k) * c = a * c + k * c
  BY <1>1
<1>4. a * c \in Nat
  BY Multiple
<1> HIDE DEF k
<1> QED
  BY <1>1, <1>2, <1>3, <1>4

LEMMA CostType == Cost \in Nat /\ Frequency \in Nat \ {0} /\ MaxWait \in Nat \ {0}
BY TimeAssumption DEF Cost

---------------------------------------------------------------------------
(* What is left to ask. *)

LEMMA LastRange ==
    ASSUME Types
    PROVE  /\ Larger(last_ttl, last_hops) \in Nat
           /\ Larger(last_ttl, last_hops) >= 1
           /\ Larger(last_ttl, last_hops) >= last_hops
BY DEF Types, Numbers, Larger

LEMMA RingsRange ==
    ASSUME NEW last \in Nat, last >= 1
    PROVE  Rings(last) \in 0 .. 3
<1>1. CASE last < 7
  <2>1. last \in {1, 2, 3, 4, 5, 6}
    BY <1>1
  <2> QED
    BY <2>1 DEF Rings, TTL_THRESHOLD
<1>2. CASE ~ (last < 7)
  BY <1>2 DEF Rings, TTL_THRESHOLD
<1> QED
  BY <1>1, <1>2

LEMMA AsksRange == Types => Asks \in 0 .. 7
BY LastRange, RingsRange DEF Asks, Types, Numbers, RREQ_RETRIES

LEMMA AsksRangeAfter == Types' => (Asks \in 0 .. 7)'
BY AsksRange, PTL

(* Every request leaves one less to ask. *)
LEMMA AskFewer ==
    ASSUME Types, Ask, last_hops' = last_hops
    PROVE  /\ req_cnt' \in 0 .. RREQ_RETRIES + 1
           /\ last_ttl' \in Nat /\ ttl' \in 0 .. NETWORK_DIAMETER
           /\ wait' \in 0 .. MaxWait
           /\ Asks' = Asks - 1
<1> DEFINE last == Larger(last_ttl, last_hops)
           wide == last # 0 /\ last >= TTL_THRESHOLD
           cnt == IF wide THEN req_cnt + 1 ELSE req_cnt
<1>1. last \in Nat /\ last >= 1 /\ last >= last_hops
  BY LastRange
<1>2. /\ req_cnt <= RREQ_RETRIES /\ req_cnt' = cnt
      /\ ttl' = RequestTtl(last) /\ last_ttl' = RequestTtl(last)
      /\ wait' = RequestTimeout(RequestTtl(last), cnt)
  BY DEF Ask
<1>3. Asks = Rings(last) + (RREQ_RETRIES + 1 - req_cnt)
  BY DEF Asks
<1>4. Asks' = Rings(Larger(last_ttl', last_hops)) + (RREQ_RETRIES + 1 - req_cnt')
  BY DEF Asks
<1> HIDE DEF last
<1>5. cnt \in 0 .. RREQ_RETRIES + 1
  BY <1>2 DEF Types, Numbers, RREQ_RETRIES
<1>6. RequestTtl(last) \in 0 .. 30
  BY <1>1 DEF RequestTtl, TTL_START, TTL_THRESHOLD, TTL_INCREMENT, NETWORK_DIAMETER
<1>7. wait' \in 0 .. MaxWait
  <2>1. Larger(cnt, 1) \in Nat
    BY <1>5 DEF Larger, RREQ_RETRIES
  <2>2. RttPerHop * RequestTtl(last) \in Nat
    BY <1>6, TimeAssumption, Multiple
  <2>3. RttPerHop * RequestTtl(last) * Larger(cnt, 1) \in Nat
    BY <2>1, <2>2, Multiple
  <2> QED
    BY <1>2, <2>3, CostType DEF RequestTimeout, Smaller
<1>8. CASE last >= 7
  <2>1. Rings(last) = 0 /\ wide
    BY <1>1, <1>8 DEF Rings, TTL_THRESHOLD
  <2>2. last_ttl' = 30
    BY <1>1, <1>2, <1>8 DEF RequestTtl, TTL_START, TTL_THRESHOLD, NETWORK_DIAMETER
  <2>3. Rings(Larger(last_ttl', last_hops)) = 0
    BY <2>2 DEF Larger, Rings, TTL_THRESHOLD, Types, Numbers
  <2> QED
    BY <1>2, <1>3, <1>4, <1>5, <1>6, <1>7, <2>1, <2>2, <2>3
    DEF Types, Numbers, RREQ_RETRIES, NETWORK_DIAMETER
<1>9. CASE last < 7
  <2>1. ~ wide
    BY <1>1, <1>9 DEF TTL_THRESHOLD
  <2>2. last_ttl' = last + 2
    BY <1>1, <1>2, <1>9 DEF RequestTtl, TTL_THRESHOLD, TTL_INCREMENT
  <2>3. Larger(last_ttl', last_hops) = last + 2
    BY <1>1, <2>2 DEF Larger, Types, Numbers
  <2>4. Rings(last + 2) = Rings(last) - 1
    <3>1. last \in {1, 2, 3, 4, 5, 6}
      BY <1>1, <1>9
    <3> QED
      BY <3>1 DEF Rings, TTL_THRESHOLD
  <2>5. Rings(last) \in 0 .. 3
    BY <1>1, RingsRange
  <2> QED
    BY <1>1, <1>2, <1>3, <1>4, <1>5, <1>6, <1>7, <2>1, <2>2, <2>3, <2>4, <2>5
    DEF Types, Numbers, RREQ_RETRIES, NETWORK_DIAMETER
<1> QED
  BY <1>1, <1>8, <1>9

---------------------------------------------------------------------------
(* The measure. *)

LEMMA PendingRange == Types => Pending \in Nat /\ Pending <= Cost
BY CostType DEF Types, Numbers, Pending, Cost

LEMMA PendingRangeAfter == Types' => (Pending \in Nat)'
<1>1. Types => Pending \in Nat
  BY PendingRange
<1> QED
  BY <1>1, PTL

(* With no packet waiting the measure is at most its bound. *)
LEMMA NobodyWaits == Types /\ age = 0 => Patience <= 8 * Cost
<1> SUFFICES ASSUME Types, age = 0 PROVE Patience <= 8 * Cost
  OBVIOUS
<1>1. Asks * Cost <= 7 * Cost /\ Asks * Cost \in Nat
  BY AsksRange, CostType, MultipleGrows, Multiple
<1>2. age * Frequency = 0
  BY CostType
<1> QED
  BY <1>1, <1>2, PendingRange, CostType DEF Patience

LEMMA NobodyWaitsAfter == Types' /\ age' = 0 => Patience' <= 8 * Cost
<1>1. (Types /\ age = 0 => Patience <= 8 * Cost)'
  BY NobodyWaits, PTL
<1> QED
  BY <1>1 DEF Cost

(* A request sets the wait, at any time before the next run of rt_purge. *)
LEMMA WaitCost ==
    ASSUME NEW w \in Nat, w <= MaxWait, NEW l \in Nat, l <= Frequency
    PROVE  (Frequency - l) + w <= Cost
BY CostType DEF Cost

LEMMA WholePeriod ==
    ASSUME NEW w \in Nat, w <= MaxWait
    PROVE  ((Frequency - Frequency) + w) + Frequency <= MaxWait + Frequency
BY CostType

(* The measure after a step, from what the step does to its parts. *)
LEMMA PatienceStep ==
    ASSUME Types, Types', Patience <= 8 * Cost,
           \/ /\ age' = age /\ Asks' = Asks /\ Pending' <= Pending
           \/ /\ age' <= age + 1 /\ Asks' = Asks
              /\ Pending' + Frequency <= Pending
           \/ /\ age' = age /\ Asks' = Asks - 1 /\ Pending' <= Pending + Cost
           \/ /\ age' <= age + 1 /\ Asks' = Asks - 1
              /\ Pending' + Frequency <= Pending + Cost
    PROVE  Patience' <= 8 * Cost
<1> DEFINE a == age * Frequency
           b == age' * Frequency
           x == Asks * Cost
           y == Asks' * Cost
<1>1. /\ age \in Nat /\ age' \in Nat /\ Asks \in Nat /\ Asks' \in Nat
      /\ Cost \in Nat /\ Frequency \in Nat
  BY AsksRange, AsksRangeAfter, CostType DEF Types, Numbers
<1>2. a \in Nat /\ b \in Nat /\ x \in Nat /\ y \in Nat
  BY <1>1, Multiple
<1>3. Pending \in Nat /\ Pending' \in Nat
  BY PendingRange, PendingRangeAfter
<1>4. age' = age => b = a
  OBVIOUS
<1>5. age' <= age + 1 => b <= a + Frequency
  <2>1. ASSUME age' <= age + 1 PROVE age' * Frequency <= (age + 1) * Frequency
    <3> DEFINE k == age + 1
    <3>1. k \in Nat /\ age' <= k
      BY <1>1, <2>1
    <3> HIDE DEF k
    <3>2. age' * Frequency <= k * Frequency
      BY <1>1, <3>1, MultipleGrows
    <3> QED
      BY <3>2 DEF k
  <2>2. (age + 1) * Frequency = a + Frequency
    BY <1>1, Multiple
  <2> QED
    BY <2>1, <2>2
<1>6. Asks' = Asks => y = x
  OBVIOUS
<1>7. Asks' = Asks - 1 => y + Cost = x
  <2> SUFFICES ASSUME Asks' = Asks - 1 PROVE y + Cost = x
    OBVIOUS
  <2>1. Asks = Asks' + 1
    BY <1>1
  <2>2. (Asks' + 1) * Cost = y + Cost
    BY <1>1, Multiple
  <2> QED
    BY <2>1, <2>2
<1>8. Patience = a + x + Pending
  BY DEF Patience
<1>9. Patience' = b + y + Pending'
  BY DEF Patience, Cost
<1> HIDE DEF a, b, x, y
<1> DEFINE most == 8 * Cost
           p == Pending
           q == Pending'
<1>10. \/ b = a /\ y = x /\ q <= p
       \/ b <= a + Frequency /\ y = x /\ q + Frequency <= p
       \/ b = a /\ y + Cost = x /\ q <= p + Cost
       \/ b <= a + Frequency /\ y + Cost = x /\ q + Frequency <= p + Cost
  BY <1>4, <1>5, <1>6, <1>7
<1>11. most \in Nat /\ a + x + p <= most /\ p \in Nat /\ q \in Nat
  BY <1>1, <1>3, <1>8
<1> HIDE DEF most, p, q
<1>12. b + y + q <= most
  <2>1. CASE b = a /\ y = x /\ q <= p
    BY <1>2, <1>11, <2>1
  <2>2. CASE b <= a + Frequency /\ y = x /\ q + Frequency <= p
    BY <1>1, <1>2, <1>11, <2>2
  <2>3. CASE b = a /\ y + Cost = x /\ q <= p + Cost
    BY <1>1, <1>2, <1>11, <2>3
  <2>4. CASE b <= a + Frequency /\ y + Cost = x /\ q + Frequency <= p + Cost
    BY <1>1, <1>2, <1>11, <2>4
  <2> QED
    BY <1>10, <2>1, <2>2, <2>3, <2>4
<1> QED
  BY <1>9, <1>12 DEF most, q

---------------------------------------------------------------------------
(* The invariant. *)

LEMMA InitIInv == Init => IInv
<1> SUFFICES ASSUME Init PROVE IInv
  OBVIOUS
<1>1. Types /\ AgeOfWaiting
  <2>1. Numbers
    BY CostType DEF Init, Numbers, RREQ_RETRIES, NETWORK_DIAMETER
  <2> QED
    BY <2>1, Zenon DEF Init, Types, AgeOfWaiting
<1>2. age = 0
  BY DEF Init
<1> QED
  BY <1>1, <1>2, NobodyWaits DEF IInv

LEMMA OlderRange == age \in Nat => Older \in Nat /\ Older <= age + 1
BY TimeAssumption DEF Older, Smaller

(* sendRequest, called by the application or by rt_purge. *)
LEMMA AppSendKeeps == IInv /\ AppSend => IInv'
<1> SUFFICES ASSUME IInv, AppSend PROVE IInv'
  OBVIOUS
<1>0. Types /\ AgeOfWaiting /\ Patience <= 8 * Cost
  BY DEF IInv
<1>1. UNCHANGED <<up, last_hops, poll>>
  BY DEF AppSend
<1>2. CASE up
  <2>1. UNCHANGED <<up, req_cnt, last_ttl, last_hops, wait, poll, waiting, age, ttl>>
    BY <1>1, <1>2 DEF AppSend, sendRequest
  <2> QED
    BY <1>0, <2>1
    DEF IInv, Types, Numbers, AgeOfWaiting, Patience, Asks, Pending, Cost
<1>3. CASE /\ ~ up /\ wait > 0
           /\ waiting' = TRUE /\ age' = age
           /\ UNCHANGED <<req_cnt, last_ttl, wait, ttl>>
  <2>1. Types' /\ AgeOfWaiting'
    BY <1>0, <1>1, <1>3 DEF Types, Numbers, AgeOfWaiting
  <2>2. Asks' = Asks /\ Pending' = Pending
    BY <1>1, <1>3 DEF Asks, Pending
  <2>3. Pending' <= Pending
    BY <1>0, <2>2, PendingRange
  <2> QED
    BY <1>0, <1>3, <2>1, <2>2, <2>3, PatienceStep DEF IInv, Cost
<1>4. CASE ~ up /\ wait = 0 /\ Ask /\ waiting' = TRUE /\ age' = age
  <2>1. /\ req_cnt' \in 0 .. RREQ_RETRIES + 1
        /\ last_ttl' \in Nat /\ ttl' \in 0 .. NETWORK_DIAMETER
        /\ wait' \in 0 .. MaxWait
        /\ Asks' = Asks - 1
    BY <1>0, <1>1, <1>4, AskFewer
  <2>2. Types' /\ AgeOfWaiting'
    BY <1>0, <1>1, <1>4, <2>1 DEF Types, Numbers, AgeOfWaiting
  <2>3. Pending' <= Pending + Cost
    <3>1. Pending = 0
      BY <1>4 DEF Pending
    <3>2. /\ wait' \in Nat /\ wait' <= MaxWait
          /\ poll \in Nat /\ poll' \in Nat /\ poll' <= Frequency
          /\ Frequency \in Nat /\ MaxWait \in Nat
      BY <1>0, <1>1, <2>1, CostType DEF Types, Numbers
    <3>3. Pending' = (Frequency - poll') + wait' \/ Pending' = 0
      BY DEF Pending
    <3>4. Pending' <= MaxWait + Frequency
      <4>1. CASE Pending' = 0
        BY <3>2, <4>1
      <4>2. CASE Pending' = (Frequency - poll') + wait'
        <5>1. (Frequency - poll') + wait' <= Cost
          BY <3>2, WaitCost
        <5>2. Pending' <= Cost
          BY <4>2, <5>1
        <5> QED
          BY <5>2 DEF Cost
      <4> QED
        BY <3>3, <4>1, <4>2
    <3>5. Pending' <= Cost
      BY <3>4 DEF Cost
    <3> QED
      BY <3>1, <3>5, CostType
  <2> QED
    BY <1>0, <1>4, <2>1, <2>2, <2>3, PatienceStep DEF IInv, Cost
<1>5. CASE ~ up /\ wait = 0 /\ Abandon /\ waiting' = FALSE /\ age' = 0
  <2>1. Types' /\ AgeOfWaiting' /\ age' = 0
    <3>1. Numbers'
      BY <1>0, <1>1, <1>5, CostType DEF Abandon, Types, Numbers, RREQ_RETRIES
    <3> QED
      BY <1>0, <1>1, <1>5, <3>1, Zenon DEF Types, AgeOfWaiting
  <2> QED
    BY <2>1, NobodyWaitsAfter DEF IInv, Cost
<1> QED
  BY <1>2, <1>3, <1>4, <1>5 DEF AppSend, sendRequest

LEMMA RtPurgeKeeps == IInv /\ RtPurge => IInv'
<1> SUFFICES ASSUME IInv, RtPurge PROVE IInv'
  OBVIOUS
<1>0. Types /\ AgeOfWaiting /\ Patience <= 8 * Cost
  BY DEF IInv
<1>1. poll = 0 /\ poll' = Frequency /\ last_hops' = last_hops
  BY DEF RtPurge
<1>2. CASE age' = 0 /\ Types' /\ AgeOfWaiting'
  BY <1>2, NobodyWaitsAfter DEF IInv, Cost
<1>3. CASE /\ up
           /\ up' \in BOOLEAN
           /\ waiting' = (waiting /\ up')
           /\ age' = IF up' THEN age ELSE 0
           /\ UNCHANGED <<req_cnt, last_ttl, wait, ttl>>
  <2>1. age' = 0 /\ waiting' = FALSE
    BY <1>0, <1>3 DEF AgeOfWaiting, Types, Numbers
  <2>2. Types' /\ AgeOfWaiting'
    BY <1>0, <1>1, <1>3, <2>1, CostType DEF Types, Numbers, AgeOfWaiting
  <2> QED
    BY <1>2, <2>1, <2>2
<1>4. CASE /\ ~ up /\ ~ waiting
           /\ UNCHANGED <<up, req_cnt, last_ttl, wait, waiting, age, ttl>>
  <2>1. Types' /\ AgeOfWaiting' /\ age' = 0
    BY <1>0, <1>1, <1>4, CostType DEF Types, Numbers, AgeOfWaiting
  <2> QED
    BY <1>2, <2>1
<1>5. Older \in Nat /\ Older <= age + 1
  BY <1>0, OlderRange DEF Types, Numbers
<1>6. CASE /\ ~ up /\ up' = up /\ wait > 0
           /\ waiting' = TRUE /\ age' = Older
           /\ UNCHANGED <<req_cnt, last_ttl, wait, ttl>>
  <2>1. Types' /\ AgeOfWaiting'
    BY <1>0, <1>1, <1>5, <1>6, CostType DEF Types, Numbers, AgeOfWaiting
  <2>2. Asks' = Asks
    BY <1>1, <1>6 DEF Asks
  <2>3. Pending' + Frequency <= Pending
    BY <1>0, <1>1, <1>6, CostType DEF Pending, Types, Numbers
  <2>4. age' <= age + 1
    BY <1>5, <1>6
  <2> QED
    BY <1>0, <2>1, <2>2, <2>3, <2>4, PatienceStep DEF IInv, Cost
<1>7. CASE /\ ~ up /\ up' = up /\ wait = 0 /\ Ask
           /\ waiting' = TRUE /\ age' = Older
  <2>1. /\ req_cnt' \in 0 .. RREQ_RETRIES + 1
        /\ last_ttl' \in Nat /\ ttl' \in 0 .. NETWORK_DIAMETER
        /\ wait' \in 0 .. MaxWait
        /\ Asks' = Asks - 1
    BY <1>0, <1>1, <1>7, AskFewer
  <2>2. Types' /\ AgeOfWaiting'
    BY <1>0, <1>1, <1>5, <1>7, <2>1, CostType DEF Types, Numbers, AgeOfWaiting
  <2>3. Pending' + Frequency <= Pending + Cost
    <3>1. Pending = 0
      BY <1>7 DEF Pending
    <3>2. /\ wait' \in Nat /\ wait' <= MaxWait
          /\ poll \in Nat /\ poll' \in Nat /\ poll' <= Frequency
          /\ Frequency \in Nat /\ MaxWait \in Nat
      BY <1>0, <1>1, <2>1, CostType DEF Types, Numbers
    <3>3. Pending' = (Frequency - poll') + wait' \/ Pending' = 0
      BY DEF Pending
    <3>4. Pending' + Frequency <= MaxWait + Frequency
      <4>1. CASE Pending' = 0
        BY <3>2, <4>1
      <4>2. CASE Pending' = (Frequency - poll') + wait'
        <5>1. Pending' = (Frequency - Frequency) + wait'
          BY <1>1, <4>2
        <5> QED
          BY <3>2, <5>1, WholePeriod
      <4> QED
        BY <3>3, <4>1, <4>2
    <3>5. Pending' + Frequency <= Cost
      BY <3>4 DEF Cost
    <3> QED
      BY <3>1, <3>5, CostType
  <2>4. age' <= age + 1
    BY <1>5, <1>7
  <2> QED
    BY <1>0, <2>1, <2>2, <2>3, <2>4, PatienceStep DEF IInv, Cost
<1>8. CASE ~ up /\ up' = up /\ wait = 0 /\ Abandon /\ waiting' = FALSE /\ age' = 0
  <2>1. Types' /\ AgeOfWaiting' /\ age' = 0
    <3>1. Numbers'
      BY <1>0, <1>1, <1>8, CostType DEF Abandon, Types, Numbers, RREQ_RETRIES
    <3> QED
      BY <1>0, <1>1, <1>8, <3>1, Zenon DEF Types, AgeOfWaiting
  <2> QED
    BY <1>2, <2>1
<1> QED
  BY <1>3, <1>4, <1>6, <1>7, <1>8 DEF RtPurge, sendRequest

(* A route found settles everything. *)
LEMMA RouteFoundKeeps ==
    ASSUME NEW h \in Hops
    PROVE  IInv /\ RouteFound(h) => IInv'
<1> SUFFICES ASSUME IInv, RouteFound(h) PROVE IInv'
  OBVIOUS
<1>1. Types' /\ AgeOfWaiting' /\ age' = 0
  <2>1. Numbers'
    BY HopsAssumption, CostType DEF IInv, RouteFound, Types, Numbers, RREQ_RETRIES
  <2> QED
    BY <2>1, Zenon DEF IInv, RouteFound, Types, AgeOfWaiting
<1> QED
  BY <1>1, NobodyWaitsAfter DEF IInv, Cost

LEMMA RouteLostKeeps == IInv /\ RouteLost => IInv'
BY DEF IInv, RouteLost, Types, Numbers, AgeOfWaiting, Patience, Asks, Pending, Cost

(* What the clock takes from the wait it adds to the age. *)
LEMMA TickKeeps == IInv /\ Tick => IInv'
<1> SUFFICES ASSUME IInv, Tick PROVE IInv'
  OBVIOUS
<1>0. Types /\ AgeOfWaiting /\ Patience <= 8 * Cost
  BY DEF IInv
<1>1. /\ poll > 0 /\ poll' = poll - 1 /\ wait' = Left(wait)
      /\ UNCHANGED <<up, req_cnt, last_ttl, last_hops, waiting, age, ttl>>
  BY DEF Tick
<1>2. Types' /\ AgeOfWaiting'
  BY <1>0, <1>1, CostType DEF Types, Numbers, AgeOfWaiting, Left
<1>3. Asks' = Asks /\ age' = age
  BY <1>1 DEF Asks
<1>4. Pending' <= Pending
  BY <1>0, <1>1, CostType DEF Types, Numbers, Pending, Left
<1> QED
  BY <1>0, <1>2, <1>3, <1>4, PatienceStep DEF IInv, Cost

LEMMA StepKeeps == IInv /\ [Next]_vars => IInv'
<1> SUFFICES ASSUME IInv, [Next]_vars PROVE IInv'
  OBVIOUS
<1>1. CASE AppSend
  BY <1>1, AppSendKeeps
<1>2. CASE RtPurge
  BY <1>2, RtPurgeKeeps
<1>3. CASE \E h \in Hops : RouteFound(h)
  BY <1>3, RouteFoundKeeps
<1>4. CASE RouteLost
  BY <1>4, RouteLostKeeps
<1>5. CASE Tick
  BY <1>5, TickKeeps
<1>6. CASE UNCHANGED vars
  BY <1>6 DEF vars, IInv, Types, Numbers, AgeOfWaiting, Patience, Asks, Pending, Cost
<1> QED
  BY <1>1, <1>2, <1>3, <1>4, <1>5, <1>6 DEF Next

(* The measure never exceeds what eight requests can cost, whatever the    *)
(* application, the clock and the route cache timer do.                    *)
THEOREM Invariance == Spec => []IInv
BY InitIInv, StepKeeps, PTL DEF Spec

---------------------------------------------------------------------------
(* Every variable keeps its type: in particular rt_req_cnt never wraps and *)
(* no request has a TTL above NETWORK_DIAMETER.                            *)
THEOREM TypeCorrect == Spec => []TypeOK
<1>1. IInv => TypeOK
  BY DEF IInv, Types, Numbers, TypeOK, RREQ_RETRIES
<1> QED
  BY <1>1, Invariance, PTL

(* sendRequest searches the whole network at most RREQ_RETRIES + 1 times   *)
(* before it gives up, for every rate at which packets arrive and rt_purge *)
(* runs, and for every length of the routes that were found and lost: the  *)
(* run of SearchesAsAllowed shows that the one more is reached.            *)
THEOREM SearchesAreBounded == Spec => [](req_cnt <= RREQ_RETRIES + 1)
<1>1. IInv => req_cnt <= RREQ_RETRIES + 1
  BY DEF IInv, Types, Numbers, RREQ_RETRIES
<1> QED
  BY <1>1, Invariance, PTL

(* Eight times the longest wait and one period of rt_purge, and one period *)
(* more, are less than the time a packet may stay in the send buffer: then *)
(* sendRequest always settles it first, with a route or a drop.  In the    *)
(* code that is 8 * (50 + 25) + 25 = 625 units of 1500.                    *)
THEOREM Settled ==
    ASSUME 8 * (MaxWait + Frequency) + Frequency < RtqTimeout
    PROVE  Spec => []SettledBeforeTimeout
<1>1. IInv => SettledBeforeTimeout
  <2> SUFFICES ASSUME IInv PROVE (age + 1) * Frequency < RtqTimeout
    BY DEF SettledBeforeTimeout
  <2>1. Types /\ Patience <= 8 * Cost
    BY DEF IInv
  <2>2. age \in Nat /\ Asks \in Nat
    BY <2>1, AsksRange DEF Types, Numbers
  <2>3. (age + 1) * Frequency = age * Frequency + Frequency
    BY <2>2, CostType, Multiple
  <2>4. age * Frequency \in Nat /\ Asks * Cost \in Nat /\ Pending \in Nat
    BY <2>1, <2>2, CostType, Multiple, PendingRange
  <2>5. age * Frequency <= 8 * Cost
    BY <2>1, <2>4, CostType DEF Patience
  <2> QED
    BY <2>3, <2>4, <2>5, CostType, TimeAssumption DEF Cost
<1> QED
  BY <1>1, Invariance, PTL
=============================================================================
