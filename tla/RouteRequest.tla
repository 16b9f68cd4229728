---------------------------- MODULE RouteRequest ----------------------------
(***************************************************************************)
(* When one agent asks for a route to one destination: the rate limiter    *)
(* and the expanding ring search of sendRequest, called for every packet   *)
(* the application sends and twice a second by rt_purge.                   *)
(*                                                                         *)
(* Time advances in units of 20 ms, in which every delay of the code is a  *)
(* whole number: 2 * NODE_TRAVERSAL_TIME is 3 units.  rt_disc_latency is   *)
(* never written (DYNAMIC_RREQ_RETRY_TIMEOUT is not defined), so           *)
(* PerHopTime is NODE_TRAVERSAL_TIME.  Timers hold the time left.          *)
(***************************************************************************)
EXTENDS Integers

CONSTANTS
    Hops,       \* the lengths of the routes that may be found
    RttPerHop,  \* 2 * NODE_TRAVERSAL_TIME
    MaxWait,    \* MAX_RREQ_TIMEOUT
    Frequency,  \* FREQUENCY of the route cache timer
    RtqTimeout, \* EAMRP_RTQ_TIMEOUT
    MaxAge      \* bound: how far the age of a waiting packet is counted

(* A route to the sender of a message has one hop.  One that a relay       *)
(* announced has 256, see EamrpRouting; rt_last_hop_count is an int.       *)
ASSUME HopsAssumption == Hops \subseteq 1 .. 256
ASSUME TimeAssumption ==
    /\ RttPerHop \in Nat \ {0} /\ MaxWait \in Nat \ {0}
    /\ Frequency \in Nat \ {0} /\ RtqTimeout \in Nat /\ MaxAge \in Nat

RREQ_RETRIES == 3
TTL_START == 5
TTL_INCREMENT == 2
TTL_THRESHOLD == 7
NETWORK_DIAMETER == 30

VARIABLES
    up,         \* rt_flags = RTF_UP
    req_cnt,    \* rt_req_cnt
    last_ttl,   \* rt_req_last_ttl
    last_hops,  \* rt_last_hop_count
    wait,       \* time left until rt_req_timeout, 0 when it has passed
    poll,       \* time left until the next rt_purge
    waiting,    \* whether packets for the destination are buffered
    age,        \* the runs of rt_purge the oldest of them has waited through
    ttl         \* the TTL of the last request, 0 when there was none

vars == <<up, req_cnt, last_ttl, last_hops, wait, poll, waiting, age, ttl>>

Init ==
    /\ up = FALSE
    /\ req_cnt = 0 /\ last_ttl = 0 /\ last_hops = 255 /\ wait = 0
    /\ poll = Frequency
    /\ waiting = FALSE /\ age = 0
    /\ ttl = 0

Larger(a, b) == IF a >= b THEN a ELSE b
Smaller(a, b) == IF a <= b THEN a ELSE b

(* The TTL of the next request, from the last one and the last route. *)
RequestTtl(last) ==
    IF last = 0 THEN TTL_START
    ELSE IF last < TTL_THRESHOLD THEN last + TTL_INCREMENT
    ELSE NETWORK_DIAMETER

(* Variant: the time is not capped. *)
UncappedTimeout(t, cnt) == RttPerHop * t * Larger(cnt, 1)

(* The time to wait for an answer to a request. *)
RequestTimeout(t, cnt) ==
    Smaller(RttPerHop * t * Larger(cnt, 1), MaxWait)

(* Variant: network-wide searches are not counted. *)
AskUncounted ==
    LET last == Larger(last_ttl, last_hops)
    IN  /\ req_cnt <= RREQ_RETRIES
        /\ ttl' = RequestTtl(last)
        /\ last_ttl' = RequestTtl(last)
        /\ wait' = RequestTimeout(RequestTtl(last), req_cnt)
        /\ UNCHANGED req_cnt

(* sendRequest, when it sends. *)
Ask ==
    LET last == Larger(last_ttl, last_hops)
        wide == last # 0 /\ last >= TTL_THRESHOLD
        cnt == IF wide THEN req_cnt + 1 ELSE req_cnt
    IN  /\ req_cnt <= RREQ_RETRIES
        /\ ttl' = RequestTtl(last)
        /\ last_ttl' = RequestTtl(last)
        /\ req_cnt' = cnt
        /\ wait' = RequestTimeout(RequestTtl(last), cnt)

(* sendRequest, when it has asked often enough: the packets are dropped    *)
(* and the next request has to wait.                                       *)
Abandon ==
    /\ req_cnt > RREQ_RETRIES
    /\ req_cnt' = 0
    /\ wait' = MaxWait
    /\ UNCHANGED <<last_ttl, ttl>>

(* sendRequest for a route that is down, called with packets that wait for *)
(* k runs of rt_purge: held back, sent, or given up.                       *)
sendRequest(k) ==
    \/ /\ wait > 0
       /\ waiting' = TRUE /\ age' = k
       /\ UNCHANGED <<req_cnt, last_ttl, wait, ttl>>
    \/ /\ wait = 0
       /\ Ask
       /\ waiting' = TRUE /\ age' = k
    \/ /\ wait = 0
       /\ Abandon
       /\ waiting' = FALSE /\ age' = 0

(* rt_resolve for a packet of the application. *)
AppSend ==
    /\ \/ /\ up
          /\ UNCHANGED <<req_cnt, last_ttl, wait, waiting, age, ttl>>
       \/ ~ up /\ sendRequest(age)
    /\ UNCHANGED <<up, last_hops, poll>>

(* The age of waiting packets at the next run of rt_purge. *)
Older == Smaller(age + 1, MaxAge)

(* Variant: rt_purge does not repeat the request. *)
PurgeWithoutRequest ==
    /\ poll = 0
    /\ poll' = Frequency
    /\ \/ /\ up
          /\ up' \in BOOLEAN
          /\ waiting' = (waiting /\ up')
          /\ age' = IF up' THEN age ELSE 0
       \/ /\ ~ up
          /\ age' = IF waiting THEN Older ELSE 0
          /\ UNCHANGED <<up, waiting>>
    /\ UNCHANGED <<req_cnt, last_ttl, last_hops, wait, ttl>>

(* rt_purge: the paths of a route that is up may all have expired; for one *)
(* that is down, waiting packets cause a request.                          *)
RtPurge ==
    /\ poll = 0
    /\ poll' = Frequency
    /\ \/ /\ up
          /\ up' \in BOOLEAN
          /\ waiting' = (waiting /\ up')
          /\ age' = IF up' THEN age ELSE 0
          /\ UNCHANGED <<req_cnt, last_ttl, wait, ttl>>
       \/ /\ ~ up /\ waiting
          /\ sendRequest(Older)
          /\ UNCHANGED up
       \/ /\ ~ up /\ ~ waiting
          /\ UNCHANGED <<up, req_cnt, last_ttl, wait, waiting, age, ttl>>
    /\ UNCHANGED last_hops

(* recvRequest or recvReply brings the route up with h hops: the request   *)
(* state is reset and the waiting packets leave.                           *)
RouteFound(h) ==
    /\ up' = TRUE
    /\ last_hops' = h
    /\ req_cnt' = 0 /\ last_ttl' = 0 /\ wait' = 0
    /\ waiting' = FALSE /\ age' = 0
    /\ UNCHANGED <<poll, ttl>>

(* The last path is lost (handle_link_failure, recvError). *)
RouteLost ==
    /\ up
    /\ up' = FALSE
    /\ UNCHANGED <<req_cnt, last_ttl, last_hops, wait, poll, waiting, age, ttl>>

Left(t) == IF t = 0 THEN 0 ELSE t - 1

(* Time passes, never past the route cache timer. *)
Tick ==
    /\ poll > 0
    /\ poll' = poll - 1
    /\ wait' = Left(wait)
    /\ UNCHANGED <<up, req_cnt, last_ttl, last_hops, waiting, age, ttl>>

Next ==
    \/ AppSend
    \/ RtPurge
    \/ \E h \in Hops : RouteFound(h)
    \/ RouteLost
    \/ Tick

Spec == Init /\ [][Next]_vars /\ WF_vars(Tick) /\ WF_vars(RtPurge)

---------------------------------------------------------------------------
(* Every variable holds a value of its type. *)
TypeOK ==
    /\ up \in BOOLEAN
    /\ req_cnt \in 0 .. 255
    /\ last_ttl \in Nat
    /\ last_hops \in 1 .. 256
    /\ wait \in 0 .. MaxWait
    /\ poll \in 0 .. Frequency
    /\ waiting \in BOOLEAN
    /\ age \in Nat
    /\ ttl \in 0 .. NETWORK_DIAMETER

(* A packet never waits until its time in the send buffer is up            *)
(* (EAMRP_RTQ_TIMEOUT): the search for its route ends before, with a route *)
(* or with the packet dropped by sendRequest.  The purge of the buffer,    *)
(* which forgets packets without dropping them, is a second line only.  A  *)
(* packet that has met rt_purge k times is at most k + 1 periods old.      *)
SettledBeforeTimeout == (age + 1) * Frequency < RtqTimeout

(* Whoever waits for a route stops waiting. *)
WaitingEnds == waiting ~> ~ waiting

(* The agent searches the whole network at most RREQ_RETRIES times before  *)
(* it goes to a long time-out (eamrp.cc:1358-1360: "RREQ_RETRIES is the    *)
(* maximum number we will allow").  The count is tested before it is       *)
(* raised, so there is one search more.                                    *)
SearchesAsAllowed == req_cnt <= RREQ_RETRIES
=============================================================================
