-------------------------- MODULE RouteRulesProofs --------------------------
(***************************************************************************)
(* What the rules of RouteRules guarantee in every network: next hops are  *)
(* never less up to date than the nodes that use them, and only a node     *)
(* that falls back to an alternate path can close a forwarding loop.       *)
(***************************************************************************)
EXTENDS RouteRules, TLAPS

(* The next hop of a path knows the destination at least as recently, or   *)
(* is the destination itself, one hop away.                                *)
NotOlder ==
    \A n, d \in Node : \A i \in DOMAIN paths[n][d] :
        LET p == paths[n][d][i]
        IN  IF p.nexthop = d THEN p.hopcount = 1
                             ELSE number[p.nexthop][d] >= number[n][d]

(* So does the sender of an announcement. *)
NewsOK ==
    \A a \in news :
        IF a.by = a.dst THEN a.hop = 0 ELSE number[a.by][a.dst] >= a.seq

IInv == TypeOK /\ NotOlder /\ NewsOK

(* The node to which n forwards packets for d, and those that forward any. *)
NextHop(n, d) ==
    IF paths[n][d] = << >> THEN {} ELSE {paths[n][d][1].nexthop}

Forwarders(d) == {n \in Node \ {d} : NextHop(n, d) # {}}

(* No set of nodes passes a packet for d around for ever. *)
NoForwardingLoop ==
    \A d \in Node : \A C \in SUBSET Forwarders(d) :
        C # {} => \E n \in C : NextHop(n, d) \cap C = {}

(* For the same number n takes another next hop. *)
FallsBack(n, d) ==
    /\ number'[n][d] = number[n][d]
    /\ paths'[n][d] # << >>
    /\ NextHop(n, d)' # NextHop(n, d)

NobodyFallsBack == \A n, d \in Node : ~ FallsBack(n, d)

---------------------------------------------------------------------------
(* One step. *)

LEMMA Shapes ==
    ASSUME TypeOK
    PROVE  /\ \A n, d \in Node :
                 /\ number[n][d] \in Nat
                 /\ paths[n][d] \in Seq([nexthop : Node, hopcount : Nat])
           /\ \A a \in news : /\ a.by \in Node /\ a.dst \in Node
                              /\ a.seq \in Nat /\ a.hop \in Nat
BY DEF TypeOK

LEMMA PathShape ==
    ASSUME TypeOK, NEW n \in Node, NEW d \in Node, NEW i \in DOMAIN paths[n][d]
    PROVE  paths[n][d][i].nexthop \in Node
<1> DEFINE ps == paths[n][d]
           R == [nexthop : Node, hopcount : Nat]
<1>1. ps \in Seq(R)
  BY Shapes
<1>2. \A p \in R : p.nexthop \in Node
  OBVIOUS
<1> HIDE DEF ps, R
<1>3. \A j \in DOMAIN ps : ps[j].nexthop \in Node
  BY <1>1, <1>2
<1> QED
  BY <1>3 DEF ps

(* What a step does to one route. *)
LEMMA RouteStep ==
    ASSUME Next, NEW n \in Node, NEW d \in Node
    PROVE  \/ number'[n][d] = number[n][d] /\ paths'[n][d] = paths[n][d]
           \/ Keep(n, d)
           \/ GiveUp(n, d)
           \/ \E a \in news : /\ a.dst = d
                              /\ Adopt(n, d, a) \/ Extend(n, d, a)
BY DEF Next, Step

(* Numbers are never taken back. *)
LEMMA NumbersGrow ==
    ASSUME TypeOK, Next, NEW n \in Node, NEW d \in Node
    PROVE  number'[n][d] >= number[n][d]
<1>1. number[n][d] \in Nat /\ number'[n][d] \in Nat
  BY DEF Next, TypeOK
<1>2. \A a \in news : a.seq \in Nat
  BY Shapes
<1> QED
  BY <1>1, <1>2, RouteStep DEF Keep, GiveUp, Adopt, Extend

(* What is left of a list of paths was there. *)
LEMMA LeftFrom ==
    ASSUME NEW S, NEW s \in Seq(S), NEW k \in DOMAIN s, NEW j \in DOMAIN RemoveAt(s, k)
    PROVE  \E i \in DOMAIN s : RemoveAt(s, k)[j] = s[i]
<1>1. k \in 1 .. Len(s) /\ Len(s) \in Nat /\ DOMAIN s = 1 .. Len(s)
  OBVIOUS
<1> DEFINE u == SubSeq(s, 1, k - 1)
           v == SubSeq(s, k + 1, Len(s))
<1>2. /\ u \in Seq(S) /\ Len(u) = k - 1
      /\ \A i \in 1 .. k - 1 : u[i] = s[i]
  BY <1>1
<1>3. /\ v \in Seq(S) /\ Len(v) = Len(s) - k
      /\ \A i \in 1 .. Len(s) - k : v[i] = s[k + i]
  BY <1>1
<1>4. RemoveAt(s, k) = u \o v
  BY DEF RemoveAt
<1> HIDE DEF u, v
<1>5. j \in 1 .. Len(u) + Len(v)
  BY <1>2, <1>3, <1>4
<1>6. CASE j <= k - 1
  <2>1. (u \o v)[j] = s[j] /\ j \in DOMAIN s
    BY <1>1, <1>2, <1>3, <1>5, <1>6
  <2> QED
    BY <1>4, <2>1
<1>7. CASE j > k - 1
  <2>1. (u \o v)[j] = v[j - (k - 1)] /\ j - (k - 1) \in 1 .. Len(s) - k
    BY <1>1, <1>2, <1>3, <1>5, <1>7
  <2>2. k + (j - (k - 1)) = j + 1 /\ j + 1 \in DOMAIN s
    BY <1>1, <1>2, <1>3, <1>5, <1>7
  <2>3. v[j - (k - 1)] = s[k + (j - (k - 1))]
    BY <1>3, <2>1
  <2> QED
    BY <1>4, <2>1, <2>2, <2>3
<1> QED
  BY <1>1, <1>5, <1>6, <1>7

(* Every path after a step was there before, with its number, or is the    *)
(* one an announcement of the entry's number opens.                        *)
LEMMA WherePathsComeFrom ==
    ASSUME TypeOK, Next, NEW n \in Node, NEW d \in Node,
           NEW i \in DOMAIN paths'[n][d]
    PROVE  \/ /\ number'[n][d] = number[n][d]
              /\ \E j \in DOMAIN paths[n][d] : paths'[n][d][i] = paths[n][d][j]
           \/ \E a \in news : /\ a.dst = d
                              /\ number'[n][d] = a.seq
                              /\ paths'[n][d][i] = Through(a)
<1>1. paths[n][d] \in Seq([nexthop : Node, hopcount : Nat])
  BY Shapes
<1>2. CASE Keep(n, d)
  BY <1>1, <1>2, LeftFrom DEF Keep
<1>3. CASE GiveUp(n, d)
  BY <1>3 DEF GiveUp
<1>4. ASSUME NEW a \in news, Adopt(n, d, a)
      PROVE  number'[n][d] = a.seq /\ paths'[n][d][i] = Through(a)
  BY <1>4 DEF Adopt
<1>5. ASSUME NEW a \in news, Extend(n, d, a)
      PROVE  /\ number'[n][d] = number[n][d] /\ number'[n][d] = a.seq
             /\ \/ paths'[n][d][i] = Through(a)
                \/ i \in DOMAIN paths[n][d] /\ paths'[n][d][i] = paths[n][d][i]
  <2>1. /\ number'[n][d] = number[n][d] /\ number'[n][d] = a.seq
        /\ paths'[n][d] = Append(paths[n][d], Through(a))
    BY <1>5 DEF Extend
  <2>2. i \in 1 .. Len(paths[n][d]) + 1
    BY <1>1, <2>1
  <2> QED
    BY <1>1, <2>1, <2>2
<1> QED
  BY <1>2, <1>3, <1>4, <1>5, RouteStep

---------------------------------------------------------------------------
(* The invariant. *)

LEMMA InitOK == Init => IInv
<1> SUFFICES ASSUME Init PROVE IInv
  OBVIOUS
<1>1. TypeOK
  BY DEF Init, TypeOK
<1>2. NotOlder /\ NewsOK
  BY DEF Init, NotOlder, NewsOK
<1> QED
  BY <1>1, <1>2 DEF IInv

LEMMA NewsOKStep ==
    ASSUME IInv, Next
    PROVE  NewsOK'
<1> SUFFICES ASSUME NEW a \in news'
             PROVE  IF a.by = a.dst THEN a.hop = 0
                                    ELSE number'[a.by][a.dst] >= a.seq
  BY DEF NewsOK
<1>1. /\ a.by \in Node /\ a.dst \in Node /\ a.seq \in Nat
      /\ number'[a.by][a.dst] \in Nat
  BY DEF Next, TypeOK
<1>2. CASE a \in news
  <2>1. number[a.by][a.dst] \in Nat
    BY <1>1, Shapes DEF IInv
  <2>2. number'[a.by][a.dst] >= number[a.by][a.dst]
    BY <1>1, NumbersGrow DEF IInv
  <2> QED
    BY <1>1, <1>2, <2>1, <2>2 DEF IInv, NewsOK
<1>3. CASE a \notin news
  BY <1>1, <1>3 DEF Next, Truthful
<1> QED
  BY <1>2, <1>3

LEMMA NotOlderStep ==
    ASSUME IInv, Next
    PROVE  NotOlder'
<1> SUFFICES ASSUME NEW n \in Node, NEW d \in Node, NEW i \in DOMAIN paths'[n][d]
             PROVE  LET p == paths'[n][d][i]
                    IN  IF p.nexthop = d THEN p.hopcount = 1
                           ELSE number'[p.nexthop][d] >= number'[n][d]
  BY DEF NotOlder
<1> DEFINE p == paths'[n][d][i]
<1>1. ASSUME NEW j \in DOMAIN paths[n][d], p = paths[n][d][j],
             number'[n][d] = number[n][d]
      PROVE  IF p.nexthop = d THEN p.hopcount = 1
                ELSE number'[p.nexthop][d] >= number'[n][d]
  <2>1. IF p.nexthop = d THEN p.hopcount = 1
           ELSE number[p.nexthop][d] >= number[n][d]
    BY <1>1 DEF IInv, NotOlder
  <2>2. p.nexthop \in Node
    BY <1>1, PathShape DEF IInv
  <2> HIDE DEF p
  <2>3. /\ number'[p.nexthop][d] >= number[p.nexthop][d]
        /\ number[p.nexthop][d] \in Nat /\ number'[p.nexthop][d] \in Nat
        /\ number[n][d] \in Nat
    <3>1. number'[p.nexthop][d] >= number[p.nexthop][d]
      BY <2>2, NumbersGrow DEF IInv
    <3>2. number[p.nexthop][d] \in Nat /\ number[n][d] \in Nat
      BY <2>2, Shapes DEF IInv
    <3>3. number'[p.nexthop][d] \in Nat
      BY <2>2 DEF Next, TypeOK
    <3> QED
      BY <3>1, <3>2, <3>3
  <2> QED
    BY <1>1, <2>1, <2>3
<1>2. ASSUME NEW a \in news, a.dst = d, p = Through(a), number'[n][d] = a.seq
      PROVE  IF p.nexthop = d THEN p.hopcount = 1
                ELSE number'[p.nexthop][d] >= number'[n][d]
  <2>1. p.nexthop = a.by /\ p.hopcount = a.hop + 1
    BY <1>2 DEF Through
  <2>2. IF a.by = d THEN a.hop = 0 ELSE number[a.by][d] >= a.seq
    BY <1>2 DEF IInv, NewsOK
  <2>3. /\ number'[a.by][d] >= number[a.by][d]
        /\ number[a.by][d] \in Nat /\ number'[a.by][d] \in Nat /\ a.seq \in Nat
    <3>1. a.by \in Node /\ a.seq \in Nat
      BY Shapes DEF IInv
    <3>2. number'[a.by][d] \in Nat
      BY <3>1 DEF Next, TypeOK
    <3> QED
      BY <3>1, <3>2, Shapes, NumbersGrow DEF IInv
  <2> QED
    BY <1>2, <2>1, <2>2, <2>3
<1> QED
  BY <1>1, <1>2, WherePathsComeFrom DEF IInv

LEMMA StepOK == IInv /\ Next => IInv'
BY NewsOKStep, NotOlderStep DEF IInv, Next

LEMMA Inductive == Spec => []IInv
<1>1. IInv /\ UNCHANGED rvars => IInv'
  BY DEF IInv, rvars, TypeOK, NotOlder, NewsOK
<1> QED
  BY <1>1, InitOK, StepOK, PTL DEF Spec

(* By the rules a node has paths only through nodes at least as up to date.*)
THEOREM RulesNotOlder == Spec => []NotOlder
BY Inductive, PTL DEF IInv

---------------------------------------------------------------------------
(* Loops. *)

LEMMA NextHopIs ==
    ASSUME TypeOK, NEW n \in Node, NEW d \in Node, NEW y \in NextHop(n, d)
    PROVE  /\ NextHop(n, d) = {y} /\ y \in Node
           /\ \E i \in DOMAIN paths[n][d] : y = paths[n][d][i].nexthop
<1>1. paths[n][d] \in Seq([nexthop : Node, hopcount : Nat])
  BY Shapes
<1>2. paths[n][d] # << >> /\ y = paths[n][d][1].nexthop
  BY DEF NextHop
<1>3. 1 \in DOMAIN paths[n][d]
  BY <1>1, <1>2
<1>4. paths[n][d][1].nexthop \in Node
  BY <1>3, PathShape
<1> QED
  BY <1>2, <1>3, <1>4 DEF NextHop

(* A node that changes its next hop without falling back has adopted an    *)
(* announcement of its new next hop.                                       *)
LEMMA NewNextHop ==
    ASSUME TypeOK, Next, NobodyFallsBack, NEW n \in Node, NEW d \in Node,
           NextHop(n, d)' # {}, NextHop(n, d)' # NextHop(n, d)
    PROVE  \E a \in news : /\ a.dst = d /\ a.seq > number[n][d]
                           /\ NextHop(n, d)' = {a.by}
<1>1. paths'[n][d] # << >> /\ number'[n][d] # number[n][d]
  <2>1. paths'[n][d] # << >>
    BY DEF NextHop
  <2> QED
    BY <2>1 DEF NobodyFallsBack, FallsBack
<1>2. PICK a \in news : a.dst = d /\ Adopt(n, d, a)
  BY <1>1, RouteStep DEF Keep, GiveUp, Extend
<1>3. paths'[n][d][1].nexthop = a.by
  BY <1>2 DEF Adopt, Through
<1> QED
  BY <1>1, <1>2, <1>3 DEF NextHop, Adopt

(* Nodes that pass packets for d only among themselves. *)
Closed(C, d) ==
    C \in SUBSET Forwarders(d) /\ \A n \in C : NextHop(n, d) \cap C # {}

(* The nodes in C that know d at least as recently as number s. *)
Fresh(C, d, s) == {x \in C : number[x][d] >= s}

(* They are closed if each of them passes packets to a node in C.          *)
LEMMA FreshClosed ==
    ASSUME IInv, NEW d \in Node, NEW s \in Nat, NEW C \in SUBSET (Node \ {d}),
           \A x \in C : number[x][d] >= s => NextHop(x, d) \cap C # {}
    PROVE  Closed(Fresh(C, d, s), d)
<1> DEFINE D == Fresh(C, d, s)
<1> SUFFICES ASSUME NEW x \in D
             PROVE  x \in Forwarders(d) /\ NextHop(x, d) \cap D # {}
  BY DEF Closed
<1>1. x \in Node \ {d} /\ x \in C /\ number[x][d] >= s /\ number[x][d] \in Nat
  BY Shapes DEF IInv, Fresh
<1>2. PICK y \in C : y \in NextHop(x, d)
  BY <1>1
<1>3. PICK i \in DOMAIN paths[x][d] : y = paths[x][d][i].nexthop
  BY <1>1, <1>2, NextHopIs DEF IInv
<1>4. number[y][d] >= number[x][d] /\ number[y][d] \in Nat
  <2>1. y # d /\ y \in Node
    OBVIOUS
  <2> QED
    BY <1>1, <1>3, <2>1, Shapes DEF IInv, NotOlder
<1>5. y \in D
  BY <1>1, <1>4 DEF Fresh
<1> QED
  BY <1>1, <1>2, <1>5 DEF Forwarders

LEMMA LoopStep ==
    ASSUME IInv, Next, NoForwardingLoop, NobodyFallsBack
    PROVE  NoForwardingLoop'
<1> SUFFICES ASSUME NEW d \in Node, NEW C \in SUBSET (Node \ {d}), C # {},
                    \A n \in C : NextHop(n, d)' \cap C # {}
             PROVE  FALSE
  BY DEF NoForwardingLoop, Forwarders
<1>1. PICK n \in Node : Step(n)
  BY DEF Next
<1>2. \A x \in Node \ {n} : number'[x] = number[x] /\ NextHop(x, d)' = NextHop(x, d)
  BY <1>1 DEF Step, NextHop
<1>3. \A D : D # {} => ~ Closed(D, d)
  BY DEF NoForwardingLoop, Closed
<1>4. CASE n \notin C \/ NextHop(n, d)' = NextHop(n, d)
  <2>1. \A x \in C : NextHop(x, d) \cap C # {}
    BY <1>2, <1>4
  <2>2. Closed(C, d)
    BY <2>1 DEF Closed, Forwarders
  <2> QED
    BY <1>3, <2>2
<1>5. CASE n \in C /\ NextHop(n, d)' # NextHop(n, d)
  <2>1. NextHop(n, d)' # {}
    BY <1>5
  <2>2. PICK a \in news : /\ a.dst = d /\ a.seq > number[n][d]
                          /\ NextHop(n, d)' = {a.by}
    BY <1>5, <2>1, NewNextHop DEF IInv
  <2>3. a.by \in C /\ a.by # d
    BY <1>5, <2>2
  <2>4. number[a.by][d] >= a.seq /\ a.seq \in Nat /\ number[n][d] \in Nat
    BY <2>2, <2>3, Shapes DEF IInv, NewsOK
  <2>5. \A x \in C : number[x][d] >= a.seq => NextHop(x, d) \cap C # {}
    <3>1. ~ (number[n][d] >= a.seq)
      BY <2>2, <2>4
    <3> QED
      BY <1>2, <3>1
  <2>6. Closed(Fresh(C, d, a.seq), d)
    BY <2>4, <2>5, FreshClosed
  <2>7. Fresh(C, d, a.seq) # {}
    BY <2>3, <2>4 DEF Fresh
  <2> QED
    BY <1>3, <2>6, <2>7
<1> QED
  BY <1>4, <1>5

LEMMA LoopStutter ==
    ASSUME NoForwardingLoop, UNCHANGED rvars
    PROVE  NoForwardingLoop'
BY DEF NoForwardingLoop, Forwarders, NextHop, rvars

LEMMA LoopInit == Init => NoForwardingLoop
BY DEF Init, NoForwardingLoop, Forwarders, NextHop

(* By the rules only a node that falls back to an alternate path can close *)
(* a forwarding loop.                                                      *)
THEOREM RulesLoopsOnlyByFallback ==
    Spec => [][NoForwardingLoop /\ NobodyFallsBack => NoForwardingLoop']_rvars
<1>1. IInv /\ [Next]_rvars
        => [NoForwardingLoop /\ NobodyFallsBack => NoForwardingLoop']_rvars
  BY LoopStep
<1> QED
  BY <1>1, Inductive, PTL DEF Spec

(* Where nodes drop a route rather than fall back there are no loops. *)
THEOREM RulesNoLoop ==
    Spec /\ [][NobodyFallsBack]_rvars => []NoForwardingLoop
<1>1. IInv /\ NoForwardingLoop /\ [Next]_rvars /\ [NobodyFallsBack]_rvars
        => NoForwardingLoop'
  BY LoopStep, LoopStutter
<1> QED
  BY <1>1, LoopInit, Inductive, PTL DEF Spec
=============================================================================
