----------------------------- MODULE RouteRules -----------------------------
(***************************************************************************)
(* The rules by which the agents exchange routes, without the messages,    *)
(* timers and buffers that carry them out.  A node keeps a sequence number *)
(* and a list of paths for every destination; it takes over what others    *)
(* announce only as the number permits.  Every relay announces the same    *)
(* hop count, so hop counts decide nothing: it is the numbers that tell    *)
(* fresh routes from stale ones.  In one step one node changes any of its  *)
(* routes.                                                                 *)
(***************************************************************************)
EXTENDS Naturals, Sequences, SequencesExt

CONSTANTS
    Node,       \* the nodes
    Relayed     \* the hop count announced by all but the destination

VARIABLES
    own,        \* own[d]: the last sequence number d has issued for itself
    number,     \* number[n][d]: the sequence number of n's route to d
    paths,      \* paths[n][d]: the next hops and lengths of n's paths to d
    news        \* announcements in flight

rvars == <<own, number, paths, news>>

(* The path that announcement a opens to its receiver. *)
Through(a) == [nexthop |-> a.by, hopcount |-> a.hop + 1]

(* The types of the variables: Next relates a state to a state of them. *)
TypeOK ==
    /\ own \in [Node -> Nat]
    /\ number \in [Node -> [Node -> Nat]]
    /\ paths \in [Node -> [Node -> Seq([nexthop : Node, hopcount : Nat])]]
    /\ news \subseteq [by : Node, to : Node, dst : Node, seq : Nat, hop : Nat]

(* Rule 1: nothing is learned; a path may be lost, but not the last one. *)
Keep(n, d) ==
    /\ number'[n][d] = number[n][d]
    /\ \/ paths'[n][d] = paths[n][d]
       \/ /\ \E i \in DOMAIN paths[n][d] : paths'[n][d] = RemoveAt(paths[n][d], i)
          /\ paths'[n][d] # << >>

(* Rule 2: a newer announcement replaces all there is. *)
Adopt(n, d, a) ==
    /\ a.seq > number[n][d]
    /\ number'[n][d] = a.seq
    /\ paths'[n][d] = <<Through(a)>>

(* Rule 3: one as new may add an alternate path behind the others. *)
Extend(n, d, a) ==
    /\ a.seq = number[n][d]
    /\ number'[n][d] = number[n][d]
    /\ paths[n][d] # << >>
    /\ paths'[n][d] = Append(paths[n][d], Through(a))

(* Rule 4: a destination that is given up gets a higher number. *)
GiveUp(n, d) ==
    /\ number'[n][d] > number[n][d]
    /\ paths'[n][d] = << >>

(* Rule 5: a destination announces itself with a number it has issued, any *)
(* other node the number of its route, while it has a path.                *)
Truthful(a) ==
    IF a.by = a.dst
    THEN a.hop = 0 /\ a.seq <= own'[a.dst]
    ELSE /\ a.seq = number'[a.by][a.dst]
         /\ a.hop = Relayed
         /\ paths'[a.by][a.dst] # << >>

Init ==
    /\ own \in [Node -> Nat]
    /\ number = [n \in Node |-> [d \in Node |-> 0]]
    /\ paths = [n \in Node |-> [d \in Node |-> << >>]]
    /\ news = {}

(* All that node n does at once. *)
Step(n) ==
    /\ \A x \in Node \ {n} : number'[x] = number[x] /\ paths'[x] = paths[x]
    /\ \A d \in Node :
          \/ Keep(n, d)
          \/ GiveUp(n, d)
          \/ \E a \in news : /\ a.to = n /\ a.dst = d /\ n # d
                             /\ Adopt(n, d, a) \/ Extend(n, d, a)

Next ==
    /\ TypeOK'
    /\ \A d \in Node : own'[d] >= own[d]
    /\ \E n \in Node : Step(n)
    /\ \A a \in news' \ news : Truthful(a)

Spec == Init /\ [][Next]_rvars
=============================================================================
