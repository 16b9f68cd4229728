-------------------------- MODULE EamrpRulesProofs --------------------------
(***************************************************************************)
(* The agents of EamrpRouting follow the rules of RouteRules, in networks  *)
(* of any size, so that next hops are not older and loops arise only where *)
(* a node falls back to an alternate path; and the assertions of the code  *)
(* hold.                                                                   *)
(***************************************************************************)
EXTENDS EamrpStepProofs

(* The theorems about the rules, for the tables of the agents. *)
RP == INSTANCE RouteRulesProofs WITH
    Relayed <- Byte(Infinity),
    own <- seqno, number <- Numbers, paths <- Routes, news <- Announced

---------------------------------------------------------------------------
(* The tables and the messages as the rules see them. *)

LEMMA NumbersAre ==
    \A n, d \in Node : /\ Numbers[n][d] = rt[n][d].seqno
                       /\ Numbers'[n][d] = rt'[n][d].seqno
BY DEF Numbers

Hop(p) == [nexthop |-> p.nexthop, hopcount |-> p.hopcount]

Hops(ps) == [i \in DOMAIN ps |-> Hop(ps[i])]

LEMMA RoutesAre ==
    \A n, d \in Node : /\ Routes[n][d] = Hops(rt[n][d].paths)
                       /\ Routes'[n][d] = Hops(rt'[n][d].paths)
BY DEF Routes, Hops, Hop

(* The announcement that message m is. *)
News(m) == [by |-> m.from, to |-> m.to, dst |-> About(m), seq |-> Number(m), hop |-> m.hop]

LEMMA AnnouncedAre ==
    /\ Announced = {News(m) : m \in {x \in msgs : Announces(x)}}
    /\ Announced' = {News(m) : m \in {x \in msgs' : Announces(x)}}
<1>1. Announced = {News(m) : m \in {x \in msgs : Announces(x)}}
  BY DEF Announced, News, Announces, About, Number
<1>2. Announced' = {News(m) : m \in {x \in msgs' : Announces(x)}}
  BY DEF Announced, News, Announces, About, Number
<1> QED
  BY <1>1, <1>2

---------------------------------------------------------------------------
(* Lists of paths. *)

HopType == [nexthop : Node, hopcount : Nat]

LEMMA HopsType ==
    ASSUME NEW ps \in PathList
    PROVE  /\ Hops(ps) \in Seq(HopType) /\ Len(Hops(ps)) = Len(ps)
           /\ Len(ps) \in Nat /\ DOMAIN ps = 1 .. Len(ps)
           /\ \A i \in DOMAIN ps : Hops(ps)[i] = Hop(ps[i])
<1>1. Len(ps) \in Nat /\ DOMAIN ps = 1 .. Len(ps)
  BY DEF PathList
<1>2. \A i \in DOMAIN ps : ps[i] \in PathType
  BY DEF PathList
<1>3. \A p \in PathType : Hop(p) \in HopType
  BY DEF PathType, PathLength, Hop, HopType
<1>4. Hops(ps) = [i \in 1 .. Len(ps) |-> Hop(ps[i])]
  BY <1>1 DEF Hops
<1>5. \A i \in 1 .. Len(ps) : Hop(ps[i]) \in HopType
  BY <1>1, <1>2, <1>3
<1>6. Hops(ps) \in [1 .. Len(ps) -> HopType]
  BY <1>4, <1>5
<1>7. Hops(ps) \in Seq(HopType)
  BY <1>1, <1>6
<1>8. Len(Hops(ps)) = Len(ps)
  BY <1>1, <1>6
<1> QED
  BY <1>1, <1>4, <1>7, <1>8

(* Sequences with the same members are equal. *)
LEMMA SameMembers ==
    ASSUME NEW S, NEW s \in Seq(S), NEW t \in Seq(S), Len(s) = Len(t),
           \A i \in 1 .. Len(s) : s[i] = t[i]
    PROVE  s = t
OBVIOUS

LEMMA HopsRemoveAt ==
    ASSUME NEW ps \in PathList, NEW k \in DOMAIN ps
    PROVE  k \in DOMAIN Hops(ps) /\ Hops(RemoveAt(ps, k)) = RemoveAt(Hops(ps), k)
<1> DEFINE hs == Hops(ps)
           qs == RemoveAt(ps, k)
           rs == RemoveAt(hs, k)
<1>1. /\ hs \in Seq(HopType) /\ Len(hs) = Len(ps) /\ Len(ps) \in Nat
      /\ DOMAIN ps = 1 .. Len(ps) /\ k \in 1 .. Len(ps)
      /\ \A i \in 1 .. Len(ps) : hs[i] = Hop(ps[i])
  BY HopsType
<1>2. qs \in PathList
  BY <1>1, RemoveAtType DEF PathList
<1>3. /\ Len(qs) = Len(ps) - 1
      /\ \A j \in 1 .. Len(ps) - 1 : qs[j] = IF j < k THEN ps[j] ELSE ps[j + 1]
  BY <1>1, RemoveAtMembers DEF PathList
<1> HIDE DEF hs, qs
<1>4. /\ rs \in Seq(HopType) /\ Len(rs) = Len(ps) - 1
      /\ \A j \in 1 .. Len(ps) - 1 : rs[j] = IF j < k THEN hs[j] ELSE hs[j + 1]
  BY <1>1, RemoveAtType, RemoveAtMembers
<1>5. /\ Hops(qs) \in Seq(HopType) /\ Len(Hops(qs)) = Len(ps) - 1
      /\ \A j \in 1 .. Len(ps) - 1 : Hops(qs)[j] = Hop(qs[j])
  BY <1>2, <1>3, HopsType
<1> HIDE DEF rs
<1>6. \A j \in 1 .. Len(ps) - 1 : Hops(qs)[j] = rs[j]
  <2> TAKE j \in 1 .. Len(ps) - 1
  <2>1. j \in 1 .. Len(ps) /\ j + 1 \in 1 .. Len(ps)
    BY <1>1
  <2> QED
    BY <1>1, <1>3, <1>4, <1>5, <2>1
<1>7. Hops(qs) = rs
  BY <1>4, <1>5, <1>6, SameMembers
<1>8. k \in DOMAIN hs
  BY <1>1
<1> QED
  BY <1>7, <1>8 DEF hs, qs, rs

LEMMA HopsAppend ==
    ASSUME NEW ps \in PathList, NEW p \in PathType
    PROVE  Hops(Append(ps, p)) = Append(Hops(ps), Hop(p))
<1> DEFINE hs == Hops(ps)
           qs == Append(ps, p)
           rs == Append(hs, Hop(p))
<1>1. /\ hs \in Seq(HopType) /\ Len(hs) = Len(ps) /\ Len(ps) \in Nat
      /\ \A i \in 1 .. Len(ps) : hs[i] = Hop(ps[i])
  BY HopsType
<1>2. /\ qs \in PathList /\ Len(qs) = Len(ps) + 1
      /\ \A j \in 1 .. Len(ps) : qs[j] = ps[j]
      /\ qs[Len(ps) + 1] = p
  BY DEF PathList
<1>3. Hop(p) \in HopType
  BY DEF PathType, PathLength, Hop, HopType
<1> HIDE DEF hs, qs
<1>4. /\ rs \in Seq(HopType) /\ Len(rs) = Len(ps) + 1
      /\ \A j \in 1 .. Len(ps) : rs[j] = hs[j]
      /\ rs[Len(ps) + 1] = Hop(p)
  BY <1>1, <1>3
<1>5. /\ Hops(qs) \in Seq(HopType) /\ Len(Hops(qs)) = Len(ps) + 1
      /\ \A j \in 1 .. Len(ps) + 1 : Hops(qs)[j] = Hop(qs[j])
  BY <1>2, HopsType
<1> HIDE DEF rs
<1>6. \A j \in 1 .. Len(ps) + 1 : Hops(qs)[j] = rs[j]
  <2> TAKE j \in 1 .. Len(ps) + 1
  <2>1. CASE j = Len(ps) + 1
    BY <1>2, <1>4, <1>5, <2>1
  <2>2. CASE j \in 1 .. Len(ps)
    BY <1>1, <1>2, <1>4, <1>5, <2>2
  <2> QED
    BY <1>1, <2>1, <2>2
<1>7. Hops(qs) = rs
  BY <1>4, <1>5, <1>6, SameMembers
<1> QED
  BY <1>7 DEF hs, qs, rs

LEMMA OneHop ==
    ASSUME NEW p \in PathType
    PROVE  Hops(<<p>>) = <<Hop(p)>>
<1>1. <<p>> \in PathList /\ Len(<<p>>) = 1 /\ <<p>>[1] = p
  BY DEF PathList
<1>2. Hop(p) \in HopType
  BY DEF PathType, PathLength, Hop, HopType
<1>3. <<Hop(p)>> \in Seq(HopType) /\ Len(<<Hop(p)>>) = 1 /\ <<Hop(p)>>[1] = Hop(p)
  BY <1>2
<1>4. /\ Hops(<<p>>) \in Seq(HopType) /\ Len(Hops(<<p>>)) = 1
      /\ \A i \in 1 .. 1 : Hops(<<p>>)[i] = Hop(<<p>>[i])
  BY <1>1, HopsType
<1> QED
  BY <1>1, <1>3, <1>4, SameMembers

LEMMA NoHop ==
    ASSUME NEW ps \in PathList
    PROVE  Hops(ps) = << >> <=> ps = << >>
<1>1. Len(Hops(ps)) = Len(ps) /\ Hops(ps) \in Seq(HopType)
  BY HopsType
<1> QED
  BY <1>1 DEF PathList

(* Every path that is left when one is removed was there. *)
LEMMA RemoveAtFrom ==
    ASSUME NEW ps \in PathList, NEW k \in DOMAIN ps
    PROVE  \A j \in DOMAIN RemoveAt(ps, k) :
              \E i \in DOMAIN ps : RemoveAt(ps, k)[j] = ps[i]
<1>1. ps \in Seq(PathType) /\ k \in 1 .. Len(ps) /\ Len(ps) \in Nat
      /\ DOMAIN ps = 1 .. Len(ps)
  BY DEF PathList
<1>2. /\ RemoveAt(ps, k) \in Seq(PathType)
      /\ Len(RemoveAt(ps, k)) = Len(ps) - 1
      /\ \A j \in 1 .. Len(ps) - 1 :
            RemoveAt(ps, k)[j] = IF j < k THEN ps[j] ELSE ps[j + 1]
  BY <1>1, RemoveAtType, RemoveAtMembers
<1>3. DOMAIN RemoveAt(ps, k) = 1 .. Len(ps) - 1
  BY <1>2
<1> TAKE j \in DOMAIN RemoveAt(ps, k)
<1>4. j \in DOMAIN ps /\ j + 1 \in DOMAIN ps
  BY <1>1, <1>3
<1> QED
  BY <1>2, <1>3, <1>4

(* The path of a message is the path its announcement opens. *)
LEMMA ViaThrough ==
    ASSUME NEW m \in GoodMsg, Announces(m)
    PROVE  Rules!Through(News(m)) = Hop(Via(m))
BY ViaPath DEF Rules!Through, News, Hop

---------------------------------------------------------------------------
(* Hop counts. *)

(* Where no hop count is ever fixed all announcements of other nodes carry *)
(* the same one.                                                           *)
NothingFixed ==
    /\ \A n, d \in Node :
          /\ rt[n][d].flags = "UP" => rt[n][d].adv = Infinity
          /\ \A i \in DOMAIN rt[n][d].paths :
                rt[n][d].paths[i].hopcount =
                  IF rt[n][d].paths[i].nexthop = d THEN 1 ELSE Byte(Infinity) + 1
    /\ \A m \in msgs : Announces(m) =>
          m.hop = IF m.from = About(m) THEN 0 ELSE Byte(Infinity)

LEMMA NothingFixedEntry ==
    ASSUME IInv, IInv', NothingFixed, Effects,
           NEW n \in Node, NEW d \in Node
    PROVE  /\ rt'[n][d].flags = "UP" => rt'[n][d].adv = Infinity
           /\ \A i \in DOMAIN rt'[n][d].paths :
                 rt'[n][d].paths[i].hopcount =
                   IF rt'[n][d].paths[i].nexthop = d THEN 1 ELSE Byte(Infinity) + 1
<1> DEFINE e == rt[n][d]
           f == rt'[n][d]
           OK(p) == p.hopcount = IF p.nexthop = d THEN 1 ELSE Byte(Infinity) + 1
<1>1. Changes(n, d, e, f)
  BY DEF Effects, EntryStep
<1>2. /\ e.flags = "UP" => e.adv = Infinity
      /\ \A i \in DOMAIN e.paths : OK(e.paths[i])
  BY DEF NothingFixed
<1>3. e \in GoodEntry /\ e.paths \in PathList
  BY EntryNumbers DEF IInv
<1> HIDE DEF e, f, OK
<1>4. CASE Kept(e, f)
  <2>1. f.flags = "UP" => f.adv = Infinity
    BY <1>2, <1>4 DEF Kept
  <2>2. ASSUME NEW i \in DOMAIN f.paths
        PROVE  OK(f.paths[i])
    BY <1>2, <1>3, <1>4, <2>2, RemoveAtFrom DEF Kept
  <2> QED
    BY <2>1, <2>2 DEF f, OK
<1>5. CASE Dropped(n, d, e, f)
  <2>1. f.flags = "DOWN" /\ f.paths = << >>
    BY <1>5 DEF Dropped
  <2> QED
    BY <2>1 DEF f
<1>6. ASSUME NEW m \in msgs, Announces(m), About(m) = d, Learned(e, f, m)
      PROVE  /\ f.flags = "UP" => f.adv = Infinity
             /\ \A i \in DOMAIN f.paths : OK(f.paths[i])
  <2>1. OK(Via(m)) /\ Via(m) \in PathType
    <3>1. /\ Via(m) \in PathType /\ Via(m).nexthop = m.from
          /\ Via(m).hopcount = m.hop + 1
      BY <1>6, ViaPath DEF IInv
    <3>2. m.hop = IF m.from = d THEN 0 ELSE Byte(Infinity)
      BY <1>6 DEF NothingFixed
    <3> QED
      BY <3>1, <3>2 DEF OK
  <2>2. CASE /\ IsNewer(e, Number(m)) /\ f.paths = <<Via(m)>>
             /\ f.adv = Infinity
    BY <2>1, <2>2
  <2>3. CASE /\ IsBetter(e, Number(m), m.hop) /\ f.adv = e.adv
             /\ f.paths = e.paths \/ f.paths = Append(e.paths, Via(m))
    <3>1. e.flags = "UP"
      <4>1. Number(m) \in Issued /\ e.seqno = Number(m)
        BY <1>6, <2>3, MessageNumbers DEF IInv, IsBetter
      <4> QED
        BY <1>3, <4>1 DEF GoodEntry, EntryType, Issued, Lost
    <3>2. f.adv = Infinity
      BY <1>2, <2>3, <3>1
    <3>3. CASE f.paths = e.paths
      BY <1>2, <3>2, <3>3
    <3>4. CASE f.paths = Append(e.paths, Via(m))
      <4>1. e.paths \in Seq(PathType)
        BY <1>3 DEF PathList
      <4>2. \A i \in DOMAIN f.paths :
               \/ f.paths[i] = Via(m)
               \/ i \in DOMAIN e.paths /\ f.paths[i] = e.paths[i]
        BY <2>1, <3>4, <4>1
      <4> QED
        BY <1>2, <2>1, <3>2, <4>2
    <3> QED
      BY <2>3, <3>3, <3>4
  <2> QED
    BY <1>6, <2>2, <2>3 DEF Learned
<1> QED
  BY <1>1, <1>4, <1>5, <1>6 DEF Changes, f, OK

LEMMA NothingFixedStep ==
    ASSUME IInv, IInv', NothingFixed, Effects
    PROVE  NothingFixed'
<1>1. ASSUME NEW m \in msgs', Announces(m)
      PROVE  m.hop = IF m.from = About(m) THEN 0 ELSE Byte(Infinity)
  <2>1. CASE m \in msgs
    BY <1>1, <2>1 DEF NothingFixed
  <2>2. CASE m \notin msgs
    <3>1. Speaks(m)
      BY <1>1, <2>2 DEF Effects, Sent
    <3>2. m.from \in Node /\ About(m) \in Node
      BY <1>1, MessageNumbers DEF IInv
    <3> QED
      BY <3>1, <3>2, NothingFixedEntry DEF Speaks
  <2> QED
    BY <2>1, <2>2
<1>2. \A m : Announces(m)' = Announces(m) /\ About(m)' = About(m)
  BY DEF Announces, About
<1> QED
  BY <1>1, <1>2, NothingFixedEntry DEF NothingFixed

(* What is asked of an announcement in flight. *)
LEMMA AssertionsFrom ==
    ASSUME IInv,
           \A m \in msgs : Announces(m) /\ m.to # About(m)
              => Meets(rt[m.to][About(m)], Number(m), m.hop, Via(m))
    PROVE  AssertionsHold
BY DEF AssertionsHold, Announces, About, Number, Via

(* An announcement as new as the entry finds it up. *)
LEMMA BetterIsUp ==
    ASSUME IInv, NEW m \in msgs, Announces(m),
           IsBetter(rt[m.to][About(m)], Number(m), m.hop)
    PROVE  rt[m.to][About(m)].flags = "UP"
<1>1. /\ m.to \in Node /\ About(m) \in Node /\ Number(m) \in Issued
      /\ rt[m.to][About(m)].seqno = Number(m)
  BY MessageNumbers DEF IInv, IsBetter
<1>2. rt[m.to][About(m)] \in GoodEntry
  BY <1>1 DEF IInv
<1> QED
  BY <1>1, <1>2 DEF GoodEntry, EntryType, Issued, Lost

LEMMA NothingFixedInit == Init => NothingFixed
BY DEF Init, NewEntry, NothingFixed

LEMMA NothingFixedInvariant == Spec => []NothingFixed
<1>1. (IInv /\ NoStrandedPacket) /\ (IInv /\ NoStrandedPacket)' /\ NothingFixed
        /\ [Next]_vars => NothingFixed'
  BY StepEffects, NothingFixedStep
<1> QED
  BY <1>1, NothingFixedInit, Invariance, PTL DEF Spec

(* Wherever an announcement that is better than the entry finds its path   *)
(* already known the assertions of recvRequest and recvReply on it hold    *)
(* (eamrp.cc:776, 782, 1034, 1037): all relays announce the same hop count.*)
THEOREM AssertionsNeverFail == Spec => []AssertionsHold
<1>1. IInv /\ NothingFixed => AssertionsHold
  <2> SUFFICES ASSUME IInv, NothingFixed, NEW m \in msgs, Announces(m),
                      IsBetter(rt[m.to][About(m)], Number(m), m.hop),
                      NEW i \in DOMAIN rt[m.to][About(m)].paths,
                      rt[m.to][About(m)].paths[i].nexthop = Via(m).nexthop
               PROVE  rt[m.to][About(m)].paths[i].hopcount = m.hop + 1
    BY BetterIsUp, AssertionsFrom DEF Meets
  <2>1. /\ m.to \in Node /\ About(m) \in Node /\ Via(m).nexthop = m.from
    BY MessageNumbers, ViaPath DEF IInv
  <2> QED
    BY <2>1 DEF NothingFixed
<1> QED
  BY <1>1, NothingFixedInvariant, Invariance, PTL
---------------------------------------------------------------------------
(* The agents follow the rules. *)

(* Every entry changes by a rule. *)
LEMMA EntryFollowsRules ==
    ASSUME IInv, IInv', Effects, NEW n \in Node, NEW d \in Node
    PROVE  \/ Rules!Keep(n, d)
           \/ Rules!GiveUp(n, d)
           \/ \E a \in Announced : /\ a.to = n /\ a.dst = d /\ n # d
                                   /\ Rules!Adopt(n, d, a) \/ Rules!Extend(n, d, a)
<1> DEFINE e == rt[n][d]
           f == rt'[n][d]
<1>1. Changes(n, d, e, f)
  BY DEF Effects, EntryStep
<1>2. e \in GoodEntry /\ f \in GoodEntry
  BY DEF IInv
<1>3. /\ Numbers[n][d] = e.seqno /\ Numbers'[n][d] = f.seqno
      /\ Routes[n][d] = Hops(e.paths) /\ Routes'[n][d] = Hops(f.paths)
  BY NumbersAre, RoutesAre
<1>4. /\ e.seqno \in Nat /\ e.paths \in PathList /\ f.paths \in PathList
      /\ e.flags \in {"UP", "DOWN"}
  BY <1>2, EntryNumbers
<1> HIDE DEF e, f
<1>5. CASE Kept(e, f)
  <2>1. CASE f.paths = e.paths
    BY <1>3, <1>5, <2>1 DEF Kept, Rules!Keep
  <2>2. ASSUME NEW i \in DOMAIN e.paths, f.paths = RemoveAt(e.paths, i)
        PROVE  Rules!Keep(n, d)
    <3>1. e.paths # << >>
      BY <2>2
    <3>2. e.flags = "UP"
      BY <1>2, <1>4, <3>1 DEF GoodEntry
    <3>3. f.paths # << >>
      BY <1>2, <1>5, <3>2 DEF Kept, GoodEntry
    <3>4. Hops(f.paths) # << >>
      BY <1>4, <3>3, NoHop
    <3>5. i \in DOMAIN Hops(e.paths) /\ Hops(f.paths) = RemoveAt(Hops(e.paths), i)
      BY <1>4, <2>2, HopsRemoveAt
    <3>6. f.seqno = e.seqno
      BY <1>5 DEF Kept
    <3>7. Rules!RemoveAt(Hops(e.paths), i) = RemoveAt(Hops(e.paths), i)
      BY DEF RemoveAt, Rules!RemoveAt
    <3> QED
      BY <1>3, <3>4, <3>5, <3>6, <3>7 DEF Rules!Keep
  <2> QED
    BY <1>5, <2>1, <2>2 DEF Kept
<1>6. CASE Dropped(n, d, e, f)
  <2>1. Hops(f.paths) = << >>
    BY <1>4, <1>6, NoHop DEF Dropped
  <2> QED
    BY <1>3, <1>6, <2>1 DEF Dropped, Rules!GiveUp
<1>7. ASSUME NEW m \in msgs, Announces(m), m.to = n, About(m) = d, n # d,
             Learned(e, f, m)
      PROVE  \/ Rules!Keep(n, d)
             \/ \E a \in Announced :
                   /\ a.to = n /\ a.dst = d /\ n # d
                   /\ Rules!Adopt(n, d, a) \/ Rules!Extend(n, d, a)
  <2> DEFINE a == News(m)
             p == Via(m)
  <2>1. /\ a \in Announced /\ a.to = n /\ a.dst = d /\ a.seq = Number(m)
    BY <1>7, AnnouncedAre DEF News
  <2>2. m \in GoodMsg /\ Number(m) \in Nat
    BY <1>7, MessageNumbers DEF IInv
  <2>3. p \in PathType /\ Rules!Through(a) = Hop(p)
    BY <1>7, <2>2, ViaPath, ViaThrough
  <2>4. IsBetter(e, Number(m), m.hop) => e.flags = "UP"
    BY <1>7, BetterIsUp DEF e
  <2> HIDE DEF a, p
  <2>5. CASE IsNewer(e, Number(m)) /\ f.paths = <<p>>
    <3>1. Hops(f.paths) = <<Rules!Through(a)>> /\ f.seqno = a.seq
      BY <1>7, <2>1, <2>3, <2>5, OneHop DEF Learned
    <3>2. a.seq > e.seqno
      BY <1>4, <2>1, <2>2, <2>5 DEF IsNewer
    <3>3. Rules!Adopt(n, d, a)
      BY <1>3, <3>1, <3>2 DEF Rules!Adopt
    <3> QED
      BY <1>7, <2>1, <3>3
  <2>6. CASE IsBetter(e, Number(m), m.hop) /\ f.paths = e.paths
    <3>1. f.seqno = e.seqno
      BY <1>7, <2>6 DEF Learned, IsBetter
    <3> QED
      BY <1>3, <2>6, <3>1 DEF Rules!Keep
  <2>7. CASE IsBetter(e, Number(m), m.hop) /\ f.paths = Append(e.paths, p)
    <3>1. f.seqno = e.seqno /\ a.seq = e.seqno
      BY <1>7, <2>1, <2>7 DEF Learned, IsBetter
    <3>2. Hops(f.paths) = Append(Hops(e.paths), Rules!Through(a))
      BY <1>4, <2>3, <2>7, HopsAppend
    <3>3. Hops(e.paths) # << >>
      BY <1>2, <1>4, <2>4, <2>7, NoHop DEF GoodEntry
    <3>4. Rules!Extend(n, d, a)
      BY <1>3, <3>1, <3>2, <3>3 DEF Rules!Extend
    <3> QED
      BY <1>7, <2>1, <3>4
  <2> QED
    BY <1>7, <2>5, <2>6, <2>7 DEF Learned, p
<1> QED
  BY <1>1, <1>5, <1>6, <1>7 DEF Changes

(* Every announcement sent is truthful. *)
LEMMA AnnouncesTruthfully ==
    ASSUME IInv, IInv', NothingFixed', Effects,
           NEW a \in Announced', a \notin Announced
    PROVE  Rules!Truthful(a)
<1>1. PICK m \in msgs' : Announces(m) /\ a = News(m)
  BY AnnouncedAre
<1>2. m \notin msgs
  BY <1>1, AnnouncedAre
<1>3. Speaks(m)
  BY <1>1, <1>2 DEF Effects, Sent
<1>4. m.from \in Node /\ About(m) \in Node /\ Number(m) \in Nat
  BY <1>1, MessageNumbers DEF IInv
<1>5. /\ a.by = m.from /\ a.dst = About(m)
      /\ a.seq = Number(m) /\ a.hop = m.hop
  BY <1>1 DEF News
<1>6. CASE m.from = About(m)
  <2>1. m.hop = 0 /\ Number(m) = seqno'[About(m)]
    BY <1>3, <1>6 DEF Speaks
  <2> QED
    BY <1>4, <1>5, <1>6, <2>1 DEF Rules!Truthful
<1>7. CASE m.from # About(m)
  <2> DEFINE n == m.from
             d == About(m)
             f == rt'[n][d]
  <2>1. f.flags = "UP" /\ f.seqno = Number(m) /\ m.hop = Byte(f.adv)
    BY <1>3, <1>7 DEF Speaks
  <2>2. f \in GoodEntry
    BY <1>4 DEF IInv
  <2>3. f.adv = Infinity
    BY <1>4, <2>1 DEF NothingFixed
  <2>4. /\ Numbers'[n][d] = f.seqno /\ Routes'[n][d] = Hops(f.paths)
    BY <1>4, NumbersAre, RoutesAre
  <2> HIDE DEF f
  <2>5. f.paths # << >> /\ f.paths \in PathList
    BY <2>1, <2>2, EntryNumbers DEF GoodEntry
  <2>6. Hops(f.paths) # << >>
    BY <2>5, NoHop
  <2> QED
    BY <1>5, <1>7, <2>1, <2>3, <2>4, <2>6 DEF Rules!Truthful
<1> QED
  BY <1>6, <1>7

(* The types of the rules. *)
LEMMA RulesTypes == IInv => Rules!TypeOK
<1> SUFFICES ASSUME IInv PROVE Rules!TypeOK
  OBVIOUS
<1>1. seqno \in [Node -> Nat]
  BY DEF IInv, Issued
<1>2. Numbers \in [Node -> [Node -> Nat]]
  <2>1. \A n, d \in Node : rt[n][d].seqno \in Nat
    BY EntryNumbers DEF IInv
  <2> QED
    BY <2>1 DEF Numbers
<1>3. Routes \in [Node -> [Node -> Seq([nexthop : Node, hopcount : Nat])]]
  <2>1. ASSUME NEW n \in Node, NEW d \in Node
        PROVE  Routes[n][d] \in Seq(HopType)
    <3>1. rt[n][d].paths \in PathList
      BY EntryNumbers DEF IInv
    <3> QED
      BY <3>1, HopsType, RoutesAre
  <2>2. /\ DOMAIN Routes = Node /\ \A n \in Node : DOMAIN Routes[n] = Node
        /\ Routes = [n \in Node |-> [d \in Node |-> Routes[n][d]]]
    BY DEF Routes
  <2>3. Routes \in [Node -> [Node -> Seq(HopType)]]
    BY <2>1, <2>2
  <2> QED
    BY <2>3 DEF HopType
<1>4. Announced \subseteq
        [by : Node, to : Node, dst : Node, seq : Nat, hop : Nat]
  <2>1. ASSUME NEW m \in msgs, Announces(m)
        PROVE  News(m) \in [by : Node, to : Node, dst : Node, seq : Nat, hop : Nat]
    BY <2>1, MessageNumbers DEF IInv, News, Octet
  <2> QED
    BY <2>1, AnnouncedAre
<1> QED
  BY <1>1, <1>2, <1>3, <1>4 DEF Rules!TypeOK

LEMMA RulesTypesAfter == IInv' => Rules!TypeOK'
BY RulesTypes, PTL

(* The first states. *)
LEMMA InitFollowsRules ==
    ASSUME Init
    PROVE  Rules!Init
<1>1. \A n, d \in Node : rt[n][d].seqno = 0 /\ rt[n][d].paths = << >>
  BY DEF Init, NewEntry
<1>2. seqno \in [Node -> Nat] /\ msgs = {}
  BY DEF Init
<1>3. Numbers = [n \in Node |-> [d \in Node |-> 0]]
  BY <1>1 DEF Numbers
<1>4. Routes = [n \in Node |-> [d \in Node |-> << >>]]
  <2>1. [i \in DOMAIN << >> |-> [nexthop |-> << >>[i].nexthop,
                                 hopcount |-> << >>[i].hopcount]] = << >>
    OBVIOUS
  <2> QED
    BY <1>1, <2>1 DEF Routes
<1>5. Announced = {}
  BY <1>2 DEF Announced
<1> QED
  BY <1>2, <1>3, <1>4, <1>5 DEF Rules!Init

LEMMA StepFollowsRules ==
    ASSUME IInv, IInv', NothingFixed', Effects, Next
    PROVE  Rules!Next
<1>1. Rules!TypeOK'
  BY RulesTypesAfter
<1>2. \A d \in Node : seqno'[d] >= seqno[d]
  BY DEF Effects
<1>3. PICK n \in Node : OnlyTableOf(n)
  BY OneNodeActs
<1>4. \A x \in Node \ {n} : Numbers'[x] = Numbers[x] /\ Routes'[x] = Routes[x]
  BY <1>3 DEF OnlyTableOf, Numbers, Routes
<1>5. Rules!Step(n)
  BY <1>4, EntryFollowsRules DEF Rules!Step
<1> QED
  BY <1>1, <1>2, <1>5, AnnouncesTruthfully DEF Rules!Next

LEMMA StutterFollowsRules ==
    UNCHANGED vars => UNCHANGED Rules!rvars
BY DEF vars, Rules!rvars, Numbers, Routes, Announced

(* The agents implement the rules: whatever a handler does at once to any  *)
(* number of entries and sends, every entry changes by one of the rules,   *)
(* and every announcement is truthful.                                     *)
THEOREM Refines == Spec => ImplementsRules
<1> DEFINE Inv == IInv /\ NoStrandedPacket
<1>1. Init => Rules!Init
  BY InitFollowsRules
<1>2. Inv /\ Inv' /\ NothingFixed' /\ [Next]_vars => [Rules!Next]_(Rules!rvars)
  BY StepEffects, StepFollowsRules, StutterFollowsRules
<1> QED
  BY <1>1, <1>2, Invariance, NothingFixedInvariant, PTL
  DEF Spec, ImplementsRules, Rules!Spec
---------------------------------------------------------------------------
(* The agents keep the invariant of the rules. *)

RulesInv == RP!IInv

LEMMA RulesInvInit ==
    ASSUME Init
    PROVE  RulesInv
<1>1. RP!Init
  BY InitFollowsRules DEF Rules!Init, RP!Init
<1> QED
  BY <1>1, RP!InitOK DEF RulesInv

LEMMA StepFollowsRP ==
    ASSUME IInv, IInv', NothingFixed', Effects, Next
    PROVE  RP!Next
<1>1. Rules!Next
  BY StepFollowsRules
<1> QED
  BY <1>1 DEF Rules!Next, RP!Next, Rules!TypeOK, RP!TypeOK, Rules!Step, RP!Step,
              Rules!Keep, RP!Keep, Rules!GiveUp, RP!GiveUp, Rules!Adopt, RP!Adopt,
              Rules!Extend, RP!Extend, Rules!Truthful, RP!Truthful,
              Rules!Through, RP!Through, Rules!RemoveAt, RP!RemoveAt

LEMMA RulesInvStep ==
    ASSUME IInv, IInv', NothingFixed', RulesInv, [Next]_vars
    PROVE  RulesInv'
<1>1. CASE UNCHANGED vars
  <2>1. Numbers' = Numbers /\ Routes' = Routes /\ Announced' = Announced /\ seqno' = seqno
    BY <1>1 DEF vars, Numbers, Routes, Announced
  <2> QED
    BY <2>1 DEF RulesInv, RP!IInv, RP!TypeOK, RP!NotOlder, RP!NewsOK
<1>2. CASE Next
  BY <1>2, StepEffects, StepFollowsRP, RP!StepOK DEF RulesInv
<1> QED
  BY <1>1, <1>2

LEMMA RulesInvariance == Spec => []RulesInv
<1>1. (IInv /\ NoStrandedPacket) /\ (IInv /\ NoStrandedPacket)' /\ NothingFixed'
        /\ RulesInv /\ [Next]_vars => RulesInv'
  BY RulesInvStep
<1> QED
  BY <1>1, RulesInvInit, Invariance, NothingFixedInvariant, PTL DEF Spec

(* Whoever a node has a path to a destination through knows it at least as *)
(* recently, in whatever order requests, replies, beacons and errors       *)
(* arrive or get lost, neighbors vanish and paths expire.                  *)
THEOREM NextHopsNotOlder == Spec => []NextHopNotOlder
<1>1. IInv /\ RulesInv => NextHopNotOlder
  <2> SUFFICES ASSUME IInv, RulesInv, NEW n \in Node, NEW d \in Node,
                      NEW i \in DOMAIN rt[n][d].paths
               PROVE  LET p == rt[n][d].paths[i]
                      IN  IF p.nexthop = d THEN p.hopcount = 1
                             ELSE rt[p.nexthop][d].seqno >= rt[n][d].seqno
    BY DEF NextHopNotOlder
  <2> DEFINE ps == rt[n][d].paths
             p == ps[i]
  <2>1. ps \in PathList
    BY EntryNumbers DEF IInv
  <2>2. p \in PathType
    BY <2>1 DEF PathList
  <2>3. p.nexthop \in Node
    BY <2>2 DEF PathType
  <2>4. Routes[n][d] = Hops(ps)
    BY RoutesAre
  <2> HIDE DEF ps
  <2>5. i \in DOMAIN Hops(ps) /\ Hops(ps)[i] = Hop(p)
    BY DEF Hops, ps
  <2> HIDE DEF p
  <2>6. IF Hop(p).nexthop = d THEN Hop(p).hopcount = 1
           ELSE Numbers[Hop(p).nexthop][d] >= Numbers[n][d]
    BY <2>4, <2>5 DEF RulesInv, RP!IInv, RP!NotOlder
  <2>7. Hop(p).nexthop = p.nexthop /\ Hop(p).hopcount = p.hopcount
    BY DEF Hop
  <2>8. IF p.nexthop = d THEN p.hopcount = 1
           ELSE rt[p.nexthop][d].seqno >= rt[n][d].seqno
    BY <2>3, <2>6, <2>7, NumbersAre
  <2> QED
    BY <2>8 DEF p, ps
<1> QED
  BY <1>1, RulesInvariance, Invariance, PTL

---------------------------------------------------------------------------
(* Forwarding loops. *)

(* The next hops are those of the rules, and so are loops. *)
LEMMA NextHopsAre ==
    ASSUME IInv, NEW n \in Node, NEW d \in Node
    PROVE  RP!NextHop(n, d) = NextHop(n, d)
<1> DEFINE ps == rt[n][d].paths
<1>1. ps \in PathList /\ Routes[n][d] = Hops(ps)
  BY EntryNumbers, RoutesAre DEF IInv
<1> HIDE DEF ps
<1>2. Hops(ps) = << >> <=> ps = << >>
  BY <1>1, NoHop
<1>3. ps # << >> => Hops(ps)[1] = Hop(ps[1])
  <2>1. ps # << >> => 1 \in DOMAIN ps
    BY <1>1 DEF PathList
  <2> QED
    BY <2>1 DEF Hops
<1>4. Hop(ps[1]).nexthop = ps[1].nexthop
  BY DEF Hop
<1> QED
  BY <1>1, <1>2, <1>3, <1>4 DEF RP!NextHop, NextHop, path_find, ps

LEMMA LoopsAre == IInv => (RP!NoForwardingLoop <=> NoForwardingLoop)
<1> SUFFICES ASSUME IInv PROVE RP!NoForwardingLoop <=> NoForwardingLoop
  OBVIOUS
<1>1. \A d \in Node : RP!Forwarders(d) = Forwarders(d)
  BY NextHopsAre DEF RP!Forwarders, Forwarders
<1>2. \A d \in Node : \A n \in Forwarders(d) : n \in Node
  BY DEF Forwarders
<1> QED
  BY <1>1, <1>2, NextHopsAre DEF RP!NoForwardingLoop, NoForwardingLoop

LEMMA LoopsAreAfter == IInv' => (RP!NoForwardingLoop' <=> NoForwardingLoop')
BY LoopsAre, PTL

(* A first path that changes for the same number was an alternate one. *)
LEMMA FallbacksAre ==
    ASSUME IInv, IInv', Effects, NEW n \in Node, NEW d \in Node,
           RP!FallsBack(n, d)
    PROVE  FallsBack(n, d)
<1> DEFINE e == rt[n][d]
           f == rt'[n][d]
<1>1. Changes(n, d, e, f)
  BY DEF Effects, EntryStep
<1>2. /\ e.seqno \in Nat /\ e.paths \in PathList /\ f.paths \in PathList
  BY EntryNumbers DEF IInv
<1>3. /\ Numbers[n][d] = e.seqno /\ Numbers'[n][d] = f.seqno
      /\ Routes[n][d] = Hops(e.paths) /\ Routes'[n][d] = Hops(f.paths)
  BY NumbersAre, RoutesAre
<1> HIDE DEF e, f
<1>4. f.seqno = e.seqno /\ f.paths # << >>
  BY <1>2, <1>3, NoHop DEF RP!FallsBack
<1>5. f.paths[1] # e.paths[1] \/ e.paths = << >>
  <2>1. ASSUME e.paths # << >>, f.paths[1] = e.paths[1]
        PROVE  RP!NextHop(n, d)' = RP!NextHop(n, d)
    <3>1. 1 \in DOMAIN e.paths /\ 1 \in DOMAIN f.paths
      BY <1>2, <1>4, <2>1 DEF PathList
    <3>2. Hops(f.paths)[1] = Hops(e.paths)[1]
      BY <2>1, <3>1 DEF Hops
    <3>3. Hops(e.paths) # << >> /\ Hops(f.paths) # << >>
      BY <1>2, <1>4, <2>1, NoHop
    <3> QED
      BY <1>3, <3>2, <3>3 DEF RP!NextHop
  <2> QED
    BY <2>1 DEF RP!FallsBack
<1>6. \E j \in DOMAIN e.paths : f.paths[1] = e.paths[j]
  <2>1. CASE Kept(e, f)
    <3>1. 1 \in DOMAIN f.paths
      BY <1>2, <1>4 DEF PathList
    <3> QED
      BY <1>2, <2>1, <3>1, RemoveAtFrom DEF Kept
  <2>2. CASE Dropped(n, d, e, f)
    BY <1>4, <2>2 DEF Dropped
  <2>3. ASSUME NEW m \in msgs, Announces(m), m.to = n, About(m) = d, Learned(e, f, m)
        PROVE  \E j \in DOMAIN e.paths : f.paths[1] = e.paths[j]
    <3>1. IsBetter(e, Number(m), m.hop)
      <4>1. Number(m) \in Nat
        BY <2>3, MessageNumbers DEF IInv
      <4> QED
        BY <1>2, <1>4, <2>3, <4>1 DEF Learned, IsNewer
    <3>2. e.flags = "UP" /\ e \in GoodEntry
      BY <2>3, <3>1, MessageNumbers, BetterIsUp DEF IInv, e
    <3>3. e.paths # << >>
      BY <3>2 DEF GoodEntry
    <3>4. e.paths \in Seq(PathType) /\ 1 \in DOMAIN e.paths
      BY <1>2, <3>3 DEF PathList
    <3>5. CASE f.paths = e.paths
      BY <3>4, <3>5
    <3>6. CASE f.paths = Append(e.paths, Via(m))
      <4>1. f.paths[1] = e.paths[1]
        BY <3>4, <3>6
      <4> QED
        BY <3>4, <4>1
    <3>7. ~ IsNewer(e, Number(m))
      BY <1>2, <3>1 DEF IsNewer, IsBetter
    <3> QED
      BY <2>3, <3>5, <3>6, <3>7 DEF Learned
  <2> QED
    BY <1>1, <2>1, <2>2, <2>3 DEF Changes
<1>7. f.paths[1] # e.paths[1] /\ f.paths[1] \in Range(e.paths)
  BY <1>5, <1>6 DEF Range
<1> QED
  BY <1>4, <1>7 DEF FallsBack, path_find, e, f

LEMMA LoopsOnlyByFallbackStep ==
    ASSUME IInv, IInv', NothingFixed', RulesInv, Next,
           NoForwardingLoop, \A n, d \in Node : ~ FallsBack(n, d)
    PROVE  NoForwardingLoop'
<1>1. Effects
  BY StepEffects
<1>2. RP!Next /\ RP!NoForwardingLoop
  BY <1>1, StepFollowsRP, LoopsAre
<1>3. RP!NobodyFallsBack
  BY <1>1, FallbacksAre DEF RP!NobodyFallsBack
<1>4. RP!NoForwardingLoop'
  BY <1>2, <1>3, RP!LoopStep DEF RulesInv
<1> QED
  BY <1>4, LoopsAreAfter

(* A forwarding loop closes only in a step in which some node loses its    *)
(* first path and goes on with an alternate one: no order of messages,     *)
(* losses, errors and expirations closes one otherwise.                    *)
THEOREM LoopsNeedFallback == Spec => LoopsOnlyByFallback
<1> DEFINE Inv == (IInv /\ NoStrandedPacket) /\ NothingFixed /\ RulesInv
           A == NoForwardingLoop /\ (\A n, d \in Node : ~ FallsBack(n, d))
                   => NoForwardingLoop'
<1>1. Inv /\ Inv' /\ [Next]_vars => [A]_vars
  BY LoopsOnlyByFallbackStep
<1> QED
  BY <1>1, Invariance, NothingFixedInvariant, RulesInvariance, PTL
  DEF Spec, LoopsOnlyByFallback

(* Where nobody falls back to an alternate path routes never form a loop.  *)
THEOREM NoFallbackNoLoop ==
    Spec /\ [][\A n, d \in Node : ~ FallsBack(n, d)]_vars => []NoForwardingLoop
<1> DEFINE Inv == (IInv /\ NoStrandedPacket) /\ NothingFixed /\ RulesInv
           Still == \A n, d \in Node : ~ FallsBack(n, d)
<1>1. Init => NoForwardingLoop
  BY DEF Init, NewEntry, NoForwardingLoop, Forwarders, NextHop
<1>2. ASSUME UNCHANGED vars, NoForwardingLoop
      PROVE  NoForwardingLoop'
  BY <1>2 DEF vars, NoForwardingLoop, Forwarders, NextHop
<1>3. Inv /\ Inv' /\ NoForwardingLoop /\ [Next]_vars /\ [Still]_vars
        => NoForwardingLoop'
  BY <1>2, LoopsOnlyByFallbackStep
<1> QED
  BY <1>1, <1>3, Invariance, NothingFixedInvariant, RulesInvariance, PTL DEF Spec
=============================================================================
