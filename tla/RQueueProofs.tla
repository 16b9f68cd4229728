---------------------------- MODULE RQueueProofs ----------------------------
(***************************************************************************)
(* Proofs about RQueue: for every number of packets, limit and timeout the *)
(* pointers of the send buffer form one list, which implements the queue   *)
(* of RQueueSpec.                                                          *)
(***************************************************************************)
EXTENDS RQueue, FiniteSetTheorems, SequenceTheorems, WellFoundedInduction, TLAPS

---------------------------------------------------------------------------
(* Lists and their pointers. *)

List == [head : Packet \cup {NULL}, tail : Packet \cup {NULL},
         len : Nat, next : [Packet -> Packet \cup {NULL}]]

Injective(c) == \A i, j \in 1 .. Len(c) : c[i] = c[j] => i = j

(* The pointers of l link the packets c, in this order. *)
Links(l, c) ==
    /\ l \in List
    /\ c \in Seq(Packet)
    /\ Injective(c)
    /\ l.len = Len(c)
    /\ l.head = IF Len(c) = 0 THEN NULL ELSE c[1]
    /\ l.tail = IF Len(c) = 0 THEN NULL ELSE c[Len(c)]
    /\ \A i \in 1 .. Len(c) :
          l.next[c[i]] = IF i < Len(c) THEN c[i + 1] ELSE NULL

(* A set of numbers has a least member. *)
LEMMA LeastMember ==
    ASSUME NEW S \in SUBSET Nat, S # {}
    PROVE  \E k \in S : \A j \in S : k <= j
<1>1. PICK k \in S : \A j \in S : ~ (<<j, k>> \in OpToRel(<, Nat))
  BY NatLessThanWellFounded, WFMin
<1>2. \A j \in S : k <= j
  <2> SUFFICES ASSUME NEW j \in S, j < k PROVE FALSE
    OBVIOUS
  <2>1. <<j, k>> \in OpToRel(<, Nat)
    BY DEF OpToRel
  <2> QED
    BY <1>1, <2>1
<1> QED
  BY <1>2

(* A sequence without repetitions is no longer than there are packets. *)
LEMMA AtMostAllPackets ==
    ASSUME NEW c \in Seq(Packet), Injective(c)
    PROVE  Cardinality(Packet) \in Nat /\ Len(c) <= Cardinality(Packet)
<1>1. c \in Injection(1 .. Len(c), Packet)
  BY DEF Injective, Injection, IsInjective
<1>2. Cardinality(1 .. Len(c)) <= Cardinality(Packet)
  BY <1>1, FS_Injection, PacketAssumption
<1>3. Cardinality(1 .. Len(c)) = Len(c)
  <2> DEFINE n == Len(c)
  <2>1. n \in Nat
    BY LenProperties
  <2> HIDE DEF n
  <2>2. Cardinality(1 .. n) = IF 1 > n THEN 0 ELSE n - 1 + 1
    BY <2>1, FS_Interval
  <2>3. Cardinality(1 .. n) = n
    BY <2>1, <2>2
  <2> QED
    BY <2>3 DEF n
<1> QED
  BY <1>2, <1>3, FS_CardinalityType, PacketAssumption

(* The walk from the head meets exactly the packets that are linked. Its   *)
(* recursive definition has a solution, the one expected, and a solution   *)
(* that first differed from it at k would differ at k - 1.                 *)
LEMMA ChainOfLinks ==
    ASSUME NEW l, NEW c, Links(l, c)
    PROVE  Chain(l) = c
<1> DEFINE n == Cardinality(Packet)
           m == Len(c)
           g == [k \in 0 .. n |-> IF k < m THEN c[k + 1] ELSE NULL]
           Walk(f) == f = [k \in 0 .. n |-> IF k = 0 THEN l.head
                                            ELSE IF f[k - 1] = NULL THEN NULL
                                            ELSE l.next[f[k - 1]]]
           at == CHOOSE f : Walk(f)
<1>1. n \in Nat /\ m \in Nat /\ m <= n
  BY AtMostAllPackets DEF Links
<1>2. \A i \in 1 .. m : c[i] \in Packet /\ c[i] # NULL
  BY ElementOfSeq, PacketAssumption DEF Links
<1>3. /\ l.head = IF m = 0 THEN NULL ELSE c[1]
      /\ \A i \in 1 .. m : l.next[c[i]] = IF i < m THEN c[i + 1] ELSE NULL
  BY DEF Links
<1>c. c \in Seq(Packet)
  BY DEF Links
<1> HIDE DEF n, m
<1>4. Walk(g)
  <2>1. ASSUME NEW k \in 0 .. n
        PROVE  g[k] = IF k = 0 THEN l.head
                      ELSE IF g[k - 1] = NULL THEN NULL ELSE l.next[g[k - 1]]
    <3>1. CASE k = 0
      BY <1>1, <1>3, <3>1
    <3>2. CASE k # 0 /\ k - 1 < m
      <4>1. k \in 1 .. m /\ k - 1 \in 0 .. n /\ g[k - 1] = c[k]
        BY <1>1, <3>2
      <4>2. g[k] = IF k < m THEN c[k + 1] ELSE NULL
        BY <1>1
      <4> HIDE DEF g
      <4> QED
        BY <1>2, <1>3, <3>2, <4>1, <4>2
    <3>3. CASE k # 0 /\ ~ (k - 1 < m)
      BY <1>1, <3>3
    <3> QED
      BY <3>1, <3>2, <3>3
  <2> DEFINE h == [k \in 0 .. n |-> IF k = 0 THEN l.head
                                    ELSE IF g[k - 1] = NULL THEN NULL
                                    ELSE l.next[g[k - 1]]]
  <2>2. g = h
    BY <2>1
  <2> QED
    BY <2>2
<1>5. Walk(at)
  <2> HIDE DEF Walk, g
  <2> QED
    BY <1>4
<1> HIDE DEF at
<1>6. \A k \in 0 .. n : at[k] = g[k]
  <2> DEFINE D == {k \in 0 .. n : at[k] # g[k]}
  <2> SUFFICES ASSUME D # {} PROVE FALSE
    OBVIOUS
  <2>1. PICK k \in D : \A j \in D : k <= j
    <3>1. D \in SUBSET Nat
      BY <1>1
    <3> HIDE DEF D
    <3> QED
      BY <3>1, LeastMember
  <2>2. k \in 0 .. n /\ at[k] # g[k]
    BY <2>1
  <2>3. k # 0
    <3>1. 0 \in 0 .. n
      BY <1>1
    <3>2. at[0] = l.head
      BY <1>5, <3>1
    <3>3. g[0] = l.head
      BY <1>4, <3>1
    <3> QED
      BY <2>2, <3>2, <3>3
  <2>4. k - 1 \in 0 .. n /\ at[k - 1] = g[k - 1]
    <3>1. k - 1 \in 0 .. n /\ ~ (k <= k - 1)
      BY <1>1, <2>2, <2>3
    <3>2. k - 1 \notin D
      BY <2>1, <3>1
    <3> HIDE DEF g
    <3> QED
      BY <3>1, <3>2
  <2>5. at[k] = IF at[k - 1] = NULL THEN NULL ELSE l.next[at[k - 1]]
    <3> HIDE DEF g
    <3> QED
      BY <1>5, <2>2, <2>3
  <2>6. g[k] = IF g[k - 1] = NULL THEN NULL ELSE l.next[g[k - 1]]
    <3> HIDE DEF g
    <3> QED
      BY <1>4, <2>2, <2>3
  <2> HIDE DEF g
  <2> QED
    BY <2>2, <2>4, <2>5, <2>6
<1>7. {k \in 0 .. n : at[k] # NULL} = 0 .. m - 1
  <2>1. \A k \in 0 .. n : at[k] # NULL <=> k < m
    <3>1. \A k \in 0 .. n : g[k] = IF k < m THEN c[k + 1] ELSE NULL
      OBVIOUS
    <3>2. \A k \in 0 .. n : k < m => k + 1 \in 1 .. m
      BY <1>1
    <3> HIDE DEF g
    <3> QED
      BY <1>2, <1>6, <3>1, <3>2
  <2> HIDE DEF g
  <2> QED
    BY <1>1, <2>1
<1>8. Cardinality(0 .. m - 1) = m
  BY <1>1, FS_Interval
<1>9. \A k \in 1 .. m : at[k - 1] = c[k]
  <2>1. \A k \in 1 .. m : k - 1 \in 0 .. n /\ k - 1 < m /\ (k - 1) + 1 = k
    BY <1>1
  <2>2. \A k \in 1 .. m : g[k - 1] = c[k]
    BY <2>1
  <2> HIDE DEF g
  <2> QED
    BY <1>6, <2>1, <2>2
<1>10. Chain(l) = [k \in 1 .. m |-> at[k - 1]]
  <2>1. Chain(l) = [k \in 1 .. Cardinality({k \in 0 .. n : at[k] # NULL}) |-> at[k - 1]]
    BY DEF Chain, at, n
  <2> QED
    BY <1>7, <1>8, <2>1
<1>11. c = [k \in 1 .. m |-> c[k]]
  BY <1>c DEF m
<1> QED
  BY <1>9, <1>10, <1>11

---------------------------------------------------------------------------
(* The operations on the pointers: packets leave and enter the list.       *)

Without(c, i) ==
    [j \in 1 .. Len(c) - 1 |-> IF j < i THEN c[j] ELSE c[j + 1]]

With(c, p) ==
    [j \in 1 .. Len(c) + 1 |-> IF j <= Len(c) THEN c[j] ELSE p]

LEMMA WithoutProperties ==
    ASSUME NEW c \in Seq(Packet), Injective(c), NEW i \in 1 .. Len(c)
    PROVE  /\ Without(c, i) \in Seq(Packet)
           /\ Len(Without(c, i)) = Len(c) - 1
           /\ \A j \in 1 .. Len(c) - 1 :
                 Without(c, i)[j] = IF j < i THEN c[j] ELSE c[j + 1]
           /\ Injective(Without(c, i))
           /\ \A p : (\E j \in 1 .. Len(c) - 1 : Without(c, i)[j] = p)
                        <=> p # c[i] /\ \E j \in 1 .. Len(c) : c[j] = p
<1> DEFINE w == Without(c, i)
           m == Len(c)
<1>1. m \in Nat /\ m # 0 /\ i \in 1 .. m
  BY LenProperties
<1>2. \A j \in 1 .. m : c[j] \in Packet
  BY ElementOfSeq
<1>3. \A j, k \in 1 .. m : c[j] = c[k] => j = k
  BY DEF Injective
<1>4. w = [j \in 1 .. m - 1 |-> IF j < i THEN c[j] ELSE c[j + 1]]
  BY DEF Without
<1> HIDE DEF w, m
<1>5. \A j \in 1 .. m - 1 : j \in 1 .. m /\ j + 1 \in 1 .. m
  BY <1>1
<1>6. \A j \in 1 .. m - 1 : w[j] = IF j < i THEN c[j] ELSE c[j + 1]
  BY <1>4
<1>7. \A j \in 1 .. m - 1 : w[j] \in Packet
  BY <1>2, <1>5, <1>6
<1>8. w \in Seq(Packet) /\ Len(w) = m - 1
  <2>1. m - 1 \in Nat
    BY <1>1
  <2>2. w \in [1 .. m - 1 -> Packet]
    BY <1>4, <1>7
  <2> QED
    BY <2>1, <2>2, LenProperties, SeqDef
<1>9. ASSUME NEW j \in 1 .. m - 1, NEW k \in 1 .. m - 1, w[j] = w[k] PROVE j = k
  BY <1>1, <1>3, <1>5, <1>6, <1>9
<1>10. ASSUME NEW p
       PROVE  (\E j \in 1 .. m - 1 : w[j] = p) <=> p # c[i] /\ \E j \in 1 .. m : c[j] = p
  <2>1. ASSUME NEW j \in 1 .. m - 1, w[j] = p
        PROVE  p # c[i] /\ \E k \in 1 .. m : c[k] = p
    BY <1>1, <1>3, <1>5, <1>6, <2>1
  <2>2. ASSUME NEW j \in 1 .. m, c[j] = p, p # c[i]
        PROVE  \E k \in 1 .. m - 1 : w[k] = p
    <3>1. CASE j < i
      <4>1. j \in 1 .. m - 1
        BY <1>1, <3>1
      <4> QED
        BY <1>6, <2>2, <3>1, <4>1
    <3>2. CASE ~ (j < i)
      <4>1. j - 1 \in 1 .. m - 1 /\ ~ (j - 1 < i) /\ (j - 1) + 1 = j
        BY <1>1, <2>2, <3>2
      <4> QED
        BY <1>6, <2>2, <4>1
    <3> QED
      BY <3>1, <3>2
  <2> QED
    BY <2>1, <2>2
<1> QED
  BY <1>6, <1>8, <1>9, <1>10 DEF w, m, Injective

LEMMA WithProperties ==
    ASSUME NEW c \in Seq(Packet), Injective(c), NEW p \in Packet,
           \A i \in 1 .. Len(c) : c[i] # p
    PROVE  /\ With(c, p) \in Seq(Packet)
           /\ Len(With(c, p)) = Len(c) + 1
           /\ \A j \in 1 .. Len(c) + 1 :
                 With(c, p)[j] = IF j <= Len(c) THEN c[j] ELSE p
           /\ Injective(With(c, p))
           /\ \A r : (\E j \in 1 .. Len(c) + 1 : With(c, p)[j] = r)
                        <=> r = p \/ \E j \in 1 .. Len(c) : c[j] = r
<1> DEFINE w == With(c, p)
           m == Len(c)
<1>1. m \in Nat
  BY LenProperties
<1>2. \A j \in 1 .. m : c[j] \in Packet
  BY ElementOfSeq
<1>3. \A j, k \in 1 .. m : c[j] = c[k] => j = k
  BY DEF Injective
<1>4. w = [j \in 1 .. m + 1 |-> IF j <= m THEN c[j] ELSE p]
  BY DEF With
<1>p. \A j \in 1 .. m : c[j] # p
  OBVIOUS
<1> HIDE DEF w, m
<1>6. \A j \in 1 .. m + 1 : w[j] = IF j <= m THEN c[j] ELSE p
  BY <1>4
<1>5. \A j \in 1 .. m + 1 : j <= m => j \in 1 .. m
  BY <1>1
<1>7. \A j \in 1 .. m + 1 : w[j] \in Packet
  BY <1>2, <1>5, <1>6
<1>8. w \in Seq(Packet) /\ Len(w) = m + 1
  <2>1. m + 1 \in Nat
    BY <1>1
  <2>2. w \in [1 .. m + 1 -> Packet]
    BY <1>4, <1>7
  <2> QED
    BY <2>1, <2>2, LenProperties, SeqDef
<1>9. ASSUME NEW j \in 1 .. m + 1, NEW k \in 1 .. m + 1, w[j] = w[k] PROVE j = k
  <2>1. w[j] = (IF j <= m THEN c[j] ELSE p) /\ w[k] = (IF k <= m THEN c[k] ELSE p)
    BY <1>6
  <2>2. CASE j <= m /\ k <= m
    BY <1>3, <1>5, <1>9, <2>1, <2>2
  <2>3. CASE ~ (j <= m) /\ ~ (k <= m)
    BY <1>1, <2>3
  <2> QED
    BY <1>5, <1>p, <1>9, <2>1, <2>2, <2>3
<1>10. ASSUME NEW r
       PROVE  (\E j \in 1 .. m + 1 : w[j] = r) <=> r = p \/ \E j \in 1 .. m : c[j] = r
  <2>1. m + 1 \in 1 .. m + 1 /\ ~ (m + 1 <= m) /\ w[m + 1] = p
    BY <1>1, <1>6
  <2>2. \A j \in 1 .. m : j \in 1 .. m + 1 /\ w[j] = c[j]
    BY <1>1, <1>6
  <2>3. \A j \in 1 .. m + 1 : w[j] = p \/ (j \in 1 .. m /\ w[j] = c[j])
    BY <1>5, <1>6
  <2> QED
    BY <2>1, <2>2, <2>3
<1> QED
  BY <1>6, <1>8, <1>9, <1>10 DEF w, m, Injective

(* remove_head takes the first packet out of the list. *)
LEMMA RemoveHeadLinks ==
    ASSUME NEW l, NEW c, Links(l, c), Len(c) # 0
    PROVE  Links(remove_head(l), Without(c, 1))
<1> DEFINE r == remove_head(l)
           w == Without(c, 1)
           m == Len(c)
<1>1. /\ l \in List /\ c \in Seq(Packet) /\ Injective(c)
      /\ l.len = m /\ l.head = c[1] /\ l.tail = c[m]
      /\ \A i \in 1 .. m : l.next[c[i]] = IF i < m THEN c[i + 1] ELSE NULL
  BY DEF Links
<1>2. m \in Nat /\ m # 0
  BY <1>1, LenProperties
<1>3. /\ w \in Seq(Packet) /\ Len(w) = m - 1 /\ Injective(w)
      /\ \A j \in 1 .. m - 1 : w[j] = c[j + 1]
  <2>1. 1 \in 1 .. m
    BY <1>2
  <2>2. /\ w \in Seq(Packet) /\ Len(w) = m - 1 /\ Injective(w)
        /\ \A j \in 1 .. m - 1 : w[j] = IF j < 1 THEN c[j] ELSE c[j + 1]
    BY <1>1, <2>1, WithoutProperties
  <2> HIDE DEF w, m
  <2> QED
    BY <1>2, <2>2
<1>4. c[1] \in Packet /\ c[1] # NULL
  BY <1>1, <1>2, ElementOfSeq, PacketAssumption
<1>5. l.head = l.tail <=> m = 1
  <2>1. \A i, j \in 1 .. m : c[i] = c[j] => i = j
    BY <1>1 DEF Injective
  <2> HIDE DEF m
  <2> QED
    BY <1>1, <1>2, <2>1
<1>6. l.next[c[1]] = IF 1 < m THEN c[2] ELSE NULL
  <2> HIDE DEF m
  <2> QED
    BY <1>1, <1>2
<1>7. /\ r.head = (IF m = 1 THEN NULL ELSE l.next[l.head])
      /\ r.tail = (IF m = 1 THEN NULL ELSE l.tail)
      /\ r.len = m - 1
      /\ r.next = l.next
      /\ r \in List
  <2> HIDE DEF m
  <2>1. l.next \in [Packet -> Packet \cup {NULL}] /\ l.tail \in Packet \cup {NULL}
    BY <1>1 DEF List
  <2>2. l.next[l.head] \in Packet \cup {NULL}
    BY <1>1, <1>4, <2>1
  <2>3. l.head # NULL /\ l.len = m /\ m - 1 \in Nat
    BY <1>1, <1>2, <1>4
  <2> DEFINE a == IF m = 1 THEN NULL ELSE l.next[l.head]
             b == IF m = 1 THEN NULL ELSE l.tail
             k == m - 1
  <2>4. r = [l EXCEPT !.head = a, !.tail = b, !.len = k]
    BY <1>5, <2>3 DEF remove_head
  <2>5. a \in Packet \cup {NULL} /\ b \in Packet \cup {NULL} /\ k \in Nat
    BY <2>1, <2>2, <2>3
  <2> HIDE DEF r, a, b, k
  <2>6. r \in List /\ r.head = a /\ r.tail = b /\ r.len = k /\ r.next = l.next
    BY <1>1, <2>4, <2>5 DEF List
  <2> QED
    BY <2>6 DEF a, b, k
<1> HIDE DEF r, w, m
<1>8. r.head = IF Len(w) = 0 THEN NULL ELSE w[1]
  BY <1>1, <1>2, <1>3, <1>6, <1>7
<1>9. r.tail = IF Len(w) = 0 THEN NULL ELSE w[Len(w)]
  BY <1>1, <1>2, <1>3, <1>7
<1>10. ASSUME NEW i \in 1 .. Len(w)
       PROVE  r.next[w[i]] = IF i < Len(w) THEN w[i + 1] ELSE NULL
  <2>1. i \in 1 .. m - 1 /\ i + 1 \in 1 .. m
    BY <1>2, <1>3
  <2>2. w[i] = c[i + 1]
    BY <1>3, <2>1
  <2>3. l.next[c[i + 1]] = IF i + 1 < m THEN c[(i + 1) + 1] ELSE NULL
    BY <1>1, <2>1
  <2>4. i < Len(w) => w[i + 1] = c[(i + 1) + 1]
    BY <1>2, <1>3, <2>1
  <2>5. i < Len(w) <=> i + 1 < m
    BY <1>2, <1>3, <2>1
  <2> QED
    BY <1>7, <2>2, <2>3, <2>4, <2>5
<1> QED
  BY <1>3, <1>7, <1>8, <1>9, <1>10 DEF Links, r, w

LEMMA RemoveHeadOfNothing ==
    ASSUME NEW l, NEW c, Links(l, c), Len(c) = 0
    PROVE  remove_head(l) = l
<1>1. /\ l \in List /\ l.head = NULL /\ l.tail = NULL
  BY DEF Links
<1> QED
  BY <1>1 DEF remove_head, List

(* Unlink takes the i-th packet out of the list. *)
LEMMA UnlinkLinks ==
    ASSUME NEW l, NEW c, Links(l, c), NEW i \in 1 .. Len(c)
    PROVE  Links(Unlink(l, c[i]), Without(c, i))
<1> DEFINE r == Unlink(l, c[i])
           w == Without(c, i)
           m == Len(c)
           b == c[i - 1]
           x == IF i = m THEN NULL ELSE c[i + 1]
           e == IF i = m THEN c[i - 1] ELSE l.tail
           k == m - 1
<1>1. /\ l \in List /\ c \in Seq(Packet) /\ Injective(c)
      /\ l.len = m /\ (m # 0 => l.head = c[1] /\ l.tail = c[m])
      /\ \A j \in 1 .. m : l.next[c[j]] = IF j < m THEN c[j + 1] ELSE NULL
  BY DEF Links
<1>2. m \in Nat /\ m # 0 /\ i \in 1 .. m
  BY <1>1, LenProperties
<1>3. /\ w \in Seq(Packet) /\ Len(w) = m - 1 /\ Injective(w)
      /\ \A j \in 1 .. m - 1 : w[j] = IF j < i THEN c[j] ELSE c[j + 1]
  <2>1. w \in Seq(Packet) /\ Len(w) = m - 1 /\ Injective(w)
    BY <1>1, WithoutProperties
  <2>2. \A j \in 1 .. m - 1 : w[j] = IF j < i THEN c[j] ELSE c[j + 1]
    BY <1>1, WithoutProperties
  <2> QED
    BY <2>1, <2>2
<1>4. \A j \in 1 .. m : c[j] \in Packet /\ c[j] # NULL
  BY <1>1, ElementOfSeq, PacketAssumption
<1>5. \A j, h \in 1 .. m : c[j] = c[h] => j = h
  BY <1>1 DEF Injective
<1>6. CASE i = 1
  <2>1. r = remove_head(l)
    <3> HIDE DEF m
    <3> QED
      BY <1>1, <1>2, <1>6 DEF Unlink
  <2>2. Links(remove_head(l), Without(c, 1))
    BY <1>2, RemoveHeadLinks
  <2> QED
    BY <1>6, <2>1, <2>2
<1>7. CASE i # 1
  <2>1. i - 1 \in 1 .. m /\ i - 1 \in 1 .. m - 1 /\ 1 \in 1 .. m /\ m \in 1 .. m
    <3> HIDE DEF m
    <3> QED
      BY <1>2, <1>7
  <2>2. Prev(l, c[i]) = b
    <3>1. DOMAIN c = 1 .. m
      BY <1>1, LenProperties
    <3>2. (CHOOSE j \in DOMAIN c : c[j] = c[i]) = i
      BY <1>2, <1>5, <3>1
    <3>3. Chain(l) = c
      BY ChainOfLinks
    <3> QED
      BY <3>2, <3>3 DEF Prev
  <2>3. c[i] # l.head /\ (c[i] = l.tail <=> i = m)
    <3> HIDE DEF m
    <3> QED
      BY <1>1, <1>2, <1>5, <1>7, <2>1
  <2>4. x = l.next[c[i]]
    <3> HIDE DEF m
    <3> QED
      BY <1>1, <1>2
  <2>5. r = [l EXCEPT !.next[b] = x, !.tail = e, !.len = k]
    <3>1. CASE i = m
      <4>1. c[i] = l.tail
        BY <2>3, <3>1
      <4>2. r = [l EXCEPT !.next[b] = NULL, !.tail = b, !.len = l.len - 1]
        BY <2>2, <2>3, <4>1 DEF Unlink
      <4>3. x = NULL /\ e = b /\ l.len - 1 = k
        BY <1>1, <3>1
      <4> HIDE DEF r, x, e, k, b
      <4> QED
        BY <4>2, <4>3
    <3>2. CASE i # m
      <4>1. c[i] # l.tail
        BY <2>3, <3>2
      <4>2. r = [l EXCEPT !.next[b] = l.next[c[i]], !.len = l.len - 1]
        BY <2>2, <2>3, <4>1 DEF Unlink
      <4>3. x = l.next[c[i]] /\ e = l.tail /\ l.len - 1 = k
        BY <1>1, <2>4, <3>2
      <4> HIDE DEF r, x, e, k, b
      <4>4. r = [l EXCEPT !.next[b] = x, !.len = k]
        BY <4>2, <4>3
      <4> QED
        BY <1>1, <4>3, <4>4 DEF List
    <3> QED
      BY <3>1, <3>2
  <2>6. b \in Packet /\ x \in Packet \cup {NULL} /\ e \in Packet \cup {NULL} /\ k \in Nat
    <3>1. l.tail \in Packet \cup {NULL}
      BY <1>1 DEF List
    <3>2. i # m => i + 1 \in 1 .. m
      BY <1>1, <1>2, LenProperties
    <3>3. m - 1 \in Nat
      BY <1>2
    <3> HIDE DEF m
    <3> QED
      BY <1>4, <2>1, <3>1, <3>2, <3>3
  <2> HIDE DEF r, w, m, b, x, e, k
  <2>7. /\ r \in List /\ r.head = l.head /\ r.tail = e /\ r.len = k
        /\ r.next = [l.next EXCEPT ![b] = x]
    <3> DEFINE f == [l.next EXCEPT ![b] = x]
    <3>1. l.next \in [Packet -> Packet \cup {NULL}]
      BY <1>1 DEF List
    <3>2. f \in [Packet -> Packet \cup {NULL}]
      BY <2>6, <3>1
    <3>3. r = [l EXCEPT !.next = f, !.tail = e, !.len = k]
      BY <2>5
    <3> HIDE DEF f
    <3>4. /\ r \in List /\ r.head = l.head /\ r.tail = e /\ r.len = k
          /\ r.next = f
      BY <1>1, <2>6, <3>2, <3>3 DEF List
    <3> QED
      BY <3>4 DEF f
  <2>8. k = m - 1 /\ b = c[i - 1]
        /\ x = (IF i = m THEN NULL ELSE c[i + 1])
        /\ e = (IF i = m THEN c[i - 1] ELSE l.tail)
    BY DEF k, b, x, e
  <2>9. r.head = IF Len(w) = 0 THEN NULL ELSE w[1]
    BY <1>1, <1>2, <1>3, <1>7, <2>7
  <2>10. r.tail = IF Len(w) = 0 THEN NULL ELSE w[Len(w)]
    <3>1. Len(w) # 0 /\ m - 1 \in 1 .. m - 1 /\ (m - 1) + 1 = m
      BY <1>2, <1>3, <1>7
    <3>2. w[m - 1] = IF m - 1 < i THEN c[m - 1] ELSE c[m]
      BY <1>3, <3>1
    <3>3. m - 1 < i <=> i = m
      BY <1>2
    <3> QED
      BY <1>1, <1>2, <1>3, <2>7, <2>8, <3>1, <3>2, <3>3
  <2>11. ASSUME NEW j \in 1 .. Len(w)
         PROVE  r.next[w[j]] = IF j < Len(w) THEN w[j + 1] ELSE NULL
    <3>1. j \in 1 .. m - 1 /\ j \in 1 .. m /\ j + 1 \in 1 .. m
      BY <1>2, <1>3
    <3>2. w[j] = IF j < i THEN c[j] ELSE c[j + 1]
      BY <1>3, <3>1
    <3>3. j < m - 1 => w[j + 1] = IF j + 1 < i THEN c[j + 1] ELSE c[(j + 1) + 1]
      BY <1>2, <1>3, <3>1
    <3>4. l.next \in [Packet -> Packet \cup {NULL}]
      BY <1>1 DEF List
    <3>5. \A p \in Packet : r.next[p] = IF p = b THEN x ELSE l.next[p]
      BY <2>7, <3>4
    <3>6. CASE j = i - 1
      <4>1. w[j] = b
        BY <1>2, <2>8, <3>2, <3>6
      <4>2. r.next[w[j]] = x
        BY <2>6, <3>5, <4>1
      <4>3. j < m - 1 => w[j + 1] = c[i + 1] /\ i # m
        BY <1>2, <3>1, <3>3, <3>6
      <4>4. ~ (j < m - 1) => i = m
        BY <1>2, <3>1, <3>6
      <4> QED
        BY <1>3, <2>8, <4>2, <4>3, <4>4
    <3>7. CASE j < i - 1
      <4>1. w[j] = c[j] /\ w[j] # b
        BY <1>2, <1>5, <2>1, <2>8, <3>1, <3>2, <3>7
      <4>2. r.next[w[j]] = c[j + 1]
        <5>1. l.next[c[j]] = c[j + 1]
          BY <1>1, <1>2, <3>1, <3>7
        <5> QED
          BY <1>4, <3>1, <3>5, <4>1, <5>1
      <4>3. j < m - 1 /\ w[j + 1] = c[j + 1]
        BY <1>2, <3>1, <3>3, <3>7
      <4> QED
        BY <1>3, <4>2, <4>3
    <3>8. CASE j >= i
      <4>1. w[j] = c[j + 1] /\ w[j] # b
        BY <1>2, <1>5, <2>1, <2>8, <3>1, <3>2, <3>8
      <4>2. r.next[w[j]] = IF j + 1 < m THEN c[(j + 1) + 1] ELSE NULL
        <5>1. l.next[c[j + 1]] = IF j + 1 < m THEN c[(j + 1) + 1] ELSE NULL
          BY <1>1, <3>1
        <5>2. c[j + 1] \in Packet
          BY <1>4, <3>1
        <5>3. r.next[c[j + 1]] = l.next[c[j + 1]]
          BY <3>5, <4>1, <5>2
        <5> QED
          BY <4>1, <5>1, <5>3
      <4>3. j < m - 1 => w[j + 1] = c[(j + 1) + 1]
        BY <1>2, <3>1, <3>3, <3>8
      <4>4. j < m - 1 <=> j + 1 < m
        BY <1>2, <3>1
      <4> QED
        BY <1>3, <4>2, <4>3, <4>4
    <3> QED
      BY <1>2, <3>1, <3>6, <3>7, <3>8
  <2>12. r.len = Len(w)
    BY <1>3, <2>7, <2>8
  <2>13. Links(r, w)
    BY <1>3, <2>7, <2>9, <2>10, <2>11, <2>12 DEF Links
  <2> QED
    BY <2>13 DEF r, w
<1> QED
  BY <1>6, <1>7

(* Link puts p at the end of the list. *)
LEMMA LinkLinks ==
    ASSUME NEW l, NEW c, Links(l, c), NEW p \in Packet,
           \A i \in 1 .. Len(c) : c[i] # p
    PROVE  Links(Link(l, p), With(c, p))
<1> DEFINE r == Link(l, p)
           w == With(c, p)
           m == Len(c)
           f == IF m = 0 THEN [l.next EXCEPT ![p] = NULL]
                ELSE [[l.next EXCEPT ![p] = NULL] EXCEPT ![c[m]] = p]
           a == IF m = 0 THEN p ELSE l.head
           k == m + 1
<1>1. /\ l \in List /\ c \in Seq(Packet) /\ Injective(c) /\ l.len = m
      /\ l.head = (IF m = 0 THEN NULL ELSE c[1])
      /\ l.tail = (IF m = 0 THEN NULL ELSE c[m])
      /\ \A j \in 1 .. m : l.next[c[j]] = IF j < m THEN c[j + 1] ELSE NULL
  BY DEF Links
<1>2. m \in Nat
  BY <1>1, LenProperties
<1>3. /\ w \in Seq(Packet) /\ Len(w) = m + 1 /\ Injective(w)
      /\ \A j \in 1 .. m + 1 : w[j] = IF j <= m THEN c[j] ELSE p
  BY <1>1, WithProperties
<1>4. \A j \in 1 .. m : c[j] \in Packet /\ c[j] # NULL /\ c[j] # p
  BY <1>1, ElementOfSeq, PacketAssumption
<1>5. \A j, h \in 1 .. m : c[j] = c[h] => j = h
  BY <1>1 DEF Injective
<1>6. m # 0 => 1 \in 1 .. m /\ m \in 1 .. m
  <2> HIDE DEF m
  <2> QED
    BY <1>2
<1>7. l.head = NULL <=> m = 0
  <2> HIDE DEF m
  <2> QED
    BY <1>1, <1>4, <1>6
<1> HIDE DEF m
<1>8. l.next \in [Packet -> Packet \cup {NULL}] /\ l.head \in Packet \cup {NULL}
  BY <1>1 DEF List
<1>9. f \in [Packet -> Packet \cup {NULL}] /\ a \in Packet \cup {NULL} /\ k \in Nat
  BY <1>2, <1>4, <1>6, <1>8
<1>10. r = [l EXCEPT !.head = a, !.next = f, !.tail = p, !.len = k]
  <2>1. CASE m = 0
    <3>1. r = [l EXCEPT !.head = p, !.tail = p, !.next[p] = NULL, !.len = l.len + 1]
      BY <1>7, <2>1 DEF Link
    <3>2. f = [l.next EXCEPT ![p] = NULL] /\ a = p /\ k = l.len + 1
      BY <1>1, <2>1
    <3> HIDE DEF r, f, a, k
    <3> QED
      BY <1>1, <3>1, <3>2 DEF List
  <2>2. CASE m # 0
    <3>1. r = [l EXCEPT !.next = [[l.next EXCEPT ![p] = NULL] EXCEPT ![l.tail] = p],
                        !.tail = p, !.len = l.len + 1]
      BY <1>7, <2>2 DEF Link
    <3>2. /\ f = [[l.next EXCEPT ![p] = NULL] EXCEPT ![l.tail] = p]
          /\ a = l.head /\ k = l.len + 1
      BY <1>1, <2>2
    <3> HIDE DEF r, f, a, k
    <3>3. r = [l EXCEPT !.next = f, !.tail = p, !.len = k]
      BY <3>1, <3>2
    <3> QED
      BY <1>1, <3>2, <3>3 DEF List
  <2> QED
    BY <2>1, <2>2
<1>11. /\ r \in List /\ r.head = a /\ r.tail = p /\ r.len = k /\ r.next = f
  <2> HIDE DEF r, f, a, k
  <2> QED
    BY <1>1, <1>9, <1>10 DEF List
<1>12. \A x \in Packet : f[x] = IF m # 0 /\ x = c[m] THEN p
                                ELSE IF x = p THEN NULL ELSE l.next[x]
  BY <1>4, <1>6, <1>8
<1>13. a = (IF m = 0 THEN p ELSE l.head) /\ k = m + 1
  OBVIOUS
<1> HIDE DEF r, w, f, a, k
<1>14. r.head = IF Len(w) = 0 THEN NULL ELSE w[1]
  BY <1>1, <1>2, <1>3, <1>11, <1>13
<1>15. r.tail = IF Len(w) = 0 THEN NULL ELSE w[Len(w)]
  BY <1>2, <1>3, <1>11
<1>16. ASSUME NEW j \in 1 .. Len(w)
       PROVE  r.next[w[j]] = IF j < Len(w) THEN w[j + 1] ELSE NULL
  <2>1. CASE j = m + 1
    <3>1. w[j] = p /\ ~ (j < Len(w))
      BY <1>2, <1>3, <2>1
    <3>2. m # 0 => p # c[m]
      BY <1>4, <1>6
    <3> QED
      BY <1>11, <1>12, <3>1, <3>2
  <2>2. CASE j <= m
    <3>1. j \in 1 .. m /\ w[j] = c[j] /\ j < Len(w) /\ m # 0 /\ j + 1 \in 1 .. m + 1
      BY <1>2, <1>3, <2>2
    <3>2. c[j] \in Packet /\ c[j] # p
      BY <1>4, <3>1
    <3>3. c[j] = c[m] <=> j = m
      BY <1>5, <1>6, <3>1
    <3>4. r.next[c[j]] = IF j = m THEN p ELSE l.next[c[j]]
      BY <1>11, <1>12, <3>1, <3>2, <3>3
    <3>5. j # m => l.next[c[j]] = c[j + 1]
      BY <1>1, <1>2, <2>2, <3>1
    <3>6. w[j + 1] = IF j = m THEN p ELSE c[j + 1]
      BY <1>2, <1>3, <3>1
    <3> QED
      BY <3>1, <3>4, <3>5, <3>6
  <2> QED
    BY <1>2, <1>3, <2>1, <2>2
<1>17. r.len = Len(w)
  BY <1>3, <1>11, <1>13
<1> QED
  BY <1>3, <1>11, <1>14, <1>15, <1>16, <1>17 DEF Links, r, w

---------------------------------------------------------------------------
(* Purging. *)

(* The packets c without the first k, and the pointers l to them. *)
Rest(c, k) == [j \in 1 .. Len(c) - k |-> c[j + k]]

Off(l, c, k) ==
    [head |-> IF k < Len(c) THEN c[k + 1] ELSE NULL,
     tail |-> IF k < Len(c) THEN c[Len(c)] ELSE NULL,
     len |-> Len(c) - k, next |-> l.next]

LEMMA RestProperties ==
    ASSUME NEW c \in Seq(Packet), NEW k \in 0 .. Len(c)
    PROVE  /\ Rest(c, k) \in Seq(Packet)
           /\ Len(Rest(c, k)) = Len(c) - k
           /\ \A j \in 1 .. Len(c) - k : Rest(c, k)[j] = c[j + k] /\ j + k \in 1 .. Len(c)
           /\ Injective(c) => Injective(Rest(c, k))
<1> DEFINE w == Rest(c, k)
           m == Len(c)
<1>1. m \in Nat /\ k \in 0 .. m
  BY LenProperties
<1>2. \A j \in 1 .. m : c[j] \in Packet
  BY ElementOfSeq
<1>3. w = [j \in 1 .. m - k |-> c[j + k]]
  BY DEF Rest
<1>4. Injective(c) => \A i, j \in 1 .. m : c[i] = c[j] => i = j
  BY DEF Injective
<1> HIDE DEF w, m
<1>5. \A j \in 1 .. m - k : j + k \in 1 .. m /\ w[j] = c[j + k]
  BY <1>1, <1>3
<1>6. w \in Seq(Packet) /\ Len(w) = m - k
  <2>1. m - k \in Nat
    BY <1>1
  <2>2. w \in [1 .. m - k -> Packet]
    BY <1>2, <1>3, <1>5
  <2> QED
    BY <2>1, <2>2, LenProperties, SeqDef
<1>7. ASSUME Injective(c), NEW i \in 1 .. m - k, NEW j \in 1 .. m - k, w[i] = w[j]
      PROVE  i = j
  <2>1. i + k = j + k
    BY <1>4, <1>5, <1>7
  <2> QED
    BY <1>1, <2>1
<1> QED
  BY <1>5, <1>6, <1>7 DEF w, m, Injective

LEMMA OffLinks ==
    ASSUME NEW l, NEW c, Links(l, c), NEW k \in 0 .. Len(c)
    PROVE  Links(Off(l, c, k), Rest(c, k))
<1> DEFINE r == Off(l, c, k)
           w == Rest(c, k)
           m == Len(c)
<1>1. /\ l \in List /\ c \in Seq(Packet) /\ Injective(c)
      /\ \A j \in 1 .. m : l.next[c[j]] = IF j < m THEN c[j + 1] ELSE NULL
  BY DEF Links
<1>2. m \in Nat /\ k \in 0 .. m
  BY <1>1, LenProperties
<1>3. /\ w \in Seq(Packet) /\ Len(w) = m - k /\ Injective(w)
      /\ \A j \in 1 .. m - k : w[j] = c[j + k] /\ j + k \in 1 .. m
  BY <1>1, RestProperties
<1>4. \A j \in 1 .. m : c[j] \in Packet
  BY <1>1, ElementOfSeq
<1>5. /\ r.head = IF k < m THEN c[k + 1] ELSE NULL
      /\ r.tail = IF k < m THEN c[m] ELSE NULL
      /\ r.len = m - k /\ r.next = l.next
  BY DEF Off
<1>6. r = [head |-> r.head, tail |-> r.tail, len |-> r.len, next |-> r.next]
  BY DEF Off
<1> HIDE DEF r, w, m
<1>7. r \in List
  <2>1. l.next \in [Packet -> Packet \cup {NULL}]
    BY <1>1 DEF List
  <2>2. k < m => k + 1 \in 1 .. m /\ m \in 1 .. m
    BY <1>2
  <2>3. m - k \in Nat
    BY <1>2
  <2> QED
    BY <1>4, <1>5, <1>6, <2>1, <2>2, <2>3 DEF List
<1>8. r.head = (IF Len(w) = 0 THEN NULL ELSE w[1])
      /\ r.tail = (IF Len(w) = 0 THEN NULL ELSE w[Len(w)])
      /\ r.len = Len(w)
  <2>1. k < m => 1 \in 1 .. m - k /\ m - k \in 1 .. m - k /\ 1 + k = k + 1 /\ (m - k) + k = m
    BY <1>2
  <2>2. m - k = 0 <=> ~ (k < m)
    BY <1>2
  <2>3. k < m => w[1] = c[k + 1] /\ w[m - k] = c[m]
    BY <1>3, <2>1
  <2> QED
    BY <1>3, <1>5, <2>2, <2>3
<1>9. ASSUME NEW j \in 1 .. Len(w)
      PROVE  r.next[w[j]] = IF j < Len(w) THEN w[j + 1] ELSE NULL
  <2>1. j \in 1 .. m - k /\ w[j] = c[j + k] /\ j + k \in 1 .. m
    BY <1>3
  <2>2. l.next[c[j + k]] = IF j + k < m THEN c[(j + k) + 1] ELSE NULL
    BY <1>1, <2>1
  <2>3. j < m - k => j + 1 \in 1 .. m - k /\ (j + 1) + k = (j + k) + 1
    BY <1>2, <2>1
  <2>4. j < m - k => w[j + 1] = c[(j + k) + 1]
    BY <1>3, <2>3
  <2>5. j < m - k <=> j + k < m
    BY <1>2, <2>1
  <2> QED
    BY <1>3, <1>5, <2>1, <2>2, <2>4, <2>5
<1> QED
  BY <1>3, <1>7, <1>8, <1>9 DEF Links, r, w

LEMMA OffNext ==
    ASSUME NEW l, NEW c, Links(l, c), NEW k \in 0 .. Len(c), k < Len(c)
    PROVE  remove_head(Off(l, c, k)) = Off(l, c, k + 1)
<1> DEFINE m == Len(c)
           r == Off(l, c, k)
<1>1. /\ c \in Seq(Packet) /\ Injective(c)
      /\ \A j \in 1 .. m : l.next[c[j]] = IF j < m THEN c[j + 1] ELSE NULL
  BY DEF Links
<1>2. m \in Nat /\ k \in 0 .. m /\ k < m
  BY <1>1, LenProperties
<1>3. r = [head |-> c[k + 1], tail |-> c[m], len |-> m - k, next |-> l.next]
  BY DEF Off
<1>4. \A i, j \in 1 .. m : c[i] = c[j] => i = j
  BY <1>1 DEF Injective
<1>5. \A j \in 1 .. m : c[j] # NULL
  BY <1>1, ElementOfSeq, PacketAssumption
<1>6. Off(l, c, k + 1) = [head |-> IF k + 1 < m THEN c[(k + 1) + 1] ELSE NULL,
                          tail |-> IF k + 1 < m THEN c[m] ELSE NULL,
                          len |-> m - (k + 1), next |-> l.next]
  BY DEF Off
<1> HIDE DEF m, r
<1>7. k + 1 \in 1 .. m /\ m \in 1 .. m /\ (k + 1 = m <=> ~ (k + 1 < m))
      /\ (m - k) - 1 = m - (k + 1)
  BY <1>2
<1>8. c[k + 1] = c[m] <=> ~ (k + 1 < m)
  BY <1>4, <1>7
<1>9. l.next[c[k + 1]] = IF k + 1 < m THEN c[(k + 1) + 1] ELSE NULL
  BY <1>1, <1>7
<1>10. remove_head(r) =
         [head |-> IF k + 1 < m THEN c[(k + 1) + 1] ELSE NULL,
          tail |-> IF k + 1 < m THEN c[m] ELSE NULL,
          len |-> m - (k + 1), next |-> l.next]
  <2>1. c[k + 1] # NULL
    BY <1>5, <1>7
  <2> DEFINE h == IF k + 1 < m THEN c[(k + 1) + 1] ELSE NULL
             t == IF k + 1 < m THEN c[m] ELSE NULL
             n == m - (k + 1)
  <2>2. /\ h = (IF r.head = r.tail THEN NULL ELSE r.next[r.head])
        /\ t = (IF r.head = r.tail THEN NULL ELSE r.tail)
        /\ n = (IF r.head = NULL THEN r.len ELSE r.len - 1)
    BY <1>3, <1>7, <1>8, <1>9, <2>1
  <2> HIDE DEF h, t, n
  <2>3. remove_head(r) = [r EXCEPT !.head = h, !.tail = t, !.len = n]
    BY <2>2 DEF remove_head
  <2>4. remove_head(r) = [head |-> h, tail |-> t, len |-> n, next |-> l.next]
    BY <1>3, <2>3
  <2> QED
    BY <2>4 DEF h, t, n
<1> QED
  BY <1>6, <1>10 DEF r

(* Under the deadlines the oldest packets of c are the first ones, and of  *)
(* these the first m are past theirs.                                      *)
Sorted(c) == \A i, j \in 1 .. Len(c) : i <= j => ts[c[i]] <= ts[c[j]]

AgedUpTo(c, m) == \A i \in 1 .. Len(c) : ts[c[i]] < now <=> i <= m

LEMMA SortedAged ==
    ASSUME ts \in [Packet -> Nat], now \in Nat,
           NEW c \in Seq(Packet), Sorted(c)
    PROVE  \E m \in 0 .. Len(c) : AgedUpTo(c, m)
<1> DEFINE n == Len(c)
           D == {k \in 0 .. n : \A i \in 1 .. n : ts[c[i]] < now => i <= k}
<1>1. n \in Nat
  BY LenProperties
<1>2. \A i \in 1 .. n : c[i] \in Packet
  BY ElementOfSeq
<1>3. \A i \in 1 .. n : ts[c[i]] \in Nat
  BY <1>2
<1>4. \A i, j \in 1 .. n : i <= j => ts[c[i]] <= ts[c[j]]
  BY DEF Sorted
<1> HIDE DEF n
<1>5. n \in D /\ D \in SUBSET Nat
  BY <1>1
<1>6. PICK m \in D : \A k \in D : m <= k
  <2> HIDE DEF D
  <2> QED
    BY <1>5, LeastMember
<1>7. m \in 0 .. n /\ \A i \in 1 .. n : ts[c[i]] < now => i <= m
  BY <1>6
<1>8. ASSUME NEW i \in 1 .. n, i <= m PROVE ts[c[i]] < now
  <2> SUFFICES ASSUME ~ (ts[c[i]] < now) PROVE FALSE
    OBVIOUS
  <2>1. \A j \in 1 .. n : ts[c[j]] < now => j < i
    BY <1>1, <1>3, <1>4
  <2>2. i - 1 \in 0 .. n /\ \A j \in 1 .. n : j < i => j <= i - 1
    BY <1>1
  <2>3. i - 1 \in D
    BY <2>1, <2>2
  <2>4. ~ (m <= i - 1)
    BY <1>1, <1>7, <1>8
  <2> QED
    BY <1>6, <2>3, <2>4
<1>9. \A i \in 1 .. n : ts[c[i]] < now <=> i <= m
  BY <1>7, <1>8
<1> QED
  BY <1>7, <1>9 DEF AgedUpTo, n

(* What findAgedPacket finds once k of the m aged packets have left. *)
LEMMA AgedOff ==
    ASSUME ts \in [Packet -> Nat], now \in Nat,
           NEW l, NEW c, Links(l, c), NEW m \in 0 .. Len(c), AgedUpTo(c, m),
           NEW k \in 0 .. m
    PROVE  Aged(Off(l, c, k)) = 1 .. m - k
<1> DEFINE n == Len(c)
           w == Rest(c, k)
<1>1. /\ c \in Seq(Packet) /\ n \in Nat /\ m \in 0 .. n /\ k \in 0 .. n
  BY LenProperties DEF Links
<1>2. Chain(Off(l, c, k)) = w
  BY <1>1, OffLinks, ChainOfLinks
<1>3. /\ w \in Seq(Packet) /\ Len(w) = n - k
      /\ \A j \in 1 .. n - k : w[j] = c[j + k] /\ j + k \in 1 .. n
  BY <1>1, RestProperties
<1>4. DOMAIN w = 1 .. n - k
  BY <1>3, LenProperties
<1>5. \A i \in 1 .. n : ts[c[i]] < now <=> i <= m
  BY DEF AgedUpTo
<1>6. Aged(Off(l, c, k)) = {j \in DOMAIN w : ts[w[j]] < now}
  BY <1>2 DEF Aged
<1> HIDE DEF n, w
<1>7. \A j \in 1 .. n - k : ts[w[j]] < now <=> j + k <= m
  BY <1>3, <1>5
<1>8. {j \in 1 .. n - k : j + k <= m} = 1 .. m - k
  BY <1>1
<1>9. {j \in DOMAIN w : ts[w[j]] < now} = {j \in 1 .. n - k : j + k <= m}
  BY <1>4, <1>7
<1> QED
  BY <1>6, <1>8, <1>9

(* purge takes the packets past their deadline out of the list, and        *)
(* len_ turns are enough for it.                                           *)
LEMMA PurgeLinks ==
    ASSUME ts \in [Packet -> Nat], now \in Nat,
           NEW c, Links(q, c), NEW m \in 0 .. Len(c), AgedUpTo(c, m)
    PROVE  Links(purge, Rest(c, m))
<1> DEFINE n == Len(c)
           Turn(l) == IF Aged(l) = {} THEN l ELSE Unlink(l, Chain(l)[Min(Aged(l))])
           Turns(f) == f = [k \in 0 .. q.len |-> IF k = 0 THEN q ELSE Turn(f[k - 1])]
           left == CHOOSE f : Turns(f)
           O(k) == Off(q, c, k)
           g == [k \in 0 .. n |-> IF k <= m THEN O(k) ELSE O(m)]
<1>1. /\ c \in Seq(Packet) /\ n \in Nat /\ m \in 0 .. n /\ q.len = n /\ q \in List
      /\ q.head = (IF n = 0 THEN NULL ELSE c[1])
      /\ q.tail = (IF n = 0 THEN NULL ELSE c[n])
  BY LenProperties DEF Links
<1>2. purge = left[q.len]
  BY DEF purge
<1>3. q = O(0)
  <2>1. q = [head |-> q.head, tail |-> q.tail, len |-> q.len, next |-> q.next]
    BY <1>1 DEF List
  <2>2. O(0) = [head |-> IF 0 < n THEN c[0 + 1] ELSE NULL,
                tail |-> IF 0 < n THEN c[n] ELSE NULL,
                len |-> n - 0, next |-> q.next]
    BY DEF Off
  <2> HIDE DEF n
  <2>3. (0 < n <=> n # 0) /\ n - 0 = n
    BY <1>1
  <2> QED
    BY <1>1, <2>1, <2>2, <2>3
<1>4. ASSUME NEW k \in 0 .. m, k < m PROVE Turn(O(k)) = O(k + 1)
  <2>1. Aged(O(k)) = 1 .. m - k
    BY AgedOff
  <2>2. 1 \in 1 .. m - k
    BY <1>1, <1>4
  <2>3. Min(1 .. m - k) = 1
    BY <2>2 DEF Min
  <2>4. k \in 0 .. n /\ k < n
    BY <1>1, <1>4
  <2>5. Chain(O(k)) = Rest(c, k)
    BY <2>4, OffLinks, ChainOfLinks
  <2>6. Rest(c, k)[1] = c[k + 1] /\ O(k).head = c[k + 1]
    <3>1. 1 \in 1 .. n - k /\ 1 + k = k + 1
      BY <1>1, <2>4
    <3>2. Rest(c, k)[1] = c[1 + k]
      BY <3>1 DEF Rest
    <3>3. O(k).head = c[k + 1]
      BY <2>4 DEF Off
    <3> QED
      BY <3>1, <3>2, <3>3
  <2>7. Unlink(O(k), c[k + 1]) = remove_head(O(k))
    <3> HIDE DEF O
    <3> QED
      BY <2>6 DEF Unlink
  <2>8. remove_head(O(k)) = O(k + 1)
    BY <2>4, OffNext
  <2>9. Turn(O(k)) = Unlink(O(k), Chain(O(k))[Min(Aged(O(k)))])
    BY <2>1, <2>2
  <2>10. Chain(O(k))[Min(Aged(O(k)))] = c[k + 1]
    <3> HIDE DEF O
    <3> QED
      BY <2>1, <2>3, <2>5, <2>6
  <2> HIDE DEF Turn, O
  <2> QED
    BY <2>7, <2>8, <2>9, <2>10
<1>5. Turn(O(m)) = O(m)
  <2>1. Aged(O(m)) = 1 .. m - m
    BY <1>1, AgedOff
  <2>2. 1 .. m - m = {}
    BY <1>1
  <2> QED
    BY <2>1, <2>2
<1> HIDE DEF n, Turn, O
<1>6. Turns(g)
  <2>1. ASSUME NEW k \in 0 .. n
        PROVE  g[k] = IF k = 0 THEN q ELSE Turn(g[k - 1])
    <3>1. CASE k = 0
      BY <1>1, <1>3, <3>1
    <3>2. CASE k # 0 /\ k <= m
      <4>1. k - 1 \in 0 .. n /\ k - 1 \in 0 .. m /\ k - 1 < m /\ (k - 1) + 1 = k
        BY <1>1, <3>2
      <4>2. g[k] = O(k) /\ g[k - 1] = O(k - 1)
        BY <3>2, <4>1
      <4>3. Turn(O(k - 1)) = O(k)
        BY <1>4, <4>1
      <4> HIDE DEF g
      <4> QED
        BY <3>2, <4>2, <4>3
    <3>3. CASE ~ (k <= m)
      <4>1. k - 1 \in 0 .. n /\ k # 0 /\ (k - 1 <= m => k - 1 = m)
        BY <1>1, <3>3
      <4>2. g[k] = O(m) /\ g[k - 1] = O(m)
        BY <3>3, <4>1
      <4> HIDE DEF g
      <4> QED
        BY <1>5, <4>1, <4>2
    <3> QED
      BY <3>1, <3>2, <3>3
  <2> DEFINE h == [k \in 0 .. n |-> IF k = 0 THEN q ELSE Turn(g[k - 1])]
  <2>2. g = h
    BY <2>1
  <2> QED
    BY <1>1, <2>2
<1>7. Turns(left)
  <2> HIDE DEF Turns, g
  <2> QED
    BY <1>6
<1> HIDE DEF left
<1>8. \A k \in 0 .. n : left[k] = g[k]
  <2> DEFINE D == {k \in 0 .. n : left[k] # g[k]}
  <2> SUFFICES ASSUME D # {} PROVE FALSE
    OBVIOUS
  <2>1. PICK k \in D : \A j \in D : k <= j
    <3>1. D \in SUBSET Nat
      BY <1>1
    <3> HIDE DEF D
    <3> QED
      BY <3>1, LeastMember
  <2>2. k \in 0 .. n /\ left[k] # g[k]
    BY <2>1
  <2>3. left[k] = IF k = 0 THEN q ELSE Turn(left[k - 1])
    <3> HIDE DEF g
    <3> QED
      BY <1>1, <1>7, <2>2
  <2>4. g[k] = IF k = 0 THEN q ELSE Turn(g[k - 1])
    <3> HIDE DEF g
    <3> QED
      BY <1>1, <1>6, <2>2
  <2>5. k # 0 => left[k - 1] = g[k - 1]
    <3> SUFFICES ASSUME k # 0 PROVE left[k - 1] = g[k - 1]
      OBVIOUS
    <3>1. k - 1 \in 0 .. n /\ ~ (k <= k - 1)
      BY <1>1, <2>2
    <3>2. k - 1 \notin D
      BY <2>1, <3>1
    <3> HIDE DEF g
    <3> QED
      BY <3>1, <3>2
  <2> HIDE DEF g
  <2> QED
    BY <2>2, <2>3, <2>4, <2>5
<1>9. g[n] = O(m)
  <2>1. n \in 0 .. n /\ (n <= m => n = m)
    BY <1>1
  <2> QED
    BY <2>1
<1>10. purge = O(m)
  <2>1. n \in 0 .. n
    BY <1>1
  <2> HIDE DEF g
  <2> QED
    BY <1>1, <1>2, <1>8, <1>9, <2>1
<1>11. m \in 0 .. Len(c)
  OBVIOUS
<1>12. Links(O(m), Rest(c, m))
  BY <1>11, OffLinks DEF O
<1> QED
  BY <1>10, <1>12

---------------------------------------------------------------------------
(* The invariant: the pointers form one list, of the packets that are      *)
(* queued, in the order of their deadlines, none of which is further away  *)
(* than the timeout. The last part is what keeps the order when the next   *)
(* packet enters.                                                          *)
Holds(c) ==
    /\ Links(q, c)
    /\ Sorted(c)
    /\ \A p \in Packet :
          fate[p] = "queued" <=> \E i \in 1 .. Len(c) : c[i] = p
    /\ \A i \in 1 .. Len(c) : ts[c[i]] <= now + Timeout

IInv == TypeOK /\ Holds(Chain(q))

LEMMA ListIsOK ==
    ASSUME NEW c, Holds(c), TypeOK
    PROVE  IInv
BY ChainOfLinks DEF IInv, Holds

LEMMA InitIInv == Init => IInv
<1> SUFFICES ASSUME Init PROVE IInv
  OBVIOUS
<1>1. TypeOK
  BY BoundAssumption DEF Init, TypeOK
<1> DEFINE c == << >>
<1>2. c \in Seq(Packet) /\ Len(c) = 0 /\ 1 .. Len(c) = {}
  BY EmptySeq
<1>3. q \in List /\ q.head = NULL /\ q.tail = NULL /\ q.len = 0
  BY DEF Init, List
<1> HIDE DEF c
<1>4. Links(q, c)
  BY <1>2, <1>3 DEF Links, Injective
<1>5. Sorted(c)
  BY <1>2 DEF Sorted
<1>6. \A p \in Packet : fate[p] # "queued"
  BY DEF Init
<1>7. Holds(c)
  BY <1>2, <1>4, <1>5, <1>6 DEF Holds
<1> QED
  BY <1>1, <1>7, ListIsOK

LEMMA SortedWithout ==
    ASSUME NEW c \in Seq(Packet), Injective(c), NEW i \in 1 .. Len(c), Sorted(c)
    PROVE  Sorted(Without(c, i))
<1> DEFINE w == Without(c, i)
           n == Len(c)
<1>1. n \in Nat /\ i \in 1 .. n
  BY LenProperties
<1>2. /\ Len(w) = n - 1
      /\ \A j \in 1 .. n - 1 : w[j] = IF j < i THEN c[j] ELSE c[j + 1]
  BY WithoutProperties
<1>3. \A j, k \in 1 .. n : j <= k => ts[c[j]] <= ts[c[k]]
  BY DEF Sorted
<1> HIDE DEF w, n
<1>4. ASSUME NEW j \in 1 .. n - 1, NEW k \in 1 .. n - 1, j <= k
      PROVE  ts[w[j]] <= ts[w[k]]
  <2>1. /\ j \in 1 .. n /\ k \in 1 .. n /\ j + 1 \in 1 .. n /\ k + 1 \in 1 .. n
        /\ j <= k /\ j <= k + 1 /\ j + 1 <= k + 1
    BY <1>1, <1>4
  <2>2. ts[c[j]] <= ts[c[k]] /\ ts[c[j]] <= ts[c[k + 1]] /\ ts[c[j + 1]] <= ts[c[k + 1]]
    BY <1>3, <2>1
  <2>3. k < i => j < i
    BY <1>1, <1>4
  <2> QED
    BY <1>2, <2>2, <2>3
<1> QED
  BY <1>2, <1>4 DEF Sorted, w

Fates == {"new", "queued", "out", "dropped", "unlinked"}

(* The list c before and the list d after purging, of which the first m    *)
(* packets are unlinked.                                                   *)
Purging(c, m, d) ==
    /\ c = Chain(q) /\ Links(q, c) /\ Sorted(c)
    /\ m \in 0 .. Len(c) /\ AgedUpTo(c, m) /\ d = Rest(c, m)
    /\ Links(purge, d) /\ Sorted(d) /\ Len(d) <= Limit
    /\ AfterPurge \in [Packet -> Fates]
    /\ \A p \in Packet :
          AfterPurge[p] = IF \E i \in 1 .. m : c[i] = p THEN "unlinked" ELSE fate[p]
    /\ \A p \in Packet :
          AfterPurge[p] = "queued" <=> \E j \in 1 .. Len(d) : d[j] = p
    /\ \A j \in 1 .. Len(d) :
          /\ d[j] \in Packet /\ fate[d[j]] = "queued"
          /\ ts[d[j]] \in Nat /\ now <= ts[d[j]] /\ ts[d[j]] <= now + Timeout

LEMMA PurgeState ==
    ASSUME IInv
    PROVE  \E c, m, d : Purging(c, m, d)
<1>1. PICK c : c = Chain(q)
  OBVIOUS
<1>2. /\ Links(q, c) /\ Sorted(c) /\ c \in Seq(Packet) /\ Injective(c)
      /\ ts \in [Packet -> Nat] /\ now \in Nat
      /\ fate \in [Packet -> Fates]
      /\ q.len <= Limit /\ q.len = Len(c)
      /\ \A p \in Packet :
            fate[p] = "queued" <=> \E i \in 1 .. Len(c) : c[i] = p
      /\ \A i \in 1 .. Len(c) : ts[c[i]] <= now + Timeout
  BY <1>1, BoundAssumption DEF IInv, TypeOK, Holds, Links, Fates
<1>3. PICK m \in 0 .. Len(c) : AgedUpTo(c, m)
  BY <1>2, SortedAged
<1>4. Links(purge, Rest(c, m))
  BY <1>2, <1>3, PurgeLinks
<1>5. PICK d : d = Rest(c, m)
  OBVIOUS
<1>6. /\ Len(c) \in Nat /\ DOMAIN c = 1 .. Len(c)
      /\ \A i \in 1 .. Len(c) : c[i] \in Packet
  BY <1>2, LenProperties, ElementOfSeq
<1>7. /\ Len(d) = Len(c) - m
      /\ \A j \in 1 .. Len(c) - m : d[j] = c[j + m] /\ j + m \in 1 .. Len(c)
  BY <1>2, <1>3, <1>5, RestProperties
<1>8. \A i \in 1 .. Len(c) : ts[c[i]] < now <=> i <= m
  BY <1>3 DEF AgedUpTo
<1>9. \A i, j \in 1 .. Len(c) : c[i] = c[j] => i = j
  BY <1>2 DEF Injective
<1>10. \A p \in Packet :
         (\E k \in Aged(q) : Chain(q)[k] = p) <=> \E i \in 1 .. m : c[i] = p
  <2>1. Aged(q) = {k \in 1 .. Len(c) : ts[c[k]] < now}
    BY <1>1, <1>6 DEF Aged
  <2>2. {k \in 1 .. Len(c) : ts[c[k]] < now} = 1 .. m
    BY <1>3, <1>6, <1>8
  <2> QED
    BY <1>1, <2>1, <2>2
<1>11. \A p \in Packet :
         AfterPurge[p] = IF \E i \in 1 .. m : c[i] = p THEN "unlinked" ELSE fate[p]
  BY <1>10 DEF AfterPurge
<1>12. AfterPurge \in [Packet -> Fates]
  <2>1. \A p \in Packet : AfterPurge[p] \in Fates
    BY <1>2, <1>11 DEF Fates
  <2>2. AfterPurge = [p \in Packet |-> AfterPurge[p]]
    BY DEF AfterPurge
  <2> QED
    BY <2>1, <2>2
<1>13. \A j \in 1 .. Len(d) :
          /\ d[j] \in Packet /\ fate[d[j]] = "queued"
          /\ ts[d[j]] \in Nat /\ now <= ts[d[j]] /\ ts[d[j]] <= now + Timeout
  <2> TAKE j \in 1 .. Len(d)
  <2>1. d[j] = c[j + m] /\ j + m \in 1 .. Len(c) /\ ~ (j + m <= m)
    BY <1>6, <1>7
  <2>2. c[j + m] \in Packet
    BY <1>6, <2>1
  <2>3. fate[d[j]] = "queued" /\ ts[d[j]] <= now + Timeout
    BY <1>2, <2>1, <2>2
  <2>4. ts[c[j + m]] \in Nat /\ ~ (ts[c[j + m]] < now)
    BY <1>2, <1>8, <2>1, <2>2
  <2> QED
    BY <1>2, <2>1, <2>2, <2>3, <2>4
<1>14. ASSUME NEW p \in Packet
       PROVE  AfterPurge[p] = "queued" <=> \E j \in 1 .. Len(d) : d[j] = p
  <2>1. ASSUME AfterPurge[p] = "queued" PROVE \E j \in 1 .. Len(d) : d[j] = p
    <3>1. fate[p] = "queued" /\ ~ \E i \in 1 .. m : c[i] = p
      BY <1>11, <2>1
    <3>2. PICK i \in 1 .. Len(c) : c[i] = p
      BY <1>2, <3>1
    <3>3. i \notin 1 .. m
      BY <3>1, <3>2
    <3>4. i - m \in 1 .. Len(c) - m /\ (i - m) + m = i
      BY <1>6, <3>3
    <3>5. d[i - m] = p
      BY <1>7, <3>2, <3>4
    <3> QED
      BY <1>7, <3>4, <3>5
  <2>2. ASSUME NEW j \in 1 .. Len(d), d[j] = p PROVE AfterPurge[p] = "queued"
    <3>1. d[j] = c[j + m] /\ j + m \in 1 .. Len(c)
      BY <1>7
    <3>2. fate[p] = "queued"
      BY <1>13, <2>2
    <3>3. ASSUME NEW i \in 1 .. m, c[i] = p PROVE FALSE
      <4>1. i \in 1 .. Len(c) /\ i # j + m
        BY <1>6, <1>7
      <4> QED
        BY <1>9, <2>2, <3>1, <3>3, <4>1
    <3> QED
      BY <1>11, <3>2, <3>3
  <2> QED
    BY <2>1, <2>2
<1>15. Sorted(d)
  <2> SUFFICES ASSUME NEW i \in 1 .. Len(d), NEW j \in 1 .. Len(d), i <= j
               PROVE  ts[d[i]] <= ts[d[j]]
    BY DEF Sorted
  <2>1. /\ d[i] = c[i + m] /\ i + m \in 1 .. Len(c)
        /\ d[j] = c[j + m] /\ j + m \in 1 .. Len(c)
    BY <1>7
  <2>2. i + m <= j + m
    BY <1>6, <1>7
  <2> QED
    BY <1>2, <2>1, <2>2 DEF Sorted
<1>16. Len(d) <= Limit
  BY <1>2, <1>6, <1>7, BoundAssumption
<1>17. Purging(c, m, d)
  BY <1>1, <1>2, <1>3, <1>4, <1>5, <1>11, <1>12, <1>13, <1>14, <1>15, <1>16 DEF Purging
<1> QED
  BY <1>17

---------------------------------------------------------------------------
(* The steps. *)

LEMMA NextListIsOK ==
    ASSUME NEW e, Links(q', e), TypeOK',
           \A i, j \in 1 .. Len(e) : i <= j => ts'[e[i]] <= ts'[e[j]],
           \A p \in Packet :
              fate'[p] = "queued" <=> \E i \in 1 .. Len(e) : e[i] = p,
           \A i \in 1 .. Len(e) : ts'[e[i]] <= now' + Timeout
    PROVE  IInv'
<1>1. Chain(q') = e
  BY ChainOfLinks
<1>2. Sorted(Chain(q))'
  BY <1>1 DEF Sorted
<1>3. Holds(Chain(q))'
  BY <1>1, <1>2 DEF Holds
<1> QED
  BY <1>3 DEF IInv

LEMMA NextType ==
    ASSUME NEW e, Links(q', e), Len(e) <= Limit, ts' \in [Packet -> Nat],
           fate' \in [Packet -> Fates], now' \in 0 .. MaxNow
    PROVE  TypeOK'
<1>1. q' \in List /\ q'.len \in 0 .. Limit
  <2>1. q' \in List /\ q'.len = Len(e) /\ e \in Seq(Packet)
    BY DEF Links
  <2>2. Len(e) \in Nat
    BY <2>1, LenProperties
  <2> QED
    BY <2>1, <2>2, BoundAssumption
<1>2. q' = [head |-> q'.head, tail |-> q'.tail, len |-> q'.len, next |-> q'.next]
  BY <1>1 DEF List
<1>3. q'.head \in Packet \cup {NULL} /\ q'.tail \in Packet \cup {NULL}
      /\ q'.next \in [Packet -> Packet \cup {NULL}]
  BY <1>1 DEF List
<1>4. q' \in [head : Packet \cup {NULL}, tail : Packet \cup {NULL},
              len : 0 .. Limit, next : [Packet -> Packet \cup {NULL}]]
  BY <1>1, <1>2, <1>3
<1> QED
  BY <1>4 DEF TypeOK, Fates

(* Nothing but the purging has happened. *)
LEMMA OnlyPurged ==
    ASSUME IInv, NEW c, NEW m, NEW d, Purging(c, m, d),
           q' = purge, fate' = AfterPurge, ts' = ts, now' = now
    PROVE  IInv'
<1>1. Links(q', d) /\ Len(d) <= Limit /\ fate' \in [Packet -> Fates]
  BY DEF Purging
<1>2. ts' \in [Packet -> Nat] /\ now' \in 0 .. MaxNow
  BY DEF IInv, TypeOK
<1>3. TypeOK'
  BY <1>1, <1>2, NextType
<1>4. \A i, j \in 1 .. Len(d) : i <= j => ts'[d[i]] <= ts'[d[j]]
  BY DEF Purging, Sorted
<1>5. \A p \in Packet : fate'[p] = "queued" <=> \E i \in 1 .. Len(d) : d[i] = p
  BY DEF Purging
<1>6. \A i \in 1 .. Len(d) : ts'[d[i]] <= now' + Timeout
  BY DEF Purging
<1> QED
  BY <1>1, <1>3, <1>4, <1>5, <1>6, NextListIsOK

(* The k-th packet that is left after purging is handed out. *)
LEMMA OneHandedOut ==
    ASSUME IInv, NEW c, NEW m, NEW d, Purging(c, m, d), NEW k \in 1 .. Len(d),
           Links(q', Without(d, k)),
           fate' = [AfterPurge EXCEPT ![d[k]] = "out"], ts' = ts, now' = now
    PROVE  IInv'
<1> DEFINE w == Without(d, k)
           n == Len(d)
<1>1. /\ d \in Seq(Packet) /\ Injective(d) /\ Sorted(d) /\ n <= Limit
      /\ AfterPurge \in [Packet -> Fates]
      /\ d[k] \in Packet
      /\ \A p \in Packet : AfterPurge[p] = "queued" <=> \E j \in 1 .. n : d[j] = p
      /\ \A j \in 1 .. n : ts[d[j]] <= now + Timeout
  BY DEF Purging, Links
<1>2. n \in Nat
  BY <1>1, LenProperties
<1>3. /\ Len(w) = n - 1
      /\ \A j \in 1 .. n - 1 : w[j] = IF j < k THEN d[j] ELSE d[j + 1]
      /\ \A p : (\E j \in 1 .. n - 1 : w[j] = p)
                   <=> p # d[k] /\ \E j \in 1 .. n : d[j] = p
  BY <1>1, WithoutProperties
<1>4. \A i, j \in 1 .. Len(w) : i <= j => ts'[w[i]] <= ts'[w[j]]
  BY <1>1, SortedWithout DEF Sorted
<1>l. Links(q', w)
  OBVIOUS
<1> HIDE DEF w, n
<1>5. TypeOK'
  <2>1. Len(w) <= Limit
    BY <1>1, <1>2, <1>3, BoundAssumption
  <2>2. fate' \in [Packet -> Fates]
    BY <1>1 DEF Fates
  <2>3. ts' \in [Packet -> Nat] /\ now' \in 0 .. MaxNow
    BY DEF IInv, TypeOK
  <2> QED
    BY <1>l, <2>1, <2>2, <2>3, NextType
<1>6. \A p \in Packet : fate'[p] = IF p = d[k] THEN "out" ELSE AfterPurge[p]
  BY <1>1
<1>7. \A p \in Packet : fate'[p] = "queued" <=> \E i \in 1 .. Len(w) : w[i] = p
  BY <1>1, <1>3, <1>6
<1>8. \A i \in 1 .. Len(w) : ts'[w[i]] <= now' + Timeout
  BY <1>1, <1>2, <1>3
<1> QED
  BY <1>l, <1>4, <1>5, <1>7, <1>8, NextListIsOK

LEMMA DequeKeeps == IInv /\ deque => IInv'
<1> SUFFICES ASSUME IInv, deque PROVE IInv'
  OBVIOUS
<1>1. PICK c, m, d : Purging(c, m, d)
  BY PurgeState
<1>2. /\ Links(purge, d) /\ d \in Seq(Packet)
      /\ purge.head = IF Len(d) = 0 THEN NULL ELSE d[1]
  BY <1>1 DEF Purging, Links
<1>3. Len(d) \in Nat
  BY <1>2, LenProperties
<1>4. CASE Len(d) = 0
  <2>1. q' = purge
    BY <1>2, <1>4, RemoveHeadOfNothing DEF deque
  <2>2. fate' = AfterPurge /\ ts' = ts /\ now' = now
    BY <1>2, <1>4 DEF deque
  <2> QED
    BY <1>1, <2>1, <2>2, OnlyPurged
<1>5. CASE Len(d) # 0
  <2>1. 1 \in 1 .. Len(d) /\ d[1] \in Packet /\ d[1] # NULL /\ purge.head = d[1]
    BY <1>2, <1>3, <1>5, ElementOfSeq, PacketAssumption
  <2>2. Links(q', Without(d, 1))
    BY <1>2, <1>5, RemoveHeadLinks DEF deque
  <2>3. fate' = [AfterPurge EXCEPT ![d[1]] = "out"] /\ ts' = ts /\ now' = now
    BY <2>1 DEF deque
  <2> QED
    BY <1>1, <2>1, <2>2, <2>3, OneHandedOut
<1> QED
  BY <1>4, <1>5

LEMMA DequeDstKeeps ==
    ASSUME IInv, NEW x \in Dest, dequeDst(x) PROVE IInv'
<1>1. PICK c, m, d : Purging(c, m, d)
  BY PurgeState
<1>2. Links(purge, d) /\ d \in Seq(Packet)
  BY <1>1 DEF Purging, Links
<1>3. Chain(purge) = d /\ DOMAIN d = 1 .. Len(d)
  BY <1>2, ChainOfLinks, LenProperties
<1>4. /\ ts' = ts /\ now' = now
      /\ \/ q' = purge /\ fate' = AfterPurge
         \/ \E k \in 1 .. Len(d) :
               /\ q' = Unlink(purge, d[k])
               /\ fate' = [AfterPurge EXCEPT ![d[k]] = "out"]
  BY <1>3 DEF dequeDst
<1>5. CASE q' = purge /\ fate' = AfterPurge
  BY <1>1, <1>4, <1>5, OnlyPurged
<1>6. ASSUME NEW k \in 1 .. Len(d), q' = Unlink(purge, d[k]),
             fate' = [AfterPurge EXCEPT ![d[k]] = "out"]
      PROVE  IInv'
  <2>1. Links(q', Without(d, k))
    BY <1>2, <1>6, UnlinkLinks
  <2> QED
    BY <1>1, <1>4, <1>6, <2>1, OneHandedOut
<1> QED
  BY <1>4, <1>5, <1>6

(* A packet enters behind a list e of queued packets. *)
LEMMA OneEnters ==
    ASSUME IInv, NEW p \in Packet, NEW l, NEW e, Links(l, e), Len(e) < Limit,
           NEW before \in [Packet -> Fates],
           Sorted(e), \A i \in 1 .. Len(e) : e[i] # p /\ ts[e[i]] <= now + Timeout,
           \A r \in Packet :
              before[r] = "queued" <=> r = p \/ \E i \in 1 .. Len(e) : e[i] = r,
           q' = Link(l, p), fate' = before,
           ts' = [ts EXCEPT ![p] = now + Timeout], now' = now
    PROVE  IInv'
<1> DEFINE w == With(e, p)
           n == Len(e)
<1>1. e \in Seq(Packet) /\ Injective(e)
  BY DEF Links
<1>2. n \in Nat
  BY <1>1, LenProperties
<1>3. /\ Len(w) = n + 1
      /\ \A j \in 1 .. n + 1 : w[j] = IF j <= n THEN e[j] ELSE p
  <2>1. \A j \in 1 .. Len(e) : e[j] # p
    OBVIOUS
  <2>2. Len(With(e, p)) = Len(e) + 1
    BY <1>1, <2>1, WithProperties
  <2>3. \A j \in 1 .. Len(e) + 1 :
           With(e, p)[j] = IF j <= Len(e) THEN e[j] ELSE p
    BY <1>1, <2>1, WithProperties
  <2> QED
    BY <2>2, <2>3
<1>4. Links(q', w)
  BY LinkLinks
<1>5. \A i \in 1 .. n : e[i] \in Packet /\ e[i] # p /\ ts[e[i]] <= now + Timeout
  BY <1>1, ElementOfSeq
<1>6. \A i, j \in 1 .. n : i <= j => ts[e[i]] <= ts[e[j]]
  BY DEF Sorted
<1>r. \A r \in Packet : fate'[r] = "queued" <=> r = p \/ \E i \in 1 .. n : e[i] = r
  OBVIOUS
<1>l. n < Limit
  OBVIOUS
<1> HIDE DEF w, n
<1>7. /\ ts \in [Packet -> Nat] /\ now \in 0 .. MaxNow /\ now + Timeout \in Nat
  BY BoundAssumption DEF IInv, TypeOK
<1>8. ts' \in [Packet -> Nat] /\ ts'[p] = now + Timeout
      /\ \A r \in Packet : r # p => ts'[r] = ts[r]
  BY <1>7
<1>9. TypeOK'
  <2>1. Len(w) <= Limit
    BY <1>2, <1>3, <1>l, BoundAssumption
  <2>2. now' \in 0 .. MaxNow
    BY <1>7
  <2> QED
    BY <1>4, <1>8, <2>1, <2>2, NextType
<1>10. \A j \in 1 .. n : w[j] = e[j] /\ ts'[w[j]] = ts[e[j]]
  <2>1. \A j \in 1 .. n : j \in 1 .. n + 1 /\ j <= n
    BY <1>2
  <2> QED
    BY <1>3, <1>5, <1>8, <2>1
<1>11. w[n + 1] = p /\ ts'[w[n + 1]] = now + Timeout
  <2>1. n + 1 \in 1 .. n + 1 /\ ~ (n + 1 <= n)
    BY <1>2
  <2> QED
    BY <1>3, <1>8, <2>1
<1>12. \A j \in 1 .. n + 1 : j \in 1 .. n \/ j = n + 1
  BY <1>2
<1>13. \A j \in 1 .. Len(w) : ts'[w[j]] <= now' + Timeout
  <2>1. now + Timeout <= now + Timeout
    BY <1>7
  <2> QED
    BY <1>3, <1>5, <1>10, <1>11, <1>12, <2>1
<1>14. ASSUME NEW i \in 1 .. Len(w), NEW j \in 1 .. Len(w), i <= j
       PROVE  ts'[w[i]] <= ts'[w[j]]
  <2>1. CASE j = n + 1
    BY <1>11, <1>13, <2>1
  <2>2. CASE j \in 1 .. n
    <3>1. i \in 1 .. n
      BY <1>2, <1>3, <1>14, <2>2
    <3> QED
      BY <1>6, <1>10, <1>14, <2>2, <3>1
  <2> QED
    BY <1>3, <1>12, <2>1, <2>2
<1>15. \A r \in Packet : fate'[r] = "queued" <=> \E i \in 1 .. Len(w) : w[i] = r
  <2>1. n + 1 \in 1 .. n + 1 /\ \A j \in 1 .. n : j \in 1 .. n + 1
    BY <1>2
  <2> TAKE r \in Packet
  <2>2. (\E j \in 1 .. n + 1 : w[j] = r) <=> r = p \/ \E j \in 1 .. n : e[j] = r
    BY <1>10, <1>11, <1>12, <2>1
  <2>3. fate'[r] = "queued" <=> r = p \/ \E i \in 1 .. n : e[i] = r
    BY <1>r
  <2> QED
    BY <1>3, <2>2, <2>3
<1> QED
  BY <1>4, <1>9, <1>13, <1>14, <1>15, NextListIsOK

LEMMA EnqueKeeps ==
    ASSUME IInv, NEW p \in Packet, enque(p) PROVE IInv'
<1>1. PICK c, m, d : Purging(c, m, d)
  BY PurgeState
<1> DEFINE n == Len(d)
<1>2. /\ Links(purge, d) /\ d \in Seq(Packet) /\ Injective(d) /\ Sorted(d)
      /\ purge.len = n /\ purge.head = (IF n = 0 THEN NULL ELSE d[1])
      /\ AfterPurge \in [Packet -> Fates] /\ n <= Limit
      /\ \A r \in Packet : AfterPurge[r] = "queued" <=> \E j \in 1 .. n : d[j] = r
      /\ \A j \in 1 .. n :
            d[j] \in Packet /\ fate[d[j]] = "queued" /\ ts[d[j]] <= now + Timeout
  BY <1>1 DEF Purging, Links
<1>3. n \in Nat
  BY <1>2, LenProperties
<1>4. /\ fate[p] = "new" /\ now' = now
      /\ ts' = [ts EXCEPT ![p] = now + Timeout]
  BY DEF enque
<1>5. \A j \in 1 .. n : d[j] # p
  BY <1>2, <1>4
<1>6. CASE n # Limit
  <2> DEFINE after == [AfterPurge EXCEPT ![p] = "queued"]
  <2>1. q' = Link(purge, p) /\ fate' = after
    BY <1>2, <1>6 DEF enque
  <2>2. n < Limit
    BY <1>2, <1>3, <1>6, BoundAssumption
  <2>3. after \in [Packet -> Fates]
    BY <1>2 DEF Fates
  <2>4. \A r \in Packet : after[r] = IF r = p THEN "queued" ELSE AfterPurge[r]
    BY <1>2
  <2>5. \A r \in Packet :
           after[r] = "queued" <=> r = p \/ \E i \in 1 .. n : d[i] = r
    BY <1>2, <2>4
  <2>6. \A i \in 1 .. n : d[i] # p /\ ts[d[i]] <= now + Timeout
    BY <1>2, <1>5
  <2> HIDE DEF after
  <2> QED
    BY <1>2, <1>4, <2>1, <2>2, <2>3, <2>5, <2>6, OneEnters
<1>7. CASE n = Limit
  <2> DEFINE after == [AfterPurge EXCEPT ![p] = "queued", ![d[1]] = "dropped"]
             e == Without(d, 1)
             l == remove_head(purge)
  <2>1. n # 0 /\ 1 \in 1 .. n
    BY <1>3, <1>7, BoundAssumption
  <2>2. q' = Link(l, p) /\ fate' = after
    BY <1>2, <1>7, <2>1 DEF enque
  <2>3. Links(l, e)
    BY <1>2, <2>1, RemoveHeadLinks
  <2>4. /\ Len(e) = n - 1
        /\ \A j \in 1 .. n - 1 : e[j] = IF j < 1 THEN d[j] ELSE d[j + 1]
        /\ \A r : (\E j \in 1 .. n - 1 : e[j] = r)
                     <=> r # d[1] /\ \E j \in 1 .. n : d[j] = r
    BY <1>2, <2>1, WithoutProperties
  <2>5. Sorted(e)
    BY <1>2, <2>1, SortedWithout
  <2>6. after \in [Packet -> Fates]
    BY <1>2 DEF Fates
  <2>7. \A r \in Packet : after[r] = IF r = d[1] THEN "dropped"
                                     ELSE IF r = p THEN "queued" ELSE AfterPurge[r]
    BY <1>2, <2>1
  <2>p. p # d[1]
    BY <1>5, <2>1
  <2> HIDE DEF after, e, l, n
  <2>8. \A r \in Packet :
           after[r] = "queued" <=> r = p \/ \E i \in 1 .. Len(e) : e[i] = r
    BY <1>2, <2>4, <2>7, <2>p
  <2>9. \A i \in 1 .. Len(e) : e[i] # p /\ ts[e[i]] <= now + Timeout
    <3>1. \A i \in 1 .. n - 1 : i \in 1 .. n /\ i + 1 \in 1 .. n
      BY <1>3
    <3> QED
      BY <1>2, <1>5, <2>4, <3>1
  <2>10. Len(e) < Limit
    BY <1>3, <1>7, <2>4
  <2> QED
    BY <1>4, <2>2, <2>3, <2>5, <2>6, <2>8, <2>9, <2>10, OneEnters
<1> QED
  BY <1>6, <1>7

LEMMA TickKeeps == IInv /\ Tick => IInv'
<1> SUFFICES ASSUME IInv, Tick PROVE IInv'
  OBVIOUS
<1>1. q' = q /\ ts' = ts /\ fate' = fate /\ now' = now + 1 /\ now < MaxNow
  BY DEF Tick
<1>2. PICK c : c = Chain(q)
  OBVIOUS
<1>3. /\ Links(q, c) /\ Sorted(c) /\ c \in Seq(Packet)
      /\ \A p \in Packet : fate[p] = "queued" <=> \E i \in 1 .. Len(c) : c[i] = p
      /\ \A i \in 1 .. Len(c) : ts[c[i]] <= now + Timeout
  BY <1>2 DEF IInv, Holds, Links
<1>4. ts \in [Packet -> Nat] /\ now \in Nat /\ Timeout \in Nat
  BY BoundAssumption DEF IInv, TypeOK
<1>5. \A i \in 1 .. Len(c) : ts[c[i]] \in Nat
  BY <1>3, <1>4, ElementOfSeq
<1>6. \A i \in 1 .. Len(c) : ts'[c[i]] <= now' + Timeout
  BY <1>1, <1>3, <1>4, <1>5
<1>7. TypeOK'
  BY <1>1, BoundAssumption DEF IInv, TypeOK
<1>8. \A i, j \in 1 .. Len(c) : i <= j => ts'[c[i]] <= ts'[c[j]]
  BY <1>1, <1>3 DEF Sorted
<1> QED
  BY <1>1, <1>3, <1>6, <1>7, <1>8, NextListIsOK

LEMMA StutterKeeps == IInv /\ UNCHANGED vars => IInv'
<1> SUFFICES ASSUME IInv, UNCHANGED vars PROVE IInv'
  OBVIOUS
<1>1. q' = q /\ ts' = ts /\ fate' = fate /\ now' = now
  BY DEF vars
<1>2. TypeOK'
  BY <1>1 DEF IInv, TypeOK
<1>3. Sorted(Chain(q))'
  BY <1>1 DEF IInv, Holds, Sorted
<1>4. Holds(Chain(q))'
  BY <1>1, <1>3 DEF IInv, Holds
<1> QED
  BY <1>2, <1>4 DEF IInv

(* The list stays a list whatever happens to the buffer. *)
THEOREM Invariance == Spec => []IInv
<1>1. IInv /\ [Next]_vars => IInv'
  <2> SUFFICES ASSUME IInv, [Next]_vars PROVE IInv'
    OBVIOUS
  <2>1. ASSUME NEW p \in Packet, enque(p) PROVE IInv'
    BY <2>1, EnqueKeeps
  <2>2. CASE deque
    BY <2>2, DequeKeeps
  <2>3. ASSUME NEW x \in Dest, dequeDst(x) PROVE IInv'
    BY <2>3, DequeDstKeeps
  <2>4. CASE Tick
    BY <2>4, TickKeeps
  <2>5. CASE UNCHANGED vars
    BY <2>5, StutterKeeps
  <2> QED
    BY <2>1, <2>2, <2>3, <2>4, <2>5 DEF Next
<1> QED
  BY <1>1, InitIInv, PTL DEF Spec

---------------------------------------------------------------------------
(* The properties the runs check. *)

(* The variables keep their types and the buffer its limit. *)
THEOREM TypeCorrect == Spec => []TypeOK
<1>1. IInv => TypeOK
  BY DEF IInv
<1> QED
  BY <1>1, Invariance, PTL

LEMMA ListMeans ==
    ASSUME IInv
    PROVE  verifyQueue /\ NothingCutOff /\ AgedAtHead
<1>1. PICK c : c = Chain(q)
  OBVIOUS
<1>2. /\ Links(q, c) /\ Sorted(c)
      /\ \A p \in Packet : fate[p] = "queued" <=> \E i \in 1 .. Len(c) : c[i] = p
  BY <1>1 DEF IInv, Holds
<1>3. /\ c \in Seq(Packet) /\ Injective(c) /\ q.len = Len(c)
      /\ q.tail = IF Len(c) = 0 THEN NULL ELSE c[Len(c)]
  BY <1>2 DEF Links
<1>4. DOMAIN c = 1 .. Len(c) /\ (c = << >> <=> Len(c) = 0)
  BY <1>3, LenProperties, EmptySeq
<1>5. verifyQueue
  BY <1>1, <1>3, <1>4 DEF verifyQueue
<1>6. NothingCutOff
  BY <1>1, <1>2, <1>3, <1>4 DEF NothingCutOff, Injective
<1>7. AgedAtHead
  BY <1>1, <1>2, <1>4 DEF AgedAtHead, Sorted
<1> QED
  BY <1>5, <1>6, <1>7

(* verifyQueue's assertions never fail: the list from the head on has as   *)
(* many packets as len_ says, and ends in the packet tail_ points to.      *)
THEOREM QueueVerified == Spec => []verifyQueue
<1>1. IInv => verifyQueue
  BY ListMeans
<1> QED
  BY <1>1, Invariance, PTL

(* No unlinking cuts off, repeats or brings back a packet. *)
THEOREM NoneCutOff == Spec => []NothingCutOff
<1>1. IInv => NothingCutOff
  BY ListMeans
<1> QED
  BY <1>1, Invariance, PTL

(* The packets are in the order of their deadlines, so that a purge that   *)
(* stopped at the first packet that is not aged would do as well.          *)
THEOREM DeadlinesInOrder == Spec => []AgedAtHead
<1>1. IInv => AgedAtHead
  BY ListMeans
<1> QED
  BY <1>1, Invariance, PTL

(* The fate of every packet after purging and handing out d[k] of d. *)
LEMMA OutAfterPurge ==
    ASSUME NEW c, NEW m, NEW d, Purging(c, m, d), NEW p \in Packet,
           fate[p] = "queued"
    PROVE  AfterPurge[p] \in {"queued", "unlinked"}
BY DEF Purging

LEMMA OutIsLive ==
    ASSUME IInv, [Next]_vars, NEW p \in Packet,
           fate[p] = "queued", fate'[p] = "out"
    PROVE  ts[p] >= now
<1>1. PICK c, m, d : Purging(c, m, d)
  BY PurgeState
<1>2. /\ Links(purge, d) /\ d \in Seq(Packet) /\ DOMAIN d = 1 .. Len(d)
      /\ Len(d) \in Nat
      /\ purge.head = (IF Len(d) = 0 THEN NULL ELSE d[1])
      /\ AfterPurge \in [Packet -> Fates]
      /\ \A j \in 1 .. Len(d) : ts[d[j]] \in Nat /\ now <= ts[d[j]]
  BY <1>1, LenProperties DEF Purging, Links
<1>3. AfterPurge[p] # "out"
  BY <1>1, OutAfterPurge
<1>n. now \in Nat
  BY DEF IInv, TypeOK
<1>4. ASSUME NEW k \in 1 .. Len(d), fate' = [AfterPurge EXCEPT ![d[k]] = "out"]
      PROVE  ts[p] >= now
  <2>1. p = d[k]
    BY <1>2, <1>3, <1>4
  <2> QED
    BY <1>2, <1>n, <2>1
<1>5. ASSUME NEW r \in Packet, enque(r) PROVE FALSE
  <2>1. \/ fate' = [AfterPurge EXCEPT ![r] = "queued", ![purge.head] = "dropped"]
        \/ fate' = [AfterPurge EXCEPT ![r] = "queued"]
    BY <1>5 DEF enque
  <2> QED
    BY <1>2, <1>3, <2>1
<1>6. CASE deque
  <2>1. CASE Len(d) = 0
    BY <1>2, <1>3, <1>6, <2>1 DEF deque
  <2>2. CASE Len(d) # 0
    <3>1. 1 \in 1 .. Len(d) /\ d[1] # NULL
      BY <1>2, <2>2, ElementOfSeq, PacketAssumption
    <3>2. fate' = [AfterPurge EXCEPT ![d[1]] = "out"]
      BY <1>2, <1>6, <2>2, <3>1 DEF deque
    <3> QED
      BY <1>4, <3>1, <3>2
  <2> QED
    BY <2>1, <2>2
<1>7. ASSUME NEW x \in Dest, dequeDst(x) PROVE ts[p] >= now
  <2>1. Chain(purge) = d
    BY <1>2, ChainOfLinks
  <2>2. \/ fate' = AfterPurge
        \/ \E k \in 1 .. Len(d) : fate' = [AfterPurge EXCEPT ![d[k]] = "out"]
    BY <1>2, <1>7, <2>1 DEF dequeDst
  <2> QED
    BY <1>3, <1>4, <2>2
<1>8. CASE Tick \/ UNCHANGED vars
  BY <1>8 DEF Tick, vars
<1> QED
  BY <1>5, <1>6, <1>7, <1>8 DEF Next

(* No packet is handed out after its deadline: purge runs before each      *)
(* packet is taken, and finds every packet that is past it.                *)
THEOREM OutBeforeDeadline == Spec => InTime
<1>1. IInv /\ [Next]_vars =>
        [\A p \in Packet : fate[p] = "queued" /\ fate'[p] = "out" => ts[p] >= now]_vars
  BY OutIsLive
<1> QED
  BY <1>1, Invariance, PTL DEF Spec, InTime

---------------------------------------------------------------------------
(* The list implements the queue of RQueueSpec: purging is what Live does, *)
(* and linking and unlinking are Append and RemoveAt.                      *)

Seen(f) == [p \in Packet |-> IF f[p] = "unlinked" THEN "expired" ELSE f[p]]

(* The positions after the m-th, counted. *)
LEMMA AtRest ==
    ASSUME NEW c \in Seq(Packet), NEW m \in 0 .. Len(c)
    PROVE  Abstract!At(c, m + 1 .. Len(c)) = Rest(c, m)
<1> DEFINE n == Len(c)
           I == m + 1 .. n
           nth(k) == CHOOSE i \in I : Cardinality({j \in I : j <= i}) = k
<1>1. n \in Nat /\ m \in 0 .. n
  BY LenProperties
<1> HIDE DEF n
<1>2. Cardinality(I) = n - m
  <2>1. Cardinality(m + 1 .. n) = IF m + 1 > n THEN 0 ELSE n - (m + 1) + 1
    BY <1>1, FS_Interval
  <2> QED
    BY <1>1, <2>1
<1>3. ASSUME NEW i \in I PROVE Cardinality({j \in I : j <= i}) = i - m
  <2>1. {j \in I : j <= i} = m + 1 .. i
    BY <1>1
  <2>2. Cardinality(m + 1 .. i) = IF m + 1 > i THEN 0 ELSE i - (m + 1) + 1
    BY <1>1, FS_Interval
  <2>3. ~ (m + 1 > i) /\ i - (m + 1) + 1 = i - m
    BY <1>1
  <2> HIDE DEF I
  <2> QED
    BY <2>1, <2>2, <2>3
<1>4. ASSUME NEW k \in 1 .. n - m PROVE nth(k) = k + m
  <2>1. k + m \in I /\ (k + m) - m = k
    BY <1>1
  <2>2. \A i \in I : i - m = k <=> i = k + m
    BY <1>1
  <2>3. \A i \in I : Cardinality({j \in I : j <= i}) = k <=> i = k + m
    BY <1>3, <2>2
  <2> HIDE DEF I
  <2> QED
    BY <2>1, <2>3
<1>5. Abstract!At(c, I) = [k \in 1 .. Cardinality(I) |-> c[nth(k)]]
  BY DEF Abstract!At, Abstract!Cardinality, Cardinality
<1> HIDE DEF I, nth
<1>6. Abstract!At(c, I) = [k \in 1 .. n - m |-> c[k + m]]
  BY <1>2, <1>4, <1>5
<1> QED
  BY <1>6 DEF I, n, Rest

LEMMA PurgingSeen ==
    ASSUME IInv, NEW c, NEW m, NEW d, Purging(c, m, d)
    PROVE  Abstract!Live = d /\ Abstract!Purged = Seen(AfterPurge)
<1>1. /\ c = Chain(q) /\ m \in 0 .. Len(c) /\ AgedUpTo(c, m) /\ d = Rest(c, m)
      /\ c \in Seq(Packet) /\ DOMAIN c = 1 .. Len(c) /\ Len(c) \in Nat
      /\ \A p \in Packet :
           AfterPurge[p] = IF \E i \in 1 .. m : c[i] = p THEN "unlinked" ELSE fate[p]
  BY LenProperties DEF Purging, Links
<1>2. \A i \in 1 .. Len(c) : ts[c[i]] \in Nat /\ (ts[c[i]] < now <=> i <= m)
  BY <1>1, ElementOfSeq DEF IInv, TypeOK, AgedUpTo
<1>n. now \in Nat
  BY DEF IInv, TypeOK
<1>3. {i \in DOMAIN c : ts[c[i]] >= now} = m + 1 .. Len(c)
  <2>1. \A i \in 1 .. Len(c) : ts[c[i]] >= now <=> ~ (i <= m)
    BY <1>2, <1>n
  <2> QED
    BY <1>1, <2>1
<1>4. Abstract!Live = d
  BY <1>1, <1>3, AtRest DEF Abstract!Live
<1>5. \A p \in Packet : fate[p] = "queued" <=> \E i \in 1 .. Len(c) : c[i] = p
  BY <1>1 DEF IInv, Holds
<1>6. ASSUME NEW p \in Packet
      PROVE  (fate[p] = "queued" /\ ts[p] < now) <=> \E i \in 1 .. m : c[i] = p
  <2>1. \A i \in 1 .. m : i \in 1 .. Len(c) /\ i <= m
    BY <1>1
  <2>2. \A i \in 1 .. Len(c) : i <= m => i \in 1 .. m
    BY <1>1
  <2> QED
    BY <1>2, <1>5, <2>1, <2>2
<1>7. Abstract!Purged = Seen(AfterPurge)
  <2>1. \A p \in Packet :
          (IF Seen(fate)[p] = "queued" /\ ts[p] < now THEN "expired" ELSE Seen(fate)[p])
             = Seen(AfterPurge)[p]
    BY <1>1, <1>5, <1>6 DEF Seen
  <2> QED
    BY <2>1 DEF Abstract!Purged, Seen
<1> QED
  BY <1>4, <1>7

(* The operations on sequences RQueueSpec uses. *)
LEMMA TailIsWithout ==
    ASSUME NEW c \in Seq(Packet), Len(c) # 0
    PROVE  Tail(c) = Without(c, 1) /\ Head(c) = c[1]
<1>1. Len(c) \in Nat /\ c # << >>
  BY LenProperties, EmptySeq
<1>2. Tail(c) \in Seq(Packet) /\ Len(Tail(c)) = Len(c) - 1
      /\ \A i \in 1 .. Len(Tail(c)) : Tail(c)[i] = c[i + 1]
  BY <1>1, HeadTailProperties
<1>3. Tail(c) = [i \in 1 .. Len(c) - 1 |-> Tail(c)[i]]
  BY <1>2, LenProperties, SeqDef
<1>4. \A i \in 1 .. Len(c) - 1 : Tail(c)[i] = IF i < 1 THEN c[i] ELSE c[i + 1]
  BY <1>1, <1>2
<1> QED
  BY <1>3, <1>4 DEF Without

LEMMA AppendIsWith ==
    ASSUME NEW c \in Seq(Packet), NEW p \in Packet
    PROVE  Append(c, p) = With(c, p)
<1>1. Len(c) \in Nat
  BY LenProperties
<1>2. /\ Append(c, p) \in Seq(Packet) /\ Len(Append(c, p)) = Len(c) + 1
      /\ \A i \in 1 .. Len(c) : Append(c, p)[i] = c[i]
      /\ Append(c, p)[Len(c) + 1] = p
  BY AppendProperties
<1>3. Append(c, p) = [i \in 1 .. Len(c) + 1 |-> Append(c, p)[i]]
  BY <1>2, LenProperties, SeqDef
<1>4. \A i \in 1 .. Len(c) + 1 :
         Append(c, p)[i] = IF i <= Len(c) THEN c[i] ELSE p
  BY <1>1, <1>2
<1> QED
  BY <1>3, <1>4 DEF With

LEMMA RemoveAtIsWithout ==
    ASSUME NEW c \in Seq(Packet), NEW k \in 1 .. Len(c)
    PROVE  Abstract!RemoveAt(c, k) = Without(c, k)
<1> DEFINE n == Len(c)
           a == SubSeq(c, 1, k - 1)
           b == SubSeq(c, k + 1, n)
<1>1. n \in Nat /\ k \in 1 .. n
  BY LenProperties
<1>2. \A i \in 1 .. n : c[i] \in Packet
  BY ElementOfSeq
<1> HIDE DEF n
<1>3. /\ a \in Seq(Packet) /\ Len(a) = k - 1
      /\ \A i \in 1 .. k - 1 : a[i] = c[i]
  <2>1. \A i \in 1 .. k - 1 : c[i] \in Packet
    BY <1>1, <1>2
  <2>2. /\ a \in Seq(Packet)
        /\ Len(a) = IF 1 <= k - 1 THEN (k - 1) - 1 + 1 ELSE 0
        /\ \A i \in 1 .. (k - 1) - 1 + 1 : a[i] = c[1 + i - 1]
    BY <1>1, <2>1, SubSeqProperties
  <2> HIDE DEF a
  <2> QED
    BY <1>1, <2>2
<1>4. /\ b \in Seq(Packet) /\ Len(b) = n - k
      /\ \A i \in 1 .. n - k : b[i] = c[k + i]
  <2>1. \A i \in k + 1 .. n : c[i] \in Packet
    BY <1>1, <1>2
  <2>2. /\ b \in Seq(Packet)
        /\ Len(b) = IF k + 1 <= n THEN n - (k + 1) + 1 ELSE 0
        /\ \A i \in 1 .. n - (k + 1) + 1 : b[i] = c[(k + 1) + i - 1]
    BY <1>1, <2>1, SubSeqProperties
  <2> HIDE DEF b
  <2>3. \A i \in 1 .. n - k : i \in 1 .. n - (k + 1) + 1 /\ (k + 1) + i - 1 = k + i
    BY <1>1
  <2>4. Len(b) = n - k
    BY <1>1, <2>2
  <2>5. \A i \in 1 .. n - k : b[i] = c[k + i]
    BY <2>2, <2>3
  <2> QED
    BY <2>2, <2>4, <2>5
<1>5. Abstract!RemoveAt(c, k) = a \o b
  BY DEF Abstract!RemoveAt, n
<1> HIDE DEF a, b
<1>6. /\ a \o b \in Seq(Packet) /\ Len(a \o b) = n - 1
      /\ \A i \in 1 .. n - 1 : (a \o b)[i] = IF i < k THEN c[i] ELSE c[i + 1]
  <2>1. /\ a \o b \in Seq(Packet) /\ Len(a \o b) = (k - 1) + (n - k)
        /\ \A i \in 1 .. (k - 1) + (n - k) :
              (a \o b)[i] = IF i <= k - 1 THEN a[i] ELSE b[i - (k - 1)]
    <3>1. /\ a \o b \in Seq(Packet) /\ Len(a \o b) = Len(a) + Len(b)
          /\ \A i \in 1 .. Len(a) + Len(b) :
                (a \o b)[i] = IF i <= Len(a) THEN a[i] ELSE b[i - Len(a)]
      BY <1>3, <1>4, ConcatProperties
    <3> QED
      BY <1>3, <1>4, <3>1
  <2>2. (k - 1) + (n - k) = n - 1
    BY <1>1
  <2>3. ASSUME NEW i \in 1 .. n - 1
        PROVE  (a \o b)[i] = IF i < k THEN c[i] ELSE c[i + 1]
    <3>1. (a \o b)[i] = IF i <= k - 1 THEN a[i] ELSE b[i - (k - 1)]
      BY <2>1, <2>2
    <3>2. CASE i < k
      <4>1. i \in 1 .. k - 1 /\ i <= k - 1
        BY <1>1, <3>2
      <4> QED
        BY <1>3, <3>1, <3>2, <4>1
    <3>3. CASE ~ (i < k)
      <4>1. i - (k - 1) \in 1 .. n - k /\ ~ (i <= k - 1) /\ k + (i - (k - 1)) = i + 1
        BY <1>1, <3>3
      <4> QED
        BY <1>4, <3>1, <3>3, <4>1
    <3> QED
      BY <3>2, <3>3
  <2> QED
    BY <2>1, <2>2, <2>3
<1> DEFINE s == a \o b
<1> HIDE DEF s
<1>7. s = [i \in 1 .. n - 1 |-> s[i]]
  <2>1. s \in Seq(Packet) /\ Len(s) = n - 1
    BY <1>6 DEF s
  <2> QED
    BY <2>1, LenProperties, SeqDef
<1>8. s = [i \in 1 .. n - 1 |-> IF i < k THEN c[i] ELSE c[i + 1]]
  <2>1. \A i \in 1 .. n - 1 : s[i] = IF i < k THEN c[i] ELSE c[i + 1]
    BY <1>6 DEF s
  <2> QED
    BY <1>7, <2>1
<1> QED
  BY <1>5, <1>8 DEF s, n, Without

(* Each step of the list is the step of the queue with the same name. *)
LEMMA EnqueImplements ==
    ASSUME IInv, NEW p \in Packet, enque(p) PROVE Abstract!Enque(p)
<1>1. PICK c, m, d : Purging(c, m, d)
  BY PurgeState
<1>2. /\ Links(purge, d) /\ d \in Seq(Packet) /\ Injective(d)
      /\ purge.len = Len(d) /\ purge.head = (IF Len(d) = 0 THEN NULL ELSE d[1])
      /\ AfterPurge \in [Packet -> Fates] /\ Len(d) \in Nat
      /\ \A j \in 1 .. Len(d) : d[j] \in Packet /\ fate[d[j]] = "queued"
  BY <1>1, LenProperties DEF Purging, Links
<1>3. /\ fate[p] = "new" /\ now' = now
      /\ ts' = [ts EXCEPT ![p] = now + Timeout]
  BY DEF enque
<1>4. \A j \in 1 .. Len(d) : d[j] # p
  BY <1>2, <1>3
<1>5. Abstract!Live = d /\ Abstract!Purged = Seen(AfterPurge)
  BY <1>1, PurgingSeen
<1>6. Seen(fate)[p] = "new"
  BY <1>3 DEF Seen
<1>7. CASE Len(d) # Limit
  <2>1. q' = Link(purge, p) /\ fate' = [AfterPurge EXCEPT ![p] = "queued"]
    BY <1>2, <1>7 DEF enque
  <2>2. Chain(q') = Append(d, p)
    BY <1>2, <1>4, <2>1, LinkLinks, ChainOfLinks, AppendIsWith
  <2>3. Seen(fate') = [Seen(AfterPurge) EXCEPT ![p] = "queued"]
    BY <1>2, <2>1 DEF Seen
  <2> QED
    BY <1>3, <1>5, <1>6, <1>7, <2>2, <2>3 DEF Abstract!Enque, Seen
<1>8. CASE Len(d) = Limit
  <2> DEFINE e == Without(d, 1)
             l == remove_head(purge)
  <2>1. 1 \in 1 .. Len(d) /\ Len(d) # 0
    BY <1>2, <1>8, BoundAssumption
  <2>2. /\ q' = Link(l, p)
        /\ fate' = [AfterPurge EXCEPT ![p] = "queued", ![d[1]] = "dropped"]
    BY <1>2, <1>8, <2>1 DEF enque
  <2>3. Links(l, e)
    BY <1>2, <2>1, RemoveHeadLinks
  <2>4. \A i \in 1 .. Len(e) : e[i] # p
    <3>1. /\ Len(e) = Len(d) - 1
          /\ \A r : (\E j \in 1 .. Len(d) - 1 : e[j] = r)
                       <=> r # d[1] /\ \E j \in 1 .. Len(d) : d[j] = r
      BY <1>2, <2>1, WithoutProperties
    <3> HIDE DEF e
    <3> QED
      BY <1>4, <3>1
  <2>5. e \in Seq(Packet)
    BY <2>3 DEF Links
  <2> HIDE DEF l, e
  <2>6. Chain(q') = Append(e, p)
    BY <2>2, <2>3, <2>4, <2>5, LinkLinks, ChainOfLinks, AppendIsWith
  <2>7. Tail(d) = e /\ Head(d) = d[1]
    BY <1>2, <2>1, TailIsWithout DEF e
  <2>8. Seen(fate') = [Seen(AfterPurge) EXCEPT ![p] = "queued", ![d[1]] = "dropped"]
    BY <1>2, <2>2 DEF Seen
  <2> QED
    BY <1>3, <1>5, <1>6, <1>8, <2>6, <2>7, <2>8 DEF Abstract!Enque, Seen
<1> QED
  BY <1>7, <1>8

LEMMA NothingToTake ==
    ASSUME IInv, NEW c, NEW m, NEW d, Purging(c, m, d), NEW S,
           \A i \in 1 .. Len(d) : d[i] \notin S,
           q' = purge, fate' = AfterPurge, ts' = ts, now' = now
    PROVE  Abstract!Take(S)
<1>1. Abstract!Live = d /\ Abstract!Purged = Seen(AfterPurge)
  BY PurgingSeen
<1>2. Links(purge, d) /\ d \in Seq(Packet) /\ DOMAIN d = 1 .. Len(d)
  BY LenProperties DEF Purging, Links
<1>3. Chain(q') = d
  BY <1>2, ChainOfLinks
<1>4. Seen(fate') = Seen(AfterPurge)
  OBVIOUS
<1>5. {i \in DOMAIN d : d[i] \in S} = {}
  BY <1>2
<1> QED
  BY <1>1, <1>3, <1>4, <1>5 DEF Abstract!Take, Seen

LEMMA FirstIsTaken ==
    ASSUME IInv, NEW c, NEW m, NEW d, Purging(c, m, d), NEW S,
           NEW k \in 1 .. Len(d), d[k] \in S,
           \A j \in 1 .. Len(d) : d[j] \in S => k <= j,
           Links(q', Without(d, k)),
           fate' = [AfterPurge EXCEPT ![d[k]] = "out"], ts' = ts, now' = now
    PROVE  Abstract!Take(S)
<1>1. Abstract!Live = d /\ Abstract!Purged = Seen(AfterPurge)
  BY PurgingSeen
<1>2. /\ d \in Seq(Packet) /\ DOMAIN d = 1 .. Len(d)
      /\ AfterPurge \in [Packet -> Fates]
  BY LenProperties DEF Purging, Links
<1>3. Chain(q') = Abstract!RemoveAt(d, k)
  BY <1>2, ChainOfLinks, RemoveAtIsWithout
<1>4. Seen(fate') = [Seen(AfterPurge) EXCEPT ![d[k]] = "out"]
  BY <1>2 DEF Seen
<1>5. /\ k \in {i \in DOMAIN d : d[i] \in S}
      /\ \A j \in {i \in DOMAIN d : d[i] \in S} : k <= j
  BY <1>2
<1> QED
  BY <1>1, <1>3, <1>4, <1>5 DEF Abstract!Take, Seen

LEMMA DequeImplements == IInv /\ deque => Abstract!Take(Packet)
<1> SUFFICES ASSUME IInv, deque PROVE Abstract!Take(Packet)
  OBVIOUS
<1>1. PICK c, m, d : Purging(c, m, d)
  BY PurgeState
<1>2. /\ Links(purge, d) /\ d \in Seq(Packet)
      /\ purge.head = IF Len(d) = 0 THEN NULL ELSE d[1]
  BY <1>1 DEF Purging, Links
<1>3. Len(d) \in Nat
  BY <1>2, LenProperties
<1>4. CASE Len(d) = 0
  <2>1. q' = purge
    BY <1>2, <1>4, RemoveHeadOfNothing DEF deque
  <2>2. fate' = AfterPurge /\ ts' = ts /\ now' = now
    BY <1>2, <1>4 DEF deque
  <2>3. \A i \in 1 .. Len(d) : d[i] \notin Packet
    BY <1>4
  <2> QED
    BY <1>1, <2>1, <2>2, <2>3, NothingToTake
<1>5. CASE Len(d) # 0
  <2>1. 1 \in 1 .. Len(d) /\ d[1] \in Packet /\ d[1] # NULL /\ purge.head = d[1]
    BY <1>2, <1>3, <1>5, ElementOfSeq, PacketAssumption
  <2>2. Links(q', Without(d, 1))
    BY <1>2, <1>5, RemoveHeadLinks DEF deque
  <2>3. fate' = [AfterPurge EXCEPT ![d[1]] = "out"] /\ ts' = ts /\ now' = now
    BY <2>1 DEF deque
  <2>4. \A j \in 1 .. Len(d) : d[j] \in Packet => 1 <= j
    OBVIOUS
  <2> QED
    BY <1>1, <2>1, <2>2, <2>3, <2>4, FirstIsTaken
<1> QED
  BY <1>4, <1>5

LEMMA DequeDstImplements ==
    ASSUME IInv, NEW x \in Dest, dequeDst(x)
    PROVE  Abstract!Take({p \in Packet : dst[p] = x})
<1> DEFINE S == {p \in Packet : dst[p] = x}
<1>1. PICK c, m, d : Purging(c, m, d)
  BY PurgeState
<1>2. Links(purge, d) /\ d \in Seq(Packet)
  BY <1>1 DEF Purging, Links
<1>3. /\ Chain(purge) = d /\ DOMAIN d = 1 .. Len(d)
      /\ \A i \in 1 .. Len(d) : d[i] \in Packet
  BY <1>2, ChainOfLinks, LenProperties, ElementOfSeq
<1>4. /\ ts' = ts /\ now' = now
      /\ \/ /\ {k \in DOMAIN d : dst[d[k]] = x} = {}
            /\ q' = purge /\ fate' = AfterPurge
         \/ \E k \in {k \in DOMAIN d : dst[d[k]] = x} :
               /\ \A j \in {i \in DOMAIN d : dst[d[i]] = x} : k <= j
               /\ q' = Unlink(purge, d[k])
               /\ fate' = [AfterPurge EXCEPT ![d[k]] = "out"]
  BY <1>3 DEF dequeDst
<1>5. \A i \in 1 .. Len(d) : d[i] \in S <=> dst[d[i]] = x
  BY <1>3
<1> HIDE DEF S
<1>6. CASE {k \in DOMAIN d : dst[d[k]] = x} = {} /\ q' = purge /\ fate' = AfterPurge
  <2>1. \A i \in 1 .. Len(d) : d[i] \notin S
    BY <1>3, <1>5, <1>6
  <2>2. Abstract!Take(S)
    BY <1>1, <1>4, <1>6, <2>1, NothingToTake
  <2> QED
    BY <2>2 DEF S
<1>7. ASSUME NEW k \in DOMAIN d, dst[d[k]] = x,
             \A j \in {i \in DOMAIN d : dst[d[i]] = x} : k <= j,
             q' = Unlink(purge, d[k]), fate' = [AfterPurge EXCEPT ![d[k]] = "out"]
      PROVE  Abstract!Take({p \in Packet : dst[p] = x})
  <2>1. k \in 1 .. Len(d) /\ d[k] \in S /\ \A j \in 1 .. Len(d) : d[j] \in S => k <= j
    BY <1>3, <1>5, <1>7
  <2>2. Links(q', Without(d, k))
    BY <1>2, <1>7, <2>1, UnlinkLinks
  <2>3. Abstract!Take(S)
    BY <1>1, <1>4, <1>7, <2>1, <2>2, FirstIsTaken
  <2> QED
    BY <2>3 DEF S
<1> QED
  BY <1>4, <1>6, <1>7

LEMMA InitImplements == Init => Abstract!Init
<1> SUFFICES ASSUME Init PROVE Abstract!Init
  OBVIOUS
<1>1. IInv
  BY InitIInv
<1>2. Chain(q) \in Seq(Packet) /\ Len(Chain(q)) = 0
  BY <1>1 DEF IInv, Holds, Links, Init
<1>3. Chain(q) = << >>
  BY <1>2, EmptySeq
<1> QED
  BY <1>3 DEF Init, Abstract!Init

LEMMA StepImplements == IInv /\ [Next]_vars => [Abstract!Next]_(Abstract!qvars)
<1> SUFFICES ASSUME IInv, [Next]_vars
             PROVE  [Abstract!Next]_(Abstract!qvars)
  OBVIOUS
<1>1. ASSUME NEW p \in Packet, enque(p) PROVE Abstract!Next
  BY <1>1, EnqueImplements DEF Abstract!Next
<1>2. CASE deque
  BY <1>2, DequeImplements DEF Abstract!Next
<1>3. ASSUME NEW x \in Dest, dequeDst(x) PROVE Abstract!Next
  BY <1>3, DequeDstImplements DEF Abstract!Next
<1>4. CASE Tick
  BY <1>4 DEF Tick, Abstract!Next, Abstract!Tick
<1>5. CASE UNCHANGED vars
  BY <1>5 DEF vars, Abstract!qvars
<1> QED
  BY <1>1, <1>2, <1>3, <1>4, <1>5 DEF Next

(* The linked list implements the bounded first-in first-out queue with    *)
(* deadlines that the routing agent relies on.                             *)
THEOREM Implements == Spec => ImplementsQueue
<1>1. Spec => Abstract!Init
  BY InitImplements DEF Spec
<1>2. Spec => [][Abstract!Next]_(Abstract!qvars)
  BY Invariance, StepImplements, PTL DEF Spec
<1> QED
  BY <1>1, <1>2 DEF ImplementsQueue, Abstract!Spec
=============================================================================
