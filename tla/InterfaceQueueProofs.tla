------------------------ MODULE InterfaceQueueProofs ------------------------
(***************************************************************************)
(* Proofs about InterfaceQueue: however many packets, neighbors and places *)
(* in the queues there are, every packet is in exactly one place, the      *)
(* interface queue keeps routing packets in front and never gets stuck.    *)
(***************************************************************************)
EXTENDS InterfaceQueue, FiniteSetTheorems, SequenceTheorems, TLAPS

---------------------------------------------------------------------------
(* Subsequences. *)

(* The elements of s are elements of q, in their order. *)
Subsequence(s, q) ==
    \E f \in [DOMAIN s -> DOMAIN q] :
        /\ \A i, j \in DOMAIN s : i < j => f[i] < f[j]
        /\ \A i \in DOMAIN s : s[i] = q[f[i]]

(* The k-th number of I, as At picks it. *)
Nth(I, k) == CHOOSE i \in I : Cardinality({j \in I : j <= i}) = k

(* Counting the numbers of I up to one of them is a bijection from I to    *)
(* 1 .. Cardinality(I): it grows, and so it is injective, and an injection *)
(* between sets of one size is surjective.                                 *)
LEMMA NthOfSet ==
    ASSUME NEW n \in Nat, NEW I \in SUBSET (1 .. n)
    PROVE  /\ Cardinality(I) \in Nat /\ Cardinality(I) <= n
           /\ \A k \in 1 .. Cardinality(I) : Nth(I, k) \in I
           /\ \A i \in I : \E k \in 1 .. Cardinality(I) : Nth(I, k) = i
           /\ \A k, l \in 1 .. Cardinality(I) : k < l => Nth(I, k) < Nth(I, l)
<1> DEFINE N == Cardinality(I)
           C(i) == {j \in I : j <= i}
           r == [i \in I |-> Cardinality(C(i))]
<1>0. \A i \in I : i \in Int
  OBVIOUS
<1>1. IsFiniteSet(I) /\ N \in Nat /\ N <= n
  <2>1. IsFiniteSet(1 .. n) /\ Cardinality(1 .. n) = n
    BY FS_Interval
  <2> QED
    BY <2>1, FS_Subset, FS_CardinalityType
<1>2. ASSUME NEW i \in I
      PROVE  IsFiniteSet(C(i)) /\ Cardinality(C(i)) \in 1 .. N
  <2>1. C(i) \in SUBSET I /\ i \in C(i)
    OBVIOUS
  <2>2. IsFiniteSet(C(i)) /\ Cardinality(C(i)) <= N
    BY <1>1, <2>1, FS_Subset
  <2>3. Cardinality(C(i)) \in Nat /\ Cardinality(C(i)) # 0
    BY <2>1, <2>2, FS_CardinalityType, FS_EmptySet
  <2> QED
    BY <1>1, <2>2, <2>3
<1>3. ASSUME NEW i \in I, NEW j \in I, i < j
      PROVE  Cardinality(C(i)) < Cardinality(C(j))
  <2>1. C(i) \in SUBSET C(j) /\ C(i) # C(j)
    <3>1. j \in C(j) /\ j \notin C(i)
      BY <1>3
    <3>2. \A m \in I : m <= i => m <= j
      BY <1>0, <1>3
    <3> QED
      BY <3>1, <3>2
  <2>2. Cardinality(C(i)) <= Cardinality(C(j)) /\ Cardinality(C(i)) # Cardinality(C(j))
    BY <1>2, <2>1, FS_Subset
  <2> QED
    BY <1>1, <1>2, <2>2
<1>4. r \in Injection(I, 1 .. N)
  <2>1. r \in [I -> 1 .. N]
    BY <1>2
  <2>2. ASSUME NEW i \in I, NEW j \in I, r[i] = r[j] PROVE i = j
    <3>1. Cardinality(C(i)) = Cardinality(C(j))
      BY <2>2
    <3>2. Cardinality(C(i)) \in Nat
      BY <1>1, <1>2
    <3>3. ~ (i < j) /\ ~ (j < i)
      BY <1>3, <3>1, <3>2
    <3> QED
      BY <3>3
  <2> QED
    BY <2>1, <2>2 DEF Injection, IsInjective
<1>5. r \in Surjection(I, 1 .. N)
  <2>1. IsFiniteSet(1 .. N) /\ Cardinality(1 .. N) = N
    BY <1>1, FS_Interval
  <2> QED
    BY <1>4, <2>1, FS_Injection
<1>6. ASSUME NEW k \in 1 .. N
      PROVE  Nth(I, k) \in I /\ Cardinality(C(Nth(I, k))) = k
  <2>1. PICK i \in I : r[i] = k
    BY <1>5 DEF Surjection
  <2>2. Cardinality(C(i)) = k
    BY <2>1
  <2> QED
    BY <2>2 DEF Nth
<1>7. ASSUME NEW i \in I PROVE \E k \in 1 .. N : Nth(I, k) = i
  <2>1. Cardinality(C(i)) \in 1 .. N
    BY <1>2
  <2> DEFINE k == Cardinality(C(i))
  <2>2. Nth(I, k) \in I /\ Cardinality(C(Nth(I, k))) = k
    BY <1>6, <2>1
  <2>3. r[Nth(I, k)] = r[i]
    BY <2>2
  <2>4. Nth(I, k) = i
    BY <1>4, <2>2, <2>3 DEF Injection, IsInjective
  <2> QED
    BY <2>1, <2>4
<1>8. ASSUME NEW k \in 1 .. N, NEW l \in 1 .. N, k < l
      PROVE  Nth(I, k) < Nth(I, l)
  <2>1. /\ Nth(I, k) \in I /\ Cardinality(C(Nth(I, k))) = k
        /\ Nth(I, l) \in I /\ Cardinality(C(Nth(I, l))) = l
    BY <1>6
  <2>2. Nth(I, k) # Nth(I, l)
    BY <1>8, <2>1
  <2>3. ~ (Nth(I, l) < Nth(I, k))
    <3> SUFFICES ASSUME Nth(I, l) < Nth(I, k) PROVE FALSE
      OBVIOUS
    <3>1. Cardinality(C(Nth(I, l))) < Cardinality(C(Nth(I, k)))
      BY <1>3, <2>1
    <3>2. l < k
      BY <2>1, <3>1
    <3> QED
      BY <1>8, <3>2
  <2>4. Nth(I, k) \in Int /\ Nth(I, l) \in Int
    BY <1>0, <2>1
  <2> QED
    BY <2>2, <2>3, <2>4
<1> HIDE DEF r, C
<1> QED
  BY <1>1, <1>6, <1>7, <1>8

(* What is left of q at the positions of I. *)
LEMMA AtProperties ==
    ASSUME NEW S, NEW q \in Seq(S), NEW I \in SUBSET (DOMAIN q)
    PROVE  /\ At(q, I) \in Seq(S)
           /\ Len(At(q, I)) <= Len(q)
           /\ Subsequence(At(q, I), q)
           /\ Range(At(q, I)) = {q[i] : i \in I}
<1> DEFINE N == Cardinality(I)
           s == At(q, I)
<1>1. DOMAIN q = 1 .. Len(q) /\ Len(q) \in Nat
  BY LenProperties
<1>2. /\ N \in Nat /\ N <= Len(q)
      /\ \A k \in 1 .. N : Nth(I, k) \in I
      /\ \A i \in I : \E k \in 1 .. N : Nth(I, k) = i
      /\ \A k, l \in 1 .. N : k < l => Nth(I, k) < Nth(I, l)
  BY <1>1, NthOfSet
<1>3. s = [k \in 1 .. N |-> q[Nth(I, k)]]
  BY DEF At, Nth
<1> HIDE DEF N, s
<1>4. s \in Seq(S) /\ Len(s) = N /\ DOMAIN s = 1 .. N
  <2>1. \A k \in 1 .. N : q[Nth(I, k)] \in S
    BY <1>1, <1>2, ElementOfSeq
  <2> QED
    BY <1>2, <1>3, <2>1
<1>5. Subsequence(s, q)
  <2> DEFINE f == [k \in 1 .. N |-> Nth(I, k)]
  <2>1. f \in [DOMAIN s -> DOMAIN q]
    BY <1>2, <1>4
  <2>2. \A i, j \in DOMAIN s : i < j => f[i] < f[j]
    BY <1>2, <1>4
  <2>3. \A i \in DOMAIN s : s[i] = q[f[i]]
    BY <1>3, <1>4
  <2> HIDE DEF f
  <2> QED
    BY <2>1, <2>2, <2>3 DEF Subsequence
<1>6. Range(s) = {q[i] : i \in I}
  BY <1>2, <1>3, <1>4 DEF Range
<1> QED
  BY <1>2, <1>4, <1>5, <1>6 DEF s

---------------------------------------------------------------------------
(* The operations on lists: what they contain afterwards, and in which     *)
(* order.                                                                  *)

RoutingTypes == {"RREP", "RREQ", "RERR"}

(* Under the headers h, no data is in q in front of a routing packet. *)
Ordered(q, h) ==
    \A i, j \in DOMAIN q :
        i < j /\ h[q[j]].type \in RoutingTypes => h[q[i]].type \in RoutingTypes

LEMMA SubsequenceKeeps ==
    ASSUME NEW S, NEW q \in Seq(S), NEW s \in Seq(S), Subsequence(s, q)
    PROVE  /\ IsInjective(q) => IsInjective(s)
           /\ Range(s) \subseteq Range(q)
           /\ \A h : Ordered(q, h) => Ordered(s, h)
<1>1. PICK f \in [DOMAIN s -> DOMAIN q] :
         /\ \A i, j \in DOMAIN s : i < j => f[i] < f[j]
         /\ \A i \in DOMAIN s : s[i] = q[f[i]]
  BY DEF Subsequence
<1>2. DOMAIN s \subseteq Int /\ DOMAIN q \subseteq Int
  BY LenProperties
<1>3. ASSUME IsInjective(q), NEW i \in DOMAIN s, NEW j \in DOMAIN s, s[i] = s[j]
      PROVE  i = j
  <2>1. f[i] = f[j]
    BY <1>1, <1>3 DEF IsInjective
  <2>2. f[i] \in Int /\ f[j] \in Int
    BY <1>2
  <2>3. ~ (f[i] < f[j]) /\ ~ (f[j] < f[i])
    BY <2>1, <2>2
  <2> QED
    BY <1>1, <1>2, <2>3
<1>4. Range(s) \subseteq Range(q)
  BY <1>1 DEF Range
<1>5. ASSUME NEW h, Ordered(q, h) PROVE Ordered(s, h)
  BY <1>1, <1>5 DEF Ordered
<1> QED
  BY <1>3, <1>4, <1>5 DEF IsInjective

LEMMA TailList ==
    ASSUME NEW S, NEW q \in Seq(S), q # << >>, IsInjective(q)
    PROVE  /\ Head(q) \in Range(q) /\ Tail(q) \in Seq(S)
           /\ Len(Tail(q)) = Len(q) - 1
           /\ Subsequence(Tail(q), q)
           /\ Range(Tail(q)) = Range(q) \ {Head(q)}
<1> DEFINE t == Tail(q)
<1>1. /\ Len(q) \in Nat \ {0} /\ DOMAIN q = 1 .. Len(q)
  BY LenProperties, EmptySeq
<1>2. /\ t \in Seq(S) /\ Len(t) = Len(q) - 1
      /\ \A i \in 1 .. Len(t) : t[i] = q[i + 1]
  BY HeadTailProperties
<1>3. Head(q) = q[1]
  OBVIOUS
<1> HIDE DEF t
<1>4. DOMAIN t = 1 .. Len(q) - 1
  BY <1>2, LenProperties
<1>5. Subsequence(t, q)
  <2> DEFINE f == [i \in DOMAIN t |-> i + 1]
  <2>1. f \in [DOMAIN t -> DOMAIN q]
    BY <1>1, <1>4
  <2>2. \A i, j \in DOMAIN t : i < j => f[i] < f[j]
    BY <1>1, <1>4
  <2>3. \A i \in DOMAIN t : t[i] = q[f[i]]
    BY <1>2, <1>4
  <2> HIDE DEF f
  <2> QED
    BY <2>1, <2>2, <2>3 DEF Subsequence
<1>6. Range(t) = Range(q) \ {q[1]}
  <2>1. ASSUME NEW x \in Range(t) PROVE x \in Range(q) \ {q[1]}
    <3>1. PICK i \in DOMAIN t : x = t[i]
      BY DEF Range
    <3>2. x = q[i + 1] /\ i + 1 \in DOMAIN q /\ 1 \in DOMAIN q /\ i + 1 # 1
      BY <1>1, <1>2, <1>4, <3>1
    <3> QED
      BY <3>2 DEF Range, IsInjective
  <2>2. ASSUME NEW x \in Range(q), x # q[1] PROVE x \in Range(t)
    <3>1. PICK i \in DOMAIN q : x = q[i]
      BY DEF Range
    <3>2. i - 1 \in DOMAIN t /\ (i - 1) + 1 = i
      BY <1>1, <1>4, <2>2, <3>1
    <3>3. t[i - 1] = x
      BY <1>2, <1>4, <3>1, <3>2
    <3> QED
      BY <3>2, <3>3 DEF Range
  <2> QED
    BY <2>1, <2>2
<1>7. Head(q) \in Range(q)
  BY <1>1, <1>3 DEF Range
<1> QED
  BY <1>2, <1>3, <1>5, <1>6, <1>7 DEF t

LEMMA FrontList ==
    ASSUME NEW S, NEW q \in Seq(S), q # << >>, IsInjective(q)
    PROVE  /\ Last(q) \in Range(q) /\ Front(q) \in Seq(S)
           /\ Len(Front(q)) = Len(q) - 1
           /\ Subsequence(Front(q), q)
           /\ Range(Front(q)) = Range(q) \ {Last(q)}
<1> DEFINE t == Front(q)
           n == Len(q)
<1>1. n \in Nat \ {0} /\ DOMAIN q = 1 .. n
  BY LenProperties, EmptySeq
<1>2. /\ t \in Seq(S) /\ Len(t) = n - 1
      /\ \A i \in 1 .. n - 1 : t[i] = q[i]
  <2>1. \A i \in 1 .. n - 1 : q[i] \in S
    BY <1>1, ElementOfSeq
  <2>2. /\ SubSeq(q, 1, n - 1) \in Seq(S)
        /\ Len(SubSeq(q, 1, n - 1)) = IF 1 <= n - 1 THEN (n - 1) - 1 + 1 ELSE 0
        /\ \A i \in 1 .. (n - 1) - 1 + 1 : SubSeq(q, 1, n - 1)[i] = q[1 + i - 1]
    BY <1>1, <2>1, SubSeqProperties
  <2> QED
    BY <1>1, <2>2 DEF Front
<1>3. Last(q) = q[n]
  BY DEF Last
<1> HIDE DEF t, n
<1>4. DOMAIN t = 1 .. n - 1
  BY <1>2, LenProperties
<1>5. Subsequence(t, q)
  <2> DEFINE f == [i \in DOMAIN t |-> i]
  <2>1. f \in [DOMAIN t -> DOMAIN q]
    BY <1>1, <1>4
  <2>2. \A i, j \in DOMAIN t : i < j => f[i] < f[j]
    OBVIOUS
  <2>3. \A i \in DOMAIN t : t[i] = q[f[i]]
    BY <1>2, <1>4
  <2> HIDE DEF f
  <2> QED
    BY <2>1, <2>2, <2>3 DEF Subsequence
<1>6. Range(t) = Range(q) \ {q[n]}
  <2>1. ASSUME NEW x \in Range(t) PROVE x \in Range(q) \ {q[n]}
    <3>1. PICK i \in DOMAIN t : x = t[i]
      BY DEF Range
    <3>2. x = q[i] /\ i \in DOMAIN q /\ n \in DOMAIN q /\ i # n
      BY <1>1, <1>2, <1>4, <3>1
    <3> QED
      BY <3>2 DEF Range, IsInjective
  <2>2. ASSUME NEW x \in Range(q), x # q[n] PROVE x \in Range(t)
    <3>1. PICK i \in DOMAIN q : x = q[i]
      BY DEF Range
    <3>2. i \in DOMAIN t
      BY <1>1, <1>4, <2>2, <3>1
    <3>3. t[i] = x
      BY <1>2, <1>4, <3>1, <3>2
    <3> QED
      BY <3>2, <3>3 DEF Range
  <2> QED
    BY <2>1, <2>2
<1>7. Last(q) \in Range(q)
  BY <1>1, <1>3 DEF Range
<1> QED
  BY <1>2, <1>3, <1>5, <1>6, <1>7 DEF t, n

LEMMA AppendList ==
    ASSUME NEW S, NEW q \in Seq(S), NEW x \in S, x \notin Range(q), IsInjective(q)
    PROVE  /\ Append(q, x) \in Seq(S) /\ Len(Append(q, x)) = Len(q) + 1
           /\ IsInjective(Append(q, x))
           /\ Range(Append(q, x)) = Range(q) \cup {x}
           /\ \A h : Ordered(q, h) /\ h[x].type \notin RoutingTypes
                        => Ordered(Append(q, x), h)
<1> DEFINE t == Append(q, x)
           n == Len(q)
<1>1. /\ t \in Seq(S) /\ Len(t) = n + 1
      /\ \A i \in 1 .. n : t[i] = q[i]
      /\ t[n + 1] = x
  BY AppendProperties
<1>2. n \in Nat /\ DOMAIN q = 1 .. n
  BY LenProperties
<1> HIDE DEF t, n
<1>3. DOMAIN t = 1 .. n + 1
  BY <1>1, LenProperties
<1>4. \A i \in DOMAIN t : \/ i \in DOMAIN q /\ t[i] = q[i]
                          \/ i = n + 1 /\ t[i] = x
  BY <1>1, <1>2, <1>3
<1>5. \A i \in DOMAIN q : q[i] # x
  BY DEF Range
<1>6. IsInjective(t)
  BY <1>4, <1>5 DEF IsInjective
<1>7. Range(t) = Range(q) \cup {x}
  <2>1. \A i \in DOMAIN q : i \in DOMAIN t /\ t[i] = q[i]
    BY <1>1, <1>2, <1>3
  <2>2. n + 1 \in DOMAIN t /\ t[n + 1] = x
    BY <1>1, <1>2, <1>3
  <2> QED
    BY <1>4, <2>1, <2>2 DEF Range
<1>8. ASSUME NEW h, Ordered(q, h), h[x].type \notin RoutingTypes
      PROVE  Ordered(t, h)
  <2> SUFFICES ASSUME NEW i \in DOMAIN t, NEW j \in DOMAIN t, i < j,
                      h[t[j]].type \in RoutingTypes
               PROVE  h[t[i]].type \in RoutingTypes
    BY DEF Ordered
  <2>1. j \in DOMAIN q /\ t[j] = q[j]
    BY <1>4, <1>8
  <2>2. i \in DOMAIN q /\ t[i] = q[i]
    BY <1>1, <1>2, <1>3, <2>1
  <2> QED
    BY <1>8, <2>1, <2>2 DEF Ordered
<1> QED
  BY <1>1, <1>6, <1>7, <1>8 DEF t, n

LEMMA PushList ==
    ASSUME NEW S, NEW q \in Seq(S), NEW x \in S, x \notin Range(q), IsInjective(q)
    PROVE  /\ <<x>> \o q \in Seq(S) /\ Len(<<x>> \o q) = Len(q) + 1
           /\ IsInjective(<<x>> \o q)
           /\ Range(<<x>> \o q) = Range(q) \cup {x}
           /\ \A h : Ordered(q, h) /\ h[x].type \in RoutingTypes
                        => Ordered(<<x>> \o q, h)
<1> DEFINE t == <<x>> \o q
           n == Len(q)
<1>1. /\ t \in Seq(S) /\ Len(t) = n + 1
      /\ t[1] = x
      /\ \A i \in 2 .. n + 1 : t[i] = q[i - 1]
  <2>1. <<x>> \in Seq(S) /\ Len(<<x>>) = 1 /\ <<x>>[1] = x /\ n \in Nat
    BY LenProperties
  <2>2. /\ t \in Seq(S) /\ Len(t) = 1 + n
        /\ \A i \in 1 .. 1 + n : t[i] = IF i <= 1 THEN <<x>>[i] ELSE q[i - 1]
    BY <2>1, ConcatProperties
  <2> QED
    BY <2>1, <2>2
<1>2. n \in Nat /\ DOMAIN q = 1 .. n
  BY LenProperties
<1> HIDE DEF t, n
<1>3. DOMAIN t = 1 .. n + 1
  BY <1>1, LenProperties
<1>4. \A i \in DOMAIN t : \/ i = 1 /\ t[i] = x
                          \/ i > 1 /\ i - 1 \in DOMAIN q /\ t[i] = q[i - 1]
  BY <1>1, <1>2, <1>3
<1>5. \A i \in DOMAIN q : q[i] # x
  BY DEF Range
<1>6. IsInjective(t)
  <2> SUFFICES ASSUME NEW i \in DOMAIN t, NEW j \in DOMAIN t, t[i] = t[j]
               PROVE  i = j
    BY DEF IsInjective
  <2>1. i \in Int /\ j \in Int
    BY <1>3
  <2>2. CASE i = 1
    BY <1>4, <1>5, <2>2
  <2>3. CASE i # 1
    <3>1. i - 1 \in DOMAIN q /\ t[i] = q[i - 1] /\ j # 1
      BY <1>4, <1>5, <2>3
    <3>2. j - 1 \in DOMAIN q /\ t[j] = q[j - 1]
      BY <1>4, <3>1
    <3>3. i - 1 = j - 1
      BY <3>1, <3>2 DEF IsInjective
    <3> QED
      BY <2>1, <3>3
  <2> QED
    BY <2>2, <2>3
<1>7. Range(t) = Range(q) \cup {x}
  <2>1. \A i \in DOMAIN q : i + 1 \in DOMAIN t /\ t[i + 1] = q[i]
    BY <1>1, <1>2, <1>3
  <2>2. 1 \in DOMAIN t /\ t[1] = x
    BY <1>1, <1>2, <1>3
  <2> QED
    BY <1>4, <2>1, <2>2 DEF Range
<1>8. ASSUME NEW h, Ordered(q, h), h[x].type \in RoutingTypes
      PROVE  Ordered(t, h)
  <2> SUFFICES ASSUME NEW i \in DOMAIN t, NEW j \in DOMAIN t, i < j,
                      h[t[j]].type \in RoutingTypes
               PROVE  h[t[i]].type \in RoutingTypes
    BY DEF Ordered
  <2>1. CASE i = 1
    BY <1>1, <1>8, <2>1
  <2>2. CASE i # 1
    <3>1. /\ i - 1 \in DOMAIN q /\ t[i] = q[i - 1]
          /\ j - 1 \in DOMAIN q /\ t[j] = q[j - 1] /\ i - 1 < j - 1
      BY <1>1, <1>2, <1>3, <2>2
    <3> QED
      BY <1>8, <3>1 DEF Ordered
  <2> QED
    BY <2>1, <2>2
<1> QED
  BY <1>1, <1>6, <1>7, <1>8 DEF t, n

---------------------------------------------------------------------------
(* The inductive invariant. *)

Headers ==
    [type : {"data"}, dst : Dest, hop : Neighbor \cup {NoHop},
     salvaged : 0 .. MaxSalvage]
        \cup [type : {"none", "RREP", "RREQ", "RERR"}, dst : {NoDest},
              hop : Neighbor \cup {NoHop}, salvaged : {0}]

(* Every packet is in one of G, F, S, B and Q or is m, and in one only. *)
Divided(G, F, S, B, Q, m) ==
    /\ \A p \in Packet :
         p \in G \/ p \in F \/ p \in S \/ p \in B \/ p \in Q \/ p = m
    /\ \A p \in G : p \notin F /\ p \notin S /\ p \notin B /\ p \notin Q /\ p # m
    /\ \A p \in F : p \notin S /\ p \notin B /\ p \notin Q /\ p # m
    /\ \A p \in S : p \notin B /\ p \notin Q /\ p # m
    /\ \A p \in B : p \notin Q /\ p # m
    /\ \A p \in Q : p # m

OneList ==
    /\ IsInjective(buf) /\ IsInjective(ifq)
    /\ Divided(purged, free, sched, Range(buf), Range(ifq), mac)

IInv == TypeOK /\ OneList /\ WorkConserving /\ ControlFirst

LEMMA ControlFirstMeans == ControlFirst <=> Ordered(ifq, hdr)
BY DEF ControlFirst, Ordered, Control, RoutingTypes

LEMMA ControlFirstMeansAfter == (ControlFirst <=> Ordered(ifq, hdr))'
BY ControlFirstMeans, PTL

LEMMA OrderedSame ==
    ASSUME NEW q, NEW h1, NEW h2, \A p \in Range(q) : h2[p] = h1[p], Ordered(q, h1)
    PROVE  Ordered(q, h2)
BY DEF Ordered, Range

LEMMA HeadersTyped ==
    /\ Blank \in Headers
    /\ \A h \in ControlHeaders : h \in Headers
    /\ \A d \in Dest, h \in Neighbor \cup {NoHop} : Header("data", d, h) \in Headers
BY ZeroAssumption, LimitAssumption
DEF Headers, Header, Blank, ControlHeaders

(* Headers of packets that get a next hop, and are counted as salvaged. *)
LEMMA HopSet ==
    ASSUME NEW x \in Headers, NEW h \in Neighbor
    PROVE  [x EXCEPT !.hop = h] \in Headers
<1>1. CASE x \in [type : {"data"}, dst : Dest, hop : Neighbor \cup {NoHop},
                  salvaged : 0 .. MaxSalvage]
  BY <1>1 DEF Headers
<1>2. CASE x \in [type : {"none", "RREP", "RREQ", "RERR"}, dst : {NoDest},
                  hop : Neighbor \cup {NoHop}, salvaged : {0}]
  BY <1>2 DEF Headers
<1> QED
  BY <1>1, <1>2 DEF Headers

LEMMA DataHeader ==
    ASSUME NEW x \in Headers, x.type = "data"
    PROVE  x.dst \in Dest /\ x.salvaged \in 0 .. MaxSalvage
BY DEF Headers

LEMMA SalvageCounted ==
    ASSUME NEW x \in Headers, x.type = "data", NEW h \in Neighbor,
           NEW n \in 0 .. MaxSalvage
    PROVE  [x EXCEPT !.hop = h, !.salvaged = n] \in Headers
<1>1. x \in [type : {"data"}, dst : Dest, hop : Neighbor \cup {NoHop},
             salvaged : 0 .. MaxSalvage]
  BY DEF Headers
<1> QED
  BY <1>1 DEF Headers

LEMMA FreedHeaders ==
    ASSUME NEW S, NEW headers \in [Packet -> Headers], Freed(S, headers)
    PROVE  /\ free' = free \cup S
           /\ hdr' \in [Packet -> Headers]
           /\ \A p \in Packet : p \notin S => hdr'[p] = headers[p]
BY HeadersTyped DEF Freed

(* What TypeOK says of the lists. *)
LEMMA ListTypes ==
    ASSUME TypeOK
    PROVE  /\ hdr \in [Packet -> Headers]
           /\ free \subseteq Packet /\ sched \subseteq Packet
           /\ buf \in Seq(Packet) /\ Range(buf) \subseteq Packet
           /\ ifq \in Seq(Packet) /\ Range(ifq) \subseteq Packet
           /\ mac \in Packet \cup {NULL} /\ purged \subseteq Packet
BY RangeOfSeq DEF TypeOK, Headers

LEMMA EmptyList ==
    ASSUME NEW S
    PROVE  /\ << >> \in Seq(S) /\ Len(<< >>) = 0
           /\ IsInjective(<< >>) /\ Range(<< >>) = {}
           /\ \A h : Ordered(<< >>, h)
BY DEF IsInjective, Range, Ordered

LEMMA InitIInv == Init => IInv
<1> SUFFICES ASSUME Init PROVE IInv
  OBVIOUS
<1>1. /\ hdr = [p \in Packet |-> Blank] /\ free = Packet /\ buf = << >>
      /\ sched = {} /\ ifq = << >> /\ mac = NULL /\ purged = {}
  BY DEF Init
<1>2. hdr \in [Packet -> Headers]
  BY <1>1, HeadersTyped
<1>3. TypeOK
  BY <1>1, <1>2, EmptyList, LimitAssumption DEF TypeOK, Headers
<1>4. OneList
  BY <1>1, EmptyList, NullAssumption DEF OneList, Divided
<1>5. WorkConserving
  BY <1>1, EmptyList, LimitAssumption DEF WorkConserving
<1>6. ControlFirst
  BY <1>1, EmptyList, ControlFirstMeans
<1> QED
  BY <1>3, <1>4, <1>5, <1>6 DEF IInv

(* A step that leaves the interface queue, its headers and the link layer  *)
(* alone only has to keep the lists apart.                                 *)
LEMMA QueueUntouched ==
    ASSUME IInv, ifq' = ifq, mac' = mac, \A p \in Range(ifq) : hdr'[p] = hdr[p],
           hdr' \in [Packet -> Headers],
           free' \subseteq Packet, sched' \subseteq Packet, purged' \subseteq Packet,
           buf' \in Seq(Packet), Len(buf') <= BufferLimit, IsInjective(buf'),
           Divided(purged', free', sched', Range(buf'), Range(ifq), mac)
    PROVE  IInv'
<1>1. TypeOK'
  BY DEF IInv, TypeOK, Headers
<1>2. OneList'
  BY DEF IInv, OneList
<1>3. WorkConserving'
  BY DEF IInv, WorkConserving
<1>4. ControlFirst'
  <2>1. Ordered(ifq, hdr)
    BY ControlFirstMeans DEF IInv
  <2>2. Ordered(ifq, hdr')
    BY <2>1, OrderedSame
  <2> QED
    BY <2>2, ControlFirstMeansAfter
<1> QED
  BY <1>1, <1>2, <1>3, <1>4 DEF IInv

---------------------------------------------------------------------------
(* The steps of the agent. *)

(* A new packet is sent. *)
LEMMA SentKeeps ==
    ASSUME IInv, NEW p \in free, NEW h \in Headers,
           free' = free \ {p}, hdr' = [hdr EXCEPT ![p] = h],
           sched' = sched \cup {p}, UNCHANGED <<buf, ifq, mac, purged>>
    PROVE  IInv'
<1>1. TypeOK /\ OneList
  BY DEF IInv
<1>2. p \in Packet /\ p \notin Range(ifq)
  BY <1>1, ListTypes DEF OneList, Divided
<1>3. /\ hdr' \in [Packet -> Headers]
      /\ \A x \in Range(ifq) : hdr'[x] = hdr[x]
  BY <1>1, <1>2, ListTypes
<1>4. Divided(purged', free', sched', Range(buf), Range(ifq), mac)
  BY <1>1, <1>2 DEF OneList, Divided
<1>5. free' \subseteq Packet /\ sched' \subseteq Packet /\ purged' \subseteq Packet
  BY <1>1, <1>2, ListTypes
<1>6. buf' \in Seq(Packet) /\ Len(buf') <= BufferLimit /\ IsInjective(buf')
  BY <1>1 DEF TypeOK, OneList
<1> QED
  BY <1>3, <1>4, <1>5, <1>6, QueueUntouched

LEMMA SendControlKeeps == IInv /\ SendControl => IInv'
<1> SUFFICES ASSUME IInv, SendControl PROVE IInv'
  OBVIOUS
<1>1. PICK p \in free, h \in ControlHeaders :
        /\ free' = free \ {p}
        /\ hdr' = [hdr EXCEPT ![p] = h]
        /\ sched' = sched \cup {p}
        /\ UNCHANGED <<buf, ifq, mac, purged>>
  BY DEF SendControl
<1> QED
  BY <1>1, HeadersTyped, SentKeeps

LEMMA ForwardDataKeeps == IInv /\ ForwardData => IInv'
<1> SUFFICES ASSUME IInv, ForwardData PROVE IInv'
  OBVIOUS
<1>1. PICK p \in free, d \in Dest, h \in Neighbor, k \in 0 .. MaxSalvage :
        /\ free' = free \ {p}
        /\ hdr' = [hdr EXCEPT ![p] = [Header("data", d, h) EXCEPT !.salvaged = k]]
        /\ sched' = sched \cup {p}
        /\ UNCHANGED <<buf, ifq, mac, purged>>
  BY DEF ForwardData
<1>2. [Header("data", d, h) EXCEPT !.salvaged = k] \in Headers
  BY DEF Header, Headers
<1> QED
  BY <1>1, <1>2, SentKeeps

(* What becomes of the packets of the send buffer when purge forgets the   *)
(* The send buffer after purge(k) in two: what is taken from the positions *)
(* of W and the rest.                                                      *)
Parts(k, W, out, rest) ==
    /\ k \in 0 .. Len(buf)
    /\ W \in SUBSET After(k)
    /\ out = {buf[i] : i \in W}
    /\ rest = At(buf, After(k) \ W)

(* first k and those at the positions of W are taken out.                  *)
LEMMA BufferSplits ==
    ASSUME IInv, NEW k, NEW W, NEW out, NEW rest, Purge(k), Parts(k, W, out, rest)
    PROVE  /\ rest \in Seq(Packet) /\ Len(rest) <= BufferLimit /\ IsInjective(rest)
           /\ out \subseteq Range(buf) /\ purged' \subseteq Packet
           /\ \A p \in Packet : p \in purged' <=>
                  p \in purged \/ (p \in Range(buf) /\ p \notin out /\ p \notin Range(rest))
           /\ \A p \in Range(rest) : p \in Range(buf) /\ p \notin out
<1> DEFINE n == Len(buf)
           I == After(k) \ W
<1>0. /\ k \in 0 .. Len(buf) /\ W \in SUBSET After(k)
      /\ out = {buf[i] : i \in W} /\ rest = At(buf, After(k) \ W)
  BY DEF Parts
<1>1. /\ buf \in Seq(Packet) /\ IsInjective(buf) /\ n \in Nat /\ n <= BufferLimit
      /\ DOMAIN buf = 1 .. n /\ Range(buf) \subseteq Packet /\ purged \subseteq Packet
  BY ListTypes, LenProperties DEF IInv, TypeOK, OneList
<1>2. /\ After(k) = k + 1 .. n /\ k \in Nat /\ k <= n
      /\ purged' = purged \cup {buf[i] : i \in 1 .. k}
  BY <1>0, <1>1 DEF After, Purge
<1>3. /\ I \subseteq DOMAIN buf /\ W \subseteq DOMAIN buf /\ 1 .. k \subseteq DOMAIN buf
      /\ \A i \in DOMAIN buf : i \in I \/ i \in W \/ i \in 1 .. k
      /\ \A i \in I : i \notin W /\ i \notin 1 .. k
      /\ \A i \in W : i \notin 1 .. k
  BY <1>0, <1>1, <1>2
<1> HIDE DEF I, n
<1>4. /\ rest \in Seq(Packet) /\ Len(rest) <= n /\ Subsequence(rest, buf)
      /\ Range(rest) = {buf[i] : i \in I}
  BY <1>0, <1>1, <1>3, AtProperties DEF I, n
<1>5. IsInjective(rest) /\ Len(rest) <= BufferLimit
  <2>1. Len(rest) \in Nat
    BY <1>4, LenProperties
  <2> QED
    BY <1>1, <1>4, <2>1, SubsequenceKeeps, LimitAssumption
<1>6. out \subseteq Range(buf) /\ purged' \subseteq Packet
  BY <1>0, <1>1, <1>2, <1>3 DEF Range
<1>7. \A i, j \in DOMAIN buf : buf[i] = buf[j] => i = j
  BY <1>1 DEF IsInjective
<1>8. ASSUME NEW i \in DOMAIN buf
      PROVE  /\ buf[i] \in out <=> i \in W
             /\ buf[i] \in Range(rest) <=> i \in I
             /\ buf[i] \in {buf[j] : j \in 1 .. k} <=> i \in 1 .. k
  BY <1>0, <1>3, <1>4, <1>7
<1>9. ASSUME NEW p \in Packet
      PROVE  p \in {buf[j] : j \in 1 .. k}
                <=> p \in Range(buf) /\ p \notin out /\ p \notin Range(rest)
  <2>1. CASE p \in Range(buf)
    <3>1. PICK i \in DOMAIN buf : p = buf[i]
      BY <2>1 DEF Range
    <3> QED
      BY <1>3, <1>8, <2>1, <3>1
  <2>2. CASE p \notin Range(buf)
    BY <1>3, <2>2 DEF Range
  <2> QED
    BY <2>1, <2>2
<1>10. ASSUME NEW p \in Range(rest) PROVE p \in Range(buf) /\ p \notin out
  <2>1. PICK i \in I : p = buf[i]
    BY <1>4
  <2> QED
    BY <1>3, <1>8, <2>1 DEF Range
<1> QED
  BY <1>2, <1>4, <1>5, <1>6, <1>9, <1>10

(* The send buffer forgets aged packets and makes room at its head. *)
LEMMA BufferDataKeeps == IInv /\ BufferData => IInv'
<1> SUFFICES ASSUME IInv, BufferData PROVE IInv'
  OBVIOUS
<1>1. PICK p \in free, d \in Dest, k \in 0 .. Len(buf) :
        LET kept == At(buf, After(k))
            full == Len(kept) = BufferLimit
            out == IF full THEN {Head(kept)} ELSE {}
        IN  /\ Purge(k)
            /\ free' = (free \ {p}) \cup out
            /\ hdr' = [x \in Packet |-> IF x = p THEN Header("data", d, NoHop)
                                        ELSE IF x \in out THEN Blank
                                        ELSE hdr[x]]
            /\ buf' = Append(IF full THEN Tail(kept) ELSE kept, p)
            /\ UNCHANGED <<sched, ifq, mac>>
  BY DEF BufferData
<1> DEFINE kept == At(buf, After(k))
           full == Len(kept) = BufferLimit
           out == IF full THEN {Head(kept)} ELSE {}
           rest == IF full THEN Tail(kept) ELSE kept
<1>2. TypeOK /\ OneList
  BY DEF IInv
<1>3. /\ p \in Packet /\ p \notin Range(buf) /\ p \notin Range(ifq)
      /\ p \notin purged
  BY <1>2, ListTypes DEF OneList, Divided
<1>4. /\ kept \in Seq(Packet) /\ Len(kept) <= BufferLimit /\ IsInjective(kept)
      /\ purged' \subseteq Packet
      /\ \A x \in Packet : x \in purged' <=>
             x \in purged \/ (x \in Range(buf) /\ x \notin Range(kept))
      /\ \A x \in Range(kept) : x \in Range(buf)
  <2> DEFINE W == {}
             none == {buf[i] : i \in W}
  <2>1. Purge(k) /\ W \in SUBSET After(k) /\ After(k) \ W = After(k) /\ none = {}
    BY <1>1
  <2> HIDE DEF W, none
  <2>2. kept = At(buf, After(k) \ W)
    BY <2>1
  <2> HIDE DEF kept
  <2>3. Parts(k, W, none, kept)
    BY <2>1, <2>2 DEF none, Parts
  <2>4. /\ kept \in Seq(Packet) /\ Len(kept) <= BufferLimit /\ IsInjective(kept)
        /\ purged' \subseteq Packet
        /\ \A x \in Packet : x \in purged' <=>
               x \in purged \/ (x \in Range(buf) /\ x \notin none /\ x \notin Range(kept))
        /\ \A x \in Range(kept) : x \in Range(buf) /\ x \notin none
    BY <2>1, <2>3, BufferSplits
  <2> QED
    BY <2>1, <2>4
<1>5. /\ free' = (free \ {p}) \cup out
      /\ hdr' = [x \in Packet |-> IF x = p THEN Header("data", d, NoHop)
                                  ELSE IF x \in out THEN Blank
                                  ELSE hdr[x]]
      /\ buf' = Append(rest, p)
      /\ UNCHANGED <<sched, ifq, mac>>
  BY <1>1
<1> HIDE DEF kept
<1>6. /\ rest \in Seq(Packet) /\ Len(rest) < BufferLimit /\ IsInjective(rest)
      /\ out \subseteq Range(kept) /\ Range(rest) = Range(kept) \ out
  <2>1. Len(kept) \in Nat
    BY <1>4, LenProperties
  <2>2. CASE full
    <3>1. kept # << >>
      BY <2>1, <2>2, EmptyList, LimitAssumption
    <3>2. /\ Head(kept) \in Range(kept) /\ Tail(kept) \in Seq(Packet)
          /\ Len(Tail(kept)) = Len(kept) - 1
          /\ Subsequence(Tail(kept), kept)
          /\ Range(Tail(kept)) = Range(kept) \ {Head(kept)}
      BY <1>4, <3>1, TailList
    <3>3. IsInjective(Tail(kept))
      BY <1>4, <3>2, SubsequenceKeeps
    <3>4. Len(Tail(kept)) < BufferLimit
      BY <2>1, <2>2, <3>2, LimitAssumption
    <3> QED
      BY <2>2, <3>2, <3>3, <3>4
  <2>3. CASE ~ full
    BY <1>4, <2>1, <2>3, LimitAssumption
  <2> QED
    BY <2>2, <2>3
<1> HIDE DEF out, rest
<1>7. /\ buf' \in Seq(Packet) /\ Len(buf') <= BufferLimit
      /\ IsInjective(buf') /\ Range(buf') = Range(rest) \cup {p}
  <2>1. p \notin Range(rest)
    BY <1>3, <1>4, <1>6
  <2>2. /\ buf' \in Seq(Packet) /\ Len(buf') = Len(rest) + 1
        /\ IsInjective(buf') /\ Range(buf') = Range(rest) \cup {p}
    BY <1>3, <1>5, <1>6, <2>1, AppendList
  <2>3. Len(rest) \in Nat
    BY <1>6, LenProperties
  <2> QED
    BY <1>6, <2>2, <2>3, LimitAssumption
<1>8. out \subseteq Packet /\ out \cap Range(ifq) = {} /\ out \cap purged' = {}
  BY <1>2, <1>4, <1>6, ListTypes DEF OneList, Divided
<1>9. Divided(purged', free', sched', Range(buf'), Range(ifq), mac)
  BY <1>2, <1>3, <1>4, <1>5, <1>6, <1>7, <1>8, ListTypes DEF OneList, Divided
<1>10. /\ hdr' \in [Packet -> Headers]
       /\ \A x \in Range(ifq) : hdr'[x] = hdr[x]
  BY <1>2, <1>3, <1>5, <1>8, ListTypes, HeadersTyped
<1>11. free' \subseteq Packet /\ sched' \subseteq Packet
  BY <1>2, <1>5, <1>8, ListTypes
<1> QED
  BY <1>4, <1>5, <1>7, <1>9, <1>10, <1>11, QueueUntouched

LEMMA FlushBufferKeeps ==
    ASSUME NEW d \in Dest
    PROVE  IInv /\ FlushBuffer(d) => IInv'
<1> SUFFICES ASSUME IInv, FlushBuffer(d) PROVE IInv'
  OBVIOUS
<1>1. PICK h \in Neighbor, k \in 0 .. Len(buf) :
        LET out == {buf[i] : i \in Waiting(d, k)}
        IN  /\ Purge(k)
            /\ hdr' = [p \in Packet |-> IF p \in out THEN [hdr[p] EXCEPT !.hop = h]
                                        ELSE hdr[p]]
            /\ sched' = sched \cup out
            /\ buf' = At(buf, After(k) \ Waiting(d, k))
            /\ UNCHANGED <<free, ifq, mac>>
  BY DEF FlushBuffer
<1> DEFINE W == Waiting(d, k)
           out == {buf[i] : i \in W}
<1>2. TypeOK /\ OneList
  BY DEF IInv
<1>3. /\ Purge(k) /\ W \in SUBSET After(k) /\ sched' = sched \cup out
      /\ hdr' = [p \in Packet |-> IF p \in out THEN [hdr[p] EXCEPT !.hop = h]
                                  ELSE hdr[p]]
      /\ buf' = At(buf, After(k) \ W) /\ UNCHANGED <<free, ifq, mac>>
  BY <1>1 DEF Waiting
<1> HIDE DEF W
<1> DEFINE left == At(buf, After(k) \ W)
<1>4. Parts(k, W, out, left) /\ buf' = left
  BY <1>3 DEF Parts
<1> HIDE DEF out, left
<1>5. /\ buf' \in Seq(Packet) /\ Len(buf') <= BufferLimit /\ IsInjective(buf')
      /\ out \subseteq Range(buf) /\ purged' \subseteq Packet
      /\ \A p \in Packet : p \in purged' <=>
             p \in purged \/ (p \in Range(buf) /\ p \notin out /\ p \notin Range(buf'))
      /\ \A p \in Range(buf') : p \in Range(buf) /\ p \notin out
  <2>1. Purge(k) /\ Parts(k, W, out, left)
    BY <1>3, <1>4
  <2>2. /\ left \in Seq(Packet) /\ Len(left) <= BufferLimit /\ IsInjective(left)
        /\ out \subseteq Range(buf) /\ purged' \subseteq Packet
        /\ \A p \in Packet : p \in purged' <=>
               p \in purged \/ (p \in Range(buf) /\ p \notin out /\ p \notin Range(left))
        /\ \A p \in Range(left) : p \in Range(buf) /\ p \notin out
    BY <2>1, BufferSplits
  <2> QED
    BY <1>4, <2>2
<1>6. /\ hdr' \in [Packet -> Headers]
      /\ \A x \in Range(ifq) : hdr'[x] = hdr[x]
  <2>1. \A p \in Packet : hdr[p] \in Headers /\ [hdr[p] EXCEPT !.hop = h] \in Headers
    BY <1>2, ListTypes, HopSet
  <2>2. \A x \in Range(ifq) : x \in Packet /\ x \notin out
    BY <1>2, <1>5, ListTypes DEF OneList, Divided
  <2> QED
    BY <1>3, <2>1, <2>2
<1>7. Divided(purged', free', sched', Range(buf'), Range(ifq), mac)
  BY <1>2, <1>3, <1>5, ListTypes DEF OneList, Divided
<1>8. free' \subseteq Packet /\ sched' \subseteq Packet
  BY <1>2, <1>3, <1>5, ListTypes
<1> QED
  BY <1>3, <1>5, <1>6, <1>7, <1>8, QueueUntouched

LEMMA DropBufferKeeps ==
    ASSUME NEW d \in Dest
    PROVE  IInv /\ DropBuffer(d) => IInv'
<1> SUFFICES ASSUME IInv, DropBuffer(d) PROVE IInv'
  OBVIOUS
<1>1. PICK k \in 0 .. Len(buf) :
        /\ Purge(k)
        /\ Freed({buf[i] : i \in Waiting(d, k)}, hdr)
        /\ buf' = At(buf, After(k) \ Waiting(d, k))
        /\ UNCHANGED <<sched, ifq, mac>>
  BY DEF DropBuffer
<1> DEFINE W == Waiting(d, k)
           out == {buf[i] : i \in W}
<1>2. TypeOK /\ OneList
  BY DEF IInv
<1>3. /\ Purge(k) /\ W \in SUBSET After(k) /\ Freed(out, hdr)
      /\ buf' = At(buf, After(k) \ W) /\ UNCHANGED <<sched, ifq, mac>>
  BY <1>1 DEF Waiting
<1> HIDE DEF W
<1> DEFINE left == At(buf, After(k) \ W)
<1>4. Parts(k, W, out, left) /\ buf' = left
  BY <1>3 DEF Parts
<1> HIDE DEF out, left
<1>5. /\ buf' \in Seq(Packet) /\ Len(buf') <= BufferLimit /\ IsInjective(buf')
      /\ out \subseteq Range(buf) /\ purged' \subseteq Packet
      /\ \A p \in Packet : p \in purged' <=>
             p \in purged \/ (p \in Range(buf) /\ p \notin out /\ p \notin Range(buf'))
      /\ \A p \in Range(buf') : p \in Range(buf) /\ p \notin out
  <2>1. Purge(k) /\ Parts(k, W, out, left)
    BY <1>3, <1>4
  <2>2. /\ left \in Seq(Packet) /\ Len(left) <= BufferLimit /\ IsInjective(left)
        /\ out \subseteq Range(buf) /\ purged' \subseteq Packet
        /\ \A p \in Packet : p \in purged' <=>
               p \in purged \/ (p \in Range(buf) /\ p \notin out /\ p \notin Range(left))
        /\ \A p \in Range(left) : p \in Range(buf) /\ p \notin out
    BY <2>1, BufferSplits
  <2> QED
    BY <1>4, <2>2
<1>6. /\ free' = free \cup out
      /\ hdr' \in [Packet -> Headers]
      /\ \A p \in Packet : p \notin out => hdr'[p] = hdr[p]
  BY <1>2, <1>3, ListTypes, FreedHeaders
<1>7. \A x \in Range(ifq) : hdr'[x] = hdr[x]
  BY <1>2, <1>5, <1>6, ListTypes DEF OneList, Divided
<1>8. Divided(purged', free', sched', Range(buf'), Range(ifq), mac)
  BY <1>2, <1>3, <1>5, <1>6, ListTypes DEF OneList, Divided
<1>9. free' \subseteq Packet /\ sched' \subseteq Packet
  BY <1>2, <1>3, <1>5, <1>6, ListTypes
<1> QED
  BY <1>3, <1>5, <1>6, <1>7, <1>8, <1>9, QueueUntouched

---------------------------------------------------------------------------
(* The steps of the interface queue. *)

(* A step that leaves part of the queue, in its order.  Only packets that  *)
(* are no longer queued may get other headers.                             *)
LEMMA QueueShrinks ==
    ASSUME IInv, ifq' \in Seq(Packet), Subsequence(ifq', ifq), Len(ifq') <= Len(ifq),
           \A p \in Range(ifq') : hdr'[p] = hdr[p],
           hdr' \in [Packet -> Headers],
           mac' \in Packet \cup {NULL}, ifq' # << >> => mac' # NULL,
           free' \subseteq Packet, sched' \subseteq Packet, buf' = buf,
           purged' = purged,
           Divided(purged, free', sched', Range(buf), Range(ifq'), mac')
    PROVE  IInv'
<1>1. ifq \in Seq(Packet) /\ Len(ifq) \in Nat /\ Len(ifq') \in Nat
  BY LenProperties DEF IInv, TypeOK
<1>2. /\ IsInjective(ifq')
      /\ Ordered(ifq, hdr) => Ordered(ifq', hdr)
  BY <1>1, SubsequenceKeeps DEF IInv, OneList
<1>3. TypeOK'
  BY DEF IInv, TypeOK, Headers
<1>4. OneList'
  BY <1>2 DEF IInv, OneList
<1>5. WorkConserving'
  BY <1>1, LimitAssumption DEF IInv, WorkConserving
<1>6. ControlFirst'
  <2>1. Ordered(ifq', hdr)
    BY <1>2, ControlFirstMeans DEF IInv
  <2>2. Ordered(ifq', hdr')
    BY <2>1, OrderedSame
  <2> QED
    BY <2>2, ControlFirstMeansAfter
<1> QED
  BY <1>3, <1>4, <1>5, <1>6 DEF IInv

(* filter takes out what is addressed to id and leaves the rest in place.  *)
LEMMA FilterSplits ==
    ASSUME TypeOK, NEW id
    PROVE  /\ filter(ifq, id).out \subseteq Range(ifq)
           /\ filter(ifq, id).left \in Seq(Packet)
           /\ Len(filter(ifq, id).left) <= Len(ifq)
           /\ Subsequence(filter(ifq, id).left, ifq)
           /\ Range(filter(ifq, id).left) = Range(ifq) \ filter(ifq, id).out
<1> DEFINE I == {i \in DOMAIN ifq : hdr[ifq[i]].hop # id}
           out == {p \in Range(ifq) : hdr[p].hop = id}
<1>1. filter(ifq, id).out = out /\ filter(ifq, id).left = At(ifq, I)
  BY DEF filter
<1>2. /\ At(ifq, I) \in Seq(Packet) /\ Len(At(ifq, I)) <= Len(ifq)
      /\ Subsequence(At(ifq, I), ifq)
      /\ Range(At(ifq, I)) = {ifq[i] : i \in I}
  <2>1. ifq \in Seq(Packet) /\ I \in SUBSET (DOMAIN ifq)
    BY DEF TypeOK
  <2> HIDE DEF I
  <2> QED
    BY <2>1, AtProperties
<1>3. {ifq[i] : i \in I} = Range(ifq) \ out
  BY DEF Range
<1> QED
  BY <1>1, <1>2, <1>3

LEMMA NbDeleteKeeps ==
    ASSUME NEW id \in Neighbor
    PROVE  IInv /\ NbDelete(id) => IInv'
<1> SUFFICES ASSUME IInv, NbDelete(id) PROVE IInv'
  OBVIOUS
<1> DEFINE out == filter(ifq, id).out
           Saved(route) == {p \in out : /\ Data(p)
                                        /\ route[hdr[p].dst] # NoHop
                                        /\ hdr[p].salvaged < MaxSalvage}
<1>1. PICK route \in Routes(id) :
        /\ Freed(out \ Saved(route), Salvaged(Saved(route), route))
        /\ sched' = sched \cup Saved(route)
        /\ ifq' = filter(ifq, id).left
        /\ UNCHANGED <<buf, mac, purged>>
  BY DEF NbDelete
<1> DEFINE saved == Saved(route)
           headers == Salvaged(saved, route)
<1>2. TypeOK /\ OneList
  BY DEF IInv
<1>3. /\ out \subseteq Range(ifq) /\ ifq' \in Seq(Packet) /\ Len(ifq') <= Len(ifq)
      /\ Subsequence(ifq', ifq) /\ Range(ifq') = Range(ifq) \ out
  BY <1>1, <1>2, FilterSplits
<1>4. out \subseteq Packet
  BY <1>2, <1>3, ListTypes
<1> HIDE DEF out
<1>5. headers \in [Packet -> Headers]
  <2> DEFINE Again(p) == [hdr[p] EXCEPT !.hop = route[hdr[p].dst], !.salvaged = @ + 1]
  <2>1. ASSUME NEW p \in saved
        PROVE  Again(p) \in Headers
    <3> DEFINE x == hdr[p]
               n == x.salvaged + 1
               h == route[x.dst]
    <3>1. x \in Headers /\ x.type = "data" /\ x.salvaged < MaxSalvage /\ h # NoHop
      BY <1>2, <1>4, <2>1, ListTypes DEF Data
    <3>2. x.dst \in Dest /\ n \in 0 .. MaxSalvage
      <4>1. x.dst \in Dest /\ x.salvaged \in 0 .. MaxSalvage
        BY <3>1, DataHeader
      <4> QED
        BY <3>1, <4>1, LimitAssumption
    <3>3. h \in Neighbor
      BY <3>1, <3>2 DEF Routes
    <3>4. Again(p) = [x EXCEPT !.hop = h, !.salvaged = n]
      OBVIOUS
    <3>5. [x EXCEPT !.hop = h, !.salvaged = n] \in Headers
      <4> HIDE DEF x, n, h
      <4> QED
        BY <3>1, <3>2, <3>3, SalvageCounted
    <3> QED
      BY <3>4, <3>5
  <2>2. \A p \in Packet : hdr[p] \in Headers
    BY <1>2, ListTypes
  <2>3. headers = [p \in Packet |-> IF p \in saved THEN Again(p) ELSE hdr[p]]
    BY DEF Salvaged
  <2> HIDE DEF saved, Again, headers
  <2> QED
    BY <2>1, <2>2, <2>3
<1>6. saved \subseteq out /\ \A p \in Packet : p \notin out => headers[p] = hdr[p]
  BY DEF Salvaged
<1>7. Freed(out \ saved, headers) /\ sched' = sched \cup saved
  BY <1>1
<1> HIDE DEF saved, headers
<1>8. /\ free' = free \cup (out \ saved)
      /\ hdr' \in [Packet -> Headers]
      /\ \A p \in Packet : p \notin out \ saved => hdr'[p] = headers[p]
  BY <1>5, <1>7, FreedHeaders
<1>9. \A p \in Range(ifq') : hdr'[p] = hdr[p]
  BY <1>2, <1>3, <1>6, <1>8, ListTypes
<1>10. Divided(purged, free', sched', Range(buf), Range(ifq'), mac')
  BY <1>1, <1>2, <1>3, <1>6, <1>7, <1>8 DEF OneList, Divided
<1>11. free' \subseteq Packet /\ sched' \subseteq Packet
  BY <1>2, <1>4, <1>6, <1>7, <1>8, ListTypes
<1>12. ifq' # << >> => mac' # NULL
  <2>1. ifq = << >> => ifq' = << >>
    <3> SUFFICES ASSUME ifq = << >> PROVE ifq' = << >>
      OBVIOUS
    <3>1. Len(ifq') = 0
      BY <1>3, EmptyList, LenProperties
    <3> QED
      BY <1>3, <3>1, EmptySeq
  <2> QED
    BY <1>1, <2>1 DEF IInv, WorkConserving
<1>13. mac' \in Packet \cup {NULL} /\ buf' = buf /\ purged' = purged
  BY <1>1, <1>2 DEF TypeOK
<1> QED
  BY <1>3, <1>8, <1>9, <1>10, <1>11, <1>12, <1>13, QueueShrinks

(* What an arrival makes of the queue: at most one packet is dropped, and  *)
(* when a routing packet is, no data was queued.                           *)
Arrived(p) == IF Control(p) THEN HighPriority(p) ELSE LowPriority(p)

LEMMA ArrivalFits ==
    ASSUME IInv, NEW p \in sched
    PROVE  /\ Arrived(p).q \in Seq(Packet) /\ IsInjective(Arrived(p).q)
           /\ Len(Arrived(p).q) < Limit
           /\ Arrived(p).out \subseteq Range(ifq) \cup {p}
           /\ Range(Arrived(p).q) = (Range(ifq) \cup {p}) \ Arrived(p).out
           /\ Ordered(Arrived(p).q, hdr)
           /\ \A x \in Arrived(p).out :
                 Control(x) => \A i \in DOMAIN ifq : Control(ifq[i])
<1>1. TypeOK /\ OneList /\ Ordered(ifq, hdr) /\ Len(ifq) < Limit
  BY ControlFirstMeans DEF IInv, WorkConserving
<1>2. /\ p \in Packet /\ p \notin Range(ifq) /\ IsInjective(ifq)
      /\ ifq \in Seq(Packet) /\ Len(ifq) \in Nat
  BY <1>1, ListTypes, LenProperties DEF OneList, Divided
<1>3. Control(p) <=> hdr[p].type \in RoutingTypes
  BY DEF Control, RoutingTypes
<1>4. CASE Control(p)
  <2> DEFINE q == <<p>> \o ifq
  <2>1. /\ q \in Seq(Packet) /\ Len(q) = Len(ifq) + 1 /\ IsInjective(q)
        /\ Range(q) = Range(ifq) \cup {p} /\ Ordered(q, hdr)
    BY <1>1, <1>2, <1>3, <1>4, PushList
  <2>2. Arrived(p) = IF Len(q) >= Limit THEN [q |-> Front(q), out |-> {Last(q)}]
                                        ELSE [q |-> q, out |-> {}]
    BY <1>4 DEF Arrived, HighPriority
  <2>3. Last(q) # p => \A i \in DOMAIN ifq : Control(Last(q)) => Control(ifq[i])
    <3> DEFINE n == Len(ifq)
    <3>1. DOMAIN ifq = 1 .. n
      BY <1>2, LenProperties
    <3>2. q[n + 1] = IF n = 0 THEN p ELSE ifq[n]
      <4>1. <<p>> \in Seq(Packet) /\ Len(<<p>>) = 1 /\ <<p>>[1] = p
        BY <1>2
      <4>2. q[n + 1] = IF n + 1 <= 1 THEN <<p>>[n + 1] ELSE ifq[n + 1 - 1]
        BY <1>2, <4>1, ConcatProperties
      <4> QED
        BY <1>2, <4>1, <4>2
    <3>3. Last(q) = q[n + 1]
      BY <2>1 DEF Last
    <3> HIDE DEF n, q
    <3> SUFFICES ASSUME Last(q) # p, NEW i \in DOMAIN ifq, Control(Last(q))
                 PROVE  Control(ifq[i])
      OBVIOUS
    <3>4. Last(q) = ifq[n] /\ n \in DOMAIN ifq
      BY <1>2, <3>1, <3>2, <3>3 DEF n
    <3>5. i < n \/ i = n
      BY <3>1, <3>4
    <3> QED
      BY <1>1, <3>4, <3>5 DEF Ordered, Control, RoutingTypes
  <2>4. Last(q) = p => ifq = << >>
    <3> SUFFICES ASSUME Last(q) = p, ifq # << >> PROVE FALSE
      OBVIOUS
    <3>1. Len(ifq) # 0
      BY <1>2, EmptySeq
    <3>2. /\ q[Len(ifq) + 1] = p /\ q[1] = p
          /\ 1 \in DOMAIN q /\ Len(ifq) + 1 \in DOMAIN q
      <4>1. q[Len(ifq) + 1] = p
        BY <2>1 DEF Last
      <4>2. <<p>> \in Seq(Packet) /\ Len(<<p>>) = 1 /\ <<p>>[1] = p
        BY <1>2
      <4>3. q[1] = p
        BY <1>2, <4>2, ConcatProperties
      <4>4. DOMAIN q = 1 .. Len(ifq) + 1
        BY <2>1, LenProperties
      <4> QED
        BY <1>2, <4>1, <4>3, <4>4
    <3>3. Len(ifq) + 1 = 1
      BY <2>1, <3>2 DEF IsInjective
    <3> QED
      BY <1>2, <3>1, <3>3
  <2> HIDE DEF q
  <2>5. CASE Len(q) >= Limit
    <3>1. q # << >>
      BY <1>2, <2>1, EmptyList
    <3>2. /\ Last(q) \in Range(q) /\ Front(q) \in Seq(Packet)
          /\ Len(Front(q)) = Len(q) - 1
          /\ Subsequence(Front(q), q)
          /\ Range(Front(q)) = Range(q) \ {Last(q)}
      BY <2>1, <3>1, FrontList
    <3>3. IsInjective(Front(q)) /\ Ordered(Front(q), hdr)
      BY <2>1, <3>2, SubsequenceKeeps
    <3>4. Len(Front(q)) < Limit
      BY <1>1, <1>2, <2>1, <3>2
    <3>5. Arrived(p).q = Front(q) /\ Arrived(p).out = {Last(q)}
      BY <2>2, <2>5
    <3>6. ASSUME Control(Last(q)), NEW i \in DOMAIN ifq PROVE Control(ifq[i])
      <4>1. CASE Last(q) = p
        BY <2>4, <4>1, <3>6
      <4>2. CASE Last(q) # p
        BY <2>3, <3>6, <4>2
      <4> QED
        BY <4>1, <4>2
    <3> QED
      BY <2>1, <3>2, <3>3, <3>4, <3>5, <3>6
  <2>6. CASE ~ (Len(q) >= Limit)
    <3>1. Arrived(p).q = q /\ Arrived(p).out = {}
      BY <2>2, <2>6
    <3>2. Len(q) < Limit
      BY <1>2, <2>1, <2>6, LimitAssumption
    <3> QED
      BY <2>1, <3>1, <3>2
  <2> QED
    BY <2>5, <2>6
<1>5. CASE ~ Control(p)
  <2>1. Arrived(p) = IF Len(ifq) + 1 >= Limit THEN [q |-> ifq, out |-> {p}]
                                              ELSE [q |-> Append(ifq, p), out |-> {}]
    BY <1>5 DEF Arrived, LowPriority
  <2>2. CASE Len(ifq) + 1 >= Limit
    <3>1. Arrived(p).q = ifq /\ Arrived(p).out = {p}
      BY <2>1, <2>2
    <3>2. Range(ifq) = (Range(ifq) \cup {p}) \ {p}
      BY <1>2
    <3> QED
      BY <1>1, <1>2, <1>5, <3>1, <3>2
  <2>3. CASE ~ (Len(ifq) + 1 >= Limit)
    <3>1. Arrived(p).q = Append(ifq, p) /\ Arrived(p).out = {}
      BY <2>1, <2>3
    <3>2. /\ Append(ifq, p) \in Seq(Packet) /\ Len(Append(ifq, p)) = Len(ifq) + 1
          /\ IsInjective(Append(ifq, p))
          /\ Range(Append(ifq, p)) = Range(ifq) \cup {p}
          /\ Ordered(Append(ifq, p), hdr)
      BY <1>1, <1>2, <1>3, <1>5, AppendList
    <3>3. Len(Append(ifq, p)) < Limit
      BY <1>2, <2>3, <3>2, LimitAssumption
    <3> QED
      BY <3>1, <3>2, <3>3
  <2> QED
    BY <2>2, <2>3
<1> QED
  BY <1>4, <1>5

(* Handing the head down to an idle link layer. *)
LEMMA HandedDown ==
    ASSUME NEW q \in Seq(Packet), q # << >>, IsInjective(q)
    PROVE  /\ Head(q) \in Range(q) /\ Head(q) \in Packet /\ Head(q) # NULL
           /\ Tail(q) \in Seq(Packet) /\ Len(Tail(q)) < Len(q)
           /\ IsInjective(Tail(q)) /\ Subsequence(Tail(q), q)
           /\ Range(Tail(q)) = Range(q) \ {Head(q)}
<1>1. /\ Head(q) \in Range(q) /\ Tail(q) \in Seq(Packet)
      /\ Len(Tail(q)) = Len(q) - 1
      /\ Subsequence(Tail(q), q)
      /\ Range(Tail(q)) = Range(q) \ {Head(q)}
  BY TailList
<1>2. IsInjective(Tail(q))
  BY <1>1, SubsequenceKeeps
<1>3. Head(q) \in Packet /\ Head(q) # NULL
  BY HeadTailProperties, NullAssumption
<1>4. Len(Tail(q)) < Len(q)
  <2>1. Len(q) \in Nat
    BY LenProperties
  <2> QED
    BY <1>1, <2>1
<1> QED
  BY <1>1, <1>2, <1>3, <1>4

(* An idle link layer takes a packet out of the queue, which stays as      *)
(* divided from the rest as it was.                                        *)
LEMMA DividedHandedDown ==
    ASSUME NEW G \in SUBSET Packet, NEW F \in SUBSET Packet, NEW S \in SUBSET Packet,
           NEW B \in SUBSET Packet, NEW Q \in SUBSET Packet, NEW m \in Q,
           Divided(G, F, S, B, Q, NULL)
    PROVE  Divided(G, F, S, B, Q \ {m}, m)
BY NullAssumption DEF Divided

(* recv: the queue q, with the arrival in it, is started. *)
LEMMA StartKeeps ==
    ASSUME IInv, NEW q \in Seq(Packet), IsInjective(q), Len(q) < Limit, Start(q),
           Ordered(q, hdr), \A p \in Range(q) : hdr'[p] = hdr[p],
           hdr' \in [Packet -> Headers],
           free' \subseteq Packet, sched' \subseteq Packet, buf' = buf,
           purged' = purged,
           Divided(purged, free', sched', Range(buf), Range(q), mac)
    PROVE  IInv'
<1>1. TypeOK /\ OneList
  BY DEF IInv
<1>2. Range(q) \subseteq Packet /\ Len(q) \in Nat /\ Range(buf) \subseteq Packet
      /\ purged \subseteq Packet
  BY <1>1, RangeOfSeq, LenProperties, ListTypes
<1>3. /\ ifq' \in Seq(Packet) /\ mac' \in Packet \cup {NULL}
      /\ IsInjective(ifq') /\ Len(ifq') < Limit /\ (ifq' # << >> => mac' # NULL)
      /\ Range(ifq') \subseteq Range(q) /\ Ordered(ifq', hdr)
      /\ Divided(purged, free', sched', Range(buf), Range(ifq'), mac')
  <2>1. CASE mac = NULL /\ q # << >>
    <3>1. mac' = Head(q) /\ ifq' = Tail(q)
      BY <2>1 DEF Start
    <3>2. /\ Head(q) \in Range(q) /\ Head(q) \in Packet /\ Head(q) # NULL
          /\ Tail(q) \in Seq(Packet) /\ Len(Tail(q)) < Len(q)
          /\ IsInjective(Tail(q)) /\ Subsequence(Tail(q), q)
          /\ Range(Tail(q)) = Range(q) \ {Head(q)}
      BY <2>1, HandedDown
    <3>3. Ordered(Tail(q), hdr)
      BY <3>2, SubsequenceKeeps
    <3>4. Divided(purged, free', sched', Range(buf), Range(q) \ {Head(q)}, Head(q))
      BY <1>2, <2>1, <3>2, DividedHandedDown
    <3>5. Len(Tail(q)) < Limit
      <4>1. Len(Tail(q)) \in Nat
        BY <3>2, LenProperties
      <4> QED
        BY <1>2, <3>2, <4>1, LimitAssumption
    <3>6. Range(Tail(q)) \subseteq Range(q)
      BY <3>2
    <3> QED
      BY <3>1, <3>2, <3>3, <3>4, <3>5, <3>6, Zenon
  <2>2. CASE ~ (mac = NULL /\ q # << >>)
    <3>1. mac' = mac /\ ifq' = q
      BY <2>2 DEF Start
    <3> QED
      BY <1>1, <2>2, <3>1, ListTypes
  <2> QED
    BY <2>1, <2>2
<1>4. Ordered(ifq', hdr')
  BY <1>3, OrderedSame
<1>5. TypeOK'
  BY <1>1, <1>3 DEF TypeOK, Headers
<1>6. OneList'
  BY <1>1, <1>3 DEF OneList
<1>7. WorkConserving' /\ ControlFirst'
  BY <1>3, <1>4, ControlFirstMeansAfter DEF WorkConserving
<1> QED
  BY <1>5, <1>6, <1>7 DEF IInv

LEMMA EnterKeeps ==
    ASSUME NEW p \in Packet
    PROVE  IInv /\ Enter(p) => IInv'
<1> SUFFICES ASSUME IInv, Enter(p) PROVE IInv'
  OBVIOUS
<1> DEFINE q == Arrived(p).q
           out == Arrived(p).out
<1>1. /\ p \in sched /\ sched' = sched \ {p} /\ Freed(out, hdr)
      /\ Start(q) /\ buf' = buf /\ purged' = purged
  BY DEF Enter, Arrived
<1>2. TypeOK /\ OneList
  BY DEF IInv
<1>3. /\ q \in Seq(Packet) /\ IsInjective(q) /\ Len(q) < Limit
      /\ out \subseteq Range(ifq) \cup {p}
      /\ Range(q) = (Range(ifq) \cup {p}) \ out
      /\ Ordered(q, hdr)
  BY <1>1, ArrivalFits
<1> HIDE DEF q, out
<1>4. /\ free' = free \cup out
      /\ hdr' \in [Packet -> Headers]
      /\ \A x \in Packet : x \notin out => hdr'[x] = hdr[x]
  BY <1>1, <1>2, ListTypes, FreedHeaders
<1>5. \A x \in Range(q) : hdr'[x] = hdr[x]
  BY <1>2, <1>3, <1>4, ListTypes
<1>6. free' \subseteq Packet /\ sched' \subseteq Packet
  BY <1>1, <1>2, <1>3, <1>4, ListTypes
<1>7. Divided(purged, free', sched', Range(buf), Range(q), mac)
  BY <1>1, <1>2, <1>3, <1>4 DEF OneList, Divided
<1> QED
  BY <1>1, <1>3, <1>4, <1>5, <1>6, <1>7, StartKeeps

LEMMA ResumeKeeps == IInv /\ Resume => IInv'
<1> SUFFICES ASSUME IInv, Resume PROVE IInv'
  OBVIOUS
<1>1. /\ mac # NULL /\ Freed({mac}, hdr)
      /\ mac' = IF ifq = << >> THEN NULL ELSE Head(ifq)
      /\ ifq' = IF ifq = << >> THEN ifq ELSE Tail(ifq)
      /\ buf' = buf /\ sched' = sched /\ purged' = purged
  BY DEF Resume
<1>2. TypeOK /\ OneList
  BY DEF IInv
<1>3. /\ mac \in Packet /\ ifq \in Seq(Packet) /\ IsInjective(ifq)
      /\ Len(ifq) \in Nat
  BY <1>1, <1>2, ListTypes, LenProperties DEF OneList
<1>4. /\ free' = free \cup {mac}
      /\ hdr' \in [Packet -> Headers]
      /\ \A x \in Packet : x \notin {mac} => hdr'[x] = hdr[x]
  BY <1>1, <1>2, ListTypes, FreedHeaders
<1>5. free' \subseteq Packet /\ sched' \subseteq Packet
  BY <1>1, <1>2, <1>3, <1>4, ListTypes
<1>6. \A x \in Range(ifq) : hdr'[x] = hdr[x]
  BY <1>2, <1>4, ListTypes DEF OneList, Divided
<1>7. Divided(purged, free', sched', Range(buf), Range(ifq), NULL)
  <2>1. /\ NULL \notin free' /\ NULL \notin sched' /\ NULL \notin Range(buf)
        /\ NULL \notin Range(ifq) /\ NULL \notin purged
    BY <1>2, <1>5, ListTypes, NullAssumption
  <2> QED
    BY <1>1, <1>2, <1>3, <1>4, <2>1 DEF OneList, Divided
<1>8. CASE ifq = << >>
  <2>1. Subsequence(ifq, ifq)
    <3> DEFINE f == [i \in DOMAIN ifq |-> i]
    <3>1. /\ f \in [DOMAIN ifq -> DOMAIN ifq]
          /\ \A i, j \in DOMAIN ifq : i < j => f[i] < f[j]
          /\ \A i \in DOMAIN ifq : ifq[i] = ifq[f[i]]
      OBVIOUS
    <3> HIDE DEF f
    <3> QED
      BY <3>1 DEF Subsequence
  <2>2. ifq' = ifq /\ mac' = NULL
    BY <1>1, <1>8
  <2> QED
    BY <1>1, <1>3, <1>4, <1>5, <1>6, <1>7, <1>8, <2>1, <2>2, QueueShrinks
<1>9. CASE ifq # << >>
  <2>1. ifq' = Tail(ifq) /\ mac' = Head(ifq)
    BY <1>1, <1>9
  <2>2. /\ Head(ifq) \in Range(ifq) /\ Head(ifq) \in Packet /\ Head(ifq) # NULL
        /\ Tail(ifq) \in Seq(Packet) /\ Len(Tail(ifq)) < Len(ifq)
        /\ IsInjective(Tail(ifq)) /\ Subsequence(Tail(ifq), ifq)
        /\ Range(Tail(ifq)) = Range(ifq) \ {Head(ifq)}
    BY <1>3, <1>9, HandedDown
  <2>3. Divided(purged, free', sched', Range(buf), Range(ifq) \ {Head(ifq)}, Head(ifq))
    BY <1>2, <1>5, <1>7, <2>2, ListTypes, DividedHandedDown
  <2>4. Len(Tail(ifq)) <= Len(ifq)
    BY <1>3, <2>2, LenProperties
  <2> QED
    BY <1>1, <1>4, <1>5, <1>6, <2>1, <2>2, <2>3, <2>4, QueueShrinks
<1> QED
  BY <1>8, <1>9

LEMMA TerminateKeeps == IInv /\ Terminate => IInv'
<1> SUFFICES ASSUME IInv, Terminate PROVE IInv'
  OBVIOUS
<1>1. /\ Freed(Range(ifq), hdr) /\ ifq' = << >>
      /\ buf' = buf /\ sched' = sched /\ purged' = purged /\ mac' = mac
  BY DEF Terminate
<1>2. TypeOK /\ OneList
  BY DEF IInv
<1>3. /\ free' = free \cup Range(ifq)
      /\ hdr' \in [Packet -> Headers]
  BY <1>1, <1>2, ListTypes, FreedHeaders
<1>4. /\ ifq' \in Seq(Packet) /\ Len(ifq') <= Len(ifq)
      /\ Range(ifq') = {}
  BY <1>1, <1>2, EmptyList, LenProperties DEF TypeOK
<1>5. Subsequence(ifq', ifq)
  <2>1. DOMAIN ifq' = {}
    BY <1>1
  <2> DEFINE f == [i \in {} |-> i]
  <2>2. f \in [DOMAIN ifq' -> DOMAIN ifq]
    BY <2>1
  <2> HIDE DEF f
  <2> QED
    BY <2>1, <2>2 DEF Subsequence
<1>6. Divided(purged, free', sched', Range(buf), Range(ifq'), mac')
  BY <1>1, <1>2, <1>3, <1>4 DEF OneList, Divided
<1>7. free' \subseteq Packet /\ sched' \subseteq Packet /\ mac' \in Packet \cup {NULL}
  BY <1>1, <1>2, <1>3, ListTypes
<1> QED
  BY <1>1, <1>3, <1>4, <1>5, <1>6, <1>7, QueueShrinks

LEMMA StepKeeps == IInv /\ [Next]_vars => IInv'
<1> SUFFICES ASSUME IInv, [Next]_vars PROVE IInv'
  OBVIOUS
<1>1. CASE SendControl
  BY <1>1, SendControlKeeps
<1>2. CASE ForwardData
  BY <1>2, ForwardDataKeeps
<1>3. CASE BufferData
  BY <1>3, BufferDataKeeps
<1>4. CASE \E d \in Dest : FlushBuffer(d)
  BY <1>4, FlushBufferKeeps
<1>5. CASE \E d \in Dest : DropBuffer(d)
  BY <1>5, DropBufferKeeps
<1>6. CASE \E id \in Neighbor : NbDelete(id)
  BY <1>6, NbDeleteKeeps
<1>7. CASE \E p \in Packet : Enter(p)
  BY <1>7, EnterKeeps
<1>8. CASE Resume
  BY <1>8, ResumeKeeps
<1>9. CASE Terminate
  BY <1>9, TerminateKeeps
<1>10. CASE UNCHANGED vars
  BY <1>10 DEF vars, IInv, TypeOK, OneList, WorkConserving, ControlFirst, Control
<1> QED
  BY <1>1, <1>2, <1>3, <1>4, <1>5, <1>6, <1>7, <1>8, <1>9, <1>10 DEF Next

(* The places of the packets, and the order of the interface queue. *)
THEOREM Invariance == Spec => []IInv
BY InitIInv, StepKeeps, PTL DEF Spec

---------------------------------------------------------------------------
(* What follows from it. *)

(* Every variable keeps its type; the send buffer keeps its limit and no   *)
(* packet is salvaged more than MaxSalvage times.                          *)
THEOREM TypeCorrect == Spec => []TypeOK
BY Invariance, PTL DEF IInv

(* The queue is idle only when it is empty, and never full: whatever its   *)
(* length, an arrival finds it in motion.                                  *)
THEOREM QueueWorks == Spec => []WorkConserving
BY Invariance, PTL DEF IInv

(* Routing packets are in front of data in every queue, also after its     *)
(* packets were filtered, salvaged and queued again.                       *)
THEOREM RoutingFirst == Spec => []ControlFirst
BY Invariance, PTL DEF IInv

LEMMA CountInjective ==
    ASSUME NEW S, NEW q \in Seq(S), IsInjective(q), NEW p
    PROVE  Cardinality({i \in DOMAIN q : q[i] = p})
              = IF p \in Range(q) THEN 1 ELSE 0
<1> DEFINE P == {i \in DOMAIN q : q[i] = p}
<1>2. CASE p \in Range(q)
  <2>1. PICK i \in DOMAIN q : q[i] = p
    BY <1>2 DEF Range
  <2>2. P = {i}
    BY <2>1 DEF IsInjective
  <2> QED
    BY <1>2, <2>2, FS_Singleton
<1>3. CASE p \notin Range(q)
  <2>1. P = {}
    BY <1>3 DEF Range
  <2> QED
    BY <1>3, <2>1, FS_EmptySet
<1> QED
  BY <1>2, <1>3

(* A packet is never in two of the lists that share its next_ field, and   *)
(* none is lost but those that purge() forgets: whatever is dropped,       *)
(* salvaged, flushed or reset.                                             *)
THEOREM OnePlace == Spec => []OneOwner
<1>1. IInv => OneOwner
  <2> SUFFICES ASSUME IInv, NEW p \in Packet
               PROVE  Occurrences(p) = IF p \in purged THEN 0 ELSE 1
    BY DEF OneOwner
  <2>1. TypeOK /\ OneList
    BY DEF IInv
  <2> DEFINE places == <<free, sched, {mac}>>
             b == IF p \in Range(buf) THEN 1 ELSE 0
             q == IF p \in Range(ifq) THEN 1 ELSE 0
             P == {i \in 1 .. 3 : p \in places[i]}
  <2>2. Occurrences(p) = b + q + Cardinality(P)
    <3>1. Cardinality({i \in DOMAIN buf : buf[i] = p}) = b
      BY <2>1, ListTypes, CountInjective DEF OneList
    <3>2. Cardinality({i \in DOMAIN ifq : ifq[i] = p}) = q
      BY <2>1, ListTypes, CountInjective DEF OneList
    <3>3. Occurrences(p) = Cardinality({i \in DOMAIN buf : buf[i] = p})
                             + Cardinality({i \in DOMAIN ifq : ifq[i] = p})
                             + Cardinality(P)
      BY DEF Occurrences, Quantify
    <3> QED
      BY <3>1, <3>2, <3>3
  <2>3. /\ places[1] = free /\ places[2] = sched /\ places[3] = {mac}
    OBVIOUS
  <2> HIDE DEF places
  <2>4. \A i : i \in P <=> \/ i = 1 /\ p \in free
                           \/ i = 2 /\ p \in sched
                           \/ i = 3 /\ p = mac
    BY <2>3
  <2>5. Divided(purged, free, sched, Range(buf), Range(ifq), mac)
    BY <2>1 DEF OneList
  <2> HIDE DEF P
  <2>6. CASE p \in free \/ p \in sched \/ p = mac
    <3>1. b = 0 /\ q = 0 /\ p \notin purged
      BY <2>5, <2>6 DEF Divided
    <3>2. P = {1} \/ P = {2} \/ P = {3}
      <4>1. CASE p \in free
        <5>1. P = {1}
          BY <2>4, <2>5, <4>1 DEF Divided
        <5> QED
          BY <5>1
      <4>2. CASE p \in sched
        <5>1. P = {2}
          BY <2>4, <2>5, <4>2 DEF Divided
        <5> QED
          BY <5>1
      <4>3. CASE p = mac
        <5>1. P = {3}
          BY <2>4, <2>5, <4>3 DEF Divided
        <5> QED
          BY <5>1
      <4> QED
        BY <2>6, <4>1, <4>2, <4>3
    <3>3. Cardinality(P) = 1
      BY <3>2, FS_Singleton
    <3> QED
      BY <2>2, <3>1, <3>3
  <2>7. CASE ~ (p \in free \/ p \in sched \/ p = mac)
    <3>1. b + q = IF p \in purged THEN 0 ELSE 1
      BY <2>5, <2>7 DEF Divided
    <3>2. P = {}
      BY <2>4, <2>7
    <3>3. Cardinality(P) = 0
      BY <3>2, FS_EmptySet
    <3> QED
      BY <2>2, <3>1, <3>3
  <2> QED
    BY <2>6, <2>7
<1> QED
  BY <1>1, Invariance, PTL

(* A routing packet is dropped for lack of room only from a queue without  *)
(* data, whatever the limit.                                               *)
THEOREM DataYieldsFirst == Spec => DataYields
<1>1. ASSUME IInv, NEW p \in Packet, Enter(p), NEW x \in free' \ free, Control(x)
      PROVE  \A i \in DOMAIN ifq : Control(ifq[i])
  <2>1. p \in sched /\ Freed(Arrived(p).out, hdr)
    BY <1>1 DEF Enter, Arrived
  <2>2. x \in Arrived(p).out
    BY <1>1, <2>1 DEF Freed
  <2> QED
    BY <1>1, <2>1, <2>2, ArrivalFits
<1>2. IInv /\ [Next]_vars =>
        [(\E p \in Packet : Enter(p)) =>
            \A p \in free' \ free :
                Control(p) => \A i \in DOMAIN ifq : Control(ifq[i])]_vars
  BY <1>1
<1> QED
  BY <1>2, Invariance, PTL DEF Spec, DataYields
=============================================================================
