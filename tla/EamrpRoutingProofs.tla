------------------------- MODULE EamrpRoutingProofs -------------------------
(***************************************************************************)
(* Proofs about EamrpRouting, for every network, every bound and both ways *)
(* in which INFINITY can be compiled.                                      *)
(***************************************************************************)
EXTENDS EamrpRouting, WellFoundedInduction, TLAPS

---------------------------------------------------------------------------
(* The inductive invariant: the types, refined by what the code asserts.   *)

(* Sequence numbers that a node issues for itself. *)
Issued == {k \in Nat : k % 2 = 0 /\ k >= 2}

(* Sequence numbers of routes that were never known or are lost. *)
Lost == {k \in Nat : k = 0 \/ k % 2 = 1}

(* The routing table entries of RouteState. *)
GoodEntry ==
    {e \in EntryType :
        /\ e.hiseq \in Lost
        /\ e.flags = "UP" => e.seqno \in Issued /\ e.paths # << >>
        /\ e.flags = "DOWN" => e.seqno \in Lost /\ e.paths = << >>}

(* The messages of AnnouncedParity. *)
GoodMsg ==
    {m \in MsgType :
        /\ m.type = "RREQ" => m.sseq \in Issued
        /\ m.type \in {"RREP", "HELLO"} => m.dseq \in Issued
        /\ m.type = "RERR" => \A r \in m.dests : r.seqno \in Lost}

IInv ==
    /\ rt \in [Node -> [Node -> GoodEntry]]
    /\ seqno \in [Node -> Issued]
    /\ bid \in [Node -> Nat]
    /\ bcache \in [Node -> SUBSET (Node \X Nat)]
    /\ replied \in [Node -> SUBSET (Node \X Nat)]
    /\ nb \in [Node -> SUBSET Node]
    /\ buf \in [Node -> SUBSET Node]
    /\ msgs \subseteq GoodMsg
    /\ app \in [Flow -> Nat]
    /\ timers \in Nat

---------------------------------------------------------------------------
(* The smallest member of a set of numbers. *)

(* A set of natural numbers that is not empty has a least member, and the  *)
(* operator Min of the library denotes it.                                 *)
LEMMA MinMember ==
    ASSUME NEW S \in SUBSET Nat, S # {}
    PROVE  Min(S) \in S /\ \A k \in S : Min(S) <= k
<1>1. PICK k \in S : \A j \in S : ~ (<<j, k>> \in OpToRel(<, Nat))
  BY NatLessThanWellFounded, WFMin
<1>2. \A j \in S : k <= j
  <2> SUFFICES ASSUME NEW j \in S, j < k PROVE FALSE
    OBVIOUS
  <2>1. <<j, k>> \in OpToRel(<, Nat)
    BY DEF OpToRel
  <2> QED
    BY <1>1, <2>1
<1> QED
  BY <1>2 DEF Min

---------------------------------------------------------------------------
(* The path list. *)

(* Deleting a member of a list of paths leaves a list of paths. *)
LEMMA RemoveAtType ==
    ASSUME NEW S, NEW s \in Seq(S), NEW i \in 1 .. Len(s)
    PROVE  RemoveAt(s, i) \in Seq(S)
<1>1. SubSeq(s, 1, i - 1) \in Seq(S) /\ SubSeq(s, i + 1, Len(s)) \in Seq(S)
  OBVIOUS
<1> QED
  BY <1>1 DEF RemoveAt

(* path_delete(id) returns a list of paths. *)
LEMMA PathDeleteType ==
    ASSUME NEW ps \in PathList, NEW id
    PROVE  path_delete(ps, id) \in PathList
<1> DEFINE I == {i \in DOMAIN ps : ps[i].nexthop = id}
<1>1. CASE path_lookup(ps, id)
  <2>1. I \in SUBSET Nat /\ I # {}
    BY <1>1 DEF path_lookup, PathList
  <2>2. Min(I) \in I
    BY <2>1, MinMember
  <2>3. Min(I) \in 1 .. Len(ps)
    BY <2>2 DEF PathList
  <2> QED
    BY <2>3, <1>1, RemoveAtType DEF path_delete, PathList
<1>2. CASE ~ path_lookup(ps, id)
  BY <1>2 DEF path_delete
<1> QED
  BY <1>1, <1>2

---------------------------------------------------------------------------
(* Routing table entries: every operation on a good entry returns a good   *)
(* entry that may follow it.                                               *)

(* An entry that is up has a first path. *)
LEMMA FirstPath ==
    ASSUME NEW e \in GoodEntry, e.flags = "UP"
    PROVE  path_find(e.paths) \in PathType
<1>1. e.paths \in PathList /\ e.paths # << >>
  BY DEF GoodEntry, EntryType
<1> QED
  BY <1>1 DEF path_find, PathList

(* An entry that follows a follower follows the first. *)
LEMMA SucceedsTransitive ==
    ASSUME NEW e \in GoodEntry, NEW f \in GoodEntry, NEW g \in GoodEntry,
           Succeeds(e, f), Succeeds(f, g)
    PROVE  Succeeds(e, g)
<1>1. e.seqno \in Nat /\ f.seqno \in Nat /\ g.seqno \in Nat
  BY DEF GoodEntry, EntryType
<1> QED
  BY <1>1 DEF Succeeds

(* A request or reply that is not stale brings the entry up. *)
LEMMA UpdatedEntryGood ==
    ASSUME NEW e \in GoodEntry, NEW seq \in Issued, NEW p \in PathType, NEW hop,
           IsNewer(e, seq) \/ IsBetter(e, seq, hop)
    PROVE  /\ UpdatedEntry(e, seq, p) \in GoodEntry
           /\ UpdatedEntry(e, seq, p).flags = "UP"
           /\ Succeeds(e, UpdatedEntry(e, seq, p))
<1>1. e \in EntryType /\ e.hiseq \in Lost /\ seq \in Nat
  BY DEF GoodEntry, Issued
<1>2. CASE IsNewer(e, seq)
  <2>1. UpdatedEntry(e, seq, p) = Restart(e, seq, p)
    BY <1>2 DEF UpdatedEntry
  <2>2. path_insert(<< >>, p) \in PathList /\ path_insert(<< >>, p) # << >>
    BY DEF path_insert, PathList
  <2>3. Restart(e, seq, p) \in EntryType
    BY <1>1, <2>2, InfinityAssumption DEF Restart, EntryType
  <2>4. /\ Restart(e, seq, p).flags = "UP"
        /\ Restart(e, seq, p).seqno = seq
        /\ Restart(e, seq, p).paths = path_insert(<< >>, p)
        /\ Restart(e, seq, p).hiseq = e.hiseq
    BY <1>1 DEF Restart, EntryType
  <2>5. Restart(e, seq, p) \in GoodEntry
    BY <1>1, <2>2, <2>3, <2>4 DEF GoodEntry
  <2>6. Succeeds(e, Restart(e, seq, p))
    BY <1>2, <2>4 DEF Succeeds, IsNewer
  <2> QED
    BY <2>1, <2>4, <2>5, <2>6
<1>3. CASE ~ IsNewer(e, seq)
  <2>1. e.seqno = seq
    BY <1>3 DEF IsBetter
  <2>2. e.flags = "UP"
    <3>1. seq \notin Lost
      BY DEF Issued, Lost
    <3>2. e.flags \in {"UP", "DOWN"}
      BY <1>1 DEF EntryType
    <3> QED
      BY <2>1, <3>1, <3>2 DEF GoodEntry
  <2>3. CASE CanInsert(e, p)
    <3> DEFINE f == [e EXCEPT !.paths = path_insert(e.paths, p)]
    <3>1. UpdatedEntry(e, seq, p) = f
      BY <1>3, <2>3 DEF UpdatedEntry
    <3>2. /\ path_insert(e.paths, p) \in PathList
          /\ path_insert(e.paths, p) # << >>
      BY <1>1 DEF path_insert, EntryType, PathList
    <3>3. /\ f.flags = "UP" /\ f.seqno = e.seqno /\ f.hiseq = e.hiseq
          /\ f.paths = path_insert(e.paths, p) /\ f.adv = e.adv
      BY <1>1, <2>2 DEF EntryType
    <3>4. f \in EntryType
      BY <1>1, <3>2 DEF EntryType
    <3>5. f \in GoodEntry
      BY <1>1, <2>1, <3>2, <3>3, <3>4 DEF GoodEntry
    <3> QED
      BY <3>1, <3>3, <3>5 DEF Succeeds
  <2>4. CASE ~ CanInsert(e, p)
    BY <1>3, <2>2, <2>4 DEF UpdatedEntry, Succeeds
  <2> QED
    BY <2>3, <2>4
<1> QED
  BY <1>2, <1>3

(* Advertising leaves the entry as it is: the test never succeeds. *)
LEMMA AdvertiseSame == \A e : Advertise(e) = e
BY DEF Advertise, IsINFINITY

LEMMA AdvertiseGood ==
    ASSUME NEW e \in GoodEntry, e.flags = "UP"
    PROVE  /\ Advertise(e) \in GoodEntry
           /\ Advertise(e).flags = "UP"
           /\ Advertise(e).seqno = e.seqno
           /\ Advertise(e).paths = e.paths
           /\ Succeeds(e, Advertise(e))
BY AdvertiseSame DEF Succeeds

(* Setting or clearing the error flag changes nothing that matters here. *)
LEMMA ErrorFlagGood ==
    ASSUME NEW e \in GoodEntry
    PROVE  /\ [e EXCEPT !.err = TRUE] \in GoodEntry
           /\ [e EXCEPT !.err = TRUE].flags = e.flags
           /\ Succeeds(e, [e EXCEPT !.err = TRUE])
<1> DEFINE f == [e EXCEPT !.err = TRUE]
<1>1. e \in EntryType
  BY DEF GoodEntry
<1>2. /\ f \in EntryType
      /\ f.flags = e.flags /\ f.seqno = e.seqno /\ f.paths = e.paths
      /\ f.hiseq = e.hiseq /\ f.adv = e.adv
  BY <1>1 DEF EntryType
<1> QED
  BY <1>2 DEF GoodEntry, Succeeds

(* Bringing an entry down whose number was made odd. *)
LEMMA RtDownGood ==
    ASSUME NEW e \in EntryType, e.seqno \in Lost, e.hiseq \in Lost
    PROVE  /\ rt_down(e) \in GoodEntry
           /\ rt_down(e).flags = "DOWN"
           /\ rt_down(e).seqno = e.seqno
<1> DEFINE f == rt_down(e)
<1>1. << >> \in PathList
  BY DEF PathList
<1>2. /\ f \in EntryType
      /\ f.flags = "DOWN" /\ f.seqno = e.seqno /\ f.paths = << >>
      /\ f.hiseq = e.hiseq
  BY <1>1, InfinityAssumption DEF rt_down, EntryType
<1> QED
  BY <1>2 DEF GoodEntry

(* Losing a path but not the last one. *)
LEMMA FewerPathsGood ==
    ASSUME NEW e \in GoodEntry, e.flags = "UP",
           NEW left \in PathList, left # << >>, NEW h \in Lost
    PROVE  /\ [e EXCEPT !.paths = left, !.hiseq = h] \in GoodEntry
           /\ Succeeds(e, [e EXCEPT !.paths = left, !.hiseq = h])
<1> DEFINE f == [e EXCEPT !.paths = left, !.hiseq = h]
<1>1. e \in EntryType /\ h \in Nat
  BY DEF GoodEntry, Lost
<1>2. /\ f \in EntryType
      /\ f.flags = "UP" /\ f.seqno = e.seqno /\ f.paths = left
      /\ f.hiseq = h /\ f.adv = e.adv
  BY <1>1 DEF EntryType
<1> QED
  BY <1>2 DEF GoodEntry, Succeeds

(* The number of an entry that is up, and what it may become. *)
LEMMA NextSeqno ==
    ASSUME NEW e \in GoodEntry, e.flags = "UP"
    PROVE  /\ Larger(e.seqno + 1, e.hiseq) \in Lost
           /\ Larger(e.seqno + 1, e.hiseq) % 2 # 0
           /\ Larger(e.seqno + 1, e.hiseq) > e.seqno
<1>1. e.seqno \in Issued /\ e.hiseq \in Lost
  BY DEF GoodEntry
<1>2. e.seqno + 1 \in Lost /\ (e.seqno + 1) % 2 # 0 /\ e.seqno + 1 > e.seqno
  BY <1>1 DEF Issued, Lost
<1>3. e.hiseq >= e.seqno + 1 => e.hiseq % 2 # 0 /\ e.hiseq > e.seqno
  BY <1>1 DEF Issued, Lost
<1> QED
  BY <1>1, <1>2, <1>3 DEF Larger, Lost, Issued

(* An entry that is up survives the loss of a neighbor, or goes down with  *)
(* a higher, odd number.                                                   *)
LEMMA AfterLinkFailureGood ==
    ASSUME NEW e \in GoodEntry, e.flags = "UP", NEW id
    PROVE  /\ AfterLinkFailure(e, id) \in GoodEntry
           /\ Succeeds(e, AfterLinkFailure(e, id))
<1> DEFINE left == path_delete(e.paths, id)
           s == Larger(e.seqno + 1, e.hiseq)
           f == [e EXCEPT !.seqno = s, !.err = FALSE]
<1>1. e \in EntryType /\ e.hiseq \in Lost
  BY DEF GoodEntry
<1>2. left \in PathList
  BY <1>1, PathDeleteType DEF EntryType
<1>3. s \in Lost /\ s > e.seqno
  BY NextSeqno
<1> HIDE DEF left, s
<1>4. CASE left # << >>
  <2> DEFINE h == e.hiseq
  <2>1. h \in Lost
    BY <1>1
  <2>2. [e EXCEPT !.paths = left] = [e EXCEPT !.paths = left, !.hiseq = h]
    BY <1>1 DEF EntryType
  <2>3. AfterLinkFailure(e, id) = [e EXCEPT !.paths = left]
    BY <1>4 DEF AfterLinkFailure, left
  <2> HIDE DEF h
  <2>4. /\ [e EXCEPT !.paths = left, !.hiseq = h] \in GoodEntry
        /\ Succeeds(e, [e EXCEPT !.paths = left, !.hiseq = h])
    BY <1>2, <1>4, <2>1, FewerPathsGood
  <2> QED
    BY <2>2, <2>3, <2>4
<1>5. CASE left = << >>
  <2>1. f \in EntryType /\ f.seqno = s /\ f.hiseq = e.hiseq
    BY <1>1, <1>3 DEF EntryType, Lost
  <2>2. AfterLinkFailure(e, id) = rt_down(f)
    BY <1>5 DEF AfterLinkFailure, left, s
  <2> HIDE DEF f
  <2> QED
    BY <1>1, <1>3, <2>1, <2>2, RtDownGood DEF Succeeds
<1> QED
  BY <1>4, <1>5

(* The same when a neighbor reports the destination unreachable with a     *)
(* number that is not older.                                               *)
LEMMA AfterErrorGood ==
    ASSUME NEW e \in GoodEntry, e.flags = "UP", NEW id,
           NEW seq \in Lost, e.seqno <= seq
    PROVE  /\ AfterError(e, id, seq) \in GoodEntry
           /\ Succeeds(e, AfterError(e, id, seq))
<1> DEFINE left == path_delete(e.paths, id)
           heard == Larger(e.hiseq, seq)
           f == [e EXCEPT !.seqno = heard, !.hiseq = heard, !.err = FALSE]
<1>1. e \in EntryType /\ e.hiseq \in Lost /\ e.seqno \in Issued
  BY DEF GoodEntry
<1>2. left \in PathList
  BY <1>1, PathDeleteType DEF EntryType
<1>3. heard \in Lost /\ heard > e.seqno
  <2>1. e.seqno # seq
    BY <1>1 DEF Issued, Lost
  <2> QED
    BY <1>1, <2>1 DEF Larger, Lost, Issued
<1> HIDE DEF left, heard
<1>4. CASE left # << >>
  BY <1>2, <1>3, <1>4, FewerPathsGood DEF AfterError, left, heard
<1>5. CASE left = << >>
  <2>1. f \in EntryType /\ f.seqno = heard /\ f.hiseq = heard
    BY <1>1, <1>3 DEF EntryType, Lost
  <2>2. AfterError(e, id, seq) = rt_down(f)
    BY <1>5 DEF AfterError, left, heard
  <2> HIDE DEF f
  <2> QED
    BY <1>3, <2>1, <2>2, RtDownGood DEF Succeeds
<1> QED
  BY <1>4, <1>5

(* The same when a path expires. *)
LEMMA AfterExpiryGood ==
    ASSUME NEW e \in GoodEntry, e.flags = "UP", NEW i \in DOMAIN e.paths
    PROVE  /\ AfterExpiry(e, i) \in GoodEntry
           /\ Succeeds(e, AfterExpiry(e, i))
<1> DEFINE left == path_purge(e.paths, i)
           s == Larger(e.seqno + 1, e.hiseq)
           f == [e EXCEPT !.seqno = s]
<1>1. e \in EntryType /\ e.hiseq \in Lost
  BY DEF GoodEntry
<1>2. left \in PathList
  <2>1. e.paths \in Seq(PathType)
    BY <1>1 DEF EntryType, PathList
  <2>2. i \in 1 .. Len(e.paths)
    BY <2>1
  <2> QED
    BY <2>1, <2>2, RemoveAtType DEF path_purge, PathList
<1>3. s \in Lost /\ s > e.seqno /\ s % 2 # 0
  BY NextSeqno
<1> HIDE DEF left, s
<1>4. CASE left # << >>
  <2> DEFINE h == e.hiseq
  <2>1. h \in Lost
    BY <1>1
  <2>2. [e EXCEPT !.paths = left] = [e EXCEPT !.paths = left, !.hiseq = h]
    BY <1>1 DEF EntryType
  <2>3. AfterExpiry(e, i) = [e EXCEPT !.paths = left]
    BY <1>4 DEF AfterExpiry, left
  <2> HIDE DEF h
  <2>4. /\ [e EXCEPT !.paths = left, !.hiseq = h] \in GoodEntry
        /\ Succeeds(e, [e EXCEPT !.paths = left, !.hiseq = h])
    BY <1>2, <1>4, <2>1, FewerPathsGood
  <2> QED
    BY <2>2, <2>3, <2>4
<1>5. CASE left = << >>
  <2>1. f \in EntryType /\ f.seqno = s /\ f.hiseq = e.hiseq
    BY <1>1, <1>3 DEF EntryType, Lost
  <2>2. AfterExpiry(e, i) = rt_down(f)
    BY <1>3, <1>5 DEF AfterExpiry, left, s
  <2> HIDE DEF f
  <2> QED
    BY <1>1, <1>3, <2>1, <2>2, RtDownGood DEF Succeeds
<1> QED
  BY <1>4, <1>5

---------------------------------------------------------------------------
(* Messages. *)

(* The type field of a message in flight tells its fields. *)
LEMMA MessageKinds ==
    ASSUME NEW m \in GoodMsg
    PROVE  /\ m.type = "RREQ" => m \in RequestType /\ m.sseq \in Issued
           /\ m.type = "RREP" => m \in ReplyType /\ m.dseq \in Issued
           /\ m.type = "HELLO" => m \in HelloType /\ m.dseq \in Issued
           /\ m.type = "RERR" =>
                 m \in ErrorType /\ \A r \in m.dests : r.seqno \in Lost
           /\ m.type = "DATA" => m \in DataType
<1>1. /\ \A x \in RequestType : x.type = "RREQ"
      /\ \A x \in ReplyType : x.type = "RREP"
      /\ \A x \in HelloType : x.type = "HELLO"
      /\ \A x \in ErrorType : x.type = "RERR"
      /\ \A x \in DataType : x.type = "DATA"
  BY DEF RequestType, ReplyType, HelloType, ErrorType, DataType
<1> QED
  BY <1>1 DEF GoodMsg, MsgType

(* A hop count stored in a message fits in its eight bits. *)
LEMMA ByteOctet ==
    ASSUME NEW h \in Word
    PROVE  Byte(h) \in Octet
BY DEF Word, Byte, Octet

(* A request that announces a number its source issued is good. *)
LEMMA RequestMsgGood ==
    ASSUME NEW n \in Node, NEW to \in Node, NEW src \in Node, NEW id \in Nat,
           NEW sseq \in Issued, NEW dst \in Node, NEW dseq \in Nat,
           NEW hop \in Octet, NEW first \in Node
    PROVE  RequestMsg(n, to, src, id, sseq, dst, dseq, hop, first) \in GoodMsg
<1> DEFINE m == RequestMsg(n, to, src, id, sseq, dst, dseq, hop, first)
<1>1. sseq \in Nat
  BY DEF Issued
<1>2. m \in RequestType /\ m.type = "RREQ" /\ m.sseq = sseq
  BY <1>1 DEF RequestMsg, RequestType
<1> HIDE DEF m
<1>3. m \in GoodMsg
  BY <1>2 DEF GoodMsg, MsgType
<1> QED
  BY <1>3 DEF m

(* So is a reply for a number its destination issued. *)
LEMMA ReplyMsgGood ==
    ASSUME NEW n \in Node, NEW to \in Node, NEW ipdst \in Node,
           NEW hop \in Octet, NEW dst \in Node, NEW dseq \in Issued,
           NEW id \in Nat, NEW first \in Node
    PROVE  ReplyMsg(n, to, ipdst, hop, dst, dseq, id, first) \in GoodMsg
<1> DEFINE m == ReplyMsg(n, to, ipdst, hop, dst, dseq, id, first)
<1>1. dseq \in Nat
  BY DEF Issued
<1>2. m \in ReplyType /\ m.type = "RREP" /\ m.dseq = dseq
  BY <1>1 DEF ReplyMsg, ReplyType
<1> HIDE DEF m
<1>3. m \in GoodMsg
  BY <1>2 DEF GoodMsg, MsgType
<1> QED
  BY <1>3 DEF m

(* A beacon announces the sender's own number. *)
LEMMA HelloMsgGood ==
    ASSUME NEW n \in Node, NEW to \in Node, seqno \in [Node -> Issued]
    PROVE  HelloMsg(n, to) \in GoodMsg
<1> DEFINE m == HelloMsg(n, to)
<1>1. seqno[n] \in Nat /\ seqno[n] \in Issued
  BY DEF Issued
<1>2. m \in HelloType /\ m.type = "HELLO" /\ m.dseq = seqno[n]
  BY <1>1 DEF HelloMsg, HelloType
<1> HIDE DEF m
<1>3. m \in GoodMsg
  BY <1>1, <1>2 DEF GoodMsg, MsgType
<1> QED
  BY <1>3 DEF m

(* forward sends a good data packet when the entry is up. *)
LEMMA ForwardGood ==
    ASSUME NEW n \in Node, NEW e \in GoodEntry, e.flags = "UP",
           NEW src \in Node, NEW dst \in Node
    PROVE  forward(n, e, src, dst) \in GoodMsg
<1> DEFINE m == forward(n, e, src, dst)
<1>1. path_find(e.paths).nexthop \in Node
  BY FirstPath DEF PathType
<1>2. m \in DataType /\ m.type = "DATA"
  BY <1>1 DEF forward, DataMsg, DataType
<1> HIDE DEF m
<1>3. m \in GoodMsg
  BY <1>2 DEF GoodMsg, MsgType
<1> QED
  BY <1>3 DEF m

(* So are the packets that leave the send buffer for it. *)
LEMMA FlushedGood ==
    ASSUME NEW n \in Node, NEW d \in Node, NEW e \in GoodEntry, e.flags = "UP"
    PROVE  Flushed(n, d, e) \subseteq GoodMsg
BY ForwardGood DEF Flushed

(* A route error reports lost numbers only. *)
LEMMA SendErrorGood ==
    ASSUME NEW n \in Node, NEW dests \in SUBSET [dst : Node, seqno : Lost]
    PROVE  sendError(n, dests) \subseteq GoodMsg
<1>1. SUFFICES ASSUME NEW to \in Node PROVE ErrorMsg(n, to, dests) \in GoodMsg
  BY DEF sendError, Neighbors
<1> DEFINE m == ErrorMsg(n, to, dests)
<1>2. /\ dests \in SUBSET [dst : Node, seqno : Nat]
      /\ \A r \in dests : r.seqno \in Lost
  BY DEF Lost
<1>3. m \in ErrorType /\ m.type = "RERR" /\ m.dests = dests
  BY <1>2 DEF ErrorMsg, ErrorType
<1> HIDE DEF m
<1>4. m \in GoodMsg
  BY <1>2, <1>3 DEF GoodMsg, MsgType
<1> QED
  BY <1>4 DEF m

(* So do the errors sent when entries of n go down. *)
LEMMA UnreachableGood ==
    ASSUME NEW n \in Node, NEW after \in [Node -> GoodEntry]
    PROVE  Unreachable(n, after) \in SUBSET [dst : Node, seqno : Lost]
BY DEF Unreachable, GoodEntry

---------------------------------------------------------------------------
(* Steps.  What is shown of every action: it preserves the inductive       *)
(* invariant and the emptiness of the send buffer for routes that are up,  *)
(* and every entry succeeds the one before.                                *)

Table == [Node -> [Node -> GoodEntry]]

TableStep == \A n, d \in Node : Succeeds(rt[n][d], rt'[n][d])

Preserved == IInv' /\ TableStep /\ NoStrandedPacket'

(* The routing tables of the invariant. *)
LEMMA InvTable == IInv => rt \in Table
BY DEF IInv, Table

(* An entry may stay as it is. *)
LEMMA SucceedsReflexive == \A e : Succeeds(e, e)
BY DEF Succeeds

(* Replacing one entry. *)
LEMMA EntryUpdate ==
    ASSUME rt \in Table, NEW n \in Node, NEW d \in Node, NEW e \in GoodEntry,
           Succeeds(rt[n][d], e), rt' = [rt EXCEPT ![n][d] = e]
    PROVE  /\ rt' \in Table
           /\ TableStep
           /\ rt'[n][d] = e
           /\ \A i, j \in Node : i # n \/ j # d => rt'[i][j] = rt[i][j]
<1>1. rt'[n][d] = e /\ rt' \in Table
  BY DEF Table
<1>2. \A i, j \in Node : i # n \/ j # d => rt'[i][j] = rt[i][j]
  BY DEF Table
<1>3. TableStep
  BY <1>1, <1>2, SucceedsReflexive DEF TableStep
<1> QED
  BY <1>1, <1>2, <1>3

(* Replacing the entries of one node. *)
LEMMA RowUpdate ==
    ASSUME rt \in Table, NEW n \in Node, NEW row \in [Node -> GoodEntry],
           \A d \in Node : Succeeds(rt[n][d], row[d]),
           rt' = [rt EXCEPT ![n] = row]
    PROVE  /\ rt' \in Table
           /\ TableStep
           /\ rt'[n] = row
           /\ \A i \in Node : i # n => rt'[i] = rt[i]
<1>1. rt'[n] = row /\ rt' \in Table /\ \A i \in Node : i # n => rt'[i] = rt[i]
  BY DEF Table
<1>2. TableStep
  BY <1>1, SucceedsReflexive DEF TableStep
<1> QED
  BY <1>1, <1>2

(* A step that leaves the routing tables alone. *)
LEMMA TableUnchanged ==
    ASSUME rt' = rt
    PROVE  TableStep
BY SucceedsReflexive DEF TableStep

(* A node raises its own number by two. *)
LEMMA NextIssued ==
    ASSUME NEW k \in Issued
    PROVE  k + 2 \in Issued
BY DEF Issued

(* sendRequest. *)
LEMMA SendRequestGood ==
    ASSUME IInv, NEW n \in Node, NEW d \in Node, SendRequest(n, d)
    PROVE  bid' \in [Node -> Nat] /\ seqno' \in [Node -> Issued] /\ msgs' \subseteq GoodMsg
<1>1. seqno[n] + 2 \in Issued /\ bid[n] \in Nat /\ rt[n][d].seqno \in Nat
  <2>1. seqno[n] \in Issued /\ bid[n] \in Nat /\ rt[n][d] \in GoodEntry
    BY DEF IInv
  <2>2. seqno[n] + 2 \in Issued
    BY <2>1, NextIssued
  <2> QED
    BY <2>1, <2>2 DEF GoodEntry, EntryType
<1>2. 0 \in Octet
  BY DEF Octet
<1>3. bid' \in [Node -> Nat]
  BY <1>1 DEF SendRequest, IInv
<1>4. seqno' \in [Node -> Issued]
  BY <1>1 DEF SendRequest, IInv
<1>5. \A to \in Neighbors(n) :
        RequestMsg(n, to, n, bid[n], seqno[n] + 2, d, rt[n][d].seqno, 0, to)
          \in GoodMsg
  BY <1>1, <1>2, RequestMsgGood DEF Neighbors
<1>6. msgs' \subseteq GoodMsg
  BY <1>5 DEF SendRequest, IInv
<1> QED
  BY <1>3, <1>4, <1>6

(* rt_resolve for a packet of the application. *)
LEMMA AppSendPreserves ==
    ASSUME IInv, NoStrandedPacket, NEW n \in Node, NEW d \in Node, AppSend(n, d)
    PROVE  Preserved
<1>1. rt' = rt /\ UNCHANGED <<bcache, replied, nb>>
  BY DEF AppSend
<1>2. app' \in [Flow -> Nat]
  BY DEF AppSend, IInv
<1>3. CASE /\ rt[n][d].flags = "UP"
           /\ msgs' = msgs \cup {forward(n, rt[n][d], n, d)}
           /\ UNCHANGED <<seqno, bid, buf, timers>>
  <2>1. forward(n, rt[n][d], n, d) \in GoodMsg
    BY <1>3, ForwardGood DEF IInv
  <2>2. IInv'
    BY <1>1, <1>2, <1>3, <2>1 DEF IInv
  <2>3. NoStrandedPacket'
    BY <1>1, <1>3 DEF NoStrandedPacket
  <2> QED
    BY <1>1, <2>2, <2>3, TableUnchanged DEF Preserved
<1>4. CASE /\ rt[n][d].flags = "DOWN"
           /\ buf' = [buf EXCEPT ![n] = @ \cup {d}]
           /\ SendRequest(n, d) \/ UNCHANGED <<seqno, bid, msgs>>
           /\ UNCHANGED timers
  <2>1. bid' \in [Node -> Nat] /\ seqno' \in [Node -> Issued] /\ msgs' \subseteq GoodMsg
    BY <1>4, SendRequestGood DEF IInv
  <2>2. IInv'
    BY <1>1, <1>2, <1>4, <2>1 DEF IInv
  <2>3. NoStrandedPacket'
    BY <1>1, <1>4 DEF NoStrandedPacket, IInv
  <2> QED
    BY <1>1, <2>2, <2>3, TableUnchanged DEF Preserved
<1>5. CASE /\ rt[n][d].flags = "DOWN"
           /\ Tick
           /\ buf' = [buf EXCEPT ![n] = @ \ {d}]
           /\ UNCHANGED <<seqno, bid, msgs>>
  <2>1. timers' \in Nat
    BY <1>5 DEF Tick, IInv
  <2>2. IInv'
    BY <1>1, <1>2, <1>5, <2>1 DEF IInv
  <2>3. NoStrandedPacket'
    BY <1>1, <1>5 DEF NoStrandedPacket, IInv
  <2> QED
    BY <1>1, <2>2, <2>3, TableUnchanged DEF Preserved
<1> QED
  BY <1>3, <1>4, <1>5 DEF AppSend

(* A repeated route request. *)
LEMMA RetryPreserves ==
    ASSUME IInv, NoStrandedPacket, NEW n \in Node, NEW d \in Node, Retry(n, d)
    PROVE  Preserved
<1>1. rt' = rt /\ UNCHANGED <<bcache, replied, nb, buf, app, timers>>
  BY DEF Retry
<1>2. IInv'
  BY <1>1, SendRequestGood DEF Retry, IInv
<1> QED
  BY <1>1, <1>2, TableUnchanged DEF Preserved, NoStrandedPacket

(* Dropping the packets that wait for a route. *)
LEMMA GiveUpPreserves ==
    ASSUME IInv, NoStrandedPacket, NEW n \in Node, NEW d \in Node, GiveUp(n, d)
    PROVE  Preserved
<1>1. rt' = rt /\ buf' = [buf EXCEPT ![n] = @ \ {d}]
      /\ UNCHANGED <<seqno, bid, bcache, replied, nb, msgs, app>>
  BY DEF GiveUp
<1>2. timers' \in Nat
  BY DEF GiveUp, Tick, IInv
<1>3. IInv'
  BY <1>1, <1>2 DEF IInv
<1>4. NoStrandedPacket'
  BY <1>1 DEF NoStrandedPacket, IInv
<1> QED
  BY <1>1, <1>3, <1>4, TableUnchanged DEF Preserved

---------------------------------------------------------------------------
(* recvRequest. *)

(* The path of a request is a path. *)
LEMMA RequestPathType ==
    ASSUME NEW m \in RequestType
    PROVE  RequestPath(m) \in PathType
<1>1. m.hop + 1 \in PathLength
  BY DEF RequestType, Octet, PathLength
<1> QED
  BY <1>1 DEF RequestPath, Path, PathType, RequestType

(* The reverse route of an accepted request is up. *)
LEMMA ReverseEntryGood ==
    ASSUME IInv, NEW m \in msgs, m.type = "RREQ", ~ RequestDiscarded(m)
    PROVE  /\ m \in RequestType
           /\ ReverseEntry(m) \in GoodEntry
           /\ ReverseEntry(m).flags = "UP"
           /\ Succeeds(rt[m.to][m.src], ReverseEntry(m))
<1> DEFINE e == rt[m.to][m.src]
<1>1. m \in RequestType /\ m.sseq \in Issued
  BY MessageKinds DEF IInv
<1>2. m.to \in Node /\ m.src \in Node
  BY <1>1 DEF RequestType
<1>3. e \in GoodEntry
  BY <1>2 DEF IInv
<1>4. IsNewer(e, m.sseq) \/ IsBetter(e, m.sseq, m.hop)
  BY DEF RequestDiscarded
<1>5. RequestPath(m) \in PathType
  BY <1>1, RequestPathType
<1> HIDE DEF e
<1>6. /\ UpdatedEntry(e, m.sseq, RequestPath(m)) \in GoodEntry
      /\ UpdatedEntry(e, m.sseq, RequestPath(m)).flags = "UP"
      /\ Succeeds(e, UpdatedEntry(e, m.sseq, RequestPath(m)))
  BY <1>1, <1>3, <1>4, <1>5, UpdatedEntryGood
<1> QED
  BY <1>1, <1>6 DEF ReverseEntry, e

(* The part of the state that AcceptRequest determines. *)
LEMMA AcceptRequestGood ==
    ASSUME IInv, NEW m \in msgs, m.type = "RREQ",
           NEW sent \in SUBSET GoodMsg, AcceptRequest(m, sent)
    PROVE  /\ bid' \in [Node -> Nat]
           /\ bcache' \in [Node -> SUBSET (Node \X Nat)]
           /\ nb' \in [Node -> SUBSET Node]
           /\ buf' = [buf EXCEPT ![m.to] = @ \ {m.src}]
           /\ buf' \in [Node -> SUBSET Node]
           /\ msgs' \subseteq GoodMsg
           /\ app' \in [Flow -> Nat]
           /\ timers' \in Nat
<1>1. /\ m \in RequestType
      /\ ReverseEntry(m) \in GoodEntry /\ ReverseEntry(m).flags = "UP"
  BY ReverseEntryGood DEF AcceptRequest
<1>2. m.to \in Node /\ m.src \in Node /\ m.bid \in Nat
  BY <1>1 DEF RequestType
<1>3. Flushed(m.to, m.src, ReverseEntry(m)) \subseteq GoodMsg
  BY <1>1, <1>2, FlushedGood
<1>4. msgs' \subseteq GoodMsg
  BY <1>3 DEF AcceptRequest, IInv
<1>5. bcache' \in [Node -> SUBSET (Node \X Nat)]
  BY <1>2 DEF AcceptRequest, Remember, IInv
<1>6. buf' = [buf EXCEPT ![m.to] = @ \ {m.src}] /\ buf' \in [Node -> SUBSET Node]
  BY DEF AcceptRequest, IInv
<1>7. UNCHANGED <<bid, nb, app, timers>>
  BY DEF AcceptRequest
<1> QED
  BY <1>4, <1>5, <1>6, <1>7 DEF IInv

(* Emptying the buffer keeps nothing stranded when only the entry of the   *)
(* source comes up.                                                        *)
LEMMA BufferEmptied ==
    ASSUME IInv, NoStrandedPacket, NEW n \in Node, NEW d \in Node,
           buf' = [buf EXCEPT ![n] = @ \ {d}],
           \A i, j \in Node : i # n \/ j # d => rt'[i][j].flags = rt[i][j].flags
    PROVE  NoStrandedPacket'
BY DEF NoStrandedPacket, IInv

(* The same when no other entry changes at all. *)
LEMMA BufferEmptiedOneEntry ==
    ASSUME IInv, NoStrandedPacket, NEW n \in Node, NEW d \in Node,
           buf' = [buf EXCEPT ![n] = @ \ {d}],
           \A i, j \in Node : i # n \/ j # d => rt'[i][j] = rt[i][j]
    PROVE  NoStrandedPacket'
<1>1. \A i, j \in Node : i # n \/ j # d => rt'[i][j].flags = rt[i][j].flags
  OBVIOUS
<1> QED
  BY <1>1, BufferEmptied

(* The destination answers with an even number. *)
LEMMA AnswerSeqnoIssued ==
    ASSUME NEW own \in Issued, NEW asked \in Nat
    PROVE  AnswerSeqno(own, asked) \in Issued
<1> DEFINE s == IF own < asked THEN asked + 1 ELSE own
<1>1. s \in Nat /\ s >= 2
  BY DEF Issued
<1>2. AnswerSeqno(own, asked) = IF s % 2 = 1 THEN s + 1 ELSE s
  BY DEF AnswerSeqno
<1> HIDE DEF s
<1>3. s % 2 = 1 => (s + 1) % 2 = 0
  BY <1>1
<1>4. s % 2 # 1 => s % 2 = 0
  BY <1>1
<1> QED
  BY <1>1, <1>2, <1>3, <1>4 DEF Issued

(* The destination answers a request. *)
LEMMA AnswerRequestPreserves ==
    ASSUME IInv, NoStrandedPacket, NEW m \in msgs, m.type = "RREQ",
           AnswerRequest(m)
    PROVE  Preserved
<1> DEFINE s == AnswerSeqno(seqno[m.to], m.dseq)
           reply == ReplyMsg(m.to, m.from, m.src, 0, m.to, s, m.bid, m.from)
<1>1. ~ RequestDiscarded(m) /\ AcceptRequest(m, {reply})
  BY DEF AnswerRequest, AcceptRequest
<1>2. /\ m \in RequestType
      /\ ReverseEntry(m) \in GoodEntry
      /\ Succeeds(rt[m.to][m.src], ReverseEntry(m))
  BY <1>1, ReverseEntryGood
<1>3. /\ m.to \in Node /\ m.src \in Node /\ m.from \in Node
      /\ m.bid \in Nat /\ m.dseq \in Nat /\ 0 \in Octet
  BY <1>2 DEF RequestType, Octet
<1>4. s \in Issued
  BY <1>3, AnswerSeqnoIssued DEF IInv
<1>5. seqno' = [seqno EXCEPT ![m.to] = s]
      /\ rt' = [rt EXCEPT ![m.to][m.src] = ReverseEntry(m)]
      /\ replied' = replied
  BY DEF AnswerRequest
<1> HIDE DEF s
<1>6. reply \in GoodMsg
  BY <1>3, <1>4, ReplyMsgGood
<1>7. seqno' \in [Node -> Issued]
  BY <1>4, <1>5 DEF IInv
<1>8. /\ rt' \in Table /\ TableStep
      /\ \A i, j \in Node : i # m.to \/ j # m.src => rt'[i][j] = rt[i][j]
  BY <1>2, <1>3, <1>5, EntryUpdate, InvTable
<1> HIDE DEF reply
<1>9. IInv' /\ buf' = [buf EXCEPT ![m.to] = @ \ {m.src}]
  BY <1>1, <1>5, <1>6, <1>7, <1>8, AcceptRequestGood DEF IInv, Table
<1>10. NoStrandedPacket'
  BY <1>3, <1>8, <1>9, BufferEmptiedOneEntry
<1> QED
  BY <1>8, <1>9, <1>10 DEF Preserved

(* A node answers a request from its table. *)
LEMMA AnswerFromTablePreserves ==
    ASSUME IInv, NoStrandedPacket, NEW m \in msgs, m.type = "RREQ",
           AnswerFromTable(m)
    PROVE  Preserved
<1> DEFINE r == ReverseEntry(m)
           e == Advertise(rt[m.to][m.dst])
           f == [e EXCEPT !.err = TRUE]
           reply == ReplyMsg(m.to, m.from, m.src, Byte(e.adv), m.dst, e.seqno,
                             m.bid, path_find(e.paths).lasthop)
<1>1. /\ m.src # m.to /\ m.dst # m.to /\ ~ RequestDiscarded(m) /\ FreshRoute(m)
      /\ AcceptRequest(m, {reply})
  BY DEF AnswerFromTable, AcceptRequest
<1>2. /\ m \in RequestType /\ r \in GoodEntry /\ r.flags = "UP"
      /\ Succeeds(rt[m.to][m.src], r)
  BY <1>1, ReverseEntryGood
<1>3. /\ m.to \in Node /\ m.src \in Node /\ m.from \in Node /\ m.dst \in Node
      /\ m.bid \in Nat
  BY <1>2 DEF RequestType
<1>4. rt[m.to][m.dst] \in GoodEntry /\ rt[m.to][m.dst].flags = "UP"
  BY <1>1, <1>3 DEF IInv, FreshRoute
<1>5. /\ e \in GoodEntry /\ e.flags = "UP"
      /\ Succeeds(rt[m.to][m.dst], e)
  BY <1>4, AdvertiseGood
<1>6. rt' = [rt EXCEPT ![m.to][m.src] = r, ![m.to][m.dst] = f]
      /\ replied' = [replied EXCEPT ![m.to] = @ \cup {<<m.src, m.bid>>}]
      /\ seqno' = seqno
  BY DEF AnswerFromTable
<1> HIDE DEF r, e
<1>7. f \in GoodEntry /\ f.flags = "UP" /\ Succeeds(rt[m.to][m.dst], f)
  BY <1>4, <1>5, ErrorFlagGood, SucceedsTransitive
<1>8. path_find(e.paths).lasthop \in Node /\ e.seqno \in Issued /\ Byte(e.adv) \in Octet
  <2>1. path_find(e.paths).lasthop \in Node
    BY <1>5, FirstPath DEF PathType
  <2>2. e.seqno \in Issued /\ e.adv \in Word
    BY <1>5 DEF GoodEntry, EntryType
  <2> QED
    BY <2>1, <2>2, ByteOctet
<1>9. reply \in GoodMsg
  BY <1>3, <1>8, ReplyMsgGood
<1> HIDE DEF f, reply
<1>10. /\ rt' \in Table
       /\ rt'[m.to][m.dst] = f
       /\ m.src # m.dst => rt'[m.to][m.src] = r
       /\ \A i, j \in Node :
             i # m.to \/ j \notin {m.src, m.dst} => rt'[i][j] = rt[i][j]
  BY <1>2, <1>3, <1>6, <1>7 DEF IInv, Table
<1>11. TableStep
  BY <1>2, <1>7, <1>10, SucceedsReflexive DEF TableStep
<1>12. replied' \in [Node -> SUBSET (Node \X Nat)]
  BY <1>3, <1>6 DEF IInv
<1>13. IInv' /\ buf' = [buf EXCEPT ![m.to] = @ \ {m.src}]
  <2>1. {reply} \in SUBSET GoodMsg
    BY <1>9
  <2>2. /\ bid' \in [Node -> Nat]
        /\ bcache' \in [Node -> SUBSET (Node \X Nat)]
        /\ nb' \in [Node -> SUBSET Node]
        /\ buf' = [buf EXCEPT ![m.to] = @ \ {m.src}]
        /\ buf' \in [Node -> SUBSET Node]
        /\ msgs' \subseteq GoodMsg
        /\ app' \in [Flow -> Nat]
        /\ timers' \in Nat
    BY <1>1, <2>1, AcceptRequestGood
  <2> QED
    BY <1>6, <1>10, <1>12, <2>2 DEF IInv, Table
<1>14. \A i, j \in Node : i # m.to \/ j # m.src => rt'[i][j].flags = rt[i][j].flags
  BY <1>4, <1>7, <1>10
<1>15. NoStrandedPacket'
  BY <1>3, <1>13, <1>14, BufferEmptied
<1> QED
  BY <1>11, <1>13, <1>15 DEF Preserved

(* A request updates the reverse route and goes no further. *)
LEMMA AbsorbRequestPreserves ==
    ASSUME IInv, NoStrandedPacket, NEW m \in msgs, m.type = "RREQ",
           AbsorbRequest(m)
    PROVE  Preserved
<1>1. /\ ~ RequestDiscarded(m) /\ AcceptRequest(m, {})
      /\ rt' = [rt EXCEPT ![m.to][m.src] = ReverseEntry(m)]
      /\ UNCHANGED <<seqno, replied>>
  BY DEF AbsorbRequest, AcceptRequest
<1>2. /\ m \in RequestType
      /\ ReverseEntry(m) \in GoodEntry
      /\ Succeeds(rt[m.to][m.src], ReverseEntry(m))
  BY <1>1, ReverseEntryGood
<1>3. m.to \in Node /\ m.src \in Node
  BY <1>2 DEF RequestType
<1>4. /\ rt' \in Table /\ TableStep
      /\ \A i, j \in Node : i # m.to \/ j # m.src => rt'[i][j] = rt[i][j]
  BY <1>1, <1>2, <1>3, EntryUpdate, InvTable
<1>5. IInv' /\ buf' = [buf EXCEPT ![m.to] = @ \ {m.src}]
  BY <1>1, <1>4, AcceptRequestGood DEF IInv, Table
<1>6. NoStrandedPacket'
  BY <1>3, <1>4, <1>5, BufferEmptiedOneEntry
<1> QED
  BY <1>4, <1>5, <1>6 DEF Preserved

(* A request is propagated. *)
LEMMA ForwardRequestPreserves ==
    ASSUME IInv, NoStrandedPacket, NEW m \in msgs, m.type = "RREQ",
           ForwardRequest(m)
    PROVE  Preserved
<1> DEFINE r == ReverseEntry(m)
           e == Advertise(r)
           dseq == Larger(rt[m.to][m.dst].seqno, m.dseq)
           copy(to) == RequestMsg(m.to, to, m.src, m.bid, m.sseq, m.dst, dseq,
                                  Byte(e.adv), path_find(e.paths).lasthop)
           sent == {copy(to) : to \in Neighbors(m.to)}
<1>1. /\ ~ RequestDiscarded(m) /\ AcceptRequest(m, sent)
      /\ rt' = [rt EXCEPT ![m.to][m.src] = e]
      /\ UNCHANGED <<seqno, replied>>
  BY DEF ForwardRequest, AcceptRequest
<1>2. /\ m \in RequestType /\ r \in GoodEntry /\ r.flags = "UP"
      /\ Succeeds(rt[m.to][m.src], r)
  BY <1>1, ReverseEntryGood
<1>3. /\ m.to \in Node /\ m.src \in Node /\ m.dst \in Node
      /\ m.bid \in Nat /\ m.dseq \in Nat
  BY <1>2 DEF RequestType
<1>4. m.sseq \in Issued
  BY MessageKinds DEF IInv
<1>5. e \in GoodEntry /\ e.flags = "UP" /\ Succeeds(r, e)
  BY <1>2, AdvertiseGood
<1> HIDE DEF r, e
<1>6. rt[m.to][m.src] \in GoodEntry /\ rt[m.to][m.dst] \in GoodEntry
  BY <1>3 DEF IInv
<1>7. Succeeds(rt[m.to][m.src], e)
  BY <1>2, <1>5, <1>6, SucceedsTransitive
<1>8. path_find(e.paths).lasthop \in Node /\ Byte(e.adv) \in Octet /\ dseq \in Nat
  <2>1. path_find(e.paths).lasthop \in Node
    BY <1>5, FirstPath DEF PathType
  <2>2. e.adv \in Word /\ rt[m.to][m.dst].seqno \in Nat
    BY <1>5, <1>6 DEF GoodEntry, EntryType
  <2> QED
    BY <1>3, <2>1, <2>2, ByteOctet DEF Larger
<1> HIDE DEF dseq
<1>9. \A to \in Neighbors(m.to) : copy(to) \in GoodMsg
  BY <1>3, <1>4, <1>8, RequestMsgGood DEF Neighbors
<1> HIDE DEF copy
<1>10. sent \in SUBSET GoodMsg
  BY <1>9
<1> HIDE DEF sent
<1>11. /\ rt' \in Table /\ TableStep
       /\ \A i, j \in Node : i # m.to \/ j # m.src => rt'[i][j] = rt[i][j]
  BY <1>1, <1>3, <1>5, <1>7, EntryUpdate, InvTable
<1>12. IInv' /\ buf' = [buf EXCEPT ![m.to] = @ \ {m.src}]
  BY <1>1, <1>10, <1>11, AcceptRequestGood DEF IInv, Table
<1>13. NoStrandedPacket'
  BY <1>3, <1>11, <1>12, BufferEmptiedOneEntry
<1> QED
  BY <1>11, <1>12, <1>13 DEF Preserved

(* recvRequest. *)
LEMMA RecvRequestPreserves ==
    ASSUME IInv, NoStrandedPacket, NEW m \in msgs, RecvRequest(m)
    PROVE  Preserved
<1>1. m.type = "RREQ"
  BY DEF RecvRequest
<1>2. CASE RecvOwnRequest(m)
  <2>1. IInv' /\ rt' = rt /\ buf' = buf
    BY <1>2 DEF RecvOwnRequest, IInv
  <2> QED
    BY <2>1, TableUnchanged DEF Preserved, NoStrandedPacket
<1>3. CASE DiscardRequest(m)
  <2>1. m \in RequestType
    BY <1>1, MessageKinds DEF IInv
  <2>2. m.to \in Node /\ m.src \in Node /\ m.bid \in Nat
    BY <2>1 DEF RequestType
  <2>3. bcache' \in [Node -> SUBSET (Node \X Nat)]
    BY <1>3, <2>2 DEF DiscardRequest, Remember, IInv
  <2>4. IInv' /\ rt' = rt /\ buf' = buf
    BY <1>3, <2>3 DEF DiscardRequest, IInv
  <2> QED
    BY <2>4, TableUnchanged DEF Preserved, NoStrandedPacket
<1> QED
  BY <1>1, <1>2, <1>3, AnswerRequestPreserves, AnswerFromTablePreserves,
     AbsorbRequestPreserves, ForwardRequestPreserves DEF RecvRequest

---------------------------------------------------------------------------
(* recvReply and recvHello. *)

(* The path of a reply, or of a beacon, is a path. *)
LEMMA ReplyPathType ==
    ASSUME NEW m \in ReplyType \cup HelloType
    PROVE  ReplyPath(m) \in PathType
<1>1. /\ m.hop + 1 \in PathLength
      /\ m.from \in Node /\ m.first \in Node
  BY DEF ReplyType, HelloType, Octet, PathLength
<1> QED
  BY <1>1 DEF ReplyPath, Path, PathType

(* The forward route of an accepted reply or beacon is up. *)
LEMMA ForwardEntryGood ==
    ASSUME IInv, NEW m \in msgs, m.type \in {"RREP", "HELLO"}, ~ ReplyDiscarded(m)
    PROVE  /\ m.to \in Node /\ m.dst \in Node
           /\ ForwardEntry(m) \in GoodEntry
           /\ ForwardEntry(m).flags = "UP"
           /\ Succeeds(rt[m.to][m.dst], ForwardEntry(m))
<1> DEFINE e == rt[m.to][m.dst]
<1>1. m \in ReplyType \cup HelloType /\ m.dseq \in Issued
  BY MessageKinds DEF IInv
<1>2. m.to \in Node /\ m.dst \in Node
  BY <1>1 DEF ReplyType, HelloType
<1>3. e \in GoodEntry
  BY <1>2 DEF IInv
<1>4. IsNewer(e, m.dseq) \/ IsBetter(e, m.dseq, m.hop)
  BY DEF ReplyDiscarded
<1>5. ReplyPath(m) \in PathType
  BY <1>1, ReplyPathType
<1> HIDE DEF e
<1>6. /\ UpdatedEntry(e, m.dseq, ReplyPath(m)) \in GoodEntry
      /\ UpdatedEntry(e, m.dseq, ReplyPath(m)).flags = "UP"
      /\ Succeeds(e, UpdatedEntry(e, m.dseq, ReplyPath(m)))
  BY <1>1, <1>3, <1>4, <1>5, UpdatedEntryGood
<1> QED
  BY <1>2, <1>6 DEF ForwardEntry, e

(* The part of the state that AcceptReply determines. *)
LEMMA AcceptReplyGood ==
    ASSUME IInv, NEW m \in msgs, m.type \in {"RREP", "HELLO"},
           NEW sent \in SUBSET GoodMsg, AcceptReply(m, sent)
    PROVE  /\ buf' = [buf EXCEPT ![m.to] = @ \ {m.dst}]
           /\ buf' \in [Node -> SUBSET Node]
           /\ msgs' \subseteq GoodMsg
<1>1. /\ m.to \in Node /\ m.dst \in Node
      /\ ForwardEntry(m) \in GoodEntry /\ ForwardEntry(m).flags = "UP"
  BY ForwardEntryGood DEF AcceptReply
<1>2. Flushed(m.to, m.dst, ForwardEntry(m)) \subseteq GoodMsg
  BY <1>1, FlushedGood
<1>3. msgs' \subseteq GoodMsg
  BY <1>2 DEF AcceptReply, IInv
<1>4. buf' = [buf EXCEPT ![m.to] = @ \ {m.dst}] /\ buf' \in [Node -> SUBSET Node]
  BY DEF AcceptReply, IInv
<1> QED
  BY <1>3, <1>4

(* A discarded reply changes nothing but the set of messages. *)
LEMMA DiscardReplyPreserves ==
    ASSUME IInv, NoStrandedPacket, NEW m \in msgs, DiscardReply(m),
           nb' \in [Node -> SUBSET Node],
           UNCHANGED <<seqno, bid, bcache, app, timers>>
    PROVE  Preserved
<1>1. IInv' /\ rt' = rt /\ buf' = buf
  BY DEF DiscardReply, IInv
<1> QED
  BY <1>1, TableUnchanged DEF Preserved, NoStrandedPacket

(* A reply, or a beacon, that ends here. *)
LEMMA KeepReplyPreserves ==
    ASSUME IInv, NoStrandedPacket, NEW m \in msgs, m.type \in {"RREP", "HELLO"},
           AcceptReply(m, {}),
           rt' = [rt EXCEPT ![m.to][m.dst] = ForwardEntry(m)],
           nb' \in [Node -> SUBSET Node],
           UNCHANGED <<replied, seqno, bid, bcache, app, timers>>
    PROVE  Preserved
<1>1. /\ m.to \in Node /\ m.dst \in Node
      /\ ForwardEntry(m) \in GoodEntry
      /\ Succeeds(rt[m.to][m.dst], ForwardEntry(m))
  BY ForwardEntryGood DEF AcceptReply
<1>2. /\ rt' \in Table /\ TableStep
      /\ \A i, j \in Node : i # m.to \/ j # m.dst => rt'[i][j] = rt[i][j]
  BY <1>1, EntryUpdate, InvTable
<1>3. /\ buf' = [buf EXCEPT ![m.to] = @ \ {m.dst}]
      /\ buf' \in [Node -> SUBSET Node]
      /\ msgs' \subseteq GoodMsg
  BY AcceptReplyGood
<1>4. IInv'
  BY <1>2, <1>3 DEF IInv, Table
<1>5. NoStrandedPacket'
  <2>1. buf' = [buf EXCEPT ![m.to] = @ \ {m.dst}]
    BY <1>3
  <2>2. \A i, j \in Node : i # m.to \/ j # m.dst => rt'[i][j] = rt[i][j]
    BY <1>2
  <2> QED
    BY <1>1, <2>1, <2>2, BufferEmptiedOneEntry
<1> QED
  BY <1>2, <1>4, <1>5 DEF Preserved

(* A reply that is passed on towards the source of the request. *)
LEMMA ForwardReplyPreserves ==
    ASSUME IInv, NoStrandedPacket, NEW m \in msgs, m.type = "RREP",
           ForwardReply(m), UNCHANGED <<seqno, bid, bcache, nb, app, timers>>
    PROVE  Preserved
<1> DEFINE r == ForwardEntry(m)
           e == Advertise(r)
           f == [e EXCEPT !.err = TRUE]
           next == path_find(rt[m.to][m.ipdst].paths).nexthop
           reply == ReplyMsg(m.to, next, m.ipdst, Byte(e.adv), m.dst, m.dseq,
                             m.bid, path_find(e.paths).lasthop)
<1>1. /\ ~ ReplyDiscarded(m) /\ CanForwardReply(m) /\ AcceptReply(m, {reply})
      /\ rt' = [rt EXCEPT ![m.to][m.dst] = f]
      /\ replied' = [replied EXCEPT ![m.to] = @ \cup {<<m.ipdst, m.bid>>}]
  BY DEF ForwardReply, AcceptReply
<1>2. m \in ReplyType /\ m.dseq \in Issued
  BY MessageKinds DEF IInv
<1>3. m.ipdst \in Node /\ m.bid \in Nat
  BY <1>2 DEF ReplyType
<1>4. /\ m.to \in Node /\ m.dst \in Node
      /\ r \in GoodEntry /\ r.flags = "UP" /\ Succeeds(rt[m.to][m.dst], r)
  BY <1>1, ForwardEntryGood
<1>5. e \in GoodEntry /\ e.flags = "UP" /\ Succeeds(r, e)
  BY <1>4, AdvertiseGood
<1>6. next \in Node
  <2>1. rt[m.to][m.ipdst] \in GoodEntry /\ rt[m.to][m.ipdst].flags = "UP"
    BY <1>1, <1>3, <1>4 DEF IInv, CanForwardReply
  <2> QED
    BY <2>1, FirstPath DEF PathType
<1> HIDE DEF r, e, next
<1>7. rt[m.to][m.dst] \in GoodEntry
  BY <1>4 DEF IInv
<1>8. Succeeds(rt[m.to][m.dst], e)
  BY <1>4, <1>5, <1>7, SucceedsTransitive
<1>9. f \in GoodEntry /\ f.flags = "UP" /\ Succeeds(e, f)
  BY <1>5, ErrorFlagGood
<1>10. Succeeds(rt[m.to][m.dst], f)
  BY <1>5, <1>7, <1>8, <1>9, SucceedsTransitive
<1>11. path_find(e.paths).lasthop \in Node /\ Byte(e.adv) \in Octet
  <2>1. path_find(e.paths).lasthop \in Node
    BY <1>5, FirstPath DEF PathType
  <2>2. e.adv \in Word
    BY <1>5 DEF GoodEntry, EntryType
  <2> QED
    BY <2>1, <2>2, ByteOctet
<1>12. reply \in GoodMsg
  BY <1>2, <1>3, <1>4, <1>6, <1>11, ReplyMsgGood
<1> HIDE DEF f, reply
<1>13. /\ rt' \in Table /\ TableStep
       /\ \A i, j \in Node : i # m.to \/ j # m.dst => rt'[i][j] = rt[i][j]
  BY <1>1, <1>4, <1>9, <1>10, EntryUpdate, InvTable
<1>14. /\ buf' = [buf EXCEPT ![m.to] = @ \ {m.dst}]
       /\ buf' \in [Node -> SUBSET Node]
       /\ msgs' \subseteq GoodMsg
  <2>1. {reply} \in SUBSET GoodMsg
    BY <1>12
  <2> QED
    BY <1>1, <2>1, AcceptReplyGood
<1>15. replied' \in [Node -> SUBSET (Node \X Nat)]
  BY <1>1, <1>3, <1>4 DEF IInv
<1>16. IInv'
  BY <1>13, <1>14, <1>15 DEF IInv, Table
<1>17. NoStrandedPacket'
  BY <1>4, <1>13, <1>14, BufferEmptiedOneEntry
<1> QED
  BY <1>13, <1>16, <1>17 DEF Preserved

(* recvReply. *)
LEMMA RecvReplyPreserves ==
    ASSUME IInv, NoStrandedPacket, NEW m \in msgs, RecvReply(m)
    PROVE  Preserved
<1>1. m.type = "RREP" /\ UNCHANGED <<seqno, bid, bcache, nb, app, timers>>
  BY DEF RecvReply
<1>2. nb' \in [Node -> SUBSET Node]
  BY <1>1 DEF IInv
<1>3. CASE DiscardReply(m)
  BY <1>1, <1>2, <1>3, DiscardReplyPreserves
<1>4. CASE KeepReply(m)
  BY <1>1, <1>2, <1>4, KeepReplyPreserves DEF KeepReply
<1>5. CASE ForwardReply(m)
  BY <1>1, <1>5, ForwardReplyPreserves
<1> QED
  BY <1>3, <1>4, <1>5 DEF RecvReply

(* The hello timer. *)
LEMMA SendHelloPreserves ==
    ASSUME IInv, NoStrandedPacket, NEW n \in Node, SendHello(n)
    PROVE  Preserved
<1>1. rt' = rt /\ UNCHANGED <<seqno, bid, bcache, replied, nb, buf, app>>
  BY DEF SendHello
<1>2. \A to \in Neighbors(n) : HelloMsg(n, to) \in GoodMsg
  BY HelloMsgGood DEF IInv, Neighbors
<1>3. msgs' \subseteq GoodMsg
  BY <1>2 DEF SendHello, IInv
<1>4. timers' \in Nat
  BY DEF SendHello, Tick, IInv
<1>5. IInv'
  BY <1>1, <1>3, <1>4 DEF IInv
<1> QED
  BY <1>1, <1>5, TableUnchanged DEF Preserved, NoStrandedPacket

(* recvHello. *)
LEMMA RecvHelloPreserves ==
    ASSUME IInv, NoStrandedPacket, NEW m \in msgs, RecvHello(m)
    PROVE  Preserved
<1>1. m.type = "HELLO" /\ UNCHANGED <<seqno, bid, bcache, app, timers>>
      /\ nb' = [nb EXCEPT ![m.to] = @ \cup {m.dst}]
  BY DEF RecvHello
<1>2. m \in HelloType
  BY <1>1, MessageKinds DEF IInv
<1>3. nb' \in [Node -> SUBSET Node]
  <2>1. m.dst \in Node
    BY <1>2 DEF HelloType
  <2> QED
    BY <1>1, <2>1 DEF IInv
<1>4. CASE DiscardReply(m)
  BY <1>1, <1>3, <1>4, DiscardReplyPreserves
<1>5. CASE /\ AcceptReply(m, {})
           /\ rt' = [rt EXCEPT ![m.to][m.dst] = ForwardEntry(m)]
           /\ UNCHANGED replied
  BY <1>1, <1>3, <1>5, KeepReplyPreserves
<1> QED
  BY <1>4, <1>5 DEF RecvHello

---------------------------------------------------------------------------
(* Losing routes. *)

(* Bringing entries down strands no packet. *)
LEMMA NothingComesUp ==
    ASSUME IInv, NoStrandedPacket, IInv',
           \A n \in Node : buf'[n] \subseteq buf[n],
           \A n, d \in Node : rt'[n][d].flags = "UP" => rt[n][d].flags = "UP"
    PROVE  NoStrandedPacket'
<1>1. \A n, d \in Node : rt'[n][d].flags \in {"UP", "DOWN"}
  BY DEF IInv, GoodEntry, EntryType
<1> QED
  BY <1>1 DEF NoStrandedPacket

(* recvError, for the row of entries it leaves. *)
LEMMA RecvErrorPreserves ==
    ASSUME IInv, NoStrandedPacket, NEW m \in msgs, RecvError(m)
    PROVE  Preserved
<1> DEFINE hit == {r \in m.dests : Heeded(m, r)}
           row == rt[m.to]
           reported(d) == \E r \in hit : r.dst = d
           number(d) == (CHOOSE r \in hit : r.dst = d).seqno
           after == [d \in Node |->
                       IF reported(d) THEN AfterError(row[d], m.from, number(d))
                       ELSE row[d]]
<1>1. /\ m.type = "RERR"
      /\ rt' = [rt EXCEPT ![m.to] = after]
      /\ msgs' = (msgs \ {m}) \cup sendError(m.to, Unreachable(m.to, after))
      /\ UNCHANGED <<seqno, bid, bcache, replied, nb, buf, app, timers>>
  BY DEF RecvError
<1>2. m \in ErrorType /\ \A r \in m.dests : r.seqno \in Lost
  BY <1>1, MessageKinds DEF IInv
<1>3. m.to \in Node
  BY <1>2 DEF ErrorType
<1>4. row \in [Node -> GoodEntry]
  BY <1>3 DEF IInv
<1>5. \A d \in Node : reported(d) =>
        row[d].flags = "UP" /\ number(d) \in Lost /\ row[d].seqno <= number(d)
  <2> SUFFICES ASSUME NEW d \in Node, reported(d)
               PROVE  /\ row[d].flags = "UP" /\ number(d) \in Lost
                      /\ row[d].seqno <= number(d)
    OBVIOUS
  <2> DEFINE r == CHOOSE x \in hit : x.dst = d
  <2>1. r \in hit /\ r.dst = d
    OBVIOUS
  <2> HIDE DEF r
  <2>2. r.seqno \in Lost
    BY <1>2, <2>1
  <2>3. row[d].flags = "UP" /\ row[d].seqno <= r.seqno
    BY <2>1 DEF Heeded
  <2> QED
    BY <2>2, <2>3 DEF r
<1> HIDE DEF row, reported, number
<1>6. \A d \in Node : after[d] \in GoodEntry /\ Succeeds(row[d], after[d])
  <2> TAKE d \in Node
  <2>1. CASE reported(d)
    <3>1. /\ row[d] \in GoodEntry /\ row[d].flags = "UP"
          /\ number(d) \in Lost /\ row[d].seqno <= number(d)
      BY <1>4, <1>5, <2>1
    <3>2. /\ AfterError(row[d], m.from, number(d)) \in GoodEntry
          /\ Succeeds(row[d], AfterError(row[d], m.from, number(d)))
      BY <3>1, AfterErrorGood
    <3> QED
      BY <2>1, <3>2
  <2>2. CASE ~ reported(d)
    BY <1>4, <2>2, SucceedsReflexive
  <2> QED
    BY <2>1, <2>2
<1>7. \A d \in Node : after[d].flags = "UP" => row[d].flags = "UP"
  BY <1>5
<1>8. after \in [Node -> GoodEntry]
  BY <1>6
<1> HIDE DEF after
<1>9. /\ rt' \in Table /\ TableStep
      /\ rt'[m.to] = after /\ \A i \in Node : i # m.to => rt'[i] = rt[i]
  BY <1>1, <1>3, <1>6, <1>8, RowUpdate, InvTable DEF row
<1>10. sendError(m.to, Unreachable(m.to, after)) \subseteq GoodMsg
  BY <1>3, <1>8, SendErrorGood, UnreachableGood
<1>11. IInv'
  BY <1>1, <1>9, <1>10 DEF IInv, Table
<1>12. NoStrandedPacket'
  <2>1. \A n, d \in Node : rt'[n][d].flags = "UP" => rt[n][d].flags = "UP"
    BY <1>7, <1>9 DEF row
  <2>2. \A n \in Node : buf'[n] \subseteq buf[n]
    BY <1>1
  <2> QED
    BY <1>11, <2>1, <2>2, NothingComesUp
<1> QED
  BY <1>9, <1>11, <1>12 DEF Preserved

(* The entries a lost neighbor leaves, as far as handle_link_failure goes. *)
LinkFailureRow(n, id) ==
    [d \in Node |->
        IF rt[n][d].flags = "UP" /\ path_lookup(rt[n][d].paths, id)
        THEN AfterLinkFailure(rt[n][d], id)
        ELSE rt[n][d]]

(* handle_link_failure leaves good entries that may follow the old ones    *)
(* and brings none up.                                                     *)
LEMMA LinkFailureRowGood ==
    ASSUME IInv, NEW n \in Node, NEW id
    PROVE  /\ LinkFailureRow(n, id) \in [Node -> GoodEntry]
           /\ \A d \in Node : Succeeds(rt[n][d], LinkFailureRow(n, id)[d])
           /\ \A d \in Node : LinkFailureRow(n, id)[d].flags = "UP"
                                => rt[n][d].flags = "UP"
<1> DEFINE row == rt[n]
           after == LinkFailureRow(n, id)
<1>1. row \in [Node -> GoodEntry]
  BY DEF IInv
<1>2. \A d \in Node : /\ after[d] \in GoodEntry /\ Succeeds(row[d], after[d])
                      /\ after[d].flags = "UP" => row[d].flags = "UP"
  <2> TAKE d \in Node
  <2>1. row[d] \in GoodEntry
    BY <1>1
  <2>2. CASE row[d].flags = "UP" /\ path_lookup(row[d].paths, id)
    <3>1. after[d] = AfterLinkFailure(row[d], id)
      BY <2>2 DEF LinkFailureRow
    <3> QED
      BY <2>1, <2>2, <3>1, AfterLinkFailureGood
  <2>3. CASE ~ (row[d].flags = "UP" /\ path_lookup(row[d].paths, id))
    <3>1. after[d] = row[d]
      BY <2>3 DEF LinkFailureRow
    <3> QED
      BY <2>1, <3>1, SucceedsReflexive
  <2> QED
    BY <2>2, <2>3
<1> QED
  BY <1>2 DEF LinkFailureRow

(* Marking the entries that salvaged packets take. *)
LEMMA MarkedGood ==
    ASSUME NEW n, NEW Q, NEW row \in [Node -> GoodEntry],
           NEW after \in [Node -> GoodEntry],
           \A d \in Node : Succeeds(row[d], after[d])
    PROVE  /\ Marked(n, Q, after) \in [Node -> GoodEntry]
           /\ \A d \in Node : Succeeds(row[d], Marked(n, Q, after)[d])
           /\ \A d \in Node : Marked(n, Q, after)[d].flags = after[d].flags
<1> DEFINE f == Marked(n, Q, after)
<1>1. \A d \in Node : /\ f[d] \in GoodEntry /\ Succeeds(row[d], f[d])
                      /\ f[d].flags = after[d].flags
  <2> TAKE d \in Node
  <2>1. CASE f[d] = after[d]
    BY <2>1
  <2>2. CASE f[d] # after[d]
    <3>1. after[d].flags = "UP" /\ f[d] = [after[d] EXCEPT !.err = TRUE]
      BY <2>2 DEF Marked
    <3>2. after[d] \in GoodEntry /\ row[d] \in GoodEntry
      OBVIOUS
    <3> DEFINE e == after[d]
               g == [e EXCEPT !.err = TRUE]
    <3>3. g \in GoodEntry /\ g.flags = e.flags /\ Succeeds(e, g)
      BY <3>2, ErrorFlagGood
    <3>4. f[d] = g /\ e.flags = "UP" /\ Succeeds(row[d], e) /\ e \in GoodEntry
      BY <3>1, <3>2
    <3> HIDE DEF e, g, f
    <3>5. Succeeds(row[d], g)
      BY <3>2, <3>3, <3>4, SucceedsTransitive
    <3> QED
      BY <3>3, <3>4, <3>5 DEF e
  <2> QED
    BY <2>1, <2>2
<1> QED
  BY <1>1 DEF Marked

(* Packets are salvaged along entries that are up. *)
LEMMA SalvagedGood ==
    ASSUME NEW n \in Node, NEW Q \in SUBSET GoodMsg,
           NEW after \in [Node -> GoodEntry]
    PROVE  Salvaged(n, Q, after) \subseteq GoodMsg
<1> SUFFICES ASSUME NEW x \in Q, x.type = "DATA", after[x.dst].flags = "UP"
             PROVE  forward(n, after[x.dst], x.src, x.dst) \in GoodMsg
  BY DEF Salvaged
<1>1. x \in DataType
  BY MessageKinds
<1>2. x.dst \in Node /\ x.src \in Node
  BY <1>1 DEF DataType
<1> QED
  BY <1>2, ForwardGood

(* nb_delete and handle_link_failure. *)
LEMMA NbDeletePreserves ==
    ASSUME IInv, NoStrandedPacket, NEW n \in Node, NEW id \in Node,
           NEW Q \in SUBSET Queued(n, id), NEW S \in SUBSET Q, NbDelete(n, id, Q, S)
    PROVE  Preserved
<1> DEFINE after == LinkFailureRow(n, id)
           marked == Marked(n, S, after)
<1>1. /\ seqno' = [seqno EXCEPT ![n] = @ + 2]
      /\ nb' = [nb EXCEPT ![n] = @ \ {id}]
      /\ rt' = [rt EXCEPT ![n] = marked]
      /\ msgs' = (msgs \ Q) \cup Salvaged(n, S, after)
                            \cup sendError(n, Unreachable(n, after))
      /\ UNCHANGED <<bid, bcache, replied, buf, app>>
  BY DEF NbDelete, LinkFailureRow
<1>2. timers' \in Nat
  BY DEF NbDelete, Tick, IInv
<1>3. /\ after \in [Node -> GoodEntry]
      /\ \A d \in Node : Succeeds(rt[n][d], after[d])
      /\ \A d \in Node : after[d].flags = "UP" => rt[n][d].flags = "UP"
  BY LinkFailureRowGood
<1> HIDE DEF after
<1>4. /\ marked \in [Node -> GoodEntry]
      /\ \A d \in Node : Succeeds(rt[n][d], marked[d])
      /\ \A d \in Node : marked[d].flags = after[d].flags
  <2> DEFINE row == rt[n]
  <2>1. row \in [Node -> GoodEntry] /\ \A d \in Node : Succeeds(row[d], after[d])
    BY <1>3 DEF IInv
  <2> HIDE DEF row
  <2>2. /\ marked \in [Node -> GoodEntry]
        /\ \A d \in Node : Succeeds(row[d], marked[d])
        /\ \A d \in Node : marked[d].flags = after[d].flags
    BY <1>3, <2>1, MarkedGood
  <2> QED
    BY <2>2 DEF row
<1> HIDE DEF marked
<1>5. /\ rt' \in Table /\ TableStep
      /\ rt'[n] = marked /\ \A i \in Node : i # n => rt'[i] = rt[i]
  BY <1>1, <1>4, RowUpdate, InvTable
<1>6. Salvaged(n, S, after) \subseteq GoodMsg
  <2>1. S \subseteq GoodMsg
    BY DEF IInv, Queued
  <2> QED
    BY <1>3, <2>1, SalvagedGood
<1>7. sendError(n, Unreachable(n, after)) \subseteq GoodMsg
  BY <1>3, SendErrorGood, UnreachableGood
<1>8. msgs' \subseteq GoodMsg
  BY <1>1, <1>6, <1>7 DEF IInv
<1>9. seqno' \in [Node -> Issued]
  <2>1. seqno[n] + 2 \in Issued
    BY NextIssued DEF IInv
  <2> QED
    BY <1>1, <2>1 DEF IInv
<1>10. nb' \in [Node -> SUBSET Node]
  BY <1>1 DEF IInv
<1>11. IInv'
  BY <1>1, <1>2, <1>5, <1>8, <1>9, <1>10 DEF IInv, Table
<1>12. NoStrandedPacket'
  <2>1. \A i, d \in Node : rt'[i][d].flags = "UP" => rt[i][d].flags = "UP"
    BY <1>3, <1>4, <1>5
  <2>2. \A i \in Node : buf'[i] \subseteq buf[i]
    BY <1>1
  <2> QED
    BY <1>11, <2>1, <2>2, NothingComesUp
<1> QED
  BY <1>5, <1>11, <1>12 DEF Preserved

(* rt_purge, for a path that has expired. *)
LEMMA RtPurgePreserves ==
    ASSUME IInv, NoStrandedPacket, NEW n \in Node, NEW d \in Node, NEW i,
           RtPurge(n, d, i)
    PROVE  Preserved
<1> DEFINE f == rt[n][d]
           e == AfterExpiry(f, i)
<1>1. /\ f.flags = "UP" /\ i \in DOMAIN f.paths
      /\ rt' = [rt EXCEPT ![n][d] = e]
      /\ buf' = IF e.flags = "DOWN" THEN [buf EXCEPT ![n] = @ \ {d}] ELSE buf
      /\ UNCHANGED <<seqno, bid, bcache, replied, nb, msgs, app>>
  BY DEF RtPurge
<1>2. timers' \in Nat
  BY DEF RtPurge, Tick, IInv
<1>3. f \in GoodEntry
  BY DEF IInv
<1> HIDE DEF f
<1>4. e \in GoodEntry /\ Succeeds(f, e)
  BY <1>1, <1>3, AfterExpiryGood
<1> HIDE DEF e
<1>5. /\ rt' \in Table /\ TableStep /\ rt'[n][d] = e
      /\ \A k, j \in Node : k # n \/ j # d => rt'[k][j] = rt[k][j]
  <2>1. rt \in Table /\ Succeeds(rt[n][d], e) /\ rt' = [rt EXCEPT ![n][d] = e]
    BY <1>1, <1>4, InvTable DEF f
  <2>2. rt'[n][d] = e
    BY <2>1 DEF Table
  <2>3. /\ rt' \in Table /\ TableStep
        /\ \A k, j \in Node : k # n \/ j # d => rt'[k][j] = rt[k][j]
    BY <1>4, <2>1, EntryUpdate
  <2> QED
    BY <2>2, <2>3
<1>6. buf' \in [Node -> SUBSET Node] /\ \A k \in Node : buf'[k] \subseteq buf[k]
  BY <1>1 DEF IInv
<1>7. IInv'
  BY <1>1, <1>2, <1>5, <1>6 DEF IInv, Table
<1>8. NoStrandedPacket'
  <2>1. \A k, j \in Node : rt'[k][j].flags = "UP" => rt[k][j].flags = "UP"
    BY <1>1, <1>5 DEF f
  <2> QED
    BY <1>6, <1>7, <2>1, NothingComesUp
<1> QED
  BY <1>5, <1>7, <1>8 DEF Preserved

(* id_purge. *)
LEMMA IdPurgePreserves ==
    ASSUME IInv, NoStrandedPacket, NEW n \in Node, NEW x, IdPurge(n, x)
    PROVE  Preserved
<1>1. /\ bcache' = [bcache EXCEPT ![n] = @ \ {x}]
      /\ replied' = [replied EXCEPT ![n] = @ \ {x}]
      /\ UNCHANGED <<rt, seqno, bid, nb, buf, msgs, app>>
  BY DEF IdPurge
<1>2. timers' \in Nat
  BY DEF IdPurge, Tick, IInv
<1>3. /\ bcache' \in [Node -> SUBSET (Node \X Nat)]
      /\ replied' \in [Node -> SUBSET (Node \X Nat)]
  BY <1>1 DEF IInv
<1>4. IInv'
  BY <1>1, <1>2, <1>3 DEF IInv
<1> QED
  BY <1>1, <1>4, TableUnchanged DEF Preserved, NoStrandedPacket

---------------------------------------------------------------------------
(* Data packets. *)

(* A data packet arrives: delivered or dropped, relayed, or reported. *)
LEMMA RecvDataPreserves ==
    ASSUME IInv, NoStrandedPacket, NEW m \in msgs, RecvData(m)
    PROVE  Preserved
<1> DEFINE n == m.to
           e == rt[n][m.dst]
<1>1. m.type = "DATA"
      /\ UNCHANGED <<seqno, bid, bcache, replied, nb, buf, app, timers>>
  BY DEF RecvData
<1>2. m \in DataType
  BY <1>1, MessageKinds DEF IInv
<1>3. n \in Node /\ m.src \in Node /\ m.dst \in Node
  BY <1>2 DEF DataType
<1>4. e \in GoodEntry
  BY <1>3 DEF IInv
<1>5. CASE msgs' = msgs \ {m} /\ UNCHANGED rt
  <2>1. IInv'
    BY <1>1, <1>5 DEF IInv
  <2> QED
    BY <1>1, <1>5, <2>1, TableUnchanged DEF Preserved, NoStrandedPacket
<1>6. CASE /\ e.flags = "UP"
           /\ msgs' = (msgs \ {m}) \cup {forward(n, e, m.src, m.dst)}
           /\ rt' = [rt EXCEPT ![n][m.dst].err = TRUE]
  <2> DEFINE f == [e EXCEPT !.err = TRUE]
  <2>1. forward(n, e, m.src, m.dst) \in GoodMsg
    BY <1>3, <1>4, <1>6, ForwardGood
  <2>2. f \in GoodEntry /\ f.flags = e.flags /\ Succeeds(e, f)
    BY <1>4, ErrorFlagGood
  <2>3. rt' = [rt EXCEPT ![n][m.dst] = f]
    BY <1>6
  <2> HIDE DEF f
  <2>4. /\ rt' \in Table /\ TableStep /\ rt'[n][m.dst] = f
        /\ \A i, j \in Node : i # n \/ j # m.dst => rt'[i][j] = rt[i][j]
    <3>1. /\ rt \in Table /\ Succeeds(rt[n][m.dst], f)
          /\ rt' = [rt EXCEPT ![n][m.dst] = f]
      BY <2>2, <2>3, InvTable
    <3> HIDE DEF n, e
    <3>2. rt'[n][m.dst] = f
      BY <1>3, <3>1 DEF Table
    <3>3. /\ rt' \in Table /\ TableStep
          /\ \A i, j \in Node : i # n \/ j # m.dst => rt'[i][j] = rt[i][j]
      BY <1>3, <2>2, <3>1, EntryUpdate
    <3> QED
      BY <3>2, <3>3
  <2>5. IInv'
    BY <1>1, <1>6, <2>1, <2>4 DEF IInv, Table
  <2>6. \A i, j \in Node : rt'[i][j].flags = rt[i][j].flags
    BY <2>2, <2>4
  <2>7. NoStrandedPacket'
    BY <1>1, <2>6 DEF NoStrandedPacket
  <2> QED
    BY <2>4, <2>5, <2>7 DEF Preserved
<1>7. CASE /\ e.flags = "DOWN"
           /\ msgs' = (msgs \ {m})
                \cup sendError(n, {[dst |-> m.dst, seqno |-> e.seqno]})
           /\ UNCHANGED rt
  <2> DEFINE dests == {[dst |-> m.dst, seqno |-> e.seqno]}
  <2>1. dests \in SUBSET [dst : Node, seqno : Lost]
    BY <1>3, <1>4, <1>7 DEF GoodEntry
  <2> HIDE DEF dests
  <2>2. sendError(n, dests) \subseteq GoodMsg
    BY <1>3, <2>1, SendErrorGood
  <2>3. msgs' \subseteq GoodMsg
    BY <1>7, <2>2 DEF IInv, dests
  <2>4. IInv'
    BY <1>1, <1>7, <2>3 DEF IInv
  <2> QED
    BY <1>1, <1>7, <2>4, TableUnchanged DEF Preserved, NoStrandedPacket
<1> QED
  BY <1>5, <1>6, <1>7 DEF RecvData, NoRoute

---------------------------------------------------------------------------
(* The theorems. *)

(* The initial state satisfies the invariant and strands no packet. *)
LEMMA InitGood == Init => IInv /\ NoStrandedPacket
<1> SUFFICES ASSUME Init PROVE IInv /\ NoStrandedPacket
  OBVIOUS
<1>1. NewEntry \in GoodEntry
  <2>1. << >> \in PathList /\ 255 \in Word /\ 0 \in Lost
    BY DEF PathList, Word, Lost
  <2>2. NewEntry \in EntryType
    BY <2>1 DEF NewEntry, EntryType, INFINITY2
  <2> QED
    BY <2>1, <2>2 DEF NewEntry, GoodEntry
<1>2. 2 \in Issued
  BY DEF Issued
<1>3. IInv
  BY <1>1, <1>2 DEF Init, IInv
<1>4. NoStrandedPacket
  BY DEF Init, NoStrandedPacket
<1> QED
  BY <1>3, <1>4

(* Every step preserves them, and every entry succeeds the one before. *)
LEMMA StepPreserves ==
    ASSUME IInv, NoStrandedPacket, [Next]_vars
    PROVE  Preserved
<1>1. CASE UNCHANGED vars
  <2>1. IInv' /\ rt' = rt /\ buf' = buf
    BY <1>1 DEF vars, IInv
  <2> QED
    BY <2>1, TableUnchanged DEF Preserved, NoStrandedPacket
<1>2. CASE \E n, d \in Node : AppSend(n, d) \/ Retry(n, d) \/ GiveUp(n, d)
  BY <1>2, AppSendPreserves, RetryPreserves, GiveUpPreserves
<1>3. CASE \E m \in msgs : Deliver(m) \/ Lose(m)
  <2> PICK m \in msgs : Deliver(m) \/ Lose(m)
    BY <1>3
  <2>1. CASE Deliver(m)
    BY <2>1, RecvRequestPreserves, RecvReplyPreserves, RecvHelloPreserves,
       RecvErrorPreserves, RecvDataPreserves DEF Deliver
  <2>2. CASE Lose(m)
    <3>1. IInv' /\ rt' = rt /\ buf' = buf
      BY <2>2 DEF Lose, IInv
    <3> QED
      BY <3>1, TableUnchanged DEF Preserved, NoStrandedPacket
  <2> QED
    BY <2>1, <2>2
<1>4. CASE \E n \in Node : SendHello(n)
  BY <1>4, SendHelloPreserves
<1>5. CASE \E n, id \in Node : \E Q \in SUBSET Queued(n, id) :
          \E S \in SUBSET Q : NbDelete(n, id, Q, S)
  BY <1>5, NbDeletePreserves
<1>6. CASE \E n, d \in Node : \E i \in 1 .. MaxPaths : RtPurge(n, d, i)
  BY <1>6, RtPurgePreserves
<1>7. CASE \E n \in Node : \E x \in bcache[n] : IdPurge(n, x)
  BY <1>7, IdPurgePreserves
<1> QED
  BY <1>1, <1>2, <1>3, <1>4, <1>5, <1>6, <1>7 DEF Next

(* The inductive invariant holds in every reachable state. *)
THEOREM Invariance == Spec => [](IInv /\ NoStrandedPacket)
<1>1. Init => IInv /\ NoStrandedPacket
  BY InitGood
<1>2. IInv /\ NoStrandedPacket /\ [Next]_vars => (IInv /\ NoStrandedPacket)'
  BY StepPreserves DEF Preserved
<1> QED
  BY <1>1, <1>2, PTL DEF Spec

(* Every variable keeps its type: no hop count outgrows its field and      *)
(* every node a message names exists.                                      *)
THEOREM TypeCorrect == Spec => []TypeOK
<1>1. IInv => TypeOK
  <2> SUFFICES ASSUME IInv PROVE TypeOK
    OBVIOUS
  <2>1. GoodEntry \subseteq EntryType /\ Issued \subseteq Nat /\ GoodMsg \subseteq MsgType
    BY DEF GoodEntry, Issued, GoodMsg
  <2>2. rt \in [Node -> [Node -> EntryType]]
    BY <2>1 DEF IInv
  <2>3. seqno \in [Node -> Nat] /\ msgs \subseteq MsgType
    BY <2>1 DEF IInv
  <2> QED
    BY <2>2, <2>3 DEF IInv, TypeOK
<1> QED
  BY <1>1, Invariance, PTL

(* The sequence number assertions of handle_link_failure, recvRequest and  *)
(* recvError hold, and path_find of an entry that is up finds a path.      *)
THEOREM RouteStateHolds == Spec => []RouteState
<1>1. IInv => RouteState
  <2> SUFFICES ASSUME IInv, NEW n \in Node, NEW d \in Node
               PROVE  LET e == rt[n][d]
                      IN  IF e.flags = "UP"
                          THEN Even(e.seqno) /\ e.seqno >= 2 /\ e.paths # << >>
                          ELSE /\ e.seqno = 0 \/ ~ Even(e.seqno)
                               /\ e.paths = << >>
    BY DEF RouteState
  <2>1. rt[n][d] \in GoodEntry /\ rt[n][d].flags \in {"UP", "DOWN"}
    BY DEF IInv, GoodEntry, EntryType
  <2> QED
    BY <2>1 DEF GoodEntry, Issued, Lost, Even
<1> QED
  BY <1>1, Invariance, PTL

(* Requests, replies and beacons carry even numbers, errors odd ones or 0. *)
THEOREM AnnouncedParityHolds == Spec => []AnnouncedParity
<1>1. IInv => AnnouncedParity
  <2> SUFFICES ASSUME IInv PROVE AnnouncedParity
    OBVIOUS
  <2>1. \A n \in Node : Even(seqno[n]) /\ seqno[n] >= 2
    BY DEF IInv, Issued, Even
  <2>2. \A n, d \in Node : rt[n][d].hiseq = 0 \/ ~ Even(rt[n][d].hiseq)
    BY DEF IInv, GoodEntry, Lost, Even
  <2>3. \A k \in Lost : k = 0 \/ ~ Even(k)
    BY DEF Lost, Even
  <2>4. \A k \in Issued : Even(k) /\ k >= 2
    BY DEF Issued, Even
  <2>5. \A m \in msgs : m \in GoodMsg
    BY DEF IInv
  <2> QED
    BY <2>1, <2>2, <2>3, <2>4, <2>5 DEF AnnouncedParity, GoodMsg
<1> QED
  BY <1>1, Invariance, PTL

(* No packet waits for a route that is up. *)
THEOREM NothingStranded == Spec => []NoStrandedPacket
BY Invariance, PTL

(* What a node advertises of a destination never gets older and never      *)
(* changes for one sequence number.                                        *)
THEOREM AdvertisementsAreStable == Spec => AdvertisementStable
<1>1. IInv /\ NoStrandedPacket /\ [Next]_vars =>
        [\A n, d \in Node : Succeeds(rt[n][d], rt'[n][d])]_vars
  BY StepPreserves DEF Preserved, TableStep
<1> QED
  BY <1>1, Invariance, PTL DEF Spec, AdvertisementStable
=============================================================================
