-------------------------- MODULE EamrpStepProofs ---------------------------
(***************************************************************************)
(* What one step of EamrpRouting can do to a routing table entry and which *)
(* messages it can send, said once for all handlers, and what follows from *)
(* it: the numbers of routes stay behind their destinations, the paths of  *)
(* an entry are disjoint.                                                  *)
(***************************************************************************)
EXTENDS EamrpRoutingProofs

---------------------------------------------------------------------------
(* Announcements: the node a request, reply or beacon is about, the number *)
(* it announces, and the path it opens.                                    *)

Announces(m) == m.type \in {"RREQ", "RREP", "HELLO"}

About(m) == IF m.type = "RREQ" THEN m.src ELSE m.dst

Number(m) == IF m.type = "RREQ" THEN m.sseq ELSE m.dseq

Via(m) == IF m.type = "RREQ" THEN RequestPath(m) ELSE ReplyPath(m)

---------------------------------------------------------------------------
(* What happens to an entry e, which becomes f. *)

(* Number h is the highest heard in errors about d, or reported by one. *)
Heard(n, d, h) ==
    \/ h = rt[n][d].hiseq
    \/ \E m \in msgs : /\ m.type = "RERR"
                       /\ \E r \in m.dests : r.dst = d /\ r.seqno = h

(* Nothing is learned; one path may be lost. *)
Kept(e, f) ==
    /\ f.flags = e.flags /\ f.seqno = e.seqno
    /\ \/ f.paths = e.paths
       \/ \E i \in DOMAIN e.paths : f.paths = RemoveAt(e.paths, i)
    /\ f.adv = e.adv

(* The announcement m is newer, or as new and better. *)
Learned(e, f, m) ==
    /\ f.flags = "UP" /\ f.seqno = Number(m)
    /\ \/ /\ IsNewer(e, Number(m))
          /\ f.paths = <<Via(m)>>
          /\ f.adv = Infinity
       \/ /\ IsBetter(e, Number(m), m.hop)
          /\ \/ f.paths = e.paths
             \/ CanInsert(e, Via(m)) /\ f.paths = Append(e.paths, Via(m))
          /\ f.adv = e.adv

(* The last path is gone. *)
Dropped(n, d, e, f) ==
    /\ e.flags = "UP" /\ f.flags = "DOWN"
    /\ f.paths = << >> /\ f.adv = Infinity
    /\ f.seqno > e.seqno
    /\ f.seqno = e.seqno + 1 \/ Heard(n, d, f.seqno)

Changes(n, d, e, f) ==
    /\ Heard(n, d, f.hiseq)
    /\ \/ Kept(e, f)
       \/ Dropped(n, d, e, f)
       \/ \E m \in msgs : /\ Announces(m) /\ m.to = n /\ About(m) = d /\ n # d
                          /\ Learned(e, f, m)

EntryStep(n, d) == Changes(n, d, rt[n][d], rt'[n][d])

---------------------------------------------------------------------------
(* What is sent. *)

(* A node speaks for itself with its own number, or for another node with  *)
(* its entry, which is up.                                                 *)
Speaks(m) ==
    IF m.from = About(m)
    THEN m.hop = 0 /\ Number(m) = seqno'[m.from]
    ELSE LET e == rt'[m.from][About(m)]
         IN  e.flags = "UP" /\ e.seqno = Number(m) /\ m.hop = Byte(e.adv)

(* A request asks for the number in the table, or for the one it came with.*)
Asks(m) ==
    \/ m.dseq = rt[m.from][m.dst].seqno
    \/ \E x \in msgs : x.type = "RREQ" /\ x.dst = m.dst /\ x.dseq = m.dseq

(* An error reports entries that are down. *)
Reports(m) ==
    \A r \in m.dests : /\ rt'[m.from][r.dst].flags = "DOWN"
                       /\ r.seqno = rt'[m.from][r.dst].seqno

Sent(m) ==
    /\ Announces(m) => Speaks(m)
    /\ m.type = "RREQ" => Asks(m)
    /\ m.type = "RERR" => Reports(m)

(* The effects of a step. *)
Effects ==
    /\ \A n, d \in Node : EntryStep(n, d)
    /\ \A m \in msgs' \ msgs : Sent(m)
    /\ \A n \in Node : seqno'[n] >= seqno[n]

---------------------------------------------------------------------------
(* Entries, one operation at a time. *)

(* An entry that only changes its error flag, or not even that. *)
LEMMA SameChanges ==
    ASSUME NEW n \in Node, NEW d \in Node, NEW f,
           f.flags = rt[n][d].flags, f.seqno = rt[n][d].seqno,
           f.paths = rt[n][d].paths, f.hiseq = rt[n][d].hiseq,
           f.adv = rt[n][d].adv
    PROVE  Changes(n, d, rt[n][d], f)
BY DEF Changes, Kept, Heard

LEMMA UnchangedStep ==
    ASSUME NEW n \in Node, NEW d \in Node, rt'[n][d] = rt[n][d]
    PROVE  EntryStep(n, d)
BY SameChanges DEF EntryStep

LEMMA ErrorFlag ==
    ASSUME NEW e \in GoodEntry
    PROVE  LET f == [e EXCEPT !.err = TRUE]
           IN  /\ f.flags = e.flags /\ f.seqno = e.seqno /\ f.paths = e.paths
               /\ f.hiseq = e.hiseq /\ f.adv = e.adv
BY DEF GoodEntry, EntryType

(* The entry an accepted announcement leads to, advertised or not. *)
LEMMA UpdateLearns ==
    ASSUME IInv, NEW m \in msgs, Announces(m), m.to # About(m),
           NEW e \in GoodEntry, e = rt[m.to][About(m)],
           IsNewer(e, Number(m)) \/ IsBetter(e, Number(m), m.hop),
           NEW u, u = UpdatedEntry(e, Number(m), Via(m)), u.flags = "UP",
           NEW f, f.flags = u.flags, f.seqno = u.seqno, f.paths = u.paths,
           f.hiseq = u.hiseq, f.adv = u.adv
    PROVE  Changes(m.to, About(m), e, f) /\ u.seqno = Number(m)
<1> DEFINE p == Via(m)
           s == Number(m)
<1> HIDE DEF p, s
<1>1. CASE IsNewer(e, s)
  <2>1. u = [e EXCEPT !.flags = "UP", !.seqno = s, !.adv = Infinity, !.paths = <<p>>]
    BY <1>1 DEF UpdatedEntry, Restart, path_insert, p, s
  <2>2. u.seqno = s /\ u.paths = <<p>> /\ u.adv = Infinity /\ u.hiseq = e.hiseq
    BY <2>1 DEF GoodEntry, EntryType
  <2>3. Learned(e, f, m)
    BY <1>1, <2>2 DEF Learned, p, s
  <2> QED
    BY <2>2, <2>3 DEF Changes, Heard, s
<1>2. CASE ~ IsNewer(e, s) /\ CanInsert(e, p)
  <2> DEFINE q == Append(e.paths, p)
  <2>1. u = [e EXCEPT !.paths = q]
    BY <1>2 DEF UpdatedEntry, path_insert, p, s
  <2> HIDE DEF q
  <2>2. u.seqno = e.seqno /\ u.paths = q /\ u.adv = e.adv /\ u.hiseq = e.hiseq
    BY <2>1 DEF GoodEntry, EntryType
  <2>3. IsBetter(e, s, m.hop) /\ e.seqno = s
    BY <1>2 DEF IsBetter, p, s
  <2>4. Learned(e, f, m)
    BY <1>2, <2>2, <2>3 DEF Learned, p, s, q
  <2> QED
    BY <2>2, <2>3, <2>4 DEF Changes, Heard, s
<1>3. CASE ~ IsNewer(e, s) /\ ~ CanInsert(e, p)
  <2>1. u = e
    BY <1>3 DEF UpdatedEntry, p, s
  <2>2. IsBetter(e, s, m.hop) /\ e.seqno = s
    BY <1>3 DEF IsBetter, p, s
  <2>3. Learned(e, f, m)
    BY <2>1, <2>2 DEF Learned, p, s
  <2> QED
    BY <2>1, <2>2, <2>3 DEF Changes, Heard, s
<1> QED
  BY <1>1, <1>2, <1>3

(* path_delete removes one path, if there is one through id. *)
LEMMA PathDeleteRemoves ==
    ASSUME NEW ps \in PathList, NEW id
    PROVE  \/ path_delete(ps, id) = ps
           \/ \E i \in DOMAIN ps : path_delete(ps, id) = RemoveAt(ps, i)
<1> DEFINE I == {i \in DOMAIN ps : ps[i].nexthop = id}
<1>1. CASE path_lookup(ps, id)
  <2>1. I \in SUBSET Nat /\ I # {}
    BY <1>1 DEF path_lookup, PathList
  <2>2. Min(I) \in DOMAIN ps
    BY <2>1, MinMember
  <2> QED
    BY <1>1, <2>2 DEF path_delete
<1>2. CASE ~ path_lookup(ps, id)
  BY <1>2 DEF path_delete
<1> QED
  BY <1>1, <1>2

(* The next number is the successor of the old one, or was heard. *)
LEMMA NextHeard ==
    ASSUME IInv, NEW n \in Node, NEW d \in Node, rt[n][d].flags = "UP"
    PROVE  LET s == Larger(rt[n][d].seqno + 1, rt[n][d].hiseq)
           IN  /\ s > rt[n][d].seqno
               /\ s = rt[n][d].seqno + 1 \/ Heard(n, d, s)
<1>1. rt[n][d] \in GoodEntry
  BY DEF IInv
<1> QED
  BY <1>1, NextSeqno DEF Larger, Heard

(* Losing paths, but not the last one. *)
LEMMA FewerPathsChanges ==
    ASSUME IInv, NEW n \in Node, NEW d \in Node, NEW f, NEW left,
           \/ left = rt[n][d].paths
           \/ \E i \in DOMAIN rt[n][d].paths : left = RemoveAt(rt[n][d].paths, i),
           f.flags = rt[n][d].flags, f.seqno = rt[n][d].seqno,
           f.adv = rt[n][d].adv, f.paths = left, Heard(n, d, f.hiseq)
    PROVE  Changes(n, d, rt[n][d], f)
BY DEF Changes, Kept

LEMMA DownChanges ==
    ASSUME IInv, NEW n \in Node, NEW d \in Node, rt[n][d].flags = "UP",
           NEW g \in EntryType, Heard(n, d, g.hiseq),
           g.seqno > rt[n][d].seqno,
           g.seqno = rt[n][d].seqno + 1 \/ Heard(n, d, g.seqno)
    PROVE  Changes(n, d, rt[n][d], rt_down(g))
<1>1. /\ rt_down(g).flags = "DOWN" /\ rt_down(g).paths = << >>
      /\ rt_down(g).adv = Infinity /\ rt_down(g).seqno = g.seqno
      /\ rt_down(g).hiseq = g.hiseq
  BY DEF rt_down, EntryType
<1> QED
  BY <1>1 DEF Changes, Dropped

LEMMA AfterLinkFailureChanges ==
    ASSUME IInv, NEW n \in Node, NEW d \in Node, rt[n][d].flags = "UP", NEW id
    PROVE  Changes(n, d, rt[n][d], AfterLinkFailure(rt[n][d], id))
<1> DEFINE e == rt[n][d]
           left == path_delete(e.paths, id)
           s == Larger(e.seqno + 1, e.hiseq)
           g == [e EXCEPT !.seqno = s, !.err = FALSE]
<1>1. e \in GoodEntry /\ e \in EntryType
  BY DEF IInv, GoodEntry
<1>2. s \in Nat /\ s > e.seqno /\ (s = e.seqno + 1 \/ Heard(n, d, s))
  BY <1>1, NextHeard, NextSeqno DEF Lost
<1>3. left = e.paths \/ \E i \in DOMAIN e.paths : left = RemoveAt(e.paths, i)
  BY <1>1, PathDeleteRemoves DEF EntryType
<1> HIDE DEF left, s
<1>4. CASE left # << >>
  <2>1. AfterLinkFailure(e, id) = [e EXCEPT !.paths = left]
    BY <1>4 DEF AfterLinkFailure, left
  <2> DEFINE f == [e EXCEPT !.paths = left]
  <2>2. /\ f.flags = e.flags /\ f.seqno = e.seqno /\ f.adv = e.adv
        /\ f.paths = left /\ f.hiseq = e.hiseq
    BY <1>1 DEF EntryType
  <2> HIDE DEF f
  <2>3. Changes(n, d, rt[n][d], f)
    BY <1>3, <2>2, FewerPathsChanges DEF Heard
  <2> QED
    BY <2>1, <2>3 DEF f
<1>5. CASE left = << >>
  <2>1. AfterLinkFailure(e, id) = rt_down(g)
    BY <1>5 DEF AfterLinkFailure, left, s
  <2>2. g \in EntryType /\ g.seqno = s /\ g.hiseq = e.hiseq
    BY <1>1, <1>2 DEF EntryType
  <2> HIDE DEF g
  <2>3. Changes(n, d, rt[n][d], rt_down(g))
    BY <1>2, <2>2, DownChanges DEF Heard
  <2> QED
    BY <2>1, <2>3
<1> QED
  BY <1>4, <1>5

LEMMA AfterErrorChanges ==
    ASSUME IInv, NEW n \in Node, NEW d \in Node, rt[n][d].flags = "UP", NEW id,
           NEW m \in msgs, m.type = "RERR", NEW r \in m.dests, r.dst = d,
           rt[n][d].seqno <= r.seqno
    PROVE  Changes(n, d, rt[n][d], AfterError(rt[n][d], id, r.seqno))
<1> DEFINE e == rt[n][d]
           left == path_delete(e.paths, id)
           heard == Larger(e.hiseq, r.seqno)
           g == [e EXCEPT !.seqno = heard, !.hiseq = heard, !.err = FALSE]
<1>1. /\ e \in GoodEntry /\ e \in EntryType
      /\ e.seqno \in Issued /\ e.hiseq \in Lost
  BY DEF IInv, GoodEntry
<1>2. r.seqno \in Lost
  BY MessageKinds DEF IInv
<1>3. heard \in Nat /\ heard > e.seqno /\ Heard(n, d, heard)
  <2>1. r.seqno # e.seqno
    BY <1>1, <1>2 DEF Issued, Lost
  <2>2. heard \in Nat /\ heard > e.seqno
    BY <1>1, <1>2, <2>1 DEF Issued, Lost, Larger
  <2>3. heard = e.hiseq \/ heard = r.seqno
    BY DEF Larger
  <2> QED
    BY <2>2, <2>3 DEF Heard
<1>4. left = e.paths \/ \E i \in DOMAIN e.paths : left = RemoveAt(e.paths, i)
  BY <1>1, PathDeleteRemoves DEF EntryType
<1> HIDE DEF left, heard
<1>5. CASE left # << >>
  <2> DEFINE f == [e EXCEPT !.paths = left, !.hiseq = heard]
  <2>1. AfterError(e, id, r.seqno) = f
    BY <1>5 DEF AfterError, left, heard
  <2>2. /\ f.flags = e.flags /\ f.seqno = e.seqno /\ f.adv = e.adv
        /\ f.paths = left /\ f.hiseq = heard
    BY <1>1 DEF EntryType
  <2> HIDE DEF f
  <2>3. Changes(n, d, rt[n][d], f)
    BY <1>3, <1>4, <2>2, FewerPathsChanges
  <2> QED
    BY <2>1, <2>3
<1>6. CASE left = << >>
  <2>1. AfterError(e, id, r.seqno) = rt_down(g)
    BY <1>6 DEF AfterError, left, heard
  <2>2. g \in EntryType /\ g.seqno = heard /\ g.hiseq = heard
    BY <1>1, <1>3 DEF EntryType
  <2> HIDE DEF g
  <2>3. Changes(n, d, rt[n][d], rt_down(g))
    BY <1>3, <2>2, DownChanges
  <2> QED
    BY <2>1, <2>3
<1> QED
  BY <1>5, <1>6

LEMMA AfterExpiryChanges ==
    ASSUME IInv, NEW n \in Node, NEW d \in Node, rt[n][d].flags = "UP",
           NEW i \in DOMAIN rt[n][d].paths
    PROVE  Changes(n, d, rt[n][d], AfterExpiry(rt[n][d], i))
<1> DEFINE e == rt[n][d]
           left == RemoveAt(e.paths, i)
           s == Larger(e.seqno + 1, e.hiseq)
           g == [e EXCEPT !.seqno = s]
<1>1. e \in GoodEntry /\ e \in EntryType
  BY DEF IInv, GoodEntry
<1>2. /\ s \in Nat /\ s > e.seqno /\ (s = e.seqno + 1 \/ Heard(n, d, s))
      /\ s % 2 # 0
  BY <1>1, NextHeard, NextSeqno DEF Lost
<1> HIDE DEF s
<1>3. CASE left # << >>
  <2> DEFINE f == [e EXCEPT !.paths = left]
  <2>1. AfterExpiry(e, i) = f
    BY <1>3 DEF AfterExpiry, path_purge
  <2>2. /\ f.flags = e.flags /\ f.seqno = e.seqno /\ f.adv = e.adv
        /\ f.paths = left /\ f.hiseq = e.hiseq
    BY <1>1 DEF EntryType
  <2> HIDE DEF f
  <2>3. Changes(n, d, rt[n][d], f)
    BY <2>2, FewerPathsChanges DEF Heard
  <2> QED
    BY <2>1, <2>3
<1>4. CASE left = << >>
  <2>1. AfterExpiry(e, i) = rt_down(g)
    BY <1>2, <1>4 DEF AfterExpiry, path_purge, s
  <2>2. g \in EntryType /\ g.seqno = s /\ g.hiseq = e.hiseq
    BY <1>1, <1>2 DEF EntryType
  <2> HIDE DEF g
  <2>3. Changes(n, d, rt[n][d], rt_down(g))
    BY <1>2, <2>2, DownChanges DEF Heard
  <2> QED
    BY <2>1, <2>3
<1> QED
  BY <1>3, <1>4

---------------------------------------------------------------------------
(* Handlers. *)

(* One entry changes. *)
LEMMA OneEntryStep ==
    ASSUME IInv, NEW n \in Node, NEW d \in Node, NEW f,
           rt' = [rt EXCEPT ![n][d] = f], Changes(n, d, rt[n][d], f)
    PROVE  /\ rt'[n][d] = f
           /\ \A i, j \in Node : EntryStep(i, j)
<1>1. /\ rt'[n][d] = f
      /\ \A i, j \in Node : i # n \/ j # d => rt'[i][j] = rt[i][j]
  BY DEF IInv
<1> QED
  BY <1>1, UnchangedStep DEF EntryStep

LEMMA NoEntryStep ==
    ASSUME rt' = rt
    PROVE  \A n, d \in Node : EntryStep(n, d)
BY UnchangedStep

LEMMA DataSent ==
    ASSUME NEW m, m.type = "DATA"
    PROVE  Sent(m)
BY DEF Sent, Announces

LEMMA ForwardSent ==
    ASSUME NEW n, NEW e, NEW src, NEW dst
    PROVE  Sent(forward(n, e, src, dst))
BY DataSent DEF forward, DataMsg

LEMMA FlushedSent ==
    ASSUME NEW n, NEW d, NEW e
    PROVE  \A m \in Flushed(n, d, e) : Sent(m)
BY ForwardSent DEF Flushed

(* A handler that changes no entry and no number and announces nothing. *)
LEMMA QuietEffects ==
    ASSUME IInv, rt' = rt, seqno' = seqno, \A m \in msgs' \ msgs : Sent(m)
    PROVE  Effects
<1>1. \A n \in Node : seqno'[n] >= seqno[n]
  BY DEF IInv, Issued
<1> QED
  BY <1>1, NoEntryStep DEF Effects

LEMMA SendRequestEffects ==
    ASSUME IInv, NEW n \in Node, NEW d \in Node, SendRequest(n, d), rt' = rt
    PROVE  Effects
<1> DEFINE ask(to) == RequestMsg(n, to, n, bid[n], seqno[n] + 2, d,
                                 rt[n][d].seqno, 0, to)
<1>1. /\ seqno' = [seqno EXCEPT ![n] = @ + 2]
      /\ msgs' = msgs \cup {ask(to) : to \in Neighbors(n)}
  BY DEF SendRequest
<1>2. seqno'[n] = seqno[n] + 2 /\ \A i \in Node : seqno'[i] >= seqno[i]
  BY <1>1 DEF IInv, Issued
<1>3. ASSUME NEW to \in Neighbors(n)
      PROVE  Sent(ask(to))
  <2> DEFINE m == ask(to)
  <2>1. /\ m.type = "RREQ" /\ m.from = n /\ m.src = n /\ m.hop = 0
        /\ m.sseq = seqno'[n] /\ m.dst = d /\ m.dseq = rt[n][d].seqno
    BY <1>2 DEF RequestMsg
  <2> HIDE DEF m
  <2>2. Sent(m)
    BY <2>1 DEF Sent, Announces, Speaks, About, Number, Asks
  <2> QED
    BY <2>2 DEF m
<1> HIDE DEF ask
<1>4. \A m \in msgs' \ msgs : Sent(m)
  BY <1>1, <1>3
<1> QED
  BY <1>2, <1>4, NoEntryStep DEF Effects

LEMMA AppSendEffects ==
    ASSUME IInv, NEW n \in Node, NEW d \in Node, AppSend(n, d)
    PROVE  Effects
<1>1. rt' = rt
  BY DEF AppSend
<1>2. CASE SendRequest(n, d)
  BY <1>1, <1>2, SendRequestEffects
<1>3. CASE UNCHANGED seqno /\ UNCHANGED msgs
  BY <1>1, <1>3, QuietEffects
<1>4. CASE UNCHANGED seqno /\ msgs' = msgs \cup {forward(n, rt[n][d], n, d)}
  BY <1>1, <1>4, QuietEffects, ForwardSent
<1> QED
  BY <1>2, <1>3, <1>4 DEF AppSend

(* The announcement in an accepted request is new or better. *)
LEMMA ReverseEntryChanges ==
    ASSUME IInv, NEW m \in msgs, m.type = "RREQ", m.src # m.to,
           ~ RequestDiscarded(m),
           NEW f, f.flags = ReverseEntry(m).flags, f.seqno = ReverseEntry(m).seqno,
           f.paths = ReverseEntry(m).paths, f.hiseq = ReverseEntry(m).hiseq,
           f.adv = ReverseEntry(m).adv
    PROVE  /\ Changes(m.to, m.src, rt[m.to][m.src], f)
           /\ ReverseEntry(m).seqno = m.sseq
<1>1. /\ m \in RequestType /\ ReverseEntry(m).flags = "UP"
  BY ReverseEntryGood
<1>2. rt[m.to][m.src] \in GoodEntry
  BY <1>1 DEF RequestType, IInv
<1>3. Announces(m) /\ About(m) = m.src /\ Number(m) = m.sseq /\ Via(m) = RequestPath(m)
  BY DEF Announces, About, Number, Via
<1>4. IsNewer(rt[m.to][m.src], m.sseq) \/ IsBetter(rt[m.to][m.src], m.sseq, m.hop)
  BY DEF RequestDiscarded
<1>5. ReverseEntry(m) = UpdatedEntry(rt[m.to][m.src], m.sseq, RequestPath(m))
  BY DEF ReverseEntry
<1> QED
  BY <1>1, <1>2, <1>3, <1>4, <1>5, UpdateLearns

(* So is the one in an accepted reply or beacon. *)
LEMMA ForwardEntryChanges ==
    ASSUME IInv, NEW m \in msgs, m.type \in {"RREP", "HELLO"},
           ~ ReplyDiscarded(m),
           NEW f, f.flags = ForwardEntry(m).flags, f.seqno = ForwardEntry(m).seqno,
           f.paths = ForwardEntry(m).paths, f.hiseq = ForwardEntry(m).hiseq,
           f.adv = ForwardEntry(m).adv
    PROVE  /\ Changes(m.to, m.dst, rt[m.to][m.dst], f)
           /\ ForwardEntry(m).seqno = m.dseq
<1>1. m.to \in Node /\ m.dst \in Node /\ ForwardEntry(m).flags = "UP"
  BY ForwardEntryGood
<1>2. rt[m.to][m.dst] \in GoodEntry
  BY <1>1 DEF IInv
<1>3. Announces(m) /\ About(m) = m.dst /\ Number(m) = m.dseq /\ Via(m) = ReplyPath(m)
  BY DEF Announces, About, Number, Via
<1>4. /\ m.dst # m.to
      /\ IsNewer(rt[m.to][m.dst], m.dseq) \/ IsBetter(rt[m.to][m.dst], m.dseq, m.hop)
  BY DEF ReplyDiscarded
<1>5. ForwardEntry(m) = UpdatedEntry(rt[m.to][m.dst], m.dseq, ReplyPath(m))
  BY DEF ForwardEntry
<1> QED
  BY <1>1, <1>2, <1>3, <1>4, <1>5, UpdateLearns

LEMMA AnswerSeqnoGrows ==
    ASSUME NEW own \in Nat, NEW asked \in Nat
    PROVE  AnswerSeqno(own, asked) >= own
<1> DEFINE s == IF own < asked THEN asked + 1 ELSE own
<1>1. s \in Nat /\ s >= own
  OBVIOUS
<1>2. AnswerSeqno(own, asked) \in {s, s + 1}
  BY DEF AnswerSeqno
<1> HIDE DEF s
<1> QED
  BY <1>1, <1>2

(* An accepted request changes the reverse route, and perhaps more. *)
LEMMA AnswerRequestEffects ==
    ASSUME IInv, NEW m \in msgs, m.type = "RREQ", AnswerRequest(m)
    PROVE  Effects
<1> DEFINE s == AnswerSeqno(seqno[m.to], m.dseq)
           reply == ReplyMsg(m.to, m.from, m.src, 0, m.to, s, m.bid, m.from)
<1>1. /\ m.src # m.to /\ ~ RequestDiscarded(m)
      /\ rt' = [rt EXCEPT ![m.to][m.src] = ReverseEntry(m)]
      /\ seqno' = [seqno EXCEPT ![m.to] = s]
      /\ msgs' = (msgs \ {m}) \cup Flushed(m.to, m.src, ReverseEntry(m)) \cup {reply}
  BY DEF AnswerRequest, AcceptRequest
<1>2. m \in RequestType
  BY <1>1, ReverseEntryGood
<1>3. m.to \in Node /\ m.src \in Node /\ m.dseq \in Nat
  BY <1>2 DEF RequestType
<1>4. \A i, j \in Node : EntryStep(i, j)
  <2>1. Changes(m.to, m.src, rt[m.to][m.src], ReverseEntry(m))
    BY <1>1, ReverseEntryChanges
  <2> QED
    BY <1>1, <1>3, <2>1, OneEntryStep
<1>5. s >= seqno[m.to] /\ seqno[m.to] \in Nat
  BY <1>3, AnswerSeqnoGrows DEF IInv, Issued
<1> HIDE DEF s
<1>6. seqno'[m.to] = s /\ \A i \in Node : seqno'[i] >= seqno[i]
  BY <1>1, <1>3, <1>5 DEF IInv, Issued
<1>7. Sent(reply)
  <2>1. /\ reply.type = "RREP" /\ reply.from = m.to /\ reply.dst = m.to
        /\ reply.hop = 0 /\ reply.dseq = seqno'[m.to]
    BY <1>6 DEF ReplyMsg
  <2> HIDE DEF reply
  <2> QED
    BY <2>1 DEF Sent, Announces, Speaks, About, Number
<1> HIDE DEF reply
<1>8. \A x \in msgs' \ msgs : Sent(x)
  BY <1>1, <1>7, FlushedSent
<1> QED
  BY <1>4, <1>6, <1>8 DEF Effects

LEMMA AnswerFromTableEffects ==
    ASSUME IInv, NEW m \in msgs, m.type = "RREQ", AnswerFromTable(m)
    PROVE  Effects
<1> DEFINE r == ReverseEntry(m)
           e == Advertise(rt[m.to][m.dst])
           f == [e EXCEPT !.err = TRUE]
           reply == ReplyMsg(m.to, m.from, m.src, Byte(e.adv), m.dst, e.seqno,
                             m.bid, path_find(e.paths).lasthop)
<1>1. /\ m.src # m.to /\ m.dst # m.to /\ ~ RequestDiscarded(m) /\ FreshRoute(m)
      /\ rt' = [rt EXCEPT ![m.to][m.src] = r, ![m.to][m.dst] = f]
      /\ seqno' = seqno
      /\ msgs' = (msgs \ {m}) \cup Flushed(m.to, m.src, r) \cup {reply}
  BY DEF AnswerFromTable, AcceptRequest
<1>2. m \in RequestType
  BY <1>1, ReverseEntryGood
<1>3. m.to \in Node /\ m.src \in Node /\ m.dst \in Node
  BY <1>2 DEF RequestType
<1>4. rt[m.to][m.dst] \in GoodEntry /\ rt[m.to][m.dst].flags = "UP"
  BY <1>1, <1>3 DEF IInv, FreshRoute
<1>5. /\ e.flags = "UP" /\ e.seqno = rt[m.to][m.dst].seqno
      /\ e.paths = rt[m.to][m.dst].paths /\ e.hiseq = rt[m.to][m.dst].hiseq
      /\ e.adv = rt[m.to][m.dst].adv
      /\ e \in GoodEntry
  BY <1>4, AdvertiseSame, AdvertiseGood
<1>6. Changes(m.to, m.src, rt[m.to][m.src], r)
  BY <1>1, ReverseEntryChanges
<1> HIDE DEF e, r
<1>7. /\ f.flags = "UP" /\ f.seqno = e.seqno /\ f.paths = e.paths
      /\ f.hiseq = e.hiseq /\ f.adv = e.adv
  BY <1>5, ErrorFlag
<1> HIDE DEF f
<1>8. Changes(m.to, m.dst, rt[m.to][m.dst], f)
  BY <1>3, <1>4, <1>5, <1>7, SameChanges
<1>9. /\ rt'[m.to][m.dst] = f
      /\ m.src # m.dst => rt'[m.to][m.src] = r
      /\ \A i, j \in Node :
            i # m.to \/ j \notin {m.src, m.dst} => rt'[i][j] = rt[i][j]
  BY <1>1, <1>3 DEF IInv
<1>10. \A i, j \in Node : EntryStep(i, j)
  BY <1>6, <1>8, <1>9, UnchangedStep DEF EntryStep
<1>11. Sent(reply)
  <2>1. /\ reply.type = "RREP" /\ reply.from = m.to /\ reply.dst = m.dst
        /\ reply.hop = Byte(f.adv) /\ reply.dseq = f.seqno
    BY <1>7 DEF ReplyMsg
  <2> HIDE DEF reply
  <2> QED
    BY <1>1, <1>5, <1>7, <1>9, <2>1 DEF Sent, Announces, Speaks, About, Number
<1> HIDE DEF reply
<1>12. \A x \in msgs' \ msgs : Sent(x)
  BY <1>1, <1>11, FlushedSent
<1>13. \A i \in Node : seqno'[i] >= seqno[i]
  BY <1>1 DEF IInv, Issued
<1> QED
  BY <1>10, <1>12, <1>13 DEF Effects

LEMMA AbsorbRequestEffects ==
    ASSUME IInv, NEW m \in msgs, m.type = "RREQ", AbsorbRequest(m)
    PROVE  Effects
<1>1. /\ m.src # m.to /\ ~ RequestDiscarded(m)
      /\ rt' = [rt EXCEPT ![m.to][m.src] = ReverseEntry(m)]
      /\ seqno' = seqno
      /\ msgs' = (msgs \ {m}) \cup Flushed(m.to, m.src, ReverseEntry(m)) \cup {}
  BY DEF AbsorbRequest, AcceptRequest
<1>2. m \in RequestType
  BY <1>1, ReverseEntryGood
<1>3. m.to \in Node /\ m.src \in Node
  BY <1>2 DEF RequestType
<1>4. \A i, j \in Node : EntryStep(i, j)
  <2>1. Changes(m.to, m.src, rt[m.to][m.src], ReverseEntry(m))
    BY <1>1, ReverseEntryChanges
  <2> QED
    BY <1>1, <1>3, <2>1, OneEntryStep
<1>5. \A x \in msgs' \ msgs : Sent(x)
  BY <1>1, FlushedSent
<1>6. \A i \in Node : seqno'[i] >= seqno[i]
  BY <1>1 DEF IInv, Issued
<1> QED
  BY <1>4, <1>5, <1>6 DEF Effects

LEMMA ForwardRequestEffects ==
    ASSUME IInv, NEW m \in msgs, m.type = "RREQ", ForwardRequest(m)
    PROVE  Effects
<1> DEFINE r == ReverseEntry(m)
           e == Advertise(r)
           dseq == Larger(rt[m.to][m.dst].seqno, m.dseq)
           copy(to) == RequestMsg(m.to, to, m.src, m.bid, m.sseq, m.dst, dseq,
                                  Byte(e.adv), path_find(e.paths).lasthop)
           sent == {copy(to) : to \in Neighbors(m.to)}
<1>1. /\ m.src # m.to /\ ~ RequestDiscarded(m)
      /\ rt' = [rt EXCEPT ![m.to][m.src] = e]
      /\ seqno' = seqno
      /\ msgs' = (msgs \ {m}) \cup Flushed(m.to, m.src, r) \cup sent
  BY DEF ForwardRequest, AcceptRequest
<1>2. m \in RequestType /\ r \in GoodEntry /\ r.flags = "UP"
  BY <1>1, ReverseEntryGood
<1>3. m.to \in Node /\ m.src \in Node /\ m.dst \in Node
  BY <1>2 DEF RequestType
<1>4. rt[m.to][m.src] \in GoodEntry
  BY <1>3 DEF IInv
<1>6. /\ e.flags = "UP" /\ e.seqno = r.seqno /\ e.paths = r.paths
      /\ e.hiseq = r.hiseq /\ e.adv = r.adv
  BY <1>2, AdvertiseSame
<1> HIDE DEF e
<1>7. Changes(m.to, m.src, rt[m.to][m.src], e) /\ r.seqno = m.sseq
  BY <1>1, <1>2, <1>6, ReverseEntryChanges
<1> HIDE DEF r
<1>8. rt'[m.to][m.src] = e /\ \A i, j \in Node : EntryStep(i, j)
  BY <1>1, <1>3, <1>7, OneEntryStep
<1>9. dseq = rt[m.to][m.dst].seqno \/ dseq = m.dseq
  BY DEF Larger
<1> HIDE DEF dseq
<1>10. ASSUME NEW to \in Neighbors(m.to)
       PROVE  Sent(copy(to))
  <2> DEFINE x == copy(to)
  <2>1. /\ x.type = "RREQ" /\ x.from = m.to /\ x.src = m.src /\ x.sseq = m.sseq
        /\ x.hop = Byte(e.adv) /\ x.dst = m.dst /\ x.dseq = dseq
    BY DEF RequestMsg
  <2> HIDE DEF x
  <2>2. Announces(x) /\ About(x) = m.src /\ Number(x) = m.sseq
    BY <2>1 DEF Announces, About, Number
  <2>3. Speaks(x)
    BY <1>1, <1>6, <1>7, <1>8, <2>1, <2>2 DEF Speaks
  <2>4. Asks(x)
    BY <1>9, <2>1 DEF Asks
  <2>5. Sent(x)
    BY <2>1, <2>3, <2>4 DEF Sent
  <2> QED
    BY <2>5 DEF x
<1> HIDE DEF copy
<1>11. \A x \in msgs' \ msgs : Sent(x)
  BY <1>1, <1>10, FlushedSent
<1>12. \A i \in Node : seqno'[i] >= seqno[i]
  BY <1>1 DEF IInv, Issued
<1> QED
  BY <1>8, <1>11, <1>12 DEF Effects

LEMMA RecvRequestEffects ==
    ASSUME IInv, NEW m \in msgs, RecvRequest(m)
    PROVE  Effects
<1>1. m.type = "RREQ"
  BY DEF RecvRequest
<1>2. CASE RecvOwnRequest(m)
  BY <1>2, QuietEffects DEF RecvOwnRequest
<1>3. CASE DiscardRequest(m)
  BY <1>3, QuietEffects DEF DiscardRequest
<1>4. CASE AnswerRequest(m)
  BY <1>1, <1>4, AnswerRequestEffects
<1>5. CASE AnswerFromTable(m)
  BY <1>1, <1>5, AnswerFromTableEffects
<1>6. CASE AbsorbRequest(m)
  BY <1>1, <1>6, AbsorbRequestEffects
<1>7. CASE ForwardRequest(m)
  BY <1>1, <1>7, ForwardRequestEffects
<1> QED
  BY <1>2, <1>3, <1>4, <1>5, <1>6, <1>7 DEF RecvRequest

(* An accepted reply or beacon that goes no further. *)
LEMMA KeepReplyEffects ==
    ASSUME IInv, NEW m \in msgs, m.type \in {"RREP", "HELLO"},
           AcceptReply(m, {}),
           rt' = [rt EXCEPT ![m.to][m.dst] = ForwardEntry(m)], seqno' = seqno
    PROVE  Effects
<1>1. /\ ~ ReplyDiscarded(m)
      /\ msgs' = (msgs \ {m}) \cup Flushed(m.to, m.dst, ForwardEntry(m)) \cup {}
  BY DEF AcceptReply
<1>2. m.to \in Node /\ m.dst \in Node
  BY <1>1, ForwardEntryGood
<1>3. \A i, j \in Node : EntryStep(i, j)
  <2>1. Changes(m.to, m.dst, rt[m.to][m.dst], ForwardEntry(m))
    BY <1>1, ForwardEntryChanges
  <2> QED
    BY <1>2, <2>1, OneEntryStep
<1>4. \A x \in msgs' \ msgs : Sent(x)
  BY <1>1, FlushedSent
<1>5. \A i \in Node : seqno'[i] >= seqno[i]
  BY DEF IInv, Issued
<1> QED
  BY <1>3, <1>4, <1>5 DEF Effects

LEMMA ForwardReplyEffects ==
    ASSUME IInv, NEW m \in msgs, m.type = "RREP", ForwardReply(m), seqno' = seqno
    PROVE  Effects
<1> DEFINE r == ForwardEntry(m)
           e == Advertise(r)
           f == [e EXCEPT !.err = TRUE]
           next == path_find(rt[m.to][m.ipdst].paths).nexthop
           reply == ReplyMsg(m.to, next, m.ipdst, Byte(e.adv), m.dst, m.dseq,
                             m.bid, path_find(e.paths).lasthop)
<1>1. /\ ~ ReplyDiscarded(m)
      /\ rt' = [rt EXCEPT ![m.to][m.dst] = f]
      /\ msgs' = (msgs \ {m}) \cup Flushed(m.to, m.dst, r) \cup {reply}
  BY DEF ForwardReply, AcceptReply
<1>2. m.to \in Node /\ m.dst \in Node /\ r \in GoodEntry /\ r.flags = "UP"
  BY <1>1, ForwardEntryGood
<1>3. m.dst # m.to
  BY <1>1 DEF ReplyDiscarded
<1>4. /\ e.flags = "UP" /\ e.seqno = r.seqno /\ e.paths = r.paths
      /\ e.hiseq = r.hiseq /\ e.adv = r.adv
      /\ e \in GoodEntry
  BY <1>2, AdvertiseSame, AdvertiseGood
<1> HIDE DEF e
<1>5. /\ f.flags = "UP" /\ f.seqno = e.seqno /\ f.paths = e.paths
      /\ f.hiseq = e.hiseq /\ f.adv = e.adv
  BY <1>4, ErrorFlag
<1> HIDE DEF f
<1>6. Changes(m.to, m.dst, rt[m.to][m.dst], f) /\ r.seqno = m.dseq
  BY <1>1, <1>2, <1>4, <1>5, ForwardEntryChanges
<1> HIDE DEF r
<1>7. rt'[m.to][m.dst] = f /\ \A i, j \in Node : EntryStep(i, j)
  BY <1>1, <1>2, <1>6, OneEntryStep
<1>8. Sent(reply)
  <2>1. /\ reply.type = "RREP" /\ reply.from = m.to /\ reply.dst = m.dst
        /\ reply.hop = Byte(f.adv) /\ reply.dseq = f.seqno
    BY <1>4, <1>5, <1>6 DEF ReplyMsg
  <2> HIDE DEF reply
  <2> QED
    BY <1>3, <1>4, <1>5, <1>7, <2>1 DEF Sent, Announces, Speaks, About, Number
<1> HIDE DEF reply
<1>9. \A x \in msgs' \ msgs : Sent(x)
  BY <1>1, <1>8, FlushedSent
<1>10. \A i \in Node : seqno'[i] >= seqno[i]
  BY DEF IInv, Issued
<1> QED
  BY <1>7, <1>9, <1>10 DEF Effects

LEMMA RecvReplyEffects ==
    ASSUME IInv, NEW m \in msgs, RecvReply(m)
    PROVE  Effects
<1>1. m.type = "RREP" /\ seqno' = seqno
  BY DEF RecvReply
<1>2. CASE DiscardReply(m)
  BY <1>1, <1>2, QuietEffects DEF DiscardReply
<1>3. CASE KeepReply(m)
  BY <1>1, <1>3, KeepReplyEffects DEF KeepReply
<1>4. CASE ForwardReply(m)
  BY <1>1, <1>4, ForwardReplyEffects
<1> QED
  BY <1>2, <1>3, <1>4 DEF RecvReply

LEMMA SendHelloEffects ==
    ASSUME IInv, NEW n \in Node, SendHello(n)
    PROVE  Effects
<1>1. /\ rt' = rt /\ seqno' = seqno
      /\ msgs' = msgs \cup {HelloMsg(n, to) : to \in Neighbors(n)}
  BY DEF SendHello
<1>2. ASSUME NEW to \in Neighbors(n)
      PROVE  Sent(HelloMsg(n, to))
  <2> DEFINE m == HelloMsg(n, to)
  <2>1. /\ m.type = "HELLO" /\ m.from = n /\ m.dst = n /\ m.hop = 0
        /\ m.dseq = seqno'[n]
    BY <1>1 DEF HelloMsg
  <2> HIDE DEF m
  <2>2. Sent(m)
    BY <2>1 DEF Sent, Announces, Speaks, About, Number
  <2> QED
    BY <2>2 DEF m
<1> QED
  BY <1>1, <1>2, QuietEffects

LEMMA RecvHelloEffects ==
    ASSUME IInv, NEW m \in msgs, RecvHello(m)
    PROVE  Effects
<1>1. m.type = "HELLO" /\ seqno' = seqno
  BY DEF RecvHello
<1>2. CASE DiscardReply(m)
  BY <1>1, <1>2, QuietEffects DEF DiscardReply
<1>3. CASE /\ AcceptReply(m, {})
           /\ rt' = [rt EXCEPT ![m.to][m.dst] = ForwardEntry(m)]
  BY <1>1, <1>3, KeepReplyEffects
<1> QED
  BY <1>2, <1>3 DEF RecvHello

(* sendError reports destinations whose routes are down. *)
LEMMA SendErrorSent ==
    ASSUME NEW n \in Node, NEW U,
           \A r \in U : /\ rt'[n][r.dst].flags = "DOWN"
                        /\ r.seqno = rt'[n][r.dst].seqno
    PROVE  \A m \in sendError(n, U) : Sent(m)
<1>1. ASSUME NEW to \in Neighbors(n)
      PROVE  Sent(ErrorMsg(n, to, U))
  <2> DEFINE m == ErrorMsg(n, to, U)
  <2>1. m.type = "RERR" /\ m.from = n /\ m.dests = U
    BY DEF ErrorMsg
  <2> HIDE DEF m
  <2>2. Sent(m)
    BY <2>1 DEF Sent, Announces, Reports
  <2> QED
    BY <2>2 DEF m
<1> QED
  BY <1>1 DEF sendError

LEMMA UnreachableSent ==
    ASSUME NEW n \in Node, NEW after,
           \A d \in Node : after[d].flags = "DOWN" => rt'[n][d] = after[d]
    PROVE  \A m \in sendError(n, Unreachable(n, after)) : Sent(m)
<1>1. \A r \in Unreachable(n, after) : /\ rt'[n][r.dst].flags = "DOWN"
                                       /\ r.seqno = rt'[n][r.dst].seqno
  BY DEF Unreachable
<1> QED
  BY <1>1, SendErrorSent

LEMMA RecvErrorEffects ==
    ASSUME IInv, NEW m \in msgs, RecvError(m)
    PROVE  Effects
<1> DEFINE hit == {r \in m.dests : Heeded(m, r)}
           reported(d) == \E r \in hit : r.dst = d
           number(d) == (CHOOSE r \in hit : r.dst = d).seqno
           after == [d \in Node |->
                       IF reported(d) THEN AfterError(rt[m.to][d], m.from, number(d))
                       ELSE rt[m.to][d]]
<1>1. /\ m.type = "RERR"
      /\ rt' = [rt EXCEPT ![m.to] = after]
      /\ msgs' = (msgs \ {m}) \cup sendError(m.to, Unreachable(m.to, after))
      /\ seqno' = seqno
  BY DEF RecvError
<1>2. m.to \in Node
  BY <1>1, MessageKinds DEF IInv, ErrorType
<1>3. ASSUME NEW d \in Node
      PROVE  Changes(m.to, d, rt[m.to][d], after[d])
  <2>1. CASE reported(d)
    <3> DEFINE r == CHOOSE x \in hit : x.dst = d
    <3>1. r \in hit /\ r.dst = d
      BY <2>1
    <3>2. after[d] = AfterError(rt[m.to][d], m.from, r.seqno)
      BY <2>1
    <3> HIDE DEF r, after
    <3>3. /\ r \in m.dests /\ rt[m.to][d].flags = "UP"
          /\ rt[m.to][d].seqno <= r.seqno
      BY <3>1 DEF Heeded
    <3>4. Changes(m.to, d, rt[m.to][d], AfterError(rt[m.to][d], m.from, r.seqno))
      BY <1>1, <1>2, <3>1, <3>3, AfterErrorChanges
    <3> QED
      BY <3>2, <3>4
  <2>2. CASE ~ reported(d)
    <3>1. after[d] = rt[m.to][d]
      BY <2>2
    <3> HIDE DEF after
    <3> QED
      BY <1>2, <3>1, SameChanges
  <2> QED
    BY <2>1, <2>2
<1> HIDE DEF after
<1>4. /\ rt'[m.to] = after
      /\ \A i, j \in Node : i # m.to => rt'[i][j] = rt[i][j]
  BY <1>1, <1>2 DEF IInv
<1>5. \A i, j \in Node : EntryStep(i, j)
  BY <1>3, <1>4, UnchangedStep DEF EntryStep
<1>6. \A x \in msgs' \ msgs : Sent(x)
  BY <1>1, <1>2, <1>4, UnreachableSent
<1>7. \A i \in Node : seqno'[i] >= seqno[i]
  BY <1>1 DEF IInv, Issued
<1> QED
  BY <1>5, <1>6, <1>7 DEF Effects

LEMMA NbDeleteEffects ==
    ASSUME IInv, NEW n \in Node, NEW id \in Node, NEW Q, NEW S,
           NbDelete(n, id, Q, S)
    PROVE  Effects
<1> DEFINE after == LinkFailureRow(n, id)
           marked == Marked(n, S, after)
<1>1. /\ seqno' = [seqno EXCEPT ![n] = @ + 2]
      /\ rt' = [rt EXCEPT ![n] = marked]
      /\ msgs' = (msgs \ Q) \cup Salvaged(n, S, after)
                            \cup sendError(n, Unreachable(n, after))
  BY DEF NbDelete, LinkFailureRow
<1>2. after \in [Node -> GoodEntry]
  BY LinkFailureRowGood
<1>3. ASSUME NEW d \in Node
      PROVE  Changes(n, d, rt[n][d], after[d])
  <2>1. CASE rt[n][d].flags = "UP" /\ path_lookup(rt[n][d].paths, id)
    <3>1. after[d] = AfterLinkFailure(rt[n][d], id)
      BY <2>1 DEF LinkFailureRow
    <3> HIDE DEF after
    <3> QED
      BY <2>1, <3>1, AfterLinkFailureChanges
  <2>2. CASE ~ (rt[n][d].flags = "UP" /\ path_lookup(rt[n][d].paths, id))
    <3>1. after[d] = rt[n][d]
      BY <2>2 DEF LinkFailureRow
    <3> HIDE DEF after
    <3> QED
      BY <3>1, SameChanges
  <2> QED
    BY <2>1, <2>2
<1> HIDE DEF after
<1>4. ASSUME NEW d \in Node
      PROVE  /\ Changes(n, d, rt[n][d], marked[d])
             /\ after[d].flags = "DOWN" => marked[d] = after[d]
  <2>1. CASE marked[d] = after[d]
    BY <1>3, <2>1
  <2>2. CASE marked[d] # after[d]
    <3>1. after[d].flags = "UP" /\ marked[d] = [after[d] EXCEPT !.err = TRUE]
      BY <2>2 DEF Marked
    <3> HIDE DEF marked
    <3> DEFINE e == after[d]
               f == marked[d]
    <3>2. e \in GoodEntry /\ f = [e EXCEPT !.err = TRUE] /\ Changes(n, d, rt[n][d], e)
      BY <1>2, <1>3, <3>1
    <3> HIDE DEF e, f
    <3>3. /\ f.flags = e.flags /\ f.seqno = e.seqno /\ f.paths = e.paths
          /\ f.hiseq = e.hiseq /\ f.adv = e.adv
      BY <3>2, ErrorFlag
    <3>4. Changes(n, d, rt[n][d], f)
      BY <3>2, <3>3 DEF Changes, Kept, Dropped, Learned
    <3> QED
      BY <3>1, <3>4 DEF f
  <2> QED
    BY <2>1, <2>2
<1> HIDE DEF marked
<1>5. rt'[n] = marked /\ \A i, j \in Node : i # n => rt'[i][j] = rt[i][j]
  BY <1>1 DEF IInv
<1>6. \A i, j \in Node : EntryStep(i, j)
  BY <1>4, <1>5, UnchangedStep DEF EntryStep
<1>7. \A x \in msgs' \ msgs : Sent(x)
  <2>1. \A x \in sendError(n, Unreachable(n, after)) : Sent(x)
    BY <1>4, <1>5, UnreachableSent
  <2>2. \A x \in Salvaged(n, S, after) : Sent(x)
    BY ForwardSent DEF Salvaged
  <2> QED
    BY <1>1, <2>1, <2>2
<1>8. \A i \in Node : seqno'[i] >= seqno[i]
  BY <1>1 DEF IInv, Issued
<1> QED
  BY <1>6, <1>7, <1>8 DEF Effects

LEMMA RtPurgeEffects ==
    ASSUME IInv, NEW n \in Node, NEW d \in Node, NEW i, RtPurge(n, d, i)
    PROVE  Effects
<1>1. /\ rt[n][d].flags = "UP" /\ i \in DOMAIN rt[n][d].paths
      /\ rt' = [rt EXCEPT ![n][d] = AfterExpiry(rt[n][d], i)]
      /\ msgs' = msgs /\ seqno' = seqno
  BY DEF RtPurge
<1>2. Changes(n, d, rt[n][d], AfterExpiry(rt[n][d], i))
  BY <1>1, AfterExpiryChanges
<1>3. \A k, j \in Node : EntryStep(k, j)
  BY <1>1, <1>2, OneEntryStep
<1>4. \A k \in Node : seqno'[k] >= seqno[k]
  BY <1>1 DEF IInv, Issued
<1> QED
  BY <1>1, <1>3, <1>4 DEF Effects

LEMMA RecvDataEffects ==
    ASSUME IInv, NEW m \in msgs, RecvData(m)
    PROVE  Effects
<1> DEFINE n == m.to
           e == rt[n][m.dst]
<1>1. m.type = "DATA" /\ seqno' = seqno
  BY DEF RecvData
<1>2. n \in Node /\ m.dst \in Node
  BY <1>1, MessageKinds DEF IInv, DataType
<1>3. CASE msgs' = msgs \ {m} /\ UNCHANGED rt
  BY <1>1, <1>3, QuietEffects
<1>4. CASE /\ msgs' = (msgs \ {m}) \cup {forward(n, e, m.src, m.dst)}
           /\ rt' = [rt EXCEPT ![n][m.dst].err = TRUE]
  <2> DEFINE f == [e EXCEPT !.err = TRUE]
  <2>1. rt' = [rt EXCEPT ![n][m.dst] = f]
    BY <1>2, <1>4 DEF IInv
  <2>2. e \in GoodEntry
    BY <1>2 DEF IInv
  <2>3. /\ f.flags = e.flags /\ f.seqno = e.seqno /\ f.paths = e.paths
        /\ f.hiseq = e.hiseq /\ f.adv = e.adv
    BY <2>2, ErrorFlag
  <2> HIDE DEF f
  <2>4. Changes(n, m.dst, rt[n][m.dst], f)
    BY <1>2, <2>3, SameChanges
  <2>5. \A i, j \in Node : EntryStep(i, j)
    BY <1>2, <2>1, <2>4, OneEntryStep
  <2>6. \A x \in msgs' \ msgs : Sent(x)
    BY <1>4, ForwardSent
  <2>7. \A i \in Node : seqno'[i] >= seqno[i]
    BY <1>1 DEF IInv, Issued
  <2> QED
    BY <2>5, <2>6, <2>7 DEF Effects
<1>5. CASE /\ e.flags = "DOWN"
           /\ msgs' = (msgs \ {m}) \cup NoRoute(n, m.dst)
           /\ UNCHANGED rt
  <2> DEFINE U == {[dst |-> m.dst, seqno |-> rt[n][m.dst].seqno]}
  <2>1. \A r \in U : /\ rt'[n][r.dst].flags = "DOWN"
                     /\ r.seqno = rt'[n][r.dst].seqno
    BY <1>5
  <2>2. NoRoute(n, m.dst) = sendError(n, U)
    BY DEF NoRoute
  <2> HIDE DEF U
  <2>3. \A x \in NoRoute(n, m.dst) : Sent(x)
    BY <1>2, <2>1, <2>2, SendErrorSent
  <2>4. \A x \in msgs' \ msgs : Sent(x)
    BY <1>5, <2>3
  <2> QED
    BY <1>1, <1>5, <2>4, QuietEffects
<1> QED
  BY <1>3, <1>4, <1>5 DEF RecvData

(* Every step has the effects described, and no others. *)
LEMMA StepEffects ==
    ASSUME IInv, [Next]_vars
    PROVE  Effects
<1>1. CASE UNCHANGED vars
  BY <1>1, QuietEffects DEF vars
<1>2. ASSUME NEW n \in Node, NEW d \in Node, AppSend(n, d) \/ Retry(n, d) \/ GiveUp(n, d)
      PROVE  Effects
  <2>1. CASE AppSend(n, d)
    BY <2>1, AppSendEffects
  <2>2. CASE Retry(n, d)
    BY <2>2, SendRequestEffects DEF Retry
  <2>3. CASE GiveUp(n, d)
    BY <2>3, QuietEffects DEF GiveUp
  <2> QED
    BY <1>2, <2>1, <2>2, <2>3
<1>3. ASSUME NEW m \in msgs, Deliver(m) \/ Lose(m)
      PROVE  Effects
  <2>1. CASE Lose(m)
    BY <2>1, QuietEffects DEF Lose
  <2> QED
    BY <1>3, <2>1, RecvRequestEffects, RecvReplyEffects, RecvHelloEffects,
       RecvErrorEffects, RecvDataEffects DEF Deliver
<1>4. ASSUME NEW n \in Node, NEW x \in bcache[n], IdPurge(n, x)
      PROVE  Effects
  BY <1>4, QuietEffects DEF IdPurge
<1> QED
  BY <1>1, <1>2, <1>3, <1>4, SendHelloEffects, NbDeleteEffects, RtPurgeEffects
  DEF Next

(* Node n is the only one whose table changes. *)
OnlyTableOf(n) == \A x \in Node \ {n} : rt'[x] = rt[x]

LEMMA TableKept == ASSUME rt' = rt PROVE \A n \in Node : OnlyTableOf(n)
BY DEF OnlyTableOf

LEMMA OneRequestReader ==
    ASSUME IInv, NEW m \in msgs, RecvRequest(m)
    PROVE  m.to \in Node /\ OnlyTableOf(m.to)
<1>1. m \in RequestType
  BY MessageKinds DEF IInv, RecvRequest
<1>2. m.to \in Node
  BY <1>1 DEF RequestType
<1> QED
  BY <1>2 DEF IInv, OnlyTableOf, RecvRequest, RecvOwnRequest, DiscardRequest,
     AnswerRequest, AnswerFromTable, AbsorbRequest, ForwardRequest

LEMMA OneReplyReader ==
    ASSUME IInv, NEW m \in msgs, RecvReply(m) \/ RecvHello(m)
    PROVE  m.to \in Node /\ OnlyTableOf(m.to)
<1>1. m \in ReplyType \/ m \in HelloType
  BY MessageKinds DEF IInv, RecvReply, RecvHello
<1>2. m.to \in Node
  BY <1>1 DEF ReplyType, HelloType
<1> QED
  BY <1>2 DEF IInv, OnlyTableOf, RecvReply, RecvHello, DiscardReply, KeepReply,
     ForwardReply

LEMMA OneOtherReader ==
    ASSUME IInv, NEW m \in msgs, RecvError(m) \/ RecvData(m)
    PROVE  m.to \in Node /\ OnlyTableOf(m.to)
<1>1. m \in ErrorType \/ m \in DataType
  BY MessageKinds DEF IInv, RecvError, RecvData
<1>2. m.to \in Node
  BY <1>1 DEF ErrorType, DataType
<1> QED
  BY <1>2 DEF IInv, OnlyTableOf, RecvError, RecvData

(* In every step at most one node changes its table. *)
LEMMA OneNodeActs ==
    ASSUME IInv, Next
    PROVE  \E n \in Node : OnlyTableOf(n)
<1>1. ASSUME NEW n \in Node, NEW d \in Node, AppSend(n, d) \/ Retry(n, d) \/ GiveUp(n, d)
      PROVE  OnlyTableOf(n)
  BY <1>1, TableKept DEF AppSend, Retry, GiveUp
<1>2. ASSUME NEW m \in msgs, Deliver(m)
      PROVE  \E n \in Node : OnlyTableOf(n)
  BY <1>2, OneRequestReader, OneReplyReader, OneOtherReader DEF Deliver
<1>3. ASSUME NEW m \in msgs, Lose(m)
      PROVE  \E n \in Node : OnlyTableOf(n)
  <2>1. \/ m \in RequestType \/ m \in ReplyType \/ m \in HelloType
        \/ m \in ErrorType \/ m \in DataType
    BY DEF IInv, GoodMsg, MsgType
  <2>2. m.to \in Node
    BY <2>1 DEF RequestType, ReplyType, HelloType, ErrorType, DataType
  <2> QED
    BY <1>3, <2>2, TableKept DEF Lose
<1>4. ASSUME NEW n \in Node, SendHello(n)
      PROVE  OnlyTableOf(n)
  BY <1>4, TableKept DEF SendHello
<1>5. ASSUME NEW n \in Node, NEW id, NEW Q, NEW S, NbDelete(n, id, Q, S)
      PROVE  OnlyTableOf(n)
  BY <1>5 DEF IInv, NbDelete, OnlyTableOf
<1>6. ASSUME NEW n \in Node, NEW d \in Node, NEW i, RtPurge(n, d, i)
      PROVE  OnlyTableOf(n)
  BY <1>6 DEF IInv, RtPurge, OnlyTableOf
<1>7. ASSUME NEW n \in Node, NEW x \in bcache[n], IdPurge(n, x)
      PROVE  OnlyTableOf(n)
  BY <1>7, TableKept DEF IdPurge
<1> QED
  BY <1>1, <1>2, <1>3, <1>4, <1>5, <1>6, <1>7 DEF Next

---------------------------------------------------------------------------
(* Numbers. *)

(* NeverAheadOfDestination, said of everything that holds a number: what   *)
(* is announced was issued; what stands for a lost route, in an entry, in  *)
(* the highest number heard, in an error or in a request for a route, is   *)
(* at most one ahead.                                                      *)
NumbersBehind ==
    /\ \A n, d \in Node :
          /\ rt[n][d].flags = "UP" => rt[n][d].seqno <= seqno[d]
          /\ rt[n][d].seqno <= seqno[d] + 1
          /\ rt[n][d].hiseq <= seqno[d] + 1
    /\ \A m \in msgs :
          /\ Announces(m) => Number(m) <= seqno[About(m)]
          /\ m.type = "RREQ" => m.dseq <= seqno[m.dst] + 1
          /\ m.type = "RERR" => \A r \in m.dests : r.seqno <= seqno[r.dst] + 1

(* The types of the numbers in a message. *)
LEMMA MessageNumbers ==
    ASSUME NEW m \in GoodMsg
    PROVE  /\ Announces(m) =>
                 /\ About(m) \in Node /\ Number(m) \in Nat /\ Number(m) \in Issued
                 /\ m.hop \in Octet /\ m.from \in Node /\ m.to \in Node
           /\ m.type = "RREQ" => m.dst \in Node /\ m.dseq \in Nat /\ m.from \in Node
           /\ m.type = "RERR" =>
                 /\ m.from \in Node
                 /\ \A r \in m.dests : r.dst \in Node /\ r.seqno \in Nat
<1>1. CASE m.type = "RREQ"
  BY <1>1, MessageKinds DEF Announces, About, Number, RequestType, Issued
<1>2. CASE m.type = "RREP"
  BY <1>2, MessageKinds DEF Announces, About, Number, ReplyType, Issued
<1>3. CASE m.type = "HELLO"
  BY <1>3, MessageKinds DEF Announces, About, Number, HelloType, Issued, Octet
<1>4. CASE m.type = "RERR"
  BY <1>4, MessageKinds DEF Announces, ErrorType
<1> QED
  BY <1>1, <1>2, <1>3, <1>4 DEF Announces

LEMMA EntryNumbers ==
    ASSUME NEW e \in GoodEntry
    PROVE  /\ e.seqno \in Nat /\ e.hiseq \in Nat /\ e.adv \in Nat
           /\ e.flags \in {"UP", "DOWN"} /\ e.paths \in PathList
BY DEF GoodEntry, EntryType, Word

LEMMA HeardBehind ==
    ASSUME IInv, NumbersBehind, NEW n \in Node, NEW d \in Node, NEW h, Heard(n, d, h)
    PROVE  h <= seqno[d] + 1
BY DEF Heard, NumbersBehind

LEMMA EntryBehindStep ==
    ASSUME IInv, IInv', NumbersBehind, Effects, NEW n \in Node, NEW d \in Node
    PROVE  /\ rt'[n][d].flags = "UP" => rt'[n][d].seqno <= seqno'[d]
           /\ rt'[n][d].seqno <= seqno'[d] + 1
           /\ rt'[n][d].hiseq <= seqno'[d] + 1
<1> DEFINE e == rt[n][d]
           f == rt'[n][d]
<1>1. Changes(n, d, e, f)
  BY DEF Effects, EntryStep
<1>2. /\ seqno[d] \in Nat /\ seqno'[d] \in Nat /\ seqno'[d] >= seqno[d]
      /\ e.seqno \in Nat /\ f.seqno \in Nat /\ f.hiseq \in Nat
  <2>1. e \in GoodEntry /\ f \in GoodEntry
    BY DEF IInv
  <2>2. seqno[d] \in Nat /\ seqno'[d] \in Nat /\ seqno'[d] >= seqno[d]
    BY DEF IInv, Issued, Effects
  <2> QED
    BY <2>1, <2>2, EntryNumbers
<1>3. /\ e.flags = "UP" => e.seqno <= seqno[d]
      /\ e.seqno <= seqno[d] + 1
  BY DEF NumbersBehind
<1> HIDE DEF e, f
<1>4. f.hiseq <= seqno[d] + 1
  BY <1>1, HeardBehind DEF Changes
<1>5. CASE Kept(e, f)
  BY <1>2, <1>3, <1>4, <1>5 DEF Kept, f
<1>6. CASE Dropped(n, d, e, f)
  <2>1. f.seqno <= seqno[d] + 1 /\ f.flags = "DOWN"
    BY <1>2, <1>3, <1>6, HeardBehind DEF Dropped
  <2> QED
    BY <1>2, <1>4, <2>1 DEF f
<1>7. ASSUME NEW m \in msgs, Announces(m), About(m) = d, Learned(e, f, m)
      PROVE  f.seqno <= seqno[d]
  BY <1>7 DEF Learned, NumbersBehind
<1> QED
  BY <1>1, <1>2, <1>4, <1>5, <1>6, <1>7 DEF Changes, f

LEMMA MessageBehindStep ==
    ASSUME IInv, IInv', NumbersBehind, Effects, NEW m \in msgs'
    PROVE  /\ Announces(m) => Number(m) <= seqno'[About(m)]
           /\ m.type = "RREQ" => m.dseq <= seqno'[m.dst] + 1
           /\ m.type = "RERR" => \A r \in m.dests : r.seqno <= seqno'[r.dst] + 1
<1>1. \A d \in Node : seqno[d] \in Nat /\ seqno'[d] \in Nat /\ seqno'[d] >= seqno[d]
  BY DEF IInv, Issued, Effects
<1>2. m \in GoodMsg
  BY DEF IInv
<1>3. CASE m \in msgs
  BY <1>1, <1>2, <1>3, MessageNumbers DEF NumbersBehind
<1>4. CASE m \notin msgs
  <2>1. Sent(m)
    BY <1>4 DEF Effects
  <2>2. ASSUME Announces(m)
        PROVE  Number(m) <= seqno'[About(m)]
    <3>1. Speaks(m) /\ About(m) \in Node /\ m.from \in Node /\ Number(m) \in Nat
      BY <1>2, <2>1, <2>2, MessageNumbers DEF Sent
    <3>2. CASE m.from = About(m)
      BY <1>1, <3>1, <3>2 DEF Speaks
    <3>3. CASE m.from # About(m)
      BY <3>1, <3>3, EntryBehindStep DEF Speaks
    <3> QED
      BY <3>2, <3>3
  <2>3. ASSUME m.type = "RREQ"
        PROVE  m.dseq <= seqno'[m.dst] + 1
    <3>1. Asks(m) /\ m.dst \in Node /\ m.from \in Node /\ m.dseq \in Nat
      BY <1>2, <2>1, <2>3, MessageNumbers DEF Sent
    <3>2. m.dseq <= seqno[m.dst] + 1
      BY <3>1 DEF Asks, NumbersBehind
    <3> QED
      BY <1>1, <3>1, <3>2
  <2>4. ASSUME m.type = "RERR", NEW r \in m.dests
        PROVE  r.seqno <= seqno'[r.dst] + 1
    <3>1. Reports(m) /\ r.dst \in Node /\ m.from \in Node
      BY <1>2, <2>1, <2>4, MessageNumbers DEF Sent
    <3>2. r.seqno = rt'[m.from][r.dst].seqno
      BY <2>4, <3>1 DEF Reports
    <3> QED
      BY <3>1, <3>2, EntryBehindStep
  <2> QED
    BY <2>2, <2>3, <2>4
<1> QED
  BY <1>3, <1>4

LEMMA NumbersBehindStep ==
    ASSUME IInv, IInv', NumbersBehind, Effects
    PROVE  NumbersBehind'
<1>1. \A m : Announces(m)' = Announces(m) /\ Number(m)' = Number(m)
             /\ About(m)' = About(m)
  BY DEF Announces, Number, About
<1> QED
  BY <1>1, EntryBehindStep, MessageBehindStep DEF NumbersBehind

(* A route in use carries a number its destination has issued, a lost one  *)
(* or a request for it is at most one ahead: the answer of the destination *)
(* (recvRequest, AnswerSeqno) is newer than anything in the network.       *)
THEOREM NeverAhead == Spec => []NeverAheadOfDestination
<1>1. Init => NumbersBehind
  <2> SUFFICES ASSUME Init PROVE NumbersBehind
    OBVIOUS
  <2>1. msgs = {} /\ \A n, d \in Node : /\ rt[n][d].flags = "DOWN" /\ seqno[d] = 2
                                        /\ rt[n][d].seqno = 0 /\ rt[n][d].hiseq = 0
    BY DEF Init, NewEntry
  <2> QED
    BY <2>1 DEF NumbersBehind
<1>2. (IInv /\ NoStrandedPacket) /\ (IInv /\ NoStrandedPacket)' /\ NumbersBehind
        /\ [Next]_vars => NumbersBehind'
  BY StepEffects, NumbersBehindStep
<1>3. IInv /\ NumbersBehind => NeverAheadOfDestination
  <2> SUFFICES ASSUME IInv, NumbersBehind PROVE NeverAheadOfDestination
    OBVIOUS
  <2>1. ASSUME NEW n \in Node, NEW d \in Node
        PROVE  rt[n][d].seqno
                 <= seqno[d] + (IF rt[n][d].flags = "UP" THEN 0 ELSE 1)
    <3>1. seqno[d] \in Nat
      BY DEF IInv, Issued
    <3> QED
      BY <3>1 DEF NumbersBehind
  <2> QED
    BY <2>1 DEF NeverAheadOfDestination, NumbersBehind
<1> QED
  BY <1>1, <1>2, <1>3, Invariance, PTL DEF Spec

---------------------------------------------------------------------------
(* Paths. *)

(* What is left of a list when the i-th member is removed. *)
LEMMA RemoveAtMembers ==
    ASSUME NEW S, NEW s \in Seq(S), NEW i \in 1 .. Len(s)
    PROVE  /\ Len(RemoveAt(s, i)) = Len(s) - 1
           /\ \A j \in 1 .. Len(s) - 1 :
                 RemoveAt(s, i)[j] = IF j < i THEN s[j] ELSE s[j + 1]
<1> DEFINE a == SubSeq(s, 1, i - 1)
           b == SubSeq(s, i + 1, Len(s))
<1>1. a \in Seq(S) /\ Len(a) = i - 1 /\ \A j \in 1 .. i - 1 : a[j] = s[j]
  OBVIOUS
<1>2. /\ b \in Seq(S) /\ Len(b) = Len(s) - i
      /\ \A j \in 1 .. Len(s) - i : b[j] = s[i + j]
  OBVIOUS
<1>3. RemoveAt(s, i) = a \o b
  BY DEF RemoveAt
<1> HIDE DEF a, b
<1>4. /\ Len(a \o b) = Len(s) - 1
      /\ \A j \in 1 .. Len(s) - 1 :
            (a \o b)[j] = IF j < i THEN a[j] ELSE b[j - (i - 1)]
  <2>1. a \in Seq(S) /\ b \in Seq(S) /\ Len(a) \in Nat /\ Len(b) \in Nat
    BY <1>1, <1>2
  <2>2. /\ Len(a \o b) = Len(a) + Len(b)
        /\ \A j \in 1 .. Len(a) + Len(b) :
              (a \o b)[j] = IF j <= Len(a) THEN a[j] ELSE b[j - Len(a)]
    BY <2>1
  <2>3. Len(a) + Len(b) = Len(s) - 1
    BY <1>1, <1>2
  <2>4. \A j \in 1 .. Len(s) - 1 : j <= Len(a) <=> j < i
    BY <1>1
  <2> QED
    BY <1>1, <2>2, <2>3, <2>4
<1>5. ASSUME NEW j \in 1 .. Len(s) - 1
      PROVE  (a \o b)[j] = IF j < i THEN s[j] ELSE s[j + 1]
  <2>1. CASE j < i
    BY <1>1, <1>4, <2>1
  <2>2. CASE ~ (j < i)
    <3>1. j - (i - 1) \in 1 .. Len(s) - i /\ i + (j - (i - 1)) = j + 1
      BY <2>2
    <3> QED
      BY <1>2, <1>4, <2>2, <3>1
  <2> QED
    BY <2>1, <2>2
<1> QED
  BY <1>3, <1>4, <1>5

(* A list of at most MaxPaths paths, no two of which share a next hop or a *)
(* last hop.                                                               *)
Disjoint(ps) ==
    /\ Len(ps) <= MaxPaths
    /\ \A i, j \in DOMAIN ps :
          i # j => ps[i].nexthop # ps[j].nexthop /\ ps[i].lasthop # ps[j].lasthop

LEMMA RemoveAtDisjoint ==
    ASSUME NEW ps \in PathList, NEW k \in DOMAIN ps, Disjoint(ps)
    PROVE  Disjoint(RemoveAt(ps, k))
<1> DEFINE qs == RemoveAt(ps, k)
           at(j) == IF j < k THEN j ELSE j + 1
<1>1. ps \in Seq(PathType) /\ k \in 1 .. Len(ps) /\ Len(ps) \in Nat
      /\ DOMAIN ps = 1 .. Len(ps)
  BY DEF PathList
<1>2. /\ qs \in Seq(PathType) /\ Len(qs) = Len(ps) - 1
      /\ \A j \in 1 .. Len(ps) - 1 :
            qs[j] = IF j < k THEN ps[j] ELSE ps[j + 1]
  BY <1>1, RemoveAtType, RemoveAtMembers
<1>3. DOMAIN qs = 1 .. Len(ps) - 1
  BY <1>2
<1> HIDE DEF qs
<1>4. \A j \in DOMAIN qs : at(j) \in DOMAIN ps /\ qs[j] = ps[at(j)]
  BY <1>1, <1>2, <1>3
<1>5. \A i, j \in DOMAIN qs : i # j => at(i) # at(j)
  BY <1>1, <1>3
<1>6. Len(qs) <= MaxPaths
  BY <1>1, <1>2, MaxPathsAssumption DEF Disjoint
<1> HIDE DEF at
<1>7. Disjoint(qs)
  BY <1>4, <1>5, <1>6 DEF Disjoint
<1> QED
  BY <1>7 DEF qs

LEMMA AppendDisjoint ==
    ASSUME NEW ps \in PathList, NEW p \in PathType, Disjoint(ps),
           new_disjoint_path(ps, p), Len(ps) < MaxPaths
    PROVE  Disjoint(Append(ps, p))
<1> DEFINE qs == Append(ps, p)
<1>1. ps \in Seq(PathType) /\ Len(ps) \in Nat /\ DOMAIN ps = 1 .. Len(ps)
  BY DEF PathList
<1>2. /\ Len(qs) = Len(ps) + 1 /\ DOMAIN qs = 1 .. Len(ps) + 1
      /\ \A j \in 1 .. Len(ps) : qs[j] = ps[j]
      /\ qs[Len(ps) + 1] = p
  BY <1>1
<1> HIDE DEF qs
<1>3. Len(qs) <= MaxPaths
  BY <1>1, <1>2, MaxPathsAssumption
<1>4. ASSUME NEW i \in DOMAIN qs, NEW j \in DOMAIN qs, i # j
      PROVE  qs[i].nexthop # qs[j].nexthop /\ qs[i].lasthop # qs[j].lasthop
  <2>1. CASE i \in DOMAIN ps /\ j \in DOMAIN ps
    BY <1>1, <1>2, <1>4, <2>1 DEF Disjoint
  <2>2. CASE i = Len(ps) + 1 /\ j \in DOMAIN ps
    BY <1>1, <1>2, <2>2 DEF new_disjoint_path
  <2>3. CASE i \in DOMAIN ps /\ j = Len(ps) + 1
    BY <1>1, <1>2, <2>3 DEF new_disjoint_path
  <2> QED
    BY <1>1, <1>2, <1>4, <2>1, <2>2, <2>3
<1>5. Disjoint(qs)
  BY <1>3, <1>4 DEF Disjoint
<1> QED
  BY <1>5 DEF qs

LEMMA OnePathDisjoint ==
    ASSUME NEW p
    PROVE  Disjoint(<<p>>)
<1>1. Len(<<p>>) = 1 /\ DOMAIN <<p>> = {1}
  OBVIOUS
<1> QED
  BY <1>1, MaxPathsAssumption DEF Disjoint

LEMMA NoPathDisjoint == Disjoint(<< >>)
<1>1. Len(<< >>) = 0 /\ DOMAIN << >> = {}
  OBVIOUS
<1> QED
  BY <1>1, MaxPathsAssumption DEF Disjoint

(* The path an announcement opens leads to its sender. *)
LEMMA ViaPath ==
    ASSUME NEW m \in GoodMsg, Announces(m)
    PROVE  Via(m) \in PathType /\ Via(m).nexthop = m.from /\ Via(m).hopcount = m.hop + 1
<1>1. CASE m.type = "RREQ"
  <2>1. Via(m) = RequestPath(m) /\ m \in RequestType
    BY <1>1, MessageKinds DEF Via
  <2>2. RequestPath(m).nexthop = m.from /\ RequestPath(m).hopcount = m.hop + 1
    BY DEF RequestPath, Path
  <2> QED
    BY <2>1, <2>2, RequestPathType
<1>2. CASE m.type \in {"RREP", "HELLO"}
  <2>1. Via(m) = ReplyPath(m) /\ m \in ReplyType \cup HelloType
    BY <1>2, MessageKinds DEF Via
  <2>2. ReplyPath(m).nexthop = m.from /\ ReplyPath(m).hopcount = m.hop + 1
    BY DEF ReplyPath, Path
  <2> QED
    BY <2>1, <2>2, ReplyPathType
<1> QED
  BY <1>1, <1>2 DEF Announces

LEMMA DisjointStep ==
    ASSUME IInv, Effects, \A n, d \in Node : Disjoint(rt[n][d].paths),
           NEW n \in Node, NEW d \in Node
    PROVE  Disjoint(rt'[n][d].paths)
<1> DEFINE e == rt[n][d]
           f == rt'[n][d]
<1>1. Changes(n, d, e, f) /\ Disjoint(e.paths)
  BY DEF Effects, EntryStep
<1>2. e.paths \in PathList
  <2>1. e \in GoodEntry
    BY DEF IInv
  <2> QED
    BY <2>1, EntryNumbers
<1> HIDE DEF e, f
<1>3. CASE Kept(e, f)
  BY <1>1, <1>2, <1>3, RemoveAtDisjoint DEF Kept, f
<1>4. CASE Dropped(n, d, e, f)
  BY <1>4, NoPathDisjoint DEF Dropped, f
<1>5. ASSUME NEW m \in msgs, Announces(m), Learned(e, f, m)
      PROVE  Disjoint(f.paths)
  <2>1. Via(m) \in PathType
    BY <1>5, ViaPath DEF IInv
  <2> QED
    BY <1>1, <1>2, <1>5, <2>1, OnePathDisjoint, AppendDisjoint DEF Learned, CanInsert
<1> QED
  BY <1>1, <1>3, <1>4, <1>5 DEF Changes, f

(* No two paths of an entry share a next hop or a last hop, and no entry   *)
(* has more than MaxPaths: in whatever order copies of floods, replies and *)
(* beacons arrive and paths are lost.                                      *)
THEOREM PathsDisjoint == Spec => []DisjointPaths
<1> DEFINE Inv == \A n, d \in Node : Disjoint(rt[n][d].paths)
<1>1. Init => Inv
  BY NoPathDisjoint DEF Init, NewEntry
<1>2. (IInv /\ NoStrandedPacket) /\ Inv /\ [Next]_vars => Inv'
  <2>1. ASSUME IInv, Inv, [Next]_vars
        PROVE  \A n, d \in Node : Disjoint(rt'[n][d].paths)
    BY <2>1, StepEffects, DisjointStep
  <2> QED
    BY <2>1 DEF Disjoint
<1>3. Inv => DisjointPaths
  BY DEF Disjoint, DisjointPaths
<1> QED
  BY <1>1, <1>2, <1>3, Invariance, PTL DEF Spec
=============================================================================
