---------------------------- MODULE EamrpRtEntry ----------------------------
(***************************************************************************)
(* A routing table entry (class eamrp_rt_entry) and its list of paths.     *)
(*                                                                         *)
(* The list of paths is a sequence: path_insert appends at the tail and    *)
(* every other operation scans from the head.  rt_num_paths_ is the length *)
(* of the sequence.  The lifetime of a path is left out here: when a path  *)
(* expires is a choice of the module that purges it.                       *)
(***************************************************************************)
EXTENDS Integers, Sequences, SequencesExt, FiniteSetsExt

CONSTANTS
    MaxPaths,       \* eamrp_max_paths_
    LenDiff,        \* eamrp_prim_alt_path_len_diff_
    Infinity        \* what "rt_advertised_hops = INFINITY" stores: INFINITY is
                    \* the float of math.h, and the conversion to 16 bits is
                    \* undefined (g++ stores 65535)

(* The values of u_int8_t and u_int16_t fields. *)
Octet == {k \in Nat : k < 256}
Word == {k \in Nat : k < 65536}

ASSUME MaxPathsAssumption == MaxPaths \in Nat \ {0}
ASSUME LenDiffAssumption == LenDiff \in Nat
ASSUME InfinityAssumption == Infinity \in Word

INFINITY2 == 255    \* the "no hop count" of eamrp_rtable.cc

(* The larger of two numbers, as the max macro has it. *)
Larger(a, b) == IF a >= b THEN a ELSE b

(* Storing a hop count in the eight bits of rq_hop_count or rp_hop_count. *)
Byte(h) == h % 256

(* The entry rt_add creates; a destination that was never looked up is     *)
(* indistinguishable from one with this entry.                             *)
NewEntry == [flags |-> "DOWN", seqno |-> 0, adv |-> INFINITY2,
             paths |-> << >>, hiseq |-> 0, err |-> FALSE]

---------------------------------------------------------------------------
(* The path list. *)

Path(nexthop, hopcount, lasthop) ==
    [nexthop |-> nexthop, hopcount |-> hopcount, lasthop |-> lasthop]

path_insert(paths, p) == Append(paths, p)

path_lookup(paths, id) == \E i \in DOMAIN paths : paths[i].nexthop = id

disjoint_path_lookup(paths, p) ==
    \E i \in DOMAIN paths : /\ paths[i].nexthop = p.nexthop
                            /\ paths[i].lasthop = p.lasthop

(* Variant: only the next hop is compared. *)
NewNextHopOnly(paths, p) == \A i \in DOMAIN paths : paths[i].nexthop # p.nexthop

new_disjoint_path(paths, p) ==
    \A i \in DOMAIN paths : /\ paths[i].nexthop # p.nexthop
                            /\ paths[i].lasthop # p.lasthop

(* The indices of the paths whose last hop is id; the code takes the first. *)
WithLastHop(paths, id) == {i \in DOMAIN paths : paths[i].lasthop = id}

path_lookup_lasthop(paths, id) == paths[Min(WithLastHop(paths, id))]

(* path_delete(id) unlinks the first path through id, if there is one. *)
path_delete(paths, id) ==
    IF path_lookup(paths, id)
    THEN RemoveAt(paths, Min({i \in DOMAIN paths : paths[i].nexthop = id}))
    ELSE paths

(* path_purge unlinks the expired paths, one at a time. *)
path_purge(paths, i) == RemoveAt(paths, i)

path_find(paths) == paths[1]

HopCounts(paths) == {paths[i].hopcount : i \in DOMAIN paths}

path_get_max_hopcount(paths) ==
    LET highest == Max(HopCounts(paths) \cup {0})
    IN  IF highest = 0 THEN INFINITY2 ELSE highest

path_get_min_hopcount(paths) == Min(HopCounts(paths) \cup {INFINITY2})

---------------------------------------------------------------------------
(* What recvRequest and recvReply do to the entry of the node that the     *)
(* message announces, with its sequence number seq, at hop hops from the   *)
(* sender.                                                                 *)

(* Variant: an equal number counts as newer. *)
IsNotOlder(e, seq) == e.seqno <= seq

(* Variant: any other number counts as newer. *)
IsDifferent(e, seq) == e.seqno # seq

IsNewer(e, seq) == e.seqno < seq

(* Same sequence number and a hop count below the advertised one. *)
IsBetter(e, seq, hop) == e.seqno = seq /\ e.adv > hop

TooLong(e, p) == p.hopcount - path_get_min_hopcount(e.paths) > LenDiff

(* There is room for an alternate path, disjoint and not too long. *)
CanInsert(e, p) ==
    /\ new_disjoint_path(e.paths, p)
    /\ Len(e.paths) < MaxPaths
    /\ ~ TooLong(e, p)

(* Variant: the number is not taken over. *)
RestartKeepsSeqno(e, seq, p) ==
    [e EXCEPT !.flags = "UP", !.adv = Infinity, !.paths = path_insert(<< >>, p)]

(* A newer sequence number starts the entry afresh with one path. *)
Restart(e, seq, p) ==
    [e EXCEPT !.flags = "UP", !.seqno = seq, !.adv = Infinity,
              !.paths = path_insert(<< >>, p)]

(* The entry after a message that is not stale was applied to it. *)
UpdatedEntry(e, seq, p) ==
    IF IsNewer(e, seq) THEN Restart(e, seq, p)
    ELSE IF CanInsert(e, p)
    THEN [e EXCEPT !.paths = path_insert(e.paths, p)]
    ELSE e

(* The update leaves the announced path p in the entry. *)
HoldsPath(e, seq, p) ==
    IsNewer(e, seq) \/ disjoint_path_lookup(e.paths, p) \/ CanInsert(e, p)


(* "rt_advertised_hops == INFINITY": no 16 bit number equals the float.    *)
IsINFINITY(h) == FALSE

(* Route advertisement: the hop count announced for a sequence number is   *)
(* to be fixed the first time it is announced, which the test prevents.    *)
Advertise(e) ==
    IF IsINFINITY(e.adv)
    THEN [e EXCEPT !.adv = path_get_max_hopcount(e.paths)]
    ELSE e

---------------------------------------------------------------------------
(* How an entry loses its last path. *)

rt_down(e) == [e EXCEPT !.flags = "DOWN", !.adv = Infinity, !.paths = << >>]

(* Variant: the sequence number is not raised. *)
LinkFailureKeepsSeqno(e, id) ==
    LET left == path_delete(e.paths, id)
    IN  IF left # << >> THEN [e EXCEPT !.paths = left]
                        ELSE rt_down([e EXCEPT !.err = FALSE])

(* Variant: rt_down is not called. *)
LinkFailureStaysUp(e, id) ==
    [e EXCEPT !.paths = path_delete(e.paths, id),
              !.seqno = IF path_delete(e.paths, id) = << >> THEN @ + 1 ELSE @]

(* handle_link_failure, for one entry with a path through id. *)
AfterLinkFailure(e, id) ==
    LET left == path_delete(e.paths, id)
    IN  IF left # << >>
        THEN [e EXCEPT !.paths = left]
        ELSE rt_down([e EXCEPT !.seqno = Larger(e.seqno + 1, e.hiseq),
                               !.err = FALSE])

(* Variant: the reported number is not taken over. *)
ErrorKeepsSeqno(e, id, seq) ==
    LET left == path_delete(e.paths, id)
    IN  IF left # << >> THEN [e EXCEPT !.paths = left]
                        ELSE rt_down([e EXCEPT !.err = FALSE])

(* recvError, for one entry with a path through the sender of the error. *)
AfterError(e, id, seq) ==
    LET left == path_delete(e.paths, id)
        heard == Larger(e.hiseq, seq)
    IN  IF left # << >>
        THEN [e EXCEPT !.paths = left, !.hiseq = heard]
        ELSE rt_down([e EXCEPT !.seqno = heard, !.hiseq = heard,
                               !.err = FALSE])

(* Variant: the sequence number is not raised. *)
ExpiryKeepsSeqno(e, i) ==
    LET left == path_purge(e.paths, i)
    IN  IF left # << >> THEN [e EXCEPT !.paths = left] ELSE rt_down(e)

(* Variant: it is raised past the number the destination may issue next. *)
ExpirySkipsSeqno(e, i) ==
    LET left == path_purge(e.paths, i)
    IN  IF left # << >> THEN [e EXCEPT !.paths = left]
                        ELSE rt_down([e EXCEPT !.seqno = @ + 3])

(* rt_purge, for one entry that is up and whose i-th path has expired. *)
AfterExpiry(e, i) ==
    LET left == path_purge(e.paths, i)
        next == Larger(e.seqno + 1, e.hiseq)
    IN  IF left # << >>
        THEN [e EXCEPT !.paths = left]
        ELSE rt_down([e EXCEPT !.seqno = IF next % 2 = 0 THEN next + 1
                                         ELSE next])
=============================================================================
