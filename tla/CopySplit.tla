------------------------------ MODULE CopySplit ------------------------------
(***************************************************************************)
(* Copy::split_by_channel (state.rs): the CopyInstInfo rows of one copy    *)
(* are grouped first by indirection (slice_group_by's linear_group_by with *)
(* the predicate |i, _| i.indirect) and then by (src, dst) memory pair;    *)
(* each group becomes a Copy with a fresh ProfUID, a copy kind and a       *)
(* channel, and the copy's event node is re-pointed to the new ProfUID.    *)
(* process_records calls it once per copy, after all records are in.       *)
(***************************************************************************)
EXTENDS Integers, Sequences, FiniteSets, TLC

LOCAL INSTANCE SequencesExt

CONSTANTS
    Mems,       \* MemIDs the rows name
    Rows,       \* the CopyInstInfo rows a log may carry (src, dst, indirect)
    MaxRows,    \* the longest copy_inst_infos of the model
    None

VARIABLES
    infos,      \* copy_inst_infos of the Copy being split
    result,     \* the Vec<Copy> returned
    nextUid,    \* ProfUIDAllocator's next fresh ProfUID
    creator,    \* creator of the copy's EventEntry (a ProfUID)
    pc          \* "split" | "done" | "aborted"

vars == <<infos, result, nextUid, creator, pc>>

(* The grouping predicates: |i, _| i.indirect for the first level and    *)
(* |a, b| a.src == b.src && a.dst == b.dst for the second.                *)
IndirectPred(a, b) == a.indirect

MemPred(a, b) == a.src = b.src /\ a.dst = b.dst

(* The spec's first level: a run ends before the next marker.            *)
SpecPred(a, b) == ~b.indirect

Continues(mode, a, b) ==
    CASE mode = "indirect" -> IndirectPred(a, b)
      [] mode = "mem"      -> MemPred(a, b)
      [] OTHER             -> SpecPred(a, b)

(* slice_group_by::linear_group_by: consecutive elements stay in one      *)
(* group while the predicate holds of (previous, next).                   *)
RECURSIVE LinearGroupBy(_, _)
LinearGroupBy(s, mode) ==
    IF s = <<>> THEN <<>>
    ELSE LET rest == LinearGroupBy(Tail(s), mode)
         IN  IF rest # <<>> /\ Continues(mode, Head(s), Head(rest[1]))
             THEN <<<<Head(s)>> \o rest[1]>> \o Tail(rest)
             ELSE <<<<Head(s)>>>> \o rest

IndirectGroups(s) == LinearGroupBy(s, "indirect")
MemGroups(s) == LinearGroupBy(s, "mem")

(* The marker of an indirect group: its first row when that is indirect. *)
Marker(g) == IF Head(g).indirect THEN Head(g) ELSE None
(* Mutant: the first row is sliced off every group, marker or not.      *)
RestAlwaysTail(g) == Tail(g)

Rest(g) == IF Marker(g) # None THEN Tail(g) ELSE g

IndirectSrc(g) == Marker(g) # None /\ Marker(g).src # None
IndirectDst(g) == Marker(g) # None /\ Marker(g).dst # None

CopyKindOf(g) ==
    CASE ~IndirectSrc(g) /\ ~IndirectDst(g) -> "Copy"
      [] IndirectSrc(g) /\ ~IndirectDst(g)  -> "Gather"
      [] ~IndirectSrc(g) /\ IndirectDst(g)  -> "Scatter"
      [] OTHER                              -> "GatherScatter"

(* Mutant: a gather's channel is taken from the source memory.          *)
ChanOfGatherSrc(g, info) ==
    CASE ~IndirectSrc(g) /\ ~IndirectDst(g) /\ info.src # None /\ info.dst # None
            -> [kind |-> "Copy", src |-> info.src, dst |-> info.dst]
      [] IndirectSrc(g) /\ ~IndirectDst(g) /\ info.src # None
            -> [kind |-> "Gather", src |-> None, dst |-> info.src]
      [] ~IndirectSrc(g) /\ IndirectDst(g) /\ info.src # None
            -> [kind |-> "Scatter", src |-> info.src, dst |-> None]
      [] OTHER -> None

(* The channel match: None where the code reaches unimplemented!() or     *)
(* unreachable!().                                                        *)
ChanOf(g, info) ==
    CASE ~IndirectSrc(g) /\ ~IndirectDst(g) /\ info.src # None /\ info.dst # None
            -> [kind |-> "Copy", src |-> info.src, dst |-> info.dst]
      [] IndirectSrc(g) /\ ~IndirectDst(g) /\ info.dst # None
            -> [kind |-> "Gather", src |-> None, dst |-> info.dst]
      [] ~IndirectSrc(g) /\ IndirectDst(g) /\ info.src # None
            -> [kind |-> "Scatter", src |-> info.src, dst |-> None]
      [] OTHER -> None

(* The copies one indirect group yields: one per memory group, with the  *)
(* marker put back in front of its rows.                                 *)
GroupCopies(g) ==
    [k \in 1..Len(MemGroups(Rest(g))) |->
        LET mg == MemGroups(Rest(g))[k]
        IN  [kind |-> CopyKindOf(g), chan |-> ChanOf(g, Head(mg)),
             rows |-> IF Marker(g) # None THEN <<Marker(g)>> \o mg ELSE mg]]

SplitCopies(s) == FlattenSeq([k \in 1..Len(IndirectGroups(s)) |->
                                   GroupCopies(IndirectGroups(s)[k])])

(* The asserts of split_by_channel and the panics of its channel match.  *)
SplitPanics(s) == \E k \in DOMAIN SplitCopies(s) : SplitCopies(s)[k].chan = None

(* The non-empty row lists process_records splits: each indirection    *)
(* marker is followed by the rows of its indirect copy (assumption 3).   *)
WellFormed(s) == \A i \in DOMAIN s : s[i].indirect => i < Len(s) /\ ~s[i + 1].indirect

Init ==
    /\ infos \in {s \in UNION {[1..n -> Rows] : n \in 1..MaxRows} : WellFormed(s)}
    /\ result = <<>>
    /\ nextUid = 1
    /\ creator = 0
    /\ pc = "split"

(* split_by_channel: every new Copy takes Base::new(allocator) and the    *)
(* event node's creator is overwritten with it, so the last copy wins.    *)
SplitByChannel ==
    /\ pc = "split"
    /\ ~SplitPanics(infos)
    /\ LET cs == SplitCopies(infos)
       IN  /\ result' = [k \in DOMAIN cs |-> cs[k] @@ [uid |-> nextUid + k - 1]]
           /\ nextUid' = nextUid + Len(cs)
           /\ creator' = IF cs = <<>> THEN creator ELSE nextUid + Len(cs) - 1
    /\ pc' = "done"
    /\ UNCHANGED infos

SplitByChannelPanics ==
    /\ pc = "split"
    /\ SplitPanics(infos)
    /\ pc' = "aborted"
    /\ UNCHANGED <<infos, result, nextUid, creator>>

Terminated == pc \in {"done", "aborted"} /\ UNCHANGED vars

Next == SplitByChannel \/ SplitByChannelPanics \/ Terminated

Spec == Init /\ [][Next]_vars

-----------------------------------------------------------------------------
Row == [src : Mems \cup {None}, dst : Mems \cup {None}, indirect : BOOLEAN]

TypeOK ==
    /\ infos \in Seq(Row)
    /\ \A k \in DOMAIN result :
          /\ result[k].kind \in {"Copy", "Gather", "Scatter", "GatherScatter"}
          /\ result[k].rows \in Seq(Row)
          /\ result[k].uid \in Nat
    /\ nextUid \in Nat /\ creator \in Nat
    /\ pc \in {"split", "done", "aborted"}

(* The rows of a split copy other than its re-inserted marker.           *)
DataRows(c) == IF c.rows # <<>> /\ Head(c.rows).indirect THEN Tail(c.rows)
                                                        ELSE c.rows

(* Splitting neither loses nor duplicates nor reorders a row: the data    *)
(* rows of the copies, in order, are the copy's non-marker rows, and     *)
(* every copy of an indirect group carries that group's marker first.    *)
RowsPreserved ==
    pc = "done" =>
      /\ FlattenSeq([k \in DOMAIN result |-> DataRows(result[k])])
            = SelectSeq(infos, LAMBDA r : ~r.indirect)
      /\ \A k \in DOMAIN result :
            (result[k].kind # "Copy") = Head(result[k].rows).indirect

(* Each split copy moves data between one pair of memories, and its       *)
(* channel is that pair (Copy), the destination (Gather) or the source   *)
(* (Scatter); the ProfUIDs are fresh and the copy's event node names the *)
(* last of them.                                                         *)
ChannelConsistent ==
    pc = "done" =>
      /\ \A k \in DOMAIN result :
            LET d == DataRows(result[k])
                ch == result[k].chan
            IN  /\ d # <<>>
                /\ \A i \in DOMAIN d : d[i].src = d[1].src /\ d[i].dst = d[1].dst
                /\ ch.kind = result[k].kind
                /\ ch.kind # "Gather" => ch.src = d[1].src
                /\ ch.kind # "Scatter" => ch.dst = d[1].dst
      /\ \A k, l \in DOMAIN result : k < l => result[k].uid < result[l].uid
      /\ result # <<>> => creator = result[Len(result)].uid

(* The spec's split (spec 4.4, scenario 4): runs start at each marker,   *)
(* and within a run one copy per stretch of rows with the same pair.     *)
SpecRuns(s) == LinearGroupBy(s, "spec")

SpecCopies(s) ==
    FlattenSeq([k \in 1..Len(SpecRuns(s)) |-> GroupCopies(SpecRuns(s)[k])])

SplitMatchesSpec ==
    pc = "done" =>
      [k \in DOMAIN result |-> [kind |-> result[k].kind, chan |-> result[k].chan,
                                rows |-> result[k].rows]] = SpecCopies(infos)

=============================================================================
