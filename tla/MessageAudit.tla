---------------------------- MODULE MessageAudit ----------------------------
(***************************************************************************)
(* What check_message_latencies computes, stated over sets (spec 4.7):    *)
(* the skew of a message is spawn - create when the spawn is later; the   *)
(* skews of the messages whose creator ran on a profiled processor are    *)
(* grouped by (creator node, executor node) into a count and a total; a   *)
(* meta-task message is slow when its create, moved forward by the        *)
(* truncated mean skew of its pair, is not before its spawn and at least  *)
(* the threshold after it.  The audit panics when a message it visits has *)
(* no entry, spawn or create, or shows skew against a creator on its own  *)
(* node.  One step does the whole audit; before it, the profile it will   *)
(* read may change, after it not.                                         *)
(***************************************************************************)
EXTENDS Integers, FiniteSets

LOCAL INSTANCE FiniteSetsExt

CONSTANTS Threshold, None

VARIABLES
    input,          \* what the audit reads: [entries (proc -> ProfUID ->
                    \* TimeRange), skewVisits and latencyVisits (the
                    \* <<proc, uid>> pairs of the two loops), creatorProc
                    \* (ProfUID -> processor of its creator, or None),
                    \* node (processor -> node)]
    auditState,     \* "pending" | "done" | "failed"
    skewTable,      \* (creator node, executor node) -> [n, sum]
    slow            \* the ProfUIDs of the slow messages

avars == <<auditState, skewTable, slow>>

Entries == input.entries
SkewVisits == input.skewVisits
LatencyVisits == input.latencyVisits
CreatorProc(u) == input.creatorProc[u]
Node(p) == input.node[p]

TR(m) == Entries[m[1]][m[2]]

Readable(m) ==
    m[2] \in DOMAIN Entries[m[1]] /\ TR(m).spawn # None /\ TR(m).create # None

Skew(m) == TR(m).spawn - TR(m).create

PairOf(m) == <<Node(CreatorProc(m[2])), Node(m[1])>>

Attributed ==
    {m \in SkewVisits : Readable(m) /\ Skew(m) > 0 /\ CreatorProc(m[2]) # None}

Table ==
    [pr \in {PairOf(m) : m \in Attributed} |->
        LET ms == {m \in Attributed : PairOf(m) = pr}
        IN  [n |-> Cardinality(ms), sum |-> MapThenSumSet(Skew, ms)]]

Fails ==
    \E m \in SkewVisits :
       \/ ~Readable(m)
       \/ m \in Attributed /\ Node(CreatorProc(m[2])) = Node(m[1])

Corrected(m) ==
    TR(m).create + (IF PairOf(m) \in DOMAIN Table
                    THEN Table[PairOf(m)].sum \div Table[PairOf(m)].n ELSE 0)

Slow ==
    {m[2] : m \in {m \in LatencyVisits :
                      /\ CreatorProc(m[2]) # None
                      /\ TR(m).spawn <= Corrected(m)
                      /\ Threshold <= Corrected(m) - TR(m).spawn}}

AInit == auditState = "pending" /\ skewTable = <<>> /\ slow = {}

Complete ==
    /\ auditState = "pending"
    /\ ~Fails
    /\ auditState' = "done"
    /\ skewTable' = Table
    /\ slow' = Slow

Panic ==
    /\ auditState = "pending"
    /\ Fails
    /\ auditState' = "failed"
    /\ UNCHANGED <<skewTable, slow>>

(* Whatever runs before the audit may change what it will read.         *)
Prepare ==
    /\ auditState = "pending"
    /\ UNCHANGED avars

ASpec == AInit /\ [][Complete \/ Panic \/ Prepare]_<<input, avars>>

=============================================================================
