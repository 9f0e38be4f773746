----------------------------- MODULE EventGraph -----------------------------
(***************************************************************************)
(* The Realm event graph of legion_prof_rs (state.rs): the event records   *)
(* of a profile are applied by process_record in whatever order the log    *)
(* presents them, building State.event_graph / State.event_lookup, and     *)
(* then State::compute_critical_paths relaxes the graph in topological     *)
(* order to give every event its critical predecessor and trigger time.   *)
(*                                                                         *)
(* A graph vertex is identified with the EventID that event_lookup maps to *)
(* it (add_node and event_lookup.insert always happen together).  A       *)
(* creator ProfUID is represented by the fevent it was interned from:     *)
(* ProfUIDAllocator::create_reference is injective on fevents, so         *)
(* comparing UIDs is comparing fevents.                                   *)
(***************************************************************************)
EXTENDS Integers, Sequences, FiniteSets, TLC

LOCAL INSTANCE SequencesExt
Gr == INSTANCE Graphs

CONSTANTS
    Nodes,      \* the NodeIDs that own events
    Idx,        \* event / barrier indices within a node
    MaxGen,     \* the largest barrier generation in the log
    Logs,       \* the logs to check, each a sequence of records
    None        \* model value for an absent Option

(* EventID: bit fields of the 64-bit id (EventID::node_id, is_barrier,    *)
(* generation).  The generation is the low 20 bits.                      *)
EventID == [node : Nodes, idx : Idx, barrier : BOOLEAN, gen : 1..MaxGen]

(* get_previous_phase: id - 1 when generation > 1; the generation field  *)
(* is the low bits, so the subtraction decrements it without a borrow.   *)
GetPreviousPhase(e) == IF e.gen > 1 THEN [e EXCEPT !.gen = @ - 1] ELSE None

Kinds == {"UnknownEvent", "TaskEvent", "FillEvent", "CopyEvent",
          "DepPartEvent", "MergeEvent", "TriggerEvent", "PoisonEvent",
          "ArriveBarrier", "ExternalHandshake", "ReservationAcquire",
          "InstanceReady", "InstanceRedistrict", "InstanceDeletion",
          "CompletionQueueEvent", "ExternalEvent"}

(* The kinds whose trigger time compute_critical_paths derives itself.   *)
InstantaneousKinds == {"MergeEvent", "TriggerEvent", "PoisonEvent",
                       "ArriveBarrier", "InstanceReady", "InstanceRedistrict",
                       "ExternalHandshake", "ReservationAcquire",
                       "CompletionQueueEvent"}

VARIABLES
    nodes,      \* event_graph node weights, keyed by the event in event_lookup
    edges,      \* event_graph edges <<src, dst>> in insertion order
    log,        \* the log being processed (fixed in a behaviour)
    pending,    \* indices of log not yet handed to process_record
    phase,      \* "ingest" | "critical" | "done" | "aborted" (a panic)
    relaxed,    \* vertices compute_critical_paths has already visited
    cleared     \* event_lookup.clear() was called: no critical-path data

vars == <<log, nodes, edges, pending, phase, relaxed, cleared>>

(* EventEntry::new *)
NewEntry(kind, creator, ctime, ttime) ==
    [kind |-> kind, creator |-> creator, ctime |-> ctime, ttime |-> ttime,
     critical |-> None]

-----------------------------------------------------------------------------
(* The ingest helpers act on a graph value g = [nodes, edges].           *)

AddNode(g, e, entry) == [g EXCEPT !.nodes = (e :> entry) @@ @]

(* Graph::add_edge allows parallel edges; update_edge does not.         *)
AddEdge(g, s, d) == [g EXCEPT !.edges = Append(@, <<s, d>>)]
UpdateEdge(g, s, d) == IF <<s, d>> \in ToSet(g.edges) THEN g ELSE AddEdge(g, s, d)

(* Mutant: an unseen event gets no placeholder node.                    *)
FindEventNodeNoPlaceholder(g, e) == g

(* State::find_event_node: an unseen event becomes an UnknownEvent      *)
(* placeholder; an unseen barrier phase is chained after its previous   *)
(* phase, found (or created) recursively.                               *)
RECURSIVE FindEventNode(_, _)
FindEventNode(g, e) ==
    IF e \in DOMAIN g.nodes THEN g
    ELSE LET g1 == AddNode(g, e, NewEntry("UnknownEvent", None, None, None))
             prev == GetPreviousPhase(e)
         IN  IF e.barrier /\ prev # None
             THEN AddEdge(FindEventNode(g1, prev), prev, e)
             ELSE g1

(* State::record_event_node: the cases that panic.                      *)
RecordEventNodePanics(g, e, kind, creator, dedup) ==
    /\ e \in DOMAIN g.nodes
    /\ g.nodes[e].kind # "UnknownEvent"
    /\ \/ ~dedup
       \/ g.nodes[e].kind # kind
       \/ g.nodes[e].creator # creator

(* State::record_event_node otherwise: promote a placeholder in place,   *)
(* add a fresh node, or (deduplicated repeat) leave the node alone.     *)
RecordEventNode(g, e, kind, creator, ctime, ttime) ==
    IF e \in DOMAIN g.nodes /\ g.nodes[e].kind # "UnknownEvent"
    THEN g
    ELSE AddNode(g, e, NewEntry(kind, creator, ctime, ttime))

(* The "if let Some(pre) = ..." blocks: find the precondition's node,    *)
(* then add (or, idempotently, update) the edge into dst.               *)
RECURSIVE LinkPreconditions(_, _, _, _)
LinkPreconditions(g, pres, dst, idempotent) ==
    IF pres = <<>> THEN g
    ELSE LET g1 == FindEventNode(g, Head(pres))
             g2 == IF idempotent THEN UpdateEdge(g1, Head(pres), dst)
                                 ELSE AddEdge(g1, Head(pres), dst)
         IN  LinkPreconditions(g2, Tail(pres), dst, idempotent)

-----------------------------------------------------------------------------
(* A record r has fields tag, result, fevent, pres (the Some(_)          *)
(* preconditions in field order), performed, triggered and, for tag      *)
(* "Producer", kind.  "Producer" stands for the records whose handler    *)
(* records a node with its own trigger time and no preconditions:       *)
(* TaskInfo/GPUTaskInfo/MetaInfo/MessageInfo, CopyInfo, FillInfo,        *)
(* PartitionInfo, ProfTaskInfo, InstTimelineInfo and ExternalEventInfo.  *)

RecordKind == [Merge |-> "MergeEvent", Trigger |-> "TriggerEvent",
               Poison |-> "PoisonEvent", Reservation |-> "ReservationAcquire",
               CompletionQueue |-> "CompletionQueueEvent",
               InstanceReady |-> "InstanceReady",
               Redistrict |-> "InstanceRedistrict"]

KindOf(r) == IF r.tag = "Producer" THEN r.kind ELSE RecordKind[r.tag]

(* Mutant: a remote trigger is not deduplicated.                        *)
DeduplicateNoTrigger(r) == r.tag \in {"Merge", "CompletionQueue", "Redistrict"}

(* The deduplicate argument each handler passes to record_event_node.    *)
Deduplicate(r) ==
    \/ r.tag \in {"Merge", "CompletionQueue", "Redistrict"}
    \/ r.tag \in {"Trigger", "Poison"} /\ r.result.node # r.fevent.node

(* Only a deduplicated trigger links its precondition with update_edge.  *)
IdempotentLink(r) == r.tag = "Trigger" /\ Deduplicate(r)

(* BarrierArrivalInfo with fevent = result is an external handshake.     *)
IsHandshake(r) == r.tag = "Barrier" /\ r.fevent = r.result
ArrivalKind(r) == IF IsHandshake(r) THEN "ExternalHandshake" ELSE "ArriveBarrier"

(* BarrierArrivalInfo: the panics (unreachable!() on a node of another   *)
(* kind, and trigger_time.unwrap() on a handshake node that has none).  *)
BarrierArrivalPanics(g, r) ==
    /\ r.result \in DOMAIN g.nodes
    /\ LET n == g.nodes[r.result]
       IN  \/ n.kind \notin {"UnknownEvent", ArrivalKind(r)}
           \/ IsHandshake(r) /\ n.kind = "ExternalHandshake" /\ n.ttime = None

(* Mutant: an ordinary arrival overwrites the recorded one.             *)
UpdateArrivalOverwrite(n, r) ==
    IF IsHandshake(r)
    THEN [n EXCEPT !.kind = "ExternalHandshake",
                   !.ttime = IF n.kind = "UnknownEvent" \/ @ < r.performed
                             THEN r.performed ELSE @]
    ELSE [n EXCEPT !.kind = "ArriveBarrier", !.creator = r.fevent,
                   !.ctime = r.performed]

(* BarrierArrivalInfo on an existing node: a handshake keeps the latest  *)
(* arrival in trigger_time, an ordinary arrival keeps the latest arrival *)
(* as creator and creation_time; a placeholder is promoted.             *)
UpdateArrival(n, r) ==
    IF IsHandshake(r)
    THEN [n EXCEPT !.kind = "ExternalHandshake",
                   !.ttime = IF n.kind = "UnknownEvent" \/ @ < r.performed
                             THEN r.performed ELSE @]
    ELSE IF n.kind = "UnknownEvent" \/ n.ctime < r.performed
         THEN [n EXCEPT !.kind = "ArriveBarrier", !.creator = r.fevent,
                        !.ctime = r.performed]
         ELSE n

(* BarrierArrivalInfo: a fresh node (a handshake stores the arrival as   *)
(* creation_time) is chained after the previous phase; the precondition  *)
(* is linked with update_edge.                                           *)
BarrierArrival(g, r) ==
    LET e == r.result
        prev == GetPreviousPhase(e)
        fresh == IF IsHandshake(r)
                 THEN NewEntry("ExternalHandshake", None, r.performed, None)
                 ELSE NewEntry("ArriveBarrier", r.fevent, r.performed, None)
        g1 ==
          IF e \notin DOMAIN g.nodes
          THEN LET gn == AddNode(g, e, fresh)
               IN  IF prev # None THEN AddEdge(FindEventNode(gn, prev), prev, e)
                                  ELSE gn
          ELSE [g EXCEPT !.nodes[e] = UpdateArrival(@, r)]
    IN  LinkPreconditions(g1, r.pres, e, TRUE)

(* process_record on an event record: does it panic, and the new graph. *)
ProcessPanics(g, r) ==
    CASE r.tag = "ImplicitTask" -> FALSE
      [] r.tag = "Barrier"      -> BarrierArrivalPanics(g, r)
      [] OTHER -> RecordEventNodePanics(g, r.result, KindOf(r), r.fevent,
                                        Deduplicate(r))

Process(g, r) ==
    CASE r.tag = "ImplicitTask" -> FindEventNode(g, r.result)
      [] r.tag = "Barrier"      -> BarrierArrival(g, r)
      [] OTHER ->
           LinkPreconditions(
               RecordEventNode(g, r.result, KindOf(r), r.fevent,
                               r.performed, r.triggered),
               r.pres, r.result, IdempotentLink(r))

-----------------------------------------------------------------------------
Graph == [nodes |-> nodes, edges |-> edges]
DiGraph == [node |-> DOMAIN nodes, edge |-> ToSet(edges)]

(* The events with a path of edges into some event of vs.               *)
RECURSIVE AncestorsOf(_)
AncestorsOf(vs) ==
    LET ps == Gr!AllPredecessors(DiGraph, vs)
    IN  IF ps \subseteq vs THEN ps ELSE ps \cup AncestorsOf(vs \cup ps)

(* toposort succeeds iff no event is its own ancestor.                   *)
IsAcyclic == \A v \in DOMAIN nodes : v \notin AncestorsOf({v})

Init ==
    /\ nodes = <<>>
    /\ edges = <<>>
    /\ log \in Logs
    /\ pending = DOMAIN log
    /\ phase = "ingest"
    /\ relaxed = {}
    /\ cleared = FALSE

(* process_records: the next record is any one not yet processed.       *)
ProcessRecord(i) ==
    /\ phase = "ingest"
    /\ i \in pending
    /\ IF ProcessPanics(Graph, log[i])
       THEN /\ phase' = "aborted"
            /\ UNCHANGED <<log, nodes, edges, pending, relaxed, cleared>>
       ELSE /\ LET g == Process(Graph, log[i])
               IN  /\ nodes' = g.nodes
                   /\ edges' = g.edges
            /\ pending' = pending \ {i}
            /\ UNCHANGED <<log, phase, relaxed, cleared>>

(* compute_critical_paths: no edges at all means no data.                *)
NoCriticalPathData ==
    /\ phase = "ingest" /\ pending = {}
    /\ edges = <<>>
    /\ cleared' = TRUE
    /\ phase' = "done"
    /\ UNCHANGED <<log, nodes, edges, pending, relaxed>>

(* compute_critical_paths: toposort fails on a cycle.                    *)
CycleDetected ==
    /\ phase = "ingest" /\ pending = {}
    /\ edges # <<>>
    /\ ~IsAcyclic
    /\ cleared' = TRUE
    /\ phase' = "done"
    /\ UNCHANGED <<log, nodes, edges, pending, relaxed>>

BeginRelaxation ==
    /\ phase = "ingest" /\ pending = {}
    /\ edges # <<>>
    /\ IsAcyclic
    /\ phase' = "critical"
    /\ UNCHANGED <<log, nodes, edges, pending, relaxed, cleared>>

(* The sources of v's incoming edges in the order petgraph iterates them *)
(* (edges_directed(Incoming) walks the newest edge first).              *)
IncomingSources(v) == Reverse(SelectSeq(edges, LAMBDA x : x[2] = v))

(* Mutant: the scan records the source itself, not its critical event.  *)
RECURSIVE ScanIncomingDirect(_, _)
ScanIncomingDirect(es, acc) ==
    IF es = <<>> THEN acc
    ELSE LET src == nodes[Head(es)[1]]
             t == src.ttime
             pt == <<Head(es)[1], t>>
         IN  IF t = None
             THEN [acc EXCEPT !.unknown = src.critical]
             ELSE ScanIncomingDirect(Tail(es),
                    IF acc.latest = None
                    THEN [acc EXCEPT !.latest = pt, !.earliest = pt]
                    ELSE [acc EXCEPT !.latest = IF @[2] < t THEN pt ELSE @,
                                     !.earliest = IF t < @[2] THEN pt ELSE @])

(* The scan over incoming edges: latest and earliest <<critical, time>>  *)
(* of the timed sources, stopping at the first untimed (tainted) source. *)
RECURSIVE ScanIncoming(_, _)
ScanIncoming(es, acc) ==
    IF es = <<>> THEN acc
    ELSE LET src == nodes[Head(es)[1]]
             t == src.ttime
             pt == <<src.critical, t>>
         IN  IF t = None
             THEN [acc EXCEPT !.unknown = src.critical]
             ELSE ScanIncoming(Tail(es),
                    IF acc.latest = None
                    THEN [acc EXCEPT !.latest = pt, !.earliest = pt]
                    ELSE [acc EXCEPT !.latest = IF @[2] < t THEN pt ELSE @,
                                     !.earliest = IF t < @[2] THEN pt ELSE @])

Scan(v) == ScanIncoming(IncomingSources(v),
                        [latest |-> None, earliest |-> None, unknown |-> None])

(* Mutant: a completion queue also takes its latest precondition.       *)
SelectedLatest(v) == Scan(v).latest

(* The precondition compute_critical_paths selects for v.               *)
Selected(v) == IF nodes[v].kind = "CompletionQueueEvent" THEN Scan(v).earliest
                                                          ELSE Scan(v).latest

(* The asserts and unwraps of the relaxation step that can fail.        *)
RelaxPanics(v) ==
    LET n == nodes[v]
        s == Scan(v)
    IN  IF n.kind = "UnknownEvent" THEN s.latest # None
        ELSE /\ s.unknown = None
             /\ \/ Selected(v) # None /\ n.ctime = None
                \/ n.kind \in InstantaneousKinds /\ n.ttime # None
                \/ n.kind \notin InstantaneousKinds /\ n.ttime = None

(* The relaxation step's effect on v's node weight.                     *)
Relaxed(v) ==
    LET n == nodes[v]
        s == Scan(v)
        sel == Selected(v)
        later == sel # None /\ n.ctime < sel[2]
    IN  CASE n.kind = "UnknownEvent" -> [n EXCEPT !.critical = v]
          [] s.unknown # None -> [n EXCEPT !.critical = s.unknown]
          [] OTHER ->
               [n EXCEPT !.critical = IF later THEN sel[1] ELSE v,
                         !.ttime = IF n.kind \in InstantaneousKinds
                                   THEN IF later THEN sel[2] ELSE n.ctime
                                   ELSE @]

(* One iteration of the loop over the topological order: v's            *)
(* predecessors have all been visited.                                   *)
RelaxVertex(v) ==
    /\ phase = "critical"
    /\ v \in DOMAIN nodes \ relaxed
    /\ Gr!Predecessors(DiGraph, v) \subseteq relaxed
    /\ IF RelaxPanics(v)
       THEN /\ phase' = "aborted"
            /\ UNCHANGED <<log, nodes, edges, pending, relaxed, cleared>>
       ELSE /\ nodes' = [nodes EXCEPT ![v] = Relaxed(v)]
            /\ relaxed' = relaxed \cup {v}
            /\ UNCHANGED <<log, edges, pending, phase, cleared>>

FinishRelaxation ==
    /\ phase = "critical"
    /\ relaxed = DOMAIN nodes
    /\ phase' = "done"
    /\ UNCHANGED <<log, nodes, edges, pending, relaxed, cleared>>

(* The pipeline has returned (or panicked); nothing changes any more.    *)
Terminated ==
    /\ phase \in {"done", "aborted"}
    /\ UNCHANGED vars

Next ==
    \/ \E i \in DOMAIN log : ProcessRecord(i)
    \/ NoCriticalPathData \/ CycleDetected \/ BeginRelaxation
    \/ \E v \in DOMAIN nodes : RelaxVertex(v)
    \/ FinishRelaxation
    \/ Terminated

Spec == Init /\ [][Next]_vars

-----------------------------------------------------------------------------
(* Properties                                                            *)

Time == {t \in Int : t >= 0}

TypeOK ==
    /\ \A e \in DOMAIN nodes :
         /\ e \in EventID
         /\ nodes[e].kind \in Kinds
         /\ nodes[e].creator \in EventID \cup {None}
         /\ nodes[e].ctime \in Time \cup {None}
         /\ nodes[e].ttime \in Time \cup {None}
         /\ nodes[e].critical \in (DOMAIN nodes) \cup {None}
    /\ edges \in Seq((DOMAIN nodes) \X (DOMAIN nodes))
    /\ pending \subseteq DOMAIN log
    /\ phase \in {"ingest", "critical", "done", "aborted"}
    /\ relaxed \subseteq DOMAIN nodes
    /\ cleared \in BOOLEAN

(* process_records and compute_critical_paths never panic on a log      *)
(* whatever order its records arrive in (spec 5: "records within        *)
(* process_records may arrive in any order"; the create-or-update        *)
(* idioms of record_event_node, find_event_node and BarrierArrivalInfo). *)
NoAbort == phase # "aborted"

CriticalPathComputed == phase = "done" /\ ~cleared

(* After compute_critical_paths every event's critical predecessor is    *)
(* the event itself or one of its ancestors in the event graph, is its   *)
(* own critical predecessor (the pointer is not a chain), and did not    *)
(* trigger later than the event (find_critical_entry follows it once).  *)
CriticalPredecessorSound ==
    CriticalPathComputed =>
      \A v \in DOMAIN nodes :
        LET c == nodes[v].critical
        IN  /\ c \in DOMAIN nodes
            /\ c = v \/ c \in AncestorsOf({v})
            /\ nodes[c].critical = c
            /\ nodes[c].ttime # None /\ nodes[v].ttime # None
                 => nodes[c].ttime <= nodes[v].ttime

(* After compute_critical_paths an event whose trigger time the pass     *)
(* derives, and none of whose preconditions is tainted by an unknown    *)
(* event, triggers at the later of its creation and its last            *)
(* precondition; a completion queue at the later of its creation and    *)
(* its first precondition (spec 4.8 step 4, scenarios 5 and 6).         *)
PreTimes(v) == {nodes[s].ttime : s \in Gr!Predecessors(DiGraph, v)}

TriggerFollowsPreconditions ==
    CriticalPathComputed =>
      \A v \in DOMAIN nodes :
        LET n == nodes[v]
            pre == IF n.kind = "CompletionQueueEvent" THEN Min(PreTimes(v))
                                                      ELSE Max(PreTimes(v))
        IN  n.kind \in InstantaneousKinds /\ PreTimes(v) # {}
              /\ None \notin PreTimes(v)
            => n.ttime = Max({n.ctime, pre})

(* While the log is ingested, a barrier phase that received ordinary     *)
(* arrivals carries the latest of the arrivals processed so far as its  *)
(* creation time, whatever order they arrived in (BarrierArrivalInfo:    *)
(* "find the last arrival").                                            *)
ArrivalsDone(b) ==
    {j \in DOMAIN log \ pending : log[j].tag = "Barrier" /\ log[j].result = b
                                  /\ ~IsHandshake(log[j])}

LatestArrivalKept ==
    phase # "aborted" =>
      \A i \in DOMAIN log \ pending :
        log[i].tag = "Barrier" /\ ~IsHandshake(log[i])
          => nodes[log[i].result].ctime
               = Max({log[j].performed : j \in ArrivalsDone(log[i].result)})

=============================================================================
