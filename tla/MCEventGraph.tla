---------------------------- MODULE MCEventGraph ----------------------------
(***************************************************************************)
(* Logs for checking EventGraph.  Events live on two nodes; a barrier has *)
(* two generations.  Times are nanoseconds of a small range.             *)
(***************************************************************************)
EXTENDS EventGraph

MCNodes == {1, 2}
MCIdx == 1..5
MCMaxGen == 2

Ev(n, i) == [node |-> n, idx |-> i, barrier |-> FALSE, gen |-> 1]
Bar(n, i, g) == [node |-> n, idx |-> i, barrier |-> TRUE, gen |-> g]

(* A record whose handler records a node with its own trigger time.      *)
Producer(kind, e, creator, create, trigger) ==
    [tag |-> "Producer", kind |-> kind, result |-> e, fevent |-> creator,
     pres |-> <<>>, performed |-> create, triggered |-> trigger]

(* An event record: result made by fevent at time performed after pres. *)
Rec(tag, e, fevent, pres, performed) ==
    [tag |-> tag, kind |-> "", result |-> e, fevent |-> fevent,
     pres |-> pres, performed |-> performed, triggered |-> None]

t1 == Ev(1, 1)      \* a task on node 1
t2 == Ev(2, 1)      \* a task on node 2
m  == Ev(1, 2)      \* a merge of both tasks
u  == Ev(1, 3)      \* a user event triggered from node 2
c  == Ev(2, 2)      \* a completion queue event
r  == Ev(2, 3)      \* a reservation acquire
x  == Ev(2, 4)      \* an event no record defines
b1 == Bar(1, 4, 1)  \* barrier phase 1
b2 == Bar(1, 4, 2)  \* barrier phase 2

(* Tasks, a merge and a remote trigger, each logged by two nodes, and a  *)
(* completion queue over the two tasks.                                  *)
LogMerge ==
    << Producer("TaskEvent", t1, t1, 1, 4),
       Producer("TaskEvent", t2, t2, 0, 2),
       Rec("Merge", m, t1, <<t1, t2>>, 1),
       Rec("Merge", m, t1, <<t1, t2>>, 1),
       Rec("Trigger", u, t2, <<m>>, 3),
       Rec("Trigger", u, t2, <<m>>, 3),
       Rec("CompletionQueue", c, t2, <<t1, t2>>, 1) >>

(* Two barrier phases with arrivals from both tasks, a reservation       *)
(* waiting on an event nobody records, and an implicit top-level task.   *)
LogBarrier ==
    << Producer("TaskEvent", t1, t1, 1, 4),
       Producer("TaskEvent", t2, t2, 0, 2),
       Rec("Barrier", b1, t1, <<t2>>, 2),
       Rec("Barrier", b2, t1, <<t2>>, 3),
       Rec("Barrier", b2, t2, <<t1>>, 5),
       Rec("Reservation", r, t2, <<x, b2>>, 2),
       Rec("ImplicitTask", u, u, <<>>, 0) >>

(* An external handshake arriving twice on a barrier phase.              *)
LogHandshake ==
    << Producer("TaskEvent", t2, t2, 0, 2),
       Rec("Barrier", b1, b1, <<t2>>, 1),
       Rec("Barrier", b1, b1, <<t2>>, 3) >>

(* A reservation waiting on barrier phase 2 whose arrival is missing     *)
(* from the logs while phase 1's is present.                             *)
LogMissingPhase ==
    << Producer("TaskEvent", t1, t1, 1, 4),
       Rec("Barrier", b1, t1, <<>>, 2),
       Rec("Reservation", r, t1, <<b2>>, 3) >>

(* A merge logged by two nodes.                                          *)
LogDuplicateMerge ==
    << Producer("TaskEvent", t1, t1, 1, 4),
       Rec("Merge", m, t1, <<t1>>, 1),
       Rec("Merge", m, t1, <<t1>>, 1) >>

(* A merge and a local trigger that wait on each other: a cycle.          *)
LogCycle ==
    << Rec("Merge", m, t1, <<u>>, 1),
       Rec("Trigger", u, t1, <<m>>, 2) >>

(* Two tasks and no dependence between events: no edges at all.          *)
LogNoEdges ==
    << Producer("TaskEvent", t1, t1, 1, 4),
       Producer("TaskEvent", t2, t2, 0, 2) >>

MergeLogs == {LogMerge, LogDuplicateMerge, LogCycle, LogNoEdges}
(* The logs process_records gets through: every record order of each.    *)
PassLogs == MergeLogs \cup {LogBarrier}
HandshakeLogs == {LogHandshake}
MissingPhaseLogs == {LogMissingPhase}
=============================================================================
