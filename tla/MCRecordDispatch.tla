--------------------------- MODULE MCRecordDispatch ---------------------------
(* Logs for RecordDispatch: one processor, one task with its operation and *)
(* parent, two meta tasks of the same (op, lg), a copy with two rows and a *)
(* fill with one.  Each log is one family of records in every order.  The  *)
(* copy rows name memories A, B and the indirection field X; further logs *)
(* give one copy every well-formed row list of up to four rows, after   *)
(* the descriptors of a second processor, of A and B, and of their       *)
(* processor affinities in every order.  A and P are on node 0, B and P2 *)
(* on node 1; the filter may show all nodes, node 0 or node 1.            *)
EXTENDS RecordDispatch

LOCAL INSTANCE SequencesExt

CONSTANTS P, P2, O, Parent, Lg, FT, FM1, FM2, FC, FF, W1, W2, W3, E1,
          FI, FX, FP1, FP2, FP3

Direct(s, d) == [src |-> s, dst |-> d, indirect |-> FALSE]
GatherMark   == [src |-> "X", dst |-> None, indirect |-> TRUE]
ScatterMark  == [src |-> None, dst |-> "X", indirect |-> TRUE]
R1 == Direct("A", "B")
R2 == Direct("B", "B")

Blank == [f \in Fields |-> None]

Times(c, r, st, sp) == [create |-> c, ready |-> r, start |-> st, stop |-> sp]

Rec(r) == r @@ [time |-> Times(0, 0, 0, 0), completion |-> TRUE] @@ Blank

ProcRec     == Rec([tag |-> "ProcDesc", proc |-> P])
OpRec       == Rec([tag |-> "OperationInstance", op |-> O, parent |-> Parent])
TaskRec     == Rec([tag |-> "TaskInfo", op |-> O, proc |-> P, fevent |-> FT])
TaskWaitRec == Rec([tag |-> "TaskWaitInfo", op |-> O, owner |-> FT, wait |-> W1])
EventRec    == Rec([tag |-> "EventWaitInfo", proc |-> P, fevent |-> FT, event |-> E1])
Meta1Rec    == Rec([tag |-> "MetaInfo", op |-> O, lg |-> Lg, proc |-> P, fevent |-> FM1])
Meta2Rec    == Rec([tag |-> "MetaInfo", op |-> O, lg |-> Lg, proc |-> P, fevent |-> FM2])
MetaWait1   == Rec([tag |-> "MetaWaitInfo", op |-> O, lg |-> Lg, owner |-> FM1, wait |-> W2])
MetaWait2   == Rec([tag |-> "MetaWaitInfo", op |-> O, lg |-> Lg, owner |-> FM2, wait |-> W3])
SpawnRec    == Rec([tag |-> "SpawnInfo", fevent |-> FM2])
CopyRec     == Rec([tag |-> "CopyInfo", op |-> O, fevent |-> FC])
CopyRow1    == Rec([tag |-> "CopyInstInfo", fevent |-> FC, row |-> R1])
CopyRow2    == Rec([tag |-> "CopyInstInfo", fevent |-> FC, row |-> R2])
FillRec     == Rec([tag |-> "FillInfo", op |-> O, fevent |-> FF])
FillRow     == Rec([tag |-> "FillInstInfo", fevent |-> FF, row |-> R1])
CopyRow(r)  == Rec([tag |-> "CopyInstInfo", fevent |-> FC, row |-> r])

TaskFamily == {ProcRec, OpRec, TaskRec, TaskWaitRec, EventRec}
MetaFamily == {Meta1Rec, MetaWait1, Meta2Rec, MetaWait2, SpawnRec}
CopyFamily == {CopyRec, CopyRow1, CopyRow2, FillRec, FillRow}

AnyOrder(fam) == SetToSeqs(fam)

(* Every order the logger can write.                                      *)
MCLoggerLogs ==
    {s \in AnyOrder(TaskFamily) \cup AnyOrder(MetaFamily) \cup AnyOrder(CopyFamily) :
        LoggerOrder(s)}

(* A copy with each well-formed row list (every indirection marker      *)
(* followed by a data row; gather-scatter markers, which the code        *)
(* rejects with unimplemented!, left out), logged after a fill.         *)
SplitRows == {Direct("A", "A"), R1, R2, GatherMark, ScatterMark}

MCSplitLogs ==
    {<<FillRec, FillRow, CopyRec>> \o [k \in DOMAIN s |-> CopyRow(s[k])] :
        s \in {s \in UNION {[1..n -> SplitRows] : n \in 1..4} : CS!WellFormed(s)}}

ProcRec2 == Rec([tag |-> "ProcDesc", proc |-> P2])
MemRec(m) == Rec([tag |-> "MemDesc", mem |-> m])
AffRec(p, m, b) == Rec([tag |-> "ProcMDesc", proc |-> p, mem |-> m, bw |-> b])

(* Three affinities of A (two of equal, highest bandwidth) in any order. *)
MCDescLogs ==
    {<<ProcRec2, MemRec("A"), MemRec("B")>> \o o \o <<AffRec(P2, "B", 1)>> :
        o \in AnyOrder({AffRec(P, "A", 1), AffRec(P2, "A", 2), AffRec(P, "A", 2)})}

MCFilterLogs == {d \o s : d \in MCDescLogs, s \in MCSplitLogs}

MCProcNode == (P :> 0) @@ (P2 :> 1)
MCMemNode == ("A" :> 0) @@ ("B" :> 1)
MCVisibleChoices == {{}, {0}, {1}}

(* A task made by FX, an instance in A made by the task, and profiling    *)
(* tasks for the task, the instance's allocation and its deletion, in    *)
(* every order; then a copy made by FX, a fill with a row, and a         *)
(* profiling task for each, in every order with the row after its fill. *)
TaskT   == Rec([tag |-> "TaskInfo", op |-> O, proc |-> P, fevent |-> FT,
                creator |-> FX, time |-> Times(1, 2, 2, 3)])
InstT   == Rec([tag |-> "InstTimelineInfo", op |-> O, mem |-> "A", fevent |-> FI,
                creator |-> FT, time |-> Times(0, 1, 1, 3)])
CopyT   == Rec([tag |-> "CopyInfo", op |-> O, fevent |-> FC, creator |-> FX,
                time |-> Times(1, 1, 2, 2)])
FillT   == Rec([tag |-> "FillInfo", op |-> O, fevent |-> FF, time |-> Times(0, 1, 1, 2)])
Prof(f, c, done) ==
    Rec([tag |-> "ProfTaskInfo", proc |-> P, op |-> O, fevent |-> f, creator |-> c,
         completion |-> done, time |-> Times(None, None, 3, 4)])

MCProfLogs ==
    {<<MemRec("A")>> \o s :
        s \in AnyOrder({TaskT, InstT, Prof(FP1, FT, TRUE), Prof(FP2, FI, FALSE),
                        Prof(FP3, FI, TRUE)})}
    \cup {s \in AnyOrder({CopyT, FillT, FillRow, Prof(FP1, FC, TRUE), Prof(FP2, FF, TRUE)}) :
            LoggerOrder(s)}

(* After the three descriptors, a mapper call made by a GPU task, one     *)
(* shorter than the threshold, a runtime and an application call, and the *)
(* GPU task itself, in every order.                                      *)
Desc(t) == Rec([tag |-> t, desc |-> "K"])
Call(t, c, st, sp) ==
    Rec([tag |-> t, desc |-> "K", op |-> O, proc |-> P, creator |-> c,
         time |-> Times(0, 0, st, sp)])
GPUT == Rec([tag |-> "GPUTaskInfo", op |-> O, proc |-> P, fevent |-> FT, creator |-> FX,
             time |-> Times(1, 2, 2, 4)])

MCCallLogs ==
    {<<Desc("MapperCallDesc"), Desc("RuntimeCallDesc"), Desc("Provenance")>> \o s :
        s \in AnyOrder({Call("MapperCallInfo", FT, 2, 3), Call("MapperCallInfo", None, 3, 3),
                        Call("RuntimeCallInfo", None, 1, 2),
                        Call("ApplicationCallInfo", FX, 3, 3), GPUT})}

(* An implicit top-level task for the parent operation, the task of O, *)
(* O as a multi-task and a slice of the parent, in every order.          *)
ImplicitT == Rec([tag |-> "ImplicitTaskInfo", op |-> Parent, proc |-> P, fevent |-> FX])
MultiT    == Rec([tag |-> "MultiTask", op |-> O, task |-> "T"])
SliceT    == Rec([tag |-> "SliceOwner", op |-> O, parent |-> Parent])

MCSliceLogs == AnyOrder({ImplicitT, MultiT, SliceT, OpRec, TaskRec})

MCDispatchLogs == MCLoggerLogs \cup MCFilterLogs \cup MCProfLogs \cup MCCallLogs \cup MCSliceLogs

(* Copy and fill rows in any order relative to their parent records.     *)
MCCopyAnyOrderLogs == AnyOrder(CopyFamily)

=============================================================================
