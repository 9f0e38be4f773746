----------------------------- MODULE LevelStack -----------------------------
(***************************************************************************)
(* Level assignment and stacking of one container of legion_prof_rs       *)
(* (state.rs): Proc/Chan/Mem::sort_time_range turn every entry into a     *)
(* start and a stop TimePoint, sort them by TimePoint::time_key, and      *)
(* sweep them with a min-heap of free levels; stack_time_points then      *)
(* buckets the start points by level.  kind is the container's kind:     *)
(* "proc" and "chan" number levels from 0 (max_levels.postincrement()),   *)
(* "mem" from 1 (max_live_insts += 1), keys an instance by its ready time *)
(* and may recompute the memory's capacity.  A "gpu" processor sweeps its *)
(* GPU kernels on a device timeline of their own, after the host one,    *)
(* with a fresh heap and level count; a "proc" sweeps an empty device     *)
(* timeline.  A processor's util_time_points also carry each wait with   *)
(* inverted polarity: its start closes, its end reopens.                 *)
(***************************************************************************)
EXTENDS Integers, Sequences, FiniteSets, TLC

LOCAL INSTANCE SequencesExt

CONSTANTS
    Kinds,            \* the container kinds: "proc", "gpu", "chan", "mem"
    Entries,          \* the ProfUIDs of the container's entries (naturals)
    Times,            \* the timestamps an entry may have
    Sizes,            \* instance sizes (memories only)
    DeclaredCapacity, \* Mem::capacity from MemDesc
    Dynamic,          \* the memory is MemKind::GPUDynamic
    MaxStamp,         \* Timestamp::MAX, above every time in Times
    MaxWaits,         \* bound on the waits of all entries together
    None

ASSUME Kinds \subseteq {"proc", "gpu", "chan", "mem"}
ASSUME Entries \subseteq Nat /\ Times \subseteq Nat
ASSUME \A t \in Times : t < MaxStamp

Procs == {"proc", "gpu"}

(* The time ranges an entry can carry: start <= stop; an instance has    *)
(* start = ready (set_start_stop), and only a memory reads ready, so it  *)
(* is taken equal to start everywhere.                                   *)
(* Only a GPU processor has kernels, only a processor's other entries   *)
(* have waits (wait records and nested calls find tasks, meta and        *)
(* profiling tasks), and an entry here has at most one, which lies      *)
(* within its execution as the logger writes it.                         *)
TimeRanges(k) ==
    LET Rs == {r \in [ready : Times, start : Times, stop : Times, size : Sizes] :
                  r.ready = r.start /\ r.start <= r.stop}
        Span(r) == r.start..r.stop
        Ws(r, kn) ==
            IF k \in Procs /\ ~kn
            THEN {<<>>} \cup {<<[start |-> ab[1], end |-> ab[2]]>> :
                                 ab \in {ab \in Span(r) \X Span(r) : ab[1] <= ab[2]}}
            ELSE {<<>>}
    IN  UNION {{[ready |-> r.ready, start |-> r.start, stop |-> r.stop, size |-> r.size,
                 kernel |-> kn, waits |-> ws] : ws \in Ws(r, kn)} :
                   <<r, kn>> \in Rs \X (IF k = "gpu" THEN BOOLEAN ELSE {FALSE})}

(* The timelines: a processor has a host and a device one.               *)
Lines == {"host", "device"}

LinesOf(k) == IF k \in Procs THEN Lines ELSE {"host"}

VARIABLES
    kind,        \* the container: Proc, Chan or Mem
    entry,       \* ProfUID -> its time range (the entries map)
    level,       \* ProfUID -> Base::level, None until assigned
    line,        \* the timeline sort_and_stack is sweeping
    points,      \* the sorted TimePoints being swept
    cursor,      \* index of the next point of the sweep
    free,        \* free_levels, the BinaryHeap<Reverse<u32>>
    maxLevels,   \* timeline -> max_levels (max_live_insts for a memory)
    timePoints,  \* timeline -> time_points
    utilPoints,  \* timeline -> util_time_points
    stacked,     \* timeline -> time_points_stacked: level -> points
    capacity,    \* Mem::capacity
    pc           \* "sort" | "sweep" | "stack" | "done"

vars == <<kind, entry, level, line, points, cursor, free, maxLevels, timePoints,
          utilPoints, stacked, capacity, pc>>

(* The time at which an entry opens: a memory keys instances by ready.  *)
OpenTime(r) == IF kind = "mem" THEN r.ready ELSE r.start

(* The timeline an entry is swept on: GPUKernel entries on the device.   *)
LineOf(e) == IF entry[e].kernel THEN "device" ELSE "host"

(* TimePoint::new: start points sort longer entries first among ties     *)
(* through the secondary key Timestamp::MAX - stop.  k numbers the       *)
(* points of one entry in the order add and add_waiters push them.      *)
StartPoint(e) == [time |-> OpenTime(entry[e]), e |-> e, k |-> 0, first |-> TRUE,
                  secondary |-> MaxStamp - entry[e].stop]
StopPoint(e) == [time |-> entry[e].stop, e |-> e, k |-> 0, first |-> FALSE,
                 secondary |-> 0]

(* Mutant: a wait's start pushed as an opening point.                    *)
WaitStartPointFirst(e, i) ==
    [time |-> entry[e].waits[i].start, e |-> e, k |-> i, first |-> TRUE,
     secondary |-> MaxStamp - entry[e].waits[i].end]

(* add_waiters: the i-th wait closes at its start and reopens at its end. *)
WaitStartPoint(e, i) ==
    [time |-> entry[e].waits[i].start, e |-> e, k |-> i, first |-> FALSE,
     secondary |-> MaxStamp - entry[e].waits[i].end]
WaitEndPoint(e, i) ==
    [time |-> entry[e].waits[i].end, e |-> e, k |-> i, first |-> TRUE, secondary |-> 0]

(* TimePoint::time_key = (time, 0 for a start / 1 for a stop, secondary); *)
(* sort_by_key is stable and the points were pushed entry by entry in    *)
(* ProfUID order, so equal keys keep that order.                         *)
TimeKey(p) == <<p.time, IF p.first THEN 0 ELSE 1, p.secondary, p.e, p.k>>

RECURSIVE LexLess(_, _)
LexLess(a, b) ==
    IF a = <<>> THEN FALSE
    ELSE \/ Head(a) < Head(b)
         \/ Head(a) = Head(b) /\ LexLess(Tail(a), Tail(b))

PointBefore(p, q) == LexLess(TimeKey(p), TimeKey(q))

(* The keys of distinct points differ (the ProfUID, the push index and   *)
(* the start/stop flag break every tie), so the i-th point is the one    *)
(* with i - 1 points before it.                                           *)
SortPoints(ps) ==
    [i \in 1..Cardinality(ps) |->
        CHOOSE p \in ps : Cardinality({q \in ps : PointBefore(q, p)}) = i - 1]

(* The points add pushes for the entries of timeline l, and those        *)
(* add_waiters pushes besides into util_points.                          *)
LinePoints(l) ==
    UNION {{StartPoint(e), StopPoint(e)} : e \in {e \in DOMAIN entry : LineOf(e) = l}}

UtilPoints(l) ==
    LinePoints(l)
    \cup UNION {{WaitStartPoint(e, i) : i \in DOMAIN entry[e].waits}
                 \cup {WaitEndPoint(e, i) : i \in DOMAIN entry[e].waits} :
                    e \in {e \in DOMAIN entry : LineOf(e) = l}}

(* Mem::calculate_dynamic_memory_size: replay the points adding the size *)
(* at a start and subtracting it at a stop; the peak, at least 1.       *)
RECURSIVE Replay(_, _, _)
Replay(ps, size, peak) ==
    IF ps = <<>> THEN peak
    ELSE LET s == IF Head(ps).first THEN size + entry[Head(ps).e].size
                                    ELSE size - entry[Head(ps).e].size
         IN  Replay(Tail(ps), s, IF s > peak THEN s ELSE peak)

CalculateDynamicMemorySize(ps) == LET peak == Replay(ps, 0, 0)
                                  IN  IF peak > 1 THEN peak ELSE 1

Init ==
    /\ kind \in Kinds
    /\ entry \in {f \in [Entries -> TimeRanges(kind)] :
                     Cardinality({e \in Entries : f[e].waits # <<>>}) <= MaxWaits}
    /\ level = [e \in Entries |-> None]
    /\ line = "host"
    /\ points = <<>>
    /\ cursor = 1
    /\ free = {}
    /\ maxLevels = [l \in LinesOf(kind) |-> 0]
    /\ timePoints = [l \in LinesOf(kind) |-> <<>>]
    /\ utilPoints = [l \in LinesOf(kind) |-> <<>>]
    /\ stacked = [l \in LinesOf(kind) |-> <<>>]
    /\ capacity = DeclaredCapacity
    /\ pc = "sort"

(* sort_and_stack for timeline l: its points and util points sorted, a   *)
(* new free-level heap, the sweep from the first point.                  *)
SweepLine(l) ==
    /\ line' = l
    /\ points' = SortPoints(LinePoints(l))
    /\ utilPoints' = [utilPoints EXCEPT ![l] = SortPoints(UtilPoints(l))]
    /\ cursor' = 1
    /\ free' = {}

(* sort_time_range: the entries' points pushed, then the host timeline   *)
(* swept first.                                                           *)
SortTimeRange ==
    /\ pc = "sort"
    /\ SweepLine("host")
    /\ pc' = "sweep"
    /\ UNCHANGED <<kind, entry, level, maxLevels, timePoints, stacked, capacity>>

(* The sweep step at the point under the cursor.                         *)
AtStart == pc = "sweep" /\ cursor <= Len(points) /\ points[cursor].first
           /\ level[points[cursor].e] = None
AtStop  == pc = "sweep" /\ cursor <= Len(points) /\ ~points[cursor].first

(* Mutant: the smallest free level is read but left on the heap.        *)
TakeFreeLevelPeek ==
    /\ AtStart /\ free # {}
    /\ level' = [level EXCEPT ![points[cursor].e] = Min(free)]
    /\ cursor' = cursor + 1
    /\ UNCHANGED <<kind, entry, line, points, free, maxLevels, timePoints,
                   utilPoints, stacked, capacity, pc>>

(* Mutant: max_levels is bumped twice when a level is opened.           *)
OpenNewLevelDouble ==
    /\ AtStart /\ free = {}
    /\ level' = [level EXCEPT ![points[cursor].e] = maxLevels[line]]
    /\ maxLevels' = [maxLevels EXCEPT ![line] = @ + 2]
    /\ cursor' = cursor + 1
    /\ UNCHANGED <<kind, entry, line, points, free, timePoints, utilPoints,
                   stacked, capacity, pc>>

(* Mutant: a stop point never returns its level to the heap.            *)
ReleaseLevelLost ==
    /\ AtStop
    /\ cursor' = cursor + 1
    /\ UNCHANGED <<kind, entry, level, line, points, free, maxLevels, timePoints,
                   utilPoints, stacked, capacity, pc>>

(* The sweep, at a start point: Base::set_level asserts the level unset. *)
(* TakeFreeLevel pops the smallest free level.                          *)
TakeFreeLevel ==
    /\ AtStart /\ free # {}
    /\ level' = [level EXCEPT ![points[cursor].e] = Min(free)]
    /\ free' = free \ {Min(free)}
    /\ cursor' = cursor + 1
    /\ UNCHANGED <<kind, entry, line, points, maxLevels, timePoints, utilPoints,
                   stacked, capacity, pc>>

(* With no free level a new one is opened: max_levels.postincrement()    *)
(* for processors and channels, max_live_insts += 1 for memories.        *)
OpenNewLevel ==
    /\ AtStart /\ free = {}
    /\ level' = [level EXCEPT ![points[cursor].e] =
                     IF kind = "mem" THEN maxLevels[line] + 1 ELSE maxLevels[line]]
    /\ maxLevels' = [maxLevels EXCEPT ![line] = @ + 1]
    /\ cursor' = cursor + 1
    /\ UNCHANGED <<kind, entry, line, points, free, timePoints, utilPoints,
                   stacked, capacity, pc>>

(* At a stop point the entry's level (unwrapped) goes back on the heap.  *)
ReleaseLevel ==
    /\ AtStop
    /\ level[points[cursor].e] # None
    /\ free' = free \cup {level[points[cursor].e]}
    /\ cursor' = cursor + 1
    /\ UNCHANGED <<kind, entry, level, line, points, maxLevels, timePoints,
                   utilPoints, stacked, capacity, pc>>

(* Mutant: the retain of start points is dropped.                       *)
FinishSortKeepsStops ==
    /\ pc = "sweep" /\ cursor > Len(points)
    /\ timePoints' = [timePoints EXCEPT ![line] = points]
    /\ IF line = "host" /\ "device" \in LinesOf(kind)
       THEN /\ SweepLine("device")
            /\ UNCHANGED <<capacity, pc>>
       ELSE /\ capacity' = capacity
            /\ pc' = "stack"
            /\ UNCHANGED <<line, points, cursor, free, utilPoints>>
    /\ UNCHANGED <<kind, entry, level, maxLevels, stacked>>

(* The end of a timeline's sweep: time_points keeps only its start      *)
(* points.  After the host, a processor sweeps its device timeline; a   *)
(* memory with no or a dynamic capacity recomputes it from time_points.  *)
FinishSort ==
    /\ pc = "sweep" /\ cursor > Len(points)
    /\ timePoints' = [timePoints EXCEPT ![line] = SelectSeq(points, LAMBDA p : p.first)]
    /\ IF line = "host" /\ "device" \in LinesOf(kind)
       THEN /\ SweepLine("device")
            /\ UNCHANGED <<capacity, pc>>
       ELSE /\ capacity' = IF kind = "mem" /\ (DeclaredCapacity = 0 \/ Dynamic)
                           THEN CalculateDynamicMemorySize(timePoints'[line])
                           ELSE capacity
            /\ pc' = "stack"
            /\ UNCHANGED <<line, points, cursor, free, utilPoints>>
    /\ UNCHANGED <<kind, entry, level, maxLevels, stacked>>

(* stack_time_points / Container::stack, per timeline: max_levels + 1    *)
(* buckets, each start point pushed onto its entry's level; time_points  *)
(* is emptied by the swap.                                               *)
StackTimePoints ==
    /\ pc = "stack"
    /\ stacked' = [l \in DOMAIN maxLevels |->
                      [b \in 0..maxLevels[l] |->
                          SelectSeq(timePoints[l], LAMBDA p : level[p.e] = b)]]
    /\ timePoints' = [l \in DOMAIN timePoints |-> <<>>]
    /\ pc' = "done"
    /\ UNCHANGED <<kind, entry, level, line, points, cursor, free, maxLevels,
                   utilPoints, capacity>>

Terminated == pc = "done" /\ UNCHANGED vars

Next ==
    \/ SortTimeRange
    \/ TakeFreeLevel \/ OpenNewLevel \/ ReleaseLevel
    \/ FinishSort
    \/ StackTimePoints
    \/ Terminated

Spec == Init /\ [][Next]_vars

-----------------------------------------------------------------------------
(* Reference definitions over the final entries, independent of the sweep. *)

(* An entry is live at t over its closed interval [open, stop].          *)
Live(e, t) == OpenTime(entry[e]) <= t /\ t <= entry[e].stop

(* The largest number of entries of timeline l live at one instant.     *)
MaxOverlap(l) ==
    LET c(t) == Cardinality({e \in Entries : LineOf(e) = l /\ Live(e, t)})
    IN  CHOOSE n \in {c(t) : t \in Times} \cup {0} : \A t \in Times : c(t) <= n

(* The largest total size of the instances live at one instant.          *)
RECURSIVE SizeOf(_)
SizeOf(S) == IF S = {} THEN 0
             ELSE LET e == CHOOSE x \in S : TRUE
                  IN  entry[e].size + SizeOf(S \ {e})
PeakLiveSize == LET c(t) == SizeOf({e \in Entries : Live(e, t)})
                IN  CHOOSE n \in {c(t) : t \in Times} \cup {0} :
                        \A t \in Times : c(t) <= n

(* Entry e runs at t: it has opened and not stopped, and is not in a wait *)
(* (half-open intervals, as the sweep closes before it reopens at t).    *)
Running(e, t) ==
    /\ OpenTime(entry[e]) <= t /\ t < entry[e].stop
    /\ ~\E i \in DOMAIN entry[e].waits :
           entry[e].waits[i].start <= t /\ t < entry[e].waits[i].end

(* The count a reader of util_time_points keeps after the first n points. *)
UtilCount(ps, n) ==
    Cardinality({i \in 1..n : ps[i].first}) - Cardinality({i \in 1..n : ~ps[i].first})

TypeOK ==
    /\ kind \in Kinds
    /\ entry \in [Entries -> TimeRanges(kind)]
    /\ level \in [Entries -> Nat \cup {None}]
    /\ line \in LinesOf(kind)
    /\ cursor \in 1..(2 * Cardinality(Entries) + 1)
    /\ free \subseteq Nat
    /\ maxLevels \in [LinesOf(kind) -> 0..Cardinality(Entries)]
    /\ capacity \in Nat
    /\ pc \in {"sort", "sweep", "stack", "done"}

(* Two entries the sweep put on one level of one timeline never share an *)
(* instant: the level of an entry is reused only after its stop point,   *)
(* and a start at the same time as a stop sorts first (time_key).        *)
SameLevelDisjoint ==
    \A e, f \in Entries :
        (e # f /\ LineOf(e) = LineOf(f) /\ level[e] # None /\ level[e] = level[f]) =>
            \/ entry[e].stop < OpenTime(entry[f])
            \/ entry[f].stop < OpenTime(entry[e])

(* The free-level heap makes the layout optimal: once sort_time_range is  *)
(* done each timeline has opened exactly as many levels as its entries    *)
(* ever overlap, so GPU kernels do not widen the host timeline nor host   *)
(* tasks the device one.                                                 *)
LevelsOptimal ==
    pc \in {"stack", "done"} => \A l \in DOMAIN maxLevels : maxLevels[l] = MaxOverlap(l)

(* After stack_time_points every entry is drawn exactly once, in the     *)
(* bucket of its level on its timeline, and each bucket lists entries in *)
(* time order with each stopping before the next opens, as the binary    *)
(* search of find_previous_executing_entry requires.                     *)
StackedLevelsOrdered ==
    pc = "done" =>
        /\ \A e \in Entries :
              /\ level[e] \in DOMAIN stacked[LineOf(e)]
              /\ Cardinality({i \in DOMAIN stacked[LineOf(e)][level[e]] :
                                  stacked[LineOf(e)][level[e]][i].e = e}) = 1
        /\ \A l \in DOMAIN stacked : \A b \in DOMAIN stacked[l] :
              \A i \in 1..(Len(stacked[l][b]) - 1) :
                  entry[stacked[l][b][i].e].stop < stacked[l][b][i + 1].time

(* Reading a timeline's util_time_points in order, +1 at an opening and  *)
(* -1 at a closing point, the count never goes negative, and once all    *)
(* the points of an instant are read it is the number of the timeline's  *)
(* entries running then: the inverted polarity of add_waiters takes a    *)
(* waiting task out of the utilization and puts it back when it resumes. *)
UtilTracksRunning ==
    pc \in {"stack", "done"} =>
        \A l \in DOMAIN utilPoints :
            LET ps == utilPoints[l]
            IN  \A n \in DOMAIN ps :
                    /\ UtilCount(ps, n) >= 0
                    /\ (n = Len(ps) \/ ps[n + 1].time > ps[n].time) =>
                           UtilCount(ps, n) =
                               Cardinality({e \in Entries :
                                               LineOf(e) = l /\ Running(e, ps[n].time)})

(* The spec: a memory with no or a dynamic capacity gets, as capacity,   *)
(* the maximum concurrent live size (at least 1) of its instances.       *)
MemCapacityIsPeak ==
    (pc \in {"stack", "done"} /\ kind = "mem"
        /\ (DeclaredCapacity = 0 \/ Dynamic)) =>
            capacity = IF PeakLiveSize > 1 THEN PeakLiveSize ELSE 1

=============================================================================
