----------------------------- MODULE CallNesting -----------------------------
(***************************************************************************)
(* Proc::sort_calls_and_waits (state.rs), preceded by the optional        *)
(* State::trim_time_range of the post-processing pipeline, for one task    *)
(* and the mapper/runtime/application calls it made on its processor.     *)
(* The calls are sorted by duration; each event wait of the task moves    *)
(* into the smallest call that contains it; each call becomes a callee    *)
(* wait of the next larger call containing it, or of the task; finally    *)
(* the event-wait backtraces are attached.  The rest of                  *)
(* Proc::sort_time_range and stack_time_points follow: LevelStack's sweep  *)
(* over the reconciled entries, instantiated for a processor.  The        *)
(* processor is then queried with find_previous_executing_entry.          *)
(***************************************************************************)
EXTENDS Integers, Sequences, FiniteSets, TLC

LOCAL INSTANCE SequencesExt

CONSTANTS
    Task,       \* the task's ProfUID
    Calls,      \* the calls' ProfUIDs (naturals, in BTreeMap order)
    Times,      \* timestamps
    MaxWaits,   \* the most event waits the task records
    Windows,    \* the trim windows [lo, hi] the run may apply
    None

Entries == {Task} \cup Calls

Interval == {r \in [start : Times, stop : Times] : r.start < r.stop}

(* [start, stop] of a lies within b; the two do not overlap.             *)
Within(a, b) == b.start <= a.start /\ a.stop <= b.stop
Apart(a, b) == a.stop <= b.start \/ b.stop <= a.start

VARIABLES
    range,      \* entry -> its TimeRange [start, stop]
    present,    \* the entries still in Proc::entries
    waits,      \* entry -> its Waiters::wait_intervals
    eventWaits, \* events of the task with a backtrace (Proc::event_waits)
    creator,    \* call -> its creator (the task as logged, the caller after)
    calls,      \* the subcalls of the task sorted by duration
    toRemove,   \* indices of the task's waits moved into a call
    idx,        \* the wait or call the loop is at
    logged,     \* history: the task's waits and backtraces as logged
    pc,         \* "trim" | "collect" | "waits" | "nest" | "backtraces"
                \* | "sort" | "sweep" | "stack" | "done" | "aborted"
    level, line, points, cursor, free, maxLevels, timePoints, utilPoints,
    stacked     \* the level sweep of sort_time_range (see LevelStack)

cnVars == <<range, present, waits, eventWaits, creator, calls, toRemove, idx,
            logged>>
lsVars == <<level, line, points, cursor, free, maxLevels, timePoints,
            utilPoints, stacked>>
vars == <<cnVars, lsVars, pc>>

EventWait(i, r) == [start |-> r.start, stop |-> r.stop, event |-> i,
                    callee |-> None, bt |-> FALSE]
CalleeWait(c) == [start |-> range[c].start, stop |-> range[c].stop,
                  event |-> None, callee |-> c, bt |-> FALSE]

(* Logs a processor can produce: calls nest or are disjoint within the    *)
(* task; the task's event waits are disjoint, in start order, and each    *)
(* lies within or apart from every call; a backtrace is logged only for  *)
(* an event the task waited on.                                          *)
CallsNested(rg) ==
    /\ \A c \in Calls : Within(rg[c], rg[Task])
    /\ \A c, d \in Calls : Within(rg[c], rg[d]) \/ Within(rg[d], rg[c])
                           \/ Apart(rg[c], rg[d])

WaitsNested(rg, ws) ==
    /\ \A i \in DOMAIN ws : Within(ws[i], rg[Task])
                            /\ \A c \in Calls : Within(ws[i], rg[c]) \/ Apart(ws[i], rg[c])
    /\ \A i, j \in DOMAIN ws : i < j => ws[i].stop <= ws[j].start

Init ==
    \E rg \in [Entries -> Interval] :
     /\ CallsNested(rg)
     /\ \E ws \in UNION {[1..n -> Interval] : n \in 0..MaxWaits} :
         /\ WaitsNested(rg, ws)
         /\ \E bts \in SUBSET DOMAIN ws :
             /\ range = rg
             /\ present = Entries
             /\ waits = [e \in Entries |->
                           IF e = Task THEN [i \in DOMAIN ws |-> EventWait(i, ws[i])]
                           ELSE <<>>]
             /\ eventWaits = bts
             /\ creator = [c \in Calls |-> Task]
             /\ calls = <<>>
             /\ toRemove = {}
             /\ idx = 1
             /\ pc = "trim"
             /\ logged = [waits |-> ws, bts |-> bts]
             /\ level = [e \in Entries |-> None]
             /\ line = "host" /\ points = <<>> /\ cursor = 1 /\ free = {}
             /\ maxLevels = [l \in {"host", "device"} |-> 0]
             /\ timePoints = [l \in {"host", "device"} |-> <<>>]
             /\ utilPoints = [l \in {"host", "device"} |-> <<>>]
             /\ stacked = [l \in {"host", "device"} |-> <<>>]

-----------------------------------------------------------------------------
(* State::trim_time_range -> Proc::trim_time_range -> TimeRange::trim_    *)
(* time_range: an entry wholly outside [lo, hi] is dropped, the others    *)
(* are shifted by lo and clipped to [0, hi - lo].  Wait intervals are     *)
(* left as they are.                                                      *)
Clip(v, w) == IF v <= w.lo THEN 0
              ELSE IF v - w.lo > w.hi - w.lo THEN w.hi - w.lo ELSE v - w.lo

Dropped(r, w) == r.stop < w.lo \/ r.start > w.hi

TrimTimeRange(w) ==
    /\ pc = "trim"
    /\ present' = {e \in present : ~Dropped(range[e], w)}
    /\ range' = [e \in Entries |->
                  IF e \in present' THEN [start |-> Clip(range[e].start, w),
                                          stop |-> Clip(range[e].stop, w)]
                  ELSE range[e]]
    /\ pc' = "collect"
    /\ UNCHANGED <<logged, waits, eventWaits, creator, calls, toRemove, idx>>

(* trim_time_range with neither bound given returns at once.             *)
NoTrim ==
    /\ pc = "trim"
    /\ pc' = "collect"
    /\ UNCHANGED <<logged, range, present, waits, eventWaits, creator, calls, toRemove,
                   idx>>

-----------------------------------------------------------------------------
(* Mutant: the push is not followed by the sort.                         *)
SortByStartUnsorted(s) == s

(* sort_by_key(|w| w.start): a stable insertion sort.                    *)
RECURSIVE InsertByStart(_, _)
InsertByStart(s, w) ==
    IF s = <<>> \/ Last(s).start <= w.start THEN Append(s, w)
    ELSE Append(InsertByStart(Front(s), w), Last(s))

RECURSIVE SortByStart(_)
SortByStart(s) == IF s = <<>> THEN <<>> ELSE InsertByStart(SortByStart(Front(s)), Last(s))

Duration(c) == range[c].stop - range[c].start

(* calls.sort_by_key(|a| a.2 - a.1), stable over BTreeMap order.         *)
SortedBySize(cs) ==
    SetToSortSeq(cs, LAMBDA a, b : \/ Duration(a) < Duration(b)
                                   \/ Duration(a) = Duration(b) /\ a < b)

(* The scan "find the smallest containing call" over calls[from..]: the  *)
(* index of the first call containing r (0 if none), and whether a call  *)
(* scanned before it overlaps r without containing it (assert fails).    *)
FirstContaining(r, from) ==
    LET hits == {k \in from..Len(calls) : Within(r, range[calls[k]])}
    IN  IF hits = {} THEN 0 ELSE CHOOSE k \in hits : \A j \in hits : k <= j
(* Mutant: touching intervals are taken to overlap.                      *)
ScanPanicsTouching(r, from) ==
    LET k == FirstContaining(r, from)
        last == IF k = 0 THEN Len(calls) ELSE k - 1
    IN  \E j \in from..last : ~(r.stop < range[calls[j]].start
                                 \/ range[calls[j]].stop < r.start)

ScanPanics(r, from) ==
    LET k == FirstContaining(r, from)
        last == IF k = 0 THEN Len(calls) ELSE k - 1
    IN  \E j \in from..last : ~Apart(r, range[calls[j]])

(* Collect the subcalls created by the task (every call of the model):   *)
(* a task with calls is taken out of entries (unwrap) with its event      *)
(* waits, and the calls are sorted; a task with none goes straight to    *)
(* the backtrace pass.                                                    *)
CollectSubcalls ==
    /\ pc = "collect"
    /\ LET cs == present \cap Calls
       IN  CASE cs = {} ->
                  /\ pc' = "backtraces"
                  /\ UNCHANGED calls
             [] Task \notin present ->
                  /\ pc' = "aborted"
                  /\ UNCHANGED calls
             [] OTHER ->
                  /\ calls' = SortedBySize(cs)
                  /\ pc' = "waits"
    /\ UNCHANGED <<logged, range, present, waits, eventWaits, creator, toRemove, idx>>

(* WaitInterval::from_event(.., backtrace): the moved wait keeps its      *)
(* backtrace.                                                             *)
MovedWaitNoBacktrace(w, bt) == w
MovedWait(w, bt) == [w EXCEPT !.bt = bt]

(* One wait of the task: take its backtrace out of the event-wait map,    *)
(* push it into the first (smallest) call containing it, else keep the    *)
(* backtrace on the task's wait.                                          *)
PlaceWait ==
    /\ pc = "waits"
    /\ idx <= Len(waits[Task])
    /\ LET w == waits[Task][idx]
           k == FirstContaining(w, 1)
           bt == w.event \in eventWaits
       IN  IF ScanPanics(w, 1)
           THEN /\ pc' = "aborted"
                /\ UNCHANGED <<waits, eventWaits, toRemove, idx>>
           ELSE /\ IF k # 0
                   THEN /\ waits' = [waits EXCEPT ![calls[k]] =
                                        Append(@, MovedWait(w, bt))]
                        /\ toRemove' = toRemove \cup {idx}
                   ELSE /\ waits' = [waits EXCEPT ![Task][idx].bt = bt]
                        /\ UNCHANGED toRemove
                /\ eventWaits' = eventWaits \ {w.event}
                /\ idx' = idx + 1
                /\ UNCHANGED pc
    /\ UNCHANGED <<logged, range, present, creator, calls>>

(* Mutant: the removal loop is left out.                                 *)
UnmovedNone(ws, rm) == ws

(* The task's waits without the moved ones, removed back to front.      *)
Unmoved(ws, rm) ==
    LET keep == SetToSortSeq(DOMAIN ws \ rm, <)
    IN  [i \in DOMAIN keep |-> ws[keep[i]]]

RemoveMovedWaits ==
    /\ pc = "waits"
    /\ idx > Len(waits[Task])
    /\ waits' = [waits EXCEPT ![Task] = Unmoved(@, toRemove)]
    /\ idx' = 1
    /\ pc' = "nest"
    /\ UNCHANGED <<logged, range, present, eventWaits, creator, calls, toRemove>>

(* Mutant: the scan for a caller starts at the call itself.              *)
CallerOfSelfScan(i) ==
    LET k == FirstContaining(range[calls[i]], i)
    IN  IF k # 0 THEN calls[k] ELSE Task

(* The caller of calls[i]: the first later call containing it, else the  *)
(* task.                                                                  *)
CallerOf(i) ==
    LET k == FirstContaining(range[calls[i]], i + 1)
    IN  IF k # 0 THEN calls[k] ELSE Task

(* One call: the next larger call containing it gets a callee wait, else  *)
(* the task does; the wait list is re-sorted by start and the call's      *)
(* creator becomes its caller.                                            *)
NestCall ==
    /\ pc = "nest"
    /\ idx <= Len(calls)
    /\ LET c == calls[idx]
           caller == CallerOf(idx)
       IN  IF ScanPanics(range[c], idx + 1)
           THEN /\ pc' = "aborted"
                /\ UNCHANGED <<waits, creator, idx>>
           ELSE /\ waits' = [waits EXCEPT ![caller] =
                                SortByStart(Append(@, CalleeWait(c)))]
                /\ creator' = [creator EXCEPT ![c] = caller]
                /\ idx' = idx + 1
                /\ UNCHANGED pc
    /\ UNCHANGED <<logged, range, present, eventWaits, calls, toRemove>>

(* The task goes back into entries; its event-wait map was removed.       *)
EndNest ==
    /\ pc = "nest"
    /\ idx > Len(calls)
    /\ eventWaits' = {}
    /\ pc' = "backtraces"
    /\ UNCHANGED <<logged, range, present, waits, creator, calls, toRemove, idx>>

(* The final loop over the remaining event_waits: the task's entry is     *)
(* unwrapped and each of its event waits takes its backtrace; then the   *)
(* map is cleared.                                                        *)
AttachBacktraces ==
    /\ pc = "backtraces"
    /\ CASE eventWaits = {} ->
              /\ pc' = "sort"
              /\ UNCHANGED waits
         [] Task \notin present ->
              /\ pc' = "aborted"
              /\ UNCHANGED waits
         [] OTHER ->
              LET ws == waits[Task]
              IN  /\ waits' = [waits EXCEPT ![Task] =
                                 [i \in DOMAIN ws |->
                                    IF ws[i].event # None
                                    THEN [ws[i] EXCEPT !.bt = ws[i].event \in eventWaits]
                                    ELSE ws[i]]]
                  /\ pc' = "sort"
    /\ eventWaits' = IF pc' = "aborted" THEN eventWaits ELSE {}
    /\ UNCHANGED <<logged, range, present, creator, calls, toRemove, idx>>

-----------------------------------------------------------------------------
(* The rest of Proc::sort_time_range: a start and a stop point per entry   *)
(* still in Proc::entries, the free-level sweep, then stack_time_points.   *)
(* A processor keys an entry by its start; waits do not open levels but   *)
(* go, as sort_calls_and_waits left them, into util_time_points.  The     *)
(* processor is not a GPU one, so its device timeline is empty.           *)
StackRanges == [e \in present |-> [ready |-> range[e].start, start |-> range[e].start,
                                   stop |-> range[e].stop, size |-> 0, kernel |-> FALSE,
                                   waits |-> [i \in DOMAIN waits[e] |->
                                                 [start |-> waits[e][i].start,
                                                  end |-> waits[e][i].stop]]]]

(* Timestamp::MAX, above every time of the model (TLC integers are 32 bit). *)
TimestampMax == 2^30

LS == INSTANCE LevelStack WITH Kinds <- {"proc"}, Sizes <- {0},
          DeclaredCapacity <- 0, Dynamic <- FALSE, MaxStamp <- TimestampMax,
          MaxWaits <- 0,
          kind <- "proc", entry <- StackRanges, capacity <- 0

(* A sweep step leaves the entries alone; UNCHANGED cnVars comes first so *)
(* that StackRanges' is defined when the sweep's UNCHANGED entry is read. *)
Terminated == pc \in {"done", "aborted"} /\ UNCHANGED vars

CNNext ==
    \/ \E w \in Windows : TrimTimeRange(w)
    \/ NoTrim
    \/ CollectSubcalls
    \/ PlaceWait \/ RemoveMovedWaits
    \/ NestCall \/ EndNest
    \/ AttachBacktraces

LSNext ==
    \/ LS!SortTimeRange
    \/ LS!TakeFreeLevel \/ LS!OpenNewLevel \/ LS!ReleaseLevel
    \/ LS!FinishSort
    \/ LS!StackTimePoints

Next ==
    \/ CNNext /\ UNCHANGED lsVars
    \/ UNCHANGED cnVars /\ LSNext
    \/ Terminated

Spec == Init /\ [][Next]_vars

-----------------------------------------------------------------------------
Wait == [start : Times, stop : Times, event : (1..MaxWaits) \cup {None},
         callee : Calls \cup {None}, bt : BOOLEAN]

TypeOK ==
    /\ range \in [Entries -> [start : Times, stop : Times]]
    /\ present \subseteq Entries
    /\ waits \in [Entries -> Seq(Wait)]
    /\ eventWaits \subseteq 1..MaxWaits
    /\ creator \in [Calls -> Entries \cup {None}]
    /\ pc \in {"trim", "collect", "waits", "nest", "backtraces", "sort", "sweep",
              "stack", "done", "aborted"}

(* The order sort_calls_and_waits visits the calls in.                   *)
Before(a, b) == \/ Duration(a) < Duration(b)
                \/ Duration(a) = Duration(b) /\ a < b

(* The entries whose wait list holds the wait of event i.                *)
HoldersOf(i) == {e \in Entries : \E j \in DOMAIN waits[e] : waits[e][j].event = i}

(* Every logged event wait ends in exactly one wait list, once, and that  *)
(* is the list of the innermost entry containing it: no call containing  *)
(* it lies strictly inside its holder.  This is what the "smallest       *)
(* containing call" scan over the duration-sorted calls is for.          *)
WaitsPlacedInnermost ==
    pc = "done" =>
      \A i \in DOMAIN logged.waits :
        \E h \in HoldersOf(i) :
          /\ HoldersOf(i) = {h}
          /\ Cardinality({j \in DOMAIN waits[h] : waits[h][j].event = i}) = 1
          /\ Within(logged.waits[i], range[h])
          /\ \A c \in Calls \ {h} :
                Within(logged.waits[i], range[c]) => h # Task /\ ~Before(c, h)

(* Each call's creator is rewritten to its caller: the first call after  *)
(* it in the sorted order that contains it, or the task; the caller's    *)
(* wait list holds exactly one callee wait for it.                       *)
CallerIsInnermostContainer ==
    pc = "done" =>
      \A c \in Calls :
        LET p == creator[c]
        IN  /\ p \in Entries \ {c}
            /\ p # Task => Within(range[c], range[p]) /\ Before(c, p)
            /\ \A d \in Calls \ {c, p} :
                  Within(range[c], range[d]) /\ Before(c, d)
                     => p # Task /\ Before(p, d)
            /\ \A e \in Entries :
                  Cardinality({j \in DOMAIN waits[e] : waits[e][j].callee = c})
                     = IF e = p THEN 1 ELSE 0

(* After reconciliation every wait list (the task's and each call's) is  *)
(* sorted by start, its waits are pairwise disjoint and lie within the   *)
(* entry: what the timeline rendering and find_executing_entry assume.   *)
WaitListsWellFormed ==
    pc = "done" =>
      \A e \in Entries :
        LET ws == waits[e]
        IN  /\ \A j \in DOMAIN ws : Within(ws[j], range[e])
            /\ \A j, k \in DOMAIN ws : j < k => ws[j].stop <= ws[k].start

(* Every event wait that had a backtrace recorded (EventWaitInfo) carries *)
(* it at the end, wherever the wait was moved, and no other wait does.   *)
BacktracesAttached ==
    pc = "done" =>
      \A e \in Entries : \A j \in DOMAIN waits[e] :
        waits[e][j].event # None => waits[e][j].bt = (waits[e][j].event \in logged.bts)

(* sort_calls_and_waits runs to the end: none of its unwraps and asserts *)
(* fails on a profile the earlier pipeline stages produced.              *)
NoAbort == pc # "aborted"


-----------------------------------------------------------------------------
(* Proc::find_previous_executing_entry(ready, start) for a processor that  *)
(* is not ProcKind::IO, over time_points_stacked.  A query is a record:   *)
(* result (None or <<uid, running_start, running_stop>>), panic (an       *)
(* assert failed) and run (the loop's running_start).                     *)

(* A candidate replaces the result only when strictly closer to start.   *)
Closest(res, seg, start) ==
    IF res = None \/ start - seg[3] < start - res[3] THEN seg ELSE res

(* Mutant: the loop does not stop at the wait that outlasts start.       *)
RECURSIVE WaitSegmentsNoBreak(_, _, _, _, _, _)
WaitSegmentsNoBreak(e, ready, start, ws, run, q) ==
    IF ws = <<>> THEN [q EXCEPT !.run = run]
    ELSE LET w  == Head(ws)
             q1 == [q EXCEPT !.panic = @ \/ ~(w.start <= start),
                             !.result = IF ready <= w.start
                                        THEN Closest(@, <<e, run, w.start>>, start)
                                        ELSE @]
         IN  WaitSegmentsNoBreak(e, ready, start, Tail(ws), w.stop, q1)

(* The loop over the entry's wait intervals: each wait closes the running *)
(* segment [running_start, wait.start], considered if ready <= wait.start; *)
(* the loop stops at the first wait ending at or after start.             *)
RECURSIVE WaitSegments(_, _, _, _, _, _)
WaitSegments(e, ready, start, ws, run, q) ==
    IF ws = <<>> THEN [q EXCEPT !.run = run]
    ELSE LET w  == Head(ws)
             q1 == [q EXCEPT !.panic = @ \/ ~(w.start <= start),
                             !.result = IF ready <= w.start
                                        THEN Closest(@, <<e, run, w.start>>, start)
                                        ELSE @]
         IN  IF start <= w.stop THEN [q1 EXCEPT !.run = w.stop]
             ELSE WaitSegments(e, ready, start, Tail(ws), w.stop, q1)

(* One level: partition_point(|r| r.time < start) on the sorted level     *)
(* gives the last entry starting before start; its segments up to its    *)
(* stop are examined, the final one if ready < stop.                      *)
LevelScan(l, ready, start, q) ==
    LET lv    == stacked["host"][l]
        upper == Cardinality({i \in DOMAIN lv : lv[i].time < start})
    IN  IF lv = <<>> \/ upper = 0 THEN q
        ELSE LET e  == lv[upper].e
                 q0 == [q EXCEPT !.panic = @ \/ ~(range[e].start < start)]
                 q1 == WaitSegments(e, ready, start, waits[e], range[e].start, q0)
             IN  IF q1.run < start
                 THEN [q1 EXCEPT !.panic = @ \/ ~(range[e].stop <= start),
                                 !.result = IF ready < range[e].stop
                                            THEN Closest(@, <<e, q1.run, range[e].stop>>, start)
                                            ELSE @]
                 ELSE q1

RECURSIVE ScanLevels(_, _, _, _)
ScanLevels(l, ready, start, q) ==
    IF l \notin DOMAIN stacked["host"] THEN q
    ELSE ScanLevels(l + 1, ready, start, LevelScan(l, ready, start, q))

FindPreviousExecutingEntry(ready, start) ==
    ScanLevels(0, ready, start, [result |-> None, panic |-> FALSE, run |-> 0])

(* Mutant: a wait is taken to hold its end instant too.                  *)
CalleeHitsClosed(e, t) ==
    {i \in DOMAIN waits[e] : waits[e][i].callee # None
                              /\ waits[e][i].start <= t /\ t <= waits[e][i].stop}

(* Proc::find_executing_entry(prof_uid, creation_time): from the entry,  *)
(* follow the first callee wait holding the time, [wait.start, wait.end), *)
(* asserting start <= creation_time < stop of every entry on the way; a   *)
(* callee missing from entries ends the walk at its caller.               *)
CalleeHits(e, t) ==
    {i \in DOMAIN waits[e] : waits[e][i].callee # None
                              /\ waits[e][i].start <= t /\ t < waits[e][i].stop}

RECURSIVE ExecutingFrom(_, _)
ExecutingFrom(e, t) ==
    LET hits == CalleeHits(e, t)
        next == IF hits = {} THEN None
                ELSE waits[e][CHOOSE i \in hits : \A j \in hits : i <= j].callee
    IN  IF ~(range[e].start <= t /\ t < range[e].stop)
        THEN [result |-> e, panic |-> TRUE]
        ELSE IF next = None \/ next \notin present
             THEN [result |-> e, panic |-> FALSE]
             ELSE ExecutingFrom(next, t)

FindExecutingEntry(uid, t) ==
    IF uid \in present THEN ExecutingFrom(uid, t) ELSE [result |-> None, panic |-> FALSE]

(* Reference: the running segments of an entry are the gaps its waits    *)
(* leave in [start, stop]; the latest one of positive length that ended   *)
(* by start and ran after ready.                                          *)
RunningSegments(e) ==
    LET ws     == waits[e]
        opens  == <<range[e].start>> \o [i \in DOMAIN ws |-> ws[i].stop]
        closes == [i \in DOMAIN ws |-> ws[i].start] \o <<range[e].stop>>
    IN  {<<e, opens[i], closes[i]>> : i \in 1..(Len(ws) + 1)}

LatestRunning(ready, start) ==
    LET C == {g \in UNION {RunningSegments(e) : e \in present} :
                 g[2] < g[3] /\ g[3] <= start /\ ready < g[3]}
    IN  IF C = {} THEN None ELSE CHOOSE g \in C : \A h \in C : h[3] <= g[3]

(* The spec (4.6): for the start of any entry of the processor and any    *)
(* ready time before it, find_previous_executing_entry asserts nothing    *)
(* (one entry runs at a time once calls and waits are reconciled), finds  *)
(* the running segment after ready that ended last before start, and      *)
(* returns nothing but a gap between an entry's waits, in [ready, start].  *)
PreviousIsLatestRunning ==
    pc = "done" =>
      \A e \in present : \A r \in Times :
        r <= range[e].start =>
          LET s == range[e].start
              q == FindPreviousExecutingEntry(r, s)
              L == LatestRunning(r, s)
          IN  /\ ~q.panic
              /\ q.result # None =>
                    /\ q.result \in UNION {RunningSegments(f) : f \in present}
                    /\ r <= q.result[3] /\ q.result[3] <= s
              /\ L # None => q.result # None /\ q.result[3] = L[3]

(* find_executing_entry, asked for any instant of an entry's run, asserts *)
(* nothing and lands on the innermost call running then: an entry whose  *)
(* range holds the instant, lies within the entry asked about, and has   *)
(* no callee (a call whose creator it became) holding the instant.  This  *)
(* is what the callee waits and creators written by sort_calls_and_waits *)
(* must jointly provide.                                                  *)
ExecutingEntryIsInnermost ==
    pc = "done" =>
      \A e \in present : \A t \in Times :
        range[e].start <= t /\ t < range[e].stop =>
          LET q == FindExecutingEntry(e, t)
              x == q.result
          IN  /\ ~q.panic
              /\ range[x].start <= t /\ t < range[x].stop
              /\ Within(range[x], range[e])
              /\ \A d \in present \cap Calls :
                    creator[d] = x => ~(range[d].start <= t /\ t < range[d].stop)

====
