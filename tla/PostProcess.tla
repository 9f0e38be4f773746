----------------------------- MODULE PostProcess -----------------------------
(***************************************************************************)
(* The passes main runs over the State after complete_parse (state.rs):   *)
(* State::trim_time_range when a window is given, check_message_latencies *)
(* and assign_colors.  sort_time_range and stack_time_points, which run   *)
(* between the audit and the colours, are modelled in LevelStack.         *)
(*                                                                         *)
(* A profile holds, per processor, the time ranges of its entries and the *)
(* two indexes the audit walks (meta_tasks, with each group's variant     *)
(* message flag, and message_tasks); prof_uid_proc; the creators; the     *)
(* memories' instances and the channels' entries; last_time.  Each        *)
(* profile also carries the clock offset of each node and the true        *)
(* latency of each message, from which its timestamps were derived: the   *)
(* code never reads them, the properties do.                              *)
(***************************************************************************)
EXTENDS Integers, Sequences, FiniteSets, TLC, Lfsr

LOCAL INSTANCE SequencesExt

CONSTANTS
    Profiles,   \* the States complete_parse can hand on
    Windows,    \* the (start, stop) arguments of trim_time_range
    KindLists,  \* what assign_colors colours, in its iteration order
    Threshold,  \* check_message_latencies' latency threshold
    None

VARIABLES
    prof,       \* the profile: indexes, creators, prof_uid_proc, clocks
    window,     \* the trim window, [start, stop]
    kinds,      \* the kinds to colour: [meta, id] records
    phase,      \* "trim" | "skew" | "latency" | "colors" | "coloring" | "done"
    panicked,   \* a panic stopped the program in the current phase
    entries,    \* proc -> (ProfUID -> TimeRange): Proc::entries
    mems,       \* mem -> (ProfUID -> TimeRange): Mem::insts
    chans,      \* chan -> (ProfUID -> TimeRange): Chan::entries
    lastTime,   \* State::last_time
    cursor,     \* position in the loop being run
    totalMessages, skewMessages,
    skewNodes,  \* (creator node, exec node) -> [n, sum]
    bad,        \* the messages counted in bad_messages
    register, bits, \* the Lfsr
    colors      \* the colour given to each kind, in order

vars == <<prof, window, kinds, phase, panicked, entries, mems, chans, lastTime, cursor,
          totalMessages, skewMessages, skewNodes, bad, register, bits, colors>>

audit == <<cursor, totalMessages, skewMessages, skewNodes, bad>>
lfsr == <<register, bits, colors>>

Node(p) == prof.node[p]

ProcOrder == SetToSortSeq(DOMAIN prof.metaTasks, <)

(* The uids check_for_skew visits on processor p: the message groups of  *)
(* meta_tasks, then message_tasks in ProfUID order.                       *)
MessageMetas(p) ==
    LET ms == SelectSeq(prof.metaTasks[p], LAMBDA m : m.message)
    IN  [j \in DOMAIN ms |-> <<p, ms[j].uid>>]

SpawnedTasks(p) ==
    LET us == SetToSortSeq(prof.messageTasks[p], <)
    IN  [j \in DOMAIN us |-> <<p, us[j]>>]

SkewOrder ==
    FlattenSeq([n \in DOMAIN ProcOrder |->
                  MessageMetas(ProcOrder[n]) \o SpawnedTasks(ProcOrder[n])])

LatencyOrder ==
    FlattenSeq([n \in DOMAIN ProcOrder |-> MessageMetas(ProcOrder[n])])

-----------------------------------------------------------------------------
(* Mutant: the clip subtracts without flooring values before the window. *)
ClipNoFloor(v, lo, hi) ==
    CASE v = None        -> None
      [] v - lo > hi - lo -> hi - lo
      [] OTHER           -> v - lo

(* TimeRange::trim_time_range.  The clip of create, ready, start, stop;   *)
(* spawn is left as it is.                                                *)
Clip(v, lo, hi) ==
    CASE v = None        -> None
      [] v <= lo         -> 0
      [] v - lo > hi - lo -> hi - lo
      [] OTHER           -> v - lo

(* true: the range lies wholly outside the window and is dropped.        *)
Drops(tr, lo, hi) ==
    (tr.stop # None /\ tr.stop < lo) \/ (tr.start # None /\ tr.start > hi)

(* Mutant: spawn is shifted with the other times, without the floor.   *)
ClippedShiftSpawn(tr, lo, hi) ==
    [tr EXCEPT !.create = Clip(@, lo, hi), !.ready = Clip(@, lo, hi),
               !.start = Clip(@, lo, hi), !.stop = Clip(@, lo, hi),
               !.spawn = IF @ = None THEN None ELSE @ - lo]

Clipped(tr, lo, hi) ==
    [tr EXCEPT !.create = Clip(@, lo, hi), !.ready = Clip(@, lo, hi),
               !.start = Clip(@, lo, hi), !.stop = Clip(@, lo, hi)]

(* Proc/Mem/Chan::trim_time_range: retain what is not dropped, clipped.  *)
Retain(f, lo, hi) ==
    [u \in {x \in DOMAIN f : ~Drops(f[x], lo, hi)} |-> Clipped(f[u], lo, hi)]

NoWindow == [start |-> None, stop |-> None]

Init ==
    /\ prof \in Profiles
    /\ window \in Windows
    /\ kinds \in KindLists
    /\ phase = "trim"
    /\ panicked = FALSE
    /\ entries = prof.entries
    /\ mems = prof.mems
    /\ chans = prof.chans
    /\ lastTime = prof.lastTime
    /\ cursor = 1
    /\ totalMessages = 0 /\ skewMessages = 0
    /\ skewNodes = <<>> /\ bad = {}
    /\ register = 0 /\ bits = 0 /\ colors = <<>>

(* A step of phase ph, unless a panic has stopped the program.           *)
At(ph) == phase = ph /\ ~panicked

Abort ==
    /\ panicked' = TRUE
    /\ UNCHANGED <<prof, window, kinds, phase, entries, mems, chans, lastTime>>
    /\ UNCHANGED audit /\ UNCHANGED lfsr

(* State::trim_time_range: no window, no trim; otherwise default the      *)
(* bounds, assert them, trim every proc, mem and chan, and rebase         *)
(* last_time.                                                             *)
TrimTimeRange ==
    /\ At("trim")
    /\ LET lo == IF window.start = None THEN 0 ELSE window.start
           hi == IF window.stop = None THEN lastTime ELSE window.stop
       IN  IF window = NoWindow
           THEN /\ phase' = "skew"
                /\ UNCHANGED <<panicked, entries, mems, chans, lastTime>>
           ELSE IF ~(lo <= hi /\ hi <= lastTime) THEN Abort
           ELSE /\ entries' = [p \in DOMAIN entries |-> Retain(entries[p], lo, hi)]
                /\ mems' = [m \in DOMAIN mems |-> Retain(mems[m], lo, hi)]
                /\ chans' = [c \in DOMAIN chans |-> Retain(chans[c], lo, hi)]
                /\ lastTime' = hi - lo
                /\ phase' = "skew"
                /\ UNCHANGED panicked
    /\ UNCHANGED <<prof, window, kinds>> /\ UNCHANGED audit /\ UNCHANGED lfsr

-----------------------------------------------------------------------------
(* check_message_latencies.  Welford's (count, mean, M2) is kept as the   *)
(* count and the exact sum: the mean is sum / count, and the `as u64` of  *)
(* the latency loop truncates it.  M2 only feeds the printed deviation.   *)
AddSample(sn, pair, x) ==
    IF pair \in DOMAIN sn
    THEN [sn EXCEPT ![pair] = [n |-> @.n + 1, sum |-> @.sum + x]]
    ELSE sn @@ (pair :> [n |-> 1, sum |-> x])

(* Mutant: the accumulated skew is used as the mean.                      *)
MeanSkewSum(sn, pair) == sn[pair].sum

MeanSkew(sn, pair) == sn[pair].sum \div sn[pair].n

(* Mutant: the skew_nodes key is built the other way round.              *)
SkewPairSwapped(cp, p) == <<Node(p), Node(cp)>>

(* The (creator node, executor node) key of skew_nodes.                  *)
SkewPair(cp, p) == <<Node(cp), Node(p)>>

(* The creator's processor, when the creator was profiled.               *)
CreatorProc(u) ==
    IF prof.creator[u] # None /\ prof.creator[u] \in DOMAIN prof.uidProc
    THEN prof.uidProc[prof.creator[u]] ELSE None

(* proc.entry(uid) and the two unwraps of spawn and create.              *)
Unreadable(p, u) ==
    \/ u \notin DOMAIN entries[p]
    \/ entries[p][u].spawn = None
    \/ entries[p][u].create = None

(* check_for_skew on one uid.  total_messages is counted per uid visited; *)
(* the code adds each group's length before the group, the same sum.     *)
CheckForSkew ==
    /\ At("skew")
    /\ cursor <= Len(SkewOrder)
    /\ LET p  == SkewOrder[cursor][1]
           u  == SkewOrder[cursor][2]
           tr == entries[p][u]
           cp == CreatorProc(u)
       IN  IF Unreadable(p, u) THEN Abort
           ELSE IF tr.spawn <= tr.create
           THEN /\ cursor' = cursor + 1
                /\ totalMessages' = totalMessages + 1
                /\ UNCHANGED <<skewMessages, skewNodes, bad>>
                /\ UNCHANGED <<prof, window, kinds, phase, panicked, entries, mems, chans,
                               lastTime>> /\ UNCHANGED lfsr
           ELSE IF cp # None /\ Node(cp) = Node(p) THEN Abort
           ELSE /\ cursor' = cursor + 1
                /\ totalMessages' = totalMessages + 1
                /\ skewMessages' = skewMessages + 1
                /\ skewNodes' = IF cp = None THEN skewNodes
                                ELSE AddSample(skewNodes, SkewPair(cp, p),
                                               tr.spawn - tr.create)
                /\ UNCHANGED bad
                /\ UNCHANGED <<prof, window, kinds, phase, panicked, entries, mems, chans,
                               lastTime>> /\ UNCHANGED lfsr

(* Mutant: the latency loop is skipped when no message showed skew.      *)
SkewDoneNoSkew ==
    /\ At("skew")
    /\ cursor > Len(SkewOrder)
    /\ phase' = IF skewMessages = 0 THEN "colors" ELSE "latency"
    /\ cursor' = 1
    /\ UNCHANGED <<prof, window, kinds, panicked, entries, mems, chans, lastTime,
                   totalMessages, skewMessages, skewNodes, bad>>
    /\ UNCHANGED lfsr

(* The end of the skew loop: no messages returns before the latency loop; *)
(* the skew report is printing.                                          *)
SkewDone ==
    /\ At("skew")
    /\ cursor > Len(SkewOrder)
    /\ phase' = IF totalMessages = 0 THEN "colors" ELSE "latency"
    /\ cursor' = 1
    /\ UNCHANGED <<prof, window, kinds, panicked, entries, mems, chans, lastTime,
                   totalMessages, skewMessages, skewNodes, bad>>
    /\ UNCHANGED lfsr

(* The latency-corrected create time: create plus the truncated mean skew *)
(* of the message's node pair, when that pair showed skew.               *)
Corrected(p, u) ==
    LET pair == SkewPair(CreatorProc(u), p)
    IN  entries[p][u].create
          + (IF pair \in DOMAIN skewNodes THEN MeanSkew(skewNodes, pair) ELSE 0)

(* One meta task of the latency loop: messages whose creator ran on a    *)
(* profiled processor and whose corrected create is not before the spawn *)
(* are counted when their latency reaches the threshold.                 *)
CheckLatency ==
    /\ At("latency")
    /\ cursor <= Len(LatencyOrder)
    /\ LET p == LatencyOrder[cursor][1]
           u == LatencyOrder[cursor][2]
       IN  IF Unreadable(p, u) THEN Abort
           ELSE /\ bad' = IF /\ CreatorProc(u) # None
                             /\ entries[p][u].spawn <= Corrected(p, u)
                             /\ Threshold <= Corrected(p, u) - entries[p][u].spawn
                          THEN bad \cup {u} ELSE bad
                /\ cursor' = cursor + 1
                /\ UNCHANGED <<prof, window, kinds, phase, panicked, entries, mems, chans,
                               lastTime, totalMessages, skewMessages, skewNodes>>
                /\ UNCHANGED lfsr

(* The end of the latency loop; the percentage only decides a warning.   *)
LatencyDone ==
    /\ At("latency")
    /\ cursor > Len(LatencyOrder)
    /\ phase' = "colors"
    /\ UNCHANGED <<prof, window, kinds, panicked, entries, mems, chans, lastTime>>
    /\ UNCHANGED audit /\ UNCHANGED lfsr

-----------------------------------------------------------------------------
(* assign_colors: Lfsr::new over the number of kinds, which panics in    *)
(* the taps match for fewer than two; max_value is 2^bits.               *)
NewLfsr ==
    /\ At("colors")
    /\ LET b == NeededBits(Len(kinds))
       IN  IF ~HasTaps(b) THEN Abort
           ELSE /\ register' = InitialRegister(b)
                /\ bits' = b
                /\ phase' = "coloring"
                /\ UNCHANGED colors
                /\ UNCHANGED <<prof, window, kinds, panicked, entries, mems, chans,
                               lastTime>> /\ UNCHANGED audit

(* One kind: meta variants 1, 2, 6, 7, 8, 9 take their fixed colour,     *)
(* every other kind compute_color(lfsr.next(), max_value).               *)
ColorKind ==
    /\ At("coloring")
    /\ Len(colors) < Len(kinds)
    /\ LET kd == kinds[Len(colors) + 1]
           r  == LfsrNext(register, bits)
       IN  IF kd.meta /\ kd.id \in DOMAIN FixedColor
           THEN /\ colors' = Append(colors, FixedColor[kd.id])
                /\ UNCHANGED register
           ELSE /\ register' = r
                /\ colors' = Append(colors, ComputeColor(r, 2^bits))
    /\ UNCHANGED <<prof, window, kinds, phase, panicked, entries, mems, chans, lastTime,
                   bits>>
    /\ UNCHANGED audit

ColorsDone ==
    /\ At("coloring")
    /\ Len(colors) = Len(kinds)
    /\ phase' = "done"
    /\ UNCHANGED <<prof, window, kinds, panicked, entries, mems, chans, lastTime>>
    /\ UNCHANGED audit /\ UNCHANGED lfsr

Terminated == (phase = "done" \/ panicked) /\ UNCHANGED vars

Next ==
    \/ TrimTimeRange
    \/ CheckForSkew \/ SkewDone
    \/ CheckLatency \/ LatencyDone
    \/ NewLfsr \/ ColorKind \/ ColorsDone
    \/ Terminated

Spec == Init /\ [][Next]_vars

-----------------------------------------------------------------------------
TimeRanges == [spawn : Nat \cup {None}, create : Nat \cup {None},
               ready : Nat \cup {None}, start : Nat \cup {None},
               stop : Nat \cup {None}]

TypeOK ==
    /\ phase \in {"trim", "skew", "latency", "colors", "coloring", "done"}
    /\ panicked \in BOOLEAN
    /\ \A p \in DOMAIN entries : \A u \in DOMAIN entries[p] : entries[p][u] \in TimeRanges
    /\ lastTime \in Nat /\ cursor \in Nat \ {0}
    /\ totalMessages \in Nat /\ skewMessages \in 0..totalMessages
    /\ \A pr \in DOMAIN skewNodes : skewNodes[pr].n \in Nat \ {0}
    /\ bad \subseteq {LatencyOrder[j][2] : j \in DOMAIN LatencyOrder}
    /\ colors \in Seq((0..255) \X (0..255) \X (0..255))

(* The trim window as State::trim_time_range defaults it.                *)
Lo == IF window.start = None THEN 0 ELSE window.start
Hi == IF window.stop = None THEN prof.lastTime ELSE window.stop

Trimmed ==
    /\ phase # "trim"
    /\ window # NoWindow
    /\ Lo <= Hi /\ Hi <= prof.lastTime

(* Every time range trim keeps, on processors, memories and channels,    *)
(* lies in [0, last_time] in its order create <= ready <= start <= stop, *)
(* and one that ran inside the window keeps its duration: the clip of    *)
(* TimeRange::trim_time_range neither underflows nor reorders.           *)
RangeInWindow(tr, orig) ==
    LET fs == <<tr.create, tr.ready, tr.start, tr.stop>>
        set == SelectSeq(fs, LAMBDA v : v # None)
    IN  /\ \A j \in DOMAIN set : 0 <= set[j] /\ set[j] <= lastTime
        /\ \A j \in 1..Len(set) - 1 : set[j] <= set[j + 1]
        /\ Lo <= orig.start /\ orig.stop <= Hi => tr.stop - tr.start = orig.stop - orig.start

TrimmedIntoWindow ==
    Trimmed =>
      /\ lastTime = Hi - Lo
      /\ \A p \in DOMAIN entries : \A u \in DOMAIN entries[p] :
            RangeInWindow(entries[p][u], prof.entries[p][u])
      /\ \A m \in DOMAIN mems : \A u \in DOMAIN mems[m] :
            RangeInWindow(mems[m][u], prof.mems[m][u])
      /\ \A c \in DOMAIN chans : \A u \in DOMAIN chans[c] :
            RangeInWindow(chans[c][u], prof.chans[c][u])

(* On an untrimmed profile, check_message_latencies records skew for a   *)
(* node pair only when the creating node's clock is ahead of the         *)
(* executing node's, and the mean skew it records, truncated as the      *)
(* latency loop uses it, is at least one unit and at most that offset:   *)
(* a message's skew is the offset less the message's latency.            *)
SkewBounded ==
    window = NoWindow =>
      \A pr \in DOMAIN skewNodes :
         1 <= MeanSkew(skewNodes, pr)
           /\ MeanSkew(skewNodes, pr) <= prof.offset[pr[1]] - prof.offset[pr[2]]

(* On an untrimmed profile, a message counted in bad_messages whose      *)
(* creator's clock is not behind its executor's took at least the        *)
(* threshold: the skew correction of the latency loop never makes a fast *)
(* message look slow.                                                    *)
NoFalseLatencyAlarm ==
    window = NoWindow =>
      \A u \in bad :
         prof.offset[Node(CreatorProc(u))] >= prof.offset[Node(prof.uidProc[u])]
           => prof.latency[u] >= Threshold

(* Every kind assign_colors colours from the LFSR gets a colour no other *)
(* kind has: the register width leaves a period of at least the number   *)
(* of kinds, and compute_color keeps the steps apart.                    *)
ColorsDistinct ==
    \A a, b \in DOMAIN colors :
       a # b /\ ~(kinds[a].meta /\ kinds[a].id \in DOMAIN FixedColor)
         => colors[a] # colors[b]

(* No assert, unwrap or unreachable!() of the passes fails.              *)
NoAbort == ~panicked

-----------------------------------------------------------------------------
(* The refinement mapping onto MessageAudit: the audit is pending until   *)
(* both loops are over, failed when a panic stopped it in one of them,    *)
(* and its results are skew_nodes and the counted messages once done.    *)
AuditState ==
    IF phase \in {"trim", "skew", "latency"}
    THEN IF panicked /\ phase # "trim" THEN "failed" ELSE "pending"
    ELSE "done"

MA == INSTANCE MessageAudit
        WITH input <- [entries |-> entries,
                        skewVisits |-> {SkewOrder[j] : j \in DOMAIN SkewOrder},
                        latencyVisits |-> {LatencyOrder[j] : j \in DOMAIN LatencyOrder},
                        creatorProc |-> [u \in DOMAIN prof.creator |-> CreatorProc(u)],
                        node |-> prof.node],
             auditState <- AuditState,
             skewTable <- IF AuditState = "done" THEN skewNodes ELSE <<>>,
             slow <- IF AuditState = "done" THEN bad ELSE {}

(* check_message_latencies implements the audit of spec 4.7: its two     *)
(* loops, one uid at a time, end with the skew table and the slow        *)
(* messages the set definitions give for the (trimmed) entries, and it   *)
(* panics exactly when some visited message is unreadable or skewed      *)
(* against a creator on its own node.                                    *)
AuditRefinement == MA!ASpec

=============================================================================
