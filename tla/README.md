# TLA+ models of the Legion profiler state (`legion_prof_rs/src/state.rs`)

This directory holds a model-checking project for
`src/tools/legion_prof_rs/src/state.rs`. That file turns the binary records of
Legion/Realm profiling logs into the in-memory `State` that the profiler's
viewers render. The modules are written from the Rust source. Each definition
that models code is listed in `PROJECT.json` under `map`, with the source lines
it translates.

## 1. The system

`State::process_records` applies each decoded `Record` through `process_record`
(line 4387). The logs of all nodes are read together, so records about one
entity can come in any order. The handlers rely on "create-or-update" idioms
for this. After ingestion the driver runs these post-passes:
`complete_parse`, `trim_time_range`, `check_message_latencies`,
`sort_time_range`, `stack_time_points`, `assign_colors`, `filter_output` and
`compute_critical_paths`.

| Part | State | Operations | Interacts with |
|---|---|---|---|
| Identity allocator (`ProfUIDAllocator`, 3067) | fevent → ProfUID map, next id | `create_fresh`, `create_reference`, `create_object` (asserts fevent unused), `complete_parse` | every `create_*` helper |
| Entity dictionaries (`State`, 3215) | procs, mems, chans, ops, tasks, insts, kinds, variants, providers | `create_op`, `create_task`, `create_meta`, `create_copy`, `create_fill`, `create_deppart`, `create_inst`, `create_prof_task` | dispatcher, containers |
| Containers (`Proc` 620, `Mem` 1210, `Chan` 1573) | `entries`/`insts` (BTreeMap by ProfUID), `time_points`, `util_time_points`, `time_points_stacked`, `max_levels`, `capacity` | `sort_calls_and_waits`, `sort_time_range`, `stack_time_points`, `trim_time_range`, `find_previous_executing_entry` | level assignment, queries |
| Caller/waiter reconciliation (`Proc::sort_calls_and_waits`, 768) | each entry's calls and `Waiters` | nest calls inside their task, move waits into the innermost call | level assignment |
| Level assignment and stacking (894, 1262, 1632, 369) | TimePoints, free-level heap, levels | sweep and stack | renderer, previous-entry search |
| Copy splitting (`Copy::split_by_channel`, 2780) | `copy_inst_infos` rows with indirection markers | group by indirection, then by (src, dst) | event graph (`create_copy`) |
| Event DAG and critical paths (3251, 3281, 3318, 4252) | `event_graph` (petgraph), `event_lookup` | `record_event_node`, `find_event_node`, the event-record handlers, `compute_critical_paths` | every producer of an event |
| Time ranges (`TimeRange`, 2421) | create/ready/start/stop/spawn | `new_full`, `trim_time_range` | every entry |
| Latency audit (`check_message_latencies`, 3943) | float statistics | Welford mean/variance, warnings | time ranges |
| Colors (`Lfsr` 3017, `assign_colors` 4141) | LFSR register, taps | `new`, `next` | variants, kinds |
| Output filtering (`filter_output`, 4178) | visibility flags | node filtering | renderer |

Hard behaviours in this code:
- **Record order.** Every handler must cope with any order of records:
  - placeholders (`UnknownEvent`, `create_op`) are promoted later;
  - barrier arrivals from several nodes must keep the latest one;
  - merges and remote triggers are logged once per node and must be
    deduplicated;
  - some handlers (`TaskWaitInfo`, `CopyInstInfo`, `SpawnInfo`) `unwrap` an
    entity that an earlier record must have created.
- **Sweep boundaries.** A start and a stop at the same instant, zero-length
  entries, and the free-level heap.
- **Memory levels are 1-based** while processor and channel levels are 0-based.
- **Event graph.** A cycle in the logged graph, a tainted (unknown)
  precondition, and the different choice made for completion queues.

Containers are sorted and stacked in parallel (`par_iter_mut`), but each task
touches only its own container, so no interleaving between containers needs a
model. `process_records` itself is sequential. The concurrency that matters is
the arbitrary order of the records.

## 2. Modules

### `EventGraph` (core) — event DAG and critical paths
- **State:**
  - `nodes` maps an EventID to its `EventEntry` (kind, creator, creation
    time, trigger time, critical). It merges `event_lookup` with the node
    weights.
  - `edges` is the petgraph edge list in insertion order. Parallel edges are
    kept, because `add_edge` allows them.
  - `log` is the log being processed and `pending` its unprocessed records.
  - `phase` is `ingest`, `critical`, `done` or `aborted`. `aborted` means a
    panic: an `assert!`, an `unwrap()` on None, or `unreachable!()`.
  - `relaxed` holds the vertices already visited by the topological loop.
  - `cleared` means `event_lookup.clear()` was called.
- **Actions:**
  - `ProcessRecord(i)` applies any pending record, i.e. one `process_record`
    call, and moves to `aborted` when the handler panics. The record is one of:
    - a producer (TaskInfo, CopyInfo, … calling `record_event_node` with its
      own trigger time);
    - EventMergerInfo, EventTriggerInfo or EventPoisonInfo;
    - BarrierArrivalInfo, ordinary or handshake;
    - ReservationAcquireInfo, CompletionQueueInfo, InstanceReadyInfo or
      InstanceRedistrictInfo;
    - ImplicitTaskInfo, which only calls `find_event_node`.

    Each handler is translated whole: node recording, deduplication, the
    recursive barrier-phase chaining of `find_event_node`, and `add_edge` or
    `update_edge` exactly as the handler uses them.
  - `NoCriticalPathData`, `CycleDetected` and `BeginRelaxation` are the three
    exits of the start of `compute_critical_paths`.
  - `RelaxVertex(v)` is one iteration of the loop over the topological order,
    ending in `aborted` when one of its asserts or unwraps fails. Incoming edges are scanned newest first, as
    petgraph does, and the scan stops at the first untimed source.
  - `FinishRelaxation` ends the pass. `Terminated` is the idle state after the
    pass returned or panicked.
- **Abstraction:**
  - An event is a record `[node, idx, barrier, gen]`. `get_previous_phase`
    decrements `gen`.
  - A creator ProfUID is represented by its fevent, since `create_reference`
    is injective.
  - Times are small naturals.
  - Record fields the graph does not read (names, processors, providers) are
    left out.

### `LevelStack` (core) — level assignment and stacking of one container
- **Constants:**
  - `Kinds`, the container kinds to check (`proc`, `gpu`, `chan`, `mem`).
    `Init` picks one as `kind`.
  - The entries (ProfUIDs), their possible times and sizes, the declared
    capacity, whether the memory is `GPUDynamic`, and `MaxWaits`, the
    number of waits all entries have together.
- **State:**
  - the entries' time ranges, chosen in `Init`. Each has `start <= stop`.
    On a GPU processor an entry may be a kernel. Other processor entries
    may have one wait inside their execution, as the logger writes it.
    Kernels have none: wait records and nested calls only find tasks, meta
    tasks and profiling tasks.
  - `level`, the timeline `line` being swept, the sorted `points`, the
    sweep `cursor` and the `free` heap;
  - per timeline (`host`, and `device` for processors): `maxLevels`
    (`max_live_insts` for a memory), `timePoints`, `utilPoints` and
    `stacked`;
  - `capacity` and `pc`.
- **Actions:**
  - `SortTimeRange` pushes the points and sweeps the host timeline first
    (`SweepLine`). `SweepLine` sorts the timeline's points and util points
    by `time_key`, with (ProfUID, push index) as the stable tie-break, and
    starts with a new heap. The util points also hold each wait, as a
    closing point at its start and an opening point at its end
    (`add_waiters`).
  - The sweep steps are:
    - `TakeFreeLevel`: pop the smallest free level;
    - `OpenNewLevel`: post-increment for proc/chan, pre-increment for mem;
    - `ReleaseLevel`.
  - `FinishSort` does the `retain`/`filter` of start points. For a
    processor it then sweeps the device timeline, which holds the GPU
    kernels (on a non-GPU processor it is empty). Otherwise it recomputes
    the memory capacity.
  - `StackTimePoints` is `stack_time_points` / `Container::stack`, for each
    timeline.
- `gpu` subsumes `proc`: a GPU processor without kernels runs exactly the
  steps of any other processor. So the run checks `gpu` and `mem`.

### `CopySplit` — `Copy::split_by_channel` (2780)
- **Model:** `LinearGroupBy` is `slice_group_by::linear_group_by`, written as
  a RECURSIVE operator and used at both grouping levels.
  - The first level groups by indirection, with the predicate
    `|i, _| i.indirect`.
  - The second level groups by memory pair.
- **Per group:** the marker is re-inserted, and the copy kind and channel are
  computed. A `None` channel stands for the `unimplemented!`/`unreachable!`
  arms.
- **Effects:** the fresh ProfUIDs are allocated, and the event node's creator
  is overwritten.
- **`Init`:** every well-formed row list of up to `MaxRows` rows. In a
  well-formed list each marker is followed by a direct row, which is the
  code's assumption 3.
- **`SpecCopies`:** the split that spec 4.3, spec scenario 4 and the code's
  assumptions 2 and 4 describe: a run lasts from one marker to the next, and
  within a run there is one copy per stretch of rows with the same memory
  pair.
- **Use:** `RecordDispatch` instantiates `CopySplit` and calls its row
  operators (`SplitCopies`, `SplitPanics`, `WellFormed`, `DataRows`) where
  `process_records` splits each copy. `CopySplit`'s own `Spec` is only run to
  compare the code's split with the spec's (`copysplit_spec`).

### `CallNesting` — `Proc::sort_time_range` (894): `sort_calls_and_waits` (768) after `trim_time_range`, the level sweep, and the two processor queries
- **Scope:** one task with three calls (mapper/runtime/application calls on
  the same processor), and at most two event waits with optional
  backtraces.
- **Actions:**
  - `TrimTimeRange(w)` / `NoTrim`: `State::trim_time_range` for one
    processor. It clips each entry with `TimeRange::trim_time_range` and
    drops the entries `Proc::trim_time_range`'s `retain` removes. Wait
    intervals are left as they were, as in the code.
  - `CollectSubcalls`: collects the subcalls, removes the task, and sorts the
    subcalls by duration.
  - `PlaceWait`: one iteration of the wait loop. It scans for the smallest
    containing call, moves the wait there with its backtrace, or asserts the
    wait is apart.
  - `RemoveMovedWaits`: the back-to-front `remove`.
  - `NestCall`: one iteration of the call loop. It finds the innermost caller
    (scan from `idx1 + 1`), inserts a callee wait, re-sorts the list, and sets
    the creator.
  - `EndNest`, and `AttachBacktraces`: the final `event_waits` pass.
  - The rest of `Proc::sort_time_range` and `stack_time_points`:
    `LS == INSTANCE LevelStack WITH kind <- "proc", entry <- StackRanges, ...`
    runs LevelStack's own sweep actions (`LS!SortTimeRange`,
    `LS!TakeFreeLevel`, ...) over the entries still in `Proc::entries`.
    `Next` is `CNNext /\ UNCHANGED lsVars` or `UNCHANGED cnVars /\ LSNext`,
    so the two components share `pc` and nothing else. `UNCHANGED cnVars`
    comes first so that TLC knows `StackRanges'` when it reads the sweep's
    `UNCHANGED entry`.
- **Queries (operators over the final state):**
  - `FindPreviousExecutingEntry(ready, start)` is
    `Proc::find_previous_executing_entry` (1103). It covers the level loop,
    `partition_point(|r| r.time < start)` on each sorted level, the
    wait-split running segments (`WaitSegments`, including the `break`),
    the strict "closer" test (`Closest`) and the three asserts, recorded as
    `panic`. The I/O early return and the device timeline are not modelled.
  - `FindExecutingEntry(uid, t)` is `Proc::find_executing_entry` (1016). It
    follows the first callee wait holding `t` on `[start, end)` and asserts
    `start <= t < stop` at each step.
  - `RunningSegments` and `LatestRunning` are the reference definitions: the
    gaps an entry's waits leave in its range, and the latest one of positive
    length ending in `(ready, start]`.
- **History variable:** `logged` records the waits and backtraces as logged,
  for the properties.
- **Intervals:** a call or wait has `start < stop`.

### `RecordDispatch` — `process_records` / `process_record` (3781, 4387)
- **Scope:** the non-event handlers whose effect depends on which records came
  before them.
  - `ProcDesc`, `OperationInstance`, `TaskInfo`, `MetaInfo` (also standing for
    `MessageInfo`).
  - `TaskWaitInfo`, `MetaWaitInfo`.
  - `CopyInfo`, `CopyInstInfo`, `FillInfo`, `FillInstInfo`.
  - `EventWaitInfo`, `SpawnInfo`.
  - `InstTimelineInfo`, `ProfTaskInfo`.
  - `MapperCallInfo`, `RuntimeCallInfo` and `ApplicationCallInfo` (`CallInfo`),
    after their descriptors and `Provenance` (`CallDesc`). A call shorter than
    `CallThreshold` is skipped, and a call whose descriptor is missing panics.
    A call's entry takes its creator's ProfUID, and only a mapper call creates
    its operation.
  - `GPUTaskInfo`: the host task through `create_task`, plus a `GPUKernel`
    entry under a second fresh ProfUID whose creator is the task's.
  - `ImplicitTaskInfo` (handled as `TaskInfo`), `MultiTask` (`create_op` and
    the `multi_tasks` entry) and `SliceOwner` (panics on a `u64::MAX`
    parent, otherwise `create_op` of the parent and the operation).
- **Helpers:**
  - `create_op`, `create_task`, `create_meta`, `create_copy`, `create_fill`.
  - `Proc::create_proc_entry`.
  - State's and Proc's `find_task_mut` and `find_last_meta_mut`.
  - `Operation::set_parent_id`/`set_kind`.
  - `ProfUIDAllocator::create_reference`/`create_object`, whose interning and
    single-definition assert are the point of the model.
- **State:** maps with a growing domain: `operations`, `tasks`, `metaTasks`,
  `procTasks`, `procMetas`, `entries`, `uidProc`, `opProfUid`, `fevents`,
  `copies`, `fills`.
  - `defined` is a history of the ProfUID `create_object` returned for each
    fevent.
  - `Init` picks a log from `Logs`. Each action is one `process_record` call
    on the next record, and a panic ends in `pc = "aborted"`.
  - `chans` (ChanID → ProfUID → entry), `uidChan` (`prof_uid_chan`) and
    `hasProfData` are the state the post-pass writes.
- **Descriptors:** `MemDesc` (`mems.entry(..).or_insert_with`) and
  `ProcMDesc` (`mem_proc_affinity.entry(..).or_insert_with(..)
  .update_best_aff(..)`, where a strictly larger bandwidth wins). Memory
  kinds and latencies are left out.
- **Post-pass of `process_records` (3803–3858),** in the code's order:
  - `PlaceInsts`: each instance with a memory goes into its memory
    (`add_inst`).
  - `PlaceFills`: every fill with rows goes through `Fill::add_channel`,
    whose asserts require one destination for all rows, into the `Fill`
    channel of that destination under the fill's own ProfUID.
  - `PlaceProfs`: each profiling task takes the creator, create and ready
    times of what it profiles (`find_prof_task_times`: an entry, an
    instance, whose ready is its stop for a completion row, or a copy or
    fill entry of a channel). Then `update_prof_task_times` writes them into
    its `ProfTask` entry, whose asserts require the fields to be unset, and
    `has_prof_data` is set (3839).
  - `PlaceCopy`: one turn of the copy loop. A copy with rows is split by
    `split_by_channel` (the `CopySplit` operators), each piece takes a fresh
    ProfUID from `create_fresh` and goes into its channel through
    `find_chan_mut` and `add_copy` (`or_insert`).
  - `CopiesPlaced`: the copy map is consumed and the pass returns.
- **`FilterOutput` (4178):** `State::filter_output`, the next pipeline stage
  that changes the containers. The stages in between (`complete_parse`,
  trim, audit, sort, stack, colours) add or remove no processor, memory or
  channel.
  - `visible_nodes` (`\E vn \in VisibleChoices`) and
    `Config::filter_input()` (`\E fi \in BOOLEAN`) are chosen once, in this
    step. Nothing earlier reads them, and `set_config` fixes them once.
  - With `visible_nodes` empty the function returns at once.
  - Otherwise processors and memories off the visible nodes get
    `visible = false` (`hidden`), and the memories go into
    `memid_to_be_deleted`. A channel is hidden when no memory it names
    (`Endpoints`) is on a visible node. A visible channel takes all its
    memories out of the set (`KeptEndpoints`).
  - Under `filter_input` the retains remove the hidden processors and
    channels, and the memories left in the set together with their
    affinity entries.
  - The `DepPart` arm is not reached, since dependent-partition records are
    not modelled. `ProcNode` and `MemNode` stand for `node_id()`.
  - The copies map
    is walked in EventID order, but the model takes the copies in any order.
    That only permutes the fresh ProfUIDs between copies. The event node's
    creator, which the split also updates, belongs to `EventGraph`.
- **Left out:** sizes, critical events, instance field and layout records,
  the name-table descriptors (kinds, fields, layouts, task and variant
  names), and the GPU device interval and `last_time`. Times are kept only
  where a property reads them: call ranges, and the creator and times
  profiling tasks resolve. The event-graph calls are modelled in
  `EventGraph`.
- **Processors:** `Proc` maps are merged across processors, because ProfUIDs
  are global. The logs use one processor.
- **Logs (`MCRecordDispatch`):** three families, each in every order
  (`SetToSeqs`):
  - **task family:** a processor, an operation with a parent, its task, a
    task wait and an event wait;
  - **meta family:** two meta tasks of the same (op, lg), one wait each, and a
    spawn of the second;
  - **copy/fill family:** a copy with two rows and a fill with one.
  - **split logs:** a fill, then a copy with each well-formed list of up to
    four direct, gather and scatter rows, in logger order. Gather-scatter
    markers are left out, because the code rejects them with
    `unimplemented!`.
  - **descriptors:** each split log is preceded by a second processor P2,
    `MemDesc` for A and B, and the affinities of A in every order: P with
    bandwidth 1, then P2 and P with bandwidth 2, so that first-among-equals
    matters. B's affinity is P2. A and P are on node 0, B and P2 on node 1.
    `visible_nodes` is empty, `{0}` or `{1}`.
- **`LoggerOrder`:** the orders the pass run keeps.
  - A record that creates an entity precedes every row naming it.
  - A task's or meta task's wait rows follow its info record with only its
    own other wait rows between.
  - `OperationInstance`/`TaskInfo`, `EventWaitInfo`/`TaskInfo` and spawn
    placement stay free.

### `PostProcess` — `trim_time_range`, `check_message_latencies`, `assign_colors` (3920, 3943, 4141)
- **Scope:** the three post-passes the driver runs in this order on a parsed
  profile. A profile (`Profiles`) has two processors on two nodes, their
  entries, meta-task lists, message tasks and creators, a memory and a
  channel. `Windows` gives the trim windows and `KindLists` the kinds to
  colour.
- **State:**
  - `entries`, `mems`, `chans` and `lastTime`, which trim rewrites;
  - `phase` (`trim`, `skew`, `latency`, `colors`, `coloring`, `done`), and
    `panicked` for a panic in that phase;
  - the audit: `cursor`, `totalMessages`, `skewMessages`, `skewNodes` and
    `bad` (the slow messages);
  - the colours: `register`, `bits` and `colors`.
- **Actions:**
  - `TrimTimeRange`: the no-window return, the defaulted bounds and their
    asserts, then `TimeRange::trim_time_range` (drop outside the window,
    clip create/ready/start/stop, leave spawn) under the `retain` of every
    processor, memory and channel, and `last_time = stop - start`.
  - `CheckForSkew`: one call of the `check_for_skew` closure on the next
    uid. The visit order is each processor in ProcID order, its message
    meta tasks, then its `message_tasks`. The step panics on
    `proc.entry(uid)`, on the spawn/create unwraps, or on the same-node
    assert. It adds a sample to the (creator node, executor node) pair when
    the creator ran on a profiled processor.
  - `SkewDone`: the `total_messages == 0` return, or on to the latency loop.
  - `CheckLatency`: one meta task of the latency loop. Create is moved
    forward by the truncated mean skew of its pair, and the message is
    counted when the corrected latency is non-negative and at least the
    threshold. `LatencyDone` ends the loop.
  - `NewLfsr`, `ColorKind` and `ColorsDone`: `assign_colors` over the kind
    list. Meta variants 1, 2, 6, 7, 8 and 9 take their fixed colours and
    every other kind takes `compute_color(lfsr.next(), max_value)`.
- **Abstraction:**
  - Welford's `(count, mean, M2)` is kept as the count and the exact sum.
    The mean the latency loop reads is `sum / count`, truncated as `as u64`
    truncates it. `M2` and the percentage only feed printed warnings.
  - The kinds are task variants followed by meta variants. The other kind
    tables go through the same `compute_color(lfsr.next(), …)` call and are
    represented by the task variants.
  - The MC profile carries two ghost fields, the true clock `offset` of
    each node and each message's true `latency`. The code never reads them;
    the properties do.

### `Lfsr` — `Lfsr::new`, `Lfsr::next`, `compute_color` (3018, 3055, 2966)
- **Operators:**
  - `NeededBits` is the bit length, with the `as u32` of `-inf` for size 0
    saturating to 0.
  - `TapTable` is the taps match, and `HasTaps` is false where the code
    reaches `unreachable!()`.
  - `InitialRegister` takes the top bits of the seed.
  - `LfsrNext` is the shift with the parity of the taps fed in at the top
    (RECURSIVE `XorOf`).
  - `ComputeColor` is the HSV sector formula in integers. `num_steps` is a
    power of two, so the `f64` operations are exact and give the same bytes.

### `MessageAudit` — what `check_message_latencies` computes (spec 4.7)
- **Abstract specification.** One step, `Complete`, does the whole audit on
  sets:
  - the attributed skews grouped by node pair into a count and a sum
    (`Table`);
  - the slow messages (`Slow`).
- **Failure:** `Panic` fires exactly when a visited message is unreadable or
  skewed against a creator on its own node. Before the audit, `Prepare` lets
  what it will read change, which is where the trim happens.
- **Refinement:** `PostProcess` maps onto it (`MA == INSTANCE MessageAudit
  WITH …`):
  - the audit is `pending` until both loops are over, `failed` when
    `panicked` is set in a loop phase, and `done` from then on;
  - the input is the trimmed entries and the two visit sets;
  - `skewTable` and `slow` are `skewNodes` and `bad` once done.

  `AuditRefinement == MA!ASpec` is checked as a temporal property.

### Planned modules (later sittings)
1. `complete_parse` and the name-table descriptors in `RecordDispatch`.
2. Abstract specifications:
   - an atomic "critical path of a DAG" specification that `EventGraph`
     refines, via a refinement mapping from `nodes`/`relaxed` once
     `phase = "done"`;
   - a "valid interval colouring" specification refined by `LevelStack`.

## 3. Runs

Each run uses the MC module of its specification (`MCEventGraph`,
`MCLevelStack`, `MCCopySplit`, `MCCallNesting`, `MCRecordDispatch`,
`MCPostProcess`).
Deadlock is checked everywhere. The `Terminated` stutter marks the legitimate
end, so a stuck loop or an unmet guard shows up as a deadlock.

| Run | Result | What it shows |
|---|---|---|
| `eventgraph` | pass, 1864 states | Five logs in every record order:<br>• tasks, plus a merge and a remote trigger each logged twice, plus a completion queue;<br>• a merge/trigger cycle;<br>• a log with no edges;<br>• barrier phases with arrivals from both nodes, a reservation on an unrecorded event, and an implicit task.<br><br>Properties:<br>• `NoAbort`: the dedup and barrier paths never panic on these logs.<br>• `CriticalPredecessorSound`: each event's critical event is itself or an ancestor, is its own critical event, and triggered no later.<br>• `TriggerFollowsPreconditions`: an untainted derived event triggers at the max of its creation and its latest precondition; a completion queue triggers at its earliest.<br>• `LatestArrivalKept`: after any prefix, a phase's creation time is the latest ordinary arrival processed so far. |
| `eventgraph_handshake` | violation of `NoAbort` | Finding 1. |
| `eventgraph_missingphase` | violation of `NoAbort` | Finding 2. |
| `levelstack` | pass, 560000 states | Every layout of three entries over instants 0..3 (touching, crossing, nested, identical, zero-length), for a memory and for a GPU processor. On the processor each entry is a kernel or a host entry, and at most one host entry has one wait anywhere inside it (51000 initial states).<br><br>Properties:<br>• `SameLevelDisjoint`: entries on one level of one timeline never share an instant.<br>• `LevelsOptimal`: each timeline's `max_levels` equals its entries' largest overlap, computed independently, so kernels and host tasks never widen each other.<br>• `UtilTracksRunning`: reading `util_time_points` as +1/-1, the count never goes negative. Once every point of an instant is read, it equals the number of the timeline's entries running and not waiting then. This is the inverted polarity of `add_waiters` and the `time_key` ties at shared instants.<br>• `StackedLevelsOrdered`: each entry is stacked once, on its level of its timeline, in time order. |
| `levelstack_memcapacity` | violation of `MemCapacityIsPeak` | Finding 3. |
| `copysplit_spec` | violation of `SplitMatchesSpec` | Finding 4. |
| `callnesting` | pass, 98319 states | Every nesting of three calls and up to two event waits over instants 0..3, untrimmed or trimmed to the whole run, followed by the level sweep (whose util points now carry the waits as `sort_calls_and_waits` left them) and stacking.<br><br>Properties:<br>• `WaitsPlacedInnermost`: each wait ends in exactly the list of its innermost container.<br>• `CallerIsInnermostContainer`: each call's creator is its innermost enclosing call, or the task.<br>• `WaitListsWellFormed`: wait lists are sorted and disjoint.<br>• `BacktracesAttached`: backtraces follow their waits.<br>• `NoAbort`.<br>• `PreviousIsLatestRunning`: for the start of every entry and every ready time before it, `find_previous_executing_entry` asserts nothing, returns only a gap between an entry's waits that lies in `[ready, start]`, and whenever some entry ran after ready it returns one ending when the latest such segment ends.<br>• `ExecutingEntryIsInnermost`: for every instant of every entry, `find_executing_entry` asserts nothing and lands on a running entry within it that none of its callees' ranges holds. |
| `callnesting_trim` | violation of `NoAbort` | Finding 5. |
| `recorddispatch` | pass, 63388 states | 2615 initial logs, each run through the post-pass and `filter_output` under every `visible_nodes` and `filter_input`:<br>• the logger-order logs of the three families;<br>• the split logs behind the descriptors, in each affinity order;<br>• a task, an instance and three profiling tasks in every order;<br>• a copy, a fill and their profiling tasks in logger order;<br>• mapper, runtime and application calls and a GPU task in every order after their descriptors;<br>• an implicit task, a multi-task and a slice owner in every order with an operation and its task.<br><br>Properties:<br>• `NoAbort`.<br>• `InitiationOpIsParent`: the task's `initiation_op` is its operation's parent whichever record came first, which is the "two places" hack of `create_task` and `OperationInstance`.<br>• `WaitsOnOwner`: every wait lands once, on the entry that logged it.<br>• `ReferencesResolve`: an event wait logged before its task is filed under the ProfUID the task's entry gets, and a spawn reaches its entry. A call's creator resolves to its task's ProfUID. A GPU kernel's creator is its own task's ProfUID, and `op_prof_uid` names the task.<br>• `RowsInChannels`: no logged copy row is lost, duplicated or reordered. Each is in exactly one channel entry of its copy, in log order, in the channel of its own memory pair and of its entry's kind. Which indirect group a row joins is left to `copysplit_spec` (finding 4), since the spec's grouping would also keep this property. Every fill is in the Fill channel of its destination; `prof_uid_chan` agrees.<br>• `ChannelUidsFresh`: no channel entry of a split copy has the ProfUID of a processor entry or of any fevent, and no ProfUID is in two channels.<br>• `FilterKeepsNamedMems`: with `filter_input` and visible nodes, exactly the described memories on a visible node or named by a remaining channel survive, so `Chan::name` finds both memories of a copy channel that crosses to a hidden node.<br>• `AffinityIsBestLogged`: a memory's affinity is the first processor logged with the largest bandwidth, whatever the record order, and survives the filter exactly when its memory does.<br>• `ProfTimesResolved`: each profiling task takes, in the post-pass, the creator of the task, instance, copy or fill it profiles. It also takes that entity's create time, and its ready time: an instance's ready for an allocation row and its stop for a deletion row. |
| `recorddispatch_anyorder` | violation of `NoAbort` | Finding 6. |
| `postprocess` | pass, 21843 states | 24 profiles (three clock offsets, each of three messages fast or slow), no window or one of three windows, and 23 kind lists of 2 to 21 kinds.<br><br>Properties:<br>• `TrimmedIntoWindow`: every range kept on a processor, memory or channel lies in `[0, last_time]` in order, and a range inside the window keeps its duration.<br>• `SkewBounded`: untrimmed, a node pair has skew only if the creator's clock is ahead, and its truncated mean is between 1 and the clock offset.<br>• `NoFalseLatencyAlarm`: untrimmed, a message counted slow whose creator's clock is not behind really took the threshold.<br>• `ColorsDistinct`: every LFSR-coloured kind has its own colour.<br>• `AuditRefinement`: the two loops implement `MessageAudit`. |
| `postprocess_trim` | violation of `NoAbort` | Finding 7. |

Every property of a passing run has a mutant in `PROJECT.json`. A mutant is a
plausible bug in a mapped definition, and TLC finds the property violated
under it. Examples:
- a `create_reference` that does not intern;
- `find_last_meta` taking the first meta task;
- `OperationInstance` without its fix-up;
- a caller scan starting at the call itself;
- a missing re-sort.

**Bounds.**
- **Event logs:** two nodes, five indices and two barrier generations. That
  is enough for duplicates from two nodes, a remote versus a local trigger,
  the previous-phase chain and a cycle of length two.
- **Level stacking:** three entries over four instants realise every relative
  position of intervals, including touching ends. A greedy colouring that
  fails does so with three intervals. On a GPU processor three entries
  split every way between kernels and host entries. One wait lies anywhere
  inside a host entry, including at its ends, so that wait and run points
  tie with starts and stops. A second wait adds no new tie and does not fit
  the time budget.
- **Copy splitting:** four rows hold a marker with two rows plus a direct row,
  or two direct runs. That is the smallest list where the two grouping levels
  can disagree.
- **Call nesting:** three calls give disjoint, nested and doubly nested
  calls. Two waits give one moved wait and one kept wait, and two waits in one
  call. Four instants (0..3) hold a task with a doubly nested call and a
  wait beside it. The composed sweep and queries multiply the state count,
  so the earlier range 0..4 no longer fits the time budget. Identical,
  touching and zero-gap cases all occur in 0..3, and the counterexamples
  below use times 1..3 only.
- **Filtering:** two nodes, each with a processor and a memory, are the
  least where a copy channel crosses from a visible to a hidden node. The
  three affinity records of A in every order separate "first among equals"
  from "last among equals" and from "first logged".
- **Record dispatch:** two meta tasks of one key are the least that tells
  "last" from "owner". Two copy rows show the row order. Each family is
  enumerated in all its orders. `CallThreshold = 1` keeps the mapper and
  runtime calls of length 1 and skips a mapper call of length 0. A
  zero-length application call is kept, since the threshold never applies
  to it. Three
  profiling tasks (an entry's, an instance allocation and an instance
  deletion) cover three arms of `find_prof_task_times`, and the copy/fill
  family covers the channel arm.

- **Post-processing:** three clock offsets give no skew and skew in either
  direction. Latencies of 0 and 3 around a threshold of 2 give fast and slow
  messages. The messages cover a local spawn, a remote spawn, an unprofiled
  creator and a non-message variant. The windows cut the end, the start,
  both, or nothing. The kind counts cross the widths 2 to 5 bits (so also
  sizes just below and at a power of two), with and without fixed-colour meta
  variants.

**Fairness and liveness.** None is assumed and no liveness property is
stated. Every module models a sequential pass of the code:
- `process_records`, a sort, a split or a post-pass;
- no thread, callback or message is involved, apart from the per-container
  `par_iter_mut` noted above;
- every loop is a `for` over a finite collection.

Termination therefore follows from the shape of the code, and a liveness
property would add nothing. Progress is checked as freedom from deadlock.
Every state other than `Terminated` has a successor, and each step consumes a
record, a point, a vertex, a wait, a call, a copy, a message or a kind.

## 4. Findings

1. **Handshake double arrival panics** (`state.rs:5237`, code bug). A fresh
   handshake stores its arrival in `creation_time`, and the next handshake
   then unwraps `trigger_time`.
2. **Unknown barrier phase with an incoming edge** (`state.rs:4306`,
   divergence). `find_event_node` chains an unseen phase after its previous
   phase, but `compute_critical_paths` asserts that unknown events have no
   timed preconditions.
3. **Capacity is the sum of sizes** (`state.rs:1309`, code bug). It is
   computed on `time_points` after the stop points were filtered out.
4. **Direct rows are never merged** (`state.rs:2814`, code bug).
   `linear_group_by(|i, _| i.indirect)` continues a group only after a
   marker. Every direct row becomes its own copy, and the second-level
   grouping by memory pair never merges anything. The same predicate also
   ends an indirect group after its first data row. `[GatherMarker, R1, R2]`
   gives a Gather with R1 and a plain direct Copy with R2 and no marker.
   `split_by_channel`'s assumption 2 (2797–2799) and spec 4.3 put every row
   after an indirect field in that indirect copy.
5. **Trimming breaks call nesting** (`state.rs:741`, code bug).
   `Proc::trim_time_range` clips entries but not their wait intervals, so
   `sort_calls_and_waits` fails its apart-assert (823) on a trimmed profile.
6. **Copy/fill rows before their parent panic** (`state.rs:4907`, 4949,
   divergence). The spec says these rows may come in any order relative to
   the parent record, but the handlers unwrap the side-table draft.

7. **Trimmed profiles crash the latency audit** (`state.rs:3953`, code bug).
   `trim_time_range` drops entries but leaves `meta_tasks` and
   `message_tasks` naming them, so `proc.entry(uid)` unwraps a missing
   entry. It also shifts create but not spawn (2497), so a local spawn that
   survives the trim shows skew against its own node and trips the assert
   at 3970. Every real window in the model ends in one of the two panics.
   Spec 4.7 says the audit only warns and raises no exception.

Further divergences are seen in the model but not checked by a run:
- **Latency sign.** Spec 4.7 defines latency as `create − (spawn + mean
  skew)`. The code adds the mean skew to create (4072), which is the
  correction that removes a creator clock running ahead, and the model
  follows the code.
- **Duplicate edges.** Merges, completion queues and redistricts deduplicate
  the node but call `add_edge`, so a duplicate record adds a parallel edge
  (5140). The critical path is unaffected.
- **Memory levels.** Memory levels are 1-based (1288), against spec §7's
  `0 ≤ level < max_levels`. The model follows the code. `LevelsOptimal` and
  `StackedLevelsOrdered` are stated over the code's ranges.
- **Row-less fill profiled.** A `FillInfo` with no `FillInstInfo` row is
  never placed in a channel (3816), and the fill map is consumed. A
  `ProfTaskInfo` naming it then falls through every arm of
  `find_prof_task_times` to `unreachable!()` (3911). Spec 4.9 says fills are
  profiled like channel entries. A TLC probe reaches the panic. No run keeps
  it, because the logger writes the rows with the fill.
- **Degenerate previous-executing answers.**
  - `find_previous_executing_entry` offers a segment closed by a wait when
    `ready <= wait.start` (1139), but one closed by the entry's stop only
    when `ready < stop` (1167).
  - It also offers zero-length gaps, such as a caller between a callee's
    return and its own next wait at the same instant. On a tie the lower
    level wins.
  - TLC shows two results where spec 4.6 ("the most recent interval that
    was running ... overlapping `[ready, start)`") returns nothing:
    - the task `[1, 3]`, whose calls and event wait fill `[1, 2]`, is
      returned as having run on `[1, 1]` before its call at 2;
    - a call's segment `[0, 1]` is returned for `ready = start = 1`.
  - `PreviousIsLatestRunning` states what does hold: no later running
    segment is missed, and what is returned is a real gap in
    `[ready, start]`.
- **Stale affinity after filtering.** With `visible_nodes = {1}` and
  `filter_input`, processor P on node 0 is removed. Memory A on node 0 is
  kept because the visible copy channel A→B names it, and so is A's
  `mem_proc_affinity` entry, whose `best_aff_proc` is the removed P
  (4240). `prof_uid_proc` and `prof_uid_chan` likewise keep naming removed
  containers. Nothing under `src/` reads them after the filter.

## 5. Not modelled (yet)

See `components` in `PROJECT.json`.
- **Not yet modelled, in the plan above:** `complete_parse`, and the
  name-table descriptors (kinds, variants, fields, layouts, providers). These
  only fill lookup tables that no property reads.
- **GPU clamp.** `GPUTaskInfo` clamps an inverted kernel range to
  `gpu_stop - ONE` (4816). This underflows at `gpu_stop = 0`. The model
  takes well-formed kernel ranges and leaves the clamp out, since kernel
  times are not modelled.
- **Processor queries:** the I/O early return of
  `find_previous_executing_entry`, and its device-timeline search. The
  `Mem` and `Chan` versions return `None`. `LevelStack` models the device
  timeline's levels.
- **Out of TLC's reach:** the colour collisions of `compute_color` from 512
  kinds on (ten register bits). Neighbouring steps then floor to the same
  bytes, which can be computed outside the model but not enumerated by TLC
  here.
- **Left out deliberately:**
  - `Config` beyond the one `filter_input` read of `filter_output`;
  - printing, string formatting and the serialisation of records;
  - the float arithmetic of the latency audit beyond the mean: `M2`, the
    deviation and the percentage only feed printed warnings.

  None of these produces state that a property distinguishes.
