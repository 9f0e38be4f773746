---------------------------- MODULE RecordDispatch ----------------------------
(***************************************************************************)
(* process_records and process_record (state.rs): the records of one log  *)
(* are applied to State one after another.  Modelled are the records      *)
(* whose effect depends on which other records came before them: the      *)
(* processor, operation, task and meta-task records, the wait, spawn and   *)
(* event-wait rows that name an existing entry, and the copy and fill      *)
(* records with their per-instance rows held in side tables.  Times,       *)
(* sizes, creators, critical events and instance references are left out; *)
(* the event-graph side of create_task/create_meta/create_copy is modelled *)
(* in EventGraph.  InstTimelineInfo and ProfTaskInfo open instance drafts *)
(* and profiling-task entries.  After the last record the post-pass of    *)
(* process_records puts the instances into their memories and the fills  *)
(* into their channels, resolves every profiling task's times and creator *)
(* from the entity it profiles, and puts the copies, split by            *)
(* Copy::split_by_channel (CopySplit), into their channels.  A panic (unwrap of None, failed    *)
(* assert) ends the run in pc = "aborted".  The MemDesc and ProcMDesc    *)
(* descriptors fill mems and mem_proc_affinity; State::filter_output,      *)
(* the last pipeline stage that touches the containers, then hides and    *)
(* (with filter_input) removes what lies off the visible nodes.           *)
(***************************************************************************)
EXTENDS Integers, Sequences, FiniteSets, TLC

LOCAL INSTANCE SequencesExt

CONSTANTS
    Logs,       \* the record sequences process_records may be given
    ProcNode,   \* ProcID -> ProcID::node_id()
    MemNode,    \* MemID -> MemID::node_id()
    VisibleChoices, \* the visible_nodes the run may be configured with
    CallThreshold,  \* process_records' call_threshold
    None

(* Every record is a record with the fields below; a field the record     *)
(* kind does not carry is None.  "owner" is not a field of the logged     *)
(* record: it names the fevent of the entry that logged a wait row.        *)
Fields == {"tag", "op", "parent", "lg", "proc", "fevent", "owner", "wait",
           "event", "row", "mem", "bw", "creator", "time", "completion",
           "desc", "task"}

VARIABLES
    log,        \* the records being processed
    next,       \* index of the record process_record handles next
    pc,         \* "run" | "insts" | "fills" | "profs" | "copies" | "filter"
                \* | "done" | "aborted"
    operations, \* State.operations: OpID -> [parent, kind set]
    tasks,      \* State.tasks: OpID -> ProcID
    metaTasks,  \* State.meta_tasks: (OpID, VariantID) -> ProcID
    procs,      \* the ProcIDs of State.procs
    procTasks,  \* Proc.tasks: OpID -> ProfUID
    procMetas,  \* Proc.meta_tasks: (OpID, VariantID) -> Vec<ProfUID>
    entries,    \* Proc.entries: ProfUID -> [op, initiation, waits, spawn,
                \*   kind, creator, create, ready, stop]
    eventWaits, \* Proc.event_waits as (task ProfUID, event) pairs
    uidProc,    \* State.prof_uid_proc: ProfUID -> ProcID
    opProfUid,  \* State.op_prof_uid: OpID -> ProfUID
    fevents,    \* ProfUIDAllocator.fevents: EventID -> ProfUID
    used,       \* ProfUIDAllocator.used_fevents
    nextUid,    \* ProfUIDAllocator.next_prof_uid
    copies,     \* the copies side table: fevent -> copy_inst_infos
    fills,      \* the fills side table: fevent -> fill_inst_infos
    defined,    \* history: the ProfUID create_object gave each fevent
    chans,      \* State.chans: ChanID -> Chan.entries (ProfUID -> entry)
    uidChan,    \* State.prof_uid_chan: ProfUID -> ChanID
    hasProfData, \* State.has_prof_data
    mems,       \* the MemIDs of State.mems
    affinity,   \* State.mem_proc_affinity: MemID -> [proc, bw] (best_aff)
    visibleNodes, \* State.visible_nodes (empty: no filtering)
    filterInput,  \* Config::filter_input()
    hidden,     \* the procs, mems and chans whose visible flag is false
    drafts,     \* the time range and creator of each copies/fills draft
    insts,      \* the insts side table: ProfUID -> Inst draft
    instMem,    \* State.insts: ProfUID -> MemID
    memInsts,   \* Mem.insts of every memory: ProfUID -> Inst
    profs,      \* the profs side table: ProfUID -> (creator, its ProfUID,
                \*   completion)
    multiTasks, \* multi_tasks: op -> its task id
    descs       \* the keys of mapper_call_kinds, runtime_call_kinds and
                \*   provenances, as <<descriptor tag, id>>

filt == <<mems, affinity, visibleNodes, filterInput, hidden>>
post == <<chans, uidChan, hasProfData, filt>>

instSide == <<insts, instMem, memInsts, profs>>
tables == <<descs, multiTasks>>

side == <<drafts, instSide, tables>>

vars == <<log, next, pc, operations, tasks, metaTasks, procs, procTasks,
          procMetas, entries, eventWaits, uidProc, opProfUid, fevents, used,
          nextUid, copies, fills, defined, post, side>>

(* The row-level operators of Copy::split_by_channel; only its pure      *)
(* operators are used, so its own state is given placeholder values.    *)
CS == INSTANCE CopySplit WITH Mems <- {}, Rows <- {}, MaxRows <- 0,
                              infos <- <<>>, result <- <<>>, creator <- 0,
                              pc <- "split"

Cur == log[next]

(* Insert k |-> v into a map, replacing an old value (BTreeMap::insert).  *)
Insert(f, k, v) == (k :> v) @@ f

(* State::create_op: operations.entry(op).or_insert_with(Operation::new). *)
CreateOp(o) == operations @@ (o :> [parent |-> None, kind |-> FALSE])

(* The allocator's interning table and counter, as one value, for the    *)
(* handlers that allocate several ProfUIDs in a row.                      *)
Alloc == [fevents |-> fevents, next |-> nextUid]

SetAlloc(a) == fevents' = a.fevents /\ nextUid' = a.next

(* The ProfUID allocator a interns for fevent f, or would allocate.      *)
UidOf(a, f) == IF f \in DOMAIN a.fevents THEN a.fevents[f] ELSE a.next + 1

(* Mutant: a new ProfUID is handed out without bumping next_prof_uid.    *)
AllocRefNoBump(a, f) == [fevents |-> a.fevents @@ (f :> UidOf(a, f)), next |-> a.next]

(* ProfUIDAllocator::create_reference on allocator a: the ProfUID        *)
(* interned for f, allocated (next_prof_uid bumped) on its first mention. *)
AllocRef(a, f) ==
    [fevents |-> a.fevents @@ (f :> UidOf(a, f)),
     next    |-> IF UidOf(a, f) > a.next THEN UidOf(a, f) ELSE a.next]

(* creator.map(|e| alloc.create_reference(e)).                            *)
OptRef(a, f) == IF f = None THEN a ELSE AllocRef(a, f)

OptUid(a, f) == IF f = None THEN None ELSE UidOf(a, f)

(* Mutant: create_reference allocates a fresh ProfUID on every call.      *)
RefUidFresh(f) == nextUid + 1

RefUid(f) == UidOf(Alloc, f)

CreateReference(f) == SetAlloc(AllocRef(Alloc, f))

(* Mutant: create_object asserts that f was never mentioned at all.       *)
ObjectPanicsReferenced(f) == f \in DOMAIN fevents

(* The assert of ProfUIDAllocator::create_object: f is defined once.      *)
ObjectPanics(f) == f \in used

(* create_object of each fevent of fs, once its assert has passed, where *)
(* a is the allocator after the handler's create_reference calls.        *)
CreateObjectsIn(a, fs) ==
    /\ used' = used \cup fs
    /\ defined' = defined @@ [f \in fs |-> a.fevents[f]]
    /\ SetAlloc(a)

CreateObjectIn(a, f) == CreateObjectsIn(AllocRef(a, f), {f})

CreateObject(f) == CreateObjectIn(Alloc, f)

(* Proc::find_task_mut: the entry the processor indexes under op o.      *)
ProcFindTask(o) == IF o \in DOMAIN procTasks THEN procTasks[o] ELSE None

(* State::find_task_mut: the processor State.tasks names for o, if any.  *)
FindTask(o) ==
    IF o \in DOMAIN tasks /\ tasks[o] \in procs THEN ProcFindTask(o) ELSE None

(* Mutant: the first meta task of the key instead of the last.            *)
ProcFindFirstMeta(o, lg) ==
    IF <<o, lg>> \in DOMAIN procMetas /\ procMetas[<<o, lg>>] # <<>>
    THEN Head(procMetas[<<o, lg>>]) ELSE None

(* Proc::find_last_meta_mut: the last meta entry pushed for (o, lg).      *)
ProcFindLastMeta(o, lg) ==
    IF <<o, lg>> \in DOMAIN procMetas /\ procMetas[<<o, lg>>] # <<>>
    THEN Last(procMetas[<<o, lg>>]) ELSE None

(* State::find_last_meta_mut: the processor State.meta_tasks names.      *)
FindLastMeta(o, lg) ==
    IF <<o, lg>> \in DOMAIN metaTasks /\ metaTasks[<<o, lg>>] \in procs
    THEN ProcFindLastMeta(o, lg) ELSE None

(* The asserts of Operation::set_parent_id and set_kind.                  *)
OperationPanics(op, parent) == (op.parent # None /\ op.parent # parent) \/ op.kind

(* Mutant: OperationInstance does not patch a task logged before it.     *)
SetInitiationSkipped(o, p) == entries

(* The second half of the two-places hack: a task already recorded takes *)
(* the operation's parent as its initiation_op.                           *)
SetInitiation(o, p) ==
    IF FindTask(o) # None THEN [entries EXCEPT ![FindTask(o)].initiation = p]
                          ELSE entries

(* Moving on to the next record, or finishing process_records.            *)
Step ==
    /\ next' = next + 1
    /\ pc' = IF next = Len(log) THEN "insts" ELSE "run"

Advance == Step /\ UNCHANGED post

(* A panic: nothing else happens.                                         *)
Abort ==
    /\ pc' = "aborted"
    /\ UNCHANGED <<log, next, operations, tasks, metaTasks, procs, procTasks,
                   procMetas, entries, eventWaits, uidProc, opProfUid, fevents,
                   used, nextUid, copies, fills, defined, post, side>>

Handles(tag) == pc = "run" /\ Cur.tag = tag

Init ==
    /\ log \in Logs
    /\ next = 1
    /\ pc = IF log = <<>> THEN "insts" ELSE "run"
    /\ operations = <<>> /\ tasks = <<>> /\ metaTasks = <<>>
    /\ procs = {} /\ procTasks = <<>> /\ procMetas = <<>>
    /\ entries = <<>> /\ eventWaits = {} /\ uidProc = <<>>
    /\ opProfUid = <<>> /\ fevents = <<>> /\ used = {} /\ nextUid = 0
    /\ copies = <<>> /\ fills = <<>> /\ defined = <<>>
    /\ chans = <<>> /\ uidChan = <<>> /\ hasProfData = FALSE
    /\ mems = {} /\ affinity = <<>> /\ visibleNodes = {} /\ filterInput = FALSE
    /\ hidden = [procs |-> {}, mems |-> {}, chans |-> {}]
    /\ drafts = <<>> /\ insts = <<>> /\ instMem = <<>> /\ memInsts = <<>>
    /\ profs = <<>> /\ descs = {} /\ multiTasks = <<>>

(* ProcDesc: State.procs.create_proc(proc_id).set_kind(kind).             *)
ProcDesc ==
    /\ Handles("ProcDesc")
    /\ procs' = procs \cup {Cur.proc}
    /\ Advance
    /\ UNCHANGED <<log, operations, tasks, metaTasks, procTasks, procMetas,
                   entries, eventWaits, uidProc, opProfUid, fevents, used,
                   nextUid, copies, fills, defined, side>>

(* OperationInstance: create_op(op).set_parent_id(parent).set_kind(kind), *)
(* whose asserts require an unset or equal parent and an unset kind, then *)
(* find_task_mut(op) and the task's initiation_op set to the parent.      *)
OperationInstance ==
    /\ Handles("OperationInstance")
    /\ LET o  == Cur.op
           op == CreateOp(o)[o]
       IN  IF OperationPanics(op, Cur.parent)
           THEN Abort
           ELSE /\ operations' = Insert(operations, o,
                                        [parent |-> Cur.parent, kind |-> TRUE])
                /\ entries' = SetInitiation(o, Cur.parent)
                /\ Advance
                /\ UNCHANGED <<log, tasks, metaTasks, procs, procTasks,
                               procMetas, eventWaits, uidProc, opProfUid,
                               fevents, used, nextUid, copies, fills, defined,
                               side>>

(* The processor-side maps a new entry is added to.                      *)
ProcMaps == [entries |-> entries, uidProc |-> uidProc, opProfUid |-> opProfUid,
             procTasks |-> procTasks, procMetas |-> procMetas]

SetProcMaps(m) ==
    /\ entries' = m.entries /\ uidProc' = m.uidProc /\ opProfUid' = m.opProfUid
    /\ procTasks' = m.procTasks /\ procMetas' = m.procMetas

(* Proc::create_proc_entry on maps m: the entry is indexed by op          *)
(* (op_prof_uid), by ProfUID (prof_uid_proc) and as a task, or pushed     *)
(* onto the meta_tasks list of (initiation op, variant), then inserted    *)
(* unless present; info holds its creator ProfUID and the create, ready  *)
(* and stop of its time range.                                           *)
AddProcEntry(m, u, o, init, kind, lg, p, info) ==
    [opProfUid |-> IF o # None THEN Insert(m.opProfUid, o, u) ELSE m.opProfUid,
     uidProc   |-> Insert(m.uidProc, u, p),
     procTasks |-> IF kind = "Task" THEN Insert(m.procTasks, o, u) ELSE m.procTasks,
     procMetas |-> IF kind = "MetaTask"
                   THEN Insert(m.procMetas, <<init, lg>>,
                               IF <<init, lg>> \in DOMAIN m.procMetas
                               THEN Append(m.procMetas[<<init, lg>>], u) ELSE <<u>>)
                   ELSE m.procMetas,
     entries   |-> m.entries @@ (u :> [op |-> o, initiation |-> init, waits |-> <<>>,
                                       spawn |-> None, kind |-> kind,
                                       creator |-> info.creator, create |-> info.create,
                                       ready |-> info.ready, stop |-> info.stop])]

CreateProcEntry(u, o, init, kind, lg, p, info) ==
    SetProcMaps(AddProcEntry(ProcMaps, u, o, init, kind, lg, p, info))

(* The creator ProfUID (creator.map(create_reference)) and the times of *)
(* TimeRange::new_full that a task, meta task, copy or fill record gives. *)
EntryInfo(a, r) ==
    [creator |-> OptUid(a, r.creator), create |-> r.time.create,
     ready |-> r.time.ready, stop |-> r.time.stop]

(* State::create_task past its assert, from allocator a0 and maps m0: the *)
(* parent create_op(op) holds now becomes the initiation_op, the op is    *)
(* mapped to the processor, the creator is referenced and then the        *)
(* fevent's ProfUID created as an object, and the processor created.      *)
CreateTaskIn(a0, m0, r) ==
    LET a == OptRef(a0, r.creator)
    IN  /\ operations' = CreateOp(r.op)
        /\ tasks' = Insert(tasks, r.op, r.proc)
        /\ CreateObjectIn(a, r.fevent)
        /\ procs' = procs \cup {r.proc}
        /\ SetProcMaps(AddProcEntry(m0, UidOf(a, r.fevent), r.op,
                                    CreateOp(r.op)[r.op].parent, "Task", None,
                                    r.proc, EntryInfo(a, r)))

CreateTask(r) == CreateTaskIn(Alloc, ProcMaps, r)

(* TaskInfo and ImplicitTaskInfo: create_task, whose create_object        *)
(* asserts a fresh fevent; implicit differs only in the event graph.      *)
TaskInfo ==
    /\ pc = "run" /\ Cur.tag \in {"TaskInfo", "ImplicitTaskInfo"}
    /\ IF ObjectPanics(Cur.fevent)
       THEN Abort
       ELSE /\ CreateTask(Cur)
            /\ Advance
            /\ UNCHANGED <<log, metaTasks, eventWaits, copies, fills, side>>

(* State::create_meta: create_op(op), (op, lg) mapped to the processor,  *)
(* the fevent's ProfUID created as an object, a meta-task entry with     *)
(* initiation_op op.                                                      *)
CreateMeta(r) ==
    LET a == OptRef(Alloc, r.creator)
    IN  /\ operations' = CreateOp(r.op)
        /\ metaTasks' = Insert(metaTasks, <<r.op, r.lg>>, r.proc)
        /\ CreateObjectIn(a, r.fevent)
        /\ procs' = procs \cup {r.proc}
        /\ CreateProcEntry(UidOf(a, r.fevent), None, r.op, "MetaTask", r.lg,
                           r.proc, EntryInfo(a, r))

(* MetaInfo and MessageInfo (which differ only in the time range): create_meta. *)
MetaInfo ==
    /\ Handles("MetaInfo")
    /\ IF ObjectPanics(Cur.fevent)
       THEN Abort
       ELSE /\ CreateMeta(Cur)
            /\ Advance
            /\ UNCHANGED <<log, tasks, eventWaits, copies, fills, side>>

(* TaskWaitInfo: find_task_mut(op).unwrap() gets the wait interval.       *)
TaskWaitInfo ==
    /\ Handles("TaskWaitInfo")
    /\ LET t == FindTask(Cur.op)
       IN  IF t = None
           THEN Abort
           ELSE /\ operations' = CreateOp(Cur.op)
                /\ entries' = [entries EXCEPT ![t].waits = Append(@, Cur.wait)]
                /\ Advance
                /\ UNCHANGED <<log, tasks, metaTasks, procs, procTasks,
                               procMetas, eventWaits, uidProc, opProfUid,
                               fevents, used, nextUid, copies, fills, defined,
                               side>>

(* MetaWaitInfo: create_op(op), then find_last_meta_mut(op, lg).unwrap()  *)
(* gets the wait interval.                                                 *)
MetaWaitInfo ==
    /\ Handles("MetaWaitInfo")
    /\ LET m == FindLastMeta(Cur.op, Cur.lg)
       IN  IF m = None
           THEN Abort
           ELSE /\ operations' = CreateOp(Cur.op)
                /\ entries' = [entries EXCEPT ![m].waits = Append(@, Cur.wait)]
                /\ Advance
                /\ UNCHANGED <<log, tasks, metaTasks, procs, procTasks,
                               procMetas, eventWaits, uidProc, opProfUid,
                               fevents, used, nextUid, copies, fills, defined,
                               side>>

(* State::create_copy / create_fill: the creator referenced, the fevent's *)
(* ProfUID created as an object and a draft opened in the side table     *)
(* with its time range and creator (their assert !contains_key is        *)
(* implied by the used_fevents assert).                                   *)
OpenDraft(r) ==
    LET a == OptRef(Alloc, r.creator)
    IN  /\ CreateObjectIn(a, r.fevent)
        /\ drafts' = drafts @@ (r.fevent :> EntryInfo(a, r))

CreateCopy(r) == OpenDraft(r) /\ copies' = copies @@ (r.fevent :> <<>>)

CreateFill(r) == OpenDraft(r) /\ fills' = fills @@ (r.fevent :> <<>>)

(* CopyInfo and FillInfo: create_op(op), then create_copy/create_fill.   *)
CopyInfo ==
    /\ Handles("CopyInfo")
    /\ IF ObjectPanics(Cur.fevent)
       THEN Abort
       ELSE /\ operations' = CreateOp(Cur.op)
            /\ CreateCopy(Cur)
            /\ Advance
            /\ UNCHANGED <<log, tasks, metaTasks, procs, procTasks, procMetas,
                           entries, eventWaits, uidProc, opProfUid, fills,
                           instSide, tables>>

FillInfo ==
    /\ Handles("FillInfo")
    /\ IF ObjectPanics(Cur.fevent)
       THEN Abort
       ELSE /\ operations' = CreateOp(Cur.op)
            /\ CreateFill(Cur)
            /\ Advance
            /\ UNCHANGED <<log, tasks, metaTasks, procs, procTasks, procMetas,
                           entries, eventWaits, uidProc, opProfUid, copies,
                           instSide, tables>>

(* CopyInstInfo: copies.get_mut(fevent).unwrap() gets the row.            *)
CopyInstInfo ==
    /\ Handles("CopyInstInfo")
    /\ IF Cur.fevent \notin DOMAIN copies
       THEN Abort
       ELSE /\ copies' = [copies EXCEPT ![Cur.fevent] = Append(@, Cur.row)]
            /\ Advance
            /\ UNCHANGED <<log, operations, tasks, metaTasks, procs, procTasks,
                           procMetas, entries, eventWaits, uidProc, opProfUid,
                           fevents, used, nextUid, fills, defined, side>>

(* FillInstInfo: fills.get_mut(fevent).unwrap() gets the row.             *)
FillInstInfo ==
    /\ Handles("FillInstInfo")
    /\ IF Cur.fevent \notin DOMAIN fills
       THEN Abort
       ELSE /\ fills' = [fills EXCEPT ![Cur.fevent] = Append(@, Cur.row)]
            /\ Advance
            /\ UNCHANGED <<log, operations, tasks, metaTasks, procs, procTasks,
                           procMetas, entries, eventWaits, uidProc, opProfUid,
                           fevents, used, nextUid, copies, defined, side>>

(* Proc::record_event_wait.                                               *)
RecordEventWait(u, e) == eventWaits' = eventWaits \cup {<<u, e>>}

(* Proc::record_spawn_time: the entry's spawn is set, asserting it was    *)
(* unset (message_tasks is the set of entries with a spawn).             *)
SpawnPanics(u) == entries[u].spawn # None

RecordSpawnTime(u, t) == entries' = [entries EXCEPT ![u].spawn = t]

(* EventWaitInfo: the task's ProfUID by create_fevent_reference, then     *)
(* procs.get_mut(proc_id).unwrap().record_event_wait.  The reference is   *)
(* interned before the processor is looked up.                            *)
EventWaitInfo ==
    /\ Handles("EventWaitInfo")
    /\ IF Cur.proc \notin procs
       THEN Abort
       ELSE /\ CreateReference(Cur.fevent)
            /\ RecordEventWait(RefUid(Cur.fevent), Cur.event)
            /\ Advance
            /\ UNCHANGED <<log, operations, tasks, metaTasks, procs, procTasks,
                           procMetas, entries, uidProc, opProfUid, used, copies,
                           fills, defined, side>>

(* SpawnInfo: the entry's ProfUID by create_fevent_reference, its        *)
(* processor by prof_uid_proc.get(..).unwrap(), then record_spawn_time,   *)
(* which asserts that no spawn time was recorded before.                  *)
SpawnInfo ==
    /\ Handles("SpawnInfo")
    /\ LET u == RefUid(Cur.fevent)
       IN  IF u \notin DOMAIN uidProc \/ SpawnPanics(u)
           THEN Abort
           ELSE /\ CreateReference(Cur.fevent)
                /\ RecordSpawnTime(u, Cur.time.start)
                /\ Advance
                /\ UNCHANGED <<log, operations, tasks, metaTasks, procs,
                               procTasks, procMetas, eventWaits, uidProc,
                               opProfUid, used, copies, fills, defined, side>>

(* The records that leave the processors and side tables alone; Quiet    *)
(* also leaves the operations.                                             *)
QuietButOps == UNCHANGED <<log, tasks, metaTasks, procs, procTasks,
                     procMetas, entries, eventWaits, uidProc, opProfUid, fevents,
                     used, nextUid, copies, fills, defined, chans, uidChan,
                     hasProfData, visibleNodes, filterInput, hidden, drafts,
                     instSide>>

Quiet == QuietButOps /\ UNCHANGED operations

(* MemDesc: mems.entry(mem_id).or_insert_with(Mem::new); a repeated      *)
(* descriptor keeps the first Mem.  (The bad-kind panic is not modelled: *)
(* kinds are left out.)                                                   *)
MemDesc ==
    /\ Handles("MemDesc")
    /\ mems' = mems \cup {Cur.mem}
    /\ Step /\ Quiet /\ UNCHANGED <<affinity, tables>>

(* Mutant: a later processor of equal bandwidth takes over.             *)
UpdateBestAffTies(a, p, b) == IF b >= a.bw THEN [proc |-> p, bw |-> b] ELSE a

(* MemProcAffinity::update_best_aff: a strictly larger bandwidth wins.   *)
UpdateBestAff(a, p, b) == IF b > a.bw THEN [proc |-> p, bw |-> b] ELSE a

(* ProcMDesc: mem_proc_affinity.entry(mem_id).or_insert_with(new(..,     *)
(* proc_id)).update_best_aff(proc_id, bandwidth, latency).  The latency  *)
(* goes along with the bandwidth and is left out.                        *)
ProcMDesc ==
    /\ Handles("ProcMDesc")
    /\ LET m   == Cur.mem
           old == IF m \in DOMAIN affinity THEN affinity[m]
                  ELSE [proc |-> Cur.proc, bw |-> Cur.bw]
       IN  affinity' = (m :> UpdateBestAff(old, Cur.proc, Cur.bw)) @@ affinity
    /\ Step /\ Quiet /\ UNCHANGED <<mems, tables>>

(* MapperCallDesc, RuntimeCallDesc and Provenance enter the kind (the     *)
(* provenance) in mapper_call_kinds, runtime_call_kinds or provenances.   *)
CallDesc ==
    /\ pc = "run"
    /\ Cur.tag \in {"MapperCallDesc", "RuntimeCallDesc", "Provenance"}
    /\ descs' = descs \cup {<<Cur.tag, Cur.desc>>}
    /\ Step /\ Quiet /\ UNCHANGED <<mems, affinity, multiTasks>>

(* The table each call record's kind must be in, and the entry kind.     *)
DescOf == [MapperCallInfo |-> "MapperCallDesc", RuntimeCallInfo |-> "RuntimeCallDesc",
           ApplicationCallInfo |-> "Provenance"]

CallKind == [MapperCallInfo |-> "MapperCall", RuntimeCallInfo |-> "RuntimeCall",
             ApplicationCallInfo |-> "ApplicationCall"]

(* Mapper and runtime calls shorter than call_threshold are dropped.      *)
BelowThreshold(r) ==
    r.tag # "ApplicationCallInfo" /\ r.time.stop - r.time.start < CallThreshold

(* create_mapper_call (with create_op), create_runtime_call and          *)
(* create_application_call: the creator referenced, a fresh ProfUID       *)
(* (Base::new) and an entry on the processor, whose initiation op is the *)
(* mapper call's op.                                                      *)
CreateCall(r) ==
    LET a == OptRef(Alloc, r.creator)
        u == a.next + 1
        mapper == r.tag = "MapperCallInfo"
    IN  /\ operations' = IF mapper THEN CreateOp(r.op) ELSE operations
        /\ SetAlloc([a EXCEPT !.next = u])
        /\ procs' = procs \cup {r.proc}
        /\ CreateProcEntry(u, None, IF mapper THEN r.op ELSE None, CallKind[r.tag],
                           None, r.proc, [creator |-> OptUid(a, r.creator),
                                          create |-> None, ready |-> None,
                                          stop |-> r.time.stop])

(* MapperCallInfo, RuntimeCallInfo and ApplicationCallInfo: past the      *)
(* threshold, the assert that the kind (provenance) was described, then   *)
(* the call's create_* function.                                          *)
CallInfo ==
    /\ pc = "run" /\ Cur.tag \in DOMAIN DescOf
    /\ IF BelowThreshold(Cur)
       THEN Step /\ Quiet /\ UNCHANGED <<mems, affinity, tables>>
       ELSE IF <<DescOf[Cur.tag], Cur.desc>> \notin descs
       THEN Abort
       ELSE /\ CreateCall(Cur)
            /\ Advance
            /\ UNCHANGED <<log, tasks, metaTasks, eventWaits, used, copies,
                           fills, defined, side>>

(* MultiTask: create_op, and the task id of the op's first MultiTask.     *)
MultiTask ==
    /\ Handles("MultiTask")
    /\ operations' = CreateOp(Cur.op)
    /\ multiTasks' = multiTasks @@ (Cur.op :> Cur.task)
    /\ Step /\ QuietButOps /\ UNCHANGED <<mems, affinity, descs>>

(* SliceOwner: the parent id made an OpID (NonMaxU64::new(..).unwrap(),   *)
(* which panics on u64::MAX), then create_op of the parent and the op.    *)
SliceOwner ==
    /\ Handles("SliceOwner")
    /\ IF Cur.parent = "u64::MAX"
       THEN Abort
       ELSE /\ operations' = CreateOp(Cur.parent) @@ CreateOp(Cur.op)
            /\ Step /\ QuietButOps /\ UNCHANGED <<mems, affinity, tables>>

(* create_gpu_kernel, as a change of the processor maps m: the fevent k   *)
(* has referenced is the kernel's creator, its ProfUID is the fresh u,   *)
(* and the entry, indexed by op, takes op_prof_uid.                       *)
GpuKernel(m, k, u, r) ==
    AddProcEntry(m, u, r.op, None, "GPUKernel", None, r.proc,
                 [creator |-> UidOf(k, r.fevent), create |-> None, ready |-> None,
                  stop |-> None])

(* GPUTaskInfo: create_gpu_kernel (the fevent referenced as the kernel's *)
(* creator, a fresh ProfUID, a GPUKernel entry indexed by op), then       *)
(* create_task as for TaskInfo, whose entry takes over op_prof_uid.  The  *)
(* device interval (and the clamp of gpu_start) is left out.              *)
GPUTaskInfo ==
    /\ Handles("GPUTaskInfo")
    /\ IF ObjectPanics(Cur.fevent)
       THEN Abort
       ELSE LET k  == AllocRef(Alloc, Cur.fevent)
                ku == k.next + 1
            IN  /\ CreateTaskIn([k EXCEPT !.next = ku], GpuKernel(ProcMaps, k, ku, Cur), Cur)
                /\ Advance
                /\ UNCHANGED <<log, metaTasks, eventWaits, copies, fills, side>>

(* Inst::new: an instance draft with nothing set; allocated is the        *)
(* time_range.spawn that set_allocated repurposes.                        *)
NewInst == [mem |-> None, creator |-> None, create |-> None, ready |-> None,
            stop |-> None, allocated |-> None]

(* The asserts of Inst::set_mem and set_creator: a second record of the  *)
(* same instance must agree.  (inst_id, op and size are left out.)       *)
InstPanics(i, m, cu) == (i.mem # None /\ i.mem # m) \/ (i.creator # None /\ i.creator # cu)

(* InstTimelineInfo: create_op(op), the creator's and the instance's      *)
(* ProfUIDs by create_fevent_reference, State.insts.entry(uid)            *)
(* .or_insert(mem), then create_inst(fevent), which opens the draft with *)
(* create_object on first sight, and the setters of mem, times (start   *)
(* aliases ready, stop is destroy) and creator.                          *)
InstTimelineInfo ==
    /\ Handles("InstTimelineInfo")
    /\ LET a   == AllocRef(AllocRef(Alloc, Cur.creator), Cur.fevent)
           u   == UidOf(a, Cur.fevent)
           cu  == UidOf(a, Cur.creator)
           new == u \notin DOMAIN insts
           old == IF new THEN NewInst ELSE insts[u]
       IN  IF (new /\ ObjectPanics(Cur.fevent)) \/ InstPanics(old, Cur.mem, cu)
           THEN Abort
           ELSE /\ operations' = CreateOp(Cur.op)
                /\ instMem' = instMem @@ (u :> Cur.mem)
                /\ insts' = (u :> [old EXCEPT !.mem = Cur.mem, !.creator = cu,
                                              !.create = Cur.time.create,
                                              !.ready = Cur.time.ready,
                                              !.stop = Cur.time.stop]) @@ insts
                /\ IF new THEN CreateObjectsIn(a, {Cur.fevent})
                          ELSE SetAlloc(a) /\ UNCHANGED <<used, defined>>
                /\ Advance
                /\ UNCHANGED <<log, tasks, metaTasks, procs, procTasks, procMetas,
                               entries, eventWaits, uidProc, opProfUid, copies,
                               fills, drafts, memInsts, profs, tables>>

(* ProfTaskInfo: create_prof_task references the creator, creates the   *)
(* fevent's ProfUID as an object and a ProfTask entry (initiation op,    *)
(* the creator's ProfUID, no create or ready yet) on the processor; the  *)
(* entry is queued in profs, and an allocation response (!completion)    *)
(* records its start as the allocated time of the instance draft of the  *)
(* creator, opened (with create_object) if new.                          *)
ProfTaskInfo ==
    /\ Handles("ProfTaskInfo")
    /\ LET a       == AllocRef(AllocRef(Alloc, Cur.creator), Cur.fevent)
           cu      == UidOf(a, Cur.creator)
           p       == UidOf(a, Cur.fevent)
           newInst == ~Cur.completion /\ cu \notin DOMAIN insts
           objs    == IF newInst THEN {Cur.fevent, Cur.creator} ELSE {Cur.fevent}
       IN  IF \/ ObjectPanics(Cur.fevent)
              \/ newInst /\ (ObjectPanics(Cur.creator) \/ Cur.creator = Cur.fevent)
           THEN Abort
           ELSE /\ procs' = procs \cup {Cur.proc}
                /\ CreateProcEntry(p, None, Cur.op, "ProfTask", None, Cur.proc,
                                   [creator |-> cu, create |-> None, ready |-> None,
                                    stop |-> Cur.time.stop])
                /\ profs' = Insert(profs, p, [creator |-> Cur.creator, cuid |-> cu,
                                              completion |-> Cur.completion])
                /\ insts' = IF Cur.completion THEN insts
                            ELSE (cu :> [IF newInst THEN NewInst ELSE insts[cu]
                                          EXCEPT !.allocated = Cur.time.start]) @@ insts
                /\ CreateObjectsIn(a, objs)
                /\ Advance
                /\ UNCHANGED <<log, operations, tasks, metaTasks, eventWaits,
                               copies, fills, drafts, instMem, memInsts, tables>>

-----------------------------------------------------------------------------
(* The post-pass of process_records.                                      *)

(* "put inst into memories": every instance draft goes into the memory   *)
(* its mem_id names (unreachable! without one, an unwrap panic when the  *)
(* memory was never described).                                          *)
PlaceInsts ==
    /\ pc = "insts"
    /\ IF \E u \in DOMAIN insts : insts[u].mem = None \/ insts[u].mem \notin mems
       THEN Abort
       ELSE /\ memInsts' = insts @@ memInsts
            /\ insts' = <<>>
            /\ pc' = "fills"
            /\ UNCHANGED <<log, next, operations, tasks, metaTasks, procs,
                           procTasks, procMetas, entries, eventWaits, uidProc,
                           opProfUid, fevents, used, nextUid, copies, fills,
                           defined, post, drafts, instMem, profs, tables>>

(* Chan::add_copy / add_fill through find_chan_mut: every item          *)
(* [uid, chan, entry] goes into its channel, created on first use, unless *)
(* the channel already holds that ProfUID (or_insert); prof_uid_chan maps *)
(* the ProfUID to the channel (insert).                                   *)
AddToChans(items) ==
    /\ chans' = [c \in DOMAIN chans \cup {it.chan : it \in items} |->
                   (IF c \in DOMAIN chans THEN chans[c] ELSE <<>>)
                     @@ [u \in {it.uid : it \in {i \in items : i.chan = c}} |->
                           (CHOOSE it \in items : it.chan = c /\ it.uid = u).entry]]
    /\ uidChan' = [u \in {it.uid : it \in items} |->
                     (CHOOSE it \in items : it.uid = u).chan] @@ uidChan

(* The asserts of Fill::add_channel: every row has the first row's _dst. *)
FillPanics(rows) == \E i \in DOMAIN rows : rows[i].dst # rows[1].dst

FillItem(f) ==
    [uid |-> defined[f], chan |-> [kind |-> "Fill", src |-> None, dst |-> fills[f][1].dst],
     entry |-> [kind |-> "Fill", fevent |-> f, rows |-> fills[f], info |-> drafts[f]]]

(* "put fills into channels" for every fill with rows; the fills map is  *)
(* consumed, a fill without rows with it.                                 *)
PlaceFills ==
    /\ pc = "fills"
    /\ LET fs == {f \in DOMAIN fills : fills[f] # <<>>}
       IN  IF \E f \in fs : FillPanics(fills[f])
           THEN Abort
           ELSE /\ AddToChans({FillItem(f) : f \in fs})
                /\ fills' = <<>>
                /\ drafts' = [g \in DOMAIN copies |-> drafts[g]]
                /\ pc' = "profs"
                /\ UNCHANGED <<log, next, operations, tasks, metaTasks, procs,
                               procTasks, procMetas, entries, eventWaits, uidProc,
                               opProfUid, fevents, used, nextUid, copies, defined,
                               hasProfData, filt, instSide, tables>>

(* ProcEntry::creation_time: the spawn time if there is one, else create. *)
CreationTime(e) == IF e.spawn # None THEN e.spawn ELSE e.create

Unresolved == [ok |-> FALSE]

Resolved(creator, create, ready) ==
    [ok |-> TRUE, creator |-> creator, create |-> create, ready |-> ready]

(* Mutant: an instance's profiling response is ready at its ready time   *)
(* whether it reports the allocation or the deletion.                     *)
InstProfReadyOnly(i, completion) == i.ready

(* An instance's profiling response is ready when the instance is        *)
(* deleted (completion) or, for the allocation response, when it is ready. *)
InstProfReady(i, completion) == IF completion THEN i.stop ELSE i.ready

(* State::find_prof_task_times for a queued profiling task pr: a creator *)
(* that is a processor entry or a channel entry (both assert completion) *)
(* gives its creation time, its stop and its creator; an instance its    *)
(* creation time, its destroy or (allocation response) ready time and its *)
(* creator; a copy still in the copies map its draft's create and stop;   *)
(* anything else is unreachable!.  An unset creation time panics too.    *)
FindProfTaskTimes(pr) ==
    LET cu == pr.cuid
    IN  CASE cu \in DOMAIN uidProc ->
               IF ~pr.completion \/ CreationTime(entries[cu]) = None THEN Unresolved
               ELSE Resolved(entries[cu].creator, CreationTime(entries[cu]), entries[cu].stop)
          [] cu \in DOMAIN uidChan ->
               IF ~pr.completion THEN Unresolved
               ELSE LET e == chans[uidChan[cu]][cu].info
                    IN  Resolved(e.creator, e.create, e.stop)
          [] cu \in DOMAIN instMem ->
               LET i == memInsts[cu]
               IN  Resolved(i.creator, i.create, InstProfReady(i, pr.completion))
          [] pr.creator \in DOMAIN copies ->
               LET d == drafts[pr.creator] IN Resolved(d.creator, d.create, d.stop)
          [] OTHER -> Unresolved

(* The asserts of Proc::update_prof_task_times.                           *)
UpdatePanics(e) == e.kind # "ProfTask" \/ e.create # None \/ e.ready # None

(* The profs loop: every queued profiling task takes the creator, create *)
(* and ready that find_prof_task_times resolves, through                  *)
(* update_prof_task_times; then has_prof_data is set.  The loop runs in   *)
(* ProfUID order; each turn reads only the entity a task profiles, which *)
(* is not a profiling task in the logs modelled, so the turns are taken  *)
(* at once.                                                               *)
PlaceProfs ==
    /\ pc = "profs"
    /\ LET ts == [u \in DOMAIN profs |-> FindProfTaskTimes(profs[u])]
       IN  IF \E u \in DOMAIN profs : ~ts[u].ok \/ UpdatePanics(entries[u])
           THEN Abort
           ELSE /\ entries' = [u \in DOMAIN entries |->
                                 IF u \in DOMAIN profs
                                 THEN [entries[u] EXCEPT !.creator = ts[u].creator,
                                                         !.create = ts[u].create,
                                                         !.ready = ts[u].ready]
                                 ELSE entries[u]]
                /\ profs' = <<>>
                /\ hasProfData' = TRUE
                /\ pc' = "copies"
                /\ UNCHANGED <<log, next, operations, tasks, metaTasks, procs,
                               procTasks, procMetas, eventWaits, uidProc, opProfUid,
                               fevents, used, nextUid, copies, fills, defined, chans,
                               uidChan, filt, drafts, insts, instMem, memInsts,
                               tables>>

(* Mutant: create_fresh hands out next_prof_uid before bumping it.       *)
CreateFreshNoBump(k) == nextUid + k - 1

(* ProfUIDAllocator::create_fresh, called k times: the k-th ProfUID.     *)
CreateFresh(k) == nextUid + k

(* The split copies of fevent f, each with Base::new's fresh ProfUID.   *)
SplitItems(f) ==
    LET cs == CS!SplitCopies(copies[f])
    IN  {[uid |-> CreateFresh(k), chan |-> cs[k].chan,
          entry |-> [kind |-> cs[k].kind, fevent |-> f, rows |-> cs[k].rows]]
           : k \in DOMAIN cs}

(* One turn of "put copies into channels": a copy with rows is split by   *)
(* split_by_channel (which panics on a channel it cannot assign) and each *)
(* piece added to its channel.  The map is walked in EventID order; the  *)
(* model takes the copies in any order, which only permutes the fresh    *)
(* ProfUIDs between copies.                                               *)
PlaceCopy ==
    /\ pc = "copies"
    /\ \E f \in DOMAIN copies :
          /\ copies' = [g \in DOMAIN copies \ {f} |-> copies[g]]
          /\ drafts' = [g \in DOMAIN drafts \ {f} |-> drafts[g]]
          /\ IF copies[f] = <<>>
             THEN UNCHANGED <<nextUid, chans, uidChan, pc>>
             ELSE IF CS!SplitPanics(copies[f])
             THEN /\ pc' = "aborted"
                  /\ UNCHANGED <<nextUid, chans, uidChan>>
             ELSE /\ AddToChans(SplitItems(f))
                  /\ nextUid' = nextUid + Len(CS!SplitCopies(copies[f]))
                  /\ UNCHANGED pc
          /\ UNCHANGED <<log, next, operations, tasks, metaTasks, procs,
                         procTasks, procMetas, entries, eventWaits, uidProc,
                         opProfUid, fevents, used, fills, defined, hasProfData,
                         filt, instSide, tables>>

(* The loop over the copies ends when the map is consumed.                *)
CopiesPlaced ==
    /\ pc = "copies"
    /\ copies = <<>>
    /\ pc' = "filter"
    /\ UNCHANGED <<log, next, operations, tasks, metaTasks, procs, procTasks,
                   procMetas, entries, eventWaits, uidProc, opProfUid, fevents,
                   used, nextUid, copies, fills, defined, post, side>>

-----------------------------------------------------------------------------
(* State::filter_output.  A ChanID names its memories: both for a copy,   *)
(* the destination of a fill or gather, the source of a scatter.          *)
Endpoints(c) == {c.src, c.dst} \ {None}

(* A channel stays visible when one memory it names is on a visible node *)
(* (the Copy arm hides it only when neither is).                         *)
ChanShown(c, vn) == \E m \in Endpoints(c) : MemNode[m] \in vn

(* Mutant: a copy channel keeps only its memory on a visible node.        *)
KeptEndpointsVisibleOnly(c, vn) == {m \in Endpoints(c) : MemNode[m] \in vn}

(* The memories a visible channel takes out of memid_to_be_deleted.      *)
KeptEndpoints(c, vn) == Endpoints(c)

(* With visible_nodes empty, filter_output returns at once.  Otherwise   *)
(* processors and memories off the visible nodes are hidden, the         *)
(* memories go into memid_to_be_deleted, and each channel is hidden or   *)
(* takes its memories out of that set; with filter_input the hidden      *)
(* processors and channels and the memories (and their mem_proc_affinity *)
(* entries) left in the set are removed.                                 *)
FilterOutput ==
    /\ pc = "filter"
    /\ \E vn \in VisibleChoices, fi \in BOOLEAN :
        /\ visibleNodes' = vn /\ filterInput' = fi
        /\ IF vn = {}
           THEN UNCHANGED <<procs, mems, affinity, chans, hidden, memInsts>>
           ELSE LET hp  == {p \in procs : ProcNode[p] \notin vn}
                    hm  == {m \in mems : MemNode[m] \notin vn}
                    hc  == {c \in DOMAIN chans : ~ChanShown(c, vn)}
                    del == hm \ UNION {KeptEndpoints(c, vn) : c \in DOMAIN chans \ hc}
                IN  /\ hidden' = [procs |-> hp, mems |-> hm, chans |-> hc]
                    /\ procs' = IF fi THEN procs \ hp ELSE procs
                    /\ mems' = IF fi THEN mems \ del ELSE mems
                    /\ affinity' = IF fi THEN [m \in DOMAIN affinity \ del |-> affinity[m]]
                                   ELSE affinity
                    /\ chans' = IF fi THEN [c \in DOMAIN chans \ hc |-> chans[c]]
                                ELSE chans
                    /\ memInsts' = IF fi THEN [u \in {v \in DOMAIN memInsts :
                                                        memInsts[v].mem \notin del}
                                                 |-> memInsts[u]]
                                   ELSE memInsts
    /\ pc' = "done"
    /\ UNCHANGED <<log, next, operations, tasks, metaTasks, procTasks, procMetas,
                   entries, eventWaits, uidProc, opProfUid, fevents, used,
                   nextUid, copies, fills, defined, uidChan, hasProfData,
                   drafts, insts, instMem, profs, tables>>

Terminated == pc \in {"done", "aborted"} /\ UNCHANGED vars

Next ==
    \/ ProcDesc \/ OperationInstance \/ TaskInfo \/ MetaInfo
    \/ TaskWaitInfo \/ MetaWaitInfo \/ CopyInfo \/ FillInfo
    \/ CopyInstInfo \/ FillInstInfo \/ EventWaitInfo \/ SpawnInfo
    \/ MemDesc \/ ProcMDesc \/ InstTimelineInfo \/ ProfTaskInfo
    \/ CallDesc \/ CallInfo \/ GPUTaskInfo \/ MultiTask \/ SliceOwner
    \/ PlaceInsts \/ PlaceFills \/ PlaceProfs \/ PlaceCopy \/ CopiesPlaced
    \/ FilterOutput
    \/ Terminated

Spec == Init /\ [][Next]_vars

-----------------------------------------------------------------------------
(* The logs.  Owns(a, b): record a creates what record b names.            *)
Owns(a, b) ==
    \/ /\ b.tag \in {"TaskWaitInfo", "MetaWaitInfo"}
       /\ a.tag \in {"TaskInfo", "ImplicitTaskInfo", "MetaInfo"} /\ a.fevent = b.owner
    \/ b.tag = "SpawnInfo" /\ a.tag \in {"TaskInfo", "ImplicitTaskInfo", "MetaInfo"} /\ a.fevent = b.fevent
    \/ b.tag = "CopyInstInfo" /\ a.tag = "CopyInfo" /\ a.fevent = b.fevent
    \/ b.tag = "FillInstInfo" /\ a.tag = "FillInfo" /\ a.fevent = b.fevent
    \/ b.tag = "EventWaitInfo" /\ a.tag = "ProcDesc" /\ a.proc = b.proc
    \/ b.tag \in DOMAIN DescOf /\ a.tag = DescOf[b.tag] /\ a.desc = b.desc

IsWait(r) == r.tag \in {"TaskWaitInfo", "MetaWaitInfo"}

(* The order the runtime's logger writes: the record that creates an     *)
(* entity comes before every row naming it, and the wait rows of a task  *)
(* or meta task follow its info record with only its other wait rows in  *)
(* between.                                                               *)
LoggerOrder(s) ==
    \A i, j \in DOMAIN s :
        Owns(s[i], s[j]) =>
            /\ i < j
            /\ IsWait(s[j]) => \A k \in (i + 1)..(j - 1) :
                                   IsWait(s[k]) /\ s[k].owner = s[j].owner

Recs(tags) == {log[k] : k \in {i \in DOMAIN log : log[i].tag \in tags}}

TypeOK ==
    /\ \A k \in DOMAIN log : DOMAIN log[k] = Fields
    /\ next \in 1..(Len(log) + 1)
    /\ pc \in {"run", "insts", "fills", "profs", "copies", "filter", "done", "aborted"}
    /\ \A r \in Recs({"TaskInfo", "ImplicitTaskInfo"}) : pc = "done" => r.fevent \in DOMAIN defined
    /\ DOMAIN defined = used
    /\ \A u \in DOMAIN entries : u \in 1..nextUid /\ u \in DOMAIN uidProc
    /\ \A u \in DOMAIN uidProc : uidProc[u] \in procs \cup hidden.procs
    /\ \A u \in DOMAIN uidChan : uidChan[u] \in DOMAIN chans \cup hidden.chans

(* process_records does not panic on a log in the logger's order.        *)
NoAbort == pc # "aborted"

(* Whichever of TaskInfo and OperationInstance comes first, the task's    *)
(* initiation_op ends up the parent the OperationInstance names: the      *)
(* "two places" hack of create_task and the OperationInstance handler.     *)
InitiationOpIsParent ==
    pc = "done" =>
        \A t \in Recs({"TaskInfo", "ImplicitTaskInfo"}), oi \in Recs({"OperationInstance"}) :
            t.op = oi.op => entries[defined[t.fevent]].initiation = oi.parent

(* Every wait row lands on the entry that logged it, once, and on no     *)
(* other: TaskWaitInfo through find_task_mut, MetaWaitInfo through        *)
(* find_last_meta_mut, which picks the last meta task of (op, lg).        *)
WaitsOnOwner ==
    pc = "done" =>
        \A w \in Recs({"TaskWaitInfo", "MetaWaitInfo"}), u \in DOMAIN entries :
            Cardinality({k \in DOMAIN entries[u].waits : entries[u].waits[k] = w.wait})
                = IF u = defined[w.owner] THEN 1 ELSE 0

(* An EventWaitInfo or SpawnInfo names its task by fevent and may come    *)
(* before (event waits) or after the task's info record; either way the   *)
(* ProfUID it is filed under is the one the task's entry was created     *)
(* with, because create_reference and create_object intern by fevent.    *)
(* The same holds of a call's creator, and of a GPU kernel, whose creator *)
(* is its own task's fevent, referenced before create_task makes it an   *)
(* object; op_prof_uid then names the task, not the kernel.               *)
ReferencesResolve ==
    pc = "done" =>
        /\ \A e \in Recs({"EventWaitInfo"}), t \in Recs({"TaskInfo", "ImplicitTaskInfo", "MetaInfo"}) :
              e.fevent = t.fevent => <<defined[t.fevent], e.event>> \in eventWaits
        /\ \A sp \in Recs({"SpawnInfo"}) : entries[defined[sp.fevent]].spawn # None
        /\ \A c \in Recs(DOMAIN DescOf) :
              c.creator \in DOMAIN defined /\ ~BelowThreshold(c) =>
                  \E u \in DOMAIN entries : /\ entries[u].kind = CallKind[c.tag]
                                           /\ entries[u].creator = defined[c.creator]
        /\ \A g \in Recs({"GPUTaskInfo"}) :
              /\ opProfUid[g.op] = defined[g.fevent]
              /\ \E u \in DOMAIN entries : /\ entries[u].kind = "GPUKernel"
                                           /\ entries[u].creator = defined[g.fevent]


(* The rows the log gave fevent f through records of the tag, in order. *)
LoggedRows(f, tag) ==
    LET rs == SelectSeq(log, LAMBDA r : r.tag = tag /\ r.fevent = f)
    IN  [k \in DOMAIN rs |-> rs[k].row]

(* The channel entries made from fevent f's copy, by ProfUID.           *)
Placed(f) ==
    UNION {{<<c, u>> : u \in {v \in DOMAIN chans[c] : /\ chans[c][v].fevent = f
                                                   /\ chans[c][v].kind # "Fill"}}
             : c \in DOMAIN chans}

(* Once process_records is done (before filter_output), no row a        *)
(* CopyInstInfo or FillInstInfo logged is lost, duplicated or reordered  *)
(* by split_by_channel, create_fresh and add_copy: the copies of a       *)
(* logged copy, in ProfUID order, carry its non-marker rows in log order, *)
(* each copy in the channel of its own memory pair and kind; a fill is in *)
(* the Fill channel of its destination under its own ProfUID;            *)
(* prof_uid_chan agrees with every channel.  Which indirect group a row  *)
(* joins is not stated here: the code's grouping disagrees with the spec *)
(* (copysplit_spec), and both groupings keep this property.              *)
RowsInChannels ==
    pc = "filter" =>
      /\ \A c \in Recs({"CopyInfo"}) :
           LET us == SetToSortSeq({p[2] : p \in Placed(c.fevent)}, <)
               E(u) == LET p == CHOOSE p \in Placed(c.fevent) : p[2] = u
                       IN  chans[p[1]][u] @@ [chan |-> p[1]]
           IN  /\ FlattenSeq([k \in DOMAIN us |-> CS!DataRows(E(us[k]))])
                     = SelectSeq(LoggedRows(c.fevent, "CopyInstInfo"),
                                 LAMBDA r : ~r.indirect)
               /\ \A k \in DOMAIN us :
                     LET d == CS!DataRows(E(us[k]))
                         ch == E(us[k]).chan
                     IN  /\ d # <<>>
                         /\ \A i \in DOMAIN d : d[i].src = d[1].src /\ d[i].dst = d[1].dst
                         /\ ch.kind = E(us[k]).kind
                         /\ ch.kind # "Gather" => ch.src = d[1].src
                         /\ ch.kind # "Scatter" => ch.dst = d[1].dst
                         /\ uidChan[us[k]] = ch
      /\ \A f \in Recs({"FillInfo"}) :
           LET rows == LoggedRows(f.fevent, "FillInstInfo")
               ch == [kind |-> "Fill", src |-> None, dst |-> rows[1].dst]
           IN  rows # <<>> =>
                 /\ chans[ch][defined[f.fevent]].rows = rows
                 /\ uidChan[defined[f.fevent]] = ch

(* The ProfUIDs split_by_channel gives the copies come from the same     *)
(* allocator as those of tasks, meta tasks, fills and event references,  *)
(* and are fresh: no channel entry of a copy has the ProfUID of a        *)
(* processor entry or of any fevent, and no ProfUID is in two channels.  *)
ChannelUidsFresh ==
    \A c \in DOMAIN chans : \A u \in DOMAIN chans[c] :
          /\ u \notin DOMAIN entries
          /\ chans[c][u].kind # "Fill" => \A f \in DOMAIN fevents : fevents[f] # u
          /\ \A d \in DOMAIN chans : u \in DOMAIN chans[d] => c = d

(* The memories described by a MemDesc record.                          *)
Described == {r.mem : r \in Recs({"MemDesc"})}

(* With filter_input and some visible nodes, filter_output leaves        *)
(* exactly the described memories the filtered profile still names:      *)
(* those on a visible node and those a remaining channel connects, so    *)
(* Chan::name finds both memories of every remaining copy channel even   *)
(* when one of them lies off the visible nodes.                          *)
FilterKeepsNamedMems ==
    (pc = "done" /\ filterInput /\ visibleNodes # {}) =>
        mems = {m \in Described : \/ MemNode[m] \in visibleNodes
                                  \/ \E c \in DOMAIN chans : m \in Endpoints(c)}

(* The ProcMDesc records of memory m, in log order, and the first of     *)
(* those with the largest bandwidth.                                      *)
AffRecs(m) == SelectSeq(log, LAMBDA r : r.tag = "ProcMDesc" /\ r.mem = m)

BestLogged(m) ==
    LET rs  == AffRecs(m)
        top == CHOOSE b \in {rs[i].bw : i \in DOMAIN rs} :
                   \A i \in DOMAIN rs : rs[i].bw <= b
        i   == CHOOSE i \in DOMAIN rs :
                   rs[i].bw = top /\ \A j \in 1..(i - 1) : rs[j].bw < top
    IN  [proc |-> rs[i].proc, bw |-> top]

(* Each memory's mem_proc_affinity entry names the processor with the    *)
(* largest bandwidth logged for it, the first logged among equals,       *)
(* whatever the order of the ProcMDesc records; and filter_output keeps   *)
(* the entry exactly as long as it keeps the described memory.           *)
AffinityIsBestLogged ==
    pc = "done" =>
      \A m \in {r.mem : r \in Recs({"ProcMDesc"})} :
        /\ m \in DOMAIN affinity <=> (m \in mems \/ m \notin Described)
        /\ m \in DOMAIN affinity => affinity[m] = BestLogged(m)

(* The record of the log that defines fevent f.                           *)
Profiled(f) ==
    CHOOSE r \in Recs({"TaskInfo", "MetaInfo", "InstTimelineInfo", "CopyInfo",
                       "FillInfo"}) : r.fevent = f

(* Spec 4.9: once process_records has run, every profiling task, whatever *)
(* the order its record came in relative to the task, instance, copy or  *)
(* fill it profiles, has that entity's logged create time, is ready at   *)
(* the entity's stop (or, for an instance's allocation response, at the  *)
(* instance's ready time), and points at the ProfUID of the entity's own *)
(* creator instead of the entity (find_prof_task_times and               *)
(* update_prof_task_times, after the instances and fills are placed and  *)
(* before the copies are split).                                           *)
ProfTimesResolved ==
    pc \in {"filter", "done"} =>
        \A r \in Recs({"ProfTaskInfo"}) :
            LET e == entries[defined[r.fevent]]
                s == Profiled(r.creator)
            IN  /\ e.create = s.time.create
                /\ e.ready = IF s.tag = "InstTimelineInfo" /\ ~r.completion
                             THEN s.time.ready ELSE s.time.stop
                /\ e.creator = IF s.creator = None THEN None ELSE fevents[s.creator]

=============================================================================
