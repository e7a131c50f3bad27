# metafolder: a TLA+ verification project

metafolder keeps *metarecords* (typed, multi-valued fields) about the files of a
directory tree. A daemon (`crates/daemon`) owns each repository's store; command
line and graphical clients talk to it over HTTP; a watcher turns filesystem
events into writes. Every write is logged, and can be reverted.

This directory models the parts of metafolder whose correctness depends on order:
who may write while a coordinated revert is in progress, how an event gets from
the kernel to a commit and what a batch of events does to the store, what the
operation log says about the store, what undo and redo take back, how a
repository is loaded, lost and restored, how two repositories are synchronised,
and how a file goes to the trash and comes back. The models are checked with TLC
on small instances; but for the ingest filter, the batches of events and liveness, what
they check is proved with TLAPS for every instance. One run is expected to find a
violation: it shows where the code departs from what a comment says (section 6, with
the other departures, which the properties except by name).

Running a check: `tlc -config OpLog.cfg MCOpLog`; a proof: `tlapm OpLogProofs.tla`.
`PROJECT.json` lists the runs, the source lines behind every definition, the
hazards, the findings and the theorems.

## 1. Inventory

| Component | State it keeps | Operations | What is hard | What makes it correct |
|---|---|---|---|---|
| store mutex and coordinated-revert lock (`state.rs`, `routes/revert.rs`, `routes/history.rs`) | `RepoState::conn`, `revert_lock`, `root_lost` | write routes, `writer`, `revert/start`, `commit`, `abort`, prune, label, `let_go` | checks made before the store is waited for; the lock dropped without the store | nothing moves between a start and its commit; a commit reverts what its start fixed |
| event ingestion (`watcher/mod.rs`, `executor.rs`, `routes/fs.rs`) | the buffer, the rule slot and its two touch counts, the pause flag, the flush task's cancel flag | filter, enqueue, drain, apply, return, stop, pause, resume | four threads sharing six flags; a batch returned while others arrive; a filter that reads stale rules | no event lost or overtaken, only ineligible ones filtered, everything buffered is applied |
| operation log (`log.rs`, `kvstore/mod.rs`) | operations with snapshots, HEAD, labels and their index, command labels, id sequences | contexts of a Writer, each edit, commit, drop, trim, prune | labels emptied in any order by three mechanisms; retention by origin | the log explains the store; no label dangles or leaks |
| revert (`revert.rs`) | none beyond the log | one inverse per operation type | mixed types on one metarecord, deletions and recreations | the cell is what it was before the oldest operation reverted |
| undo and redo (`core/undo.rs`, `revert.rs`) | the `reverts` links of the log | select, narrow, revert a label | a bounded window against a whole log; writes between selection and revert | client and daemon agree; a redo never undoes |
| event batching (`executor.rs`: `correlate_renames`, `compact`, `group`) | none beyond the batch | fuse, compact and group a batch | merges across events on the same paths; writes reordered by kind | the store ends as the disk is |
| application of an event (`executor.rs`, `fs_meta.rs`) | the file metarecords | arrival, departure, move, modification, scan | the disk is read as it is now, not as it was; departures matched with arrivals by stat key; a batch applied twice | every file keeps its metarecord; no write is refused |
| watch rules (`eligibility.rs`, `state.rs`) | the rule index stamped with HEAD | read, settle after a write | stamp restored only if nothing moved in between | index equals the rules of the store it is stamped with |
| watch sources (`watcher/inotify.rs`, `fanotify.rs`) | kernel watches, their budget | place, forget, overflow | directories created while they are being watched | no blind directory |
| watchd (`crates/watchd`) | clients, their filters | subscribe, relay | a privileged process with several clients | each client gets its own repository's events |
| repository life cycle (`state.rs`, `repo.rs`, `backup.rs`) | the registry, the list of lost repositories, readiness, the store's lock | create, load, warm, unload, restore, lose | two locks, references that outlive the registry, a hook on a thread of its own | one store open per repository; loaded or lost, never both |
| tasks registry (`tasks.rs`) | tasks and their states | start, progress, cancel, finish, evict | cancel against finish | one load and one flush task per repository; an end for every start |
| in-memory copy of the store (`kvstore/memory.rs`) | the copy, whether it fell behind | read in, commit to disk then to the copy, release | a disk that refuses, a copy that falls behind, a daemon killed in between | a write that was answered is on disk and is seen |
| forest (`forest.rs`) | tree references | deferred checks at commit | moves that pass through invalid states | no cycle, one position each |
| synchronisation (`core/sync`, `sync.rs`, `routes/sync.rs`) | the pair's links and snapshots, the plan repository | plan, resolve, run, commit | two stores and two disks, request by request, among edits and crashes | what is called in sync agrees; no edit or content lost |
| trash-bin (`core/trash.rs`, the clients) | blobs, the index of entries, the captured metarecords | trash, restore, remove, prune, sweep | three effects per command, several clients, no common lock | a metarecord goes and comes back with its bytes |
| coordinated-revert client (`core/coordinated_revert.rs`) | bytes on disk | restore, re-trash and move files between start and commit | a step that fails half way, an abort by somebody else | the same metarecord and bytes whichever way back is taken |
| reconcile, orphans, duplicates | none of their own | long tasks over disk and store | a disk that changes under them | only what differs is written |
| query engine, languages, schema, mounts, clients | mostly read-only or I/O | | | |

How they interact: every handler reaches the store through one mutex per
repository and writes through a `Writer`, which refuses while a coordinated revert
is in progress. The watcher's ingest thread shares the buffer and the rule slot
with the flush, without the store. The executor thread flushes when the disk is
quiet; the route that ends a coordinated revert flushes on its own thread. Clients
read the log through `GET /log` and act on it later. Synchronisation and the trash
are run by clients: a sequence of requests and of operations on the disk that no
lock spans.

## 2. Plan

Written so far, in this order, most important first:

1. `RevertSession` (what a coordinated revert promises) and `RepoLocks` (how the
   handlers keep it), `RepoLocksProofs`;
2. `Ingestion`, `IngestionProofs`;
3. `OpLog`, `OpLogProofs`, `OpLogHistoryProofs`;
4. `UndoRedo`, which extends `OpLog` with the client, `UndoRedoProofs`;
5. `EventBatch`, what a flush makes of the events `Ingestion` hands it;
6. `Registry`, the instances that `RepoLocks` and `Ingestion` are about, and
   `RegistryProofs`;
7. `Sync`, `SyncProofs`;
8. `Trash`, with the client of the coordinated reverts of `RepoLocks`, and
   `TrashProofs`.

Left, in order:

9. the rule index with its HEAD stamp: user edits of rules in `Ingestion`;
10. directories in `Trash` (merging, descendants) and in `Sync` (translated
    parents, several links); the moves of a revert's plan (`decide_move`);
11. the forest's deferred checks, on `OpLog`; watchd.

Theorems to come: `FilterSound`, with an invariant that says where the published
index lags; `NeverRefused`, which needs the effect of one event only.

## 3. The modules

### RevertSession and RepoLocks

`RevertSession` is the abstract specification: a session is entered with the set of
operations it will revert, ends with one write that reverts some of them or with
none, and the log does not move in between. Each request is one atomic step.

`RepoLocks` has the threads. A thread is `idle`, at the `entry` of a route, in
`wait` for the store, has it `held`, or has a transaction `open`. `Call`, `Refuse`
and `Enter` are `with_repo` and the door (`ensure_writable`); `Acquire` is the
mutex; `Open` is `RepoState::writer`, which asks the lock again with the store in
hand; `StartUnder`, `ReadLock`, `CommitUnder` and `AbortUnder` are the three routes
of a coordinated revert, the commit in two steps because the lock it read may be
dropped by `LetGo` before it commits; `PruneUnder` and `LabelUnder` are the two
routes that open their own transaction and do not ask again. A write is one entry
of `log` (`AppendOp`), holding the operations it reverts; retention may delete any
older entries with it. `Routes` chooses which requests are made.

The refinement mapping (`Session`) reads a commit at work as being in its session
until it releases the store, even when the repository was let go meanwhile.

Reads of an open store do not fail in this model, so the path of `revert_commit`
whose reading of the new HEAD fails after the commit, and which leaves the lock
standing, is not there (a hazard listed without a property).

### Ingestion

The ingest thread (`ReadRules`, then `DropEvent` or `Buffer`, `RulesTouched`,
`Ping`) takes one event at a time; the executor thread waits for quiet
(`Activity`, `QuietOver`); a flush (`Enter` to `Cover`) is run by the executor
(`"exec"`) or by the route that ends a coordinated revert (`"route"`), step by
step as `flush_pending_once` does: the door, the store, the second look at the
lock, the touch mark, the drain, the reads that may fail, the groups with the stop
checked between them, the publishing of the rules, the covering of the mark. The
user pauses in two steps (flag, then the cancel of the running flush) and resumes.

The rules are abstracted to one: the root is watched and one directory opts out,
which moves with the directory. `placeOf` is where the store has it, `published`
where the ingest thread believes it is, `DiskPlace` where it really is. An event is
a move of that directory or concerns a file under a place. Each event is a group of
its own (what a batch does to the store is `EventBatch`). Left out: `drop_excluded`, the
first reading of the rules failing (everything is buffered then), the cancel of a
flush through the tasks route (the two steps of a pause in the other order), and
the task left running when the rules cannot be read after it started.

### OpLog

`db` is the committed store, `view` what the open transaction sees, `writer` the
open `Writer`. `BeginNew`, `BeginInLabel`, `BeginCommand` and `BeginWatcher` are the
contexts of `begin_in`; the edits are the methods of `Writer`, each logging one
operation with the rows before and after (`ReplaceField` logs two); `BeginRevert`
and `RevertNewest` are `revert::apply`, one operation at a time, newest first;
`Commit` drops a label nothing was written in, trims by origin and moves HEAD;
`Abort` drops everything; `Prune` and `CreateLabel` are the two routes with a
transaction of their own. Labels carry the set of their ancestors. Two history
fields no step reads are kept in the store for the properties: `past` (the
metarecords before each operation, and whether the operation is a change, an undo
or a redo) and `posted` (labels opened by hand).

Abstracted: field rows are (name, value) pairs, since a metarecord holds no
duplicate rows and a revert works by value; the three operation types the watcher
writes for files are one; value types, versions, forests and the origin of a
trashing are left out; the root metarecord is not edited after its creation.

### UndoRedo

Extends `OpLog` with a client that reads the newest `Window` operations (then
`WideWindow`, if it found nothing and the first came back full), picks what an
undo or a redo takes back (`UndoPick`, `RedoPick`) and one of the labels it was
written in; later, other writes having come in between, the daemon narrows that
label to what stands (`Narrow`) and reverts it. A client's partial apply list is
left out.

### EventBatch

The disk and the store are trees of the same shape, two levels deep. The user
creates, writes, removes, renames, moves out and moves in; each change appends to
`pending` what one of three sources would report of it: a source that covers the
file system tells whole renames, one watch per directory tells two halves, with or
without the whole. A directory whose watch is not placed yet (`fresh`) reports
nothing, one that was renamed and not told of yet (`moving`) is not changed inside
until it is. `TakeBatch` is the first half of `flush_pending_once`:
`CorrelateRenames`, `Compact` and `Group` are the folds of the code over the batch,
with what it remembers of it (`departed`, `moved`, `arriving`). `ApplyEvent` applies
the next event (`Apply` and the operators it names, one per function of the code) to
the write of its group, which commits with its last event (`ContinueGroup`,
`CommitGroup`) and is rolled back when the store refuses a taken position
(`FailGroup`); `FinishFlush` is the last sweep under what the batch moved. The user
goes on changing the disk between any two of these steps; a scan of one directory,
a cascade and the sweep are each one step. `StopFlush` stops the flush before any
event or in the sweep, and hands the whole batch back although some groups are
committed.

The properties name what they except, each where the code loses track:

* `plain`: every batch was one in which no third event knows a name two folded events
  share and no directory is moved after an event inside it (`Plain`), the events
  reported while it was applied included (`Overtaken`);
* `again`: every batch handed back was one in which no name a rename leaves is taken
  again (`Replayable`);
* `kept`: the circuit breaker refused a cascade;
* `crossed`: files moved, while a batch is applied, out of a directory it sweeps or
  into one it may scan;
* `missed`: a tracked name given up although no event to come names it;
* `half`: files a move of which was told by one half; `Alike`: files the stat key does
  not tell apart.

Left out: eligibility and rules, frozen mounts, fingerprints, `ModifyMeta`
(compacted like `ModifyData`) and directories below the top.

### Registry

An *instance* is an `Arc<RepoState>`: it is alive, and its store locked, while the
registry, a thread or the hook holds a reference (`Alive`, `Unlocked`). Each lock of
the registry or of the list of lost repositories is one step of a request: `LoadLook`
to `RegisterInsert` for a load, `InitMake` for an initialisation, `WarmLook` to
`Activate` for the warming, `UnloadLost` to `UnloadDrop`, `RestoreLook` to
`RestoreSwap`, `Admit`, `Write` and `Serve` for the requests on a loaded repository,
`SetInMemory`. A root that is gone is noticed by a request, by a load or by the
flush, which spawns the hook (`HookRemove`, `HookList`, `HookLetGo`). The store is
the set of its writes; `Write` has its outcomes: refused by the disk, committed, or
committed on disk and refused by the copy. `Crash` kills the daemon.
`raced` records that a restore replaced a store somebody had opened again since its
release, `early` that an initialisation found its root gone before it had a hook.
Left out: renaming a repository, known repositories, backups being taken, the sync
databases a repository hosts.

### Sync

One link: a record on each side with one user field, a position and the stamp of
its file; the row and snapshot of the sync database; the operations of the plan.
The decisions (`DecideField`, `DecideAspect`, `LinkOps`) are those of `model.rs`
and `plan.rs`; the plan reads the two sides one after the other and is written at
once, or is left half written by a crash. The plan repository is a set of operations,
one of a kind but for the conflicts, since a run takes them by phase. A run goes through its phases operation
by operation, each request and each effect on the disk a step of its own
(`RunField`, `RunTransfer`, `RunRefresh`, `RunPosition`, `RunRelocate`, `RunClear`,
`RunReread`, `RunUnlink`, `RunUnfile`...), so that the user's edits, the watchers and a crash come between any
two. A version is a hash of the record's content, so it is modelled by the record.
`half` notes what came apart between two requests: `"plan"`, a plan the command died
writing; `"orphan"`, a record a run orphaned that somebody changed before the run
read it back.
Left out: modes, content owned by an outside tool, references and parents, matching
by fields, directories, other links of the same batch.

### Trash

One path. A client's command is a sequence of effects: the capture and deletion of
the metarecord, the rename into the trash, the index row, the attached capture; for
a restore the look, the metarecord put back, the rename, the row dropped; removing
and pruning, in the two orders the code has; and the revert of an operation, written
at once or coordinated (`revert_start`, `decide_deleted` or `retrash`,
`revert_commit`, `revert_abort`). The user creates and removes the file, the watcher
applies its event, a client is killed or another aborts its session. `mishaps`
names the windows the code leaves open when one is met, for the properties to except
exactly those: `vanished` (the file was gone when a trashing came to move it),
`replaced` (it was another file by then), `untracked` (a file without a metarecord was
trashed), `unattached` (an entry was restored before its
capture was attached), `refused` (the metarecord could not be put back while the
bytes were), `dropped` (the entry went under a restore), `displaced` (the metarecord
was taken away between the halves of a restore), `swept` (the sweep of `prune --all`
took an entry newer than its walk), `retaken` (the path was given to another
metarecord between the halves of a trashing), `crossed` (bytes came back once a revert
that takes their metarecord again had looked for them), `orphaned` (a metarecord the
watcher had orphaned was deleted, so that the snapshot has no path to come back to),
`unlinked` (an orphan's path was taken while its bytes came back). Left out: directories, inbound references, other
fields, copies across file systems, plans of several operations.

## 4. Runs

| Run | Instance | What it shows |
|---|---|---|
| RepoLocks | 3 threads, 3 writes, routes that go through `RepoState::writer`; symmetry on threads; deadlock checked | `TypeOK`, `LockedOpsKept`, `StoreStillWhileLocked`, and the refinement `ImplementsSession` |
| RepoLocksAll | 2 threads, 3 writes, every route; deadlock checked | `OnlyCommitWrites` |
| Ingestion | 3 places, 3 events, 2 moves, 1 failing application, 1 failing read, 1 pause, a lost root, at most 3 of these in all; 1 session; symmetry on places | `TypeOK`, `NoEventLost`, `AppliedInOrder`, `BufferInOrder`, `FilterSound` |
| IngestionLive | 3 events, 1 move, 1 session, fairness | `EventuallyApplied` |
| OpLog | 1 metarecord, 2 fields, 1 value, 5 operations, 1 label, no retention | `TypeOK`, `LogExplainsStore`, `RevertRestores` |
| OpLogLabels | 1 metarecord, 1 command key, 5 operations, 4 labels, both limits 1 | `HeadInLog`, `LabelsLive`, `OriginsApart`, `NoIdleLabel`, `RetentionKeeps` |
| UndoRedo | 1 metarecord, 5 operations, 5 labels, windows 2 and 3, prunes | `SelectionAgrees`, `RedoNeverUndoes` |
| EventBatch | 2 names of files, 2 of directories, trees of up to 4 nodes, 3 changes of the disk, 1 of them during a flush, 1 stop, circuit breaker at 2; symmetry on names | `TracksDisk`, `NeverRefused`, `KeepsIdentity`, `NoStranger` |
| Registry | 1 repository, 2 threads, 3 requests, 2 writes, 3 instances, 1 move of the root; symmetry on threads | `LostOrLoaded`, `OneOpener`, `AckedKept`, `LoadedSeesAcked`, `LostHasItsUnload`, `HookSparesNew` |
| Sync | 2 values, 2 contents, 2 places, 2 steps of the user or faults; symmetry on values | `InSyncAgrees`, `NothingDestroyed`, `LinkOutlivesRecords`, `SyncSettles`, `NoEditOverwritten` |
| SyncMoved | the same | violates `EverySyncSettles`: section 6 |
| Trash | 2 clients, 4 commands, 2 files, 2 metarecords, 1 fault; symmetry on clients | `IndexAgrees`, `SameRecordBack`, `BytesLeaveByChoice`, `MetadataKept` |

Why the bounds are enough for what they look for. *RepoLocks*: a race needs one
thread in a session, one that passed the door before it and one that ends it, hence
three threads; three writes leave an older entry to revert, one written since, and
the commit's. *Ingestion*: an overtaking needs an event returned, one arriving
meanwhile and a second flush; a wrong filter needs a move and a file event on each
side of a flush, and a second move is applied with the first or after it; three
troubles at once (`MaxTroubles`) are a move, a failure and a pause. *OpLog*: one metarecord is created, edited, deleted, recreated and
reverted within five operations, the first being the root's; two fields tell a
cell-scoped operation from a metarecord-scoped one. *OpLogLabels*: four labels give
a label inside a command's label beside the watcher's and the first; with a limit of
1 and a slack of 1 every third operation of an origin trims. *UndoRedo*: change,
undo, redo, undo, with the root's operation; windows shorter than that chain cut it.
*EventBatch*: two events that fold and a third, with a file and a directory on either
end, are the shortest batch in which order matters; one change in the middle of a
flush meets each of its walks of the disk, and a stop replays the
batch with what came meanwhile behind it. *Registry*: a race needs a request that opened, one that is opening and the hook,
and an instance for each. *Sync*: one event before the plan and one during it or the
run, or two on the two sides for a conflict. *Trash*: trash, undo, redo and undo
again are four commands; a second client comes between any two of their effects.
`SameRecordBack` needs more than that: five commands meet windows that four do not
show (section 6), which is why it is proved and not only checked.
In all but the two RepoLocks runs behaviours end when a bound is reached, so deadlock
is not checked there.

`NoEventLost`, `AppliedInOrder` and `FilterSound` are stated for repositories whose
root is there (a flush drops the buffer of a lost root, on purpose) and as long as
no read failed between a draining and its application (section 6); `FilterSound`,
of histories in which every move of the rule was counted (`AllCounted`), too.

Fairness (`IngestionLive` only): the ingest thread finishes the event it has in
hand, the executor thread and a route's flush take their steps: they are operating
system threads that wait for nothing but the store, which every holder releases.
The client of a coordinated revert is assumed to end it, which is its protocol; the
code has no timeout for one that does not. Nothing is assumed of the user, of the
filesystem or of failures, and the liveness run has neither a pause nor a failing
flush: a paused repository applies nothing until it is resumed, and a failed batch
waits for the next activity.

## 5. Theorems

All theorems hold for every value of the constants under the named assumptions of
their module, which say what the models take for granted: bounds are numbers, a
name that stands for nothing is not one of the things, there is a path and a content,
a repository and a thread, and room to open each repository once. Liveness,
`ENABLED` and what a fold or a recursive definition computes from a sequence stay
with TLC, but for two recursions along a log, `Standing` of `UndoRedo` and `coupled` of
`Trash`, each argued by its least counterexample.

* `RepoLocksProofs`. `TypeCorrect`, and `OnlyCommit`: whatever the routes, a write
  that lands during a session is its commit. The type invariant alone is not enough:
  that a thread with a transaction open sees the lock it saw when it opened it
  depends on the store having one holder (`Holder`), on an open writer knowing the
  lock (`OpenKnowsLock`) and on a lock being remembered only by an open commit
  (`OnlyOpenReads`); together `MutexInv`. `LockedOpsSafe` and `Refinement` assume
  that prune is not among the routes and add that the operations of the lock, and
  those a commit read, are in the log (`SessionInv`). `Refinement` maps each step of
  the threads to a step of `RevertSession` or to a stutter. `StillWhileLocked` is the
  action property that nothing at all moves during a session; it assumes that neither
  prune nor label is among the routes, the two that do not ask the lock again.
* `IngestionProofs`. `IngestionTypeCorrect` and `NothingLost`. The invariant
  `FlowInv` says that one flush at a time is past the wait (`OneFlush`), that only
  it has a batch (`BatchInHand`), that what it counts as done is committed
  (`DoneIsApplied`: otherwise the end of a flush could drop an event), and that
  buffers hold events that happened. `LossInv` adds the property itself.
  `BufferStaysInOrder` and `EventsAppliedInOrder` hold together (`OrderInv`): the
  batch in hand is ahead of the buffer, what is committed ahead of both, and the event
  the ingest thread has in hand behind everything (`Ahead`); a batch that goes back
  keeps the buffer sorted because of the first, and a flush overtakes nothing because
  of the second.
* `OpLogProofs`. `OpLogTypeCorrect`, `HeadSafe`, `LabelsSafe`, `OriginsSafe`. The
  invariant `Inductive` has both the committed store and the transaction's view
  sound: labels nested transitively (`Nested`: dropping a label must not cut a path)
  and the labels of commands outside the watcher's (`CommandsApart`: `begin_in` does
  not check a label it finds by key, so the origin of an operation depends on it);
  and it says what an open writer knows of its label (`WriterSound`: an empty commit
  drops a label in which nothing lies). `RetentionSafe` is an action property: what a
  trim takes is bounded by the length of the log it is given, and never reaches the
  write that commits. `NoLabelLeaks` needs what each label is used for (`UseInv`).
* `OpLogHistoryProofs`, on top of `Inductive`. `RevertsRestore`: an operation's
  snapshot is what its cell held before it, so taking back the newest one that
  stands in a cell brings that back, and each step of a revert, newest first, leaves
  the cell as it was before the operations done (`HistoryInv`, with the progress of
  the revert under way). `LogTellsAll` assumes that both retention limits are 0 (off),
  as its property says: the operations kept leave no gap (`Dense`), so whatever the
  store holds has its operation.
* `UndoRedoProofs`, on top of both. `UndoKeepsLog` is a refinement: the steps of undo
  and redo are steps of `OpLog`, so its theorems hold of them. `SelectionsAgree` needs
  two things. A revert is newer than what it reverts, so there is one function that
  says what stands, and each of its values depends on newer operations only
  (`StandingExists`, `StandingAt`): the window, which holds everything newer than
  what is in it, says of them what the whole log says (`WindowStands`). And the
  log shows what each operation was done for (`RoleInv`): one that reverts nothing is
  a change, one that reverts a change still in the log an undo. `RedosTakeUndos`
  follows from `RoleInv`.
* `RegistryProofs`. Every property of the run, from one invariant (`RegistryInv`),
  since they rest on each other: that one instance has a store open depends on who
  may still hold a reference, so each reference of a thread names its repository
  (`RefsName`), an instance that is not registered yet is known to the one request
  that opened it (`OpeningAlone`), the hook that holds one has taken it out of the
  registry (`HookHolds`), and an instance has the store of its own repository with
  what was answered in its copy (`Opened`, `StoresApart`). `HookSparesTheNext` is
  the action property of the hook.
* `SyncProofs`. `SyncedAgree` (but for the two windows of `half`), `FilesAreKept`, `LinkStaysWithRecords` and
  `EditsAreKept` follow from `Inv`, `UndisturbedSettles` from `Inv` and `SettleInv`. What a run would commit agrees (`Agreeing`):
  once the metadata is synchronised and nothing was skipped, the field is the same on
  both sides or the link is held by an open conflict, and so is the position, or the
  plan still has the move that will make it so. Between the request that orphans a
  record and the one that reads it back the move is still to be done (`BeforeMove`);
  what is read then is the orphan, or `half` notes the change that came between. That the plan has that move depends
  on the plan (`Foreseen`: a plan written whole moves the file exactly when the
  records were at two places) and on the run knowing what the plan saw until it
  writes (`Baselined`). A link goes only with its records (`Linkless`, `Doomed`): a
  record once read as gone stays gone, because only a plan that creates makes one,
  and no plan both creates and deletes. An edit shows (`TouchedShows`): a field that
  was edited is not the snapshot's, so `decide_field` never takes the other side's
  value without a conflict. `Flow` says that a run is at an operation its plan has.
  `UndisturbedSettles` needs more: what holds at each step of a plan and a run that
  nothing disturbs (`SettleInv`: `Quiet => Course`). Between two commands (`AtRest`)
  the user may have done anything. A plan is written of records each of which agrees
  with its disk (`Levels`: the watchers have nothing to say), so it foresees what the
  files need (`Joining`: a move if they are at two places, a copy if they may differ,
  the other's file for a record that is missing), or that the link is to end
  (`DropPlan`, `DeletePlan`). Then one predicate a step (`Stage`) follows the run: what
  it knows is what is there (`Working`), and after each operation on files the two
  sides are at one place with one content, or have no file, or the link is held. That a plan may
  leave two files unread whose stamps are those of the snapshot rests on `Told`, an
  invariant of all undisturbed histories: one function gives every stamp the content
  it was given out for, and the two stamps of a snapshot one content. It is here that
  a file both moved and edited breaks the argument, and is excepted (section 6). One
  lemma per action keeps `Course`; a step of a watcher that moves no record keeps all
  of it (`UnmovedCourse`), and so does a stutter.
* `TrashProofs`. `ListedHasItsBlob`, and the action properties `BytesAreNotLost` and
  `MetarecordOutlivesBytes`. From `Inv`: entries are never reused, so one is left for
  every command that has yet to make one (`Counted`); an entry not made yet is empty,
  and only the entry of a metarecord has its capture (`RowsApart`); a deletion in the
  log says where its metarecord was, and a reversal is of an older operation
  (`Chained`); until something fails, the client that reverts has the lock, and no
  other reverts (`Locked`);
  and for each client, the entry it names is made (`Placed`), what it knows at each
  step of its command still holds (`Stage`), and an entry it is about to list is its
  alone (`Listing`). A step is one client's. `Grows` bounds what it leaves to the
  others: entries are emptied, unlisted, or listed by their maker, the log grows, and
  a metarecord taken is noted; so their parts of the invariant are kept by one lemma
  and not action by action. `SameRecordComesBack` is about the last state of a whole
  history; `StoryInv` says what is so all along one that meets no mishap (`Clean`,
  which by `CleanBefore` no step can make true again). The path has a metarecord just
  when it has a file, or the watcher has an event to apply, or a client is between the
  two halves of a restore or of a trashing (`Paired`); the first file is the first
  metarecord's, or is about to be (`First`), and so are its bytes in the trash
  (`Blobs`); every deletion took a metarecord that had the path (`Snapped`). A revert
  that moved bytes leaves the watcher an event it cannot apply before the commit
  (`Moved`), and `Linked`, `Alone`, `Aimed` and `Cleared` say what a restore, a
  trashing and a revert in progress can count on. `Tells` bounds what a step does to
  the clients it is not about, as `Grows` does for `Inv`.

Only model-checked:

* `EventuallyApplied` (liveness);
* the four properties of `EventBatch`: they are about what folds over a batch
  make of the whole of it, and a proof of them is an induction over the batch;
* `FilterSound`: its invariant has to say where the published index lags behind the
  moves that are buffered, drained and applied, and is still to be written.

## 6. Findings

*SyncMoved*: `plan_link` compares the contents of a link only when neither position
is to change. A file moved and edited on one side since the last sync gives a plan
with a move and no copy; the run moves the other side's file and commits, the
snapshot takes the two stamps for agreed, and no later plan looks at the contents,
which differ. `model.rs` says that a link is committed only once the two sides agree
on all of it.

What else the models met, which the properties except by name or by the choice of
the run:

* `POST /log/prune` and `POST /labels` look at the revert lock before they wait for
  the store and not again: a prune may delete the operations of a session that
  started in between. `LockedOpsKept` is checked without the prune route.
* The two reads between the draining of the buffer and its application return with
  `?`, and the drained batch is gone (`ReadFails`).
* A flush that saw a stop pauses ingestion when it leaves; a resume that came before
  that moment is undone.
* A second move of a rule, buffered before the first was applied, is not recognised as
  touching the rules, since the published index has the rule at neither of its ends.
  The flush of the first turns the ingest filter on again while the second is still
  buffered, and the filter drops an event a flush would keep, although the comment of
  `ingest` (`watcher/mod.rs:657`) says that filtering stays off until a flush has
  applied the move. TLC finds it in `FilterSound` without `AllCounted`.
* `apply_rename` clears a tracked destination through the cascade that the circuit
  breaker guards. Where the breaker refuses, the destination stays taken, the store
  refuses the move, and the batch is retried for ever: what the comment there
  (`executor.rs:1181`) says must not happen. `rm -r` of a directory with more entries
  than the limit, which stays tracked, then another directory moved to its name; TLC
  finds it in `NeverRefused` without `kept`, from a directory of two files.
* A run that orphans a record does it with one request and reads the record back with
  another (`run.rs:801-818`). An edit between the two becomes what the run knows; it
  is committed with its version and the old snapshot, and no later plan looks at a
  link whose versions are the recorded ones, although the header of `run.rs` and the
  page on running a sync say that a run never re-reads what it commits. TLC finds it
  in `InSyncAgrees` without `"orphan"` in `half`.
* An undo whose inverse has nothing to write leaves no trace in the log; the change
  still stands, and the next undo picks it again.
* A file created in a directory that is renamed before the flush is looked for under
  the old name and not tracked under the new one; compaction that folds two events
  forgets a third that knew the name between them, and can turn a chain of renames
  into a cycle the store refuses (`Plain`). A replayed rename moves the metarecord of
  what took its old name since (`Replayable`). Two files with the same size and times
  can be taken for one another (`Alike`).
* A flush walks the live disk: a file moved, after its batch was drained, out of a
  directory the batch moved is orphaned by the last sweep, and one moved into a new
  directory is given a second metarecord by its scan, before the rename that would
  explain either is applied (`crossed`). A removal passed over because the name is
  taken again is lost when nothing reports the newcomer's going (`missed`).
* A restore from a backup holds no lock between the release of the repository and the
  replacement of its store (`raced`); a repository whose root goes while `init_repo`
  warms it has no hook yet (`early`); the name of a repository is looked at before it
  is registered, under another lock.
* A sync run killed after it made the record of a new link, and before the link,
  cannot finish that plan: the record is refused as existing, and the link is skipped
  for want of a baseline. An edit between a run's copy and its refresh is recorded as
  the agreed content. A plan the command died writing may be run as it is (`half`).
* Trashing looks its path up and reads what it captures in several requests; here
  they are one step, as are the set-aside and the rename of a restore from a backup.
* The windows of the trash listed under `mishaps` in section 3. Four came to light
  with the proof of `SameRecordBack`; none breaks it within four commands. With five:
  a file is trashed, an undo brings it back, it is trashed by hand and
  restored, while another client reverts the first undo's creation. That revert finds
  no file to trash, the restore brings it back, and the commit deletes the metarecord:
  a file is left that the next event tracks as a stranger (`crossed`). Between the
  deletion of a metarecord and the move of its file somebody may give the path to
  another (`retaken`). An orphan that is deleted comes back as an orphan, beside its
  bytes (`orphaned`), and a relink that finds the path taken is passed over
  (`unlinked`).

## 7. Not modelled

See the components of `PROJECT.json` for each reason. Parsing, formatting, the query
engine and the clients' interfaces (most of the source) have no state whose order
matters, or are pure I/O. Kernel watch interfaces are external: `EventBatch` has what
they deliver. Eligibility is a pure function of a path and of rules that are regular
expressions. The others are in the plan of section 2.
