------------------------------- MODULE OpLog -------------------------------
(***************************************************************************)
(* The store and the operation log of one repository (daemon/src/log.rs,   *)
(* revert.rs and the write transaction of kvstore/mod.rs).  A Writer opens *)
(* a transaction in a context, applies changes one by one, each logged     *)
(* under its label, and commits them all or none; a revert applies the     *)
(* inverse of logged operations, newest first, as changes of its own.      *)
(* Prunes and the retention delete operations and the labels they leave    *)
(* empty.  The store mutex (module RepoLocks) lets one transaction run at  *)
(* a time: its own steps are interleaved with nothing.                     *)
(*                                                                         *)
(* The root metarecord is written by the first operation and is not edited *)
(* further.  Value types and forests are left out, and so are trashings.   *)
(***************************************************************************)
EXTENDS Naturals, FiniteSets

CONSTANTS
    Records,       \* uuids of the metarecords, the root aside
    Root,          \* uuid of the repository's root metarecord
    Fields, Values,
    NoField,       \* field_name of an operation on a whole metarecord
    Commands,      \* keys of the clients' commands
    UserLimit,     \* Retention::user_ops, 0 for unlimited
    WatcherLimit,  \* Retention::watcher_ops, 0 for unlimited
    MaxOps,        \* bound on the operation ids
    MaxLabels      \* bound on the label ids

ASSUME RootAssumption == Root \notin Records

ASSUME NoFieldAssumption == NoField \notin Fields

ASSUME LimitsAssumption == UserLimit \in Nat /\ WatcherLimit \in Nat

ASSUME OpsAssumption == MaxOps \in Nat \ {0} /\ MaxLabels \in Nat \ {0}

VARIABLES
    db,     \* the committed store
    view,   \* the store as the open transaction sees it
    writer  \* the open Writer

vars == <<db, view, writer>>

Uuids == Records \cup {Root}

OpIds == 1..MaxOps

Labels == 1..MaxLabels

\* The fields of a metarecord: (name, value) rows, no duplicates.
Row == Fields \X Values

\* OpType; the three types the watcher writes for files are one.
OpTypes == {"create", "delete", "set_record", "append", "delete_field",
            "set_field", "file"}

\* An operation and its snapshots (OpRow): where it was written, what it did,
\* the operation it reverts (0 for none), and whether the watcher wrote it.
Op == [type : OpTypes, ent : Uuids, field : Fields \cup {NoField},
       before : SUBSET Row, after : SUBSET Row,
       label : Labels, reverts : 0..MaxOps, watcher : BOOLEAN]

Past == [recs : SUBSET Uuids, rows : SUBSET (Uuids \X Row),
         role : {"change", "undo", "redo"}]

\* A store: the metarecords and their rows, the log, its newest operation, the
\* labels with their ancestors (themselves included), the watcher's label (0
\* for none), the label of each command, and the two id sequences.  Two history
\* fields no step reads: past, what the metarecords were before each operation
\* and whether it is a change, the revert of a change or redo (an undo) or the
\* revert of an undo (a redo); and posted, the labels opened by POST /labels.
IsStore(d) ==
    /\ DOMAIN d = {"recs", "rows", "ops", "past", "head", "labels", "watcherLabel",
                   "commands", "posted", "nextOp", "nextLabel"}
    /\ d.recs \subseteq Uuids
    /\ d.rows \subseteq d.recs \X Row
    /\ d.nextOp \in 1..(MaxOps + 1)
    /\ d.nextLabel \in 1..(MaxLabels + 1)
    /\ DOMAIN d.ops \subseteq 1..(d.nextOp - 1)
    /\ d.ops \in [DOMAIN d.ops -> Op]
    /\ d.past \in [DOMAIN d.ops -> Past]
    /\ d.head \in OpIds
    /\ DOMAIN d.labels \subseteq 1..(d.nextLabel - 1)
    /\ d.labels \in [DOMAIN d.labels -> SUBSET Labels]
    /\ d.watcherLabel \in 0..MaxLabels
    /\ DOMAIN d.commands \subseteq Commands
    /\ d.commands \in [DOMAIN d.commands -> Labels]
    /\ d.posted \subseteq Labels

Writers == [mode : {"none", "write", "revert"}, label : 0..MaxLabels,
            opened : BOOLEAN, watcher : BOOLEAN, first : 0..MaxOps,
            target : SUBSET OpIds, todo : SUBSET OpIds]

NoWriter == [mode |-> "none", label |-> 0, opened |-> FALSE, watcher |-> FALSE,
             first |-> 0, target |-> {}, todo |-> {}]

-----------------------------------------------------------------------------
(* Reading the store *)

\* rows, rows_named
RowsOf(d, e) == {r \in Row : <<e, r>> \in d.rows}

CellOf(d, e, f) == {r \in RowsOf(d, e) : r[1] = f}

\* label_subtree
Subtree(d, l) == {m \in DOMAIN d.labels : l \in d.labels[m]}

\* Mutant: a label of the watcher's is a client's too.
AnyLabel(d, l) == l \in DOMAIN d.labels

\* check_client_label: the label exists, outside the watcher's.
ClientLabel(d, l) == l \in DOMAIN d.labels /\ d.watcherLabel \notin d.labels[l]

-----------------------------------------------------------------------------
(* Labels *)

\* put_label: a label inside parent, 0 for a root label.
WithLabel(d, parent) ==
    LET path == {d.nextLabel} \cup (IF parent = 0 THEN {} ELSE d.labels[parent])
    IN  [d EXCEPT !.labels = [l \in DOMAIN d.labels \cup {d.nextLabel} |->
                                 IF l = d.nextLabel THEN path ELSE d.labels[l]],
                  !.nextLabel = d.nextLabel + 1]

\* create_command_label
WithCommandLabel(d, k, parent) ==
    [WithLabel(d, parent) EXCEPT
        !.commands = [c \in DOMAIN d.commands \cup {k} |->
                         IF c = k THEN d.nextLabel ELSE d.commands[c]]]

\* drop_label, for every label of L: each goes with its command's key.
WithoutLabels(d, L) ==
    LET kept == {c \in DOMAIN d.commands : d.commands[c] \notin L}
    IN  [d EXCEPT !.labels = [l \in DOMAIN d.labels \ L |-> d.labels[l]],
                  !.commands = [c \in kept |-> d.commands[c]]]

\* The watcher's label, created when there is none.
WithWatcherLabel(d) ==
    IF d.watcherLabel # 0 /\ d.watcherLabel \in DOMAIN d.labels
    THEN d
    ELSE [WithLabel(d, 0) EXCEPT !.watcherLabel = d.nextLabel]

-----------------------------------------------------------------------------
(* Deleting operations *)

\* Mutant: a label goes when it lost its operations, whatever is inside it.
EmptiedAlone(d, kept, hit) ==
    {l \in hit : l # d.watcherLabel /\ \A i \in kept : d.ops[i].label # l}

\* drop_if_empty, from every label that lost an operation upwards: a label goes
\* when nothing is left in it nor in the labels inside it, the childless ones
\* among them having just lost their operations.  The watcher's stays.
Emptied(d, kept, hit) ==
    {l \in DOMAIN d.labels : \A m \in Subtree(d, l) :
        /\ m # d.watcherLabel
        /\ \A i \in kept : d.ops[i].label # m
        /\ Subtree(d, m) = {m} => m \in hit}

\* delete_ops
WithoutOps(d, D) ==
    LET kept == DOMAIN d.ops \ D
        hit  == {d.ops[i].label : i \in D}
    IN  [WithoutLabels(d, Emptied(d, kept, hit)) EXCEPT
            !.ops = [i \in kept |-> d.ops[i]],
            !.past = [i \in kept |-> d.past[i]]]

\* Retention::slack
Slack(limit) == IF limit \div 10 > 1 THEN limit \div 10 ELSE 1

LimitOf(w) == IF w THEN WatcherLimit ELSE UserLimit

\* class: the operations of one origin.
Class(d, w) == {i \in DOMAIN d.ops : d.ops[i].watcher = w}

\* Mutant: the write committing is trimmed like the rest.
DoomedAny(d, w, first) ==
    LET excess == Cardinality(Class(d, w)) - LimitOf(w)
    IN  IF LimitOf(w) = 0 \/ Cardinality(Class(d, w)) <= LimitOf(w) + Slack(LimitOf(w))
        THEN {}
        ELSE {i \in Class(d, w) : Cardinality({j \in Class(d, w) : j < i}) < excess}

\* What trim takes of a class: past the limit and its slack, the oldest down to
\* the limit, short of the write committing, which starts at first.
Doomed(d, w, first) ==
    LET excess == Cardinality(Class(d, w)) - LimitOf(w)
    IN  IF LimitOf(w) = 0 \/ Cardinality(Class(d, w)) <= LimitOf(w) + Slack(LimitOf(w))
        THEN {}
        ELSE {i \in Class(d, w) :
                i < first /\ Cardinality({j \in Class(d, w) : j < i}) < excess}

\* trim
Trimmed(d, first) == WithoutOps(d, Doomed(d, TRUE, first) \cup Doomed(d, FALSE, first))

-----------------------------------------------------------------------------
(* Changes *)

\* A repository just created: the root metarecord, under a first label.
Created ==
    [recs |-> {Root}, rows |-> {},
     ops |-> [i \in {1} |->
                [type |-> "create", ent |-> Root, field |-> NoField, before |-> {},
                 after |-> {}, label |-> 1, reverts |-> 0, watcher |-> FALSE]],
     past |-> [i \in {1} |-> [recs |-> {}, rows |-> {}, role |-> "change"]],
     head |-> 1, labels |-> [l \in {1} |-> {1}], watcherLabel |-> 0,
     commands |-> [k \in {} |-> 0], posted |-> {}, nextOp |-> 2, nextLabel |-> 2]

\* A change of type t to metarecord e: the rows before, taken away, and the
\* rows after, put in.
Change(t, e, f, b, a) ==
    [type |-> t, ent |-> e, field |-> f, before |-> b, after |-> a]

Role(d, r) ==
    CASE r = 0 -> "change"
      [] r # 0 /\ d.past[r].role = "undo" -> "redo"
      [] OTHER -> "undo"

\* Mutant: the id sequence is not advanced.
LoggedStill(d, w, c, r) ==
    LET op == [type |-> c.type, ent |-> c.ent, field |-> c.field, before |-> c.before,
               after |-> c.after, label |-> w.label, reverts |-> r, watcher |-> w.watcher]
        ids == DOMAIN d.ops \cup {d.nextOp}
        now == [recs |-> d.recs, rows |-> d.rows, role |-> Role(d, r)]
    IN  [d EXCEPT !.ops = [i \in ids |-> IF i = d.nextOp THEN op ELSE d.ops[i]],
                  !.past = [i \in ids |-> IF i = d.nextOp THEN now ELSE d.past[i]]]

\* log_op and append_ops, with the change itself: the operation goes under the
\* writer's label and names the operation r it reverts.
Logged(d, w, c, r) ==
    LET op == [type |-> c.type, ent |-> c.ent, field |-> c.field, before |-> c.before,
               after |-> c.after, label |-> w.label, reverts |-> r, watcher |-> w.watcher]
        ids == DOMAIN d.ops \cup {d.nextOp}
        now == [recs |-> d.recs, rows |-> d.rows, role |-> Role(d, r)]
    IN  [d EXCEPT
            !.recs = CASE c.type = "create" -> d.recs \cup {c.ent}
                       [] c.type = "delete" -> d.recs \ {c.ent}
                       [] OTHER -> d.recs,
            !.rows = (d.rows \ ({c.ent} \X c.before)) \cup ({c.ent} \X c.after),
            !.ops = [i \in ids |-> IF i = d.nextOp THEN op ELSE d.ops[i]],
            !.past = [i \in ids |-> IF i = d.nextOp THEN now ELSE d.past[i]],
            !.nextOp = d.nextOp + 1]

\* The writer goes on with change c.
Apply(c, r) ==
    /\ view.nextOp <= MaxOps
    /\ view' = Logged(view, writer, c, r)

Started == IF writer.first = 0 THEN view.nextOp ELSE writer.first

Write(c) ==
    /\ writer.mode = "write"
    /\ Apply(c, 0)
    /\ writer' = [writer EXCEPT !.first = Started]
    /\ UNCHANGED db

Init ==
    /\ db = Created
    /\ view = Created
    /\ writer = NoWriter

-----------------------------------------------------------------------------
(* A write transaction *)

\* begin_in: the store d as the context left it, and the label of the write.
BeginIn(d, l, opened, w) ==
    /\ view' = d
    /\ writer' = [NoWriter EXCEPT !.mode = "write", !.label = l,
                                  !.opened = opened, !.watcher = w]
    /\ UNCHANGED db

Closed == writer.mode = "none"

\* WriteContext::New, as of_request makes it: a root label.
BeginNew ==
    /\ Closed
    /\ db.nextLabel <= MaxLabels
    /\ BeginIn(WithLabel(db, 0), db.nextLabel, TRUE, FALSE)

\* WriteContext::In: the label the client names.
BeginInLabel(l) ==
    /\ Closed
    /\ ClientLabel(db, l)
    /\ BeginIn(db, l, FALSE, FALSE)

\* WriteContext::Command: its label, found by its key or opened inside parent.
BeginCommand(k, parent) ==
    /\ Closed
    /\ \/ /\ k \in DOMAIN db.commands
          /\ BeginIn(db, db.commands[k], FALSE, FALSE)
       \/ /\ k \notin DOMAIN db.commands
          /\ parent # 0 => ClientLabel(db, parent)
          /\ db.nextLabel <= MaxLabels
          /\ BeginIn(WithCommandLabel(db, k, parent), db.nextLabel, TRUE, FALSE)

\* WriteContext::Watcher: a label of its own inside the watcher's.
BeginWatcher ==
    LET d == WithWatcherLabel(db)
    IN  /\ Closed
        /\ d.nextLabel <= MaxLabels
        /\ BeginIn(WithLabel(d, d.watcherLabel), d.nextLabel, TRUE, TRUE)

\* create_metarecord, create_metarecord_with_uuid
CreateRecord(e, R) ==
    /\ e \notin view.recs
    /\ Write(Change("create", e, NoField, {}, R))

\* delete_metarecord: the root never is.
DeleteRecord(e) ==
    /\ e \in view.recs \ {Root}
    /\ Write(Change("delete", e, NoField, RowsOf(view, e), {}))

\* set_record
SetRecord(e, R) ==
    /\ e \in view.recs
    /\ Write(Change("set_record", e, NoField, RowsOf(view, e), R))

\* set_field_as and set_field_multi_as; the watcher, a reconcile and a scan for
\* duplicates write under a file type.
SetField(t, e, f, V) ==
    /\ e \in view.recs
    /\ Write(Change(t, e, f, CellOf(view, e, f), {f} \X V))

\* clear_field_as: a field without rows is left alone.
ClearField(e, f) ==
    /\ CellOf(view, e, f) # {}
    /\ Write(Change("file", e, f, CellOf(view, e, f), {}))

\* append_field: a value already there is not written again.
AppendField(e, f, v) ==
    /\ e \in view.recs
    /\ <<f, v>> \notin CellOf(view, e, f)
    /\ Write(Change("append", e, f, {}, {<<f, v>>}))

\* delete_field_rows: one row (by id or by value), or the whole field.
DeleteFieldRows(e, f, R) ==
    /\ R # {}
    /\ R = CellOf(view, e, f) \/ \E r \in CellOf(view, e, f) : R = {r}
    /\ Write(Change("delete_field", e, f, R, {}))

\* Mutant: a row replaced logs its new value only.
ReplaceFieldOnce(e, old, new) ==
    LET d == [view EXCEPT !.rows = @ \ {<<e, old>>}]
    IN  /\ writer.mode = "write"
        /\ old \in RowsOf(view, e)
        /\ new \notin RowsOf(view, e) \ {old}
        /\ view.nextOp < MaxOps
        /\ view' = Logged(d, writer, Change("append", e, new[1], {}, {new}), 0)
        /\ writer' = [writer EXCEPT !.first = Started]
        /\ UNCHANGED db

\* replace_owned_row: the old row deleted and the new one appended, two
\* operations; a twin of the new row is refused.
ReplaceField(e, old, new) ==
    LET d == Logged(view, writer, Change("delete_field", e, old[1], {old}, {}), 0)
    IN  /\ writer.mode = "write"
        /\ old \in RowsOf(view, e)
        /\ new \notin RowsOf(view, e) \ {old}
        /\ view.nextOp < MaxOps
        /\ view' = Logged(d, writer, Change("append", e, new[1], {}, {new}), 0)
        /\ writer' = [writer EXCEPT !.first = Started]
        /\ UNCHANGED db

-----------------------------------------------------------------------------
(* A revert *)

\* What resolve_revert_target and the route leave of the operations asked for:
\* reverting a file operation needs the client, so a plain revert refuses one
\* and skip_filesystem leaves them out; a coordinated commit takes them.
Effective(S, how) ==
    IF how = "skip" THEN {i \in S : db.ops[i].type # "file"} ELSE S

BeginRevert(S, how) ==
    /\ writer.mode = "write"
    /\ writer.first = 0
    /\ ~writer.watcher
    /\ how = "plain" => \A i \in S : db.ops[i].type # "file"
    /\ Effective(S, how) # {}
    /\ writer' = [writer EXCEPT !.mode = "revert", !.target = Effective(S, how),
                                  !.todo = Effective(S, how)]
    /\ UNCHANGED <<db, view>>

\* The changes that take back operation o in store d, one arm per type; none
\* when there is nothing left to take back.
Inverses(d, o) ==
    LET cell == CellOf(d, o.ent, o.field)
        rows == RowsOf(d, o.ent)
    IN  CASE o.type = "create" /\ o.ent \in d.recs ->
               {Change("delete", o.ent, NoField, rows, {})}
          [] o.type = "delete" ->
               {Change("create", o.ent, NoField, {}, o.before)}
          [] o.type = "set_record" ->
               {Change("set_record", o.ent, NoField, rows, o.before)}
          [] o.type = "append" /\ o.after \subseteq cell ->
               {Change("delete_field", o.ent, o.field, o.after, {})}
          [] o.type = "delete_field" ->
               {Change("append", o.ent, o.field, {}, {r}) : r \in o.before \ cell}
          [] o.type \in {"set_field", "file"} /\ (o.before # {} \/ cell # {}) ->
               {Change(o.type, o.ent, o.field, cell, o.before)}
          [] OTHER -> {}

\* What abandons the whole revert: a metarecord deleted that exists again, the
\* root, or a field written on a metarecord that is gone.
Refused(d, o) ==
    CASE o.type = "create" -> o.ent = Root
      [] o.type = "delete" -> o.ent \in d.recs
      [] OTHER -> Inverses(d, o) # {} /\ o.ent \notin d.recs

\* Mutant: the operations are taken back oldest first.
RevertOldest(i) ==
    LET o == db.ops[i]
    IN  /\ writer.mode = "revert"
        /\ i \in writer.todo
        /\ \A j \in writer.todo : i <= j
        /\ ~Refused(view, o)
        /\ \/ /\ Inverses(view, o) = {}
              /\ writer' = [writer EXCEPT !.todo = @ \ {i}]
              /\ UNCHANGED <<db, view>>
           \/ /\ \E c \in Inverses(view, o) : Apply(c, i)
              /\ writer' = [writer EXCEPT
                    !.first = Started,
                    !.todo = IF o.type = "delete_field" THEN @ ELSE @ \ {i}]
              /\ UNCHANGED db

\* One turn of revert::apply, on the newest operation left.  The rows of a
\* deleted field come back one by one.
RevertNewest(i) ==
    LET o == db.ops[i]
    IN  /\ writer.mode = "revert"
        /\ i \in writer.todo
        /\ \A j \in writer.todo : j <= i
        /\ ~Refused(view, o)
        /\ \/ /\ Inverses(view, o) = {}
              /\ writer' = [writer EXCEPT !.todo = @ \ {i}]
              /\ UNCHANGED <<db, view>>
           \/ /\ \E c \in Inverses(view, o) : Apply(c, i)
              /\ writer' = [writer EXCEPT
                    !.first = Started,
                    !.todo = IF o.type = "delete_field" THEN @ ELSE @ \ {i}]
              /\ UNCHANGED db

-----------------------------------------------------------------------------
(* The end of a transaction *)

Done == writer.mode = "write" \/ (writer.mode = "revert" /\ writer.todo = {})

\* Mutant: a write that wrote nothing leaves the label it opened.
FinalLabelKept ==
    IF writer.first = 0
    THEN view
    ELSE Trimmed([view EXCEPT !.head = view.nextOp - 1], writer.first)

\* commit: HEAD and the retention when something was written, else the label
\* that was opened for it is dropped.
Final ==
    IF writer.first = 0
    THEN WithoutLabels(view, IF writer.opened THEN {writer.label} ELSE {})
    ELSE Trimmed([view EXCEPT !.head = view.nextOp - 1], writer.first)

Commit ==
    /\ Done
    /\ db' = Final
    /\ view' = Final
    /\ writer' = NoWriter

\* An error anywhere, or a crash: the transaction is dropped.
Abort ==
    /\ ~Closed
    /\ view' = db
    /\ writer' = NoWriter
    /\ UNCHANGED db

-----------------------------------------------------------------------------
(* Other writes of the log *)

\* Mutant: the target goes as well.
PruneThrough(target) ==
    /\ Closed
    /\ target \in DOMAIN db.ops
    /\ db' = WithoutOps(db, {i \in DOMAIN db.ops : i <= target})
    /\ view' = db'
    /\ UNCHANGED writer

\* prune: what is older than the target goes.
Prune(target) ==
    /\ Closed
    /\ target \in DOMAIN db.ops
    /\ db' = WithoutOps(db, {i \in DOMAIN db.ops : i < target})
    /\ view' = db'
    /\ UNCHANGED writer

\* POST /labels
CreateLabel(parent) ==
    /\ Closed
    /\ parent # 0 => ClientLabel(db, parent)
    /\ db.nextLabel <= MaxLabels
    /\ db' = [WithLabel(db, parent) EXCEPT !.posted = @ \cup {db.nextLabel}]
    /\ view' = db'
    /\ UNCHANGED writer

Begin ==
    \/ BeginNew
    \/ \E l \in Labels : BeginInLabel(l)
    \/ \E k \in Commands, l \in 0..MaxLabels : BeginCommand(k, l)
    \/ BeginWatcher
    \/ \E S \in SUBSET DOMAIN db.ops, how \in {"plain", "skip", "coordinated"} :
          BeginRevert(S, how)

Edit ==
    \/ \E e \in Records, R \in SUBSET Row : CreateRecord(e, R) \/ SetRecord(e, R)
    \/ \E e \in Records : DeleteRecord(e)
    \/ \E e \in Records, f \in Fields :
          \/ ClearField(e, f)
          \/ \E V \in SUBSET Values : SetField("set_field", e, f, V)
          \/ \E v \in Values : SetField("file", e, f, {v}) \/ AppendField(e, f, v)
          \/ \E R \in SUBSET Row : DeleteFieldRows(e, f, R)
    \/ \E e \in Records, old \in Row, new \in Row : ReplaceField(e, old, new)

Next ==
    \/ Begin
    \/ Edit
    \/ \E i \in OpIds : RevertNewest(i)
    \/ Commit
    \/ Abort
    \/ \E i \in OpIds : Prune(i)
    \/ \E l \in 0..MaxLabels : CreateLabel(l)

Spec == Init /\ [][Next]_vars

-----------------------------------------------------------------------------
(* Properties *)

\* The store, the transaction's view of it and the writer are well formed.
TypeOK == IsStore(db) /\ IsStore(view) /\ writer \in Writers

\* HEAD names the newest operation, which neither a prune nor a trim deletes
\* (resolve_revert_target answers "HEAD names no operation" otherwise).
HeadInLog ==
    /\ db.head \in DOMAIN db.ops
    /\ db.head = db.nextOp - 1

\* No operation, command or label is left naming a label that drop_if_empty or
\* an empty commit dropped, and the watcher's label is never dropped.
LabelsLiveIn(d) ==
    /\ \A i \in DOMAIN d.ops : d.ops[i].label \in DOMAIN d.labels
    /\ \A k \in DOMAIN d.commands : d.commands[k] \in DOMAIN d.labels
    /\ \A l \in DOMAIN d.labels : l \in d.labels[l] /\ d.labels[l] \subseteq DOMAIN d.labels
    /\ d.watcherLabel # 0 => d.watcherLabel \in DOMAIN d.labels

LabelsLive == LabelsLiveIn(db)

\* "A client cannot pass its writes off as the daemon's" (begin_in): what lies
\* under the watcher's label is what the watcher wrote, however labels were
\* opened, found by a command's key, dropped and recreated.
OriginsApartIn(d) ==
    \A i \in DOMAIN d.ops :
        d.ops[i].watcher <=> d.watcherLabel \in d.labels[d.ops[i].label]

OriginsApart == OriginsApartIn(db)

\* No label leaks: one that holds no operation is the watcher's or its client
\* opened it by hand, or such a label is inside it.
NoIdleLabel ==
    \A l \in DOMAIN db.labels :
        \/ \E i \in DOMAIN db.ops : l \in db.labels[db.ops[i].label]
        \/ \E m \in Subtree(db, l) : m = db.watcherLabel \/ m \in db.posted

Covers(o, e, f) == o.ent = e /\ o.field \in {NoField, f}

\* A revert brings every field it reaches back to what it held before the
\* oldest operation reverted on it, when everything written to the field since
\* is reverted too: whatever the types of the operations in between, the
\* metarecord deleted and recreated among them (revert::apply).
Restored(e, f) ==
    \A i \in writer.target :
        (/\ Covers(db.ops[i], e, f)
         /\ \A j \in writer.target : Covers(db.ops[j], e, f) => i <= j
         /\ \A j \in i..db.head :
                j \in DOMAIN db.ops /\ (Covers(db.ops[j], e, f) => j \in writer.target))
        => /\ CellOf(db', e, f) = CellOf(db.past[i], e, f)
           /\ e \in db'.recs <=> e \in db.past[i].recs

RevertRestores ==
    [][Commit /\ writer.mode = "revert" =>
          \A e \in Uuids, f \in Fields : Restored(e, f)]_vars

\* changed_since: whether the store still holds what operation o left there.
Unchanged(d, o) ==
    LET cell == CellOf(d, o.ent, o.field)
    IN  CASE o.type \in {"create", "set_record"} ->
               o.ent \in d.recs /\ RowsOf(d, o.ent) = o.after
          [] o.type = "delete" -> o.ent \notin d.recs
          [] o.type = "append" -> o.after \subseteq cell
          [] o.type = "delete_field" -> o.before \cap cell = {}
          [] OTHER -> cell = o.after

\* Cell::intersects
Intersects(o, p) ==
    o.ent = p.ent /\ (o.field = p.field \/ NoField \in {o.field, p.field})

\* A revert's plan never answers Unlogged as long as the retention is off: a
\* cell that does not hold what an operation left there was changed by a later
\* operation still in the log, prunes included.
LogExplainsStore ==
    \A i \in DOMAIN db.ops :
        \/ Unchanged(db, db.ops[i])
        \/ \E j \in DOMAIN db.ops : j > i /\ Intersects(db.ops[i], db.ops[j])

\* The retention keeps the write that committed whole, and keeps each origin to
\* its limit and slack unless that write alone exceeds them (trim).
RetentionKeeps ==
    [][Commit /\ writer.first # 0 =>
          /\ writer.first..db'.head \subseteq DOMAIN db'.ops
          /\ \A w \in BOOLEAN :
                LimitOf(w) # 0 =>
                    \/ Cardinality(Class(db', w)) <= LimitOf(w) + Slack(LimitOf(w))
                    \/ Class(db', w) \subseteq writer.first..db'.head]_vars

=============================================================================
