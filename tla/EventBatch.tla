----------------------------- MODULE EventBatch -----------------------------
(***************************************************************************)
(* What a flush makes of a batch of file system events (executor.rs): the  *)
(* halves of a rename are fused, the batch is compacted, split into writes *)
(* of one kind, and each event is applied to the store by looking at the   *)
(* disk AS IT IS at that moment, not as it was when the event happened.    *)
(* The disk goes on changing meanwhile, between any two events, and a      *)
(* stopped flush hands its whole batch back although its first writes are  *)
(* committed.  One event (with the scan or the cascade it hides) is one    *)
(* step, and so is the last sweep under what the batch moved.              *)
(*                                                                         *)
(* The disk and the store are trees of the same shape: a node sits at a    *)
(* position <<directory, name>>, so moving a directory moves what is below.*)
(* Trees are two levels deep: directories at the top, files anywhere.      *)
(***************************************************************************)
EXTENDS Naturals, FiniteSets, SequencesExt

CONSTANTS FileNames,    \* names of files, anywhere
          DirNames,     \* names of directories, at the top
          Trees,        \* the trees to start from: functions 1..n -> position
          MaxNodes,     \* bound: files that ever exist
          MaxRecs,      \* bound: records ever created
          MaxOps,       \* bound: changes of the disk
          MaxLate,      \* bound: of those, changes while a batch is applied
          MaxStops,     \* bound: flushes stopped
          OrphanLimit   \* RepoState::orphan_cascade_limit, 0 for none

VARIABLES disk,     \* the files: position, kind and stat of each
          db,       \* the records: position and recorded stat of each
          pending,  \* RepoState::pending
          batch,    \* the flush in progress, or NoBatch
          fresh,    \* directories whose watch is not placed yet
          moving,   \* directories whose watch still answers to the old path
          regime,   \* how moves are told: whole ("coverage"), by halves, or both ("triple")
          half,     \* files a move of which was not reported whole
          known,    \* the files tracked from the start
          plain,    \* ghost: every batch taken was Plain
          again,    \* ghost: every batch handed back was Replayable
          crossed,  \* ghost: files that left a directory the batch being applied
                    \* sweeps, or entered one it may scan
          missed,   \* ghost: tracked names vacated with no event to come for them
          ops, lates, stops, failed

env == <<half, regime, known, plain, again, crossed, missed>>
counts == <<ops, lates, stops, failed>>
vars == <<disk, db, pending, batch, fresh, moving, env, counts>>

-----------------------------------------------------------------------------
(* Trees. *)

Nodes == 1..MaxNodes
Recs == 1..MaxRecs
Root == 0
Gone == <<>>
Names == FileNames \cup DirNames
DirPaths == {<<d>> : d \in DirNames}
FilePaths == {<<n>> : n \in FileNames} \cup (DirNames \X FileNames)
Paths == FilePaths \cup DirPaths
Positions(N) == ({Root} \cup N) \X Names

At(at, pos) == {x \in DOMAIN at : at[x] = pos}
Below(at, x) == {y \in DOMAIN at : at[y] # Gone /\ at[y][1] = x}

\* The node at a path: a set of at most one.
NodesAt(at, p) ==
  IF Len(p) = 1 THEN At(at, <<Root, p[1]>>)
                ELSE UNION {At(at, <<d, p[2]>>) : d \in At(at, <<Root, p[1]>>)}

TheNode(at, p) == CHOOSE x \in NodesAt(at, p) : TRUE

PathsOf(at) == {p \in Paths : NodesAt(at, p) # {}}
Related(p, q) == IsPrefix(p, q) \/ IsPrefix(q, p)

-----------------------------------------------------------------------------
(* Step 1 and 2 of a flush: correlate, compact. *)

None == [op |-> "none"]
Create(p) == [op |-> "create", p |-> p]
Removed(p) == [op |-> "remove", p |-> p]
ModifyData(p) == [op |-> "modify", p |-> p]
RenameFrom(p, c) == [op |-> "from", p |-> p, cookie |-> c]
RenameTo(p, c) == [op |-> "to", p |-> p, cookie |-> c]
Rename(a, b) == [op |-> "rename", p |-> a, q |-> b]

EventPaths(e) == IF e.op = "rename" THEN {e.p, e.q} ELSE {e.p}

Live(out) == SelectSeq(out, LAMBDA e : e # None)
LastIdx(out, T(_)) == IF \E i \in DOMAIN out : T(out[i])
                      THEN CHOOSE i \in DOMAIN out :
                             T(out[i]) /\ \A j \in DOMAIN out : T(out[j]) => j <= i
                      ELSE 0
Void(out, i) == IF i = 0 THEN out ELSE [out EXCEPT ![i] = None]

\* Mutant: the halves of a rename stay apart.
Correlate1Apart(out, e) == Append(out, e)

\* correlate_renames: a RenameTo takes the last departure of its cookie.
Correlate1(out, e) ==
  LET j == LastIdx(out, LAMBDA f : f.op = "from" /\ f.cookie = e.cookie)
  IN IF e.op = "to" /\ e.cookie # 0 /\ j # 0
     THEN Append(Void(out, j), Rename(out[j].p, e.p))
     ELSE Append(out, e)

CorrelateRenames(events) == Live(FoldLeft(Correlate1, <<>>, events))

\* compact, the arm of a whole rename.
CompactRename(out, a, b) ==
  LET o1 == Void(out, LastIdx(out, LAMBDA f : f.op = "from" /\ f.p = a))
      o2 == Void(o1, LastIdx(o1, LAMBDA f : f.op = "to" /\ f.p = b))
      c  == LastIdx(o2, LAMBDA f : f = Create(a))
      i  == LastIdx(o2, LAMBDA f : f.op = "rename" /\ f.q = a)
      j  == LastIdx(o2, LAMBDA f : f.op = "rename" /\ f.p = b)
  IN IF c # 0 THEN [o2 EXCEPT ![c] = Create(b)]
     ELSE IF i # 0 /\ j <= i THEN [o2 EXCEPT ![i].q = b]
     ELSE Append(o2, Rename(a, b))

Compact1(out, e) ==
  CASE e.op = "remove" ->
         LET i == LastIdx(out, LAMBDA f : f = Create(e.p))
         IN IF i # 0 THEN Void(out, i) ELSE Append(out, e)
    [] e.op = "rename" -> CompactRename(out, e.p, e.q)
    [] e.op = "modify" ->
         IF \E i \in DOMAIN out : out[i] \in {Create(e.p), e}
         THEN out ELSE Append(out, e)
    [] OTHER -> Append(out, e)

Compact(events) == Live(FoldLeft(Compact1, <<>>, events))

-----------------------------------------------------------------------------
(* Step 3: split by kind. *)

GroupKind(e) ==
  CASE e.op = "create" -> "create"
    [] e.op \in {"remove", "from"} -> "delete"
    [] e.op = "rename" -> "move"
    [] e.op = "modify" -> "modify"
    [] e.op = "to" -> "arrival"

SharesAPath(write, e) ==
  \E f \in Range(write.events) :
    \E p \in EventPaths(e), q \in EventPaths(f) : Related(p, q)

\* Mutant: an event joins the last write of its kind, whatever comes between.
Group1Across(writes, e) ==
  LET fits == {i \in DOMAIN writes :
                 /\ writes[i].kind = GroupKind(e)
                 /\ \A j \in i + 1 .. Len(writes) : writes[j].kind # GroupKind(e)}
  IN IF fits = {} THEN Append(writes, [kind |-> GroupKind(e), events |-> <<e>>])
     ELSE [writes EXCEPT ![CHOOSE i \in fits : TRUE].events = Append(@, e)]

\* An event joins the latest write of its kind it may move in front of.
Group1(writes, e) ==
  LET fits == {i \in DOMAIN writes :
                 /\ writes[i].kind = GroupKind(e)
                 /\ \A j \in i + 1 .. Len(writes) :
                      writes[j].kind # GroupKind(e) /\ ~SharesAPath(writes[j], e)}
  IN IF fits = {} THEN Append(writes, [kind |-> GroupKind(e), events |-> <<e>>])
     ELSE [writes EXCEPT ![CHOOSE i \in fits : TRUE].events = Append(@, e)]

Group(events) == FoldLeft(Group1, <<>>, events)

\* A batch as the flush prepares it from the events it took.
Prepared(taken) ==
  LET events == Compact(CorrelateRenames(taken))
      whole == SelectSeq(events, LAMBDA e : e.op = "rename")
  IN [taken |-> taken,
      groups |-> Group(events), work |-> <<>>,
      departed |-> {e.p : e \in {f \in Range(events) : f.op = "from"}},
      moved |-> UNION {{e.p, e.q} : e \in Range(whole)},
      arriving |-> {e.q : e \in Range(whole)}]

NoBatch == [taken |-> <<>>]

(* Batches the flush is meant to get right (TracksDisk, KeepsIdentity).  Not *)
(* those where a rename takes along what an earlier event of the batch put   *)
(* at its source while a third event, or the store, knows one of the names:  *)
(* compaction folds the two events into one and forgets the third.  Nor      *)
(* those that move a directory after an event inside it: that event is       *)
(* applied under the old name, where nothing is any more.                    *)

Lands(e) == IF e.op = "rename" THEN {e.q} ELSE IF e.op = "create" THEN {e.p} ELSE {}

\* Event j is folded into event i.
Folds(es, i, j) ==
  /\ i < j
  /\ es[j].p \in Lands(es[i])
  /\ \/ es[j].op = "remove" /\ es[i].op = "create"
     \/ /\ es[j].op = "rename"
        /\ es[i].op = "rename" =>
             ~\E l \in i + 1 .. j - 1 : es[l].op = "rename" /\ es[l].p = es[j].q

Entangled(es, i, j) ==
  \/ NodesAt(db.at, es[j].p) # {}
  \/ \E q \in Lands(es[j]) : es[i].op = "create" /\ NodesAt(db.at, q) # {}
  \/ \E l \in 1 .. j - 1 : l # i /\
        \E p \in EventPaths(es[l]), q \in EventPaths(es[i]) \cup EventPaths(es[j]) : Related(p, q)

\* A directory is moved after an event inside it, or a half move is moved on.
Overtaken(es) ==
  \E i, j \in DOMAIN es :
    /\ i < j /\ es[j].op = "rename"
    /\ \/ \E p \in EventPaths(es[i]) : IsStrictPrefix(es[j].p, p)
       \/ es[i].op \in {"from", "to"} /\ es[i].p = es[j].p

Plain(es) ==
  /\ \A i, j \in DOMAIN es : Folds(es, i, j) => ~Entangled(es, i, j)
  /\ ~Overtaken(es)

Fills(e) ==
  CASE e.op = "rename" -> {e.q}
    [] e.op \in {"remove", "from"} -> {}
    [] OTHER -> {e.p}

(* Batches that may be applied twice: no name a rename leaves is taken again *)
(* later in the batch, or the second time it is the newcomer that is moved.  *)
Replayable(es) ==
  \A i, j \in DOMAIN es :
    i < j /\ es[i].op = "rename" => \A p \in Fills(es[j]) : ~Related(es[i].p, p)

-----------------------------------------------------------------------------
(* The disk, as the application of an event reads it. *)

OnDisk(p) == NodesAt(disk.at, p) # {}
IsDir(p) == \E f \in NodesAt(disk.at, p) : disk.kind[f] = "dir"
StatOf(p) == LET f == TheNode(disk.at, p) IN <<disk.kind[f], disk.stamp[f]>>
NoStamp == 0

(* The application of an event: a write under way is the record s, the store *)
(* with `index` (Apply::departed_index), `bad` (the store refused), `kept` (a *)
(* path left stale by the circuit breaker) and two ghosts: `of`, the file    *)
(* each record was made for, and `twice`, the files a scan made a record for  *)
(* although one made for them was tracked.                                   *)

NewRecord(s, p, pos, stat) ==
  [s EXCEPT !.at[s.next] = pos, !.stat[s.next] = stat, !.next = @ + 1,
            !.of[s.next] = NodesAt(disk.at, p)]

EnsureParents(s, p) ==
  IF Len(p) = 1 \/ NodesAt(s.at, <<p[1]>>) # {} THEN s
  ELSE NewRecord(s, <<p[1]>>, <<Root, p[1]>>,
                 IF OnDisk(<<p[1]>>) THEN StatOf(<<p[1]>>) ELSE <<"dir", NoStamp>>)

PositionOf(s, p) ==
  IF Len(p) = 1 THEN <<Root, p[1]>> ELSE <<TheNode(s.at, <<p[1]>>), p[2]>>

CreateRecord(s, p) ==
  IF ~OnDisk(p) THEN s
  ELSE LET t == EnsureParents(s, p) IN NewRecord(t, p, PositionOf(t, p), StatOf(p))

RefreshData(s, r, p) ==
  IF OnDisk(p) THEN [s EXCEPT !.stat[r][2] = StatOf(p)[2]] ELSE s

OrphanSubtree(s, r) ==
  LET tree == {r} \cup Below(s.at, r)
  IN IF OrphanLimit > 0 /\ Cardinality(tree) > OrphanLimit
     THEN [s EXCEPT !.kept = TRUE]
     ELSE [s EXCEPT !.at = [x \in Recs |-> IF x \in tree THEN Gone ELSE @[x]]]

\* The cascade under a directory removed and made again.
OrphanWhatIsGoneUnder(s, r, p) ==
  LET gone == {c \in Below(s.at, r) : ~OnDisk(Append(p, s.at[c][2]))}
  IN [s EXCEPT !.at = [x \in Recs |-> IF x \in gone THEN Gone ELSE @[x]]]

ApplyRemove(s, p) ==
  IF NodesAt(s.at, p) = {} THEN s
  ELSE LET r == TheNode(s.at, p)
       IN IF ~OnDisk(p) THEN OrphanSubtree(s, r)
          ELSE IF IsDir(p) THEN OrphanWhatIsGoneUnder(s, r, p) ELSE s

\* The tree constraint of the store: one record per position, no cycle.
SetPath(s, r, pos) ==
  IF pos[1] = r \/ At(s.at, pos) \ {r} # {} THEN [s EXCEPT !.bad = TRUE]
  ELSE [s EXCEPT !.at[r] = pos]

\* Mutant: what is tracked at the destination is left there.
MoveRecordOver(s, src, to) ==
  LET u == EnsureParents(s, to) IN SetPath(u, src, PositionOf(u, to))

\* apply_rename of a tracked source.
MoveRecord(s, src, to) ==
  LET occupant == NodesAt(s.at, to) \ {src}
      t == IF occupant = {} THEN s ELSE OrphanSubtree(s, TheNode(s.at, to))
      u == EnsureParents(t, to)
  IN SetPath(u, src, PositionOf(u, to))

\* The direct entries of a moved directory that are tracked and not on disk.
VanishedEntries(s, d) ==
  IF ~IsDir(d) THEN {}
  ELSE {q \in {Append(d, n) : n \in FileNames} : NodesAt(s.at, q) # {} /\ ~OnDisk(q)}

IndexDepartures(s) ==
  IF s.index # <<>> THEN s
  ELSE LET left == {q \in batch.departed : ~OnDisk(q) /\ NodesAt(s.at, q) # {}}
                     \cup UNION {VanishedEntries(s, d) : d \in batch.moved}
       IN [s EXCEPT !.index = <<{<<q, s.stat[TheNode(s.at, q)]>> : q \in left}>>]

\* pick_departure: the one of the same name, else the only one.
PickDeparture(p, open) ==
  LET named == {q \in open : Last(q) = Last(p)}
  IN IF Cardinality(named) = 1 THEN named
     ELSE IF named = {} /\ Cardinality(open) = 1 THEN open ELSE {}

\* find_departed_match, on a write whose departures are indexed.
DepartedMatch(s, p) ==
  IF ~OnDisk(p) THEN {}
  ELSE PickDeparture(p, {q \in {d[1] : d \in {e \in s.index[1] : e[2] = StatOf(p)}} :
                           NodesAt(s.at, q) # {}})

IngestArrival(s, p) ==
  IF NodesAt(s.at, p) # {} THEN RefreshData(s, TheNode(s.at, p), p)
  ELSE LET t == IndexDepartures(s)
           match == DepartedMatch(t, p)
       IN IF match = {} THEN CreateRecord(t, p)
          ELSE MoveRecord(t, TheNode(t.at, CHOOSE q \in match : TRUE), p)

\* An entry of a scanned directory, and the ghost: a record was made for a file
\* although one made for it is tracked.
Tracked(s, f) == \E r \in Recs : f \in s.of[r] /\ s.at[r] # Gone
ScanEntry(s, p) ==
  LET t == IngestArrival(s, p)
  IN IF t.next = s.next THEN t
     ELSE [t EXCEPT !.twice = @ \cup {f \in NodesAt(disk.at, p) : Tracked(s, f)}]

\* Mutant: a scan takes in the files a rename of the batch brings.
ScanDirAll(s, p, order) ==
  FoldLeft(LAMBDA t, n : IF OnDisk(Append(p, n)) THEN ScanEntry(t, Append(p, n)) ELSE t,
           s, order)

\* scan_dir: the entries in the order the directory lists them.
ScanDir(s, p, order) ==
  FoldLeft(LAMBDA t, n :
             LET child == Append(p, n)
             IN IF ~OnDisk(child) \/ child \in batch.arriving THEN t
                ELSE ScanEntry(t, child),
           s, order)

ScanIfDir(s, p, order) == IF IsDir(p) THEN ScanDir(s, p, order) ELSE s

ApplyArrival(s, p, order) == ScanIfDir(IngestArrival(s, p), p, order)

ApplyCreate(s, p, order) ==
  ScanIfDir(IF NodesAt(s.at, p) # {} THEN RefreshData(s, TheNode(s.at, p), p)
                                     ELSE CreateRecord(s, p),
            p, order)

ApplyRename(s, a, b, order) ==
  IF NodesAt(s.at, a) = {} THEN ApplyArrival(s, b, order)
  ELSE MoveRecord(s, TheNode(s.at, a), b)

ApplyModifyData(s, p, order) ==
  IF NodesAt(s.at, p) # {} THEN RefreshData(s, TheNode(s.at, p), p)
  ELSE ApplyCreate(s, p, order)

Apply(s, e, order) ==
  CASE e.op = "create" -> ApplyCreate(s, e.p, order)
    [] e.op \in {"remove", "from"} -> ApplyRemove(s, e.p)
    [] e.op = "rename" -> ApplyRename(s, e.p, e.q, order)
    [] e.op = "to" -> ApplyArrival(s, e.p, order)
    [] e.op = "modify" -> ApplyModifyData(s, e.p, order)

\* The write under way: what is committed, or what its first events made of it.
Work == IF batch.work = <<>> THEN db ELSE Head(batch.work)

\* remove_vanished_from_moved: a last write, when the batch moved something.
Vanished(s) == UNION {VanishedEntries(s, d) : d \in batch.moved}
SweepMoved(s) == FoldLeft(ApplyRemove, s, SetToSeq(Vanished(s)))

-----------------------------------------------------------------------------
(* The flush. *)

Orders == SetToSeqs(FileNames)

\* The quiet period has passed: what was reported has been ingested, and the
\* watches it calls for are placed.
TakeBatch ==
  /\ batch = NoBatch /\ pending # <<>>
  /\ fresh = {} /\ moving = {}
  /\ batch' = Prepared(pending)
  /\ plain' = (plain /\ Plain(CorrelateRenames(pending)))
  /\ pending' = <<>>
  /\ UNCHANGED <<disk, db, fresh, moving, half, regime, known, again, crossed, missed, counts>>

\* Mutant: what was reported meanwhile goes before the batch.
ReturnPendingLast ==
  /\ pending' = pending \o batch.taken
  /\ batch' = NoBatch

\* Mutant: only the events not applied yet go back.
ReturnPendingRest ==
  /\ pending' = FlattenSeq([i \in DOMAIN batch.groups |-> batch.groups[i].events]) \o pending
  /\ batch' = NoBatch

\* return_pending: the whole batch, before what was reported meanwhile.
ReturnPending ==
  /\ pending' = batch.taken \o pending
  /\ batch' = NoBatch

CommitGroup(s) ==
  /\ db' = [s EXCEPT !.index = <<>>]
  /\ batch' = [batch EXCEPT !.groups = Tail(@), !.work = <<>>]
  /\ UNCHANGED <<pending, failed>>

\* The write of a group goes on: nothing of it is committed yet.
ContinueGroup(s) ==
  /\ batch' = [batch EXCEPT !.groups[1].events = Tail(@), !.work = <<s>>]
  /\ UNCHANGED <<db, pending, failed>>

\* The store's refusal is an error: the write is rolled back.
FailGroup(s) ==
  /\ ReturnPending
  /\ failed' = TRUE
  /\ db' = [db EXCEPT !.kept = s.kept]

\* The next event of a write, which commits with its last one.
ApplyEvent(order) ==
  /\ batch # NoBatch /\ batch.groups # <<>>
  /\ LET events == Head(batch.groups).events
         s == Apply(Work, Head(events), order)
     IN IF s.bad THEN FailGroup(s)
        ELSE IF Len(events) = 1 THEN CommitGroup(s) ELSE ContinueGroup(s)
  /\ UNCHANGED <<disk, fresh, moving, env, ops, lates, stops>>

\* What was reported meanwhile may have overtaken the batch.
FinishFlush ==
  /\ batch # NoBatch /\ batch.groups = <<>>
  /\ db' = SweepMoved(db)
  /\ batch' = NoBatch
  /\ plain' = (plain /\ ~Overtaken(CorrelateRenames(batch.taken \o pending)))
  /\ UNCHANGED <<disk, pending, fresh, moving, half, regime, known, again, crossed, missed, counts>>

\* A pause, read before each event and before each removal of the sweep: the
\* write under way is rolled back, the whole batch goes back.
StopFlush ==
  /\ batch # NoBatch
  /\ batch.groups # <<>> \/ Vanished(db) # {}
  /\ stops < MaxStops
  /\ ReturnPending
  /\ stops' = stops + 1
  /\ again' = (again /\ Replayable(CorrelateRenames(batch.taken)))
  /\ UNCHANGED <<disk, db, fresh, moving, half, regime, known, plain, crossed, missed, ops, lates, failed>>

-----------------------------------------------------------------------------
(* The disk changes, and the source reports it.  External: the kernel, and *)
(* the notify library.                                                     *)

Dirs == {f \in Nodes : disk.at[f] # Gone /\ disk.kind[f] = "dir"}
Unmade == {f \in Nodes : disk.kind[f] = "none"}
NewFile == CHOOSE f \in Unmade : \A g \in Unmade : f <= g

DiskPosition(p) ==
  IF Len(p) = 1 THEN <<Root, p[1]>> ELSE <<TheNode(disk.at, <<p[1]>>), p[2]>>
Free(p) == ~OnDisk(p) /\ (Len(p) = 2 => IsDir(<<p[1]>>))
\* The directory a path is in is watched, and its watch knows where it is.
DirOf(p) == IF Len(p) = 1 THEN {} ELSE NodesAt(disk.at, <<p[1]>>)
Watched(p) == regime = "coverage" \/ DirOf(p) \cap fresh = {}
Placed(p) == regime = "coverage" \/ DirOf(p) \cap moving = {}

Report(events) == pending' = pending \o events

\* The disk changes at any time, between two events of a flush as well.
Change ==
  /\ ops < MaxOps /\ ops' = ops + 1
  /\ lates' = IF batch = NoBatch THEN lates ELSE lates + 1
  /\ lates' <= MaxLate
When(b, e) == IF b THEN <<e>> ELSE <<>>

\* The batch being applied sweeps the directory p is in, or has yet to scan it.
InBatch == IF batch = NoBatch THEN {} ELSE UNION {Range(g.events) : g \in Range(batch.groups)}
Swept(p) == batch # NoBatch /\ Len(p) = 2 /\ <<p[1]>> \in batch.moved
MayScan(p) == \E e \in InBatch : <<p[1]>> \in Fills(e)

\* A name given up: noted if it is tracked, the source does not tell of it and
\* no event to come names it.
Vacated(p, told) ==
  missed' = IF \/ told \/ NodesAt(db.at, p) = {}
               \/ \E e \in InBatch \cup Range(pending) : p \in EventPaths(e)
            THEN missed ELSE missed \cup {p}

MakeFile(p, s) ==
  /\ Change /\ Unmade # {} /\ Free(p) /\ Placed(p)
  /\ s \in {NewFile, 2}
  /\ disk' = [disk EXCEPT !.at[NewFile] = DiskPosition(p),
                          !.kind[NewFile] = "file", !.stamp[NewFile] = s]
  /\ Report(When(Watched(p), Create(p)))
  /\ UNCHANGED <<db, batch, fresh, moving, env, stops, failed>>

MakeDir(p) ==
  /\ Change /\ Unmade # {} /\ Free(p)
  /\ disk' = [disk EXCEPT !.at[NewFile] = DiskPosition(p),
                          !.kind[NewFile] = "dir"]
  /\ Report(<<Create(p)>>)
  /\ fresh' = IF regime # "coverage" THEN fresh \cup {NewFile} ELSE fresh
  /\ UNCHANGED <<db, batch, moving, env, stops, failed>>

WriteFile(p) ==
  /\ Change /\ OnDisk(p) /\ ~IsDir(p) /\ Placed(p)
  /\ disk' = [disk EXCEPT !.stamp[TheNode(disk.at, p)] = IF @ <= MaxNodes THEN @ + MaxNodes ELSE @ - MaxNodes]
  /\ Report(When(Watched(p), ModifyData(p)))
  /\ UNCHANGED <<db, batch, fresh, moving, env, stops, failed>>

\* rm -r: a source that covers the file system reports the directory alone.
RemoveTree(p) ==
  /\ Change /\ OnDisk(p)
  /\ LET f == TheNode(disk.at, p)
         below == Below(disk.at, f)
         inside == IF regime = "coverage" \/ f \in fresh \cup moving THEN {}
                   ELSE {Removed(Append(p, disk.at[c][2])) : c \in below}
     IN /\ disk' = [disk EXCEPT !.at = [x \in Nodes |->
                                          IF x \in {f} \cup below THEN Gone ELSE @[x]]]
        /\ \E first \in SetToSeqs(inside) :
             Report(first \o When(Watched(p) /\ Placed(p), Removed(p)))
        /\ fresh' = fresh \ {f}
        /\ moving' = moving \ {f}
  /\ Vacated(p, Watched(p) /\ Placed(p))
  /\ UNCHANGED <<db, batch, half, regime, known, plain, again, crossed, stops, failed>>

MayReplace(f, p) ==
  \/ Free(p)
  \/ /\ OnDisk(p) /\ TheNode(disk.at, p) # f
     /\ disk.kind[TheNode(disk.at, p)] = "file"

\* The number of renames so far makes a cookie.
RenameEvents(p, q) ==
  LET c == Len(pending) + 1
      halves == When(Watched(p) /\ Placed(p), RenameFrom(p, c))
                  \o When(Watched(q), RenameTo(q, c))
  IN IF regime = "coverage" THEN <<Rename(p, q)>>
     ELSE IF Len(halves) = 2 /\ regime = "triple" THEN Append(halves, Rename(p, q))
     ELSE halves

Move(p, q) ==
  /\ Change /\ OnDisk(p) /\ p # q
  /\ LET f == TheNode(disk.at, p)
     IN /\ MayReplace(f, q) /\ Placed(q)
        /\ disk' = [disk EXCEPT
                      !.at = [x \in Nodes |-> IF x = f THEN DiskPosition(q)
                                              ELSE IF x \in NodesAt(disk.at, q) THEN Gone
                                              ELSE @[x]]]
        /\ Report(RenameEvents(p, q))
        /\ half' = IF Len(RenameEvents(p, q)) = 1 /\ regime # "coverage" THEN half \cup {f} ELSE half
        /\ moving' = IF regime # "coverage" /\ f \in Dirs THEN moving \cup {f} ELSE moving
        /\ crossed' = IF Swept(p) \/ MayScan(q) THEN crossed \cup {f} \cup Below(disk.at, f)
                      ELSE crossed
        /\ fresh' = fresh \ NodesAt(disk.at, q)
  /\ Vacated(p, Watched(p) /\ Placed(p))
  /\ UNCHANGED <<db, batch, regime, known, plain, again, stops, failed>>

\* A file leaves the repository, or a directory holding a file enters it.
Leave(p) ==
  /\ Change /\ OnDisk(p) /\ ~IsDir(p) /\ Watched(p) /\ Placed(p)
  /\ disk' = [disk EXCEPT !.at[TheNode(disk.at, p)] = Gone]
  /\ Report(<<RenameFrom(p, 0)>>)
  /\ UNCHANGED <<db, batch, fresh, moving, env, stops, failed>>

Arrive(p, n) ==
  /\ Change /\ Cardinality(Unmade) > 1 /\ Free(p)
  /\ LET d == NewFile
         f == CHOOSE g \in Unmade \ {d} : \A h \in Unmade \ {d} : g <= h
     IN /\ disk' = [disk EXCEPT !.at[d] = DiskPosition(p), !.kind[d] = "dir",
                                !.at[f] = <<d, n>>, !.kind[f] = "file"]
        /\ fresh' = IF regime # "coverage" THEN fresh \cup {d} ELSE fresh
  /\ Report(<<RenameTo(p, 0)>>)
  /\ UNCHANGED <<db, batch, moving, env, stops, failed>>

\* The ingest thread places the watches of what it has been told of.
PlaceWatches ==
  /\ fresh \cup moving # {}
  /\ fresh' = {} /\ moving' = {}
  /\ UNCHANGED <<disk, db, pending, batch, env, counts>>

-----------------------------------------------------------------------------
Init ==
  /\ \E tree \in Trees :
       LET n == Len(tree)
           at == [x \in Nodes |-> IF x <= n THEN tree[x] ELSE Gone]
           kind == [x \in Nodes |-> IF x > n THEN "none"
                                    ELSE IF at[x][2] \in DirNames THEN "dir" ELSE "file"]
       IN /\ known = 1..n
          /\ disk = [at |-> at, kind |-> kind, stamp |-> [x \in Nodes |-> x]]
          /\ db = [at |-> [r \in Recs |-> IF r <= n THEN at[r] ELSE Gone],
                   stat |-> [r \in Recs |-> IF r <= n THEN <<kind[r], r>> ELSE <<>>],
                   of |-> [r \in Recs |-> IF r <= n THEN {r} ELSE {}],
                   next |-> n + 1, twice |-> {}, index |-> <<>>, bad |-> FALSE, kept |-> FALSE]
  /\ pending = <<>> /\ batch = NoBatch
  /\ fresh = {} /\ moving = {} /\ half = {}
  /\ regime \in {"coverage", "triple", "halves"}
  /\ plain = TRUE /\ again = TRUE /\ missed = {}
  /\ crossed = {}
  /\ ops = 0 /\ lates = 0 /\ stops = 0 /\ failed = FALSE

DiskStep ==
  \/ \E p \in FilePaths : WriteFile(p) \/ Leave(p) \/ \E s \in Nodes : MakeFile(p, s)
  \/ \E p \in DirPaths : MakeDir(p) \/ \E n \in FileNames : Arrive(p, n)
  \/ \E p \in Paths : RemoveTree(p)
  \/ \E p, q \in FilePaths : Move(p, q)
  \/ \E p, q \in DirPaths : Move(p, q)
  \/ PlaceWatches

FlushStep ==
  \/ TakeBatch
  \/ \E order \in Orders : ApplyEvent(order)
  \/ FinishFlush
  \/ StopFlush

Next == DiskStep \/ FlushStep

Spec == Init /\ [][Next]_vars

-----------------------------------------------------------------------------
(* Properties. *)

\* Everything reported has been applied.
Quiet == pending = <<>> /\ batch = NoBatch /\ fresh = {} /\ moving = {}

\* Once the flush has applied what was reported (correlate_renames, compact,
\* group, apply_event), the store tracks the paths that are on the disk and no
\* others, although the disk went on changing under it: reordering events into
\* writes of one kind, folding a rename into a create, matching departures with
\* arrivals and replaying a stopped batch lose nothing.  Excepted: batches that
\* are not Plain, or are overtaken while they are applied, or are replayed and not
\* Replayable; cascades the circuit breaker refused; a removal passed over because
\* the name was taken again, when the newcomer then goes unreported (missed).
TracksDisk ==
  Quiet /\ plain /\ again /\ ~db.kept =>
    PathsOf(db.at) \ missed = PathsOf(disk.at) \ missed

\* The store's tree constraint never refuses a write of a flush (apply_rename
\* clears the destination first): a refused write would be retried for ever.
\* Excepted: the circuit breaker refused a cascade, as it may refuse the one that
\* clears a destination ("Skipping this is not an option", says apply_rename).
NeverRefused == plain /\ again /\ ~db.kept => ~failed

\* Two files the stat key cannot tell apart (find_departed_match).
Alike(f) == \E g \in Nodes \ {f} : disk.stamp[g] = disk.stamp[f]

\* A tracked file that was moved, every move reported by both its halves, is
\* still described by the record it had, wherever compact and group put the
\* events of its moves, whatever replaced it at its old name and whenever the
\* flush was stopped.  Excepted, as the code loses them: a file moved while a
\* batch is applied out of a directory that batch moved, which its sweep orphans
\* (remove_vanished_from_moved), or into one it may scan (crossed).
KeepsIdentity ==
  Quiet /\ plain /\ again =>
    \A f \in known \ (half \cup crossed), p \in Paths :
      f \in NodesAt(disk.at, p) /\ ~Alike(f) => f \in NodesAt(db.at, p)

\* A scan never makes a second record for a file while one made for it is tracked:
\* it leaves to its rename the file a rename of the batch brings, and pairs with
\* its departure the file that left a place of the batch (scan_dir,
\* find_departed_match).  Excepted: a file moved into the directory after the
\* batch was taken, whose rename is in no batch yet (crossed).
NoStranger == plain /\ again => db.twice \subseteq half \cup crossed
=============================================================================
