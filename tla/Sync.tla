-------------------------------- MODULE Sync --------------------------------
(***************************************************************************)
(* The synchronisation of two repositories (core/src/sync): `mf sync plan` *)
(* and `mf sync run`, two client commands that read and write the two      *)
(* repositories request by request, among a user who edits records and     *)
(* files, the two watchers, and crashes between any two requests.          *)
(*                                                                         *)
(* The model follows ONE link: a record of each side, its file, the row    *)
(* the pair's sync database keeps for it, and the plan's operations on it. *)
(* A record has one user field, a position and the stamp (size and mtime)  *)
(* of its file.  A record's version is a hash of its content, so a version *)
(* is modelled by the record itself.                                       *)
(*                                                                         *)
(* Left out: the mode (chmod), decided and run like the content; content   *)
(* an outside tool owns; references and parents, which are translated (the *)
(* positions here are at the top of the tree); the other links of a batch. *)
(***************************************************************************)
EXTENDS Naturals, Sequences, FiniteSets, Functions

CONSTANTS Vals,      \* values of the user field
          Contents,  \* contents of a file
          Paths,     \* places in a repository
          MaxEvents  \* bound: steps of the user, and faults (crashes, plans half
                     \* written, transfers failed, writes refused), together

\* A path is none of the positions of a record that has no file.
ASSUME SyncAssumption ==
  /\ MaxEvents \in Nat /\ 0 \notin Vals
  /\ Contents # {} /\ Paths # {} /\ Paths \cap {"gone", "none", "nothing"} = {}

Sides == {"A", "B"}
Other(s) == IF s = "A" THEN "B" ELSE "A"

VARIABLES rec,      \* the record of each side, or Gone
          disk,     \* what is at each place of each side
          trash,    \* what each side's trash holds
          row,      \* the link's row and snapshot in the sync database
          plan,     \* the plan repository
          run,      \* the client command under way
          dirty,    \* the watcher of a side has an event to apply
          clock,    \* mtimes given out
          events,   \* steps of the user, and faults, so far
          kept,     \* ghost: files of each side the user has not got rid of
          touched,  \* ghost: the field was edited since the sides last agreed, to
                    \* something else than what the row says was agreed
          joined,   \* ghost: the link was made
          half,     \* ghost: what came apart between two requests: "plan", one the
                    \* command died writing; "orphan", a record the run orphaned
                    \* that was no longer so when it read it back
          clean,    \* ghost: every sync so far had the repositories to itself
          moved     \* ghost: a file was planned to move that was edited too

data == <<rec, disk, trash, row, plan>>
world == <<dirty, clock, events>>
ghosts == <<kept, touched, joined, half, clean, moved>>
vars == <<data, run, world, ghosts>>

-----------------------------------------------------------------------------
(* Records, files, rows. *)

Record(f, pos, stamp) == [f |-> f, pos |-> pos, stamp |-> stamp]
Gone == Record(0, "gone", 0)
Bare == Record(0, "none", 0)          \* no field, never placed
Real(r) == r.pos \in Paths            \* has_real_path

NoFile == [m |-> 0, c |-> 0, own |-> FALSE]
File(m, c, own) == [m |-> m, c |-> c, own |-> own]

\* What is where the record of a side says its file is.
FileAt(s, pos) == IF pos \in Paths THEN disk[s][pos] ELSE NoFile
Present(s, pos) == FileAt(s, pos) # NoFile

NoSnap == [f |-> 0, pos |-> "none", stamp |-> [s \in Sides |-> 0]]
NoLink == [linked |-> FALSE, v |-> [s \in Sides |-> Gone], snap |-> NoSnap]

-----------------------------------------------------------------------------
(* The three-way decisions (model.rs). *)

Changed(aCh, bCh) ==
  IF aCh /\ bCh THEN "conflict" ELSE IF aCh THEN "A" ELSE IF bCh THEN "B" ELSE "untouched"

\* decide_field: "A" and "B" are the side to propagate from.
DecideField(x, y, z) == IF x = y THEN "insync" ELSE Changed(x # z, y # z)

\* Mutant: no stamp in the snapshot is no change.
StampChangedKnown(r, snap, s) == snap.stamp[s] # 0 /\ r.stamp # snap.stamp[s]

\* stamp_changed: no stamp in the snapshot counts as a change.
StampChanged(r, snap, s) == snap.stamp[s] = 0 \/ r.stamp # snap.stamp[s]

\* decide_aspect: the files are compared only if a side changed.
DecideAspect(aCh, bCh, equal) ==
  IF ~aCh /\ ~bCh THEN "untouched" ELSE IF equal THEN "insync" ELSE Changed(aCh, bCh)

\* next_snapshot: what still disagrees keeps its old entry.
NextSnapshot(a, b, old) ==
  [f     |-> IF a.f = b.f THEN a.f ELSE old.f,
   pos   |-> IF a.pos = b.pos THEN a.pos ELSE old.pos,
   stamp |-> [s \in Sides |-> IF s = "A" THEN a.stamp ELSE b.stamp]]

-----------------------------------------------------------------------------
(* mf sync plan. *)

Op(kind, from) == [kind |-> kind, from |-> from, field |-> "none"]
Conflict(field, resolve) == [kind |-> "conflict", from |-> resolve, field |-> field]
NoPlan == [ops |-> {}, base |-> [s \in Sides |-> Gone]]

\* content_equal: of what is on disk where the records are now.
ContentEqual ==
  /\ \A s \in Sides : Present(s, rec[s].pos)
  /\ FileAt("A", rec["A"].pos).c = FileAt("B", rec["B"].pos).c

\* The record of an endpoint as the plan sees it.
Seen(r) == IF r = Gone THEN Bare ELSE r

\* plan_link: what the link's position asks for.
PosDecision(base, snap) == DecideField(Seen(base["A"]).pos, Seen(base["B"]).pos, snap.pos)

MoveOps(base, snap) ==
  LET d == PosDecision(base, snap)
  IN CASE d \in Sides /\ base[Other(d)] = Gone ->
            IF Real(base[d]) /\ base[d].stamp > 0 THEN <<Op("copy", d)>> ELSE <<>>
       [] d \in Sides /\ base[Other(d)] # Gone -> <<Op("move", d)>>
       [] d = "conflict" -> <<Op("move", "none")>>
       [] OTHER -> <<>>

\* plan_link: what the content asks for, of two files that stay where they are.
ContentDecision(base, snap) ==
  IF PosDecision(base, snap) \in {"insync", "untouched"} /\ \A s \in Sides : Real(base[s])
  THEN DecideAspect(StampChanged(base["A"], snap, "A"), StampChanged(base["B"], snap, "B"),
                    ContentEqual)
  ELSE "untouched"

CopyOps(base, snap) ==
  LET d == ContentDecision(base, snap)
  IN CASE d \in Sides -> <<Op("copy", d)>>
       [] d = "conflict" -> <<Op("copy", "none")>>
       [] OTHER -> <<>>

Conflicts(base, snap) ==
  {x \in {"f", "pos", "content"} :
     "conflict" = CASE x = "f"   -> DecideField(Seen(base["A"]).f, Seen(base["B"]).f, snap.f)
                    [] x = "pos" -> PosDecision(base, snap)
                    [] OTHER     -> ContentDecision(base, snap)}

ConflictOps(cs, res) ==
  LET one(x) == IF x \in cs THEN <<Conflict(x, res[x])>> ELSE <<>>
  IN one("f") \o one("pos") \o one("content")

\* The operations of the link, given how its conflicts are resolved.
LinkOps(base, res) ==
  LET snap == row.snap
      gone == {s \in Sides : base[s] = Gone}
  IN IF row.linked /\ gone = Sides THEN <<Op("drop", "none")>>
     ELSE IF row.linked /\ gone # {} THEN <<Op("delete", CHOOSE s \in Sides : s \notin gone)>>
     ELSE IF row.linked /\ row.v = base THEN <<>>
     ELSE (IF row.linked THEN <<>> ELSE <<Op("create", "none")>>)
            \o <<Op("sync", "none")>> \o MoveOps(base, snap) \o CopyOps(base, snap)
            \o ConflictOps(Conflicts(base, snap), res)

-----------------------------------------------------------------------------
(* mf sync run: its state, and the order of its operations. *)

Phases == <<"create", "sync", "copy", "move", "commit", "delete", "drop", "end">>

Idle == [pc |-> "idle", known |-> [s \in Sides |-> Gone], old |-> "none",
         synced |-> FALSE, unsettled |-> FALSE, held |-> FALSE]

\* The plan repository holds a set of operations, one of a kind but for the
\* conflicts, which are one for a field.
Has(ops, kind) == \E o \in ops : o.kind = kind
OpOf(kind) == CHOOSE o \in plan.ops : o.kind = kind
Without(ops, kind) == {o \in ops : o.kind # kind}

\* The phase after one: the next that has an operation, the commit or the end.
After(kind, ops) ==
  LET at == CHOOSE i \in DOMAIN Phases : Phases[i] = kind
      next == {i \in DOMAIN Phases : i > at /\ (Phases[i] \in {"commit", "end"}
                                                  \/ Has(ops, Phases[i]))}
  IN Phases[CHOOSE i \in next : \A j \in next : i <= j]

FirstPhase(ops) == IF Has(ops, "create") THEN "create" ELSE After("create", ops)

\* The resolution the plan holds of a conflict on a field; none is a skip.
Resolved(field) ==
  LET found == {o \in plan.ops : o.kind = "conflict" /\ o.field = field}
  IN IF found = {} THEN "skip" ELSE (CHOOSE o \in found : TRUE).from

\* winner: the side an operation takes from, or one that is no side.
Winner(kind, field) == IF OpOf(kind).from \in Sides THEN OpOf(kind).from ELSE Resolved(field)

\* settle: an operation done is pruned, one skipped stays and the link is not
\* committed.  `r` is the run as the operation left it.
Pruned(kind) ==
  LET ops == Without(plan.ops, kind) IN IF ops = {} THEN NoPlan ELSE [plan EXCEPT !.ops = ops]
GoOn(kind, r) ==
  LET pc == After(kind, plan.ops)
  IN run' = IF pc = "end" THEN [Idle EXCEPT !.pc = pc, !.held = r.held]
            ELSE [r EXCEPT !.pc = pc, !.old = "none"]
Done(kind, r) ==
  /\ plan' = Pruned(kind)
  /\ GoOn(kind, [r EXCEPT !.synced = @ \/ kind = "sync"])
Skipped(kind, r) ==
  /\ GoOn(kind, [r EXCEPT !.unsettled = TRUE])
  /\ UNCHANGED plan

\* fresh: both records at the version the run expects, which is the plan's
\* baseline or what its own last write left.
Expected(s) == IF run.known[s] # Gone THEN run.known[s] ELSE plan.base[s]
Fresh == \A s \in Sides : Expected(s) # Gone /\ rec[s] = Expected(s)

\* The ghost of the user's edits: cleared when the two sides agree.
Agreement(t) == IF rec'["A"].f = rec'["B"].f THEN [s \in Sides |-> FALSE] ELSE t

\* No command under way.
Resting == {"idle", "planned", "end"}

\* A user's or a watcher's step, while a command is under way or between two.
Disturbed ==
  /\ clean' = (clean /\ run.pc \in Resting)
  /\ run' = IF run.pc \in Resting THEN Idle ELSE run

At(pc) == run.pc = pc
Fault == events < MaxEvents /\ events' = events + 1 /\ clean' = FALSE
NoFault == UNCHANGED <<events, clean>>

\* An operation done, or one whose command died before it was pruned.
Settle(kind, r) ==
  \/ Done(kind, r) /\ NoFault
  \/ Fault /\ run' = Idle /\ UNCHANGED plan

\* Mutant: the version is not sent.
PutUnfenced(s, r, new) ==
  /\ rec' = [rec EXCEPT ![s] = new]
  /\ touched' = Agreement(touched)
  /\ NoFault

\* put: a field of a record is set, fenced by the version the run knows.  The
\* daemon may refuse it for a reason of its own.
Put(s, r, new) ==
  /\ rec[s] = r.known[s]
  /\ rec' = [rec EXCEPT ![s] = new]
  /\ touched' = Agreement(touched)
  /\ NoFault

Refused(s, r, kind) ==
  /\ \/ rec[s] # r.known[s] /\ NoFault
     \/ rec[s] = r.known[s] /\ Fault
  /\ Skipped(kind, r)
  /\ UNCHANGED <<rec, touched>>

Knows(r, s, value) == [r EXCEPT !.known[s] = value]

\* The record as the watcher makes it: it follows its file, takes what is at its
\* place, or is orphaned.
Watched(s) ==
  LET away == {p \in Paths : disk[s][p].own /\ p # rec[s].pos}
      at == IF away # {} THEN CHOOSE p \in away : TRUE ELSE rec[s].pos
  IN IF rec[s] = Gone \/ (away = {} /\ ~Real(rec[s])) THEN rec[s]
     ELSE IF Present(s, at) THEN [rec[s] EXCEPT !.pos = at, !.stamp = FileAt(s, at).m]
     ELSE [rec[s] EXCEPT !.pos = "nothing"]

-----------------------------------------------------------------------------
(* The plan. *)

PlanReadA ==
  /\ run.pc \in Resting
  /\ plan' = NoPlan
  /\ run' = [Idle EXCEPT !.pc = "plan_b", !.known["A"] = rec["A"]]
  /\ clean' = (clean /\ \A s \in Sides : Watched(s) = rec[s])
  /\ UNCHANGED <<rec, disk, trash, row, world, kept, touched, joined, half, moved>>

PlanReadB ==
  /\ At("plan_b")
  /\ run' = [run EXCEPT !.pc = "plan", !.known["B"] = rec["B"]]
  /\ UNCHANGED <<data, world, ghosts>>

\* linking_phase: a record that has no link is linked to the one at its path, or
\* to a bare one the run is to make; a bare one an earlier run made and did not
\* link stays behind.
Baseline ==
  [s \in Sides |-> IF ~row.linked /\ run.known[s] = Bare THEN Gone ELSE run.known[s]]

Linkable(base) ==
  \/ row.linked
  \/ Cardinality({s \in Sides : base[s] = Gone}) = 1
  \/ Real(base["A"]) /\ base["A"].pos = base["B"].pos

\* A file to be moved was edited too: plan_link looks at the content only of
\* files that stay where they are.
MovedAndEdited(base) ==
  /\ \A s \in Sides : Real(base[s])
  /\ PosDecision(base, row.snap) \notin {"insync", "untouched"}
  /\ \E s \in Sides : StampChanged(base[s], row.snap, s)

\* The conflicts are resolved, or the link is left out, before any operation is
\* written; the operations are written one by one.
PlanWrite(res, leave) ==
  LET base == Baseline
      ops == IF Linkable(base) /\ ~leave THEN LinkOps(base, res) ELSE <<>>
  IN /\ At("plan")
     /\ leave => Linkable(base) /\ Has(Range(LinkOps(base, res)), "conflict")
     /\ \/ /\ plan' = IF ops = <<>> THEN NoPlan ELSE [ops |-> Range(ops), base |-> base]
           /\ NoFault /\ UNCHANGED half
        \/ /\ Fault /\ half' = half \cup {"plan"}
           /\ \E n \in 1..(Len(ops) - 1) : plan' = [ops |-> Range(SubSeq(ops, 1, n)), base |-> base]
     /\ rec' = [s \in Sides |-> IF ~row.linked /\ rec[s] = Bare THEN Gone ELSE rec[s]]
     /\ moved' = (moved \/ MovedAndEdited(base))
     /\ run' = [Idle EXCEPT !.pc = "planned"]
     /\ UNCHANGED <<disk, trash, row, dirty, clock, kept, touched, joined>>

-----------------------------------------------------------------------------
(* The run: links. *)

RunStart ==
  /\ run.pc \in Resting /\ plan.ops # {}
  /\ run' = [Idle EXCEPT !.pc = FirstPhase(plan.ops)]
  /\ clean' = (clean /\ At("planned"))
  /\ UNCHANGED <<data, world, kept, touched, joined, half, moved>>

\* create_link: the bare record; one that is there already (409) is not read.
RunCreate ==
  LET bare == {s \in Sides : plan.base[s] = Gone /\ rec[s] = Gone}
  IN /\ At("create")
     /\ rec' = [s \in Sides |-> IF s \in bare THEN Bare ELSE rec[s]]
     /\ run' = [run EXCEPT !.pc = "post",
                           !.known = [s \in Sides |-> IF s \in bare THEN Bare ELSE @[s]]]
     /\ UNCHANGED <<disk, trash, row, plan, world, ghosts>>

\* create_link: the link.
RunPost ==
  /\ At("post")
  /\ \/ /\ ~Fresh
        /\ Skipped("create", run) /\ NoFault
        /\ UNCHANGED <<row, joined>>
     \/ /\ Fresh
        /\ row' = IF row.linked THEN row ELSE [NoLink EXCEPT !.linked = TRUE]
        /\ joined' = TRUE
        /\ Settle("create", [run EXCEPT !.known = rec])
  /\ UNCHANGED <<rec, disk, trash, dirty, clock, kept, touched, half, moved>>

(* The run: metadata. *)

\* link_op: an operation on files waits for its link's metadata to have gone
\* through, and every operation for fresh records.
Turned(kind) == (kind # "sync" /\ run.unsettled) \/ ~Fresh
TurnedAway(kind) == Turned(kind) /\ Skipped(kind, run)

RunSync ==
  /\ At("sync")
  /\ \/ TurnedAway("sync")
     \/ ~Turned("sync") /\ run' = [run EXCEPT !.pc = "field", !.known = rec] /\ UNCHANGED plan
  /\ UNCHANGED <<rec, disk, trash, row, world, ghosts>>

\* sync: the field goes to the side that did not change it, or to the one a
\* conflict's resolution says; a conflict skipped holds the link.
RunField ==
  LET d == DecideField(run.known["A"].f, run.known["B"].f, row.snap.f)
      from == IF d = "conflict" THEN Resolved("f") ELSE d
      to == Other(from)
      next == [run EXCEPT !.pc = "place", !.held = @ \/ (d = "conflict" /\ from \notin Sides)]
  IN /\ At("field")
     /\ \/ /\ from \notin Sides
           /\ run' = next
           /\ NoFault /\ UNCHANGED <<rec, plan, touched>>
        \/ /\ from \in Sides
           /\ \/ /\ Put(to, run, [rec[to] EXCEPT !.f = run.known[from].f])
                 /\ run' = Knows(next, to, rec'[to])
                 /\ UNCHANGED plan
              \/ Refused(to, run, "sync")
     /\ UNCHANGED <<disk, trash, row, dirty, clock, kept, joined, half, moved>>

\* sync: a record that was never placed gets the position of the other.
RunPlace ==
  LET here == {s \in Sides : run.known[s].pos = "none" /\ run.known[Other(s)].pos # "none"}
  IN /\ At("place")
     /\ \/ here = {} /\ Settle("sync", run) /\ UNCHANGED <<rec, touched>>
        \/ \E s \in here :
             \/ /\ rec[s] = run.known[s]
                /\ rec' = [rec EXCEPT ![s].pos = run.known[Other(s)].pos]
                /\ Settle("sync", Knows(run, s, rec'[s]))
                /\ UNCHANGED touched
             \/ Refused(s, run, "sync")
     /\ UNCHANGED <<disk, trash, row, dirty, clock, kept, joined, half, moved>>

(* The run: files. *)

\* Mutant: what is at a place is written over.
TrashedNot(s, pos) == trash[s]

\* trash_occupant: what is at a place goes to the trash first.
Trashed(s, pos) == IF Present(s, pos) THEN trash[s] \cup {FileAt(s, pos).m} ELSE trash[s]

\* place_content.
PlaceContent(s, pos, file) ==
  /\ trash' = [trash EXCEPT ![s] = Trashed(s, pos)]
  /\ disk' = [disk EXCEPT ![s][pos] = File(file.m, file.c, TRUE)]
  /\ kept' = [kept EXCEPT ![s] = @ \cup {file.m}]

\* A transfer that failed once what was there was in the trash.
TransferFails(s, pos) ==
  /\ Fault
  /\ trash' = [trash EXCEPT ![s] = Trashed(s, pos)]
  /\ disk' = [disk EXCEPT ![s][pos] = NoFile]
  /\ UNCHANGED kept

Wrote(s) == dirty' = [dirty EXCEPT ![s] = TRUE]

\* copy: whose content it is.
RunCopy ==
  LET from == Winner("copy", "content")
  IN /\ At("copy")
     /\ \/ TurnedAway("copy") /\ NoFault
        \/ ~Turned("copy") /\ from \notin Sides
             /\ Settle("copy", [run EXCEPT !.known = rec, !.held = TRUE])
        \/ /\ ~Turned("copy") /\ from \in Sides
           /\ run' = [run EXCEPT !.pc = "transfer", !.known = rec]
           /\ NoFault /\ UNCHANGED plan
     /\ UNCHANGED <<rec, disk, trash, row, dirty, clock, kept, touched, joined, half, moved>>

\* copy: the file, from where the one record is now to where the other is.
RunTransfer ==
  LET from == Winner("copy", "content")
      to == Other(from)
      src == FileAt(from, rec[from].pos)
      dst == rec[to].pos
      can == src # NoFile /\ dst \in Paths
  IN /\ At("transfer")
     /\ \/ ~can /\ Skipped("copy", run) /\ NoFault /\ UNCHANGED <<disk, trash, kept, dirty>>
        \/ /\ can /\ PlaceContent(to, dst, src) /\ Wrote(to)
           /\ run' = [run EXCEPT !.pc = "refresh_copy"]
           /\ NoFault /\ UNCHANGED plan
        \/ can /\ TransferFails(to, dst) /\ Wrote(to) /\ Skipped("copy", run)
     /\ UNCHANGED <<rec, row, clock, touched, joined, half, moved>>

\* refresh: the record is made to agree with the file, whatever is there now.
RunRefresh(kind, s) ==
  LET file == FileAt(s, rec[s].pos)
      can == rec[s] = run.known[s] /\ file # NoFile
  IN /\ \/ ~can /\ Skipped(kind, run) /\ NoFault /\ UNCHANGED rec
        \/ /\ can
           /\ rec' = [rec EXCEPT ![s].stamp = file.m]
           /\ Settle(kind, Knows(run, s, rec'[s]))
     /\ UNCHANGED <<disk, trash, row, dirty, clock, kept, touched, joined, half, moved>>

\* relocate: whose position it is, and where the loser's file is.
RunMove ==
  LET w == Winner("move", "pos")
  IN /\ At("move")
     /\ \/ TurnedAway("move") /\ NoFault
        \/ ~Turned("move") /\ w \notin Sides
             /\ Settle("move", [run EXCEPT !.known = rec, !.held = TRUE])
        \/ /\ ~Turned("move") /\ w \in Sides
           /\ run' = [run EXCEPT !.pc = IF Real(rec[w]) THEN "position" ELSE "orphan",
                                 !.known = rec, !.old = rec[Other(w)].pos]
           /\ NoFault /\ UNCHANGED plan
     /\ UNCHANGED <<rec, disk, trash, row, dirty, clock, kept, touched, joined, half, moved>>

\* relocate: the loser's record gets the position ...
RunPosition ==
  LET w == Winner("move", "pos")
      s == Other(w)
  IN /\ At("position")
     /\ \/ /\ Put(s, run, [rec[s] EXCEPT !.pos = run.known[w].pos])
           /\ run' = [Knows(run, s, rec'[s]) EXCEPT !.pc = "relocate"]
           /\ UNCHANGED plan
        \/ Refused(s, run, "move")
     /\ UNCHANGED <<disk, trash, row, dirty, clock, kept, joined, half, moved>>

\* ... then its file is renamed, or given the winner's content if it had none.
RunRelocate ==
  LET w == Winner("move", "pos")
      s == Other(w)
      new == rec[s].pos
      src == FileAt(w, rec[w].pos)
      stays == new \in Paths /\ run.old = new /\ Present(s, new)
      renames == new \in Paths /\ run.old # new /\ Present(s, run.old)
      copies == new \in Paths /\ ~stays /\ ~renames /\ src # NoFile
      on == [run EXCEPT !.pc = "refresh_move"]
  IN /\ At("relocate")
     /\ \/ /\ new \notin Paths /\ Skipped("move", run)
           /\ NoFault /\ UNCHANGED <<disk, trash, kept, dirty>>
        \/ stays /\ run' = on /\ NoFault /\ UNCHANGED <<plan, disk, trash, kept, dirty>>
        \/ /\ renames
           /\ trash' = [trash EXCEPT ![s] = Trashed(s, new)]
           /\ disk' = [disk EXCEPT ![s] = [@ EXCEPT ![new] = [FileAt(s, run.old) EXCEPT !.own = TRUE],
                                                    ![run.old] = NoFile]]
           /\ Wrote(s) /\ run' = on /\ NoFault /\ UNCHANGED <<plan, kept>>
        \/ copies /\ PlaceContent(s, new, src) /\ Wrote(s) /\ run' = on /\ NoFault /\ UNCHANGED plan
        \/ /\ renames \/ copies
           /\ TransferFails(s, new) /\ Wrote(s) /\ Skipped("move", run)
        \/ /\ new \in Paths /\ ~stays /\ ~renames /\ ~copies
           /\ IF Present(s, new) THEN run' = on /\ NoFault /\ UNCHANGED plan
              ELSE Settle("move", run)
           /\ UNCHANGED <<disk, trash, kept, dirty>>
     /\ UNCHANGED <<rec, row, clock, touched, joined, half, moved>>

\* orphan: the winner's file is gone.  The loser's goes to the trash ...
RunOrphan ==
  LET s == Other(Winner("move", "pos"))
      pos == run.known[s].pos
  IN /\ At("orphan")
     /\ \/ pos = "nothing" /\ Settle("move", run) /\ UNCHANGED <<rec, disk, trash, dirty, touched>>
        \/ /\ pos = "none"
           /\ \/ /\ rec[s] = run.known[s]
                 /\ rec' = [rec EXCEPT ![s].pos = "nothing"]
                 /\ Settle("move", Knows(run, s, rec'[s]))
                 /\ UNCHANGED touched
              \/ Refused(s, run, "move")
           /\ UNCHANGED <<disk, trash, dirty>>
        \/ /\ pos \in Paths
           /\ trash' = [trash EXCEPT ![s] = Trashed(s, run.old)]
           /\ disk' = [disk EXCEPT ![s][run.old] = NoFile]
           /\ Wrote(s) /\ run' = [run EXCEPT !.pc = "clear"]
           /\ NoFault /\ UNCHANGED <<plan, rec, touched>>
     /\ UNCHANGED <<row, clock, kept, joined, half, moved>>

Orphaned(r) == [r EXCEPT !.pos = "nothing"]

\* ... and its record is orphaned, unless something is there again (POST
\* /orphans/clear, whose answer names the records, not their versions) ...
RunClear ==
  LET s == Other(Winner("move", "pos"))
      can == rec[s] = run.known[s] /\ ~Present(s, rec[s].pos)
  IN /\ At("clear")
     /\ \/ ~can /\ Skipped("move", run) /\ UNCHANGED rec
        \/ /\ can
           /\ rec' = [rec EXCEPT ![s] = Orphaned(@)]
           /\ run' = [run EXCEPT !.pc = "reread"] /\ UNCHANGED plan
     /\ UNCHANGED <<disk, trash, row, world, kept, touched, joined, half, clean, moved>>

\* ... and read back, by a request of its own: what the run knows of it is what
\* is there by then, or what it knew, if the record is gone.
RunReread ==
  LET s == Other(Winner("move", "pos"))
  IN /\ At("reread")
     /\ Settle("move", IF rec[s] = Gone THEN run ELSE Knows(run, s, rec[s]))
     /\ half' = IF rec[s] = Orphaned(run.known[s]) THEN half ELSE half \cup {"orphan"}
     /\ UNCHANGED <<rec, disk, trash, row, dirty, clock, kept, touched, joined, moved>>

\* Mutant: a link with a conflict left open is committed.
RunCommitHeld ==
  LET commits == run.synced /\ ~run.unsettled /\ row.linked
                   /\ \A s \in Sides : run.known[s] # Gone
  IN /\ At("commit")
     /\ row' = IF commits
               THEN [row EXCEPT !.v = run.known,
                                !.snap = NextSnapshot(run.known["A"], run.known["B"], @)]
               ELSE row
     /\ plan' = IF commits THEN Pruned("conflict") ELSE plan
     /\ GoOn("commit", run)
     /\ touched' = [s \in Sides |-> touched[s] /\ rec[s].f # row'.snap.f]
     /\ UNCHANGED <<rec, disk, trash, world, kept, joined, half, clean, moved>>

\* commit: the versions the run knows, and the snapshot of what it knows.
RunCommit ==
  LET commits == run.synced /\ ~run.unsettled /\ ~run.held /\ row.linked
                   /\ \A s \in Sides : run.known[s] # Gone
  IN /\ At("commit")
     /\ row' = IF commits
               THEN [row EXCEPT !.v = run.known,
                                !.snap = NextSnapshot(run.known["A"], run.known["B"], @)]
               ELSE row
     /\ plan' = IF commits THEN Pruned("conflict") ELSE plan
     /\ GoOn("commit", run)
     /\ touched' = [s \in Sides |-> touched[s] /\ rec[s].f # row'.snap.f]
     /\ UNCHANGED <<rec, disk, trash, world, kept, joined, half, clean, moved>>

(* The run: deletions. *)

\* Mutant: a survivor that changed is kept, and its link removed.
RunDeleteAnyway ==
  LET s == OpOf("delete").from
      can == row.linked /\ rec[s] # Gone /\ rec[s] = plan.base[s]
  IN /\ At("delete")
     /\ rec' = IF can THEN [rec EXCEPT ![s] = Gone] ELSE rec
     /\ run' = [run EXCEPT !.pc = "unlink", !.old = rec[s].pos]
     /\ NoFault
     /\ UNCHANGED <<plan, disk, trash, row, dirty, clock, kept, touched, joined, half, moved>>

\* delete: the survivor, if it is still at its baseline ...
RunDelete ==
  LET s == OpOf("delete").from
      can == row.linked /\ rec[s] # Gone /\ rec[s] = plan.base[s]
  IN /\ At("delete")
     /\ \/ ~can /\ Skipped("delete", run) /\ NoFault /\ UNCHANGED <<rec, touched>>
        \/ can /\ Fault /\ Skipped("delete", run) /\ UNCHANGED <<rec, touched>>
        \/ /\ can
           /\ rec' = [rec EXCEPT ![s] = Gone]
           /\ touched' = [touched EXCEPT ![s] = FALSE]
           /\ run' = [run EXCEPT !.pc = "unlink", !.old = rec[s].pos]
           /\ NoFault /\ UNCHANGED plan
     /\ UNCHANGED <<disk, trash, row, dirty, clock, kept, joined, half, moved>>

\* ... then the link, in the same request but another store ...
RunUnlink ==
  /\ At("unlink")
  /\ row' = NoLink
  /\ run' = [run EXCEPT !.pc = "unfile"]
  /\ UNCHANGED <<rec, disk, trash, plan, world, ghosts>>

\* ... then its file.
RunUnfile ==
  LET s == OpOf("delete").from
  IN /\ At("unfile")
     /\ trash' = [trash EXCEPT ![s] = Trashed(s, run.old)]
     /\ disk' = IF run.old \in Paths THEN [disk EXCEPT ![s][run.old] = NoFile] ELSE disk
     /\ Settle("delete", run)
     /\ UNCHANGED <<rec, row, dirty, clock, kept, touched, joined, half, moved>>

\* drop_link: both records must still be gone.
RunDrop ==
  LET back == \E s \in Sides : rec[s] # Gone
  IN /\ At("drop")
     /\ \/ row.linked /\ back /\ Skipped("drop", run) /\ NoFault /\ UNCHANGED row
        \/ ~(row.linked /\ back) /\ row' = NoLink /\ Settle("drop", run)
     /\ UNCHANGED <<rec, disk, trash, dirty, clock, kept, touched, joined, half, moved>>

\* The command, or the daemon, dies between two requests.
Crash ==
  /\ run.pc \notin Resting
  /\ Fault
  /\ run' = Idle
  /\ UNCHANGED <<data, dirty, clock, kept, touched, joined, half, moved>>

-----------------------------------------------------------------------------
(* The user, and the watcher. *)

Edit == events < MaxEvents /\ events' = events + 1 /\ Disturbed

EditField(s, v) ==
  /\ Edit
  /\ rec[s] # Gone /\ rec[s].f # v
  /\ rec' = [rec EXCEPT ![s].f = v]
  /\ touched' = Agreement([touched EXCEPT ![s] = v # row.snap.f])
  /\ UNCHANGED <<disk, trash, row, plan, dirty, clock, kept, joined, half, moved>>

DeleteRecord(s) ==
  /\ Edit
  /\ rec[s] # Gone
  /\ rec' = [rec EXCEPT ![s] = Gone]
  /\ disk' = [disk EXCEPT ![s] = [p \in Paths |-> [disk[s][p] EXCEPT !.own = FALSE]]]
  /\ touched' = [touched EXCEPT ![s] = FALSE]
  /\ UNCHANGED <<trash, row, plan, dirty, clock, kept, joined, half, moved>>

\* Files of the user's: the record's own, where the record says or where the
\* watcher is about to find it.
Own(s, p) == disk[s][p].own /\ (dirty[s] \/ rec[s].pos = p)

EditFile(s, now, gone, new) ==
  /\ Edit
  /\ disk' = [disk EXCEPT ![s] = now]
  /\ kept' = [kept EXCEPT ![s] = (@ \ gone) \cup new]
  /\ dirty' = [dirty EXCEPT ![s] = TRUE]
  /\ clock' = clock + Cardinality(new)
  /\ UNCHANGED <<rec, trash, row, plan, touched, joined, half, moved>>

WriteFile(s, p, c) ==
  /\ Own(s, p)
  /\ EditFile(s, [disk[s] EXCEPT ![p] = File(clock + 1, c, TRUE)], {disk[s][p].m}, {clock + 1})
MoveFile(s, p, q) ==
  /\ Own(s, p) /\ disk[s][q] = NoFile
  /\ EditFile(s, [disk[s] EXCEPT ![p] = NoFile, ![q] = disk[s][p]], {}, {})
RemoveFile(s, p) ==
  /\ Own(s, p)
  /\ EditFile(s, [disk[s] EXCEPT ![p] = NoFile], {disk[s][p].m}, {})
\* A file no rule makes the repository track.
StrayFile(s, p) ==
  /\ disk[s][p] = NoFile
  /\ EditFile(s, [disk[s] EXCEPT ![p] = File(clock + 1, clock + 1, FALSE)], {}, {clock + 1})

Watch(s) ==
  LET r == Watched(s)
  IN /\ dirty[s]
     /\ dirty' = [dirty EXCEPT ![s] = FALSE]
     /\ rec' = [rec EXCEPT ![s] = r]
     /\ disk' = [disk EXCEPT ![s] = [p \in Paths |->
                   [disk[s][p] EXCEPT !.own = Present(s, p) /\ p = r.pos]]]
     /\ IF r = rec[s] THEN UNCHANGED <<run, clean>> ELSE Disturbed
     /\ UNCHANGED <<trash, row, plan, clock, events, kept, touched, joined, half, moved>>

-----------------------------------------------------------------------------
(* The specification. *)

RunStep ==
  \/ RunStart \/ RunCreate \/ RunPost \/ RunSync \/ RunField \/ RunPlace
  \/ RunCopy \/ RunTransfer
  \/ At("refresh_copy") /\ RunRefresh("copy", Other(Winner("copy", "content")))
  \/ RunMove \/ RunPosition \/ RunRelocate \/ RunOrphan \/ RunClear
  \/ RunReread
  \/ At("refresh_move") /\ RunRefresh("move", Other(Winner("move", "pos")))
  \/ RunCommit \/ RunDelete \/ RunUnlink \/ RunUnfile \/ RunDrop

PlanStep ==
  \/ PlanReadA \/ PlanReadB
  \/ At("plan") /\ \E res \in [Conflicts(Baseline, row.snap) -> Sides \cup {"skip"}],
                       leave \in BOOLEAN : PlanWrite(res, leave)

UserStep(s) ==
  \/ \E v \in Vals \cup {0} : EditField(s, v)
  \/ DeleteRecord(s)
  \/ \E p \in Paths : \/ RemoveFile(s, p) \/ StrayFile(s, p)
                      \/ \E q \in Paths : MoveFile(s, p, q)
                      \/ \E c \in Contents : WriteFile(s, p, c)

Next ==
  \/ PlanStep \/ RunStep \/ Crash
  \/ \E s \in Sides : UserStep(s) \/ Watch(s)

\* Two repositories that agree and say so, a record that only one of them has,
\* or two found at the same path.
Init ==
  LET home == CHOOSE p \in Paths : TRUE
      one == CHOOSE c \in Contents : TRUE
      at(f) == [p \in Paths |-> IF p = home THEN f ELSE NoFile]
      placed(m) == Record(0, home, m)
  IN /\ \E start \in {"linked", "both"} \cup Sides, c \in Contents :
          LET has(s) == start \in {"linked", "both", s}
              mtime(s) == IF start = "both" /\ s = "B" THEN 2 ELSE 1
              content(s) == IF start = "both" /\ s = "B" THEN c ELSE one
          IN /\ rec = [s \in Sides |-> IF has(s) THEN placed(mtime(s)) ELSE Gone]
             /\ disk = [s \in Sides |-> IF has(s) THEN at(File(mtime(s), content(s), TRUE))
                                                  ELSE at(NoFile)]
             /\ kept = [s \in Sides |-> IF has(s) THEN {mtime(s)} ELSE {}]
             /\ row = IF start = "linked"
                      THEN [linked |-> TRUE, v |-> rec, snap |-> NextSnapshot(rec["A"], rec["B"], NoSnap)]
                      ELSE NoLink
             /\ joined = (start = "linked")
     /\ trash = [s \in Sides |-> {}]
     /\ plan = NoPlan
     /\ run = Idle
     /\ dirty = [s \in Sides |-> FALSE]
     /\ clock = 2
     /\ events = 0
     /\ touched = [s \in Sides |-> FALSE]
     /\ half = {} /\ clean = TRUE /\ moved = FALSE

Spec == Init /\ [][Next]_vars

-----------------------------------------------------------------------------
(* Properties. *)

\* What the next plan takes for nothing to do: both versions are the row's.
InSync == row.linked /\ \A s \in Sides : rec[s] # Gone /\ rec[s] = row.v[s]

SameRecords == rec["A"].f = rec["B"].f /\ rec["A"].pos = rec["B"].pos

\* Records the next plan leaves alone agree on the field and the position:
\* whatever was edited, refused, skipped or cut short, run.rs's commit never
\* records as the last agreement two records that differ.  Excepted (half): a
\* plan the command died writing, and a record a run orphaned that someone
\* changed before the run read it back, which orphan() takes for what it wrote
\* ("never a re-read", says run.rs): that change no later plan sees.
InSyncAgrees == InSync /\ half = {} => SameRecords

\* A run never writes over a field the user edited since the sides last agreed,
\* before the plan or while it ran, unless a conflict was resolved that way
\* (decide_field, and the version each put is fenced with).
NoEditOverwritten ==
  [][\A s \in Sides :
       events' = events /\ rec'[s] # Gone /\ rec'[s].f # rec[s].f /\ touched[s]
         => Resolved("f") = Other(s)]_vars

\* Every file of the user's, or made by a sync, that the user did not overwrite
\* or remove is on the disk or in the trash: what a copy, a move, an orphan or a
\* deletion finds in its way, however stale the plan, is trashed
\* (trash_occupant), and one that fails or dies half way destroys nothing.
NothingDestroyed ==
  \A s \in Sides : kept[s] \subseteq trash[s] \cup {disk[s][p].m : p \in Paths}

\* A link, once made, is in the sync database until both its records are gone:
\* a record that outlived its link would be linked anew, to a copy of itself
\* (delete and drop_link: the record first, then the link).
LinkOutlivesRecords == joined /\ ~row.linked => \A s \in Sides : rec[s] = Gone

SameOnDisk == FileAt("A", rec["A"].pos).c = FileAt("B", rec["B"].pos).c

Settled ==
  \/ ~row.linked /\ \A s \in Sides : rec[s] = Gone
  \/ InSync /\ SameOnDisk

\* The end of a run that nothing disturbed, nor the plan before it, whose
\* conflicts were all resolved and whose watchers have nothing left to say.
UndisturbedEnd ==
  At("end") /\ clean /\ ~run.held /\ \A s \in Sides : Watched(s) = rec[s]

\* A sync nothing disturbs settles the link: the records agree, the row says so
\* and the files are alike, or both records and the link are gone.  The plan
\* foresees every operation the state it read needs, and the run's own writes
\* leave nothing for the next plan.  Files both moved and edited are excepted.
SyncSettles == UndisturbedEnd /\ ~moved => Settled

\* The same of every sync (model.rs: "A link is committed only once the two
\* sides agree on all of it").  It fails: plan_link looks at the content only of
\* files that stay where they are, so a file moved and edited since the last
\* sync is moved, committed, and its content left behind.
EverySyncSettles == UndisturbedEnd => Settled
=============================================================================
