----------------------------- MODULE SyncProofs -----------------------------
(***************************************************************************)
(* Proofs about the synchronisation of two repositories: a run destroys no *)
(* file and writes over no edit, a link outlives its records, and what is  *)
(* recorded as agreed agrees, for any values, contents and places and any  *)
(* number of edits, crashes, refusals and failed transfers.  A sync that   *)
(* nothing disturbs settles its link.                                      *)
(***************************************************************************)
EXTENDS Sync, FiniteSetTheorems, TLAPS

-----------------------------------------------------------------------------
(* The invariant *)

Positions == Paths \cup {"gone", "none", "nothing"}

\* The records: Gone is the only one whose position says so.
Recs == {r \in [f : Vals \cup {0}, pos : Positions, stamp : Nat] : r.pos = "gone" => r = Gone}

\* What may be at a place: a file has an mtime.
Files == {x \in [m : Nat, c : Contents \cup Nat, own : BOOLEAN] : x = NoFile \/ x.m > 0}

Kinds == {"create", "sync", "copy", "move", "delete", "drop", "conflict"}

Ops == [kind : Kinds, from : Sides \cup {"none", "skip"}, field : {"none", "f", "pos", "content"}]

Pcs == Resting \cup {"plan_b", "plan", "create", "post", "sync", "field", "place", "copy",
                     "transfer", "refresh_copy", "move", "position", "relocate", "orphan",
                     "clear", "reread", "refresh_move", "commit", "delete", "unlink", "unfile", "drop"}

Snaps == [f : Vals \cup {0}, pos : Positions, stamp : [Sides -> Nat]]

Plans == [ops : SUBSET Ops, base : [Sides -> Recs]]

Runs == [pc : Pcs, known : [Sides -> Recs], old : Positions,
         synced : BOOLEAN, unsettled : BOOLEAN, held : BOOLEAN]

\* The types: what is stored, the client, and the ghosts the proofs look into.
Stored ==
  /\ rec \in [Sides -> Recs]
  /\ disk \in [Sides -> [Paths -> Files]]
  /\ trash \in [Sides -> SUBSET Nat]
  /\ row \in [linked : BOOLEAN, v : [Sides -> Recs], snap : Snaps]
  /\ plan \in Plans
  /\ clock \in Nat

Running == run \in Runs

Ghostly ==
  /\ kept \in [Sides -> SUBSET Nat] /\ touched \in [Sides -> BOOLEAN] /\ half \subseteq {"plan", "orphan"}
  /\ events \in Nat

Typed == Stored /\ Running /\ Ghostly

\* The step of a run, and the kind of operation it is a step of.
StepsOf(kind) ==
  CASE kind = "create" -> {"create", "post"}
    [] kind = "sync" -> {"sync", "field", "place"}
    [] kind = "copy" -> {"copy", "transfer", "refresh_copy"}
    [] kind = "move" -> {"move", "position", "relocate", "orphan", "clear", "reread",
                           "refresh_move"}
    [] kind = "delete" -> {"delete", "unlink", "unfile"}
    [] kind = "drop" -> {"drop"}
    [] OTHER -> {}

\* Where the run has both records in hand.
Reading == {"field", "place", "transfer", "refresh_copy", "position", "relocate", "orphan",
            "clear", "reread", "refresh_move"}

\* The run is at an operation the plan has, knows both records where it works on
\* them, and has chosen a side where it writes files.
Flow ==
  /\ \A kind \in Kinds : run.pc \in StepsOf(kind) => Has(plan.ops, kind)
  /\ run.pc \in Reading \/ run.synced => \A s \in Sides : run.known[s] # Gone
  /\ run.pc \in {"transfer", "refresh_copy"} => Winner("copy", "content") \in Sides
  /\ run.pc \in StepsOf("move") \ {"move"} => Winner("move", "pos") \in Sides
  /\ run.pc \in {"orphan", "clear", "reread"} => ~Real(run.known[Winner("move", "pos")])

\* A row without its link is empty; a link removed leaves no record, and no plan
\* that makes one.  A record a plan read as gone is still gone.
Linkless ==
  /\ ~row.linked => row = NoLink
  /\ joined /\ ~row.linked => (\A s \in Sides : rec[s] = Gone) /\ ~Has(plan.ops, "create")
  /\ run.pc \in {"unlink", "unfile"} => \A s \in Sides : rec[s] = Gone
  /\ run.pc = "plan_b" /\ run.known["A"] = Gone => rec["A"] = Gone
  /\ run.pc = "plan" => \A s \in Sides : run.known[s] = Gone => rec[s] = Gone
  /\ run.pc \in {"plan_b", "plan"} /\ joined /\ ~row.linked =>
       \A s \in Sides : run.known[s] = Gone

\* A plan that deletes or drops makes nothing, and the record whose deletion it
\* propagates is gone for good.
Doomed ==
  /\ Has(plan.ops, "delete") \/ Has(plan.ops, "drop") => ~Has(plan.ops, "create")
  /\ \A o \in plan.ops : o.kind = "delete" => o.from \in Sides /\ rec[Other(o.from)] = Gone

\* As long as the metadata is to be synchronised, a plan that was written whole
\* moves the file exactly when the records were at two places.
Apart(base) == (\A s \in Sides : base[s] # Gone) /\ base["A"].pos # base["B"].pos

Foreseen ==
  Has(plan.ops, "sync") =>
    /\ Has(plan.ops, "move") => Apart(plan.base)
    /\ half = {} /\ Apart(plan.base) => Has(plan.ops, "move")

\* Up to the synchronisation of the metadata the run knows what the plan saw;
\* files are only touched once it is done, or was not to be.
Baselined ==
  /\ run.pc \in {"create", "post", "sync"} =>
       \A s \in Sides : run.known[s] \in {Gone, Seen(plan.base[s])}
  /\ run.pc \in {"field", "place"} =>
       \A s \in Sides : run.known[s].pos = Seen(plan.base[s]).pos
  /\ run.pc \in StepsOf("create") \cup StepsOf("sync") \cup {"plan_b", "plan"} => ~run.synced
  /\ run.pc \in {"copy", "move"} => run.unsettled \/ ~Has(plan.ops, "sync")
  /\ run.pc \in (StepsOf("copy") \cup StepsOf("move")) \ {"copy", "move"} =>
       ~Has(plan.ops, "sync")

SameField == run.known["A"].f = run.known["B"].f
SamePos == run.known["A"].pos = run.known["B"].pos

\* Where a move is still to come.
BeforeMove == StepsOf("copy") \cup {"move", "position", "orphan", "clear", "reread"}

\* What a run that synchronised the metadata and skipped nothing knows.
Agreeing ==
  /\ run.pc = "place" => SameField \/ run.held
  /\ run.pc \in {"relocate", "refresh_move"} => SamePos
  /\ run.synced /\ ~run.unsettled =>
       /\ SameField \/ run.held \/ half # {}
       /\ Has(plan.ops, "move") => \A s \in Sides : run.known[s].pos # "none"
       /\ SamePos \/ run.held \/ half # {} \/ (run.pc \in BeforeMove /\ Has(plan.ops, "move"))

\* The versions of a row are those of two records that agree.
RowAgrees ==
  row.linked /\ half = {} /\ (\A s \in Sides : row.v[s] # Gone) =>
    row.v["A"].f = row.v["B"].f /\ row.v["A"].pos = row.v["B"].pos

\* A file that is kept is on the disk or in the trash, and none is the file that
\* is no file.
KeptSafe ==
  \A s \in Sides :
    /\ 0 \notin kept[s]
    /\ \A x \in kept[s] : x \in trash[s] \/ \E p \in Paths : disk[s][p].m = x

\* An edit to a field shows in its record.
TouchedShows ==
  \A s \in Sides : touched[s] => rec[s] # Gone /\ rec[s].f # row.snap.f

Inv ==
  /\ Typed /\ Flow /\ Linkless /\ Doomed /\ Foreseen /\ Baselined /\ Agreeing
  /\ RowAgrees /\ KeptSafe /\ TouchedShows

-----------------------------------------------------------------------------
(* Records, sides, phases *)

\* The two sides.
LEMMA SidesLemma ==
  /\ \A s : Other(s) \in Sides
  /\ \A s \in Sides : Other(s) # s /\ Other(Other(s)) = s
  /\ \A s \in Sides, u \in Sides : u = s \/ u = Other(s)
BY DEF Sides, Other

\* The records there are from the start, and that a record which is there keeps
\* being one when a part of it is set.
LEMMA RecordLemma ==
  /\ Gone \in Recs /\ Bare \in Recs /\ Bare # Gone
  /\ Gone.f = 0 /\ Gone.pos = "gone" /\ Bare.f = 0 /\ Bare.pos = "none"
  /\ \A r \in Recs : r # Gone <=> r.pos # "gone"
  /\ \A r \in Recs \ {Gone} :
       /\ \A v \in Vals \cup {0} : [r EXCEPT !.f = v] \in Recs \ {Gone}
       /\ \A p \in Positions \ {"gone"} : [r EXCEPT !.pos = p] \in Recs \ {Gone}
       /\ \A m \in Nat : [r EXCEPT !.stamp = m] \in Recs \ {Gone}
<1>1. Gone = [f |-> 0, pos |-> "gone", stamp |-> 0] /\ Bare = [f |-> 0, pos |-> "none", stamp |-> 0]
  BY DEF Gone, Bare, Record
<1>2. "gone" \in Positions /\ "none" \in Positions
  BY DEF Positions
<1>3. Gone \in Recs /\ Bare \in Recs /\ Bare # Gone
  BY <1>1, <1>2 DEF Recs
<1>4. \A r \in Recs : r # Gone <=> r.pos # "gone"
  BY <1>1 DEF Recs
<1>5. ASSUME NEW r \in Recs, r # Gone
      PROVE  /\ \A v \in Vals \cup {0} : [r EXCEPT !.f = v] \in Recs \ {Gone}
             /\ \A p \in Positions \ {"gone"} : [r EXCEPT !.pos = p] \in Recs \ {Gone}
             /\ \A m \in Nat : [r EXCEPT !.stamp = m] \in Recs \ {Gone}
  <2>1. r \in [f : Vals \cup {0}, pos : Positions, stamp : Nat] /\ r.pos # "gone"
    BY <1>4, <1>5 DEF Recs
  <2>2. ASSUME NEW q \in [f : Vals \cup {0}, pos : Positions, stamp : Nat], q.pos # "gone"
        PROVE  q \in Recs \ {Gone}
    BY <2>2, <1>1 DEF Recs
  <2> QED BY <2>1, <2>2
<1> QED BY <1>1, <1>3, <1>4, <1>5

\* A phase is followed by the first one after it that has an operation.
LEMMA AfterLemma ==
  ASSUME NEW ops, NEW k \in 1..8, NEW n \in 1..8, k < n,
         Phases[n] \in {"commit", "end"} \/ Has(ops, Phases[n]),
         \A j \in 1..8 : k < j /\ j < n =>
           ~(Phases[j] \in {"commit", "end"} \/ Has(ops, Phases[j]))
  PROVE  After(Phases[k], ops) = Phases[n]
<1> DEFINE next == {i \in DOMAIN Phases : i > k /\ (Phases[i] \in {"commit", "end"}
                                                  \/ Has(ops, Phases[i]))}
<1>1. DOMAIN Phases = 1..8
  BY DEF Phases
<1>2. \A i \in 1..8 : Phases[i] = Phases[k] => i = k
  BY DEF Phases
<1>3. (CHOOSE i \in DOMAIN Phases : Phases[i] = Phases[k]) = k
  BY <1>1, <1>2
<1>4. n \in next /\ \A j \in next : n <= j
  BY <1>1
<1>5. \A i : i \in next /\ (\A j \in next : i <= j) => i = n
  BY <1>1, <1>4
<1>6. (CHOOSE i \in next : \A j \in next : i <= j) = n
  <2> HIDE DEF next
  <2> QED BY <1>4, <1>5
<1> QED BY <1>3, <1>6 DEF After

\* The phase after each.
LEMMA PhasesLemma ==
  ASSUME NEW ops
  PROVE  /\ After("create", ops) = IF Has(ops, "sync") THEN "sync" ELSE After("sync", ops)
         /\ After("sync", ops) = IF Has(ops, "copy") THEN "copy" ELSE After("copy", ops)
         /\ After("copy", ops) = IF Has(ops, "move") THEN "move" ELSE "commit"
         /\ After("move", ops) = "commit"
         /\ After("commit", ops) = IF Has(ops, "delete") THEN "delete" ELSE After("delete", ops)
         /\ After("delete", ops) = IF Has(ops, "drop") THEN "drop" ELSE "end"
         /\ After("drop", ops) = "end"
<1>1. /\ Phases[1] = "create" /\ Phases[2] = "sync" /\ Phases[3] = "copy" /\ Phases[4] = "move"
      /\ Phases[5] = "commit" /\ Phases[6] = "delete" /\ Phases[7] = "drop" /\ Phases[8] = "end"
  BY DEF Phases
<1> DEFINE Stops(i) == Phases[i] \in {"commit", "end"} \/ Has(ops, Phases[i])
<1>2. ASSUME NEW k \in 1..8, NEW n \in 1..8, k < n, Stops(n),
             \A j \in 1..8 : k < j /\ j < n => ~Stops(j)
      PROVE  After(Phases[k], ops) = Phases[n]
  BY <1>2, AfterLemma
<1>3. /\ Stops(5) /\ Stops(8)
      /\ Stops(2) <=> Has(ops, "sync")
      /\ Stops(3) <=> Has(ops, "copy")
      /\ Stops(4) <=> Has(ops, "move")
      /\ Stops(6) <=> Has(ops, "delete")
      /\ Stops(7) <=> Has(ops, "drop")
  BY <1>1
<1> HIDE DEF Stops
<1>4. After(Phases[7], ops) = Phases[8] /\ After(Phases[4], ops) = Phases[5]
  BY <1>2, <1>3
<1>5. After(Phases[6], ops) = IF Stops(7) THEN Phases[7] ELSE Phases[8]
  BY <1>2, <1>3
<1>6. After(Phases[5], ops) = IF Stops(6) THEN Phases[6] ELSE IF Stops(7) THEN Phases[7] ELSE Phases[8]
  BY <1>2, <1>3
<1>7. After(Phases[3], ops) = IF Stops(4) THEN Phases[4] ELSE Phases[5]
  BY <1>2, <1>3
<1>8. After(Phases[2], ops) = IF Stops(3) THEN Phases[3] ELSE IF Stops(4) THEN Phases[4] ELSE Phases[5]
  BY <1>2, <1>3
<1>9. After(Phases[1], ops) = IF Stops(2) THEN Phases[2] ELSE IF Stops(3) THEN Phases[3]
                              ELSE IF Stops(4) THEN Phases[4] ELSE Phases[5]
  BY <1>2, <1>3
<1> QED BY <1>1, <1>3, <1>4, <1>5, <1>6, <1>7, <1>8, <1>9

\* A kind that is pruned is the only one that goes.
LEMMA WithoutLemma ==
  ASSUME NEW ops, NEW kind, NEW k
  PROVE  /\ Without(ops, kind) \subseteq ops
         /\ Has(Without(ops, kind), k) <=> k # kind /\ Has(ops, k)
         /\ ~Has({}, k)
         /\ Has(ops, k) => ops # {}
BY DEF Without, Has

-----------------------------------------------------------------------------
(* How a run goes on *)

\* The first steps of the phases that may follow.
NextPhases == {"sync", "copy", "move", "commit", "delete", "drop"}

\* What a run gone on looks like: over, or at the next phase with what it knows.
LEMMA GoOnLemma ==
  ASSUME NEW kind, NEW r \in Runs, GoOn(kind, r), After(kind, plan.ops) \in NextPhases \cup {"end"}
  PROVE  /\ run' \in Runs
         /\ \/ run'.pc = "end" /\ ~run'.synced /\ After(kind, plan.ops) = "end"
            \/ /\ run'.pc = After(kind, plan.ops) /\ run'.pc \in NextPhases
               /\ run'.known = r.known /\ run'.held = r.held
               /\ run'.synced = r.synced /\ run'.unsettled = r.unsettled
<1>1. [Idle EXCEPT !.pc = "end", !.held = r.held] \in Runs
  BY RecordLemma DEF Idle, Runs, Pcs, Resting, Positions
<1>2. ASSUME NEW pc \in NextPhases
      PROVE  [r EXCEPT !.pc = pc, !.old = "none"] \in Runs
  BY DEF Runs, Pcs, NextPhases, Positions
<1>3. CASE After(kind, plan.ops) = "end"
  <2>1. run' = [Idle EXCEPT !.pc = "end", !.held = r.held]
    BY <1>3 DEF GoOn
  <2>2. run'.pc = "end" /\ run'.synced = FALSE
    BY <2>1 DEF Idle
  <2> QED BY <1>1, <1>3, <2>1, <2>2
<1>4. CASE After(kind, plan.ops) # "end"
  <2> DEFINE pc == After(kind, plan.ops)
  <2>1. run' = [r EXCEPT !.pc = pc, !.old = "none"] /\ pc \in NextPhases
    BY <1>4 DEF GoOn
  <2> HIDE DEF pc
  <2>2. /\ run'.pc = pc
        /\ run'.known = r.known /\ run'.held = r.held
        /\ run'.synced = r.synced /\ run'.unsettled = r.unsettled
    BY <2>1 DEF Runs
  <2> QED BY <1>2, <2>1, <2>2 DEF pc
<1> QED BY <1>3, <1>4

\* The kinds that are phases, and what follows them.
LEMMA FollowLemma ==
  ASSUME NEW kind \in {"create", "sync", "copy", "move", "commit", "delete", "drop"}, NEW ops
  PROVE  /\ After(kind, ops) \in NextPhases \cup {"end"} /\ After(kind, ops) # kind
         /\ After(kind, ops) \notin {"commit", "end"} => Has(ops, After(kind, ops))
         /\ After(kind, ops) = "sync" => kind = "create"
         /\ After(kind, ops) \in {"copy", "move"} => kind \in {"create", "sync", "copy"}
         /\ After(kind, ops) \in {"copy", "move"} /\ kind = "create" => ~Has(ops, "sync")
         /\ kind \in {"sync", "copy"} /\ Has(ops, "move") => After(kind, ops) \in {"copy", "move"}
BY PhasesLemma DEF NextPhases

\* What is pruned of the plan.
LEMMA PrunedLemma ==
  ASSUME NEW kind, plan \in Plans
  PROVE  /\ Pruned(kind) \in Plans
         /\ Pruned(kind).ops = Without(plan.ops, kind)
         /\ Pruned(kind).ops # {} => Pruned(kind).base = plan.base
<1>1. NoPlan \in Plans /\ NoPlan.ops = {}
  BY RecordLemma DEF NoPlan, Plans
<1>2. Without(plan.ops, kind) \subseteq Ops
  BY WithoutLemma DEF Plans
<1>3. [plan EXCEPT !.ops = Without(plan.ops, kind)] \in Plans
  BY <1>2 DEF Plans
<1> QED BY <1>1, <1>3 DEF Pruned, Plans

\* The steps of each kind.
LEMMA StepsLemma ==
  /\ StepsOf("create") = {"create", "post"}
  /\ StepsOf("sync") = {"sync", "field", "place"}
  /\ StepsOf("copy") = {"copy", "transfer", "refresh_copy"}
  /\ StepsOf("move") = {"move", "position", "relocate", "orphan", "clear", "reread",
                           "refresh_move"}
  /\ StepsOf("delete") = {"delete", "unlink", "unfile"}
  /\ StepsOf("drop") = {"drop"}
  /\ StepsOf("conflict") = {}
BY DEF StepsOf

\* What the runs have to keep to.
RunInv == Running /\ plan \in Plans /\ Flow /\ Foreseen /\ Baselined /\ Agreeing

\* A client that does nothing has nothing to keep to.
LEMMA RestLemma ==
  ASSUME run' \in Runs, run'.pc \in Resting, ~run'.synced
  PROVE  Flow' /\ Baselined' /\ Agreeing'
BY StepsLemma DEF Flow, Baselined, Agreeing, Resting, Reading, Kinds

\* The plan keeps foreseeing what is left of it.
LEMMA ForeseenLemma ==
  ASSUME Foreseen, half \subseteq half', plan \in Plans, NEW kind, plan' \in {plan, Pruned(kind)},
         kind = "move" /\ Has(plan.ops, "sync") => plan' = plan
  PROVE  Foreseen'
<1>1. CASE plan' = plan
  BY <1>1 DEF Foreseen
<1>2. CASE plan' = Pruned(kind) /\ (kind = "move" => ~Has(plan.ops, "sync"))
  <2>1. ASSUME Has(plan'.ops, "sync")
        PROVE  /\ Has(plan.ops, "sync") /\ plan'.base = plan.base
               /\ Has(plan'.ops, "move") <=> Has(plan.ops, "move")
    <3>1. plan'.ops = Without(plan.ops, kind) /\ (plan'.ops # {} => plan'.base = plan.base)
      BY <1>2, PrunedLemma
    <3>2. Has(plan.ops, "sync") /\ plan'.ops # {} 
      BY <3>1, <2>1, WithoutLemma
    <3>3. Has(plan'.ops, "move") <=> kind # "move" /\ Has(plan.ops, "move")
      BY <3>1, WithoutLemma
    <3> QED BY <3>1, <3>2, <3>3, <1>2
  <2>2. CASE Has(plan'.ops, "sync")
    <3>1. Apart(plan.base) <=> Apart(plan'.base)
      BY <2>1, <2>2
    <3> QED BY <2>1, <2>2, <3>1 DEF Foreseen
  <2> QED BY <2>2 DEF Foreseen
<1> QED BY <1>1, <1>2

\* A run that goes on to its next phase keeps to its invariants, if what it knows
\* is what its operation is to leave.
LEMMA GoesOnLemma ==
  ASSUME RunInv, half \subseteq half',
         NEW kind \in {"create", "sync", "copy", "move", "commit", "delete", "drop"},
         NEW r \in Runs, GoOn(kind, r),
         NEW gone, plan' \in {plan, Pruned(gone)}, gone \in {kind, "conflict"},
         r.synced => \A s \in Sides : r.known[s] # Gone,
         gone = "move" /\ Has(plan.ops, "sync") => plan' = plan,
         kind = "create" => ~r.synced /\ \A s \in Sides : r.known[s] \in {Gone, Seen(plan.base[s])},
         kind = "sync" => r.unsettled \/ plan' = Pruned("sync"),
         kind = "copy" => r.unsettled \/ ~Has(plan.ops, "sync"),
         r.synced /\ ~r.unsettled =>
           /\ r.known["A"].f = r.known["B"].f \/ r.held \/ half' # {}
           /\ Has(plan.ops, "move") /\ Has(plan'.ops, "move") => \A s \in Sides : r.known[s].pos # "none"
           /\ \/ r.known["A"].pos = r.known["B"].pos \/ r.held \/ half' # {}
              \/ kind \in {"sync", "copy"} /\ Has(plan.ops, "move")
  PROVE  RunInv'
<1>1. plan \in Plans /\ Foreseen
  BY DEF RunInv
<1>2. plan' \in Plans
  BY <1>1, PrunedLemma
<1>3. Foreseen'
  BY <1>1, ForeseenLemma
<1>4. /\ After(kind, plan.ops) \in NextPhases \cup {"end"} /\ After(kind, plan.ops) # kind
      /\ After(kind, plan.ops) \notin {"commit", "end"} => Has(plan.ops, After(kind, plan.ops))
      /\ After(kind, plan.ops) = "sync" => kind = "create"
      /\ After(kind, plan.ops) \in {"copy", "move"} => kind \in {"create", "sync", "copy"}
      /\ After(kind, plan.ops) \in {"copy", "move"} /\ kind = "create" => ~Has(plan.ops, "sync")
      /\ kind \in {"sync", "copy"} /\ Has(plan.ops, "move") => After(kind, plan.ops) \in {"copy", "move"}
  BY FollowLemma
<1>5. /\ run' \in Runs
      /\ \/ run'.pc = "end" /\ ~run'.synced /\ After(kind, plan.ops) = "end"
         \/ /\ run'.pc = After(kind, plan.ops) /\ run'.pc \in NextPhases
            /\ run'.known = r.known /\ run'.held = r.held
            /\ run'.synced = r.synced /\ run'.unsettled = r.unsettled
  BY <1>4, GoOnLemma
<1>6. CASE run'.pc = "end" /\ ~run'.synced
  BY <1>2, <1>3, <1>5, <1>6, RestLemma DEF RunInv, Running, Resting
<1>7. CASE /\ run'.pc = After(kind, plan.ops) /\ run'.pc \in NextPhases
           /\ run'.known = r.known /\ run'.held = r.held
           /\ run'.synced = r.synced /\ run'.unsettled = r.unsettled
  <2>1. \A k : Has(plan'.ops, k) => Has(plan.ops, k)
    BY <1>1, PrunedLemma, WithoutLemma
  <2>2. \A k : k \notin {kind, "conflict"} /\ Has(plan.ops, k) => Has(plan'.ops, k)
    BY <1>1, PrunedLemma, WithoutLemma
  <2>3. plan'.ops # {} => plan'.base = plan.base
    BY <1>1, PrunedLemma
  <2>4. run'.pc # "commit" => Has(plan'.ops, run'.pc)
    BY <1>4, <1>7, <2>2 DEF NextPhases
  <2>5. Flow'
    BY <1>7, <2>4, StepsLemma DEF Flow, NextPhases, Reading, Kinds
  <2>6. Baselined'
    <3>1. run'.pc = "sync" => \A s \in Sides : run'.known[s] \in {Gone, Seen(plan'.base[s])}
      <4> SUFFICES ASSUME run'.pc = "sync"
                   PROVE  \A s \in Sides : run'.known[s] \in {Gone, Seen(plan'.base[s])}
        OBVIOUS
      <4>1. kind = "create"
        BY <1>4, <1>7
      <4>2. plan'.ops # {}
        BY <2>4, WithoutLemma
      <4> QED BY <4>1, <4>2, <2>3, <1>7
    <3>2. run'.pc \in StepsOf("create") \cup StepsOf("sync") \cup {"plan_b", "plan"} => ~run'.synced
      BY <1>4, <1>7, StepsLemma DEF NextPhases
    <3>3. run'.pc \in {"copy", "move"} => run'.unsettled \/ ~Has(plan'.ops, "sync")
      <4>1. CASE kind = "create"
        BY <4>1, <1>4, <1>7, <2>1
      <4>2. CASE kind = "sync"
        <5>1. plan' = Pruned("sync") => ~Has(plan'.ops, "sync")
          BY <1>1, PrunedLemma, WithoutLemma
        <5> QED BY <4>2, <5>1, <1>7
      <4>3. CASE kind = "copy"
        BY <4>3, <1>7, <2>1
      <4> QED BY <4>1, <4>2, <4>3, <1>4, <1>7
    <3> QED BY <3>1, <3>2, <3>3, <1>7, StepsLemma DEF Baselined, NextPhases
  <2>7. Agreeing'
    <3> SUFFICES ASSUME run'.synced, ~run'.unsettled
                 PROVE  /\ (SameField \/ run.held \/ half # {})'
                        /\ Has(plan'.ops, "move") => \A s \in Sides : run'.known[s].pos # "none"
                        /\ \/ (SamePos \/ run.held \/ half # {})'
                           \/ run'.pc \in BeforeMove /\ Has(plan'.ops, "move")
      BY <1>7 DEF Agreeing, NextPhases
    <3>1. (SameField \/ run.held \/ half # {})'
      BY <1>7 DEF SameField
    <3>2. Has(plan'.ops, "move") => \A s \in Sides : run'.known[s].pos # "none"
      BY <1>7, <2>1
    <3>3. \/ (SamePos \/ run.held \/ half # {})'
          \/ run'.pc \in BeforeMove /\ Has(plan'.ops, "move")
      <4>1. CASE kind \in {"sync", "copy"} /\ Has(plan.ops, "move")
        BY <4>1, <1>4, <1>7, <2>2, StepsLemma DEF BeforeMove
      <4> QED BY <4>1, <1>7 DEF SamePos
    <3> QED BY <3>1, <3>2, <3>3
  <2> QED BY <1>2, <1>3, <1>5, <2>5, <2>6, <2>7 DEF RunInv, Running
<1> QED BY <1>5, <1>6, <1>7

\* The kinds an operation that is done or skipped has.
OpKinds == {"create", "sync", "copy", "move", "delete", "drop"}

\* The client stops, and what it stopped at keeps its operation.
LEMMA StopLemma ==
  ASSUME RunInv, half \subseteq half', plan' = plan, run' = Idle
  PROVE  RunInv'
<1>1. Idle \in Runs /\ Idle.pc \in Resting /\ Idle.synced = FALSE
  BY RecordLemma DEF Idle, Runs, Pcs, Resting, Positions
<1>2. plan \in Plans /\ Foreseen
  BY DEF RunInv
<1>3. Foreseen'
  BY <1>2, ForeseenLemma
<1> QED BY <1>1, <1>2, <1>3, RestLemma DEF RunInv, Running

\* An operation skipped leaves the link unsettled.
LEMMA SkippedLemma ==
  ASSUME RunInv, half' = half, NEW kind \in OpKinds, NEW r \in Runs, Skipped(kind, r),
         r.synced => \A s \in Sides : r.known[s] # Gone,
         kind = "create" => ~r.synced /\ \A s \in Sides : r.known[s] \in {Gone, Seen(plan.base[s])}
  PROVE  RunInv'
<1> DEFINE u == [r EXCEPT !.unsettled = TRUE]
<1>1. u \in Runs /\ u.unsettled = TRUE /\ u.known = r.known /\ u.synced = r.synced
  BY DEF Runs
<1>2. GoOn(kind, u) /\ plan' = plan
  BY DEF Skipped
<1> HIDE DEF u
<1> QED BY <1>1, <1>2, GoesOnLemma DEF OpKinds

\* An operation done is pruned, unless the client died first.
LEMMA SettleLemma ==
  ASSUME RunInv, half \subseteq half', NEW kind \in OpKinds, NEW r \in Runs, Settle(kind, r),
         r.synced \/ kind = "sync" => \A s \in Sides : r.known[s] # Gone,
         kind = "move" => ~Has(plan.ops, "sync"),
         kind = "create" => ~r.synced /\ \A s \in Sides : r.known[s] \in {Gone, Seen(plan.base[s])},
         kind = "copy" => r.unsettled \/ ~Has(plan.ops, "sync"),
         (r.synced \/ kind = "sync") /\ ~r.unsettled =>
           /\ r.known["A"].f = r.known["B"].f \/ r.held \/ half' # {}
           /\ Has(plan.ops, "move") /\ kind # "move" => \A s \in Sides : r.known[s].pos # "none"
           /\ \/ r.known["A"].pos = r.known["B"].pos \/ r.held \/ half' # {}
              \/ kind \in {"sync", "copy"} /\ Has(plan.ops, "move")
  PROVE  RunInv'
<1>1. CASE run' = Idle /\ plan' = plan
  BY <1>1, StopLemma
<1>2. CASE Done(kind, r)
  <2> DEFINE u == [r EXCEPT !.synced = @ \/ kind = "sync"]
  <2>1. /\ u \in Runs /\ u.unsettled = r.unsettled /\ u.known = r.known /\ u.held = r.held
        /\ u.synced <=> r.synced \/ kind = "sync"
    BY DEF Runs
  <2>2. GoOn(kind, u) /\ plan' = Pruned(kind)
    BY <1>2 DEF Done
  <2> HIDE DEF u
  <2>3. r.unsettled \in BOOLEAN /\ r.held \in BOOLEAN
    BY DEF Runs
  <2>4. /\ u.synced => \A s \in Sides : u.known[s] # Gone
        /\ kind = "move" /\ Has(plan.ops, "sync") => plan' = plan
        /\ kind = "create" => ~u.synced /\ \A s \in Sides : u.known[s] \in {Gone, Seen(plan.base[s])}
        /\ kind = "sync" => u.unsettled \/ plan' = Pruned("sync")
        /\ kind = "copy" => u.unsettled \/ ~Has(plan.ops, "sync")
    BY <2>1, <2>2
  <2>5. u.synced /\ ~u.unsettled =>
           /\ u.known["A"].f = u.known["B"].f \/ u.held \/ half' # {}
           /\ Has(plan.ops, "move") /\ Has(plan'.ops, "move") => \A s \in Sides : u.known[s].pos # "none"
           /\ \/ u.known["A"].pos = u.known["B"].pos \/ u.held \/ half' # {}
              \/ kind \in {"sync", "copy"} /\ Has(plan.ops, "move")
    <3>1. kind = "move" => ~Has(plan'.ops, "move")
      BY <2>2, PrunedLemma, WithoutLemma DEF RunInv
    <3> QED BY <2>1, <2>3, <3>1
  <2>6. kind \in {"create", "sync", "copy", "move", "commit", "delete", "drop"}
    BY DEF OpKinds
  <2> QED BY <2>1, <2>2, <2>4, <2>5, <2>6, GoesOnLemma
<1> QED BY <1>1, <1>2 DEF Settle

\* The user, the watcher and a step that only reads leave the run and the plan.
LEMMA SameRunLemma ==
  ASSUME RunInv, half' = half, plan' = plan, run' \in {run, Idle}
  PROVE  RunInv'
<1>1. CASE run' = Idle
  BY <1>1, StopLemma
<1>2. CASE run' = run
  <2>1. /\ Winner("copy", "content")' = Winner("copy", "content")
        /\ Winner("move", "pos")' = Winner("move", "pos")
    BY DEF Winner, OpOf, Resolved
  <2>2. Flow'
    BY <1>2, <2>1 DEF RunInv, Flow
  <2>3. Foreseen' /\ Baselined' /\ Agreeing'
    BY <1>2 DEF RunInv, Foreseen, Baselined, Agreeing, SameField, SamePos
  <2> QED BY <1>2, <2>2, <2>3 DEF RunInv, Running
<1> QED BY <1>1, <1>2

\* What the run expects of a record is what it knows of it, or what the plan saw.
LEMMA FreshLemma ==
  ASSUME Fresh
  PROVE  /\ \A s \in Sides : rec[s] # Gone
         /\ \A s \in Sides : run.known[s] # Gone => rec[s] = run.known[s]
         /\ \A s \in Sides : run.known[s] = Gone => rec[s] = plan.base[s]
BY DEF Fresh, Expected

\* Those that read two fresh records know both.
LEMMA KnowsLemma ==
  ASSUME RunInv, rec \in [Sides -> Recs], Fresh
  PROVE  /\ [run EXCEPT !.known = rec] \in Runs
         /\ run.synced => rec = run.known
BY FreshLemma DEF RunInv, Flow, Running, Runs

-----------------------------------------------------------------------------
(* The steps of the client, and what a run keeps to *)

\* RunStart: the first phase.
LEMMA StartRun ==
  ASSUME RunInv, RunStart
  PROVE  RunInv'
<1>1. plan' = plan /\ half' = half /\ run' = [Idle EXCEPT !.pc = FirstPhase(plan.ops)]
  BY DEF RunStart, data, ghosts, world
<1>2. /\ FirstPhase(plan.ops) \in NextPhases \cup {"create"}
      /\ FirstPhase(plan.ops) # "commit" => Has(plan.ops, FirstPhase(plan.ops))
      /\ FirstPhase(plan.ops) \in {"copy", "move"} => ~Has(plan.ops, "sync")
  BY PhasesLemma DEF FirstPhase, NextPhases
<1>3. /\ run' \in Runs /\ run'.pc = FirstPhase(plan.ops)
      /\ run'.synced = FALSE /\ \A s \in Sides : run'.known[s] = Gone
  <2>1. FirstPhase(plan.ops) \in Pcs
    BY <1>2 DEF Pcs, NextPhases
  <2> QED BY <1>1, <2>1, RecordLemma DEF Idle, Runs, Positions
<1>4. Foreseen'
  BY <1>1 DEF RunInv, Foreseen
<1>5. Flow'
  BY <1>1, <1>2, <1>3, StepsLemma DEF Flow, NextPhases, Reading, Kinds
<1>6. Baselined' /\ Agreeing'
  BY <1>1, <1>2, <1>3, StepsLemma DEF Baselined, Agreeing, NextPhases
<1> QED BY <1>1, <1>3, <1>4, <1>5, <1>6 DEF RunInv, Running

\* A step inside an operation leaves the plan; what is left is what it knows.
LEMMA InsideLemma ==
  ASSUME RunInv, half' = half, plan' = plan, run' \in Runs,
         NEW kind \in {"create", "sync", "copy", "move", "delete"}, run.pc \in StepsOf(kind),
         run'.pc \in StepsOf(kind), run'.pc # kind,
         run'.synced = run.synced, run'.unsettled = run.unsettled,
         run'.pc \in Reading \/ run.synced => \A s \in Sides : run'.known[s] # Gone,
         kind = "copy" => Winner("copy", "content") \in Sides,
         kind = "move" => Winner("move", "pos") \in Sides,
         kind \in {"copy", "move"} => ~run.unsettled \/ run.pc # kind,
         run'.pc \in {"orphan", "clear", "reread"} => ~Real(run'.known[Winner("move", "pos")]),
         run'.pc = "post" => \A s \in Sides : run'.known[s] \in {Gone, Seen(plan.base[s])},
         run'.pc \in {"field", "place"} =>
           \A s \in Sides : run'.known[s].pos = Seen(plan.base[s]).pos,
         Agreeing'
  PROVE  RunInv'
<1>1. /\ Winner("copy", "content")' = Winner("copy", "content")
      /\ Winner("move", "pos")' = Winner("move", "pos")
  BY DEF Winner, OpOf, Resolved
<1>2. Has(plan.ops, kind)
  BY DEF RunInv, Flow, Kinds
<1>3. Flow'
  <2>1. \A k \in Kinds : run'.pc \in StepsOf(k) => Has(plan'.ops, k)
    BY <1>2, StepsLemma DEF Kinds
  <2> QED BY <2>1, <1>1, StepsLemma DEF Flow
<1>4. Foreseen'
  BY DEF RunInv, Foreseen
<1>5. Baselined'
  <2>1. run.pc \in StepsOf("create") \cup StepsOf("sync") => ~run.synced
    BY DEF RunInv, Baselined
  <2>2. run.pc \in StepsOf("copy") \cup StepsOf("move") =>
          ~Has(plan.ops, "sync") \/ (run.unsettled /\ run.pc \in {"copy", "move"})
    BY DEF RunInv, Baselined
  <2>3. run.unsettled \in BOOLEAN
    BY DEF RunInv, Running, Runs
  <2> QED BY <2>1, <2>2, <2>3, StepsLemma DEF Baselined
<1> QED BY <1>3, <1>4, <1>5 DEF RunInv, Running

\* RunCreate.
LEMMA CreateRun ==
  ASSUME RunInv, Stored, RunCreate
  PROVE  RunInv'
<1> DEFINE bare == {s \in Sides : plan.base[s] = Gone /\ rec[s] = Gone}
           known == [s \in Sides |-> IF s \in bare THEN Bare ELSE run.known[s]]
<1>1. /\ run.pc = "create" /\ plan' = plan /\ half' = half
      /\ run' = [run EXCEPT !.pc = "post", !.known = known]
  BY DEF RunCreate, At, ghosts
<1>2. known \in [Sides -> Recs]
  BY RecordLemma DEF RunInv, Running, Runs
<1>3. \A s \in Sides : known[s] \in {Gone, Seen(plan.base[s])}
  BY <1>1 DEF RunInv, Baselined, Seen
<1>4. ~run.synced
  BY <1>1, StepsLemma DEF RunInv, Baselined
<1> HIDE DEF known
<1>5. /\ run' \in Runs /\ run'.pc = "post" /\ run'.known = known /\ run'.synced = run.synced
      /\ run'.unsettled = run.unsettled
  BY <1>1, <1>2 DEF RunInv, Running, Runs, Pcs
<1>6. Agreeing'
  BY <1>4, <1>5 DEF Agreeing
<1> QED BY <1>1, <1>3, <1>4, <1>5, <1>6, InsideLemma, StepsLemma DEF Reading

\* RunPost.
LEMMA PostRun ==
  ASSUME RunInv, Stored, RunPost
  PROVE  RunInv'
<1>1. run.pc = "post" /\ half' = half /\ run \in Runs
  BY DEF RunPost, At, RunInv, Running
<1>2. ~run.synced /\ \A s \in Sides : run.known[s] \in {Gone, Seen(plan.base[s])}
  BY <1>1, StepsLemma DEF RunInv, Baselined
<1>3. CASE Skipped("create", run)
  BY <1>1, <1>2, <1>3, SkippedLemma DEF OpKinds
<1>4. CASE Fresh /\ Settle("create", [run EXCEPT !.known = rec])
  <2> DEFINE r == [run EXCEPT !.known = rec]
  <2>1. r \in Runs /\ r.known = rec /\ r.synced = run.synced
    BY <1>4, KnowsLemma DEF Stored, RunInv, Running, Runs
  <2>2. \A s \in Sides : rec[s] \in {Gone, Seen(plan.base[s])}
    BY <1>2, <1>4, FreshLemma DEF Seen
  <2>3. Settle("create", r)
    BY <1>4
  <2> HIDE DEF r
  <2> QED BY <1>1, <1>2, <2>1, <2>2, <2>3, SettleLemma DEF OpKinds
<1> QED BY <1>3, <1>4 DEF RunPost

\* RunSync.
LEMMA SyncRun ==
  ASSUME RunInv, Stored, RunSync
  PROVE  RunInv'
<1>1. run.pc = "sync" /\ half' = half /\ run \in Runs
  BY DEF RunSync, At, RunInv, Running, ghosts
<1>2. /\ ~run.synced /\ \A s \in Sides : run.known[s] \in {Gone, Seen(plan.base[s])}
  BY <1>1, StepsLemma DEF RunInv, Baselined
<1>3. CASE Skipped("sync", run)
  BY <1>1, <1>2, <1>3, SkippedLemma DEF OpKinds
<1>4. CASE Fresh /\ run' = [run EXCEPT !.pc = "field", !.known = rec] /\ plan' = plan
  <2>1. \A s \in Sides : rec[s] # Gone /\ rec[s].pos = Seen(plan.base[s]).pos
    BY <1>2, <1>4, FreshLemma DEF Seen
  <2>2. /\ run' \in Runs /\ run'.pc = "field" /\ run'.known = rec /\ run'.synced = run.synced
        /\ run'.unsettled = run.unsettled
    BY <1>4 DEF Stored, RunInv, Running, Runs, Pcs
  <2>3. Agreeing'
    BY <1>2, <2>2 DEF Agreeing
  <2> QED BY <1>1, <1>2, <1>4, <2>1, <2>2, <2>3, InsideLemma, StepsLemma
<1> QED BY <1>3, <1>4 DEF RunSync, TurnedAway, Turned

\* decide_field: one of two values that differ has changed.
LEMMA DecideLemma ==
  ASSUME NEW x, NEW y, NEW z
  PROVE  /\ DecideField(x, y, z) \in {"insync", "conflict"} \cup Sides
         /\ DecideField(x, y, z) = "insync" <=> x = y
         /\ DecideField(x, y, z) = "conflict" <=> x # y /\ x # z /\ y # z
         /\ DecideField(x, y, z) = "A" <=> x # y /\ y = z
         /\ DecideField(x, y, z) = "B" <=> x # y /\ x = z
BY DEF DecideField, Changed, Sides

\* A record a run may write is as it knows it, and stays one.
LEMMA WriteLemma ==
  ASSUME Stored, RunInv, run.pc \in Reading, NEW s \in Sides, rec[s] = run.known[s]
  PROVE  /\ rec[s] \in Recs \ {Gone}
         /\ \A v \in Vals \cup {0} : [rec[s] EXCEPT !.f = v] \in Recs \ {Gone}
         /\ \A p \in Positions \ {"gone"} : [rec[s] EXCEPT !.pos = p] \in Recs \ {Gone}
         /\ \A m \in Nat : [rec[s] EXCEPT !.stamp = m] \in Recs \ {Gone}
         /\ \A u \in Sides : /\ run.known[u] \in Recs \ {Gone}
                             /\ run.known[u].f \in Vals \cup {0}
                             /\ run.known[u].pos \in Positions \ {"gone"}
<1>1. rec[s] \in Recs /\ \A u \in Sides : run.known[u] \in Recs \ {Gone}
  BY DEF Stored, RunInv, Running, Runs, Flow
<1>2. \A r \in Recs \ {Gone} : r.f \in Vals \cup {0} /\ r.pos \in Positions \ {"gone"}
  BY RecordLemma DEF Recs
<1> QED BY <1>1, <1>2, RecordLemma

\* What a run knows once it has written a record.
LEMMA WroteLemma ==
  ASSUME NEW r \in Runs, NEW s \in Sides, NEW new \in Recs
  PROVE  /\ Knows(r, s, new) \in Runs
         /\ Knows(r, s, new).known[s] = new
         /\ \A u \in Sides : u # s => Knows(r, s, new).known[u] = r.known[u]
         /\ Knows(r, s, new).pc = r.pc /\ Knows(r, s, new).synced = r.synced
         /\ Knows(r, s, new).unsettled = r.unsettled /\ Knows(r, s, new).held = r.held
         /\ Knows(r, s, new).old = r.old
BY DEF Knows, Runs

\* RunField.
LEMMA FieldRun ==
  ASSUME RunInv, Stored, RunField
  PROVE  RunInv'
<1> DEFINE d == DecideField(run.known["A"].f, run.known["B"].f, row.snap.f)
           from == IF d = "conflict" THEN Resolved("f") ELSE d
           to == Other(from)
           next == [run EXCEPT !.pc = "place", !.held = @ \/ (d = "conflict" /\ from \notin Sides)]
<1>1. run.pc = "field" /\ half' = half /\ run \in Runs
  BY DEF RunField, At, RunInv, Running
<1>2. /\ ~run.synced /\ \A s \in Sides : run.known[s] # Gone
      /\ \A s \in Sides : run.known[s].pos = Seen(plan.base[s]).pos
  BY <1>1, StepsLemma DEF RunInv, Baselined, Flow, Reading
<1>3. /\ d = "insync" => run.known["A"].f = run.known["B"].f
      /\ d \in {"insync", "conflict"} \cup Sides
  BY DecideLemma
<1>4. /\ next \in Runs /\ next.pc = "place" /\ next.known = run.known
      /\ next.synced = run.synced /\ next.unsettled = run.unsettled
      /\ d = "conflict" /\ from \notin Sides => next.held = TRUE
  BY <1>1 DEF Runs, Pcs
<1>5. \/ from \notin Sides /\ run' = next /\ plan' = plan
      \/ /\ from \in Sides
         /\ Put(to, run, [rec[to] EXCEPT !.f = run.known[from].f])
         /\ run' = Knows(next, to, rec'[to]) /\ plan' = plan
      \/ Skipped("sync", run)
  BY DEF RunField, Refused
<1> HIDE DEF next
<1>6. CASE Skipped("sync", run)
  BY <1>1, <1>2, <1>6, SkippedLemma DEF OpKinds
<1>7. ASSUME plan' = plan, run' \in Runs, run'.pc = "place", run'.synced = run.synced,
             run'.unsettled = run.unsettled, (SameField \/ run.held)',
             \A s \in Sides : run'.known[s] # Gone /\ run'.known[s].pos = run.known[s].pos
      PROVE  RunInv'
  <2>1. Agreeing'
    BY <1>2, <1>7 DEF Agreeing
  <2> QED BY <1>1, <1>2, <1>7, <2>1, InsideLemma, StepsLemma
<1>8. CASE from \notin Sides /\ run' = next /\ plan' = plan
  <2>1. (SameField \/ run.held)'
    BY <1>3, <1>4, <1>8 DEF SameField
  <2> QED BY <1>2, <1>4, <1>7, <1>8, <2>1
<1>9. CASE /\ from \in Sides
           /\ Put(to, run, [rec[to] EXCEPT !.f = run.known[from].f])
           /\ run' = Knows(next, to, rec'[to]) /\ plan' = plan
  <2> DEFINE new == [rec[to] EXCEPT !.f = run.known[from].f]
  <2>1. to \in Sides /\ from \in Sides /\ to # from /\ \A s \in Sides : s = to \/ s = from
    BY <1>9, SidesLemma
  <2> HIDE DEF to, from
  <2>2. rec[to] = run.known[to] /\ rec' = [rec EXCEPT ![to] = new]
    BY <1>9 DEF Put
  <2>3. new \in Recs \ {Gone} /\ run.known[from].f \in Vals \cup {0}
    BY <1>1, <2>1, <2>2, WriteLemma DEF Reading
  <2>4. new.f = run.known[from].f /\ new.pos = run.known[to].pos
    BY <2>1, <2>2 DEF Stored, Recs
  <2>5. rec'[to] = new
    BY <2>1, <2>2 DEF Stored
  <2> HIDE DEF new
  <2>6. /\ run' \in Runs /\ run'.pc = "place" /\ run'.synced = run.synced
        /\ run'.unsettled = run.unsettled /\ run'.known[to] = new /\ run'.known[from] = run.known[from]
    <3>1. new \in Recs /\ run' = Knows(next, to, new)
      BY <1>9, <2>3, <2>5
    <3>2. next \in Runs
      BY <1>4
    <3> QED BY <3>1, <3>2, <1>4, <2>1, WroteLemma
  <2>7. \A s \in Sides : run'.known[s] # Gone /\ run'.known[s].pos = run.known[s].pos
    BY <1>2, <2>1, <2>3, <2>4, <2>6
  <2>8. run'.known[to].f = run'.known[from].f
    BY <2>4, <2>6
  <2>9. run'.known["A"].f = run'.known["B"].f
    BY <2>1, <2>8 DEF Sides
  <2>10. (SameField \/ run.held)'
    BY <2>9 DEF SameField
  <2> QED BY <1>7, <1>9, <2>6, <2>7, <2>10
<1> QED BY <1>5, <1>6, <1>8, <1>9

\* RunPlace.
LEMMA PlaceRun ==
  ASSUME RunInv, Stored, RunPlace
  PROVE  RunInv'
<1> DEFINE here == {s \in Sides : run.known[s].pos = "none" /\ run.known[Other(s)].pos # "none"}
<1>1. run.pc = "place" /\ half' = half /\ run \in Runs
  BY DEF RunPlace, At, RunInv, Running
<1>2. /\ \A s \in Sides : run.known[s] \in Recs \ {Gone}
      /\ \A s \in Sides : run.known[s].pos = Seen(plan.base[s]).pos
      /\ SameField \/ run.held
      /\ ~run.synced
  BY <1>1, StepsLemma DEF RunInv, Running, Runs, Baselined, Flow, Reading, Agreeing
<1>3. Has(plan.ops, "sync")
  BY <1>1, StepsLemma DEF RunInv, Flow, Kinds
<1>4. /\ Has(plan.ops, "move") => Apart(plan.base)
      /\ half = {} /\ Apart(plan.base) => Has(plan.ops, "move")
  BY <1>3 DEF RunInv, Foreseen
<1>5. /\ Apart(plan.base) =>
           /\ run.known["A"].pos # run.known["B"].pos
      /\ run.known["A"].pos # run.known["B"].pos /\ (\A s \in Sides : run.known[s].pos # "none")
           => Apart(plan.base)
  BY <1>2, RecordLemma DEF Apart, Seen, Sides
<1>6. \/ here = {} /\ Settle("sync", run)
      \/ \E s \in here : \/ /\ rec[s] = run.known[s]
                            /\ rec' = [rec EXCEPT ![s].pos = run.known[Other(s)].pos]
                            /\ Settle("sync", Knows(run, s, rec'[s]))
                         \/ Skipped("sync", run)
  BY DEF RunPlace, Refused
<1>7. CASE Skipped("sync", run)
  BY <1>1, <1>2, <1>7, SkippedLemma DEF OpKinds
<1>8. CASE here = {} /\ Settle("sync", run)
  <2>1. run.known["A"].pos # run.known["B"].pos => \A s \in Sides : run.known[s].pos # "none"
    BY <1>8 DEF Sides, Other
  <2>2. Has(plan.ops, "move") => \A s \in Sides : run.known[s].pos # "none"
    BY <2>1, <1>4, <1>5
  <2>3. run.known["A"].pos = run.known["B"].pos \/ half # {} \/ Has(plan.ops, "move")
    BY <2>1, <1>4, <1>5 DEF RunInv, Foreseen
  <2> QED BY <1>1, <1>2, <1>8, <2>2, <2>3, SettleLemma DEF OpKinds, SameField
<1>9. ASSUME NEW s \in here, rec[s] = run.known[s],
             rec' = [rec EXCEPT ![s].pos = run.known[Other(s)].pos],
             Settle("sync", Knows(run, s, rec'[s]))
      PROVE  RunInv'
  <2> DEFINE t == Other(s)
             new == [rec[s] EXCEPT !.pos = run.known[t].pos]
  <2>1. s \in Sides /\ t \in Sides /\ t # s /\ \A u \in Sides : u = s \/ u = t
    BY SidesLemma
  <2>2. run.known[t].pos # "none"
    OBVIOUS
  <2> HIDE DEF t, here
  <2>3. rec' = [rec EXCEPT ![s] = new]
    BY <1>9 DEF t
  <2>4. new \in Recs \ {Gone} /\ rec'[s] = new
    BY <1>1, <1>9, <2>1, <2>3, WriteLemma DEF Reading, Stored
  <2>5. new.pos = run.known[t].pos /\ new.f = run.known[s].f
    BY <2>1, <1>9 DEF Stored, Recs
  <2> HIDE DEF new
  <2> DEFINE r == Knows(run, s, new)
  <2>6. /\ r \in Runs /\ r.synced = run.synced /\ r.unsettled = run.unsettled
        /\ r.held = run.held /\ r.known[s] = new /\ r.known[t] = run.known[t]
    <3>1. new \in Recs /\ run \in Runs
      BY <1>1, <2>4
    <3> QED BY <3>1, <2>1, WroteLemma
  <2>7. Settle("sync", r)
    BY <1>9, <2>4
  <2> HIDE DEF r
  <2>8. \A u \in Sides : r.known[u] # Gone /\ r.known[u].pos # "none"
    BY <2>1, <2>2, <2>4, <2>5, <2>6, <1>2
  <2>9. r.known["A"].pos = r.known["B"].pos
    BY <2>1, <2>5, <2>6 DEF Sides
  <2>10. r.known["A"].f = r.known["B"].f \/ r.held
    BY <1>2, <2>1, <2>5, <2>6 DEF SameField, Sides
  <2> QED BY <1>1, <1>2, <2>6, <2>7, <2>8, <2>9, <2>10, SettleLemma DEF OpKinds
<1> QED BY <1>6, <1>7, <1>8, <1>9

\* What a run that works on the files of its link has settled.
LEMMA MetadataLemma ==
  ASSUME RunInv, run.pc \in (StepsOf("copy") \cup StepsOf("move")) \ {"copy", "move"}
                   \/ (run.pc \in {"copy", "move"} /\ ~run.unsettled)
  PROVE  /\ run \in Runs /\ ~Has(plan.ops, "sync")
         /\ run.synced => \A s \in Sides : run.known[s] # Gone
         /\ run.synced /\ ~run.unsettled =>
              /\ run.known["A"].f = run.known["B"].f \/ run.held \/ half # {}
              /\ Has(plan.ops, "move") => \A s \in Sides : run.known[s].pos # "none"
              /\ \/ run.known["A"].pos = run.known["B"].pos \/ run.held \/ half # {}
                 \/ run.pc \in BeforeMove /\ Has(plan.ops, "move")
BY DEF RunInv, Running, Runs, Baselined, Flow, Agreeing, SameField, SamePos

\* RunCopy.
LEMMA CopyRun ==
  ASSUME RunInv, Stored, RunCopy
  PROVE  RunInv'
<1> DEFINE from == Winner("copy", "content")
<1>1. run.pc = "copy" /\ half' = half /\ run \in Runs
  BY DEF RunCopy, At, RunInv, Running
<1>2. \/ Skipped("copy", run)
      \/ /\ ~Turned("copy")
         /\ \/ Settle("copy", [run EXCEPT !.known = rec, !.held = TRUE])
            \/ from \in Sides /\ run' = [run EXCEPT !.pc = "transfer", !.known = rec] /\ plan' = plan
  BY DEF RunCopy, TurnedAway
<1>3. CASE Skipped("copy", run)
  <2>1. run.synced => \A s \in Sides : run.known[s] # Gone
    BY DEF RunInv, Flow
  <2> QED BY <1>1, <1>3, <2>1, SkippedLemma DEF OpKinds
<1>4. CASE ~Turned("copy")
  <2>1. Fresh /\ ~run.unsettled
    BY <1>4 DEF Turned
  <2>2. /\ ~Has(plan.ops, "sync")
        /\ run.synced => rec = run.known
        /\ \A s \in Sides : rec[s] # Gone
    BY <1>1, <2>1, MetadataLemma, KnowsLemma, FreshLemma DEF Stored
  <2>3. CASE Settle("copy", [run EXCEPT !.known = rec, !.held = TRUE])
    <3> DEFINE r == [run EXCEPT !.known = rec, !.held = TRUE]
    <3>1. r \in Runs /\ r.known = rec /\ r.held = TRUE /\ r.synced = run.synced
      BY <1>1 DEF Runs, Stored
    <3>2. Settle("copy", r)
      BY <2>3
    <3> HIDE DEF r
    <3>3. run.synced /\ ~run.unsettled /\ Has(plan.ops, "move") =>
            \A s \in Sides : run.known[s].pos # "none"
      BY <1>1, <2>1, MetadataLemma
    <3>4. r.synced /\ Has(plan.ops, "move") => \A s \in Sides : r.known[s].pos # "none"
      BY <3>1, <3>3, <2>1, <2>2
    <3> QED BY <1>1, <2>2, <3>1, <3>2, <3>4, SettleLemma DEF OpKinds
  <2>4. CASE from \in Sides /\ run' = [run EXCEPT !.pc = "transfer", !.known = rec] /\ plan' = plan
    <3>1. /\ run' \in Runs /\ run'.pc = "transfer" /\ run'.known = rec /\ run'.held = run.held
          /\ run'.synced = run.synced /\ run'.unsettled = run.unsettled
      BY <1>1, <2>4 DEF Runs, Stored, Pcs
    <3>2. Agreeing'
      <4>1. run'.synced => run'.known = run.known
        BY <2>2, <3>1
      <4>2. run.pc \in BeforeMove /\ run'.pc \in BeforeMove
        BY <1>1, <3>1, StepsLemma DEF BeforeMove
      <4> QED BY <1>1, <2>4, <3>1, <4>1, <4>2 DEF RunInv, Agreeing, SameField, SamePos
    <3> QED BY <1>1, <2>1, <2>2, <2>4, <3>1, <3>2, InsideLemma, StepsLemma
  <2> QED BY <1>2, <2>3, <2>4, <1>3
<1> QED BY <1>2, <1>3, <1>4

\* A step inside the work on the files that knows no more than before.
LEMMA SameKnownLemma ==
  ASSUME RunInv, half' = half, plan' = plan, NEW kind \in {"copy", "move"},
         NEW pc \in Pcs, run' = [run EXCEPT !.pc = pc],
         run.pc \in StepsOf(kind) \ {kind}, pc \in StepsOf(kind) \ {kind},
         pc = "clear" => run.pc = "orphan", pc \notin {"orphan", "relocate"},
         pc = "reread" => run.pc = "clear",
         pc = "refresh_move" => run.pc = "relocate"
  PROVE  RunInv'
<1>1. /\ run' \in Runs /\ run'.pc = pc /\ run'.known = run.known /\ run'.held = run.held
      /\ run'.synced = run.synced /\ run'.unsettled = run.unsettled /\ run \in Runs
  BY DEF RunInv, Running, Runs
<1>2. /\ \A s \in Sides : run.known[s] # Gone
      /\ kind = "copy" => Winner("copy", "content") \in Sides
      /\ kind = "move" => Winner("move", "pos") \in Sides
      /\ run.pc \in {"orphan", "clear", "reread"} => ~Real(run.known[Winner("move", "pos")])
  BY StepsLemma DEF RunInv, Flow, Reading
<1>3. Agreeing'
  <2>1. pc \in {"relocate", "refresh_move"} => SamePos
    BY DEF RunInv, Agreeing
  <2>2. run.pc \in BeforeMove => pc \in BeforeMove
    BY StepsLemma DEF BeforeMove
  <2> QED BY <1>1, <2>1, <2>2, StepsLemma DEF RunInv, Agreeing, SameField, SamePos
<1> QED BY <1>1, <1>2, <1>3, InsideLemma, StepsLemma

\* An operation on files that is skipped half way.
LEMMA FileSkippedLemma ==
  ASSUME RunInv, half' = half, NEW kind \in {"copy", "move"}, Skipped(kind, run)
  PROVE  RunInv'
<1>1. run \in Runs /\ (run.synced => \A s \in Sides : run.known[s] # Gone)
  BY DEF RunInv, Flow, Running
<1> QED BY <1>1, SkippedLemma DEF OpKinds

\* RunTransfer.
LEMMA TransferRun ==
  ASSUME RunInv, Stored, RunTransfer
  PROVE  RunInv'
<1>1. run.pc = "transfer" /\ half' = half
  BY DEF RunTransfer, At
<1>2. \/ Skipped("copy", run)
      \/ run' = [run EXCEPT !.pc = "refresh_copy"] /\ plan' = plan
  BY DEF RunTransfer
<1>3. CASE run' = [run EXCEPT !.pc = "refresh_copy"] /\ plan' = plan
  BY <1>1, <1>3, SameKnownLemma, StepsLemma DEF Pcs
<1> QED BY <1>1, <1>2, <1>3, FileSkippedLemma

\* RunRefresh, of either kind.
LEMMA RefreshRun ==
  ASSUME RunInv, Stored, NEW kind \in {"copy", "move"}, NEW s \in Sides, RunRefresh(kind, s),
         run.pc = IF kind = "copy" THEN "refresh_copy" ELSE "refresh_move"
  PROVE  RunInv'
<1> DEFINE file == FileAt(s, rec[s].pos)
           new == [rec[s] EXCEPT !.stamp = file.m]
<1>1. half' = half /\ run \in Runs
  BY DEF RunRefresh, RunInv, Running
<1>2. \/ Skipped(kind, run)
      \/ /\ rec[s] = run.known[s] /\ file # NoFile
         /\ rec' = [rec EXCEPT ![s].stamp = file.m]
         /\ Settle(kind, Knows(run, s, rec'[s]))
  BY DEF RunRefresh
<1>3. CASE /\ rec[s] = run.known[s] /\ file # NoFile
           /\ rec' = [rec EXCEPT ![s].stamp = file.m]
           /\ Settle(kind, Knows(run, s, rec'[s]))
  <2>1. file.m \in Nat
    BY <1>3 DEF FileAt, Stored, Files
  <2> HIDE DEF file
  <2>2. new \in Recs \ {Gone}
    BY <1>3, <2>1, WriteLemma DEF Reading
  <2>3. new.pos = run.known[s].pos /\ new.f = run.known[s].f
    BY <1>3 DEF Stored, Recs
  <2>4. rec'[s] = new
    BY <1>3 DEF Stored
  <2> HIDE DEF new
  <2> DEFINE r == Knows(run, s, new)
  <2>5. new \in Recs
    BY <2>2
  <2>6. /\ r \in Runs /\ r.synced = run.synced /\ r.unsettled = run.unsettled /\ r.held = run.held
        /\ r.known[s] = new /\ \A u \in Sides : u # s => r.known[u] = run.known[u]
    BY <1>1, <2>5, WroteLemma
  <2>7. Settle(kind, r)
    BY <1>3, <2>4
  <2> HIDE DEF r
  <2>8. \A u \in Sides : r.known[u].pos = run.known[u].pos /\ r.known[u].f = run.known[u].f
    BY <2>3, <2>6
  <2>9. \A u \in Sides : r.known[u] # Gone
    BY <2>2, <2>6, StepsLemma DEF RunInv, Flow, Reading
  <2>10. /\ ~Has(plan.ops, "sync")
         /\ run.synced /\ ~run.unsettled =>
              /\ run.known["A"].f = run.known["B"].f \/ run.held \/ half # {}
              /\ Has(plan.ops, "move") => \A u \in Sides : run.known[u].pos # "none"
              /\ \/ run.known["A"].pos = run.known["B"].pos \/ run.held \/ half # {}
                 \/ run.pc \in BeforeMove /\ Has(plan.ops, "move")
    BY MetadataLemma, StepsLemma
  <2>11. kind = "move" => run.pc \notin BeforeMove
    BY StepsLemma DEF BeforeMove
  <2>12. /\ r.known["A"].pos = run.known["A"].pos /\ r.known["B"].pos = run.known["B"].pos
         /\ r.known["A"].f = run.known["A"].f /\ r.known["B"].f = run.known["B"].f
    BY <2>8 DEF Sides
  <2>13. r.synced /\ ~r.unsettled =>
              /\ r.known["A"].f = r.known["B"].f \/ r.held \/ half # {}
              /\ Has(plan.ops, "move") => \A u \in Sides : r.known[u].pos # "none"
              /\ \/ r.known["A"].pos = r.known["B"].pos \/ r.held \/ half # {}
                 \/ kind \in {"sync", "copy"} /\ Has(plan.ops, "move")
    BY <2>6, <2>8, <2>10, <2>11, <2>12
  <2> QED BY <1>1, <2>6, <2>7, <2>9, <2>10, <2>13, SettleLemma DEF OpKinds
<1> QED BY <1>1, <1>2, <1>3, FileSkippedLemma

\* RunMove.
LEMMA MoveRun ==
  ASSUME RunInv, Stored, RunMove
  PROVE  RunInv'
<1> DEFINE w == Winner("move", "pos")
           pc == IF Real(rec[w]) THEN "position" ELSE "orphan"
<1>1. run.pc = "move" /\ half' = half /\ run \in Runs
  BY DEF RunMove, At, RunInv, Running
<1>2. \/ Skipped("move", run)
      \/ /\ ~Turned("move")
         /\ \/ Settle("move", [run EXCEPT !.known = rec, !.held = TRUE])
            \/ /\ w \in Sides /\ plan' = plan
               /\ run' = [run EXCEPT !.pc = pc, !.known = rec, !.old = rec[Other(w)].pos]
  BY DEF RunMove, TurnedAway
<1>3. CASE Skipped("move", run)
  BY <1>1, <1>3, FileSkippedLemma
<1>4. CASE ~Turned("move")
  <2>1. Fresh /\ ~run.unsettled
    BY <1>4 DEF Turned
  <2>2. /\ ~Has(plan.ops, "sync")
        /\ run.synced => rec = run.known
        /\ \A s \in Sides : rec[s] # Gone
        /\ run.synced /\ Has(plan.ops, "move") => \A s \in Sides : run.known[s].pos # "none"
    BY <1>1, <2>1, MetadataLemma, KnowsLemma, FreshLemma DEF Stored
  <2>3. CASE Settle("move", [run EXCEPT !.known = rec, !.held = TRUE])
    <3> DEFINE r == [run EXCEPT !.known = rec, !.held = TRUE]
    <3>1. r \in Runs /\ r.known = rec /\ r.held = TRUE /\ r.synced = run.synced
      BY <1>1 DEF Runs, Stored
    <3>2. Settle("move", r)
      BY <2>3
    <3> HIDE DEF r
    <3>3. r.synced /\ Has(plan.ops, "move") => \A s \in Sides : r.known[s].pos # "none"
      BY <3>1, <2>2
    <3> QED BY <1>1, <2>2, <3>1, <3>2, <3>3, SettleLemma DEF OpKinds
  <2>4. CASE /\ w \in Sides /\ plan' = plan
             /\ run' = [run EXCEPT !.pc = pc, !.known = rec, !.old = rec[Other(w)].pos]
    <3>1. rec[Other(w)].pos \in Positions /\ pc \in Pcs
      BY SidesLemma DEF Stored, Recs, Pcs
    <3>2. /\ run' \in Runs /\ run'.pc = pc /\ run'.known = rec /\ run'.held = run.held
          /\ run'.synced = run.synced /\ run'.unsettled = run.unsettled
      <4> HIDE DEF pc, w
      <4> QED BY <1>1, <2>4, <3>1 DEF Runs, Stored
    <3>3. pc \in {"position", "orphan"} /\ (pc = "orphan" => ~Real(rec[w]))
      OBVIOUS
    <3> HIDE DEF pc
    <3>4. Agreeing'
      <4>1. run'.synced => run'.known = run.known
        BY <2>2, <3>2
      <4>2. run.pc \in BeforeMove /\ run'.pc \in BeforeMove
        BY <1>1, <3>2, <3>3, StepsLemma DEF BeforeMove
      <4> QED BY <1>1, <2>4, <3>2, <3>3, <4>1, <4>2 DEF RunInv, Agreeing, SameField, SamePos
    <3>5. run'.pc \in {"orphan", "clear", "reread"} => ~Real(run'.known[Winner("move", "pos")])
      BY <3>2, <3>3
    <3> HIDE DEF w
    <3>6. w = Winner("move", "pos")
      BY DEF w
    <3> QED BY <1>1, <2>1, <2>2, <2>4, <3>2, <3>3, <3>4, <3>5, <3>6, InsideLemma, StepsLemma
  <2> QED BY <1>2, <2>3, <2>4, <1>3
<1> QED BY <1>2, <1>3, <1>4

\* RunPosition.
LEMMA PositionRun ==
  ASSUME RunInv, Stored, RunPosition
  PROVE  RunInv'
<1> DEFINE w == Winner("move", "pos")
           s == Other(w)
           new == [rec[s] EXCEPT !.pos = run.known[w].pos]
<1>1. run.pc = "position" /\ half' = half /\ run \in Runs
  BY DEF RunPosition, At, RunInv, Running
<1>2. \/ Skipped("move", run)
      \/ /\ rec[s] = run.known[s] /\ rec' = [rec EXCEPT ![s] = new]
         /\ run' = [Knows(run, s, rec'[s]) EXCEPT !.pc = "relocate"] /\ plan' = plan
  BY DEF RunPosition, Refused, Put
<1>3. w \in Sides /\ \A u \in Sides : run.known[u] # Gone
  BY <1>1, StepsLemma DEF RunInv, Flow, Reading
<1>4. CASE /\ rec[s] = run.known[s] /\ rec' = [rec EXCEPT ![s] = new]
           /\ run' = [Knows(run, s, rec'[s]) EXCEPT !.pc = "relocate"] /\ plan' = plan
  <2>1. s \in Sides /\ s # w /\ \A u \in Sides : u = s \/ u = w
    BY <1>3, SidesLemma
  <2>2. w = Winner("move", "pos")
    OBVIOUS
  <2> HIDE DEF w, s
  <2>3. /\ new \in Recs \ {Gone}
        /\ \A u \in Sides : run.known[u].pos \in Positions \ {"gone"}
    BY <1>1, <1>3, <1>4, <2>1, WriteLemma DEF Reading
  <2>4. new.pos = run.known[w].pos /\ new.f = run.known[s].f
    BY <1>4, <2>1 DEF Stored, Recs
  <2>5. rec'[s] = new /\ new \in Recs
    BY <1>4, <2>1, <2>3 DEF Stored
  <2> HIDE DEF new
  <2> DEFINE r == Knows(run, s, new)
  <2>6. /\ r \in Runs /\ r.synced = run.synced /\ r.unsettled = run.unsettled /\ r.held = run.held
        /\ r.known[s] = new /\ r.known[w] = run.known[w]
    BY <1>1, <1>3, <2>1, <2>5, WroteLemma
  <2>7. run' = [r EXCEPT !.pc = "relocate"]
    BY <1>4, <2>5
  <2> HIDE DEF r
  <2>8. /\ run' \in Runs /\ run'.pc = "relocate" /\ run'.known = r.known /\ run'.held = r.held
        /\ run'.synced = r.synced /\ run'.unsettled = r.unsettled
    BY <2>6, <2>7 DEF Runs, Pcs
  <2>9. \A u \in Sides : run'.known[u] # Gone
    BY <1>3, <2>1, <2>3, <2>6, <2>8
  <2>10. run'.known["A"].pos = run'.known["B"].pos
    BY <1>3, <2>1, <2>4, <2>6, <2>8 DEF Sides
  <2>11. run'.known["A"].f = run.known["A"].f /\ run'.known["B"].f = run.known["B"].f
    BY <1>3, <2>1, <2>4, <2>6, <2>8 DEF Sides
  <2>12. Agreeing'
    <3>1. run.synced /\ ~run.unsettled =>
            /\ run.known["A"].f = run.known["B"].f \/ run.held \/ half # {}
            /\ Has(plan.ops, "move") => \A u \in Sides : run.known[u].pos # "none"
      BY <1>1, MetadataLemma, StepsLemma
    <3>2. (\A u \in Sides : run.known[u].pos # "none") => \A u \in Sides : run'.known[u].pos # "none"
      BY <1>3, <2>1, <2>4, <2>6, <2>8
    <3> QED BY <1>1, <1>4, <2>6, <2>8, <2>10, <2>11, <3>1, <3>2 DEF Agreeing, SameField, SamePos
  <2> QED BY <1>1, <1>3, <1>4, <2>2, <2>6, <2>8, <2>9, <2>12, InsideLemma, StepsLemma
<1> QED BY <1>1, <1>2, <1>4, FileSkippedLemma

\* A move is done once the two positions are the same.
LEMMA MovedLemma ==
  ASSUME RunInv, half \subseteq half', NEW r \in Runs, Settle("move", r),
         run.pc \in StepsOf("move") \ {"move"},
         r.synced = run.synced, r.unsettled = run.unsettled, r.held = run.held,
         \A s \in Sides : r.known[s] # Gone,
         half' = {} => \A s \in Sides : r.known[s].f = run.known[s].f,
         run.synced /\ ~run.unsettled =>
           r.known["A"].pos = r.known["B"].pos \/ r.held \/ half' # {}
  PROVE  RunInv'
<1>1. /\ ~Has(plan.ops, "sync")
      /\ run.synced /\ ~run.unsettled => run.known["A"].f = run.known["B"].f \/ run.held \/ half # {}
  BY MetadataLemma, StepsLemma
<1>2. half' = {} => r.known["A"].f = run.known["A"].f /\ r.known["B"].f = run.known["B"].f
  BY DEF Sides
<1> QED BY <1>1, <1>2, SettleLemma DEF OpKinds

\* RunRelocate.
LEMMA RelocateRun ==
  ASSUME RunInv, Stored, RunRelocate
  PROVE  RunInv'
<1>1. run.pc = "relocate" /\ half' = half /\ run \in Runs
  BY DEF RunRelocate, At, RunInv, Running
<1>2. \/ Skipped("move", run)
      \/ run' = [run EXCEPT !.pc = "refresh_move"] /\ plan' = plan
      \/ Settle("move", run)
  BY DEF RunRelocate
<1>3. CASE run' = [run EXCEPT !.pc = "refresh_move"] /\ plan' = plan
  BY <1>1, <1>3, SameKnownLemma, StepsLemma DEF Pcs
<1>4. CASE Settle("move", run)
  <2>1. /\ \A s \in Sides : run.known[s] # Gone
        /\ run.known["A"].pos = run.known["B"].pos
        /\ Has(plan.ops, "move")
    BY <1>1, StepsLemma DEF RunInv, Flow, Reading, Agreeing, SamePos, Kinds
  <2>2. run.synced /\ ~run.unsettled => \A s \in Sides : run.known[s].pos # "none"
    BY <1>1, <2>1, MetadataLemma, StepsLemma
  <2> QED BY <1>1, <1>4, <2>1, <2>2, MovedLemma, StepsLemma
<1> QED BY <1>1, <1>2, <1>3, <1>4, FileSkippedLemma

\* What an orphaned record has to agree with: the winner's is nowhere.
LEMMA NowhereLemma ==
  ASSUME RunInv, run.pc \in {"orphan", "clear", "reread"}
  PROVE  /\ Winner("move", "pos") \in Sides
         /\ \A s \in Sides : run.known[s] \in Recs \ {Gone}
         /\ run.synced /\ ~run.unsettled =>
              /\ run.known[Winner("move", "pos")].pos = "nothing"
              /\ \A s \in Sides : run.known[s].pos # "none"
<1> DEFINE w == Winner("move", "pos")
<1>1. /\ w \in Sides /\ Has(plan.ops, "move") /\ ~Real(run.known[w])
      /\ \A s \in Sides : run.known[s] \in Recs \ {Gone}
  BY StepsLemma DEF RunInv, Flow, Reading, Kinds, Running, Runs
<1>2. run.synced /\ ~run.unsettled => \A s \in Sides : run.known[s].pos # "none"
  BY <1>1, MetadataLemma, StepsLemma
<1> HIDE DEF w
<1>3. run.known[w].pos \in Positions /\ run.known[w].pos # "gone"
  BY <1>1, RecordLemma DEF Recs
<1>4. run.known[w].pos \in {"none", "nothing"}
  BY <1>1, <1>3 DEF Real, Positions
<1> QED BY <1>1, <1>2, <1>4 DEF w

\* The loser's record is orphaned, and the move is done.
LEMMA OrphanedLemma ==
  ASSUME RunInv, Stored, half' = half, run.pc = "orphan",
         NEW s, s = Other(Winner("move", "pos")),
         rec[s] = run.known[s], rec' = [rec EXCEPT ![s].pos = "nothing"],
         Settle("move", Knows(run, s, rec'[s]))
  PROVE  RunInv'
<1> DEFINE new == [rec[s] EXCEPT !.pos = "nothing"]
<1>1. PICK w : w = Winner("move", "pos")
  OBVIOUS
<1>2. s \in Sides /\ w \in Sides /\ s # w /\ \A u \in Sides : u = s \/ u = w
  BY <1>1, NowhereLemma, SidesLemma
<1>3. new \in Recs \ {Gone}
  BY <1>2, WriteLemma DEF Reading, Positions
<1>4. new.pos = "nothing" /\ new.f = run.known[s].f /\ rec'[s] = new
  BY <1>2 DEF Stored, Recs
<1> HIDE DEF new
<1> DEFINE r == Knows(run, s, new)
<1>5. new \in Recs /\ run \in Runs
  BY <1>3 DEF RunInv, Running
<1>6. /\ r \in Runs /\ r.synced = run.synced /\ r.unsettled = run.unsettled /\ r.held = run.held
      /\ r.known[s] = new /\ r.known[w] = run.known[w]
  BY <1>2, <1>5, WroteLemma
<1>7. Settle("move", r)
  BY <1>4
<1> HIDE DEF r
<1>8. \A u \in Sides : r.known[u] # Gone /\ r.known[u].f = run.known[u].f
  BY <1>2, <1>3, <1>4, <1>6, NowhereLemma
<1>9. run.synced /\ ~run.unsettled => \A u \in Sides : r.known[u].pos = "nothing"
  BY <1>1, <1>2, <1>4, <1>6, NowhereLemma
<1>10. run.synced /\ ~run.unsettled =>
          r.known["A"].pos = r.known["B"].pos /\ \A u \in Sides : r.known[u].pos # "none"
  BY <1>9 DEF Sides
<1> QED BY <1>6, <1>7, <1>8, <1>10, MovedLemma, StepsLemma

\* RunOrphan.
LEMMA OrphanRun ==
  ASSUME RunInv, Stored, RunOrphan
  PROVE  RunInv'
<1>1. PICK s : s = Other(Winner("move", "pos"))
  OBVIOUS
<1>2. run.pc = "orphan" /\ half' = half /\ run \in Runs
  BY DEF RunOrphan, At, RunInv, Running
<1>3. \/ run.known[s].pos = "nothing" /\ Settle("move", run)
      \/ /\ rec[s] = run.known[s] /\ rec' = [rec EXCEPT ![s].pos = "nothing"]
         /\ Settle("move", Knows(run, s, rec'[s]))
      \/ Skipped("move", run)
      \/ run' = [run EXCEPT !.pc = "clear"] /\ plan' = plan
  BY <1>1 DEF RunOrphan, Refused
<1>4. CASE run.known[s].pos = "nothing" /\ Settle("move", run)
  <2>1. /\ \A u \in Sides : run.known[u] # Gone
        /\ run.synced /\ ~run.unsettled =>
             /\ \A u \in Sides : run.known[u].pos # "none"
             /\ \A u \in Sides : run.known[u].pos = "nothing"
    BY <1>1, <1>2, <1>4, NowhereLemma, SidesLemma
  <2>2. run.synced /\ ~run.unsettled => run.known["A"].pos = run.known["B"].pos
    BY <2>1 DEF Sides
  <2> QED BY <1>2, <1>4, <2>1, <2>2, MovedLemma, StepsLemma
<1>5. CASE /\ rec[s] = run.known[s] /\ rec' = [rec EXCEPT ![s].pos = "nothing"]
           /\ Settle("move", Knows(run, s, rec'[s]))
  BY <1>1, <1>2, <1>5, OrphanedLemma
<1>6. CASE run' = [run EXCEPT !.pc = "clear"] /\ plan' = plan
  BY <1>2, <1>6, SameKnownLemma, StepsLemma DEF Pcs
<1> QED BY <1>2, <1>3, <1>4, <1>5, <1>6, FileSkippedLemma

\* RunClear.
LEMMA ClearRun ==
  ASSUME RunInv, Stored, RunClear
  PROVE  RunInv'
<1>1. run.pc = "clear" /\ half' = half
  BY DEF RunClear, At
<1>2. Skipped("move", run) \/ (run' = [run EXCEPT !.pc = "reread"] /\ plan' = plan)
  BY DEF RunClear
<1>3. CASE run' = [run EXCEPT !.pc = "reread"] /\ plan' = plan
  BY <1>1, <1>3, SameKnownLemma, StepsLemma DEF Pcs
<1> QED BY <1>1, <1>2, <1>3, FileSkippedLemma

\* RunReread: what is read back is what the run left, or half says so.
LEMMA RereadRun ==
  ASSUME RunInv, Stored, RunReread
  PROVE  RunInv'
<1>1. PICK w, s : w = Winner("move", "pos") /\ s = Other(w)
  OBVIOUS
<1>2. run.pc = "reread" /\ half \subseteq half'
  BY DEF RunReread, At
<1>3. w \in Sides /\ s \in Sides /\ s # w /\ \A u \in Sides : u = s \/ u = w
  BY <1>1, <1>2, NowhereLemma, SidesLemma
<1>4. \A u \in Sides : run.known[u] \in Recs \ {Gone}
  BY <1>2, NowhereLemma
<1>5. PICK r : /\ r = IF rec[s] = Gone THEN run ELSE Knows(run, s, rec[s])
               /\ Settle("move", r)
  BY <1>1 DEF RunReread
<1>6. /\ r \in Runs /\ r.synced = run.synced /\ r.unsettled = run.unsettled /\ r.held = run.held
      /\ r.known[s] = IF rec[s] = Gone THEN run.known[s] ELSE rec[s]
      /\ r.known[w] = run.known[w]
  <2>1. rec[s] \in Recs /\ run \in Runs
    BY <1>3 DEF Stored, RunInv, Running
  <2> QED BY <1>3, <1>5, <2>1, WroteLemma
<1>7. \A u \in Sides : r.known[u] # Gone
  BY <1>3, <1>4, <1>6
<1>8. ASSUME half' = {}
      PROVE  /\ r.known[s].f = run.known[s].f /\ r.known[s].pos = "nothing"
  <2>1. rec[s] = Orphaned(run.known[s])
    BY <1>1, <1>8 DEF RunReread
  <2>2. "nothing" \in Positions \ {"gone"}
    BY DEF Positions
  <2>3. rec[s] \in Recs \ {Gone}
    BY <1>3, <1>4, <2>1, <2>2, RecordLemma DEF Orphaned
  <2>4. rec[s].f = run.known[s].f /\ rec[s].pos = "nothing"
    BY <1>3, <1>4, <2>1 DEF Orphaned, Recs
  <2> QED BY <1>6, <2>3, <2>4
<1>9. half' = {} => \A u \in Sides : r.known[u].f = run.known[u].f
  BY <1>3, <1>6, <1>8
<1>10. run.synced /\ ~run.unsettled => half' # {} \/ \A u \in Sides : r.known[u].pos = "nothing"
  BY <1>1, <1>2, <1>3, <1>6, <1>8, NowhereLemma
<1>11. run.synced /\ ~run.unsettled =>
         r.known["A"].pos = r.known["B"].pos \/ r.held \/ half' # {}
  BY <1>10 DEF Sides
<1> QED BY <1>2, <1>5, <1>6, <1>7, <1>9, <1>11, MovedLemma, StepsLemma

\* RunCommit.
LEMMA CommitRun ==
  ASSUME RunInv, Stored, RunCommit
  PROVE  RunInv'
<1>1. /\ run.pc = "commit" /\ half' = half /\ run \in Runs
      /\ GoOn("commit", run) /\ plan' \in {plan, Pruned("conflict")}
  BY DEF RunCommit, At, RunInv, Running
<1>2. run.synced => \A s \in Sides : run.known[s] # Gone
  BY DEF RunInv, Flow
<1>3. run.synced /\ ~run.unsettled =>
         /\ run.known["A"].f = run.known["B"].f \/ run.held \/ half # {}
         /\ Has(plan.ops, "move") => \A s \in Sides : run.known[s].pos # "none"
         /\ run.known["A"].pos = run.known["B"].pos \/ run.held \/ half # {}
  BY <1>1, StepsLemma DEF RunInv, Agreeing, SameField, SamePos, BeforeMove
<1> QED BY <1>1, <1>2, <1>3, GoesOnLemma

\* What a run knows when it comes to its last phases.
LEMMA LastLemma ==
  ASSUME RunInv, run.pc \in StepsOf("delete") \cup StepsOf("drop")
  PROVE  /\ run \in Runs
         /\ run.synced => \A s \in Sides : run.known[s] # Gone
         /\ run.synced /\ ~run.unsettled =>
              /\ run.known["A"].f = run.known["B"].f \/ run.held \/ half # {}
              /\ Has(plan.ops, "move") => \A s \in Sides : run.known[s].pos # "none"
              /\ run.known["A"].pos = run.known["B"].pos \/ run.held \/ half # {}
BY StepsLemma DEF RunInv, Running, Flow, Agreeing, SameField, SamePos, BeforeMove

\* A deletion done or skipped, or a link dropped or not.
LEMMA LastRun ==
  ASSUME RunInv, half' = half, run.pc \in StepsOf("delete") \cup StepsOf("drop"),
         NEW kind \in {"delete", "drop"}, Settle(kind, run) \/ Skipped(kind, run)
  PROVE  RunInv'
<1>1. CASE Settle(kind, run)
  BY <1>1, LastLemma, SettleLemma DEF OpKinds
<1>2. CASE Skipped(kind, run)
  BY <1>2, LastLemma, SkippedLemma DEF OpKinds
<1> QED BY <1>1, <1>2

\* Whose record the deletion under way takes.
LEMMA SurvivorLemma ==
  ASSUME RunInv, Doomed, run.pc \in StepsOf("delete")
  PROVE  /\ OpOf("delete").from \in Sides /\ rec[Other(OpOf("delete").from)] = Gone
         /\ ~Has(plan.ops, "create")
<1>1. Has(plan.ops, "delete")
  BY DEF RunInv, Flow, Kinds
<1>2. OpOf("delete") \in plan.ops /\ OpOf("delete").kind = "delete"
  BY <1>1 DEF OpOf, Has
<1> QED BY <1>1, <1>2 DEF Doomed

\* RunDelete, RunUnlink.
LEMMA DeleteRun ==
  ASSUME RunInv, Stored, Doomed, RunDelete \/ RunUnlink
  PROVE  RunInv'
<1>1. run.pc \in {"delete", "unlink"} /\ half' = half
  BY DEF RunDelete, RunUnlink, At, ghosts
<1>2. \/ Skipped("delete", run)
      \/ /\ plan' = plan /\ run.pc = "delete"
         /\ run' = [run EXCEPT !.pc = "unlink", !.old = rec[OpOf("delete").from].pos]
         /\ rec[OpOf("delete").from] # Gone /\ rec[OpOf("delete").from] = plan.base[OpOf("delete").from]
      \/ plan' = plan /\ run' = [run EXCEPT !.pc = "unfile"]
  BY DEF RunDelete, RunUnlink, At
<1>3. CASE Skipped("delete", run)
  BY <1>1, <1>3, LastRun, StepsLemma
<1>4. ASSUME plan' = plan, run' \in Runs, run'.pc \in {"unlink", "unfile"},
             run'.known = run.known, run'.held = run.held,
             run'.synced = run.synced, run'.unsettled = run.unsettled
      PROVE  RunInv'
  <2>1. Agreeing'
    BY <1>1, <1>4, LastLemma, StepsLemma DEF Agreeing, SameField, SamePos
  <2>2. run.synced => \A s \in Sides : run.known[s] # Gone
    BY DEF RunInv, Flow
  <2> QED BY <1>1, <1>4, <2>1, <2>2, InsideLemma, StepsLemma DEF Reading
<1>5. CASE plan' = plan /\ run' = [run EXCEPT !.pc = "unfile"]
  <2>1. /\ run' \in Runs /\ run'.pc = "unfile" /\ run'.known = run.known /\ run'.held = run.held
        /\ run'.synced = run.synced /\ run'.unsettled = run.unsettled
    BY <1>5 DEF RunInv, Running, Runs, Pcs
  <2> QED BY <1>4, <1>5, <2>1
<1>6. CASE /\ plan' = plan /\ run.pc = "delete"
           /\ run' = [run EXCEPT !.pc = "unlink", !.old = rec[OpOf("delete").from].pos]
  <2>1. PICK s : s = OpOf("delete").from
    OBVIOUS
  <2>2. CASE s \in Sides
    <3>1. rec[s].pos \in Positions
      BY <2>2 DEF Stored, Recs
    <3>2. run' = [run EXCEPT !.pc = "unlink", !.old = rec[s].pos]
      BY <1>6, <2>1
    <3>3. /\ run' \in Runs /\ run'.pc = "unlink" /\ run'.known = run.known /\ run'.held = run.held
          /\ run'.synced = run.synced /\ run'.unsettled = run.unsettled
      BY <3>1, <3>2 DEF RunInv, Running, Runs, Pcs
    <3> QED BY <1>4, <1>6, <3>3
  <2>3. s \in Sides
    BY <1>1, <2>1, SurvivorLemma, StepsLemma
  <2> QED BY <2>2, <2>3
<1> QED BY <1>2, <1>3, <1>5, <1>6

\* RunUnfile, RunDrop.
LEMMA UnfileRun ==
  ASSUME RunInv, RunUnfile \/ RunDrop
  PROVE  RunInv'
<1>1. run.pc \in {"unfile", "drop"} /\ half' = half
  BY DEF RunUnfile, RunDrop, At
<1>2. Settle("delete", run) \/ Settle("drop", run) \/ Skipped("drop", run)
  BY DEF RunUnfile, RunDrop
<1> QED BY <1>1, <1>2, LastRun, StepsLemma

\* A crash, the user and the watcher.
LEMMA OthersRun ==
  ASSUME RunInv, Crash \/ \E s \in Sides : UserStep(s) \/ Watch(s)
  PROVE  RunInv'
<1>1. CASE Crash
  <2>1. plan' = plan /\ half' = half /\ run' = Idle
    BY <1>1 DEF Crash, data
  <2> QED BY <2>1, StopLemma
<1>2. ASSUME NEW s \in Sides, UserStep(s) \/ Watch(s)
      PROVE  RunInv'
  <2>1. plan' = plan /\ half' = half /\ run' \in {run, Idle}
    BY <1>2 DEF UserStep, Watch, EditField, DeleteRecord, RemoveFile, StrayFile, MoveFile,
                WriteFile, EditFile, Edit, Disturbed
  <2> QED BY <2>1, SameRunLemma
<1> QED BY <1>1, <1>2

-----------------------------------------------------------------------------
(* The plan *)

\* What is in a sequence of operations.
LEMMA ConcatLemma ==
  ASSUME NEW S, NEW s \in Seq(S), NEW t \in Seq(S)
  PROVE  s \o t \in Seq(S) /\ Range(s \o t) = Range(s) \cup Range(t)
<1>1. /\ s \o t \in Seq(S) /\ Len(s \o t) = Len(s) + Len(t)
      /\ \A i \in 1..Len(s) : (s \o t)[i] = s[i]
      /\ \A i \in 1..Len(t) : (s \o t)[Len(s) + i] = t[i]
  OBVIOUS
<1>2. \A i \in 1..(Len(s) + Len(t)) : i \in 1..Len(s) \/ (i - Len(s)) \in 1..Len(t)
  OBVIOUS
<1>3. \A x : (\E i \in DOMAIN (s \o t) : (s \o t)[i] = x) <=>
             (\E i \in DOMAIN s : s[i] = x) \/ (\E i \in DOMAIN t : t[i] = x)
  <2> SUFFICES ASSUME NEW x
               PROVE  (\E i \in 1..(Len(s) + Len(t)) : (s \o t)[i] = x) <=>
                      (\E i \in 1..Len(s) : s[i] = x) \/ (\E i \in 1..Len(t) : t[i] = x)
    <3>1. /\ DOMAIN s = 1..Len(s) /\ DOMAIN t = 1..Len(t)
          /\ DOMAIN (s \o t) = 1..(Len(s) + Len(t))
      BY <1>1
    <3> QED BY <3>1, Zenon
  <2>1. ASSUME NEW i \in 1..(Len(s) + Len(t)), (s \o t)[i] = x
        PROVE  (\E j \in 1..Len(s) : s[j] = x) \/ (\E j \in 1..Len(t) : t[j] = x)
    <3>1. CASE i \in 1..Len(s)
      BY <3>1, <2>1, <1>1
    <3>2. CASE (i - Len(s)) \in 1..Len(t)
      <4>1. (s \o t)[Len(s) + (i - Len(s))] = t[i - Len(s)]
        BY <3>2, <1>1
      <4>2. Len(s) + (i - Len(s)) = i
        OBVIOUS
      <4> QED BY <3>2, <4>1, <4>2, <2>1
    <3> QED BY <3>1, <3>2, <1>2
  <2>2. ASSUME NEW i \in 1..Len(s), s[i] = x
        PROVE  \E j \in 1..(Len(s) + Len(t)) : (s \o t)[j] = x
    BY <2>2, <1>1
  <2>3. ASSUME NEW i \in 1..Len(t), t[i] = x
        PROVE  \E j \in 1..(Len(s) + Len(t)) : (s \o t)[j] = x
    <3>1. Len(s) + i \in 1..(Len(s) + Len(t)) /\ (s \o t)[Len(s) + i] = x
      BY <2>3, <1>1
    <3> QED BY <3>1
  <2> QED BY <2>1, <2>2, <2>3
<1> QED BY <1>1, <1>3 DEF Range

\* A sequence of one thing.
LEMMA SingleLemma ==
  ASSUME NEW S, NEW x \in S
  PROVE  <<x>> \in Seq(S) /\ Range(<<x>>) = {x}
BY DEF Range

\* A sequence of nothing.
LEMMA EmptyLemma ==
  ASSUME NEW S
  PROVE  <<>> \in Seq(S) /\ Range(<<>>) = {}
BY DEF Range

\* What a sequence holds, and what its beginnings do.
LEMMA RangeLemma ==
  ASSUME NEW S, NEW s \in Seq(S)
  PROVE  /\ Range(s) \subseteq S /\ (Range(s) = {} => s = <<>>)
         /\ \A n \in 1..(Len(s) - 1) : Range(SubSeq(s, 1, n)) \subseteq Range(s)
<1>1. \A i \in DOMAIN s : s[i] \in S
  OBVIOUS
<1>2. s # <<>> => 1 \in DOMAIN s
  OBVIOUS
<1>3. ASSUME NEW n \in 1..(Len(s) - 1)
      PROVE  Range(SubSeq(s, 1, n)) \subseteq Range(s)
  BY DEF Range
<1> QED BY <1>1, <1>2, <1>3 DEF Range

\* An operation on its own.
LEMMA OpLemma ==
  /\ \A kind \in Kinds, from \in Sides \cup {"none"} :
       Op(kind, from) \in Ops /\ Op(kind, from).kind = kind /\ Op(kind, from).from = from
  /\ \A x \in {"f", "pos", "content"}, res \in Sides \cup {"skip"} :
       Conflict(x, res) \in Ops /\ Conflict(x, res).kind = "conflict"
BY DEF Op, Conflict, Ops, Kinds

\* A plan moves a file just when two records that are there are at two places.
LEMMA MoveOpsLemma ==
  ASSUME NEW base \in [Sides -> Recs], NEW snap,
         (\A s \in Sides : base[s] # Gone) \/ snap.pos = "none"
  PROVE  /\ MoveOps(base, snap) \in Seq(Ops)
         /\ \A o \in Range(MoveOps(base, snap)) : o.kind \in {"copy", "move"}
         /\ Has(Range(MoveOps(base, snap)), "move") <=> Apart(base)
<1> DEFINE d == PosDecision(base, snap)
           x == Seen(base["A"]).pos
           y == Seen(base["B"]).pos
           M == MoveOps(base, snap)
<1>1. /\ d \in {"insync", "conflict"} \cup Sides
      /\ d = "insync" <=> x = y
      /\ d = "conflict" <=> x # y /\ x # snap.pos /\ y # snap.pos
      /\ d = "A" <=> x # y /\ y = snap.pos
      /\ d = "B" <=> x # y /\ x = snap.pos
  BY DecideLemma DEF PosDecision
<1>2. \A s \in Sides : Seen(base[s]).pos = IF base[s] = Gone THEN "none" ELSE base[s].pos
  BY RecordLemma DEF Seen
<1>3. "A" \in Sides /\ "B" \in Sides /\ "insync" \notin Sides /\ "conflict" \notin Sides
  BY DEF Sides
<1>4. Apart(base) => d # "insync"
  BY <1>1, <1>2, <1>3 DEF Apart
<1>5. d = "conflict" => Apart(base)
  BY <1>1, <1>2, <1>3 DEF Apart, Sides
<1>6. d \in Sides /\ base[Other(d)] # Gone => Apart(base)
  BY <1>1, <1>2, <1>3 DEF Apart, Sides, Other
<1>7. d \in Sides /\ base[Other(d)] = Gone => ~Apart(base)
  BY SidesLemma DEF Apart
<1>8. \A o \in Ops : o.kind \in Kinds
  BY DEF Ops
<1>9. ASSUME NEW o \in Ops, o.kind \in {"copy", "move"}, M = <<o>>
      PROVE  /\ M \in Seq(Ops) /\ \A q \in Range(M) : q.kind \in {"copy", "move"}
             /\ Has(Range(M), "move") <=> o.kind = "move"
  <2>1. M \in Seq(Ops) /\ Range(M) = {o}
    <3> HIDE DEF M
    <3>1. <<o>> \in Seq(Ops) /\ Range(<<o>>) = {o}
      BY SingleLemma
    <3> QED BY <1>9, <3>1, Zenon
  <2> HIDE DEF M
  <2> QED BY <1>9, <2>1 DEF Has
<1>10. ASSUME M = <<>>
       PROVE  /\ M \in Seq(Ops) /\ \A q \in Range(M) : q.kind \in {"copy", "move"}
              /\ ~Has(Range(M), "move")
  <2>1. M \in Seq(Ops) /\ Range(M) = {}
    BY <1>10, EmptyLemma
  <2> HIDE DEF M
  <2> QED BY <2>1 DEF Has
<1>11. /\ \A s \in Sides : Op("copy", s) \in Ops /\ Op("copy", s).kind = "copy"
       /\ \A s \in Sides \cup {"none"} : Op("move", s) \in Ops /\ Op("move", s).kind = "move"
  BY OpLemma DEF Kinds
<1>12. CASE d \in Sides /\ base[Other(d)] = Gone
  <2>1. M = IF Real(base[d]) /\ base[d].stamp > 0 THEN <<Op("copy", d)>> ELSE <<>>
    <3>1. PICK e : e = d
      OBVIOUS
    <3>2. e \in Sides /\ base[Other(e)] = Gone
      BY <1>12, <3>1
    <3> HIDE DEF d
    <3> QED BY <3>1, <3>2, <1>3 DEF MoveOps, d
  <2> HIDE DEF M, d
  <2> QED BY <2>1, <1>7, <1>9, <1>10, <1>11, <1>12 DEF M
<1>13. CASE d \in Sides /\ base[Other(d)] # Gone
  <2>1. M = <<Op("move", d)>>
    BY <1>3, <1>13 DEF MoveOps
  <2> HIDE DEF M, d
  <2> QED BY <2>1, <1>6, <1>9, <1>11, <1>13 DEF M
<1>14. CASE d = "conflict"
  <2>1. M = <<Op("move", "none")>>
    BY <1>14, <1>3 DEF MoveOps
  <2> HIDE DEF M, d
  <2> QED BY <2>1, <1>5, <1>9, <1>11, <1>14 DEF M
<1>15. CASE d = "insync"
  <2>1. M = <<>>
    BY <1>15, <1>3 DEF MoveOps
  <2> HIDE DEF M, d
  <2> QED BY <2>1, <1>4, <1>10, <1>15 DEF M
<1> QED BY <1>1, <1>12, <1>13, <1>14, <1>15

\* The copies and the conflicts of a plan.
LEMMA CopyOpsLemma ==
  ASSUME NEW base, NEW snap
  PROVE  /\ CopyOps(base, snap) \in Seq(Ops)
         /\ \A o \in Range(CopyOps(base, snap)) : o.kind = "copy"
<1> DEFINE d == ContentDecision(base, snap)
           M == CopyOps(base, snap)
<1>1. \A s \in Sides \cup {"none"} : Op("copy", s) \in Ops /\ Op("copy", s).kind = "copy"
  BY OpLemma DEF Kinds
<1>2. M = <<>> \/ \E s \in Sides \cup {"none"} : M = <<Op("copy", s)>>
  BY DEF CopyOps
<1> HIDE DEF M
<1>3. CASE M = <<>>
  <2>1. M \in Seq(Ops) /\ Range(M) = {}
    BY <1>3, EmptyLemma
  <2> QED BY <2>1 DEF M
<1>4. ASSUME NEW s \in Sides \cup {"none"}, M = <<Op("copy", s)>>
      PROVE  M \in Seq(Ops) /\ \A o \in Range(M) : o.kind = "copy"
  <2>1. M \in Seq(Ops) /\ Range(M) = {Op("copy", s)}
    BY <1>1, <1>4, SingleLemma
  <2> QED BY <2>1, <1>1
<1> QED BY <1>2, <1>3, <1>4 DEF M

\* The conflicts of a link become operations of that kind.
LEMMA ConflictOpsLemma ==
  ASSUME NEW cs \in SUBSET {"f", "pos", "content"}, NEW res \in [cs -> Sides \cup {"skip"}]
  PROVE  /\ ConflictOps(cs, res) \in Seq(Ops)
         /\ \A o \in Range(ConflictOps(cs, res)) : o.kind = "conflict"
<1> DEFINE one(x) == IF x \in cs THEN <<Conflict(x, res[x])>> ELSE <<>>
<1>1. ASSUME NEW x \in {"f", "pos", "content"}
      PROVE  one(x) \in Seq(Ops) /\ \A o \in Range(one(x)) : o.kind = "conflict"
  <2>1. CASE x \in cs
    <3>1. res[x] \in Sides \cup {"skip"}
      BY <2>1
    <3>2. PICK o : o = Conflict(x, res[x])
      OBVIOUS
    <3>3. o \in Ops /\ o.kind = "conflict"
      BY <3>1, <3>2, OpLemma
    <3>4. one(x) = <<o>>
      BY <2>1, <3>2
    <3>5. one(x) \in Seq(Ops) /\ Range(one(x)) = {o}
      BY <3>3, <3>4, SingleLemma
    <3> QED BY <3>3, <3>5
  <2>2. CASE x \notin cs
    BY <2>2, EmptyLemma
  <2> QED BY <2>1, <2>2
<1>2. ConflictOps(cs, res) = one("f") \o one("pos") \o one("content")
  BY DEF ConflictOps
<1> HIDE DEF one
<1>3. PICK s : s = one("f") \o one("pos")
  OBVIOUS
<1>4. s \in Seq(Ops) /\ Range(s) = Range(one("f")) \cup Range(one("pos"))
  BY <1>1, <1>3, ConcatLemma
<1>5. one("content") \in Seq(Ops)
  BY <1>1
<1>6. s \o one("content") \in Seq(Ops) /\ Range(s \o one("content")) = Range(s) \cup Range(one("content"))
  BY <1>4, <1>5, ConcatLemma
<1>7. ConflictOps(cs, res) = s \o one("content")
  BY <1>2, <1>3
<1>8. \A o \in Range(one("f")) \cup Range(one("pos")) \cup Range(one("content")) : o.kind = "conflict"
  BY <1>1
<1> QED BY <1>4, <1>6, <1>7, <1>8, Zenon

\* What a plan holds.
LEMMA LinkOpsLemma ==
  ASSUME NEW base \in [Sides -> Recs], ~row.linked => row = NoLink, row.linked \in BOOLEAN,
         NEW res \in [Conflicts(base, row.snap) -> Sides \cup {"skip"}]
  PROVE  /\ LinkOps(base, res) \in Seq(Ops)
         /\ \A o \in Range(LinkOps(base, res)) : o.kind = "delete" =>
              row.linked /\ o.from \in Sides /\ base[Other(o.from)] = Gone
         /\ Has(Range(LinkOps(base, res)), "delete") \/ Has(Range(LinkOps(base, res)), "drop")
              => ~Has(Range(LinkOps(base, res)), "create")
         /\ Has(Range(LinkOps(base, res)), "sync")
              => (Has(Range(LinkOps(base, res)), "move") <=> Apart(base))
<1> DEFINE snap == row.snap
           gone == {s \in Sides : base[s] = Gone}
           L == LinkOps(base, res)
           Sound == /\ L \in Seq(Ops)
                    /\ \A o \in Range(L) : o.kind = "delete" =>
                         row.linked /\ o.from \in Sides /\ base[Other(o.from)] = Gone
                    /\ Has(Range(L), "delete") \/ Has(Range(L), "drop") => ~Has(Range(L), "create")
                    /\ Has(Range(L), "sync") => (Has(Range(L), "move") <=> Apart(base))
<1>1. ASSUME NEW o \in Ops, L = <<o>>, o.kind \in {"delete", "drop"},
             o.kind = "delete" => row.linked /\ o.from \in Sides /\ base[Other(o.from)] = Gone
      PROVE  Sound
  <2>1. L \in Seq(Ops) /\ Range(L) = {o}
    <3> HIDE DEF L
    <3>1. <<o>> \in Seq(Ops) /\ Range(<<o>>) = {o}
      BY SingleLemma
    <3> QED BY <1>1, <3>1, Zenon
  <2> HIDE DEF L
  <2> QED BY <1>1, <2>1 DEF Has
<1>2. CASE row.linked /\ gone = Sides
  <2>1. L = <<Op("drop", "none")>>
    BY <1>2 DEF LinkOps
  <2>2. Op("drop", "none") \in Ops /\ Op("drop", "none").kind = "drop"
    BY OpLemma DEF Kinds
  <2> HIDE DEF L, Sound
  <2> QED BY <1>1, <2>1, <2>2 DEF Sound, L
<1>3. CASE row.linked /\ gone # Sides /\ gone # {}
  <2>1. PICK s : s = CHOOSE u \in Sides : u \notin gone
    OBVIOUS
  <2>2. s \in Sides /\ s \notin gone
    BY <1>3, <2>1
  <2>3. base[Other(s)] = Gone
    BY <1>3, <2>2, SidesLemma
  <2>4. L = <<Op("delete", s)>>
    BY <1>3, <2>1 DEF LinkOps
  <2>5. Op("delete", s) \in Ops /\ Op("delete", s).kind = "delete" /\ Op("delete", s).from = s
    BY <2>2, OpLemma DEF Kinds
  <2> HIDE DEF L, Sound
  <2> QED BY <1>1, <1>3, <2>2, <2>3, <2>4, <2>5 DEF Sound, L
<1>4. CASE row.linked /\ gone = {} /\ row.v = base
  <2>1. L = <<>>
    BY <1>4, SidesLemma DEF LinkOps, Sides
  <2>2. L \in Seq(Ops) /\ Range(L) = {}
    BY <2>1, EmptyLemma
  <2> HIDE DEF L
  <2>3. \A k : ~Has(Range(L), k)
    BY <2>2, WithoutLemma
  <2>4. \A o \in Range(L) : o.kind = "delete" =>
          row.linked /\ o.from \in Sides /\ base[Other(o.from)] = Gone
    BY <2>2
  <2> QED BY <2>2, <2>3, <2>4 DEF L
<1>5. CASE ~row.linked \/ (gone = {} /\ row.v # base)
  <2> DEFINE C == IF row.linked THEN <<>> ELSE <<Op("create", "none")>>
             Y == <<Op("sync", "none")>>
             M == MoveOps(base, snap)
             P == CopyOps(base, snap)
             X == ConflictOps(Conflicts(base, snap), res)
  <2>1. L = C \o Y \o M \o P \o X
    BY <1>5 DEF LinkOps, Sides
  <2>2. /\ C \in Seq(Ops) /\ Y \in Seq(Ops)
        /\ \A o \in Range(C) : o.kind = "create"
        /\ \A o \in Range(Y) : o.kind = "sync"
    <3>1. PICK c, y : c = Op("create", "none") /\ y = Op("sync", "none")
      OBVIOUS
    <3>2. c \in Ops /\ c.kind = "create" /\ y \in Ops /\ y.kind = "sync"
      BY <3>1, OpLemma DEF Kinds
    <3>3. C = (IF row.linked THEN <<>> ELSE <<c>>) /\ Y = <<y>>
      BY <3>1
    <3>4. <<c>> \in Seq(Ops) /\ Range(<<c>>) = {c} /\ <<y>> \in Seq(Ops) /\ Range(<<y>>) = {y}
          /\ <<>> \in Seq(Ops) /\ Range(<<>>) = {}
      BY <3>2, SingleLemma, EmptyLemma
    <3> QED BY <3>2, <3>3, <3>4
  <2>3. (\A s \in Sides : base[s] # Gone) \/ snap.pos = "none"
    BY <1>5 DEF NoLink, NoSnap
  <2>4. /\ M \in Seq(Ops) /\ \A o \in Range(M) : o.kind \in {"copy", "move"}
        /\ Has(Range(M), "move") <=> Apart(base)
    BY <2>3, MoveOpsLemma
  <2>5. P \in Seq(Ops) /\ \A o \in Range(P) : o.kind = "copy"
    BY CopyOpsLemma
  <2>6. X \in Seq(Ops) /\ \A o \in Range(X) : o.kind = "conflict"
    BY ConflictOpsLemma DEF Conflicts
  <2> HIDE DEF C, Y, M, P, X, L
  <2> DEFINE CY == C \o Y
             CYM == CY \o M
             CYMP == CYM \o P
  <2>7. CY \in Seq(Ops) /\ Range(CY) = Range(C) \cup Range(Y)
    BY <2>2, ConcatLemma
  <2>8. L = CYMP \o X
    BY <2>1
  <2> HIDE DEF CY
  <2>9. CYM \in Seq(Ops) /\ Range(CYM) = Range(CY) \cup Range(M)
    BY <2>4, <2>7, ConcatLemma
  <2> HIDE DEF CYM
  <2>10. CYMP \in Seq(Ops) /\ Range(CYMP) = Range(CYM) \cup Range(P)
    BY <2>5, <2>9, ConcatLemma
  <2> HIDE DEF CYMP
  <2>11. CYMP \o X \in Seq(Ops) /\ Range(CYMP \o X) = Range(CYMP) \cup Range(X)
    BY <2>6, <2>10, ConcatLemma
  <2>12. L \in Seq(Ops) /\ Range(L) = Range(CYMP) \cup Range(X)
    BY <2>8, <2>11, Zenon
  <2>13. \A o \in Range(L) : o.kind \notin {"delete", "drop"}
    BY <2>2, <2>4, <2>5, <2>6, <2>7, <2>9, <2>10, <2>12
  <2>14. Has(Range(L), "move") <=> Has(Range(M), "move")
    BY <2>2, <2>4, <2>5, <2>6, <2>7, <2>9, <2>10, <2>12 DEF Has
  <2>15. ~Has(Range(L), "delete") /\ ~Has(Range(L), "drop")
    BY <2>13 DEF Has
  <2>16. \A o \in Range(L) : o.kind # "delete"
    BY <2>13
  <2>17. Has(Range(L), "move") <=> Apart(base)
    BY <2>4, <2>14
  <2>18. \A o \in Range(L) : o.kind = "delete" =>
           row.linked /\ o.from \in Sides /\ base[Other(o.from)] = Gone
    BY <2>16
  <2> QED BY <2>12, <2>15, <2>17, <2>18 DEF L
<1>6. gone = Sides \/ (gone # Sides /\ gone # {}) \/ (gone = {} /\ (row.v = base \/ row.v # base))
  OBVIOUS
<1> HIDE DEF gone
<1> QED BY <1>2, <1>3, <1>4, <1>5, <1>6, Zenon

\* What the planner read of the two sides.
LEMMA BaselineLemma ==
  ASSUME Running
  PROVE  Baseline \in [Sides -> Recs]
BY RecordLemma DEF Baseline, Running, Runs

\* The plan written: all of the link's operations, none, or some of them.
LEMMA PlanWriteLemma ==
  ASSUME Stored, Running, ~row.linked => row = NoLink, NEW leave \in BOOLEAN,
         NEW res \in [Conflicts(Baseline, row.snap) -> Sides \cup {"skip"}],
         PlanWrite(res, leave)
  PROVE  /\ plan' \in Plans
         /\ plan'.ops \subseteq Range(LinkOps(Baseline, res))
         /\ plan'.ops # {} => plan'.base = Baseline /\ Linkable(Baseline)
         /\ plan'.ops = {} \/ half' # {} \/ plan'.ops = Range(LinkOps(Baseline, res))
<1> DEFINE L == LinkOps(Baseline, res)
<1>1. PICK ops : ops = IF Linkable(Baseline) /\ ~leave THEN L ELSE <<>>
  OBVIOUS
<1>2. Baseline \in [Sides -> Recs] /\ row.linked \in BOOLEAN
  BY BaselineLemma DEF Stored
<1>3. L \in Seq(Ops)
  BY <1>2, LinkOpsLemma
<1>4. \/ plan' = IF ops = <<>> THEN NoPlan ELSE [ops |-> Range(ops), base |-> Baseline]
      \/ half' # {} /\ \E n \in 1..(Len(ops) - 1) :
                           plan' = [ops |-> Range(SubSeq(ops, 1, n)), base |-> Baseline]
  BY <1>1 DEF PlanWrite
<1> HIDE DEF L
<1>5. CASE ops = <<>>
  <2>1. plan' = NoPlan
    <3>1. 1..(Len(ops) - 1) = {}
      BY <1>5
    <3> QED BY <1>4, <1>5, <3>1
  <2>2. plan'.ops = {} /\ plan' \in Plans
    BY <2>1, RecordLemma DEF NoPlan, Plans
  <2> QED BY <2>2
<1>6. CASE ops # <<>>
  <2>1. Linkable(Baseline) /\ ops = L
    BY <1>1, <1>6
  <2>2. Range(L) \subseteq Ops /\ \A n \in 1..(Len(L) - 1) : Range(SubSeq(L, 1, n)) \subseteq Range(L)
    BY <1>3, RangeLemma
  <2>3. CASE plan' = [ops |-> Range(L), base |-> Baseline]
    <3>1. plan'.ops = Range(L) /\ plan'.base = Baseline /\ plan' \in Plans
      BY <2>2, <2>3, <1>2 DEF Plans
    <3> QED BY <2>1, <3>1 DEF L
  <2>4. ASSUME half' # {}, NEW n \in 1..(Len(L) - 1),
               plan' = [ops |-> Range(SubSeq(L, 1, n)), base |-> Baseline]
        PROVE  /\ plan' \in Plans
               /\ plan'.ops \subseteq Range(L)
               /\ plan'.ops # {} => plan'.base = Baseline /\ Linkable(Baseline)
               /\ half' # {}
    <3>1. Range(SubSeq(L, 1, n)) \subseteq Range(L)
      BY <2>2
    <3>2. plan'.ops \subseteq Range(L) /\ plan'.base = Baseline /\ plan' \in Plans
      BY <2>2, <2>4, <3>1, <1>2 DEF Plans
    <3> QED BY <2>1, <2>4, <3>2
  <2>5. CASE half' # {} /\ \E n \in 1..(Len(ops) - 1) :
                           plan' = [ops |-> Range(SubSeq(ops, 1, n)), base |-> Baseline]
    BY <2>1, <2>4, <2>5 DEF L
  <2> QED BY <1>4, <1>6, <2>1, <2>3, <2>5
<1> QED BY <1>5, <1>6

\* While it plans, a client has nothing to keep to.
LEMMA PlanningLemma ==
  ASSUME run' \in Runs, run'.pc \in {"plan_b", "plan", "planned"}, ~run'.synced
  PROVE  Flow' /\ Baselined' /\ Agreeing'
BY StepsLemma DEF Flow, Baselined, Agreeing, Resting, Reading, Kinds

\* PlanReadA, PlanReadB, PlanWrite.
LEMMA PlanRun ==
  ASSUME RunInv, Stored, Linkless, PlanStep
  PROVE  RunInv'
<1>1. CASE PlanReadA
  <2>1. plan' = NoPlan /\ run' = [Idle EXCEPT !.pc = "plan_b", !.known["A"] = rec["A"]]
    BY <1>1 DEF PlanReadA
  <2>2. run' \in Runs /\ run'.pc = "plan_b" /\ run'.synced = FALSE
    BY <2>1, RecordLemma DEF Idle, Runs, Pcs, Positions, Stored, Sides
  <2>3. plan' \in Plans /\ ~Has(plan'.ops, "sync")
    BY <2>1, RecordLemma, WithoutLemma DEF NoPlan, Plans
  <2> QED BY <2>2, <2>3, PlanningLemma DEF RunInv, Running, Foreseen
<1>2. CASE PlanReadB
  <2>1. /\ plan' = plan /\ half' = half /\ run.pc = "plan_b"
        /\ run' = [run EXCEPT !.pc = "plan", !.known["B"] = rec["B"]]
    BY <1>2 DEF PlanReadB, data, ghosts, At
  <2>2. run' \in Runs /\ run'.pc = "plan" /\ run'.synced = run.synced
    BY <2>1 DEF RunInv, Running, Runs, Pcs, Stored, Sides
  <2>3. ~run.synced
    BY <2>1 DEF RunInv, Baselined
  <2>4. Foreseen'
    BY <2>1 DEF RunInv, Foreseen
  <2> QED BY <2>1, <2>2, <2>3, <2>4, PlanningLemma DEF RunInv, Running
<1>3. ASSUME NEW res \in [Conflicts(Baseline, row.snap) -> Sides \cup {"skip"}],
             NEW leave \in BOOLEAN, PlanWrite(res, leave)
      PROVE  RunInv'
  <2>1. run' = [Idle EXCEPT !.pc = "planned"]
    BY <1>3 DEF PlanWrite
  <2>2. run' \in Runs /\ run'.pc = "planned" /\ run'.synced = FALSE
    BY <2>1, RecordLemma DEF Idle, Runs, Pcs, Positions, Resting
  <2> DEFINE R == Range(LinkOps(Baseline, res))
  <2>3. /\ plan' \in Plans
        /\ plan'.ops \subseteq R
        /\ plan'.ops # {} => plan'.base = Baseline
        /\ plan'.ops = {} \/ half' # {} \/ plan'.ops = R
    BY <1>3, PlanWriteLemma DEF RunInv, Linkless
  <2>4. Has(R, "sync") => (Has(R, "move") <=> Apart(Baseline))
    BY BaselineLemma, LinkOpsLemma DEF Stored, RunInv, Linkless
  <2> HIDE DEF R
  <2>5. ASSUME Has(plan'.ops, "sync")
        PROVE  /\ Has(plan'.ops, "move") => Apart(plan'.base)
               /\ half' = {} /\ Apart(plan'.base) => Has(plan'.ops, "move")
    <3>1. plan'.base = Baseline /\ plan'.ops # {}
      BY <2>3, <2>5, WithoutLemma
    <3>2. Has(R, "sync") /\ (Has(plan'.ops, "move") => Has(R, "move"))
      BY <2>3, <2>5 DEF Has
    <3>3. Apart(plan'.base) <=> Apart(Baseline)
      BY <3>1
    <3> QED BY <2>3, <2>4, <3>1, <3>2, <3>3
  <2>6. Foreseen'
    BY <2>5 DEF Foreseen
  <2> QED BY <2>2, <2>3, <2>6, PlanningLemma DEF RunInv, Running
<1> QED BY <1>1, <1>2, <1>3 DEF PlanStep

\* Every step keeps what the runs have to keep to.
LEMMA RunStepLemma ==
  ASSUME RunInv, Stored, Linkless, Doomed, Next
  PROVE  RunInv'
<1>1. ASSUME NEW kind \in {"copy", "move"}, NEW field,
             At(IF kind = "copy" THEN "refresh_copy" ELSE "refresh_move"),
             RunRefresh(kind, Other(Winner(kind, field)))
      PROVE  RunInv'
  <2>1. PICK s : s = Other(Winner(kind, field))
    OBVIOUS
  <2>2. s \in Sides
    BY <2>1, SidesLemma
  <2> QED BY <1>1, <2>1, <2>2, RefreshRun DEF At
<1>2. CASE RunStep
  BY <1>1, <1>2, StartRun, CreateRun, PostRun, SyncRun, FieldRun, PlaceRun, CopyRun, TransferRun,
     MoveRun, PositionRun, RelocateRun, OrphanRun, ClearRun, RereadRun, CommitRun, DeleteRun,
     UnfileRun
     DEF RunStep
<1> QED BY <1>2, PlanRun, OthersRun DEF Next

-----------------------------------------------------------------------------
(* The records *)

\* No record comes back, none goes, no field changes.
GoneStays == \A s \in Sides : rec[s] = Gone => rec'[s] = Gone
ThereStays == \A s \in Sides : rec[s] # Gone => rec'[s] # Gone
FieldStays == \A s \in Sides : rec'[s].f = rec[s].f

\* A record that is there is set.
LEMMA SetLemma ==
  ASSUME Stored, NEW s \in Sides, NEW new \in Recs, rec[s] # Gone,
         rec' = [rec EXCEPT ![s] = new]
  PROVE  /\ rec' \in [Sides -> Recs] /\ GoneStays
         /\ rec'[s] = new /\ \A u \in Sides : u # s => rec'[u] = rec[u]
         /\ new # Gone => ThereStays
         /\ new.f = rec[s].f => FieldStays
BY DEF Stored, GoneStays, ThereStays, FieldStays

\* A record that stays as it is.
LEMMA SameRecordsLemma ==
  ASSUME Stored, rec' = rec
  PROVE  rec' \in [Sides -> Recs] /\ GoneStays /\ ThereStays /\ FieldStays
BY DEF Stored, GoneStays, ThereStays, FieldStays

\* The position or the stamp of a record that the run knows is set.
LEMMA PartLemma ==
  ASSUME Stored, RunInv, run.pc \in Reading, NEW s \in Sides, rec[s] = run.known[s],
         \/ \E p \in Positions \ {"gone"} : rec' = [rec EXCEPT ![s] = [rec[s] EXCEPT !.pos = p]]
         \/ \E m \in Nat : rec' = [rec EXCEPT ![s] = [rec[s] EXCEPT !.stamp = m]]
  PROVE  rec' \in [Sides -> Recs] /\ GoneStays /\ ThereStays /\ FieldStays
<1>1. rec[s] # Gone /\ rec[s] \in Recs
  BY WriteLemma
<1>2. ASSUME NEW p \in Positions \ {"gone"}, rec' = [rec EXCEPT ![s] = [rec[s] EXCEPT !.pos = p]]
      PROVE  rec' \in [Sides -> Recs] /\ GoneStays /\ ThereStays /\ FieldStays
  <2>1. PICK new : new = [rec[s] EXCEPT !.pos = p]
    OBVIOUS
  <2>2. new \in Recs /\ new.f = rec[s].f
    BY <1>1, <2>1, WriteLemma DEF Recs
  <2>3. new # Gone
    BY <1>1, <2>1, RecordLemma
  <2> QED BY <1>1, <1>2, <2>1, <2>2, <2>3, SetLemma
<1>3. ASSUME NEW m \in Nat, rec' = [rec EXCEPT ![s] = [rec[s] EXCEPT !.stamp = m]]
      PROVE  rec' \in [Sides -> Recs] /\ GoneStays /\ ThereStays /\ FieldStays
  <2>1. PICK new : new = [rec[s] EXCEPT !.stamp = m]
    OBVIOUS
  <2>2. new \in Recs /\ new.f = rec[s].f
    BY <1>1, <2>1, WriteLemma DEF Recs
  <2>3. new # Gone
    BY <1>1, <2>1, RecordLemma
  <2> QED BY <1>1, <1>3, <2>1, <2>2, <2>3, SetLemma
<1> QED BY <1>2, <1>3

\* The steps inside an operation that set a position or a stamp.
LEMMA PartSteps ==
  ASSUME Stored, RunInv,
         \/ RunPlace \/ RunPosition \/ RunOrphan \/ RunClear
         \/ \E kind \in {"copy", "move"}, s \in Sides :
              /\ At(IF kind = "copy" THEN "refresh_copy" ELSE "refresh_move")
              /\ RunRefresh(kind, s)
  PROVE  rec' \in [Sides -> Recs] /\ GoneStays /\ ThereStays /\ FieldStays
<1>1. ASSUME NEW s \in Sides, rec[s] = run.known[s], run.pc \in Reading,
             NEW p \in Positions \ {"gone"}, rec' = [rec EXCEPT ![s].pos = p]
      PROVE  rec' \in [Sides -> Recs] /\ GoneStays /\ ThereStays /\ FieldStays
  <2>1. rec' = [rec EXCEPT ![s] = [rec[s] EXCEPT !.pos = p]]
    BY <1>1
  <2> QED BY <1>1, <2>1, PartLemma
<1>2. ASSUME run.pc \in Reading
      PROVE  \A u \in Sides : run.known[u].pos \in Positions \ {"gone"}
  <2>1. \A u \in Sides : run.known[u] \in Recs \ {Gone}
    BY <1>2 DEF RunInv, Flow, Running, Runs
  <2> QED BY <2>1, RecordLemma DEF Recs
<1>3. CASE RunPlace
  <2>1. run.pc \in Reading
    BY <1>3 DEF RunPlace, At, Reading
  <2>2. \/ rec' = rec
        \/ \E s \in Sides : /\ rec[s] = run.known[s]
                            /\ rec' = [rec EXCEPT ![s].pos = run.known[Other(s)].pos]
    BY <1>3 DEF RunPlace, Refused
  <2>3. ASSUME NEW s \in Sides, rec[s] = run.known[s],
               rec' = [rec EXCEPT ![s].pos = run.known[Other(s)].pos]
        PROVE  rec' \in [Sides -> Recs] /\ GoneStays /\ ThereStays /\ FieldStays
    <3>1. PICK p : p = run.known[Other(s)].pos
      OBVIOUS
    <3>2. p \in Positions \ {"gone"}
      BY <1>2, <2>1, <3>1, SidesLemma
    <3> QED BY <1>1, <2>1, <2>3, <3>1, <3>2
  <2> QED BY <2>2, <2>3, SameRecordsLemma
<1>4. CASE RunPosition
  <2>1. run.pc = "position" /\ run.pc \in Reading
    BY <1>4 DEF RunPosition, At, Reading
  <2>2. PICK w, s : w = Winner("move", "pos") /\ s = Other(w)
    OBVIOUS
  <2>3. w \in Sides /\ s \in Sides
    BY <2>1, <2>2, SidesLemma, StepsLemma DEF RunInv, Flow
  <2>4. \/ rec' = rec
        \/ /\ rec[s] = run.known[s]
           /\ rec' = [rec EXCEPT ![s] = [rec[s] EXCEPT !.pos = run.known[w].pos]]
    BY <1>4, <2>2 DEF RunPosition, Put, Refused
  <2>5. PICK p : p = run.known[w].pos
    OBVIOUS
  <2>6. p \in Positions \ {"gone"}
    BY <1>2, <2>1, <2>3, <2>5
  <2> QED BY <2>1, <2>3, <2>4, <2>5, <2>6, PartLemma, SameRecordsLemma
<1>5. CASE RunOrphan \/ RunClear
  <2>1. run.pc \in Reading
    BY <1>5 DEF RunOrphan, RunClear, At, Reading
  <2>2. PICK s : s = Other(Winner("move", "pos"))
    OBVIOUS
  <2>3. rec' = rec \/ (rec[s] = run.known[s] /\ rec' = [rec EXCEPT ![s].pos = "nothing"])
    BY <1>5, <2>2 DEF RunOrphan, RunClear, Orphaned, Refused
  <2>4. s \in Sides /\ "nothing" \in Positions \ {"gone"}
    BY <2>2, SidesLemma DEF Positions
  <2> QED BY <1>1, <2>1, <2>3, <2>4, SameRecordsLemma
<1>6. ASSUME NEW kind \in {"copy", "move"}, NEW s \in Sides,
             At(IF kind = "copy" THEN "refresh_copy" ELSE "refresh_move"), RunRefresh(kind, s)
      PROVE  rec' \in [Sides -> Recs] /\ GoneStays /\ ThereStays /\ FieldStays
  <2>1. run.pc \in Reading
    BY <1>6 DEF At, Reading
  <2>2. \/ rec' = rec
        \/ /\ rec[s] = run.known[s] /\ FileAt(s, rec[s].pos) # NoFile
           /\ rec' = [rec EXCEPT ![s].stamp = FileAt(s, rec[s].pos).m]
    BY <1>6 DEF RunRefresh
  <2>3. PICK m : m = FileAt(s, rec[s].pos).m
    OBVIOUS
  <2>4. FileAt(s, rec[s].pos) # NoFile => m \in Nat
    BY <2>3 DEF FileAt, Stored, Files
  <2>5. rec' = [rec EXCEPT ![s].stamp = m] => rec' = [rec EXCEPT ![s] = [rec[s] EXCEPT !.stamp = m]]
    OBVIOUS
  <2> QED BY <2>1, <2>2, <2>3, <2>4, <2>5, PartLemma, SameRecordsLemma
<1> QED BY <1>3, <1>4, <1>5, <1>6

\* What the watcher makes of a record.
LEMMA WatchedLemma ==
  ASSUME Stored, NEW s \in Sides
  PROVE  /\ Watched(s) \in Recs /\ Watched(s).f = rec[s].f
         /\ rec[s] = Gone <=> Watched(s) = Gone
<1> DEFINE away == {p \in Paths : disk[s][p].own /\ p # rec[s].pos}
<1>1. PICK at : at = IF away # {} THEN CHOOSE p \in away : TRUE ELSE rec[s].pos
  OBVIOUS
<1>2. Watched(s) = IF rec[s] = Gone \/ (away = {} /\ ~Real(rec[s])) THEN rec[s]
                   ELSE IF Present(s, at)
                        THEN [rec[s] EXCEPT !.pos = at, !.stamp = FileAt(s, at).m]
                        ELSE [rec[s] EXCEPT !.pos = "nothing"]
  BY <1>1 DEF Watched
<1> HIDE DEF away
<1>3. rec[s] \in Recs
  BY DEF Stored
<1>4. CASE rec[s] # Gone
  <2>1. Present(s, at) => at \in Paths /\ FileAt(s, at).m \in Nat
    BY DEF Present, FileAt, Stored, Files
  <2>2. at \in Paths => at \in Positions \ {"gone"}
    BY SyncAssumption DEF Positions
  <2>3. "nothing" \in Positions \ {"gone"}
    BY DEF Positions
  <2>4. ASSUME NEW p \in Positions \ {"gone"}, NEW m \in Nat
        PROVE  /\ [rec[s] EXCEPT !.pos = p] \in Recs /\ [rec[s] EXCEPT !.pos = p].f = rec[s].f
               /\ [rec[s] EXCEPT !.pos = p, !.stamp = m] \in Recs
               /\ [rec[s] EXCEPT !.pos = p, !.stamp = m].f = rec[s].f
               /\ [rec[s] EXCEPT !.pos = p] # Gone
               /\ [rec[s] EXCEPT !.pos = p, !.stamp = m] # Gone
    <3>1. /\ [rec[s] EXCEPT !.pos = p] \in Recs /\ [rec[s] EXCEPT !.pos = p].f = rec[s].f
          /\ [rec[s] EXCEPT !.pos = p, !.stamp = m] \in Recs
          /\ [rec[s] EXCEPT !.pos = p, !.stamp = m].f = rec[s].f
      BY <1>3, RecordLemma DEF Recs
    <3>2. /\ [rec[s] EXCEPT !.pos = p].pos = p
          /\ [rec[s] EXCEPT !.pos = p, !.stamp = m].pos = p
      BY <1>3 DEF Recs
    <3> QED BY <3>1, <3>2, RecordLemma
  <2>5. CASE away = {} /\ ~Real(rec[s])
    BY <1>2, <1>3, <1>4, <2>5
  <2>6. CASE ~(away = {} /\ ~Real(rec[s])) /\ Present(s, at)
    <3>1. Watched(s) = [rec[s] EXCEPT !.pos = at, !.stamp = FileAt(s, at).m]
      BY <1>2, <1>4, <2>6
    <3>2. at \in Positions \ {"gone"} /\ FileAt(s, at).m \in Nat
      BY <2>1, <2>2, <2>6
    <3>3. PICK m : m = FileAt(s, at).m
      OBVIOUS
    <3>4. m \in Nat /\ Watched(s) = [rec[s] EXCEPT !.pos = at, !.stamp = m]
      BY <3>1, <3>2, <3>3
    <3>5. /\ [rec[s] EXCEPT !.pos = at, !.stamp = m] \in Recs
          /\ [rec[s] EXCEPT !.pos = at, !.stamp = m].f = rec[s].f
          /\ [rec[s] EXCEPT !.pos = at, !.stamp = m] # Gone
      BY <2>4, <3>2, <3>4
    <3> QED BY <1>4, <3>4, <3>5
  <2>7. CASE ~(away = {} /\ ~Real(rec[s])) /\ ~Present(s, at)
    <3>1. Watched(s) = [rec[s] EXCEPT !.pos = "nothing"] /\ 0 \in Nat
      BY <1>2, <1>4, <2>7
    <3> QED BY <1>4, <2>3, <2>4, <3>1
  <2> QED BY <2>5, <2>6, <2>7
<1> QED BY <1>2, <1>3, <1>4

\* A record is made by RunCreate only; a field changes by a put of a run, an edit
\* or a deletion.
LEMMA RecordsStep ==
  ASSUME Stored, RunInv, Linkless, Doomed, Next
  PROVE  /\ rec' \in [Sides -> Recs]
         /\ GoneStays \/ RunCreate
         /\ FieldStays \/ RunField \/ RunDelete
              \/ \E s \in Sides : DeleteRecord(s) \/ \E v \in Vals \cup {0} : EditField(s, v)
         /\ ThereStays \/ RunDelete \/ PlanStep \/ \E s \in Sides : DeleteRecord(s)
<1>1. CASE rec' = rec
  BY <1>1, SameRecordsLemma
<1>2. CASE RunCreate
  <2>1. rec' = [s \in Sides |-> IF plan.base[s] = Gone /\ rec[s] = Gone THEN Bare ELSE rec[s]]
    BY <1>2 DEF RunCreate
  <2>2. rec' \in [Sides -> Recs] /\ ThereStays /\ FieldStays
    BY <2>1, RecordLemma DEF Stored, ThereStays, FieldStays
  <2> QED BY <1>2, <2>2
<1>3. CASE RunField
  <2>1. run.pc \in Reading
    BY <1>3 DEF RunField, At, Reading
  <2>2. rec' = rec \/ \E u, w \in Sides : /\ rec[u] = run.known[u]
                                          /\ rec' = [rec EXCEPT ![u] = [rec[u] EXCEPT !.f = run.known[w].f]]
    <3>1. PICK d : d = DecideField(run.known["A"].f, run.known["B"].f, row.snap.f)
      OBVIOUS
    <3>2. PICK w : w = IF d = "conflict" THEN Resolved("f") ELSE d
      OBVIOUS
    <3>3. PICK u : u = Other(w)
      OBVIOUS
    <3>4. u \in Sides
      BY <3>3, SidesLemma
    <3>5. \/ rec' = rec
          \/ w \in Sides /\ Put(u, run, [rec[u] EXCEPT !.f = run.known[w].f])
      BY <1>3, <3>1, <3>2, <3>3 DEF RunField, Refused
    <3> QED BY <3>4, <3>5 DEF Put
  <2>3. ASSUME NEW u \in Sides, NEW w \in Sides, rec[u] = run.known[u],
               rec' = [rec EXCEPT ![u] = [rec[u] EXCEPT !.f = run.known[w].f]]
        PROVE  rec' \in [Sides -> Recs] /\ GoneStays /\ ThereStays
    <3>1. PICK new : new = [rec[u] EXCEPT !.f = run.known[w].f]
      OBVIOUS
    <3>2. new \in Recs /\ rec[u] # Gone
      BY <2>1, <2>3, <3>1, WriteLemma
    <3>3. rec[u] \in Recs /\ run.known[w].f \in Vals \cup {0}
      BY DEF Stored, RunInv, Running, Runs, Recs
    <3>4. new # Gone
      BY <3>1, <3>2, <3>3, RecordLemma
    <3> QED BY <2>3, <3>1, <3>2, <3>4, SetLemma
  <2> QED BY <1>3, <2>2, <2>3, SameRecordsLemma
<1>4. CASE RunDelete
  <2>1. PICK s : s = OpOf("delete").from
    OBVIOUS
  <2>2. rec' = rec \/ (rec[s] # Gone /\ rec' = [rec EXCEPT ![s] = Gone])
    BY <1>4, <2>1 DEF RunDelete
  <2>3. s \in Sides /\ Gone \in Recs
    BY <1>4, <2>1, SurvivorLemma, StepsLemma, RecordLemma DEF RunDelete, At
  <2> QED BY <1>4, <2>2, <2>3, SetLemma, SameRecordsLemma
<1>5. ASSUME NEW s \in Sides, NEW v \in Vals \cup {0}, EditField(s, v)
      PROVE  rec' \in [Sides -> Recs] /\ GoneStays /\ ThereStays
  <2>1. rec[s] # Gone /\ rec' = [rec EXCEPT ![s].f = v]
    BY <1>5 DEF EditField
  <2>2. PICK new : new = [rec[s] EXCEPT !.f = v]
    OBVIOUS
  <2>3. rec' = [rec EXCEPT ![s] = new]
    BY <2>1, <2>2
  <2>4. new \in Recs /\ new # Gone
    BY <2>1, <2>2, RecordLemma DEF Stored
  <2> QED BY <2>1, <2>3, <2>4, SetLemma
<1>6. ASSUME NEW s \in Sides, DeleteRecord(s)
      PROVE  rec' \in [Sides -> Recs] /\ GoneStays
  <2>1. rec[s] # Gone /\ rec' = [rec EXCEPT ![s] = Gone] /\ Gone \in Recs
    BY <1>6, RecordLemma DEF DeleteRecord
  <2> QED BY <2>1, SetLemma
<1>7. ASSUME NEW s \in Sides, Watch(s)
      PROVE  rec' \in [Sides -> Recs] /\ GoneStays /\ ThereStays /\ FieldStays
  <2>1. rec' = [rec EXCEPT ![s] = Watched(s)]
    BY <1>7 DEF Watch
  <2>2. /\ Watched(s) \in Recs /\ Watched(s).f = rec[s].f
        /\ rec[s] = Gone <=> Watched(s) = Gone
    BY WatchedLemma
  <2>3. PICK new : new = Watched(s)
    OBVIOUS
  <2> QED BY <2>1, <2>2, <2>3 DEF Stored, GoneStays, ThereStays, FieldStays
<1>8. ASSUME NEW res, NEW leave, PlanWrite(res, leave)
      PROVE  rec' \in [Sides -> Recs] /\ GoneStays /\ FieldStays
  <2>1. rec' = [s \in Sides |-> IF ~row.linked /\ rec[s] = Bare THEN Gone ELSE rec[s]]
    BY <1>8 DEF PlanWrite
  <2> QED BY <2>1, RecordLemma DEF Stored, GoneStays, FieldStays
<1>9. CASE PlanStep
  <2>1. CASE PlanReadA \/ PlanReadB
    BY <2>1, <1>1 DEF PlanReadA, PlanReadB, data
  <2> QED BY <1>9, <2>1, <1>8 DEF PlanStep
<1>10. ASSUME NEW s \in Sides, UserStep(s) \/ Watch(s)
       PROVE  /\ rec' \in [Sides -> Recs]
              /\ GoneStays
              /\ FieldStays \/ DeleteRecord(s) \/ \E v \in Vals \cup {0} : EditField(s, v)
              /\ ThereStays \/ DeleteRecord(s)
  <2>1. CASE \E p \in Paths : \/ RemoveFile(s, p) \/ StrayFile(s, p)
                              \/ \E q \in Paths : MoveFile(s, p, q)
                              \/ \E c \in Contents : WriteFile(s, p, c)
    <3>1. rec' = rec
      BY <2>1 DEF RemoveFile, StrayFile, MoveFile, WriteFile, EditFile
    <3> QED BY <3>1, SameRecordsLemma
  <2>2. CASE \E v \in Vals \cup {0} : EditField(s, v)
    BY <2>2, <1>5
  <2> QED BY <1>10, <2>1, <2>2, <1>6, <1>7 DEF UserStep
<1>11. CASE RunStep
  <2>1. CASE \/ RunStart \/ RunPost \/ RunSync \/ RunCopy \/ RunTransfer \/ RunMove \/ RunRelocate
             \/ RunReread \/ RunCommit \/ RunUnlink \/ RunUnfile \/ RunDrop
    BY <2>1, <1>1 DEF RunStart, RunPost, RunSync, RunCopy, RunTransfer, RunMove, RunRelocate,
       RunReread, RunCommit, RunUnlink, RunUnfile, RunDrop, data
  <2>2. CASE \/ At("refresh_copy") /\ RunRefresh("copy", Other(Winner("copy", "content")))
             \/ At("refresh_move") /\ RunRefresh("move", Other(Winner("move", "pos")))
    <3>1. PICK s, t : s = Other(Winner("copy", "content")) /\ t = Other(Winner("move", "pos"))
      OBVIOUS
    <3>2. s \in Sides /\ t \in Sides
      BY <3>1, SidesLemma
    <3>3. \/ At("refresh_copy") /\ RunRefresh("copy", s)
          \/ At("refresh_move") /\ RunRefresh("move", t)
      BY <2>2, <3>1
    <3>4. \E kind \in {"copy", "move"}, u \in Sides :
              /\ At(IF kind = "copy" THEN "refresh_copy" ELSE "refresh_move")
              /\ RunRefresh(kind, u)
      BY <3>2, <3>3
    <3> QED BY <3>4, PartSteps
  <2>3. CASE RunPlace \/ RunPosition \/ RunOrphan \/ RunClear
    BY <2>3, PartSteps
  <2> QED BY <1>11, <2>1, <2>2, <2>3, <1>2, <1>3, <1>4 DEF RunStep
<1>12. CASE Crash
  BY <1>12, <1>1 DEF Crash, data
<1> QED BY <1>9, <1>10, <1>11, <1>12 DEF Next

-----------------------------------------------------------------------------
(* The files *)

\* What is kept of the files.
FileInv ==
  /\ disk \in [Sides -> [Paths -> Files]] /\ trash \in [Sides -> SUBSET Nat]
  /\ kept \in [Sides -> SUBSET Nat] /\ clock \in Nat /\ KeptSafe

\* No file, and files.
LEMMA FilesLemma ==
  /\ NoFile \in Files /\ NoFile.m = 0 /\ NoFile.own = FALSE
  /\ \A x \in Files : x.m \in Nat /\ (x = NoFile <=> x.m = 0)
  /\ \A x \in Files \ {NoFile}, own \in BOOLEAN :
       /\ File(x.m, x.c, own) \in Files /\ File(x.m, x.c, own).m = x.m
       /\ [x EXCEPT !.own = own] \in Files /\ [x EXCEPT !.own = own].m = x.m
  /\ [NoFile EXCEPT !.own = FALSE] = NoFile
  /\ \A m \in Nat, c \in Contents \cup Nat, own \in BOOLEAN :
       m > 0 => File(m, c, own) \in Files /\ File(m, c, own).m = m
<1>1. NoFile = [m |-> 0, c |-> 0, own |-> FALSE]
  BY DEF NoFile
<1>6. NoFile.own = FALSE
  BY <1>1, Zenon
<1>2. NoFile \in Files /\ NoFile.m = 0 /\ [NoFile EXCEPT !.own = FALSE] = NoFile
  <2>1. NoFile \in [m : Nat, c : Nat, own : BOOLEAN]
    BY <1>1
  <2>2. ASSUME NEW x \in [m : Nat, c : Nat, own : BOOLEAN], x.own = FALSE
        PROVE  [x EXCEPT !.own = FALSE] = x
    BY <2>2
  <2>3. [NoFile EXCEPT !.own = FALSE] = NoFile
    BY <2>1, <2>2, <1>6
  <2> QED BY <1>1, <2>3 DEF Files
<1>3. \A x \in Files : x.m \in Nat /\ (x = NoFile <=> x.m = 0)
  BY <1>1 DEF Files
<1>4. \A x \in Files \ {NoFile}, own \in BOOLEAN :
       /\ File(x.m, x.c, own) \in Files /\ File(x.m, x.c, own).m = x.m
       /\ [x EXCEPT !.own = own] \in Files /\ [x EXCEPT !.own = own].m = x.m
  BY DEF Files, File
<1>5. \A m \in Nat, c \in Contents \cup Nat, own \in BOOLEAN :
       m > 0 => File(m, c, own) \in Files /\ File(m, c, own).m = m
  BY DEF Files, File
<1> QED BY <1>2, <1>3, <1>4, <1>5, <1>6

\* One side's files change: what is kept of them is there or in the trash.
LEMMA SideLemma ==
  ASSUME FileInv, NEW s \in Sides, clock' \in Nat,
         disk' \in [Sides -> [Paths -> Files]], trash' \in [Sides -> SUBSET Nat],
         kept' \in [Sides -> SUBSET Nat],
         \A u \in Sides : u # s => /\ disk'[u] = disk[u] /\ trash'[u] = trash[u]
                                   /\ kept'[u] = kept[u],
         0 \notin kept'[s],
         \A x \in kept'[s] : x \in trash'[s] \/ \E p \in Paths : disk'[s][p].m = x
  PROVE  FileInv'
<1>1. ASSUME NEW u \in Sides
      PROVE  /\ 0 \notin kept'[u]
             /\ \A x \in kept'[u] : x \in trash'[u] \/ \E p \in Paths : disk'[u][p].m = x
  <2>1. CASE u = s
    BY <2>1
  <2>2. CASE u # s
    BY <2>2 DEF FileInv, KeptSafe
  <2> QED BY <2>1, <2>2
<1> QED BY <1>1 DEF FileInv, KeptSafe

\* The same, of what takes the place of one side's files.
LEMMA NowLemma ==
  ASSUME FileInv, NEW s \in Sides, NEW now \in [Paths -> Files], NEW T \in SUBSET Nat,
         NEW K \in SUBSET Nat,
         disk' = [disk EXCEPT ![s] = now], trash' = [trash EXCEPT ![s] = T],
         kept' = [kept EXCEPT ![s] = K]
  PROVE  /\ disk' \in [Sides -> [Paths -> Files]] /\ trash' \in [Sides -> SUBSET Nat]
         /\ kept' \in [Sides -> SUBSET Nat]
         /\ disk'[s] = now /\ trash'[s] = T /\ kept'[s] = K
         /\ \A u \in Sides : u # s => /\ disk'[u] = disk[u] /\ trash'[u] = trash[u]
                                      /\ kept'[u] = kept[u]
BY DEF FileInv

\* What is kept of one side's files.
LEMMA KeptLemma ==
  ASSUME FileInv, NEW s \in Sides
  PROVE  /\ disk[s] \in [Paths -> Files] /\ trash[s] \in SUBSET Nat /\ kept[s] \in SUBSET Nat
         /\ 0 \notin kept[s]
         /\ \A x \in kept[s] : x \in trash[s] \/ \E p \in Paths : disk[s][p].m = x
BY DEF FileInv, KeptSafe

\* Nothing of the files changes, or only whose they are.
LEMMA SameFilesLemma ==
  ASSUME FileInv, trash' = trash, kept' = kept, clock' = clock,
         \/ disk' = disk
         \/ \E s \in Sides : \E mine \in [Paths -> BOOLEAN] :
              /\ \A p \in Paths : disk[s][p] = NoFile => ~mine[p]
              /\ disk' = [disk EXCEPT ![s] = [p \in Paths |-> [disk[s][p] EXCEPT !.own = mine[p]]]]
  PROVE  FileInv'
<1>1. CASE disk' = disk
  BY <1>1 DEF FileInv, KeptSafe
<1>2. ASSUME NEW s \in Sides, NEW mine \in [Paths -> BOOLEAN],
             \A p \in Paths : disk[s][p] = NoFile => ~mine[p],
             disk' = [disk EXCEPT ![s] = [p \in Paths |-> [disk[s][p] EXCEPT !.own = mine[p]]]]
      PROVE  FileInv'
  <2> DEFINE now == [p \in Paths |-> [disk[s][p] EXCEPT !.own = mine[p]]]
  <2>1. ASSUME NEW p \in Paths
        PROVE  now[p] \in Files /\ now[p].m = disk[s][p].m
    <3>1. disk[s][p] \in Files /\ now[p] = [disk[s][p] EXCEPT !.own = mine[p]]
      BY KeptLemma
    <3>2. CASE disk[s][p] = NoFile
      <4>1. mine[p] = FALSE
        BY <1>2, <3>2
      <4> QED BY <3>1, <3>2, <4>1, FilesLemma
    <3>3. CASE disk[s][p] # NoFile
      <4>1. mine[p] \in BOOLEAN /\ disk[s][p] \in Files \ {NoFile}
        BY <3>1, <3>3
      <4> QED BY <3>1, <4>1, FilesLemma
    <3> QED BY <3>2, <3>3
  <2>2. now \in [Paths -> Files]
    BY <2>1
  <2>3. \A p \in Paths : now[p].m = disk[s][p].m
    BY <2>1
  <2>4. disk' = [disk EXCEPT ![s] = now]
    BY <1>2
  <2> HIDE DEF now
  <2>5. trash' = [trash EXCEPT ![s] = trash[s]] /\ kept' = [kept EXCEPT ![s] = kept[s]]
    BY DEF FileInv
  <2>6. \A x \in kept[s] : x \in trash[s] \/ \E p \in Paths : now[p].m = x
    BY <2>3, KeptLemma
  <2>7. clock' \in Nat
    BY DEF FileInv
  <2>8. kept[s] \in SUBSET Nat /\ 0 \notin kept[s] /\ trash[s] \in SUBSET Nat
    BY KeptLemma
  <2>9. PICK T, K : T = trash[s] /\ K = kept[s]
    OBVIOUS
  <2>10. /\ disk' \in [Sides -> [Paths -> Files]] /\ trash' \in [Sides -> SUBSET Nat]
        /\ kept' \in [Sides -> SUBSET Nat]
        /\ disk'[s] = now /\ trash'[s] = T /\ kept'[s] = K
        /\ \A u \in Sides : u # s => /\ disk'[u] = disk[u] /\ trash'[u] = trash[u]
                                     /\ kept'[u] = kept[u]
    BY <2>2, <2>4, <2>5, <2>8, <2>9, NowLemma
  <2>11. /\ 0 \notin kept'[s]
         /\ \A x \in kept'[s] : x \in trash'[s] \/ \E p \in Paths : disk'[s][p].m = x
    BY <2>6, <2>8, <2>9, <2>10
  <2> QED BY <2>7, <2>10, <2>11, SideLemma
<1> QED BY <1>1, <1>2

\* What is at a place goes to the trash, and nothing or a file takes it.
LEMMA ReplaceLemma ==
  ASSUME FileInv, NEW s \in Sides, NEW pos, NEW file \in Files, clock' = clock,
         trash' = [trash EXCEPT ![s] = Trashed(s, pos)],
         disk' = [disk EXCEPT ![s] = [disk[s] EXCEPT ![pos] = file]],
         \/ kept' = kept
         \/ pos \in Paths /\ file # NoFile /\ kept' = [kept EXCEPT ![s] = kept[s] \cup {file.m}]
  PROVE  FileInv'
<1> DEFINE now == [disk[s] EXCEPT ![pos] = file]
           T == Trashed(s, pos)
<1>1. PICK K : K = IF kept' = kept THEN kept[s] ELSE kept[s] \cup {file.m}
  OBVIOUS
<1>2. /\ disk[s] \in [Paths -> Files] /\ trash[s] \in SUBSET Nat /\ kept[s] \in SUBSET Nat
      /\ 0 \notin kept[s]
      /\ \A x \in kept[s] : x \in trash[s] \/ \E p \in Paths : disk[s][p].m = x
  BY KeptLemma
<1>3. now \in [Paths -> Files]
  BY <1>2
<1>4. /\ T = IF pos \in Paths /\ disk[s][pos] # NoFile THEN trash[s] \cup {disk[s][pos].m} ELSE trash[s]
  BY DEF Trashed, Present, FileAt
<1>5. T \in SUBSET Nat
  <2>1. pos \in Paths => disk[s][pos].m \in Nat
    BY <1>2, FilesLemma
  <2> QED BY <1>2, <1>4, <2>1
<1>6. K \in SUBSET Nat /\ 0 \notin K /\ kept' = [kept EXCEPT ![s] = K]
  <2>1. CASE kept' = kept
    BY <1>1, <1>2, <2>1 DEF FileInv
  <2>2. CASE kept' # kept
    BY <1>1, <1>2, <2>2, FilesLemma
  <2> QED BY <2>1, <2>2
<1>7. ASSUME NEW x \in K
      PROVE  x \in T \/ \E p \in Paths : now[p].m = x
  <2>1. CASE x \in kept[s]
    <3>1. CASE x \in trash[s]
      BY <1>4, <3>1
    <3>2. ASSUME NEW p \in Paths, disk[s][p].m = x
          PROVE  x \in T \/ \E q \in Paths : now[q].m = x
      <4>1. CASE p # pos
        <5>1. now[p] = disk[s][p]
          BY <4>1, <1>2
        <5> QED BY <5>1, <3>2
      <4>2. CASE p = pos
        <5>1. disk[s][pos] # NoFile
          BY <1>2, <2>1, <3>2, <4>2, FilesLemma
        <5> QED BY <1>4, <3>2, <4>2, <5>1
      <4> QED BY <4>1, <4>2
    <3> QED BY <1>2, <2>1, <3>1, <3>2
  <2>2. CASE x \notin kept[s]
    <3>1. pos \in Paths /\ x = file.m
      BY <1>1, <1>7, <2>2
    <3>2. now[pos] = file
      BY <1>2, <3>1
    <3> QED BY <3>1, <3>2
  <2> QED BY <2>1, <2>2
<1>8. disk' = [disk EXCEPT ![s] = now] /\ trash' = [trash EXCEPT ![s] = T] /\ clock' \in Nat
  BY DEF FileInv
<1> HIDE DEF now, T
<1>9. /\ disk' \in [Sides -> [Paths -> Files]] /\ trash' \in [Sides -> SUBSET Nat]
      /\ kept' \in [Sides -> SUBSET Nat]
      /\ disk'[s] = now /\ trash'[s] = T /\ kept'[s] = K
      /\ \A u \in Sides : u # s => /\ disk'[u] = disk[u] /\ trash'[u] = trash[u]
                                   /\ kept'[u] = kept[u]
  BY <1>3, <1>5, <1>6, <1>8, NowLemma
<1> QED BY <1>6, <1>7, <1>8, <1>9, SideLemma

\* A file is renamed, over what was at its new place.
LEMMA RenameLemma ==
  ASSUME FileInv, NEW s \in Sides, NEW old \in Paths, NEW new \in Paths, old # new,
         disk[s][old] # NoFile, clock' = clock, kept' = kept,
         trash' = [trash EXCEPT ![s] = Trashed(s, new)],
         disk' = [disk EXCEPT ![s] = [disk[s] EXCEPT ![new] = [disk[s][old] EXCEPT !.own = TRUE],
                                                     ![old] = NoFile]]
  PROVE  FileInv'
<1> DEFINE file == [disk[s][old] EXCEPT !.own = TRUE]
           now == [disk[s] EXCEPT ![new] = file, ![old] = NoFile]
           T == Trashed(s, new)
<1>1. /\ disk[s] \in [Paths -> Files] /\ trash[s] \in SUBSET Nat /\ kept[s] \in SUBSET Nat
      /\ 0 \notin kept[s]
      /\ \A x \in kept[s] : x \in trash[s] \/ \E p \in Paths : disk[s][p].m = x
  BY KeptLemma
<1>2. file \in Files /\ file.m = disk[s][old].m
  BY <1>1, FilesLemma
<1>3. disk' = [disk EXCEPT ![s] = now]
  OBVIOUS
<1> HIDE DEF file
<1>4. /\ now \in [Paths -> Files]
      /\ now[new] = file /\ \A p \in Paths : p \notin {old, new} => now[p] = disk[s][p]
  BY <1>1, <1>2, FilesLemma
<1> HIDE DEF now
<1>5. T = IF disk[s][new] # NoFile THEN trash[s] \cup {disk[s][new].m} ELSE trash[s]
  BY DEF Trashed, Present, FileAt
<1>6. T \in SUBSET Nat /\ trash' = [trash EXCEPT ![s] = T]
  <2>1. disk[s][new].m \in Nat
    BY <1>1, FilesLemma
  <2> QED BY <1>1, <1>5, <2>1
<1>7. ASSUME NEW x \in kept[s]
      PROVE  x \in T \/ \E p \in Paths : now[p].m = x
  <2>1. CASE x \in trash[s]
    BY <1>5, <2>1
  <2>2. ASSUME NEW p \in Paths, disk[s][p].m = x
        PROVE  x \in T \/ \E q \in Paths : now[q].m = x
    <3>1. CASE p \notin {old, new}
      <4>1. now[p] = disk[s][p]
        BY <3>1, <1>4
      <4> QED BY <4>1, <2>2
    <3>2. CASE p = old
      BY <1>2, <1>4, <2>2, <3>2
    <3>3. CASE p = new
      <4>1. disk[s][new] # NoFile
        BY <1>1, <1>7, <2>2, <3>3, FilesLemma
      <4> QED BY <1>5, <2>2, <3>3, <4>1
    <3> QED BY <3>1, <3>2, <3>3
  <2> QED BY <1>1, <2>1, <2>2
<1>8. kept' = [kept EXCEPT ![s] = kept[s]] /\ clock' \in Nat
  BY DEF FileInv
<1> HIDE DEF T
<1>10. PICK K : K = kept[s]
  OBVIOUS
<1>12. K \in SUBSET Nat /\ kept' = [kept EXCEPT ![s] = K]
  BY <1>1, <1>8, <1>10
<1>9. /\ disk' \in [Sides -> [Paths -> Files]] /\ trash' \in [Sides -> SUBSET Nat]
      /\ kept' \in [Sides -> SUBSET Nat]
      /\ disk'[s] = now /\ trash'[s] = T /\ kept'[s] = K
      /\ \A u \in Sides : u # s => /\ disk'[u] = disk[u] /\ trash'[u] = trash[u]
                                   /\ kept'[u] = kept[u]
  <2>1. now \in [Paths -> Files]
    BY <1>4
  <2>2. T \in SUBSET Nat
    BY <1>6
  <2>3. disk' = [disk EXCEPT ![s] = now] /\ trash' = [trash EXCEPT ![s] = T]
    BY <1>3, <1>6
  <2> QED BY ONLY FileInv, s \in Sides, <1>12, <2>1, <2>2, <2>3, NowLemma
<1>11. /\ 0 \notin kept'[s]
       /\ \A x \in kept'[s] : x \in trash'[s] \/ \E p \in Paths : disk'[s][p].m = x
  BY <1>1, <1>7, <1>9, <1>10
<1> QED BY <1>8, <1>9, <1>11, SideLemma

\* A transfer, whole or not, puts what it writes over into the trash.
LEMMA TransferLemma ==
  ASSUME FileInv, NEW s \in Sides, NEW u \in Sides, NEW from, NEW pos \in Paths, clock' = clock,
         \/ FileAt(u, from) # NoFile /\ PlaceContent(s, pos, FileAt(u, from))
         \/ TransferFails(s, pos)
  PROVE  FileInv'
<1>1. PICK src : src = FileAt(u, from)
  OBVIOUS
<1>2. CASE src # NoFile /\ PlaceContent(s, pos, src)
  <2>1. src \in Files \ {NoFile}
    BY <1>1, <1>2, KeptLemma DEF FileAt
  <2>2. PICK file : file = File(src.m, src.c, TRUE)
    OBVIOUS
  <2>3. file \in Files /\ file.m = src.m /\ src.m # 0
    BY <2>1, <2>2, FilesLemma
  <2>4. file # NoFile
    BY <2>3, FilesLemma
  <2>5. /\ trash' = [trash EXCEPT ![s] = Trashed(s, pos)]
        /\ disk' = [disk EXCEPT ![s] = [disk[s] EXCEPT ![pos] = file]]
        /\ kept' = [kept EXCEPT ![s] = kept[s] \cup {file.m}]
    BY <1>2, <2>2, <2>3 DEF PlaceContent
  <2> QED BY <2>3, <2>4, <2>5, ReplaceLemma
<1>3. CASE TransferFails(s, pos)
  <2>1. /\ trash' = [trash EXCEPT ![s] = Trashed(s, pos)]
        /\ disk' = [disk EXCEPT ![s] = [disk[s] EXCEPT ![pos] = NoFile]] /\ kept' = kept
    BY <1>3 DEF TransferFails
  <2> QED BY <2>1, FilesLemma, ReplaceLemma
<1> QED BY <1>1, <1>2, <1>3

\* The run's steps that write files.
LEMMA RunFiles ==
  ASSUME FileInv, RunInv, Stored, Linkless, Doomed,
         RunTransfer \/ RunRelocate \/ RunOrphan \/ RunUnfile
  PROVE  FileInv'
<1>1. CASE RunTransfer
  <2>1. PICK from, to : from = Winner("copy", "content") /\ to = Other(from)
    OBVIOUS
  <2>2. from \in Sides /\ to \in Sides
    BY <1>1, <2>1, SidesLemma DEF RunTransfer, At, RunInv, Flow
  <2>3. clock' = clock
    BY <1>1 DEF RunTransfer
  <2>4. \/ disk' = disk /\ trash' = trash /\ kept' = kept
        \/ /\ rec[to].pos \in Paths
           /\ \/ /\ FileAt(from, rec[from].pos) # NoFile
                 /\ PlaceContent(to, rec[to].pos, FileAt(from, rec[from].pos))
              \/ TransferFails(to, rec[to].pos)
    BY <1>1, <2>1 DEF RunTransfer
  <2>5. PICK p, q : p = rec[to].pos /\ q = rec[from].pos
    OBVIOUS
  <2> QED BY <2>2, <2>3, <2>4, <2>5, TransferLemma, SameFilesLemma
<1>2. CASE RunRelocate
  <2>1. PICK w, s : w = Winner("move", "pos") /\ s = Other(w)
    OBVIOUS
  <2>2. w \in Sides /\ s \in Sides
    BY <1>2, <2>1, SidesLemma, StepsLemma DEF RunRelocate, At, RunInv, Flow
  <2>3. PICK new, old, q : new = rec[s].pos /\ old = run.old /\ q = rec[w].pos
    OBVIOUS
  <2>4. clock' = clock
    BY <1>2 DEF RunRelocate
  <2>5. \/ disk' = disk /\ trash' = trash /\ kept' = kept
        \/ /\ new \in Paths /\ old # new /\ Present(s, old) /\ kept' = kept
           /\ trash' = [trash EXCEPT ![s] = Trashed(s, new)]
           /\ disk' = [disk EXCEPT ![s] = [@ EXCEPT ![new] = [FileAt(s, old) EXCEPT !.own = TRUE],
                                                    ![old] = NoFile]]
        \/ /\ new \in Paths
           /\ \/ FileAt(w, q) # NoFile /\ PlaceContent(s, new, FileAt(w, q))
              \/ TransferFails(s, new)
    BY <1>2, <2>1, <2>3 DEF RunRelocate
  <2>6. ASSUME new \in Paths, old # new, Present(s, old), kept' = kept,
               trash' = [trash EXCEPT ![s] = Trashed(s, new)],
               disk' = [disk EXCEPT ![s] = [@ EXCEPT ![new] = [FileAt(s, old) EXCEPT !.own = TRUE],
                                                     ![old] = NoFile]]
        PROVE  FileInv'
    <3>1. old \in Paths /\ disk[s][old] # NoFile /\ FileAt(s, old) = disk[s][old]
      BY <2>6 DEF Present, FileAt
    <3>2. disk' = [disk EXCEPT ![s] = [disk[s] EXCEPT ![new] = [disk[s][old] EXCEPT !.own = TRUE],
                                                      ![old] = NoFile]]
      BY <2>6, <3>1
    <3> QED BY <2>2, <2>4, <2>6, <3>1, <3>2, RenameLemma
  <2> QED BY <2>2, <2>4, <2>5, <2>6, TransferLemma, SameFilesLemma
<1>3. CASE RunOrphan \/ RunUnfile
  <2>1. PICK s, u : s = Other(Winner("move", "pos")) /\ u = OpOf("delete").from
    OBVIOUS
  <2>2. s \in Sides /\ (RunUnfile => u \in Sides)
    BY <2>1, SidesLemma, SurvivorLemma, StepsLemma DEF RunUnfile, At
  <2>3. clock' = clock /\ kept' = kept
    BY <1>3 DEF RunOrphan, RunUnfile
  <2>4. PICK x \in {s, u} :
          /\ x \in Sides
          /\ \/ disk' = disk /\ trash' = trash
             \/ /\ trash' = [trash EXCEPT ![x] = Trashed(x, run.old)]
                /\ \/ disk' = [disk EXCEPT ![x][run.old] = NoFile]
                   \/ run.old \notin Paths /\ disk' = disk
    <3>1. CASE RunOrphan
      BY <3>1, <2>1, <2>2 DEF RunOrphan
    <3>2. CASE RunUnfile
      BY <3>2, <2>1, <2>2 DEF RunUnfile
    <3> QED BY <1>3, <3>1, <3>2
  <2>5. CASE disk' = disk /\ trash' = trash
    BY <2>3, <2>5, SameFilesLemma
  <2>6. CASE /\ trash' = [trash EXCEPT ![x] = Trashed(x, run.old)]
             /\ disk' = [disk EXCEPT ![x][run.old] = NoFile]
    <3>1. disk' = [disk EXCEPT ![x] = [disk[x] EXCEPT ![run.old] = NoFile]]
      BY <2>6
    <3> QED BY <2>3, <2>4, <2>6, <3>1, FilesLemma, ReplaceLemma
  <2>7. CASE /\ trash' = [trash EXCEPT ![x] = Trashed(x, run.old)]
             /\ run.old \notin Paths /\ disk' = disk
    <3>1. trash' = trash
      BY <2>7 DEF Trashed, Present, FileAt, FileInv
    <3> QED BY <2>3, <2>7, <3>1, SameFilesLemma
  <2> QED BY <2>4, <2>5, <2>6, <2>7
<1> QED BY <1>1, <1>2, <1>3

\* The user's files: one is written, moved, removed or left.
LEMMA EditFileLemma ==
  ASSUME FileInv, NEW s \in Sides, NEW now \in [Paths -> Files], NEW gone,
         NEW new, Cardinality(new) \in Nat, EditFile(s, now, gone, new),
         \A x \in kept[s] \ gone, p \in Paths :
           disk[s][p].m = x => \E q \in Paths : now[q].m = x,
         \A x \in new : x \in Nat /\ x # 0 /\ \E q \in Paths : now[q].m = x
  PROVE  FileInv'
<1>1. /\ disk' = [disk EXCEPT ![s] = now] /\ trash' = trash /\ clock' = clock + Cardinality(new)
      /\ kept' = [kept EXCEPT ![s] = (kept[s] \ gone) \cup new]
  BY DEF EditFile
<1>2. /\ trash[s] \in SUBSET Nat /\ kept[s] \in SUBSET Nat /\ 0 \notin kept[s]
      /\ \A x \in kept[s] : x \in trash[s] \/ \E p \in Paths : disk[s][p].m = x
      /\ clock \in Nat
  BY KeptLemma DEF FileInv
<1>4. PICK T, K : T = trash[s] /\ K = (kept[s] \ gone) \cup new
  OBVIOUS
<1>5. T \in SUBSET Nat /\ K \in SUBSET Nat /\ 0 \notin K
  BY <1>2, <1>4
<1>6. trash' = [trash EXCEPT ![s] = T] /\ kept' = [kept EXCEPT ![s] = K]
  BY <1>1, <1>4 DEF FileInv
<1>7. /\ disk' \in [Sides -> [Paths -> Files]] /\ trash' \in [Sides -> SUBSET Nat]
      /\ kept' \in [Sides -> SUBSET Nat]
      /\ disk'[s] = now /\ trash'[s] = T /\ kept'[s] = K
      /\ \A u \in Sides : u # s => /\ disk'[u] = disk[u] /\ trash'[u] = trash[u]
                                   /\ kept'[u] = kept[u]
  BY ONLY FileInv, s \in Sides, now \in [Paths -> Files], <1>1, <1>5, <1>6, NowLemma
<1>8. ASSUME NEW x \in K
      PROVE  x \in T \/ \E p \in Paths : now[p].m = x
  BY <1>2, <1>4, <1>8
<1>9. clock' \in Nat
  BY <1>1, <1>2
<1>10. /\ 0 \notin kept'[s]
       /\ \A x \in kept'[s] : x \in trash'[s] \/ \E p \in Paths : disk'[s][p].m = x
  BY <1>5, <1>7, <1>8
<1> QED BY <1>7, <1>9, <1>10, SideLemma

\* A file at one place is replaced, by the user.
LEMMA EditAtLemma ==
  ASSUME FileInv, NEW s \in Sides, NEW p \in Paths, NEW file \in Files, NEW gone,
         NEW new, Cardinality(new) \in Nat,
         EditFile(s, [disk[s] EXCEPT ![p] = file], gone, new),
         gone = {disk[s][p].m} \/ disk[s][p] = NoFile,
         \A x \in new : x \in Nat /\ x # 0 /\ file.m = x
  PROVE  FileInv'
<1>1. PICK now : now = [disk[s] EXCEPT ![p] = file]
  OBVIOUS
<1>2. /\ now \in [Paths -> Files] /\ now[p] = file
      /\ \A q \in Paths : q # p => now[q] = disk[s][q]
  BY <1>1, KeptLemma
<1>3. ASSUME NEW x \in kept[s] \ gone, NEW q \in Paths, disk[s][q].m = x
      PROVE  \E r \in Paths : now[r].m = x
  <2>1. q # p
    BY <1>3, KeptLemma, FilesLemma
  <2> QED BY <1>2, <1>3, <2>1
<1>4. \A x \in new : x \in Nat /\ x # 0 /\ \E q \in Paths : now[q].m = x
  BY <1>2
<1>5. EditFile(s, now, gone, new)
  BY <1>1
<1>6. \A x \in kept[s] \ gone, q \in Paths :
        disk[s][q].m = x => \E r \in Paths : now[r].m = x
  BY <1>3
<1>7. now \in [Paths -> Files]
  BY <1>2
<1> QED BY ONLY FileInv, s \in Sides, Cardinality(new) \in Nat,
            <1>4, <1>5, <1>6, <1>7, EditFileLemma

\* The steps of the user and of the watcher.
LEMMA UserFiles ==
  ASSUME FileInv, Stored, NEW s \in Sides, UserStep(s) \/ Watch(s)
  PROVE  FileInv'
<1>1. clock \in Nat /\ clock + 1 \in Nat /\ clock + 1 > 0
  BY DEF FileInv
<1>2. ASSUME NEW p \in Paths, RemoveFile(s, p)
      PROVE  FileInv'
  <2>1. EditFile(s, [disk[s] EXCEPT ![p] = NoFile], {disk[s][p].m}, {})
    BY <1>2 DEF RemoveFile
  <2>2. Cardinality({}) \in Nat /\ NoFile \in Files
    BY FilesLemma, FS_EmptySet
  <2> QED BY <2>1, <2>2, EditAtLemma
<1>3. ASSUME NEW p \in Paths, StrayFile(s, p)
      PROVE  FileInv'
  <2>1. PICK file : file = File(clock + 1, clock + 1, FALSE)
    OBVIOUS
  <2>2. file \in Files /\ file.m = clock + 1
    BY <1>1, <2>1, FilesLemma
  <2>3. PICK k : k = clock + 1
    OBVIOUS
  <2>4. k \in Nat /\ k # 0 /\ file.m = k /\ Cardinality({k}) \in Nat
    BY <1>1, <2>2, <2>3, FS_Singleton
  <2>5. EditFile(s, [disk[s] EXCEPT ![p] = file], {}, {k}) /\ disk[s][p] = NoFile
    BY <1>3, <2>1, <2>3 DEF StrayFile
  <2> QED BY <2>2, <2>4, <2>5, EditAtLemma
<1>4. ASSUME NEW p \in Paths, NEW c \in Contents, WriteFile(s, p, c)
      PROVE  FileInv'
  <2>1. PICK file : file = File(clock + 1, c, TRUE)
    OBVIOUS
  <2>2. file \in Files /\ file.m = clock + 1
    BY <1>1, <2>1, FilesLemma
  <2>3. PICK k : k = clock + 1
    OBVIOUS
  <2>4. k \in Nat /\ k # 0 /\ file.m = k /\ Cardinality({k}) \in Nat
    BY <1>1, <2>2, <2>3, FS_Singleton
  <2>5. EditFile(s, [disk[s] EXCEPT ![p] = file], {disk[s][p].m}, {k})
    BY <1>4, <2>1, <2>3 DEF WriteFile
  <2> QED BY <2>2, <2>4, <2>5, EditAtLemma
<1>5. ASSUME NEW p \in Paths, NEW q \in Paths, MoveFile(s, p, q)
      PROVE  FileInv'
  <2>1. PICK now : now = [disk[s] EXCEPT ![p] = NoFile, ![q] = disk[s][p]]
    OBVIOUS
  <2>2. /\ now \in [Paths -> Files] /\ now[q] = disk[s][p]
        /\ \A r \in Paths : r \notin {p, q} => now[r] = disk[s][r]
    BY <2>1, KeptLemma, FilesLemma
  <2>3. ASSUME NEW x \in kept[s], NEW r \in Paths, disk[s][r].m = x
        PROVE  \E t \in Paths : now[t].m = x
    <3>1. r # q
      BY <1>5, <2>3, KeptLemma, FilesLemma DEF MoveFile
    <3> QED BY <2>2, <2>3, <3>1
  <2>4. EditFile(s, now, {}, {})
    BY <1>5, <2>1 DEF MoveFile
  <2>5. Cardinality({}) \in Nat /\ now \in [Paths -> Files]
    BY <2>2, FS_EmptySet
  <2> QED BY <2>3, <2>4, <2>5, EditFileLemma
<1>6. ASSUME NEW v \in Vals \cup {0}, EditField(s, v)
      PROVE  FileInv'
  BY <1>6, SameFilesLemma DEF EditField
<1>7. CASE DeleteRecord(s)
  <2>1. PICK mine : mine = [p \in Paths |-> FALSE]
    OBVIOUS
  <2>2. mine \in [Paths -> BOOLEAN] /\ \A p \in Paths : mine[p] = FALSE
    BY <2>1
  <2>3. [p \in Paths |-> [disk[s][p] EXCEPT !.own = FALSE]]
          = [p \in Paths |-> [disk[s][p] EXCEPT !.own = mine[p]]]
    BY <2>1
  <2>4. disk' = [disk EXCEPT ![s] = [p \in Paths |-> [disk[s][p] EXCEPT !.own = mine[p]]]]
    BY <1>7, <2>3 DEF DeleteRecord
  <2>5. trash' = trash /\ kept' = kept /\ clock' = clock
    BY <1>7 DEF DeleteRecord
  <2> QED BY <2>2, <2>4, <2>5, SameFilesLemma
<1>8. CASE Watch(s)
  <2>1. PICK mine : mine = [p \in Paths |-> Present(s, p) /\ p = Watched(s).pos]
    OBVIOUS
  <2>2. mine \in [Paths -> BOOLEAN]
    BY <2>1
  <2>3. \A p \in Paths : disk[s][p] = NoFile => ~mine[p]
    BY <2>1 DEF Present, FileAt
  <2>4. [p \in Paths |-> [disk[s][p] EXCEPT !.own = Present(s, p) /\ p = Watched(s).pos]]
          = [p \in Paths |-> [disk[s][p] EXCEPT !.own = mine[p]]]
    BY <2>1
  <2>5. disk' = [disk EXCEPT ![s] = [p \in Paths |-> [disk[s][p] EXCEPT !.own = mine[p]]]]
    BY <1>8, <2>4 DEF Watch
  <2>6. trash' = trash /\ kept' = kept /\ clock' = clock
    BY <1>8 DEF Watch
  <2> QED BY <2>2, <2>3, <2>5, <2>6, SameFilesLemma
<1> QED BY <1>2, <1>3, <1>4, <1>5, <1>6, <1>7, <1>8 DEF UserStep

\* Every step keeps the files.
LEMMA FilesStep ==
  ASSUME FileInv, RunInv, Stored, Linkless, Doomed, Next
  PROVE  FileInv'
<1>1. CASE disk' = disk /\ trash' = trash /\ kept' = kept /\ clock' = clock
  BY <1>1, SameFilesLemma
<1>2. CASE PlanStep \/ Crash
  BY <1>2, <1>1 DEF PlanStep, PlanReadA, PlanReadB, PlanWrite, Crash, data, world, ghosts
<1>3. CASE RunStep
  <2>1. CASE RunStart \/ RunCreate \/ RunPost \/ RunSync \/ RunField \/ RunPlace \/ RunCopy
    BY <2>1, <1>1 DEF RunStart, RunCreate, RunPost, RunSync, RunField, RunPlace, RunCopy,
       data, world, ghosts
  <2>2. CASE \/ RunMove \/ RunPosition \/ RunClear \/ RunReread \/ RunCommit \/ RunDelete
             \/ RunUnlink \/ RunDrop \/ \E kind, s : RunRefresh(kind, s)
    BY <2>2, <1>1 DEF RunMove, RunPosition, RunClear, RunReread, RunCommit, RunDelete, RunUnlink, RunDrop,
       RunRefresh, data, world, ghosts
  <2> QED BY <1>3, <2>1, <2>2, RunFiles DEF RunStep
<1> QED BY <1>2, <1>3, UserFiles DEF Next

-----------------------------------------------------------------------------
(* The row *)

Rows == [linked : BOOLEAN, v : [Sides -> Recs], snap : Snaps]

\* The rows there are when nothing was synchronised.
LEMMA RowLemma ==
  /\ NoLink \in Rows /\ ~NoLink.linked /\ NoLink.snap.f = 0
  /\ [NoLink EXCEPT !.linked = TRUE] \in Rows /\ [NoLink EXCEPT !.linked = TRUE].linked
  /\ [NoLink EXCEPT !.linked = TRUE].snap = NoLink.snap
  /\ \A s \in Sides : NoLink.v[s] = Gone /\ [NoLink EXCEPT !.linked = TRUE].v[s] = Gone
<1>1. NoLink = [linked |-> FALSE, v |-> [s \in Sides |-> Gone], snap |-> NoSnap]
  BY DEF NoLink
<1>2. NoSnap \in Snaps /\ NoSnap.f = 0
  BY DEF NoSnap, Snaps, Positions
<1>3. [s \in Sides |-> Gone] \in [Sides -> Recs]
  BY RecordLemma
<1>4. NoLink \in Rows /\ ~NoLink.linked /\ NoLink.snap = NoSnap /\ NoLink.v = [s \in Sides |-> Gone]
  BY <1>1, <1>2, <1>3 DEF Rows
<1>5. ASSUME NEW r \in Rows
      PROVE  /\ [r EXCEPT !.linked = TRUE] \in Rows /\ [r EXCEPT !.linked = TRUE].linked
             /\ [r EXCEPT !.linked = TRUE].snap = r.snap /\ [r EXCEPT !.linked = TRUE].v = r.v
  BY DEF Rows
<1>6. /\ [NoLink EXCEPT !.linked = TRUE] \in Rows /\ [NoLink EXCEPT !.linked = TRUE].linked
      /\ [NoLink EXCEPT !.linked = TRUE].snap = NoSnap
      /\ [NoLink EXCEPT !.linked = TRUE].v = [s \in Sides |-> Gone]
  BY <1>4, <1>5
<1> QED BY <1>2, <1>4, <1>6

\* The snapshot of two records.
LEMMA SnapLemma ==
  ASSUME NEW a \in Recs, NEW b \in Recs, NEW old \in Snaps
  PROVE  /\ NextSnapshot(a, b, old) \in Snaps
         /\ NextSnapshot(a, b, old).f = IF a.f = b.f THEN a.f ELSE old.f
<1>1. /\ a.f \in Vals \cup {0} /\ b.f \in Vals \cup {0} /\ old.f \in Vals \cup {0}
      /\ a.pos \in Positions /\ b.pos \in Positions /\ old.pos \in Positions
      /\ a.stamp \in Nat /\ b.stamp \in Nat
  BY DEF Recs, Snaps
<1>2. [s \in Sides |-> IF s = "A" THEN a.stamp ELSE b.stamp] \in [Sides -> Nat]
  BY <1>1
<1>3. PICK f, pos, st : /\ f = IF a.f = b.f THEN a.f ELSE old.f
                        /\ pos = IF a.pos = b.pos THEN a.pos ELSE old.pos
                        /\ st = [s \in Sides |-> IF s = "A" THEN a.stamp ELSE b.stamp]
  OBVIOUS
<1>4. NextSnapshot(a, b, old) = [f |-> f, pos |-> pos, stamp |-> st]
  BY <1>3 DEF NextSnapshot
<1>5. f \in Vals \cup {0} /\ pos \in Positions /\ st \in [Sides -> Nat]
  BY <1>1, <1>2, <1>3
<1> QED BY <1>3, <1>4, <1>5 DEF Snaps

\* What a commit makes of the row.
Commits == /\ run.synced /\ ~run.unsettled /\ ~run.held /\ row.linked
           /\ \A s \in Sides : run.known[s] # Gone

\* A step makes the link, commits it, removes it, or leaves the row.
LEMMA RowCases ==
  ASSUME Stored, RunInv, Linkless, Next
  PROVE  \/ row' = row
         \/ RunPost /\ ~row.linked /\ row' = [NoLink EXCEPT !.linked = TRUE]
         \/ /\ RunCommit /\ Commits
            /\ row' = [row EXCEPT !.v = run.known,
                                  !.snap = NextSnapshot(run.known["A"], run.known["B"], row.snap)]
         \/ (RunUnlink \/ RunDrop) /\ row' = NoLink
<1>1. CASE PlanStep \/ Crash
  BY <1>1 DEF PlanStep, PlanReadA, PlanReadB, PlanWrite, Crash, data
<1>2. CASE RunStep
  <2>1. CASE RunStart \/ RunCreate \/ RunSync \/ RunField \/ RunPlace \/ RunCopy \/ RunTransfer
    BY <2>1 DEF RunStart, RunCreate, RunSync, RunField, RunPlace, RunCopy, RunTransfer, data
  <2>2. CASE \/ RunMove \/ RunPosition \/ RunRelocate \/ RunOrphan \/ RunClear \/ RunReread
             \/ RunDelete \/ RunUnfile \/ \E kind, s : RunRefresh(kind, s)
    BY <2>2 DEF RunMove, RunPosition, RunRelocate, RunOrphan, RunClear, RunReread, RunDelete, RunUnfile,
       RunRefresh
  <2>3. CASE RunPost
    BY <2>3 DEF RunPost
  <2>4. CASE RunCommit
    <3>1. CASE Commits
      <4>1. row' = [row EXCEPT !.v = run.known,
                               !.snap = NextSnapshot(run.known["A"], run.known["B"], @)]
        BY <2>4, <3>1 DEF RunCommit, Commits
      <4> QED BY <2>4, <3>1, <4>1
    <3>2. CASE ~Commits
      BY <2>4, <3>2 DEF RunCommit, Commits
    <3> QED BY <3>1, <3>2
  <2>5. CASE RunUnlink \/ RunDrop
    BY <2>5 DEF RunUnlink, RunDrop
  <2> QED BY <1>2, <2>1, <2>2, <2>3, <2>4, <2>5 DEF RunStep
<1>3. ASSUME NEW s \in Sides, UserStep(s) \/ Watch(s)
      PROVE  row' = row
  BY <1>3 DEF UserStep, EditField, DeleteRecord, RemoveFile, StrayFile, MoveFile, WriteFile,
     EditFile, Watch
<1> QED BY <1>1, <1>2, <1>3 DEF Next

\* What came apart stays so.
LEMMA HalfLemma ==
  ASSUME half \subseteq {"plan", "orphan"}, Next
  PROVE  half' \subseteq {"plan", "orphan"} /\ half \subseteq half'
<1>1. CASE half' = half
  BY <1>1
<1>2. CASE PlanStep \/ Crash
  BY <1>1, <1>2 DEF PlanStep, PlanReadA, PlanReadB, PlanWrite, Crash, data, ghosts
<1>3. CASE RunStep
  <2>1. CASE RunStart \/ RunCreate \/ RunPost \/ RunSync \/ RunField \/ RunPlace \/ RunCopy
    BY <2>1, <1>1 DEF RunStart, RunCreate, RunPost, RunSync, RunField, RunPlace, RunCopy, ghosts
  <2>2. CASE \/ RunTransfer \/ RunMove \/ RunPosition \/ RunRelocate \/ RunOrphan \/ RunClear
             \/ \E kind, s : RunRefresh(kind, s)
    BY <2>2, <1>1 DEF RunTransfer, RunMove, RunPosition, RunRelocate, RunOrphan, RunClear, RunRefresh
  <2>3. CASE RunCommit \/ RunDelete \/ RunUnlink \/ RunUnfile \/ RunDrop
    BY <2>3, <1>1 DEF RunCommit, RunDelete, RunUnlink, RunUnfile, RunDrop, ghosts
  <2>4. CASE RunReread
    BY <2>4 DEF RunReread
  <2> QED BY <1>3, <2>1, <2>2, <2>3, <2>4 DEF RunStep
<1>4. ASSUME NEW s \in Sides, UserStep(s) \/ Watch(s)
      PROVE  half' = half
  BY <1>4 DEF UserStep, EditField, DeleteRecord, RemoveFile, StrayFile, MoveFile, WriteFile,
     EditFile, Watch
<1> QED BY <1>1, <1>2, <1>3, <1>4 DEF Next

\* What the row after a commit is.
LEMMA CommitLemma ==
  ASSUME Stored, Running, Commits,
         row' = [row EXCEPT !.v = run.known,
                            !.snap = NextSnapshot(run.known["A"], run.known["B"], row.snap)]
  PROVE  row' \in Rows /\ row'.linked /\ row'.v = run.known
<1>1. row \in Rows /\ row.snap \in Snaps /\ run.known \in [Sides -> Recs]
  BY DEF Stored, Running, Runs, Rows
<1>2. "A" \in Sides /\ "B" \in Sides
  BY DEF Sides
<1>3. PICK k, x : k = run.known /\ x = NextSnapshot(run.known["A"], run.known["B"], row.snap)
  OBVIOUS
<1>4. x \in Snaps /\ k \in [Sides -> Recs]
  BY <1>1, <1>2, <1>3, SnapLemma
<1>5. row' = [row EXCEPT !.v = k, !.snap = x]
  BY <1>3
<1>6. row' \in Rows /\ row'.v = k
  BY <1>1, <1>4, <1>5 DEF Rows
<1>7. row'.linked = row.linked
  BY <1>1, <1>5 DEF Rows
<1> QED BY <1>3, <1>6, <1>7 DEF Commits

\* Every step keeps the row: the versions it has are of records that agree.
LEMMA RowStep ==
  ASSUME Stored, RunInv, Linkless, half \subseteq {"plan", "orphan"}, RowAgrees, Next
  PROVE  row' \in Rows /\ (~row'.linked => row' = NoLink) /\ RowAgrees'
<1>1. row \in Rows /\ (~row.linked => row = NoLink)
  BY DEF Stored, Rows, Linkless
<1>2. half \subseteq half'
  BY HalfLemma
<1>3. CASE row' = row
  BY <1>1, <1>2, <1>3 DEF RowAgrees
<1>4. CASE row' = [NoLink EXCEPT !.linked = TRUE]
  <2>1. row' \in Rows /\ row'.linked /\ \A s \in Sides : row'.v[s] = Gone
    BY <1>4, RowLemma
  <2> QED BY <2>1 DEF RowAgrees, Sides
<1>5. CASE row' = NoLink
  <2>1. row' \in Rows /\ ~row'.linked
    BY <1>5, RowLemma
  <2> QED BY <1>5, <2>1 DEF RowAgrees
<1>6. CASE /\ RunCommit /\ Commits
           /\ row' = [row EXCEPT !.v = run.known,
                                 !.snap = NextSnapshot(run.known["A"], run.known["B"], row.snap)]
  <2>1. row' \in Rows /\ row'.linked /\ row'.v = run.known
    BY <1>6, CommitLemma DEF RunInv
  <2>2. run.pc = "commit" /\ half' = half
    BY <1>6 DEF RunCommit, At
  <2>3. "commit" \notin BeforeMove
    BY StepsLemma DEF BeforeMove
  <2>4. (SameField /\ SamePos) \/ half # {}
    BY <1>6, <2>2, <2>3 DEF RunInv, Agreeing, Commits
  <2> QED BY <2>1, <2>2, <2>4 DEF RowAgrees, SameField, SamePos
<1> QED BY <1>3, <1>4, <1>5, <1>6, RowCases

-----------------------------------------------------------------------------
(* The link *)

Planning == {"plan_b", "plan", "unlink", "unfile"}

\* A step that brings no record back, plans nothing, and keeps the link or the
\* row as it is.
LEMMA QuietLemma ==
  ASSUME Linkless, Doomed, GoneStays, plan'.ops \subseteq plan.ops,
         run' = run \/ run'.pc \notin Planning,
         row'.linked \/ (row' = row /\ joined' = joined)
  PROVE  Linkless' /\ Doomed'
<1>1. \A kind : Has(plan'.ops, kind) => Has(plan.ops, kind)
  BY DEF Has
<1>2. Doomed'
  BY <1>1 DEF Doomed, GoneStays, Sides, Other
<1>3. run' = run \/ run'.pc \notin {"plan_b", "plan", "unlink", "unfile"}
  BY DEF Planning
<1>4. "A" \in Sides
  BY DEF Sides
<1>5. Linkless'
  BY <1>1, <1>3, <1>4 DEF Linkless, GoneStays
<1> QED BY <1>2, <1>5

\* How a run that goes on, or dies, leaves the plan.
LEMMA OnLemma ==
  ASSUME plan \in Plans, NEW r, "pc" \in DOMAIN r,
         NEW kind \in {"create", "sync", "copy", "move", "commit", "delete", "drop"},
         Skipped(kind, r) \/ Settle(kind, r)
  PROVE  run'.pc \notin Planning /\ plan'.ops \subseteq plan.ops
<1>1. PICK pc : pc = After(kind, plan.ops)
  OBVIOUS
<1>2. pc \notin Planning
  BY <1>1, FollowLemma DEF NextPhases, Planning
<1>3. ASSUME NEW q, "pc" \in DOMAIN q, GoOn(kind, q)
      PROVE  run'.pc \notin Planning
  <2>1. CASE pc = "end"
    <3>1. run' = [Idle EXCEPT !.pc = "end", !.held = q.held]
      BY <1>1, <1>3, <2>1 DEF GoOn
    <3>2. run'.pc = "end"
      BY <3>1 DEF Idle
    <3> QED BY <3>2 DEF Planning
  <2>2. CASE pc # "end"
    <3>1. run' = [q EXCEPT !.pc = pc, !.old = "none"]
      BY <1>1, <1>3, <2>2 DEF GoOn
    <3>2. run'.pc = pc
      BY <1>3, <3>1
    <3> QED BY <1>2, <3>2
  <2> QED BY <2>1, <2>2
<1>4. Pruned(kind).ops \subseteq plan.ops
  BY PrunedLemma, WithoutLemma
<1>5. Idle.pc \notin Planning
  BY DEF Idle, Planning
<1>6. CASE Skipped(kind, r)
  <2>1. PICK q : q = [r EXCEPT !.unsettled = TRUE]
    OBVIOUS
  <2>2. GoOn(kind, q) /\ plan' = plan /\ "pc" \in DOMAIN q
    BY <1>6, <2>1 DEF Skipped
  <2> QED BY <1>3, <2>2
<1>7. CASE Done(kind, r)
  <2>1. PICK q : q = [r EXCEPT !.synced = @ \/ kind = "sync"]
    OBVIOUS
  <2>2. GoOn(kind, q) /\ plan' = Pruned(kind) /\ "pc" \in DOMAIN q
    BY <1>7, <2>1 DEF Done
  <2> QED BY <1>3, <1>4, <2>2
<1>8. CASE run' = Idle /\ plan' = plan
  BY <1>5, <1>8
<1> QED BY <1>6, <1>7, <1>8 DEF Settle

\* The runs have a step, whatever of them is set.
LEMMA PcLemma ==
  ASSUME Running
  PROVE  /\ "pc" \in DOMAIN run
         /\ \A k : "pc" \in DOMAIN [run EXCEPT !.known = k]
         /\ \A k : "pc" \in DOMAIN [run EXCEPT !.known = k, !.held = TRUE]
         /\ \A s, k : "pc" \in DOMAIN Knows(run, s, k)
         /\ \A pc, k, o : /\ [run EXCEPT !.pc = pc].pc = pc
                          /\ [run EXCEPT !.pc = pc, !.known = k].pc = pc
                          /\ [run EXCEPT !.pc = pc, !.known = k, !.old = o].pc = pc
                          /\ [run EXCEPT !.pc = pc, !.old = o].pc = pc
BY DEF Running, Runs, Knows

\* The steps of a run that are not of a deletion leave the planning alone.
LEMMA RunPcs ==
  ASSUME Running, plan \in Plans,
         \/ RunStart \/ RunCreate \/ RunPost \/ RunSync \/ RunField \/ RunPlace \/ RunCopy
         \/ RunTransfer \/ RunMove \/ RunPosition \/ RunRelocate \/ RunOrphan \/ RunClear
         \/ RunReread \/ RunCommit \/ RunUnfile \/ RunDrop
         \/ \E kind \in {"copy", "move"} : \E s : RunRefresh(kind, s)
  PROVE  run'.pc \notin Planning /\ plan'.ops \subseteq plan.ops
<1> USE PcLemma
<1>1. {"post", "field", "place", "transfer", "refresh_copy", "position", "relocate", "orphan",
        "clear", "reread", "refresh_move"} \cap Planning = {}
  BY DEF Planning
<1>2. ASSUME NEW kind \in {"create", "sync", "copy", "move", "commit", "delete", "drop"}, NEW r,
             "pc" \in DOMAIN r, Skipped(kind, r) \/ Settle(kind, r)
      PROVE  run'.pc \notin Planning /\ plan'.ops \subseteq plan.ops
  BY <1>2, OnLemma
<1>3. ASSUME NEW s, NEW kind, kind \in {"sync", "move"}, Refused(s, run, kind)
      PROVE  run'.pc \notin Planning /\ plan'.ops \subseteq plan.ops
  BY <1>2, <1>3 DEF Refused
<1>4. CASE RunStart
  <2>1. PICK pc : pc = FirstPhase(plan.ops)
    OBVIOUS
  <2>2. pc \notin Planning
    BY <2>1, FollowLemma DEF FirstPhase, NextPhases, Planning
  <2>3. run'.pc = pc /\ plan' = plan
    BY <1>4, <2>1 DEF RunStart, Idle, data
  <2> QED BY <2>2, <2>3
<1>5. CASE RunCreate
  <2>1. run'.pc = "post" /\ plan' = plan
    BY <1>5 DEF RunCreate, Running, Runs
  <2> QED BY <1>1, <2>1
<1>6. CASE RunPost
  <2>1. Skipped("create", run) \/ Settle("create", [run EXCEPT !.known = rec])
    BY <1>6 DEF RunPost
  <2> QED BY <1>2, <2>1
<1>7. CASE RunSync
  <2>1. Skipped("sync", run) \/ (run' = [run EXCEPT !.pc = "field", !.known = rec] /\ plan' = plan)
    BY <1>7 DEF RunSync, TurnedAway
  <2> QED BY <1>1, <1>2, <2>1
<1>8. CASE RunField
  <2>1. PICK from, to, h : \/ run' = [run EXCEPT !.pc = "place", !.held = h] /\ plan' = plan
                           \/ /\ run' = Knows([run EXCEPT !.pc = "place", !.held = h], to, rec'[to])
                              /\ plan' = plan
                           \/ Refused(to, run, "sync")
    BY <1>8 DEF RunField
  <2>2. CASE \/ run' = [run EXCEPT !.pc = "place", !.held = h]
             \/ run' = Knows([run EXCEPT !.pc = "place", !.held = h], to, rec'[to])
    <3>1. run'.pc = "place"
      BY <2>2 DEF Running, Runs, Knows
    <3>2. plan'.ops \subseteq plan.ops
      BY <2>1, <1>3
    <3> QED BY <1>1, <3>1, <3>2
  <2> QED BY <1>3, <2>1, <2>2
<1>9. CASE RunPlace
  <2>1. \/ Settle("sync", run)
        \/ \E s, k : Settle("sync", Knows(run, s, k))
        \/ \E s : Refused(s, run, "sync")
    BY <1>9 DEF RunPlace
  <2> QED BY <1>2, <1>3, <2>1
<1>10. CASE RunCopy
  <2>1. \/ Skipped("copy", run) \/ Settle("copy", [run EXCEPT !.known = rec, !.held = TRUE])
        \/ run' = [run EXCEPT !.pc = "transfer", !.known = rec] /\ plan' = plan
    BY <1>10 DEF RunCopy, TurnedAway
  <2> QED BY <1>1, <1>2, <2>1
<1>11. CASE RunTransfer
  <2>1. Skipped("copy", run) \/ (run' = [run EXCEPT !.pc = "refresh_copy"] /\ plan' = plan)
    BY <1>11 DEF RunTransfer
  <2> QED BY <1>1, <1>2, <2>1
<1>12. CASE RunMove
  <2>1. \/ Skipped("move", run) \/ Settle("move", [run EXCEPT !.known = rec, !.held = TRUE])
        \/ \E pc \in {"position", "orphan"} : \E o :
             run' = [run EXCEPT !.pc = pc, !.known = rec, !.old = o] /\ plan' = plan
    BY <1>12 DEF RunMove, TurnedAway
  <2> QED BY <1>1, <1>2, <2>1
<1>13. CASE RunPosition
  <2>1. PICK s, k : \/ run' = [Knows(run, s, k) EXCEPT !.pc = "relocate"] /\ plan' = plan
                    \/ Refused(s, run, "move")
    BY <1>13 DEF RunPosition
  <2>2. [Knows(run, s, k) EXCEPT !.pc = "relocate"].pc = "relocate"
    BY DEF Running, Runs, Knows
  <2> QED BY <1>1, <1>3, <2>1, <2>2
<1>14. CASE RunRelocate
  <2>1. \/ Skipped("move", run) \/ Settle("move", run)
        \/ run' = [run EXCEPT !.pc = "refresh_move"] /\ plan' = plan
    BY <1>14 DEF RunRelocate
  <2> QED BY <1>1, <1>2, <2>1
<1>15. CASE RunOrphan
  <2>1. \/ Settle("move", run)
        \/ \E s, k : Settle("move", Knows(run, s, k))
        \/ \E s : Refused(s, run, "move")
        \/ run' = [run EXCEPT !.pc = "clear"] /\ plan' = plan
    BY <1>15 DEF RunOrphan
  <2> QED BY <1>1, <1>2, <1>3, <2>1
<1>16. CASE RunClear
  <2>1. Skipped("move", run) \/ (run' = [run EXCEPT !.pc = "reread"] /\ plan' = plan)
    BY <1>16 DEF RunClear
  <2> QED BY <1>1, <1>2, <2>1
<1>20. CASE RunReread
  <2>1. \E s, k : Settle("move", run) \/ Settle("move", Knows(run, s, k))
    BY <1>20 DEF RunReread
  <2> QED BY <1>2, <2>1
<1>17. CASE RunCommit
  <2>1. GoOn("commit", run) /\ plan' \in {plan, Pruned("conflict")}
    BY <1>17 DEF RunCommit
  <2>2. plan'.ops \subseteq plan.ops
    <3>1. Pruned("conflict").ops \subseteq plan.ops
      BY PrunedLemma, WithoutLemma
    <3> QED BY <2>1, <3>1
  <2>3. PICK pc : pc = After("commit", plan.ops)
    OBVIOUS
  <2>4. pc \notin Planning
    BY <2>3, FollowLemma DEF NextPhases, Planning
  <2>5. \/ pc = "end" /\ run' = [Idle EXCEPT !.pc = pc, !.held = run.held]
        \/ run' = [run EXCEPT !.pc = pc, !.old = "none"]
    BY <2>1, <2>3 DEF GoOn
  <2>6. run'.pc = pc
    BY <2>5 DEF Idle
  <2> QED BY <2>2, <2>4, <2>6
<1>18. CASE RunUnfile \/ RunDrop
  <2>1. Settle("delete", run) \/ Settle("drop", run) \/ Skipped("drop", run)
    BY <1>18 DEF RunUnfile, RunDrop
  <2> QED BY <1>2, <2>1
<1>19. ASSUME NEW kind \in {"copy", "move"}, NEW s, RunRefresh(kind, s)
       PROVE  run'.pc \notin Planning /\ plan'.ops \subseteq plan.ops
  <2>1. Skipped(kind, run) \/ \E k : Settle(kind, Knows(run, s, k))
    BY <1>19 DEF RunRefresh
  <2> QED BY <1>2, <2>1
<1> QED BY <1>4, <1>5, <1>6, <1>7, <1>8, <1>9, <1>10, <1>11, <1>12, <1>13, <1>14, <1>15, <1>16,
           <1>17, <1>18, <1>19, <1>20

\* The plan reads the records, and writes what to do.
LEMMA PlanLink ==
  ASSUME Stored, RunInv, Linkless, Doomed, GoneStays, PlanStep
  PROVE  Linkless' /\ Doomed'
<1>1. run \in Runs /\ "A" \in Sides /\ "B" \in Sides
  BY DEF RunInv, Running, Sides
<1>2. CASE PlanReadA
  <2>1. /\ plan' = NoPlan /\ rec' = rec /\ row' = row /\ joined' = joined
        /\ run' = [Idle EXCEPT !.pc = "plan_b", !.known["A"] = rec["A"]]
    BY <1>2 DEF PlanReadA
  <2>2. run'.pc = "plan_b" /\ run'.known["A"] = rec["A"] /\ run'.known["B"] = Gone
    BY <2>1 DEF Idle, Sides
  <2>3. \A kind : ~Has(plan'.ops, kind)
    BY <2>1 DEF NoPlan, Has
  <2>4. plan'.ops = {}
    BY <2>1 DEF NoPlan
  <2>5. Doomed'
    BY <2>3, <2>4 DEF Doomed
  <2>6. \A s \in Sides : s \in {"A", "B"}
    BY DEF Sides
  <2>7. Linkless'
    BY <1>1, <2>1, <2>2, <2>3, <2>6 DEF Linkless
  <2> QED BY <2>5, <2>7
<1>3. CASE PlanReadB
  <2>1. /\ plan' = plan /\ rec' = rec /\ row' = row /\ joined' = joined /\ run.pc = "plan_b"
        /\ run' = [run EXCEPT !.pc = "plan", !.known["B"] = rec["B"]]
    BY <1>3 DEF PlanReadB, data, ghosts, At
  <2>2. run'.pc = "plan" /\ run'.known["A"] = run.known["A"] /\ run'.known["B"] = rec["B"]
    BY <1>1, <2>1 DEF Runs
  <2>3. \A s \in Sides : s \in {"A", "B"}
    BY DEF Sides
  <2>4. Linkless'
    BY <1>1, <2>1, <2>2, <2>3 DEF Linkless
  <2> QED BY <2>1, <2>4 DEF Doomed
<1>4. ASSUME NEW res \in [Conflicts(Baseline, row.snap) -> Sides \cup {"skip"}], NEW leave \in BOOLEAN,
             PlanWrite(res, leave)
      PROVE  Linkless' /\ Doomed'
  <2>1. /\ run.pc = "plan" /\ row' = row /\ joined' = joined
        /\ run' = [Idle EXCEPT !.pc = "planned"]
    BY <1>4 DEF PlanWrite, At
  <2>2. run'.pc = "planned"
    BY <2>1 DEF Idle
  <2>3. ~row.linked => row = NoLink
    BY DEF Linkless
  <2>4. Baseline \in [Sides -> Recs] /\ row.linked \in BOOLEAN
    BY BaselineLemma DEF RunInv, Stored
  <2>5. /\ plan'.ops \subseteq Range(LinkOps(Baseline, res))
        /\ plan'.ops # {} => Linkable(Baseline)
    BY <1>4, <2>3, PlanWriteLemma DEF RunInv
  <2>6. PICK L : L = Range(LinkOps(Baseline, res))
    OBVIOUS
  <2>7. /\ \A o \in L : o.kind = "delete" =>
             row.linked /\ o.from \in Sides /\ Baseline[Other(o.from)] = Gone
        /\ Has(L, "delete") \/ Has(L, "drop") => ~Has(L, "create")
    BY <2>3, <2>4, <2>6, LinkOpsLemma
  <2>8. Doomed'
    <3>1. \A kind : Has(plan'.ops, kind) => Has(L, kind)
      BY <2>5, <2>6 DEF Has
    <3>2. ASSUME NEW o \in plan'.ops, o.kind = "delete"
          PROVE  o.from \in Sides /\ rec'[Other(o.from)] = Gone
      <4>1. row.linked /\ o.from \in Sides /\ Baseline[Other(o.from)] = Gone
        BY <2>5, <2>6, <2>7, <3>2
      <4>2. PICK u \in Sides : u = Other(o.from)
        BY SidesLemma
      <4>3. run.known[u] = Gone
        BY <4>1, <4>2 DEF Baseline
      <4>4. rec[u] = Gone
        BY <2>1, <4>3 DEF Linkless
      <4> QED BY <4>1, <4>2, <4>4 DEF GoneStays
    <3> QED BY <2>7, <3>1, <3>2 DEF Doomed
  <2>9. ASSUME joined, ~row.linked
        PROVE  (\A s \in Sides : rec'[s] = Gone) /\ plan'.ops = {}
    <3>1. \A s \in Sides : rec[s] = Gone /\ run.known[s] = Gone
      BY <2>1, <2>9 DEF Linkless
    <3>2. \A s \in Sides : Baseline[s] = Gone
      BY <3>1 DEF Baseline
    <3>3. {s \in Sides : Baseline[s] = Gone} = {"A", "B"}
      BY <3>2 DEF Sides
    <3>4. Cardinality({"A", "B"}) = 2
      <4>1. IsFiniteSet({"A"}) /\ Cardinality({"A"}) = 1
        BY FS_Singleton
      <4>2. {"A", "B"} = {"A"} \cup {"B"} /\ "B" \notin {"A"}
        OBVIOUS
      <4>3. Cardinality({"A"} \cup {"B"}) = Cardinality({"A"}) + 1
        BY <4>1, <4>2, FS_AddElement
      <4> QED BY <4>1, <4>2, <4>3
    <3>5. ~Real(Baseline["A"])
      BY <1>1, <3>2, RecordLemma, SyncAssumption DEF Real
    <3>6. ~Linkable(Baseline)
      BY <2>9, <3>3, <3>4, <3>5 DEF Linkable
    <3> QED BY <2>5, <3>1, <3>6 DEF GoneStays
  <2>10. Linkless'
    <3>1. ~Has({}, "create")
      BY DEF Has
    <3> QED BY <2>1, <2>2, <2>3, <2>9, <3>1 DEF Linkless
  <2> QED BY <2>8, <2>10
<1> QED BY <1>2, <1>3, <1>4 DEF PlanStep

\* The steps of a run.
LEMMA RunLink ==
  ASSUME Stored, RunInv, Linkless, Doomed, GoneStays \/ RunCreate, RunStep
  PROVE  Linkless' /\ Doomed'
<1>1. Running /\ plan \in Plans
  BY DEF RunInv
<1>2. ASSUME NEW kind \in {"copy", "move"}, NEW s, RunRefresh(kind, s), GoneStays
      PROVE  Linkless' /\ Doomed'
  <2>1. row' = row /\ joined' = joined
    BY <1>2 DEF RunRefresh
  <2> QED BY <1>1, <1>2, <2>1, RunPcs, QuietLemma
<1>3. CASE RunCreate
  <2>1. run'.pc \notin Planning
    BY <1>1, <1>3, RunPcs
  <2>2. plan' = plan /\ row' = row /\ joined' = joined /\ run.pc = "create"
    BY <1>3 DEF RunCreate, At, ghosts
  <2>3. Has(plan.ops, "create")
    BY <2>2, StepsLemma DEF RunInv, Flow, Kinds
  <2>4. ~Has(plan.ops, "delete")
    BY <2>3 DEF Doomed
  <2>5. Doomed'
    BY <2>2, <2>3, <2>4 DEF Doomed, Has
  <2>6. Linkless'
    BY <2>1, <2>2, <2>3 DEF Linkless, Planning
  <2> QED BY <2>5, <2>6
<1>4. CASE GoneStays /\ \/ RunStart \/ RunSync \/ RunField \/ RunPlace \/ RunCopy \/ RunTransfer
                        \/ RunMove \/ RunPosition \/ RunRelocate \/ RunOrphan \/ RunClear \/ RunReread
                        \/ RunUnfile
  <2>1. row' = row /\ joined' = joined
    BY <1>4 DEF RunStart, RunSync, RunField, RunPlace, RunCopy, RunTransfer, RunMove, RunPosition,
       RunRelocate, RunOrphan, RunClear, RunReread, RunUnfile, data, ghosts
  <2> QED BY <1>1, <1>4, <2>1, RunPcs, QuietLemma
<1>5. CASE GoneStays /\ RunPost
  <2>1. row'.linked \/ (row' = row /\ joined' = joined)
    BY <1>5, RowLemma DEF RunPost
  <2> QED BY <1>1, <1>5, <2>1, RunPcs, QuietLemma
<1>6. CASE GoneStays /\ RunCommit
  <2>1. joined' = joined
    BY <1>6 DEF RunCommit
  <2>2. row' = row \/ row'.linked
    <3>1. CASE Commits
      <4>1. row' = [row EXCEPT !.v = run.known,
                               !.snap = NextSnapshot(run.known["A"], run.known["B"], row.snap)]
        BY <1>6, <3>1 DEF RunCommit, Commits
      <4> QED BY <1>1, <3>1, <4>1, CommitLemma
    <3>2. CASE ~Commits
      BY <1>6, <3>2 DEF RunCommit, Commits
    <3> QED BY <3>1, <3>2
  <2> QED BY <1>1, <1>6, <2>1, <2>2, RunPcs, QuietLemma
<1>7. CASE GoneStays /\ RunDelete
  <2>1. PICK s : s = OpOf("delete").from
    OBVIOUS
  <2>2. row' = row /\ joined' = joined /\ run.pc = "delete"
    BY <1>7 DEF RunDelete, At
  <2>3. s \in Sides /\ rec[Other(s)] = Gone
    BY <2>1, <2>2, SurvivorLemma, StepsLemma
  <2>4. CASE Skipped("delete", run)
    BY <1>1, <1>7, <2>2, <2>4, PcLemma, OnLemma, QuietLemma
  <2>5. CASE /\ rec' = [rec EXCEPT ![s] = Gone] /\ plan' = plan
             /\ run' = [run EXCEPT !.pc = "unlink", !.old = rec[s].pos]
    <3>1. run'.pc = "unlink"
      BY <1>1, <2>5, PcLemma
    <3>2. \A u \in Sides : rec'[u] = Gone
      BY <2>3, <2>5, SidesLemma DEF Stored
    <3>3. Doomed'
      BY <2>5, <3>2, SidesLemma DEF Doomed
    <3>4. Linkless'
      BY <2>2, <2>5, <3>1, <3>2 DEF Linkless
    <3> QED BY <3>3, <3>4
  <2> QED BY <1>7, <2>1, <2>4, <2>5 DEF RunDelete
<1>8. CASE RunUnlink
  <2>1. /\ run.pc = "unlink" /\ row' = NoLink /\ rec' = rec /\ plan' = plan /\ joined' = joined
        /\ run' = [run EXCEPT !.pc = "unfile"]
    BY <1>8 DEF RunUnlink, At, ghosts
  <2>2. run'.pc = "unfile"
    BY <1>1, <2>1, PcLemma
  <2>3. (\A s \in Sides : rec[s] = Gone) /\ ~Has(plan.ops, "create")
    BY <2>1, SurvivorLemma, StepsLemma DEF Linkless
  <2>4. Linkless'
    BY <2>1, <2>2, <2>3 DEF Linkless
  <2> QED BY <2>1, <2>4 DEF Doomed
<1>9. CASE GoneStays /\ RunDrop
  <2>1. run'.pc \notin Planning /\ plan'.ops \subseteq plan.ops
    BY <1>1, <1>9, RunPcs
  <2>2. joined' = joined /\ rec' = rec /\ run.pc = "drop"
    BY <1>9 DEF RunDrop, At
  <2>3. CASE row' = row
    BY <1>9, <2>1, <2>2, <2>3, QuietLemma
  <2>4. CASE row' = NoLink /\ row.linked
    <3>1. \A s \in Sides : rec[s] = Gone
      BY <1>9, <2>4, RowLemma DEF RunDrop
    <3>2. Has(plan.ops, "drop")
      BY <2>2, StepsLemma DEF RunInv, Flow, Kinds
    <3>3. ~Has(plan.ops, "create")
      BY <3>2 DEF Doomed
    <3>4. \A kind : Has(plan'.ops, kind) => Has(plan.ops, kind)
      BY <2>1 DEF Has
    <3>5. Doomed'
      BY <2>1, <2>2, <3>4 DEF Doomed
    <3>6. Linkless'
      BY <2>1, <2>2, <2>4, <3>1, <3>3, <3>4 DEF Linkless, Planning
    <3> QED BY <3>5, <3>6
  <2>5. row' = row \/ row' = NoLink
    BY <1>9 DEF RunDrop
  <2>6. ~row.linked => row = NoLink
    BY DEF Linkless
  <2> QED BY <2>3, <2>4, <2>5, <2>6
<1>10. CASE GoneStays
  <2>1. PICK s, u : s = Other(Winner("copy", "content")) /\ u = Other(Winner("move", "pos"))
    OBVIOUS
  <2>2. At("refresh_copy") /\ RunRefresh("copy", Other(Winner("copy", "content"))) =>
          Linkless' /\ Doomed'
    BY <1>2, <1>10, <2>1
  <2>3. At("refresh_move") /\ RunRefresh("move", Other(Winner("move", "pos"))) =>
          Linkless' /\ Doomed'
    BY <1>2, <1>10, <2>1
  <2> QED BY <1>3, <1>4, <1>5, <1>6, <1>7, <1>8, <1>9, <1>10, <2>2, <2>3 DEF RunStep
<1> QED BY <1>3, <1>10

\* Every step keeps the link as long as a record.
LEMMA LinkStep ==
  ASSUME Stored, RunInv, Linkless, Doomed, Next
  PROVE  Linkless' /\ Doomed'
<1>1. GoneStays \/ RunCreate
  BY RecordsStep
<1>2. CASE PlanStep
  <2>1. ~RunCreate
    BY <1>2 DEF PlanStep, PlanReadA, PlanReadB, PlanWrite, At, Resting, RunCreate
  <2> QED BY <1>1, <1>2, <2>1, PlanLink
<1>3. CASE RunStep
  BY <1>1, <1>3, RunLink
<1>4. CASE RunCreate
  BY <1>4, RunLink DEF RunStep
<1>5. CASE GoneStays /\ (Crash \/ \E s \in Sides : UserStep(s) \/ Watch(s))
  <2>1. row' = row /\ joined' = joined /\ plan' = plan
    BY <1>5 DEF Crash, UserStep, EditField, DeleteRecord, RemoveFile, StrayFile, MoveFile, WriteFile,
       EditFile, Watch, data
  <2>2. run' = run \/ run' = Idle
    BY <1>5 DEF Crash, UserStep, EditField, DeleteRecord, RemoveFile, StrayFile, MoveFile, WriteFile,
       EditFile, Watch, Edit, Disturbed
  <2>3. Idle.pc \notin Planning
    BY DEF Idle, Planning
  <2> QED BY <1>5, <2>1, <2>2, <2>3, QuietLemma
<1> QED BY <1>1, <1>2, <1>3, <1>4, <1>5 DEF Next

-----------------------------------------------------------------------------
(* The edits *)

\* A step that touches nothing more, and leaves fields and snapshot alone.
LEMMA KeepsLemma ==
  ASSUME TouchedShows, ThereStays, FieldStays, row'.snap.f = row.snap.f,
         \A s \in Sides : touched'[s] => touched[s]
  PROVE  TouchedShows'
BY DEF TouchedShows, ThereStays, FieldStays

\* The edits after two sides are compared: as they were said to be, or none.
LEMMA AgreementLemma ==
  ASSUME NEW t \in [Sides -> BOOLEAN], touched' = Agreement(t)
  PROVE  /\ touched' \in [Sides -> BOOLEAN]
         /\ \A s \in Sides : touched'[s] => t[s]
<1>1. CASE rec'["A"].f = rec'["B"].f
  <2>1. touched' = [s \in Sides |-> FALSE]
    BY <1>1 DEF Agreement
  <2> QED BY <2>1
<1>2. CASE rec'["A"].f # rec'["B"].f
  <2>1. touched' = t
    BY <1>2 DEF Agreement
  <2> QED BY <2>1
<1> QED BY <1>1, <1>2

\* A run writes over a field that was edited only if a conflict was resolved so,
\* and then by another edit.
LEMMA FieldTouched ==
  ASSUME Stored, RunInv, TouchedShows, touched \in [Sides -> BOOLEAN], RunField
  PROVE  /\ touched' \in [Sides -> BOOLEAN] /\ TouchedShows'
         /\ \A s \in Sides : rec'[s].f # rec[s].f /\ touched[s] => Resolved("f") = Other(s)
<1>1. PICK d : d = DecideField(run.known["A"].f, run.known["B"].f, row.snap.f)
  OBVIOUS
<1>2. PICK w : w = IF d = "conflict" THEN Resolved("f") ELSE d
  OBVIOUS
<1>3. PICK u : u = Other(w)
  OBVIOUS
<1>4. row' = row /\ run.pc = "field" /\ u \in Sides
  BY <1>3, SidesLemma DEF RunField, At
<1>5. \/ rec' = rec /\ touched' = touched
      \/ w \in Sides /\ Put(u, run, [rec[u] EXCEPT !.f = run.known[w].f])
  BY <1>1, <1>2, <1>3 DEF RunField, Refused
<1>6. CASE rec' = rec /\ touched' = touched
  BY <1>4, <1>6 DEF TouchedShows
<1>7. CASE w \in Sides /\ Put(u, run, [rec[u] EXCEPT !.f = run.known[w].f])
  <2>1. /\ rec[u] = run.known[u] /\ rec' = [rec EXCEPT ![u] = [rec[u] EXCEPT !.f = run.known[w].f]]
        /\ touched' = Agreement(touched)
    BY <1>7 DEF Put
  <2>2. touched' \in [Sides -> BOOLEAN] /\ \A s \in Sides : touched'[s] => touched[s]
    BY <2>1, AgreementLemma
  <2>3. /\ rec[u] \in Recs /\ rec[u] # Gone /\ run.known[w].f \in Vals \cup {0}
    BY <1>4, <1>7, <2>1, WriteLemma DEF Reading, RunInv, Running, Runs, Recs
  <2>4. PICK new : new = [rec[u] EXCEPT !.f = run.known[w].f]
    OBVIOUS
  <2>5. new # Gone /\ new.f = run.known[w].f
    BY <2>3, <2>4, RecordLemma DEF Recs
  <2>6. rec'[u] = new /\ \A s \in Sides : s # u => rec'[s] = rec[s]
    BY <1>4, <2>1, <2>4 DEF Stored
  <2>7. touched[u] => d = "conflict" /\ run.known[w].f # row.snap.f
    <3>1. touched[u] => run.known[u].f # row.snap.f
      BY <1>4, <2>1 DEF TouchedShows
    <3>2. CASE w = "A"
      <4>1. u = "B"
        BY <1>3, <3>2 DEF Other
      <4> QED BY <1>1, <1>2, <3>1, <3>2, <4>1, DecideLemma
    <3>3. CASE w = "B"
      <4>1. u = "A"
        BY <1>3, <3>3 DEF Other
      <4> QED BY <1>1, <1>2, <3>1, <3>3, <4>1, DecideLemma
    <3> QED BY <1>7, <3>2, <3>3 DEF Sides
  <2>8. touched[u] => Resolved("f") = Other(u)
    BY <1>2, <1>3, <1>7, <2>7, SidesLemma
  <2>9. TouchedShows'
    <3>1. ASSUME NEW s \in Sides, touched'[s]
          PROVE  rec'[s] # Gone /\ rec'[s].f # row.snap.f
      <4>1. touched[s]
        BY <2>2, <3>1
      <4>2. CASE s = u
        BY <2>5, <2>6, <2>7, <4>1, <4>2
      <4>3. CASE s # u
        BY <2>6, <4>1, <4>3 DEF TouchedShows
      <4> QED BY <4>2, <4>3
    <3> QED BY <1>4, <3>1 DEF TouchedShows
  <2> QED BY <2>2, <2>6, <2>8, <2>9
<1> QED BY <1>5, <1>6, <1>7

\* Steps that leave the row, the fields and the edits alone, or forget edits.
LEMMA RestTouched ==
  ASSUME Stored, RunInv, TouchedShows, touched \in [Sides -> BOOLEAN], FieldStays, ThereStays,
         \/ RunStart \/ RunCreate \/ RunSync \/ RunPlace \/ RunCopy \/ RunTransfer \/ RunMove
         \/ RunPosition \/ RunRelocate \/ RunOrphan \/ RunClear \/ RunReread \/ RunUnfile
         \/ \E kind, s : RunRefresh(kind, s)
         \/ Crash \/ PlanReadA \/ PlanReadB
         \/ \E s : Watch(s) \/ \E p, q : \/ RemoveFile(s, p) \/ StrayFile(s, p)
                                         \/ MoveFile(s, p, q) \/ WriteFile(s, p, q)
  PROVE  touched' \in [Sides -> BOOLEAN] /\ TouchedShows'
<1>1. CASE row' = row /\ touched' = touched
  BY <1>1, KeepsLemma
<1>2. CASE row' = row /\ touched' = Agreement(touched)
  BY <1>2, AgreementLemma, KeepsLemma
<1>3. CASE RunStart \/ RunCreate \/ RunSync \/ RunPlace \/ RunCopy \/ RunTransfer \/ RunMove
  BY <1>1, <1>3 DEF RunStart, RunCreate, RunSync, RunPlace, RunCopy, RunTransfer, RunMove, Refused,
     data, ghosts
<1>4. CASE RunPosition
  BY <1>1, <1>2, <1>4 DEF RunPosition, Put, Refused
<1>5. CASE \/ RunRelocate \/ RunOrphan \/ RunClear \/ RunReread \/ RunUnfile
           \/ \E kind, s : RunRefresh(kind, s)
  BY <1>1, <1>5 DEF RunRelocate, RunOrphan, RunClear, RunReread, RunUnfile, RunRefresh, Refused
<1>6. CASE Crash \/ PlanReadA \/ PlanReadB
  BY <1>1, <1>6 DEF Crash, PlanReadA, PlanReadB, data, ghosts
<1>7. CASE \E s : Watch(s) \/ \E p, q : \/ RemoveFile(s, p) \/ StrayFile(s, p)
                                        \/ MoveFile(s, p, q) \/ WriteFile(s, p, q)
  BY <1>1, <1>7 DEF Watch, RemoveFile, StrayFile, MoveFile, WriteFile, EditFile
<1> QED BY <1>3, <1>4, <1>5, <1>6, <1>7

\* Every step keeps what is said of the edits.
LEMMA TouchedStep ==
  ASSUME Stored, RunInv, Linkless, Doomed, TouchedShows, touched \in [Sides -> BOOLEAN], Next
  PROVE  touched' \in [Sides -> BOOLEAN] /\ TouchedShows'
<1>1. ASSUME NEW s \in Sides, rec' = [rec EXCEPT ![s] = Gone], row' = row,
             touched' = [touched EXCEPT ![s] = FALSE]
      PROVE  touched' \in [Sides -> BOOLEAN] /\ TouchedShows'
  <2>1. touched' \in [Sides -> BOOLEAN]
    BY <1>1
  <2>2. \A u \in Sides : touched'[u] => u # s /\ touched[u] /\ rec'[u] = rec[u]
    BY <1>1 DEF Stored
  <2> QED BY <1>1, <2>1, <2>2 DEF TouchedShows
<1>2. CASE RunField
  BY <1>2, FieldTouched
<1>3. CASE RunDelete
  <2>1. PICK s : s = OpOf("delete").from
    OBVIOUS
  <2>2. s \in Sides /\ row' = row
    BY <1>3, <2>1, SurvivorLemma, StepsLemma DEF RunDelete, At
  <2>3. \/ rec' = rec /\ touched' = touched
        \/ rec' = [rec EXCEPT ![s] = Gone] /\ touched' = [touched EXCEPT ![s] = FALSE]
    BY <1>3, <2>1 DEF RunDelete
  <2>4. CASE rec' = rec /\ touched' = touched
    BY <2>2, <2>4 DEF TouchedShows
  <2> QED BY <1>1, <2>2, <2>3, <2>4
<1>4. ASSUME NEW s \in Sides, DeleteRecord(s)
      PROVE  touched' \in [Sides -> BOOLEAN] /\ TouchedShows'
  BY <1>1, <1>4 DEF DeleteRecord
<1>5. ASSUME NEW s \in Sides, NEW v \in Vals \cup {0}, EditField(s, v)
      PROVE  touched' \in [Sides -> BOOLEAN] /\ TouchedShows'
  <2>1. /\ rec[s] # Gone /\ rec' = [rec EXCEPT ![s].f = v] /\ row' = row
        /\ touched' = Agreement([touched EXCEPT ![s] = v # row.snap.f])
    BY <1>5 DEF EditField
  <2>2. PICK t : t = [touched EXCEPT ![s] = v # row.snap.f]
    OBVIOUS
  <2>3. /\ t \in [Sides -> BOOLEAN] /\ (t[s] => v # row.snap.f)
        /\ \A u \in Sides : u # s => (t[u] => touched[u])
    BY <2>2
  <2>4. touched' \in [Sides -> BOOLEAN] /\ \A u \in Sides : touched'[u] => t[u]
    BY <2>1, <2>2, <2>3, AgreementLemma
  <2>5. PICK new : new = [rec[s] EXCEPT !.f = v]
    OBVIOUS
  <2>6. new # Gone /\ new.f = v
    BY <2>1, <2>5, RecordLemma DEF Stored, Recs
  <2>7. rec'[s] = new /\ \A u \in Sides : u # s => rec'[u] = rec[u]
    BY <2>1, <2>5 DEF Stored
  <2>8. ASSUME NEW u \in Sides, touched'[u]
        PROVE  rec'[u] # Gone /\ rec'[u].f # row.snap.f
    <3>1. CASE u = s
      BY <2>3, <2>4, <2>6, <2>7, <2>8, <3>1
    <3>2. CASE u # s
      BY <2>3, <2>4, <2>7, <2>8, <3>2 DEF TouchedShows
    <3> QED BY <3>1, <3>2
  <2> QED BY <2>1, <2>4, <2>8 DEF TouchedShows
<1>6. CASE PlanStep
  <2>1. CASE PlanReadA \/ PlanReadB
    <3>1. rec' = rec
      BY <2>1 DEF PlanReadA, PlanReadB, data
    <3> QED BY <2>1, <3>1, SameRecordsLemma, RestTouched
  <2>2. ASSUME NEW res, NEW leave, PlanWrite(res, leave)
        PROVE  touched' \in [Sides -> BOOLEAN] /\ TouchedShows'
    <3>1. /\ touched' = touched /\ row' = row
          /\ rec' = [s \in Sides |-> IF ~row.linked /\ rec[s] = Bare THEN Gone ELSE rec[s]]
      BY <2>2 DEF PlanWrite
    <3>2. ASSUME NEW s \in Sides, touched[s]
          PROVE  rec'[s] = rec[s]
      <4>1. ~row.linked => row.snap.f = 0
        BY RowLemma DEF Linkless
      <4>2. ~(~row.linked /\ rec[s] = Bare)
        BY <3>2, <4>1, RecordLemma DEF TouchedShows
      <4> QED BY <3>1, <4>2
    <3> QED BY <3>1, <3>2 DEF TouchedShows
  <2> QED BY <1>6, <2>1, <2>2 DEF PlanStep
<1>7. CASE RunCommit
  <2>1. rec' = rec /\ touched' = [s \in Sides |-> touched[s] /\ rec[s].f # row'.snap.f]
    BY <1>7 DEF RunCommit
  <2>2. touched' \in [Sides -> BOOLEAN]
    BY <2>1
  <2>3. \A s \in Sides : touched'[s] => touched[s] /\ rec[s].f # row'.snap.f
    BY <2>1
  <2> QED BY <2>1, <2>2, <2>3 DEF TouchedShows
<1>8. CASE RunPost
  <2>1. rec' = rec /\ touched' = touched
    BY <1>8 DEF RunPost
  <2>2. row'.snap = row.snap
    BY <1>8, RowLemma DEF RunPost, Linkless
  <2> QED BY <2>1, <2>2 DEF TouchedShows
<1>9. CASE RunUnlink \/ RunDrop
  <2>1. rec' = rec /\ touched' = touched
    BY <1>9 DEF RunUnlink, RunDrop, ghosts
  <2>2. row' = row \/ \A s \in Sides : rec[s] = Gone
    <3>1. CASE RunUnlink
      BY <3>1 DEF RunUnlink, At, Linkless
    <3>2. CASE RunDrop
      BY <3>2 DEF RunDrop, Linkless
    <3> QED BY <1>9, <3>1, <3>2
  <2> QED BY <2>1, <2>2 DEF TouchedShows
<1>10. CASE /\ ~RunField /\ ~RunDelete /\ ~PlanStep
            /\ \A s \in Sides : ~DeleteRecord(s) /\ \A v \in Vals \cup {0} : ~EditField(s, v)
  <2>1. FieldStays /\ ThereStays
    BY <1>10, RecordsStep
  <2>2. CASE RunStep
    BY <1>7, <1>8, <1>9, <1>10, <2>1, <2>2, RestTouched DEF RunStep
  <2>3. ASSUME NEW s \in Sides, UserStep(s) \/ Watch(s)
        PROVE  touched' \in [Sides -> BOOLEAN] /\ TouchedShows'
    BY <1>10, <2>1, <2>3, RestTouched DEF UserStep
  <2> QED BY <1>10, <2>1, <2>2, <2>3, RestTouched DEF Next
<1> QED BY <1>2, <1>3, <1>4, <1>5, <1>6, <1>10

\* The count of the user's steps and the faults is a number.
LEMMA EventsStep ==
  ASSUME events \in Nat, Next
  PROVE  events' \in Nat
<1>1. events' = events \/ events' = events + 1
  <2>1. CASE PlanStep \/ Crash
    BY <2>1 DEF PlanStep, PlanReadA, PlanReadB, PlanWrite, Crash, world, Fault, NoFault
  <2>2. CASE RunStep
    <3>1. CASE RunStart \/ RunCreate \/ RunPost \/ RunSync \/ RunField \/ RunPlace \/ RunCopy
      BY <3>1 DEF RunStart, RunCreate, RunPost, RunSync, RunField, RunPlace, RunCopy, world,
         Settle, Refused, Put, Fault, NoFault
    <3>2. CASE \/ RunTransfer \/ RunMove \/ RunPosition \/ RunRelocate \/ RunOrphan \/ RunClear
               \/ RunReread
      BY <3>2 DEF RunTransfer, RunMove, RunPosition, RunRelocate, RunOrphan, RunClear, RunReread,
         world, TransferFails, Settle, Refused, Put, Fault, NoFault
    <3>3. CASE \/ RunCommit \/ RunDelete \/ RunUnlink \/ RunUnfile \/ RunDrop
               \/ \E kind, s : RunRefresh(kind, s)
      BY <3>3 DEF RunCommit, RunDelete, RunUnlink, RunUnfile, RunDrop, RunRefresh, world,
         Settle, Fault, NoFault
    <3> QED BY <2>2, <3>1, <3>2, <3>3 DEF RunStep
  <2>3. ASSUME NEW s \in Sides, UserStep(s) \/ Watch(s)
        PROVE  events' = events \/ events' = events + 1
    BY <2>3 DEF UserStep, EditField, DeleteRecord, RemoveFile, StrayFile, MoveFile, WriteFile,
       EditFile, Edit, Watch
  <2> QED BY <2>1, <2>2, <2>3 DEF Next
<1> QED BY <1>1

-----------------------------------------------------------------------------
(* The theorems *)

\* The records, files and row a history starts with.
LEMMA InitStored ==
  ASSUME Init
  PROVE  Stored /\ kept \in [Sides -> SUBSET Nat] /\ KeptSafe /\ RowAgrees /\ Linkless
<1> DEFINE home == CHOOSE p \in Paths : TRUE
           one == CHOOSE c \in Contents : TRUE
           at(f) == [p \in Paths |-> IF p = home THEN f ELSE NoFile]
<1>1. home \in Paths
  BY SyncAssumption
<1>2. one \in Contents
  BY SyncAssumption
<1>3. PICK start \in {"linked", "both"} \cup Sides, c \in Contents :
        LET has(s) == start \in {"linked", "both", s}
            mtime(s) == IF start = "both" /\ s = "B" THEN 2 ELSE 1
            content(s) == IF start = "both" /\ s = "B" THEN c ELSE one
        IN /\ rec = [s \in Sides |-> IF has(s) THEN Record(0, home, mtime(s)) ELSE Gone]
           /\ disk = [s \in Sides |-> IF has(s) THEN at(File(mtime(s), content(s), TRUE))
                                                ELSE at(NoFile)]
           /\ kept = [s \in Sides |-> IF has(s) THEN {mtime(s)} ELSE {}]
           /\ row = IF start = "linked"
                    THEN [linked |-> TRUE, v |-> rec, snap |-> NextSnapshot(rec["A"], rec["B"], NoSnap)]
                    ELSE NoLink
           /\ joined = (start = "linked")
  BY Zenon DEF Init
<1> HIDE DEF home, one
<1> DEFINE has(s) == start \in {"linked", "both", s}
           mtime(s) == IF start = "both" /\ s = "B" THEN 2 ELSE 1
           content(s) == IF start = "both" /\ s = "B" THEN c ELSE one
           file(s) == File(mtime(s), content(s), TRUE)
<1>4. ASSUME NEW s \in Sides
      PROVE  /\ mtime(s) \in Nat \ {0} /\ content(s) \in Contents
             /\ file(s) \in Files /\ file(s).m = mtime(s)
  <2>1. mtime(s) \in Nat /\ mtime(s) > 0 /\ content(s) \in Contents
    BY <1>2
  <2>2. PICK m, x : m = mtime(s) /\ x = content(s)
    OBVIOUS
  <2>3. m \in Nat /\ m > 0 /\ x \in Contents \cup Nat
    BY <2>1, <2>2
  <2>4. File(m, x, TRUE) \in Files /\ File(m, x, TRUE).m = m
    BY <2>3 DEF File, Files
  <2>5. file(s) = File(m, x, TRUE)
    BY <2>2
  <2> HIDE DEF mtime, content, file
  <2>6. m \in Nat \ {0} /\ x \in Contents
    BY <2>1, <2>2
  <2>7. file(s) \in Files /\ file(s).m = mtime(s)
    BY <2>2, <2>4, <2>5
  <2> QED BY <2>2, <2>6, <2>7
<1>5. /\ rec = [s \in Sides |-> IF has(s) THEN Record(0, home, mtime(s)) ELSE Gone]
      /\ disk = [s \in Sides |-> IF has(s) THEN at(file(s)) ELSE at(NoFile)]
      /\ kept = [s \in Sides |-> IF has(s) THEN {mtime(s)} ELSE {}]
  BY <1>3
<1>6. /\ row = IF start = "linked"
               THEN [linked |-> TRUE, v |-> rec, snap |-> NextSnapshot(rec["A"], rec["B"], NoSnap)]
               ELSE NoLink
      /\ joined = (start = "linked")
  BY <1>3
<1>7. /\ trash = [s \in Sides |-> {}] /\ plan = NoPlan /\ run = Idle /\ clock = 2
  BY DEF Init
<1> HIDE DEF mtime, content, has, file
<1>8. rec \in [Sides -> Recs] /\ \A s \in Sides : rec[s].f = 0
  <2>1. \A s \in Sides : Record(0, home, mtime(s)) \in Recs /\ Record(0, home, mtime(s)).f = 0
    BY <1>1, <1>4, SyncAssumption DEF Record, Recs, Positions
  <2> QED BY <1>5, <2>1, RecordLemma
<1>9. ASSUME NEW s \in Sides
      PROVE  at(file(s)) \in [Paths -> Files] /\ at(NoFile) \in [Paths -> Files]
  BY <1>4, FilesLemma
<1>10. disk \in [Sides -> [Paths -> Files]]
  <2> HIDE DEF at
  <2> QED BY <1>5, <1>9
<1>11. kept \in [Sides -> SUBSET Nat] /\ trash \in [Sides -> SUBSET Nat] /\ clock \in Nat
  BY <1>4, <1>5, <1>7
<1>12. KeptSafe
  <2>1. ASSUME NEW s \in Sides
        PROVE  /\ 0 \notin kept[s]
               /\ \A x \in kept[s] : x \in trash[s] \/ \E p \in Paths : disk[s][p].m = x
    <3>1. CASE has(s)
      <4>1. kept[s] = {mtime(s)} /\ disk[s][home] = file(s)
        BY <1>1, <1>5, <3>1
      <4> QED BY <1>1, <1>4, <4>1
    <3>2. CASE ~has(s)
      BY <1>5, <3>2
    <3> QED BY <3>1, <3>2
  <2> QED BY <2>1 DEF KeptSafe
<1>13. /\ row \in Rows /\ RowAgrees /\ (~row.linked => row = NoLink) /\ (joined => row.linked)
  <2>1. CASE start = "linked"
    <3>1. PICK x : x = NextSnapshot(rec["A"], rec["B"], NoSnap)
      OBVIOUS
    <3>2. NoSnap \in Snaps
      BY DEF NoSnap, Snaps, Positions
    <3>3. x \in Snaps
      BY <1>8, <3>1, <3>2, SnapLemma DEF Sides
    <3>4. row = [linked |-> TRUE, v |-> rec, snap |-> x]
      BY <1>6, <2>1, <3>1
    <3>5. row \in Rows /\ row.linked /\ row.v = rec
      BY <1>8, <3>3, <3>4 DEF Rows
    <3>6. rec["A"] = rec["B"]
      <4>1. "A" \in Sides /\ "B" \in Sides
        BY DEF Sides
      <4>2. has("A") /\ has("B") /\ mtime("A") = mtime("B")
        BY <2>1 DEF has, mtime
      <4> QED BY <1>5, <4>1, <4>2
    <3> QED BY <3>5, <3>6 DEF RowAgrees
  <2>2. CASE start # "linked"
    BY <1>6, <2>2, RowLemma DEF RowAgrees
  <2> QED BY <2>1, <2>2
<1>14. plan \in Plans /\ run.pc = "idle"
  BY <1>7, RecordLemma DEF NoPlan, Plans, Idle
<1>15. Linkless
  BY <1>13, <1>14 DEF Linkless
<1>16. Stored
  BY <1>8, <1>10, <1>11, <1>13, <1>14 DEF Stored, Rows
<1> QED BY <1>11, <1>12, <1>13, <1>15, <1>16

\* Every initial state has the invariant.
LEMMA InitInv ==
  ASSUME Init
  PROVE  Inv
<1>1. /\ plan = NoPlan /\ run = Idle /\ half = {} /\ events = 0
      /\ touched = [s \in Sides |-> FALSE]
  BY DEF Init
<1>2. Idle \in Runs /\ Idle.pc = "idle" /\ Idle.synced = FALSE
  BY RecordLemma DEF Idle, Runs, Pcs, Resting, Positions
<1>3. plan.ops = {} /\ \A kind : ~Has(plan.ops, kind)
  BY <1>1 DEF NoPlan, Has
<1>4. Doomed /\ Foreseen
  BY <1>3 DEF Doomed, Foreseen
<1>5. Flow /\ Baselined /\ Agreeing
  BY <1>1, <1>2, StepsLemma DEF Flow, Baselined, Agreeing, Reading, Kinds
<1>6. Ghostly /\ TouchedShows
  BY <1>1, InitStored DEF Ghostly, TouchedShows
<1> QED BY <1>1, <1>2, <1>4, <1>5, <1>6, InitStored DEF Inv, Typed, Running

\* Every step keeps the invariant.
LEMMA StepInv ==
  ASSUME Inv, Next
  PROVE  Inv'
<1>1. /\ Stored /\ Running /\ Ghostly /\ Linkless /\ Doomed /\ RowAgrees /\ KeptSafe /\ TouchedShows
      /\ half \subseteq {"plan", "orphan"} /\ touched \in [Sides -> BOOLEAN] /\ events \in Nat
  BY DEF Inv, Typed, Ghostly
<1>2. RunInv
  BY <1>1 DEF Inv, RunInv, Stored
<1>3. FileInv
  BY <1>1 DEF FileInv, Stored, Ghostly
<1>4. RunInv'
  BY <1>1, <1>2, RunStepLemma
<1>5. FileInv'
  BY <1>1, <1>2, <1>3, FilesStep
<1>6. Linkless' /\ Doomed'
  BY <1>1, <1>2, LinkStep
<1>7. row' \in Rows /\ RowAgrees'
  BY <1>1, <1>2, RowStep
<1>8. touched' \in [Sides -> BOOLEAN] /\ TouchedShows'
  BY <1>1, <1>2, TouchedStep
<1>9. half' \subseteq {"plan", "orphan"} /\ events' \in Nat
  BY <1>1, HalfLemma, EventsStep
<1>10. rec' \in [Sides -> Recs]
  BY <1>1, <1>2, RecordsStep
<1>11. Stored' /\ Ghostly'
  BY <1>4, <1>5, <1>7, <1>8, <1>9, <1>10 DEF Stored, Ghostly, RunInv, FileInv, Rows
<1> QED BY <1>4, <1>5, <1>6, <1>7, <1>8, <1>11 DEF Inv, Typed, RunInv, FileInv

\* So does one that changes nothing.
LEMMA StutterInv ==
  ASSUME Inv, UNCHANGED vars
  PROVE  Inv'
<1>1. /\ rec' = rec /\ disk' = disk /\ trash' = trash /\ row' = row /\ plan' = plan /\ run' = run
      /\ clock' = clock /\ events' = events /\ kept' = kept /\ touched' = touched
      /\ joined' = joined /\ half' = half
  BY DEF vars, data, world, ghosts
<1>2. Stored' /\ Running' /\ Ghostly'
  BY <1>1 DEF Inv, Typed, Stored, Running, Ghostly
<1>3. Flow' /\ Linkless' /\ Doomed' /\ Foreseen'
  BY <1>1 DEF Inv, Flow, Linkless, Doomed, Foreseen, Winner, OpOf, Resolved
<1>4. Baselined' /\ Agreeing'
  BY <1>1 DEF Inv, Baselined, Agreeing, SameField, SamePos
<1>5. RowAgrees' /\ KeptSafe' /\ TouchedShows'
  BY <1>1 DEF Inv, RowAgrees, KeptSafe, TouchedShows
<1> QED BY <1>2, <1>3, <1>4, <1>5 DEF Inv, Typed

\* The invariant of plans and runs: every step of the commands, the user, the
\* watchers and the faults keeps it.
THEOREM SyncInvariant == Spec => []Inv
<1>1. Inv /\ [Next]_vars => Inv'
  BY StepInv, StutterInv
<1> QED BY <1>1, InitInv, PTL DEF Spec

\* The records of a row with both versions agree, unless a plan was half written
\* or an orphaned record was changed before the run read it back: run.rs's commit
\* records as agreed only what agrees.
THEOREM SyncedAgree == Spec => []InSyncAgrees
<1>1. Inv => InSyncAgrees
  BY DEF Inv, RowAgrees, InSyncAgrees, InSync, SameRecords, Sides
<1> QED BY <1>1, SyncInvariant, PTL

\* Every file the user did not overwrite or remove is on the disk or in the
\* trash, whatever the plan, the run, the faults and the user did.
THEOREM FilesAreKept == Spec => []NothingDestroyed
<1>1. Inv => NothingDestroyed
  <2> SUFFICES ASSUME Inv, NEW s \in Sides, NEW x \in kept[s]
               PROVE  x \in trash[s] \cup {disk[s][p].m : p \in Paths}
    BY DEF NothingDestroyed
  <2>1. x \in trash[s] \/ \E p \in Paths : disk[s][p].m = x
    BY DEF Inv, KeptSafe
  <2> QED BY <2>1
<1> QED BY <1>1, SyncInvariant, PTL

\* A link once made stays in the sync database until both its records are gone.
THEOREM LinkStaysWithRecords == Spec => []LinkOutlivesRecords
<1>1. Inv => LinkOutlivesRecords
  BY DEF Inv, Linkless, LinkOutlivesRecords
<1> QED BY <1>1, SyncInvariant, PTL

\* A run never writes over a field edited since the sides last agreed, unless a
\* conflict was resolved that way.
THEOREM EditsAreKept == Spec => NoEditOverwritten
<1> DEFINE Keeps == \A s \in Sides :
                      events' = events /\ rec'[s] # Gone /\ rec'[s].f # rec[s].f /\ touched[s]
                        => Resolved("f") = Other(s)
<1>1. ASSUME Inv, Next
      PROVE  Keeps
  <2>1. /\ Stored /\ Linkless /\ Doomed /\ TouchedShows /\ touched \in [Sides -> BOOLEAN]
        /\ events \in Nat
    BY <1>1 DEF Inv, Typed, Ghostly
  <2>2. RunInv
    BY <1>1, <2>1 DEF Inv, Typed, RunInv, Stored
  <2>3. CASE FieldStays
    BY <2>3 DEF FieldStays
  <2>4. CASE RunField
    BY <2>1, <2>2, <2>4, FieldTouched
  <2>5. ASSUME NEW s \in Sides, rec' = [rec EXCEPT ![s] = Gone]
        PROVE  Keeps
    BY <2>1, <2>5 DEF Stored
  <2>6. CASE RunDelete
    <3>1. PICK s : s = OpOf("delete").from
      OBVIOUS
    <3>2. s \in Sides /\ (rec' = rec \/ rec' = [rec EXCEPT ![s] = Gone])
      BY <2>1, <2>2, <2>6, <3>1, SurvivorLemma, StepsLemma DEF RunDelete, At
    <3> QED BY <2>5, <3>2
  <2>7. ASSUME NEW s \in Sides, DeleteRecord(s)
        PROVE  Keeps
    BY <2>5, <2>7 DEF DeleteRecord
  <2>8. ASSUME NEW s \in Sides, NEW v \in Vals \cup {0}, EditField(s, v)
        PROVE  Keeps
    <3>1. events' # events
      BY <2>1, <2>8 DEF EditField, Edit
    <3> QED BY <3>1
  <2> QED BY <1>1, <2>1, <2>2, <2>3, <2>4, <2>6, <2>7, <2>8, RecordsStep
<1>2. Inv /\ [Next]_vars => [Keeps]_vars
  BY <1>1
<1>3. Spec => [][Keeps]_vars
  BY <1>2, SyncInvariant, PTL DEF Spec
<1> QED BY <1>3 DEF NoEditOverwritten

-----------------------------------------------------------------------------
(* What a sync that nothing disturbs keeps to *)

Quiet == clean /\ ~moved

\* The files of a side's own, and what it says of them: a file of its own is where
\* its record is, and the record has the stamp of the file.
Owned(s) == {p \in Paths : disk[s][p].own}
Within(s) == Owned(s) \subseteq {rec[s].pos}
Level(s) ==
  /\ Within(s)
  /\ Real(rec[s]) => disk[s][rec[s].pos].m = rec[s].stamp /\ rec[s].stamp > 0
Levels == \A s \in Sides : Level(s)

Placed(r) == r.pos \in Paths \cup {"nothing"}
Sited == \A s \in Sides : Placed(rec[s])
Here == rec["A"].pos = rec["B"].pos
AllReal == \A s \in Sides : Real(rec[s])

\* Files with one stamp have one content: K has what each stamp was given out for.
\* The files whose stamps the snapshot takes for agreed were alike.
ToldBy(K) ==
  /\ \A s \in Sides, p \in Paths : disk[s][p].m > 0 =>
       disk[s][p].m <= clock /\ disk[s][p].c = K[disk[s][p].m]
  /\ row.linked /\ row.snap.pos \in Paths =>
       /\ \A s \in Sides : row.snap.stamp[s] <= clock
       /\ K[row.snap.stamp["A"]] = K[row.snap.stamp["B"]]
Told == \E K \in [Nat -> Contents \cup Nat] : ToldBy(K)

\* What a snapshot says of the records.
SnapSound ==
  row.linked =>
    /\ row.snap.pos \in Paths \cup {"none", "nothing"}
    /\ row.snap.pos = "none" => row.snap = NoSnap
    /\ row.snap.pos = "nothing" => \A s \in Sides : ~Real(rec[s])

\* Between two commands.
AtRest ==
  \A s \in Sides : rec[s].pos # "none" /\ (~Real(rec[s]) => Owned(s) = {})
EndsWell == run.held \/ Settled

\* A plan that drops the link, and one that propagates a deletion.
DropPlan ==
  plan.ops = {Op("drop", "none")} /\ row.linked /\ \A s \in Sides : rec[s] = Gone
DeletePlan ==
  /\ row.linked /\ plan.base = rec
  /\ \E s \in Sides : plan.ops = {Op("delete", s)} /\ rec[s] # Gone /\ rec[Other(s)] = Gone

\* A plan that synchronises two records.
Links == Has(plan.ops, "sync") /\ ~Has(plan.ops, "delete") /\ ~Has(plan.ops, "drop")
CopiesFrom(s) == \A o \in plan.ops : o.kind = "copy" => o.from = s

\* It moves the file if it is at two places, and leaves it if the files are alike.
FilesPlanned ==
  /\ Sited
  /\ IF Has(plan.ops, "move") THEN ~Has(plan.ops, "copy") /\ ~Here /\ (AllReal => SameOnDisk)
     ELSE Here /\ IF Has(plan.ops, "copy") THEN AllReal ELSE SameOnDisk

\* A record that is missing, or was only just made, gets the other's file.
Lacking(s, gap) ==
  /\ rec[s].pos = gap /\ Placed(rec[Other(s)])
  /\ ~Has(plan.ops, "move")
  /\ Has(plan.ops, "copy") <=> Real(rec[Other(s)])
  /\ CopiesFrom(Other(s))
Linking(gap) == Levels /\ Links /\ (FilesPlanned \/ \E s \in Sides : Lacking(s, gap))

Unlinked == Has(plan.ops, "create") /\ ~row.linked
Joining ==
  /\ Linking("gone") /\ plan.base = rec
  /\ Has(plan.ops, "create") <=> ~row.linked
  /\ (\E s \in Sides : rec[s] = Gone) => ~row.linked
Planned == Joining \/ (Levels /\ (DropPlan \/ DeletePlan))

\* A run that has synchronised the metadata.
Working ==
  /\ run.synced /\ row.linked /\ run.known = rec /\ Sited
  /\ ~Has(plan.ops, "delete") /\ ~Has(plan.ops, "drop")

ToCopy ==
  /\ Working /\ ~Has(plan.ops, "move") /\ Here /\ AllReal
  /\ \A s \in Sides : Within(s)
CopyStage == ToCopy /\ (Levels \/ \E s \in Sides : Level(s) /\ CopiesFrom(s))
TransferStage == ToCopy /\ Level(Winner("copy", "content"))
CopiedStage ==
  /\ TransferStage /\ SameOnDisk
  /\ \A s \in Sides : disk[s][rec[s].pos].m > 0

MoveStage == Working /\ Levels /\ ~Here /\ (AllReal => SameOnDisk)
PositionStage ==
  LET w == Winner("move", "pos")
  IN MoveStage /\ Real(rec[w]) /\ run.old = rec[Other(w)].pos
OrphanStage ==
  LET w == Winner("move", "pos")
  IN MoveStage /\ ~Real(rec[w]) /\ run.old = rec[Other(w)].pos
ToRelocate == Working /\ Here /\ AllReal /\ Level(Winner("move", "pos"))
RelocateStage ==
  LET w == Winner("move", "pos") s == Other(w)
  IN /\ ToRelocate
     /\ run.old # rec[s].pos /\ Owned(s) \subseteq {run.old, rec[s].pos}
     /\ run.old \in Paths =>
          disk[s][run.old].m > 0 /\ disk[s][run.old].c = disk[w][rec[w].pos].c
MovedStage ==
  LET s == Other(Winner("move", "pos"))
  IN ToRelocate /\ SameOnDisk /\ Within(s) /\ disk[s][rec[s].pos].m > 0
ClearStage ==
  LET w == Winner("move", "pos") s == Other(w)
  IN /\ Working /\ Level(w) /\ rec[w].pos = "nothing"
     /\ Real(rec[s]) /\ Owned(s) = {} /\ disk[s][rec[s].pos].m = 0
RereadStage ==
  LET w == Winner("move", "pos") s == Other(w)
  IN /\ run.synced /\ row.linked /\ run.known[w] = rec[w]
     /\ ~Has(plan.ops, "delete") /\ ~Has(plan.ops, "drop")
     /\ Levels /\ \A t \in Sides : rec[t].pos = "nothing"

CommitStage ==
  \/ Working /\ Levels /\ (run.held \/ (Here /\ SameOnDisk))
  \/ ~run.synced /\ Levels /\ (DropPlan \/ DeletePlan)

UnlinkStage ==
  \E s \in Sides :
    /\ plan.ops = {Op("delete", s)} /\ \A t \in Sides : rec[t] = Gone
    /\ Owned(s) \subseteq {run.old} /\ Owned(Other(s)) = {}

\* What holds at each step of the commands.
Stage ==
  /\ run.pc \in Resting => AtRest
  /\ At("end") => EndsWell
  /\ At("planned") => plan.ops = {} \/ Planned
  /\ At("plan_b") => AtRest /\ Levels /\ run.known["A"] = rec["A"]
  /\ At("plan") => AtRest /\ Levels /\ run.known = rec
  /\ At("create") => Joining /\ Unlinked /\ \A s \in Sides : run.known[s] = Gone
  /\ At("post") => Linking("none") /\ Unlinked /\ Fresh
  /\ At("sync") => Linking("none") /\ row.linked /\ Fresh
  /\ run.pc \in {"field", "place"} => Linking("none") /\ row.linked /\ run.known = rec
  /\ At("copy") => CopyStage
  /\ At("transfer") => TransferStage
  /\ At("refresh_copy") => CopiedStage
  /\ At("move") => MoveStage
  /\ At("position") => PositionStage
  /\ At("orphan") => OrphanStage
  /\ At("relocate") => RelocateStage
  /\ At("refresh_move") => MovedStage
  /\ At("clear") => ClearStage
  /\ At("reread") => RereadStage
  /\ At("commit") => CommitStage
  /\ At("delete") => Levels /\ DeletePlan
  /\ At("drop") => Levels /\ DropPlan
  /\ run.pc \in {"unlink", "unfile"} => UnlinkStage
  /\ At("unfile") => ~row.linked

Course == Told /\ SnapSound /\ ~run.unsettled /\ Stage
SettleInv == Quiet => Course

-----------------------------------------------------------------------------
(* Files and places *)

\* What is at a place, and where a record that is not in a place is.
LEMMA PlaceLemma ==
  ASSUME Stored, NEW s \in Sides
  PROVE  /\ \A p \in Paths : /\ disk[s][p] \in Files /\ FileAt(s, p) = disk[s][p]
                             /\ Present(s, p) <=> disk[s][p].m > 0
                             /\ disk[s][p].own => disk[s][p].m > 0
         /\ \A p : p \notin Paths => FileAt(s, p) = NoFile /\ ~Present(s, p)
         /\ "gone" \notin Paths /\ "none" \notin Paths /\ "nothing" \notin Paths
         /\ rec[s] \in Recs /\ rec[s].pos \in Positions /\ rec[s].stamp \in Nat
         /\ rec[s] = Gone <=> rec[s].pos = "gone"
<1>1. "gone" \notin Paths /\ "none" \notin Paths /\ "nothing" \notin Paths
  BY SyncAssumption
<1>2. rec[s] \in Recs /\ disk[s] \in [Paths -> Files]
  BY DEF Stored
<1>3. rec[s].pos \in Positions /\ rec[s].stamp \in Nat /\ (rec[s] = Gone <=> rec[s].pos = "gone")
  BY <1>2, RecordLemma DEF Recs
<1>4. \A x \in Files : x # NoFile <=> x.m > 0
  BY DEF Files, NoFile
<1>5. \A x \in Files : x.own => x # NoFile
  BY DEF NoFile
<1>6. \A p \in Paths : disk[s][p] \in Files
  BY <1>2
<1>7. \A p \in Paths : /\ disk[s][p] \in Files /\ FileAt(s, p) = disk[s][p]
                       /\ Present(s, p) <=> disk[s][p].m > 0
                       /\ disk[s][p].own => disk[s][p].m > 0
  <2> TAKE p \in Paths
  <2>1. disk[s][p] \in Files /\ FileAt(s, p) = disk[s][p]
    BY <1>6 DEF FileAt
  <2>2. Present(s, p) <=> disk[s][p] # NoFile
    BY <2>1 DEF Present
  <2> QED BY <1>4, <1>5, <2>1, <2>2
<1>8. \A p : p \notin Paths => FileAt(s, p) = NoFile /\ ~Present(s, p)
  BY DEF FileAt, Present
<1> QED BY <1>1, <1>2, <1>3, <1>7, <1>8

\* An agreement of a side with its disk takes its position and its stamp.
LEMMA SameLevel ==
  ASSUME NEW s \in Sides, disk' = disk,
         rec'[s].pos = rec[s].pos, rec'[s].stamp = rec[s].stamp
  PROVE  /\ Owned(s)' = Owned(s) /\ (Within(s)' <=> Within(s)) /\ (Level(s)' <=> Level(s))
         /\ Real(rec'[s]) <=> Real(rec[s])
         /\ Placed(rec'[s]) <=> Placed(rec[s])
BY DEF Owned, Within, Level, Real, Placed

\* So does what both sides' positions and files are.
LEMMA SameSites ==
  ASSUME disk' = disk, \A s \in Sides : rec'[s].pos = rec[s].pos /\ rec'[s].stamp = rec[s].stamp
  PROVE  /\ Levels' <=> Levels
         /\ Here' <=> Here
         /\ AllReal' <=> AllReal
         /\ Sited' <=> Sited
         /\ SameOnDisk' <=> SameOnDisk
<1>1. \A s \in Sides : /\ Level(s)' <=> Level(s)
                       /\ Real(rec'[s]) <=> Real(rec[s])
                       /\ Placed(rec'[s]) <=> Placed(rec[s])
  BY SameLevel
<1>2. Levels' <=> Levels
  BY <1>1 DEF Levels
<1>3. "A" \in Sides /\ "B" \in Sides
  BY DEF Sides
<1>4. Here' <=> Here
  BY <1>3 DEF Here
<1>5. AllReal' <=> AllReal
  BY <1>1 DEF AllReal
<1>6. Sited' <=> Sited
  BY <1>1 DEF Sited
<1>7. SameOnDisk' <=> SameOnDisk
  BY <1>3 DEF SameOnDisk, FileAt
<1> QED BY <1>2, <1>4, <1>5, <1>6, <1>7

\* What a plan without one kind of operation still asks of the files.
LEMMA SameLinking ==
  ASSUME disk' = disk, \A s \in Sides : rec'[s].pos = rec[s].pos /\ rec'[s].stamp = rec[s].stamp,
         plan'.ops \subseteq plan.ops,
         \A k \in {"sync", "copy", "move"} : Has(plan'.ops, k) <=> Has(plan.ops, k),
         NEW gap, Linking(gap)
  PROVE  Linking(gap)'
<1>1. Levels' /\ (Here' <=> Here) /\ (AllReal' <=> AllReal) /\ (Sited' <=> Sited)
      /\ (SameOnDisk' <=> SameOnDisk)
  BY SameSites DEF Linking
<1>2. Links'
  BY DEF Linking, Links, Has
<1>3. FilesPlanned => FilesPlanned'
  BY <1>1 DEF FilesPlanned
<1>4. ASSUME NEW s \in Sides, Lacking(s, gap)
      PROVE  Lacking(s, gap)'
  <2>1. Other(s) \in Sides
    BY SidesLemma
  <2>2. /\ Real(rec'[Other(s)]) <=> Real(rec[Other(s)])
        /\ Placed(rec'[Other(s)]) <=> Placed(rec[Other(s)])
    BY <2>1, SameLevel
  <2>3. CopiesFrom(Other(s))'
    BY <1>4 DEF Lacking, CopiesFrom
  <2> QED BY <1>4, <2>1, <2>2, <2>3 DEF Lacking
<1> QED BY <1>1, <1>2, <1>3, <1>4 DEF Linking

\* Stamps and snapshots say what they said.
LEMMA SameTold ==
  ASSUME disk' = disk, row' = row, clock' = clock, Told
  PROVE  Told'
BY DEF Told, ToldBy

LEMMA SameSnap ==
  ASSUME row' = row, SnapSound,
         \A s \in Sides : Real(rec'[s]) => \E t \in Sides : Real(rec[t])
  PROVE  SnapSound'
BY DEF SnapSound

\* An operation done, by a client that nothing stops.
LEMMA DoneLemma ==
  ASSUME plan \in Plans, NEW kind \in OpKinds, NEW r \in Runs, Settle(kind, r), clean'
  PROVE  /\ plan'.ops = Without(plan.ops, kind)
         /\ run'.pc = After(kind, plan.ops)
         /\ run'.held = r.held
         /\ run'.pc # "end" => /\ run'.known = r.known /\ run'.unsettled = r.unsettled
                               /\ run'.synced <=> r.synced \/ kind = "sync"
         /\ run'.pc = "end" => ~run'.unsettled
<1>1. Done(kind, r)
  BY DEF Settle, Fault
<1> DEFINE u == [r EXCEPT !.synced = @ \/ kind = "sync"]
<1>2. /\ u \in Runs /\ u.unsettled = r.unsettled /\ u.known = r.known /\ u.held = r.held
      /\ u.synced <=> r.synced \/ kind = "sync"
  BY DEF Runs
<1>3. plan' = Pruned(kind) /\ GoOn(kind, u)
  BY <1>1 DEF Done
<1> HIDE DEF u
<1>4. plan'.ops = Without(plan.ops, kind)
  BY <1>3, PrunedLemma
<1> DEFINE pc == After(kind, plan.ops)
<1>5. run' = IF pc = "end" THEN [Idle EXCEPT !.pc = pc, !.held = u.held]
             ELSE [u EXCEPT !.pc = pc, !.old = "none"]
  BY <1>3 DEF GoOn
<1> HIDE DEF pc
<1>6. CASE pc = "end"
  <2>1. run'.pc = pc /\ run'.held = u.held /\ run'.unsettled = FALSE
    BY <1>5, <1>6 DEF Idle
  <2> QED BY <1>2, <1>4, <1>6, <2>1 DEF pc
<1>7. CASE pc # "end"
  <2>1. run' = [u EXCEPT !.pc = pc, !.old = "none"]
    BY <1>5, <1>7
  <2>2. /\ run'.pc = pc /\ run'.held = u.held /\ run'.known = u.known
        /\ run'.unsettled = u.unsettled /\ run'.synced = u.synced
    BY <1>2, <2>1 DEF Runs
  <2> QED BY <1>2, <1>4, <1>7, <2>2 DEF pc
<1> QED BY <1>6, <1>7

\* What a fresh client knows.
LEMMA FreshKnown ==
  ASSUME run.known = rec, \A s \in Sides : rec[s] # Gone
  PROVE  Fresh
BY DEF Fresh, Expected

-----------------------------------------------------------------------------
(* The run, until the metadata is synchronised *)

\* What every step takes from the invariant.
LEMMA InvFacts ==
  ASSUME Inv
  PROVE  /\ Stored /\ run \in Runs /\ plan \in Plans /\ rec \in [Sides -> Recs]
         /\ Flow /\ Linkless /\ Doomed
BY DEF Inv, Typed, Running, Stored

\* A plan of one operation.
LEMMA OnlyOp ==
  ASSUME NEW kind \in Kinds, NEW s \in Sides \cup {"none"}, plan.ops = {Op(kind, s)}
  PROVE  /\ \A k : Has(plan.ops, k) <=> k = kind
         /\ OpOf(kind).from = s
<1>1. Op(kind, s).kind = kind /\ Op(kind, s).from = s
  BY OpLemma
<1>2. PICK x : x = Op(kind, s)
  OBVIOUS
<1>3. plan.ops = {x} /\ x.kind = kind /\ x.from = s
  BY <1>1, <1>2
<1>4. OpOf(kind) = x
  BY <1>3 DEF OpOf
<1> QED BY <1>3, <1>4 DEF Has

\* A plan that ends the link goes to the commit first, which leaves it.
LEMMA EndingOps ==
  ASSUME DropPlan \/ DeletePlan
  PROVE  /\ ~Has(plan.ops, "create") /\ ~Has(plan.ops, "sync")
         /\ FirstPhase(plan.ops) = "commit"
         /\ DropPlan => After("commit", plan.ops) = "drop"
         /\ DeletePlan => After("commit", plan.ops) = "delete"
<1>1. DropPlan => \A k : Has(plan.ops, k) <=> k = "drop"
  BY OnlyOp DEF DropPlan, Kinds
<1>2. DeletePlan => \A k : Has(plan.ops, k) <=> k = "delete"
  BY OnlyOp DEF DeletePlan, Kinds
<1>3. ~Has(plan.ops, "create") /\ ~Has(plan.ops, "sync") /\ ~Has(plan.ops, "copy")
      /\ ~Has(plan.ops, "move")
  BY <1>1, <1>2
<1>4. FirstPhase(plan.ops) = "commit"
  BY <1>3, PhasesLemma DEF FirstPhase
<1>5. DropPlan => After("commit", plan.ops) = "drop"
  <2>1. DropPlan => ~Has(plan.ops, "delete") /\ Has(plan.ops, "drop")
    BY <1>1
  <2> QED BY <2>1, PhasesLemma
<1>6. DeletePlan => After("commit", plan.ops) = "delete"
  <2>1. DeletePlan => Has(plan.ops, "delete")
    BY <1>2
  <2> QED BY <2>1, PhasesLemma
<1> QED BY <1>3, <1>4, <1>5, <1>6

\* RunStart.
LEMMA StartCourse ==
  ASSUME Inv, Course, RunStart, clean'
  PROVE  Course'
<1>1. /\ At("planned") /\ plan.ops # {} /\ run' = [Idle EXCEPT !.pc = FirstPhase(plan.ops)]
      /\ rec' = rec /\ disk' = disk /\ row' = row /\ plan' = plan /\ clock' = clock
  BY DEF RunStart, data, world
<1>2. Planned
  BY <1>1 DEF Course, Stage
<1>3. /\ run'.pc = FirstPhase(plan.ops) /\ ~run'.synced /\ ~run'.unsettled
      /\ \A s \in Sides : run'.known[s] = Gone
  BY <1>1 DEF Idle
<1>4. Told' /\ SnapSound'
  BY <1>1, SameTold, SameSnap DEF Course
<1>5. CASE Joining
  <2>1. Linking("gone") /\ Has(plan.ops, "sync") /\ plan.base = rec
    BY <1>5 DEF Joining, Linking, Links
  <2>2. Linking("gone")'
    BY <1>1, <2>1, SameLinking
  <2>3. CASE Has(plan.ops, "create")
    <3>1. run'.pc = "create"
      BY <1>3, <2>3 DEF FirstPhase
    <3>2. Joining' /\ Unlinked'
      BY <1>1, <1>5, <2>2, <2>3 DEF Joining, Unlinked
    <3> QED BY <1>3, <1>4, <3>1, <3>2 DEF Course, Stage, At, Resting
  <2>4. CASE ~Has(plan.ops, "create")
    <3>1. run'.pc = "sync"
      BY <1>3, <2>1, <2>4, PhasesLemma DEF FirstPhase
    <3>2. row.linked /\ \A s \in Sides : rec[s] # Gone
      BY <1>5, <2>4 DEF Joining
    <3>3. \A s \in Sides : rec[s].pos # "gone"
      BY <3>2, InvFacts, PlaceLemma
    <3>4. FilesPlanned' \/ \E s \in Sides : Lacking(s, "gone")'
      BY <2>2 DEF Linking
    <3>5. FilesPlanned'
      BY <1>1, <3>3, <3>4 DEF Lacking
    <3>6. Linking("none")'
      BY <2>2, <3>5 DEF Linking
    <3>7. Fresh'
      BY <1>1, <1>3, <2>1, <3>2 DEF Fresh, Expected
    <3> QED BY <1>1, <1>3, <1>4, <3>1, <3>2, <3>6, <3>7 DEF Course, Stage, At, Resting
  <2> QED BY <2>3, <2>4
<1>6. CASE Levels /\ (DropPlan \/ DeletePlan)
  <2>1. run'.pc = "commit"
    BY <1>3, <1>6, EndingOps
  <2>2. Levels'
    BY <1>1, <1>6, SameSites
  <2>3. DropPlan' \/ DeletePlan'
    BY <1>1, <1>6 DEF DropPlan, DeletePlan
  <2>4. CommitStage'
    BY <1>3, <2>2, <2>3 DEF CommitStage
  <2> QED BY <1>3, <1>4, <2>1, <2>4 DEF Course, Stage, At, Resting
<1> QED BY <1>2, <1>5, <1>6 DEF Planned

\* RunCreate: the missing record is made bare, and lacks what it lacked.
LEMMA CreateCourse ==
  ASSUME Inv, Course, RunCreate
  PROVE  Course'
<1> DEFINE bare == {s \in Sides : plan.base[s] = Gone /\ rec[s] = Gone}
<1>1. /\ At("create") /\ disk' = disk /\ row' = row /\ plan' = plan /\ clock' = clock
      /\ rec' = [s \in Sides |-> IF s \in bare THEN Bare ELSE rec[s]]
      /\ run' = [run EXCEPT !.pc = "post",
                           !.known = [s \in Sides |-> IF s \in bare THEN Bare ELSE @[s]]]
  BY DEF RunCreate, world
<1>2. Joining /\ Unlinked /\ \A s \in Sides : run.known[s] = Gone
  BY <1>1 DEF Course, Stage
<1>3. Linking("gone") /\ plan.base = rec /\ Levels /\ Links
  BY <1>2 DEF Joining, Linking
<1>4. \A s \in Sides : s \in bare <=> rec[s] = Gone
  BY <1>3
<1> HIDE DEF bare
<1>5. /\ run'.pc = "post" /\ run'.unsettled = run.unsettled
      /\ \A s \in Sides : run'.known[s] = IF s \in bare THEN Bare ELSE Gone
  BY <1>1, <1>2, InvFacts DEF Runs
<1>6. Fresh'
  <2> SUFFICES ASSUME NEW s \in Sides
               PROVE  Expected(s)' # Gone /\ rec'[s] = Expected(s)'
    BY DEF Fresh
  <2>1. CASE s \in bare
    BY <1>1, <1>5, <2>1, RecordLemma DEF Expected
  <2>2. CASE s \notin bare
    BY <1>1, <1>3, <1>4, <1>5, <2>2 DEF Expected
  <2> QED BY <2>1, <2>2
<1>7. \A s \in Sides : rec[s] # Gone => rec'[s] = rec[s]
  BY <1>1, <1>4
<1>8. \A s \in Sides : rec[s] = Gone => rec'[s] = Bare
  BY <1>1, <1>4
<1>9. Levels'
  <2> SUFFICES ASSUME NEW s \in Sides
               PROVE  Level(s)'
    BY DEF Levels
  <2>1. CASE rec[s] # Gone
    BY <1>1, <1>3, <1>7, <2>1, SameLevel DEF Levels
  <2>2. CASE rec[s] = Gone
    <3>1. rec[s].pos \notin Paths /\ rec'[s].pos \notin Paths
      BY <1>8, <2>2, InvFacts, PlaceLemma, RecordLemma
    <3>2. Owned(s) = {}
      BY <1>3, <3>1 DEF Levels, Level, Within, Owned
    <3>3. Owned(s)' = {}
      BY <1>1, <3>2 DEF Owned
    <3> QED BY <3>1, <3>3 DEF Level, Within, Real
  <2> QED BY <2>1, <2>2
<1>10. ASSUME FilesPlanned
       PROVE  Linking("none")'
  <2>1. \A s \in Sides : rec[s] # Gone
    <3>1. \A s \in Sides : rec[s].pos # "gone"
      BY <1>10, InvFacts, PlaceLemma DEF FilesPlanned, Sited, Placed
    <3> QED BY <3>1, InvFacts, PlaceLemma
  <2>2. \A s \in Sides : rec'[s] = rec[s]
    BY <1>7, <2>1
  <2>3. FilesPlanned'
    BY <1>1, <1>10, <2>2, SameSites DEF FilesPlanned
  <2>4. Linking("none")'
    BY <1>1, <1>3, <1>9, <2>3 DEF Linking, Links
  <2> QED BY <2>4
<1>11. ASSUME NEW s \in Sides, Lacking(s, "gone")
       PROVE  Linking("none")'
  <2>1. rec[s] = Gone /\ rec[Other(s)] # Gone /\ Other(s) \in Sides
    <3>1. Other(s) \in Sides
      BY SidesLemma
    <3>2. rec[s].pos = "gone" /\ rec[Other(s)].pos # "gone"
      BY <1>11, <3>1, InvFacts, PlaceLemma DEF Lacking, Placed
    <3> QED BY <3>1, <3>2, InvFacts, PlaceLemma
  <2>2. rec'[s].pos = "none" /\ rec'[Other(s)] = rec[Other(s)]
    BY <1>7, <1>8, <2>1, RecordLemma
  <2>3. Lacking(s, "none")'
    BY <1>1, <1>11, <2>2 DEF Lacking, CopiesFrom
  <2> QED BY <1>1, <1>3, <1>9, <2>3 DEF Linking, Links
<1>12. Linking("none")'
  <2>1. FilesPlanned \/ \E s \in Sides : Lacking(s, "gone")
    BY <1>3 DEF Linking
  <2> QED BY <1>10, <1>11, <2>1
<1>13. Unlinked'
  BY <1>1, <1>2 DEF Unlinked
<1>14. Told' /\ SnapSound'
  BY <1>1, <1>2, SameTold DEF Course, SnapSound, Unlinked
<1> QED BY <1>5, <1>6, <1>12, <1>13, <1>14 DEF Course, Stage, At, Resting

\* RunPost: the link is made, and nothing is agreed yet.
LEMMA PostCourse ==
  ASSUME Inv, Course, RunPost, clean'
  PROVE  Course'
<1>1. At("post") /\ Linking("none") /\ Unlinked /\ Fresh
  BY DEF RunPost, Course, Stage
<1>2. /\ row' = [NoLink EXCEPT !.linked = TRUE] /\ Settle("create", [run EXCEPT !.known = rec])
      /\ rec' = rec /\ disk' = disk /\ clock' = clock
  BY <1>1 DEF RunPost, Unlinked
<1>3. Has(plan.ops, "sync") /\ [run EXCEPT !.known = rec] \in Runs
  BY <1>1, InvFacts DEF Linking, Links, Runs
<1>4. /\ plan'.ops = Without(plan.ops, "create") /\ run'.pc = "sync"
      /\ run'.known = rec /\ run'.unsettled = run.unsettled
  BY <1>2, <1>3, InvFacts, DoneLemma, PhasesLemma DEF OpKinds, Runs
<1>5. Linking("none")'
  BY <1>1, <1>2, <1>4, WithoutLemma, SameLinking
<1>6. Fresh'
  BY <1>1, <1>2, <1>4, FreshLemma DEF Fresh, Expected
<1>7. row'.linked /\ row'.snap = NoSnap /\ NoSnap.pos = "none"
  BY <1>2 DEF NoLink, NoSnap
<1>8. Told' /\ SnapSound'
  BY <1>2, <1>7, SyncAssumption DEF Course, Told, ToldBy, SnapSound
<1> QED BY <1>4, <1>5, <1>6, <1>7, <1>8 DEF Course, Stage, At, Resting

\* RunSync: both records in hand.
LEMMA SyncCourse ==
  ASSUME Inv, Course, RunSync
  PROVE  Course'
<1>1. At("sync") /\ Linking("none") /\ row.linked /\ Fresh
  BY DEF RunSync, Course, Stage
<1>2. /\ run' = [run EXCEPT !.pc = "field", !.known = rec]
      /\ rec' = rec /\ disk' = disk /\ clock' = clock /\ row' = row /\ plan' = plan
  BY <1>1 DEF RunSync, TurnedAway, Turned, world
<1>3. run'.pc = "field" /\ run'.known = rec /\ run'.unsettled = run.unsettled
  BY <1>2, InvFacts DEF Runs
<1>4. Linking("none")'
  BY <1>1, <1>2, SameLinking
<1>5. Told' /\ SnapSound'
  BY <1>2, SameTold, SameSnap DEF Course
<1> QED BY <1>1, <1>2, <1>3, <1>4, <1>5 DEF Course, Stage, At, Resting

\* RunField: a field changes, and no position or stamp.
LEMMA FieldCourse ==
  ASSUME Inv, Course, RunField, clean'
  PROVE  Course'
<1> DEFINE d == DecideField(run.known["A"].f, run.known["B"].f, row.snap.f)
           from == IF d = "conflict" THEN Resolved("f") ELSE d
           next == [run EXCEPT !.pc = "place", !.held = @ \/ (d = "conflict" /\ from \notin Sides)]
<1>1. /\ At("field") /\ Linking("none") /\ row.linked /\ run.known = rec
      /\ disk' = disk /\ clock' = clock /\ row' = row
  <2>1. At("field") /\ disk' = disk /\ clock' = clock /\ row' = row
    BY DEF RunField
  <2> QED BY <2>1 DEF Course, Stage, At
<1>2. /\ next.pc = "place" /\ next.known = rec /\ next.unsettled = run.unsettled
      /\ \A t \in Sides : \A x : /\ Knows(next, t, x).pc = "place"
                                 /\ Knows(next, t, x).known = [rec EXCEPT ![t] = x]
                                 /\ Knows(next, t, x).unsettled = run.unsettled
  BY <1>1, InvFacts DEF Runs, Knows
<1>3. \/ run' = next /\ rec' = rec /\ plan' = plan
      \/ /\ from \in Sides /\ plan' = plan
         /\ Put(Other(from), run, [rec[Other(from)] EXCEPT !.f = run.known[from].f])
         /\ run' = Knows(next, Other(from), rec'[Other(from)])
  BY <1>1, SidesLemma DEF RunField, Refused, Fault
<1> HIDE DEF next, from
<1>4. /\ plan' = plan /\ run'.pc = "place" /\ run'.unsettled = run.unsettled /\ run'.known = rec'
      /\ \A s \in Sides : rec'[s].pos = rec[s].pos /\ rec'[s].stamp = rec[s].stamp
  <2>1. CASE run' = next /\ rec' = rec /\ plan' = plan
    BY <1>2, <2>1
  <2>2. CASE /\ from \in Sides /\ plan' = plan
             /\ Put(Other(from), run, [rec[Other(from)] EXCEPT !.f = run.known[from].f])
             /\ run' = Knows(next, Other(from), rec'[Other(from)])
    <3>1. PICK t \in Sides : t = Other(from)
      BY SidesLemma
    <3> PICK v : v = run.known[from].f
      OBVIOUS
    <3>2. rec' = [rec EXCEPT ![t] = [rec[t] EXCEPT !.f = v]] /\ run' = Knows(next, t, rec'[t])
      BY <2>2, <3>1 DEF Put
    <3>3. rec'[t] = [rec[t] EXCEPT !.f = v] /\ \A s \in Sides : s # t => rec'[s] = rec[s]
      BY <3>2, InvFacts
    <3>4. rec'[t].pos = rec[t].pos /\ rec'[t].stamp = rec[t].stamp
      BY <3>3, InvFacts DEF Recs
    <3>5. rec' = [rec EXCEPT ![t] = rec'[t]]
      BY <3>2, <3>3
    <3>6. /\ run'.pc = "place" /\ run'.unsettled = run.unsettled
          /\ run'.known = [rec EXCEPT ![t] = rec'[t]]
      BY <1>2, <3>2
    <3> QED BY <2>2, <3>3, <3>4, <3>5, <3>6
  <2> QED BY <1>3, <2>1, <2>2
<1>5. Linking("none")'
  BY <1>1, <1>4, SameLinking
<1>6. Told' /\ SnapSound'
  <2>1. \A s \in Sides : Real(rec'[s]) => Real(rec[s])
    BY <1>4 DEF Real
  <2> QED BY <1>1, <2>1, SameTold, SameSnap DEF Course
<1> QED BY <1>1, <1>4, <1>5, <1>6 DEF Course, Stage, At, Resting

\* The metadata is synchronised: the files are next, or the commit.
LEMMA SyncedCourse ==
  ASSUME Inv, NEW r \in Runs, Settle("sync", r), clean', r.known = rec', ~r.unsettled,
         Links, row'.linked, Told', SnapSound', Sited',
         IF Has(plan.ops, "move")
           THEN ~Has(plan.ops, "copy") /\ Levels' /\ ~Here' /\ (AllReal' => SameOnDisk')
         ELSE IF Has(plan.ops, "copy")
           THEN /\ Here' /\ AllReal' /\ \A s \in Sides : Within(s)'
                /\ Levels' \/ \E s \in Sides : Level(s)' /\ CopiesFrom(s)
         ELSE Levels' /\ Here' /\ SameOnDisk'
  PROVE  Course'
<1>1. /\ plan'.ops = Without(plan.ops, "sync") /\ run'.pc = After("sync", plan.ops)
      /\ run'.held = r.held
      /\ run'.pc # "end" => run'.known = rec' /\ ~run'.unsettled /\ run'.synced
  BY InvFacts, DoneLemma DEF OpKinds
<1>2. /\ \A k \in {"copy", "move", "delete", "drop"} : Has(plan'.ops, k) <=> Has(plan.ops, k)
      /\ plan'.ops \subseteq plan.ops
  BY <1>1, WithoutLemma
<1>3. run'.pc = IF Has(plan.ops, "copy") THEN "copy" ELSE IF Has(plan.ops, "move") THEN "move" ELSE "commit"
  BY <1>1, PhasesLemma
<1>4. Working'
  BY <1>1, <1>2, <1>3 DEF Working, Links
<1>5. CASE Has(plan.ops, "move")
  <2>1. MoveStage' /\ run'.pc = "move"
    BY <1>3, <1>4, <1>5 DEF MoveStage
  <2> QED BY <1>1, <2>1 DEF Course, Stage, At, Resting
<1>6. CASE ~Has(plan.ops, "move") /\ Has(plan.ops, "copy")
  <2>1. \A s \in Sides : CopiesFrom(s) => CopiesFrom(s)'
    BY <1>2 DEF CopiesFrom
  <2>2. CopyStage' /\ run'.pc = "copy"
    BY <1>2, <1>3, <1>4, <1>6, <2>1 DEF CopyStage, ToCopy
  <2> QED BY <1>1, <2>2 DEF Course, Stage, At, Resting
<1>7. CASE ~Has(plan.ops, "move") /\ ~Has(plan.ops, "copy")
  <2>1. CommitStage' /\ run'.pc = "commit"
    BY <1>3, <1>4, <1>7 DEF CommitStage
  <2> QED BY <1>1, <2>1 DEF Course, Stage, At, Resting
<1> QED BY <1>5, <1>6, <1>7

\* RunPlace: a record only just made goes where the other is.
LEMMA PlaceCourse ==
  ASSUME Inv, Course, RunPlace, clean'
  PROVE  Course'
<1> DEFINE here == {s \in Sides : run.known[s].pos = "none" /\ run.known[Other(s)].pos # "none"}
<1>1. /\ At("place") /\ Linking("none") /\ row.linked /\ run.known = rec /\ ~run.unsettled
      /\ disk' = disk /\ clock' = clock /\ row' = row
  <2>1. At("place") /\ disk' = disk /\ clock' = clock /\ row' = row
    BY DEF RunPlace
  <2> QED BY <2>1 DEF Course, Stage, At
<1>2. Levels /\ Links
  BY <1>1 DEF Linking
<1>3. Told'
  BY <1>1, SameTold DEF Course
<1>4. \/ here = {} /\ Settle("sync", run) /\ rec' = rec
      \/ \E s \in here : /\ rec' = [rec EXCEPT ![s].pos = run.known[Other(s)].pos]
                         /\ Settle("sync", Knows(run, s, rec'[s]))
  BY <1>1 DEF RunPlace, Refused, Fault
<1>5. CASE FilesPlanned
  <2>1. here = {}
    <3>1. \A s \in Sides : rec[s].pos # "none"
      BY <1>5, InvFacts, PlaceLemma DEF FilesPlanned, Sited, Placed
    <3> QED BY <1>1, <3>1
  <2>2. rec' = rec /\ Settle("sync", run)
    BY <1>4, <2>1
  <2>3. /\ Levels' /\ (Here' <=> Here) /\ (AllReal' <=> AllReal) /\ (Sited' <=> Sited)
        /\ (SameOnDisk' <=> SameOnDisk)
    BY <1>1, <1>2, <2>2, SameSites
  <2>4. SnapSound'
    BY <1>1, <2>2, SameSnap DEF Course
  <2>5. \A s \in Sides : Within(s)'
    BY <2>3 DEF Levels, Level
  <2>6. /\ row'.linked /\ Sited'
        /\ IF Has(plan.ops, "move")
             THEN ~Has(plan.ops, "copy") /\ Levels' /\ ~Here' /\ (AllReal' => SameOnDisk')
           ELSE IF Has(plan.ops, "copy")
             THEN /\ Here' /\ AllReal' /\ \A s \in Sides : Within(s)'
                  /\ Levels' \/ \E s \in Sides : Level(s)' /\ CopiesFrom(s)
           ELSE Levels' /\ Here' /\ SameOnDisk'
    BY <1>1, <1>5, <2>3, <2>5 DEF FilesPlanned
  <2> QED BY <1>1, <1>2, <1>3, <2>2, <2>4, <2>6, InvFacts, SyncedCourse
<1>6. ASSUME NEW s \in Sides, Lacking(s, "none")
      PROVE  Course'
  <2> DEFINE t == Other(s)
  <2>1. /\ t \in Sides /\ t # s /\ Other(t) = s /\ rec[s].pos = "none" /\ Placed(rec[t])
        /\ \A u \in Sides : u = s \/ u = t
    BY <1>6, SidesLemma DEF Lacking
  <2> HIDE DEF t
  <2>2. rec[t].pos # "none" /\ rec[t].pos \in Positions
    BY <2>1, InvFacts, PlaceLemma DEF Placed
  <2>3. here = {s}
    <3>1. \A u \in Sides : run.known[u].pos = rec[u].pos
      BY <1>1
    <3>2. s \in here
      BY <1>1, <2>1, <2>2 DEF t
    <3>3. t \notin here
      BY <2>2, <3>1
    <3> HIDE DEF here
    <3>4. \A u \in here : u = s
      BY <2>1, <3>3 DEF here
    <3> QED BY <3>2, <3>4
  <2>4. /\ rec' = [rec EXCEPT ![s].pos = rec[t].pos]
        /\ Settle("sync", Knows(run, s, rec'[s]))
    BY <1>1, <1>4, <2>3 DEF t
  <2>5. rec'[t] = rec[t] /\ rec'[s] = [rec[s] EXCEPT !.pos = rec[t].pos]
    BY <2>1, <2>4, InvFacts
  <2>6. rec'[s].pos = rec[t].pos /\ rec'[s] \in Recs
    <3>1. rec[s] \in Recs \ {Gone} /\ rec[t].pos # "gone"
      BY <2>1, InvFacts, PlaceLemma, RecordLemma DEF Placed
    <3>2. [rec[s] EXCEPT !.pos = rec[t].pos] \in Recs
      BY <2>2, <3>1, RecordLemma
    <3> QED BY <2>5, <3>1, <3>2 DEF Recs
  <2> DEFINE r == Knows(run, s, rec'[s])
  <2>7. r \in Runs /\ r.known = rec' /\ r.unsettled = run.unsettled
    <3>1. [run.known EXCEPT ![s] = rec'[s]] = rec'
      BY <1>1, <2>1, <2>4, <2>5
    <3>2. r = [run EXCEPT !.known = rec'] /\ rec' \in [Sides -> Recs]
      BY <3>1, <2>4, <2>6, InvFacts DEF Knows
    <3> HIDE DEF r
    <3> QED BY <3>2, InvFacts DEF Runs
  <2> HIDE DEF r
  <2>8. (Real(rec'[s]) <=> Real(rec[t])) /\ (Real(rec'[t]) <=> Real(rec[t]))
    BY <2>5, <2>6 DEF Real
  <2>9. SnapSound'
    BY <1>1, <2>1, <2>8, SameSnap DEF Course
  <2>10. Here' /\ Sited' /\ (AllReal' <=> Real(rec[t]))
    <3>1. Here'
      BY <2>1, <2>5, <2>6 DEF Here, Sides
    <3>2. Sited'
      BY <2>1, <2>5, <2>6 DEF Sited, Placed
    <3> QED BY <2>1, <2>8, <3>1, <3>2 DEF AllReal
  <2>11. Level(t)' /\ Within(t)'
    BY <1>1, <1>2, <2>1, <2>5, SameLevel DEF Levels, Level
  <2>12. Owned(s)' = {} /\ Within(s)'
    <3>1. Owned(s) = {}
      <4>1. rec[s].pos \notin Paths
        BY <2>1, InvFacts, PlaceLemma
      <4> QED BY <1>2, <2>1, <4>1 DEF Levels, Level, Within, Owned
    <3> QED BY <1>1, <3>1 DEF Owned, Within
  <2>13. /\ ~Has(plan.ops, "move")
         /\ Has(plan.ops, "copy") <=> Real(rec[t])
         /\ CopiesFrom(t)
    BY <1>6 DEF Lacking, t
  <2>14. CASE Has(plan.ops, "copy")
    <3>1. /\ Here' /\ AllReal' /\ \A u \in Sides : Within(u)'
          /\ Level(t)' /\ CopiesFrom(t)
      BY <2>1, <2>10, <2>11, <2>12, <2>13, <2>14
    <3> QED BY <1>1, <1>2, <1>3, <2>1, <2>4, <2>7, <2>9, <2>10, <2>13, <2>14, <3>1, SyncedCourse DEF r
  <2>15. CASE ~Has(plan.ops, "copy")
    <3>1. \A u \in Sides : rec'[u].pos \notin Paths
      BY <2>1, <2>5, <2>6, <2>13, <2>15 DEF Real
    <3>2. SameOnDisk'
      BY <3>1 DEF SameOnDisk, FileAt, Sides
    <3>3. Levels'
      BY <2>1, <2>11, <2>12, <3>1 DEF Levels, Level, Real
    <3> QED BY <1>1, <1>2, <1>3, <2>4, <2>7, <2>9, <2>10, <2>13, <2>15, <3>2, <3>3, SyncedCourse DEF r
  <2> QED BY <2>14, <2>15
<1> QED BY <1>1, <1>5, <1>6 DEF Linking

-----------------------------------------------------------------------------
(* The run, on files *)

\* A file that is where another was has the content of its stamp.
LEMMA MovedTold ==
  ASSUME row' = row, clock' = clock, Told,
         \A s \in Sides, p \in Paths : disk'[s][p].m > 0 =>
           \E t \in Sides, q \in Paths : disk[t][q].m = disk'[s][p].m /\ disk[t][q].c = disk'[s][p].c
  PROVE  Told'
<1>1. PICK K \in [Nat -> Contents \cup Nat] : ToldBy(K)
  BY DEF Told
<1>2. ASSUME NEW s \in Sides, NEW p \in Paths, disk'[s][p].m > 0
      PROVE  disk'[s][p].m <= clock' /\ disk'[s][p].c = K[disk'[s][p].m]
  <2>1. PICK t \in Sides, q \in Paths : disk[t][q].m = disk'[s][p].m /\ disk[t][q].c = disk'[s][p].c
    BY <1>2
  <2> QED BY <1>1, <1>2, <2>1 DEF ToldBy
<1>3. ToldBy(K)'
  BY <1>1, <1>2 DEF ToldBy
<1> QED BY <1>3 DEF Told

\* What a side's own level and places say.
LEMMA LevelLemma ==
  ASSUME Stored, NEW s \in Sides, Level(s), Real(rec[s])
  PROVE  /\ rec[s].pos \in Paths /\ Present(s, rec[s].pos) /\ disk[s][rec[s].pos].m > 0
         /\ FileAt(s, rec[s].pos) = disk[s][rec[s].pos] /\ FileAt(s, rec[s].pos) # NoFile
BY PlaceLemma DEF Level, Real, Present

\* A working run knows both records, which are there.
LEMMA WorkingLemma ==
  ASSUME Stored, Working
  PROVE  Fresh /\ \A s \in Sides : rec[s] # Gone /\ rec[s].pos # "none"
<1>1. \A s \in Sides : rec[s] # Gone /\ rec[s].pos # "none"
  BY PlaceLemma DEF Working, Sited, Placed
<1> QED BY <1>1, FreshKnown DEF Working

\* Whose it is.
LEMMA SameWinner ==
  ASSUME plan' = plan
  PROVE  /\ Winner("copy", "content")' = Winner("copy", "content")
         /\ Winner("move", "pos")' = Winner("move", "pos")
BY DEF Winner, OpOf, Resolved

\* The last operation on files is done: the commit is next.
LEMMA FiledCourse ==
  ASSUME Inv, NEW kind \in {"copy", "move"}, NEW r \in Runs, Settle(kind, r), clean',
         r.known = rec', ~r.unsettled, r.synced, row'.linked, Told', SnapSound', Sited', Levels',
         ~Has(plan.ops, "delete"), ~Has(plan.ops, "drop"),
         kind = "copy" => ~Has(plan.ops, "move"),
         r.held \/ (Here' /\ SameOnDisk')
  PROVE  Course'
<1>1. kind \in OpKinds /\ plan \in Plans
  BY InvFacts DEF OpKinds
<1>2. After(kind, plan.ops) = "commit"
  BY PhasesLemma
<1>3. /\ plan'.ops = Without(plan.ops, kind) /\ run'.pc = "commit" /\ run'.held = r.held
      /\ run'.known = rec' /\ ~run'.unsettled /\ run'.synced
  BY <1>1, <1>2, DoneLemma
<1>4. ~Has(plan'.ops, "delete") /\ ~Has(plan'.ops, "drop")
  BY <1>3, WithoutLemma
<1>5. CommitStage'
  BY <1>3, <1>4 DEF CommitStage, Working
<1> QED BY <1>3, <1>5 DEF Course, Stage, At, Resting

\* RunCopy.
LEMMA CopyCourse ==
  ASSUME Inv, Course, RunCopy, clean'
  PROVE  Course'
<1> DEFINE w == Winner("copy", "content")
<1>1. /\ At("copy") /\ rec' = rec /\ disk' = disk /\ clock' = clock /\ row' = row
  BY DEF RunCopy
<1>2. CopyStage /\ ToCopy /\ Working /\ ~run.unsettled
  BY <1>1 DEF Course, Stage, CopyStage, ToCopy
<1>3. Fresh /\ ~Turned("copy")
  BY <1>2, InvFacts, WorkingLemma DEF Turned
<1>4. ASSUME NEW s \in Sides, CopiesFrom(s)
      PROVE  w = s
  <2>1. Has(plan.ops, "copy")
    BY <1>1, InvFacts, StepsLemma DEF Flow, Kinds, At
  <2>2. OpOf("copy") \in plan.ops /\ OpOf("copy").kind = "copy"
    BY <2>1 DEF Has, OpOf
  <2> QED BY <1>4, <2>2 DEF CopiesFrom, Winner
<1>5. Told' /\ SnapSound'
  BY <1>1, SameTold, SameSnap DEF Course
<1>6. CASE w \notin Sides
  <2> DEFINE r == [run EXCEPT !.known = rec, !.held = TRUE]
  <2>1. Settle("copy", r)
    BY <1>3, <1>6 DEF RunCopy, TurnedAway
  <2>2. r \in Runs /\ r.known = rec /\ r.held = TRUE /\ r.unsettled = run.unsettled /\ r.synced = run.synced
    BY InvFacts DEF Runs
  <2>3. Levels' /\ Sited'
    BY <1>1, <1>2, <1>4, <1>6, SameSites DEF CopyStage, Working
  <2> HIDE DEF r
  <2>4. row'.linked /\ run.synced /\ ~Has(plan.ops, "delete") /\ ~Has(plan.ops, "drop") /\ ~Has(plan.ops, "move")
    BY <1>1, <1>2 DEF Working, ToCopy
  <2> QED BY <1>1, <1>2, <1>5, <2>1, <2>2, <2>3, <2>4, FiledCourse
<1>7. CASE w \in Sides
  <2>1. run' = [run EXCEPT !.pc = "transfer", !.known = rec] /\ plan' = plan
    BY <1>3, <1>7 DEF RunCopy, TurnedAway
  <2>2. /\ run'.pc = "transfer" /\ run'.known = rec /\ run'.unsettled = run.unsettled
        /\ run'.synced = run.synced
    BY <2>1, InvFacts DEF Runs
  <2>3. Level(w)
    BY <1>2, <1>4, <1>7 DEF CopyStage, Levels
  <2>4. ToCopy'
    <3>1. Sited' /\ Here' /\ AllReal'
      BY <1>1, <1>2, SameSites DEF ToCopy, Working
    <3>2. \A s \in Sides : Within(s)'
      BY <1>1, <1>2, SameLevel DEF ToCopy
    <3> QED BY <1>1, <1>2, <2>1, <2>2, <3>1, <3>2 DEF ToCopy, Working
  <2>5. TransferStage'
    <3>1. PICK e : e = w
      OBVIOUS
    <3>2. Level(e)'
      BY <1>1, <1>7, <2>3, <3>1, SameLevel
    <3>3. Winner("copy", "content")' = e
      BY <2>1, <3>1, SameWinner
    <3> QED BY <2>4, <3>2, <3>3 DEF TransferStage
  <2> QED BY <1>2, <1>5, <2>2, <2>5 DEF Course, Stage, At, Resting
<1> QED BY <1>6, <1>7

\* What a place that is written over holds, and the others.
LEMMA PutAt ==
  ASSUME Stored, NEW s \in Sides, NEW p \in Paths, NEW x, disk' = [disk EXCEPT ![s][p] = x]
  PROVE  /\ disk'[s][p] = x
         /\ \A q \in Paths : q # p => disk'[s][q] = disk[s][q]
         /\ \A t \in Sides : t # s => disk'[t] = disk[t]
BY DEF Stored

\* RunTransfer: the file is there, and goes over.
LEMMA TransferCourse ==
  ASSUME Inv, Course, RunTransfer, clean'
  PROVE  Course'
<1>1. PICK w : w = Winner("copy", "content")
  OBVIOUS
<1>2. PICK s : s = Other(w)
  OBVIOUS
<1>3. At("transfer") /\ rec' = rec /\ clock' = clock /\ row' = row
  BY DEF RunTransfer
<1>4. TransferStage /\ ToCopy /\ Working /\ ~run.unsettled /\ Level(w) /\ Here /\ AllReal
  BY <1>1, <1>3 DEF Course, Stage, TransferStage, ToCopy
<1>5. w \in Sides /\ s \in Sides /\ s # w /\ \A t \in Sides : t = s \/ t = w
  BY <1>1, <1>2, <1>3, InvFacts, SidesLemma DEF Flow, At
<1>6. PICK p : p = rec[w].pos
  OBVIOUS
<1>7. /\ p \in Paths /\ rec[s].pos = p /\ FileAt(w, p) = disk[w][p]
      /\ FileAt(w, p) # NoFile /\ disk[w][p].m > 0 /\ disk[w][p] \in Files
  BY <1>4, <1>5, <1>6, InvFacts, LevelLemma, PlaceLemma DEF Here, AllReal, Sides
<1>8. PICK x : x = File(disk[w][p].m, disk[w][p].c, TRUE)
  OBVIOUS
<1>9. x.m = disk[w][p].m /\ x.c = disk[w][p].c /\ x.own = TRUE
  BY <1>8 DEF File
<1>10. /\ disk' = [disk EXCEPT ![s][p] = x]
       /\ run' = [run EXCEPT !.pc = "refresh_copy"] /\ plan' = plan
  BY <1>1, <1>2, <1>6, <1>7, <1>8 DEF RunTransfer, TransferFails, Fault, PlaceContent
<1>11. /\ run'.pc = "refresh_copy" /\ run'.known = run.known /\ run'.unsettled = run.unsettled
       /\ run'.synced = run.synced
  BY <1>10, InvFacts DEF Runs
<1>12. /\ disk'[s][p] = x /\ disk'[w] = disk[w]
       /\ \A q \in Paths : q # p => disk'[s][q] = disk[s][q]
  <2>1. Stored /\ p \in Paths /\ disk' = [disk EXCEPT ![s][p] = x]
    BY <1>7, <1>10, InvFacts
  <2>2. /\ disk'[s][p] = x
        /\ \A q \in Paths : q # p => disk'[s][q] = disk[s][q]
        /\ \A t \in Sides : t # s => disk'[t] = disk[t]
    BY <1>5, <2>1, PutAt
  <2> QED BY <1>5, <2>2
<1>13. Told'
  <2>1. ASSUME NEW t \in Sides, NEW q \in Paths
        PROVE  \E u \in Sides, r \in Paths : disk[u][r].m = disk'[t][q].m /\ disk[u][r].c = disk'[t][q].c
    <3>1. CASE t = s /\ q = p
      BY <1>5, <1>7, <1>9, <1>12, <3>1
    <3>2. CASE ~(t = s /\ q = p)
      <4>1. disk'[t][q] = disk[t][q]
        BY <1>5, <1>12, <3>2
      <4> QED BY <4>1
    <3> QED BY <3>1, <3>2
  <2> QED BY <1>3, <2>1, MovedTold DEF Course
<1>14. SnapSound'
  BY <1>3, SameSnap DEF Course
<1>15. Within(s)' /\ Within(w)' /\ Level(w)'
  <2>1. Owned(s)' \subseteq {p}
    <3>1. Within(s)
      BY <1>4, <1>5 DEF ToCopy
    <3> QED BY <1>7, <1>12, <3>1 DEF Within, Owned
  <2>2. Owned(w)' = Owned(w)
    BY <1>12 DEF Owned
  <2> QED BY <1>3, <1>4, <1>7, <1>12, <2>1, <2>2 DEF Level, Within
<1>16. ToCopy'
  <2>1. Here' /\ AllReal' /\ Sited'
    BY <1>3, <1>4 DEF Here, AllReal, Sited, Working, Placed, Real
  <2>2. \A t \in Sides : Within(t)'
    BY <1>5, <1>15
  <2> QED BY <1>3, <1>4, <1>10, <1>11, <2>1, <2>2 DEF ToCopy, Working
<1>17. Winner("copy", "content")' = w
  BY <1>1, <1>10, SameWinner
<1>18. SameOnDisk'
  <2>1. disk'[s][p].c = disk'[w][p].c /\ rec'[s].pos = p /\ rec'[w].pos = p
    BY <1>3, <1>6, <1>7, <1>9, <1>12
  <2>2. FileAt(s, rec[s].pos)'.c = FileAt(w, rec[w].pos)'.c
    BY <1>7, <2>1 DEF FileAt
  <2> QED BY <1>5, <2>2 DEF SameOnDisk, Sides
<1>19. \A t \in Sides : disk'[t][rec'[t].pos].m > 0
  BY <1>3, <1>5, <1>6, <1>7, <1>9, <1>12
<1>20. CopiedStage'
  BY <1>15, <1>16, <1>17, <1>18, <1>19 DEF CopiedStage, TransferStage
<1> QED BY <1>4, <1>11, <1>13, <1>14, <1>20 DEF Course, Stage, At, Resting

\* RunRefresh: the record takes the stamp of the file that was put there.
LEMMA RefreshCourse ==
  ASSUME Inv, Course, clean', NEW kind \in {"copy", "move"}, NEW s \in Sides, RunRefresh(kind, s),
         Working, Here, AllReal, SameOnDisk, Level(Other(s)), Within(s),
         disk[s][rec[s].pos].m > 0, kind = "copy" => ~Has(plan.ops, "move")
  PROVE  Course'
<1>1. PICK p : p = rec[s].pos
  OBVIOUS
<1>2. /\ p \in Paths /\ FileAt(s, p) = disk[s][p] /\ FileAt(s, p) # NoFile
      /\ disk[s][p].m \in Nat /\ disk[s][p].m > 0 /\ rec[s] \in Recs /\ rec[s] # Gone
  <2>1. p \in Paths
    BY <1>1 DEF AllReal, Real
  <2>2. Present(s, p) /\ FileAt(s, p) = disk[s][p] /\ disk[s][p] \in Files /\ rec[s] \in Recs
    BY <1>1, <2>1, InvFacts, PlaceLemma
  <2> QED BY <1>1, <2>1, <2>2, InvFacts, WorkingLemma DEF Present, Files
<1>3. rec[s] = run.known[s] /\ run.synced /\ row.linked
  BY DEF Working
<1>4. /\ disk' = disk /\ clock' = clock /\ row' = row
      /\ rec' = [rec EXCEPT ![s].stamp = disk[s][p].m]
      /\ Settle(kind, Knows(run, s, rec'[s]))
  BY <1>1, <1>2, <1>3 DEF RunRefresh, Fault
<1>5. /\ rec'[s] = [rec[s] EXCEPT !.stamp = disk[s][p].m]
      /\ \A t \in Sides : t # s => rec'[t] = rec[t]
  BY <1>4, InvFacts
<1>6. /\ rec'[s].pos = p /\ rec'[s].stamp = disk[s][p].m /\ rec'[s] \in Recs
  <2>1. [rec[s] EXCEPT !.stamp = disk[s][p].m] \in Recs
    BY <1>2, RecordLemma
  <2> QED BY <1>1, <1>2, <1>5, <2>1 DEF Recs
<1>7. PICK r : r = Knows(run, s, rec'[s])
  OBVIOUS
<1>8. r \in Runs /\ r.known = rec' /\ r.unsettled = run.unsettled /\ r.synced = run.synced
  <2>1. [run.known EXCEPT ![s] = rec'[s]] = rec'
    BY <1>4, <1>5 DEF Working
  <2>2. r = [run EXCEPT !.known = rec'] /\ rec' \in [Sides -> Recs]
    BY <1>4, <1>6, <1>7, <2>1, InvFacts DEF Knows
  <2> QED BY <2>2, InvFacts DEF Runs
<1>9. \A t \in Sides : rec'[t].pos = rec[t].pos
  BY <1>1, <1>5, <1>6
<1>10. Sited' /\ Here' /\ SameOnDisk' /\ SnapSound'
  <2>1. Sited' /\ Here'
    BY <1>9 DEF Sited, Here, Placed, Working, Sides
  <2>2. SameOnDisk'
    BY <1>4, <1>9 DEF SameOnDisk, FileAt, Sides
  <2>3. SnapSound'
    BY <1>4, <1>9, SameSnap DEF Real, Course
  <2> QED BY <2>1, <2>2, <2>3
<1>11. Levels'
  <2>1. Level(s)'
    BY <1>1, <1>2, <1>4, <1>6 DEF Level, Within, Owned
  <2>2. Level(Other(s))'
    BY <1>4, <1>5, SidesLemma, SameLevel
  <2> QED BY <2>1, <2>2, SidesLemma DEF Levels
<1>12. Told' /\ ~run.unsettled
  BY <1>4, SameTold DEF Course
<1>13. ~Has(plan.ops, "delete") /\ ~Has(plan.ops, "drop")
  BY DEF Working
<1>14. Settle(kind, r)
  BY <1>4, <1>7
<1> QED BY <1>3, <1>4, <1>8, <1>10, <1>11, <1>12, <1>13, <1>14, FiledCourse

\* RunMove.
LEMMA MoveCourse ==
  ASSUME Inv, Course, RunMove, clean'
  PROVE  Course'
<1>1. PICK w : w = Winner("move", "pos")
  OBVIOUS
<1>2. /\ At("move") /\ rec' = rec /\ disk' = disk /\ clock' = clock /\ row' = row
  BY DEF RunMove
<1>3. MoveStage /\ Working /\ Levels /\ Sited /\ ~run.unsettled
  BY <1>2 DEF Course, Stage, MoveStage, Working
<1>4. Fresh /\ ~Turned("move")
  BY <1>3, InvFacts, WorkingLemma DEF Turned
<1>5. Told' /\ SnapSound'
  BY <1>2, SameTold, SameSnap DEF Course
<1>6. /\ Levels' /\ Sited' /\ (Here' <=> Here) /\ (AllReal' <=> AllReal)
      /\ (SameOnDisk' <=> SameOnDisk)
  BY <1>2, <1>3, SameSites
<1>7. row'.linked /\ run.synced /\ ~Has(plan.ops, "delete") /\ ~Has(plan.ops, "drop")
  BY <1>2, <1>3 DEF Working
<1>8. CASE w \notin Sides
  <2> DEFINE r == [run EXCEPT !.known = rec, !.held = TRUE]
  <2>1. Settle("move", r)
    BY <1>1, <1>4, <1>8 DEF RunMove, TurnedAway
  <2>2. r \in Runs /\ r.known = rec /\ r.held = TRUE /\ r.unsettled = run.unsettled /\ r.synced = run.synced
    BY InvFacts DEF Runs
  <2> HIDE DEF r
  <2> QED BY <1>2, <1>3, <1>5, <1>6, <1>7, <2>1, <2>2, FiledCourse
<1>9. CASE w \in Sides
  <2>1. /\ run' = [run EXCEPT !.pc = IF Real(rec[w]) THEN "position" ELSE "orphan",
                              !.known = rec, !.old = rec[Other(w)].pos]
        /\ plan' = plan
    BY <1>1, <1>4, <1>9 DEF RunMove, TurnedAway
  <2>2. /\ run'.pc = IF Real(rec[w]) THEN "position" ELSE "orphan"
        /\ run'.known = rec /\ run'.old = rec[Other(w)].pos
        /\ run'.unsettled = run.unsettled /\ run'.synced = run.synced
    BY <2>1, InvFacts DEF Runs
  <2>3. MoveStage'
    BY <1>2, <1>3, <1>6, <2>1, <2>2 DEF MoveStage, Working
  <2>4. Winner("move", "pos")' = w
    BY <1>1, <2>1, SameWinner
  <2>5. CASE Real(rec[w])
    <3>1. PositionStage' /\ run'.pc = "position"
      BY <1>2, <2>2, <2>3, <2>4, <2>5 DEF PositionStage
    <3> QED BY <1>3, <1>5, <2>2, <3>1 DEF Course, Stage, At, Resting
  <2>6. CASE ~Real(rec[w])
    <3>1. OrphanStage' /\ run'.pc = "orphan"
      BY <1>2, <2>2, <2>3, <2>4, <2>6 DEF OrphanStage
    <3> QED BY <1>3, <1>5, <2>2, <3>1 DEF Course, Stage, At, Resting
  <2> QED BY <2>5, <2>6
<1> QED BY <1>8, <1>9

\* RunPosition: the loser's record takes the position, its file is where it was.
LEMMA PositionCourse ==
  ASSUME Inv, Course, RunPosition, clean'
  PROVE  Course'
<1>1. PICK w : w = Winner("move", "pos")
  OBVIOUS
<1>2. PICK s : s = Other(w)
  OBVIOUS
<1>3. At("position") /\ disk' = disk /\ clock' = clock /\ row' = row
  BY DEF RunPosition
<1>4. /\ PositionStage /\ MoveStage /\ Working /\ Levels /\ ~run.unsettled
      /\ Real(rec[w]) /\ run.old = rec[s].pos /\ run.known = rec
  BY <1>1, <1>2, <1>3 DEF Course, Stage, PositionStage, MoveStage, Working
<1>5. w \in Sides /\ s \in Sides /\ s # w /\ \A t \in Sides : t = s \/ t = w
  BY <1>1, <1>2, <1>3, InvFacts, SidesLemma, StepsLemma DEF Flow, At
<1>6. PICK p : p = rec[w].pos
  OBVIOUS
<1>7. PICK v : v = [rec[s] EXCEPT !.pos = p]
  OBVIOUS
<1>8. /\ rec' = [rec EXCEPT ![s] = v] /\ plan' = plan
      /\ run' = [Knows(run, s, rec'[s]) EXCEPT !.pc = "relocate"]
  BY <1>1, <1>2, <1>4, <1>6, <1>7 DEF RunPosition, Refused, Fault, Put
<1>9. rec'[s] = v /\ rec'[w] = rec[w] /\ p \in Paths /\ rec[s].pos # p /\ rec[s] # Gone
  <2>1. rec[s].pos # p
    BY <1>4, <1>5, <1>6 DEF MoveStage, Here, Sides
  <2>2. p \in Paths
    BY <1>4, <1>6 DEF Real
  <2> QED BY <1>4, <1>5, <1>8, <2>1, <2>2, InvFacts, WorkingLemma
<1>10. v \in Recs /\ v.pos = p
  <2>1. rec[s] \in Recs \ {Gone} /\ p \in Positions \ {"gone"}
    BY <1>5, <1>6, <1>9, InvFacts, PlaceLemma
  <2>2. v \in Recs
    BY <1>7, <2>1, RecordLemma
  <2> QED BY <1>7, <2>1, <2>2 DEF Recs
<1>11. /\ run'.pc = "relocate" /\ run'.known = rec' /\ run'.unsettled = run.unsettled
       /\ run'.synced = run.synced /\ run'.old = run.old
  <2>1. [run.known EXCEPT ![s] = rec'[s]] = rec'
    BY <1>4, <1>8, <1>9
  <2>2. run' = [[run EXCEPT !.known = rec'] EXCEPT !.pc = "relocate"]
    BY <1>8, <2>1 DEF Knows
  <2> QED BY <2>2, InvFacts DEF Runs
<1>12. Winner("move", "pos")' = w
  BY <1>1, <1>8, SameWinner
<1>13. Here' /\ AllReal' /\ Sited'
  BY <1>5, <1>6, <1>9, <1>10 DEF Here, AllReal, Sited, Placed, Real, Sides
<1>14. Level(w)'
  BY <1>3, <1>4, <1>5, <1>9, SameLevel DEF Levels
<1>15. Working'
  BY <1>3, <1>4, <1>8, <1>11, <1>13 DEF Working
<1>16. Owned(s)' \subseteq {run.old}
  BY <1>3, <1>4, <1>5 DEF Levels, Level, Within, Owned
<1>17. ASSUME run.old \in Paths
       PROVE  disk[s][run.old].m > 0 /\ disk[s][run.old].c = disk[w][p].c
  <2>1. Real(rec[s]) /\ AllReal
    BY <1>4, <1>5, <1>17 DEF Real, AllReal
  <2>2. disk[s][run.old].m > 0
    BY <1>4, <1>5, <2>1, InvFacts, LevelLemma DEF Levels
  <2>3. SameOnDisk
    BY <1>4, <2>1 DEF MoveStage
  <2>4. disk[s][run.old].c = disk[w][p].c
    BY <1>4, <1>5, <1>6, <1>9, <1>17, <2>3 DEF SameOnDisk, FileAt, Sides
  <2> QED BY <2>2, <2>4
<1>18. RelocateStage'
  <2>1. ToRelocate'
    BY <1>12, <1>13, <1>14, <1>15 DEF ToRelocate
  <2>2. /\ Other(w) = s /\ rec'[s].pos = p /\ rec'[w].pos = p /\ run'.old # p
        /\ Owned(s)' \subseteq {run'.old, p}
        /\ run'.old \in Paths => disk'[s][run'.old].m > 0 /\ disk'[s][run'.old].c = disk'[w][p].c
    BY <1>2, <1>3, <1>4, <1>6, <1>9, <1>10, <1>11, <1>16, <1>17
  <2> QED BY <1>12, <2>1, <2>2 DEF RelocateStage
<1>19. Told' /\ SnapSound'
  <2>1. \A t \in Sides : Real(rec[w])
    BY <1>4
  <2> QED BY <1>3, <1>5, <2>1, SameTold, SameSnap DEF Course
<1> QED BY <1>4, <1>11, <1>18, <1>19 DEF Course, Stage, At, Resting

\* RunRelocate: the loser's file is renamed, or it is given the winner's.
LEMMA RelocateCourse ==
  ASSUME Inv, Course, RunRelocate, clean'
  PROVE  Course'
<1>1. PICK w : w = Winner("move", "pos")
  OBVIOUS
<1>2. PICK s : s = Other(w)
  OBVIOUS
<1>3. At("relocate") /\ rec' = rec /\ clock' = clock /\ row' = row
  BY DEF RunRelocate
<1>4. PICK p : p = rec[s].pos
  OBVIOUS
<1>5. /\ ToRelocate /\ Working /\ Here /\ AllReal /\ Level(w) /\ ~run.unsettled
      /\ run.old # p /\ Owned(s) \subseteq {run.old, p}
      /\ run.old \in Paths => disk[s][run.old].m > 0 /\ disk[s][run.old].c = disk[w][rec[w].pos].c
  BY <1>1, <1>2, <1>3, <1>4 DEF Course, Stage, RelocateStage, ToRelocate
<1>6. w \in Sides /\ s \in Sides /\ s # w /\ \A t \in Sides : t = s \/ t = w
  BY <1>1, <1>2, <1>3, InvFacts, SidesLemma, StepsLemma DEF Flow, At
<1>7. /\ p \in Paths /\ rec[w].pos = p /\ FileAt(w, p) = disk[w][p]
      /\ FileAt(w, p) # NoFile /\ disk[w][p].m > 0
  <2>1. p \in Paths /\ rec[w].pos = p
    BY <1>4, <1>5, <1>6 DEF Here, AllReal, Sides, Real
  <2> QED BY <1>5, <1>6, <2>1, InvFacts, LevelLemma DEF AllReal
<1>8. Present(s, run.old) <=> run.old \in Paths
  BY <1>5, <1>6, InvFacts, PlaceLemma
<1>9. \/ /\ run.old \in Paths
         /\ disk' = [disk EXCEPT ![s] = [@ EXCEPT ![p] = [FileAt(s, run.old) EXCEPT !.own = TRUE],
                                                  ![run.old] = NoFile]]
         /\ run' = [run EXCEPT !.pc = "refresh_move"] /\ plan' = plan
      \/ /\ run.old \notin Paths
         /\ disk' = [disk EXCEPT ![s][p] = File(disk[w][p].m, disk[w][p].c, TRUE)]
         /\ run' = [run EXCEPT !.pc = "refresh_move"] /\ plan' = plan
  BY <1>1, <1>2, <1>4, <1>5, <1>7, <1>8 DEF RunRelocate, TransferFails, Fault, PlaceContent
<1>10. /\ plan' = plan /\ disk'[w] = disk[w] /\ run' = [run EXCEPT !.pc = "refresh_move"]
       /\ disk'[s][p].c = disk[w][p].c /\ disk'[s][p].m > 0
       /\ \A q \in Paths : disk'[s][q].own => q = p
       /\ \A q \in Paths : disk'[s][q].m > 0 =>
            \E t \in Sides, r \in Paths : disk[t][r].m = disk'[s][q].m /\ disk[t][r].c = disk'[s][q].c
  <2>1. CASE run.old \in Paths
    <3>1. PICK o \in Paths : o = run.old
      BY <2>1
    <3>2. disk[s][o] \in Files /\ FileAt(s, o) = disk[s][o] /\ disk[s] \in [Paths -> Files]
      BY <1>6, InvFacts, PlaceLemma DEF Stored
    <3>3. PICK x : x = [disk[s][o] EXCEPT !.own = TRUE]
      OBVIOUS
    <3>4. x.m = disk[s][o].m /\ x.c = disk[s][o].c
      BY <3>2, <3>3 DEF Files
    <3>5. disk' = [disk EXCEPT ![s] = [disk[s] EXCEPT ![p] = x, ![o] = NoFile]] /\ plan' = plan
          /\ run' = [run EXCEPT !.pc = "refresh_move"]
      BY <1>9, <2>1, <3>1, <3>2, <3>3
    <3>6. disk'[w] = disk[w] /\ disk'[s] = [disk[s] EXCEPT ![p] = x, ![o] = NoFile]
      BY <1>6, <3>5, InvFacts DEF Stored
    <3>7. /\ disk'[s][p] = x /\ disk'[s][o] = NoFile
          /\ \A q \in Paths : q # p /\ q # o => disk'[s][q] = disk[s][q]
      BY <1>5, <1>7, <3>1, <3>2, <3>6
    <3>8. disk'[s][p].c = disk[w][p].c /\ disk'[s][p].m > 0
      BY <1>5, <1>7, <2>1, <3>1, <3>4, <3>7
    <3>9. \A q \in Paths : disk'[s][q].own => q = p
      <4>1. NoFile.own = FALSE /\ \A q \in Paths : disk[s][q].own => q = o \/ q = p
        BY <1>5, <3>1 DEF Owned, NoFile
      <4> QED BY <3>7, <4>1
    <3>10. NoFile.m = 0
      BY DEF NoFile
    <3>11. ASSUME NEW q \in Paths, disk'[s][q].m > 0
           PROVE  \E t \in Sides, r \in Paths : disk[t][r].m = disk'[s][q].m /\ disk[t][r].c = disk'[s][q].c
      <4>1. CASE q = p
        BY <1>6, <3>1, <3>4, <3>7, <4>1
      <4>2. CASE q # p
        <5>1. q # o
          BY <3>7, <3>10, <3>11
        <5>2. disk'[s][q] = disk[s][q]
          BY <3>7, <4>2, <5>1
        <5> QED BY <1>6, <5>2
      <4> QED BY <4>1, <4>2
    <3> QED BY <3>5, <3>6, <3>8, <3>9, <3>11
  <2>2. CASE run.old \notin Paths
    <3>1. PICK x : x = File(disk[w][p].m, disk[w][p].c, TRUE)
      OBVIOUS
    <3>2. x.m = disk[w][p].m /\ x.c = disk[w][p].c
      BY <3>1 DEF File
    <3>3. Stored /\ disk' = [disk EXCEPT ![s][p] = x] /\ plan' = plan
          /\ run' = [run EXCEPT !.pc = "refresh_move"]
      BY <1>9, <2>2, <3>1, InvFacts
    <3>4. /\ disk'[s][p] = x
          /\ \A q \in Paths : q # p => disk'[s][q] = disk[s][q]
          /\ \A t \in Sides : t # s => disk'[t] = disk[t]
      <4>1. Stored /\ s \in Sides /\ p \in Paths /\ disk' = [disk EXCEPT ![s][p] = x]
        BY <1>6, <1>7, <3>3
      <4> QED BY <4>1, PutAt
    <3>5. \A q \in Paths : disk[s][q].own => q = p
      BY <1>5, <2>2 DEF Owned
    <3>6. \A q \in Paths : disk'[s][q].own => q = p
      BY <3>4, <3>5
    <3>7. ASSUME NEW q \in Paths, disk'[s][q].m > 0
          PROVE  \E t \in Sides, r \in Paths : disk[t][r].m = disk'[s][q].m /\ disk[t][r].c = disk'[s][q].c
      <4>1. CASE q = p
        BY <1>6, <1>7, <3>2, <3>4, <4>1
      <4>2. CASE q # p
        <5>1. disk'[s][q] = disk[s][q]
          BY <3>4, <4>2
        <5> QED BY <1>6, <5>1
      <4> QED BY <4>1, <4>2
    <3> QED BY <1>6, <1>7, <3>2, <3>3, <3>4, <3>6, <3>7
  <2> QED BY <2>1, <2>2
<1>11. /\ run'.pc = "refresh_move" /\ run'.known = run.known /\ run'.unsettled = run.unsettled
       /\ run'.synced = run.synced
  BY <1>10, InvFacts DEF Runs
<1>12. Told'
  <2>1. ASSUME NEW t \in Sides, NEW q \in Paths, disk'[t][q].m > 0
        PROVE  \E u \in Sides, r \in Paths : disk[u][r].m = disk'[t][q].m /\ disk[u][r].c = disk'[t][q].c
    <3>1. CASE t = s
      BY <1>10, <2>1, <3>1
    <3>2. CASE t = w
      BY <1>6, <1>10, <3>2
    <3> QED BY <1>6, <3>1, <3>2
  <2> QED BY <1>3, <2>1, MovedTold DEF Course
<1>13. SnapSound'
  BY <1>3, SameSnap DEF Course
<1>14. Within(s)' /\ Level(w)'
  <2>1. Owned(s)' \subseteq {p}
    BY <1>10 DEF Owned
  <2>2. Owned(w)' = Owned(w)
    BY <1>10 DEF Owned
  <2> QED BY <1>3, <1>4, <1>5, <1>10, <2>1, <2>2 DEF Level, Within
<1>15. Winner("move", "pos")' = w
  BY <1>1, <1>10, SameWinner
<1>16. ToRelocate'
  <2>1. Here' /\ AllReal' /\ Sited'
    BY <1>3, <1>5 DEF Here, AllReal, Sited, Working, Placed, Real
  <2> QED BY <1>3, <1>5, <1>10, <1>11, <1>14, <1>15, <2>1 DEF ToRelocate, Working
<1>17. SameOnDisk'
  <2>1. disk'[s][p].c = disk'[w][p].c /\ rec'[s].pos = p /\ rec'[w].pos = p
    BY <1>3, <1>4, <1>7, <1>10
  <2>2. FileAt(s, rec[s].pos)'.c = FileAt(w, rec[w].pos)'.c
    BY <1>7, <2>1 DEF FileAt
  <2> QED BY <1>6, <2>2 DEF SameOnDisk, Sides
<1>18. MovedStage'
  <2>1. Other(w) = s /\ disk'[s][rec'[s].pos].m > 0
    BY <1>2, <1>3, <1>4, <1>10
  <2> QED BY <1>14, <1>15, <1>16, <1>17, <2>1 DEF MovedStage
<1> QED BY <1>5, <1>11, <1>12, <1>13, <1>18 DEF Course, Stage, At, Resting

\* The refresh of a copy, and of a move.
LEMMA CopiedCourse ==
  ASSUME Inv, Course, At("refresh_copy"), RunRefresh("copy", Other(Winner("copy", "content"))), clean'
  PROVE  Course'
<1>1. PICK w : w = Winner("copy", "content")
  OBVIOUS
<1>2. /\ w \in Sides /\ Other(w) \in Sides /\ Other(Other(w)) = w
  BY <1>1, InvFacts, SidesLemma DEF Flow, At
<1>3. /\ CopiedStage /\ TransferStage /\ ToCopy /\ Working /\ Here /\ AllReal /\ Level(w) /\ SameOnDisk
      /\ ~Has(plan.ops, "move")
  BY <1>1 DEF Course, Stage, CopiedStage, TransferStage, ToCopy
<1>4. Within(Other(w)) /\ disk[Other(w)][rec[Other(w)].pos].m > 0
  BY <1>2, <1>3 DEF CopiedStage, ToCopy
<1> QED BY <1>1, <1>2, <1>3, <1>4, RefreshCourse

LEMMA MovedCourse ==
  ASSUME Inv, Course, At("refresh_move"), RunRefresh("move", Other(Winner("move", "pos"))), clean'
  PROVE  Course'
<1>1. PICK w : w = Winner("move", "pos")
  OBVIOUS
<1>2. /\ w \in Sides /\ Other(w) \in Sides /\ Other(Other(w)) = w
  BY <1>1, InvFacts, SidesLemma, StepsLemma DEF Flow, At
<1>3. /\ MovedStage /\ ToRelocate /\ Working /\ Here /\ AllReal /\ Level(w) /\ SameOnDisk
      /\ Within(Other(w)) /\ disk[Other(w)][rec[Other(w)].pos].m > 0
  BY <1>1 DEF Course, Stage, MovedStage, ToRelocate
<1> QED BY <1>1, <1>2, <1>3, RefreshCourse

\* RunOrphan: the file goes to the trash.
LEMMA OrphanCourse ==
  ASSUME Inv, Course, RunOrphan, clean'
  PROVE  Course'
<1>1. PICK w : w = Winner("move", "pos")
  OBVIOUS
<1>2. PICK s : s = Other(w)
  OBVIOUS
<1>3. At("orphan") /\ clock' = clock /\ row' = row
  BY DEF RunOrphan
<1>4. /\ OrphanStage /\ MoveStage /\ Working /\ Levels /\ ~run.unsettled
      /\ ~Real(rec[w]) /\ run.old = rec[s].pos /\ run.known = rec
  BY <1>1, <1>2, <1>3 DEF Course, Stage, OrphanStage, MoveStage, Working
<1>5. w \in Sides /\ s \in Sides /\ s # w /\ \A t \in Sides : t = s \/ t = w
  BY <1>1, <1>2, <1>3, InvFacts, SidesLemma, StepsLemma DEF Flow, At
<1>6. PICK p : p = rec[s].pos
  OBVIOUS
<1>7. rec[w].pos = "nothing" /\ p \in Paths /\ p # "nothing" /\ p # "none"
  <2>1. rec[w].pos = "nothing"
    BY <1>4, <1>5 DEF Working, Sited, Placed, Real
  <2>2. p # "nothing"
    BY <1>4, <1>5, <1>6, <2>1 DEF MoveStage, Here, Sides
  <2>3. p \in Paths
    BY <1>4, <1>5, <1>6, <2>2 DEF Working, Sited, Placed
  <2> QED BY <2>1, <2>2, <2>3, SyncAssumption
<1>8. /\ disk' = [disk EXCEPT ![s][p] = NoFile] /\ rec' = rec /\ plan' = plan
      /\ run' = [run EXCEPT !.pc = "clear"]
  BY <1>1, <1>2, <1>4, <1>6, <1>7 DEF RunOrphan
<1>9. /\ disk'[s][p] = NoFile /\ disk'[w] = disk[w]
      /\ \A q \in Paths : q # p => disk'[s][q] = disk[s][q]
  <2>1. Stored
    BY InvFacts
  <2>2. /\ disk'[s][p] = NoFile
        /\ \A q \in Paths : q # p => disk'[s][q] = disk[s][q]
        /\ \A t \in Sides : t # s => disk'[t] = disk[t]
    BY <1>5, <1>7, <1>8, <2>1, PutAt
  <2> QED BY <1>5, <2>2
<1>10. NoFile.m = 0 /\ NoFile.own = FALSE
  BY DEF NoFile
<1>11. /\ run'.pc = "clear" /\ run'.known = run.known /\ run'.unsettled = run.unsettled
       /\ run'.synced = run.synced
  BY <1>8, InvFacts DEF Runs
<1>12. Owned(s)' = {}
  <2>1. \A q \in Paths : disk[s][q].own => q = p
    BY <1>4, <1>5, <1>6 DEF Levels, Level, Within, Owned
  <2> QED BY <1>9, <1>10, <2>1 DEF Owned
<1>13. Level(w)'
  <2>1. Owned(w)' = Owned(w)
    BY <1>9 DEF Owned
  <2>2. Level(w)
    BY <1>4, <1>5 DEF Levels
  <2> QED BY <1>8, <1>9, <2>1, <2>2 DEF Level, Within
<1>14. Winner("move", "pos")' = w
  BY <1>1, <1>8, SameWinner
<1>15. Working'
  BY <1>3, <1>4, <1>8, <1>11 DEF Working, Sited
<1>16. ClearStage'
  <2>1. Other(w) = s /\ Real(rec'[s]) /\ rec'[w].pos = "nothing" /\ disk'[s][rec'[s].pos].m = 0
    BY <1>2, <1>6, <1>7, <1>8, <1>9, <1>10 DEF Real
  <2> QED BY <1>12, <1>13, <1>14, <1>15, <2>1 DEF ClearStage
<1>17. Told'
  <2>1. ASSUME NEW t \in Sides, NEW q \in Paths, disk'[t][q].m > 0
        PROVE  \E u \in Sides, r \in Paths : disk[u][r].m = disk'[t][q].m /\ disk[u][r].c = disk'[t][q].c
    <3>1. disk'[t][q] = disk[t][q]
      <4>1. t = s => q # p
        BY <1>9, <1>10, <2>1
      <4> QED BY <1>5, <1>9, <4>1
    <3> QED BY <3>1
  <2> QED BY <1>3, <2>1, MovedTold DEF Course
<1>18. SnapSound'
  BY <1>3, <1>8, SameSnap DEF Course
<1> QED BY <1>4, <1>11, <1>16, <1>17, <1>18 DEF Course, Stage, At, Resting

\* RunClear: both records are without a file.
LEMMA ClearCourse ==
  ASSUME Inv, Course, RunClear, clean'
  PROVE  Course'
<1>1. PICK w : w = Winner("move", "pos")
  OBVIOUS
<1>2. PICK s : s = Other(w)
  OBVIOUS
<1>3. At("clear") /\ disk' = disk /\ clock' = clock /\ row' = row
  BY DEF RunClear, world
<1>4. /\ ClearStage /\ Working /\ Level(w) /\ rec[w].pos = "nothing" /\ ~run.unsettled
      /\ Real(rec[s]) /\ Owned(s) = {} /\ disk[s][rec[s].pos].m = 0
      /\ run.known = rec /\ run.synced /\ row.linked
  BY <1>1, <1>2, <1>3 DEF Course, Stage, ClearStage, Working
<1>5. w \in Sides /\ s \in Sides /\ s # w /\ \A t \in Sides : t = s \/ t = w
  BY <1>1, <1>2, <1>3, InvFacts, SidesLemma, StepsLemma DEF Flow, At
<1>6. rec[s] = run.known[s] /\ ~Present(s, rec[s].pos)
  BY <1>4, <1>5, InvFacts, PlaceLemma DEF Real
<1>7. /\ rec' = [rec EXCEPT ![s] = Orphaned(rec[s])]
      /\ run' = [run EXCEPT !.pc = "reread"] /\ plan' = plan
  BY <1>1, <1>2, <1>6 DEF RunClear
<1>8. rec'[s] = Orphaned(rec[s]) /\ rec'[w] = rec[w]
  BY <1>5, <1>7, InvFacts
<1>9. rec'[s].pos = "nothing"
  <2>1. rec[s] \in Recs \ {Gone}
    BY <1>4, <1>5, InvFacts, WorkingLemma
  <2> QED BY <1>8, <2>1 DEF Recs, Orphaned
<1>10. /\ run'.pc = "reread" /\ run'.known = run.known /\ run'.unsettled = run.unsettled
       /\ run'.synced = run.synced
  BY <1>7, InvFacts DEF Runs
<1>11. \A t \in Sides : rec'[t].pos = "nothing" /\ ~Real(rec'[t])
  BY <1>4, <1>5, <1>8, <1>9, SyncAssumption DEF Real
<1>12. SnapSound'
  BY <1>3, <1>11, SameSnap DEF Course
<1>13. Levels'
  <2>1. Level(s)'
    BY <1>3, <1>4, <1>11, <1>5 DEF Level, Within, Owned
  <2>2. Level(w)'
    BY <1>3, <1>4, <1>5, <1>8, SameLevel
  <2> QED BY <1>5, <2>1, <2>2 DEF Levels
<1>14. Told'
  BY <1>3, SameTold DEF Course
<1>15. Winner("move", "pos")' = w
  BY <1>1, <1>7, SameWinner
<1>16. RereadStage'
  <2>1. run'.known[w] = rec'[w] /\ run'.synced /\ row'.linked
    BY <1>3, <1>4, <1>8, <1>10
  <2>2. ~Has(plan'.ops, "delete") /\ ~Has(plan'.ops, "drop")
    BY <1>4, <1>7 DEF Working
  <2> QED BY <1>11, <1>13, <1>15, <2>1, <2>2 DEF RereadStage
<1> QED BY <1>4, <1>10, <1>12, <1>14, <1>16 DEF Course, Stage, At, Resting

\* RunReread: the run knows what it left.
LEMMA RereadCourse ==
  ASSUME Inv, Course, RunReread, clean'
  PROVE  Course'
<1>1. PICK w : w = Winner("move", "pos")
  OBVIOUS
<1>2. PICK s : s = Other(w)
  OBVIOUS
<1>3. At("reread") /\ rec' = rec /\ disk' = disk /\ clock' = clock /\ row' = row
  BY DEF RunReread
<1>4. /\ run.synced /\ row.linked /\ run.known[w] = rec[w] /\ ~run.unsettled
      /\ ~Has(plan.ops, "delete") /\ ~Has(plan.ops, "drop")
      /\ Levels /\ \A t \in Sides : rec[t].pos = "nothing"
  BY <1>1, <1>3 DEF Course, Stage, RereadStage
<1>5. w \in Sides /\ s \in Sides /\ s # w /\ \A t \in Sides : t = s \/ t = w
  BY <1>1, <1>2, <1>3, InvFacts, SidesLemma, StepsLemma DEF Flow, At
<1>6. rec[s] # Gone /\ rec \in [Sides -> Recs]
  BY <1>4, <1>5, InvFacts, RecordLemma DEF Stored
<1>7. PICK r : r = Knows(run, s, rec[s])
  OBVIOUS
<1>8. Settle("move", r)
  BY <1>1, <1>2, <1>6, <1>7 DEF RunReread
<1>9. r \in Runs /\ r.known = rec' /\ r.unsettled = run.unsettled /\ r.synced = run.synced
  <2>1. run.known \in [Sides -> Recs]
    BY InvFacts DEF Runs
  <2>2. [run.known EXCEPT ![s] = rec[s]] = rec
    BY <1>4, <1>5, <1>6, <2>1
  <2>3. r = [run EXCEPT !.known = rec]
    BY <1>7, <2>2 DEF Knows
  <2> QED BY <1>3, <1>6, <2>3, InvFacts DEF Runs
<1>10. \A t \in Sides : rec'[t].pos = "nothing" /\ ~Real(rec'[t])
  BY <1>3, <1>4, SyncAssumption DEF Real
<1>11. Sited' /\ Here' /\ SameOnDisk' /\ SnapSound'
  <2>1. Sited' /\ Here'
    BY <1>10 DEF Sited, Here, Placed, Sides
  <2>2. SameOnDisk'
    BY <1>10, SyncAssumption DEF SameOnDisk, FileAt, Sides
  <2>3. SnapSound'
    BY <1>3, <1>10, SameSnap DEF Course
  <2> QED BY <2>1, <2>2, <2>3
<1>12. Levels'
  BY <1>3, <1>4, SameLevel DEF Levels
<1>13. Told'
  BY <1>3, SameTold DEF Course
<1> QED BY <1>3, <1>4, <1>8, <1>9, <1>11, <1>12, <1>13, FiledCourse

-----------------------------------------------------------------------------
(* The end of a run *)

\* A run that goes on from the commit, or the last operation.
LEMMA GoneOn ==
  ASSUME NEW kind, NEW r \in Runs, GoOn(kind, r)
  PROVE  /\ run'.pc = After(kind, plan.ops) /\ run'.held = r.held
         /\ run'.unsettled = r.unsettled \/ ~run'.unsettled
         /\ run'.pc # "end" => run'.synced = r.synced
<1>1. PICK pc : pc = After(kind, plan.ops)
  OBVIOUS
<1>2. run' = IF pc = "end" THEN [Idle EXCEPT !.pc = pc, !.held = r.held]
             ELSE [r EXCEPT !.pc = pc, !.old = "none"]
  BY <1>1 DEF GoOn
<1>3. CASE pc = "end"
  <2>1. run'.pc = pc /\ run'.held = r.held /\ run'.unsettled = FALSE
    BY <1>2, <1>3 DEF Idle
  <2> QED BY <1>1, <1>3, <2>1
<1>4. CASE pc # "end"
  <2>1. run' = [r EXCEPT !.pc = pc, !.old = "none"]
    BY <1>2, <1>4
  <2>2. run'.pc = pc /\ run'.held = r.held /\ run'.unsettled = r.unsettled /\ run'.synced = r.synced
    BY <2>1 DEF Runs
  <2> QED BY <1>1, <2>2
<1> QED BY <1>3, <1>4

\* What a record with its disk level is at rest.
LEMMA LevelRest ==
  ASSUME Stored, Levels, \A s \in Sides : rec[s].pos # "none"
  PROVE  AtRest
BY DEF Levels, Level, Within, Owned, AtRest, Real

\* RunCommit: the agreement recorded is one, of two files with the stamps it takes.
LEMMA CommitCourse ==
  ASSUME Inv, Course, RunCommit
  PROVE  Course'
<1>1. /\ At("commit") /\ GoOn("commit", run)
      /\ rec' = rec /\ disk' = disk /\ clock' = clock
  BY DEF RunCommit, world
<1>2. CommitStage /\ ~run.unsettled
  BY <1>1 DEF Course, Stage
<1>3. /\ run'.pc = After("commit", plan.ops) /\ run'.held = run.held
      /\ ~run'.unsettled /\ (run'.pc # "end" => run'.synced = run.synced)
  BY <1>1, <1>2, InvFacts, GoneOn
<1>4. Stored
  BY InvFacts
<1>5. ASSUME Working, Levels, run.held \/ (Here /\ SameOnDisk)
      PROVE  Course'
  <2>1. run'.pc = "end"
    <3>1. ~Has(plan.ops, "delete") /\ ~Has(plan.ops, "drop")
      BY <1>5 DEF Working
    <3> QED BY <1>3, <3>1, PhasesLemma
  <2>2. AtRest /\ AtRest'
    <3>1. AtRest
      BY <1>4, <1>5, WorkingLemma, LevelRest
    <3> QED BY <1>1, <3>1 DEF AtRest, Owned
  <2>3. CASE run.held
    <3>1. row' = row
      BY <2>3 DEF RunCommit
    <3>2. Told' /\ SnapSound'
      BY <1>1, <3>1, SameTold, SameSnap DEF Course
    <3> QED BY <1>3, <2>1, <2>2, <2>3, <3>2 DEF Course, Stage, At, Resting, EndsWell
  <2>4. CASE ~run.held
    <3>1. Here /\ SameOnDisk
      BY <1>5, <2>4
    <3>2. \A s \in Sides : run.known[s] # Gone /\ run.known[s] = rec[s]
      BY <1>4, <1>5, WorkingLemma DEF Working
    <3>3. PICK snap : snap = NextSnapshot(run.known["A"], run.known["B"], row.snap)
      OBVIOUS
    <3>4. row' = [row EXCEPT !.v = run.known, !.snap = snap]
      BY <1>2, <1>5, <2>4, <3>2, <3>3 DEF RunCommit, Working
    <3>5. /\ row'.linked = row.linked /\ row'.v = rec /\ row'.snap = snap /\ row.linked
      BY <1>4, <1>5, <3>4 DEF Stored, Working
    <3>6. PICK p : p = rec["A"].pos
      OBVIOUS
    <3>7. "A" \in Sides /\ "B" \in Sides /\ \A s \in Sides : s = "A" \/ s = "B"
      BY DEF Sides
    <3>8. /\ rec["B"].pos = p /\ snap.pos = p /\ Placed(rec["A"])
          /\ snap.stamp["A"] = rec["A"].stamp /\ snap.stamp["B"] = rec["B"].stamp
      <4>1. run.known["A"].pos = p /\ run.known["B"].pos = p /\ run.known = rec
        BY <1>5, <3>1, <3>6 DEF Here, Working
      <4>2. snap.pos = p /\ snap.stamp = [s \in Sides |-> IF s = "A" THEN rec["A"].stamp ELSE rec["B"].stamp]
        BY <3>3, <4>1 DEF NextSnapshot
      <4> QED BY <1>5, <3>7, <4>1, <4>2 DEF Working, Sited
    <3>9. SnapSound'
      <4>1. p \in Paths \cup {"nothing"}
        BY <3>6, <3>8 DEF Placed
      <4>2. p = "nothing" => \A s \in Sides : ~Real(rec'[s])
        BY <1>1, <3>6, <3>7, <3>8, SyncAssumption DEF Real
      <4> QED BY <3>5, <3>8, <4>1, <4>2, SyncAssumption DEF SnapSound
    <3>10. Told'
      <4>1. PICK K \in [Nat -> Contents \cup Nat] : ToldBy(K)
        BY DEF Course, Told
      <4>2. ASSUME p \in Paths
            PROVE  /\ \A s \in Sides : snap.stamp[s] <= clock
                   /\ K[snap.stamp["A"]] = K[snap.stamp["B"]]
        <5>1. \A s \in Sides : disk[s][p].m = rec[s].stamp /\ rec[s].stamp > 0
          BY <1>5, <3>6, <3>7, <3>8, <4>2 DEF Levels, Level, Real
        <5>2. \A s \in Sides : rec[s].stamp <= clock /\ disk[s][p].c = K[rec[s].stamp]
          BY <4>1, <4>2, <5>1 DEF ToldBy
        <5>3. disk["A"][p].c = disk["B"][p].c
          BY <3>1, <3>6, <3>8, <4>2 DEF SameOnDisk, FileAt
        <5> QED BY <3>7, <3>8, <5>2, <5>3
      <4>3. ToldBy(K)'
        <5>1. \A s \in Sides, q \in Paths : disk'[s][q].m > 0 =>
                disk'[s][q].m <= clock' /\ disk'[s][q].c = K[disk'[s][q].m]
          BY <1>1, <4>1 DEF ToldBy
        <5> QED BY <1>1, <3>5, <3>8, <4>2, <5>1 DEF ToldBy
      <4> QED BY <4>3 DEF Told
    <3>11. Settled'
      <4>1. InSync'
        BY <1>1, <3>2, <3>5 DEF InSync
      <4>2. SameOnDisk'
        BY <1>1, <3>1 DEF SameOnDisk, FileAt
      <4> QED BY <4>1, <4>2 DEF Settled
    <3> QED BY <1>3, <2>1, <2>2, <3>9, <3>10, <3>11 DEF Course, Stage, At, Resting, EndsWell
  <2> QED BY <2>3, <2>4
<1>6. ASSUME ~run.synced, Levels, DropPlan \/ DeletePlan
      PROVE  Course'
  <2>1. row' = row /\ plan' = plan
    BY <1>6 DEF RunCommit
  <2>2. Told' /\ SnapSound' /\ Levels'
    BY <1>1, <1>6, <2>1, SameTold, SameSnap, SameSites DEF Course
  <2>3. CASE DropPlan
    <3>1. run'.pc = "drop" /\ DropPlan'
      BY <1>1, <1>3, <2>1, <2>3, EndingOps DEF DropPlan
    <3> QED BY <1>3, <2>2, <3>1 DEF Course, Stage, At, Resting
  <2>4. CASE DeletePlan
    <3>1. run'.pc = "delete" /\ DeletePlan'
      BY <1>1, <1>3, <2>1, <2>4, EndingOps DEF DeletePlan
    <3> QED BY <1>3, <2>2, <3>1 DEF Course, Stage, At, Resting
  <2> QED BY <1>6, <2>3, <2>4
<1> QED BY <1>2, <1>5, <1>6 DEF CommitStage

\* RunDelete: the survivor goes.
LEMMA DeleteCourse ==
  ASSUME Inv, Course, RunDelete, clean'
  PROVE  Course'
<1>1. At("delete") /\ disk' = disk /\ clock' = clock /\ row' = row
  BY DEF RunDelete
<1>2. Levels /\ DeletePlan /\ ~run.unsettled
  BY <1>1 DEF Course, Stage
<1>3. PICK s \in Sides : plan.ops = {Op("delete", s)} /\ rec[s] # Gone /\ rec[Other(s)] = Gone
  BY <1>2 DEF DeletePlan
<1>4. OpOf("delete").from = s
  BY <1>3, OnlyOp DEF Kinds
<1>5. /\ rec' = [rec EXCEPT ![s] = Gone] /\ plan' = plan
      /\ run' = [run EXCEPT !.pc = "unlink", !.old = rec[s].pos]
  BY <1>2, <1>3, <1>4 DEF RunDelete, Fault, DeletePlan
<1>6. run'.pc = "unlink" /\ run'.old = rec[s].pos /\ run'.unsettled = run.unsettled
  BY <1>5, InvFacts DEF Runs
<1>7. \A t \in Sides : rec'[t] = Gone
  BY <1>3, <1>5, InvFacts, SidesLemma
<1>8. UnlinkStage'
  <2>1. Owned(s)' \subseteq {rec[s].pos}
    BY <1>1, <1>2 DEF Levels, Level, Within, Owned
  <2>2. Owned(Other(s))' = {}
    <3>1. Other(s) \in Sides /\ rec[Other(s)].pos \notin Paths
      BY <1>3, SidesLemma, InvFacts, PlaceLemma, RecordLemma
    <3> QED BY <1>1, <1>2, <3>1 DEF Levels, Level, Within, Owned
  <2> QED BY <1>3, <1>5, <1>6, <1>7, <2>1, <2>2 DEF UnlinkStage
<1>9. Told' /\ SnapSound'
  <2>1. \A t \in Sides : ~Real(rec'[t])
    BY <1>7, RecordLemma, SyncAssumption DEF Real
  <2> QED BY <1>1, <2>1, SameTold, SameSnap DEF Course
<1> QED BY <1>2, <1>6, <1>8, <1>9 DEF Course, Stage, At, Resting

\* RunUnlink, RunUnfile: the link goes, and the file.
LEMMA UnlinkCourse ==
  ASSUME Inv, Course, RunUnlink
  PROVE  Course'
<1>1. /\ At("unlink") /\ row' = NoLink /\ run' = [run EXCEPT !.pc = "unfile"]
      /\ rec' = rec /\ disk' = disk /\ plan' = plan /\ clock' = clock
  BY DEF RunUnlink, world
<1>2. UnlinkStage /\ ~run.unsettled
  BY <1>1 DEF Course, Stage, At
<1>3. run'.pc = "unfile" /\ run'.old = run.old /\ run'.unsettled = run.unsettled /\ ~row'.linked
  BY <1>1, InvFacts DEF Runs, NoLink
<1>4. UnlinkStage'
  BY <1>1, <1>2, <1>3 DEF UnlinkStage, Owned
<1>5. Told' /\ SnapSound'
  BY <1>1, <1>3 DEF Course, Told, ToldBy, SnapSound
<1> QED BY <1>2, <1>3, <1>4, <1>5 DEF Course, Stage, At, Resting

LEMMA UnfileCourse ==
  ASSUME Inv, Course, RunUnfile, clean'
  PROVE  Course'
<1>1. /\ At("unfile") /\ rec' = rec /\ row' = row /\ clock' = clock /\ Settle("delete", run)
  BY DEF RunUnfile
<1>2. UnlinkStage /\ ~run.unsettled /\ ~row.linked
  BY <1>1 DEF Course, Stage, At
<1>3. PICK s \in Sides : /\ plan.ops = {Op("delete", s)} /\ \A t \in Sides : rec[t] = Gone
                         /\ Owned(s) \subseteq {run.old} /\ Owned(Other(s)) = {}
  BY <1>2 DEF UnlinkStage
<1>4. OpOf("delete").from = s /\ ~Has(plan.ops, "drop")
  BY <1>3, OnlyOp DEF Kinds
<1>5. run'.pc = "end" /\ ~run'.unsettled
  <2>1. After("delete", plan.ops) = "end"
    BY <1>4, PhasesLemma
  <2> QED BY <1>1, <1>2, <2>1, InvFacts, DoneLemma DEF OpKinds
<1>6. disk' = IF run.old \in Paths THEN [disk EXCEPT ![s][run.old] = NoFile] ELSE disk
  BY <1>4 DEF RunUnfile
<1>7. /\ \A t \in Sides, q \in Paths : disk'[t][q] = disk[t][q] \/ disk'[t][q] = NoFile
      /\ run.old \in Paths => disk'[s][run.old] = NoFile
  <2>1. CASE run.old \in Paths
    <3>1. Stored /\ disk' = [disk EXCEPT ![s][run.old] = NoFile]
      BY <1>6, <2>1, InvFacts
    <3>2. /\ disk'[s][run.old] = NoFile
          /\ \A q \in Paths : q # run.old => disk'[s][q] = disk[s][q]
          /\ \A t \in Sides : t # s => disk'[t] = disk[t]
      BY <2>1, <3>1, PutAt
    <3> QED BY <3>2
  <2>2. CASE run.old \notin Paths
    BY <1>6, <2>2
  <2> QED BY <2>1, <2>2
<1>8. NoFile.m = 0 /\ NoFile.own = FALSE
  BY DEF NoFile
<1>9. AtRest'
  <2>1. Owned(s)' = {} /\ Owned(Other(s))' = {}
    <3>1. \A q \in Paths : ~disk'[s][q].own
      BY <1>3, <1>7, <1>8 DEF Owned
    <3>2. \A q \in Paths : ~disk'[Other(s)][q].own
      BY <1>3, <1>7, <1>8, SidesLemma DEF Owned
    <3> QED BY <3>1, <3>2 DEF Owned
  <2>2. \A t \in Sides : rec'[t].pos # "none"
    BY <1>1, <1>3, RecordLemma
  <2> QED BY <2>1, <2>2, SidesLemma DEF AtRest
<1>10. Settled'
  BY <1>1, <1>2, <1>3 DEF Settled
<1>11. Told'
  <2>1. \A t \in Sides, q \in Paths : disk'[t][q].m > 0 => disk'[t][q] = disk[t][q]
    BY <1>7, <1>8
  <2> QED BY <1>1, <2>1, MovedTold DEF Course
<1>12. SnapSound'
  BY <1>1, <1>2 DEF SnapSound
<1> QED BY <1>5, <1>9, <1>10, <1>11, <1>12 DEF Course, Stage, At, Resting, EndsWell

\* RunDrop.
LEMMA DropCourse ==
  ASSUME Inv, Course, RunDrop, clean'
  PROVE  Course'
<1>1. At("drop") /\ rec' = rec /\ disk' = disk /\ clock' = clock
  BY DEF RunDrop
<1>2. Levels /\ DropPlan /\ ~run.unsettled
  BY <1>1 DEF Course, Stage
<1>3. \A s \in Sides : rec[s] = Gone
  BY <1>2 DEF DropPlan
<1>4. row' = NoLink /\ Settle("drop", run)
  BY <1>3 DEF RunDrop
<1>5. run'.pc = "end" /\ ~run'.unsettled
  BY <1>2, <1>4, InvFacts, DoneLemma, PhasesLemma DEF OpKinds
<1>6. ~row'.linked
  BY <1>4 DEF NoLink
<1>7. AtRest'
  <2>1. AtRest
    BY <1>2, <1>3, InvFacts, RecordLemma, LevelRest
  <2> QED BY <1>1, <2>1 DEF AtRest, Owned
<1>8. Settled'
  BY <1>1, <1>3, <1>6 DEF Settled
<1>9. Told' /\ SnapSound'
  BY <1>1, <1>6 DEF Course, Told, ToldBy, SnapSound
<1> QED BY <1>5, <1>7, <1>8, <1>9 DEF Course, Stage, At, Resting, EndsWell

-----------------------------------------------------------------------------
(* The plan *)

\* A record its watcher has nothing to say of is where its file is.
LEMMA WatchedLevel ==
  ASSUME Stored, NEW s \in Sides, Watched(s) = rec[s], rec[s] = Gone => Owned(s) = {}
  PROVE  Level(s)
<1> DEFINE away == {p \in Paths : disk[s][p].own /\ p # rec[s].pos}
<1>1. CASE rec[s] = Gone
  BY <1>1, PlaceLemma DEF Level, Within, Real
<1>2. CASE rec[s] # Gone /\ away = {} /\ ~Real(rec[s])
  BY <1>2 DEF Level, Within, Owned
<1>3. CASE rec[s] # Gone /\ ~(away = {} /\ ~Real(rec[s]))
  <2>1. PICK at : at = IF away # {} THEN CHOOSE p \in away : TRUE ELSE rec[s].pos
    OBVIOUS
  <2>2. rec[s] = IF Present(s, at) THEN [rec[s] EXCEPT !.pos = at, !.stamp = FileAt(s, at).m]
                 ELSE [rec[s] EXCEPT !.pos = "nothing"]
    BY <1>3, <2>1 DEF Watched
  <2>3. at \in Paths
    BY <1>3, <2>1 DEF Real
  <2>4. rec[s] \in [f : Vals \cup {0}, pos : Positions, stamp : Nat]
    BY PlaceLemma DEF Recs
  <2>5. CASE Present(s, at)
    <3>1. PICK m : m = FileAt(s, at).m
      OBVIOUS
    <3>2. m = disk[s][at].m /\ m > 0
      BY <2>3, <2>5, <3>1, PlaceLemma
    <3>3. rec[s] = [rec[s] EXCEPT !.pos = at, !.stamp = m]
      BY <2>2, <2>5, <3>1
    <3>4. rec[s].pos = at /\ rec[s].stamp = m
      BY <2>4, <3>3
    <3>5. rec[s].pos = at /\ rec[s].stamp = disk[s][at].m /\ disk[s][at].m > 0
      BY <3>2, <3>4
    <3>6. away = {}
      <4> SUFFICES ASSUME away # {} PROVE FALSE
        OBVIOUS
      <4>1. at \in away
        BY <2>1
      <4> QED BY <3>5, <4>1
    <3> QED BY <3>5, <3>6 DEF Level, Within, Owned
  <2>6. CASE ~Present(s, at)
    <3>1. away = {}
      <4> SUFFICES ASSUME away # {} PROVE FALSE
        OBVIOUS
      <4>1. at \in away
        BY <2>1
      <4> QED BY <2>3, <2>6, <4>1, PlaceLemma
    <3>2. rec[s].pos \in Paths
      BY <2>1, <2>3, <3>1
    <3>3. rec[s].pos = "nothing"
      BY <2>2, <2>4, <2>6
    <3> QED BY <3>2, <3>3, SyncAssumption
  <2> QED BY <2>5, <2>6
<1> QED BY <1>1, <1>2, <1>3

\* PlanReadA, PlanReadB.
LEMMA ReadACourse ==
  ASSUME Inv, Course, PlanReadA, clean'
  PROVE  Course'
<1>1. /\ run.pc \in Resting /\ run' = [Idle EXCEPT !.pc = "plan_b", !.known["A"] = rec["A"]]
      /\ rec' = rec /\ disk' = disk /\ row' = row /\ clock' = clock
      /\ \A s \in Sides : Watched(s) = rec[s]
  BY DEF PlanReadA, world
<1>2. AtRest /\ Stored
  BY <1>1, InvFacts DEF Course, Stage
<1>3. Levels
  <2>1. \A s \in Sides : rec[s] = Gone => Owned(s) = {}
    BY <1>2, PlaceLemma DEF AtRest, Real
  <2> QED BY <1>1, <1>2, <2>1, WatchedLevel DEF Levels
<1>4. run'.pc = "plan_b" /\ ~run'.unsettled /\ run'.known["A"] = rec["A"]
  BY <1>1 DEF Idle, Sides
<1>5. AtRest' /\ Levels'
  BY <1>1, <1>2, <1>3, SameSites DEF AtRest, Owned
<1>6. Told' /\ SnapSound'
  BY <1>1, SameTold, SameSnap DEF Course
<1> QED BY <1>1, <1>4, <1>5, <1>6 DEF Course, Stage, At, Resting

LEMMA ReadBCourse ==
  ASSUME Inv, Course, PlanReadB
  PROVE  Course'
<1>1. /\ At("plan_b") /\ run' = [run EXCEPT !.pc = "plan", !.known["B"] = rec["B"]]
      /\ rec' = rec /\ disk' = disk /\ row' = row /\ clock' = clock
  BY DEF PlanReadB, data, world
<1>2. AtRest /\ Levels /\ run.known["A"] = rec["A"] /\ ~run.unsettled
  BY <1>1 DEF Course, Stage
<1>3. run'.pc = "plan" /\ run'.unsettled = run.unsettled /\ run'.known = rec
  <2>1. run.known \in [Sides -> Recs] /\ rec \in [Sides -> Recs]
    BY InvFacts DEF Runs
  <2>2. [run.known EXCEPT !["B"] = rec["B"]] = rec
    BY <1>2, <2>1 DEF Sides
  <2>3. run' = [run EXCEPT !.pc = "plan", !.known = rec]
    BY <1>1, <2>2
  <2> QED BY <2>3, InvFacts DEF Runs
<1>4. AtRest' /\ Levels'
  BY <1>1, <1>2, SameSites DEF AtRest, Owned
<1>5. Told' /\ SnapSound'
  BY <1>1, SameTold, SameSnap DEF Course
<1> QED BY <1>1, <1>2, <1>3, <1>4, <1>5 DEF Course, Stage, At, Resting

\* What the operations of a link to be synchronised are.
LEMMA LinkRange ==
  ASSUME NEW base \in [Sides -> Recs], row.linked \in BOOLEAN, ~row.linked => row = NoLink,
         NEW res \in [Conflicts(base, row.snap) -> Sides \cup {"skip"}],
         ~row.linked \/ ((\A s \in Sides : base[s] # Gone) /\ row.v # base)
  PROVE  \E X :
           /\ \A o \in X : o.kind = "conflict"
           /\ Range(LinkOps(base, res)) =
                (IF row.linked THEN {} ELSE {Op("create", "none")}) \cup {Op("sync", "none")}
                  \cup Range(MoveOps(base, row.snap)) \cup Range(CopyOps(base, row.snap)) \cup X
<1> DEFINE gone == {s \in Sides : base[s] = Gone}
           L == LinkOps(base, res)
           C == IF row.linked THEN <<>> ELSE <<Op("create", "none")>>
           Y == <<Op("sync", "none")>>
           M == MoveOps(base, row.snap)
           P == CopyOps(base, row.snap)
           X == ConflictOps(Conflicts(base, row.snap), res)
<1>1. L = C \o Y \o M \o P \o X
  <2>1. row.linked => gone = {} /\ gone # Sides
    BY DEF Sides
  <2> HIDE DEF gone
  <2> QED BY <2>1 DEF LinkOps, gone
<1>2. /\ C \in Seq(Ops) /\ Y \in Seq(Ops) /\ Range(Y) = {Op("sync", "none")}
      /\ Range(C) = IF row.linked THEN {} ELSE {Op("create", "none")}
  <2>1. PICK c, y : c = Op("create", "none") /\ y = Op("sync", "none")
    OBVIOUS
  <2>2. c \in Ops /\ y \in Ops
    BY <2>1, OpLemma DEF Kinds
  <2>3. C = (IF row.linked THEN <<>> ELSE <<c>>) /\ Y = <<y>>
    BY <2>1
  <2>4. <<c>> \in Seq(Ops) /\ Range(<<c>>) = {c} /\ <<y>> \in Seq(Ops) /\ Range(<<y>>) = {y}
        /\ <<>> \in Seq(Ops) /\ Range(<<>>) = {}
    BY <2>2, SingleLemma, EmptyLemma
  <2> QED BY <2>1, <2>3, <2>4
<1>3. (\A s \in Sides : base[s] # Gone) \/ row.snap.pos = "none"
  BY DEF NoLink, NoSnap
<1>4. M \in Seq(Ops) /\ P \in Seq(Ops) /\ X \in Seq(Ops) /\ \A o \in Range(X) : o.kind = "conflict"
  BY <1>3, MoveOpsLemma, CopyOpsLemma, ConflictOpsLemma DEF Conflicts
<1> HIDE DEF C, Y, M, P, X, L
<1> DEFINE CY == C \o Y
           CYM == CY \o M
           CYMP == CYM \o P
<1>5. CY \in Seq(Ops) /\ Range(CY) = Range(C) \cup Range(Y)
  BY <1>2, ConcatLemma
<1>6. L = CYMP \o X
  BY <1>1
<1> HIDE DEF CY
<1>7. CYM \in Seq(Ops) /\ Range(CYM) = Range(CY) \cup Range(M)
  BY <1>4, <1>5, ConcatLemma
<1> HIDE DEF CYM
<1>8. CYMP \in Seq(Ops) /\ Range(CYMP) = Range(CYM) \cup Range(P)
  BY <1>4, <1>7, ConcatLemma
<1> HIDE DEF CYMP
<1>9. Range(CYMP \o X) = Range(CYMP) \cup Range(X)
  BY <1>4, <1>8, ConcatLemma
<1>10. Range(L) = Range(C) \cup Range(Y) \cup Range(M) \cup Range(P) \cup Range(X)
  BY <1>5, <1>6, <1>7, <1>8, <1>9
<1>11. Range(L) = (IF row.linked THEN {} ELSE {Op("create", "none")}) \cup {Op("sync", "none")}
                    \cup Range(M) \cup Range(P) \cup Range(X)
  BY <1>2, <1>10
<1> QED BY <1>4, <1>11 DEF L, M, P

\* Two files neither of which changed since the last agreement are alike.
LEMMA UnchangedAlike ==
  ASSUME Stored, Linkless, Levels, AllReal, Told, SnapSound,
         \A s \in Sides : ~StampChanged(rec[s], row.snap, s)
  PROVE  SameOnDisk
<1>1. \A s \in Sides : row.snap.stamp[s] # 0 /\ rec[s].stamp = row.snap.stamp[s]
  BY DEF StampChanged
<1>2. row.snap # NoSnap
  BY <1>1 DEF NoSnap, Sides
<1>3. row.linked
  BY <1>2 DEF Linkless, NoLink
<1>4. row.snap.pos \in Paths
  BY <1>2, <1>3 DEF SnapSound, AllReal, Sides
<1>5. PICK K \in [Nat -> Contents \cup Nat] : ToldBy(K)
  BY DEF Told
<1>6. K[row.snap.stamp["A"]] = K[row.snap.stamp["B"]]
  BY <1>3, <1>4, <1>5 DEF ToldBy
<1>7. ASSUME NEW s \in Sides
      PROVE  FileAt(s, rec[s].pos).c = K[row.snap.stamp[s]]
  <2>1. /\ rec[s].pos \in Paths /\ FileAt(s, rec[s].pos) = disk[s][rec[s].pos]
        /\ disk[s][rec[s].pos].m > 0 /\ disk[s][rec[s].pos].m = rec[s].stamp
    BY LevelLemma DEF Levels, Level, AllReal
  <2>2. disk[s][rec[s].pos].c = K[disk[s][rec[s].pos].m]
    BY <1>5, <2>1 DEF ToldBy
  <2> QED BY <1>1, <2>1, <2>2
<1> QED BY <1>6, <1>7 DEF SameOnDisk, Sides

\* The decision about the files of two records that are there.
LEMMA PlacedPlan ==
  ASSUME Stored, Linkless, Levels, Told, SnapSound, Sited, ~MovedAndEdited(rec)
  PROVE  /\ Here => /\ Range(MoveOps(rec, row.snap)) = {}
                    /\ \A o \in Range(CopyOps(rec, row.snap)) : o.kind = "copy" /\ AllReal
                    /\ Range(CopyOps(rec, row.snap)) = {} => SameOnDisk
         /\ ~Here => /\ \E o : o.kind = "move" /\ Range(MoveOps(rec, row.snap)) = {o}
                     /\ Range(CopyOps(rec, row.snap)) = {}
                     /\ AllReal => SameOnDisk
<1>1. PICK d : d = PosDecision(rec, row.snap)
  OBVIOUS
<1>2. \A s \in Sides : rec[s] # Gone /\ Seen(rec[s]) = rec[s] /\ rec[s].pos # "gone"
  BY PlaceLemma DEF Sited, Placed, Seen
<1>3. /\ d \in {"insync", "conflict"} \cup Sides
      /\ d = "insync" <=> Here
  BY <1>1, <1>2, DecideLemma DEF PosDecision, Here, Sides
<1>4. "insync" \notin Sides /\ "conflict" \notin Sides /\ "untouched" \notin Sides
  BY DEF Sides
<1>5. PICK e : e = ContentDecision(rec, row.snap)
  OBVIOUS
<1>6. CopyOps(rec, row.snap) = CASE e \in Sides -> <<Op("copy", e)>>
                                 [] e = "conflict" -> <<Op("copy", "none")>>
                                 [] OTHER -> <<>>
  BY <1>5 DEF CopyOps
<1>7. CASE Here
  <2>1. d = "insync"
    BY <1>3, <1>7
  <2>2. MoveOps(rec, row.snap) = <<>>
    BY <1>1, <1>4, <2>1 DEF MoveOps
  <2>3. Range(MoveOps(rec, row.snap)) = {}
    BY <2>2, EmptyLemma
  <2>4. CASE ~AllReal
    <3>1. e = "untouched"
      BY <1>5, <2>4 DEF ContentDecision, AllReal
    <3>2. Range(CopyOps(rec, row.snap)) = {}
      BY <1>4, <1>6, <3>1, EmptyLemma
    <3>3. \A s \in Sides : rec[s].pos \notin Paths
      BY <1>7, <2>4 DEF Here, AllReal, Real, Sides
    <3>4. SameOnDisk
      BY <3>3 DEF SameOnDisk, FileAt, Sides
    <3> QED BY <1>7, <2>3, <3>2, <3>4
  <2>5. CASE AllReal
    <3>1. e = DecideAspect(StampChanged(rec["A"], row.snap, "A"), StampChanged(rec["B"], row.snap, "B"),
                           ContentEqual)
      BY <1>1, <1>5, <2>1, <2>5 DEF ContentDecision, AllReal
    <3>2. \A o \in Range(CopyOps(rec, row.snap)) : o.kind = "copy"
      BY CopyOpsLemma
    <3>3. ASSUME Range(CopyOps(rec, row.snap)) = {}
          PROVE  SameOnDisk
      <4>1. e \notin Sides /\ e # "conflict"
        <5>1. \A s \in Sides \cup {"none"} : Range(<<Op("copy", s)>>) = {Op("copy", s)}
          BY OpLemma, SingleLemma DEF Kinds
        <5> QED BY <1>4, <1>6, <3>3, <5>1
      <4>2. \/ ~StampChanged(rec["A"], row.snap, "A") /\ ~StampChanged(rec["B"], row.snap, "B")
            \/ ContentEqual
        BY <3>1, <4>1 DEF DecideAspect, Changed, Sides
      <4>3. CASE ContentEqual
        BY <4>3 DEF ContentEqual, SameOnDisk
      <4>4. CASE \A s \in Sides : ~StampChanged(rec[s], row.snap, s)
        BY <2>5, <4>4, UnchangedAlike
      <4> QED BY <4>2, <4>3, <4>4 DEF Sides
    <3> QED BY <1>7, <2>3, <2>5, <3>2, <3>3
  <2> QED BY <2>4, <2>5
<1>8. CASE ~Here
  <2>1. d \in Sides \cup {"conflict"} /\ d # "insync" /\ d # "untouched"
    BY <1>3, <1>4, <1>8
  <2>2. e = "untouched"
    BY <1>1, <1>5, <2>1 DEF ContentDecision
  <2>3. Range(CopyOps(rec, row.snap)) = {}
    BY <1>4, <1>6, <2>2, EmptyLemma
  <2>4. \E o \in Ops : o.kind = "move" /\ MoveOps(rec, row.snap) = <<o>>
    <3>1. CASE d \in Sides
      <4>1. MoveOps(rec, row.snap) = <<Op("move", d)>>
        BY <1>1, <1>2, <1>4, <3>1, SidesLemma DEF MoveOps
      <4> QED BY <3>1, <4>1, OpLemma DEF Kinds
    <3>2. CASE d = "conflict"
      <4>1. MoveOps(rec, row.snap) = <<Op("move", "none")>>
        BY <1>1, <1>4, <3>2 DEF MoveOps
      <4> QED BY <4>1, OpLemma DEF Kinds
    <3> QED BY <2>1, <3>1, <3>2
  <2>5. \E o : o.kind = "move" /\ Range(MoveOps(rec, row.snap)) = {o}
    BY <2>4, SingleLemma
  <2>6. ASSUME AllReal
        PROVE  SameOnDisk
    <3>1. \A s \in Sides : ~StampChanged(rec[s], row.snap, s)
      BY <1>1, <2>1, <2>6 DEF MovedAndEdited, AllReal
    <3> QED BY <2>6, <3>1, UnchangedAlike
  <2> QED BY <1>8, <2>3, <2>5, <2>6
<1> QED BY <1>7, <1>8

\* A record that only one side has is copied, if it has a file.
LEMMA LackingPlan ==
  ASSUME Stored, Linkless, Levels, ~row.linked, NEW s \in Sides, rec[s] = Gone,
         rec[Other(s)].pos \in Paths \cup {"nothing"}
  PROVE  /\ Range(CopyOps(rec, row.snap)) = {}
         /\ Range(MoveOps(rec, row.snap)) =
              IF Real(rec[Other(s)]) THEN {Op("copy", Other(s))} ELSE {}
<1>1. PICK w : w = Other(s)
  OBVIOUS
<1>2. w \in Sides /\ w # s /\ Other(w) = s
  BY <1>1, SidesLemma
<1>3. rec[w] # Gone /\ Seen(rec[w]) = rec[w] /\ rec[w].pos # "none"
  BY <1>1, <1>2, PlaceLemma DEF Seen
<1>4. Seen(rec[s]).pos = "none"
  BY RecordLemma DEF Seen
<1>5. row.snap.pos = "none"
  BY DEF Linkless, NoLink, NoSnap
<1>6. PICK d : d = PosDecision(rec, row.snap)
  OBVIOUS
<1>7. d = w
  BY <1>2, <1>3, <1>4, <1>5, <1>6, DecideLemma DEF PosDecision, Sides
<1>8. ContentDecision(rec, row.snap) = "untouched"
  <2>1. ~Real(rec[s])
    BY PlaceLemma DEF Real
  <2> QED BY <2>1 DEF ContentDecision
<1>9. CopyOps(rec, row.snap) = <<>>
  <2>1. "untouched" \notin Sides
    BY DEF Sides
  <2> QED BY <1>8, <2>1 DEF CopyOps
<1>10. MoveOps(rec, row.snap) = IF Real(rec[w]) /\ rec[w].stamp > 0 THEN <<Op("copy", w)>> ELSE <<>>
  <2>1. d \in Sides /\ rec[Other(d)] = Gone /\ d # "conflict"
    BY <1>2, <1>7 DEF Sides
  <2>2. MoveOps(rec, row.snap) = IF Real(rec[d]) /\ rec[d].stamp > 0 THEN <<Op("copy", d)>> ELSE <<>>
    BY <1>6, <2>1 DEF MoveOps
  <2> QED BY <1>7, <2>2
<1>11. Real(rec[w]) => rec[w].stamp > 0
  BY <1>2 DEF Levels, Level
<1>12. Range(<<Op("copy", w)>>) = {Op("copy", w)}
  BY SingleLemma
<1>13. Range(<<>>) = {}
  BY EmptyLemma
<1>14. CASE Real(rec[w])
  BY <1>1, <1>9, <1>10, <1>11, <1>12, <1>13, <1>14
<1>15. CASE ~Real(rec[w])
  BY <1>1, <1>9, <1>10, <1>13, <1>15
<1> QED BY <1>14, <1>15

\* A plan that is to join two records foresees what their files need.
LEMMA JoiningPlan ==
  ASSUME Inv, AtRest, Levels, Told, SnapSound, ~MovedAndEdited(rec), Linkable(rec),
         ~row.linked \/ ((\A s \in Sides : rec[s] # Gone) /\ row.v # rec),
         NEW res \in [Conflicts(rec, row.snap) -> Sides \cup {"skip"}],
         plan'.ops = Range(LinkOps(rec, res)), plan'.base = rec,
         rec' = rec, disk' = disk, row' = row
  PROVE  Joining'
<1>1. PICK M, P : M = Range(MoveOps(rec, row.snap)) /\ P = Range(CopyOps(rec, row.snap))
  OBVIOUS
<1>2. Stored /\ Linkless /\ (~row.linked => row = NoLink) /\ rec \in [Sides -> Recs]
      /\ row.linked \in BOOLEAN
  BY InvFacts DEF Linkless, Stored
<1>3. PICK X : /\ \A o \in X : o.kind = "conflict"
               /\ plan'.ops = (IF row.linked THEN {} ELSE {Op("create", "none")})
                                \cup {Op("sync", "none")} \cup M \cup P \cup X
  <2>1. \E X : /\ \A o \in X : o.kind = "conflict"
               /\ Range(LinkOps(rec, res)) =
                    (IF row.linked THEN {} ELSE {Op("create", "none")}) \cup {Op("sync", "none")}
                      \cup Range(MoveOps(rec, row.snap)) \cup Range(CopyOps(rec, row.snap)) \cup X
    BY <1>2, LinkRange
  <2> QED BY <1>1, <2>1
<1>4. PICK c, y : c = Op("create", "none") /\ y = Op("sync", "none")
  OBVIOUS
<1>5. c.kind = "create" /\ y.kind = "sync"
  BY <1>4, OpLemma DEF Kinds
<1>6. \A o : o \in plan'.ops <=> \/ ~row.linked /\ o = c
                                 \/ o = y \/ o \in M \/ o \in P \/ o \in X
  BY <1>3, <1>4
<1>7. \A o \in M \cup P : o.kind \in {"copy", "move"}
  <2>1. (\A s \in Sides : rec[s] # Gone) \/ row.snap.pos = "none"
    BY <1>2 DEF NoLink, NoSnap
  <2> QED BY <1>1, <1>2, <2>1, MoveOpsLemma, CopyOpsLemma
<1>8. /\ Has(plan'.ops, "create") <=> ~row.linked
      /\ Has(plan'.ops, "sync") /\ ~Has(plan'.ops, "delete") /\ ~Has(plan'.ops, "drop")
      /\ Has(plan'.ops, "move") <=> \E o \in M \cup P : o.kind = "move"
      /\ Has(plan'.ops, "copy") <=> \E o \in M \cup P : o.kind = "copy"
      /\ \A o \in plan'.ops : o.kind = "copy" => o \in M \cup P
  BY <1>3, <1>5, <1>6, <1>7 DEF Has
<1>9. Links' /\ Levels'
  BY <1>8, SameSites DEF Links
<1>10. ASSUME \A s \in Sides : rec[s] # Gone
       PROVE  FilesPlanned'
  <2>1. Sited
    <3> SUFFICES ASSUME NEW s \in Sides
                 PROVE  Placed(rec[s])
      BY DEF Sited
    <3>1. rec[s].pos \in Positions /\ rec[s].pos # "gone" /\ rec[s].pos # "none"
      BY <1>2, <1>10, PlaceLemma DEF AtRest
    <3> QED BY <3>1 DEF Placed, Positions
  <2>2. /\ Here => /\ M = {}
                   /\ \A o \in P : o.kind = "copy" /\ AllReal
                   /\ P = {} => SameOnDisk
        /\ ~Here => /\ \E o : o.kind = "move" /\ M = {o}
                    /\ P = {}
                    /\ AllReal => SameOnDisk
    BY <1>1, <1>2, <2>1, PlacedPlan
  <2>3. (Sited' <=> Sited) /\ (Here' <=> Here) /\ (AllReal' <=> AllReal) /\ (SameOnDisk' <=> SameOnDisk)
    BY SameSites
  <2>4. CASE Here
    <3>1. ~Has(plan'.ops, "move") /\ (Has(plan'.ops, "copy") <=> P # {}) /\ (P # {} => AllReal)
      BY <1>8, <2>2, <2>4
    <3> QED BY <2>1, <2>2, <2>3, <2>4, <3>1 DEF FilesPlanned
  <2>5. CASE ~Here
    <3>1. Has(plan'.ops, "move") /\ ~Has(plan'.ops, "copy")
      BY <1>8, <2>2, <2>5
    <3> QED BY <2>1, <2>2, <2>3, <2>5, <3>1 DEF FilesPlanned
  <2> QED BY <2>4, <2>5
<1>11. ASSUME NEW s \in Sides, rec[s] = Gone
       PROVE  Lacking(s, "gone")' /\ ~row.linked
  <2>1. ~row.linked
    BY <1>11
  <2>2. Other(s) \in Sides /\ Other(s) # s
    BY SidesLemma
  <2>3. rec[Other(s)] # Gone
    <3> SUFFICES ASSUME rec[Other(s)] = Gone
                 PROVE  FALSE
      OBVIOUS
    <3>1. {t \in Sides : rec[t] = Gone} = {"A", "B"}
      BY <1>11, SidesLemma DEF Sides
    <3>2. Cardinality({"A", "B"}) # 1
      <4>1. IsFiniteSet({"A", "B"})
        <5>1. {"A", "B"} = {"A"} \cup {"B"}
          OBVIOUS
        <5>2. IsFiniteSet({"A"} \cup {"B"})
          BY FS_Singleton, FS_AddElement
        <5> QED BY <5>1, <5>2
      <4>2. ~\E x : {"A", "B"} = {x}
        OBVIOUS
      <4> QED BY <4>1, <4>2, FS_Singleton
    <3>3. ~Real(rec["A"])
      BY <1>2, <3>1, PlaceLemma DEF Real, Sides
    <3> QED BY <2>1, <3>1, <3>2, <3>3 DEF Linkable
  <2>4. rec[Other(s)].pos \in Paths \cup {"nothing"}
    BY <1>2, <2>2, <2>3, PlaceLemma DEF AtRest, Positions
  <2>5. P = {} /\ M = IF Real(rec[Other(s)]) THEN {Op("copy", Other(s))} ELSE {}
    BY <1>1, <1>2, <1>11, <2>1, <2>4, LackingPlan
  <2>6. PICK o : o = Op("copy", Other(s))
    OBVIOUS
  <2>7. o.kind = "copy" /\ o.from = Other(s)
    BY <2>2, <2>6, OpLemma DEF Kinds
  <2>8. M \cup P = IF Real(rec[Other(s)]) THEN {o} ELSE {}
    BY <2>5, <2>6
  <2>9. /\ ~Has(plan'.ops, "move")
        /\ Has(plan'.ops, "copy") <=> Real(rec[Other(s)])
        /\ \A x \in plan'.ops : x.kind = "copy" => x.from = Other(s)
    BY <1>8, <2>7, <2>8
  <2>10. rec'[s].pos = "gone" /\ Placed(rec'[Other(s)])
    BY <1>11, <2>4, RecordLemma DEF Placed
  <2> QED BY <2>1, <2>9, <2>10 DEF Lacking, CopiesFrom, Real
<1>12. Linking("gone")'
  BY <1>9, <1>10, <1>11 DEF Linking
<1> QED BY <1>8, <1>11, <1>12 DEF Joining

\* A plan for a link that lost one of its records, or both.
LEMMA EndingPlan ==
  ASSUME row.linked, NEW res, plan'.ops = Range(LinkOps(rec, res)), plan'.base = rec,
         rec' = rec, row' = row, NEW u \in Sides, rec[u] = Gone
  PROVE  DropPlan' \/ DeletePlan'
<1> DEFINE gone == {s \in Sides : rec[s] = Gone}
<1>1. CASE gone = Sides
  <2>1. LinkOps(rec, res) = <<Op("drop", "none")>>
    BY <1>1 DEF LinkOps
  <2>2. Range(<<Op("drop", "none")>>) = {Op("drop", "none")}
    BY SingleLemma
  <2> QED BY <1>1, <2>1, <2>2 DEF DropPlan
<1>2. CASE gone # Sides
  <2>1. gone # {}
    OBVIOUS
  <2>2. PICK s : s = CHOOSE t \in Sides : t \notin gone
    OBVIOUS
  <2>3. s \in Sides /\ rec[s] # Gone /\ rec[Other(s)] = Gone
    <3>1. s \in Sides /\ s \notin gone
      BY <1>2, <2>2
    <3> QED BY <3>1, SidesLemma
  <2>4. LinkOps(rec, res) = <<Op("delete", s)>>
    BY <1>2, <2>1, <2>2 DEF LinkOps
  <2>5. Range(<<Op("delete", s)>>) = {Op("delete", s)}
    BY SingleLemma
  <2> QED BY <2>3, <2>4, <2>5 DEF DeletePlan
<1> QED BY <1>1, <1>2

\* PlanWrite: the plan foresees what the state it was made of needs.
LEMMA WriteCourse ==
  ASSUME Inv, Course, NEW leave \in BOOLEAN, clean', ~moved',
         NEW res \in [Conflicts(Baseline, row.snap) -> Sides \cup {"skip"}], PlanWrite(res, leave)
  PROVE  Course'
<1>1. /\ At("plan") /\ run' = [Idle EXCEPT !.pc = "planned"]
      /\ disk' = disk /\ row' = row /\ clock' = clock
      /\ rec' = [s \in Sides |-> IF ~row.linked /\ rec[s] = Bare THEN Gone ELSE rec[s]]
      /\ ~MovedAndEdited(Baseline)
  BY DEF PlanWrite
<1>2. AtRest /\ Levels /\ run.known = rec /\ rec \in [Sides -> Recs]
  BY <1>1, InvFacts DEF Course, Stage
<1>3. Baseline = rec /\ rec' = rec
  <2>1. \A s \in Sides : rec[s] # Bare
    BY <1>2, RecordLemma DEF AtRest
  <2> QED BY <1>1, <1>2, <2>1 DEF Baseline
<1>4. PICK ops : ops = IF Linkable(rec) /\ ~leave THEN LinkOps(rec, res) ELSE <<>>
  OBVIOUS
<1>5. plan' = IF ops = <<>> THEN NoPlan ELSE [ops |-> Range(ops), base |-> rec]
  BY <1>3, <1>4 DEF PlanWrite, Fault
<1>6. run'.pc = "planned" /\ ~run'.unsettled
  BY <1>1 DEF Idle
<1>7. AtRest' /\ Levels' /\ Told' /\ SnapSound'
  BY <1>1, <1>2, <1>3, SameSites, SameTold, SameSnap DEF AtRest, Owned, Course
<1>8. plan'.ops = {} \/ Planned'
  <2>1. CASE ops = <<>>
    BY <1>5, <2>1 DEF NoPlan
  <2>2. CASE ops # <<>>
    <3>1. Linkable(rec) /\ ops = LinkOps(rec, res)
      BY <1>4, <2>2
    <3>2. plan'.ops = Range(LinkOps(rec, res)) /\ plan'.base = rec
      BY <1>5, <2>2, <3>1
    <3>3. CASE row.linked /\ \E u \in Sides : rec[u] = Gone
      BY <1>1, <1>3, <1>7, <3>2, <3>3, EndingPlan DEF Planned
    <3>4. CASE row.linked /\ (\A s \in Sides : rec[s] # Gone) /\ row.v = rec
      <4>1. {s \in Sides : rec[s] = Gone} = {} /\ Sides # {}
        BY <3>4 DEF Sides
      <4>2. LinkOps(rec, res) = <<>>
        BY <3>4, <4>1 DEF LinkOps
      <4> QED BY <2>2, <3>1, <4>2
    <3>5. CASE ~row.linked \/ ((\A s \in Sides : rec[s] # Gone) /\ row.v # rec)
      BY <1>1, <1>2, <1>3, <3>1, <3>2, <3>5, JoiningPlan DEF Planned, Course
    <3> QED BY <3>3, <3>4, <3>5
  <2> QED BY <2>1, <2>2
<1> QED BY <1>6, <1>7, <1>8 DEF Course, Stage, At, Resting

-----------------------------------------------------------------------------
(* The user, and the watcher, between two commands *)

\* A new file has a stamp of its own.
LEMMA WrittenTold ==
  ASSUME Stored, Told, row' = row, clock' = clock + 1, NEW c \in Contents \cup Nat,
         \A s \in Sides, p \in Paths : disk'[s][p].m > 0 =>
           \/ disk'[s][p].m = clock + 1 /\ disk'[s][p].c = c
           \/ \E t \in Sides, q \in Paths : disk[t][q].m = disk'[s][p].m /\ disk[t][q].c = disk'[s][p].c
  PROVE  Told'
<1>1. PICK K \in [Nat -> Contents \cup Nat] : ToldBy(K)
  BY DEF Told
<1>2. clock \in Nat
  BY DEF Stored
<1>3. PICK J : J = [K EXCEPT ![clock + 1] = c]
  OBVIOUS
<1>4. /\ J \in [Nat -> Contents \cup Nat] /\ J[clock + 1] = c
      /\ \A n \in Nat : n <= clock => J[n] = K[n]
  BY <1>2, <1>3
<1>5. ASSUME NEW s \in Sides, NEW p \in Paths, disk'[s][p].m > 0
      PROVE  disk'[s][p].m <= clock' /\ disk'[s][p].c = J[disk'[s][p].m]
  <2>1. CASE disk'[s][p].m = clock + 1 /\ disk'[s][p].c = c
    BY <1>2, <1>4, <2>1
  <2>2. ASSUME NEW t \in Sides, NEW q \in Paths,
               disk[t][q].m = disk'[s][p].m, disk[t][q].c = disk'[s][p].c
        PROVE  disk'[s][p].m <= clock' /\ disk'[s][p].c = J[disk'[s][p].m]
    <3>1. PICK m : m = disk[t][q].m
      OBVIOUS
    <3>2. m \in Nat /\ m > 0
      BY <1>5, <2>2, <3>1, PlaceLemma DEF Files
    <3>3. m <= clock /\ disk[t][q].c = K[m]
      BY <1>1, <3>1, <3>2 DEF ToldBy
    <3> QED BY <1>2, <1>4, <2>2, <3>1, <3>2, <3>3
  <2> QED BY <1>5, <2>1, <2>2
<1>6. ASSUME row.linked, row.snap.pos \in Paths
      PROVE  /\ \A s \in Sides : row.snap.stamp[s] <= clock'
             /\ J[row.snap.stamp["A"]] = J[row.snap.stamp["B"]]
  <2>1. \A s \in Sides : row.snap.stamp[s] \in Nat
    BY DEF Stored, Snaps
  <2>2. /\ \A s \in Sides : row.snap.stamp[s] <= clock
        /\ K[row.snap.stamp["A"]] = K[row.snap.stamp["B"]]
    BY <1>1, <1>6 DEF ToldBy
  <2> QED BY <1>2, <1>4, <2>1, <2>2 DEF Sides
<1>7. ToldBy(J)'
  BY <1>5, <1>6 DEF ToldBy
<1> QED BY <1>4, <1>7 DEF Told

\* A client that is not at work starts anew.
LEMMA IdleCourse ==
  ASSUME run' = Idle, Told', SnapSound', AtRest'
  PROVE  Course'
<1>1. run'.pc = "idle" /\ ~run'.unsettled
  BY DEF Idle
<1> QED BY <1>1 DEF Course, Stage, At, Resting

\* A user's step on a file: where a record has its own files, it says so.
LEMMA EditFileCourse ==
  ASSUME Inv, Course, NEW s \in Sides, NEW now, NEW gone, NEW new, EditFile(s, now, gone, new),
         clean', Told', \A p \in Paths : now[p].own => Owned(s) # {}
  PROVE  Course'
<1>1. /\ run.pc \in Resting /\ run' = Idle /\ rec' = rec /\ row' = row
      /\ disk' = [disk EXCEPT ![s] = now]
  BY DEF EditFile, Edit, Disturbed
<1>2. AtRest /\ SnapSound
  BY <1>1 DEF Course, Stage
<1>3. disk'[s] = now /\ \A t \in Sides : t # s => disk'[t] = disk[t]
  BY <1>1, InvFacts DEF Stored
<1>4. AtRest'
  <2> SUFFICES ASSUME NEW t \in Sides
               PROVE  rec[t].pos # "none" /\ (~Real(rec[t]) => Owned(t)' = {})
    BY <1>1 DEF AtRest
  <2>1. CASE t = s
    <3>1. Owned(s)' # {} => Owned(s) # {}
      BY <1>3 DEF Owned
    <3> QED BY <1>2, <2>1, <3>1 DEF AtRest
  <2>2. CASE t # s
    <3>1. Owned(t)' = Owned(t)
      BY <1>3, <2>2 DEF Owned
    <3> QED BY <1>2, <3>1 DEF AtRest
  <2> QED BY <2>1, <2>2
<1>5. SnapSound'
  BY <1>1, <1>2, SameSnap
<1> QED BY <1>1, <1>4, <1>5, IdleCourse

\* EditField, DeleteRecord, RemoveFile, StrayFile, MoveFile, WriteFile.
LEMMA UserCourse ==
  ASSUME Inv, Course, NEW s \in Sides, UserStep(s), clean'
  PROVE  Course'
<1>1. Stored /\ Told /\ SnapSound /\ rec \in [Sides -> Recs] /\ clock \in Nat
  BY InvFacts DEF Course, Stored
<1>2. ASSUME NEW v \in Vals \cup {0}, EditField(s, v)
      PROVE  Course'
  <2>1. /\ run.pc \in Resting /\ run' = Idle /\ rec' = [rec EXCEPT ![s].f = v]
        /\ disk' = disk /\ row' = row /\ clock' = clock
    BY <1>2 DEF EditField, Edit, Disturbed
  <2>2. \A t \in Sides : rec'[t].pos = rec[t].pos
    BY <1>1, <2>1 DEF Recs
  <2>3. AtRest
    BY <2>1 DEF Course, Stage
  <2>4. AtRest'
    BY <2>1, <2>2, <2>3 DEF AtRest, Owned, Real
  <2>5. Told' /\ SnapSound'
    BY <1>1, <2>1, <2>2, SameTold, SameSnap DEF Real
  <2> QED BY <2>1, <2>4, <2>5, IdleCourse
<1>3. CASE DeleteRecord(s)
  <2>1. /\ run.pc \in Resting /\ run' = Idle /\ rec' = [rec EXCEPT ![s] = Gone]
        /\ disk' = [disk EXCEPT ![s] = [p \in Paths |-> [disk[s][p] EXCEPT !.own = FALSE]]]
        /\ row' = row /\ clock' = clock
    BY <1>3 DEF DeleteRecord, Edit, Disturbed
  <2>2. /\ rec'[s] = Gone /\ \A t \in Sides : t # s => rec'[t] = rec[t] /\ disk'[t] = disk[t]
        /\ \A p \in Paths : disk'[s][p] = [disk[s][p] EXCEPT !.own = FALSE]
    BY <1>1, <2>1 DEF Stored
  <2>3. \A p \in Paths : /\ disk'[s][p].m = disk[s][p].m /\ disk'[s][p].c = disk[s][p].c
                         /\ disk'[s][p].own = FALSE
    <3>1. \A x \in Files : /\ [x EXCEPT !.own = FALSE].m = x.m /\ [x EXCEPT !.own = FALSE].c = x.c
                           /\ [x EXCEPT !.own = FALSE].own = FALSE
      BY DEF Files
    <3>2. \A p \in Paths : disk[s][p] \in Files
      BY <1>1, PlaceLemma
    <3> SUFFICES ASSUME NEW p \in Paths
                 PROVE  /\ disk'[s][p].m = disk[s][p].m /\ disk'[s][p].c = disk[s][p].c
                        /\ disk'[s][p].own = FALSE
      OBVIOUS
    <3>3. PICK x : x = disk[s][p]
      OBVIOUS
    <3>4. x \in Files /\ disk'[s][p] = [x EXCEPT !.own = FALSE]
      BY <2>2, <3>2, <3>3
    <3> QED BY <3>1, <3>3, <3>4
  <2>4. AtRest
    BY <2>1 DEF Course, Stage
  <2>5. Owned(s)' = {} /\ \A t \in Sides : t # s => Owned(t)' = Owned(t)
    BY <2>2, <2>3 DEF Owned
  <2>6. AtRest'
    <3> SUFFICES ASSUME NEW t \in Sides
                 PROVE  rec'[t].pos # "none" /\ (~Real(rec'[t]) => Owned(t)' = {})
      BY DEF AtRest
    <3>1. CASE t = s
      BY <2>2, <2>5, <3>1, RecordLemma
    <3>2. CASE t # s
      BY <2>2, <2>4, <2>5, <3>2 DEF AtRest
    <3> QED BY <3>1, <3>2
  <2>7. Told'
    <3>1. \A t \in Sides, p \in Paths : disk'[t][p].m = disk[t][p].m /\ disk'[t][p].c = disk[t][p].c
      BY <2>2, <2>3
    <3> QED BY <1>1, <2>1, <3>1, MovedTold
  <2>8. \A t \in Sides : Real(rec'[t]) => Real(rec[t])
    <3>1. ~Real(Gone)
      BY RecordLemma, SyncAssumption DEF Real
    <3> QED BY <2>2, <3>1
  <2>9. SnapSound'
    BY <1>1, <2>1, <2>8, SameSnap
  <2> QED BY <2>1, <2>6, <2>7, <2>9, IdleCourse
<1>4. ASSUME NEW now \in [Paths -> Files], NEW gone, EditFile(s, now, gone, {}),
             \A p \in Paths : now[p] = NoFile \/ \E q \in Paths : now[p] = disk[s][q]
      PROVE  Course'
  <2>1. row' = row /\ clock' = clock + Cardinality({}) /\ disk' = [disk EXCEPT ![s] = now]
    BY <1>4 DEF EditFile
  <2>2. clock' = clock
    BY <1>1, <2>1, FS_EmptySet
  <2>3. disk'[s] = now /\ \A t \in Sides : t # s => disk'[t] = disk[t]
    BY <1>1, <2>1 DEF Stored
  <2>4. NoFile.m = 0 /\ NoFile.own = FALSE
    BY DEF NoFile
  <2>5. ASSUME NEW t \in Sides, NEW p \in Paths, disk'[t][p].m > 0
        PROVE  \E u \in Sides, q \in Paths :
                 disk[u][q].m = disk'[t][p].m /\ disk[u][q].c = disk'[t][p].c
    <3>1. CASE t = s
      <4>1. now[p] # NoFile
        BY <2>3, <2>4, <2>5, <3>1
      <4>2. PICK q \in Paths : now[p] = disk[s][q]
        BY <1>4, <4>1
      <4> QED BY <2>3, <3>1, <4>2
    <3>2. CASE t # s
      BY <2>3, <3>2
    <3> QED BY <3>1, <3>2
  <2>6. Told'
    BY <1>1, <2>1, <2>2, <2>5, MovedTold
  <2>7. \A p \in Paths : now[p].own => Owned(s) # {}
    BY <1>4, <2>4 DEF Owned
  <2> QED BY <1>4, <2>6, <2>7, EditFileCourse
<1>5. ASSUME NEW p \in Paths, NEW c \in Contents \cup Nat, NEW own \in BOOLEAN, NEW gone,
             own => disk[s][p].own,
             EditFile(s, [disk[s] EXCEPT ![p] = File(clock + 1, c, own)], gone, {clock + 1})
      PROVE  Course'
  <2>1. PICK now, file : now = [disk[s] EXCEPT ![p] = file] /\ file = File(clock + 1, c, own)
    OBVIOUS
  <2>2. EditFile(s, now, gone, {clock + 1})
    BY <1>5, <2>1
  <2>3. row' = row /\ clock' = clock + Cardinality({clock + 1}) /\ disk' = [disk EXCEPT ![s] = now]
    BY <2>2 DEF EditFile
  <2>4. clock' = clock + 1
    BY <1>1, <2>3, FS_Singleton
  <2>5. /\ disk'[s] = now /\ now[p] = file /\ \A q \in Paths : q # p => now[q] = disk[s][q]
        /\ \A t \in Sides : t # s => disk'[t] = disk[t]
    BY <1>1, <2>1, <2>3 DEF Stored
  <2>6. file.m = clock + 1 /\ file.c = c /\ file.own = own
    BY <2>1 DEF File
  <2>7. ASSUME NEW t \in Sides, NEW q \in Paths, disk'[t][q].m > 0
        PROVE  \/ disk'[t][q].m = clock + 1 /\ disk'[t][q].c = c
               \/ \E u \in Sides, r \in Paths :
                    disk[u][r].m = disk'[t][q].m /\ disk[u][r].c = disk'[t][q].c
    <3>1. CASE t = s /\ q = p
      BY <2>5, <2>6, <3>1
    <3>2. CASE ~(t = s /\ q = p)
      <4>1. disk'[t][q] = disk[t][q]
        BY <2>5, <3>2
      <4> QED BY <4>1
    <3> QED BY <3>1, <3>2
  <2>8. Told'
    BY <1>1, <2>3, <2>4, <2>7, WrittenTold
  <2>9. \A q \in Paths : now[q].own => Owned(s) # {}
    <3> SUFFICES ASSUME NEW q \in Paths, now[q].own
                 PROVE  \E r \in Paths : disk[s][r].own
      BY DEF Owned
    <3>1. CASE q = p
      BY <1>5, <2>5, <2>6, <3>1
    <3>2. CASE q # p
      BY <2>5, <3>2
    <3> QED BY <3>1, <3>2
  <2> QED BY <2>2, <2>8, <2>9, EditFileCourse
<1>6. ASSUME NEW p \in Paths, RemoveFile(s, p)
      PROVE  Course'
  <2>1. PICK now : now = [disk[s] EXCEPT ![p] = NoFile]
    OBVIOUS
  <2>2. /\ now \in [Paths -> Files]
        /\ \A r \in Paths : now[r] = NoFile \/ \E q \in Paths : now[r] = disk[s][q]
    BY <1>1, <2>1, FilesLemma DEF Stored
  <2>3. EditFile(s, now, {disk[s][p].m}, {})
    BY <1>6, <2>1 DEF RemoveFile
  <2> QED BY <1>4, <2>2, <2>3
<1>7. ASSUME NEW p \in Paths, NEW q \in Paths, MoveFile(s, p, q)
      PROVE  Course'
  <2>1. PICK now : now = [disk[s] EXCEPT ![p] = NoFile, ![q] = disk[s][p]]
    OBVIOUS
  <2>2. /\ now \in [Paths -> Files]
        /\ \A r \in Paths : now[r] = NoFile \/ \E x \in Paths : now[r] = disk[s][x]
    BY <1>1, <2>1, FilesLemma DEF Stored
  <2>3. EditFile(s, now, {}, {})
    BY <1>7, <2>1 DEF MoveFile
  <2> QED BY <1>4, <2>2, <2>3
<1>8. ASSUME NEW p \in Paths, StrayFile(s, p)
      PROVE  Course'
  <2>1. clock + 1 \in Contents \cup Nat
    BY <1>1
  <2> QED BY <1>5, <1>8, <2>1 DEF StrayFile
<1>9. ASSUME NEW p \in Paths, NEW c \in Contents, WriteFile(s, p, c)
      PROVE  Course'
  BY <1>5, <1>9 DEF WriteFile, Own
<1> QED BY <1>2, <1>3, <1>6, <1>7, <1>8, <1>9 DEF UserStep

\* A step that moves no file and no record, and gives a record at most the file
\* that is where it says: all that holds of the command goes on to hold.
LEMMA UnmovedCourse ==
  ASSUME Inv, Course, rec' = rec, run' = run, row' = row, plan' = plan, clock' = clock,
         \A s \in Sides, p \in Paths : disk'[s][p].m = disk[s][p].m /\ disk'[s][p].c = disk[s][p].c,
         \A s \in Sides : \A p \in Owned(s)' : p \in Owned(s) \/ (p = rec[s].pos /\ disk[s][p].m > 0)
  PROVE  Course'
<1>1. \A s \in Sides : Owned(s)' \subseteq Owned(s) \cup {rec[s].pos}
  OBVIOUS
<1>2. \A s \in Sides : ~Real(rec[s]) => Owned(s)' \subseteq Owned(s)
  <2>1. \A s \in Sides : Owned(s)' \subseteq Paths
    BY DEF Owned
  <2> QED BY <1>1, <2>1 DEF Real
<1>3. \A s \in Sides : \A pos : FileAt(s, pos).c' = FileAt(s, pos).c
  BY DEF FileAt
<1>4. /\ Here' <=> Here
      /\ AllReal' <=> AllReal
      /\ Sited' <=> Sited
      /\ Working' <=> Working
  BY DEF Here, AllReal, Sited, Working
<1>5. SameOnDisk' <=> SameOnDisk
  BY DEF SameOnDisk, FileAt, Sides
<1>6. \A s \in Sides : Within(s) => Within(s)'
  BY <1>1 DEF Within
<1>7. \A s \in Sides : Level(s) => Level(s)'
  BY <1>6 DEF Level, Real
<1>8. Levels => Levels'
  BY <1>7 DEF Levels
<1>9. AtRest => AtRest'
  BY <1>2 DEF AtRest
<1>10. /\ FilesPlanned => FilesPlanned'
       /\ \A s \in Sides : \A gap : Lacking(s, gap) => Lacking(s, gap)'
       /\ Links => Links'
  BY <1>4, <1>5 DEF FilesPlanned, Lacking, CopiesFrom, Links
<1>11. \A gap : Linking(gap) => Linking(gap)'
  BY <1>8, <1>10 DEF Linking
<1>12. /\ Joining => Joining'
       /\ DropPlan => DropPlan'
       /\ DeletePlan => DeletePlan'
  BY <1>11 DEF Joining, DropPlan, DeletePlan
<1>13. Planned => Planned'
  BY <1>8, <1>12 DEF Planned
<1>14. /\ Winner("copy", "content")' = Winner("copy", "content")
       /\ Winner("move", "pos")' = Winner("move", "pos")
  BY SameWinner
<1>15. ToCopy => ToCopy'
  BY <1>4, <1>6 DEF ToCopy
<1>16. CopyStage => CopyStage'
  BY <1>7, <1>8, <1>15 DEF CopyStage, CopiesFrom
<1>17. PICK v, w : v = Winner("copy", "content") /\ w = Winner("move", "pos")
  OBVIOUS
<1>18. /\ run.pc \in {"transfer", "refresh_copy"} => v \in Sides
       /\ run.pc \in {"position", "orphan", "relocate", "refresh_move", "clear", "reread"} =>
            w \in Sides
  BY <1>17, InvFacts, StepsLemma DEF Flow
<1>19. v \in Sides /\ TransferStage => TransferStage'
  BY <1>7, <1>14, <1>15, <1>17 DEF TransferStage
<1>20. v \in Sides /\ CopiedStage => CopiedStage'
  <2>1. (\A s \in Sides : disk[s][rec[s].pos].m > 0) /\ AllReal
           => \A s \in Sides : disk'[s][rec'[s].pos].m > 0
    BY DEF AllReal, Real
  <2> QED BY <1>5, <1>19, <2>1 DEF CopiedStage, TransferStage, ToCopy
<1>21. MoveStage => MoveStage'
  BY <1>4, <1>5, <1>8 DEF MoveStage
<1>22. /\ PositionStage => PositionStage'
       /\ OrphanStage => OrphanStage'
  BY <1>14, <1>21 DEF PositionStage, OrphanStage
<1>23. ASSUME w \in Sides
       PROVE  /\ ToRelocate => ToRelocate'
              /\ Other(w) \in Sides
  BY <1>4, <1>7, <1>14, <1>17, <1>23, SidesLemma DEF ToRelocate
<1>24. ASSUME w \in Sides, RelocateStage
       PROVE  RelocateStage'
  <2>1. PICK s : s = Other(w)
    OBVIOUS
  <2>2. /\ ToRelocate /\ run.old # rec[s].pos /\ Owned(s) \subseteq {run.old, rec[s].pos}
        /\ run.old \in Paths =>
             disk[s][run.old].m > 0 /\ disk[s][run.old].c = disk[w][rec[w].pos].c
    BY <1>17, <1>24, <2>1 DEF RelocateStage
  <2>3. s \in Sides /\ rec[w].pos \in Paths
    BY <1>23, <1>24, <2>1, <2>2 DEF ToRelocate, AllReal, Real
  <2>4. Owned(s)' \subseteq {run.old, rec[s].pos}
    BY <1>1, <2>2, <2>3
  <2>5. run.old \in Paths =>
          disk'[s][run.old].m > 0 /\ disk'[s][run.old].c = disk'[w][rec[w].pos].c
    BY <1>24, <2>2, <2>3
  <2> QED BY <1>14, <1>17, <1>23, <1>24, <2>1, <2>2, <2>4, <2>5 DEF RelocateStage
<1>25. ASSUME w \in Sides, MovedStage
       PROVE  MovedStage'
  <2>1. PICK s : s = Other(w)
    OBVIOUS
  <2>2. ToRelocate /\ SameOnDisk /\ Within(s) /\ disk[s][rec[s].pos].m > 0
    BY <1>17, <1>25, <2>1 DEF MovedStage
  <2>3. s \in Sides /\ rec[s].pos \in Paths
    BY <1>23, <1>25, <2>1, <2>2 DEF ToRelocate, AllReal, Real
  <2>4. disk'[s][rec[s].pos].m > 0
    BY <2>2, <2>3
  <2> QED BY <1>5, <1>6, <1>14, <1>17, <1>23, <1>25, <2>1, <2>2, <2>3, <2>4 DEF MovedStage
<1>26. ASSUME w \in Sides, ClearStage
       PROVE  ClearStage'
  <2>1. PICK s : s = Other(w)
    OBVIOUS
  <2>2. /\ Working /\ Level(w) /\ rec[w].pos = "nothing"
        /\ Real(rec[s]) /\ Owned(s) = {} /\ disk[s][rec[s].pos].m = 0
    BY <1>17, <1>26, <2>1 DEF ClearStage
  <2>3. s \in Sides /\ rec[s].pos \in Paths
    BY <1>23, <1>26, <2>1, <2>2 DEF Real
  <2>4. Owned(s)' = {}
    BY <2>2, <2>3
  <2>5. disk'[s][rec[s].pos].m = 0
    BY <2>2, <2>3
  <2> QED BY <1>4, <1>7, <1>14, <1>17, <1>26, <2>1, <2>2, <2>4, <2>5 DEF ClearStage, Real
<1>37. ASSUME w \in Sides
       PROVE  RereadStage => RereadStage'
  BY <1>4, <1>8, <1>14, <1>17, <1>37 DEF RereadStage
<1>27. CommitStage => CommitStage'
  BY <1>4, <1>5, <1>8, <1>12 DEF CommitStage
<1>28. UnlinkStage => UnlinkStage'
  <2>1. ~Real(Gone)
    BY RecordLemma, SyncAssumption DEF Real
  <2>2. ASSUME NEW s \in Sides, plan.ops = {Op("delete", s)}, \A t \in Sides : rec[t] = Gone,
               Owned(s) \subseteq {run.old}, Owned(Other(s)) = {}
        PROVE  Owned(s)' \subseteq {run.old} /\ Owned(Other(s))' = {}
    <3>1. Other(s) \in Sides
      BY SidesLemma
    <3>2. \A t \in Sides : Owned(t)' \subseteq Owned(t)
      BY <1>2, <2>1, <2>2
    <3> QED BY <2>2, <3>1, <3>2
  <2> QED BY <2>2 DEF UnlinkStage
<1>29. EndsWell => EndsWell'
  BY <1>5 DEF EndsWell, Settled, InSync
<1>30. Fresh => Fresh'
  BY DEF Fresh, Expected
<1>31. Unlinked => Unlinked'
  BY DEF Unlinked
<1>32. run.pc \in {"transfer", "refresh_copy"} => (TransferStage => TransferStage') /\ (CopiedStage => CopiedStage')
  BY <1>18, <1>19, <1>20
<1>33. run.pc \in {"relocate", "refresh_move", "clear", "reread"} =>
         /\ RelocateStage => RelocateStage'
         /\ MovedStage => MovedStage'
         /\ ClearStage => ClearStage'
         /\ RereadStage => RereadStage'
  BY <1>18, <1>24, <1>25, <1>26, <1>37
<1>34. Stage'
  <2>1. \A pc : At(pc)' <=> At(pc)
    BY DEF At
  <2>2. Stage
    BY DEF Course
  <2>3. /\ run'.pc \in Resting => AtRest'
        /\ At("end")' => EndsWell'
        /\ At("planned")' => plan'.ops = {} \/ Planned'
        /\ At("plan_b")' => AtRest' /\ Levels' /\ run'.known["A"] = rec'["A"]
        /\ At("plan")' => AtRest' /\ Levels' /\ run'.known = rec'
    BY <1>8, <1>9, <1>13, <1>29, <2>1, <2>2 DEF Stage
  <2>4. /\ At("create")' => Joining' /\ Unlinked' /\ \A s \in Sides : run'.known[s] = Gone
        /\ At("post")' => Linking("none")' /\ Unlinked' /\ Fresh'
        /\ At("sync")' => Linking("none")' /\ row'.linked /\ Fresh'
        /\ run'.pc \in {"field", "place"} => Linking("none")' /\ row'.linked /\ run'.known = rec'
    BY <1>11, <1>12, <1>30, <1>31, <2>1, <2>2 DEF Stage
  <2>5. /\ At("copy")' => CopyStage'
        /\ At("transfer")' => TransferStage'
        /\ At("refresh_copy")' => CopiedStage'
        /\ At("move")' => MoveStage'
        /\ At("position")' => PositionStage'
        /\ At("orphan")' => OrphanStage'
        /\ At("relocate")' => RelocateStage'
        /\ At("refresh_move")' => MovedStage'
        /\ At("clear")' => ClearStage'
        /\ At("reread")' => RereadStage'
    BY <1>16, <1>21, <1>22, <1>32, <1>33, <2>2 DEF Stage, At
  <2>6. /\ At("commit")' => CommitStage'
        /\ At("delete")' => Levels' /\ DeletePlan'
        /\ At("drop")' => Levels' /\ DropPlan'
        /\ run'.pc \in {"unlink", "unfile"} => UnlinkStage'
        /\ At("unfile")' => ~row'.linked
    BY <1>8, <1>12, <1>27, <1>28, <2>1, <2>2 DEF Stage
  <2> QED BY <2>3, <2>4, <2>5, <2>6 DEF Stage, At
<1>35. Told'
  BY MovedTold DEF Course
<1>36. SnapSound'
  BY SameSnap DEF Course
<1> QED BY <1>34, <1>35, <1>36 DEF Course

\* Watch: a watcher that changes a record does so between two commands, and one
\* that changes none leaves the command what it has.
LEMMA WatchCourse ==
  ASSUME Inv, Course, NEW s \in Sides, Watch(s), clean'
  PROVE  Course'
<1>1. PICK r : r = Watched(s)
  OBVIOUS
<1>2. /\ rec' = [rec EXCEPT ![s] = r] /\ row' = row /\ clock' = clock /\ plan' = plan
      /\ disk' = [disk EXCEPT ![s] = [p \in Paths |->
                    [disk[s][p] EXCEPT !.own = Present(s, p) /\ p = r.pos]]]
      /\ IF r = rec[s] THEN run' = run ELSE run.pc \in Resting /\ run' = Idle
  BY <1>1 DEF Watch, Disturbed
<1>3. Stored /\ Told /\ SnapSound /\ rec \in [Sides -> Recs] /\ disk \in [Sides -> [Paths -> Files]]
  BY InvFacts DEF Course, Stored
<1>4. /\ rec'[s] = r /\ \A t \in Sides : t # s => rec'[t] = rec[t] /\ disk'[t] = disk[t]
      /\ \A p \in Paths : disk'[s][p] = [disk[s][p] EXCEPT !.own = Present(s, p) /\ p = r.pos]
  BY <1>2, <1>3
<1>5. ASSUME NEW p \in Paths
      PROVE  /\ disk'[s][p].m = disk[s][p].m /\ disk'[s][p].c = disk[s][p].c
             /\ disk'[s][p].own => disk[s][p].m > 0 /\ p = r.pos
  <2>1. PICK x, own : x = disk[s][p] /\ own = (Present(s, p) /\ p = r.pos)
    OBVIOUS
  <2>2. x \in [m : Nat, c : Contents \cup Nat, own : BOOLEAN]
    BY <1>3, <2>1 DEF Files
  <2>3. disk'[s][p] = [x EXCEPT !.own = own]
    BY <1>4, <2>1
  <2>4. disk'[s][p].m = x.m /\ disk'[s][p].c = x.c /\ disk'[s][p].own = own
    BY <2>2, <2>3
  <2>5. own => disk[s][p].m > 0 /\ p = r.pos
    BY <1>3, <2>1, PlaceLemma
  <2> QED BY <2>1, <2>4, <2>5
<1>6. \A t \in Sides, p \in Paths : disk'[t][p].m = disk[t][p].m /\ disk'[t][p].c = disk[t][p].c
  BY <1>4, <1>5
<1>7. /\ \A p \in Owned(s)' : disk[s][p].m > 0 /\ p = r.pos
      /\ \A t \in Sides : t # s => Owned(t)' = Owned(t)
  BY <1>4, <1>5 DEF Owned
<1>8. CASE r = rec[s]
  <2>1. rec' = rec /\ run' = run
    BY <1>2, <1>3, <1>8
  <2>2. \A t \in Sides : \A p \in Owned(t)' : p \in Owned(t) \/ (p = rec[t].pos /\ disk[t][p].m > 0)
    BY <1>7, <1>8
  <2> QED BY <1>2, <1>6, <2>1, <2>2, UnmovedCourse
<1>9. CASE r # rec[s]
  <2>1. run.pc \in Resting /\ run' = Idle
    BY <1>2, <1>9
  <2>2. AtRest
    BY <2>1 DEF Course, Stage
  <2> DEFINE away == {p \in Paths : disk[s][p].own /\ p # rec[s].pos}
  <2>3. PICK at : at = IF away # {} THEN CHOOSE p \in away : TRUE ELSE rec[s].pos
    OBVIOUS
  <2>4. /\ rec[s] # Gone /\ ~(away = {} /\ ~Real(rec[s]))
        /\ r = IF Present(s, at) THEN [rec[s] EXCEPT !.pos = at, !.stamp = FileAt(s, at).m]
               ELSE [rec[s] EXCEPT !.pos = "nothing"]
    BY <1>1, <1>9, <2>3 DEF Watched
  <2>5. at \in Paths
    BY <2>3, <2>4 DEF Real
  <2>6. away # {} => Owned(s) # {}
    BY DEF Owned
  <2> HIDE DEF away
  <2>7. Real(rec[s])
    BY <2>2, <2>4, <2>6 DEF AtRest
  <2>8. r.pos \in Paths \cup {"nothing"}
    <3>1. PICK m : m = FileAt(s, at).m
      OBVIOUS
    <3>2. r = [rec[s] EXCEPT !.pos = at, !.stamp = m] \/ r = [rec[s] EXCEPT !.pos = "nothing"]
      BY <2>4, <3>1
    <3>3. rec[s] \in [f : Vals \cup {0}, pos : Positions, stamp : Nat]
      BY <1>3 DEF Recs
    <3> QED BY <2>5, <3>2, <3>3
  <2>9. AtRest'
    <3> SUFFICES ASSUME NEW t \in Sides
                 PROVE  rec'[t].pos # "none" /\ (~Real(rec'[t]) => Owned(t)' = {})
      BY DEF AtRest
    <3>1. CASE t = s
      <4>1. r.pos # "none"
        BY <2>8, SyncAssumption
      <4>2. \A p \in Owned(s)' : p \in Paths
        BY DEF Owned
      <4> QED BY <1>4, <1>7, <3>1, <4>1, <4>2 DEF Real
    <3>2. CASE t # s
      BY <1>4, <1>7, <2>2, <3>2 DEF AtRest
    <3> QED BY <3>1, <3>2
  <2>10. Told'
    BY <1>2, <1>3, <1>6, MovedTold
  <2>11. SnapSound'
    <3>1. \A t \in Sides : Real(rec'[t]) => \E u \in Sides : Real(rec[u])
      BY <1>4, <2>7
    <3> QED BY <1>2, <1>3, <3>1, SameSnap
  <2> QED BY <2>1, <2>9, <2>10, <2>11, IdleCourse
<1> QED BY <1>8, <1>9

-----------------------------------------------------------------------------
(* The histories that nothing disturbs *)

\* What was disturbed, or planned to move although edited, stays so.
LEMMA QuietBefore ==
  ASSUME Next, Quiet'
  PROVE  Quiet
<1>1. (clean' => clean) /\ (moved => moved')
  <2>1. CASE PlanStep \/ Crash
    <3>1. CASE PlanReadA
      BY <3>1, Zenon DEF PlanReadA
    <3>2. CASE PlanReadB \/ Crash
      BY <3>2 DEF PlanReadB, Crash, Fault, ghosts
    <3>3. ASSUME NEW res, NEW leave, PlanWrite(res, leave)
          PROVE  (clean' => clean) /\ (moved => moved')
      <4>1. clean' => clean
        BY <3>3 DEF PlanWrite, Fault, NoFault
      <4>2. moved' = (moved \/ MovedAndEdited(Baseline))
        BY <3>3 DEF PlanWrite
      <4> QED BY <4>1, <4>2, Zenon
    <3> QED BY <2>1, <3>1, <3>2, <3>3 DEF PlanStep
  <2>2. CASE RunStep
    <3>0. CASE RunStart
      BY <3>0, Zenon DEF RunStart
    <3>1. CASE RunCreate \/ RunPost \/ RunSync \/ RunCopy
      BY <3>1 DEF RunCreate, RunPost, RunSync, RunCopy, ghosts, Settle, Fault, NoFault
    <3>4. CASE RunField
      <4>1. moved' = moved
        BY <3>4 DEF RunField
      <4>2. NoFault \/ Fault
        <5>1. \E s, r, new : NoFault \/ Put(s, r, new) \/ Refused(s, run, "sync")
          BY <3>4, Zenon DEF RunField
        <5> QED BY <5>1 DEF Put, Refused
      <4> QED BY <4>1, <4>2 DEF Fault, NoFault
    <3>5. CASE RunPlace
      BY <3>5 DEF RunPlace, Settle, Refused, Fault, NoFault
    <3>2. CASE \/ RunTransfer \/ RunMove \/ RunPosition \/ RunRelocate \/ RunOrphan \/ RunClear
               \/ RunReread
      BY <3>2 DEF RunTransfer, RunMove, RunPosition, RunRelocate, RunOrphan, RunClear, RunReread,
         world, TransferFails, Settle, Refused, Put, Fault, NoFault
    <3>3. CASE \/ RunCommit \/ RunDelete \/ RunUnlink \/ RunUnfile \/ RunDrop
               \/ \E kind, s : RunRefresh(kind, s)
      BY <3>3 DEF RunCommit, RunDelete, RunUnlink, RunUnfile, RunDrop, RunRefresh, ghosts,
         Settle, Fault, NoFault
    <3> QED BY <2>2, <3>0, <3>1, <3>2, <3>3, <3>4, <3>5 DEF RunStep
  <2>3. ASSUME NEW s \in Sides, UserStep(s) \/ Watch(s)
        PROVE  (clean' => clean) /\ (moved => moved')
    <3>1. moved' = moved
      BY <2>3 DEF UserStep, EditField, DeleteRecord, RemoveFile, StrayFile, MoveFile, WriteFile,
         EditFile, Watch
    <3>2. clean' = clean \/ Disturbed
      BY <2>3 DEF UserStep, EditField, DeleteRecord, RemoveFile, StrayFile, MoveFile, WriteFile,
         EditFile, Edit, Watch
    <3>3. clean' => clean
      BY <3>2, Zenon DEF Disturbed
    <3> QED BY <3>1, <3>3
  <2> QED BY <2>1, <2>2, <2>3 DEF Next
<1> QED BY <1>1 DEF Quiet

\* Every history starts with two repositories at rest.
LEMMA InitCourse ==
  ASSUME Init
  PROVE  Course
<1> DEFINE home == CHOOSE p \in Paths : TRUE
           one == CHOOSE c \in Contents : TRUE
           at(f) == [p \in Paths |-> IF p = home THEN f ELSE NoFile]
<1>1. home \in Paths /\ one \in Contents
  BY SyncAssumption
<1>2. PICK start \in {"linked", "both"} \cup Sides, c \in Contents :
        LET has(s) == start \in {"linked", "both", s}
            mtime(s) == IF start = "both" /\ s = "B" THEN 2 ELSE 1
            content(s) == IF start = "both" /\ s = "B" THEN c ELSE one
        IN /\ rec = [s \in Sides |-> IF has(s) THEN Record(0, home, mtime(s)) ELSE Gone]
           /\ disk = [s \in Sides |-> IF has(s) THEN at(File(mtime(s), content(s), TRUE))
                                                ELSE at(NoFile)]
           /\ row = IF start = "linked"
                    THEN [linked |-> TRUE, v |-> rec, snap |-> NextSnapshot(rec["A"], rec["B"], NoSnap)]
                    ELSE NoLink
  BY Zenon DEF Init
<1>3. run = Idle /\ clock = 2 /\ run.pc = "idle" /\ ~run.unsettled
  BY DEF Init, Idle
<1> HIDE DEF home, one
<1> DEFINE has(s) == start \in {"linked", "both", s}
           mtime(s) == IF start = "both" /\ s = "B" THEN 2 ELSE 1
           content(s) == IF start = "both" /\ s = "B" THEN c ELSE one
           file(s) == File(mtime(s), content(s), TRUE)
<1>4. ASSUME NEW s \in Sides
      PROVE  /\ has(s) => rec[s] = Record(0, home, mtime(s)) /\ disk[s] = at(file(s))
             /\ ~has(s) => rec[s] = Gone /\ disk[s] = at(NoFile)
  BY <1>2
<1>5. \A s \in Sides : file(s).m = mtime(s) /\ file(s).c = content(s)
  BY DEF File
<1>6. NoFile.m = 0 /\ NoFile.own = FALSE
  BY DEF NoFile
<1>7. \A s \in Sides : mtime(s) \in {1, 2} /\ (mtime(s) = 1 => content(s) = one)
                       /\ (mtime(s) = 2 => content(s) = c)
  OBVIOUS
<1>8. row.linked => /\ start = "linked"
                    /\ row.snap = NextSnapshot(rec["A"], rec["B"], NoSnap)
  <2>1. NoLink.linked = FALSE
    BY DEF NoLink
  <2>2. PICK x : x = NextSnapshot(rec["A"], rec["B"], NoSnap)
    OBVIOUS
  <2>3. row = IF start = "linked" THEN [linked |-> TRUE, v |-> rec, snap |-> x] ELSE NoLink
    BY <1>2, <2>2
  <2> QED BY <2>1, <2>2, <2>3
<1>9. start = "linked" => \A s \in Sides : has(s) /\ mtime(s) = 1
  OBVIOUS
<1> HIDE DEF has, mtime, content, file
<1>10. ASSUME NEW s \in Sides, NEW p \in Paths
       PROVE  /\ p = home /\ has(s) => disk[s][p] = file(s)
              /\ ~(p = home /\ has(s)) => disk[s][p] = NoFile
  BY <1>4
<1>11. \A m : /\ Record(0, home, m).pos = home /\ Record(0, home, m).stamp = m
  BY DEF Record
<1>12. AtRest
  <2> SUFFICES ASSUME NEW s \in Sides
               PROVE  rec[s].pos # "none" /\ (~Real(rec[s]) => Owned(s) = {})
    BY DEF AtRest
  <2>1. CASE has(s)
    BY <1>1, <1>4, <1>11, <2>1, SyncAssumption DEF Real
  <2>2. CASE ~has(s)
    BY <1>4, <1>6, <1>10, <2>2, RecordLemma DEF Owned
  <2> QED BY <2>1, <2>2
<1>13. row.linked => \A s \in Sides : row.snap.stamp[s] = 1
  <2>1. ASSUME row.linked
        PROVE  rec["A"].stamp = 1 /\ rec["B"].stamp = 1
    BY <1>4, <1>8, <1>9, <1>11, <2>1 DEF Sides
  <2>2. row.linked => row.snap.stamp = [s \in Sides |-> IF s = "A" THEN rec["A"].stamp ELSE rec["B"].stamp]
    BY <1>8 DEF NextSnapshot
  <2> QED BY <2>1, <2>2 DEF Sides
<1>14. row.linked => row.snap.pos = home
  <2>1. ASSUME row.linked
        PROVE  rec["A"].pos = home /\ rec["B"].pos = home
    BY <1>4, <1>8, <1>9, <1>11, <2>1 DEF Sides
  <2> QED BY <1>8, <2>1 DEF NextSnapshot
<1>15. SnapSound
  BY <1>1, <1>14, SyncAssumption DEF SnapSound
<1>16. Told
  <2>1. PICK K : K = [n \in Nat |-> IF n = 2 THEN c ELSE one]
    OBVIOUS
  <2>2. K \in [Nat -> Contents \cup Nat] /\ K[1] = one /\ K[2] = c
    BY <1>1, <2>1
  <2>3. ASSUME NEW s \in Sides, NEW p \in Paths, disk[s][p].m > 0
        PROVE  disk[s][p].m <= clock /\ disk[s][p].c = K[disk[s][p].m]
    <3>1. disk[s][p] = file(s)
      BY <1>6, <1>10, <2>3
    <3> QED BY <1>3, <1>5, <1>7, <2>2, <3>1
  <2>4. row.linked => /\ \A s \in Sides : row.snap.stamp[s] <= clock
                      /\ K[row.snap.stamp["A"]] = K[row.snap.stamp["B"]]
    BY <1>3, <1>13 DEF Sides
  <2> QED BY <2>2, <2>3, <2>4 DEF Told, ToldBy
<1> QED BY <1>3, <1>12, <1>15, <1>16 DEF Course, Stage, At, Resting

\* Every step of a history nothing disturbs keeps to the course.
LEMMA StepCourse ==
  ASSUME Inv, SettleInv, Next
  PROVE  SettleInv'
<1> SUFFICES ASSUME Quiet'
             PROVE  Course'
  BY DEF SettleInv
<1>1. Course /\ clean' /\ ~moved'
  BY QuietBefore DEF SettleInv, Quiet
<1>2. CASE PlanStep
  <2>1. CASE PlanReadA
    BY <1>1, <2>1, ReadACourse
  <2>2. CASE PlanReadB
    BY <1>1, <2>2, ReadBCourse
  <2>3. ASSUME NEW res \in [Conflicts(Baseline, row.snap) -> Sides \cup {"skip"}],
               NEW leave \in BOOLEAN, PlanWrite(res, leave)
        PROVE  Course'
    BY <1>1, <2>3, WriteCourse
  <2> QED BY <1>2, <2>1, <2>2, <2>3 DEF PlanStep
<1>3. CASE RunStep
  BY <1>1, <1>3, StartCourse, CreateCourse, PostCourse, SyncCourse, FieldCourse, PlaceCourse,
     CopyCourse, TransferCourse, CopiedCourse, MoveCourse, PositionCourse, RelocateCourse,
     OrphanCourse, ClearCourse, RereadCourse, MovedCourse, CommitCourse, DeleteCourse, UnlinkCourse,
     UnfileCourse, DropCourse DEF RunStep
<1>4. CASE Crash
  BY <1>1, <1>4 DEF Crash, Fault
<1>5. ASSUME NEW s \in Sides, UserStep(s) \/ Watch(s)
      PROVE  Course'
  BY <1>1, <1>5, UserCourse, WatchCourse
<1> QED BY <1>2, <1>3, <1>4, <1>5 DEF Next

\* So does one that changes nothing.
LEMMA StutterCourse ==
  ASSUME Inv, SettleInv, UNCHANGED vars
  PROVE  SettleInv'
<1>1. /\ rec' = rec /\ disk' = disk /\ row' = row /\ plan' = plan /\ run' = run /\ clock' = clock
      /\ clean' = clean /\ moved' = moved
  BY DEF vars, data, world, ghosts
<1>2. \A s \in Sides : Owned(s)' = Owned(s)
  BY <1>1 DEF Owned
<1>3. Course => Course'
  BY <1>1, <1>2, UnmovedCourse
<1> QED BY <1>1, <1>3 DEF SettleInv, Quiet

\* A sync that nothing disturbs, nor the plan before it, settles the link: at its
\* end the records are what the row says and the files are alike, or both records
\* and the link are gone.  What plan_link foresees is all the run needs, and what
\* run.rs commits is what the run left.
THEOREM UndisturbedSettles == Spec => []SyncSettles
<1>1. Init => Inv /\ SettleInv
  BY InitInv, InitCourse DEF SettleInv
<1>2. Inv /\ SettleInv /\ [Next]_vars => SettleInv'
  BY StepCourse, StutterCourse
<1>3. SettleInv => SyncSettles
  BY DEF SettleInv, Quiet, Course, Stage, EndsWell, SyncSettles, UndisturbedEnd
<1>4. Spec => []SettleInv
  BY <1>1, <1>2, SyncInvariant, PTL DEF Spec
<1> QED BY <1>3, <1>4, PTL
=============================================================================
