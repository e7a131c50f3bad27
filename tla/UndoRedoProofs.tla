--------------------------- MODULE UndoRedoProofs ---------------------------
(***************************************************************************)
(* Proofs about undo and redo: what a client and the daemon do to the      *)
(* store is what OpLog lets writers do, the client and the daemon agree on *)
(* what an undo may take back however little of the log the client read,   *)
(* and a redo takes back undos only, for any windows, limits and bounds.   *)
(***************************************************************************)
EXTENDS UndoRedo, OpLogHistoryProofs

-----------------------------------------------------------------------------
(* What stands *)

\* What Standing says of operation i among S, given what g says of the newer ones.
Stays(d, S, g, i) == \A j \in S : j > i /\ d.ops[j].reverts = i => ~g[j]

\* A function that says so of the operations newer than n.
StaysFrom(d, S, g, n) == g = [i \in OpIds |-> IF i > n THEN Stays(d, S, g, i) ELSE FALSE]

StaysAll(d, S, g) == g = [i \in OpIds |-> Stays(d, S, g, i)]

\* The recursive definition, as a choice.
LEMMA StandingIs ==
    ASSUME NEW d, NEW S
    PROVE  Standing(d, S) = CHOOSE g : StaysAll(d, S, g)
BY DEF Standing, StaysAll, Stays

\* A revert is newer than what it reverts, so there is such a function: what is
\* said of an operation takes what is said of the newer ones.
LEMMA StandingExists ==
    ASSUME NEW d, NEW S \in SUBSET OpIds
    PROVE  \E g : StaysAll(d, S, g)
<1>0. MaxOps \in Nat
  BY OpsAssumption
<1> DEFINE T == {k \in 0..MaxOps : ~\E g : StaysFrom(d, S, g, MaxOps - k)}
<1>1. CASE T = {}
  <2>1. MaxOps \in 0..MaxOps /\ MaxOps - MaxOps = 0
    BY <1>0
  <2>2. PICK g : StaysFrom(d, S, g, 0)
    BY <1>1, <2>1
  <2>3. \A i \in OpIds : i > 0
    BY <1>0 DEF OpIds
  <2>4. g = [i \in OpIds |-> IF i > 0 THEN Stays(d, S, g, i) ELSE FALSE]
    BY <2>2 DEF StaysFrom
  <2>5. g = [i \in OpIds |-> Stays(d, S, g, i)]
    BY <2>3, <2>4
  <2> QED  BY <2>5 DEF StaysAll
<1>2. CASE T # {}
  <2>1. PICK m \in T : \A k \in T : m <= k
    <3>1. T \in SUBSET Nat
      BY <1>0
    <3> HIDE DEF T
    <3> QED  BY <1>2, <3>1, LeastNatural
  <2>2. m \in 0..MaxOps /\ m \in Nat /\ ~\E g : StaysFrom(d, S, g, MaxOps - m)
    BY <1>0, <2>1
  <2>3. m # 0
    <3> DEFINE g == [i \in OpIds |-> FALSE]
    <3>1. \A i \in OpIds : ~(i > MaxOps - 0)
      BY <1>0 DEF OpIds
    <3>2. g = [i \in OpIds |-> IF i > MaxOps - 0 THEN Stays(d, S, g, i) ELSE FALSE]
      <4> HIDE DEF Stays
      <4> QED  BY <3>1
    <3> QED  BY <2>2, <3>2 DEF StaysFrom
  <2>4. m - 1 \in 0..MaxOps /\ m - 1 \notin T
    BY <1>0, <2>1, <2>2, <2>3
  <2>5. PICK g : StaysFrom(d, S, g, MaxOps - (m - 1))
    BY <2>4
  <2> HIDE DEF T
  <2> DEFINE n == MaxOps - m
             h == [i \in OpIds |-> IF i = n + 1 THEN Stays(d, S, g, i) ELSE g[i]]
  <2>6. n \in Nat /\ MaxOps - (m - 1) = n + 1
    BY <1>0, <2>2
  <2>7. \A i \in OpIds : g[i] = IF i > n + 1 THEN Stays(d, S, g, i) ELSE FALSE
    <3> HIDE DEF n
    <3> QED  BY <2>5, <2>6 DEF StaysFrom
  <2> HIDE DEF n
  <2>8. ASSUME NEW i \in OpIds PROVE h[i] = IF i > n THEN Stays(d, S, h, i) ELSE FALSE
    <3>1. i \in Nat /\ \A j \in S : j \in OpIds /\ j \in Nat
      BY <1>0 DEF OpIds
    <3>2. CASE i > n
      <4>1. \A j \in S : j > i => h[j] = g[j]
        BY <2>6, <3>1, <3>2
      <4>2. Stays(d, S, h, i) = Stays(d, S, g, i)
        <5> HIDE DEF h
        <5> QED  BY <4>1 DEF Stays
      <4>3. h[i] = Stays(d, S, g, i)
        <5>1. CASE i = n + 1
          BY <5>1
        <5>2. CASE i # n + 1
          <6>1. i > n + 1 /\ h[i] = g[i]
            BY <2>6, <3>1, <3>2, <5>2
          <6> HIDE DEF h, Stays
          <6> QED  BY <2>7, <6>1
        <5> QED  BY <5>1, <5>2
      <4> QED  BY <3>2, <4>2, <4>3
    <3>3. CASE ~(i > n)
      <4>1. h[i] = g[i] /\ ~(i > n + 1)
        BY <2>6, <3>1, <3>3
      <4> QED  BY <2>7, <3>3, <4>1
    <3> QED  BY <3>2, <3>3
  <2>9. h = [i \in OpIds |-> h[i]]
    OBVIOUS
  <2> HIDE DEF h
  <2>10. StaysFrom(d, S, h, n)
    BY <2>8, <2>9 DEF StaysFrom
  <2> QED  BY <2>2, <2>10 DEF n
<1> QED  BY <1>1, <1>2

\* What it says of an operation.
LEMMA StandingAt ==
    ASSUME NEW d, NEW S \in SUBSET OpIds, NEW i \in OpIds
    PROVE  Standing(d, S)[i] = Stays(d, S, Standing(d, S), i)
<1> DEFINE st == Standing(d, S)
<1>1. StaysAll(d, S, st)
  <2>1. \E g : StaysAll(d, S, g)
    BY StandingExists
  <2>2. st = CHOOSE g : StaysAll(d, S, g)
    BY StandingIs
  <2> HIDE DEF st
  <2> QED  BY <2>1, <2>2
<1> HIDE DEF st
<1>2. st[i] = Stays(d, S, st, i)
  BY <1>1 DEF StaysAll
<1> QED  BY <1>2 DEF st

\* Whoever reads the end of a log tells what stands there as one who read it all:
\* what reverts an operation is newer.
LEMMA WindowStands ==
    ASSUME NEW d, NEW R \in SUBSET OpIds, NEW S \in SUBSET R,
           \A i \in S, j \in R : j > i => j \in S,
           NEW i \in S
    PROVE  Standing(d, S)[i] = Standing(d, R)[i]
<1> DEFINE g == Standing(d, S)
           h == Standing(d, R)
           T == {MaxOps - k : k \in {j \in S : g[j] # h[j]}}
<1>0. MaxOps \in Nat /\ \A j \in S : j \in Nat /\ j <= MaxOps /\ j \in OpIds
  BY OpsAssumption DEF OpIds
<1>1. \A j \in S : g[j] = Stays(d, S, g, j) /\ h[j] = Stays(d, R, h, j)
  <2> TAKE j \in S
  <2>1. S \in SUBSET OpIds /\ j \in OpIds
    BY <1>0
  <2> QED  BY <2>1, StandingAt
<1> HIDE DEF g, h
<1>2. SUFFICES ASSUME T # {} PROVE FALSE
  BY DEF g, h
<1>3. PICK m \in T : \A k \in T : m <= k
  <2>1. T \in SUBSET Nat
    BY <1>0
  <2> HIDE DEF T
  <2> QED  BY <1>2, <2>1, LeastNatural
<1>4. PICK n \in S : m = MaxOps - n /\ g[n] # h[n]
  BY <1>3
<1>5. \A j \in S : j > n => g[j] = h[j]
  <2> SUFFICES ASSUME NEW j \in S, j > n, g[j] # h[j] PROVE FALSE
    OBVIOUS
  <2>1. MaxOps - j \in T
    OBVIOUS
  <2>2. m <= MaxOps - j
    BY <1>3, <2>1
  <2> QED  BY <1>0, <1>4, <2>2
<1> HIDE DEF T
<1>6. Stays(d, S, g, n) = Stays(d, R, h, n)
  BY <1>5 DEF Stays
<1> QED  BY <1>1, <1>4, <1>6

\* The newest n operations are the end of the log.
LEMMA NewestEnd ==
    ASSUME NEW d, IsStore(d), NEW n \in Nat
    PROVE  /\ DOMAIN d.ops \in SUBSET OpIds
           /\ Newest(d, n) \in SUBSET DOMAIN d.ops
           /\ \A i \in Newest(d, n), j \in DOMAIN d.ops : j > i => j \in Newest(d, n)
<1>1. DOMAIN d.ops \subseteq OpIds /\ MaxOps \in Nat
  BY OpsAssumption DEF IsStore, OpIds
<1>2. IsFiniteSet(DOMAIN d.ops)
  <2>1. IsFiniteSet(OpIds)
    BY <1>1, FS_Interval DEF OpIds
  <2> QED  BY <1>1, <2>1, FS_Subset
<1> DEFINE Later(i) == {k \in DOMAIN d.ops : k > i}
<1>3. ASSUME NEW i \in Newest(d, n), NEW j \in DOMAIN d.ops, j > i
      PROVE  j \in Newest(d, n)
  <2>1. i \in DOMAIN d.ops /\ Cardinality(Later(i)) < n
    BY DEF Newest
  <2>2. i \in Nat /\ \A k \in DOMAIN d.ops : k \in Nat
    BY <1>1, <2>1 DEF OpIds
  <2>3. Later(j) \subseteq Later(i) /\ IsFiniteSet(Later(i))
    BY <1>2, <1>3, <2>2, FS_Subset
  <2>4. Cardinality(Later(j)) <= Cardinality(Later(i))
        /\ Cardinality(Later(j)) \in Nat /\ Cardinality(Later(i)) \in Nat
    <3> HIDE DEF Later
    <3> QED  BY <2>3, FS_Subset, FS_CardinalityType
  <2>5. Cardinality(Later(j)) < n
    <3> HIDE DEF Later
    <3> QED  BY <2>1, <2>4
  <2> QED  BY <2>5 DEF Newest
<1> QED  BY <1>1, <1>3 DEF Newest

\* What a client picks is what the daemon takes.
LEMMA PickTaken ==
    ASSUME NEW d, IsStore(d), NEW n \in Nat
    PROVE  UndoPick(d, n) \subseteq Narrow(d, DOMAIN d.ops, "undo")
<1> SUFFICES ASSUME NEW i \in UndoPick(d, n)
             PROVE  i \in Narrow(d, DOMAIN d.ops, "undo")
  OBVIOUS
<1>1. /\ i \in Newest(d, n) /\ ~d.ops[i].watcher /\ d.ops[i].reverts = 0
      /\ Standing(d, Newest(d, n))[i]
  BY DEF UndoPick, Latest, IsDaemons
<1>2. i \in DOMAIN d.ops
  BY <1>1, NewestEnd
<1>3. Standing(d, DOMAIN d.ops)[i]
  BY <1>1, NewestEnd, WindowStands
<1> QED  BY <1>1, <1>2, <1>3 DEF Narrow

-----------------------------------------------------------------------------
(* Roles *)

\* A revert is newer than what it reverts; what reverts nothing is a change,
\* and what reverts a change an undo.
Roles(d) ==
    \A i \in DOMAIN d.ops :
        LET r == d.ops[i].reverts
        IN  /\ r < i
            /\ r = 0 => d.past[i].role = "change"
            /\ r # 0 /\ r \in DOMAIN d.ops /\ d.ops[r].reverts = 0
                  => d.past[i].role = "undo"

\* In both stores; and what a revert takes back is older than what it writes.
RoleInv == Inductive /\ Roles(db) /\ Roles(view) /\ db.nextOp <= view.nextOp

\* Labels do not matter.
LEMMA RolesStory ==
    ASSUME NEW d, Roles(d), NEW n, SameStory(d, n)
    PROVE  Roles(n) /\ n.nextOp = d.nextOp
BY DEF Roles, SameStory

\* Operations deleted take nothing from the others.
LEMMA RolesCut ==
    ASSUME NEW d, Roles(d), NEW n, NEW K \in SUBSET DOMAIN d.ops,
           n.ops = [i \in K |-> d.ops[i]], n.past = [i \in K |-> d.past[i]]
    PROVE  Roles(n)
BY DEF Roles

\* One more has the role its target's gives it.
LEMMA RolesGrow ==
    ASSUME NEW d, IsStore(d), Roles(d), NEW w, NEW c, NEW r \in Nat, r < d.nextOp
    PROVE  /\ Roles(Logged(d, w, c, r))
           /\ Logged(d, w, c, r).nextOp = d.nextOp + 1
<1> DEFINE n == Logged(d, w, c, r)
<1>1. /\ DOMAIN n.ops = DOMAIN d.ops \cup {d.nextOp} /\ n.nextOp = d.nextOp + 1
      /\ n.ops[d.nextOp].reverts = r /\ n.past[d.nextOp].role = Role(d, r)
      /\ \A i \in DOMAIN d.ops : i # d.nextOp => n.ops[i] = d.ops[i] /\ n.past[i] = d.past[i]
  BY DEF Logged, IsStore
<1>2. /\ d.nextOp \in Nat /\ d.nextOp \notin DOMAIN d.ops
      /\ \A i \in DOMAIN d.ops : i \in Nat /\ i < d.nextOp /\ d.ops[i].reverts \in Nat
  BY DEF IsStore, Op
<1> HIDE DEF n
<1>3. ASSUME NEW i \in DOMAIN d.ops
      PROVE  /\ n.ops[i].reverts < i
             /\ n.ops[i].reverts = 0 => n.past[i].role = "change"
             /\ n.ops[i].reverts # 0 /\ n.ops[i].reverts \in DOMAIN n.ops
                  /\ n.ops[n.ops[i].reverts].reverts = 0 => n.past[i].role = "undo"
  <2>1. n.ops[i] = d.ops[i] /\ n.past[i] = d.past[i] /\ d.ops[i].reverts < i /\ i < d.nextOp
    BY <1>1, <1>2 DEF Roles
  <2>2. d.ops[i].reverts # d.nextOp
    BY <1>2, <2>1
  <2> QED  BY <1>1, <1>2, <2>1, <2>2 DEF Roles
<1>4. /\ r = 0 => n.past[d.nextOp].role = "change"
      /\ r # 0 /\ r \in DOMAIN n.ops /\ n.ops[r].reverts = 0 => n.past[d.nextOp].role = "undo"
  <2>1. r # d.nextOp
    BY <1>2
  <2>2. r # 0 /\ r \in DOMAIN d.ops /\ d.ops[r].reverts = 0 => d.past[r].role = "change"
    BY DEF Roles
  <2> QED  BY <1>1, <2>1, <2>2 DEF Role
<1>5. Roles(n)
  BY <1>1, <1>2, <1>3, <1>4 DEF Roles
<1> QED  BY <1>1, <1>5 DEF n

\* A repository just created.
LEMMA InitRoles == Init => RoleInv
<1> SUFFICES ASSUME Init PROVE RoleInv
  OBVIOUS
<1>1. Inductive
  BY InitInductive
<1>2. Roles(Created) /\ Created.nextOp <= Created.nextOp
  BY DEF Roles, Created
<1> QED  BY <1>1, <1>2 DEF Init, RoleInv

\* Every step keeps the roles.
LEMMA NextRoles == RoleInv /\ [Next]_vars => RoleInv'
<1> SUFFICES ASSUME RoleInv, [Next]_vars PROVE RoleInv'
  OBVIOUS
<1>0. /\ Inductive /\ Inductive' /\ Roles(db) /\ Roles(view) /\ db.nextOp <= view.nextOp
      /\ IsStore(db) /\ IsStore(view) /\ db.nextOp \in Nat /\ view.nextOp \in Nat
      /\ view.nextOp # 0
  BY NextInductive DEF RoleInv, Inductive, Sound, IsStore
<1>1. ASSUME NEW c, NEW r \in Nat, r < view.nextOp, Apply(c, r), UNCHANGED db
      PROVE  RoleInv'
  <2>1. Roles(view') /\ view'.nextOp = view.nextOp + 1
    BY <1>0, <1>1, RolesGrow DEF Apply
  <2> QED  BY <1>0, <1>1, <2>1 DEF RoleInv
<1>2. CASE Edit
  <2>1. CASE \E c : Write(c)
    BY <1>0, <1>1, <2>1 DEF Write
  <2>2. ASSUME NEW e \in Records, NEW old \in Row, NEW new \in Row, ReplaceField(e, old, new)
        PROVE  RoleInv'
    <3> DEFINE x == Change("delete_field", e, old[1], {old}, {})
               y == Change("append", e, new[1], {}, {new})
               d == Logged(view, writer, x, 0)
    <3>1. view' = Logged(d, writer, y, 0) /\ db' = db /\ view.nextOp < MaxOps
      BY <2>2 DEF ReplaceField
    <3>2. Roles(d) /\ d.nextOp = view.nextOp + 1
      BY <1>0, RolesGrow
    <3>3. IsStore(d)
      <4>1. Fits(view, x)
        BY <2>2 DEF ReplaceField, Fits, Change, OpTypes, Uuids, RowsOf, Row
      <4>2. /\ Sound(view) /\ writer \in Writers /\ WriterSound
            /\ view.nextOp <= MaxOps /\ 0 \in 0..MaxOps
        BY <1>0, <2>2, OpsAssumption DEF ReplaceField, Inductive, Closed
      <4>3. writer.label \in DOMAIN view.labels
            /\ (writer.watcher <=> view.watcherLabel \in view.labels[writer.label])
        BY <4>2 DEF WriterSound
      <4>4. Sound(d)
        BY <4>1, <4>2, <4>3, OpAdded
      <4> QED  BY <4>4 DEF Sound
    <3> HIDE DEF d
    <3>4. Roles(view') /\ view'.nextOp = d.nextOp + 1
      BY <1>0, <3>1, <3>2, <3>3, RolesGrow
    <3> QED  BY <1>0, <3>1, <3>2, <3>4 DEF RoleInv
  <2> QED
    BY <1>2, <2>1, <2>2
       DEF Edit, CreateRecord, SetRecord, DeleteRecord, ClearField, SetField, AppendField,
           DeleteFieldRows
<1>3. ASSUME NEW i \in OpIds, RevertNewest(i) PROVE RoleInv'
  <2>1. i \in DOMAIN db.ops
    BY <1>0, <1>3 DEF RevertNewest, Inductive, WriterSound, Closed
  <2>2. i \in Nat /\ i < view.nextOp
    BY <1>0, <2>1 DEF IsStore
  <2>3. UNCHANGED db /\ (UNCHANGED view \/ \E c : Apply(c, i))
    BY <1>3 DEF RevertNewest
  <2>4. CASE UNCHANGED <<db, view>>
    BY <1>0, <2>4 DEF RoleInv
  <2> QED  BY <1>1, <2>2, <2>3, <2>4
<1>4. CASE Begin
  <2>1. ASSUME NEW d, NEW l, NEW o, NEW w, BeginIn(d, l, o, w), SameStory(db, d)
        PROVE  RoleInv'
    <3>1. view' = d /\ db' = db
      BY <2>1 DEF BeginIn
    <3>2. Roles(d) /\ d.nextOp = db.nextOp
      BY <1>0, <2>1, RolesStory
    <3> QED  BY <1>0, <3>1, <3>2 DEF RoleInv
  <2>2. CASE BeginNew
    BY <1>0, <2>1, <2>2, LabelStory DEF BeginNew
  <2>3. ASSUME NEW l \in Labels, BeginInLabel(l) PROVE RoleInv'
    BY <1>0, <2>1, <2>3 DEF BeginInLabel, SameStory
  <2>4. ASSUME NEW k \in Commands, NEW p \in 0..MaxLabels, BeginCommand(k, p) PROVE RoleInv'
    <3>1. SameStory(db, db) /\ SameStory(db, WithCommandLabel(db, k, p))
      BY <1>0, LabelStory DEF SameStory
    <3> QED  BY <2>1, <2>4, <3>1 DEF BeginCommand
  <2>5. CASE BeginWatcher
    <3> DEFINE d == WithWatcherLabel(db)
    <3>1. SameStory(db, d)
      BY <1>0, LabelStory
    <3>2. /\ Sound(db) /\ Closed /\ d.nextLabel <= MaxLabels
          /\ BeginIn(WithLabel(d, d.watcherLabel), d.nextLabel, TRUE, TRUE)
      BY <1>0, <2>5 DEF BeginWatcher, Inductive
    <3>3. /\ view' = WithLabel(d, d.watcherLabel) /\ db' = db
      BY <3>2 DEF BeginIn
    <3>4. /\ WithLabel(d, d.watcherLabel).ops = d.ops
          /\ WithLabel(d, d.watcherLabel).past = d.past
          /\ WithLabel(d, d.watcherLabel).nextOp = d.nextOp
      BY DEF WithLabel
    <3> HIDE DEF d
    <3>5. Roles(view') /\ view'.nextOp = db.nextOp
      BY <1>0, <3>1, <3>3, <3>4 DEF Roles, SameStory
    <3> QED  BY <1>0, <3>3, <3>5 DEF RoleInv
  <2>6. CASE \E S \in SUBSET DOMAIN db.ops, how \in {"plain", "skip", "coordinated"} :
                BeginRevert(S, how)
    BY <1>0, <2>6 DEF BeginRevert, RoleInv
  <2> QED  BY <1>4, <2>2, <2>3, <2>4, <2>5, <2>6 DEF Begin
<1>5. CASE Commit
  <2>1. db' = Final /\ view' = Final
    BY <1>5 DEF Commit
  <2>2. \E K \in SUBSET DOMAIN view.ops :
           /\ Final.ops = [i \in K |-> view.ops[i]]
           /\ Final.past = [i \in K |-> view.past[i]]
    BY <1>0, <1>5, FinalStory
  <2>3. Roles(Final)
    BY <1>0, <2>2, RolesCut
  <2>4. Final.nextOp \in Nat
    BY <1>0, <1>5, FinalStory
  <2> QED  BY <1>0, <2>1, <2>3, <2>4 DEF RoleInv
<1>6. CASE Abort
  BY <1>0, <1>6 DEF Abort, RoleInv
<1>7. ASSUME NEW t \in OpIds, Prune(t) PROVE RoleInv'
  <2> DEFINE D == {i \in DOMAIN db.ops : i < t}
  <2>1. db' = WithoutOps(db, D) /\ view' = db'
    BY <1>7 DEF Prune
  <2>2. /\ db'.nextOp = db.nextOp
        /\ db'.ops = [i \in DOMAIN db.ops \ D |-> db.ops[i]]
        /\ db'.past = [i \in DOMAIN db.ops \ D |-> db.past[i]]
    BY <1>0, <2>1, CutStory
  <2> HIDE DEF D
  <2>3. Roles(db')
    BY <1>0, <2>2, RolesCut
  <2> QED  BY <1>0, <2>1, <2>2, <2>3 DEF RoleInv
<1>8. ASSUME NEW p \in 0..MaxLabels, CreateLabel(p) PROVE RoleInv'
  <2> DEFINE m == WithLabel(db, p)
  <2>1. db' = [m EXCEPT !.posted = @ \cup {db.nextLabel}] /\ view' = db'
    BY <1>8 DEF CreateLabel
  <2>2. SameStory(db, m) /\ DOMAIN m = DOMAIN db
    BY <1>0, LabelStory DEF WithLabel
  <2> HIDE DEF m
  <2>3. SameStory(db, db')
    BY <1>0, <2>1, <2>2 DEF SameStory, IsStore
  <2>4. Roles(db') /\ db'.nextOp = db.nextOp
    BY <1>0, <2>3, RolesStory
  <2> QED  BY <1>0, <2>1, <2>4 DEF RoleInv
<1>9. CASE UNCHANGED vars
  BY <1>0, <1>9 DEF vars, RoleInv
<1> QED  BY <1>2, <1>3, <1>4, <1>5, <1>6, <1>7, <1>8, <1>9 DEF Next

-----------------------------------------------------------------------------
(* The theorems *)

\* What the daemon narrows a label to is in its log.
LEMMA TargetInLog == Target \subseteq DOMAIN db.ops
BY DEF Target, Narrow, LabelOps

\* A step of undo and redo is a step of the store or leaves it alone.
LEMMA StepsOfStore == [UndoNext]_undoVars => [Next]_vars
<1>1. CASE UNCHANGED undoVars
  BY <1>1 DEF undoVars, vars
<1>2. CASE TakeBack
  <2>1. Begin
    BY <1>2, TargetInLog DEF TakeBack, Begin
  <2> QED  BY <2>1 DEF Next
<1>3. CASE (\E what \in {"undo", "redo"}, i \in OpIds, l \in Labels : Select(what, i, l))
           \/ TakeNothing
  BY <1>3 DEF Select, TakeNothing
<1>4. CASE EndRevert
  BY <1>4 DEF EndRevert, Next
<1>5. CASE \/ BeginNew
           \/ \E l \in Labels : BeginInLabel(l)
           \/ BeginWatcher
           \/ Edit
           \/ \E i \in OpIds : RevertNewest(i)
           \/ \E i \in OpIds : Prune(i)
  BY <1>5 DEF Next, Begin
<1> QED  BY <1>1, <1>2, <1>3, <1>4, <1>5 DEF UndoNext

\* Undo and redo implement the operation log: whatever the client selects and
\* the daemon narrows, the store does what log.rs and revert.rs let a writer do,
\* and every theorem of the log holds of it.
THEOREM UndoKeepsLog == UndoSpec => Spec
<1>1. UndoInit => Init
  BY DEF UndoInit
<1> QED  BY <1>1, StepsOfStore, PTL DEF UndoSpec, Spec

\* The roles hold throughout.
LEMMA AlwaysRoles == UndoSpec => []RoleInv
<1>1. Spec => []RoleInv
  BY InitRoles, NextRoles, PTL DEF Spec
<1> QED  BY <1>1, UndoKeepsLog, PTL

\* What the client picks for an undo, having read only the end of the log, is a
\* change the daemon's narrowing takes, however long the window and wherever it
\* cuts a chain of reverts (undo.rs, revert.rs narrow).
THEOREM SelectionsAgree == UndoSpec => []SelectionAgrees
<1>1. RoleInv => SelectionAgrees
  BY PickTaken, WindowAssumption DEF RoleInv, Inductive, Sound, SelectionAgrees
<1> QED  BY <1>1, AlwaysRoles, PTL

\* A redo takes back undos only, but for those whose change was pruned
\* (revert.rs narrow).
THEOREM RedosTakeUndos == UndoSpec => RedoNeverUndoes
<1> DEFINE A == TakeBack /\ asked.what = "redo" =>
                   \A i \in Target : db.ops[i].reverts \in DOMAIN db.ops =>
                       db.past[i].role = "undo"
<1>1. RoleInv => A
  <2> SUFFICES ASSUME RoleInv, asked.what = "redo", NEW i \in Target,
                      db.ops[i].reverts \in DOMAIN db.ops
               PROVE  db.past[i].role = "undo"
    OBVIOUS
  <2>1. i \in DOMAIN db.ops /\ db.ops[i].reverts # 0
        /\ db.ops[db.ops[i].reverts].reverts = 0
    BY DEF Target, Narrow, LabelOps
  <2> QED  BY <2>1 DEF RoleInv, Roles
<1>2. RoleInv => [A]_undoVars
  BY <1>1
<1> HIDE DEF A
<1>3. UndoSpec => [][A]_undoVars
  BY <1>2, AlwaysRoles, PTL
<1> QED  BY <1>3 DEF RedoNeverUndoes, A
=============================================================================
