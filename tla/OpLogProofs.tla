---------------------------- MODULE OpLogProofs ----------------------------
(***************************************************************************)
(* Proofs about the operation log: the store stays well formed, HEAD names *)
(* its newest operation, no dropped label is named and none leaks, clients *)
(* stay out of the watcher's labels, and the retention keeps what it must, *)
(* for any records, fields, limits and bounds.                             *)
(***************************************************************************)
EXTENDS OpLog, FiniteSetTheorems, WellFoundedInduction, TLAPS

\* The path of a label holds the path of each label on it.
Nested(d) ==
    \A m \in DOMAIN d.labels : \A l \in d.labels[m] : d.labels[l] \subseteq d.labels[m]

\* No command's label lies under the watcher's: a command found by its key is
\* not checked again.
CommandsApart(d) ==
    \A k \in DOMAIN d.commands : d.watcherLabel \notin d.labels[d.commands[k]]

LabelsSound(d) ==
    LabelsLiveIn(d) /\ Nested(d) /\ OriginsApartIn(d) /\ CommandsApart(d)

Sound(d) == IsStore(d) /\ LabelsSound(d)

\* Nothing lies in label l of store d.
Fresh(d, l) ==
    /\ l # d.watcherLabel
    /\ \A i \in DOMAIN d.ops : d.ops[i].label # l
    /\ \A m \in DOMAIN d.labels : l \in d.labels[m] => m = l

\* What an open writer knows of its view.
WriterSound ==
    /\ writer.label \in DOMAIN view.labels
    /\ writer.watcher <=> view.watcherLabel \in view.labels[writer.label]
    /\ writer.opened /\ writer.first = 0 => Fresh(view, writer.label)
    /\ writer.first = 0 => view.ops = db.ops /\ view.nextOp = db.nextOp
    /\ writer.first # 0 => view.nextOp - 1 \in DOMAIN view.ops /\ writer.first < view.nextOp
    /\ view.head = db.head
    /\ writer.todo \subseteq DOMAIN db.ops

\* The inductive invariant: both stores are sound, HEAD is the newest operation
\* of the committed one, and an open writer's label is its own.
Inductive ==
    /\ Sound(db)
    /\ Sound(view)
    /\ writer \in Writers
    /\ HeadInLog
    /\ Closed => view = db
    /\ ~Closed => WriterSound

-----------------------------------------------------------------------------
(* The operators on a store *)

\* A label put inside an existing one, or at the root, with the next id.
LEMMA LabelAdded ==
    ASSUME NEW d, Sound(d), d.nextLabel <= MaxLabels,
           NEW p, p = 0 \/ p \in DOMAIN d.labels
    PROVE  LET n == WithLabel(d, p)
           IN  /\ Sound(n)
               /\ n.ops = d.ops /\ n.nextOp = d.nextOp /\ n.head = d.head
               /\ n.commands = d.commands /\ n.watcherLabel = d.watcherLabel
               /\ DOMAIN n.labels = DOMAIN d.labels \cup {d.nextLabel}
               /\ \A l \in DOMAIN d.labels : n.labels[l] = d.labels[l]
               /\ n.labels[d.nextLabel] =
                      {d.nextLabel} \cup (IF p = 0 THEN {} ELSE d.labels[p])
               /\ n.nextLabel = d.nextLabel + 1
               /\ Fresh(n, d.nextLabel)
<1> DEFINE n == WithLabel(d, p)
           path == {d.nextLabel} \cup (IF p = 0 THEN {} ELSE d.labels[p])
<1>1. /\ n.recs = d.recs /\ n.rows = d.rows /\ n.ops = d.ops /\ n.past = d.past
      /\ n.head = d.head /\ n.watcherLabel = d.watcherLabel /\ n.commands = d.commands
      /\ n.posted = d.posted /\ n.nextOp = d.nextOp /\ n.nextLabel = d.nextLabel + 1
      /\ n.labels = [l \in DOMAIN d.labels \cup {d.nextLabel} |->
                       IF l = d.nextLabel THEN path ELSE d.labels[l]]
      /\ DOMAIN n = DOMAIN d
  BY DEF Sound, IsStore, WithLabel
<1>2. d.nextLabel \in Labels /\ d.nextLabel \notin DOMAIN d.labels /\ path \subseteq Labels
      /\ path \subseteq DOMAIN d.labels \cup {d.nextLabel} /\ p # d.nextLabel /\ d.nextLabel # 0
  BY OpsAssumption DEF Sound, IsStore, LabelsSound, LabelsLiveIn, Labels
<1>4. IsStore(n)
  <2> HIDE DEF n
  <2>1. n.labels \in [DOMAIN n.labels -> SUBSET Labels]
    BY <1>1, <1>2 DEF Sound, IsStore
  <2>2. DOMAIN n.labels \subseteq 1..(n.nextLabel - 1) /\ n.nextLabel \in 1..(MaxLabels + 1)
    BY <1>1, <1>2, OpsAssumption DEF Sound, IsStore, Labels
  <2> QED  BY <1>1, <2>1, <2>2 DEF Sound, IsStore
<1>5. LabelsLiveIn(n)
  <2> HIDE DEF n
  <2> QED  BY <1>1, <1>2 DEF Sound, LabelsSound, LabelsLiveIn
<1>6. Nested(n)
  <2> HIDE DEF n
  <2> SUFFICES ASSUME NEW m \in DOMAIN n.labels, NEW l \in n.labels[m]
               PROVE  n.labels[l] \subseteq n.labels[m]
    BY DEF Nested
  <2> QED  BY <1>1, <1>2 DEF Sound, LabelsSound, LabelsLiveIn, Nested
<1>7. OriginsApartIn(n) /\ CommandsApart(n)
  <2> HIDE DEF n
  <2> QED  BY <1>1, <1>2 DEF Sound, LabelsSound, LabelsLiveIn, OriginsApartIn, CommandsApart
<1>8. Fresh(n, d.nextLabel)
  <2> HIDE DEF n
  <2> QED  BY <1>1, <1>2, <1>5 DEF Sound, IsStore, LabelsSound, LabelsLiveIn, Fresh
<1> QED  BY <1>1, <1>2, <1>4, <1>5, <1>6, <1>7, <1>8 DEF Sound, LabelsSound

\* A command's label, opened outside the watcher's.
LEMMA CommandLabelAdded ==
    ASSUME NEW d, Sound(d), d.nextLabel <= MaxLabels, NEW k \in Commands,
           NEW p, p = 0 \/ ClientLabel(d, p)
    PROVE  LET n == WithCommandLabel(d, k, p)
           IN  /\ Sound(n)
               /\ n.ops = d.ops /\ n.nextOp = d.nextOp /\ n.head = d.head
               /\ d.nextLabel \in DOMAIN n.labels
               /\ n.watcherLabel \notin n.labels[d.nextLabel]
               /\ Fresh(n, d.nextLabel)
<1> DEFINE n == WithCommandLabel(d, k, p)
           m == WithLabel(d, p)
<1>1. /\ Sound(m) /\ Fresh(m, d.nextLabel)
      /\ m.ops = d.ops /\ m.nextOp = d.nextOp /\ m.head = d.head
      /\ m.commands = d.commands /\ m.watcherLabel = d.watcherLabel
      /\ DOMAIN m.labels = DOMAIN d.labels \cup {d.nextLabel}
      /\ m.labels[d.nextLabel] = {d.nextLabel} \cup (IF p = 0 THEN {} ELSE d.labels[p])
  BY LabelAdded DEF ClientLabel
<1>2. /\ n.recs = m.recs /\ n.rows = m.rows /\ n.ops = m.ops /\ n.past = m.past
      /\ n.head = m.head /\ n.watcherLabel = m.watcherLabel /\ n.labels = m.labels
      /\ n.posted = m.posted /\ n.nextOp = m.nextOp /\ n.nextLabel = m.nextLabel
      /\ n.commands = [c \in DOMAIN d.commands \cup {k} |->
                         IF c = k THEN d.nextLabel ELSE d.commands[c]]
      /\ DOMAIN n = DOMAIN m
  <2> HIDE DEF m
  <2>1. n = [m EXCEPT !.commands = [c \in DOMAIN d.commands \cup {k} |->
                                       IF c = k THEN d.nextLabel ELSE d.commands[c]]]
    BY DEF WithCommandLabel, m
  <2> HIDE DEF n
  <2> QED  BY <1>1, <2>1 DEF Sound, IsStore
<1>3. d.nextLabel \in Labels /\ d.watcherLabel # d.nextLabel
  BY OpsAssumption DEF Sound, IsStore, LabelsSound, LabelsLiveIn, Labels
<1> HIDE DEF n, m
<1>4. n.watcherLabel \notin n.labels[d.nextLabel]
  BY <1>1, <1>2, <1>3 DEF ClientLabel
<1>5. IsStore(n)
  BY <1>1, <1>2, <1>3 DEF Sound, IsStore
<1>6. LabelsSound(n)
  BY <1>1, <1>2, <1>4
     DEF Sound, LabelsSound, LabelsLiveIn, Nested, OriginsApartIn, CommandsApart
<1>7. Fresh(n, d.nextLabel)
  BY <1>1, <1>2 DEF Fresh
<1> QED  BY <1>1, <1>2, <1>4, <1>5, <1>6, <1>7 DEF Sound, n

\* The watcher's label, created when there is none.
LEMMA WatcherLabelAdded ==
    ASSUME NEW d, Sound(d), WithWatcherLabel(d).nextLabel <= MaxLabels
    PROVE  LET n == WithWatcherLabel(d)
           IN  /\ Sound(n)
               /\ n.ops = d.ops /\ n.nextOp = d.nextOp /\ n.head = d.head
               /\ n.watcherLabel \in DOMAIN n.labels
<1>1. CASE d.watcherLabel # 0 /\ d.watcherLabel \in DOMAIN d.labels
  BY <1>1 DEF WithWatcherLabel
<1>2. CASE ~(d.watcherLabel # 0 /\ d.watcherLabel \in DOMAIN d.labels)
  <2> DEFINE n == WithWatcherLabel(d)
             m == WithLabel(d, 0)
  <2>1. d.watcherLabel = 0
    BY <1>2 DEF Sound, LabelsSound, LabelsLiveIn
  <2>2. n = [m EXCEPT !.watcherLabel = d.nextLabel]
    BY <1>2 DEF WithWatcherLabel
  <2>3. d.nextLabel <= MaxLabels /\ d.nextLabel \in Labels /\ d.nextLabel \notin DOMAIN d.labels
    <3>1. n.nextLabel = m.nextLabel /\ m.nextLabel = d.nextLabel + 1
      BY <2>2 DEF WithLabel, Sound, IsStore
    <3> QED  BY <3>1, OpsAssumption DEF Sound, IsStore, Labels
  <2>4. /\ Sound(m) /\ m.ops = d.ops /\ m.nextOp = d.nextOp /\ m.head = d.head
        /\ m.commands = d.commands /\ m.watcherLabel = d.watcherLabel
        /\ DOMAIN m.labels = DOMAIN d.labels \cup {d.nextLabel}
        /\ \A l \in DOMAIN d.labels : m.labels[l] = d.labels[l]
    BY <2>3, LabelAdded
  <2> HIDE DEF m
  <2>5. /\ n.recs = m.recs /\ n.rows = m.rows /\ n.ops = m.ops /\ n.past = m.past
        /\ n.head = m.head /\ n.commands = m.commands /\ n.labels = m.labels
        /\ n.posted = m.posted /\ n.nextOp = m.nextOp /\ n.nextLabel = m.nextLabel
        /\ n.watcherLabel = d.nextLabel /\ DOMAIN n = DOMAIN m
    BY <2>2, <2>4 DEF Sound, IsStore
  <2> HIDE DEF n
  <2>6. IsStore(n)
    BY <2>3, <2>4, <2>5 DEF Sound, IsStore, Labels
  <2>7. LabelsLiveIn(n) /\ Nested(n)
    BY <2>4, <2>5 DEF Sound, LabelsSound, LabelsLiveIn, Nested
  <2>8. \A l \in DOMAIN d.labels : d.nextLabel \notin n.labels[l]
    BY <2>3, <2>4, <2>5 DEF Sound, LabelsSound, LabelsLiveIn
  <2>9. \A i \in DOMAIN n.ops : ~n.ops[i].watcher
    <3> SUFFICES ASSUME NEW i \in DOMAIN d.ops PROVE ~d.ops[i].watcher
      BY <2>4, <2>5
    <3>1. d.labels[d.ops[i].label] \subseteq Labels /\ 0 \notin Labels
      BY DEF Sound, IsStore, LabelsSound, LabelsLiveIn, Labels
    <3> QED  BY <2>1, <3>1 DEF Sound, LabelsSound, OriginsApartIn
  <2>10. OriginsApartIn(n) /\ CommandsApart(n)
    BY <2>4, <2>5, <2>8, <2>9
       DEF Sound, LabelsSound, LabelsLiveIn, OriginsApartIn, CommandsApart
  <2> QED  BY <2>4, <2>5, <2>6, <2>7, <2>10 DEF Sound, LabelsSound, n
<1> QED  BY <1>1, <1>2

\* Labels dropped with what they hold: nothing kept names one of them.
LEMMA LabelsRemoved ==
    ASSUME NEW d, Sound(d), NEW L,
           d.watcherLabel \notin L,
           \A i \in DOMAIN d.ops : d.ops[i].label \notin L,
           \A m \in DOMAIN d.labels \ L : d.labels[m] \cap L = {}
    PROVE  LET n == WithoutLabels(d, L)
           IN  /\ Sound(n)
               /\ n.ops = d.ops /\ n.nextOp = d.nextOp /\ n.head = d.head
<1> DEFINE n == WithoutLabels(d, L)
           kept == {c \in DOMAIN d.commands : d.commands[c] \notin L}
<1>1. /\ n.recs = d.recs /\ n.rows = d.rows /\ n.ops = d.ops /\ n.past = d.past
      /\ n.head = d.head /\ n.watcherLabel = d.watcherLabel
      /\ n.posted = d.posted /\ n.nextOp = d.nextOp /\ n.nextLabel = d.nextLabel
      /\ n.labels = [l \in DOMAIN d.labels \ L |-> d.labels[l]]
      /\ n.commands = [c \in kept |-> d.commands[c]]
      /\ DOMAIN n = DOMAIN d
  BY DEF WithoutLabels, Sound, IsStore
<1> HIDE DEF n
<1>2. IsStore(n)
  BY <1>1 DEF Sound, IsStore
<1>3. LabelsLiveIn(n)
  BY <1>1 DEF Sound, LabelsSound, LabelsLiveIn
<1>4. Nested(n)
  <2> SUFFICES ASSUME NEW m \in DOMAIN n.labels, NEW l \in n.labels[m]
               PROVE  n.labels[l] \subseteq n.labels[m]
    BY DEF Nested
  <2>1. m \in DOMAIN d.labels \ L /\ n.labels[m] = d.labels[m]
    BY <1>1
  <2>2. l \in DOMAIN d.labels \ L
    BY <2>1 DEF Sound, LabelsSound, LabelsLiveIn
  <2>3. n.labels[l] = d.labels[l]
    BY <1>1, <2>2
  <2> QED  BY <2>1, <2>2, <2>3 DEF Sound, LabelsSound, Nested
<1>5. OriginsApartIn(n) /\ CommandsApart(n)
  BY <1>1 DEF Sound, LabelsSound, LabelsLiveIn, OriginsApartIn, CommandsApart
<1> QED  BY <1>1, <1>2, <1>3, <1>4, <1>5 DEF Sound, LabelsSound, n

\* drop_if_empty never leaves a label inside a dropped one, nor drops the label
\* of an operation it keeps.
LEMMA OpsRemoved ==
    ASSUME NEW d, Sound(d), NEW D, D \subseteq DOMAIN d.ops
    PROVE  LET n == WithoutOps(d, D)
           IN  /\ Sound(n)
               /\ DOMAIN n.ops = DOMAIN d.ops \ D
               /\ n.nextOp = d.nextOp /\ n.head = d.head
<1> DEFINE kept == DOMAIN d.ops \ D
           hit  == {d.ops[i].label : i \in D}
           L    == Emptied(d, kept, hit)
           e    == [[d EXCEPT !.ops = [i \in kept |-> d.ops[i]]] EXCEPT
                        !.past = [i \in kept |-> d.past[i]]]
           n    == WithoutOps(d, D)
<1>1. /\ e.recs = d.recs /\ e.rows = d.rows /\ e.ops = [i \in kept |-> d.ops[i]]
      /\ e.past = [i \in kept |-> d.past[i]] /\ e.head = d.head /\ e.labels = d.labels
      /\ e.watcherLabel = d.watcherLabel /\ e.commands = d.commands /\ e.posted = d.posted
      /\ e.nextOp = d.nextOp /\ e.nextLabel = d.nextLabel /\ DOMAIN e = DOMAIN d
  BY DEF Sound, IsStore
<1>2. Sound(e)
  <2> HIDE DEF e
  <2>1. IsStore(e)
    BY <1>1 DEF Sound, IsStore
  <2>2. LabelsSound(e)
    BY <1>1 DEF Sound, LabelsSound, LabelsLiveIn, Nested, OriginsApartIn, CommandsApart
  <2> QED  BY <2>1, <2>2 DEF Sound
<1>3. e.watcherLabel \notin L /\ \A i \in DOMAIN e.ops : e.ops[i].label \notin L
  <2> HIDE DEF e
  <2>1. \A l \in L : l \in Subtree(d, l)
    BY DEF Emptied, Subtree, Sound, LabelsSound, LabelsLiveIn
  <2>2. ASSUME NEW l \in L
        PROVE  l # d.watcherLabel /\ \A i \in kept : d.ops[i].label # l
    BY <2>1, <2>2 DEF Emptied
  <2> HIDE DEF L, kept
  <2>3. DOMAIN e.ops = kept /\ \A i \in kept : e.ops[i] = d.ops[i]
    BY <1>1
  <2>4. e.watcherLabel = d.watcherLabel
    BY <1>1
  <2> QED  BY <2>2, <2>3, <2>4
<1>4. \A m \in DOMAIN e.labels \ L : e.labels[m] \cap L = {}
  <2> HIDE DEF e
  <2> SUFFICES ASSUME NEW m \in DOMAIN d.labels, NEW l \in d.labels[m], l \in L
               PROVE  m \in L
    BY <1>1
  <2>1. Subtree(d, m) \subseteq Subtree(d, l)
    BY DEF Subtree, Sound, LabelsSound, Nested
  <2> QED  BY <2>1 DEF Emptied
<1>5. Sound(WithoutLabels(e, L)) /\ WithoutLabels(e, L).ops = e.ops
      /\ WithoutLabels(e, L).nextOp = e.nextOp /\ WithoutLabels(e, L).head = e.head
  BY <1>2, <1>3, <1>4, LabelsRemoved
<1>6. /\ n.recs = e.recs /\ n.rows = e.rows /\ n.ops = e.ops /\ n.past = e.past
      /\ n.head = e.head /\ n.watcherLabel = e.watcherLabel
      /\ n.posted = e.posted /\ n.nextOp = e.nextOp /\ n.nextLabel = e.nextLabel
      /\ n.labels = WithoutLabels(e, L).labels
      /\ n.commands = WithoutLabels(e, L).commands
      /\ DOMAIN n = DOMAIN e
  <2>1. n = [WithoutLabels(d, L) EXCEPT !.ops = [i \in kept |-> d.ops[i]],
                                        !.past = [i \in kept |-> d.past[i]]]
    BY DEF WithoutOps
  <2> HIDE DEF n, L
  <2>2. WithoutLabels(d, L).labels = WithoutLabels(e, L).labels
        /\ WithoutLabels(d, L).commands = WithoutLabels(e, L).commands
    BY <1>1 DEF WithoutLabels, Sound, IsStore
  <2> QED  BY <1>1, <2>1, <2>2 DEF WithoutLabels, Sound, IsStore
<1>7. /\ WithoutLabels(e, L).recs = e.recs /\ WithoutLabels(e, L).rows = e.rows
      /\ WithoutLabels(e, L).past = e.past /\ WithoutLabels(e, L).posted = e.posted
      /\ WithoutLabels(e, L).watcherLabel = e.watcherLabel
      /\ WithoutLabels(e, L).nextLabel = e.nextLabel
      /\ DOMAIN WithoutLabels(e, L) = DOMAIN e
  <2> HIDE DEF e, L
  <2> QED  BY <1>2 DEF WithoutLabels, Sound, IsStore
<1>8. Sound(n)
  <2> DEFINE w == WithoutLabels(e, L)
  <2> HIDE DEF w, e, n, L
  <2>1. /\ n.recs = w.recs /\ n.rows = w.rows /\ n.ops = w.ops /\ n.past = w.past
        /\ n.head = w.head /\ n.watcherLabel = w.watcherLabel /\ n.posted = w.posted
        /\ n.nextOp = w.nextOp /\ n.nextLabel = w.nextLabel /\ n.labels = w.labels
        /\ n.commands = w.commands /\ DOMAIN n = DOMAIN w /\ Sound(w)
    BY <1>5, <1>6, <1>7 DEF w
  <2>2. IsStore(n)
    BY <2>1 DEF Sound, IsStore
  <2>3. LabelsSound(n)
    BY <2>1 DEF Sound, LabelsSound, LabelsLiveIn, Nested, OriginsApartIn, CommandsApart
  <2> QED  BY <2>2, <2>3 DEF Sound
<1> QED
  <2> HIDE DEF n, e
  <2>1. DOMAIN n.ops = DOMAIN d.ops \ D /\ n.nextOp = d.nextOp /\ n.head = d.head
    BY <1>1, <1>6
  <2> QED  BY <1>8, <2>1 DEF n

\* What a writer may log: a change with typed snapshots whose rows belong to a
\* metarecord there, a deletion taking every row of its own.
Fits(d, c) ==
    /\ c.type \in OpTypes /\ c.ent \in Uuids /\ c.field \in Fields \cup {NoField}
    /\ c.before \subseteq Row /\ c.after \subseteq Row
    /\ c.after # {} => c.type = "create" \/ c.ent \in d.recs
    /\ c.type = "delete" => c.before = RowsOf(d, c.ent) /\ c.after = {}

\* An operation logged under a label of its writer's own kind keeps the store
\* sound; it becomes the newest.
LEMMA OpAdded ==
    ASSUME NEW d, Sound(d), d.nextOp <= MaxOps, NEW w \in Writers, NEW c, Fits(d, c),
           NEW r \in 0..MaxOps,
           w.label \in DOMAIN d.labels,
           w.watcher <=> d.watcherLabel \in d.labels[w.label]
    PROVE  LET n == Logged(d, w, c, r)
           IN  /\ Sound(n)
               /\ DOMAIN n.ops = DOMAIN d.ops \cup {d.nextOp}
               /\ n.nextOp = d.nextOp + 1 /\ n.head = d.head
               /\ n.labels = d.labels /\ n.watcherLabel = d.watcherLabel
               /\ n.rows = (d.rows \ ({c.ent} \X c.before)) \cup ({c.ent} \X c.after)
               /\ c.type \notin {"create", "delete"} => n.recs = d.recs
<1> DEFINE n == Logged(d, w, c, r)
           op == [type |-> c.type, ent |-> c.ent, field |-> c.field, before |-> c.before,
                  after |-> c.after, label |-> w.label, reverts |-> r, watcher |-> w.watcher]
           now == [recs |-> d.recs, rows |-> d.rows, role |-> Role(d, r)]
           ids == DOMAIN d.ops \cup {d.nextOp}
<1>1. /\ n.recs = CASE c.type = "create" -> d.recs \cup {c.ent}
                    [] c.type = "delete" -> d.recs \ {c.ent}
                    [] OTHER -> d.recs
      /\ n.rows = (d.rows \ ({c.ent} \X c.before)) \cup ({c.ent} \X c.after)
      /\ n.ops = [i \in ids |-> IF i = d.nextOp THEN op ELSE d.ops[i]]
      /\ n.past = [i \in ids |-> IF i = d.nextOp THEN now ELSE d.past[i]]
      /\ n.head = d.head /\ n.labels = d.labels /\ n.watcherLabel = d.watcherLabel
      /\ n.commands = d.commands /\ n.posted = d.posted
      /\ n.nextOp = d.nextOp + 1 /\ n.nextLabel = d.nextLabel /\ DOMAIN n = DOMAIN d
  BY DEF Logged, Sound, IsStore
<1>2. op \in Op
  BY DEF Op, Fits, Writers, Sound, IsStore, LabelsSound, LabelsLiveIn, Labels
<1>3. now \in Past
  <2>1. Role(d, r) \in {"change", "undo", "redo"}
    BY DEF Role
  <2> QED  BY <2>1 DEF Past, Sound, IsStore
<1>4. d.nextOp \in OpIds /\ d.nextOp \notin DOMAIN d.ops
  BY OpsAssumption DEF Sound, IsStore, OpIds
<1>5. n.recs \subseteq Uuids /\ n.rows \subseteq n.recs \X Row
  <2> HIDE DEF n
  <2>1. CASE c.type = "create"
    BY <1>1, <2>1 DEF Fits, Sound, IsStore
  <2>2. CASE c.type = "delete"
    <3>1. n.recs = d.recs \ {c.ent} /\ n.rows = d.rows \ ({c.ent} \X RowsOf(d, c.ent))
      BY <1>1, <2>2 DEF Fits
    <3> QED  BY <3>1 DEF RowsOf, Sound, IsStore
  <2>3. CASE c.type \notin {"create", "delete"}
    BY <1>1, <2>3 DEF Fits, Sound, IsStore
  <2> QED  BY <2>1, <2>2, <2>3
<1> HIDE DEF n, op, now
<1>6. IsStore(n)
  <2>1. n.ops \in [DOMAIN n.ops -> Op] /\ n.past \in [DOMAIN n.ops -> Past]
    BY <1>1, <1>2, <1>3, <1>4 DEF Sound, IsStore
  <2>2. DOMAIN n.ops \subseteq 1..(n.nextOp - 1) /\ n.nextOp \in 1..(MaxOps + 1)
    BY <1>1, <1>4, OpsAssumption DEF Sound, IsStore, OpIds
  <2> QED  BY <1>1, <1>5, <2>1, <2>2 DEF Sound, IsStore
<1>7. op.label = w.label /\ (op.watcher <=> w.watcher)
  BY DEF op
<1>8. LabelsSound(n)
  BY <1>1, <1>4, <1>7
     DEF Sound, LabelsSound, LabelsLiveIn, Nested, OriginsApartIn, CommandsApart
<1>9. c.type \notin {"create", "delete"} => n.recs = d.recs
  BY <1>1
<1> QED  BY <1>1, <1>6, <1>8, <1>9 DEF Sound, n

\* The inverse of an operation that is not refused is a change that fits.
LEMMA InverseFits ==
    ASSUME NEW d, Sound(d), NEW o \in Op, ~Refused(d, o), NEW c \in Inverses(d, o)
    PROVE  Fits(d, c)
<1> DEFINE cell == CellOf(d, o.ent, o.field)
           rows == RowsOf(d, o.ent)
<1>1. /\ o.type \in OpTypes /\ o.ent \in Uuids /\ o.field \in Fields \cup {NoField}
      /\ o.before \subseteq Row /\ o.after \subseteq Row
  BY DEF Op
<1>2. rows \subseteq Row /\ cell \subseteq Row
  BY DEF RowsOf, CellOf
<1> HIDE DEF cell, rows
<1>3. CASE o.type = "create"
  <2>1. c = Change("delete", o.ent, NoField, rows, {})
    BY <1>3 DEF Inverses, rows
  <2> QED  BY <1>1, <1>2, <2>1 DEF Change, Fits, OpTypes, rows
<1>4. CASE o.type = "delete"
  <2>1. c = Change("create", o.ent, NoField, {}, o.before)
    BY <1>4 DEF Inverses
  <2> QED  BY <1>1, <2>1 DEF Change, Fits, OpTypes
<1>5. CASE o.type \notin {"create", "delete"}
  <2>1. o.ent \in d.recs
    BY <1>5 DEF Refused
  <2>2. CASE o.type = "set_record"
    <3>1. c = Change("set_record", o.ent, NoField, rows, o.before)
      BY <2>2 DEF Inverses, rows
    <3> QED  BY <1>1, <1>2, <2>1, <3>1 DEF Change, Fits, OpTypes
  <2>3. CASE o.type = "append"
    <3>1. c = Change("delete_field", o.ent, o.field, o.after, {})
      BY <2>3 DEF Inverses
    <3> QED  BY <1>1, <2>1, <3>1 DEF Change, Fits, OpTypes
  <2>4. CASE o.type = "delete_field"
    <3>1. PICK r \in o.before : c = Change("append", o.ent, o.field, {}, {r})
      BY <2>4 DEF Inverses
    <3> QED  BY <1>1, <2>1, <3>1 DEF Change, Fits, OpTypes
  <2>5. CASE o.type \in {"set_field", "file"}
    <3>1. c = Change(o.type, o.ent, o.field, cell, o.before)
      BY <2>5 DEF Inverses, cell
    <3> QED  BY <1>1, <1>2, <2>1, <2>5, <3>1 DEF Change, Fits, OpTypes
  <2> QED  BY <1>1, <1>5, <2>2, <2>3, <2>4, <2>5 DEF OpTypes
<1> QED  BY <1>3, <1>4, <1>5

-----------------------------------------------------------------------------
(* The inductive invariant *)

\* A repository just created is sound.
LEMMA InitInductive == Init => Inductive
<1> SUFFICES ASSUME Init PROVE Inductive
  OBVIOUS
<1> DEFINE d == Created
           o == [type |-> "create", ent |-> Root, field |-> NoField, before |-> {},
                 after |-> {}, label |-> 1, reverts |-> 0, watcher |-> FALSE]
<1>1. 1 \in OpIds /\ 1 \in Labels /\ 2 \in 1..(MaxOps + 1) /\ 2 \in 1..(MaxLabels + 1)
      /\ 0 \in 0..MaxOps /\ 0 \in 0..MaxLabels
  BY OpsAssumption DEF OpIds, Labels
<1>2. /\ d.recs = {Root} /\ d.rows = {} /\ d.ops = [i \in {1} |-> o] /\ d.head = 1
      /\ d.past = [i \in {1} |-> [recs |-> {}, rows |-> {}, role |-> "change"]]
      /\ d.labels = [l \in {1} |-> {1}] /\ d.watcherLabel = 0
      /\ d.commands = [k \in {} |-> 0] /\ d.posted = {} /\ d.nextOp = 2 /\ d.nextLabel = 2
      /\ DOMAIN d = {"recs", "rows", "ops", "past", "head", "labels", "watcherLabel",
                     "commands", "posted", "nextOp", "nextLabel"}
  BY DEF Created
<1>3. o \in Op /\ [recs |-> {}, rows |-> {}, role |-> "change"] \in Past
  BY <1>1 DEF Op, OpTypes, Uuids, Past
<1> HIDE DEF d
<1>4. IsStore(d)
  <2>1. d.ops \in [DOMAIN d.ops -> Op] /\ d.past \in [DOMAIN d.ops -> Past]
        /\ DOMAIN d.ops \subseteq 1..(d.nextOp - 1)
    BY <1>2, <1>3
  <2>2. d.labels \in [DOMAIN d.labels -> SUBSET Labels] /\ DOMAIN d.labels \subseteq 1..(d.nextLabel - 1)
        /\ d.commands \in [DOMAIN d.commands -> Labels] /\ DOMAIN d.commands \subseteq Commands
    BY <1>1, <1>2
  <2> QED  BY <1>1, <1>2, <2>1, <2>2 DEF IsStore, Uuids
<1>5. LabelsSound(d)
  BY <1>2 DEF LabelsSound, LabelsLiveIn, Nested, OriginsApartIn, CommandsApart
<1>6. db = d /\ view = d /\ writer = NoWriter
  BY DEF Init, d
<1>7. NoWriter \in Writers /\ NoWriter.mode = "none"
  BY <1>1 DEF NoWriter, Writers
<1>8. HeadInLog
  BY <1>2, <1>6 DEF HeadInLog
<1> QED  BY <1>4, <1>5, <1>6, <1>7, <1>8 DEF Inductive, Sound, Closed

\* A transaction opened on a sound store, in a label of the right kind.
LEMMA BeginKeeps ==
    ASSUME Inductive, NEW d, Sound(d), NEW l, NEW opened \in BOOLEAN, NEW w \in BOOLEAN,
           BeginIn(d, l, opened, w),
           d.ops = db.ops, d.nextOp = db.nextOp, d.head = db.head,
           l \in DOMAIN d.labels, w <=> d.watcherLabel \in d.labels[l],
           opened => Fresh(d, l)
    PROVE  Inductive'
<1>1. l \in 0..MaxLabels /\ 0 \in 0..MaxOps
  BY OpsAssumption DEF Sound, IsStore
<1>2. /\ writer' \in Writers /\ writer'.mode = "write" /\ writer'.label = l
      /\ writer'.opened = opened /\ writer'.watcher = w /\ writer'.first = 0
      /\ writer'.todo = {}
  BY <1>1 DEF BeginIn, NoWriter, Writers
<1>3. view' = d /\ db' = db
  BY DEF BeginIn
<1>4. WriterSound'
  BY <1>2, <1>3 DEF WriterSound
<1> QED  BY <1>2, <1>3, <1>4 DEF Inductive, Closed, HeadInLog

\* A writer that goes on with a change.
LEMMA WriterGoesOn ==
    ASSUME Inductive, ~Closed, NEW c, Fits(view, c), NEW r \in 0..MaxOps,
           Apply(c, r), UNCHANGED db,
           writer' \in Writers, writer'.mode = writer.mode, writer'.label = writer.label,
           writer'.opened = writer.opened, writer'.watcher = writer.watcher,
           writer'.first = Started, writer'.todo \subseteq writer.todo
    PROVE  Inductive'
<1> DEFINE n == Logged(view, writer, c, r)
<1>1. WriterSound /\ Sound(view) /\ writer \in Writers /\ view.nextOp <= MaxOps /\ view' = n
  BY DEF Inductive, Apply
<1>2. /\ Sound(n) /\ DOMAIN n.ops = DOMAIN view.ops \cup {view.nextOp}
      /\ n.nextOp = view.nextOp + 1 /\ n.head = view.head
      /\ n.labels = view.labels /\ n.watcherLabel = view.watcherLabel
  BY <1>1, OpAdded DEF WriterSound
<1>3. writer'.first # 0 /\ writer'.first < n.nextOp
  BY <1>1, <1>2 DEF Started, WriterSound, Sound, IsStore, Writers
<1> HIDE DEF n
<1>4. view.nextOp \in Nat
  BY <1>1 DEF Sound, IsStore
<1>5. WriterSound'
  BY <1>1, <1>2, <1>3, <1>4 DEF WriterSound
<1> QED  BY <1>1, <1>2, <1>5 DEF Inductive, Closed, HeadInLog

\* One change of a client's or of the watcher's.
LEMMA WriteKeeps ==
    ASSUME Inductive, NEW c, Fits(view, c), Write(c)
    PROVE  Inductive'
<1>1. /\ writer \in Writers /\ writer.mode = "write" /\ Apply(c, 0) /\ UNCHANGED db
      /\ writer' = [writer EXCEPT !.first = Started]
  BY DEF Inductive, Write
<1>2. Started \in 0..MaxOps
  BY <1>1 DEF Started, Inductive, Sound, IsStore, Writers, Apply
<1>3. /\ writer' \in Writers /\ writer'.mode = writer.mode /\ writer'.label = writer.label
      /\ writer'.opened = writer.opened /\ writer'.watcher = writer.watcher
      /\ writer'.first = Started /\ writer'.todo = writer.todo
  BY <1>1, <1>2 DEF Writers
<1>4. 0 \in 0..MaxOps
  BY OpsAssumption
<1> QED  BY <1>1, <1>3, <1>4, WriterGoesOn DEF Closed

\* Every edit logs a change that fits.
LEMMA EditKeeps == Inductive /\ Edit => Inductive'
<1> SUFFICES ASSUME Inductive, Edit PROVE Inductive'
  OBVIOUS
<1>1. Records \subseteq Uuids /\ view.recs \subseteq Uuids
  BY DEF Uuids, Inductive, Sound, IsStore
<1>2. \A e, f : RowsOf(view, e) \subseteq Row /\ CellOf(view, e, f) \subseteq RowsOf(view, e)
  BY DEF RowsOf, CellOf
<1>3. ASSUME NEW e \in Records, NEW R \in SUBSET Row, CreateRecord(e, R)
      PROVE  Inductive'
  <2>1. Fits(view, Change("create", e, NoField, {}, R))
    BY <1>1 DEF Change, Fits, OpTypes
  <2> QED  BY <1>3, <2>1, WriteKeeps DEF CreateRecord
<1>4. ASSUME NEW e \in Records, NEW R \in SUBSET Row, SetRecord(e, R)
      PROVE  Inductive'
  <2>1. Fits(view, Change("set_record", e, NoField, RowsOf(view, e), R))
    BY <1>1, <1>2, <1>4 DEF Change, Fits, OpTypes, SetRecord
  <2> QED  BY <1>4, <2>1, WriteKeeps DEF SetRecord
<1>5. ASSUME NEW e \in Records, DeleteRecord(e)
      PROVE  Inductive'
  <2>1. Fits(view, Change("delete", e, NoField, RowsOf(view, e), {}))
    BY <1>1, <1>2 DEF Change, Fits, OpTypes
  <2> QED  BY <1>5, <2>1, WriteKeeps DEF DeleteRecord
<1>6. ASSUME NEW e \in Records, NEW f \in Fields, NEW V \in SUBSET Values,
             NEW t \in {"set_field", "file"}, SetField(t, e, f, V)
      PROVE  Inductive'
  <2>1. Fits(view, Change(t, e, f, CellOf(view, e, f), {f} \X V))
    BY <1>1, <1>2, <1>6 DEF Change, Fits, OpTypes, SetField, Row
  <2> QED  BY <1>6, <2>1, WriteKeeps DEF SetField
<1>7. ASSUME NEW e \in Records, NEW f \in Fields, ClearField(e, f)
      PROVE  Inductive'
  <2>1. Fits(view, Change("file", e, f, CellOf(view, e, f), {}))
    BY <1>1, <1>2 DEF Change, Fits, OpTypes
  <2> QED  BY <1>7, <2>1, WriteKeeps DEF ClearField
<1>8. ASSUME NEW e \in Records, NEW f \in Fields, NEW v \in Values, AppendField(e, f, v)
      PROVE  Inductive'
  <2>1. Fits(view, Change("append", e, f, {}, {<<f, v>>}))
    BY <1>1, <1>8 DEF Change, Fits, OpTypes, AppendField, Row
  <2> QED  BY <1>8, <2>1, WriteKeeps DEF AppendField
<1>9. ASSUME NEW e \in Records, NEW f \in Fields, NEW R \in SUBSET Row,
             DeleteFieldRows(e, f, R)
      PROVE  Inductive'
  <2>1. Fits(view, Change("delete_field", e, f, R, {}))
    BY <1>1 DEF Change, Fits, OpTypes
  <2> QED  BY <1>9, <2>1, WriteKeeps DEF DeleteFieldRows
<1>10. ASSUME NEW e \in Records, NEW old \in Row, NEW new \in Row, ReplaceField(e, old, new)
       PROVE  Inductive'
  <2> DEFINE c1 == Change("delete_field", e, old[1], {old}, {})
             c2 == Change("append", e, new[1], {}, {new})
             d == Logged(view, writer, c1, 0)
             n == Logged(d, writer, c2, 0)
  <2>1. /\ WriterSound /\ Sound(view) /\ writer \in Writers /\ view.nextOp < MaxOps
        /\ view' = n /\ UNCHANGED db /\ writer' = [writer EXCEPT !.first = Started]
        /\ writer.mode = "write" /\ 0 \in 0..MaxOps /\ view.nextOp \in 1..(MaxOps + 1)
    BY <1>10, OpsAssumption DEF ReplaceField, Inductive, Closed, Sound, IsStore
  <2>2. Fits(view, c1)
    BY <1>1 DEF Change, Fits, OpTypes, Row
  <2>3. e \in view.recs
    BY <1>10 DEF ReplaceField, RowsOf, Inductive, Sound, IsStore
  <2>4. /\ Sound(d) /\ DOMAIN d.ops = DOMAIN view.ops \cup {view.nextOp}
        /\ d.nextOp = view.nextOp + 1 /\ d.head = view.head
        /\ d.labels = view.labels /\ d.watcherLabel = view.watcherLabel
        /\ d.recs = view.recs
    <3>1. c1.type = "delete_field"
      BY DEF Change
    <3>2. view.nextOp <= MaxOps
      BY <2>1, OpsAssumption
    <3> HIDE DEF c1
    <3> QED  BY <2>1, <2>2, <3>1, <3>2, OpAdded DEF WriterSound
  <2>5. Fits(d, c2)
    BY <1>1, <2>3, <2>4 DEF Change, Fits, OpTypes, Row
  <2>6. /\ Sound(n) /\ DOMAIN n.ops = DOMAIN d.ops \cup {d.nextOp}
        /\ n.nextOp = d.nextOp + 1 /\ n.head = d.head
        /\ n.labels = d.labels /\ n.watcherLabel = d.watcherLabel
    <3>1. d.nextOp <= MaxOps
      BY <2>1, <2>4, OpsAssumption
    <3>2. /\ writer.label \in DOMAIN d.labels
          /\ writer.watcher <=> d.watcherLabel \in d.labels[writer.label]
      BY <2>1, <2>4 DEF WriterSound
    <3> HIDE DEF d, c2
    <3> QED  BY <2>1, <2>4, <2>5, <3>1, <3>2, OpAdded
  <2> HIDE DEF d, n
  <2>7. Started \in 0..MaxOps /\ Started # 0 /\ Started < n.nextOp
    <3>1. writer.first \in 0..MaxOps
      BY <2>1 DEF Writers
    <3> QED  BY <2>1, <2>4, <2>6, <3>1, OpsAssumption DEF Started, WriterSound
  <2>8. /\ writer' \in Writers /\ writer'.mode = writer.mode /\ writer'.label = writer.label
        /\ writer'.opened = writer.opened /\ writer'.watcher = writer.watcher
        /\ writer'.first = Started /\ writer'.todo = writer.todo
    BY <2>1, <2>7 DEF Writers
  <2>9. WriterSound'
    BY <2>1, <2>4, <2>6, <2>7, <2>8 DEF WriterSound
  <2> QED  BY <2>1, <2>6, <2>8, <2>9 DEF Inductive, Closed, HeadInLog
<1> QED
  BY <1>3, <1>4, <1>5, <1>6, <1>7, <1>8, <1>9, <1>10 DEF Edit

\* Every context opens a label, or finds one, of its own kind.
LEMMA OpeningKeeps == Inductive /\ Begin => Inductive'
<1> SUFFICES ASSUME Inductive, Begin PROVE Inductive'
  OBVIOUS
<1>0. Sound(db)
  BY DEF Inductive
<1>1. ASSUME BeginNew PROVE Inductive'
  <2> DEFINE d == WithLabel(db, 0)
  <2>1. db.nextLabel <= MaxLabels /\ BeginIn(d, db.nextLabel, TRUE, FALSE)
    BY <1>1 DEF BeginNew
  <2>2. /\ Sound(d) /\ d.ops = db.ops /\ d.nextOp = db.nextOp /\ d.head = db.head
        /\ d.watcherLabel = db.watcherLabel /\ Fresh(d, db.nextLabel)
        /\ DOMAIN d.labels = DOMAIN db.labels \cup {db.nextLabel}
        /\ d.labels[db.nextLabel] = {db.nextLabel}
    BY <1>0, <2>1, LabelAdded
  <2> HIDE DEF d
  <2>3. d.watcherLabel \notin d.labels[db.nextLabel]
    BY <2>2 DEF Fresh
  <2> QED  BY <2>1, <2>2, <2>3, BeginKeeps
<1>2. ASSUME NEW l \in Labels, BeginInLabel(l) PROVE Inductive'
  BY <1>0, <1>2, BeginKeeps DEF BeginInLabel, ClientLabel
<1>3. ASSUME NEW k \in Commands, NEW p \in 0..MaxLabels, BeginCommand(k, p) PROVE Inductive'
  <2>1. CASE k \in DOMAIN db.commands
    <3>1. BeginIn(db, db.commands[k], FALSE, FALSE)
      BY <1>3, <2>1 DEF BeginCommand
    <3>2. db.commands[k] \in DOMAIN db.labels
          /\ db.watcherLabel \notin db.labels[db.commands[k]]
      BY <1>0, <2>1 DEF Sound, LabelsSound, LabelsLiveIn, CommandsApart
    <3> QED  BY <1>0, <3>1, <3>2, BeginKeeps
  <2>2. CASE k \notin DOMAIN db.commands
    <3> DEFINE d == WithCommandLabel(db, k, p)
    <3>1. /\ p = 0 \/ ClientLabel(db, p)
          /\ db.nextLabel <= MaxLabels /\ BeginIn(d, db.nextLabel, TRUE, FALSE)
      BY <1>3, <2>2 DEF BeginCommand
    <3>2. /\ Sound(d) /\ d.ops = db.ops /\ d.nextOp = db.nextOp /\ d.head = db.head
          /\ db.nextLabel \in DOMAIN d.labels /\ Fresh(d, db.nextLabel)
          /\ d.watcherLabel \notin d.labels[db.nextLabel]
      BY <1>0, <3>1, CommandLabelAdded
    <3> HIDE DEF d
    <3> QED  BY <3>1, <3>2, BeginKeeps
  <2> QED  BY <2>1, <2>2
<1>4. ASSUME BeginWatcher PROVE Inductive'
  <2> DEFINE d == WithWatcherLabel(db)
             n == WithLabel(d, d.watcherLabel)
  <2>1. d.nextLabel <= MaxLabels /\ BeginIn(n, d.nextLabel, TRUE, TRUE)
    BY <1>4 DEF BeginWatcher
  <2>2. /\ Sound(d) /\ d.ops = db.ops /\ d.nextOp = db.nextOp /\ d.head = db.head
        /\ d.watcherLabel \in DOMAIN d.labels
    BY <1>0, <2>1, WatcherLabelAdded
  <2> HIDE DEF d
  <2>3. d.watcherLabel # 0 /\ d.watcherLabel \in d.labels[d.watcherLabel]
    BY <2>2 DEF Sound, IsStore, LabelsSound, LabelsLiveIn
  <2>4. /\ Sound(n) /\ n.ops = d.ops /\ n.nextOp = d.nextOp /\ n.head = d.head
        /\ n.watcherLabel = d.watcherLabel /\ Fresh(n, d.nextLabel)
        /\ DOMAIN n.labels = DOMAIN d.labels \cup {d.nextLabel}
        /\ n.labels[d.nextLabel] = {d.nextLabel} \cup d.labels[d.watcherLabel]
    BY <2>1, <2>2, <2>3, LabelAdded
  <2> HIDE DEF n
  <2> QED  BY <2>1, <2>2, <2>3, <2>4, BeginKeeps
<1>5. ASSUME NEW S \in SUBSET DOMAIN db.ops, NEW how \in {"plain", "skip", "coordinated"},
             BeginRevert(S, how)
      PROVE  Inductive'
  <2>1. Effective(S, how) \subseteq DOMAIN db.ops /\ DOMAIN db.ops \subseteq OpIds
    BY <1>0, OpsAssumption DEF Effective, Sound, IsStore, OpIds
  <2>2. /\ writer.mode = "write" /\ writer \in Writers /\ WriterSound
        /\ view' = view /\ db' = db
        /\ writer' = [writer EXCEPT !.mode = "revert", !.target = Effective(S, how),
                                    !.todo = Effective(S, how)]
    BY <1>5 DEF BeginRevert, Inductive, Closed
  <2>3. /\ writer' \in Writers /\ writer'.mode = "revert" /\ writer'.label = writer.label
        /\ writer'.opened = writer.opened /\ writer'.watcher = writer.watcher
        /\ writer'.first = writer.first /\ writer'.todo = Effective(S, how)
    BY <2>1, <2>2 DEF Writers
  <2>4. WriterSound'
    BY <2>1, <2>2, <2>3 DEF WriterSound
  <2> QED  BY <2>2, <2>3, <2>4 DEF Inductive, Closed, HeadInLog
<1> QED
  BY <1>1, <1>2, <1>3, <1>4, <1>5 DEF Begin

\* One inverse of a revert.
LEMMA RevertKeeps ==
    ASSUME Inductive, NEW i \in OpIds, RevertNewest(i)
    PROVE  Inductive'
<1> DEFINE o == db.ops[i]
<1>1. /\ writer.mode = "revert" /\ i \in writer.todo /\ ~Refused(view, o)
      /\ writer \in Writers /\ WriterSound /\ Sound(view) /\ Sound(db) /\ UNCHANGED db
  BY DEF RevertNewest, Inductive, Closed
<1>2. o \in Op /\ i \in 0..MaxOps
  BY <1>1 DEF WriterSound, Sound, IsStore, OpIds
<1> HIDE DEF o
<1>3. CASE Inverses(view, o) = {} /\ writer' = [writer EXCEPT !.todo = @ \ {i}]
           /\ UNCHANGED view
  <2>1. /\ writer' \in Writers /\ writer'.mode = writer.mode /\ writer'.label = writer.label
        /\ writer'.opened = writer.opened /\ writer'.watcher = writer.watcher
        /\ writer'.first = writer.first /\ writer'.todo \subseteq writer.todo
    BY <1>1, <1>3 DEF Writers
  <2>2. WriterSound'
    BY <1>1, <1>3, <2>1 DEF WriterSound
  <2> QED  BY <1>1, <1>3, <2>1, <2>2 DEF Inductive, Closed, HeadInLog
<1>4. ASSUME NEW c \in Inverses(view, o), Apply(c, i),
             writer' = [writer EXCEPT !.first = Started,
                           !.todo = IF o.type = "delete_field" THEN @ ELSE @ \ {i}]
      PROVE  Inductive'
  <2>1. Fits(view, c)
    BY <1>1, <1>2, InverseFits
  <2>2. Started \in 0..MaxOps
    BY <1>1, <1>4 DEF Started, Sound, IsStore, Writers, Apply
  <2>3. /\ writer' \in Writers /\ writer'.mode = writer.mode /\ writer'.label = writer.label
        /\ writer'.opened = writer.opened /\ writer'.watcher = writer.watcher
        /\ writer'.first = Started /\ writer'.todo \subseteq writer.todo
    BY <1>1, <1>4, <2>2 DEF Writers
  <2> QED  BY <1>1, <1>2, <1>4, <2>1, <2>3, WriterGoesOn DEF Closed
<1> QED
  BY <1>3, <1>4 DEF RevertNewest, o

\* A commit: the write kept whole makes its last operation HEAD; an empty one
\* drops a label nothing lies in.
LEMMA CommitKeeps == Inductive /\ Commit => Inductive'
<1> SUFFICES ASSUME Inductive, Commit PROVE Inductive'
  OBVIOUS
<1>1. /\ WriterSound /\ Sound(view) /\ HeadInLog /\ writer \in Writers
      /\ db' = Final /\ view' = Final /\ writer' = NoWriter
  BY DEF Commit, Done, Inductive, Closed
<1>2. NoWriter \in Writers /\ NoWriter.mode = "none"
  BY OpsAssumption DEF NoWriter, Writers
<1>3. Sound(Final) /\ Final.head \in DOMAIN Final.ops /\ Final.head = Final.nextOp - 1
  <2>1. CASE writer.first = 0
    <3> DEFINE L == IF writer.opened THEN {writer.label} ELSE {}
    <3>1. Final = WithoutLabels(view, L)
      BY <2>1 DEF Final
    <3>2. /\ view.watcherLabel \notin L
          /\ \A i \in DOMAIN view.ops : view.ops[i].label \notin L
          /\ \A m \in DOMAIN view.labels \ L : view.labels[m] \cap L = {}
      BY <1>1, <2>1 DEF WriterSound, Fresh
    <3> HIDE DEF L
    <3> QED  BY <1>1, <2>1, <3>1, <3>2, LabelsRemoved DEF HeadInLog, WriterSound
  <2>2. CASE writer.first # 0
    <3> DEFINE e == [view EXCEPT !.head = view.nextOp - 1]
               D == Doomed(e, TRUE, writer.first) \cup Doomed(e, FALSE, writer.first)
    <3>1. Final = WithoutOps(e, D)
      BY <2>2 DEF Final, Trimmed
    <3>2. /\ e.recs = view.recs /\ e.rows = view.rows /\ e.ops = view.ops /\ e.past = view.past
          /\ e.labels = view.labels /\ e.watcherLabel = view.watcherLabel
          /\ e.commands = view.commands /\ e.posted = view.posted /\ e.nextOp = view.nextOp
          /\ e.nextLabel = view.nextLabel /\ e.head = view.nextOp - 1 /\ DOMAIN e = DOMAIN view
      BY <1>1 DEF Sound, IsStore
    <3>3. view.nextOp - 1 \in DOMAIN view.ops /\ view.nextOp - 1 \in OpIds
          /\ writer.first \in Nat /\ writer.first <= view.nextOp - 1
      BY <1>1, <2>2, OpsAssumption DEF WriterSound, Sound, IsStore, Writers, OpIds
    <3> HIDE DEF e
    <3>4. Sound(e)
      <4>1. IsStore(e)
        BY <1>1, <3>2, <3>3 DEF Sound, IsStore
      <4>2. LabelsSound(e)
        BY <1>1, <3>2
           DEF Sound, LabelsSound, LabelsLiveIn, Nested, OriginsApartIn, CommandsApart
      <4> QED  BY <4>1, <4>2 DEF Sound
    <3>5. D \subseteq DOMAIN e.ops /\ \A i \in D : i < writer.first
      BY DEF Doomed, Class
    <3> HIDE DEF D
    <3>6. view.nextOp - 1 \notin D
      BY <3>3, <3>5 DEF OpIds
    <3>7. /\ Sound(Final) /\ DOMAIN Final.ops = DOMAIN e.ops \ D
          /\ Final.nextOp = e.nextOp /\ Final.head = e.head
      BY <3>1, <3>4, <3>5, OpsRemoved
    <3> QED  BY <3>2, <3>3, <3>6, <3>7
  <2> QED  BY <2>1, <2>2
<1> HIDE DEF Final
<1> QED  BY <1>1, <1>2, <1>3 DEF Inductive, Closed, HeadInLog

\* A dropped transaction, a prune and a label opened by hand.
LEMMA OthersKeep ==
    Inductive /\ (Abort \/ (\E i \in OpIds : Prune(i)) \/ (\E l \in 0..MaxLabels : CreateLabel(l)))
        => Inductive'
<1> SUFFICES ASSUME Inductive,
                    Abort \/ (\E i \in OpIds : Prune(i)) \/ (\E l \in 0..MaxLabels : CreateLabel(l))
             PROVE  Inductive'
  OBVIOUS
<1>0. Sound(db) /\ HeadInLog /\ writer \in Writers
  BY DEF Inductive
<1>1. CASE Abort
  <2>1. NoWriter \in Writers /\ NoWriter.mode = "none"
    BY OpsAssumption DEF NoWriter, Writers
  <2> QED  BY <1>0, <1>1, <2>1 DEF Abort, Inductive, Closed, HeadInLog
<1>2. ASSUME NEW t \in OpIds, Prune(t) PROVE Inductive'
  <2> DEFINE D == {i \in DOMAIN db.ops : i < t}
             n == WithoutOps(db, D)
  <2>1. Closed /\ t \in DOMAIN db.ops /\ db' = n /\ view' = n /\ writer' = writer
    BY <1>2 DEF Prune
  <2>2. Sound(n) /\ DOMAIN n.ops = DOMAIN db.ops \ D /\ n.nextOp = db.nextOp /\ n.head = db.head
    BY <1>0, OpsRemoved
  <2>3. db.head \notin D
    BY <1>0, <2>1 DEF HeadInLog, Sound, IsStore
  <2> HIDE DEF n
  <2> QED  BY <1>0, <2>1, <2>2, <2>3 DEF Inductive, Closed, HeadInLog
<1>3. ASSUME NEW p \in 0..MaxLabels, CreateLabel(p) PROVE Inductive'
  <2> DEFINE m == WithLabel(db, p)
             n == [m EXCEPT !.posted = @ \cup {db.nextLabel}]
  <2>1. /\ Closed
        /\ p = 0 \/ p \in DOMAIN db.labels
        /\ db.nextLabel <= MaxLabels /\ db' = n /\ view' = n /\ writer' = writer
    BY <1>3 DEF CreateLabel, ClientLabel
  <2>2. Sound(m) /\ m.ops = db.ops /\ m.nextOp = db.nextOp /\ m.head = db.head
    BY <1>0, <2>1, LabelAdded
  <2> HIDE DEF m
  <2>3. /\ n.recs = m.recs /\ n.rows = m.rows /\ n.ops = m.ops /\ n.past = m.past
        /\ n.head = m.head /\ n.watcherLabel = m.watcherLabel /\ n.labels = m.labels
        /\ n.commands = m.commands /\ n.nextOp = m.nextOp /\ n.nextLabel = m.nextLabel
        /\ n.posted = m.posted \cup {db.nextLabel} /\ DOMAIN n = DOMAIN m
    BY <2>2 DEF Sound, IsStore
  <2>4. db.nextLabel \in Labels
    BY <1>0, <2>1, OpsAssumption DEF Sound, IsStore, Labels
  <2> HIDE DEF n
  <2>5. IsStore(n)
    BY <2>2, <2>3, <2>4 DEF Sound, IsStore
  <2>6. LabelsSound(n)
    BY <2>2, <2>3 DEF Sound, LabelsSound, LabelsLiveIn, Nested, OriginsApartIn, CommandsApart
  <2> QED  BY <1>0, <2>1, <2>2, <2>3, <2>5, <2>6 DEF Inductive, Sound, Closed, HeadInLog
<1> QED  BY <1>1, <1>2, <1>3

\* Every step keeps the invariant.
LEMMA NextInductive == Inductive /\ [Next]_vars => Inductive'
<1> SUFFICES ASSUME Inductive, [Next]_vars PROVE Inductive'
  OBVIOUS
<1>1. CASE UNCHANGED vars
  BY <1>1 DEF vars, Inductive, Closed, WriterSound, HeadInLog
<1>2. CASE Next
  BY <1>2, OpeningKeeps, EditKeeps, RevertKeeps, CommitKeeps, OthersKeep DEF Next
<1> QED  BY <1>1, <1>2

-----------------------------------------------------------------------------
(* The theorems *)

\* The invariant holds throughout.
LEMMA AlwaysInductive == Spec => []Inductive
BY InitInductive, NextInductive, PTL DEF Spec

\* Stores, views and writers keep their types whatever is written, reverted,
\* pruned, trimmed or abandoned.
THEOREM OpLogTypeCorrect == Spec => []TypeOK
<1>1. Inductive => TypeOK
  BY DEF Inductive, Sound, TypeOK
<1> QED  BY <1>1, AlwaysInductive, PTL

\* HEAD always names the newest operation: no prune and no retention deletes it
\* (log.rs prune and commit).
THEOREM HeadSafe == Spec => []HeadInLog
<1>1. Inductive => HeadInLog
  BY DEF Inductive
<1> QED  BY <1>1, AlwaysInductive, PTL

\* No operation, command or label names a dropped label, and the watcher's stays
\* (kvstore drop_if_empty, drop_label).
THEOREM LabelsSafe == Spec => []LabelsLive
<1>1. Inductive => LabelsLive
  BY DEF Inductive, Sound, LabelsSound, LabelsLive
<1> QED  BY <1>1, AlwaysInductive, PTL

\* What lies under the watcher's label is exactly what the watcher wrote
\* (log.rs begin_in and check_client_label).
THEOREM OriginsSafe == Spec => []OriginsApart
<1>1. Inductive => OriginsApart
  BY DEF Inductive, Sound, LabelsSound, OriginsApart
<1> QED  BY <1>1, AlwaysInductive, PTL

-----------------------------------------------------------------------------
(* The retention *)

\* A change logged takes the next id.
LEMMA LoggedIds ==
    ASSUME NEW d, IsStore(d), NEW w, NEW c, NEW r
    PROVE  LET n == Logged(d, w, c, r)
           IN  /\ DOMAIN n = DOMAIN d
               /\ DOMAIN n.ops = DOMAIN d.ops \cup {d.nextOp} /\ n.nextOp = d.nextOp + 1
               /\ n.labels = d.labels /\ n.watcherLabel = d.watcherLabel
               /\ n.posted = d.posted /\ n.nextLabel = d.nextLabel
               /\ n.ops[d.nextOp].label = w.label
               /\ \A i \in DOMAIN d.ops : i # d.nextOp => n.ops[i] = d.ops[i]
BY DEF Logged, IsStore

\* A writer adds operations at the end of its view, under its label, and
\* remembers the first.
LEMMA WriterGrows ==
    ASSUME Inductive, Edit \/ \E k \in OpIds : RevertNewest(k)
    PROVE  /\ db' = db /\ view.nextOp \in Nat /\ view'.nextOp \in Nat
           /\ view.nextOp <= view'.nextOp
           /\ DOMAIN view'.ops = DOMAIN view.ops \cup view.nextOp..(view'.nextOp - 1)
           /\ \A i \in DOMAIN view.ops : view'.ops[i] = view.ops[i]
           /\ \A i \in view.nextOp..(view'.nextOp - 1) : view'.ops[i].label = writer.label
           /\ view'.labels = view.labels /\ view'.watcherLabel = view.watcherLabel
           /\ view'.posted = view.posted /\ view'.nextLabel = view.nextLabel
           /\ writer'.label = writer.label /\ writer'.opened = writer.opened
           /\ \/ writer'.first = writer.first /\ writer.first # 0
              \/ writer.first = 0 /\ writer'.first = view.nextOp /\ view.nextOp < view'.nextOp
              \/ writer.first = 0 /\ writer'.first = 0 /\ view' = view
<1> DEFINE Grows ==
           /\ view'.nextOp \in Nat /\ view.nextOp <= view'.nextOp
           /\ DOMAIN view'.ops = DOMAIN view.ops \cup view.nextOp..(view'.nextOp - 1)
           /\ \A i \in DOMAIN view.ops : view'.ops[i] = view.ops[i]
           /\ \A i \in view.nextOp..(view'.nextOp - 1) : view'.ops[i].label = writer.label
           /\ view'.labels = view.labels /\ view'.watcherLabel = view.watcherLabel
           /\ view'.posted = view.posted /\ view'.nextLabel = view.nextLabel
<1>1. /\ IsStore(view) /\ view.nextOp \in Nat /\ view.nextOp # 0 /\ writer \in Writers
      /\ \A i \in DOMAIN view.ops : i \in Nat /\ i < view.nextOp
  BY DEF Inductive, Sound, IsStore
<1>2. ASSUME NEW c, NEW r, Apply(c, r)
      PROVE  Grows /\ view.nextOp < view'.nextOp
  <2>1. /\ DOMAIN view'.ops = DOMAIN view.ops \cup {view.nextOp}
        /\ view'.nextOp = view.nextOp + 1
        /\ view'.labels = view.labels /\ view'.watcherLabel = view.watcherLabel
        /\ view'.posted = view.posted /\ view'.nextLabel = view.nextLabel
        /\ view'.ops[view.nextOp].label = writer.label
        /\ \A i \in DOMAIN view.ops : i # view.nextOp => view'.ops[i] = view.ops[i]
    BY <1>1, <1>2, LoggedIds DEF Apply
  <2>2. view.nextOp..(view'.nextOp - 1) = {view.nextOp}
    BY <1>1, <2>1
  <2> QED  BY <1>1, <2>1, <2>2
<1>3. ASSUME NEW c, NEW r, Apply(c, r),
             \E T : writer' = [writer EXCEPT !.first = Started, !.todo = T]
                    \/ writer' = [writer EXCEPT !.first = Started]
      PROVE  /\ writer'.label = writer.label /\ writer'.opened = writer.opened
             /\ \/ writer'.first = writer.first /\ writer.first # 0
                \/ writer.first = 0 /\ writer'.first = view.nextOp
  BY <1>1, <1>3 DEF Writers, Started
<1>4. ASSUME NEW c, Write(c)
      PROVE  /\ Grows /\ view.nextOp < view'.nextOp /\ db' = db
             /\ writer'.label = writer.label /\ writer'.opened = writer.opened
             /\ \/ writer'.first = writer.first /\ writer.first # 0
                \/ writer.first = 0 /\ writer'.first = view.nextOp
  BY <1>2, <1>3, <1>4 DEF Write
<1>5. ASSUME NEW e, NEW old, NEW new, ReplaceField(e, old, new)
      PROVE  /\ Grows /\ view.nextOp < view'.nextOp /\ db' = db
             /\ writer'.label = writer.label /\ writer'.opened = writer.opened
             /\ \/ writer'.first = writer.first /\ writer.first # 0
                \/ writer.first = 0 /\ writer'.first = view.nextOp
  <2> DEFINE d == Logged(view, writer, Change("delete_field", e, old[1], {old}, {}), 0)
             n == Logged(d, writer, Change("append", e, new[1], {}, {new}), 0)
  <2>1. view' = n /\ db' = db /\ writer' = [writer EXCEPT !.first = Started]
    BY <1>5 DEF ReplaceField
  <2>2. /\ DOMAIN d = DOMAIN view
        /\ DOMAIN d.ops = DOMAIN view.ops \cup {view.nextOp} /\ d.nextOp = view.nextOp + 1
        /\ d.labels = view.labels /\ d.watcherLabel = view.watcherLabel
        /\ d.posted = view.posted /\ d.nextLabel = view.nextLabel
        /\ d.ops[view.nextOp].label = writer.label
        /\ \A i \in DOMAIN view.ops : i # view.nextOp => d.ops[i] = view.ops[i]
    BY <1>1, LoggedIds
  <2> HIDE DEF d
  <2>3. /\ DOMAIN n.ops = DOMAIN d.ops \cup {d.nextOp} /\ n.nextOp = d.nextOp + 1
        /\ n.labels = d.labels /\ n.watcherLabel = d.watcherLabel
        /\ n.posted = d.posted /\ n.nextLabel = d.nextLabel
        /\ n.ops[d.nextOp].label = writer.label
        /\ \A i \in DOMAIN d.ops : i # d.nextOp => n.ops[i] = d.ops[i]
    BY <1>1, <2>2 DEF Logged, IsStore
  <2> HIDE DEF n
  <2>4. view.nextOp..(n.nextOp - 1) = {view.nextOp, d.nextOp}
    BY <1>1, <2>2, <2>3
  <2>5. Grows /\ view.nextOp < view'.nextOp
    BY <1>1, <2>1, <2>2, <2>3, <2>4
  <2>6. /\ writer'.label = writer.label /\ writer'.opened = writer.opened
        /\ writer'.first = Started
    BY <1>1, <2>1 DEF Writers
  <2> QED  BY <2>1, <2>5, <2>6 DEF Started
<1>6. ASSUME NEW k \in OpIds, RevertNewest(k)
      PROVE  /\ Grows /\ db' = db
             /\ writer'.label = writer.label /\ writer'.opened = writer.opened
             /\ \/ writer'.first = writer.first /\ view' = view
                \/ /\ view.nextOp < view'.nextOp
                   /\ \/ writer'.first = writer.first /\ writer.first # 0
                      \/ writer.first = 0 /\ writer'.first = view.nextOp
  <2>1. CASE writer' = [writer EXCEPT !.todo = @ \ {k}] /\ UNCHANGED <<db, view>>
    <3>1. /\ writer'.label = writer.label /\ writer'.opened = writer.opened
          /\ writer'.first = writer.first
      BY <1>1, <2>1 DEF Writers
    <3>2. view.nextOp..(view.nextOp - 1) = {}
      BY <1>1
    <3> QED  BY <1>1, <2>1, <3>1, <3>2
  <2>2. ASSUME NEW c, Apply(c, k), db' = db,
               writer' = [writer EXCEPT !.first = Started,
                             !.todo = IF db.ops[k].type = "delete_field" THEN @ ELSE @ \ {k}]
        PROVE  /\ Grows /\ db' = db /\ view.nextOp < view'.nextOp
               /\ writer'.label = writer.label /\ writer'.opened = writer.opened
               /\ \/ writer'.first = writer.first /\ writer.first # 0
                  \/ writer.first = 0 /\ writer'.first = view.nextOp
    <3>1. PICK T : writer' = [writer EXCEPT !.first = Started, !.todo = T]
      BY <2>2
    <3> QED  BY <1>2, <1>3, <2>2, <3>1
  <2> QED  BY <1>6, <2>1, <2>2 DEF RevertNewest
<1>7. CASE Edit
  <2>1. \/ \E c : Write(c)
        \/ \E e \in Records, old \in Row, new \in Row : ReplaceField(e, old, new)
    BY <1>7 DEF Edit, CreateRecord, SetRecord, DeleteRecord, ClearField, SetField,
                AppendField, DeleteFieldRows
  <2> QED  BY <1>1, <1>4, <1>5, <2>1
<1>8. CASE \E k \in OpIds : RevertNewest(k)
  BY <1>1, <1>6, <1>8
<1> QED  BY <1>7, <1>8

\* A set of naturals that is not empty has a least element.
LEMMA LeastNatural ==
    ASSUME NEW T \in SUBSET Nat, T # {}
    PROVE  \E m \in T : \A k \in T : m <= k
<1> DEFINE R == OpToRel(<, Nat)
<1>1. IsWellFoundedOn(R, Nat)
  BY NatLessThanWellFounded
<1>2. \A k, m \in Nat : <<k, m>> \in R <=> k < m
  BY DEF OpToRel
<1> HIDE DEF R
<1>3. PICK m \in T : \A k \in T : ~(<<k, m>> \in R)
  BY <1>1, WFMin
<1>4. ASSUME NEW k \in T PROVE m <= k
  <2>1. k \in Nat /\ m \in Nat /\ ~(k < m)
    BY <1>2, <1>3
  <2> QED  BY <2>1
<1> QED  BY <1>4

\* Taking the oldest beyond the limit, short of the write at first, leaves a
\* class within its limit or with that write alone.
LEMMA TrimBounds ==
    ASSUME NEW C \in SUBSET Nat, IsFiniteSet(C), NEW L \in Nat, NEW first \in Nat,
           Cardinality(C) > L
    PROVE  LET kept == C \ {i \in C : /\ i < first
                                      /\ Cardinality({j \in C : j < i}) < Cardinality(C) - L}
           IN  Cardinality(kept) <= L \/ \A i \in kept : first <= i
<1> DEFINE Doom == {i \in C : /\ i < first
                              /\ Cardinality({j \in C : j < i}) < Cardinality(C) - L}
           Old  == {i \in C \ Doom : i < first}
<1>1. CASE Old = {}
  BY <1>1
<1>2. CASE Old # {}
  <2>1. PICK m \in Old : \A k \in Old : m <= k
    BY <1>2, LeastNatural
  <2> DEFINE P == {j \in C : j < m}
  <2>2. P \subseteq Doom
    <3> HIDE DEF Doom
    <3> SUFFICES ASSUME NEW j \in C, j < m, j \notin Doom PROVE FALSE
      OBVIOUS
    <3>1. j \in Nat /\ m \in Nat /\ j < first
      BY <2>1
    <3>2. j \in Old
      BY <3>1
    <3> QED  BY <2>1, <3>1, <3>2
  <2>3. IsFiniteSet(P) /\ Cardinality(P) \in Nat /\ Cardinality(C) \in Nat
    BY FS_Subset, FS_CardinalityType
  <2>4. Cardinality(P) >= Cardinality(C) - L
    BY <2>1, <2>3
  <2>5. IsFiniteSet(C \cap Doom) /\ Cardinality(C \cap Doom) \in Nat
    BY FS_Subset, FS_CardinalityType
  <2>6. Cardinality(P) <= Cardinality(C \cap Doom)
    <3>1. P \in SUBSET (C \cap Doom)
      BY <2>2
    <3> HIDE DEF P, Doom
    <3> QED  BY <2>5, <3>1, FS_Subset
  <2>7. Cardinality(C \ Doom) = Cardinality(C) - Cardinality(C \cap Doom)
    BY FS_Difference
  <2> HIDE DEF P, Doom, Old
  <2>8. Cardinality(C \ Doom) <= L
    BY <2>3, <2>4, <2>5, <2>6, <2>7
  <2> QED  BY <2>8 DEF Doom
<1> QED  BY <1>1, <1>2

\* The operations of the write in progress are all there.
WriteWhole ==
    /\ Closed => writer.first = 0
    /\ writer.first # 0 => writer.first..(view.nextOp - 1) \subseteq DOMAIN view.ops

\* Every step keeps them.
LEMMA NextWhole == Inductive /\ WriteWhole /\ [Next]_vars => WriteWhole'
<1> SUFFICES ASSUME Inductive, WriteWhole, [Next]_vars PROVE WriteWhole'
  OBVIOUS
<1>0. writer \in Writers /\ writer.first \in Nat
  BY DEF Inductive, Writers
<1>1. CASE Edit \/ \E k \in OpIds : RevertNewest(k)
  <2>0. ~Closed'
    <3>1. writer'.mode = writer.mode /\ writer.mode # "none"
      BY <1>0, <1>1 DEF Edit, CreateRecord, SetRecord, DeleteRecord, ClearField, SetField,
           AppendField, DeleteFieldRows, ReplaceField, Write, RevertNewest, Writers
    <3> QED  BY <3>1 DEF Closed
  <2>1. /\ view.nextOp \in Nat /\ view'.nextOp \in Nat
        /\ DOMAIN view'.ops = DOMAIN view.ops \cup view.nextOp..(view'.nextOp - 1)
        /\ \/ writer'.first = writer.first /\ writer.first # 0
           \/ writer.first = 0 /\ writer'.first = view.nextOp
           \/ writer'.first = 0
    BY <1>1, WriterGrows
  <2> QED  BY <1>0, <2>0, <2>1 DEF WriteWhole
<1>2. CASE Commit \/ Abort
  BY <1>2 DEF Commit, Abort, NoWriter, WriteWhole
<1>3. CASE Begin
  <2>1. CASE \E d, l, opened, w : BeginIn(d, l, opened, w)
    BY <2>1 DEF BeginIn, NoWriter, WriteWhole, Closed
  <2>2. CASE \E S \in SUBSET DOMAIN db.ops, how \in {"plain", "skip", "coordinated"} :
                BeginRevert(S, how)
    BY <1>0, <2>2 DEF BeginRevert, Writers, WriteWhole, Closed
  <2> QED  BY <1>3, <2>1, <2>2 DEF Begin, BeginNew, BeginInLabel, BeginCommand, BeginWatcher
<1>4. CASE (\E i \in OpIds : Prune(i)) \/ (\E l \in 0..MaxLabels : CreateLabel(l))
  <2>1. Closed /\ writer' = writer
    BY <1>4 DEF Prune, CreateLabel
  <2> QED  BY <2>1 DEF WriteWhole
<1>5. CASE UNCHANGED vars
  BY <1>5 DEF vars, WriteWhole, Closed
<1> QED  BY <1>1, <1>2, <1>3, <1>4, <1>5 DEF Next

\* What deleting operations leaves of the metarecords and of the log.
LEMMA CutStory ==
    ASSUME NEW d, IsStore(d), NEW D
    PROVE  LET n == WithoutOps(d, D)
               K == DOMAIN d.ops \ D
           IN  /\ n.recs = d.recs /\ n.rows = d.rows /\ n.nextOp = d.nextOp
               /\ n.ops = [i \in K |-> d.ops[i]] /\ n.past = [i \in K |-> d.past[i]]
<1> DEFINE K == DOMAIN d.ops \ D
           L == Emptied(d, K, {d.ops[i].label : i \in D})
           m == WithoutLabels(d, L)
<1>1. m.recs = d.recs /\ m.rows = d.rows /\ m.nextOp = d.nextOp /\ DOMAIN m = DOMAIN d
  BY DEF WithoutLabels, IsStore
<1>2. WithoutOps(d, D) = [m EXCEPT !.ops = [i \in K |-> d.ops[i]],
                                   !.past = [i \in K |-> d.past[i]]]
  BY DEF WithoutOps
<1> HIDE DEF m, K
<1> QED  BY <1>1, <1>2 DEF IsStore, K

\* The retention keeps the write that committed whole, and keeps each origin to
\* its limit and slack unless that write alone exceeds them (log.rs commit and
\* trim), whatever the limits and the size of the write.
THEOREM RetentionSafe == Spec => RetentionKeeps
<1> DEFINE A == Commit /\ writer.first # 0 =>
          /\ writer.first..db'.head \subseteq DOMAIN db'.ops
          /\ \A w \in BOOLEAN :
                LimitOf(w) # 0 =>
                    \/ Cardinality(Class(db', w)) <= LimitOf(w) + Slack(LimitOf(w))
                    \/ Class(db', w) \subseteq writer.first..db'.head
<1>1. ASSUME Inductive, WriteWhole PROVE A
  <2> SUFFICES ASSUME Commit, writer.first # 0
               PROVE  /\ writer.first..db'.head \subseteq DOMAIN db'.ops
                      /\ \A w \in BOOLEAN :
                            LimitOf(w) # 0 =>
                               \/ Cardinality(Class(db', w)) <= LimitOf(w) + Slack(LimitOf(w))
                               \/ Class(db', w) \subseteq writer.first..db'.head
    OBVIOUS
  <2> DEFINE e == [view EXCEPT !.head = view.nextOp - 1]
             first == writer.first
             D == Doomed(e, TRUE, first) \cup Doomed(e, FALSE, first)
  <2>1. /\ IsStore(view) /\ WriterSound /\ writer \in Writers
        /\ first \in Nat /\ view.nextOp \in Nat
        /\ first..(view.nextOp - 1) \subseteq DOMAIN view.ops
    BY <1>1 DEF Inductive, Sound, IsStore, Commit, Done, Closed, WriteWhole, Writers
  <2>2. db' = WithoutOps(e, D)
    BY DEF Commit, Final, Trimmed
  <2>3. /\ e.ops = view.ops /\ e.head = view.nextOp - 1 /\ DOMAIN e = DOMAIN view
        /\ e.recs = view.recs /\ e.rows = view.rows /\ e.past = view.past
        /\ e.labels = view.labels /\ e.watcherLabel = view.watcherLabel
        /\ e.commands = view.commands /\ e.posted = view.posted
        /\ e.nextOp = view.nextOp /\ e.nextLabel = view.nextLabel
    BY <2>1 DEF IsStore
  <2> HIDE DEF e, D
  <2>4. IsStore(e)
    <3>1. view.nextOp - 1 \in OpIds
      BY <2>1, OpsAssumption DEF WriterSound, IsStore, OpIds
    <3> QED  BY <2>1, <2>3, <3>1 DEF IsStore
  <2>5. /\ db'.ops = [i \in DOMAIN e.ops \ D |-> e.ops[i]]
        /\ db'.head = view.nextOp - 1
    <3>1. db'.ops = [i \in DOMAIN e.ops \ D |-> e.ops[i]]
      BY <2>2, <2>4, CutStory
    <3>2. WithoutOps(e, D).head = e.head
      BY <2>4 DEF WithoutOps, WithoutLabels, IsStore
    <3> QED  BY <2>2, <2>3, <3>1, <3>2
  <2>6. \A w \in BOOLEAN : Doomed(e, w, first) \subseteq {i \in Class(e, w) : i < first}
    BY DEF Doomed
  <2>7. first..db'.head \subseteq DOMAIN db'.ops
    <3>1. \A i \in D : i < first
      BY <2>6 DEF D
    <3> SUFFICES ASSUME NEW i \in first..(view.nextOp - 1) PROVE i \in DOMAIN e.ops \ D
      BY <2>5
    <3> QED  BY <2>1, <2>3, <3>1
  <2>8. ASSUME NEW w \in BOOLEAN, LimitOf(w) # 0
        PROVE  \/ Cardinality(Class(db', w)) <= LimitOf(w) + Slack(LimitOf(w))
               \/ Class(db', w) \subseteq first..db'.head
    <3> DEFINE C == Class(e, w)
               L == LimitOf(w)
    <3>1. /\ L \in Nat /\ Slack(L) \in Nat
      BY LimitsAssumption DEF LimitOf, Slack
    <3>2. C \in SUBSET Nat /\ IsFiniteSet(C) /\ \A i \in C : i < view.nextOp
      <4>1. C \subseteq 1..(view.nextOp - 1)
        BY <2>3, <2>4 DEF Class, IsStore
      <4>2. IsFiniteSet(1..(view.nextOp - 1))
        BY <2>1, FS_Interval
      <4> HIDE DEF C
      <4>3. IsFiniteSet(C)
        BY <4>1, <4>2, FS_Subset
      <4>4. \A i \in 1..(view.nextOp - 1) : i \in Nat /\ i < view.nextOp
        BY <2>1
      <4> QED  BY <4>1, <4>3, <4>4
    <3>3. Class(db', w) = C \ Doomed(e, w, first)
      <4>1. Class(db', w) = {i \in DOMAIN e.ops \ D : e.ops[i].watcher = w}
        BY <2>5 DEF Class
      <4>2. \A i \in D : i \in C => i \in Doomed(e, w, first)
        BY <2>6 DEF D, Class
      <4>3. \A i \in Doomed(e, w, first) : i \in D
        BY DEF D
      <4> QED  BY <4>1, <4>2, <4>3 DEF Class
    <3>4. CASE Cardinality(C) <= L + Slack(L)
      <4>1. Class(db', w) \in SUBSET C
        BY <3>3
      <4>2. Cardinality(Class(db', w)) <= Cardinality(C)
        BY <3>2, <4>1, FS_Subset
      <4>3. IsFiniteSet(Class(db', w))
        BY <3>2, <4>1, FS_Subset
      <4>4. Cardinality(C) \in Nat /\ Cardinality(Class(db', w)) \in Nat
        BY <3>2, <4>3, FS_CardinalityType
      <4> HIDE DEF C, L
      <4> QED  BY <3>1, <3>4, <4>2, <4>4 DEF L
    <3>5. CASE ~(Cardinality(C) <= L + Slack(L))
      <4> DEFINE kept == C \ {i \in C : /\ i < first
                                        /\ Cardinality({j \in C : j < i}) < Cardinality(C) - L}
      <4>1. Class(db', w) = kept
        BY <2>8, <3>3, <3>5 DEF Doomed
      <4>2. Cardinality(C) \in Nat
        BY <3>2, FS_CardinalityType
      <4> HIDE DEF C, L
      <4>3. Cardinality(C) > L
        BY <3>1, <3>5, <4>2
      <4>4. Cardinality(kept) <= L \/ \A i \in kept : first <= i
        BY <2>1, <3>1, <3>2, <4>3, TrimBounds
      <4>5. CASE Cardinality(kept) <= L
        <5>1. IsFiniteSet(kept)
          BY <3>2, FS_Difference
        <5>2. Cardinality(kept) \in Nat
          BY <5>1, FS_CardinalityType
        <5> HIDE DEF kept
        <5> QED  BY <3>1, <4>1, <4>5, <5>2 DEF L
      <4>6. CASE \A i \in kept : first <= i
        <5>1. \A i \in kept : i \in Nat /\ i < view.nextOp
          BY <3>2
        <5> HIDE DEF kept
        <5> QED  BY <2>1, <2>5, <4>1, <4>6, <5>1
      <4> QED  BY <4>4, <4>5, <4>6
    <3> QED  BY <3>4, <3>5
  <2> QED  BY <2>7, <2>8
<1>2. Init => WriteWhole
  BY DEF Init, NoWriter, WriteWhole
<1> QED
  BY <1>1, <1>2, NextWhole, AlwaysInductive, PTL DEF Spec, RetentionKeeps

-----------------------------------------------------------------------------
(* No label leaks *)

\* Label l is in use: an operation lies in it, or the watcher's label or one
\* opened by hand does.
Used(d, l) ==
    \/ \E i \in DOMAIN d.ops : l \in d.labels[d.ops[i].label]
    \/ \E m \in Subtree(d, l) : m = d.watcherLabel \/ m \in d.posted

\* Every label is in use, but perhaps x.
UsedBut(d, x) == \A l \in DOMAIN d.labels : l = x \/ Used(d, l)

\* Labels opened by hand took their ids from the sequence.
PostedPast(d) == d.posted \subseteq 1..(d.nextLabel - 1)

\* The label opened for a write that has written nothing yet, 0 for none.
Unwritten == IF ~Closed /\ writer.opened /\ writer.first = 0 THEN writer.label ELSE 0

\* The inductive invariant: the only label not in use is the one the open
\* transaction has just opened, and nobody opened it by hand.
UseInv ==
    /\ Inductive
    /\ UsedBut(db, 0) /\ PostedPast(db)
    /\ UsedBut(view, Unwritten) /\ PostedPast(view) /\ Unwritten \notin view.posted

\* More operations and more labels leave a label in use.
LEMMA UseGrows ==
    ASSUME NEW d, NEW n, Sound(d), NEW l \in DOMAIN d.labels, Used(d, l),
           DOMAIN d.labels \subseteq DOMAIN n.labels, DOMAIN d.ops \subseteq DOMAIN n.ops,
           \A m \in DOMAIN d.labels : n.labels[m] = d.labels[m],
           \A i \in DOMAIN d.ops : n.ops[i] = d.ops[i],
           d.watcherLabel \in {0, n.watcherLabel}, d.posted \subseteq n.posted
    PROVE  Used(n, l)
<1>1. 0 \notin DOMAIN d.labels
  BY DEF Sound, IsStore
<1>2. \A i \in DOMAIN d.ops : d.ops[i].label \in DOMAIN d.labels
  BY DEF Sound, LabelsSound, LabelsLiveIn
<1>3. Subtree(d, l) \subseteq Subtree(n, l) /\ Subtree(d, l) \subseteq DOMAIN d.labels
  BY DEF Subtree
<1> QED  BY <1>1, <1>2, <1>3 DEF Used

\* A label put in is the only one that may not be in use.
LEMMA UseLabelAdded ==
    ASSUME NEW d, Sound(d), d.nextLabel <= MaxLabels, UsedBut(d, 0), PostedPast(d),
           NEW p, p = 0 \/ p \in DOMAIN d.labels
    PROVE  LET n == WithLabel(d, p)
           IN  /\ UsedBut(n, d.nextLabel) /\ PostedPast(n) /\ d.nextLabel \notin n.posted
               /\ n.posted = d.posted
<1> DEFINE n == WithLabel(d, p)
<1>1. /\ n.ops = d.ops /\ n.watcherLabel = d.watcherLabel
      /\ DOMAIN n.labels = DOMAIN d.labels \cup {d.nextLabel}
      /\ \A l \in DOMAIN d.labels : n.labels[l] = d.labels[l]
      /\ n.nextLabel = d.nextLabel + 1
  BY LabelAdded
<1>2. n.posted = d.posted
  BY DEF WithLabel, Sound, IsStore
<1>3. d.nextLabel \in Nat
  BY DEF Sound, IsStore
<1>4. 0 \notin DOMAIN d.labels
  BY DEF Sound, IsStore
<1> HIDE DEF n
<1>5. UsedBut(n, d.nextLabel)
  <2> SUFFICES ASSUME NEW l \in DOMAIN d.labels PROVE Used(n, l)
    BY <1>1 DEF UsedBut
  <2>1. Used(d, l)
    BY <1>4 DEF UsedBut
  <2> QED  BY <1>1, <1>2, <2>1, UseGrows
<1> QED  BY <1>1, <1>2, <1>3, <1>5 DEF PostedPast, n

\* The watcher's label is in use by itself.
LEMMA UseWatcherLabel ==
    ASSUME NEW d, Sound(d), WithWatcherLabel(d).nextLabel <= MaxLabels,
           UsedBut(d, 0), PostedPast(d)
    PROVE  UsedBut(WithWatcherLabel(d), 0) /\ PostedPast(WithWatcherLabel(d))
<1>1. CASE WithWatcherLabel(d) = d
  BY <1>1
<1>2. CASE WithWatcherLabel(d) # d
  <2> DEFINE m == WithLabel(d, 0)
             n == WithWatcherLabel(d)
  <2>1. n = [m EXCEPT !.watcherLabel = d.nextLabel]
        /\ ~(d.watcherLabel # 0 /\ d.watcherLabel \in DOMAIN d.labels)
    BY <1>2 DEF WithWatcherLabel
  <2>2. d.watcherLabel = 0
    BY <2>1 DEF Sound, LabelsSound, LabelsLiveIn
  <2>3. d.nextLabel <= MaxLabels
    <3>1. n.nextLabel = m.nextLabel /\ m.nextLabel = d.nextLabel + 1
      BY <2>1 DEF WithLabel, Sound, IsStore
    <3> QED  BY <3>1, OpsAssumption DEF Sound, IsStore
  <2>4. /\ DOMAIN m = DOMAIN d /\ m.ops = d.ops
        /\ DOMAIN m.labels = DOMAIN d.labels \cup {d.nextLabel}
        /\ \A l \in DOMAIN d.labels : m.labels[l] = d.labels[l]
        /\ m.labels[d.nextLabel] = {d.nextLabel}
        /\ UsedBut(m, d.nextLabel) /\ PostedPast(m) /\ m.posted = d.posted
    <3>1. DOMAIN m = DOMAIN d
      BY DEF WithLabel
    <3> HIDE DEF m
    <3>2. UsedBut(m, d.nextLabel) /\ PostedPast(m) /\ m.posted = d.posted
      BY <2>3, UseLabelAdded DEF m
    <3> QED  BY <2>3, <3>1, <3>2, LabelAdded DEF m
  <2> HIDE DEF m
  <2>5. /\ n.ops = m.ops /\ n.labels = m.labels /\ n.posted = m.posted
        /\ n.nextLabel = m.nextLabel /\ n.watcherLabel = d.nextLabel
    BY <2>1, <2>4 DEF Sound, IsStore
  <2> HIDE DEF n
  <2>6. Used(n, d.nextLabel)
    BY <2>4, <2>5 DEF Used, Subtree
  <2>7. 0 \notin DOMAIN d.labels
    BY DEF Sound, IsStore
  <2>8. ASSUME NEW l \in DOMAIN d.labels PROVE Used(n, l)
    <3>1. Used(d, l)
      BY <2>7 DEF UsedBut
    <3> QED  BY <2>2, <2>4, <2>5, <3>1, UseGrows
  <2> QED  BY <2>4, <2>5, <2>6, <2>8 DEF UsedBut, PostedPast, n
<1> QED  BY <1>1, <1>2

\* Deleting operations drops every label it leaves without use.
LEMMA UseOpsRemoved ==
    ASSUME NEW d, Sound(d), NEW D, D \subseteq DOMAIN d.ops, UsedBut(d, 0), PostedPast(d)
    PROVE  UsedBut(WithoutOps(d, D), 0) /\ PostedPast(WithoutOps(d, D))
<1> DEFINE K == DOMAIN d.ops \ D
           hit == {d.ops[i].label : i \in D}
           L == Emptied(d, K, hit)
           m == WithoutLabels(d, L)
           n == WithoutOps(d, D)
<1>1. /\ m.labels = [l \in DOMAIN d.labels \ L |-> d.labels[l]]
      /\ m.posted = d.posted /\ m.nextLabel = d.nextLabel
      /\ m.watcherLabel = d.watcherLabel /\ DOMAIN m = DOMAIN d
  BY DEF WithoutLabels, Sound, IsStore
<1>2. n = [m EXCEPT !.ops = [i \in K |-> d.ops[i]], !.past = [i \in K |-> d.past[i]]]
  BY DEF WithoutOps
<1> HIDE DEF m, n, L
<1>3. /\ n.labels = [l \in DOMAIN d.labels \ L |-> d.labels[l]]
      /\ n.ops = [i \in K |-> d.ops[i]]
      /\ n.posted = d.posted /\ n.nextLabel = d.nextLabel /\ n.watcherLabel = d.watcherLabel
  BY <1>1, <1>2 DEF Sound, IsStore
<1>4. 0 \notin DOMAIN d.labels
  BY DEF Sound, IsStore
<1>5. \A l \in DOMAIN d.labels \ L : n.labels[l] = d.labels[l]
  BY <1>3
<1>6. \A i \in K : d.ops[i].label \in DOMAIN d.labels \ L
  <2> SUFFICES ASSUME NEW i \in K, d.ops[i].label \in L PROVE FALSE
    BY DEF Sound, LabelsSound, LabelsLiveIn
  <2>1. d.ops[i].label \in Subtree(d, d.ops[i].label)
    BY DEF Subtree, Sound, LabelsSound, LabelsLiveIn
  <2> QED  BY <2>1 DEF L, Emptied
<1>7. ASSUME NEW l \in DOMAIN d.labels \ L PROVE Used(n, l)
  <2>1. PICK x \in Subtree(d, l) : \/ x = d.watcherLabel
                                   \/ \E i \in K : d.ops[i].label = x
                                   \/ Subtree(d, x) = {x} /\ x \notin hit
    BY <1>7 DEF L, Emptied
  <2>2. x \in DOMAIN d.labels /\ l \in d.labels[x]
    BY <2>1 DEF Subtree
  <2>3. CASE \E i \in K : d.ops[i].label = x
    <3>1. PICK i \in K : d.ops[i].label = x
      BY <2>3
    <3>2. i \in DOMAIN n.ops /\ n.ops[i].label = x /\ x \in DOMAIN d.labels \ L
      BY <1>3, <1>6, <3>1
    <3>3. l \in n.labels[n.ops[i].label]
      BY <1>5, <2>2, <3>2
    <3> QED  BY <3>2, <3>3 DEF Used
  <2>4. CASE x = d.watcherLabel \/ (Subtree(d, x) = {x} /\ x \notin hit)
    <3>1. x \notin L
      <4>1. x \in Subtree(d, x)
        BY <2>2 DEF Subtree, Sound, LabelsSound, LabelsLiveIn
      <4> QED  BY <2>4, <4>1 DEF L, Emptied
    <3>2. x \in Subtree(n, l)
      BY <1>3, <1>5, <2>2, <3>1 DEF Subtree
    <3>3. CASE x = d.watcherLabel
      BY <1>3, <3>2, <3>3 DEF Used
    <3>4. CASE Subtree(d, x) = {x} /\ x \notin hit
      <4>1. Used(d, x)
        BY <1>4, <2>2 DEF UsedBut
      <4>2. CASE \E y \in Subtree(d, x) : y = d.watcherLabel \/ y \in d.posted
        BY <1>3, <3>2, <3>4, <4>2 DEF Used
      <4>3. CASE \E i \in DOMAIN d.ops : x \in d.labels[d.ops[i].label]
        <5>1. PICK i \in DOMAIN d.ops : x \in d.labels[d.ops[i].label]
          BY <4>3
        <5>2. d.ops[i].label \in Subtree(d, x)
          BY <5>1 DEF Subtree, Sound, LabelsSound, LabelsLiveIn
        <5>3. d.ops[i].label = x /\ i \in K
          BY <3>4, <5>1, <5>2
        <5> QED  BY <2>3, <5>3
      <4> QED  BY <4>1, <4>2, <4>3 DEF Used
    <3> QED  BY <2>4, <3>3, <3>4
  <2> QED  BY <2>1, <2>3, <2>4
<1>8. UsedBut(n, 0)
  BY <1>3, <1>7 DEF UsedBut
<1> QED  BY <1>3, <1>8 DEF PostedPast, n

\* What the invariant says besides the store's soundness.
UseOK ==
    /\ UsedBut(db, 0) /\ PostedPast(db)
    /\ UsedBut(view, Unwritten) /\ PostedPast(view) /\ Unwritten \notin view.posted

\* A transaction begins in store d, in a label that is in use or has just been
\* opened.
LEMMA UseBegin ==
    ASSUME UseInv, NEW d, NEW l, NEW opened \in BOOLEAN, NEW w, BeginIn(d, l, opened, w),
           PostedPast(d), UsedBut(d, IF opened THEN l ELSE 0), opened => l \notin d.posted
    PROVE  UseOK'
<1>1. /\ view' = d /\ db' = db /\ writer'.mode = "write" /\ writer'.label = l
      /\ writer'.opened = opened /\ writer'.first = 0
  BY DEF BeginIn, NoWriter
<1>2. Unwritten' = IF opened THEN l ELSE 0
  BY <1>1 DEF Unwritten, Closed
<1>3. 0 \notin d.posted
  BY DEF PostedPast
<1> QED  BY <1>1, <1>2, <1>3 DEF UseOK, UseInv

\* Every context opens its label or finds it.
LEMMA OpeningUse == UseInv /\ Begin => UseOK'
<1> SUFFICES ASSUME UseInv, Begin PROVE UseOK'
  OBVIOUS
<1>0. Sound(db) /\ UsedBut(db, 0) /\ PostedPast(db)
  BY DEF UseInv, Inductive
<1>1. ASSUME BeginNew PROVE UseOK'
  <2> DEFINE d == WithLabel(db, 0)
  <2>1. db.nextLabel <= MaxLabels /\ BeginIn(d, db.nextLabel, TRUE, FALSE)
    BY <1>1 DEF BeginNew
  <2>2. UsedBut(d, db.nextLabel) /\ PostedPast(d) /\ db.nextLabel \notin d.posted
    BY <1>0, <2>1, UseLabelAdded
  <2> HIDE DEF d
  <2> QED  BY <2>1, <2>2, UseBegin
<1>2. ASSUME NEW l \in Labels, BeginInLabel(l) PROVE UseOK'
  BY <1>0, <1>2, UseBegin DEF BeginInLabel
<1>3. ASSUME NEW k \in Commands, NEW p \in 0..MaxLabels, BeginCommand(k, p) PROVE UseOK'
  <2>1. CASE k \in DOMAIN db.commands
    <3>1. BeginIn(db, db.commands[k], FALSE, FALSE)
      BY <1>3, <2>1 DEF BeginCommand
    <3> QED  BY <1>0, <3>1, UseBegin
  <2>2. CASE k \notin DOMAIN db.commands
    <3> DEFINE m == WithLabel(db, p)
               d == WithCommandLabel(db, k, p)
    <3>1. /\ p = 0 \/ p \in DOMAIN db.labels
          /\ db.nextLabel <= MaxLabels /\ BeginIn(d, db.nextLabel, TRUE, FALSE)
      BY <1>3, <2>2 DEF BeginCommand, ClientLabel
    <3>2. UsedBut(m, db.nextLabel) /\ PostedPast(m) /\ db.nextLabel \notin m.posted
      BY <1>0, <3>1, UseLabelAdded
    <3>3. /\ d.ops = m.ops /\ d.labels = m.labels /\ d.watcherLabel = m.watcherLabel
          /\ d.posted = m.posted /\ d.nextLabel = m.nextLabel
      BY <1>0 DEF WithCommandLabel, WithLabel, Sound, IsStore
    <3> HIDE DEF d, m
    <3>4. UsedBut(d, db.nextLabel) /\ PostedPast(d) /\ db.nextLabel \notin d.posted
      BY <3>2, <3>3 DEF UsedBut, Used, Subtree, PostedPast
    <3> QED  BY <3>1, <3>4, UseBegin
  <2> QED  BY <2>1, <2>2
<1>4. ASSUME BeginWatcher PROVE UseOK'
  <2> DEFINE d == WithWatcherLabel(db)
             n == WithLabel(d, d.watcherLabel)
  <2>1. d.nextLabel <= MaxLabels /\ BeginIn(n, d.nextLabel, TRUE, TRUE)
    BY <1>4 DEF BeginWatcher
  <2>2. Sound(d) /\ d.watcherLabel \in DOMAIN d.labels
    BY <1>0, <2>1, WatcherLabelAdded
  <2>3. UsedBut(d, 0) /\ PostedPast(d)
    BY <1>0, <2>1, UseWatcherLabel
  <2> HIDE DEF d
  <2>4. UsedBut(n, d.nextLabel) /\ PostedPast(n) /\ d.nextLabel \notin n.posted
    BY <2>1, <2>2, <2>3, UseLabelAdded
  <2> HIDE DEF n
  <2> QED  BY <2>1, <2>4, UseBegin
<1>5. ASSUME NEW S \in SUBSET DOMAIN db.ops, NEW how \in {"plain", "skip", "coordinated"},
             BeginRevert(S, how)
      PROVE  UseOK'
  <2>1. /\ db' = db /\ view' = view /\ writer.mode = "write"
        /\ writer'.mode = "revert" /\ writer'.label = writer.label
        /\ writer'.opened = writer.opened /\ writer'.first = writer.first
    BY <1>5 DEF BeginRevert, UseInv, Inductive, Writers
  <2>2. Unwritten' = Unwritten
    BY <2>1 DEF Unwritten, Closed
  <2> QED  BY <2>1, <2>2 DEF UseOK, UseInv
<1> QED  BY <1>1, <1>2, <1>3, <1>4, <1>5 DEF Begin

\* The first operation written puts the writer's label in use.
LEMMA WriterUse ==
    ASSUME UseInv, Edit \/ \E k \in OpIds : RevertNewest(k)
    PROVE  UseOK'
<1>1. /\ db' = db /\ view.nextOp \in Nat /\ view'.nextOp \in Nat
      /\ DOMAIN view'.ops = DOMAIN view.ops \cup view.nextOp..(view'.nextOp - 1)
      /\ \A i \in DOMAIN view.ops : view'.ops[i] = view.ops[i]
      /\ \A i \in view.nextOp..(view'.nextOp - 1) : view'.ops[i].label = writer.label
      /\ view'.labels = view.labels /\ view'.watcherLabel = view.watcherLabel
      /\ view'.posted = view.posted /\ view'.nextLabel = view.nextLabel
      /\ writer'.label = writer.label /\ writer'.opened = writer.opened
      /\ \/ writer'.first = writer.first /\ writer.first # 0
         \/ writer.first = 0 /\ writer'.first = view.nextOp /\ view.nextOp < view'.nextOp
         \/ writer.first = 0 /\ writer'.first = 0 /\ view' = view
  BY WriterGrows DEF UseInv
<1>2. writer'.mode = writer.mode /\ writer.mode # "none"
  BY DEF Edit, CreateRecord, SetRecord, DeleteRecord, ClearField, SetField, AppendField,
         DeleteFieldRows, ReplaceField, Write, RevertNewest, Writers, UseInv, Inductive
<1>3. /\ Sound(view) /\ view.nextOp # 0 /\ WriterSound
      /\ 0 \notin DOMAIN view.labels /\ 0 \notin view.posted
  BY <1>2 DEF UseInv, Inductive, Sound, IsStore, PostedPast, Closed
<1>4. ASSUME NEW l \in DOMAIN view.labels, Used(view, l) PROVE Used(view', l)
  BY <1>1, <1>3, <1>4, UseGrows
<1>5. UsedBut(view', Unwritten') /\ Unwritten' \notin view'.posted
  <2>1. CASE Unwritten' = Unwritten
    BY <1>1, <1>4, <2>1 DEF UseInv, UsedBut
  <2>2. CASE Unwritten' # Unwritten
    <3>1. /\ Unwritten' = 0 /\ Unwritten = writer.label
          /\ writer'.first = view.nextOp /\ view.nextOp < view'.nextOp
      BY <1>1, <1>2, <1>3, <2>2 DEF Unwritten, Closed
    <3>2. view.nextOp \in DOMAIN view'.ops /\ view'.ops[view.nextOp].label = writer.label
      BY <1>1, <3>1
    <3>3. writer.label \in view'.labels[writer.label]
      BY <1>1, <1>3 DEF WriterSound, Sound, LabelsSound, LabelsLiveIn
    <3>4. Used(view', writer.label)
      BY <3>2, <3>3 DEF Used
    <3> QED  BY <1>1, <1>3, <1>4, <3>1, <3>4 DEF UseInv, UsedBut
  <2> QED  BY <2>1, <2>2
<1> QED  BY <1>1, <1>5 DEF UseOK, UseInv, PostedPast

\* An empty write drops the label it opened; another trims.
LEMMA FinalUse ==
    ASSUME UseInv, ~Closed
    PROVE  UsedBut(Final, 0) /\ PostedPast(Final)
<1>1. /\ Sound(view) /\ WriterSound /\ writer \in Writers
      /\ UsedBut(view, Unwritten) /\ PostedPast(view) /\ Unwritten \notin view.posted
      /\ 0 \notin DOMAIN view.labels
  BY DEF UseInv, Inductive, Sound, IsStore
<1>2. CASE writer.first = 0
  <2> DEFINE L == IF writer.opened THEN {writer.label} ELSE {}
             n == WithoutLabels(view, L)
  <2>1. Final = n
    BY <1>2 DEF Final
  <2>2. /\ n.labels = [l \in DOMAIN view.labels \ L |-> view.labels[l]]
        /\ n.ops = view.ops /\ n.watcherLabel = view.watcherLabel
        /\ n.posted = view.posted /\ n.nextLabel = view.nextLabel
    BY <1>1 DEF WithoutLabels, Sound, IsStore
  <2>3. L = IF Unwritten = 0 THEN {} ELSE {Unwritten}
    BY <1>1, <1>2 DEF Unwritten, WriterSound
  <2>4. /\ view.watcherLabel \notin L
        /\ \A i \in DOMAIN view.ops : view.ops[i].label \notin L
    BY <1>1, <1>2 DEF WriterSound, Fresh
  <2>5. L \cap view.posted = {}
    BY <1>1, <2>3
  <2> HIDE DEF n, L
  <2>6. ASSUME NEW l \in DOMAIN view.labels \ L PROVE Used(n, l)
    <3>1. Used(view, l)
      BY <1>1, <2>3 DEF UsedBut
    <3>2. \A i \in DOMAIN view.ops : view.ops[i].label \in DOMAIN view.labels \ L
      BY <1>1, <2>4 DEF Sound, LabelsSound, LabelsLiveIn
    <3>3. CASE \E i \in DOMAIN view.ops : l \in view.labels[view.ops[i].label]
      BY <2>2, <3>2, <3>3 DEF Used
    <3>4. CASE \E m \in Subtree(view, l) : m = view.watcherLabel \/ m \in view.posted
      BY <2>2, <2>4, <2>5, <3>4 DEF Used, Subtree
    <3> QED  BY <3>1, <3>3, <3>4 DEF Used
  <2> QED  BY <1>1, <2>1, <2>2, <2>6 DEF UsedBut, PostedPast
<1>3. CASE writer.first # 0
  <2> DEFINE e == [view EXCEPT !.head = view.nextOp - 1]
             D == Doomed(e, TRUE, writer.first) \cup Doomed(e, FALSE, writer.first)
  <2>1. Final = WithoutOps(e, D)
    BY <1>3 DEF Final, Trimmed
  <2>2. /\ e.recs = view.recs /\ e.rows = view.rows /\ e.ops = view.ops /\ e.past = view.past
        /\ e.labels = view.labels /\ e.watcherLabel = view.watcherLabel
        /\ e.commands = view.commands /\ e.posted = view.posted /\ e.nextOp = view.nextOp
        /\ e.nextLabel = view.nextLabel /\ e.head = view.nextOp - 1 /\ DOMAIN e = DOMAIN view
    BY <1>1 DEF Sound, IsStore
  <2>3. view.nextOp - 1 \in OpIds
    BY <1>1, <1>3, OpsAssumption DEF WriterSound, Sound, IsStore, OpIds
  <2> HIDE DEF e
  <2>4. Sound(e)
    <3>1. IsStore(e)
      BY <1>1, <2>2, <2>3 DEF Sound, IsStore
    <3>2. LabelsSound(e)
      BY <1>1, <2>2
         DEF Sound, LabelsSound, LabelsLiveIn, Nested, OriginsApartIn, CommandsApart
    <3> QED  BY <3>1, <3>2 DEF Sound
  <2>5. UsedBut(e, 0) /\ PostedPast(e)
    <3>1. Unwritten = 0
      BY <1>3 DEF Unwritten
    <3> QED  BY <1>1, <2>2, <3>1 DEF UsedBut, Used, Subtree, PostedPast
  <2>6. D \subseteq DOMAIN e.ops
    BY DEF Doomed, Class
  <2> HIDE DEF D
  <2> QED  BY <2>1, <2>4, <2>5, <2>6, UseOpsRemoved
<1> QED  BY <1>2, <1>3

\* Every step keeps the labels in use.
LEMMA NextUse == UseInv /\ [Next]_vars => UseInv'
<1> SUFFICES ASSUME UseInv, [Next]_vars PROVE UseOK'
  BY NextInductive DEF UseInv, UseOK
<1>0. Sound(db) /\ UsedBut(db, 0) /\ PostedPast(db) /\ (Closed => view = db)
  BY DEF UseInv, Inductive
<1>1. CASE Begin
  BY <1>1, OpeningUse
<1>2. CASE Edit \/ \E i \in OpIds : RevertNewest(i)
  BY <1>2, WriterUse
<1>3. ASSUME Closed', view' = db', UsedBut(db', 0), PostedPast(db') PROVE UseOK'
  <2>1. Unwritten' = 0 /\ 0 \notin view'.posted
    BY <1>3 DEF Unwritten, PostedPast
  <2> QED  BY <1>3, <2>1 DEF UseOK
<1>4. CASE Commit
  <2>1. ~Closed /\ db' = Final /\ view' = Final /\ writer' = NoWriter
    BY <1>4 DEF Commit, Done, Closed
  <2>2. UsedBut(Final, 0) /\ PostedPast(Final)
    BY <2>1, FinalUse
  <2>3. Closed'
    BY <2>1 DEF Closed, NoWriter
  <2> HIDE DEF Final
  <2> QED  BY <1>3, <2>1, <2>2, <2>3
<1>5. CASE Abort
  <2>1. db' = db /\ view' = db' /\ Closed'
    BY <1>5 DEF Abort, Closed, NoWriter
  <2> QED  BY <1>0, <1>3, <2>1
<1>6. ASSUME NEW t \in OpIds, Prune(t) PROVE UseOK'
  <2> DEFINE D == {i \in DOMAIN db.ops : i < t}
  <2>1. Closed' /\ db' = WithoutOps(db, D) /\ view' = db'
    BY <1>6 DEF Prune, Closed
  <2>2. D \subseteq DOMAIN db.ops
    OBVIOUS
  <2> HIDE DEF D
  <2>3. UsedBut(db', 0) /\ PostedPast(db')
    BY <1>0, <2>1, <2>2, UseOpsRemoved
  <2> QED  BY <1>3, <2>1, <2>3
<1>7. ASSUME NEW p \in 0..MaxLabels, CreateLabel(p) PROVE UseOK'
  <2> DEFINE m == WithLabel(db, p)
             n == [m EXCEPT !.posted = @ \cup {db.nextLabel}]
             l == db.nextLabel
  <2>1. /\ p = 0 \/ p \in DOMAIN db.labels
        /\ l <= MaxLabels /\ db' = n /\ view' = db' /\ Closed'
    BY <1>7 DEF CreateLabel, ClientLabel, Closed
  <2>2. /\ Sound(m) /\ DOMAIN m.labels = DOMAIN db.labels \cup {l}
        /\ l \in m.labels[l] /\ m.nextLabel = l + 1 /\ l \in Nat /\ l # 0
    BY <1>0, <2>1, LabelAdded DEF Sound, IsStore
  <2>3. UsedBut(m, l) /\ PostedPast(m)
    BY <1>0, <2>1, UseLabelAdded
  <2> HIDE DEF m
  <2>4. /\ n.ops = m.ops /\ n.labels = m.labels /\ n.watcherLabel = m.watcherLabel
        /\ n.posted = m.posted \cup {l} /\ n.nextLabel = m.nextLabel
    BY <2>2 DEF Sound, IsStore
  <2> HIDE DEF n, l
  <2>5. Used(n, l)
    BY <2>2, <2>4 DEF Used, Subtree
  <2>6. UsedBut(n, 0)
    BY <2>3, <2>4, <2>5 DEF UsedBut, Used, Subtree
  <2>7. PostedPast(n)
    BY <2>2, <2>3, <2>4 DEF PostedPast
  <2> QED  BY <1>3, <2>1, <2>6, <2>7
<1>8. CASE UNCHANGED vars
  BY <1>8 DEF vars, UseInv, UseOK, Unwritten, Closed
<1> QED  BY <1>1, <1>2, <1>4, <1>5, <1>6, <1>7, <1>8 DEF Next

\* No label leaks: a label that holds no operation is the watcher's or its client
\* opened it by hand, or such a label is inside it, whatever was written, left
\* empty, trimmed or pruned (log.rs commit, kvstore drop_if_empty).
THEOREM NoLabelLeaks == Spec => []NoIdleLabel
<1>1. Init => UseInv
  <2> SUFFICES ASSUME Init PROVE UseInv
    OBVIOUS
  <2>1. /\ db = Created /\ view = Created /\ Closed
    BY DEF Init, NoWriter, Closed
  <2>2. /\ DOMAIN Created.ops = {1} /\ Created.ops[1].label = 1
        /\ DOMAIN Created.labels = {1} /\ Created.labels[1] = {1}
        /\ Created.posted = {} /\ Created.nextLabel = 2
    BY DEF Created
  <2>3. UsedBut(Created, 0) /\ PostedPast(Created)
    BY <2>2 DEF UsedBut, Used, PostedPast
  <2>4. Unwritten = 0
    BY <2>1 DEF Unwritten
  <2> QED  BY <2>1, <2>2, <2>3, <2>4, InitInductive DEF UseInv
<1>2. UseInv => NoIdleLabel
  <2> SUFFICES ASSUME UseInv PROVE NoIdleLabel
    OBVIOUS
  <2>1. 0 \notin DOMAIN db.labels
    BY DEF UseInv, Inductive, Sound, IsStore
  <2> QED  BY <2>1 DEF UseInv, UsedBut, Used, NoIdleLabel
<1> QED  BY <1>1, <1>2, NextUse, PTL DEF Spec
=============================================================================
