------------------------- MODULE OpLogHistoryProofs -------------------------
(***************************************************************************)
(* Proofs about the operation log and the store it describes: a revert     *)
(* brings back what the fields held, and the log explains what the store   *)
(* holds, for any records, fields, values and bounds.                      *)
(***************************************************************************)
EXTENDS OpLogProofs

-----------------------------------------------------------------------------
(* What an operation says of the metarecords before and after it *)

\* Metarecord e and its field f are the same in x and in y.
Same(x, y, e, f) ==
    /\ CellOf(x, e, f) = CellOf(y, e, f)
    /\ e \in x.recs <=> e \in y.recs

\* An operation is on a whole metarecord, or on the rows of one field.
Shaped(o) ==
    /\ o.type \in OpTypes
    /\ o.type \in {"create", "delete", "set_record"} => o.field = NoField
    /\ o.type \notin {"create", "delete", "set_record"} =>
          o.field \in Fields /\ \A r \in o.before \cup o.after : r[1] = o.field

\* The snapshot before of operation o is what it found in x.
Found(x, o) ==
    /\ Shaped(o)
    /\ o.before \subseteq Row /\ o.after \subseteq Row
    /\ o.type = "create" <=> o.ent \notin x.recs
    /\ o.type = "create" => o.before = {}
    /\ o.type \in {"delete", "set_record"} => o.before = RowsOf(x, o.ent)
    /\ o.type \in {"delete", "delete_field"} => o.after = {}
    /\ o.type = "append" => o.before = {} /\ o.after \cap CellOf(x, o.ent, o.field) = {}
    /\ o.type = "delete_field" => o.before \subseteq CellOf(x, o.ent, o.field)
    /\ o.type \in {"set_field", "file"} => o.before = CellOf(x, o.ent, o.field)

\* y is what operation o makes of x.
Left(x, y, o) ==
    /\ o.type = "create" => y.recs = x.recs \cup {o.ent}
    /\ o.type = "delete" => y.recs = x.recs \ {o.ent}
    /\ o.type \notin {"create", "delete"} => y.recs = x.recs
    /\ y.rows = (x.rows \ ({o.ent} \X o.before)) \cup ({o.ent} \X o.after)

\* The metarecords before operation i, or as they are when there is none yet.
PastAt(d, i) == IF i \in DOMAIN d.ops THEN d.past[i] ELSE d

Moments(d) == DOMAIN d.ops \cup {d.nextOp}

\* Every operation says what it found, and what it left is what the next one
\* found.
Told(d) ==
    \A i \in DOMAIN d.ops :
        /\ Found(d.past[i], d.ops[i])
        /\ d.past[i].rows \subseteq d.past[i].recs \X Row
        /\ i + 1 \in Moments(d) => Left(d.past[i], PastAt(d, i + 1), d.ops[i])

\* A field no operation covers between two moments is the same at both, and so
\* is whether its metarecord exists (NoField stands for no field of it).
Steady(d) ==
    \A i, k \in Moments(d), e \in Uuids, f \in Fields \cup {NoField} :
        i <= k /\ (\A j \in i..(k - 1) : j \in DOMAIN d.ops /\ ~Covers(d.ops[j], e, f))
            => Same(PastAt(d, i), PastAt(d, k), e, f)

History(d) == Told(d) /\ Steady(d)

\* Nothing of the metarecords nor of the log differs between d and n.
SameStory(d, n) ==
    /\ n.recs = d.recs /\ n.rows = d.rows /\ n.ops = d.ops
    /\ n.past = d.past /\ n.nextOp = d.nextOp

-----------------------------------------------------------------------------
(* The operators on a store *)

\* What a change leaves of the rows of its metarecord, and of a field of it.
LEMMA ChangedCell ==
    ASSUME NEW x, NEW y, NEW o, Found(x, o), Left(x, y, o), x.rows \subseteq x.recs \X Row
    PROVE  /\ RowsOf(y, o.ent) = (RowsOf(x, o.ent) \ o.before) \cup o.after
           /\ \A f : CellOf(y, o.ent, f) =
                  (CellOf(x, o.ent, f) \ o.before) \cup {r \in o.after : r[1] = f}
           /\ \A e : e # o.ent => RowsOf(y, e) = RowsOf(x, e) /\ (e \in y.recs <=> e \in x.recs)
<1>1. o.before \subseteq Row /\ o.after \subseteq Row
  BY DEF Found
<1>2. y.rows = (x.rows \ ({o.ent} \X o.before)) \cup ({o.ent} \X o.after)
  BY DEF Left
<1>3. \A e : \A r : <<e, r>> \in {o.ent} \X o.before <=> e = o.ent /\ r \in o.before
  OBVIOUS
<1>4. \A e : \A r : <<e, r>> \in {o.ent} \X o.after <=> e = o.ent /\ r \in o.after
  OBVIOUS
<1>5. \A e : \A r \in Row : <<e, r>> \in y.rows <=>
         \/ <<e, r>> \in x.rows /\ ~(e = o.ent /\ r \in o.before)
         \/ e = o.ent /\ r \in o.after
  BY <1>2, <1>3, <1>4
<1>6. RowsOf(y, o.ent) = (RowsOf(x, o.ent) \ o.before) \cup o.after
  BY <1>1, <1>5 DEF RowsOf
<1>7. \A f : CellOf(y, o.ent, f) =
                  (CellOf(x, o.ent, f) \ o.before) \cup {r \in o.after : r[1] = f}
  BY <1>6 DEF CellOf
<1>8. ASSUME NEW e, e # o.ent
      PROVE  RowsOf(y, e) = RowsOf(x, e) /\ (e \in y.recs <=> e \in x.recs)
  <2>1. RowsOf(y, e) = RowsOf(x, e)
    BY <1>5, <1>8 DEF RowsOf
  <2>2. y.recs = x.recs \cup {o.ent} \/ y.recs = x.recs \ {o.ent} \/ y.recs = x.recs
    BY DEF Left
  <2> QED  BY <1>8, <2>1, <2>2
<1> QED  BY <1>6, <1>7, <1>8

\* A change leaves alone what it does not cover.
LEMMA Uncovered ==
    ASSUME NEW x, NEW y, NEW o, Found(x, o), Left(x, y, o), x.rows \subseteq x.recs \X Row,
           NEW e, NEW f, ~Covers(o, e, f)
    PROVE  Same(x, y, e, f)
<1>1. CASE e # o.ent
  BY <1>1, ChangedCell DEF Same, CellOf
<1>2. CASE e = o.ent
  <2>1. o.field # NoField /\ o.field # f
    BY <1>2 DEF Covers
  <2>2. o.type \notin {"create", "delete", "set_record"}
        /\ \A r \in o.before \cup o.after : r[1] = o.field
    BY <2>1 DEF Found, Shaped
  <2>3. CellOf(y, e, f) = (CellOf(x, e, f) \ o.before) \cup {r \in o.after : r[1] = f}
    BY <1>2, ChangedCell
  <2>4. CellOf(y, e, f) = CellOf(x, e, f)
    BY <2>1, <2>2, <2>3 DEF CellOf
  <2>5. y.recs = x.recs
    BY <2>2 DEF Left
  <2> QED  BY <2>4, <2>5 DEF Same
<1> QED  BY <1>1, <1>2

\* The history is about the metarecords and the log only.
LEMMA StoryKept ==
    ASSUME NEW d, NEW n, SameStory(d, n), History(d)
    PROVE  History(n)
<1>1. /\ n.recs = d.recs /\ n.rows = d.rows /\ n.ops = d.ops /\ n.past = d.past
      /\ n.nextOp = d.nextOp
  BY DEF SameStory
<1>2. Moments(n) = Moments(d)
  BY <1>1 DEF Moments
<1>3. \A i : /\ PastAt(n, i).recs = PastAt(d, i).recs
             /\ PastAt(n, i).rows = PastAt(d, i).rows
  BY <1>1 DEF PastAt
<1>4. Told(n)
  BY <1>1, <1>2, <1>3 DEF History, Told, Left
<1>5. Steady(n)
  BY <1>1, <1>2, <1>3 DEF History, Steady, Same, CellOf, RowsOf
<1> QED  BY <1>4, <1>5 DEF History

\* Operations deleted, whichever: what is said of the others stands.
LEMMA HistoryCut ==
    ASSUME NEW d, NEW n, NEW K, IsStore(d), History(d), K \subseteq DOMAIN d.ops,
           n.recs = d.recs, n.rows = d.rows, n.nextOp = d.nextOp,
           n.ops = [i \in K |-> d.ops[i]], n.past = [i \in K |-> d.past[i]]
    PROVE  History(n)
<1>1. DOMAIN n.ops = K /\ \A i \in K : n.ops[i] = d.ops[i] /\ n.past[i] = d.past[i]
  OBVIOUS
<1>2. Moments(n) \subseteq Moments(d) /\ d.nextOp \notin DOMAIN d.ops
  BY <1>1 DEF Moments, IsStore
<1>3. \A i \in Moments(n) : /\ PastAt(n, i).recs = PastAt(d, i).recs
                            /\ PastAt(n, i).rows = PastAt(d, i).rows
  BY <1>1, <1>2 DEF PastAt, Moments
<1>4. Told(n)
  <2> SUFFICES ASSUME NEW i \in K
               PROVE  /\ Found(n.past[i], n.ops[i])
                      /\ n.past[i].rows \subseteq n.past[i].recs \X Row
                      /\ i + 1 \in Moments(n) => Left(n.past[i], PastAt(n, i + 1), n.ops[i])
    BY <1>1 DEF Told
  <2>1. /\ Found(d.past[i], d.ops[i])
        /\ d.past[i].rows \subseteq d.past[i].recs \X Row
        /\ i + 1 \in Moments(d) => Left(d.past[i], PastAt(d, i + 1), d.ops[i])
    BY DEF History, Told
  <2>2. ASSUME i + 1 \in Moments(n) PROVE Left(n.past[i], PastAt(n, i + 1), n.ops[i])
    BY <1>1, <1>2, <1>3, <2>1, <2>2 DEF Left
  <2> QED  BY <1>1, <2>1, <2>2
<1>5. Steady(n)
  <2> SUFFICES ASSUME NEW i \in Moments(n), NEW k \in Moments(n), NEW e \in Uuids,
                      NEW f \in Fields \cup {NoField}, i <= k,
                      \A j \in i..(k - 1) : j \in DOMAIN n.ops /\ ~Covers(n.ops[j], e, f)
               PROVE  Same(PastAt(n, i), PastAt(n, k), e, f)
    BY DEF Steady
  <2>1. \A j \in i..(k - 1) : j \in DOMAIN d.ops /\ ~Covers(d.ops[j], e, f)
    BY <1>1
  <2>2. Same(PastAt(d, i), PastAt(d, k), e, f)
    BY <1>2, <2>1 DEF History, Steady
  <2> QED  BY <1>3, <2>2 DEF Same, CellOf, RowsOf
<1> QED  BY <1>4, <1>5 DEF History

\* A change that says what it found, logged, continues the history.
LEMMA HistoryGrows ==
    ASSUME NEW d, IsStore(d), History(d), NEW w, NEW c, Found(d, c), NEW r
    PROVE  /\ History(Logged(d, w, c, r))
           /\ Left(d, Logged(d, w, c, r), c)
<1> DEFINE n == Logged(d, w, c, r)
           op == [type |-> c.type, ent |-> c.ent, field |-> c.field, before |-> c.before,
                  after |-> c.after, label |-> w.label, reverts |-> r, watcher |-> w.watcher]
           now == [recs |-> d.recs, rows |-> d.rows, role |-> Role(d, r)]
           ids == DOMAIN d.ops \cup {d.nextOp}
<1>1. /\ n.recs = CASE c.type = "create" -> d.recs \cup {c.ent}
                    [] c.type = "delete" -> d.recs \ {c.ent}
                    [] OTHER -> d.recs
      /\ n.rows = (d.rows \ ({c.ent} \X c.before)) \cup ({c.ent} \X c.after)
      /\ n.ops = [i \in ids |-> IF i = d.nextOp THEN op ELSE d.ops[i]]
      /\ n.past = [i \in ids |-> IF i = d.nextOp THEN now ELSE d.past[i]]
      /\ n.nextOp = d.nextOp + 1
  BY DEF Logged, IsStore
<1>2. /\ op.type = c.type /\ op.ent = c.ent /\ op.field = c.field
      /\ op.before = c.before /\ op.after = c.after
      /\ now.recs = d.recs /\ now.rows = d.rows
  OBVIOUS
<1>3. /\ d.nextOp \in Nat /\ d.nextOp \notin DOMAIN d.ops
      /\ \A i \in DOMAIN d.ops : i \in Nat /\ i < d.nextOp
  BY DEF IsStore
<1> HIDE DEF n, op, now
<1>4. Left(d, n, c)
  BY <1>1 DEF Left
<1>5. Found(now, op) /\ Left(now, n, op)
  BY <1>2, <1>4 DEF Found, Left, Shaped, RowsOf, CellOf
<1>6. /\ DOMAIN n.ops = ids /\ Moments(n) = Moments(d) \cup {n.nextOp}
      /\ n.ops[d.nextOp] = op /\ n.past[d.nextOp] = now
      /\ \A i \in DOMAIN d.ops : n.ops[i] = d.ops[i] /\ n.past[i] = d.past[i]
      /\ n.nextOp \notin DOMAIN n.ops
  BY <1>1, <1>3 DEF Moments
<1>7. \A i \in Moments(d) : /\ PastAt(n, i).recs = PastAt(d, i).recs
                            /\ PastAt(n, i).rows = PastAt(d, i).rows
  BY <1>2, <1>3, <1>6 DEF PastAt, Moments
<1>8. PastAt(n, n.nextOp) = n
  BY <1>6 DEF PastAt
<1>9. d.rows \subseteq d.recs \X Row
  BY DEF IsStore
<1>10. Told(n)
  <2> SUFFICES ASSUME NEW i \in ids
               PROVE  /\ Found(n.past[i], n.ops[i])
                      /\ n.past[i].rows \subseteq n.past[i].recs \X Row
                      /\ i + 1 \in Moments(n) => Left(n.past[i], PastAt(n, i + 1), n.ops[i])
    BY <1>6 DEF Told
  <2>1. CASE i = d.nextOp
    <3>1. i + 1 = n.nextOp
      BY <1>1, <2>1
    <3> QED  BY <1>2, <1>5, <1>6, <1>8, <1>9, <2>1, <3>1
  <2>2. CASE i \in DOMAIN d.ops
    <3>1. /\ Found(d.past[i], d.ops[i])
          /\ d.past[i].rows \subseteq d.past[i].recs \X Row
          /\ i + 1 \in Moments(d) => Left(d.past[i], PastAt(d, i + 1), d.ops[i])
      BY <2>2 DEF History, Told
    <3>2. ASSUME i + 1 \in Moments(n) PROVE Left(n.past[i], PastAt(n, i + 1), n.ops[i])
      <4>1. i + 1 # n.nextOp
        BY <1>1, <1>3, <2>2
      <4>2. i + 1 \in Moments(d)
        BY <1>6, <3>2, <4>1
      <4>3. Left(d.past[i], PastAt(n, i + 1), d.ops[i])
        BY <1>7, <3>1, <4>2 DEF Left
      <4> QED  BY <1>6, <2>2, <4>3
    <3> QED  BY <1>6, <2>2, <3>1, <3>2
  <2> QED  BY <2>1, <2>2
<1>11. Steady(n)
  <2> SUFFICES ASSUME NEW i \in Moments(n), NEW k \in Moments(n), NEW e \in Uuids,
                      NEW f \in Fields \cup {NoField}, i <= k,
                      \A j \in i..(k - 1) : j \in DOMAIN n.ops /\ ~Covers(n.ops[j], e, f)
               PROVE  Same(PastAt(n, i), PastAt(n, k), e, f)
    BY DEF Steady
  <2>1. /\ i \in Nat /\ k \in Nat /\ n.nextOp = d.nextOp + 1
        /\ \A m \in Moments(d) : m \in Nat /\ m <= d.nextOp
    BY <1>1, <1>3, <1>6 DEF Moments
  <2>2. CASE i = k
    BY <2>2 DEF Same
  <2>3. ASSUME NEW m \in Moments(d), i # n.nextOp, i <= m, m <= k
        PROVE  Same(PastAt(n, i), PastAt(n, m), e, f)
    <3>1. i \in Moments(d) /\ m <= d.nextOp
      BY <1>6, <2>1, <2>3
    <3>2. \A j \in i..(m - 1) : j \in DOMAIN d.ops /\ ~Covers(d.ops[j], e, f)
      <4> SUFFICES ASSUME NEW j \in i..(m - 1)
                   PROVE  j \in DOMAIN d.ops /\ ~Covers(d.ops[j], e, f)
        OBVIOUS
      <4>1. j \in i..(k - 1) /\ j # d.nextOp
        BY <2>1, <2>3, <3>1
      <4>2. j \in DOMAIN n.ops /\ ~Covers(n.ops[j], e, f)
        BY <4>1
      <4> QED  BY <1>6, <4>1, <4>2
    <3>3. Same(PastAt(d, i), PastAt(d, m), e, f)
      BY <2>3, <3>1, <3>2 DEF History, Steady
    <3> QED  BY <1>7, <3>1, <3>3 DEF Same, CellOf, RowsOf
  <2>4. CASE i # k /\ k # n.nextOp
    <3>1. k \in Moments(d) /\ i # n.nextOp
      BY <1>6, <2>1, <2>4
    <3> QED  BY <2>1, <2>3, <3>1
  <2>5. CASE i # k /\ k = n.nextOp
    <3>1. i <= d.nextOp /\ i # n.nextOp /\ d.nextOp \in Moments(d) /\ d.nextOp \in i..(k - 1)
      BY <1>3, <2>1, <2>5 DEF Moments
    <3>2. Same(PastAt(n, i), PastAt(n, d.nextOp), e, f)
      BY <2>1, <2>3, <2>5, <3>1
    <3>3. ~Covers(op, e, f)
      BY <1>6, <3>1
    <3>4. Same(now, n, e, f)
      BY <1>2, <1>5, <1>9, <3>3, Uncovered
    <3>5. PastAt(n, d.nextOp) = now
      BY <1>6 DEF PastAt
    <3> QED  BY <1>8, <2>5, <3>2, <3>4, <3>5 DEF Same
  <2> QED  BY <2>2, <2>4, <2>5
<1> QED  BY <1>4, <1>10, <1>11 DEF History, n

\* The inverse of an operation that is not refused says what it found.
LEMMA InverseFound ==
    ASSUME NEW d, Sound(d), NEW o \in Op, Shaped(o), ~Refused(d, o), NEW c \in Inverses(d, o)
    PROVE  Found(d, c) /\ c.ent = o.ent /\ c.field = o.field
<1> DEFINE cell == CellOf(d, o.ent, o.field)
           rows == RowsOf(d, o.ent)
<1>1. /\ o.type \in OpTypes /\ o.ent \in Uuids /\ o.field \in Fields \cup {NoField}
      /\ o.before \subseteq Row /\ o.after \subseteq Row
  BY DEF Op
<1>2. rows \subseteq Row /\ cell \subseteq Row /\ \A r \in cell : r[1] = o.field
  BY DEF RowsOf, CellOf
<1> HIDE DEF cell, rows
<1>3. CASE o.type = "create"
  <2>1. c = Change("delete", o.ent, NoField, rows, {}) /\ o.ent \in d.recs
    BY <1>3 DEF Inverses, rows
  <2> QED  BY <1>1, <1>2, <1>3, <2>1 DEF Change, Found, Shaped, OpTypes, rows
<1>4. CASE o.type = "delete"
  <2>1. c = Change("create", o.ent, NoField, {}, o.before) /\ o.ent \notin d.recs
    BY <1>4 DEF Inverses, Refused
  <2> QED  BY <1>1, <1>4, <2>1 DEF Change, Found, Shaped, OpTypes
<1>5. CASE o.type \notin {"create", "delete"}
  <2>1. o.ent \in d.recs
    BY <1>5 DEF Refused
  <2>2. CASE o.type = "set_record"
    <3>1. c = Change("set_record", o.ent, NoField, rows, o.before)
      BY <2>2 DEF Inverses, rows
    <3> QED  BY <1>1, <1>2, <2>1, <2>2, <3>1 DEF Change, Found, Shaped, OpTypes, rows
  <2>3. CASE o.type = "append"
    <3>1. c = Change("delete_field", o.ent, o.field, o.after, {}) /\ o.after \subseteq cell
      BY <2>3 DEF Inverses, cell
    <3> QED  BY <1>1, <1>2, <2>1, <2>3, <3>1 DEF Change, Found, Shaped, OpTypes, cell
  <2>4. CASE o.type = "delete_field"
    <3>1. PICK r \in o.before \ cell : c = Change("append", o.ent, o.field, {}, {r})
      BY <2>4 DEF Inverses, cell
    <3> QED  BY <1>1, <1>2, <2>1, <2>4, <3>1 DEF Change, Found, Shaped, OpTypes, cell
  <2>5. CASE o.type \in {"set_field", "file"}
    <3>1. c = Change(o.type, o.ent, o.field, cell, o.before)
      BY <2>5 DEF Inverses, cell
    <3> QED  BY <1>1, <1>2, <2>1, <2>5, <3>1 DEF Change, Found, Shaped, OpTypes, cell
  <2> QED  BY <1>1, <1>5, <2>2, <2>3, <2>4, <2>5 DEF OpTypes
<1> QED  BY <1>3, <1>4, <1>5

-----------------------------------------------------------------------------
(* Taking an operation back *)

\* Some of the rows operation o deleted are back in d, which held y before.
Partway(d, y, e, f, o) ==
    /\ o.type = "delete_field"
    /\ e \in d.recs <=> e \in y.recs
    /\ CellOf(y, e, f) \subseteq CellOf(d, e, f)
    /\ CellOf(d, e, f) \subseteq CellOf(y, e, f) \cup o.before

\* The inverse of an operation, applied to what the operation left, brings back
\* what it found; so does having nothing to apply.
LEMMA TakenBack ==
    ASSUME NEW x, NEW y, NEW o \in Op, Found(x, o), Left(x, y, o),
           x.rows \subseteq x.recs \X Row,
           NEW d, Sound(d), ~Refused(d, o),
           NEW f \in Fields, Covers(o, o.ent, f),
           Same(d, y, o.ent, f) \/ Partway(d, y, o.ent, f, o)
    PROVE  /\ Inverses(d, o) = {} => Same(d, x, o.ent, f)
           /\ \A c \in Inverses(d, o) : \A n :
                 o.type # "delete_field" /\ Left(d, n, c) => Same(n, x, o.ent, f)
<1> DEFINE e == o.ent
           cell == CellOf(d, e, o.field)
           rows == RowsOf(d, e)
<1>0. /\ o.type \in OpTypes /\ Shaped(o) /\ o.before \subseteq Row /\ o.after \subseteq Row
      /\ d.rows \subseteq d.recs \X Row
  BY DEF Op, Found, Sound, IsStore
<1>1. CellOf(y, e, f) = (CellOf(x, e, f) \ o.before) \cup {r \in o.after : r[1] = f}
  BY ChangedCell
<1>2. ASSUME NEW c \in Inverses(d, o), NEW n, Left(d, n, c)
      PROVE  /\ c.ent = e /\ Found(d, c)
             /\ CellOf(n, e, f) = (CellOf(d, e, f) \ c.before) \cup {r \in c.after : r[1] = f}
  <2>1. Found(d, c) /\ c.ent = e
    BY <1>0, InverseFound
  <2>2. CellOf(n, c.ent, f) = (CellOf(d, c.ent, f) \ c.before) \cup {r \in c.after : r[1] = f}
    BY <1>0, <1>2, <2>1, ChangedCell
  <2> QED  BY <2>1, <2>2
<1>3. \A z : /\ CellOf(z, e, f) \subseteq RowsOf(z, e)
             /\ \A r \in RowsOf(z, e) : r \in CellOf(z, e, f) <=> r[1] = f
  BY DEF CellOf
<1>4. x.rows \subseteq x.recs \X Row => (e \notin x.recs => RowsOf(x, e) = {})
  BY DEF RowsOf
<1>5. e \notin d.recs => RowsOf(d, e) = {}
  BY <1>0 DEF RowsOf
<1>6. CASE o.type = "create"
  <2>1. e \notin x.recs /\ e \in y.recs /\ CellOf(x, e, f) = {}
    BY <1>3, <1>4, <1>6 DEF Found, Left
  <2>2. e \in d.recs
    BY <1>6, <2>1 DEF Same, Partway
  <2>3. Inverses(d, o) = {Change("delete", e, NoField, rows, {})}
    BY <1>6, <2>2 DEF Inverses
  <2>4. ASSUME NEW c \in Inverses(d, o), NEW n, Left(d, n, c) PROVE Same(n, x, e, f)
    <3>1. c.type = "delete" /\ c.before = RowsOf(d, e) /\ c.after = {} /\ c.ent = e
      BY <2>3 DEF Change
    <3>2. e \notin n.recs
      BY <2>4, <3>1 DEF Left
    <3>3. CellOf(n, e, f) = {}
      BY <1>2, <1>3, <2>4, <3>1
    <3> QED  BY <2>1, <3>2, <3>3 DEF Same
  <2> QED  BY <2>3, <2>4
<1>7. CASE o.type = "delete"
  <2>1. e \in x.recs /\ o.before = RowsOf(x, e) /\ e \notin d.recs
    BY <1>7 DEF Found, Refused
  <2>2. Inverses(d, o) = {Change("create", e, NoField, {}, o.before)}
    BY <1>7 DEF Inverses
  <2>3. ASSUME NEW c \in Inverses(d, o), NEW n, Left(d, n, c) PROVE Same(n, x, e, f)
    <3>1. c.type = "create" /\ c.before = {} /\ c.after = o.before /\ c.ent = e
      BY <2>2 DEF Change
    <3>2. e \in n.recs
      BY <2>3, <3>1 DEF Left
    <3>3. CellOf(n, e, f) = CellOf(x, e, f)
      <4>1. CellOf(n, e, f) = (CellOf(d, e, f) \ {}) \cup {r \in RowsOf(x, e) : r[1] = f}
        BY <1>2, <2>1, <2>3, <3>1
      <4>2. CellOf(d, e, f) = {}
        BY <1>3, <1>5, <2>1
      <4> QED  BY <4>1, <4>2 DEF CellOf
    <3> QED  BY <2>1, <3>2, <3>3 DEF Same
  <2> QED  BY <2>2, <2>3
<1>8. CASE o.type = "set_record"
  <2>1. e \in x.recs /\ o.before = RowsOf(x, e)
    BY <1>8 DEF Found
  <2>2. Inverses(d, o) = {Change("set_record", e, NoField, rows, o.before)}
    BY <1>8 DEF Inverses
  <2>3. e \in d.recs
    BY <1>8, <2>2 DEF Refused
  <2>4. ASSUME NEW c \in Inverses(d, o), NEW n, Left(d, n, c) PROVE Same(n, x, e, f)
    <3>1. c.type = "set_record" /\ c.before = RowsOf(d, e) /\ c.after = o.before /\ c.ent = e
      BY <2>2 DEF Change
    <3>2. e \in n.recs
      BY <2>3, <2>4, <3>1 DEF Left
    <3>3. CellOf(n, e, f) = CellOf(x, e, f)
      BY <1>2, <1>3, <2>1, <2>4, <3>1
    <3> QED  BY <2>1, <3>2, <3>3 DEF Same
  <2> QED  BY <2>2, <2>4
<1>9. CASE o.type \notin {"create", "delete", "set_record"}
  <2>1. /\ o.field = f /\ e \in x.recs /\ y.recs = x.recs
        /\ \A r \in o.before \cup o.after : r[1] = f
    BY <1>9, NoFieldAssumption DEF Found, Shaped, Covers, Left
  <2>2. e \in d.recs /\ cell = CellOf(d, e, f)
    BY <2>1 DEF Same, Partway
  <2>3. CellOf(y, e, f) = (CellOf(x, e, f) \ o.before) \cup o.after
    BY <1>1, <2>1
  <2>4. CASE o.type = "append"
    <3>1. o.before = {} /\ o.after \cap CellOf(x, e, f) = {}
      BY <2>1, <2>4 DEF Found
    <3>2. CellOf(d, e, f) = CellOf(x, e, f) \cup o.after
      BY <2>3, <2>4, <3>1 DEF Same, Partway
    <3>3. Inverses(d, o) = {Change("delete_field", e, f, o.after, {})}
      BY <2>1, <2>2, <2>4, <3>2 DEF Inverses
    <3>4. ASSUME NEW c \in Inverses(d, o), NEW n, Left(d, n, c) PROVE Same(n, x, e, f)
      <4>1. c.type = "delete_field" /\ c.before = o.after /\ c.after = {} /\ c.ent = e
        BY <3>3 DEF Change
      <4>2. n.recs = d.recs
        BY <3>4, <4>1 DEF Left
      <4>3. CellOf(n, e, f) = CellOf(x, e, f)
        BY <1>2, <3>1, <3>2, <3>4, <4>1
      <4> QED  BY <2>1, <2>2, <4>2, <4>3 DEF Same
    <3> QED  BY <3>3, <3>4
  <2>5. CASE o.type = "delete_field"
    <3>1. o.after = {} /\ o.before \subseteq CellOf(x, e, f)
      BY <2>1, <2>5 DEF Found
    <3>2. Inverses(d, o) = {Change("append", e, f, {}, {r}) : r \in o.before \ cell}
      BY <2>1, <2>2, <2>5 DEF Inverses
    <3>3. ASSUME Inverses(d, o) = {} PROVE Same(d, x, e, f)
      <4>1. o.before \subseteq CellOf(d, e, f)
        BY <2>2, <3>2, <3>3
      <4>2. CellOf(d, e, f) = CellOf(x, e, f)
        BY <2>3, <3>1, <4>1 DEF Same, Partway
      <4> QED  BY <2>1, <2>2, <4>2 DEF Same
    <3> QED  BY <2>5, <3>3
  <2>6. CASE o.type \in {"set_field", "file"}
    <3>1. o.before = CellOf(x, e, f)
      BY <2>1, <2>6 DEF Found
    <3>2. Inverses(d, o) = IF o.before # {} \/ cell # {}
                           THEN {Change(o.type, e, f, cell, o.before)} ELSE {}
      BY <2>1, <2>6 DEF Inverses
    <3>3. ASSUME Inverses(d, o) = {} PROVE Same(d, x, e, f)
      <4>1. o.before = {} /\ cell = {}
        BY <3>2, <3>3
      <4> QED  BY <2>1, <2>2, <3>1, <4>1 DEF Same
    <3>4. ASSUME NEW c \in Inverses(d, o), NEW n, Left(d, n, c) PROVE Same(n, x, e, f)
      <4>1. c.type = o.type /\ c.before = CellOf(d, e, f) /\ c.after = o.before /\ c.ent = e
        BY <2>2, <3>2 DEF Change
      <4>2. n.recs = d.recs
        BY <2>6, <3>4, <4>1 DEF Left
      <4>3. CellOf(n, e, f) = CellOf(x, e, f)
        <5>1. CellOf(n, e, f) =
                 (CellOf(d, e, f) \ CellOf(d, e, f)) \cup {r \in o.before : r[1] = f}
          BY <1>2, <3>4, <4>1
        <5> QED  BY <2>1, <3>1, <5>1
      <4> QED  BY <2>1, <2>2, <4>2, <4>3 DEF Same
    <3> QED  BY <3>3, <3>4
  <2> QED  BY <1>0, <1>9, <2>4, <2>5, <2>6 DEF OpTypes
<1> QED  BY <1>6, <1>7, <1>8, <1>9

\* Putting back one row of a deleted field.
LEMMA RowBack ==
    ASSUME NEW y, NEW o \in Op, Shaped(o), o.type = "delete_field",
           NEW d, Sound(d), ~Refused(d, o), NEW c \in Inverses(d, o), NEW n, Left(d, n, c),
           NEW f \in Fields, Covers(o, o.ent, f),
           Same(d, y, o.ent, f) \/ Partway(d, y, o.ent, f, o)
    PROVE  Partway(n, y, o.ent, f, o)
<1> DEFINE e == o.ent
<1>1. o.field = f /\ \A r \in o.before : r[1] = f
  BY NoFieldAssumption DEF Shaped, Covers
<1>2. PICK r \in o.before \ CellOf(d, e, f) : c = Change("append", e, f, {}, {r})
  BY <1>1 DEF Inverses
<1>3. c.type = "append" /\ c.before = {} /\ c.after = {r} /\ c.ent = e
  BY <1>2 DEF Change
<1>4. n.recs = d.recs
  BY <1>3 DEF Left
<1>5. Found(d, c) /\ d.rows \subseteq d.recs \X Row
  BY InverseFound DEF Sound, IsStore
<1>6. CellOf(n, e, f) = (CellOf(d, e, f) \ c.before) \cup {s \in c.after : s[1] = f}
  BY <1>3, <1>5, ChangedCell
<1>7. CellOf(n, e, f) = CellOf(d, e, f) \cup {r}
  BY <1>1, <1>2, <1>3, <1>6
<1> QED  BY <1>2, <1>4, <1>7 DEF Same, Partway

-----------------------------------------------------------------------------
(* The inductive invariant of a revert *)

\* The operations the revert has taken back so far.
TakenOps == writer.target \ writer.todo

\* Seen from metarecord e and field f, the revert has gone back to moment p:
\* everything that covers them from there on is taken back, and nothing older.
BackTo(p, e, f) ==
    /\ \A j \in p..db.head :
          j \in DOMAIN db.ops /\ (Covers(db.ops[j], e, f) => j \in TakenOps)
    /\ \A j \in TakenOps : Covers(db.ops[j], e, f) => p <= j

\* The field holds what it held at moment p, but for the rows the newest
\* operation left is in the middle of putting back.
AsAt(p, e, f) ==
    \/ Same(view, PastAt(db, p), e, f)
    \/ \E k \in writer.todo :
          /\ \A j \in writer.todo : j <= k
          /\ Covers(db.ops[k], e, f)
          /\ Partway(view, PastAt(db, p), e, f, db.ops[k])

\* The revert goes newest first, and each field goes back with it.
Progress ==
    /\ writer.target \subseteq DOMAIN db.ops
    /\ writer.todo \subseteq writer.target
    /\ \A j \in TakenOps, k \in writer.todo : k < j
    /\ \A p \in Moments(db), e \in Uuids, f \in Fields : BackTo(p, e, f) => AsAt(p, e, f)

\* The inductive invariant: the log tells the history of both stores, and a
\* revert in progress has gone back along it.
HistoryInv ==
    /\ Inductive
    /\ History(db)
    /\ History(view)
    /\ writer.first = 0 => view.recs = db.recs /\ view.rows = db.rows
    /\ writer.mode = "revert" => Progress

\* A repository just created: one operation, which found nothing.
LEMMA InitHistory == Init => HistoryInv
<1> SUFFICES ASSUME Init PROVE HistoryInv
  OBVIOUS
<1> DEFINE d == Created
           o == [type |-> "create", ent |-> Root, field |-> NoField, before |-> {},
                 after |-> {}, label |-> 1, reverts |-> 0, watcher |-> FALSE]
           z == [recs |-> {}, rows |-> {}, role |-> "change"]
<1>1. /\ d.recs = {Root} /\ d.rows = {} /\ d.ops = [i \in {1} |-> o]
      /\ d.past = [i \in {1} |-> z] /\ d.nextOp = 2
  BY DEF Created
<1>2. /\ o.type = "create" /\ o.ent = Root /\ o.field = NoField /\ o.before = {}
      /\ o.after = {} /\ z.recs = {} /\ z.rows = {}
  OBVIOUS
<1> HIDE DEF d, o, z
<1>3. Found(z, o)
  BY <1>2 DEF Found, Shaped, OpTypes
<1>4. Left(z, d, o)
  BY <1>1, <1>2 DEF Left
<1>5. /\ DOMAIN d.ops = {1} /\ d.ops[1] = o /\ d.past[1] = z
      /\ Moments(d) = {1, 2} /\ PastAt(d, 1) = z /\ PastAt(d, 2) = d
  BY <1>1 DEF Moments, PastAt
<1>6. Told(d)
  BY <1>2, <1>3, <1>4, <1>5 DEF Told
<1>7. Steady(d)
  <2> SUFFICES ASSUME NEW i \in {1, 2}, NEW k \in {1, 2}, NEW e \in Uuids,
                      NEW f \in Fields \cup {NoField}, i <= k,
                      \A j \in i..(k - 1) : ~Covers(d.ops[j], e, f)
               PROVE  Same(PastAt(d, i), PastAt(d, k), e, f)
    BY <1>5 DEF Steady
  <2>1. CASE i = k
    BY <2>1 DEF Same
  <2>2. CASE i = 1 /\ k = 2
    <3>1. ~Covers(o, e, f)
      BY <1>5, <2>2
    <3> QED  BY <1>2, <1>3, <1>4, <1>5, <2>2, <3>1, Uncovered
  <2> QED  BY <2>1, <2>2
<1>8. db = d /\ view = d /\ writer.mode = "none"
  BY DEF Init, NoWriter, d
<1> QED  BY <1>6, <1>7, <1>8, InitInductive DEF HistoryInv, History

\* A step that leaves no revert in progress needs the histories only.
LEMMA HistoryFrom ==
    ASSUME Inductive', History(db)', History(view)', writer'.mode # "revert",
           writer'.first = 0 => view'.recs = db'.recs /\ view'.rows = db'.rows
    PROVE  HistoryInv'
BY DEF HistoryInv

\* Opening a transaction does not touch the metarecords nor the log.
LEMMA BeginHistory ==
    ASSUME HistoryInv, Inductive', NEW d, NEW l, NEW opened, NEW w,
           BeginIn(d, l, opened, w), SameStory(db, d)
    PROVE  HistoryInv'
<1>1. view' = d /\ db' = db /\ writer'.mode = "write"
  BY DEF BeginIn, NoWriter
<1>2. History(d) /\ History(db)
  BY StoryKept DEF HistoryInv
<1> QED  BY <1>1, <1>2, HistoryFrom DEF SameStory

\* Labels put in or dropped.
LEMMA LabelStory ==
    ASSUME NEW d, IsStore(d)
    PROVE  /\ \A p : SameStory(d, WithLabel(d, p))
           /\ \A p, k : SameStory(d, WithCommandLabel(d, k, p))
           /\ SameStory(d, WithWatcherLabel(d))
           /\ \A L : SameStory(d, WithoutLabels(d, L))
<1>1. ASSUME NEW p PROVE SameStory(d, WithLabel(d, p))
                         /\ DOMAIN WithLabel(d, p) = DOMAIN d
  BY DEF SameStory, WithLabel, IsStore
<1>2. ASSUME NEW p, NEW k PROVE SameStory(d, WithCommandLabel(d, k, p))
  <2> DEFINE m == WithLabel(d, p)
  <2>1. SameStory(d, m) /\ DOMAIN m = DOMAIN d
    BY <1>1
  <2>2. WithCommandLabel(d, k, p) =
          [m EXCEPT !.commands = [c \in DOMAIN d.commands \cup {k} |->
                                     IF c = k THEN d.nextLabel ELSE d.commands[c]]]
    BY DEF WithCommandLabel
  <2> HIDE DEF m
  <2> QED  BY <2>1, <2>2 DEF SameStory, IsStore
<1>3. SameStory(d, WithWatcherLabel(d))
  <2> DEFINE m == WithLabel(d, 0)
  <2>1. SameStory(d, m) /\ DOMAIN m = DOMAIN d
    BY <1>1
  <2>2. \/ WithWatcherLabel(d) = d
        \/ WithWatcherLabel(d) = [m EXCEPT !.watcherLabel = d.nextLabel]
    BY DEF WithWatcherLabel
  <2> HIDE DEF m
  <2> QED  BY <2>1, <2>2 DEF SameStory, IsStore
<1>4. ASSUME NEW L PROVE SameStory(d, WithoutLabels(d, L))
  BY DEF SameStory, WithoutLabels, IsStore
<1> QED  BY <1>1, <1>2, <1>3, <1>4

\* One change of a client's or of the watcher's.
LEMMA WriteHistory ==
    ASSUME HistoryInv, Inductive', NEW c, Found(view, c), Write(c)
    PROVE  HistoryInv'
<1>1. /\ view' = Logged(view, writer, c, 0) /\ db' = db
      /\ writer' = [writer EXCEPT !.first = Started] /\ writer.mode = "write"
  BY DEF Write, Apply
<1>2. writer \in Writers /\ IsStore(view) /\ History(view) /\ History(db)
  BY DEF HistoryInv, Inductive, Sound
<1>3. writer'.mode = "write" /\ writer'.first = Started /\ Started # 0
  BY <1>1, <1>2 DEF Writers, Started, IsStore
<1>4. History(view')
  BY <1>1, <1>2, HistoryGrows
<1> QED  BY <1>1, <1>2, <1>3, <1>4, HistoryFrom

\* Every edit says what it found.
LEMMA EditHistory == HistoryInv /\ Edit => HistoryInv'
<1> SUFFICES ASSUME HistoryInv, Edit PROVE HistoryInv'
  OBVIOUS
<1>0. Inductive'
  BY EditKeeps DEF HistoryInv
<1>1. Sound(view) /\ view.rows \subseteq view.recs \X Row
  BY DEF HistoryInv, Inductive, Sound, IsStore
<1>2. /\ \A e, f : CellOf(view, e, f) \subseteq RowsOf(view, e) /\ RowsOf(view, e) \subseteq Row
      /\ \A e, f : \A r \in CellOf(view, e, f) : r[1] = f
      /\ \A e : RowsOf(view, e) # {} => e \in view.recs
  BY <1>1 DEF RowsOf, CellOf
<1>3. ASSUME NEW e \in Records, NEW R \in SUBSET Row, CreateRecord(e, R)
      PROVE  HistoryInv'
  <2>1. Found(view, Change("create", e, NoField, {}, R))
    BY <1>3 DEF Change, Found, Shaped, OpTypes, CreateRecord
  <2> QED  BY <1>0, <1>3, <2>1, WriteHistory DEF CreateRecord
<1>4. ASSUME NEW e \in Records, NEW R \in SUBSET Row, SetRecord(e, R)
      PROVE  HistoryInv'
  <2>1. Found(view, Change("set_record", e, NoField, RowsOf(view, e), R))
    BY <1>2, <1>4 DEF Change, Found, Shaped, OpTypes, SetRecord
  <2> QED  BY <1>0, <1>4, <2>1, WriteHistory DEF SetRecord
<1>5. ASSUME NEW e \in Records, DeleteRecord(e)
      PROVE  HistoryInv'
  <2>1. Found(view, Change("delete", e, NoField, RowsOf(view, e), {}))
    BY <1>2, <1>5 DEF Change, Found, Shaped, OpTypes, DeleteRecord
  <2> QED  BY <1>0, <1>5, <2>1, WriteHistory DEF DeleteRecord
<1>6. ASSUME NEW e \in Records, NEW f \in Fields, NEW V \in SUBSET Values,
             NEW t \in {"set_field", "file"}, SetField(t, e, f, V)
      PROVE  HistoryInv'
  <2>1. {f} \X V \subseteq Row /\ \A r \in {f} \X V : r[1] = f
    BY DEF Row
  <2>2. Found(view, Change(t, e, f, CellOf(view, e, f), {f} \X V))
    BY <1>2, <1>6, <2>1 DEF Change, Found, Shaped, OpTypes, SetField
  <2> QED  BY <1>0, <1>6, <2>2, WriteHistory DEF SetField
<1>7. ASSUME NEW e \in Records, NEW f \in Fields, ClearField(e, f)
      PROVE  HistoryInv'
  <2>1. e \in view.recs
    BY <1>2, <1>7 DEF ClearField
  <2>2. Found(view, Change("file", e, f, CellOf(view, e, f), {}))
    BY <1>2, <2>1 DEF Change, Found, Shaped, OpTypes
  <2> QED  BY <1>0, <1>7, <2>2, WriteHistory DEF ClearField
<1>8. ASSUME NEW e \in Records, NEW f \in Fields, NEW v \in Values, AppendField(e, f, v)
      PROVE  HistoryInv'
  <2>1. <<f, v>> \in Row /\ <<f, v>>[1] = f
    BY DEF Row
  <2>2. Found(view, Change("append", e, f, {}, {<<f, v>>}))
    BY <1>8, <2>1 DEF Change, Found, Shaped, OpTypes, AppendField
  <2> QED  BY <1>0, <1>8, <2>2, WriteHistory DEF AppendField
<1>9. ASSUME NEW e \in Records, NEW f \in Fields, NEW R \in SUBSET Row,
             DeleteFieldRows(e, f, R)
      PROVE  HistoryInv'
  <2>1. R # {} /\ R \subseteq CellOf(view, e, f)
    BY <1>9 DEF DeleteFieldRows
  <2>2. e \in view.recs
    BY <1>2, <2>1
  <2>3. Found(view, Change("delete_field", e, f, R, {}))
    BY <1>2, <2>1, <2>2 DEF Change, Found, Shaped, OpTypes
  <2> QED  BY <1>0, <1>9, <2>3, WriteHistory DEF DeleteFieldRows
<1>10. ASSUME NEW e \in Records, NEW old \in Row, NEW new \in Row, ReplaceField(e, old, new)
       PROVE  HistoryInv'
  <2> DEFINE c1 == Change("delete_field", e, old[1], {old}, {})
             c2 == Change("append", e, new[1], {}, {new})
             d == Logged(view, writer, c1, 0)
             n == Logged(d, writer, c2, 0)
  <2>1. /\ view' = n /\ db' = db /\ writer' = [writer EXCEPT !.first = Started]
        /\ writer.mode = "write" /\ old \in RowsOf(view, e) /\ new \notin RowsOf(view, e) \ {old}
        /\ view.nextOp < MaxOps /\ WriterSound /\ writer \in Writers /\ Inductive
        /\ History(view) /\ History(db)
    BY <1>10 DEF ReplaceField, HistoryInv, Inductive, Closed
  <2>2. /\ e \in view.recs /\ old[1] \in Fields /\ new[1] \in Fields
        /\ old \in CellOf(view, e, old[1])
    BY <1>2, <2>1 DEF CellOf, Row
  <2>3. Found(view, c1)
    BY <2>2 DEF Change, Found, Shaped, OpTypes
  <2>4. History(d) /\ Left(view, d, c1)
    BY <1>1, <2>1, <2>3, HistoryGrows DEF Sound
  <2>5. Sound(d)
    <3>1. Fits(view, c1) /\ view.nextOp <= MaxOps /\ 0 \in 0..MaxOps
      BY <1>1, <2>1, OpsAssumption DEF Change, Fits, OpTypes, Row, Uuids, Sound, IsStore
    <3> HIDE DEF c1
    <3> QED  BY <1>1, <2>1, <3>1, OpAdded DEF WriterSound
  <2>6. RowsOf(d, e) = RowsOf(view, e) \ {old} /\ d.recs = view.recs
    <3>1. c1.ent = e /\ c1.before = {old} /\ c1.after = {} /\ c1.type = "delete_field"
      BY DEF Change
    <3> HIDE DEF c1, d
    <3>2. RowsOf(d, c1.ent) = (RowsOf(view, c1.ent) \ c1.before) \cup c1.after
      BY <1>1, <2>3, <2>4, ChangedCell
    <3> QED  BY <2>4, <3>1, <3>2 DEF Left
  <2> HIDE DEF d
  <2>7. Found(d, c2)
    <3>1. /\ c2.ent = e /\ c2.before = {} /\ c2.after = {new}
          /\ c2.type = "append" /\ c2.field = new[1]
      BY DEF Change
    <3> HIDE DEF c2
    <3>2. new \notin CellOf(d, e, new[1])
      BY <2>1, <2>6 DEF CellOf
    <3> QED  BY <2>2, <2>6, <3>1, <3>2 DEF Found, Shaped, OpTypes
  <2>8. History(n)
    BY <2>4, <2>5, <2>7, HistoryGrows DEF Sound
  <2>9. writer'.mode = "write" /\ writer'.first = Started /\ Started # 0
    BY <1>1, <2>1 DEF Writers, Started, Sound, IsStore
  <2> QED  BY <1>0, <2>1, <2>8, <2>9, HistoryFrom
<1> QED
  BY <1>3, <1>4, <1>5, <1>6, <1>7, <1>8, <1>9, <1>10 DEF Edit

\* A revert that begins has taken nothing back.
LEMMA RevertBegins ==
    ASSUME HistoryInv, Inductive', NEW S \in SUBSET DOMAIN db.ops, NEW how,
           BeginRevert(S, how)
    PROVE  HistoryInv'
<1>1. /\ view' = view /\ db' = db /\ writer.first = 0 /\ writer \in Writers
      /\ writer' = [writer EXCEPT !.mode = "revert", !.target = Effective(S, how),
                                  !.todo = Effective(S, how)]
  BY DEF BeginRevert, HistoryInv, Inductive
<1>2. /\ writer'.target = Effective(S, how) /\ writer'.todo = Effective(S, how)
      /\ writer'.first = 0 /\ writer'.mode = "revert"
  BY <1>1 DEF Writers
<1>3. Effective(S, how) \subseteq DOMAIN db.ops
  BY DEF Effective
<1>4. IsStore(db) /\ db.head = db.nextOp - 1 /\ History(db)
      /\ view.recs = db.recs /\ view.rows = db.rows
  BY <1>1 DEF HistoryInv, Inductive, Sound, HeadInLog
<1>5. TakenOps' = {}
  BY <1>2 DEF TakenOps
<1>6. ASSUME NEW p \in Moments(db), NEW e \in Uuids, NEW f \in Fields, BackTo(p, e, f)'
      PROVE  AsAt(p, e, f)'
  <2>1. /\ p \in Nat /\ p <= db.nextOp /\ db.nextOp \in Moments(db)
        /\ db.nextOp \notin DOMAIN db.ops
    BY <1>4 DEF Moments, IsStore
  <2>2. \A j \in p..(db.nextOp - 1) : j \in DOMAIN db.ops /\ ~Covers(db.ops[j], e, f)
    BY <1>1, <1>4, <1>5, <1>6 DEF BackTo
  <2>3. Same(PastAt(db, p), PastAt(db, db.nextOp), e, f)
    BY <1>4, <2>1, <2>2 DEF History, Steady
  <2>4. PastAt(db, db.nextOp) = db
    BY <2>1 DEF PastAt
  <2>5. Same(view, PastAt(db, p), e, f)
    BY <1>4, <2>3, <2>4 DEF Same, CellOf, RowsOf
  <2> QED  BY <1>1, <2>5 DEF AsAt
<1>7. Progress'
  BY <1>1, <1>2, <1>3, <1>5, <1>6 DEF Progress
<1> QED  BY <1>1, <1>2, <1>4, <1>7 DEF HistoryInv

\* Every way to begin.
LEMMA OpeningHistory == HistoryInv /\ Begin => HistoryInv'
<1> SUFFICES ASSUME HistoryInv, Begin PROVE HistoryInv'
  OBVIOUS
<1>0. Inductive' /\ IsStore(db) /\ SameStory(db, db)
  BY OpeningKeeps DEF HistoryInv, Inductive, Sound, SameStory
<1>1. CASE BeginNew
  BY <1>0, <1>1, LabelStory, BeginHistory DEF BeginNew
<1>2. ASSUME NEW l \in Labels, BeginInLabel(l) PROVE HistoryInv'
  BY <1>0, <1>2, BeginHistory DEF BeginInLabel
<1>3. ASSUME NEW k \in Commands, NEW p \in 0..MaxLabels, BeginCommand(k, p) PROVE HistoryInv'
  <2>1. CASE BeginIn(db, db.commands[k], FALSE, FALSE)
    BY <1>0, <2>1, BeginHistory
  <2>2. CASE BeginIn(WithCommandLabel(db, k, p), db.nextLabel, TRUE, FALSE)
    BY <1>0, <2>2, LabelStory, BeginHistory
  <2> QED  BY <1>3, <2>1, <2>2 DEF BeginCommand
<1>4. CASE BeginWatcher
  <2> DEFINE d == WithWatcherLabel(db)
             n == WithLabel(d, d.watcherLabel)
  <2>1. BeginIn(n, d.nextLabel, TRUE, TRUE) /\ d.nextLabel <= MaxLabels
    BY <1>4 DEF BeginWatcher
  <2>2. SameStory(db, d)
    BY <1>0, LabelStory
  <2>3. IsStore(d)
    BY <2>1, WatcherLabelAdded DEF HistoryInv, Inductive, Sound
  <2> HIDE DEF d
  <2>4. SameStory(d, n)
    BY <2>3, LabelStory
  <2>5. SameStory(db, n)
    BY <2>2, <2>4 DEF SameStory
  <2> HIDE DEF n
  <2> QED  BY <1>0, <2>1, <2>5, BeginHistory
<1>5. ASSUME NEW S \in SUBSET DOMAIN db.ops, NEW how \in {"plain", "skip", "coordinated"},
             BeginRevert(S, how)
      PROVE  HistoryInv'
  BY <1>0, <1>5, RevertBegins
<1> QED
  BY <1>1, <1>2, <1>3, <1>4, <1>5 DEF Begin

\* A field the newest operation left covers goes back with it, once it is done.
LEMMA FieldGoesBack ==
    ASSUME HistoryInv, Progress, NEW k \in writer.todo, \A j \in writer.todo : j <= k,
           ~Refused(view, db.ops[k]),
           NEW n,
           \/ Inverses(view, db.ops[k]) = {} /\ n.recs = view.recs /\ n.rows = view.rows
           \/ /\ db.ops[k].type # "delete_field"
              /\ \E c \in Inverses(view, db.ops[k]) : Left(view, n, c),
           NEW p \in Moments(db), NEW e \in Uuids, NEW f \in Fields,
           Covers(db.ops[k], e, f),
           \A j \in p..db.head :
              j \in DOMAIN db.ops /\ (Covers(db.ops[j], e, f) => j \in TakenOps \cup {k}),
           p <= k
    PROVE  Same(n, PastAt(db, p), e, f)
<1> DEFINE o == db.ops[k]
           x == db.past[k]
           y == PastAt(db, k + 1)
<1>1. /\ IsStore(db) /\ Sound(view) /\ History(db)
      /\ db.head = db.nextOp - 1 /\ k \in DOMAIN db.ops
  BY DEF HistoryInv, Inductive, Sound, HeadInLog, Progress
<1>2. /\ k \in Nat /\ p \in Nat /\ db.nextOp \in Nat /\ k <= db.head /\ o \in Op
      /\ db.nextOp \notin DOMAIN db.ops /\ TakenOps \subseteq DOMAIN db.ops
      /\ \A j \in DOMAIN db.ops : j \in Nat /\ j < db.nextOp
  BY <1>1 DEF IsStore, Moments, TakenOps, Progress
<1>3. k + 1 \in Moments(db)
  <2>1. CASE k = db.head
    BY <1>1, <1>2, <2>1 DEF Moments
  <2>2. CASE k < db.head
    <3>1. k + 1 \in p..db.head
      BY <1>1, <1>2, <2>2
    <3> QED  BY <3>1 DEF Moments
  <2> QED  BY <1>1, <1>2, <2>1, <2>2
<1>4. Found(x, o) /\ x.rows \subseteq x.recs \X Row /\ Left(x, y, o) /\ e = o.ent
  BY <1>1, <1>3 DEF History, Told, Covers
<1>5. BackTo(k + 1, e, f)
  <2>1. ASSUME NEW j \in (k + 1)..db.head
        PROVE  j \in DOMAIN db.ops /\ (Covers(db.ops[j], e, f) => j \in TakenOps)
    <3>1. j \in p..db.head /\ j # k
      BY <1>1, <1>2
    <3> QED  BY <3>1
  <2>2. ASSUME NEW j \in TakenOps PROVE k + 1 <= j
    BY <1>2 DEF Progress
  <2> QED  BY <2>1, <2>2 DEF BackTo
<1>6. Same(view, y, e, f) \/ Partway(view, y, e, f, o)
  <2>1. AsAt(k + 1, e, f)
    BY <1>3, <1>5 DEF Progress
  <2>2. ASSUME NEW i \in writer.todo, \A j \in writer.todo : j <= i PROVE i = k
    BY <1>2, <2>2 DEF Progress
  <2> QED  BY <2>1, <2>2 DEF AsAt
<1> HIDE DEF o, x, y
<1>7. Same(n, x, e, f)
  <2>1. /\ Inverses(view, o) = {} => Same(view, x, e, f)
        /\ \A c \in Inverses(view, o) : \A m :
              o.type # "delete_field" /\ Left(view, m, c) => Same(m, x, e, f)
    BY <1>1, <1>2, <1>4, <1>6, TakenBack DEF o
  <2>2. CASE Inverses(view, o) = {} /\ n.recs = view.recs /\ n.rows = view.rows
    BY <2>1, <2>2 DEF Same, CellOf, RowsOf
  <2>3. CASE o.type # "delete_field" /\ \E c \in Inverses(view, o) : Left(view, n, c)
    BY <2>1, <2>3
  <2> QED  BY <2>2, <2>3 DEF o
<1>8. Same(PastAt(db, p), x, e, f)
  <2>1. ASSUME NEW j \in p..(k - 1) PROVE j \in DOMAIN db.ops /\ ~Covers(db.ops[j], e, f)
    <3>1. j \in p..db.head /\ j < k /\ j # k
      BY <1>1, <1>2
    <3>2. j \in TakenOps => k < j
      BY DEF Progress
    <3>3. j \in Nat
      BY <1>2, <2>1
    <3> QED  BY <1>2, <3>1, <3>2, <3>3
  <2>2. k \in Moments(db)
    BY <1>1 DEF Moments
  <2>3. Same(PastAt(db, p), PastAt(db, k), e, f)
    BY <1>1, <2>1, <2>2 DEF History, Steady
  <2> QED  BY <1>1, <2>3 DEF PastAt, x
<1> QED  BY <1>7, <1>8 DEF Same

\* One turn of a revert takes every field it covers one operation back, and
\* leaves the others.
LEMMA RevertHistory ==
    ASSUME HistoryInv, NEW k \in OpIds, RevertNewest(k)
    PROVE  HistoryInv'
<1> DEFINE o == db.ops[k]
<1>0. Inductive'
  BY RevertKeeps DEF HistoryInv
<1>1. /\ writer.mode = "revert" /\ k \in writer.todo /\ \A j \in writer.todo : j <= k
      /\ ~Refused(view, o) /\ writer \in Writers /\ Sound(view) /\ db' = db
      /\ Progress /\ History(db) /\ History(view) /\ IsStore(db) /\ IsStore(view)
  BY DEF RevertNewest, HistoryInv, Inductive, Sound
<1>2. k \in DOMAIN db.ops /\ o \in Op /\ Shaped(o) /\ k \in Nat
  BY <1>1 DEF Progress, History, Told, Found, IsStore
<1> HIDE DEF o
<1>3. ASSUME NEW p \in Moments(db), NEW e \in Uuids, NEW f \in Fields, BackTo(p, e, f),
             ~Covers(o, e, f)
      PROVE  Same(view, PastAt(db, p), e, f)
  <2>1. AsAt(p, e, f)
    BY <1>1, <1>3 DEF Progress
  <2>2. ASSUME NEW i \in writer.todo, \A j \in writer.todo : j <= i PROVE i = k
    <3>1. i \in Nat /\ i <= k /\ k <= i
      BY <1>1, <1>2, <2>2 DEF Progress, IsStore
    <3> QED  BY <1>2, <3>1
  <2> QED  BY <1>3, <2>1, <2>2 DEF AsAt, o
<1>4. ASSUME NEW c \in Inverses(view, o), Apply(c, k)
      PROVE  /\ Found(view, c) /\ c.ent = o.ent /\ c.field = o.field
             /\ History(view') /\ Left(view, view', c)
             /\ \A e, f : Covers(c, e, f) <=> Covers(o, e, f)
  <2>1. Found(view, c) /\ c.ent = o.ent /\ c.field = o.field
    BY <1>1, <1>2, InverseFound
  <2>2. view' = Logged(view, writer, c, k)
    BY <1>4 DEF Apply
  <2>3. History(view') /\ Left(view, view', c)
    BY <1>1, <2>1, <2>2, HistoryGrows
  <2> QED  BY <2>1, <2>3 DEF Covers
<1>5. ASSUME NEW c \in Inverses(view, o), Apply(c, k), NEW e \in Uuids, NEW f \in Fields,
             ~Covers(o, e, f)
      PROVE  Same(view, view', e, f)
  <2>1. view.rows \subseteq view.recs \X Row
    BY <1>1 DEF IsStore
  <2> QED  BY <1>4, <1>5, <2>1, Uncovered
\* The operation is done with.
<1>6. ASSUME writer' = [writer EXCEPT !.first = writer'.first, !.todo = @ \ {k}],
             \/ Inverses(view, o) = {} /\ view' = view
             \/ o.type # "delete_field" /\ \E c \in Inverses(view, o) : Apply(c, k)
      PROVE  Progress'
  <2>1. /\ writer'.target = writer.target /\ writer'.todo = writer.todo \ {k}
        /\ TakenOps' = TakenOps \cup {k}
    BY <1>1, <1>6 DEF Writers, TakenOps, Progress
  <2>2. \A j \in TakenOps', i \in writer'.todo : i < j
    <3> SUFFICES ASSUME NEW j \in TakenOps \cup {k}, NEW i \in writer.todo \ {k}
                 PROVE  i < j
      BY <2>1
    <3>1. i \in Nat /\ i <= k /\ i # k
      BY <1>1 DEF Progress, IsStore
    <3>2. CASE j = k
      BY <1>2, <3>1, <3>2
    <3>3. CASE j \in TakenOps
      BY <1>1, <3>3 DEF Progress
    <3> QED  BY <3>2, <3>3
  <2>3. ASSUME NEW p \in Moments(db), NEW e \in Uuids, NEW f \in Fields, BackTo(p, e, f)'
        PROVE  AsAt(p, e, f)'
    <3>1. /\ \A j \in p..db.head :
                j \in DOMAIN db.ops /\ (Covers(db.ops[j], e, f) => j \in TakenOps \cup {k})
          /\ \A j \in TakenOps \cup {k} : Covers(db.ops[j], e, f) => p <= j
      BY <1>1, <2>1, <2>3 DEF BackTo
    <3>2. CASE ~Covers(o, e, f)
      <4>1. BackTo(p, e, f)
        BY <3>1, <3>2 DEF BackTo, o
      <4>2. Same(view, PastAt(db, p), e, f)
        BY <1>3, <3>2, <4>1
      <4>3. Same(view, view', e, f)
        <5>1. CASE view' = view
          BY <5>1 DEF Same
        <5>2. CASE \E c \in Inverses(view, o) : Apply(c, k)
          BY <1>5, <3>2, <5>2
        <5> QED  BY <1>6, <5>1, <5>2
      <4>4. Same(view', PastAt(db, p), e, f)
        BY <4>2, <4>3 DEF Same
      <4> QED  BY <1>1, <4>4 DEF AsAt
    <3>3. CASE Covers(o, e, f)
      <4>1. p <= k
        BY <3>1, <3>3 DEF o
      <4>2. \/ Inverses(view, o) = {} /\ view'.recs = view.recs /\ view'.rows = view.rows
            \/ o.type # "delete_field" /\ \E c \in Inverses(view, o) : Left(view, view', c)
        BY <1>4, <1>6
      <4>3. Same(view', PastAt(db, p), e, f)
        BY <1>1, <3>1, <3>3, <4>1, <4>2, FieldGoesBack DEF o
      <4> QED  BY <1>1, <4>3 DEF AsAt
    <3> QED  BY <3>2, <3>3
  <2> QED  BY <1>1, <2>1, <2>2, <2>3 DEF Progress
\* A row of a deleted field is back, others may be left.
<1>7. ASSUME writer' = [writer EXCEPT !.first = writer'.first],
             o.type = "delete_field",
             NEW c \in Inverses(view, o), Apply(c, k)
      PROVE  Progress'
  <2>1. writer'.target = writer.target /\ writer'.todo = writer.todo /\ TakenOps' = TakenOps
    BY <1>1, <1>7 DEF Writers, TakenOps
  <2>2. ASSUME NEW p \in Moments(db), NEW e \in Uuids, NEW f \in Fields, BackTo(p, e, f)'
        PROVE  AsAt(p, e, f)'
    <3>1. BackTo(p, e, f)
      BY <1>1, <2>1, <2>2 DEF BackTo
    <3>2. CASE ~Covers(o, e, f)
      <4>1. Same(view, PastAt(db, p), e, f) /\ Same(view, view', e, f)
        BY <1>3, <1>5, <1>7, <3>1, <3>2
      <4>2. Same(view', PastAt(db, p), e, f)
        BY <4>1 DEF Same
      <4> QED  BY <1>1, <4>2 DEF AsAt
    <3>3. CASE Covers(o, e, f)
      <4>1. e = o.ent
        BY <3>3 DEF Covers
      <4>2. Same(view, PastAt(db, p), e, f) \/ Partway(view, PastAt(db, p), e, f, o)
        <5>1. AsAt(p, e, f)
          BY <1>1, <3>1 DEF Progress
        <5>2. ASSUME NEW i \in writer.todo, \A j \in writer.todo : j <= i PROVE i = k
          <6>1. i \in Nat /\ i <= k /\ k <= i
            BY <1>1, <1>2, <5>2 DEF Progress, IsStore
          <6> QED  BY <1>2, <6>1
        <5> QED  BY <5>1, <5>2 DEF AsAt, o
      <4>3. Left(view, view', c)
        BY <1>4, <1>7
      <4>4. Partway(view', PastAt(db, p), e, f, o)
        BY <1>1, <1>2, <1>7, <3>3, <4>1, <4>2, <4>3, RowBack
      <4>5. PastAt(db, p)' = PastAt(db, p)
        BY <1>1 DEF PastAt
      <4> QED  BY <1>1, <2>1, <3>3, <4>4, <4>5 DEF AsAt, o
    <3> QED  BY <3>2, <3>3
  <2> QED  BY <1>1, <2>1, <2>2 DEF Progress
<1>8. CASE Inverses(view, o) = {} /\ writer' = [writer EXCEPT !.todo = @ \ {k}]
           /\ view' = view
  <2>1. /\ writer'.first = writer.first
        /\ writer' = [writer EXCEPT !.first = writer'.first, !.todo = @ \ {k}]
    BY <1>1, <1>8 DEF Writers
  <2>2. Progress'
    BY <1>6, <1>8, <2>1
  <2> QED  BY <1>0, <1>1, <1>8, <2>1, <2>2 DEF HistoryInv
<1>9. ASSUME NEW c \in Inverses(view, o), Apply(c, k),
             writer' = [writer EXCEPT !.first = Started,
                           !.todo = IF o.type = "delete_field" THEN @ ELSE @ \ {k}]
      PROVE  HistoryInv'
  <2>1. writer'.first = Started /\ Started # 0
    BY <1>1, <1>9 DEF Writers, Started, IsStore
  <2>2. CASE o.type = "delete_field"
    <3>1. writer' = [writer EXCEPT !.first = writer'.first]
      BY <1>1, <1>9, <2>1, <2>2 DEF Writers
    <3>2. Progress'
      BY <1>7, <1>9, <2>2, <3>1
    <3> QED  BY <1>0, <1>1, <1>4, <1>9, <2>1, <3>2 DEF HistoryInv
  <2>3. CASE o.type # "delete_field"
    <3>1. writer' = [writer EXCEPT !.first = writer'.first, !.todo = @ \ {k}]
      BY <1>1, <1>9, <2>1, <2>3 DEF Writers
    <3>2. Progress'
      BY <1>6, <1>9, <2>3, <3>1
    <3> QED  BY <1>0, <1>1, <1>4, <1>9, <2>1, <3>2 DEF HistoryInv
  <2> QED  BY <2>2, <2>3
<1> QED
  BY <1>8, <1>9 DEF RevertNewest, o

\* What a commit leaves of the metarecords and of the log: the retention and
\* the empty label take operations and labels only.
LEMMA FinalStory ==
    ASSUME Inductive, Commit
    PROVE  /\ Final.recs = view.recs /\ Final.rows = view.rows /\ Final.nextOp = view.nextOp
           /\ \E K \in SUBSET DOMAIN view.ops :
                 /\ Final.ops = [i \in K |-> view.ops[i]]
                 /\ Final.past = [i \in K |-> view.past[i]]
                 /\ writer.first = 0 => K = DOMAIN view.ops
                 /\ LimitOf(TRUE) = 0 /\ LimitOf(FALSE) = 0 => K = DOMAIN view.ops
<1>1. IsStore(view) /\ view.nextOp \in Nat
  BY DEF Inductive, Sound, IsStore
<1>2. CASE writer.first = 0
  <2>1. PICK L : Final = WithoutLabels(view, L)
    BY <1>2 DEF Final
  <2>2. SameStory(view, Final)
    BY <1>1, <2>1, LabelStory
  <2>3. /\ view.ops = [i \in DOMAIN view.ops |-> view.ops[i]]
        /\ view.past = [i \in DOMAIN view.ops |-> view.past[i]]
    BY <1>1 DEF IsStore
  <2> QED  BY <2>2, <2>3 DEF SameStory
<1>3. CASE writer.first # 0
  <2> DEFINE e == [view EXCEPT !.head = view.nextOp - 1]
             D == Doomed(e, TRUE, writer.first) \cup Doomed(e, FALSE, writer.first)
             K == DOMAIN view.ops \ D
  <2>1. Final = WithoutOps(e, D)
    BY <1>3 DEF Final, Trimmed
  <2>2. SameStory(view, e) /\ DOMAIN e = DOMAIN view
    BY <1>1 DEF SameStory, IsStore
  <2>3. IsStore(e)
    <3>1. /\ e.labels = view.labels /\ e.watcherLabel = view.watcherLabel
          /\ e.commands = view.commands /\ e.posted = view.posted
          /\ e.nextLabel = view.nextLabel /\ e.head = view.nextOp - 1
      BY <1>1 DEF IsStore
    <3>2. WriterSound
      BY DEF Inductive, Commit, Done, Closed
    <3>3. view.nextOp - 1 \in OpIds
      BY <1>1, <1>3, <3>2, OpsAssumption DEF WriterSound, IsStore, OpIds
    <3> HIDE DEF e
    <3> QED  BY <1>1, <2>2, <3>1, <3>3 DEF SameStory, IsStore
  <2>4. LimitOf(TRUE) = 0 /\ LimitOf(FALSE) = 0 => D = {}
    BY DEF Doomed
  <2> HIDE DEF e, D
  <2>5. /\ Final.recs = e.recs /\ Final.rows = e.rows /\ Final.nextOp = e.nextOp
        /\ Final.ops = [i \in DOMAIN e.ops \ D |-> e.ops[i]]
        /\ Final.past = [i \in DOMAIN e.ops \ D |-> e.past[i]]
    BY <2>1, <2>3, CutStory
  <2>6. /\ K \in SUBSET DOMAIN view.ops
        /\ Final.ops = [i \in K |-> view.ops[i]]
        /\ Final.past = [i \in K |-> view.past[i]]
        /\ LimitOf(TRUE) = 0 /\ LimitOf(FALSE) = 0 => K = DOMAIN view.ops
    BY <2>2, <2>4, <2>5 DEF SameStory
  <2> HIDE DEF K
  <2> QED  BY <1>3, <2>2, <2>5, <2>6 DEF SameStory
<1> QED  BY <1>2, <1>3

\* A commit, a dropped transaction, a prune and a label opened by hand.
LEMMA ClosingHistory ==
    ASSUME HistoryInv, Inductive',
           \/ Commit \/ Abort
           \/ \E i \in OpIds : Prune(i)
           \/ \E l \in 0..MaxLabels : CreateLabel(l)
    PROVE  HistoryInv'
<1>0. Inductive /\ IsStore(db) /\ IsStore(view) /\ History(db) /\ History(view)
  BY DEF HistoryInv, Inductive, Sound
<1>1. CASE Commit
  <2>1. db' = Final /\ view' = Final /\ writer'.mode = "none"
    BY <1>1 DEF Commit, NoWriter
  <2>2. History(Final)
    <3>1. /\ Final.recs = view.recs /\ Final.rows = view.rows /\ Final.nextOp = view.nextOp
          /\ \E K \in SUBSET DOMAIN view.ops :
                 /\ Final.ops = [i \in K |-> view.ops[i]]
                 /\ Final.past = [i \in K |-> view.past[i]]
      BY <1>0, <1>1, FinalStory
    <3> QED  BY <1>0, <3>1, HistoryCut
  <2> QED  BY <2>1, <2>2, HistoryFrom
<1>2. CASE Abort
  BY <1>0, <1>2, HistoryFrom DEF Abort, NoWriter
<1>3. ASSUME NEW t \in OpIds, Prune(t) PROVE HistoryInv'
  <2> DEFINE D == {i \in DOMAIN db.ops : i < t}
  <2>1. db' = WithoutOps(db, D) /\ view' = db' /\ writer'.mode = "none"
    BY <1>3 DEF Prune, Closed
  <2>2. /\ db'.recs = db.recs /\ db'.rows = db.rows /\ db'.nextOp = db.nextOp
        /\ db'.ops = [i \in DOMAIN db.ops \ D |-> db.ops[i]]
        /\ db'.past = [i \in DOMAIN db.ops \ D |-> db.past[i]]
    BY <1>0, <2>1, CutStory
  <2> HIDE DEF D
  <2>3. History(db')
    BY <1>0, <2>2, HistoryCut
  <2> QED  BY <2>1, <2>3, HistoryFrom
<1>4. ASSUME NEW p \in 0..MaxLabels, CreateLabel(p) PROVE HistoryInv'
  <2> DEFINE m == WithLabel(db, p)
  <2>1. db' = [m EXCEPT !.posted = @ \cup {db.nextLabel}] /\ view' = db' /\ writer'.mode = "none"
    BY <1>4 DEF CreateLabel, Closed
  <2>2. SameStory(db, m) /\ DOMAIN m = DOMAIN db
    BY <1>0, LabelStory DEF WithLabel
  <2> HIDE DEF m
  <2>3. SameStory(db, db')
    BY <1>0, <2>1, <2>2 DEF SameStory, IsStore
  <2>4. History(db')
    BY <1>0, <2>3, StoryKept
  <2> QED  BY <2>1, <2>4, HistoryFrom
<1> QED  BY <1>1, <1>2, <1>3, <1>4

\* Every step keeps the invariant.
LEMMA NextHistory == HistoryInv /\ [Next]_vars => HistoryInv'
<1> SUFFICES ASSUME HistoryInv, [Next]_vars PROVE HistoryInv'
  OBVIOUS
<1>0. Inductive'
  BY NextInductive DEF HistoryInv
<1>1. CASE UNCHANGED vars
  <2>1. db' = db /\ view' = view /\ writer' = writer
    BY <1>1 DEF vars
  <2>2. Progress => Progress'
    BY <2>1 DEF Progress, TakenOps, BackTo, AsAt
  <2> QED  BY <1>0, <2>1, <2>2 DEF HistoryInv
<1>2. CASE Next
  BY <1>0, <1>2, OpeningHistory, EditHistory, RevertHistory, ClosingHistory DEF Next
<1> QED  BY <1>1, <1>2

-----------------------------------------------------------------------------
(* The theorems *)

\* A revert brings every field it reaches back to what it held before the
\* oldest operation reverted on it, when everything written to the field since
\* is reverted too, whatever the types of the operations, and however many
\* (revert.rs apply).
THEOREM RevertsRestore == Spec => RevertRestores
<1> DEFINE A == Commit /\ writer.mode = "revert" =>
                   \A e \in Uuids, f \in Fields : Restored(e, f)
<1>1. ASSUME HistoryInv, [Next]_vars PROVE [A]_vars
  <2> SUFFICES ASSUME Commit, writer.mode = "revert", NEW e \in Uuids, NEW f \in Fields,
                      NEW i \in writer.target, Covers(db.ops[i], e, f),
                      \A j \in writer.target : Covers(db.ops[j], e, f) => i <= j,
                      \A j \in i..db.head :
                         j \in DOMAIN db.ops /\ (Covers(db.ops[j], e, f) => j \in writer.target)
               PROVE  /\ CellOf(db', e, f) = CellOf(db.past[i], e, f)
                      /\ e \in db'.recs <=> e \in db.past[i].recs
    BY DEF Restored
  <2>1. Progress /\ writer.todo = {} /\ TakenOps = writer.target
    BY <1>1 DEF HistoryInv, Commit, Done, TakenOps
  <2>2. BackTo(i, e, f)
    BY <2>1 DEF BackTo
  <2>3. i \in DOMAIN db.ops
    BY <2>1 DEF Progress
  <2>4. AsAt(i, e, f)
    BY <2>1, <2>2, <2>3 DEF Progress, Moments
  <2>5. Same(view, db.past[i], e, f)
    BY <2>1, <2>3, <2>4 DEF AsAt, PastAt
  <2>6. db'.recs = view.recs /\ db'.rows = view.rows
    BY <1>1, FinalStory DEF HistoryInv, Commit
  <2> QED  BY <2>5, <2>6 DEF Same, CellOf, RowsOf
<1> QED
  BY <1>1, InitHistory, NextHistory, PTL DEF Spec, RevertRestores

-----------------------------------------------------------------------------
(* The log explains the store *)

\* The log has no hole: everything since its oldest operation is in it.
Dense(d) == \A i \in DOMAIN d.ops : i..(d.nextOp - 1) \subseteq DOMAIN d.ops

\* With the retention off, only prunes delete, and they delete the oldest.
DenseInv == Inductive /\ Dense(db) /\ Dense(view)

\* Every step keeps the log without holes.
LEMMA NextDense ==
    ASSUME UserLimit = 0, WatcherLimit = 0, DenseInv, [Next]_vars
    PROVE  DenseInv'
<1>1. Inductive' /\ IsStore(db) /\ IsStore(view)
  BY NextInductive DEF DenseInv, Inductive, Sound
<1>2. CASE Edit \/ \E k \in OpIds : RevertNewest(k)
  <2>1. /\ db' = db /\ view.nextOp \in Nat /\ view'.nextOp \in Nat
        /\ DOMAIN view'.ops = DOMAIN view.ops \cup view.nextOp..(view'.nextOp - 1)
    BY <1>2, WriterGrows DEF DenseInv
  <2>2. DOMAIN view.ops \subseteq 1..(view.nextOp - 1)
    BY <1>1 DEF IsStore
  <2> QED  BY <1>1, <2>1, <2>2 DEF DenseInv, Dense
<1>3. CASE Commit
  <2>1. db' = Final /\ view' = Final
    BY <1>3 DEF Commit
  <2>2. Final.nextOp = view.nextOp /\ DOMAIN Final.ops = DOMAIN view.ops
    BY <1>3, FinalStory DEF DenseInv, LimitOf
  <2> HIDE DEF Final
  <2> QED  BY <1>1, <2>1, <2>2 DEF DenseInv, Dense
<1>4. CASE Abort
  BY <1>1, <1>4 DEF Abort, DenseInv
<1>5. ASSUME NEW t \in OpIds, Prune(t) PROVE DenseInv'
  <2> DEFINE D == {i \in DOMAIN db.ops : i < t}
  <2>1. db' = WithoutOps(db, D) /\ view' = db'
    BY <1>5 DEF Prune
  <2> HIDE DEF D
  <2>2. db'.nextOp = db.nextOp /\ DOMAIN db'.ops = DOMAIN db.ops \ D
    <3>1. /\ WithoutOps(db, D).nextOp = db.nextOp
          /\ WithoutOps(db, D).ops = [i \in DOMAIN db.ops \ D |-> db.ops[i]]
      BY <1>1, CutStory
    <3> QED  BY <2>1, <3>1
  <2>3. t \in Nat /\ db.nextOp \in Nat /\ DOMAIN db.ops \subseteq Nat
    BY <1>1 DEF OpIds, IsStore
  <2>4. Dense(db')
    BY <2>2, <2>3 DEF DenseInv, Dense, D
  <2> QED  BY <1>1, <2>1, <2>4 DEF DenseInv
<1>6. ASSUME SameStory(db, db'), SameStory(db, view') \/ SameStory(view, view')
      PROVE  DenseInv'
  BY <1>1, <1>6 DEF DenseInv, Dense, SameStory
<1>7. CASE Begin
  <2>1. SameStory(db, db')
    BY <1>7 DEF SameStory, Begin, BeginNew, BeginInLabel, BeginCommand, BeginWatcher,
                BeginIn, BeginRevert
  <2>2. \A d : SameStory(d, d)
    BY DEF SameStory
  <2>3. SameStory(db, view') \/ SameStory(view, view')
    <3>1. CASE \E S \in SUBSET DOMAIN db.ops, how \in {"plain", "skip", "coordinated"} :
                  BeginRevert(S, how)
      BY <2>2, <3>1 DEF BeginRevert
    <3>2. CASE BeginWatcher
      <4> DEFINE d == WithWatcherLabel(db)
      <4>1. view' = WithLabel(d, d.watcherLabel) /\ d.nextLabel <= MaxLabels
        BY <3>2 DEF BeginWatcher, BeginIn
      <4>2. Sound(d)
        BY <4>1, WatcherLabelAdded DEF DenseInv, Inductive
      <4>3. SameStory(db, d)
        BY <1>1, LabelStory
      <4> HIDE DEF d
      <4>4. SameStory(d, WithLabel(d, d.watcherLabel))
        BY <4>2, LabelStory DEF Sound
      <4> QED  BY <4>1, <4>3, <4>4 DEF SameStory
    <3>3. CASE BeginNew \/ (\E l \in Labels : BeginInLabel(l))
               \/ (\E k \in Commands, l \in 0..MaxLabels : BeginCommand(k, l))
      <4>1. \/ \E p : view' = WithLabel(db, p)
            \/ \E p, k : view' = WithCommandLabel(db, k, p)
            \/ view' = db
        BY <3>3 DEF BeginNew, BeginInLabel, BeginCommand, BeginIn
      <4> QED  BY <1>1, <2>2, <4>1, LabelStory
    <3> QED  BY <1>7, <3>1, <3>2, <3>3 DEF Begin
  <2> QED  BY <1>6, <2>1, <2>3
<1>8. ASSUME NEW l \in 0..MaxLabels, CreateLabel(l) PROVE DenseInv'
  <2> DEFINE m == WithLabel(db, l)
  <2>1. db' = [m EXCEPT !.posted = @ \cup {db.nextLabel}] /\ view' = db'
    BY <1>8 DEF CreateLabel
  <2>2. SameStory(db, m)
    BY <1>1, LabelStory
  <2> HIDE DEF m
  <2>3. SameStory(db, db')
    BY <2>1, <2>2 DEF SameStory
  <2> QED  BY <1>6, <2>1, <2>3
<1>9. CASE UNCHANGED vars
  BY <1>1, <1>9 DEF vars, DenseInv
<1> QED  BY <1>2, <1>3, <1>4, <1>5, <1>7, <1>8, <1>9 DEF Next

\* What an operation leaves is what changed_since expects of it.
LEMMA JustWritten ==
    ASSUME NEW x, NEW y, NEW o, Found(x, o), Left(x, y, o), x.rows \subseteq x.recs \X Row
    PROVE  Unchanged(y, o)
<1> DEFINE e == o.ent
           f == o.field
<1>1. /\ RowsOf(y, e) = (RowsOf(x, e) \ o.before) \cup o.after
      /\ CellOf(y, e, f) = (CellOf(x, e, f) \ o.before) \cup {r \in o.after : r[1] = f}
  BY ChangedCell
<1>2. o.type \in OpTypes
  BY DEF Found, Shaped
<1>3. CASE o.type = "create"
  <2>1. RowsOf(x, e) = {} /\ e \in y.recs
    BY <1>3 DEF Found, Left, RowsOf
  <2> QED  BY <1>1, <1>3, <2>1 DEF Unchanged
<1>4. CASE o.type = "set_record"
  BY <1>1, <1>4 DEF Found, Left, Unchanged
<1>5. CASE o.type = "delete"
  BY <1>5 DEF Left, Unchanged
<1>6. CASE o.type \in {"append", "delete_field", "set_field", "file"}
  <2>1. {r \in o.after : r[1] = f} = o.after
    BY <1>6 DEF Found, Shaped
  <2>2. CASE o.type = "append"
    BY <1>1, <2>1, <2>2 DEF Unchanged, Found
  <2>3. CASE o.type = "delete_field"
    BY <1>1, <2>1, <2>3 DEF Unchanged, Found
  <2>4. CASE o.type \in {"set_field", "file"}
    <3>1. CellOf(y, e, f) = o.after
      BY <1>1, <2>1, <2>4 DEF Found
    <3> QED  BY <2>4, <3>1 DEF Unchanged
  <2> QED  BY <1>6, <2>2, <2>3, <2>4
<1> QED  BY <1>2, <1>3, <1>4, <1>5, <1>6 DEF OpTypes

\* What changed_since reads of the store is the operation's metarecord and field.
LEMMA StillThere ==
    ASSUME NEW y, NEW d, NEW o, Shaped(o), Unchanged(y, o),
           \A f \in Fields \cup {NoField} :
              f = o.field \/ o.field = NoField => Same(y, d, o.ent, f)
    PROVE  Unchanged(d, o)
<1> DEFINE e == o.ent
<1>1. o.type \in OpTypes
  BY DEF Shaped
<1>2. CASE o.type \in {"create", "set_record", "delete"}
  <2>1. o.field = NoField
    BY <1>2 DEF Shaped
  <2>2. e \in y.recs <=> e \in d.recs
    BY <2>1 DEF Same
  <2>3. \A f \in Fields : CellOf(y, e, f) = CellOf(d, e, f)
    BY <2>1 DEF Same
  <2>4. RowsOf(y, e) = RowsOf(d, e)
    <3>1. ASSUME NEW r \in Row PROVE r \in RowsOf(y, e) <=> r \in RowsOf(d, e)
      <4>1. r[1] \in Fields
        BY DEF Row
      <4>2. CellOf(y, e, r[1]) = CellOf(d, e, r[1])
        BY <2>3, <4>1
      <4> QED  BY <4>2 DEF CellOf
    <3> QED  BY <3>1 DEF RowsOf
  <2>5. CASE o.type = "delete"
    BY <2>2, <2>5 DEF Unchanged
  <2>6. CASE o.type \in {"create", "set_record"}
    BY <2>2, <2>4, <2>6 DEF Unchanged
  <2> QED  BY <1>2, <2>5, <2>6
<1>3. CASE o.type \notin {"create", "set_record", "delete"}
  <2>1. o.field \in Fields
    BY <1>3 DEF Shaped
  <2>2. CellOf(y, e, o.field) = CellOf(d, e, o.field)
    BY <2>1 DEF Same
  <2> QED  BY <1>3, <2>2 DEF Unchanged
<1> QED  BY <1>2, <1>3

\* Without holes, a field that no longer holds what an operation left there was
\* changed by a later operation still in the log.
LEMMA Explained == HistoryInv /\ DenseInv => LogExplainsStore
<1> SUFFICES ASSUME HistoryInv, DenseInv, NEW i \in DOMAIN db.ops,
                    ~\E j \in DOMAIN db.ops : j > i /\ Intersects(db.ops[i], db.ops[j])
             PROVE  Unchanged(db, db.ops[i])
  BY DEF LogExplainsStore
<1> DEFINE o == db.ops[i]
           x == db.past[i]
           y == PastAt(db, i + 1)
<1>1. /\ IsStore(db) /\ Told(db) /\ Steady(db) /\ Dense(db)
  BY DEF HistoryInv, History, DenseInv, Inductive, Sound
<1>2. /\ i \in Nat /\ db.nextOp \in Nat /\ i < db.nextOp /\ o.ent \in Uuids
      /\ db.nextOp \notin DOMAIN db.ops
  BY <1>1 DEF IsStore, Op
<1>3. i..(db.nextOp - 1) \subseteq DOMAIN db.ops
  BY <1>1 DEF Dense
<1>4. i + 1 \in Moments(db) /\ db.nextOp \in Moments(db) /\ PastAt(db, db.nextOp) = db
  <2>1. i + 1 = db.nextOp \/ i + 1 \in i..(db.nextOp - 1)
    BY <1>2
  <2> QED  BY <1>2, <1>3, <2>1 DEF Moments, PastAt
<1>5. Found(x, o) /\ Left(x, y, o) /\ x.rows \subseteq x.recs \X Row
  BY <1>1, <1>4 DEF Told
<1>6. Unchanged(y, o) /\ Shaped(o)
  BY <1>5, JustWritten DEF Found
<1>7. ASSUME NEW f \in Fields \cup {NoField}, f = o.field \/ o.field = NoField
      PROVE  Same(y, db, o.ent, f)
  <2>1. ASSUME NEW j \in (i + 1)..(db.nextOp - 1)
        PROVE  j \in DOMAIN db.ops /\ ~Covers(db.ops[j], o.ent, f)
    <3>1. j \in DOMAIN db.ops /\ j > i
      BY <1>2, <1>3, <2>1
    <3>2. ~Intersects(o, db.ops[j])
      BY <3>1
    <3> QED  BY <1>7, <3>1, <3>2 DEF Intersects, Covers
  <2>2. i + 1 <= db.nextOp
    BY <1>2
  <2> HIDE DEF o
  <2> QED  BY <1>1, <1>2, <1>4, <2>1, <2>2 DEF Steady
<1> HIDE DEF o, x, y
<1>8. Unchanged(db, o)
  BY <1>6, <1>7, StillThere
<1> QED  BY <1>8 DEF o

\* A plan never answers Unlogged while the retention is off (revert.rs
\* changed_since): the log explains what the store holds, whatever was written,
\* reverted, abandoned and pruned.
THEOREM LogTellsAll ==
    ASSUME UserLimit = 0, WatcherLimit = 0
    PROVE  Spec => []LogExplainsStore
<1>1. Init => DenseInv
  <2> SUFFICES ASSUME Init PROVE DenseInv
    OBVIOUS
  <2>1. db = Created /\ view = Created
    BY DEF Init
  <2>2. DOMAIN Created.ops = {1} /\ Created.nextOp = 2
    BY DEF Created
  <2>3. 1..(2 - 1) = {1}
    OBVIOUS
  <2>4. Dense(Created)
    BY <2>2, <2>3 DEF Dense
  <2> QED  BY <2>1, <2>4, InitInductive DEF DenseInv
<1>2. DenseInv /\ [Next]_vars => DenseInv'
  BY NextDense
<1> QED  BY <1>1, <1>2, InitHistory, NextHistory, Explained, PTL DEF Spec
=============================================================================
