---------------------------- MODULE TrashProofs ----------------------------
(***************************************************************************)
(* Proofs about the trash-bin: what the index lists and what the trash     *)
(* holds agree, bytes leave only by choice, a metarecord dies with its     *)
(* bytes, and the same metarecord comes back with them, for any clients    *)
(* and any number of commands, files, metarecords and faults.              *)
(***************************************************************************)
EXTENDS Trash, FiniteSetTheorems, WellFoundedInduction, TLAPS

-----------------------------------------------------------------------------
(* The invariant *)

Pcs == {"idle", "delete", "move", "row", "attach", "recreate", "relink", "plan",
        "rename", "unlist", "rmblob", "pruneblob", "prunerow", "sweep", "entries",
        "retrash", "commit", "abort"}

\* Where a client has an entry in hand, where it has yet to make one, and where
\* it runs a coordinated revert.
Holding == {"row", "attach", "recreate", "relink", "plan", "rename", "unlist",
            "rmblob", "pruneblob", "prunerow"}

Ahead == {"delete", "move", "retrash"}

Reverting == {"entries", "retrash", "commit", "abort"}

Works == [pc : Pcs, op : Nat, u : 0..MaxRecs, cap : BOOLEAN, e : Nat, sel : SUBSET Nat,
          all : BOOLEAN, seen : Nat, ok : BOOLEAN]

Rows == [live : BOOLEAN, rec : 0..MaxRecs, cap : BOOLEAN]

Ops == [kind : {"create", "delete"}, u : Recs, was : {"none", "at", "orphan"},
        trash : BOOLEAN, by : Nat]

Typed ==
    /\ disk \in Nat /\ blob \in [Entries -> Nat] /\ row \in [Entries -> Rows]
    /\ rec \in [Recs -> {"none", "at", "orphan"}] /\ log \in Seq(Ops) /\ lock \in Nat
    /\ cl \in [Clients -> Works]
    /\ made \in [file : Nat, entry : Nat, rec : Nat, cmd : Nat, fault : Nat]

\* There is an entry left for every command that has yet to make one.
Before == {c \in Clients : cl[c].pc \in Ahead}

Counted ==
    /\ IsFiniteSet(Before)
    /\ made.entry + Cardinality(Before) <= made.cmd
    /\ made.cmd <= MaxCmds

\* Entries not made yet are empty, and only an entry of a metarecord has its
\* capture.
RowsApart ==
    \A e \in Entries :
        /\ e > made.entry => blob[e] = 0 /\ ~row[e].live
        /\ row[e].cap => row[e].rec # 0

\* The entries a client names are made.
Placed(c) ==
    /\ cl[c].e <= made.entry
    /\ cl[c].sel \subseteq 1..made.entry
    /\ cl[c].pc \in Holding => cl[c].e # 0

\* What a client knows where it is: of its entry, of its metarecord, and of the
\* operation it reverts.
Stage(c) ==
    /\ cl[c].pc \in {"unlist", "prunerow"} => blob[cl[c].e] = 0
    /\ cl[c].pc = "rmblob" => ~row[cl[c].e].live
    /\ cl[c].pc = "rename" => cl[c].seen = 0
    /\ cl[c].pc \in {"delete", "attach"} \/ cl[c].cap => cl[c].u # 0
    /\ cl[c].pc \in {"attach", "recreate", "relink", "plan", "rename"} /\ row[cl[c].e].live
          => row[cl[c].e].rec = cl[c].u
    /\ cl[c].pc \in {"relink", "plan", "rename"} /\ cl[c].op = 0 /\ cl[c].u # 0
          => \/ rec[cl[c].u] # "none"
             \/ mishaps \cap {"unattached", "refused", "displaced"} # {}
    /\ cl[c].pc \in Reverting => cl[c].op # 0
    /\ cl[c].op # 0 => cl[c].op \in DOMAIN log /\ cl[c].u = log[cl[c].op].u

\* An entry about to be listed is its client's alone.
Listing(c) ==
    cl[c].pc = "row" =>
        /\ ~row[cl[c].e].live
        /\ blob[cl[c].e] # 0 \/ "swept" \in mishaps
        /\ \A d \in Clients \ {c} : cl[d].e # cl[c].e /\ cl[c].e \notin cl[d].sel

\* A deletion says where its metarecord was; an operation reverts an older one.
Chained ==
    \A i \in DOMAIN log :
        /\ log[i].kind = "delete" => log[i].was # "none"
        /\ log[i].by < i

\* Without faults a coordinated revert has the lock to itself.
Locked ==
    made.fault = 0 => \A c \in Clients :
        cl[c].op # 0 => lock = cl[c].op /\ \A d \in Clients \ {c} : cl[d].op = 0

Inv ==
    /\ Typed /\ Counted /\ RowsApart /\ Chained /\ Locked
    /\ \A c \in Clients : Placed(c) /\ Stage(c) /\ Listing(c)

-----------------------------------------------------------------------------
(* Steps *)

\* A set of naturals that is not empty has a least element.
LEMMA LeastNatural ==
    ASSUME NEW T \in SUBSET Nat, T # {}
    PROVE  \E m \in T : \A k \in T : m <= k
<1> DEFINE R == OpToRel(<, Nat)
<1>1. IsWellFoundedOn(R, Nat)
  BY NatLessThanWellFounded
<1>2. \A k, m \in Nat : <<k, m>> \in R <=> k < m
  BY DEF OpToRel
<1> HIDE DEF R
<1>3. PICK m \in T : \A k \in T : ~(<<k, m>> \in R)
  BY <1>1, WFMin
<1>4. ASSUME NEW k \in T PROVE m <= k
  <2>1. k \in Nat /\ m \in Nat /\ ~(k < m)
    BY <1>2, <1>3
  <2> QED  BY <2>1
<1> QED  BY <1>4

\* The least entry of a selection is one of them.
LEMMA MinIn ==
    ASSUME NEW S \in SUBSET Nat, S # {}
    PROVE  Min(S) \in S
BY LeastNatural DEF Min

\* What a step of client c leaves to the others: the entries made so far are at
\* most emptied, unlisted or, by the client that made one, listed; the log
\* grows; a metarecord taken from a restore is noted; and c takes up entries
\* that are listed or new.
Grows(c) ==
    /\ made.entry <= made'.entry
    /\ mishaps \subseteq mishaps'
    /\ \A e \in 1..made.entry :
          \/ blob'[e] = blob[e]
          \/ blob'[e] = 0 /\ (cl[c].e = e \/ "swept" \in mishaps')
    /\ \A e \in 1..made.entry :
          row'[e].live => \/ row[e].live /\ row'[e].rec = row[e].rec
                          \/ cl[c].pc = "row" /\ cl[c].e = e
    /\ \A u \in Recs : rec'[u] = "none" => rec[u] = "none" \/ Displaced(u) \subseteq mishaps'
    /\ \A i \in DOMAIN log : i \in DOMAIN log' /\ log'[i] = log[i]
    /\ cl'[c].e \in {0, cl[c].e} \cup cl[c].sel \cup Live \cup {made.entry + 1}
    /\ cl'[c].sel \subseteq cl[c].sel \cup Live

\* What one client knows stands when another takes a step.
LEMMA OthersStay ==
    ASSUME Inv, NEW c \in Clients, Grows(c), Typed',
           NEW d \in Clients, d # c, \A x \in Clients \ {c} : cl'[x] = cl[x]
    PROVE  Placed(d)' /\ Stage(d)' /\ Listing(d)'
<1> DEFINE w == cl[d]
           e == cl[d].e
<1>1. /\ Placed(d) /\ Stage(d) /\ Listing(d) /\ w \in Works /\ cl'[d] = w
      /\ made.entry \in Nat /\ made'.entry \in Nat /\ e \in Nat
  BY DEF Inv, Typed, Works
<1>2. Placed(d)'
  BY <1>1 DEF Placed, Grows, Works
<1>3. w.pc \in Holding => e \in 1..made.entry
  BY <1>1 DEF Placed
<1>4. ASSUME e \in 1..made.entry, row'[e].live
      PROVE  \/ row[e].live /\ row'[e].rec = row[e].rec
             \/ cl[c].e = e
  BY <1>4 DEF Grows
<1>5. w.pc = "row" => cl[c].e # e /\ e \notin cl[c].sel /\ ~row[e].live
  BY <1>1 DEF Listing
<1>6. cl[c].pc = "row" => cl[c].e # e
  BY DEF Inv, Listing
<1>7. ASSUME e \in 1..made.entry, row'[e].live
      PROVE  row[e].live /\ row'[e].rec = row[e].rec
  BY <1>6, <1>7 DEF Grows
<1>8. Listing(d)'
  <2> SUFFICES ASSUME w.pc = "row"
               PROVE  /\ ~row'[e].live
                      /\ blob'[e] # 0 \/ "swept" \in mishaps'
                      /\ \A x \in Clients \ {d} : cl'[x].e # e /\ e \notin cl'[x].sel
    BY <1>1 DEF Listing
  <2>1. e \in 1..made.entry
    BY <1>3 DEF Holding
  <2>2. ~row'[e].live
    BY <1>5, <1>7, <2>1
  <2>3. blob'[e] # 0 \/ "swept" \in mishaps'
    BY <1>1, <1>5, <2>1 DEF Listing, Grows
  <2>4. cl'[c].e # e /\ e \notin cl'[c].sel
    <3>1. e \notin Live /\ e # 0 /\ e # made.entry + 1
      BY <1>1, <1>5, <2>1 DEF Live
    <3> QED  BY <1>5, <3>1 DEF Grows
  <2>5. \A x \in Clients \ {d} : x # c => cl'[x].e # e /\ e \notin cl'[x].sel
    BY <1>1 DEF Listing
  <2> QED  BY <2>2, <2>3, <2>4, <2>5
<1>9. Stage(d)'
  <2>1. w.pc \in {"unlist", "prunerow"} => blob'[e] = 0
    BY <1>1, <1>3 DEF Stage, Grows, Holding
  <2>2. w.pc = "rmblob" => ~row'[e].live
    BY <1>1, <1>3, <1>7 DEF Stage, Holding
  <2>3. w.pc \in {"attach", "recreate", "relink", "plan", "rename"} /\ row'[e].live
          => row'[e].rec = w.u
    BY <1>1, <1>3, <1>7 DEF Stage, Holding
  <2>4. w.pc \in {"relink", "plan", "rename"} /\ w.op = 0 /\ w.u # 0
          => \/ rec'[w.u] # "none"
             \/ mishaps' \cap {"unattached", "refused", "displaced"} # {}
    <3> SUFFICES ASSUME w.pc \in {"relink", "plan", "rename"}, w.op = 0, w.u # 0,
                        rec'[w.u] = "none"
                 PROVE  mishaps' \cap {"unattached", "refused", "displaced"} # {}
      OBVIOUS
    <3>1. w.u \in Recs
      BY <1>1, TrashBounds DEF Works, Recs
    <3>2. Displaced(w.u) = {"displaced"}
      BY DEF Displaced
    <3> QED  BY <1>1, <3>1, <3>2 DEF Stage, Grows
  <2>5. w.op # 0 => w.op \in DOMAIN log' /\ w.u = log'[w.op].u
    BY <1>1 DEF Stage, Grows
  <2> QED  BY <1>1, <2>1, <2>2, <2>3, <2>4, <2>5 DEF Stage
<1> QED  BY <1>2, <1>8, <1>9

\* A step of client c keeps the invariant if it keeps the shared parts and what
\* c itself knows.
LEMMA ClientStep ==
    ASSUME Inv, NEW c \in Clients, Grows(c), Typed',
           \A x \in Clients \ {c} : cl'[x] = cl[x],
           Counted', RowsApart', Chained', Locked', Placed(c)', Stage(c)', Listing(c)'
    PROVE  Inv'
BY OthersStay DEF Inv

\* The commands that have yet to make an entry are counted.
CountOK(c) ==
    \/ made'.entry = made.entry /\ made'.cmd = made.cmd + 1 /\ made.cmd < MaxCmds
    \/ /\ made'.entry = made.entry /\ made'.cmd = made.cmd
       /\ cl'[c].pc \in Ahead => cl[c].pc \in Ahead
    \/ /\ made'.entry = made.entry + 1 /\ made'.cmd = made.cmd
       /\ cl[c].pc \in Ahead /\ cl'[c].pc \notin Ahead

\* The count of the entries to come stands after such a step.
LEMMA CountKeeps ==
    ASSUME Inv, NEW c \in Clients, Typed', \A x \in Clients \ {c} : cl'[x] = cl[x], CountOK(c)
    PROVE  Counted'
<1>1. /\ IsFiniteSet(Before) /\ Cardinality(Before) \in Nat
      /\ made.entry + Cardinality(Before) <= made.cmd /\ made.cmd <= MaxCmds
      /\ made.entry \in Nat /\ made.cmd \in Nat /\ MaxCmds \in Nat
      /\ made'.entry \in Nat /\ made'.cmd \in Nat
  BY FS_CardinalityType, TrashBounds DEF Inv, Counted, Typed
<1>2. Before' \subseteq Before \cup {c}
  BY DEF Before
<1>3. /\ IsFiniteSet(Before \cup {c})
      /\ Cardinality(Before \cup {c}) =
            IF c \in Before THEN Cardinality(Before) ELSE Cardinality(Before) + 1
  BY <1>1, FS_AddElement
<1>4. /\ IsFiniteSet(Before') /\ Cardinality(Before') \in Nat
      /\ Cardinality(Before') <= Cardinality(Before) + 1
  <2>1. IsFiniteSet(Before') /\ Cardinality(Before') <= Cardinality(Before \cup {c})
    BY <1>2, <1>3, FS_Subset
  <2>2. Cardinality(Before') \in Nat
    BY <2>1, FS_CardinalityType
  <2> QED  BY <1>1, <1>3, <2>1, <2>2
<1>5. CASE made'.entry = made.entry /\ made'.cmd = made.cmd + 1 /\ made.cmd < MaxCmds
  BY <1>1, <1>4, <1>5 DEF Counted
<1>6. CASE /\ made'.entry = made.entry /\ made'.cmd = made.cmd
           /\ cl'[c].pc \in Ahead => cl[c].pc \in Ahead
  <2>1. Before' \subseteq Before
    BY <1>6 DEF Before
  <2>2. Cardinality(Before') <= Cardinality(Before)
    BY <1>1, <2>1, FS_Subset
  <2> QED  BY <1>1, <1>4, <1>6, <2>2 DEF Counted
<1>7. CASE /\ made'.entry = made.entry + 1 /\ made'.cmd = made.cmd
           /\ cl[c].pc \in Ahead /\ cl'[c].pc \notin Ahead
  <2>1. c \in Before /\ Before' \subseteq Before \ {c}
    BY <1>7 DEF Before
  <2>2. IsFiniteSet(Before \ {c}) /\ Cardinality(Before \ {c}) = Cardinality(Before) - 1
    BY <1>1, <2>1, FS_RemoveElement
  <2>3. Cardinality(Before') <= Cardinality(Before \ {c})
    BY <2>1, <2>2, FS_Subset
  <2> QED  BY <1>1, <1>4, <1>7, <2>2, <2>3 DEF Counted
<1> QED  BY <1>5, <1>6, <1>7 DEF CountOK

\* A client that has yet to make an entry finds one left.
LEMMA EntryLeft ==
    ASSUME Inv, NEW c \in Clients, cl[c].pc \in Ahead
    PROVE  made.entry + 1 \in Entries
<1>1. /\ IsFiniteSet(Before) /\ Cardinality(Before) \in Nat
      /\ made.entry + Cardinality(Before) <= made.cmd /\ made.cmd <= MaxCmds
      /\ made.entry \in Nat /\ made.cmd \in Nat /\ MaxCmds \in Nat
  BY FS_CardinalityType, TrashBounds DEF Inv, Counted, Typed
<1>2. Before # {}
  BY DEF Before
<1>3. Cardinality(Before) # 0
  BY <1>1, <1>2, FS_EmptySet
<1> QED  BY <1>1, <1>3 DEF Entries

\* The entries made so far are entries.
LEMMA EntriesMade ==
    ASSUME Inv
    PROVE  /\ made.entry \in Nat
           /\ \A e \in 1..made.entry : e \in Entries /\ e \in Nat /\ e # made.entry + 1
<1>1. /\ IsFiniteSet(Before) /\ Cardinality(Before) \in Nat
      /\ made.entry + Cardinality(Before) <= made.cmd /\ made.cmd <= MaxCmds
      /\ made.entry \in Nat /\ made.cmd \in Nat /\ MaxCmds \in Nat
  BY FS_CardinalityType, TrashBounds DEF Inv, Counted, Typed
<1> QED  BY <1>1 DEF Entries

\* An operation logged says what it must, and reverts an older one.
LogOK ==
    \/ log' = log
    \/ \E o \in Ops : /\ log' = Append(log, o)
                      /\ o.kind = "delete" => o.was # "none"
                      /\ o.by <= Len(log)

\* The log keeps what it has, and its chains lead back.
LEMMA LogGrows ==
    ASSUME Inv, LogOK
    PROVE  /\ log' \in Seq(Ops) /\ Chained'
           /\ \A i \in DOMAIN log : i \in DOMAIN log' /\ log'[i] = log[i]
<1>1. log \in Seq(Ops) /\ Chained
  BY DEF Inv, Typed
<1>2. CASE log' = log
  BY <1>1, <1>2 DEF Chained
<1>3. ASSUME NEW o \in Ops, log' = Append(log, o), o.kind = "delete" => o.was # "none",
             o.by <= Len(log)
      PROVE  /\ log' \in Seq(Ops) /\ Chained'
             /\ \A i \in DOMAIN log : i \in DOMAIN log' /\ log'[i] = log[i]
  <2>1. log' \in Seq(Ops)
    BY <1>1, <1>3
  <2>2. /\ Len(log) \in Nat /\ DOMAIN log = 1..Len(log) /\ DOMAIN log' = 1..(Len(log) + 1)
        /\ log'[Len(log) + 1] = o
        /\ \A i \in 1..Len(log) : log'[i] = log[i]
    BY <1>1, <1>3
  <2>3. ASSUME NEW i \in DOMAIN log'
        PROVE  (log'[i].kind = "delete" => log'[i].was # "none") /\ log'[i].by < i
    <3>1. CASE i \in DOMAIN log
      BY <1>1, <2>2, <3>1 DEF Chained
    <3>2. CASE i = Len(log) + 1
      <4>1. o.by \in Nat
        BY DEF Ops
      <4> QED  BY <1>3, <2>2, <3>2, <4>1
    <3> QED  BY <2>2, <3>1, <3>2
  <2> QED  BY <2>1, <2>2, <2>3 DEF Chained
<1> QED  BY <1>2, <1>3 DEF LogOK

\* The lock and who runs a revert are left alone.
LEMMA LockKeeps ==
    ASSUME Inv, NEW c \in Clients, \A x \in Clients \ {c} : cl'[x] = cl[x],
           lock' = lock, cl'[c].op \in {0, cl[c].op}, made'.fault = made.fault
    PROVE  Locked'
BY DEF Inv, Locked

\* A step of client c that does not touch the trash.
Quiet(c) ==
    /\ \A x \in Clients \ {c} : cl'[x] = cl[x]
    /\ cl' \in [Clients -> Works]
    /\ blob' = blob /\ row' = row /\ disk' = disk
    /\ rec' \in [Recs -> {"none", "at", "orphan"}]
    /\ \A u \in Recs : rec'[u] = "none" => rec[u] = "none" \/ Displaced(u) \subseteq mishaps'
    /\ LogOK /\ mishaps \subseteq mishaps'
    /\ made' \in [file : Nat, entry : Nat, rec : Nat, cmd : Nat, fault : Nat]
    /\ made'.entry = made.entry /\ CountOK(c)
    /\ lock' \in Nat
    /\ cl'[c].e \in {0, cl[c].e} \cup Live
    /\ cl'[c].sel \subseteq cl[c].sel \cup Live
    /\ cl'[c].pc # "row"
    /\ cl'[c].pc \in Holding => cl'[c].e # 0

\* Such a step keeps the invariant if the client that takes it knows what it must.
LEMMA QuietStep ==
    ASSUME Inv, NEW c \in Clients, Quiet(c), Locked', Stage(c)'
    PROVE  Inv'
<1>1. /\ Typed /\ RowsApart /\ Placed(c) /\ made.entry \in Nat
  BY DEF Inv, Typed
<1>2. /\ log' \in Seq(Ops) /\ Chained'
      /\ \A i \in DOMAIN log : i \in DOMAIN log' /\ log'[i] = log[i]
  BY LogGrows DEF Quiet
<1>3. Typed'
  BY <1>1, <1>2 DEF Typed, Quiet
<1>4. Counted'
  BY <1>3, CountKeeps DEF Quiet
<1>5. RowsApart'
  BY <1>1 DEF RowsApart, Quiet
<1>6. \A e \in Live : e \in 1..made.entry
  BY <1>1, TrashBounds DEF Live, RowsApart, Entries
<1>7. Placed(c)'
  BY <1>1, <1>6 DEF Placed, Quiet
<1>8. Listing(c)'
  BY DEF Listing, Quiet
<1>9. Grows(c)
  BY <1>1, <1>2 DEF Grows, Quiet
<1> QED  BY <1>2, <1>3, <1>4, <1>5, <1>7, <1>8, <1>9, ClientStep DEF Quiet

-----------------------------------------------------------------------------
(* The actions *)

\* What a client goes on with.
LEMMA Goes ==
    ASSUME Inv, NEW c \in Clients, NEW r \in Works, Go(c, r)
    PROVE  cl'[c] = r /\ cl' \in [Clients -> Works] /\ \A x \in Clients \ {c} : cl'[x] = cl[x]
BY DEF Inv, Typed, Go

\* A client between two commands.
LEMMA IdleWorks ==
    Idle \in Works /\ Idle.pc = "idle" /\ Idle.op = 0 /\ Idle.e = 0 /\ Idle.sel = {}
    /\ Idle.u = 0 /\ Idle.cap = FALSE
BY TrashBounds DEF Idle, Works, Pcs

\* A client that is done, or that the step stopped, knows nothing.
LEMMA IdleStage ==
    ASSUME NEW c, cl'[c] = Idle
    PROVE  Stage(c)'
BY IdleWorks DEF Stage, Reverting

\* A command begins.
LEMMA Begins ==
    ASSUME Inv, NEW c \in Clients, NEW r \in Works, Begin(c, r)
    PROVE  /\ cl'[c] = r /\ cl' \in [Clients -> Works] /\ \A x \in Clients \ {c} : cl'[x] = cl[x]
           /\ made' \in [file : Nat, entry : Nat, rec : Nat, cmd : Nat, fault : Nat]
           /\ made'.entry = made.entry /\ CountOK(c) /\ made'.fault = made.fault
<1>1. made \in [file : Nat, entry : Nat, rec : Nat, cmd : Nat, fault : Nat]
  BY DEF Inv, Typed
<1>2. made' = [made EXCEPT !.cmd = made.cmd + 1] /\ made.cmd < MaxCmds
  BY DEF Begin
<1> QED  BY <1>1, <1>2, Goes DEF Begin, CountOK

\* The metarecord at the path, if there is one.
LEMMA AtPathType == AtPath \in 0..MaxRecs /\ (AtPath # 0 => AtPath \in Recs)
BY TrashBounds DEF AtPath, Recs

\* A trashing begins.
LEMMA CaptureKeeps == ASSUME Inv, NEW c \in Clients, TrashCapture(c) PROVE Inv'
<1> DEFINE r == [Idle EXCEPT !.u = AtPath, !.seen = disk,
                             !.pc = IF AtPath = 0 THEN "move" ELSE "delete"]
<1>1. /\ r \in Works /\ r.pc \in {"move", "delete"} /\ r.op = 0 /\ r.e = 0 /\ r.sel = {}
      /\ r.pc = "delete" => r.u # 0
      /\ r.cap = FALSE
  BY AtPathType, IdleWorks DEF Inv, Typed, Idle, Works, Pcs
<1>2. Begin(c, r) /\ UNCHANGED <<disk, blob, row, rec, log, lock, dirty, mishaps>>
  BY DEF TrashCapture
<1> HIDE DEF r
<1>3. /\ cl'[c] = r /\ cl' \in [Clients -> Works] /\ \A x \in Clients \ {c} : cl'[x] = cl[x]
      /\ made' \in [file : Nat, entry : Nat, rec : Nat, cmd : Nat, fault : Nat]
      /\ made'.entry = made.entry /\ CountOK(c) /\ made'.fault = made.fault
  BY <1>1, <1>2, Begins
<1>4. Quiet(c)
  BY <1>1, <1>2, <1>3 DEF Quiet, Inv, Typed, LogOK, Holding
<1>5. Stage(c)'
  BY <1>1, <1>3 DEF Stage, Reverting
<1>6. Locked'
  BY <1>1, <1>2, <1>3, LockKeeps
<1> QED  BY <1>4, <1>5, <1>6, QuietStep

\* A restore begins.
LEMMA LookKeeps == ASSUME Inv, NEW c \in Clients, RestoreLook(c) PROVE Inv'
<1>1. PICK e \in Live :
        Begin(c, [Idle EXCEPT !.pc = "recreate", !.e = e, !.u = row[e].rec, !.cap = row[e].cap])
  BY DEF RestoreLook
<1> DEFINE r == [Idle EXCEPT !.pc = "recreate", !.e = e, !.u = row[e].rec, !.cap = row[e].cap]
<1>2. e \in Entries /\ e \in Nat /\ e # 0 /\ row[e] \in Rows /\ (row[e].cap => row[e].rec # 0)
  BY TrashBounds DEF Live, Entries, Inv, Typed, RowsApart
<1>3. /\ r \in Works /\ r.pc = "recreate" /\ r.op = 0 /\ r.e = e /\ r.sel = {}
      /\ r.u = row[e].rec /\ (r.cap => r.u # 0)
  BY <1>2, IdleWorks DEF Idle, Works, Rows, Pcs
<1>4. UNCHANGED <<disk, blob, row, rec, log, lock, dirty, mishaps>>
  BY DEF RestoreLook
<1> HIDE DEF r
<1>5. /\ cl'[c] = r /\ cl' \in [Clients -> Works] /\ \A x \in Clients \ {c} : cl'[x] = cl[x]
      /\ made' \in [file : Nat, entry : Nat, rec : Nat, cmd : Nat, fault : Nat]
      /\ made'.entry = made.entry /\ CountOK(c) /\ made'.fault = made.fault
  BY <1>1, <1>3, Begins DEF r
<1>6. Quiet(c)
  BY <1>2, <1>3, <1>4, <1>5 DEF Quiet, Inv, Typed, LogOK
<1>7. Stage(c)'
  BY <1>3, <1>4, <1>5 DEF Stage, Reverting
<1>8. Locked'
  BY <1>3, <1>4, <1>5, LockKeeps
<1> QED  BY <1>6, <1>7, <1>8, QuietStep

\* Where a prune goes once S is left of its selection.
LEMMA PruneGoes ==
    ASSUME NEW S \in SUBSET Nat, NEW all \in BOOLEAN
    PROVE  LET r == PruneNext(S, all)
           IN  /\ r \in Works /\ r.op = 0 /\ r.cap = FALSE /\ r.sel \subseteq S
               /\ \/ r.pc = "pruneblob" /\ r.e \in S
                  \/ r.pc \in {"sweep", "idle"} /\ r.e = 0
<1>1. S # {} => Min(S) \in S
  BY MinIn
<1> DEFINE m == Min(S)
<1>2. S # {} => m \in S /\ m \in Nat
  BY <1>1
<1> HIDE DEF m
<1>3. PruneNext(S, all) =
        IF S # {} THEN [Idle EXCEPT !.pc = "pruneblob", !.e = m, !.sel = S, !.all = all]
        ELSE IF all THEN [Idle EXCEPT !.pc = "sweep"] ELSE Idle
  BY DEF PruneNext, m
<1> HIDE DEF PruneNext
<1>4. CASE S # {}
  <2> DEFINE r == [Idle EXCEPT !.pc = "pruneblob", !.e = m, !.sel = S, !.all = all]
  <2>1. r \in Works /\ r.op = 0 /\ r.cap = FALSE /\ r.sel = S /\ r.pc = "pruneblob" /\ r.e = m
    BY <1>2, <1>4, IdleWorks DEF Idle, Works, Pcs
  <2> QED  BY <1>2, <1>3, <1>4, <2>1
<1>5. CASE S = {} /\ all
  <2> DEFINE r == [Idle EXCEPT !.pc = "sweep"]
  <2>1. r \in Works /\ r.op = 0 /\ r.cap = FALSE /\ r.sel = {} /\ r.pc = "sweep" /\ r.e = 0
    BY IdleWorks DEF Idle, Works, Pcs
  <2> QED  BY <1>3, <1>5, <2>1
<1>6. CASE S = {} /\ ~all
  BY <1>3, <1>6, IdleWorks
<1> QED  BY <1>4, <1>5, <1>6

\* A prune begins.
LEMMA WalkKeeps == ASSUME Inv, NEW c \in Clients, PruneWalk(c) PROVE Inv'
<1>1. PICK S \in SUBSET Live, all \in BOOLEAN : Begin(c, PruneNext(S, all))
  BY DEF PruneWalk
<1> DEFINE r == PruneNext(S, all)
<1>2. S \in SUBSET Nat /\ 0 \notin S
  BY TrashBounds DEF Live, Entries
<1>3. /\ r \in Works /\ r.op = 0 /\ r.cap = FALSE /\ r.sel \subseteq S
      /\ \/ r.pc = "pruneblob" /\ r.e \in S
         \/ r.pc \in {"sweep", "idle"} /\ r.e = 0
  BY <1>2, PruneGoes
<1>4. UNCHANGED <<disk, blob, row, rec, log, lock, dirty, mishaps>>
  BY DEF PruneWalk
<1> HIDE DEF r
<1>5. /\ cl'[c] = r /\ cl' \in [Clients -> Works] /\ \A x \in Clients \ {c} : cl'[x] = cl[x]
      /\ made' \in [file : Nat, entry : Nat, rec : Nat, cmd : Nat, fault : Nat]
      /\ made'.entry = made.entry /\ CountOK(c) /\ made'.fault = made.fault
  BY <1>1, <1>3, Begins DEF r
<1>6. Quiet(c)
  BY <1>2, <1>3, <1>4, <1>5 DEF Quiet, Inv, Typed, LogOK, Holding
<1>7. Stage(c)'
  BY <1>3, <1>4, <1>5 DEF Stage, Reverting
<1>8. Locked'
  BY <1>3, <1>4, <1>5, LockKeeps
<1> QED  BY <1>6, <1>7, <1>8, QuietStep

\* A client that fails is done, or goes on to end its revert.
LEMMA FailKeeps ==
    ASSUME Inv, NEW c \in Clients, RestoreFails(c) \/ TrashFails(c) \/ Go(c, Idle),
           UNCHANGED <<disk, blob, row, rec, log, lock, made>>, mishaps \subseteq mishaps'
    PROVE  Inv'
<1>1. PICK r \in Works :
        /\ Go(c, r) /\ r.e \in {0, cl[c].e} /\ r.sel \subseteq cl[c].sel
        /\ r.op \in {0, cl[c].op}
        /\ \/ r = Idle
           \/ r.pc \in {"commit", "abort"} /\ r.op = cl[c].op /\ r.op # 0 /\ r.u = cl[c].u
              /\ r.cap = cl[c].cap
  <2>1. cl[c] \in Works
    BY DEF Inv, Typed
  <2>2. CASE Go(c, Idle)
    BY <2>2, IdleWorks
  <2>3. CASE RestoreFails(c) /\ cl[c].op # 0
    <3> DEFINE r == [cl[c] EXCEPT !.pc = "commit", !.ok = FALSE]
    <3>1. r \in Works /\ r.pc = "commit" /\ r.op = cl[c].op /\ r.u = cl[c].u
          /\ r.e = cl[c].e /\ r.sel = cl[c].sel /\ r.cap = cl[c].cap
      BY <2>1 DEF Works, Pcs
    <3>2. Go(c, r)
      BY <2>3 DEF RestoreFails
    <3> QED  BY <2>3, <3>1, <3>2
  <2>4. CASE TrashFails(c) /\ cl[c].op # 0
    <3> DEFINE r == [cl[c] EXCEPT !.pc = "abort"]
    <3>1. r \in Works /\ r.pc = "abort" /\ r.op = cl[c].op /\ r.u = cl[c].u
          /\ r.e = cl[c].e /\ r.sel = cl[c].sel /\ r.cap = cl[c].cap
      BY <2>1 DEF Works, Pcs
    <3>2. Go(c, r)
      BY <2>4 DEF TrashFails, Step
    <3> QED  BY <2>4, <3>1, <3>2
  <2> QED  BY <2>2, <2>3, <2>4 DEF RestoreFails, TrashFails
<1>2. cl'[c] = r /\ cl' \in [Clients -> Works] /\ \A x \in Clients \ {c} : cl'[x] = cl[x]
  BY <1>1, Goes
<1>3. r.pc \in {"idle", "commit", "abort"}
  BY <1>1, IdleWorks
<1>4. Quiet(c)
  BY <1>1, <1>2, <1>3 DEF Quiet, Inv, Typed, LogOK, Holding, CountOK, Ahead
<1>5. Stage(c)'
  <2>1. CASE r = Idle
    BY <1>2, <2>1, IdleStage
  <2>2. CASE r.pc \in {"commit", "abort"} /\ r.op = cl[c].op /\ r.op # 0 /\ r.u = cl[c].u
             /\ r.cap = cl[c].cap
    BY <1>2, <2>2 DEF Stage, Inv
  <2> QED  BY <1>1, <2>1, <2>2
<1>6. Locked'
  BY <1>1, <1>2, LockKeeps
<1> QED  BY <1>4, <1>5, <1>6, QuietStep

\* The next step of a command, its own state kept.
LEMMA Steps ==
    ASSUME Inv, NEW c \in Clients, NEW pc \in Pcs, Step(c, pc)
    PROVE  /\ cl'[c] \in Works /\ cl' \in [Clients -> Works]
           /\ \A x \in Clients \ {c} : cl'[x] = cl[x]
           /\ cl'[c].pc = pc /\ cl'[c].op = cl[c].op /\ cl'[c].u = cl[c].u
           /\ cl'[c].e = cl[c].e /\ cl'[c].sel = cl[c].sel /\ cl'[c].cap = cl[c].cap
           /\ cl'[c].seen = cl[c].seen
BY DEF Inv, Typed, Step, Go, Works

\* The daemon deletes the metarecord of a trashing.
LEMMA DeleteKeeps == ASSUME Inv, NEW c \in Clients, trash_delete_endpoint(c) PROVE Inv'
<1>1. cl[c].pc = "delete" /\ UNCHANGED <<disk, blob, row, lock, dirty, made>>
  BY DEF trash_delete_endpoint
<1>2. CASE Go(c, Idle) /\ UNCHANGED <<rec, log, mishaps>>
  BY <1>1, <1>2, FailKeeps
<1>3. CASE /\ ~(lock # 0 \/ rec[cl[c].u] = "none")
           /\ rec' = [rec EXCEPT ![cl[c].u] = "none"]
           /\ log' = Append(log, Delete(cl[c].u, TRUE, 0))
           /\ mishaps' = mishaps \cup Taken(cl[c].u)
           /\ Step(c, "move")
  <2> DEFINE u == cl[c].u
             o == Delete(u, TRUE, 0)
  <2>1. u \in Recs /\ cl[c] \in Works
    BY <1>1, TrashBounds DEF Inv, Typed, Stage, Works, Recs
  <2>2. o \in Ops /\ o.was # "none" /\ o.by = 0
    BY <1>3, <2>1 DEF Delete, Ops, Inv, Typed
  <2>3. /\ cl' \in [Clients -> Works] /\ \A x \in Clients \ {c} : cl'[x] = cl[x]
        /\ cl'[c].pc = "move" /\ cl'[c].op = cl[c].op /\ cl'[c].u = u
        /\ cl'[c].e = cl[c].e /\ cl'[c].sel = cl[c].sel /\ cl'[c].cap = cl[c].cap
    BY <1>3, Steps DEF Pcs
  <2>4. LogOK
    <3>1. Len(log) \in Nat
      BY DEF Inv, Typed
    <3>2. log' = Append(log, o)
      BY <1>3
    <3> HIDE DEF o
    <3> QED  BY <2>2, <3>1, <3>2 DEF LogOK
  <2>5. /\ rec' \in [Recs -> {"none", "at", "orphan"}]
        /\ \A v \in Recs : rec'[v] = "none" => rec[v] = "none" \/ Displaced(v) \subseteq mishaps'
    BY <1>3, <2>1 DEF Inv, Typed, Taken
  <2>6. Quiet(c)
    BY <1>1, <1>3, <2>3, <2>4, <2>5 DEF Quiet, Inv, Typed, Holding, CountOK, Ahead
  <2>7. log' \in Seq(Ops) /\ \A i \in DOMAIN log : i \in DOMAIN log' /\ log'[i] = log[i]
    BY <2>4, LogGrows
  <2>8. Stage(c)'
    BY <2>1, <2>3, <2>7, TrashBounds DEF Stage, Reverting, Inv, Recs
  <2>9. Locked'
    BY <1>1, <2>3, LockKeeps
  <2> QED  BY <2>6, <2>8, <2>9, QuietStep
<1> QED  BY <1>2, <1>3 DEF trash_delete_endpoint

\* Putting the metarecord back.
LEMMA RecreateKeeps == ASSUME Inv, NEW c \in Clients, recreate_subtree(c) PROVE Inv'
<1> DEFINE u == cl[c].u
<1>1. cl[c].pc = "recreate" /\ UNCHANGED <<disk, blob, row, lock, dirty, made>>
  BY DEF recreate_subtree
<1>2. cl[c] \in Works /\ Placed(c) /\ Stage(c) /\ (u # 0 => u \in Recs)
  BY TrashBounds DEF Inv, Typed, Works, Recs
<1>3. CASE Go(c, Idle) /\ UNCHANGED <<rec, log, mishaps>>
  BY <1>1, <1>3, FailKeeps
<1>4. CASE /\ Step(c, "relink") /\ mishaps \subseteq mishaps'
           /\ rec' \in [Recs -> {"none", "at", "orphan"}] /\ LogOK
           /\ \A v \in Recs : rec'[v] = "none" => rec[v] = "none"
           /\ u # 0 => rec'[u] # "none" \/ mishaps' \cap {"unattached", "refused"} # {}
  <2>1. /\ cl' \in [Clients -> Works] /\ \A x \in Clients \ {c} : cl'[x] = cl[x]
        /\ cl'[c].pc = "relink" /\ cl'[c].op = cl[c].op /\ cl'[c].u = u
        /\ cl'[c].e = cl[c].e /\ cl'[c].sel = cl[c].sel /\ cl'[c].cap = cl[c].cap
    BY <1>4, Steps DEF Pcs
  <2>2. Quiet(c)
    BY <1>1, <1>2, <1>4, <2>1 DEF Quiet, Inv, Typed, Holding, CountOK, Ahead, Placed
  <2>3. log' \in Seq(Ops) /\ \A i \in DOMAIN log : i \in DOMAIN log' /\ log'[i] = log[i]
    BY <1>4, LogGrows
  <2>4. Stage(c)'
    BY <1>1, <1>2, <1>4, <2>1, <2>3 DEF Stage, Reverting
  <2>5. Locked'
    BY <1>1, <2>1, LockKeeps
  <2> QED  BY <2>2, <2>4, <2>5, QuietStep
<1>5. CASE ~cl[c].cap
  <2>1. /\ Step(c, "relink") /\ UNCHANGED <<rec, log>>
        /\ mishaps' = IF u # 0 THEN mishaps \cup {"unattached"} ELSE mishaps
    BY <1>5 DEF recreate_subtree
  <2> QED  BY <1>4, <2>1 DEF LogOK, Inv, Typed
<1>6. CASE cl[c].cap /\ lock # 0
  BY <1>3, <1>6 DEF recreate_subtree
<1>7. CASE cl[c].cap /\ lock = 0
  <2>1. /\ Step(c, "relink")
        /\ IF rec[u] = "none" /\ AtPath = 0
           THEN /\ rec' = [rec EXCEPT ![u] = "at"]
                /\ log' = Append(log, Create(u, 0))
                /\ mishaps' = mishaps \cup Retaken(u)
           ELSE /\ mishaps' = IF rec[u] = "none" THEN mishaps \cup {"refused"} ELSE mishaps
                /\ UNCHANGED <<rec, log>>
    BY <1>7 DEF recreate_subtree
  <2>2. u \in Recs /\ rec \in [Recs -> {"none", "at", "orphan"}]
    BY <1>2, <1>7 DEF Stage, Inv, Typed
  <2>3. Create(u, 0) \in Ops /\ Create(u, 0).kind = "create" /\ Create(u, 0).by = 0
    BY <2>2 DEF Create, Ops
  <2>4. LogOK
    <3>1. Len(log) \in Nat
      BY DEF Inv, Typed
    <3> QED  BY <2>1, <2>3, <3>1 DEF LogOK
  <2> QED  BY <1>4, <2>1, <2>2, <2>4
<1> QED  BY <1>5, <1>6, <1>7 DEF Inv, Typed

\* Giving an orphan its position back.
LEMMA RelinkKeeps == ASSUME Inv, NEW c \in Clients, relink_subtree(c) PROVE Inv'
<1> DEFINE u == cl[c].u
           linked == u = 0 \/ rec[u] # "orphan"
<1>1. cl[c].pc = "relink" /\ UNCHANGED <<disk, blob, row, log, lock, dirty, made>>
  BY DEF relink_subtree
<1>2. cl[c] \in Works /\ Placed(c) /\ Stage(c) /\ rec \in [Recs -> {"none", "at", "orphan"}]
      /\ (u # 0 => u \in Recs)
  BY TrashBounds DEF Inv, Typed, Works, Recs
<1>3. CASE Go(c, Idle) /\ UNCHANGED <<rec, mishaps>>
  BY <1>1, <1>3, FailKeeps
<1>4. CASE /\ Step(c, "plan") /\ mishaps \subseteq mishaps'
           /\ rec' = IF linked \/ AtPath # 0 THEN rec ELSE [rec EXCEPT ![u] = "at"]
  <2>1. /\ cl' \in [Clients -> Works] /\ \A x \in Clients \ {c} : cl'[x] = cl[x]
        /\ cl'[c].pc = "plan" /\ cl'[c].op = cl[c].op /\ cl'[c].u = u
        /\ cl'[c].e = cl[c].e /\ cl'[c].sel = cl[c].sel /\ cl'[c].cap = cl[c].cap
    BY <1>4, Steps DEF Pcs
  <2>2. /\ rec' \in [Recs -> {"none", "at", "orphan"}]
        /\ \A v \in Recs : rec'[v] = "none" => rec[v] = "none"
    BY <1>2, <1>4
  <2>3. Quiet(c)
    BY <1>1, <1>2, <1>4, <2>1, <2>2
       DEF Quiet, Inv, Typed, Holding, CountOK, Ahead, Placed, LogOK
  <2>4. Stage(c)'
    BY <1>1, <1>2, <1>4, <2>1, <2>2 DEF Stage, Reverting
  <2>5. Locked'
    BY <1>1, <2>1, LockKeeps
  <2> QED  BY <2>3, <2>4, <2>5, QuietStep
<1> QED  BY <1>3, <1>4 DEF relink_subtree

\* The second look of a restore.
LEMMA PlanKeeps == ASSUME Inv, NEW c \in Clients, plan_restore(c) PROVE Inv'
<1>1. cl[c].pc = "plan" /\ UNCHANGED <<disk, blob, row, rec, log, lock, dirty, made>>
  BY DEF plan_restore
<1>2. cl[c] \in Works /\ Placed(c) /\ Stage(c)
  BY DEF Inv, Typed
<1>3. CASE RestoreFails(c) /\ mishaps \subseteq mishaps'
  BY <1>1, <1>3, FailKeeps
<1>4. CASE /\ disk = 0 /\ UNCHANGED mishaps
           /\ Go(c, [cl[c] EXCEPT !.pc = "rename", !.seen = disk])
  <2> DEFINE r == [cl[c] EXCEPT !.pc = "rename", !.seen = disk]
  <2>1. /\ r \in Works /\ r.pc = "rename" /\ r.op = cl[c].op /\ r.u = cl[c].u
        /\ r.e = cl[c].e /\ r.sel = cl[c].sel /\ r.cap = cl[c].cap /\ r.seen = 0
    BY <1>2, <1>4 DEF Works, Pcs
  <2> HIDE DEF r
  <2>2. cl'[c] = r /\ cl' \in [Clients -> Works] /\ \A x \in Clients \ {c} : cl'[x] = cl[x]
    BY <1>4, <2>1, Goes DEF r
  <2>3. Quiet(c)
    BY <1>1, <1>2, <1>4, <2>1, <2>2
       DEF Quiet, Inv, Typed, Holding, CountOK, Ahead, Placed, LogOK
  <2>4. Stage(c)'
    BY <1>1, <1>2, <1>4, <2>1, <2>2 DEF Stage, Reverting
  <2>5. Locked'
    BY <1>1, <2>1, <2>2, LockKeeps
  <2> QED  BY <2>3, <2>4, <2>5, QuietStep
<1> QED  BY <1>3, <1>4 DEF plan_restore

\* What the daemon writes to revert operation i.
LEMMA ApplyWrites ==
    ASSUME Inv, NEW i \in DOMAIN log, revert_apply(i)
    PROVE  /\ LogOK /\ mishaps \subseteq mishaps'
           /\ rec' \in [Recs -> {"none", "at", "orphan"}]
           /\ \A v \in Recs : rec'[v] = "none" => rec[v] = "none" \/ Displaced(v) \subseteq mishaps'
<1> DEFINE u == log[i].u
<1>1. /\ log[i] \in Ops /\ i \in Nat /\ Len(log) \in Nat /\ i <= Len(log)
      /\ log[i].kind = "delete" => log[i].was # "none"
      /\ rec \in [Recs -> {"none", "at", "orphan"}]
  BY DEF Inv, Typed, Chained
<1>2. u \in Recs /\ log[i].was \in {"none", "at", "orphan"}
  BY <1>1 DEF Ops
<1>3. CASE log[i].kind = "delete"
  <2>1. /\ rec' = [rec EXCEPT ![u] = log[i].was] /\ log' = Append(log, Create(u, i))
        /\ mishaps \subseteq mishaps'
    BY <1>3 DEF revert_apply
  <2>2. Create(u, i) \in Ops /\ Create(u, i).kind = "create" /\ Create(u, i).by = i
    BY <1>1, <1>2 DEF Create, Ops
  <2>3. LogOK
    BY <1>1, <2>1, <2>2 DEF LogOK
  <2> QED  BY <1>1, <1>2, <1>3, <2>1, <2>3
<1>4. CASE log[i].kind # "delete" /\ rec[u] = "none"
  <2>1. UNCHANGED <<rec, log, mishaps>>
    BY <1>4 DEF revert_apply
  <2> QED  BY <1>1, <2>1 DEF LogOK
<1>5. CASE log[i].kind # "delete" /\ rec[u] # "none"
  <2> DEFINE o == Delete(u, FALSE, i)
  <2>1. /\ rec' = [rec EXCEPT ![u] = "none"] /\ log' = Append(log, o)
        /\ mishaps' = mishaps \cup Taken(u)
    BY <1>5 DEF revert_apply
  <2>2. o \in Ops /\ o.was # "none" /\ o.by = i
    BY <1>1, <1>2, <1>5 DEF Delete, Ops
  <2> HIDE DEF o
  <2>3. LogOK
    BY <1>1, <2>1, <2>2 DEF LogOK
  <2> QED  BY <1>1, <1>2, <2>1, <2>3 DEF Taken
<1> QED  BY <1>3, <1>4, <1>5

\* A revert without a file action.
LEMMA AtOnceKeeps == ASSUME Inv, NEW c \in Clients, RevertAtOnce(c) PROVE Inv'
<1>1. PICK i \in DOMAIN log : revert_apply(i) /\ Begin(c, Idle)
  BY DEF RevertAtOnce
<1>2. UNCHANGED <<disk, blob, row, lock, dirty>>
  BY DEF RevertAtOnce
<1>3. /\ LogOK /\ mishaps \subseteq mishaps'
      /\ rec' \in [Recs -> {"none", "at", "orphan"}]
      /\ \A v \in Recs : rec'[v] = "none" => rec[v] = "none" \/ Displaced(v) \subseteq mishaps'
  BY <1>1, ApplyWrites
<1>4. /\ cl'[c] = Idle /\ cl' \in [Clients -> Works] /\ \A x \in Clients \ {c} : cl'[x] = cl[x]
      /\ made' \in [file : Nat, entry : Nat, rec : Nat, cmd : Nat, fault : Nat]
      /\ made'.entry = made.entry /\ CountOK(c) /\ made'.fault = made.fault
  BY <1>1, IdleWorks, Begins
<1>5. Quiet(c)
  BY <1>2, <1>3, <1>4, IdleWorks DEF Quiet, Inv, Typed, Holding
<1>6. Stage(c)'
  BY <1>4, IdleStage
<1>7. Locked'
  BY <1>2, <1>4, IdleWorks, LockKeeps
<1> QED  BY <1>5, <1>6, <1>7, QuietStep

\* A coordinated revert begins, and takes the lock.
LEMMA StartKeeps == ASSUME Inv, NEW c \in Clients, revert_start(c) PROVE Inv'
<1>1. PICK i \in DOMAIN log :
        /\ lock' = i
        /\ Begin(c, [Idle EXCEPT !.op = i, !.u = log[i].u,
                        !.pc = IF log[i].kind = "delete" THEN "entries" ELSE "retrash"])
  BY DEF revert_start
<1> DEFINE r == [Idle EXCEPT !.op = i, !.u = log[i].u,
                             !.pc = IF log[i].kind = "delete" THEN "entries" ELSE "retrash"]
<1>2. lock = 0 /\ UNCHANGED <<disk, blob, row, rec, log, dirty, mishaps>>
  BY DEF revert_start
<1>3. log[i] \in Ops /\ i \in Nat /\ i # 0
  BY DEF Inv, Typed
<1>4. log[i].u \in 0..MaxRecs
  BY <1>3, TrashBounds DEF Ops, Recs
<1>5. /\ r \in Works /\ r.pc \in {"entries", "retrash"} /\ r.op = i /\ r.u = log[i].u
      /\ r.e = 0 /\ r.sel = {} /\ r.cap = FALSE
  BY <1>3, <1>4, IdleWorks DEF Idle, Works, Pcs
<1> HIDE DEF r
<1>6. /\ cl'[c] = r /\ cl' \in [Clients -> Works] /\ \A x \in Clients \ {c} : cl'[x] = cl[x]
      /\ made' \in [file : Nat, entry : Nat, rec : Nat, cmd : Nat, fault : Nat]
      /\ made'.entry = made.entry /\ CountOK(c) /\ made'.fault = made.fault
  BY <1>1, <1>5, Begins DEF r
<1>7. Quiet(c)
  BY <1>1, <1>2, <1>3, <1>5, <1>6 DEF Quiet, Inv, Typed, Holding, LogOK
<1>8. Stage(c)'
  BY <1>2, <1>3, <1>5, <1>6 DEF Stage
<1>9. Locked'
  BY <1>1, <1>2, <1>3, <1>5, <1>6 DEF Locked, Inv
<1> QED  BY <1>7, <1>8, <1>9, QuietStep

\* The entry that holds what a deletion took.
LEMMA DecideKeeps == ASSUME Inv, NEW c \in Clients, decide_deleted(c) PROVE Inv'
<1> DEFINE holding == {e \in Live : row[e].rec = cl[c].u}
           m == Min(holding)
<1>1. cl[c].pc = "entries" /\ UNCHANGED <<disk, blob, row, rec, log, lock, dirty, made, mishaps>>
  BY DEF decide_deleted
<1>2. cl[c] \in Works /\ Placed(c) /\ Stage(c)
  BY DEF Inv, Typed
<1>3. CASE holding = {}
  <2>1. RestoreFails(c)
    BY <1>3 DEF decide_deleted
  <2> QED  BY <1>1, <2>1, FailKeeps
<1>4. CASE holding # {}
  <2> DEFINE r == [cl[c] EXCEPT !.pc = "plan", !.e = m]
  <2>1. Go(c, r)
    BY <1>4 DEF decide_deleted
  <2>2. holding \in SUBSET Nat
    BY TrashBounds DEF Live, Entries
  <2>3. m \in holding
    BY <1>4, <2>2, MinIn
  <2>4. m \in Live /\ m \in Nat /\ m # 0 /\ row[m].rec = cl[c].u
    BY <2>3, TrashBounds DEF Live, Entries
  <2> HIDE DEF m
  <2>5. /\ r \in Works /\ r.pc = "plan" /\ r.op = cl[c].op /\ r.u = cl[c].u
        /\ r.e = m /\ r.sel = cl[c].sel /\ r.cap = cl[c].cap
    BY <1>2, <2>4 DEF Works, Pcs
  <2>6. cl'[c] = r /\ cl' \in [Clients -> Works] /\ \A x \in Clients \ {c} : cl'[x] = cl[x]
    BY <2>1, <2>5, Goes
  <2> HIDE DEF r
  <2>7. Quiet(c)
    BY <1>1, <1>2, <2>4, <2>5, <2>6 DEF Quiet, Inv, Typed, Holding, CountOK, Ahead, LogOK
  <2>8. Stage(c)'
    BY <1>1, <1>2, <2>4, <2>5, <2>6 DEF Stage, Reverting
  <2>9. Locked'
    BY <1>1, <2>5, <2>6, LockKeeps
  <2> QED  BY <2>7, <2>8, <2>9, QuietStep
<1> QED  BY <1>3, <1>4

\* A file goes to the trash again.
LEMMA RetrashKeeps == ASSUME Inv, NEW c \in Clients, retrash(c) PROVE Inv'
<1>1. cl[c].pc = "retrash" /\ UNCHANGED <<disk, blob, row, rec, log, lock, dirty, made, mishaps>>
  BY DEF retrash
<1>2. cl[c] \in Works /\ Placed(c) /\ Stage(c) /\ disk \in Nat
  BY DEF Inv, Typed
<1>3. PICK r \in Works :
        /\ Go(c, r) /\ r.pc \in {"move", "commit"} /\ r.op = cl[c].op /\ r.u = cl[c].u
        /\ r.e = cl[c].e /\ r.sel = cl[c].sel /\ r.cap = cl[c].cap
  <2> DEFINE r1 == [cl[c] EXCEPT !.pc = "move", !.seen = disk]
             r2 == [cl[c] EXCEPT !.pc = "commit", !.ok = TRUE]
  <2>1. r1 \in Works /\ r1.pc = "move" /\ r1.op = cl[c].op /\ r1.u = cl[c].u
        /\ r1.e = cl[c].e /\ r1.sel = cl[c].sel /\ r1.cap = cl[c].cap
    BY <1>2 DEF Works, Pcs
  <2>2. r2 \in Works /\ r2.pc = "commit" /\ r2.op = cl[c].op /\ r2.u = cl[c].u
        /\ r2.e = cl[c].e /\ r2.sel = cl[c].sel /\ r2.cap = cl[c].cap
    BY <1>2 DEF Works, Pcs
  <2>3. Go(c, r1) \/ Go(c, r2)
    BY DEF retrash
  <2> HIDE DEF r1, r2
  <2> QED  BY <2>1, <2>2, <2>3
<1>4. cl'[c] = r /\ cl' \in [Clients -> Works] /\ \A x \in Clients \ {c} : cl'[x] = cl[x]
  BY <1>3, Goes
<1>5. Quiet(c)
  BY <1>1, <1>2, <1>3, <1>4 DEF Quiet, Inv, Typed, Holding, CountOK, Ahead, LogOK
<1>6. Stage(c)'
  BY <1>1, <1>2, <1>3, <1>4 DEF Stage, Reverting
<1>7. Locked'
  BY <1>1, <1>3, <1>4, LockKeeps
<1> QED  BY <1>5, <1>6, <1>7, QuietStep

\* A coordinated revert ends and the lock is free.
LEMMA EndKeeps ==
    ASSUME Inv, NEW c \in Clients, cl[c].pc \in {"commit", "abort"},
           lock' = 0, Go(c, Idle), UNCHANGED <<disk, blob, row, dirty, made>>,
           UNCHANGED <<rec, log, mishaps>> \/ revert_apply(cl[c].op)
    PROVE  Inv'
<1>1. cl[c].op # 0 /\ cl[c].op \in DOMAIN log
  BY DEF Inv, Stage, Reverting
<1>2. /\ LogOK /\ mishaps \subseteq mishaps'
      /\ rec' \in [Recs -> {"none", "at", "orphan"}]
      /\ \A v \in Recs : rec'[v] = "none" => rec[v] = "none" \/ Displaced(v) \subseteq mishaps'
  <2>1. CASE UNCHANGED <<rec, log, mishaps>>
    BY <2>1 DEF LogOK, Inv, Typed
  <2>2. CASE revert_apply(cl[c].op)
    BY <1>1, <2>2, ApplyWrites
  <2> QED  BY <2>1, <2>2
<1>3. cl'[c] = Idle /\ cl' \in [Clients -> Works] /\ \A x \in Clients \ {c} : cl'[x] = cl[x]
  BY IdleWorks, Goes
<1>4. Quiet(c)
  BY <1>2, <1>3, IdleWorks DEF Quiet, Inv, Typed, Holding, CountOK, Ahead
<1>5. Stage(c)'
  BY <1>3, IdleStage
<1>6. Locked'
  BY <1>1, <1>3, IdleWorks DEF Locked, Inv
<1> QED  BY <1>4, <1>5, <1>6, QuietStep

\* The revert is committed, left out, or refused and then aborted.
LEMMA CommitKeeps == ASSUME Inv, NEW c \in Clients, revert_commit(c) PROVE Inv'
<1>1. cl[c].pc = "commit" /\ UNCHANGED <<disk, blob, row, dirty, made>>
  BY DEF revert_commit
<1>2. CASE lock' = 0 /\ Go(c, Idle) /\ (UNCHANGED <<rec, log, mishaps>> \/ revert_apply(cl[c].op))
  BY <1>1, <1>2, EndKeeps
<1>3. CASE Step(c, "abort") /\ mishaps \subseteq mishaps' /\ UNCHANGED <<rec, log, lock>>
  <2>1. cl[c].op # 0
    BY <1>1 DEF Inv, Stage, Reverting
  <2>2. TrashFails(c)
    BY <1>3, <2>1 DEF TrashFails
  <2> QED  BY <1>1, <1>3, <2>2, FailKeeps
<1> QED  BY <1>2, <1>3 DEF revert_commit

\* An aborted revert leaves everything as it is.
LEMMA AbortKeeps == ASSUME Inv, NEW c \in Clients, revert_abort(c) PROVE Inv'
BY EndKeeps DEF revert_abort

\* A fault is counted.
LEMMA FaultCounts ==
    ASSUME Inv, Fault
    PROVE  /\ made' \in [file : Nat, entry : Nat, rec : Nat, cmd : Nat, fault : Nat]
           /\ made'.entry = made.entry /\ made'.cmd = made.cmd /\ made'.fault # 0
<1>1. made \in [file : Nat, entry : Nat, rec : Nat, cmd : Nat, fault : Nat]
  BY DEF Inv, Typed
<1>2. made' = [made EXCEPT !.fault = made.fault + 1]
  BY DEF Fault
<1> QED  BY <1>1, <1>2

\* A client dies.
LEMMA CrashKeeps == ASSUME Inv, NEW c \in Clients, Crash(c) PROVE Inv'
<1>1. Go(c, Idle) /\ Fault /\ UNCHANGED <<disk, blob, row, rec, log, lock, dirty, mishaps>>
  BY DEF Crash
<1>2. cl'[c] = Idle /\ cl' \in [Clients -> Works] /\ \A x \in Clients \ {c} : cl'[x] = cl[x]
  BY <1>1, IdleWorks, Goes
<1>3. /\ made' \in [file : Nat, entry : Nat, rec : Nat, cmd : Nat, fault : Nat]
      /\ made'.entry = made.entry /\ made'.cmd = made.cmd /\ made'.fault # 0
  BY <1>1, FaultCounts
<1>4. Quiet(c)
  BY <1>1, <1>2, <1>3, IdleWorks DEF Quiet, Inv, Typed, Holding, CountOK, Ahead, LogOK
<1>5. Stage(c)'
  BY <1>2, IdleStage
<1>6. Locked'
  BY <1>3 DEF Locked
<1> QED  BY <1>4, <1>5, <1>6, QuietStep

-----------------------------------------------------------------------------
(* The actions on the trash itself *)

\* A step of client c on the trash: entries are emptied, unlisted, listed by the
\* client that made them, or made.
Touches(c) ==
    /\ \A x \in Clients \ {c} : cl'[x] = cl[x]
    /\ cl' \in [Clients -> Works]
    /\ disk' \in Nat /\ blob' \in [Entries -> Nat] /\ row' \in [Entries -> Rows]
    /\ \A e \in Entries :
          \/ blob'[e] = blob[e]
          \/ blob'[e] = 0 /\ (cl[c].e = e \/ "swept" \in mishaps')
          \/ e = made.entry + 1 /\ made'.entry = e
    /\ \A e \in Entries :
          \/ row'[e] = row[e]
          \/ ~row'[e].live /\ ~row'[e].cap
          \/ row[e].live /\ row'[e].rec = row[e].rec /\ row[e].rec # 0
          \/ cl[c].pc = "row" /\ cl[c].e = e /\ ~row'[e].cap
    /\ UNCHANGED <<rec, log, lock>> /\ mishaps \subseteq mishaps'
    /\ made' \in [file : Nat, entry : Nat, rec : Nat, cmd : Nat, fault : Nat]
    /\ made.entry <= made'.entry /\ made'.fault = made.fault /\ CountOK(c)
    /\ cl'[c].op \in {0, cl[c].op}
    /\ cl'[c].e \in {0, cl[c].e} \cup cl[c].sel \cup Live \cup {made.entry + 1}
    /\ cl'[c].sel \subseteq cl[c].sel \cup Live

\* Such a step keeps the invariant if the client that takes it knows what it must.
LEMMA TouchStep ==
    ASSUME Inv, NEW c \in Clients, Touches(c), Placed(c)', Stage(c)', Listing(c)'
    PROVE  Inv'
<1>1. /\ Typed /\ RowsApart /\ Chained /\ Placed(c) /\ made.entry \in Nat
      /\ made'.entry \in Nat /\ made.entry <= made'.entry
  BY DEF Inv, Typed, Touches
<1>2. UNCHANGED <<rec, log, lock>>
  BY DEF Touches
<1>3. Typed'
  BY <1>1, <1>2 DEF Typed, Touches
<1>4. Counted'
  BY <1>3, CountKeeps DEF Touches
<1>5. ASSUME NEW e \in Entries
      PROVE  /\ e > made'.entry => blob'[e] = 0 /\ ~row'[e].live
             /\ row'[e].cap => row'[e].rec # 0
  <2>1. e \in Nat /\ (e > made'.entry => e > made.entry)
    BY <1>1, TrashBounds DEF Entries
  <2>2. cl[c].e \in Nat /\ cl[c].e <= made.entry
    BY <1>1 DEF Typed, Works, Placed
  <2>3. e > made'.entry => blob'[e] = 0
    BY <1>1, <2>1 DEF RowsApart, Touches
  <2>4. e > made'.entry => ~row'[e].live
    BY <1>1, <2>1, <2>2 DEF RowsApart, Touches
  <2>5. row'[e].cap => row'[e].rec # 0
    BY <1>1 DEF RowsApart, Touches
  <2> QED  BY <2>3, <2>4, <2>5
<1>6. RowsApart'
  BY <1>5 DEF RowsApart
<1>7. Chained'
  BY <1>1, <1>2 DEF Chained
<1>8. Locked'
  BY LockKeeps DEF Touches
<1>9. Grows(c)
  <2>1. \A e \in 1..made.entry : e \in Entries /\ e \in Nat /\ e # made.entry + 1
    BY EntriesMade
  <2>2. \A e \in 1..made.entry :
          \/ blob'[e] = blob[e]
          \/ blob'[e] = 0 /\ (cl[c].e = e \/ "swept" \in mishaps')
    BY <2>1 DEF Touches
  <2>3. \A e \in 1..made.entry :
          row'[e].live => \/ row[e].live /\ row'[e].rec = row[e].rec
                          \/ cl[c].pc = "row" /\ cl[c].e = e
    BY <2>1 DEF Touches
  <2> QED  BY <1>1, <1>2, <2>2, <2>3 DEF Grows, Touches
<1> QED  BY <1>3, <1>4, <1>6, <1>7, <1>8, <1>9, ClientStep DEF Touches

\* The row of an entry that is not listed.
LEMMA NoRowIs == NoRow \in Rows /\ ~NoRow.live /\ ~NoRow.cap
BY TrashBounds DEF NoRow, Rows

\* A client has hold of an entry that is made.
LEMMA InHand ==
    ASSUME Inv, NEW c \in Clients, cl[c].pc \in Holding
    PROVE  /\ cl[c] \in Works /\ Placed(c) /\ Stage(c) /\ Listing(c)
           /\ cl[c].e \in 1..made.entry /\ cl[c].e \in Entries
           /\ blob \in [Entries -> Nat] /\ row \in [Entries -> Rows]
           /\ disk \in Nat /\ made.entry \in Nat
           /\ made \in [file : Nat, entry : Nat, rec : Nat, cmd : Nat, fault : Nat]
<1>1. cl[c] \in Works /\ Placed(c) /\ Stage(c) /\ Listing(c) /\ made.entry \in Nat
  BY DEF Inv, Typed
<1>2. cl[c].e \in 1..made.entry
  BY <1>1 DEF Placed, Works
<1> QED  BY <1>1, <1>2, EntriesMade DEF Inv, Typed


\* A client is done with its entry, or goes on to commit its revert.
LEMMA DoneGoes ==
    ASSUME Inv, NEW c \in Clients,
           IF cl[c].op = 0 THEN Go(c, Idle) ELSE Go(c, [cl[c] EXCEPT !.pc = "commit", !.ok = TRUE])
    PROVE  \E r \in Works :
              /\ Go(c, r) /\ r.pc \in {"idle", "commit"} /\ r.e \in {0, cl[c].e}
              /\ r.sel \in {{}, cl[c].sel}
              /\ \/ r = Idle
                 \/ r.pc = "commit" /\ r.op = cl[c].op /\ r.op # 0 /\ r.u = cl[c].u /\ r.cap = cl[c].cap
<1>1. CASE cl[c].op = 0
  BY <1>1, IdleWorks
<1>2. CASE cl[c].op # 0
  <2> DEFINE r == [cl[c] EXCEPT !.pc = "commit", !.ok = TRUE]
  <2>1. cl[c] \in Works
    BY DEF Inv, Typed
  <2>2. r \in Works /\ r.pc = "commit" /\ r.op = cl[c].op /\ r.u = cl[c].u
        /\ r.e = cl[c].e /\ r.sel = cl[c].sel /\ r.cap = cl[c].cap
    BY <2>1 DEF Works, Pcs
  <2>3. Go(c, r)
    BY <1>2
  <2> HIDE DEF r
  <2> QED  BY <1>2, <2>2, <2>3
<1> QED  BY <1>1, <1>2

\* The row of a trashed file is written.
LEMMA RowKeeps == ASSUME Inv, NEW c \in Clients, TrashRow(c) PROVE Inv'
<1> DEFINE e == cl[c].e
           w == [live |-> TRUE, rec |-> cl[c].u, cap |-> FALSE]
<1>1. /\ cl[c].pc = "row" /\ row' = [row EXCEPT ![e] = w]
      /\ UNCHANGED <<disk, blob, rec, log, lock, dirty, made, mishaps>>
  BY DEF TrashRow
<1>2. /\ cl[c] \in Works /\ Placed(c) /\ Stage(c) /\ Listing(c)
      /\ e \in 1..made.entry /\ e \in Entries
      /\ blob \in [Entries -> Nat] /\ row \in [Entries -> Rows]
      /\ disk \in Nat /\ made.entry \in Nat
      /\ made \in [file : Nat, entry : Nat, rec : Nat, cmd : Nat, fault : Nat]
  BY <1>1, InHand DEF Holding
<1>3. w \in Rows /\ w.rec = cl[c].u /\ ~w.cap
  BY <1>2 DEF Works, Rows
<1> HIDE DEF w
<1>4. row' \in [Entries -> Rows] /\ row'[e] = w /\ \A x \in Entries : x # e => row'[x] = row[x]
  BY <1>1, <1>2, <1>3
<1>5. /\ cl' \in [Clients -> Works] /\ \A x \in Clients \ {c} : cl'[x] = cl[x]
      /\ \/ cl'[c] = Idle
         \/ /\ cl'[c].pc = "attach" /\ cl'[c].op = cl[c].op /\ cl'[c].u = cl[c].u
            /\ cl'[c].e = e /\ cl'[c].sel = cl[c].sel /\ cl'[c].cap = cl[c].cap
            /\ cl[c].u # 0
  <2>1. CASE cl[c].u = 0
    BY <2>1, IdleWorks, Goes DEF TrashRow
  <2>2. CASE cl[c].u # 0
    BY <2>2, Steps DEF TrashRow, Pcs
  <2> QED  BY <2>1, <2>2
<1>6. Touches(c)
  BY <1>1, <1>2, <1>3, <1>4, <1>5, IdleWorks DEF Touches, CountOK, Ahead
<1>7. Placed(c)'
  BY <1>1, <1>2, <1>5, IdleWorks DEF Placed, Holding
<1>8. Listing(c)'
  BY <1>5, IdleWorks DEF Listing
<1>9. Stage(c)'
  <2>1. CASE cl'[c] = Idle
    BY <2>1, IdleStage
  <2>2. CASE cl'[c] # Idle
    BY <1>1, <1>2, <1>3, <1>4, <1>5, <2>2 DEF Stage, Reverting
  <2> QED  BY <2>1, <2>2
<1> QED  BY <1>6, <1>7, <1>8, <1>9, TouchStep

\* The capture is attached to the entry.
LEMMA AttachKeeps == ASSUME Inv, NEW c \in Clients, attach_subtree(c) PROVE Inv'
<1> DEFINE e == cl[c].e
           w == [row[e] EXCEPT !.cap = TRUE]
<1>1. /\ cl[c].pc = "attach"
      /\ UNCHANGED <<disk, blob, rec, log, lock, dirty, made, mishaps>>
  BY DEF attach_subtree
<1>2. /\ cl[c] \in Works /\ Placed(c) /\ Stage(c) /\ Listing(c)
      /\ e \in 1..made.entry /\ e \in Entries
      /\ blob \in [Entries -> Nat] /\ row \in [Entries -> Rows]
      /\ disk \in Nat /\ made.entry \in Nat
      /\ made \in [file : Nat, entry : Nat, rec : Nat, cmd : Nat, fault : Nat]
  BY <1>1, InHand DEF Holding
<1>3. CASE ~row[e].live
  <2>1. TrashFails(c) /\ UNCHANGED row
    BY <1>3 DEF attach_subtree
  <2> QED  BY <1>1, <2>1, FailKeeps
<1>4. CASE row[e].live
  <2>1. /\ row' = [row EXCEPT ![e] = w]
        /\ IF cl[c].op = 0 THEN Go(c, Idle)
           ELSE Go(c, [cl[c] EXCEPT !.pc = "commit", !.ok = TRUE])
    BY <1>4 DEF attach_subtree
  <2>2. w \in Rows /\ w.rec = row[e].rec /\ w.live
    BY <1>2, <1>4 DEF Rows
  <2> HIDE DEF w
  <2>3. row' \in [Entries -> Rows] /\ row'[e] = w /\ \A x \in Entries : x # e => row'[x] = row[x]
    BY <1>2, <2>1, <2>2
  <2>4. row[e].rec # 0
    BY <1>1, <1>2, <1>4 DEF Stage
  <2>5. PICK r \in Works :
          /\ Go(c, r) /\ r.pc \in {"idle", "commit"} /\ r.e \in {0, e}
          /\ r.sel \in {{}, cl[c].sel}
          /\ \/ r = Idle
             \/ r.pc = "commit" /\ r.op = cl[c].op /\ r.op # 0 /\ r.u = cl[c].u /\ r.cap = cl[c].cap
    BY <2>1, DoneGoes
  <2>6. cl'[c] = r /\ cl' \in [Clients -> Works] /\ \A x \in Clients \ {c} : cl'[x] = cl[x]
    BY <2>5, Goes
  <2>7. Touches(c)
    BY <1>1, <1>2, <1>4, <2>2, <2>3, <2>4, <2>5, <2>6, IdleWorks DEF Touches, CountOK, Ahead
  <2>8. Placed(c)' /\ Listing(c)'
    BY <1>1, <1>2, <2>5, <2>6 DEF Placed, Holding, Listing
  <2>9. Stage(c)'
    <3>1. CASE r = Idle
      BY <2>6, <3>1, IdleStage
    <3>2. CASE r # Idle
      BY <1>1, <1>2, <2>5, <2>6, <3>2 DEF Stage
    <3> QED  BY <3>1, <3>2
  <2> QED  BY <2>7, <2>8, <2>9, TouchStep
<1> QED  BY <1>3, <1>4

\* The entry a restore emptied is unlisted.
LEMMA UnlistKeeps == ASSUME Inv, NEW c \in Clients, RestoreUnlist(c) PROVE Inv'
<1> DEFINE e == cl[c].e
<1>1. /\ cl[c].pc = "unlist" /\ row' = [row EXCEPT ![e] = NoRow]
      /\ UNCHANGED <<disk, blob, rec, log, lock, dirty, made, mishaps>>
      /\ IF cl[c].op = 0 THEN Go(c, Idle)
         ELSE Go(c, [cl[c] EXCEPT !.pc = "commit", !.ok = TRUE])
  BY DEF RestoreUnlist
<1>2. /\ cl[c] \in Works /\ Placed(c) /\ Stage(c) /\ Listing(c)
      /\ e \in 1..made.entry /\ e \in Entries
      /\ blob \in [Entries -> Nat] /\ row \in [Entries -> Rows]
      /\ disk \in Nat /\ made.entry \in Nat
      /\ made \in [file : Nat, entry : Nat, rec : Nat, cmd : Nat, fault : Nat]
  BY <1>1, InHand DEF Holding
<1>3. row' \in [Entries -> Rows] /\ row'[e] = NoRow /\ \A x \in Entries : x # e => row'[x] = row[x]
  BY <1>1, <1>2, NoRowIs
<1>4. PICK r \in Works :
        /\ Go(c, r) /\ r.pc \in {"idle", "commit"} /\ r.e \in {0, e}
        /\ r.sel \in {{}, cl[c].sel}
        /\ \/ r = Idle
           \/ r.pc = "commit" /\ r.op = cl[c].op /\ r.op # 0 /\ r.u = cl[c].u /\ r.cap = cl[c].cap
  BY <1>1, DoneGoes
<1>5. cl'[c] = r /\ cl' \in [Clients -> Works] /\ \A x \in Clients \ {c} : cl'[x] = cl[x]
  BY <1>4, Goes
<1>6. Touches(c)
  BY <1>1, <1>2, <1>3, <1>4, <1>5, NoRowIs, IdleWorks DEF Touches, CountOK, Ahead
<1>7. Placed(c)' /\ Listing(c)'
  BY <1>1, <1>2, <1>4, <1>5 DEF Placed, Holding, Listing
<1>8. Stage(c)'
  <2>1. CASE r = Idle
    BY <1>5, <2>1, IdleStage
  <2>2. CASE r # Idle
    BY <1>1, <1>2, <1>4, <1>5, <2>2 DEF Stage
  <2> QED  BY <2>1, <2>2
<1> QED  BY <1>6, <1>7, <1>8, TouchStep

\* The bytes of an entry come back to the path.
LEMMA RenameKeeps == ASSUME Inv, NEW c \in Clients, RestoreRename(c) PROVE Inv'
<1> DEFINE e == cl[c].e
<1>1. cl[c].pc = "rename" /\ UNCHANGED <<row, rec, log, lock, made>>
  BY DEF RestoreRename
<1>2. /\ cl[c] \in Works /\ Placed(c) /\ Stage(c) /\ Listing(c)
      /\ e \in 1..made.entry /\ e \in Entries
      /\ blob \in [Entries -> Nat] /\ row \in [Entries -> Rows]
      /\ disk \in Nat /\ made.entry \in Nat
      /\ made \in [file : Nat, entry : Nat, rec : Nat, cmd : Nat, fault : Nat]
  BY <1>1, InHand DEF Holding
<1>3. CASE blob[e] = 0
  <2>1. RestoreFails(c) /\ mishaps \subseteq mishaps' /\ UNCHANGED <<disk, blob>>
    BY <1>3 DEF RestoreRename
  <2> QED  BY <1>1, <2>1, FailKeeps
<1>4. CASE blob[e] # 0
  <2>1. /\ disk' = blob[e] /\ blob' = [blob EXCEPT ![e] = 0] /\ Step(c, "unlist")
        /\ mishaps \subseteq mishaps'
    BY <1>4 DEF RestoreRename
  <2>2. /\ disk' \in Nat /\ blob' \in [Entries -> Nat] /\ blob'[e] = 0
        /\ \A x \in Entries : x # e => blob'[x] = blob[x]
    BY <1>2, <2>1
  <2>3. /\ cl' \in [Clients -> Works] /\ \A x \in Clients \ {c} : cl'[x] = cl[x]
        /\ cl'[c].pc = "unlist" /\ cl'[c].op = cl[c].op /\ cl'[c].u = cl[c].u
        /\ cl'[c].e = e /\ cl'[c].sel = cl[c].sel /\ cl'[c].cap = cl[c].cap
    BY <2>1, Steps DEF Pcs
  <2>4. Touches(c)
    BY <1>1, <1>2, <2>1, <2>2, <2>3 DEF Touches, CountOK, Ahead
  <2>5. Placed(c)' /\ Listing(c)'
    BY <1>1, <1>2, <2>3 DEF Placed, Holding, Listing
  <2>6. Stage(c)'
    BY <1>1, <1>2, <2>1, <2>2, <2>3 DEF Stage, Reverting
  <2> QED  BY <2>4, <2>5, <2>6, TouchStep
<1> QED  BY <1>3, <1>4

\* A removal drops the row of a listed entry.
LEMMA RemoveKeeps == ASSUME Inv, NEW c \in Clients, RemoveRow(c) PROVE Inv'
<1>1. PICK e \in Live : /\ Begin(c, [Idle EXCEPT !.pc = "rmblob", !.e = e])
                        /\ row' = [row EXCEPT ![e] = NoRow]
  BY DEF RemoveRow
<1> DEFINE r == [Idle EXCEPT !.pc = "rmblob", !.e = e]
<1>2. UNCHANGED <<disk, blob, rec, log, lock, dirty, mishaps>>
  BY DEF RemoveRow
<1>3. /\ e \in Entries /\ e \in Nat /\ e # 0 /\ e <= made.entry
      /\ blob \in [Entries -> Nat] /\ row \in [Entries -> Rows]
      /\ disk \in Nat /\ made.entry \in Nat
  BY TrashBounds DEF Live, Entries, Inv, Typed, RowsApart
<1>4. /\ r \in Works /\ r.pc = "rmblob" /\ r.op = 0 /\ r.e = e /\ r.sel = {} /\ r.cap = FALSE
  BY <1>3, IdleWorks DEF Idle, Works, Pcs
<1> HIDE DEF r
<1>5. /\ cl'[c] = r /\ cl' \in [Clients -> Works] /\ \A x \in Clients \ {c} : cl'[x] = cl[x]
      /\ made' \in [file : Nat, entry : Nat, rec : Nat, cmd : Nat, fault : Nat]
      /\ made'.entry = made.entry /\ CountOK(c) /\ made'.fault = made.fault
  BY <1>1, <1>4, Begins DEF r
<1>6. row' \in [Entries -> Rows] /\ row'[e] = NoRow /\ \A x \in Entries : x # e => row'[x] = row[x]
  BY <1>1, <1>3, NoRowIs
<1>7. Touches(c)
  BY <1>1, <1>2, <1>3, <1>4, <1>5, <1>6, NoRowIs DEF Touches
<1>8. Placed(c)' /\ Listing(c)'
  BY <1>3, <1>4, <1>5 DEF Placed, Listing
<1>9. Stage(c)'
  BY <1>4, <1>5, <1>6, NoRowIs DEF Stage, Reverting
<1> QED  BY <1>7, <1>8, <1>9, TouchStep

\* The blob of an entry is destroyed, by a removal or a prune.
LEMMA DestroyKeeps == ASSUME Inv, NEW c \in Clients, RemoveBlob(c) \/ PruneBlob(c) PROVE Inv'
<1> DEFINE e == cl[c].e
<1>1. /\ cl[c].pc \in {"rmblob", "pruneblob"} /\ blob' = [blob EXCEPT ![e] = 0]
      /\ UNCHANGED <<disk, row, rec, log, lock, dirty, made, mishaps>>
  BY DEF RemoveBlob, PruneBlob
<1>2. /\ cl[c] \in Works /\ Placed(c) /\ Stage(c) /\ Listing(c)
      /\ e \in 1..made.entry /\ e \in Entries
      /\ blob \in [Entries -> Nat] /\ row \in [Entries -> Rows]
      /\ disk \in Nat /\ made.entry \in Nat
      /\ made \in [file : Nat, entry : Nat, rec : Nat, cmd : Nat, fault : Nat]
  BY <1>1, InHand DEF Holding
<1>3. /\ blob' \in [Entries -> Nat] /\ blob'[e] = 0
      /\ \A x \in Entries : x # e => blob'[x] = blob[x]
  BY <1>1, <1>2
<1>4. /\ cl' \in [Clients -> Works] /\ \A x \in Clients \ {c} : cl'[x] = cl[x]
      /\ \/ cl'[c] = Idle
         \/ /\ cl'[c].pc = "prunerow" /\ cl'[c].op = cl[c].op /\ cl'[c].u = cl[c].u
            /\ cl'[c].e = e /\ cl'[c].sel = cl[c].sel /\ cl'[c].cap = cl[c].cap
  <2>1. CASE RemoveBlob(c)
    BY <2>1, IdleWorks, Goes DEF RemoveBlob
  <2>2. CASE PruneBlob(c)
    BY <2>2, Steps DEF PruneBlob, Pcs
  <2> QED  BY <2>1, <2>2
<1>5. Touches(c)
  BY <1>1, <1>2, <1>3, <1>4, IdleWorks DEF Touches, CountOK, Ahead
<1>6. Placed(c)' /\ Listing(c)'
  BY <1>1, <1>2, <1>4, IdleWorks DEF Placed, Holding, Listing
<1>7. Stage(c)'
  <2>1. CASE cl'[c] = Idle
    BY <2>1, IdleStage
  <2>2. CASE cl'[c] # Idle
    BY <1>1, <1>2, <1>3, <1>4, <2>2 DEF Stage, Reverting
  <2> QED  BY <2>1, <2>2
<1> QED  BY <1>5, <1>6, <1>7, TouchStep

\* A prune drops the row of the entry it emptied and goes on to the next.
LEMMA PruneRowKeeps == ASSUME Inv, NEW c \in Clients, PruneRow(c) PROVE Inv'
<1> DEFINE e == cl[c].e
           S == cl[c].sel \ {e}
           r == PruneNext(S, cl[c].all)
<1>1. /\ cl[c].pc = "prunerow" /\ row' = [row EXCEPT ![e] = NoRow] /\ Go(c, r)
      /\ UNCHANGED <<disk, blob, rec, log, lock, dirty, made, mishaps>>
  BY DEF PruneRow
<1>2. /\ cl[c] \in Works /\ Placed(c) /\ Stage(c) /\ Listing(c)
      /\ e \in 1..made.entry /\ e \in Entries
      /\ blob \in [Entries -> Nat] /\ row \in [Entries -> Rows]
      /\ disk \in Nat /\ made.entry \in Nat
      /\ made \in [file : Nat, entry : Nat, rec : Nat, cmd : Nat, fault : Nat]
  BY <1>1, InHand DEF Holding
<1>3. row' \in [Entries -> Rows] /\ row'[e] = NoRow /\ \A x \in Entries : x # e => row'[x] = row[x]
  BY <1>1, <1>2, NoRowIs
<1>4. S \in SUBSET Nat /\ S \subseteq 1..made.entry /\ cl[c].all \in BOOLEAN
  BY <1>2 DEF Works, Placed
<1>5. /\ r \in Works /\ r.op = 0 /\ r.cap = FALSE /\ r.sel \subseteq S
      /\ \/ r.pc = "pruneblob" /\ r.e \in S
         \/ r.pc \in {"sweep", "idle"} /\ r.e = 0
  <2> DEFINE all == cl[c].all
  <2>1. S \in SUBSET Nat /\ all \in BOOLEAN
    BY <1>4
  <2> HIDE DEF S, all
  <2>2. LET x == PruneNext(S, all)
        IN  /\ x \in Works /\ x.op = 0 /\ x.cap = FALSE /\ x.sel \subseteq S
            /\ \/ x.pc = "pruneblob" /\ x.e \in S
               \/ x.pc \in {"sweep", "idle"} /\ x.e = 0
    BY <2>1, PruneGoes
  <2> QED  BY <2>2 DEF all
<1> HIDE DEF r
<1>6. cl'[c] = r /\ cl' \in [Clients -> Works] /\ \A x \in Clients \ {c} : cl'[x] = cl[x]
  BY <1>1, <1>5, Goes
<1>7. r.sel \subseteq cl[c].sel /\ r.e \in {0} \cup cl[c].sel /\ r.pc \notin Ahead
  BY <1>5 DEF Ahead
<1>8. Touches(c)
  BY <1>1, <1>2, <1>3, <1>5, <1>6, <1>7, NoRowIs DEF Touches, CountOK
<1>9. Placed(c)' /\ Listing(c)'
  BY <1>1, <1>2, <1>4, <1>5, <1>6 DEF Placed, Holding, Listing
<1>10. Stage(c)'
  BY <1>5, <1>6 DEF Stage, Reverting
<1> QED  BY <1>8, <1>9, <1>10, TouchStep

\* The sweep of a prune.
LEMMA SweepKeeps == ASSUME Inv, NEW c \in Clients, sweep_orphan_blobs(c) PROVE Inv'
<1>1. /\ cl[c].pc = "sweep" /\ blob' = [e \in Entries |-> 0] /\ Go(c, Idle)
      /\ mishaps' = IF \E e \in Entries : blob[e] # 0 THEN mishaps \cup {"swept"} ELSE mishaps
      /\ UNCHANGED <<disk, row, rec, log, lock, dirty, made>>
  BY DEF sweep_orphan_blobs
<1>2. /\ blob \in [Entries -> Nat] /\ row \in [Entries -> Rows] /\ disk \in Nat
      /\ made \in [file : Nat, entry : Nat, rec : Nat, cmd : Nat, fault : Nat]
  BY DEF Inv, Typed
<1>3. blob' \in [Entries -> Nat] /\ \A e \in Entries : blob'[e] = 0
  BY <1>1
<1>4. cl'[c] = Idle /\ cl' \in [Clients -> Works] /\ \A x \in Clients \ {c} : cl'[x] = cl[x]
  BY <1>1, IdleWorks, Goes
<1>5. \A e \in Entries : blob'[e] = blob[e] \/ (blob'[e] = 0 /\ "swept" \in mishaps')
  BY <1>1, <1>3
<1>6. mishaps \subseteq mishaps'
  BY <1>1
<1>7. Touches(c)
  BY <1>1, <1>2, <1>3, <1>4, <1>5, <1>6, IdleWorks DEF Touches, CountOK, Ahead
<1>8. Placed(c)' /\ Listing(c)'
  BY <1>1, <1>2, <1>4, IdleWorks DEF Placed, Holding, Listing
<1>9. Stage(c)'
  BY <1>4, IdleStage
<1> QED  BY <1>7, <1>8, <1>9, TouchStep

\* The bytes of a trashing go to a new entry.
LEMMA MoveKeeps == ASSUME Inv, NEW c \in Clients, TrashMove(c) PROVE Inv'
<1> DEFINE n == made.entry + 1
           r == [cl[c] EXCEPT !.pc = "row", !.e = n, !.seen = 0]
<1>1. cl[c].pc = "move" /\ UNCHANGED <<row, rec, log, lock>>
  BY DEF TrashMove
<1>2. /\ cl[c] \in Works /\ Placed(c) /\ Stage(c) /\ RowsApart
      /\ blob \in [Entries -> Nat] /\ row \in [Entries -> Rows]
      /\ disk \in Nat /\ made.entry \in Nat
      /\ made \in [file : Nat, entry : Nat, rec : Nat, cmd : Nat, fault : Nat]
  BY DEF Inv, Typed
<1>3. CASE disk = 0
  <2>1. TrashFails(c) /\ mishaps \subseteq mishaps' /\ UNCHANGED <<disk, blob, made>>
    BY <1>3 DEF TrashMove
  <2> QED  BY <1>1, <2>1, FailKeeps
<1>4. CASE disk # 0
  <2>1. /\ blob' = [blob EXCEPT ![n] = disk] /\ disk' = 0
        /\ made' = [made EXCEPT !.entry = n] /\ Go(c, r)
        /\ mishaps \subseteq mishaps'
    BY <1>4 DEF TrashMove
  <2>2. n \in Entries /\ n \in Nat /\ n > made.entry
    BY <1>1, <1>2, EntryLeft DEF Ahead
  <2>3. /\ blob' \in [Entries -> Nat] /\ blob'[n] = disk
        /\ \A x \in Entries : x # n => blob'[x] = blob[x]
    BY <1>2, <2>1, <2>2
  <2>4. /\ made' \in [file : Nat, entry : Nat, rec : Nat, cmd : Nat, fault : Nat]
        /\ made'.entry = n /\ made'.cmd = made.cmd /\ made'.fault = made.fault
    BY <1>2, <2>1, <2>2
  <2>5. /\ r \in Works /\ r.pc = "row" /\ r.op = cl[c].op /\ r.u = cl[c].u /\ r.e = n
        /\ r.sel = cl[c].sel /\ r.cap = cl[c].cap
    BY <1>2, <2>2 DEF Works, Pcs
  <2> HIDE DEF r
  <2>6. cl'[c] = r /\ cl' \in [Clients -> Works] /\ \A x \in Clients \ {c} : cl'[x] = cl[x]
    BY <2>1, <2>5, Goes
  <2>7. Touches(c)
    BY <1>1, <1>2, <2>1, <2>2, <2>3, <2>4, <2>5, <2>6 DEF Touches, CountOK, Ahead
  <2>8. Placed(c)'
    BY <1>2, <2>2, <2>4, <2>5, <2>6 DEF Placed
  <2>9. Listing(c)'
    <3>1. ~row[n].live
      BY <1>2, <2>2 DEF RowsApart
    <3>2. ASSUME NEW d \in Clients \ {c} PROVE cl[d].e # n /\ n \notin cl[d].sel
      <4>1. Placed(d) /\ cl[d] \in Works
        BY DEF Inv, Typed
      <4>2. n \notin 1..made.entry /\ ~(n <= made.entry)
        BY <1>2
      <4> HIDE DEF n
      <4> QED  BY <4>1, <4>2 DEF Placed
    <3> QED  BY <1>1, <1>4, <2>3, <2>5, <2>6, <3>1, <3>2 DEF Listing
  <2>10. Stage(c)'
    BY <1>1, <1>2, <2>5, <2>6 DEF Stage, Reverting
  <2> QED  BY <2>7, <2>8, <2>9, <2>10, TouchStep
<1> QED  BY <1>3, <1>4

\* A step of no client: the watcher's, the user's, or another's abort.
LEMMA StillKeeps ==
    ASSUME Inv, UNCHANGED <<cl, blob, row>>, Typed', LogOK, mishaps \subseteq mishaps',
           made'.entry = made.entry, made'.cmd = made.cmd,
           made'.fault = 0 => made.fault = 0 /\ lock' = lock,
           \A u \in Recs : rec'[u] = "none" => rec[u] = "none" \/ Displaced(u) \subseteq mishaps'
    PROVE  Inv'
<1>1. /\ log' \in Seq(Ops) /\ Chained'
      /\ \A i \in DOMAIN log : i \in DOMAIN log' /\ log'[i] = log[i]
  BY LogGrows
<1>2. Counted'
  BY DEF Inv, Counted, Before
<1>3. RowsApart'
  BY DEF Inv, RowsApart
<1>4. Locked'
  BY DEF Inv, Locked
<1>5. ASSUME NEW c \in Clients PROVE Placed(c)' /\ Stage(c)' /\ Listing(c)'
  <2>1. Placed(c) /\ Stage(c) /\ Listing(c) /\ cl[c] \in Works
    BY DEF Inv, Typed
  <2>2. Placed(c)' /\ Listing(c)'
    BY <2>1 DEF Placed, Listing
  <2>3. cl[c].pc \in {"relink", "plan", "rename"} /\ cl[c].op = 0 /\ cl[c].u # 0
          => \/ rec'[cl[c].u] # "none"
             \/ mishaps' \cap {"unattached", "refused", "displaced"} # {}
    <3> SUFFICES ASSUME cl[c].pc \in {"relink", "plan", "rename"}, cl[c].op = 0, cl[c].u # 0,
                        rec'[cl[c].u] = "none"
                 PROVE  mishaps' \cap {"unattached", "refused", "displaced"} # {}
      OBVIOUS
    <3>1. cl[c].u \in Recs
      BY <2>1, TrashBounds DEF Works, Recs
    <3>2. Displaced(cl[c].u) = {"displaced"}
      BY DEF Displaced
    <3> QED  BY <2>1, <3>1, <3>2 DEF Stage
  <2>4. Stage(c)'
    BY <1>1, <2>1, <2>3 DEF Stage
  <2> QED  BY <2>2, <2>4
<1> QED  BY <1>1, <1>2, <1>3, <1>4, <1>5 DEF Inv

\* The watcher applies its event.
LEMMA WatchKeeps == ASSUME Inv, Watch PROVE Inv'
<1>1. UNCHANGED <<disk, blob, row, lock, cl>>
  BY DEF Watch
<1>2. /\ Typed /\ rec \in [Recs -> {"none", "at", "orphan"}] /\ Len(log) \in Nat
      /\ made \in [file : Nat, entry : Nat, rec : Nat, cmd : Nat, fault : Nat]
  BY DEF Inv, Typed
<1>3. CASE /\ made.rec < MaxRecs
           /\ made' = [made EXCEPT !.rec = made.rec + 1]
           /\ rec' = [rec EXCEPT ![made.rec + 1] = "at"]
           /\ log' = Append(log, Create(made.rec + 1, 0))
           /\ mishaps \subseteq mishaps'
  <2> DEFINE n == made.rec + 1
  <2>1. n \in Recs /\ n \in Nat
    BY <1>2, <1>3, TrashBounds DEF Recs
  <2>2. made' \in [file : Nat, entry : Nat, rec : Nat, cmd : Nat, fault : Nat]
        /\ made'.entry = made.entry /\ made'.cmd = made.cmd /\ made'.fault = made.fault
    BY <1>2, <1>3, <2>1
  <2>3. Create(n, 0) \in Ops /\ Create(n, 0).kind = "create" /\ Create(n, 0).by = 0
    BY <2>1 DEF Create, Ops
  <2>4. LogOK
    BY <1>2, <1>3, <2>3 DEF LogOK
  <2>5. /\ rec' \in [Recs -> {"none", "at", "orphan"}]
        /\ \A u \in Recs : rec'[u] = "none" => rec[u] = "none"
    BY <1>2, <1>3, <2>1
  <2>6. log' \in Seq(Ops)
    BY <2>4, LogGrows
  <2>7. Typed'
    BY <1>1, <1>2, <2>2, <2>5, <2>6 DEF Typed
  <2> QED  BY <1>1, <1>3, <2>2, <2>4, <2>5, <2>7, StillKeeps
<1>4. CASE /\ AtPath # 0
           /\ rec' = [rec EXCEPT ![AtPath] = "orphan"]
           /\ mishaps' = mishaps \cup Displaced(AtPath)
           /\ UNCHANGED <<log, made>>
  <2>1. /\ rec' \in [Recs -> {"none", "at", "orphan"}]
        /\ \A u \in Recs : rec'[u] = "none" => rec[u] = "none"
    BY <1>2, <1>4, AtPathType
  <2>2. Typed'
    BY <1>1, <1>2, <1>4, <2>1 DEF Typed
  <2>3. LogOK /\ mishaps \subseteq mishaps'
    BY <1>4 DEF LogOK
  <2> QED  BY <1>1, <1>4, <2>1, <2>2, <2>3, StillKeeps
<1>5. CASE UNCHANGED <<rec, log, made, mishaps>>
  <2>1. Typed'
    BY <1>1, <1>2, <1>5 DEF Typed
  <2> QED  BY <1>1, <1>5, <2>1, StillKeeps DEF LogOK
<1> QED  BY <1>3, <1>4, <1>5 DEF Watch

\* The user creates or removes the file.
LEMMA UserKeeps == ASSUME Inv, UserCreates \/ UserRemoves PROVE Inv'
<1>1. /\ Typed /\ disk \in Nat
      /\ made \in [file : Nat, entry : Nat, rec : Nat, cmd : Nat, fault : Nat]
  BY DEF Inv, Typed
<1>2. UNCHANGED <<blob, row, rec, log, lock, cl, mishaps>>
  BY DEF UserCreates, UserRemoves
<1>3. /\ disk' \in Nat /\ made' \in [file : Nat, entry : Nat, rec : Nat, cmd : Nat, fault : Nat]
      /\ made'.entry = made.entry /\ made'.cmd = made.cmd /\ made'.fault = made.fault
  <2>1. CASE UserCreates
    <3>1. disk' = made.file + 1 /\ made' = [made EXCEPT !.file = made.file + 1]
      BY <2>1 DEF UserCreates
    <3> QED  BY <1>1, <3>1
  <2>2. CASE UserRemoves
    BY <1>1, <2>2 DEF UserRemoves
  <2> QED  BY <2>1, <2>2
<1>4. Typed'
  BY <1>1, <1>2, <1>3 DEF Typed
<1> QED  BY <1>2, <1>3, <1>4, StillKeeps DEF LogOK

\* Another asks to abort the revert in progress.
LEMMA AskedKeeps == ASSUME Inv, AbortAsked PROVE Inv'
<1>1. /\ UNCHANGED <<disk, blob, row, rec, log, dirty, cl, mishaps>> /\ lock' = 0 /\ Fault
  BY DEF AbortAsked
<1>2. /\ made' \in [file : Nat, entry : Nat, rec : Nat, cmd : Nat, fault : Nat]
      /\ made'.entry = made.entry /\ made'.cmd = made.cmd /\ made'.fault # 0
  BY <1>1, FaultCounts
<1>3. Typed'
  BY <1>1, <1>2 DEF Inv, Typed
<1> QED  BY <1>1, <1>2, <1>3, StillKeeps DEF LogOK


\* At the start the path has its first file and metarecord, the trash nothing.
LEMMA InitInv == Init => Inv
<1> SUFFICES ASSUME Init PROVE Inv
  OBVIOUS
<1>1. /\ disk = 1 /\ blob = [e \in Entries |-> 0] /\ row = [e \in Entries |-> NoRow]
      /\ rec = [u \in Recs |-> IF u = 1 THEN "at" ELSE "none"]
      /\ log = <<>> /\ lock = 0 /\ cl = [c \in Clients |-> Idle]
      /\ made = [file |-> 1, entry |-> 0, rec |-> 1, cmd |-> 0, fault |-> 0]
  BY DEF Init
<1>2. Typed
  BY <1>1, IdleWorks, NoRowIs DEF Typed
<1>3. \A c \in Clients : cl[c] = Idle
  BY <1>1
<1>4. Counted
  <2>1. Before = {}
    BY <1>3, IdleWorks DEF Before, Ahead
  <2>2. IsFiniteSet(Before) /\ Cardinality(Before) = 0
    BY <2>1, FS_EmptySet
  <2> QED  BY <1>1, <2>2, TrashBounds DEF Counted
<1>5. RowsApart /\ Chained /\ Locked
  BY <1>1, <1>3, NoRowIs, IdleWorks DEF RowsApart, Chained, Locked
<1>6. ASSUME NEW c \in Clients PROVE Placed(c) /\ Stage(c) /\ Listing(c)
  BY <1>1, <1>3, IdleWorks DEF Placed, Holding, Stage, Reverting, Listing
<1> QED  BY <1>2, <1>4, <1>5, <1>6 DEF Inv

\* Every step keeps the invariant.
LEMMA NextInv == Inv /\ [Next]_vars => Inv'
<1> SUFFICES ASSUME Inv, [Next]_vars PROVE Inv'
  OBVIOUS
<1>1. ASSUME NEW c \in Clients,
             \/ TrashCapture(c) \/ trash_delete_endpoint(c) \/ TrashMove(c) \/ TrashRow(c)
             \/ attach_subtree(c)
             \/ RestoreLook(c) \/ recreate_subtree(c) \/ relink_subtree(c) \/ plan_restore(c)
             \/ RestoreRename(c) \/ RestoreUnlist(c)
             \/ RemoveRow(c) \/ RemoveBlob(c)
             \/ PruneWalk(c) \/ PruneBlob(c) \/ PruneRow(c) \/ sweep_orphan_blobs(c)
             \/ RevertAtOnce(c) \/ revert_start(c) \/ decide_deleted(c) \/ retrash(c)
             \/ revert_commit(c) \/ revert_abort(c)
             \/ Crash(c)
      PROVE  Inv'
  BY <1>1, CaptureKeeps, DeleteKeeps, MoveKeeps, RowKeeps, AttachKeeps, LookKeeps,
     RecreateKeeps, RelinkKeeps, PlanKeeps, RenameKeeps, UnlistKeeps, RemoveKeeps,
     DestroyKeeps, WalkKeeps, PruneRowKeeps, SweepKeeps, AtOnceKeeps, StartKeeps,
     DecideKeeps, RetrashKeeps, CommitKeeps, AbortKeeps, CrashKeeps
<1>2. CASE Watch \/ UserCreates \/ UserRemoves \/ AbortAsked
  BY <1>2, WatchKeeps, UserKeeps, AskedKeeps
<1>3. CASE UNCHANGED vars
  BY <1>3 DEF vars, Inv, Typed, Counted, Before, RowsApart, Chained, Locked, Placed, Stage, Listing
<1> QED  BY <1>1, <1>2, <1>3 DEF Next

\* The types of the trash's state, the entries left for the commands that have
\* yet to make one, and what every client knows of its entry, its metarecord
\* and the operation it reverts, hold throughout.
THEOREM TrashInvariant == Spec => []Inv
BY InitInv, NextInv, PTL DEF Spec

-----------------------------------------------------------------------------
(* The index and the blobs agree *)

\* Where a client is about to settle an entry.
Settling == {"row", "rmblob", "unlist", "prunerow"}

IndexAt(e) ==
    /\ blob[e] # 0 => row[e].live \/ Doing(e, {"row", "rmblob"})
    /\ row[e].live /\ blob[e] = 0 => Doing(e, {"unlist", "prunerow"}) \/ "swept" \in mishaps

\* A step of client c that touches entry t alone keeps the agreement if it
\* leaves t in agreement and settles no other.
LEMMA IndexStep ==
    ASSUME IndexAgrees, NEW c \in Clients, \A x \in Clients \ {c} : cl'[x] = cl[x],
           mishaps \subseteq mishaps', made'.fault = made.fault,
           NEW t, cl[c].pc \in Settling => cl[c].e = t,
           \A e \in Entries \ {t} : blob'[e] = blob[e] /\ row'[e].live = row[e].live,
           t \in Entries /\ made.fault = 0 => IndexAt(t)'
    PROVE  IndexAgrees'
<1> SUFFICES ASSUME made.fault = 0, NEW e \in Entries, e # t
             PROVE  IndexAt(e)'
  BY DEF IndexAgrees, IndexAt
<1>1. IndexAt(e) /\ blob'[e] = blob[e] /\ row'[e].live = row[e].live
  BY DEF IndexAgrees, IndexAt
<1>3. Doing(e, {"row", "rmblob"}) => Doing(e, {"row", "rmblob"})'
  BY DEF Doing, Settling
<1>4. Doing(e, {"unlist", "prunerow"}) => Doing(e, {"unlist", "prunerow"})'
  BY DEF Doing, Settling
<1> QED  BY <1>1, <1>3, <1>4 DEF IndexAt

\* The fault count is left alone by the other counts.
LEMMA FaultStays ==
    ASSUME Inv, NEW x \in {"file", "entry", "rec", "cmd"}, NEW n,
           made' = [made EXCEPT ![x] = n]
    PROVE  made'.fault = made.fault
<1>1. made \in [file : Nat, entry : Nat, rec : Nat, cmd : Nat, fault : Nat]
  BY DEF Inv, Typed
<1> QED  BY <1>1

\* What every step of a client but a crash leaves alone.
LEMMA ClientAlone ==
    ASSUME Inv, NEW c \in Clients, NEW r, Go(c, r) \/ Begin(c, r)
    PROVE  \A x \in Clients \ {c} : cl'[x] = cl[x]
BY DEF Inv, Typed, Go, Begin

\* A command that begins is no fault.
LEMMA BeginFault ==
    ASSUME Inv, NEW c, NEW r, Begin(c, r)
    PROVE  made'.fault = made.fault /\ cl[c].pc = "idle"
<1>1. made \in [file : Nat, entry : Nat, rec : Nat, cmd : Nat, fault : Nat]
  BY DEF Inv, Typed
<1> QED  BY <1>1 DEF Begin

\* A step of client c that does not touch the trash keeps the agreement.
LEMMA IndexQuiet ==
    ASSUME Inv, IndexAgrees, NEW c \in Clients, NEW r, Go(c, r) \/ Begin(c, r),
           cl[c].pc \notin Settling, mishaps \subseteq mishaps',
           made' = made \/ Begin(c, r),
           \A e \in Entries : blob'[e] = blob[e] /\ row'[e].live = row[e].live
    PROVE  IndexAgrees'
<1>1. /\ \A x \in Clients \ {c} : cl'[x] = cl[x]
      /\ made'.fault = made.fault
  BY ClientAlone, BeginFault
<1>2. 0 \notin Entries
  BY DEF Entries
<1> QED  BY <1>1, <1>2, IndexStep

\* The steps of a client that do not touch the trash.
Elsewhere(c) ==
    \/ TrashCapture(c) \/ trash_delete_endpoint(c)
    \/ RestoreLook(c) \/ recreate_subtree(c) \/ relink_subtree(c) \/ plan_restore(c)
    \/ PruneWalk(c)
    \/ RevertAtOnce(c) \/ revert_start(c) \/ decide_deleted(c) \/ retrash(c)
    \/ revert_commit(c) \/ revert_abort(c)

\* What such a step does to the rest of the state.
LEMMA ElsewhereIs ==
    ASSUME Inv, NEW c \in Clients, Elsewhere(c)
    PROVE  /\ UNCHANGED <<disk, blob, row, dirty>> /\ mishaps \subseteq mishaps'
           /\ cl[c].pc \notin Settling
           /\ \E r : (Go(c, r) /\ made' = made) \/ Begin(c, r)
<1>1. CASE TrashCapture(c) \/ RestoreLook(c) \/ PruneWalk(c) \/ RevertAtOnce(c) \/ revert_start(c)
  <2>1. UNCHANGED <<disk, blob, row, dirty>>
    BY <1>1 DEF TrashCapture, RestoreLook, PruneWalk, RevertAtOnce, revert_start
  <2>2. \E r : Begin(c, r)
    BY <1>1 DEF TrashCapture, RestoreLook, PruneWalk, RevertAtOnce, revert_start
  <2>3. cl[c].pc = "idle"
    BY <2>2 DEF Begin
  <2>4. mishaps \subseteq mishaps'
    BY <1>1 DEF TrashCapture, RestoreLook, PruneWalk, RevertAtOnce, revert_start, revert_apply
  <2> QED  BY <2>1, <2>2, <2>3, <2>4 DEF Settling
<1>2. CASE trash_delete_endpoint(c) \/ recreate_subtree(c)
  <2>1. \E r : Go(c, r)
    BY <1>2 DEF trash_delete_endpoint, recreate_subtree, Step
  <2> QED  BY <1>2, <2>1 DEF trash_delete_endpoint, recreate_subtree, Settling
<1>3. CASE relink_subtree(c) \/ plan_restore(c) \/ decide_deleted(c) \/ retrash(c)
  <2>1. \E r : Go(c, r)
    BY <1>3 DEF relink_subtree, plan_restore, decide_deleted, retrash, Step, RestoreFails
  <2> QED  BY <1>3, <2>1 DEF relink_subtree, plan_restore, decide_deleted, retrash, Settling
<1>4. CASE revert_commit(c) \/ revert_abort(c)
  <2>1. \E r : Go(c, r)
    BY <1>4 DEF revert_commit, revert_abort, Step
  <2>2. mishaps \subseteq mishaps'
    BY <1>4 DEF revert_commit, revert_abort, revert_apply
  <2> QED  BY <1>4, <2>1, <2>2 DEF revert_commit, revert_abort, Settling
<1> QED  BY <1>1, <1>2, <1>3, <1>4 DEF Elsewhere

\* The steps of a trashing on the trash keep the agreement.
LEMMA IndexTrash ==
    ASSUME Inv, IndexAgrees, NEW c \in Clients, TrashMove(c) \/ TrashRow(c) \/ attach_subtree(c)
    PROVE  IndexAgrees'
<1>1. CASE TrashMove(c)
  <2>1. cl[c].pc = "move" /\ UNCHANGED row
    BY <1>1 DEF TrashMove
  <2>2. CASE disk = 0
    <3>1. /\ TrashFails(c) /\ mishaps \subseteq mishaps' /\ UNCHANGED <<blob, made>>
      BY <1>1, <2>2 DEF TrashMove
    <3>2. PICK r : Go(c, r)
      BY <3>1 DEF TrashFails, Step
    <3> QED  BY <2>1, <3>1, <3>2, IndexQuiet DEF Settling
  <2>3. CASE disk # 0
    <3>0. PICK n : n = made.entry + 1
      OBVIOUS
    <3> DEFINE r == [cl[c] EXCEPT !.pc = "row", !.e = n, !.seen = 0]
    <3>1. /\ blob' = [blob EXCEPT ![n] = disk] /\ made' = [made EXCEPT !.entry = n]
          /\ Go(c, r) /\ mishaps \subseteq mishaps'
      BY <1>1, <2>3, <3>0 DEF TrashMove
    <3>2. n \in Entries /\ blob \in [Entries -> Nat] /\ cl[c] \in Works /\ n > made.entry
      BY <2>1, <3>0, EntryLeft DEF Ahead, Inv, Typed
    <3>3. ~row[n].live
      BY <3>2 DEF Inv, RowsApart
    <3>4. cl'[c].e = n /\ cl'[c].pc = "row"
      BY <3>1, <3>2 DEF Go, Inv, Typed, Works
    <3>5. made'.fault = made.fault /\ \A x \in Clients \ {c} : cl'[x] = cl[x]
      BY <3>1, ClientAlone, FaultStays
    <3> HIDE DEF r
    <3>6. \A x \in Entries \ {n} : blob'[x] = blob[x]
      BY <3>1, <3>2
    <3>7. Doing(n, {"row", "rmblob"})'
      BY <3>4 DEF Doing
    <3>8. IndexAt(n)'
      BY <2>1, <3>3, <3>7 DEF IndexAt
    <3> QED  BY <2>1, <3>1, <3>5, <3>6, <3>8, IndexStep DEF Settling
  <2> QED  BY <2>2, <2>3
<1>2. CASE TrashRow(c)
  <2>0. PICK e : e = cl[c].e
    OBVIOUS
  <2> DEFINE w == [live |-> TRUE, rec |-> cl[c].u, cap |-> FALSE]
  <2>1. /\ cl[c].pc = "row" /\ row' = [row EXCEPT ![e] = w] /\ UNCHANGED <<blob, made, mishaps>>
    BY <1>2, <2>0 DEF TrashRow
  <2>2. e \in Entries /\ row \in [Entries -> Rows] /\ Listing(c)
    BY <2>0, <2>1, InHand DEF Holding
  <2>3. row'[e].live /\ \A x \in Entries \ {e} : row'[x] = row[x]
    BY <2>1, <2>2
  <2>4. \A x \in Clients \ {c} : cl'[x] = cl[x]
    BY <1>2, ClientAlone DEF TrashRow, Step
  <2>5. IndexAt(e)'
    BY <2>0, <2>1, <2>2, <2>3 DEF IndexAt, Listing
  <2> QED  BY <2>0, <2>1, <2>3, <2>4, <2>5, IndexStep
<1>3. CASE attach_subtree(c)
  <2> DEFINE e == cl[c].e
             w == [row[e] EXCEPT !.cap = TRUE]
  <2>1. /\ cl[c].pc = "attach" /\ UNCHANGED <<blob, made, mishaps>>
        /\ row' = row \/ row' = [row EXCEPT ![e] = w]
    BY <1>3 DEF attach_subtree
  <2>2. e \in Entries /\ row \in [Entries -> Rows]
    BY <2>1, InHand DEF Holding
  <2>3. \A x \in Entries : row'[x].live = row[x].live
    <3>1. w.live = row[e].live
      BY <2>2 DEF Rows
    <3> HIDE DEF w
    <3> QED  BY <2>1, <2>2, <3>1
  <2>4. PICK r : Go(c, r)
    BY <1>3 DEF attach_subtree, TrashFails, Step
  <2> QED  BY <2>1, <2>3, <2>4, IndexQuiet DEF Settling
<1> QED  BY <1>1, <1>2, <1>3

\* The steps of a restore on the trash keep the agreement.
LEMMA IndexRestore ==
    ASSUME Inv, IndexAgrees, NEW c \in Clients, RestoreRename(c) \/ RestoreUnlist(c)
    PROVE  IndexAgrees'
<1>0. PICK e : e = cl[c].e
  OBVIOUS
<1>1. CASE RestoreRename(c)
  <2>1. cl[c].pc = "rename" /\ UNCHANGED <<row, made>> /\ mishaps \subseteq mishaps'
    BY <1>1 DEF RestoreRename
  <2>2. CASE blob[e] = 0
    <3>1. RestoreFails(c) /\ UNCHANGED blob
      BY <1>0, <1>1, <2>2 DEF RestoreRename
    <3>2. PICK r : Go(c, r)
      BY <3>1 DEF RestoreFails
    <3> QED  BY <2>1, <3>1, <3>2, IndexQuiet DEF Settling
  <2>3. CASE blob[e] # 0
    <3>1. blob' = [blob EXCEPT ![e] = 0] /\ Step(c, "unlist")
      BY <1>0, <1>1, <2>3 DEF RestoreRename
    <3>2. e \in Entries /\ blob \in [Entries -> Nat]
      BY <1>0, <2>1, InHand DEF Holding
    <3>3. blob'[e] = 0 /\ \A x \in Entries \ {e} : blob'[x] = blob[x]
      BY <3>1, <3>2
    <3>4. cl'[c].pc = "unlist" /\ cl'[c].e = e /\ \A x \in Clients \ {c} : cl'[x] = cl[x]
      BY <1>0, <3>1, Steps DEF Pcs
    <3>5. Doing(e, {"unlist", "prunerow"})'
      BY <3>4 DEF Doing
    <3>6. IndexAt(e)'
      BY <3>3, <3>5 DEF IndexAt
    <3> QED  BY <1>0, <2>1, <3>3, <3>4, <3>6, IndexStep
  <2> QED  BY <2>2, <2>3
<1>2. CASE RestoreUnlist(c)
  <2>1. cl[c].pc = "unlist" /\ row' = [row EXCEPT ![e] = NoRow] /\ UNCHANGED <<blob, made, mishaps>>
    BY <1>0, <1>2 DEF RestoreUnlist
  <2>2. e \in Entries /\ row \in [Entries -> Rows] /\ blob[e] = 0
    BY <1>0, <2>1, InHand DEF Holding, Stage
  <2>3. ~row'[e].live /\ \A x \in Entries \ {e} : row'[x] = row[x]
    BY <2>1, <2>2, NoRowIs
  <2>4. \A x \in Clients \ {c} : cl'[x] = cl[x]
    BY <1>2, ClientAlone DEF RestoreUnlist
  <2>5. IndexAt(e)'
    BY <2>1, <2>2, <2>3 DEF IndexAt
  <2> QED  BY <1>0, <2>1, <2>3, <2>4, <2>5, IndexStep
<1> QED  BY <1>1, <1>2

\* Removing and pruning keep the agreement.
LEMMA IndexRemove ==
    ASSUME Inv, IndexAgrees, NEW c \in Clients,
           RemoveRow(c) \/ RemoveBlob(c) \/ PruneBlob(c) \/ PruneRow(c) \/ sweep_orphan_blobs(c)
    PROVE  IndexAgrees'
<1>1. CASE RemoveRow(c)
  <2>1. PICK e \in Live : /\ Begin(c, [Idle EXCEPT !.pc = "rmblob", !.e = e])
                          /\ row' = [row EXCEPT ![e] = NoRow]
    BY <1>1 DEF RemoveRow
  <2>2. UNCHANGED <<blob, mishaps>> /\ e \in Entries /\ row \in [Entries -> Rows]
    BY <1>1 DEF RemoveRow, Live, Inv, Typed
  <2>3. ~row'[e].live /\ \A x \in Entries \ {e} : row'[x] = row[x]
    BY <2>1, <2>2, NoRowIs
  <2>4. /\ \A x \in Clients \ {c} : cl'[x] = cl[x]
        /\ made'.fault = made.fault /\ cl[c].pc = "idle"
    BY <2>1, ClientAlone, BeginFault
  <2>5. cl'[c].pc = "rmblob" /\ cl'[c].e = e
    BY <2>1 DEF Begin, Go, Inv, Typed, Idle
  <2>6. Doing(e, {"row", "rmblob"})'
    BY <2>5 DEF Doing
  <2>7. IndexAt(e)'
    BY <2>3, <2>6 DEF IndexAt
  <2> QED  BY <2>2, <2>3, <2>4, <2>7, IndexStep DEF Settling
<1>2. CASE RemoveBlob(c) \/ PruneBlob(c)
  <2>0. PICK e : e = cl[c].e
    OBVIOUS
  <2>1. /\ cl[c].pc \in {"rmblob", "pruneblob"} /\ blob' = [blob EXCEPT ![e] = 0]
        /\ UNCHANGED <<row, made, mishaps>>
    BY <1>2, <2>0 DEF RemoveBlob, PruneBlob
  <2>2. e \in Entries /\ blob \in [Entries -> Nat] /\ Stage(c)
    BY <2>0, <2>1, InHand DEF Holding
  <2>3. blob'[e] = 0 /\ \A x \in Entries \ {e} : blob'[x] = blob[x]
    BY <2>1, <2>2
  <2>4. \A x \in Clients \ {c} : cl'[x] = cl[x]
    BY <1>2, ClientAlone DEF RemoveBlob, PruneBlob, Step
  <2>5. row[e].live => Doing(e, {"unlist", "prunerow"})'
    <3>1. CASE RemoveBlob(c)
      BY <2>0, <2>2, <3>1 DEF RemoveBlob, Stage
    <3>2. CASE PruneBlob(c)
      <4>1. cl'[c].pc = "prunerow" /\ cl'[c].e = e
        BY <2>0, <3>2, Steps DEF PruneBlob, Pcs
      <4> QED  BY <4>1 DEF Doing
    <3> QED  BY <1>2, <3>1, <3>2
  <2>6. IndexAt(e)'
    BY <2>1, <2>3, <2>5 DEF IndexAt
  <2> QED  BY <2>0, <2>1, <2>3, <2>4, <2>6, IndexStep
<1>3. CASE PruneRow(c)
  <2>0. PICK e : e = cl[c].e
    OBVIOUS
  <2>1. /\ cl[c].pc = "prunerow" /\ row' = [row EXCEPT ![e] = NoRow]
        /\ UNCHANGED <<blob, made, mishaps>>
    BY <1>3, <2>0 DEF PruneRow
  <2>2. e \in Entries /\ row \in [Entries -> Rows] /\ blob[e] = 0
    BY <2>0, <2>1, InHand DEF Holding, Stage
  <2>3. ~row'[e].live /\ \A x \in Entries \ {e} : row'[x] = row[x]
    BY <2>1, <2>2, NoRowIs
  <2>4. \A x \in Clients \ {c} : cl'[x] = cl[x]
    BY <1>3, ClientAlone DEF PruneRow
  <2>5. IndexAt(e)'
    BY <2>1, <2>2, <2>3 DEF IndexAt
  <2> QED  BY <2>0, <2>1, <2>3, <2>4, <2>5, IndexStep
<1>4. CASE sweep_orphan_blobs(c)
  <2>1. /\ cl[c].pc = "sweep" /\ blob' = [e \in Entries |-> 0] /\ Go(c, Idle)
        /\ mishaps' = IF \E e \in Entries : blob[e] # 0 THEN mishaps \cup {"swept"} ELSE mishaps
        /\ UNCHANGED <<row, made>>
    BY <1>4 DEF sweep_orphan_blobs
  <2>2. CASE \E e \in Entries : blob[e] # 0
    <3>1. "swept" \in mishaps' /\ \A e \in Entries : blob'[e] = 0
      BY <2>1, <2>2
    <3> QED  BY <3>1 DEF IndexAgrees
  <2>3. CASE \A e \in Entries : blob[e] = 0
    <3>1. mishaps' = mishaps /\ \A e \in Entries : blob'[e] = blob[e]
      BY <2>1, <2>3
    <3> QED  BY <2>1, <3>1, IndexQuiet DEF Settling
  <2> QED  BY <2>2, <2>3
<1> QED  BY <1>1, <1>2, <1>3, <1>4

\* Without a crash every blob is listed, or a client is about to list or to
\* destroy it, and every listed entry has its blob, or the client that took the
\* blob is about to drop the row, or a sweep met an entry newer than its walk
\* (trash_path: "a row always implies its blob").
THEOREM ListedHasItsBlob == Spec => []IndexAgrees
<1>1. Init => IndexAgrees
  BY NoRowIs DEF Init, IndexAgrees
<1>2. ASSUME Inv, IndexAgrees, [Next]_vars PROVE IndexAgrees'
  <2>1. ASSUME NEW c \in Clients, Elsewhere(c) PROVE IndexAgrees'
    <3>1. /\ UNCHANGED <<disk, blob, row, dirty>> /\ mishaps \subseteq mishaps'
          /\ cl[c].pc \notin Settling
          /\ \E r : (Go(c, r) /\ made' = made) \/ Begin(c, r)
      BY <1>2, <2>1, ElsewhereIs
    <3> QED  BY <1>2, <3>1, IndexQuiet
  <2>2. ASSUME NEW c \in Clients, Crash(c) \/ AbortAsked PROVE IndexAgrees'
    <3>1. made'.fault # 0
      BY <1>2, <2>2, FaultCounts DEF Crash, AbortAsked
    <3> QED  BY <3>1 DEF IndexAgrees
  <2>3. CASE AbortAsked
    <3>1. made'.fault # 0
      BY <1>2, <2>3, FaultCounts DEF AbortAsked
    <3> QED  BY <3>1 DEF IndexAgrees
  <2>4. CASE Watch \/ UserCreates \/ UserRemoves
    <3>1. UNCHANGED <<blob, row, cl>> /\ mishaps \subseteq mishaps'
      BY <2>4 DEF Watch, UserCreates, UserRemoves
    <3>2. made'.fault = made.fault
      BY <1>2, <2>4, FaultStays DEF Watch, UserCreates, UserRemoves
    <3> QED  BY <1>2, <3>1, <3>2 DEF IndexAgrees, Doing
  <2>5. CASE UNCHANGED vars
    BY <1>2, <2>5 DEF vars, IndexAgrees, Doing
  <2> QED  BY <1>2, <2>1, <2>2, <2>3, <2>4, <2>5, IndexTrash, IndexRestore, IndexRemove
              DEF Next, Elsewhere
<1> QED  BY <1>1, <1>2, TrashInvariant, PTL DEF Spec

-----------------------------------------------------------------------------
(* Bytes leave by choice *)

\* The ways the bytes of f may leave in a step.
Chosen(f) ==
    \/ cl' = cl
    \/ \E c \in Clients : By(c) /\
          \/ cl[c].pc \in {"rmblob", "pruneblob"} /\ blob[cl[c].e] = f
          \/ cl[c].pc = "sweep"
          \/ cl[c].pc = "rename" /\ disk = f /\ cl[c].seen # f

\* The bytes of a trashing are at the path or in the entry made for them.
LEMMA MoveHolds ==
    ASSUME Inv, NEW c \in Clients, TrashMove(c), NEW f \in Files, Held(f)
    PROVE  Held(f)'
<1>1. cl[c].pc = "move"
  BY DEF TrashMove
<1>2. CASE disk = 0
  <2>1. UNCHANGED <<disk, blob>>
    BY <1>2 DEF TrashMove
  <2> QED  BY <2>1 DEF Held
<1>3. CASE disk # 0
  <2>1. PICK n : n = made.entry + 1
    OBVIOUS
  <2>2. blob' = [blob EXCEPT ![n] = disk] /\ disk' = 0
    BY <1>3, <2>1 DEF TrashMove
  <2>3. n \in Entries /\ blob \in [Entries -> Nat] /\ n > made.entry
    BY <1>1, <2>1, EntryLeft DEF Ahead, Inv, Typed
  <2>4. blob[n] = 0
    BY <2>3 DEF Inv, RowsApart
  <2>5. blob'[n] = disk /\ \A x \in Entries \ {n} : blob'[x] = blob[x]
    BY <2>2, <2>3
  <2>6. f # 0
    BY TrashBounds DEF Files
  <2> QED  BY <2>3, <2>4, <2>5, <2>6 DEF Held
<1> QED  BY <1>2, <1>3

\* A restore puts the bytes of its entry at the path, and replaces a file there
\* only if it came since the restore looked.
LEMMA RenameHolds ==
    ASSUME Inv, NEW c \in Clients, RestoreRename(c), NEW f \in Files, Held(f), ~Held(f)'
    PROVE  Chosen(f)
<1>1. PICK e : e = cl[c].e
  OBVIOUS
<1>2. cl[c].pc = "rename"
  BY DEF RestoreRename
<1>3. e \in Entries /\ blob \in [Entries -> Nat] /\ cl[c].seen = 0 /\ cl[c] \in Works
  BY <1>1, <1>2, InHand DEF Holding, Stage
<1>4. f # 0
  BY TrashBounds DEF Files
<1>5. CASE blob[e] = 0
  <2>1. UNCHANGED <<disk, blob>>
    BY <1>1, <1>5 DEF RestoreRename
  <2> QED  BY <2>1 DEF Held
<1>6. CASE blob[e] # 0
  <2>1. disk' = blob[e] /\ blob' = [blob EXCEPT ![e] = 0] /\ Step(c, "unlist")
    BY <1>1, <1>6 DEF RestoreRename
  <2>2. \A x \in Entries \ {e} : blob'[x] = blob[x]
    BY <1>3, <2>1
  <2>3. disk = f
    BY <2>1, <2>2 DEF Held
  <2>4. cl'[c].pc = "unlist"
    BY <2>1, Steps DEF Pcs
  <2> QED  BY <1>2, <1>3, <1>4, <2>3, <2>4 DEF Chosen, By
<1> QED  BY <1>5, <1>6

\* A removal or a prune takes away the blob of its entry alone.
LEMMA DestroyHolds ==
    ASSUME Inv, NEW c \in Clients, RemoveBlob(c) \/ PruneBlob(c),
           NEW f \in Files, Held(f), ~Held(f)'
    PROVE  Chosen(f)
<1>1. PICK e : e = cl[c].e
  OBVIOUS
<1>2. /\ cl[c].pc \in {"rmblob", "pruneblob"} /\ blob' = [blob EXCEPT ![e] = 0]
      /\ UNCHANGED disk
  BY <1>1 DEF RemoveBlob, PruneBlob
<1>3. e \in Entries /\ blob \in [Entries -> Nat]
  BY <1>1, <1>2, InHand DEF Holding
<1>4. \A x \in Entries \ {e} : blob'[x] = blob[x]
  BY <1>2, <1>3
<1>5. blob[e] = f
  BY <1>2, <1>4 DEF Held
<1>6. cl'[c].pc \in {"idle", "prunerow"}
  <2>1. CASE RemoveBlob(c)
    BY <2>1, Goes, IdleWorks DEF RemoveBlob
  <2>2. CASE PruneBlob(c)
    BY <2>2, Steps DEF PruneBlob, Pcs
  <2> QED  BY <2>1, <2>2
<1> QED  BY <1>1, <1>2, <1>5, <1>6 DEF Chosen, By

\* A sweep takes every blob away.
LEMMA SweepHolds ==
    ASSUME Inv, NEW c \in Clients, sweep_orphan_blobs(c), NEW f
    PROVE  Chosen(f)
<1>1. cl[c].pc = "sweep" /\ cl'[c] = Idle
  BY Goes, IdleWorks DEF sweep_orphan_blobs
<1> QED  BY <1>1, IdleWorks DEF Chosen, By

\* A file's bytes leave the disk and the trash together only by the user's own
\* rm, by removing or pruning the entry that holds them, by the sweep of `prune
\* --all`, or because a restore replaced a file that came to the path after the
\* restore looked.
THEOREM BytesAreNotLost == Spec => BytesLeaveByChoice
<1>1. ASSUME Inv, [Next]_vars PROVE [\A f \in Files : Held(f) /\ ~Held(f)' => Chosen(f)]_vars
  <2> SUFFICES ASSUME Next, NEW f \in Files, Held(f), ~Held(f)'
               PROVE  Chosen(f)
    BY <1>1
  <2>1. disk' # disk \/ blob' # blob
    BY DEF Held
  <2>2. CASE Watch \/ UserCreates \/ UserRemoves \/ AbortAsked
    BY <2>2 DEF Watch, UserCreates, UserRemoves, AbortAsked, Chosen
  <2>3. ASSUME NEW c \in Clients,
               \/ Elsewhere(c) \/ Crash(c)
               \/ TrashRow(c) \/ attach_subtree(c) \/ RestoreUnlist(c) \/ RemoveRow(c) \/ PruneRow(c)
        PROVE  FALSE
    <3>1. UNCHANGED <<disk, blob>>
      BY <1>1, <2>3, ElsewhereIs
         DEF Crash, TrashRow, attach_subtree, RestoreUnlist, RemoveRow, PruneRow
    <3> QED  BY <2>1, <3>1
  <2> QED  BY <1>1, <2>2, <2>3, MoveHolds, RenameHolds, DestroyHolds, SweepHolds
              DEF Next, Elsewhere
<1>2. [\A f \in Files : Held(f) /\ ~Held(f)' => Chosen(f)]_vars <=>
      [\A f \in Files : Held(f) /\ ~Held(f)' =>
          \/ cl' = cl
          \/ \E c \in Clients : By(c) /\
                \/ cl[c].pc \in {"rmblob", "pruneblob"} /\ blob[cl[c].e] = f
                \/ cl[c].pc = "sweep"
                \/ cl[c].pc = "rename" /\ disk = f /\ cl[c].seen # f]_vars
  BY DEF Chosen
<1> QED  BY <1>1, <1>2, TrashInvariant, PTL DEF Spec, BytesLeaveByChoice

-----------------------------------------------------------------------------
(* The chain of reverts behind an operation *)

\* What the operator says of operation j of log l, given what g says of the
\* operations before it, and a function that says so of 0..i.
Leads(l, g, j) == j # 0 /\ ((l[j].kind = "delete" /\ l[j].trash) \/ g[l[j].by])

Coupling(l, i, g) == g = [j \in 0..i |-> Leads(l, g, j)]

\* A log whose operations revert older ones.
Backward(l) == l \in Seq(Ops) /\ \A j \in DOMAIN l : l[j].by \in Nat /\ l[j].by < j

\* The last value of such a function.
Coupled(l, i) == (CHOOSE g : Coupling(l, i, g))[i]

\* The operator says what such a function says of the operation itself.
LEMMA CoupledIs == ASSUME NEW i PROVE trash_coupled(i) = Coupled(log, i)
BY DEF trash_coupled, Coupling, Leads, Coupled

\* After a step too.
LEMMA CoupledNext == ASSUME NEW i PROVE trash_coupled(i)' = Coupled(log', i)
BY DEF trash_coupled, Coupling, Leads, Coupled

\* Such a function exists: each value needs an earlier one only.
LEMMA CouplingExists ==
    ASSUME NEW l, Backward(l), NEW i \in 0..Len(l)
    PROVE  \E g : Coupling(l, i, g)
<1> DEFINE T == {k \in 0..Len(l) : ~\E g : Coupling(l, k, g)}
<1>1. Len(l) \in Nat /\ DOMAIN l = 1..Len(l) /\ \A j \in 1..Len(l) : l[j].by \in Nat /\ l[j].by < j
  BY DEF Backward
<1>2. SUFFICES ASSUME T # {} PROVE FALSE
  OBVIOUS
<1>3. PICK m \in T : \A k \in T : m <= k
  <2>1. T \in SUBSET Nat
    BY <1>1
  <2> HIDE DEF T
  <2> QED  BY <1>2, <2>1, LeastNatural
<1>4. m \in 0..Len(l) /\ m \in Nat /\ ~\E g : Coupling(l, m, g)
  BY <1>1, <1>3
<1>5. m # 0
  <2> DEFINE g == [j \in 0..0 |-> FALSE]
  <2>1. \A j \in 0..0 : j = 0
    OBVIOUS
  <2>2. \A j \in 0..0 : Leads(l, g, j) = FALSE
    BY <2>1, Zenon DEF Leads
  <2>3. [j \in 0..0 |-> Leads(l, g, j)] = g
    <3> HIDE DEF Leads
    <3> QED  BY <2>2
  <2>4. Coupling(l, 0, g)
    BY <2>3 DEF Coupling
  <2> QED  BY <1>4, <2>4
<1>6. m - 1 \in 0..Len(l) /\ m - 1 \notin T
  BY <1>1, <1>3, <1>4, <1>5
<1>7. PICK g : Coupling(l, m - 1, g)
  BY <1>6
<1> HIDE DEF T
<1> DEFINE h == [j \in 0..m |-> IF j = m THEN Leads(l, g, m) ELSE g[j]]
<1>8. \A j \in 0..(m - 1) : g[j] = Leads(l, g, j)
  BY <1>7 DEF Coupling
<1>9. ASSUME NEW j \in 0..m PROVE h[j] = Leads(l, h, j)
  <2>1. j = 0 \/ (l[j].by \in 0..(m - 1) /\ l[j].by \in 0..m /\ l[j].by # m)
    BY <1>1, <1>4
  <2>2. j = 0 \/ h[l[j].by] = g[l[j].by]
    BY <2>1
  <2>3. Leads(l, h, j) = Leads(l, g, j)
    BY <2>2, Zenon DEF Leads
  <2>4. CASE j = m
    BY <2>3, <2>4
  <2>5. CASE j # m
    <3>1. j \in 0..(m - 1)
      BY <1>4, <2>5
    <3> QED  BY <1>8, <2>3, <2>5, <3>1
  <2> QED  BY <2>4, <2>5
<1>10. Coupling(l, m, h)
  <2>1. h = [j \in 0..m |-> h[j]]
    OBVIOUS
  <2> HIDE DEF h
  <2>2. [j \in 0..m |-> h[j]] = [j \in 0..m |-> Leads(l, h, j)]
    BY <1>9
  <2> QED  BY <2>1, <2>2 DEF Coupling
<1> QED  BY <1>4, <1>10

\* Two logs agree up to operation i.
Agree(l, k, i) == \A j \in 1..i : k[j] = l[j]

\* And it is the same on a log that goes on.
LEMMA CouplingSame ==
    ASSUME NEW l, Backward(l), NEW k, NEW i \in 0..Len(l),
           Agree(l, k, i), NEW n \in Nat, i <= n,
           NEW g, Coupling(l, i, g), NEW h, Coupling(k, n, h)
    PROVE  g[i] = h[i]
<1> DEFINE T == {j \in 0..i : g[j] # h[j]}
<1>1. Len(l) \in Nat /\ i \in Nat /\ \A j \in 1..Len(l) : l[j].by \in Nat /\ l[j].by < j
  BY DEF Backward
<1>2. SUFFICES ASSUME T # {} PROVE FALSE
  BY <1>1
<1>3. PICK m \in T : \A j \in T : m <= j
  <2>1. T \in SUBSET Nat
    BY <1>1
  <2> HIDE DEF T
  <2> QED  BY <1>2, <2>1, LeastNatural
<1>4. m \in 0..i /\ m \in Nat /\ g[m] # h[m]
  BY <1>1, <1>3
<1>5. \A j \in 0..i : j < m => g[j] = h[j]
  BY <1>1, <1>3, <1>4
<1> HIDE DEF T
<1>6. m \in 0..n
  BY <1>1, <1>4
<1>7. g[m] = Leads(l, g, m)
  BY <1>4 DEF Coupling
<1>8. h[m] = Leads(k, h, m)
  BY <1>6 DEF Coupling
<1>9. m = 0 \/ (k[m] = l[m] /\ g[l[m].by] = h[l[m].by])
  <2> SUFFICES ASSUME m # 0 PROVE k[m] = l[m] /\ g[l[m].by] = h[l[m].by]
    OBVIOUS
  <2>1. m \in 1..i /\ m \in 1..Len(l)
    BY <1>1, <1>4
  <2>2. l[m].by \in 0..i /\ l[m].by < m
    BY <1>1, <2>1
  <2> QED  BY <1>5, <2>1, <2>2 DEF Agree
<1>10. Leads(l, g, m) = Leads(k, h, m)
  BY <1>9, Zenon DEF Leads
<1> QED  BY <1>4, <1>7, <1>8, <1>10

\* An operation that is no trashing leads back to one only if the one it reverts
\* does.
LEMMA CouplingCarries ==
    ASSUME NEW l, NEW k, Backward(l), Backward(k), NEW i \in 0..Len(l), Agree(l, k, i),
           NEW n \in 0..Len(k), n \in Nat, i \in Nat, i <= n, ~k[n].trash, k[n].by = i,
           ~Coupled(l, i)
    PROVE  ~Coupled(k, n)
<1>1. \E g : Coupling(l, i, g)
  BY CouplingExists
<1>2. \E g : Coupling(k, n, g)
  BY CouplingExists
<1>3. PICK g : g = (CHOOSE x : Coupling(l, i, x)) /\ Coupling(l, i, g)
  BY <1>1
<1>4. PICK h : h = (CHOOSE x : Coupling(k, n, x)) /\ Coupling(k, n, h)
  BY <1>2
<1>5. g[i] = h[i]
  BY <1>3, <1>4, CouplingSame
<1>6. h[n] = Leads(k, h, n)
  BY <1>4 DEF Coupling
<1>7. ~g[i]
  BY <1>3 DEF Coupled
<1>8. ~Leads(k, h, n)
  BY <1>5, <1>7 DEF Leads
<1> QED  BY <1>4, <1>6, <1>8 DEF Coupled

\* A deletion that reverts an operation no trashing is behind has none behind it.
LEMMA NotCoupled ==
    ASSUME Inv, NEW i \in DOMAIN log, ~trash_coupled(i), NEW o \in Ops, ~o.trash, o.by = i,
           log' = Append(log, o), LogOK, NEW n, n = Len(log) + 1
    PROVE  ~trash_coupled(n)'
<1>1. Backward(log) /\ Backward(log')
  <2>1. log' \in Seq(Ops) /\ Chained' /\ log \in Seq(Ops) /\ Chained
    BY LogGrows DEF Inv, Typed
  <2>2. \A x \in Ops : x.by \in Nat
    BY DEF Ops
  <2>3. (\A j \in DOMAIN log : log[j] \in Ops) /\ (\A j \in DOMAIN log' : log'[j] \in Ops)
    BY <2>1
  <2> QED  BY <2>1, <2>2, <2>3 DEF Backward, Chained
<1>2. /\ i \in 0..Len(log) /\ i \in Nat /\ n \in Nat /\ i <= n /\ n \in 0..Len(log')
      /\ log'[n] = o /\ Agree(log, log', i)
  BY DEF Inv, Typed, Agree
<1>3. ~Coupled(log, i)
  BY CoupledIs
<1>4. ~log'[n].trash /\ log'[n].by = i
  BY <1>2
<1>5. ~Coupled(log', n)
  <2>1. PICK l, k : l = log /\ k = log'
    OBVIOUS
  <2>2. Backward(l) /\ Backward(k) /\ i \in 0..Len(l) /\ n \in 0..Len(k)
    BY <1>1, <1>2, <2>1
  <2>3. Agree(l, k, i)
    BY <1>2, <2>1 DEF Agree
  <2>4. ~k[n].trash /\ k[n].by = i
    BY <1>4, <2>1
  <2>5. ~Coupled(l, i)
    BY <1>3, <2>1
  <2>6. ~Coupled(k, n)
    BY <1>2, <2>2, <2>3, <2>4, <2>5, CouplingCarries
  <2> QED  BY <2>1, <2>6
<1> QED  BY <1>5, CoupledNext

-----------------------------------------------------------------------------
(* A metarecord dies with its bytes *)

\* The entry has the metarecord and its bytes; the client has it in hand.
Stored(u, e) == row[e].live /\ row[e].rec = u /\ row[e].cap /\ blob[e] # 0

Carries(c, u) ==
    /\ cl[c].u = u
    /\ \/ cl[c].pc \in {"move", "row", "attach"}
       \/ cl[c].op # 0 /\ (cl[c].pc = "unlist" \/ (cl[c].pc = "commit" /\ cl[c].ok))

\* The ways metarecord u may go in a step.
Excused(u) ==
    \/ mishaps' \cap {"vanished", "refused", "unattached", "displaced"} # {}
    \/ made'.fault > 0
    \/ \E c \in Clients : By(c) /\
          \/ cl'[c].pc = "rmblob" /\ row[cl'[c].e].rec = u
          \/ cl[c].pc = "pruneblob" /\ row[cl[c].e].rec = u
          \/ cl[c].pc = "sweep"
          \/ cl[c].pc = "attach" /\ (row[cl[c].e].live => blob[cl[c].e] = 0)
          \/ cl[c].pc = "commit" /\ log[cl[c].op].kind = "create"
    \/ Untracked(u)'

\* A metarecord is kept if the step of client c keeps it wherever it was.
LEMMA KeptStep ==
    ASSUME NEW u \in Recs, Kept(u), NEW c \in Clients, \A x \in Clients \ {c} : cl'[x] = cl[x],
           rec'[u] = "none" => rec[u] = "none" \/ Carries(c, u)',
           \A e \in Entries : Stored(u, e) => Stored(u, e)' \/ Carries(c, u)' \/ rec'[u] # "none",
           Carries(c, u) => Carries(c, u)' \/ rec'[u] # "none" \/ \E e \in Entries : Stored(u, e)'
    PROVE  Kept(u)'
<1>1. CASE rec[u] # "none"
  BY <1>1 DEF Kept, Carries
<1>2. ASSUME NEW e \in Entries, Stored(u, e) PROVE Kept(u)'
  BY <1>2 DEF Kept, Carries, Stored, Live
<1>3. CASE Carries(c, u)
  BY <1>3 DEF Kept, Carries, Stored, Live
<1>4. ASSUME NEW d \in Clients, d # c, Carries(d, u) PROVE Kept(u)'
  <2>1. cl'[d] = cl[d]
    BY <1>4
  <2> QED  BY <1>4, <2>1 DEF Kept, Carries
<1> QED  BY <1>1, <1>2, <1>3, <1>4 DEF Kept, Carries, Stored, Live

\* A step that takes nothing, of a client that carries nothing, keeps them all.
LEMMA KeptQuiet ==
    ASSUME NEW u \in Recs, Kept(u), NEW c \in Clients, \A x \in Clients \ {c} : cl'[x] = cl[x],
           UNCHANGED <<blob, row>>, rec'[u] = "none" => rec[u] = "none",
           cl[c].pc \notin {"move", "row", "attach", "unlist", "commit"}
    PROVE  Kept(u)'
<1>1. ~Carries(c, u) /\ \A e \in Entries : Stored(u, e) => Stored(u, e)'
  BY DEF Carries, Stored
<1> QED  BY <1>1, KeptStep

\* Looking, planning and deciding take no metarecord; putting one back neither.
LEMMA KeptLooking ==
    ASSUME Inv, NEW u \in Recs, Kept(u), NEW c \in Clients,
           \/ TrashCapture(c) \/ RestoreLook(c) \/ PruneWalk(c) \/ revert_start(c)
           \/ recreate_subtree(c) \/ relink_subtree(c) \/ plan_restore(c)
           \/ decide_deleted(c) \/ retrash(c) \/ revert_abort(c)
    PROVE  Kept(u)'
<1>1. /\ UNCHANGED <<disk, blob, row, dirty>>
      /\ \E r : (Go(c, r) /\ made' = made) \/ Begin(c, r)
  BY ElsewhereIs DEF Elsewhere
<1>2. \A x \in Clients \ {c} : cl'[x] = cl[x]
  BY <1>1, ClientAlone
<1>3. rec \in [Recs -> {"none", "at", "orphan"}]
  BY DEF Inv, Typed
<1>4. CASE TrashCapture(c) \/ RestoreLook(c) \/ PruneWalk(c) \/ revert_start(c)
  <2>1. rec' = rec /\ \E r : Begin(c, r)
    BY <1>4 DEF TrashCapture, RestoreLook, PruneWalk, revert_start
  <2>2. cl[c].pc = "idle"
    BY <2>1 DEF Begin
  <2> QED  BY <1>1, <1>2, <2>1, <2>2, KeptQuiet
<1>5. CASE recreate_subtree(c)
  <2>1. cl[c].pc = "recreate" /\ (rec' = rec \/ rec' = [rec EXCEPT ![cl[c].u] = "at"])
    BY <1>5 DEF recreate_subtree
  <2> QED  BY <1>1, <1>2, <1>3, <2>1, KeptQuiet
<1>6. CASE relink_subtree(c)
  <2>1. cl[c].pc = "relink" /\ (rec' = rec \/ rec' = [rec EXCEPT ![cl[c].u] = "at"])
    BY <1>6 DEF relink_subtree
  <2> QED  BY <1>1, <1>2, <1>3, <2>1, KeptQuiet
<1>7. CASE plan_restore(c) \/ decide_deleted(c) \/ retrash(c) \/ revert_abort(c)
  <2>1. rec' = rec /\ cl[c].pc \in {"plan", "entries", "retrash", "abort"}
    BY <1>7 DEF plan_restore, decide_deleted, retrash, revert_abort
  <2> QED  BY <1>1, <1>2, <2>1, KeptQuiet
<1> QED  BY <1>4, <1>5, <1>6, <1>7

\* A trashing carries the metarecord from its deletion to its entry.
LEMMA KeptTrash ==
    ASSUME Inv, NEW u \in Recs, Kept(u), ~Kept(u)', NEW c \in Clients,
           trash_delete_endpoint(c) \/ TrashMove(c) \/ TrashRow(c) \/ attach_subtree(c)
    PROVE  Excused(u)
<1>1. /\ rec \in [Recs -> {"none", "at", "orphan"}] /\ u # 0
      /\ blob \in [Entries -> Nat] /\ row \in [Entries -> Rows]
  BY TrashBounds DEF Inv, Typed, Recs
<1>2. CASE trash_delete_endpoint(c)
  <2>1. cl[c].pc = "delete" /\ UNCHANGED <<blob, row>>
    BY <1>2 DEF trash_delete_endpoint
  <2>2. CASE Go(c, Idle) /\ UNCHANGED rec
    BY <2>1, <2>2, ClientAlone, KeptQuiet
  <2>3. CASE rec' = [rec EXCEPT ![cl[c].u] = "none"] /\ Step(c, "move")
    <3>1. /\ cl'[c].pc = "move" /\ cl'[c].u = cl[c].u
          /\ \A x \in Clients \ {c} : cl'[x] = cl[x]
      BY <2>3, Steps DEF Pcs
    <3>2. rec'[u] = "none" => rec[u] = "none" \/ Carries(c, u)'
      BY <1>1, <2>3, <3>1 DEF Carries
    <3>3. ~Carries(c, u) /\ \A e \in Entries : Stored(u, e) => Stored(u, e)'
      BY <2>1 DEF Carries, Stored
    <3> QED  BY <3>1, <3>2, <3>3, KeptStep
  <2> QED  BY <1>2, <2>2, <2>3 DEF trash_delete_endpoint
<1>3. CASE TrashMove(c)
  <2>1. cl[c].pc = "move" /\ UNCHANGED <<row, rec>>
    BY <1>3 DEF TrashMove
  <2>2. CASE disk = 0
    <3>1. /\ TrashFails(c) /\ UNCHANGED blob
          /\ cl[c].u # 0 /\ rec[cl[c].u] = "none" => "vanished" \in mishaps'
      BY <1>3, <2>2 DEF TrashMove
    <3>2. \A x \in Clients \ {c} : cl'[x] = cl[x]
      BY <3>1, ClientAlone DEF TrashFails, Step
    <3>3. \A e \in Entries : Stored(u, e) => Stored(u, e)'
      BY <2>1, <3>1 DEF Stored
    <3>4. Carries(c, u) /\ rec[u] = "none"
      BY <2>1, <3>2, <3>3, KeptStep
    <3> QED  BY <1>1, <3>1, <3>4 DEF Excused, Carries
  <2>3. CASE disk # 0
    <3>0. PICK n : n = made.entry + 1
      OBVIOUS
    <3> DEFINE r == [cl[c] EXCEPT !.pc = "row", !.e = n, !.seen = 0]
    <3>1. blob' = [blob EXCEPT ![n] = disk] /\ Go(c, r)
      BY <1>3, <2>3, <3>0 DEF TrashMove
    <3>2. n \in Entries /\ cl[c] \in Works /\ n > made.entry
      BY <2>1, <3>0, EntryLeft DEF Ahead, Inv, Typed
    <3>3. ~row[n].live
      BY <3>2 DEF Inv, RowsApart
    <3>4. cl'[c].pc = "row" /\ cl'[c].u = cl[c].u
      BY <3>1, <3>2 DEF Go, Inv, Typed, Works
    <3>5. \A x \in Clients \ {c} : cl'[x] = cl[x]
      BY <3>1, ClientAlone
    <3> HIDE DEF r
    <3>6. \A x \in Entries \ {n} : blob'[x] = blob[x]
      BY <1>1, <3>1, <3>2
    <3>7. \A e \in Entries : Stored(u, e) => Stored(u, e)'
      BY <2>1, <3>3, <3>6 DEF Stored
    <3>8. Carries(c, u) => Carries(c, u)'
      BY <3>4 DEF Carries
    <3> QED  BY <2>1, <3>5, <3>7, <3>8, KeptStep
  <2> QED  BY <2>2, <2>3
<1>4. CASE TrashRow(c)
  <2>0. PICK e : e = cl[c].e
    OBVIOUS
  <2> DEFINE w == [live |-> TRUE, rec |-> cl[c].u, cap |-> FALSE]
  <2>1. cl[c].pc = "row" /\ row' = [row EXCEPT ![e] = w] /\ UNCHANGED <<blob, rec>>
    BY <1>4, <2>0 DEF TrashRow
  <2>2. e \in Entries /\ ~row[e].live
    BY <2>0, <2>1, InHand DEF Holding, Listing
  <2>3. \A x \in Entries \ {e} : row'[x] = row[x]
    BY <1>1, <2>1, <2>2
  <2>4. \A x \in Entries : Stored(u, x) => Stored(u, x)'
    BY <2>1, <2>2, <2>3 DEF Stored
  <2>5. \A x \in Clients \ {c} : cl'[x] = cl[x]
    BY <1>4, ClientAlone DEF TrashRow, Step
  <2>6. Carries(c, u) => Carries(c, u)'
    <3> SUFFICES ASSUME Carries(c, u) PROVE Carries(c, u)'
      OBVIOUS
    <3>1. cl[c].u # 0
      BY <1>1 DEF Carries
    <3>2. Step(c, "attach")
      BY <1>4, <3>1 DEF TrashRow
    <3>3. cl'[c].pc = "attach" /\ cl'[c].u = cl[c].u
      BY <3>2, Steps DEF Pcs
    <3> QED  BY <3>3 DEF Carries
  <2> QED  BY <2>1, <2>4, <2>5, <2>6, KeptStep
<1>5. CASE attach_subtree(c)
  <2>0. PICK e : e = cl[c].e
    OBVIOUS
  <2> DEFINE w == [row[e] EXCEPT !.cap = TRUE]
  <2>1. cl[c].pc = "attach" /\ UNCHANGED <<blob, rec>>
    BY <1>5 DEF attach_subtree
  <2>2. e \in Entries /\ row[e] \in Rows /\ cl[c] \in Works /\ (row[e].live => row[e].rec = cl[c].u)
    BY <1>1, <2>0, <2>1, InHand DEF Holding, Stage
  <2>3. \A x \in Clients \ {c} : cl'[x] = cl[x]
    BY <1>5, ClientAlone DEF attach_subtree, TrashFails, Step
  <2>4. By(c)
    <3>1. CASE row[e].live
      <4>1. IF cl[c].op = 0 THEN Go(c, Idle) ELSE Go(c, [cl[c] EXCEPT !.pc = "commit", !.ok = TRUE])
        BY <1>5, <2>0, <3>1 DEF attach_subtree
      <4>2. PICK r \in Works : Go(c, r) /\ r.pc \in {"idle", "commit"}
        BY <4>1, DoneGoes
      <4> QED  BY <2>1, <4>2, Goes DEF By
    <3>2. CASE ~row[e].live
      <4>1. TrashFails(c)
        BY <1>5, <2>0, <3>2 DEF attach_subtree
      <4>2. cl'[c].pc \in {"idle", "abort"}
        BY <4>1, Goes, Steps, IdleWorks DEF TrashFails, Pcs
      <4> QED  BY <2>1, <4>2 DEF By
    <3> QED  BY <3>1, <3>2
  <2>5. CASE row[e].live /\ blob[e] # 0
    <3>1. row' = [row EXCEPT ![e] = w]
      BY <1>5, <2>0, <2>5 DEF attach_subtree
    <3>2. w.live /\ w.rec = cl[c].u /\ w.cap /\ w.rec = row[e].rec
      BY <2>2, <2>5 DEF Rows
    <3> HIDE DEF w
    <3>3. row'[e] = w /\ \A x \in Entries \ {e} : row'[x] = row[x]
      BY <1>1, <2>2, <3>1
    <3>4. \A x \in Entries : Stored(u, x) => Stored(u, x)'
      BY <2>1, <2>5, <3>2, <3>3 DEF Stored
    <3>5. Carries(c, u) => Stored(u, e)'
      BY <2>1, <2>5, <3>2, <3>3 DEF Stored, Carries
    <3> QED  BY <2>1, <2>2, <2>3, <3>4, <3>5, KeptStep
  <2>6. CASE ~(row[e].live /\ blob[e] # 0)
    BY <2>0, <2>1, <2>4, <2>6 DEF Excused
  <2> QED  BY <2>5, <2>6
<1> QED  BY <1>2, <1>3, <1>4, <1>5

\* A restore moves the bytes once the metarecord is back, and drops the row
\* after that; a coordinated revert carries the metarecord to its commit.
LEMMA KeptRestore ==
    ASSUME Inv, NEW u \in Recs, Kept(u), ~Kept(u)', NEW c \in Clients,
           RestoreRename(c) \/ RestoreUnlist(c)
    PROVE  Excused(u)
<1>0. PICK e : e = cl[c].e
  OBVIOUS
<1>1. /\ blob \in [Entries -> Nat] /\ row \in [Entries -> Rows] /\ u # 0
  BY TrashBounds DEF Inv, Typed, Recs
<1>2. CASE RestoreRename(c)
  <2>1. cl[c].pc = "rename" /\ UNCHANGED <<row, rec>> /\ mishaps \subseteq mishaps'
    BY <1>2 DEF RestoreRename
  <2>2. e \in Entries /\ Stage(c)
    BY <1>0, <2>1, InHand DEF Holding
  <2>3. CASE blob[e] = 0
    <3>1. RestoreFails(c) /\ UNCHANGED blob
      BY <1>0, <1>2, <2>3 DEF RestoreRename
    <3>2. \A x \in Clients \ {c} : cl'[x] = cl[x]
      BY <3>1, ClientAlone DEF RestoreFails
    <3> QED  BY <2>1, <3>1, <3>2, KeptQuiet
  <2>4. CASE blob[e] # 0
    <3>1. blob' = [blob EXCEPT ![e] = 0] /\ Step(c, "unlist")
      BY <1>0, <1>2, <2>4 DEF RestoreRename
    <3>2. \A x \in Entries \ {e} : blob'[x] = blob[x]
      BY <1>1, <2>2, <3>1
    <3>3. /\ cl'[c].pc = "unlist" /\ cl'[c].u = cl[c].u /\ cl'[c].op = cl[c].op
          /\ \A x \in Clients \ {c} : cl'[x] = cl[x]
      BY <3>1, Steps DEF Pcs
    <3>4. \A x \in Entries \ {e} : Stored(u, x) => Stored(u, x)'
      BY <2>1, <3>2 DEF Stored
    <3>5. ~Carries(c, u)
      BY <2>1 DEF Carries
    <3>6. Stored(u, e) => cl[c].u = u
      BY <1>0, <2>1, <2>2 DEF Stored, Stage
    <3>7. cl[c].u = u /\ cl[c].op # 0 => Carries(c, u)'
      BY <3>3 DEF Carries
    <3>8. cl[c].u = u /\ cl[c].op = 0 =>
            rec[u] # "none" \/ mishaps \cap {"unattached", "refused", "displaced"} # {}
      BY <1>1, <2>1, <2>2 DEF Stage
    <3>9. CASE mishaps \cap {"unattached", "refused", "displaced"} # {}
      BY <2>1, <3>9 DEF Excused
    <3>10. CASE mishaps \cap {"unattached", "refused", "displaced"} = {}
      <4>1. \A x \in Entries : Stored(u, x) => Stored(u, x)' \/ Carries(c, u)' \/ rec'[u] # "none"
        BY <2>1, <3>4, <3>6, <3>7, <3>8, <3>10
      <4> QED  BY <2>1, <3>3, <3>5, <4>1, KeptStep
    <3> QED  BY <3>9, <3>10
  <2> QED  BY <2>3, <2>4
<1>3. CASE RestoreUnlist(c)
  <2>1. /\ cl[c].pc = "unlist" /\ row' = [row EXCEPT ![e] = NoRow] /\ UNCHANGED <<blob, rec>>
        /\ IF cl[c].op = 0 THEN Go(c, Idle)
           ELSE Go(c, [cl[c] EXCEPT !.pc = "commit", !.ok = TRUE])
    BY <1>0, <1>3 DEF RestoreUnlist
  <2>2. e \in Entries /\ blob[e] = 0 /\ cl[c] \in Works
    BY <1>0, <2>1, InHand DEF Holding, Stage
  <2>3. \A x \in Entries \ {e} : row'[x] = row[x]
    BY <1>1, <2>1, <2>2
  <2>4. \A x \in Clients \ {c} : cl'[x] = cl[x]
    BY <2>1, ClientAlone
  <2>5. \A x \in Entries : Stored(u, x) => Stored(u, x)'
    BY <2>1, <2>2, <2>3 DEF Stored
  <2>6. Carries(c, u) => Carries(c, u)'
    <3> SUFFICES ASSUME Carries(c, u) PROVE Carries(c, u)'
      OBVIOUS
    <3>1. cl[c].op # 0 /\ cl[c].u = u
      BY <2>1 DEF Carries
    <3> DEFINE r == [cl[c] EXCEPT !.pc = "commit", !.ok = TRUE]
    <3>2. r \in Works /\ r.pc = "commit" /\ r.ok /\ r.op = cl[c].op /\ r.u = cl[c].u
      BY <2>2 DEF Works, Pcs
    <3>3. Go(c, r)
      BY <2>1, <3>1
    <3> HIDE DEF r
    <3>4. cl'[c] = r
      BY <3>2, <3>3, Goes
    <3> QED  BY <3>1, <3>2, <3>4 DEF Carries
  <2> QED  BY <2>1, <2>4, <2>5, <2>6, KeptStep
<1> QED  BY <1>2, <1>3

\* Removing and pruning take the metarecord of their entry alone.
LEMMA KeptRemove ==
    ASSUME Inv, NEW u \in Recs, Kept(u), ~Kept(u)', NEW c \in Clients,
           RemoveRow(c) \/ RemoveBlob(c) \/ PruneBlob(c) \/ PruneRow(c) \/ sweep_orphan_blobs(c)
    PROVE  Excused(u)
<1>1. blob \in [Entries -> Nat] /\ row \in [Entries -> Rows]
  BY DEF Inv, Typed
<1>2. CASE RemoveRow(c)
  <2>1. PICK e \in Live : /\ Begin(c, [Idle EXCEPT !.pc = "rmblob", !.e = e])
                          /\ row' = [row EXCEPT ![e] = NoRow]
    BY <1>2 DEF RemoveRow
  <2>2. UNCHANGED <<blob, rec>> /\ e \in Entries
    BY <1>2 DEF RemoveRow, Live
  <2>3. \A x \in Entries \ {e} : row'[x] = row[x]
    BY <1>1, <2>1, <2>2
  <2>4. (\A x \in Clients \ {c} : cl'[x] = cl[x]) /\ cl[c].pc = "idle"
    BY <2>1, ClientAlone, BeginFault
  <2>5. cl'[c].pc = "rmblob" /\ cl'[c].e = e
    BY <2>1 DEF Begin, Go, Inv, Typed, Idle
  <2>6. ~Carries(c, u) /\ \A x \in Entries \ {e} : Stored(u, x) => Stored(u, x)'
    BY <2>2, <2>3, <2>4 DEF Carries, Stored
  <2>7. Stored(u, e)
    BY <2>2, <2>4, <2>6, KeptStep
  <2> QED  BY <2>4, <2>5, <2>7 DEF Excused, By, Stored
<1>3. CASE RemoveBlob(c) \/ PruneBlob(c)
  <2>0. PICK e : e = cl[c].e
    OBVIOUS
  <2>1. /\ cl[c].pc \in {"rmblob", "pruneblob"} /\ blob' = [blob EXCEPT ![e] = 0]
        /\ UNCHANGED <<row, rec>>
    BY <1>3, <2>0 DEF RemoveBlob, PruneBlob
  <2>2. e \in Entries /\ Stage(c)
    BY <2>0, <2>1, InHand DEF Holding
  <2>3. \A x \in Entries \ {e} : blob'[x] = blob[x]
    BY <1>1, <2>1, <2>2
  <2>4. \A x \in Clients \ {c} : cl'[x] = cl[x]
    BY <1>3, ClientAlone DEF RemoveBlob, PruneBlob, Step
  <2>5. ~Carries(c, u) /\ \A x \in Entries \ {e} : Stored(u, x) => Stored(u, x)'
    BY <2>1, <2>3 DEF Carries, Stored
  <2>6. Stored(u, e)
    BY <2>1, <2>4, <2>5, KeptStep
  <2>7. cl[c].pc = "pruneblob" /\ row[cl[c].e].rec = u
    BY <2>0, <2>1, <2>2, <2>6 DEF Stage, Stored
  <2>8. cl'[c].pc = "prunerow"
    BY <1>3, <2>7, Steps DEF RemoveBlob, PruneBlob, Pcs
  <2> QED  BY <2>7, <2>8 DEF Excused, By
<1>4. CASE PruneRow(c)
  <2>0. PICK e : e = cl[c].e
    OBVIOUS
  <2>1. /\ cl[c].pc = "prunerow" /\ row' = [row EXCEPT ![e] = NoRow] /\ UNCHANGED <<blob, rec>>
    BY <1>4, <2>0 DEF PruneRow
  <2>2. e \in Entries /\ blob[e] = 0
    BY <2>0, <2>1, InHand DEF Holding, Stage
  <2>3. \A x \in Entries \ {e} : row'[x] = row[x]
    BY <1>1, <2>1, <2>2
  <2>4. \A x \in Clients \ {c} : cl'[x] = cl[x]
    BY <1>4, ClientAlone DEF PruneRow
  <2>5. ~Carries(c, u) /\ \A x \in Entries : Stored(u, x) => Stored(u, x)'
    BY <2>1, <2>2, <2>3 DEF Carries, Stored
  <2> QED  BY <2>1, <2>4, <2>5, KeptStep
<1>5. CASE sweep_orphan_blobs(c)
  <2>1. cl[c].pc = "sweep" /\ cl'[c] = Idle
    BY <1>5, Goes, IdleWorks DEF sweep_orphan_blobs
  <2> QED  BY <2>1, IdleWorks DEF Excused, By
<1> QED  BY <1>2, <1>3, <1>4, <1>5

\* The last word of the log on u is its last operation.
LEMMA LastWord ==
    ASSUME NEW u, NEW n \in Nat, n # 0, DOMAIN log' = 1..n, log'[n].u = u,
           log'[n].kind = "delete", ~trash_coupled(n)'
    PROVE  Untracked(u)'
<1> DEFINE S == {0} \cup {i \in DOMAIN log' : log'[i].u = u}
<1>1. n \in S /\ \A i \in S : n >= i
  OBVIOUS
<1>2. \A m \in S : (\A i \in S : m >= i) => m = n
  BY <1>1
<1>3. Max(S) = n
  <2> HIDE DEF S
  <2> QED  BY <1>1, <1>2 DEF Max
<1>4. ~Coupled(log', n)
  BY CoupledNext
<1> QED  BY <1>3, <1>4 DEF Untracked, trash_coupled, Coupled, Coupling, Leads

\* A revert without a file action takes a metarecord only with a word in the log
\* that no trashing is behind.
LEMMA KeptAtOnce ==
    ASSUME Inv, NEW u \in Recs, Kept(u), ~Kept(u)', NEW c \in Clients, RevertAtOnce(c)
    PROVE  Excused(u)
<1>1. PICK i \in DOMAIN log : ~trash_coupled(i) /\ revert_apply(i) /\ Begin(c, Idle)
  BY DEF RevertAtOnce
<1>2. UNCHANGED <<blob, row>>
  BY DEF RevertAtOnce
<1>3. (\A x \in Clients \ {c} : cl'[x] = cl[x]) /\ cl[c].pc = "idle"
  BY <1>1, ClientAlone, BeginFault
<1>4. rec'[u] = "none" /\ rec[u] # "none"
  BY <1>2, <1>3, KeptQuiet
<1>5. /\ log[i] \in Ops /\ i \in Nat /\ Len(log) \in Nat /\ i <= Len(log) /\ log \in Seq(Ops)
      /\ log[i].kind = "delete" => log[i].was # "none"
      /\ rec \in [Recs -> {"none", "at", "orphan"}]
  BY DEF Inv, Typed, Chained
<1>6. PICK v \in Recs : v = log[i].u
  BY <1>5 DEF Ops
<1> DEFINE o == Delete(v, FALSE, i)
<1>7. log[i].kind # "delete" /\ rec[v] # "none"
  BY <1>1, <1>4, <1>5, <1>6 DEF revert_apply
<1>8. rec' = [rec EXCEPT ![v] = "none"] /\ log' = Append(log, o)
  BY <1>1, <1>6, <1>7 DEF revert_apply
<1>9. u = v
  BY <1>4, <1>5, <1>8
<1>10. o \in Ops /\ o.kind = "delete" /\ o.u = v /\ ~o.trash /\ o.by = i
  BY <1>5, <1>6 DEF Delete, Ops
<1>11. LogOK
  BY <1>1, ApplyWrites
<1> HIDE DEF o
<1>12. PICK n : n = Len(log) + 1
  OBVIOUS
<1>13. ~trash_coupled(n)'
  BY <1>1, <1>8, <1>10, <1>11, <1>12, NotCoupled
<1>14. n \in Nat /\ n # 0 /\ DOMAIN log' = 1..n /\ log'[n] = o
  BY <1>5, <1>8, <1>10, <1>12
<1>15. Untracked(u)'
  BY <1>9, <1>10, <1>13, <1>14, LastWord
<1> QED  BY <1>15 DEF Excused

\* A commit puts back the metarecord whose bytes came back; a commit refused is
\* noted, for without faults the lock is its own.
LEMMA KeptCommit ==
    ASSUME Inv, NEW u \in Recs, Kept(u), ~Kept(u)', NEW c \in Clients, revert_commit(c)
    PROVE  Excused(u)
<1>0. PICK i : i = cl[c].op
  OBVIOUS
<1>1. cl[c].pc = "commit" /\ UNCHANGED <<blob, row, made>>
  BY DEF revert_commit
<1>2. /\ i # 0 /\ i \in DOMAIN log /\ cl[c].u = log[i].u /\ made.fault \in Nat
      /\ made.fault = 0 => lock = i
      /\ rec \in [Recs -> {"none", "at", "orphan"}] /\ cl[c] \in Works
      /\ log[i].kind \in {"create", "delete"} /\ (log[i].kind = "delete" => log[i].was # "none")
  <2>1. Stage(c) /\ Locked /\ Chained /\ log \in Seq(Ops)
    BY DEF Inv, Typed
  <2>2. i # 0 /\ i \in DOMAIN log /\ cl[c].u = log[i].u
    BY <1>0, <1>1, <2>1 DEF Stage, Reverting
  <2>3. log[i] \in Ops
    BY <2>1, <2>2
  <2>4. log[i].kind \in {"create", "delete"}
    BY <2>3 DEF Ops
  <2> QED  BY <1>0, <2>1, <2>2, <2>4 DEF Locked, Chained, Inv, Typed
<1>3. \A e \in Entries : Stored(u, e) => Stored(u, e)'
  BY <1>1 DEF Stored
<1>4. CASE lock # 0 /\ ~cl[c].ok
  <2>1. Go(c, Idle) /\ UNCHANGED rec
    BY <1>4 DEF revert_commit
  <2>2. ~Carries(c, u)
    BY <1>1, <1>4 DEF Carries
  <2> QED  BY <1>3, <2>1, <2>2, ClientAlone, KeptStep
<1>5. CASE ~(lock # 0 /\ ~cl[c].ok) /\ lock = i /\ Invertible(i)
  <2>1. Go(c, Idle) /\ revert_apply(i)
    BY <1>0, <1>5 DEF revert_commit
  <2>2. cl'[c] = Idle /\ \A x \in Clients \ {c} : cl'[x] = cl[x]
    BY <2>1, IdleWorks, Goes
  <2>3. By(c)
    BY <1>1, <2>2, IdleWorks DEF By
  <2>4. CASE log[i].kind = "create"
    BY <1>0, <1>1, <2>3, <2>4 DEF Excused
  <2>5. CASE log[i].kind = "delete"
    <3>1. rec' = [rec EXCEPT ![log[i].u] = log[i].was]
      BY <2>1, <2>5 DEF revert_apply
    <3>2. rec'[u] = "none" => rec[u] = "none" /\ u # log[i].u
      BY <1>2, <2>5, <3>1
    <3>3. Carries(c, u) => rec'[u] # "none"
      BY <1>2, <3>2 DEF Carries
    <3> QED  BY <1>3, <2>2, <3>2, <3>3, KeptStep
  <2> QED  BY <1>2, <2>4, <2>5
<1>6. CASE ~(lock # 0 /\ ~cl[c].ok) /\ ~(lock = i /\ Invertible(i))
  <2>1. /\ Step(c, "abort") /\ UNCHANGED rec
        /\ lock = i => "refused" \in mishaps'
    BY <1>0, <1>6 DEF revert_commit
  <2>2. \A x \in Clients \ {c} : cl'[x] = cl[x]
    BY <2>1, ClientAlone DEF Step
  <2>3. CASE lock = i
    BY <2>1, <2>3 DEF Excused
  <2>4. CASE lock # i
    <3>1. made'.fault > 0
      BY <1>1, <1>2, <2>4
    <3> QED  BY <3>1 DEF Excused
  <2> QED  BY <2>3, <2>4
<1> QED  BY <1>4, <1>5, <1>6

\* The watcher orphans a metarecord; it takes none.
LEMMA KeptAround ==
    ASSUME Inv, NEW u \in Recs, Kept(u), Watch \/ UserCreates \/ UserRemoves
    PROVE  Kept(u)'
<1>1. UNCHANGED <<blob, row, cl>>
  BY DEF Watch, UserCreates, UserRemoves
<1>2. rec \in [Recs -> {"none", "at", "orphan"}]
  BY DEF Inv, Typed
<1>3. \/ rec' = rec \/ \E v : rec' = [rec EXCEPT ![v] = "at"]
      \/ \E v : rec' = [rec EXCEPT ![v] = "orphan"]
  BY DEF Watch, UserCreates, UserRemoves
<1>4. rec'[u] = "none" => rec[u] = "none"
  BY <1>2, <1>3
<1> QED  BY <1>1, <1>4 DEF Kept, Live

\* A metarecord dies with its bytes, never before: it leaves the repository, the
\* trash and the clients' hands only with the entry that holds its bytes, by a
\* revert of its own creation, by a crash, or through one of the four windows
\* the code leaves open.
THEOREM MetarecordOutlivesBytes == Spec => MetadataKept
<1>1. ASSUME Inv, [Next]_vars PROVE [\A u \in Recs : Kept(u) /\ ~Kept(u)' => Excused(u)]_vars
  <2> SUFFICES ASSUME Next, NEW u \in Recs, Kept(u), ~Kept(u)'
               PROVE  Excused(u)
    BY <1>1
  <2>1. ASSUME Fault PROVE Excused(u)
    <3>1. made'.fault \in Nat /\ made'.fault # 0
      BY <1>1, <2>1, FaultCounts
    <3>2. made'.fault > 0
      BY <3>1
    <3> QED  BY <3>2 DEF Excused
  <2>2. ASSUME NEW c \in Clients, Crash(c) PROVE Excused(u)
    BY <2>1, <2>2 DEF Crash
  <2>3. CASE AbortAsked
    BY <2>1, <2>3 DEF AbortAsked
  <2> QED  BY <1>1, <2>2, <2>3, KeptLooking, KeptTrash, KeptRestore, KeptRemove, KeptAtOnce,
              KeptCommit, KeptAround DEF Next
<1>2. [\A u \in Recs : Kept(u) /\ ~Kept(u)' => Excused(u)]_vars <=>
      [\A u \in Recs : Kept(u) /\ ~Kept(u)' =>
          \/ mishaps' \cap {"vanished", "refused", "unattached", "displaced"} # {}
          \/ made'.fault > 0
          \/ \E c \in Clients : By(c) /\
                \/ cl'[c].pc = "rmblob" /\ row[cl'[c].e].rec = u
                \/ cl[c].pc = "pruneblob" /\ row[cl[c].e].rec = u
                \/ cl[c].pc = "sweep"
                \/ cl[c].pc = "attach" /\ (row[cl[c].e].live => blob[cl[c].e] = 0)
                \/ cl[c].pc = "commit" /\ log[cl[c].op].kind = "create"
          \/ Untracked(u)']_vars
  BY DEF Excused
<1> QED  BY <1>1, <1>2, TrashInvariant, PTL DEF Spec, MetadataKept

-----------------------------------------------------------------------------
(* The same metarecord comes back *)

\* Only one metarecord has the path.
Single == \A u, v \in Recs : rec[u] = "at" /\ rec[v] = "at" => u = v

\* Which operation a client reverts where it is, and where it reverts none.
Kinds(c) ==
    IF cl[c].op = 0 THEN cl[c].pc \notin Reverting
    ELSE /\ cl[c].pc \in {"entries", "plan", "rename", "unlist", "retrash", "move", "row", "attach",
                          "commit", "abort"}
         /\ cl[c].pc \in {"entries", "plan", "rename", "unlist"} => log[cl[c].op].kind = "delete"
         /\ cl[c].pc \in {"retrash", "move", "row", "attach"} => log[cl[c].op].kind = "create"

\* What is so of every history.
Shape == Single /\ made.file # 0 /\ \A c \in Clients : Kinds(c)

\* A history without faults, without mishaps, and whose deletions all come from a
\* trashing.
Clean ==
    /\ made.fault = 0 /\ mishaps = {}
    /\ \A i \in DOMAIN log : log[i].kind = "delete" => trash_coupled(i)

\* The client reverts a deletion, or a creation.
Restoring(c) == cl[c].op # 0 /\ log[cl[c].op].kind = "delete"

Retrashing(c) == cl[c].op # 0 /\ log[cl[c].op].kind = "create"

\* The client is about to commit what it did to the file.
Done(c) == cl[c].pc = "commit" /\ cl[c].ok

\* A trashing by hand has taken the metarecord and not yet the bytes.
Between(c, u) == cl[c].pc = "move" /\ cl[c].op = 0 /\ cl[c].u = u

\* A revert has brought the bytes of u back and not yet u.
Returned(c, u) == Restoring(c) /\ cl[c].u = u /\ (cl[c].pc = "unlist" \/ Done(c))

\* The path has a metarecord just when it has a file, but between the two halves
\* of a restore and of a trashing by hand.
Paired ==
    /\ \A u \in Recs : rec[u] = "at" /\ disk = 0 =>
          \E c \in Clients : cl[c].op = 0 /\ cl[c].u = u /\ cl[c].pc \in {"relink", "plan", "rename"}
    /\ (\A u \in Recs : rec[u] # "at") /\ disk # 0 => \E c \in Clients, u \in Recs : Between(c, u)

\* A revert that moved bytes leaves the watcher something to apply, and one that
\* moved none for a metarecord to be taken found none to move.
Moved(c) ==
    /\ cl[c].op # 0 /\ cl[c].pc \in {"unlist", "row", "attach"} => dirty
    /\ Restoring(c) /\ Done(c) => dirty
    /\ Retrashing(c) /\ Done(c) => dirty \/ rec[cl[c].u] # "at" \/ disk = 0

\* The first file at the path is the first metarecord's, or is about to be, or is
\* about to follow it to the trash.
First ==
    disk = 1 => \/ rec[1] = "at"
                \/ \E c \in Clients : Between(c, 1) \/ Returned(c, 1)

\* So are its bytes in the trash.
Blobs ==
    \A e \in Entries : blob[e] = 1 =>
        /\ row[e].live => row[e].rec = 1
        /\ \A c \in Clients :
              cl[c].e = e /\ cl[c].pc \in {"row", "recreate", "relink", "plan", "rename"} => cl[c].u = 1

\* A restore by hand has the metarecord back before it looks at the path again.
Linked(c) == cl[c].pc \in {"plan", "rename"} /\ cl[c].op = 0 /\ cl[c].u # 0 => rec[cl[c].u] = "at"

\* Nobody takes the path between the two halves of a trashing.
Alone(c) == \A u, v \in Recs : Between(c, u) /\ rec[v] = "at" => v = u

\* A trashing that saw the first file takes the first metarecord, or will be
\* refused: a revert that brought the first file back has the lock.
Aimed(c) ==
    cl[c].seen = 1 /\ cl[c].u # 0 =>
        /\ cl[c].pc = "move" => cl[c].u = 1
        /\ cl[c].pc = "delete" =>
              \/ cl[c].u = 1
              \/ \E v \in Recs : rec[v] = "at"
                 /\ \E d \in Clients : Returned(d, 1)

\* A revert about to take the first metarecord has sent the first file away.
Cleared(c) ==
    Retrashing(c) /\ cl[c].u = 1 /\ (cl[c].pc \in {"row", "attach"} \/ Done(c))
        => rec[1] # "at" \/ disk # 1

\* What is so of a client wherever it is.
Said(c) == Moved(c) /\ Linked(c) /\ Alone(c) /\ Aimed(c) /\ Cleared(c)

\* Every deletion took a metarecord that had the path.
Snapped == \A i \in DOMAIN log : log[i].kind = "delete" => log[i].was = "at"

Story == Snapped /\ (dirty \/ Paired) /\ First /\ Blobs /\ \A c \in Clients : Said(c)

\* While nothing went wrong the path, the trash and the clients tell one story.
StoryInv == Shape /\ (Clean => Story)

\* A step logs one operation at most, and gives the path to one metarecord if none has it.
LogMore == log' = log \/ \E o \in Ops : log' = Append(log, o)

PathMore ==
    \/ rec' = rec
    \/ \E u \in Recs : rec' = [rec EXCEPT ![u] = "none"] \/ rec' = [rec EXCEPT ![u] = "orphan"]
    \/ AtPath = 0 /\ \E u \in Recs : rec' = [rec EXCEPT ![u] = "at"]

\* A metarecord has the path or none has.
LEMMA AtPathIs ==
    /\ AtPath = 0 <=> \A u \in Recs : rec[u] # "at"
    /\ AtPath # 0 => AtPath \in Recs /\ rec[AtPath] = "at"
BY TrashBounds DEF AtPath, Recs

\* An operation a step logs.
LEMMA LoggedOps ==
    ASSUME Inv, NEW u \in Recs, NEW i \in Nat
    PROVE  Create(u, i) \in Ops /\ Delete(u, TRUE, i) \in Ops /\ Delete(u, FALSE, i) \in Ops
BY DEF Inv, Typed, Create, Delete, Ops

\* What a revert writes.
LEMMA ApplyRest ==
    ASSUME Inv, NEW i \in DOMAIN log, revert_apply(i), Invertible(i)
    PROVE  LogMore /\ PathMore /\ mishaps \subseteq mishaps'
<1> DEFINE u == log[i].u
<1>1. /\ log[i] \in Ops /\ i \in Nat /\ (log[i].kind = "delete" => log[i].was # "none")
      /\ rec \in [Recs -> {"none", "at", "orphan"}]
  BY DEF Inv, Typed, Chained
<1>2. u \in Recs /\ log[i].was \in {"none", "at", "orphan"}
  BY <1>1 DEF Ops
<1>3. LogMore
  BY <1>1, <1>2, LoggedOps DEF revert_apply, LogMore
<1>4. PathMore
  BY <1>1, <1>2 DEF revert_apply, PathMore, Invertible
<1> QED  BY <1>3, <1>4 DEF revert_apply

\* And every step.
LEMMA Rest ==
    ASSUME Inv, Next
    PROVE  /\ LogMore /\ PathMore /\ mishaps \subseteq mishaps'
           /\ made'.file \in {made.file, made.file + 1}
           /\ made'.fault = 0 => made.fault = 0
<1>1. /\ made \in [file : Nat, entry : Nat, rec : Nat, cmd : Nat, fault : Nat]
      /\ cl \in [Clients -> Works] /\ rec \in [Recs -> {"none", "at", "orphan"}]
  BY DEF Inv, Typed
<1>2. ASSUME NEW r, NEW c, Begin(c, r)
      PROVE  made'.file = made.file /\ made'.fault = made.fault
  BY <1>1, <1>2 DEF Begin
<1>3. ASSUME Fault PROVE made'.file = made.file /\ made'.fault # 0
  <2>1. made' = [made EXCEPT !.fault = made.fault + 1]
    BY <1>3 DEF Fault
  <2> QED  BY <1>1, <2>1
<1>4. ASSUME NEW c \in Clients,
             \/ TrashCapture(c) \/ RestoreLook(c) \/ RemoveRow(c) \/ PruneWalk(c) \/ revert_start(c)
      PROVE  UNCHANGED <<rec, log, mishaps>> /\ \E r : Begin(c, r)
  BY <1>4 DEF TrashCapture, RestoreLook, RemoveRow, PruneWalk, revert_start
<1>5. ASSUME NEW c \in Clients,
             \/ TrashRow(c) \/ attach_subtree(c) \/ plan_restore(c) \/ RestoreRename(c)
             \/ RestoreUnlist(c) \/ RemoveBlob(c) \/ PruneBlob(c) \/ PruneRow(c)
             \/ sweep_orphan_blobs(c) \/ decide_deleted(c) \/ retrash(c) \/ revert_abort(c)
      PROVE  UNCHANGED <<rec, log, made>> /\ mishaps \subseteq mishaps'
  BY <1>5 DEF TrashRow, attach_subtree, plan_restore, RestoreRename, RestoreUnlist, RemoveBlob,
              PruneBlob, PruneRow, sweep_orphan_blobs, decide_deleted, retrash, revert_abort
<1>6. ASSUME NEW c \in Clients, TrashMove(c)
      PROVE  UNCHANGED <<rec, log>> /\ mishaps \subseteq mishaps'
             /\ made'.file = made.file /\ made'.fault = made.fault
  <2>1. made' = made \/ made' = [made EXCEPT !.entry = made.entry + 1]
    BY <1>6 DEF TrashMove
  <2>2. UNCHANGED <<rec, log>> /\ mishaps \subseteq mishaps'
    BY <1>6 DEF TrashMove
  <2> QED  BY <1>1, <2>1, <2>2
<1>7. ASSUME NEW c \in Clients, trash_delete_endpoint(c)
      PROVE  LogMore /\ PathMore /\ mishaps \subseteq mishaps' /\ made' = made
  <2>1. cl[c].u \in Recs
    BY <1>1, <1>7, TrashBounds DEF trash_delete_endpoint, Inv, Stage, Works, Recs
  <2>2. Delete(cl[c].u, TRUE, 0) \in Ops
    BY <2>1, LoggedOps
  <2> QED  BY <1>7, <2>1, <2>2 DEF trash_delete_endpoint, LogMore, PathMore
<1>8. ASSUME NEW c \in Clients, recreate_subtree(c)
      PROVE  LogMore /\ PathMore /\ mishaps \subseteq mishaps' /\ made' = made
  <2>1. cl[c].cap => cl[c].u \in Recs
    BY <1>1, <1>8, TrashBounds DEF Inv, Stage, Works, Recs
  <2>2. cl[c].cap => Create(cl[c].u, 0) \in Ops
    BY <2>1, LoggedOps
  <2> QED  BY <1>8, <2>1, <2>2 DEF recreate_subtree, LogMore, PathMore
<1>9. ASSUME NEW c \in Clients, relink_subtree(c)
      PROVE  LogMore /\ PathMore /\ mishaps \subseteq mishaps' /\ made' = made
  <2>1. cl[c].u = 0 \/ cl[c].u \in Recs
    BY <1>1, TrashBounds DEF Works, Recs
  <2> QED  BY <1>9, <2>1 DEF relink_subtree, LogMore, PathMore
<1>10. ASSUME NEW c \in Clients, RevertAtOnce(c)
       PROVE  LogMore /\ PathMore /\ mishaps \subseteq mishaps' /\ \E r : Begin(c, r)
  BY <1>10, ApplyRest DEF RevertAtOnce
<1>11. ASSUME NEW c \in Clients, revert_commit(c)
       PROVE  LogMore /\ PathMore /\ mishaps \subseteq mishaps' /\ made' = made
  <2>1. cl[c].op \in DOMAIN log
    BY <1>11 DEF revert_commit, Inv, Stage, Reverting
  <2> QED  BY <1>11, <2>1, ApplyRest DEF revert_commit, LogMore, PathMore
<1>12. ASSUME NEW c \in Clients, Crash(c)
       PROVE  UNCHANGED <<rec, log, mishaps>> /\ Fault
  BY <1>12 DEF Crash
<1>13. ASSUME UserRemoves \/ AbortAsked
       PROVE  UNCHANGED <<rec, log, mishaps>> /\ (made' = made \/ Fault)
  BY <1>13 DEF UserRemoves, AbortAsked
<1>14. ASSUME UserCreates
       PROVE  UNCHANGED <<rec, log, mishaps>> /\ made'.file = made.file + 1 /\ made'.fault = made.fault
  <2>1. UNCHANGED <<rec, log, mishaps>> /\ made' = [made EXCEPT !.file = made.file + 1]
    BY <1>14 DEF UserCreates
  <2> QED  BY <1>1, <2>1
<1>15. ASSUME Watch
       PROVE  /\ LogMore /\ PathMore /\ mishaps \subseteq mishaps'
              /\ made'.file = made.file /\ made'.fault = made.fault
  <2>1. \/ made' = made
        \/ /\ made' = [made EXCEPT !.rec = made.rec + 1] /\ made.rec < MaxRecs /\ AtPath = 0
           /\ rec' = [rec EXCEPT ![made.rec + 1] = "at"]
           /\ log' = Append(log, Create(made.rec + 1, 0))
    BY <1>15 DEF Watch
  <2>2. made.rec < MaxRecs => made.rec + 1 \in Recs /\ Create(made.rec + 1, 0) \in Ops
    <3>1. made.rec < MaxRecs => made.rec + 1 \in Recs
      BY <1>1, TrashBounds DEF Recs
    <3> QED  BY <3>1, LoggedOps
  <2>3. LogMore /\ PathMore
    <3>1. CASE made' = made
      BY <1>15, <3>1, AtPathIs, <1>1 DEF Watch, LogMore, PathMore
    <3> QED  BY <2>1, <2>2, <3>1 DEF LogMore, PathMore
  <2>4. mishaps \subseteq mishaps'
    BY <1>15 DEF Watch
  <2> QED  BY <1>1, <2>1, <2>3, <2>4
<1>16. UNCHANGED <<rec, log>> => LogMore /\ PathMore
  BY DEF LogMore, PathMore
<1>17. ASSUME NEW c \in Clients,
              \/ TrashCapture(c) \/ RestoreLook(c) \/ RemoveRow(c) \/ PruneWalk(c) \/ revert_start(c)
              \/ TrashRow(c) \/ attach_subtree(c) \/ plan_restore(c) \/ RestoreRename(c)
              \/ RestoreUnlist(c) \/ RemoveBlob(c) \/ PruneBlob(c) \/ PruneRow(c)
              \/ sweep_orphan_blobs(c) \/ decide_deleted(c) \/ retrash(c) \/ revert_abort(c)
              \/ TrashMove(c) \/ trash_delete_endpoint(c) \/ recreate_subtree(c)
              \/ relink_subtree(c) \/ RevertAtOnce(c) \/ revert_commit(c) \/ Crash(c)
       PROVE  /\ LogMore /\ PathMore /\ mishaps \subseteq mishaps'
              /\ made'.file \in {made.file, made.file + 1}
              /\ made'.fault = 0 => made.fault = 0
  <2>1. CASE \/ TrashCapture(c) \/ RestoreLook(c) \/ RemoveRow(c) \/ PruneWalk(c) \/ revert_start(c)
             \/ RevertAtOnce(c)
    BY <1>2, <1>4, <1>10, <1>16, <2>1
  <2>2. CASE \/ TrashRow(c) \/ attach_subtree(c) \/ plan_restore(c) \/ RestoreRename(c)
             \/ RestoreUnlist(c) \/ RemoveBlob(c) \/ PruneBlob(c) \/ PruneRow(c)
             \/ sweep_orphan_blobs(c) \/ decide_deleted(c) \/ retrash(c) \/ revert_abort(c)
    BY <1>5, <1>16, <2>2
  <2>3. CASE TrashMove(c) \/ Crash(c)
    BY <1>3, <1>6, <1>12, <1>16, <2>3
  <2>4. CASE trash_delete_endpoint(c) \/ recreate_subtree(c) \/ relink_subtree(c) \/ revert_commit(c)
    BY <1>7, <1>8, <1>9, <1>11, <2>4
  <2> QED  BY <1>17, <2>1, <2>2, <2>3, <2>4
<1>18. CASE Watch \/ UserCreates \/ UserRemoves \/ AbortAsked
  BY <1>3, <1>13, <1>14, <1>15, <1>16, <1>18
<1> QED  BY <1>17, <1>18 DEF Next

\* The log keeps what it has.
LEMMA LogStays ==
    ASSUME Inv, Next
    PROVE  \A i \in DOMAIN log : i \in DOMAIN log' /\ log'[i] = log[i]
<1>1. log \in Seq(Ops) /\ LogMore
  BY Rest DEF Inv, Typed
<1> QED  BY <1>1 DEF LogMore

\* What is behind an operation is there for good.
LEMMA CoupledStays ==
    ASSUME Inv, Inv', Next, NEW i \in DOMAIN log
    PROVE  i \in DOMAIN log' /\ trash_coupled(i)' = trash_coupled(i)
<1>1. PICK l, k : l = log /\ k = log'
  OBVIOUS
<1>2. Backward(l) /\ Backward(k)
  <2>1. log \in Seq(Ops) /\ Chained /\ log' \in Seq(Ops) /\ Chained'
    BY DEF Inv, Typed
  <2>2. \A x \in Ops : x.by \in Nat
    BY DEF Ops
  <2>3. (\A j \in DOMAIN log : log[j] \in Ops) /\ (\A j \in DOMAIN log' : log'[j] \in Ops)
    BY <2>1
  <2> QED  BY <1>1, <2>1, <2>2, <2>3 DEF Backward, Chained
<1>3. \A j \in DOMAIN l : j \in DOMAIN k /\ k[j] = l[j]
  BY <1>1, LogStays
<1>4. Len(l) \in Nat /\ DOMAIN l = 1..Len(l) /\ Len(k) \in Nat /\ DOMAIN k = 1..Len(k)
  BY <1>2 DEF Backward
<1>5. i \in 0..Len(l) /\ i \in 0..Len(k) /\ i \in Nat /\ i <= i /\ Agree(l, k, i)
  BY <1>1, <1>3, <1>4 DEF Agree
<1>6. (\E g : Coupling(l, i, g)) /\ \E h : Coupling(k, i, h)
  BY <1>2, <1>5, CouplingExists
<1>7. PICK g : g = (CHOOSE x : Coupling(l, i, x)) /\ Coupling(l, i, g)
  BY <1>6
<1>8. PICK h : h = (CHOOSE x : Coupling(k, i, x)) /\ Coupling(k, i, h)
  BY <1>6
<1>9. g[i] = h[i]
  BY <1>2, <1>5, <1>7, <1>8, CouplingSame
<1>10. Coupled(l, i) = Coupled(k, i)
  BY <1>7, <1>8, <1>9 DEF Coupled
<1> QED  BY <1>1, <1>3, <1>10, CoupledIs, CoupledNext

\* A history without mishaps had none before.
LEMMA CleanBefore == ASSUME Inv, Inv', Next, Clean' PROVE Clean
<1>1. made.fault = 0 /\ mishaps = {}
  BY Rest DEF Clean
<1>2. ASSUME NEW i \in DOMAIN log, log[i].kind = "delete" PROVE trash_coupled(i)
  <2>1. i \in DOMAIN log' /\ log'[i] = log[i] /\ trash_coupled(i)' = trash_coupled(i)
    BY LogStays, CoupledStays
  <2>2. trash_coupled(i)'
    BY <1>2, <2>1 DEF Clean
  <2> QED  BY <2>1, <2>2
<1> QED  BY <1>1, <1>2 DEF Clean

\* One metarecord keeps the path.
LEMMA SingleKeeps == ASSUME Inv, Single, Next PROVE Single'
<1>1. PathMore /\ rec \in [Recs -> {"none", "at", "orphan"}]
  BY Rest DEF Inv, Typed
<1> QED  BY <1>1, AtPathIs DEF PathMore, Single

\* A client is where its step puts it.
LEMMA GoTo ==
    ASSUME Inv, NEW c \in Clients, NEW r, Go(c, r) \/ Begin(c, r)
    PROVE  cl'[c] = r /\ \A x \in Clients \ {c} : cl'[x] = cl[x]
BY DEF Inv, Typed, Go, Begin

\* Where a client that fails goes.
LEMMA FailsTo ==
    ASSUME Inv, NEW c \in Clients, RestoreFails(c) \/ TrashFails(c)
    PROVE  \/ cl[c].op = 0 /\ cl'[c] = Idle
           \/ /\ cl[c].op # 0 /\ cl'[c].op = cl[c].op /\ cl'[c].u = cl[c].u
              /\ \/ RestoreFails(c) /\ cl'[c].pc = "commit" /\ ~cl'[c].ok
                 \/ TrashFails(c) /\ cl'[c].pc = "abort"
<1> DEFINE r == [cl[c] EXCEPT !.pc = "commit", !.ok = FALSE]
<1>1. cl[c] \in Works
  BY DEF Inv, Typed
<1>2. r.pc = "commit" /\ ~r.ok /\ r.op = cl[c].op /\ r.u = cl[c].u
  BY <1>1 DEF Works
<1>3. CASE cl[c].op = 0
  <2>1. Go(c, Idle)
    BY <1>3 DEF RestoreFails, TrashFails
  <2> QED  BY <1>3, <2>1, GoTo
<1>4. CASE RestoreFails(c) /\ cl[c].op # 0
  <2>1. Go(c, r)
    BY <1>4 DEF RestoreFails
  <2> HIDE DEF r
  <2> QED  BY <1>2, <1>4, <2>1, GoTo
<1>5. CASE TrashFails(c) /\ cl[c].op # 0
  <2>1. Step(c, "abort")
    BY <1>5 DEF TrashFails
  <2> QED  BY <1>5, <2>1, Steps DEF Pcs
<1> QED  BY <1>3, <1>4, <1>5

\* A trashing that fails ends its command, or aborts the revert it is part of.
LEMMA TrashGivesUp ==
    ASSUME Inv, NEW c \in Clients, TrashFails(c)
    PROVE  cl'[c].pc = IF cl[c].op = 0 THEN "idle" ELSE "abort"
<1>1. CASE cl[c].op = 0
  <2>1. Go(c, Idle)
    BY <1>1 DEF TrashFails
  <2> QED  BY <1>1, <2>1, GoTo, IdleWorks
<1>2. CASE cl[c].op # 0
  <2>1. Step(c, "abort")
    BY <1>2 DEF TrashFails
  <2> QED  BY <1>2, <2>1, Steps DEF Pcs
<1> QED  BY <1>1, <1>2

\* A restore that fails ends its command, or leaves the operation out of the revert.
LEMMA RestoreGivesUp ==
    ASSUME Inv, NEW c \in Clients, RestoreFails(c)
    PROVE  cl'[c].pc = "idle" \/ (cl'[c].pc = "commit" /\ ~cl'[c].ok)
<1> DEFINE r == [cl[c] EXCEPT !.pc = "commit", !.ok = FALSE]
<1>1. r.pc = "commit" /\ ~r.ok
  BY DEF Inv, Typed, Works
<1>2. Go(c, Idle) \/ Go(c, r)
  BY DEF RestoreFails
<1> HIDE DEF r
<1> QED  BY <1>1, <1>2, GoTo, IdleWorks

\* Where the steps of a command put its client.
LEMMA CaptureTo ==
    ASSUME Inv, NEW c \in Clients, TrashCapture(c)
    PROVE  /\ cl'[c].op = 0 /\ cl'[c].u = AtPath /\ cl'[c].seen = disk /\ cl'[c].e = 0
           /\ cl'[c].pc = IF AtPath = 0 THEN "move" ELSE "delete"
<1> DEFINE r == [Idle EXCEPT !.u = AtPath, !.seen = disk,
                             !.pc = IF AtPath = 0 THEN "move" ELSE "delete"]
<1>1. /\ r.op = 0 /\ r.u = AtPath /\ r.seen = disk /\ r.e = 0
      /\ r.pc = IF AtPath = 0 THEN "move" ELSE "delete"
  BY DEF Idle
<1>2. Begin(c, r)
  BY DEF TrashCapture
<1> HIDE DEF r
<1> QED  BY <1>1, <1>2, GoTo

\* Once the bytes are moved the new entry is to be listed.
LEMMA MoveTo ==
    ASSUME Inv, NEW c \in Clients, TrashMove(c), disk # 0
    PROVE  /\ cl'[c].pc = "row" /\ cl'[c].op = cl[c].op /\ cl'[c].u = cl[c].u
           /\ cl'[c].e = made.entry + 1
<1> DEFINE r == [cl[c] EXCEPT !.pc = "row", !.e = made.entry + 1, !.seen = 0]
<1>1. r.pc = "row" /\ r.op = cl[c].op /\ r.u = cl[c].u /\ r.e = made.entry + 1
  BY DEF Inv, Typed, Works
<1>2. Go(c, r)
  BY DEF TrashMove
<1> HIDE DEF r
<1> QED  BY <1>1, <1>2, GoTo

\* Once it is listed the capture is to be attached, if there was one.
LEMMA RowTo ==
    ASSUME Inv, NEW c \in Clients, TrashRow(c)
    PROVE  \/ cl[c].u = 0 /\ cl'[c] = Idle
           \/ /\ cl'[c].pc = "attach" /\ cl'[c].op = cl[c].op /\ cl'[c].u = cl[c].u
              /\ cl'[c].e = cl[c].e
<1>1. \/ Go(c, Idle) /\ cl[c].u = 0
      \/ Step(c, "attach")
  BY DEF TrashRow
<1> QED  BY <1>1, GoTo, Steps DEF Pcs

\* The last step before the commit of a revert.
LEMMA DoneTo ==
    ASSUME Inv, NEW c \in Clients, Go(c, [cl[c] EXCEPT !.pc = "commit", !.ok = TRUE])
    PROVE  /\ cl'[c].pc = "commit" /\ cl'[c].ok /\ cl'[c].op = cl[c].op /\ cl'[c].u = cl[c].u
<1> DEFINE r == [cl[c] EXCEPT !.pc = "commit", !.ok = TRUE]
<1>1. r.pc = "commit" /\ r.ok /\ r.op = cl[c].op /\ r.u = cl[c].u
  BY DEF Inv, Typed, Works
<1>2. Go(c, r)
  OBVIOUS
<1> HIDE DEF r
<1> QED  BY <1>1, <1>2, GoTo

\* Where the capture attached, or the row dropped, leaves its client.
LEMMA AttachTo ==
    ASSUME Inv, NEW c \in Clients, attach_subtree(c) \/ RestoreUnlist(c)
    PROVE  \/ cl'[c] = Idle /\ cl[c].op = 0
           \/ attach_subtree(c) /\ TrashFails(c)
           \/ /\ cl[c].op # 0 /\ cl'[c].pc = "commit" /\ cl'[c].ok
              /\ cl'[c].op = cl[c].op /\ cl'[c].u = cl[c].u
<1>1. \/ Go(c, Idle) /\ cl[c].op = 0
      \/ attach_subtree(c) /\ TrashFails(c)
      \/ Go(c, [cl[c] EXCEPT !.pc = "commit", !.ok = TRUE]) /\ cl[c].op # 0
  BY DEF attach_subtree, RestoreUnlist
<1> QED  BY <1>1, GoTo, DoneTo

\* A restore takes up a listed entry and its metarecord.
LEMMA LookTo ==
    ASSUME Inv, NEW c \in Clients, RestoreLook(c)
    PROVE  /\ cl'[c].pc = "recreate" /\ cl'[c].op = 0 /\ cl'[c].e \in Live
           /\ cl'[c].u = row[cl'[c].e].rec
<1>1. PICK e \in Live :
        Begin(c, [Idle EXCEPT !.pc = "recreate", !.e = e, !.u = row[e].rec, !.cap = row[e].cap])
  BY DEF RestoreLook
<1> DEFINE r == [Idle EXCEPT !.pc = "recreate", !.e = e, !.u = row[e].rec, !.cap = row[e].cap]
<1>2. r.pc = "recreate" /\ r.op = 0 /\ r.e = e /\ r.u = row[e].rec
  BY DEF Idle
<1>3. Begin(c, r)
  BY <1>1
<1> HIDE DEF r
<1> QED  BY <1>2, <1>3, GoTo

\* The second look of a restore finds the path free and the entry listed.
LEMMA PlanTo ==
    ASSUME Inv, NEW c \in Clients, plan_restore(c)
    PROVE  \/ RestoreFails(c)
           \/ /\ row[cl[c].e].live /\ disk = 0
              /\ cl'[c].pc = "rename" /\ cl'[c].op = cl[c].op /\ cl'[c].u = cl[c].u
              /\ cl'[c].e = cl[c].e
<1> DEFINE r == [cl[c] EXCEPT !.pc = "rename", !.seen = disk]
<1>1. r.pc = "rename" /\ r.op = cl[c].op /\ r.u = cl[c].u /\ r.e = cl[c].e
  BY DEF Inv, Typed, Works
<1>2. RestoreFails(c) \/ (row[cl[c].e].live /\ disk = 0 /\ Go(c, r))
  BY DEF plan_restore
<1> HIDE DEF r
<1> QED  BY <1>1, <1>2, GoTo

\* A revert that brings a metarecord back takes up an entry that is listed with it.
LEMMA DecideTo ==
    ASSUME Inv, NEW c \in Clients, decide_deleted(c)
    PROVE  \/ RestoreFails(c)
           \/ /\ cl'[c].pc = "plan" /\ cl'[c].op = cl[c].op /\ cl'[c].u = cl[c].u
              /\ cl'[c].e \in Live /\ row[cl'[c].e].rec = cl[c].u
<1> DEFINE holding == {e \in Live : row[e].rec = cl[c].u}
<1>1. CASE holding = {}
  BY <1>1 DEF decide_deleted
<1>2. CASE holding # {}
  <2>1. holding \in SUBSET Nat
    BY TrashBounds DEF Live, Entries
  <2>2. PICK m : m = Min(holding)
    OBVIOUS
  <2>3. m \in holding
    BY <1>2, <2>1, <2>2, MinIn
  <2> DEFINE r == [cl[c] EXCEPT !.pc = "plan", !.e = m]
  <2>4. r.pc = "plan" /\ r.op = cl[c].op /\ r.u = cl[c].u /\ r.e = m
    BY DEF Inv, Typed, Works
  <2>5. Go(c, r)
    BY <1>2, <2>2 DEF decide_deleted
  <2> HIDE DEF r
  <2> QED  BY <2>3, <2>4, <2>5, GoTo
<1> QED  BY <1>1, <1>2

\* A coordinated revert takes up an operation of the log and its metarecord.
LEMMA StartTo ==
    ASSUME Inv, NEW c \in Clients, revert_start(c)
    PROVE  /\ cl'[c].op \in DOMAIN log /\ cl'[c].op # 0 /\ cl'[c].u = log[cl'[c].op].u
           /\ cl'[c].pc = IF log[cl'[c].op].kind = "delete" THEN "entries" ELSE "retrash"
<1>1. PICK i \in DOMAIN log :
        Begin(c, [Idle EXCEPT !.op = i, !.u = log[i].u,
                  !.pc = IF log[i].kind = "delete" THEN "entries" ELSE "retrash"])
  BY DEF revert_start
<1> DEFINE r == [Idle EXCEPT !.op = i, !.u = log[i].u,
                  !.pc = IF log[i].kind = "delete" THEN "entries" ELSE "retrash"]
<1>2. /\ r.op = i /\ r.u = log[i].u
      /\ r.pc = IF log[i].kind = "delete" THEN "entries" ELSE "retrash"
  BY DEF Idle
<1>3. i # 0
  BY DEF Inv, Typed
<1>4. Begin(c, r)
  BY <1>1
<1> HIDE DEF r
<1> QED  BY <1>2, <1>3, <1>4, GoTo

\* A metarecord to be taken again has a file to trash, or none.
LEMMA RetrashTo ==
    ASSUME Inv, NEW c \in Clients, retrash(c)
    PROVE  /\ cl'[c].op = cl[c].op /\ cl'[c].u = cl[c].u
           /\ \/ /\ cl'[c].pc = "move" /\ cl'[c].seen = disk
                 /\ rec[cl[c].u] = "at" /\ disk # 0
              \/ /\ cl'[c].pc = "commit" /\ cl'[c].ok
                 /\ rec[cl[c].u] # "at" \/ disk = 0
<1> DEFINE r == [cl[c] EXCEPT !.pc = "move", !.seen = disk]
<1>1. r.pc = "move" /\ r.seen = disk /\ r.op = cl[c].op /\ r.u = cl[c].u
  BY DEF Inv, Typed, Works
<1>2. \/ Go(c, r) /\ rec[cl[c].u] = "at" /\ disk # 0
      \/ /\ Go(c, [cl[c] EXCEPT !.pc = "commit", !.ok = TRUE])
         /\ rec[cl[c].u] # "at" \/ disk = 0
  BY DEF retrash
<1> HIDE DEF r
<1> QED  BY <1>1, <1>2, GoTo, DoneTo

\* Removing and pruning.
LEMMA PruneTo ==
    ASSUME Inv, NEW c \in Clients,
           \/ RemoveRow(c) \/ RemoveBlob(c) \/ PruneWalk(c) \/ PruneBlob(c) \/ PruneRow(c)
           \/ sweep_orphan_blobs(c)
    PROVE  /\ cl'[c].pc \in {"idle", "rmblob", "pruneblob", "prunerow", "sweep"}
           /\ cl'[c].op \in {0, cl[c].op}
           /\ cl[c].pc \in {"idle", "rmblob", "pruneblob", "prunerow", "sweep"}
<1>1. \A S, a : /\ PruneNext(S, a).op = 0
                /\ PruneNext(S, a).pc \in {"idle", "pruneblob", "sweep"}
  BY DEF PruneNext, Idle
<1>2. CASE RemoveRow(c)
  <2>1. PICK e : Begin(c, [Idle EXCEPT !.pc = "rmblob", !.e = e])
    BY <1>2 DEF RemoveRow
  <2> DEFINE r == [Idle EXCEPT !.pc = "rmblob", !.e = e]
  <2>2. r.pc = "rmblob" /\ r.op = 0
    BY DEF Idle
  <2>3. Begin(c, r)
    BY <2>1
  <2> HIDE DEF r
  <2> QED  BY <2>2, <2>3, GoTo DEF Begin
<1>3. CASE PruneWalk(c)
  <2>1. PICK S, a : Begin(c, PruneNext(S, a))
    BY <1>3 DEF PruneWalk
  <2>2. cl'[c] = PruneNext(S, a) /\ cl[c].pc = "idle"
    BY <2>1, GoTo DEF Begin
  <2> QED  BY <1>1, <2>2
<1>4. CASE PruneRow(c)
  <2>1. PICK S, a : Go(c, PruneNext(S, a))
    BY <1>4 DEF PruneRow
  <2>2. cl'[c] = PruneNext(S, a) /\ cl[c].pc = "prunerow"
    BY <1>4, <2>1, GoTo DEF PruneRow
  <2> QED  BY <1>1, <2>2
<1>5. CASE RemoveBlob(c) \/ sweep_orphan_blobs(c)
  <2>1. Go(c, Idle) /\ cl[c].pc \in {"rmblob", "sweep"}
    BY <1>5 DEF RemoveBlob, sweep_orphan_blobs
  <2> QED  BY <2>1, GoTo, IdleWorks
<1>6. CASE PruneBlob(c)
  <2>1. Step(c, "prunerow") /\ cl[c].pc = "pruneblob"
    BY <1>6 DEF PruneBlob
  <2> QED  BY <2>1, Steps DEF Pcs
<1> QED  BY <1>2, <1>3, <1>4, <1>5, <1>6

\* A client goes on with the operation it reverts, or with none.
LEMMA KindsGo ==
    ASSUME Inv, NEW c \in Clients, Kinds(c), \A i \in DOMAIN log : log'[i] = log[i],
           \/ cl'[c].op = 0 /\ cl'[c].pc \notin Reverting
           \/ /\ cl'[c].op = cl[c].op /\ cl[c].op # 0
              /\ \/ cl'[c].pc \in {"commit", "abort"}
                 \/ /\ log[cl[c].op].kind = "delete"
                    /\ cl'[c].pc \in {"entries", "plan", "rename", "unlist"}
                 \/ /\ log[cl[c].op].kind = "create"
                    /\ cl'[c].pc \in {"retrash", "move", "row", "attach"}
    PROVE  Kinds(c)'
<1>1. cl[c].op # 0 => cl[c].op \in DOMAIN log
  BY DEF Inv, Stage
<1> QED  BY <1>1 DEF Kinds

\* It is so after each step of a trashing.
LEMMA KindsTrash ==
    ASSUME Inv, NEW c \in Clients, Kinds(c), \A i \in DOMAIN log : log'[i] = log[i],
           \/ trash_delete_endpoint(c) \/ TrashMove(c) \/ TrashRow(c) \/ attach_subtree(c)
    PROVE  Kinds(c)'
<1>1. cl[c] \in Works /\ cl \in [Clients -> Works]
  BY DEF Inv, Typed
<1>2. CASE trash_delete_endpoint(c)
  <2>1. cl[c].op = 0
    BY <1>2 DEF trash_delete_endpoint, Kinds
  <2>2. cl'[c].op = 0 /\ cl'[c].pc \in {"idle", "move"}
    BY <1>1, <1>2, <2>1, IdleWorks DEF trash_delete_endpoint, Step, Go, Works
  <2> QED  BY <2>2, KindsGo DEF Reverting
<1>3. CASE TrashMove(c)
  <2>1. cl[c].op = 0 \/ log[cl[c].op].kind = "create"
    BY <1>3 DEF TrashMove, Kinds
  <2>2. CASE disk = 0
    <3>1. TrashFails(c)
      BY <1>3, <2>2 DEF TrashMove
    <3> QED  BY <3>1, FailsTo, IdleWorks, KindsGo DEF Reverting, TrashFails
  <2>3. CASE disk # 0
    <3>1. cl'[c].op = cl[c].op /\ cl'[c].pc = "row"
      BY <1>3, <2>3, MoveTo
    <3> QED  BY <2>1, <3>1, KindsGo DEF Reverting
  <2> QED  BY <2>2, <2>3
<1>4. CASE TrashRow(c)
  <2>1. cl[c].op = 0 \/ log[cl[c].op].kind = "create"
    BY <1>4 DEF TrashRow, Kinds
  <2>2. cl'[c] = Idle \/ (cl'[c].op = cl[c].op /\ cl'[c].pc = "attach")
    BY <1>4, RowTo
  <2> QED  BY <2>1, <2>2, KindsGo, IdleWorks DEF Reverting
<1>5. CASE attach_subtree(c)
  BY <1>5, AttachTo, FailsTo, IdleWorks, KindsGo DEF Reverting, TrashFails
<1> QED  BY <1>2, <1>3, <1>4, <1>5

\* Of a restore.
LEMMA KindsRestore ==
    ASSUME Inv, NEW c \in Clients, Kinds(c), \A i \in DOMAIN log : log'[i] = log[i],
           \/ recreate_subtree(c) \/ relink_subtree(c) \/ plan_restore(c) \/ RestoreRename(c)
           \/ RestoreUnlist(c)
    PROVE  Kinds(c)'
<1>1. cl[c] \in Works /\ cl \in [Clients -> Works]
  BY DEF Inv, Typed
<1>2. CASE recreate_subtree(c) \/ relink_subtree(c)
  <2>1. cl[c].op = 0
    BY <1>2 DEF recreate_subtree, relink_subtree, Kinds
  <2>2. cl'[c].op = 0 /\ cl'[c].pc \in {"idle", "relink", "plan"}
    BY <1>1, <1>2, <2>1, IdleWorks DEF recreate_subtree, relink_subtree, Step, Go, Works
  <2> QED  BY <2>2, KindsGo DEF Reverting
<1>3. CASE plan_restore(c) \/ RestoreRename(c)
  <2>1. cl[c].op = 0 \/ log[cl[c].op].kind = "delete"
    BY <1>3 DEF plan_restore, RestoreRename, Kinds
  <2>2. CASE RestoreFails(c)
    BY <2>2, FailsTo, IdleWorks, KindsGo DEF Reverting
  <2>3. CASE plan_restore(c) /\ ~RestoreFails(c)
    BY <2>1, <2>3, PlanTo, KindsGo DEF Reverting
  <2>4. CASE RestoreRename(c) /\ ~RestoreFails(c)
    <3>1. Step(c, "unlist")
      BY <2>4 DEF RestoreRename
    <3> QED  BY <2>1, <3>1, Steps, KindsGo DEF Pcs, Reverting
  <2> QED  BY <1>3, <2>2, <2>3, <2>4
<1>4. CASE RestoreUnlist(c)
  <2>1. ~attach_subtree(c)
    BY <1>4 DEF RestoreUnlist, attach_subtree
  <2> QED  BY <1>4, <2>1, AttachTo, KindsGo, IdleWorks DEF Reverting
<1> QED  BY <1>2, <1>3, <1>4

\* Of a revert.
LEMMA KindsRevert ==
    ASSUME Inv, NEW c \in Clients, Kinds(c), \A i \in DOMAIN log : log'[i] = log[i],
           \/ RevertAtOnce(c) \/ revert_start(c) \/ decide_deleted(c) \/ retrash(c)
           \/ revert_commit(c) \/ revert_abort(c) \/ Crash(c)
    PROVE  Kinds(c)'
<1>1. cl[c] \in Works /\ cl \in [Clients -> Works]
  BY DEF Inv, Typed
<1>2. CASE RevertAtOnce(c) \/ revert_abort(c) \/ Crash(c)
  <2>1. cl'[c] = Idle
    BY <1>1, <1>2 DEF RevertAtOnce, revert_abort, Crash, Begin, Go
  <2> QED  BY <2>1, IdleWorks, KindsGo DEF Reverting
<1>3. CASE revert_start(c)
  <2>1. log[cl'[c].op] \in Ops /\ log'[cl'[c].op] = log[cl'[c].op]
    BY <1>3, StartTo DEF Inv, Typed
  <2> QED  BY <1>3, <2>1, StartTo DEF Kinds, Ops
<1>4. CASE decide_deleted(c)
  <2>1. cl[c].op # 0 /\ log[cl[c].op].kind = "delete"
    BY <1>4 DEF decide_deleted, Kinds, Reverting
  <2>2. CASE RestoreFails(c)
    BY <2>2, FailsTo, IdleWorks, KindsGo DEF Reverting
  <2>3. CASE ~RestoreFails(c)
    BY <1>4, <2>1, <2>3, DecideTo, KindsGo
  <2> QED  BY <2>2, <2>3
<1>5. CASE retrash(c)
  <2>1. cl[c].op # 0 /\ log[cl[c].op].kind = "create"
    BY <1>5 DEF retrash, Kinds, Reverting
  <2>2. cl'[c].op = cl[c].op /\ cl'[c].pc \in {"move", "commit"}
    BY <1>5, RetrashTo
  <2> QED  BY <2>1, <2>2, KindsGo
<1>6. CASE revert_commit(c)
  <2>1. cl[c].op # 0
    BY <1>6 DEF revert_commit, Kinds, Reverting
  <2>2. cl'[c] = Idle \/ (cl'[c].op = cl[c].op /\ cl'[c].pc = "abort")
    BY <1>1, <1>6 DEF revert_commit, Step, Go, Works
  <2> QED  BY <2>1, <2>2, IdleWorks, KindsGo DEF Reverting
<1> QED  BY <1>2, <1>3, <1>4, <1>5, <1>6

\* Where a command begins, and of those that end an entry.
LEMMA KindsRemove ==
    ASSUME Inv, NEW c \in Clients, Kinds(c), \A i \in DOMAIN log : log'[i] = log[i],
           \/ TrashCapture(c) \/ RestoreLook(c) \/ RemoveRow(c) \/ RemoveBlob(c)
           \/ PruneWalk(c) \/ PruneBlob(c) \/ PruneRow(c) \/ sweep_orphan_blobs(c)
    PROVE  Kinds(c)'
<1>1. CASE TrashCapture(c)
  BY <1>1, CaptureTo, KindsGo DEF Reverting
<1>2. CASE RestoreLook(c)
  BY <1>2, LookTo, KindsGo DEF Reverting
<1>3. CASE ~(TrashCapture(c) \/ RestoreLook(c))
  <2>1. cl[c].op = 0
    BY <1>3, PruneTo DEF Kinds
  <2> QED  BY <1>3, <2>1, PruneTo, KindsGo DEF Reverting
<1> QED  BY <1>1, <1>2, <1>3

\* A step of client c is no other's.
LEMMA OthersAlone ==
    ASSUME Inv, NEW c \in Clients,
           \/ TrashCapture(c) \/ trash_delete_endpoint(c) \/ TrashMove(c) \/ TrashRow(c)
           \/ attach_subtree(c)
           \/ RestoreLook(c) \/ recreate_subtree(c) \/ relink_subtree(c) \/ plan_restore(c)
           \/ RestoreRename(c) \/ RestoreUnlist(c)
           \/ RemoveRow(c) \/ RemoveBlob(c)
           \/ PruneWalk(c) \/ PruneBlob(c) \/ PruneRow(c) \/ sweep_orphan_blobs(c)
           \/ RevertAtOnce(c) \/ revert_start(c) \/ decide_deleted(c) \/ retrash(c)
           \/ revert_commit(c) \/ revert_abort(c)
           \/ Crash(c)
    PROVE  \A x \in Clients \ {c} : cl'[x] = cl[x]
<1>1. CASE Elsewhere(c)
  BY <1>1, ElsewhereIs, ClientAlone
<1>2. CASE TrashMove(c) \/ TrashRow(c) \/ attach_subtree(c)
  <2>1. \E r : Go(c, r)
    BY <1>2 DEF TrashMove, TrashRow, attach_subtree, TrashFails, Step
  <2> QED  BY <2>1, ClientAlone
<1>3. CASE RestoreRename(c) \/ RestoreUnlist(c) \/ RemoveBlob(c) \/ PruneBlob(c) \/ PruneRow(c)
           \/ sweep_orphan_blobs(c) \/ Crash(c)
  <2>1. \E r : Go(c, r)
    BY <1>3 DEF RestoreRename, RestoreUnlist, RemoveBlob, PruneBlob, PruneRow,
                sweep_orphan_blobs, Crash, RestoreFails, Step
  <2> QED  BY <2>1, ClientAlone
<1>4. CASE RemoveRow(c)
  <2>1. \E r : Begin(c, r)
    BY <1>4 DEF RemoveRow
  <2> QED  BY <2>1, ClientAlone
<1> QED  BY <1>1, <1>2, <1>3, <1>4 DEF Elsewhere

\* One metarecord at most has the path, and a client knows which kind of
\* operation it reverts.
LEMMA ShapeKeeps == ASSUME Inv, Inv', Shape, [Next]_vars PROVE Shape'
<1>1. CASE UNCHANGED vars
  BY <1>1 DEF vars, Shape, Single, Kinds
<1>2. CASE Next
  <2>1. Single' /\ made'.file # 0
    BY <1>2, Rest, SingleKeeps DEF Shape, Inv, Typed
  <2>2. \A i \in DOMAIN log : i \in DOMAIN log' /\ log'[i] = log[i]
    BY <1>2, LogStays
  <2>3. ASSUME NEW d \in Clients, cl'[d] = cl[d] PROVE Kinds(d)'
    <3>1. cl[d].op # 0 => cl[d].op \in DOMAIN log
      BY DEF Inv, Stage
    <3> QED  BY <2>2, <2>3, <3>1 DEF Shape, Kinds
  <2>4. CASE Watch \/ UserCreates \/ UserRemoves \/ AbortAsked
    <3>1. cl' = cl
      BY <2>4 DEF Watch, UserCreates, UserRemoves, AbortAsked
    <3> QED  BY <2>1, <2>3, <3>1 DEF Shape
  <2>5. ASSUME NEW c \in Clients,
               \/ TrashCapture(c) \/ trash_delete_endpoint(c) \/ TrashMove(c) \/ TrashRow(c)
               \/ attach_subtree(c)
               \/ RestoreLook(c) \/ recreate_subtree(c) \/ relink_subtree(c) \/ plan_restore(c)
               \/ RestoreRename(c) \/ RestoreUnlist(c)
               \/ RemoveRow(c) \/ RemoveBlob(c)
               \/ PruneWalk(c) \/ PruneBlob(c) \/ PruneRow(c) \/ sweep_orphan_blobs(c)
               \/ RevertAtOnce(c) \/ revert_start(c) \/ decide_deleted(c) \/ retrash(c)
               \/ revert_commit(c) \/ revert_abort(c)
               \/ Crash(c)
        PROVE  Shape'
    <3>1. Kinds(c)'
      BY <2>2, <2>5, KindsTrash, KindsRestore, KindsRevert, KindsRemove DEF Shape
    <3>2. \A x \in Clients \ {c} : cl'[x] = cl[x]
      BY <2>5, OthersAlone
    <3> QED  BY <2>1, <2>3, <3>1, <3>2 DEF Shape
  <2> QED  BY <1>2, <2>4, <2>5 DEF Next
<1> QED  BY <1>1, <1>2

\* A step of a history that stays clean.
Fine ==
    /\ Inv /\ Inv' /\ Shape /\ Clean /\ Clean' /\ Story
    /\ \A i \in DOMAIN log : i \in DOMAIN log' /\ log'[i] = log[i]

\* What a step leaves to the clients of D, who stay where they are: the watcher
\* is told of what becomes of the file; the repository stands still under a
\* revert; no metarecord leaves or takes the path, and no bytes come back,
\* where the model counts a mishap.
Tells(D) ==
    /\ \A d \in D : cl'[d] = cl[d]
    /\ disk' # disk => dirty'
    /\ dirty => dirty' \/ \A d \in D : cl[d].op = 0
    /\ rec' = rec \/ \A d \in D : cl[d].op = 0
    /\ \A u \in Recs : rec[u] = "at" /\ rec'[u] # "at" => Displaced(u) = {}
    /\ \A u \in Recs : rec[u] # "at" /\ rec'[u] = "at" => Retaken(u) = {}
    /\ disk' = 1 => disk = 1 \/ Crossed(1) = {}
    /\ \A x \in Clients \ D :
          Returned(x, 1) => \/ Returned(x, 1)' /\ rec' = rec
                            \/ \A v \in Recs : rec[v] # "at"

\* What those clients know stands.
LEMMA OthersStory ==
    ASSUME Fine, NEW D \in SUBSET Clients, Tells(D), NEW d \in D
    PROVE  Said(d)'
<1>1. /\ d \in Clients /\ cl'[d] = cl[d] /\ cl[d] \in Works /\ Stage(d)
      /\ Moved(d) /\ Linked(d) /\ Alone(d) /\ Aimed(d) /\ Cleared(d)
  BY DEF Fine, Story, Said, Inv, Typed, Tells
<1>2. \A x \in Clients : cl[x].op # 0 => cl[x].op \in DOMAIN log' /\ log'[cl[x].op] = log[cl[x].op]
  BY DEF Fine, Inv, Stage
<1>3. \A x \in D : cl[x].op # 0 => rec' = rec /\ (dirty => dirty')
  BY DEF Tells
<1>4. Moved(d)'
  <2>1. disk = 0 => dirty' \/ disk' = 0
    BY DEF Tells
  <2> QED  BY <1>1, <1>2, <1>3, <2>1 DEF Moved, Restoring, Retrashing, Done
<1>5. Linked(d)'
  <2> SUFFICES ASSUME cl[d].pc \in {"plan", "rename"}, cl[d].op = 0, cl[d].u # 0,
                      rec'[cl[d].u] # "at"
               PROVE  FALSE
    BY <1>1 DEF Linked
  <2>1. cl[d].u \in Recs /\ rec[cl[d].u] = "at"
    BY <1>1, TrashBounds DEF Works, Recs, Linked
  <2>2. Displaced(cl[d].u) = {}
    BY <2>1 DEF Tells
  <2> QED  BY <1>1, <2>2 DEF Displaced
<1>6. Alone(d)'
  <2> SUFFICES ASSUME NEW u \in Recs, NEW v \in Recs, Between(d, u)', rec'[v] = "at"
               PROVE  v = u
    BY DEF Alone
  <2>1. Between(d, u) /\ u # 0
    BY <1>1, TrashBounds DEF Between, Recs
  <2>2. CASE rec[v] = "at"
    BY <1>1, <2>1, <2>2 DEF Alone
  <2>3. CASE rec[v] # "at"
    <3>1. Retaken(v) = {}
      BY <2>3 DEF Tells
    <3> QED  BY <1>1, <2>1, <3>1 DEF Retaken, Between
  <2> QED  BY <2>2, <2>3
<1>7. Aimed(d)'
  <2> SUFFICES ASSUME cl[d].seen = 1, cl[d].u # 0, cl[d].pc = "delete", cl[d].u # 1
               PROVE  (\E v \in Recs : rec'[v] = "at") /\ \E x \in Clients : Returned(x, 1)'
    BY <1>1 DEF Aimed
  <2>1. PICK v \in Recs, x \in Clients : rec[v] = "at" /\ Returned(x, 1)
    BY <1>1 DEF Aimed
  <2>2. CASE x \in D
    <3>1. cl[x].op # 0 /\ cl'[x] = cl[x]
      BY <2>1, <2>2 DEF Returned, Restoring, Tells
    <3>2. rec' = rec /\ Returned(x, 1)'
      BY <1>2, <1>3, <2>1, <2>2, <3>1 DEF Returned, Restoring, Done
    <3> QED  BY <2>1, <3>2
  <2>3. CASE x \notin D
    BY <2>1, <2>3 DEF Tells
  <2> QED  BY <2>2, <2>3
<1>8. Cleared(d)'
  <2> SUFFICES ASSUME Retrashing(d), cl[d].u = 1, cl[d].pc \in {"row", "attach"} \/ Done(d),
                      rec'[1] = "at", disk' = 1
               PROVE  FALSE
    BY <1>1, <1>2 DEF Cleared, Retrashing, Done
  <2>1. rec' = rec
    BY <1>3 DEF Retrashing
  <2>2. disk # 1
    BY <1>1, <2>1 DEF Cleared
  <2>3. Crossed(1) = {}
    BY <2>2 DEF Tells
  <2> QED  BY <1>1, <2>3 DEF Crossed, Retrashing, Done
<1> QED  BY <1>4, <1>5, <1>6, <1>7, <1>8 DEF Said

\* A client in such a place knows nothing that could go wrong.
Aside(c) ==
    \/ cl[c].pc \in {"idle", "rmblob", "pruneblob", "prunerow", "sweep", "entries", "retrash",
                     "recreate", "relink", "abort"}
    \/ cl[c].pc = "commit" /\ ~cl[c].ok

\* So it says nothing.
LEMMA AsideSays == ASSUME NEW c \in Clients, Aside(c)' PROVE Said(c)'
BY DEF Aside, Said, Moved, Linked, Alone, Aimed, Cleared, Between, Done

\* What a client may do with its entry.
Handles(c) ==
    /\ \A e \in Entries : blob'[e] = blob[e] \/ blob'[e] = 0
    /\ \A e \in Entries :
          row'[e].live => \/ row[e].live /\ row'[e].rec = row[e].rec
                          \/ cl[c].pc = "row" /\ cl[c].e = e /\ row'[e].rec = cl[c].u
    /\ cl'[c].pc \in {"row", "recreate", "relink", "plan", "rename"} =>
          \/ /\ cl[c].pc \in {"row", "recreate", "relink", "plan", "rename"}
             /\ cl'[c].e = cl[c].e /\ cl'[c].u = cl[c].u
          \/ row[cl'[c].e].live /\ row[cl'[c].e].rec = cl'[c].u

\* The first file's entries stay those of its metarecord.
LEMMA BlobsKeep ==
    ASSUME Blobs, NEW c \in Clients, \A x \in Clients \ {c} : cl'[x] = cl[x], Handles(c)
    PROVE  Blobs'
<1> SUFFICES ASSUME NEW e \in Entries, blob'[e] = 1
             PROVE  /\ row'[e].live => row'[e].rec = 1
                    /\ \A x \in Clients :
                          cl'[x].e = e /\ cl'[x].pc \in {"row", "recreate", "relink", "plan", "rename"}
                             => cl'[x].u = 1
  BY DEF Blobs
<1>1. blob[e] = 1
  BY DEF Handles
<1>2. row'[e].live => row'[e].rec = 1
  BY <1>1 DEF Handles, Blobs
<1>3. ASSUME NEW x \in Clients, cl'[x].e = e,
             cl'[x].pc \in {"row", "recreate", "relink", "plan", "rename"}
      PROVE  cl'[x].u = 1
  BY <1>1, <1>3 DEF Handles, Blobs
<1> QED  BY <1>2, <1>3

\* A step that touches neither the file nor a metarecord.
Leaves(c) ==
    /\ \A x \in Clients \ {c} : cl'[x] = cl[x]
    /\ UNCHANGED <<rec, disk, dirty, log>>
    /\ cl[c].op = 0 /\ cl[c].pc \in {"relink", "plan", "rename"} /\ disk = 0 /\ rec[cl[c].u] = "at"
          => cl'[c].op = 0 /\ cl'[c].u = cl[c].u /\ cl'[c].pc \in {"relink", "plan", "rename"}
    /\ cl[c].op = 0 /\ cl[c].pc = "move" => disk = 0
    /\ Returned(c, 1) => Returned(c, 1)'

\* Such a step keeps the story if the client that takes it knows what it must.
LEMMA LeavesStory ==
    ASSUME Fine, NEW c \in Clients, Leaves(c), Handles(c), Said(c)'
    PROVE  Story'
<1>1. Story /\ UNCHANGED <<rec, disk, dirty, log>> /\ \A x \in Clients \ {c} : cl'[x] = cl[x]
  BY DEF Fine, Leaves
<1>2. Snapped' /\ Blobs'
  BY <1>1, BlobsKeep DEF Story, Snapped
<1>3. \A x \in Clients, u \in Recs : Between(x, u) => Between(x, u)' \/ disk = 0
  BY <1>1 DEF Between, Leaves
<1>4. \A x \in Clients : Returned(x, 1) => Returned(x, 1)'
  BY <1>1 DEF Leaves, Returned, Restoring, Done
<1>5. 1 \in Recs
  BY TrashBounds DEF Recs
<1>6. Paired => Paired'
  <2>1. ASSUME Paired, NEW u \in Recs, rec[u] = "at", disk = 0
        PROVE  \E x \in Clients : /\ cl'[x].op = 0 /\ cl'[x].u = u
                                  /\ cl'[x].pc \in {"relink", "plan", "rename"}
    <3>1. PICK x \in Clients : cl[x].op = 0 /\ cl[x].u = u /\ cl[x].pc \in {"relink", "plan", "rename"}
      BY <2>1 DEF Paired
    <3> QED  BY <1>1, <2>1, <3>1 DEF Leaves
  <2> QED  BY <1>1, <1>3, <2>1 DEF Paired
<1>7. First'
  BY <1>1, <1>3, <1>4, <1>5 DEF Story, First
<1>8. \A d \in Clients \ {c} : Said(d)'
  <2>1. Tells(Clients \ {c})
    BY <1>1, <1>4 DEF Tells
  <2> QED  BY <2>1, OthersStory
<1> QED  BY <1>1, <1>2, <1>6, <1>7, <1>8 DEF Story

\* A client that gives up, or whose step only concerns entries it does not
\* hold in hand, leaves the rest as it is.
LEMMA AsideStory ==
    ASSUME Fine, NEW c \in Clients, \A x \in Clients \ {c} : cl'[x] = cl[x],
           UNCHANGED <<rec, disk, dirty, log>>, Handles(c), Aside(c)',
           cl[c].op = 0 => cl[c].pc \notin {"relink", "plan", "rename"} \/ disk # 0
                           \/ rec[cl[c].u] # "at",
           cl[c].op = 0 => cl[c].pc # "move" \/ disk = 0,
           ~Returned(c, 1)
    PROVE  Story'
<1>1. Leaves(c)
  BY DEF Leaves
<1> QED  BY <1>1, AsideSays, LeavesStory

\* One operation at most is being reverted.
LEMMA OneReverts ==
    ASSUME Fine, NEW c \in Clients, cl[c].op # 0
    PROVE  /\ lock = cl[c].op /\ cl[c].op \in DOMAIN log /\ cl[c].u = log[cl[c].op].u
           /\ cl[c].u \in Recs /\ log[cl[c].op] \in Ops
           /\ \A x \in Clients \ {c} : cl[x].op = 0
<1>1. Inv /\ made.fault = 0 /\ Stage(c) /\ log \in Seq(Ops)
  BY DEF Fine, Clean, Inv, Typed
<1>2. cl[c].op \in DOMAIN log /\ cl[c].u = log[cl[c].op].u
  BY <1>1 DEF Stage
<1>3. log[cl[c].op] \in Ops
  BY <1>1, <1>2
<1> QED  BY <1>1, <1>2, <1>3 DEF Inv, Locked, Ops

\* None is while the lock is free.
LEMMA NoneReverts == ASSUME Fine, lock = 0 PROVE \A x \in Clients : cl[x].op = 0
BY OneReverts

\* A trashing begins: the metarecord at the path is the first file's.
LEMMA StoryCapture == ASSUME Fine, NEW c \in Clients, TrashCapture(c) PROVE Story'
<1>1. /\ UNCHANGED <<rec, disk, dirty, log, blob, row>> /\ cl[c].pc = "idle"
      /\ \A x \in Clients \ {c} : cl'[x] = cl[x]
  BY OthersAlone DEF Fine, TrashCapture, Begin
<1>2. /\ cl'[c].op = 0 /\ cl'[c].u = AtPath /\ cl'[c].seen = disk /\ cl'[c].e = 0
      /\ cl'[c].pc = IF AtPath = 0 THEN "move" ELSE "delete"
  BY CaptureTo DEF Fine
<1>3. Leaves(c) /\ Handles(c)
  BY <1>1, <1>2 DEF Leaves, Handles, Returned, Done
<1>4. Moved(c)' /\ Linked(c)' /\ Cleared(c)'
  BY <1>2 DEF Moved, Linked, Cleared, Restoring, Retrashing
<1>5. Alone(c)'
  <2>1. 0 \notin Recs
    BY TrashBounds DEF Recs
  <2> QED  BY <1>2, <2>1 DEF Alone, Between
<1>6. Aimed(c)'
  <2> SUFFICES ASSUME disk = 1, AtPath # 0, AtPath # 1
               PROVE  (\E v \in Recs : rec'[v] = "at") /\ \E x \in Clients : Returned(x, 1)'
    BY <1>2 DEF Aimed
  <2>1. AtPath \in Recs /\ rec[AtPath] = "at" /\ 1 \in Recs
    BY AtPathIs, TrashBounds DEF Recs
  <2>2. rec[1] # "at"
    BY <2>1 DEF Fine, Shape, Single
  <2>3. \A x \in Clients : ~Between(x, 1)
    BY <2>1 DEF Fine, Story, Said, Alone
  <2>4. PICK x \in Clients : Returned(x, 1)
    BY <2>2, <2>3 DEF Fine, Story, First
  <2>5. x # c
    BY <1>1, <2>4 DEF Returned, Done
  <2>6. Returned(x, 1)'
    BY <1>1, <2>4, <2>5 DEF Returned, Restoring, Done
  <2> QED  BY <1>1, <2>1, <2>6
<1> QED  BY <1>3, <1>4, <1>5, <1>6, LeavesStory DEF Said

\* The steps of a trashing that find nothing to do, and those after the bytes
\* are moved.
LEMMA StoryRow == ASSUME Fine, NEW c \in Clients, TrashRow(c) \/ attach_subtree(c) PROVE Story'
<1>0. Inv /\ Said(c) /\ cl[c] \in Works /\ Kinds(c) /\ \A x \in Clients \ {c} : cl'[x] = cl[x]
  BY OthersAlone DEF Fine, Story, Inv, Typed, Shape
<1>1. /\ UNCHANGED <<rec, disk, dirty, log, blob>> /\ cl[c].pc \in {"row", "attach"}
  BY DEF TrashRow, attach_subtree
<1>2. CASE TrashRow(c)
  <2>1. cl[c].pc = "row" /\ row' = [row EXCEPT ![cl[c].e] = [live |-> TRUE, rec |-> cl[c].u, cap |-> FALSE]]
    BY <1>2 DEF TrashRow
  <2>2. row \in [Entries -> Rows]
    BY <1>0 DEF Inv, Typed
  <2>3. \/ cl'[c] = Idle
        \/ cl'[c].pc = "attach" /\ cl'[c].op = cl[c].op /\ cl'[c].u = cl[c].u
    BY <1>0, <1>2, RowTo
  <2>4. Handles(c)
    <3> DEFINE w == [live |-> TRUE, rec |-> cl[c].u, cap |-> FALSE]
    <3>1. \A e \in Entries : row'[e] = IF e = cl[c].e THEN w ELSE row[e]
      BY <2>1, <2>2
    <3>2. w.live /\ w.rec = cl[c].u
      OBVIOUS
    <3> HIDE DEF w
    <3> QED  BY <1>1, <2>1, <2>3, <3>1, <3>2, IdleWorks DEF Handles
  <2>5. Said(c)'
    <3>1. CASE cl'[c] = Idle
      BY <3>1, IdleWorks, AsideSays DEF Aside
    <3>2. CASE cl'[c].pc = "attach" /\ cl'[c].op = cl[c].op /\ cl'[c].u = cl[c].u
      <4>1. Retrashing(c)' => Retrashing(c)
        BY <1>1, <3>2 DEF Retrashing
      <4> QED  BY <1>0, <1>1, <2>1, <3>2, <4>1
               DEF Said, Moved, Linked, Alone, Aimed, Cleared, Between, Done
    <3> QED  BY <2>3, <3>1, <3>2
  <2>6. Leaves(c)
    BY <1>0, <1>1, <2>1 DEF Leaves, Returned, Done
  <2> QED  BY <2>4, <2>5, <2>6, LeavesStory
<1>3. CASE attach_subtree(c)
  <2>1. cl[c].pc = "attach" /\ (row' = row \/ row' = [row EXCEPT ![cl[c].e].cap = TRUE])
    BY <1>3 DEF attach_subtree
  <2>2. row \in [Entries -> Rows]
    BY <1>0 DEF Inv, Typed
  <2>3. \A e \in Entries : row'[e].live => row[e].live /\ row'[e].rec = row[e].rec
    BY <2>1, <2>2 DEF Rows
  <2>4. \/ cl'[c].pc \in {"idle", "abort"}
        \/ /\ cl[c].op # 0 /\ cl'[c].pc = "commit" /\ cl'[c].ok
           /\ cl'[c].op = cl[c].op /\ cl'[c].u = cl[c].u
    BY <1>0, <1>3, AttachTo, TrashGivesUp, IdleWorks
  <2>5. Handles(c)
    BY <1>1, <2>3, <2>4 DEF Handles
  <2>6. Said(c)'
    <3>1. CASE cl'[c].pc \in {"idle", "abort"}
      BY <3>1, AsideSays DEF Aside
    <3>2. CASE /\ cl[c].op # 0 /\ cl'[c].pc = "commit" /\ cl'[c].ok
               /\ cl'[c].op = cl[c].op /\ cl'[c].u = cl[c].u
      <4>1. log[cl[c].op].kind = "create" /\ dirty
        BY <1>0, <2>1, <3>2 DEF Kinds, Said, Moved
      <4>2. Retrashing(c)' /\ ~Restoring(c)' /\ Retrashing(c)
        BY <1>1, <3>2, <4>1 DEF Retrashing, Restoring
      <4>3. dirty'
        BY <1>1, <4>1
      <4>4. Cleared(c)'
        BY <1>0, <1>1, <2>1, <3>2, <4>2 DEF Said, Cleared
      <4> QED  BY <3>2, <4>2, <4>3, <4>4 DEF Said, Moved, Linked, Alone, Aimed, Between
    <3> QED  BY <2>4, <3>1, <3>2
  <2>7. Leaves(c)
    BY <1>0, <1>1, <2>1 DEF Leaves, Returned, Done
  <2> QED  BY <2>5, <2>6, <2>7, LeavesStory
<1> QED  BY <1>2, <1>3

\* A restore looks, and what it does when the metarecord is there.
LEMMA StoryLook == ASSUME Fine, NEW c \in Clients, RestoreLook(c) PROVE Story'
<1>1. /\ UNCHANGED <<rec, disk, dirty, log, blob, row>> /\ cl[c].pc = "idle"
      /\ \A x \in Clients \ {c} : cl'[x] = cl[x]
  BY OthersAlone DEF Fine, RestoreLook, Begin
<1>2. /\ cl'[c].pc = "recreate" /\ cl'[c].op = 0 /\ cl'[c].e \in Live
      /\ cl'[c].u = row[cl'[c].e].rec
  BY LookTo DEF Fine
<1>3. Handles(c)
  BY <1>1, <1>2 DEF Handles, Live
<1> QED  BY <1>1, <1>2, <1>3, AsideStory DEF Aside, Returned, Done

\* Of the metarecord, where it is as it must be already.
LEMMA StoryAsIs ==
    ASSUME Fine, NEW c \in Clients, recreate_subtree(c) \/ relink_subtree(c), UNCHANGED <<rec, log>>
    PROVE  Story'
<1>0. /\ Inv /\ Said(c) /\ cl[c] \in Works /\ Kinds(c) /\ mishaps = {} /\ mishaps' = {}
      /\ \A x \in Clients \ {c} : cl'[x] = cl[x]
  BY OthersAlone DEF Fine, Story, Inv, Typed, Shape, Clean
<1>1. UNCHANGED <<disk, dirty, blob, row>> /\ cl[c].pc \in {"recreate", "relink"} /\ cl[c].op = 0
  BY <1>0 DEF recreate_subtree, relink_subtree, Kinds
<1>2. \/ cl'[c] = Idle /\ lock # 0
      \/ recreate_subtree(c) /\ Step(c, "relink")
      \/ relink_subtree(c) /\ Step(c, "plan")
  <2>1. recreate_subtree(c) => Step(c, "relink") \/ (Go(c, Idle) /\ lock # 0)
    BY DEF recreate_subtree
  <2>2. relink_subtree(c) => Step(c, "plan") \/ (Go(c, Idle) /\ lock # 0)
    BY DEF relink_subtree
  <2> QED  BY <1>0, <2>1, <2>2, GoTo
<1>3. CASE relink_subtree(c) /\ Step(c, "plan")
  <2>1. /\ cl'[c].pc = "plan" /\ cl'[c].op = 0 /\ cl'[c].u = cl[c].u /\ cl'[c].e = cl[c].e
        /\ cl[c].pc = "relink"
    BY <1>0, <1>1, <1>3, Steps DEF Pcs, relink_subtree
  <2>2. cl[c].u # 0 => rec[cl[c].u] = "at"
    <3> SUFFICES ASSUME cl[c].u # 0, rec[cl[c].u] # "at" PROVE FALSE
      OBVIOUS
    <3>1. cl[c].u \in Recs /\ rec \in [Recs -> {"none", "at", "orphan"}]
      BY <1>0, TrashBounds DEF Works, Recs, Inv, Typed
    <3>2. rec[cl[c].u] # "none"
      BY <1>0, <1>1, <2>1 DEF Inv, Stage
    <3>3. rec[cl[c].u] = "orphan"
      BY <3>1, <3>2
    <3>4. \/ cl'[c] = Idle
          \/ "unlinked" \in mishaps'
          \/ rec' = [rec EXCEPT ![cl[c].u] = "at"]
      BY <1>0, <1>3, <3>3, GoTo DEF relink_subtree
    <3> QED  BY <1>0, <2>1, <3>1, <3>4, IdleWorks
  <2>3. Said(c)'
    BY <2>1, <2>2 DEF Said, Moved, Linked, Alone, Aimed, Cleared, Between, Done, Retrashing, Restoring
  <2>4. Leaves(c) /\ Handles(c)
    BY <1>0, <1>1, <2>1 DEF Leaves, Handles, Returned, Done
  <2> QED  BY <2>3, <2>4, LeavesStory
<1>4. CASE recreate_subtree(c) /\ Step(c, "relink")
  <2>1. /\ cl'[c].pc = "relink" /\ cl'[c].op = 0 /\ cl'[c].u = cl[c].u /\ cl'[c].e = cl[c].e
        /\ cl[c].pc = "recreate"
    BY <1>0, <1>1, <1>4, Steps DEF Pcs, recreate_subtree
  <2>2. Handles(c)
    BY <1>1, <2>1 DEF Handles
  <2> QED  BY <1>0, <1>1, <2>1, <2>2, AsideStory DEF Aside, Returned, Done
<1>5. CASE cl'[c] = Idle /\ lock # 0
  <2>1. Handles(c)
    BY <1>1, <1>5, IdleWorks DEF Handles
  <2>2. cl[c].pc = "relink" => rec[cl[c].u] # "at"
    <3>1. relink_subtree(c) /\ rec[cl[c].u] # "orphan" => Step(c, "plan")
      BY DEF relink_subtree
    <3>2. Step(c, "plan") => cl'[c].pc = "plan"
      BY <1>0, Steps DEF Pcs
    <3>3. cl[c].pc = "relink" => relink_subtree(c)
      BY DEF recreate_subtree
    <3> QED  BY <1>5, <3>1, <3>2, <3>3, IdleWorks
  <2> QED  BY <1>0, <1>1, <1>5, <2>1, <2>2, AsideStory, IdleWorks DEF Aside, Returned, Done
<1> QED  BY <1>2, <1>3, <1>4, <1>5

\* The steps of a restore that move nothing.
LEMMA StoryPlan ==
    ASSUME Fine, NEW c \in Clients, plan_restore(c) \/ RestoreUnlist(c)
    PROVE  Story'
<1>0. /\ Inv /\ Said(c) /\ cl[c] \in Works /\ Kinds(c) /\ mishaps' = {}
      /\ \A x \in Clients \ {c} : cl'[x] = cl[x]
  BY OthersAlone DEF Fine, Story, Inv, Typed, Shape, Clean
<1>1. UNCHANGED <<rec, disk, dirty, log, blob>> /\ cl[c].pc \in {"plan", "unlist"}
  BY DEF plan_restore, RestoreUnlist
<1>2. CASE plan_restore(c)
  <2>1. cl[c].pc = "plan" /\ row' = row
    BY <1>2 DEF plan_restore
  <2>2. \/ RestoreFails(c)
        \/ /\ cl'[c].pc = "rename" /\ cl'[c].op = cl[c].op /\ cl'[c].u = cl[c].u
           /\ cl'[c].e = cl[c].e
    BY <1>0, <1>2, PlanTo
  <2>3. CASE RestoreFails(c)
    <3>2. cl'[c].pc = "idle" \/ (cl'[c].pc = "commit" /\ ~cl'[c].ok)
      BY <1>0, <2>3, RestoreGivesUp
    <3>3. disk # 0
      <4>1. \/ Go(c, [cl[c] EXCEPT !.pc = "rename", !.seen = disk])
            \/ "dropped" \in mishaps'
            \/ row[cl[c].e].live /\ disk # 0
        BY <1>2 DEF plan_restore
      <4>2. Go(c, [cl[c] EXCEPT !.pc = "rename", !.seen = disk]) => cl'[c].pc = "rename"
        <5> DEFINE r == [cl[c] EXCEPT !.pc = "rename", !.seen = disk]
        <5>1. r.pc = "rename"
          BY <1>0 DEF Works
        <5>2. Go(c, r) => cl'[c].pc = "rename"
          <6> HIDE DEF r
          <6> QED  BY <1>0, <5>1, GoTo
        <5> QED  BY <5>2
      <4> QED  BY <1>0, <3>2, <4>1, <4>2
    <3>4. Handles(c)
      BY <1>1, <2>1, <3>2 DEF Handles
    <3> QED  BY <1>0, <1>1, <2>1, <3>2, <3>3, <3>4, AsideStory DEF Aside, Returned, Done
  <2>4. CASE /\ cl'[c].pc = "rename" /\ cl'[c].op = cl[c].op /\ cl'[c].u = cl[c].u
             /\ cl'[c].e = cl[c].e
    <3>1. Said(c)'
      BY <1>0, <1>1, <2>1, <2>4
      DEF Said, Moved, Linked, Alone, Aimed, Cleared, Between, Done, Retrashing, Restoring
    <3>2. Leaves(c) /\ Handles(c)
      BY <1>0, <1>1, <2>1, <2>4 DEF Leaves, Handles, Returned, Done
    <3> QED  BY <3>1, <3>2, LeavesStory
  <2> QED  BY <2>2, <2>3, <2>4
<1>3. CASE RestoreUnlist(c)
  <2>1. cl[c].pc = "unlist" /\ row' = [row EXCEPT ![cl[c].e] = NoRow]
    BY <1>3 DEF RestoreUnlist
  <2>2. \A e \in Entries : row'[e].live => row[e].live /\ row'[e].rec = row[e].rec
    BY <1>0, <2>1 DEF Inv, Typed, NoRow
  <2>3. ~attach_subtree(c)
    BY <2>1 DEF attach_subtree
  <2>4. \/ cl'[c] = Idle /\ cl[c].op = 0
        \/ /\ cl[c].op # 0 /\ cl'[c].pc = "commit" /\ cl'[c].ok
           /\ cl'[c].op = cl[c].op /\ cl'[c].u = cl[c].u
    BY <1>0, <1>3, <2>3, AttachTo
  <2>5. Handles(c)
    BY <1>1, <2>2, <2>4, IdleWorks DEF Handles
  <2>6. Leaves(c)
    BY <1>0, <1>1, <2>1, <2>4 DEF Leaves, Returned, Restoring, Done
  <2>7. Said(c)'
    <3>1. CASE cl'[c] = Idle
      BY <3>1, AsideSays, IdleWorks DEF Aside
    <3>2. CASE /\ cl[c].op # 0 /\ cl'[c].pc = "commit" /\ cl'[c].ok
               /\ cl'[c].op = cl[c].op /\ cl'[c].u = cl[c].u
      <4>1. log[cl[c].op].kind = "delete" /\ dirty
        BY <1>0, <2>1, <3>2 DEF Kinds, Said, Moved
      <4>2. ~Retrashing(c)' /\ dirty'
        BY <1>1, <3>2, <4>1 DEF Retrashing
      <4> QED  BY <3>2, <4>2 DEF Said, Moved, Linked, Alone, Aimed, Cleared, Between
    <3> QED  BY <2>4, <3>1, <3>2
  <2> QED  BY <2>5, <2>6, <2>7, LeavesStory
<1> QED  BY <1>2, <1>3

\* Removing and pruning.
LEMMA StoryPrune ==
    ASSUME Fine, NEW c \in Clients,
           \/ RemoveRow(c) \/ RemoveBlob(c) \/ PruneWalk(c) \/ PruneBlob(c) \/ PruneRow(c)
           \/ sweep_orphan_blobs(c)
    PROVE  Story'
<1>0. Inv /\ \A x \in Clients \ {c} : cl'[x] = cl[x]
  BY OthersAlone DEF Fine
<1>1. UNCHANGED <<rec, disk, dirty, log>>
  BY DEF RemoveRow, RemoveBlob, PruneWalk, PruneBlob, PruneRow, sweep_orphan_blobs
<1>2. /\ cl'[c].pc \in {"idle", "rmblob", "pruneblob", "prunerow", "sweep"}
      /\ cl[c].pc \in {"idle", "rmblob", "pruneblob", "prunerow", "sweep"}
  BY <1>0, PruneTo
<1>3. \A e \in Entries : blob'[e] = blob[e] \/ blob'[e] = 0
  BY <1>0 DEF RemoveRow, RemoveBlob, PruneWalk, PruneBlob, PruneRow, sweep_orphan_blobs, Inv, Typed
<1>4. \A e \in Entries : row'[e].live => row[e].live /\ row'[e].rec = row[e].rec
  <2>1. row' = row \/ \E x : row' = [row EXCEPT ![x] = NoRow]
    BY DEF RemoveRow, RemoveBlob, PruneWalk, PruneBlob, PruneRow, sweep_orphan_blobs
  <2>2. ASSUME NEW x, row' = [row EXCEPT ![x] = NoRow]
        PROVE  \A e \in Entries : row'[e] = IF e = x THEN NoRow ELSE row[e]
    BY <1>0, <2>2 DEF Inv, Typed
  <2>3. ~NoRow.live
    BY DEF NoRow
  <2> QED  BY <2>1, <2>2, <2>3
<1>5. Handles(c)
  BY <1>2, <1>3, <1>4 DEF Handles
<1> QED  BY <1>0, <1>1, <1>2, <1>5, AsideStory DEF Aside, Returned, Done

\* A coordinated revert begins, looks, and gives up.
LEMMA StoryRevert ==
    ASSUME Fine, NEW c \in Clients, revert_start(c) \/ decide_deleted(c) \/ revert_abort(c)
    PROVE  Story'
<1>0. Inv /\ Kinds(c) /\ \A x \in Clients \ {c} : cl'[x] = cl[x]
  BY OthersAlone DEF Fine, Shape
<1>1. /\ UNCHANGED <<rec, disk, dirty, log, blob, row>>
      /\ cl[c].pc \in {"idle", "entries", "abort"}
  BY DEF revert_start, decide_deleted, revert_abort, Begin
<1>2. CASE decide_deleted(c) /\ ~RestoreFails(c)
  <2>1. /\ cl'[c].pc = "plan" /\ cl'[c].op = cl[c].op /\ cl'[c].u = cl[c].u
        /\ cl'[c].e \in Live /\ row[cl'[c].e].rec = cl[c].u
    BY <1>0, <1>2, DecideTo
  <2>2. cl[c].op # 0
    BY <1>0, <1>2 DEF decide_deleted, Kinds, Reverting
  <2>3. Said(c)'
    BY <2>1, <2>2 DEF Said, Moved, Linked, Alone, Aimed, Cleared, Between, Done
  <2>4. Leaves(c) /\ Handles(c)
    BY <1>0, <1>1, <2>1 DEF Leaves, Handles, Returned, Done, Live
  <2> QED  BY <2>3, <2>4, LeavesStory
<1>3. CASE ~(decide_deleted(c) /\ ~RestoreFails(c))
  <2>1. \/ cl'[c].pc \in {"idle", "entries", "retrash"}
        \/ cl'[c].pc = "commit" /\ ~cl'[c].ok
    <3>1. CASE revert_start(c)
      BY <1>0, <3>1, StartTo
    <3>2. CASE revert_abort(c)
      BY <1>0, <3>2, GoTo, IdleWorks DEF revert_abort
    <3>3. CASE RestoreFails(c)
      BY <1>0, <3>3, RestoreGivesUp
    <3> QED  BY <1>3, <3>1, <3>2, <3>3
  <2>2. Aside(c)' /\ Handles(c)
    BY <1>1, <2>1 DEF Aside, Handles
  <2> QED  BY <1>0, <1>1, <2>2, AsideStory DEF Returned, Done
<1> QED  BY <1>2, <1>3

\* A metarecord goes again: the file at the path is its file.
LEMMA StoryRetrash == ASSUME Fine, NEW c \in Clients, retrash(c) PROVE Story'
<1>0. Inv /\ Kinds(c) /\ \A x \in Clients \ {c} : cl'[x] = cl[x]
  BY OthersAlone DEF Fine, Shape
<1>1. UNCHANGED <<rec, disk, dirty, log, blob, row>> /\ cl[c].pc = "retrash"
  BY DEF retrash
<1>2. /\ cl'[c].op = cl[c].op /\ cl'[c].u = cl[c].u
      /\ \/ /\ cl'[c].pc = "move" /\ cl'[c].seen = disk
            /\ rec[cl[c].u] = "at" /\ disk # 0
         \/ /\ cl'[c].pc = "commit" /\ cl'[c].ok
            /\ rec[cl[c].u] # "at" \/ disk = 0
  BY <1>0, RetrashTo
<1>3. cl[c].op # 0 /\ log[cl[c].op].kind = "create" /\ cl[c].u \in Recs
  BY <1>0, <1>1, OneReverts DEF Kinds, Reverting
<1>4. Leaves(c) /\ Handles(c)
  BY <1>0, <1>1, <1>2 DEF Leaves, Handles, Returned, Done
<1>5. ~Restoring(c)'
  BY <1>1, <1>2, <1>3 DEF Restoring
<1>6. CASE cl'[c].pc = "commit"
  <2>1. rec'[cl'[c].u] # "at" \/ disk' = 0
    BY <1>1, <1>2, <1>6
  <2> QED  BY <1>4, <1>5, <1>6, <2>1, LeavesStory
           DEF Said, Moved, Linked, Alone, Aimed, Cleared, Between
<1>7. CASE cl'[c].pc = "move"
  <2>1. cl'[c].seen = 1 => cl'[c].u = 1
    <3> SUFFICES ASSUME disk = 1 PROVE cl[c].u = 1
      BY <1>2, <1>7
    <3>1. rec[cl[c].u] = "at" /\ 1 \in Recs
      BY <1>2, <1>7, TrashBounds DEF Recs
    <3>2. CASE rec[1] = "at"
      BY <1>3, <3>1, <3>2 DEF Fine, Shape, Single
    <3>3. ASSUME NEW x \in Clients, Between(x, 1) PROVE cl[c].u = 1
      BY <1>3, <3>1, <3>3 DEF Fine, Story, Said, Alone
    <3>4. ASSUME NEW x \in Clients, Returned(x, 1) PROVE FALSE
      <4>1. cl[x].op # 0 /\ log[cl[x].op].kind = "delete"
        BY <3>4 DEF Returned, Restoring
      <4>2. x = c
        BY <1>3, <4>1, OneReverts
      <4> QED  BY <1>3, <4>1, <4>2
    <3> QED  BY <3>2, <3>3, <3>4 DEF Fine, Story, First
  <2> QED  BY <1>2, <1>3, <1>4, <1>5, <1>7, <2>1, LeavesStory
           DEF Said, Moved, Linked, Alone, Aimed, Cleared, Between, Done
<1> QED  BY <1>2, <1>6, <1>7

\* An operation a step logs says that its metarecord had the path, if it took it.
LEMMA SnappedMore ==
    ASSUME Inv, Snapped, NEW o \in Ops, log' = Append(log, o), o.kind = "delete" => o.was = "at"
    PROVE  Snapped'
<1>1. log \in Seq(Ops)
  BY DEF Inv, Typed
<1>2. /\ Len(log) \in Nat /\ DOMAIN log = 1..Len(log) /\ DOMAIN log' = 1..(Len(log) + 1)
      /\ log'[Len(log) + 1] = o
      /\ \A i \in 1..Len(log) : log'[i] = log[i]
  BY <1>1
<1> QED  BY <1>2 DEF Snapped

\* A commit that writes nothing.
Unwritten(c) == revert_commit(c) /\ UNCHANGED <<rec, log>>

\* It had been left out: one that had its bytes back would have been refused.
LEMMA StoryUnwritten == ASSUME Fine, NEW c \in Clients, Unwritten(c) PROVE Story'
<1>0. Inv /\ mishaps' = {} /\ \A x \in Clients \ {c} : cl'[x] = cl[x]
  BY OthersAlone DEF Fine, Clean, Unwritten
<1>1. UNCHANGED <<rec, disk, dirty, log, blob, row>> /\ cl[c].pc = "commit" /\ revert_commit(c)
  BY DEF Unwritten, revert_commit
<1>2. cl[c].op # 0
  BY <1>0, <1>1 DEF Inv, Stage, Reverting
<1>3. cl'[c].pc \in {"idle", "abort"}
  <2>1. Go(c, Idle) \/ Step(c, "abort")
    BY <1>1 DEF revert_commit
  <2> QED  BY <1>0, <2>1, GoTo, Steps, IdleWorks DEF Pcs
<1>4. Handles(c) /\ Aside(c)'
  BY <1>1, <1>3 DEF Handles, Aside
<1>5. ~Returned(c, 1)
  <2> SUFFICES ASSUME Returned(c, 1) PROVE FALSE
    OBVIOUS
  <2>1. cl[c].ok /\ log[cl[c].op].kind = "delete" /\ cl[c].u = 1
    BY <1>1 DEF Returned, Restoring, Done
  <2>2. lock = cl[c].op /\ cl[c].op \in DOMAIN log /\ log[cl[c].op].u = 1 /\ log[cl[c].op] \in Ops
    BY <1>2, <2>1, OneReverts
  <2>3. CASE Invertible(cl[c].op)
    <3>1. revert_apply(cl[c].op)
      BY <1>1, <1>2, <2>1, <2>2, <2>3 DEF revert_commit
    <3>2. log' = Append(log, Create(1, cl[c].op))
      BY <2>1, <2>2, <3>1 DEF revert_apply
    <3>3. Len(Append(log, Create(1, cl[c].op))) = Len(log) + 1 /\ Len(log) \in Nat
      BY <1>0 DEF Inv, Typed
    <3> QED  BY <1>1, <3>2, <3>3
  <2>4. CASE ~Invertible(cl[c].op)
    <3>1. "refused" \in mishaps'
      BY <1>1, <2>1, <2>2, <2>4 DEF revert_commit
    <3> QED  BY <1>0, <3>1
  <2> QED  BY <2>3, <2>4
<1> QED  BY <1>0, <1>1, <1>2, <1>4, <1>5, AsideStory

\* A trashing by hand takes the metarecord: it is the one at the path, and its
\* bytes are still to go.
LEMMA StoryDelete == ASSUME Fine, NEW c \in Clients, trash_delete_endpoint(c) PROVE Story'
<1>0. /\ Inv /\ Said(c) /\ cl[c] \in Works /\ mishaps' = {} /\ Single
      /\ rec \in [Recs -> {"none", "at", "orphan"}]
      /\ \A x \in Clients \ {c} : cl'[x] = cl[x]
  BY OthersAlone DEF Fine, Story, Inv, Typed, Shape, Clean
<1>1. UNCHANGED <<disk, dirty, blob, row>> /\ cl[c].pc = "delete"
  BY DEF trash_delete_endpoint
<1>2. CASE lock # 0 \/ rec[cl[c].u] = "none"
  <2>1. cl'[c] = Idle /\ UNCHANGED <<rec, log>>
    BY <1>0, <1>2, GoTo DEF trash_delete_endpoint
  <2>2. Handles(c) /\ Aside(c)'
    BY <1>1, <2>1, IdleWorks DEF Handles, Aside
  <2> QED  BY <1>0, <1>1, <2>1, <2>2, AsideStory DEF Returned, Done
<1>3. CASE ~(lock # 0 \/ rec[cl[c].u] = "none")
  <2>0. PICK u : u = cl[c].u
    OBVIOUS
  <2>1. /\ rec' = [rec EXCEPT ![u] = "none"] /\ log' = Append(log, Delete(u, TRUE, 0))
        /\ mishaps' = mishaps \cup Taken(u) /\ Step(c, "move") /\ lock = 0 /\ rec[u] # "none"
    BY <1>3, <2>0 DEF trash_delete_endpoint
  <2>2. Displaced(u) = {} /\ rec[u] # "orphan"
    BY <1>0, <2>1 DEF Taken
  <2>3. u \in Recs
    BY <1>0, <1>1, <2>0, TrashBounds DEF Inv, Stage, Works, Recs
  <2>4. rec[u] = "at" /\ (\A v \in Recs : rec'[v] # "at") /\ \A v \in Recs : v # u => rec'[v] = rec[v]
    BY <1>0, <2>1, <2>2, <2>3 DEF Single
  <2>5. \A x \in Clients : cl[x].op = 0
    BY <2>1, NoneReverts
  <2>6. /\ cl'[c].pc = "move" /\ cl'[c].op = 0 /\ cl'[c].u = u /\ cl'[c].seen = cl[c].seen
    BY <1>0, <2>0, <2>1, <2>5, Steps DEF Pcs
  <2>7. Tells(Clients \ {c})
    BY <1>0, <1>1, <2>2, <2>4, <2>5 DEF Tells, Returned, Restoring
  <2>8. Snapped'
    <3>1. Delete(u, TRUE, 0) \in Ops
      BY <1>0, <2>3, LoggedOps
    <3>2. Delete(u, TRUE, 0).was = "at"
      BY <2>4 DEF Delete
    <3> QED  BY <1>0, <2>1, <3>1, <3>2, SnappedMore DEF Fine, Story
  <2>9. Paired'
    BY <2>3, <2>4, <2>6 DEF Paired, Between
  <2>10. First'
    <3> SUFFICES ASSUME disk = 1 PROVE \E x \in Clients : Between(x, 1)'
      BY <1>1 DEF First
    <3>1. \A x \in Clients : ~Returned(x, 1)
      BY <2>5 DEF Returned, Restoring
    <3>2. CASE rec[1] = "at"
      <4>1. u = 1
        BY <1>0, <2>3, <2>4, <3>2, TrashBounds DEF Single, Recs
      <4> QED  BY <2>6, <4>1 DEF Between
    <3>3. ASSUME NEW x \in Clients, Between(x, 1) PROVE Between(x, 1)'
      BY <1>0, <1>1, <3>3 DEF Between
    <3> QED  BY <3>1, <3>2, <3>3 DEF Fine, Story, First
  <2>11. Blobs'
    <3>1. Handles(c)
      BY <1>1, <2>6 DEF Handles
    <3> QED  BY <1>0, <3>1, BlobsKeep DEF Fine, Story
  <2>12. Said(c)'
    <3>1. Aimed(c)'
      <4>1. \A x \in Clients : ~Returned(x, 1)
        BY <2>5 DEF Returned, Restoring
      <4>2. cl[c].seen = 1 /\ u # 0 => u = 1
        BY <1>0, <1>1, <2>0, <4>1 DEF Said, Aimed
      <4> QED  BY <2>6, <4>2 DEF Aimed
    <3> QED  BY <2>4, <2>6, <3>1 DEF Said, Moved, Linked, Alone, Cleared, Done, Restoring, Retrashing
  <2> QED  BY <2>7, <2>8, <2>9, <2>10, <2>11, <2>12, OthersStory DEF Story
<1> QED  BY <1>2, <1>3

\* The bytes go to the trash: the first file's with its metarecord.
LEMMA StoryMove == ASSUME Fine, NEW c \in Clients, TrashMove(c) PROVE Story'
<1>0. /\ Inv /\ Said(c) /\ cl[c] \in Works /\ mishaps' = {}
      /\ \A x \in Clients \ {c} : cl'[x] = cl[x]
  BY OthersAlone DEF Fine, Story, Inv, Typed, Clean
<1>1. UNCHANGED <<row, rec, log>> /\ cl[c].pc = "move"
  BY DEF TrashMove
<1>2. CASE disk = 0
  <2>1. TrashFails(c) /\ UNCHANGED <<disk, blob, dirty>>
    BY <1>2 DEF TrashMove
  <2>2. Handles(c) /\ Aside(c)'
    BY <1>0, <1>1, <2>1, TrashGivesUp DEF Handles, Aside
  <2> QED  BY <1>0, <1>1, <1>2, <2>1, <2>2, AsideStory DEF Returned, Done
<1>3. CASE disk # 0
  <2>0. PICK m : m = made.entry + 1
    OBVIOUS
  <2>1. /\ blob' = [blob EXCEPT ![m] = disk] /\ disk' = 0 /\ dirty'
        /\ disk = cl[c].seen /\ cl[c].u # 0
    BY <1>0, <1>3, <2>0 DEF TrashMove
  <2>2. cl'[c].pc = "row" /\ cl'[c].op = cl[c].op /\ cl'[c].u = cl[c].u /\ cl'[c].e = m
    BY <1>0, <1>3, <2>0, MoveTo
  <2>3. disk = 1 => cl[c].u = 1
    BY <1>0, <1>1, <2>1 DEF Said, Aimed
  <2>4. Tells(Clients \ {c})
    BY <1>0, <1>1, <2>1 DEF Tells, Returned, Done
  <2>5. Snapped' /\ First'
    BY <1>1, <2>1 DEF Fine, Story, Snapped, First
  <2>6. Blobs'
    <3>1. m \in Entries /\ made.entry \in Nat /\ ~row[m].live
      <4>1. m \in Entries /\ made.entry \in Nat
        BY <1>0, <1>1, <2>0, EntryLeft, EntriesMade DEF Ahead
      <4>2. m > made.entry
        BY <2>0, <4>1
      <4> QED  BY <1>0, <4>1, <4>2 DEF Inv, RowsApart
    <3>2. \A x \in Clients : cl[x].e # m
      <4> SUFFICES ASSUME NEW x \in Clients PROVE cl[x].e # m
        OBVIOUS
      <4>1. cl[x].e \in Nat /\ cl[x].e <= made.entry
        BY <1>0 DEF Inv, Typed, Works, Placed
      <4> QED  BY <2>0, <3>1, <4>1
    <3>3. \A e \in Entries : blob'[e] = IF e = m THEN disk ELSE blob[e]
      BY <1>0, <2>1 DEF Inv, Typed
    <3>4. ASSUME NEW e \in Entries, blob'[e] = 1
          PROVE  /\ row'[e].live => row'[e].rec = 1
                 /\ \A x \in Clients :
                       cl'[x].e = e /\ cl'[x].pc \in {"row", "recreate", "relink", "plan", "rename"}
                          => cl'[x].u = 1
      <4>1. CASE e = m
        BY <1>0, <1>1, <2>2, <2>3, <3>1, <3>2, <3>3, <3>4, <4>1
      <4>2. CASE e # m
        BY <1>0, <1>1, <2>2, <3>3, <3>4, <4>2 DEF Fine, Story, Blobs
      <4> QED  BY <4>1, <4>2
    <3> QED  BY <3>4 DEF Blobs
  <2>7. Said(c)'
    BY <2>1, <2>2 DEF Said, Moved, Linked, Alone, Aimed, Cleared, Between, Done
  <2> QED  BY <2>1, <2>4, <2>5, <2>6, <2>7, OthersStory DEF Story
<1> QED  BY <1>2, <1>3

\* A metarecord takes the path nobody has, its bytes on their way.
LEMMA StoryLink ==
    ASSUME Fine, NEW c \in Clients, recreate_subtree(c) \/ relink_subtree(c), rec' # rec
    PROVE  Story'
<1>0. /\ Inv /\ cl[c] \in Works /\ mishaps' = {} /\ Kinds(c)
      /\ rec \in [Recs -> {"none", "at", "orphan"}]
      /\ \A x \in Clients \ {c} : cl'[x] = cl[x]
  BY OthersAlone DEF Fine, Inv, Typed, Shape, Clean
<1>1. PICK u : u = cl[c].u
  OBVIOUS
<1>2. UNCHANGED <<disk, dirty, blob, row>> /\ cl[c].pc \in {"recreate", "relink"} /\ cl[c].op = 0
  BY <1>0 DEF recreate_subtree, relink_subtree, Kinds
<1>3. /\ rec' = [rec EXCEPT ![u] = "at"] /\ AtPath = 0
      /\ mishaps' = mishaps \cup Retaken(u)
      /\ log' = log \/ log' = Append(log, Create(u, 0))
      /\ Step(c, "relink") \/ Step(c, "plan")
  BY <1>1 DEF recreate_subtree, relink_subtree
<1>4. lock = 0 /\ u \in Recs
  <2>1. CASE recreate_subtree(c)
    <3>1. cl[c].cap /\ lock = 0
      BY <2>1 DEF recreate_subtree
    <3> QED  BY <1>0, <1>1, <3>1, TrashBounds DEF Inv, Stage, Works, Recs
  <2>2. CASE relink_subtree(c)
    <3>1. u # 0 /\ lock = 0
      BY <1>1, <2>2 DEF relink_subtree
    <3> QED  BY <1>0, <1>1, <3>1, TrashBounds DEF Works, Recs
  <2> QED  BY <2>1, <2>2
<1>5. (\A v \in Recs : rec[v] # "at") /\ rec'[u] = "at" /\ \A v \in Recs : v # u => rec'[v] = rec[v]
  BY <1>0, <1>3, <1>4, AtPathIs
<1>6. \A x \in Clients : cl[x].op = 0
  BY <1>4, NoneReverts
<1>7. /\ cl'[c].pc \in {"relink", "plan"} /\ cl'[c].op = 0 /\ cl'[c].u = u /\ cl'[c].e = cl[c].e
  BY <1>0, <1>1, <1>2, <1>3, Steps DEF Pcs
<1>8. Tells(Clients \ {c})
  BY <1>0, <1>2, <1>3, <1>5, <1>6 DEF Tells
<1>9. Snapped'
  <2>1. Create(u, 0) \in Ops
    BY <1>0, <1>4, LoggedOps
  <2>2. Create(u, 0).kind # "delete"
    BY DEF Create
  <2>3. CASE log' = log
    BY <2>3 DEF Fine, Story, Snapped
  <2>4. CASE log' = Append(log, Create(u, 0))
    BY <1>0, <2>1, <2>2, <2>4, SnappedMore DEF Fine, Story
  <2> QED  BY <1>3, <2>3, <2>4
<1>10. Paired'
  BY <1>4, <1>5, <1>7 DEF Paired
<1>11. First'
  <2> SUFFICES ASSUME disk = 1 PROVE \E x \in Clients : Between(x, 1)'
    BY <1>2 DEF First
  <2>1. \A x \in Clients : ~Returned(x, 1)
    BY <1>6 DEF Returned, Restoring
  <2>2. PICK x \in Clients : Between(x, 1)
    BY <1>5, <2>1, TrashBounds DEF Fine, Story, First, Recs
  <2> QED  BY <1>0, <1>2, <2>2 DEF Between
<1>12. Blobs'
  <2>1. Handles(c)
    BY <1>1, <1>2, <1>7 DEF Handles
  <2> QED  BY <1>0, <2>1, BlobsKeep DEF Fine, Story
<1>13. Said(c)'
  BY <1>5, <1>7 DEF Said, Moved, Linked, Alone, Aimed, Cleared, Between, Done, Restoring, Retrashing
<1> QED  BY <1>8, <1>9, <1>10, <1>11, <1>12, <1>13, OthersStory DEF Story

\* The bytes come back: the first file's for its metarecord.
LEMMA StoryRename == ASSUME Fine, NEW c \in Clients, RestoreRename(c) PROVE Story'
<1>0. /\ Inv /\ Said(c) /\ Kinds(c) /\ mishaps' = {}
      /\ \A x \in Clients \ {c} : cl'[x] = cl[x]
  BY OthersAlone DEF Fine, Story, Shape, Clean
<1>1. PICK e : e = cl[c].e
  OBVIOUS
<1>2. UNCHANGED <<row, rec, log>> /\ cl[c].pc = "rename"
  BY DEF RestoreRename
<1>3. /\ disk' = blob[e] /\ blob' = [blob EXCEPT ![e] = 0] /\ dirty' /\ Step(c, "unlist")
      /\ mishaps' = mishaps \cup Crossed(cl[c].u)
  BY <1>0, <1>1 DEF RestoreRename
<1>4. cl'[c].pc = "unlist" /\ cl'[c].op = cl[c].op /\ cl'[c].u = cl[c].u
  BY <1>0, <1>3, Steps DEF Pcs
<1>5. e \in Entries
  BY <1>0, <1>1, <1>2, InHand DEF Holding
<1>6. disk' = 1 => cl[c].u = 1
  BY <1>1, <1>2, <1>3, <1>5 DEF Fine, Story, Blobs
<1>7. Tells(Clients \ {c})
  BY <1>0, <1>2, <1>3, <1>6 DEF Tells, Returned, Done
<1>8. Snapped'
  BY <1>2 DEF Fine, Story, Snapped
<1>9. First'
  <2> SUFFICES ASSUME disk' = 1, rec[1] # "at" PROVE Returned(c, 1)'
    BY <1>2 DEF First
  <2>1. cl[c].u = 1 /\ cl[c].op # 0
    BY <1>0, <1>2, <1>6 DEF Said, Linked
  <2>2. log[cl[c].op].kind = "delete"
    BY <1>0, <1>2, <2>1 DEF Kinds
  <2> QED  BY <1>2, <1>4, <2>1, <2>2 DEF Returned, Restoring
<1>10. Blobs'
  <2>1. \A x \in Entries : blob'[x] = blob[x] \/ blob'[x] = 0
    BY <1>0, <1>3 DEF Inv, Typed
  <2>2. Handles(c)
    BY <1>2, <1>4, <2>1 DEF Handles
  <2> QED  BY <1>0, <2>2, BlobsKeep DEF Fine, Story
<1>11. Said(c)'
  BY <1>3, <1>4 DEF Said, Moved, Linked, Alone, Aimed, Cleared, Between, Done
<1> QED  BY <1>3, <1>7, <1>8, <1>9, <1>10, <1>11, OthersStory DEF Story

\* A revert without a file action has nothing to write, for a creation taken
\* back so is no trashing's, and there is no other deletion.
LEMMA StoryAtOnce == ASSUME Fine, NEW c \in Clients, RevertAtOnce(c) PROVE Story'
<1>0. /\ Inv /\ Clean /\ Clean' /\ cl[c].pc = "idle" /\ log \in Seq(Ops)
      /\ \A x \in Clients \ {c} : cl'[x] = cl[x]
  BY OthersAlone DEF Fine, RevertAtOnce, Begin, Inv, Typed
<1>1. PICK i \in DOMAIN log : ~trash_coupled(i) /\ revert_apply(i) /\ Begin(c, Idle)
  BY DEF RevertAtOnce
<1>2. log[i] \in Ops /\ log[i].kind = "create" /\ i \in Nat /\ Len(log) \in Nat /\ i <= Len(log)
  <2>1. log[i] \in Ops /\ i \in Nat /\ Len(log) \in Nat /\ i <= Len(log)
    BY <1>0
  <2>2. log[i].kind # "delete"
    BY <1>0, <1>1 DEF Clean
  <2> QED  BY <2>1, <2>2 DEF Ops
<1>3. UNCHANGED <<rec, log>>
  <2> SUFFICES ASSUME ~UNCHANGED <<rec, log>> PROVE FALSE
    OBVIOUS
  <2>1. log' = Append(log, Delete(log[i].u, FALSE, i))
    BY <1>1, <1>2 DEF revert_apply
  <2>2. /\ Delete(log[i].u, FALSE, i) \in Ops /\ Delete(log[i].u, FALSE, i).kind = "delete"
        /\ Delete(log[i].u, FALSE, i).by = i /\ ~Delete(log[i].u, FALSE, i).trash
    <3>1. log[i].u \in Recs
      BY <1>2 DEF Ops
    <3> QED  BY <1>0, <1>2, <3>1, LoggedOps DEF Delete
  <2>3. PICK n, o : n = Len(log) + 1 /\ o = Delete(log[i].u, FALSE, i)
    OBVIOUS
  <2>4. n \in DOMAIN log' /\ log'[n] = o
    <3>1. o \in Ops /\ log' = Append(log, o)
      BY <2>1, <2>2, <2>3
    <3>2. Len(log') = Len(log) + 1 /\ DOMAIN log' = 1..(Len(log) + 1) /\ log'[Len(log) + 1] = o
      BY <1>0, <3>1
    <3> QED  BY <1>2, <2>3, <3>2
  <2>5. LogOK
    BY <1>0, <1>1, ApplyWrites DEF RevertAtOnce
  <2>6. ~trash_coupled(n)'
    BY <1>0, <1>1, <1>2, <2>1, <2>2, <2>3, <2>5, NotCoupled
  <2> QED  BY <1>0, <2>2, <2>3, <2>4, <2>6 DEF Clean
<1>4. UNCHANGED <<disk, dirty, blob, row>>
  BY DEF RevertAtOnce
<1>5. cl'[c] = Idle
  BY <1>0, <1>1, GoTo
<1>6. Handles(c) /\ Aside(c)'
  BY <1>4, <1>5, IdleWorks DEF Handles, Aside
<1> QED  BY <1>0, <1>3, <1>4, <1>6, AsideStory DEF Returned, Done

\* A commit writes what the revert did to the file.
LEMMA StoryCommit == ASSUME Fine, NEW c \in Clients, revert_commit(c) PROVE Story'
<1>0. /\ Inv /\ Said(c) /\ Single /\ mishaps' = {}
      /\ rec \in [Recs -> {"none", "at", "orphan"}]
      /\ \A x \in Clients \ {c} : cl'[x] = cl[x]
  BY OthersAlone DEF Fine, Story, Inv, Typed, Shape, Clean
<1>1. UNCHANGED <<disk, dirty, blob, row>> /\ cl[c].pc = "commit"
  BY DEF revert_commit
<1>2. CASE UNCHANGED <<rec, log>>
  BY <1>2, StoryUnwritten DEF Unwritten
<1>3. CASE ~UNCHANGED <<rec, log>>
  <2>0. PICK i, u : i = cl[c].op /\ u = cl[c].u
    OBVIOUS
  <2>1. /\ lock = i /\ Invertible(i) /\ revert_apply(i) /\ cl'[c] = Idle
        /\ ~(lock # 0 /\ ~cl[c].ok)
    BY <1>0, <1>3, <2>0, GoTo DEF revert_commit
  <2>2. i # 0 /\ cl[c].ok
    BY <1>0, <1>1, <2>0, <2>1 DEF Inv, Stage, Reverting
  <2>3. /\ i \in DOMAIN log /\ log[i].u = u /\ u \in Recs /\ log[i] \in Ops /\ i \in Nat
        /\ \A x \in Clients \ {c} : cl[x].op = 0
    BY <1>0, <2>0, <2>2, OneReverts DEF Inv, Typed
  <2>4. Said(c)' /\ Handles(c)
    BY <1>1, <2>1, AsideSays, IdleWorks DEF Aside, Handles
  <2>5. Blobs'
    BY <1>0, <2>4, BlobsKeep DEF Fine, Story
  <2>6. \A x \in Clients : Between(x, 1) => Between(x, 1)'
    BY <1>0, <1>1 DEF Between
  <2>7. CASE log[i].kind = "delete"
    <3>1. log[i].was = "at"
      BY <2>3, <2>7 DEF Fine, Story, Snapped
    <3>2. /\ rec' = [rec EXCEPT ![u] = "at"] /\ log' = Append(log, Create(u, i))
          /\ mishaps' = mishaps \cup Retaken(u) /\ AtPath = 0
      BY <2>1, <2>3, <2>7, <3>1 DEF revert_apply, Invertible
    <3>3. /\ \A v \in Recs : rec[v] # "at"
          /\ rec'[u] = "at" /\ \A v \in Recs : v # u => rec'[v] = rec[v]
      BY <1>0, <2>3, <3>2, AtPathIs
    <3>4. Tells(Clients \ {c})
      BY <1>0, <1>1, <2>3, <3>2, <3>3 DEF Tells
    <3>5. Snapped'
      <4>1. Create(u, i) \in Ops /\ Create(u, i).kind # "delete"
        BY <1>0, <2>3, LoggedOps DEF Create
      <4> QED  BY <1>0, <3>2, <4>1, SnappedMore DEF Fine, Story
    <3>6. dirty'
      BY <1>0, <1>1, <2>0, <2>2, <2>7 DEF Said, Moved, Restoring, Done
    <3>7. First'
      <4> SUFFICES ASSUME disk = 1 PROVE rec'[1] = "at" \/ \E x \in Clients : Between(x, 1)'
        BY <1>1 DEF First
      <4>1. ASSUME NEW x \in Clients, Returned(x, 1) PROVE u = 1
        BY <2>0, <2>3, <4>1 DEF Returned, Restoring
      <4>2. 1 \in Recs
        BY TrashBounds DEF Recs
      <4> QED  BY <2>6, <3>3, <4>1, <4>2 DEF Fine, Story, First
    <3> QED  BY <2>4, <2>5, <3>4, <3>5, <3>6, <3>7, OthersStory DEF Story
  <2>8. CASE log[i].kind # "delete"
    <3>1. /\ rec' = [rec EXCEPT ![u] = "none"] /\ log' = Append(log, Delete(u, FALSE, i))
          /\ mishaps' = mishaps \cup Taken(u) /\ rec[u] # "none"
      BY <1>3, <2>1, <2>3, <2>8 DEF revert_apply
    <3>2. Displaced(u) = {} /\ rec[u] # "orphan" /\ log[i].kind = "create"
      BY <1>0, <2>3, <2>8, <3>1 DEF Taken, Ops
    <3>3. rec[u] = "at" /\ (\A v \in Recs : rec'[v] # "at") /\ \A v \in Recs : v # u => rec'[v] = rec[v]
      BY <1>0, <2>3, <3>1, <3>2 DEF Single
    <3>4. Retrashing(c) /\ Done(c) /\ ~Returned(c, 1)
      BY <1>1, <2>0, <2>2, <3>2 DEF Retrashing, Done, Returned, Restoring
    <3>5. Tells(Clients \ {c})
      BY <1>0, <1>1, <2>3, <3>2, <3>3, <3>4 DEF Tells
    <3>6. Snapped'
      <4>1. Delete(u, FALSE, i) \in Ops /\ Delete(u, FALSE, i).was = "at"
        BY <1>0, <2>3, <3>3, LoggedOps DEF Delete
      <4> QED  BY <1>0, <3>1, <4>1, SnappedMore DEF Fine, Story
    <3>7. dirty' \/ Paired'
      <4>1. dirty \/ disk = 0
        BY <1>0, <2>0, <3>3, <3>4 DEF Said, Moved
      <4> QED  BY <1>1, <3>3, <4>1 DEF Paired
    <3>8. First'
      <4> SUFFICES ASSUME disk = 1 PROVE \E x \in Clients : Between(x, 1)'
        BY <1>1 DEF First
      <4>1. u # 1
        BY <1>0, <2>0, <3>3, <3>4 DEF Said, Cleared
      <4>2. rec[1] # "at"
        BY <1>0, <2>3, <3>3, <4>1, TrashBounds DEF Single, Recs
      <4>3. \A x \in Clients : ~Returned(x, 1)
        BY <2>3, <3>4 DEF Returned, Restoring
      <4> QED  BY <2>6, <4>2, <4>3 DEF Fine, Story, First
    <3> QED  BY <2>4, <2>5, <3>5, <3>6, <3>7, <3>8, OthersStory DEF Story
  <2> QED  BY <2>7, <2>8
<1> QED  BY <1>2, <1>3

\* The watcher sets right what it was told of, and the user's own files are
\* others.
LEMMA StoryAround == ASSUME Fine, Watch \/ UserCreates \/ UserRemoves PROVE Story'
<1>0. /\ Inv /\ Single /\ mishaps' = {} /\ made.file \in Nat /\ made.file # 0
      /\ rec \in [Recs -> {"none", "at", "orphan"}]
  BY DEF Fine, Story, Inv, Typed, Shape, Clean
<1>1. UNCHANGED <<blob, row, cl>>
  BY DEF Watch, UserCreates, UserRemoves
<1>2. Blobs'
  BY <1>1 DEF Fine, Story, Blobs
<1>3. CASE UserCreates \/ UserRemoves
  <2>1. dirty' /\ UNCHANGED <<rec, log>> /\ disk' # 1
    BY <1>0, <1>3 DEF UserCreates, UserRemoves
  <2>2. Tells(Clients)
    BY <1>1, <2>1 DEF Tells
  <2>3. Snapped' /\ First'
    BY <2>1 DEF Fine, Story, Snapped, First
  <2> QED  BY <1>2, <2>1, <2>2, <2>3, OthersStory DEF Story
<1>4. CASE Watch
  <2>1. lock = 0 /\ UNCHANGED disk
    BY <1>4 DEF Watch
  <2>2. \A x \in Clients : cl[x].op = 0
    BY <2>1, NoneReverts
  <2>3. \A x \in Clients : ~Returned(x, 1)
    BY <2>2 DEF Returned, Restoring
  <2>4. \A x \in Clients, u \in Recs : Between(x, u) => Between(x, u)'
    BY <1>1 DEF Between
  <2>5. 1 \in Recs
    BY TrashBounds DEF Recs
  <2>6. disk = 1 => rec[1] = "at" \/ \E x \in Clients : Between(x, 1)
    BY <2>3 DEF Fine, Story, First
  <2>7. CASE disk # 0 /\ AtPath = 0
    <3>1. PICK n : n = made.rec + 1
      OBVIOUS
    <3>2. /\ rec' = [rec EXCEPT ![n] = "at"] /\ log' = Append(log, Create(n, 0))
          /\ mishaps' = mishaps \cup Retaken(n) /\ made.rec < MaxRecs
      BY <1>4, <2>7, <3>1 DEF Watch
    <3>3. n \in Recs
      BY <1>0, <3>1, <3>2, TrashBounds DEF Inv, Typed, Recs
    <3>4. (\A v \in Recs : rec[v] # "at") /\ rec'[n] = "at" /\ \A v \in Recs : v # n => rec'[v] = rec[v]
      BY <1>0, <2>7, <3>2, <3>3, AtPathIs
    <3>5. Tells(Clients)
      BY <1>0, <1>1, <2>1, <2>2, <3>2, <3>4 DEF Tells
    <3>6. Snapped'
      <4>1. Create(n, 0) \in Ops /\ Create(n, 0).kind # "delete"
        BY <1>0, <3>3, LoggedOps DEF Create
      <4> QED  BY <1>0, <3>2, <4>1, SnappedMore DEF Fine, Story
    <3>7. Paired'
      BY <2>1, <2>7, <3>3, <3>4 DEF Paired
    <3>8. First'
      BY <2>1, <2>4, <2>5, <2>6, <3>4 DEF First
    <3> QED  BY <1>2, <3>5, <3>6, <3>7, <3>8, OthersStory DEF Story
  <2>8. CASE disk = 0 /\ AtPath # 0
    <3>1. PICK u : u = AtPath
      OBVIOUS
    <3>2. /\ rec' = [rec EXCEPT ![u] = "orphan"] /\ log' = log
          /\ mishaps' = mishaps \cup Displaced(u)
      BY <1>4, <2>8, <3>1 DEF Watch
    <3>3. u \in Recs /\ rec[u] = "at"
      BY <2>8, <3>1, AtPathIs
    <3>4. (\A v \in Recs : rec'[v] # "at") /\ \A v \in Recs : v # u => rec'[v] = rec[v]
      BY <1>0, <3>2, <3>3 DEF Single
    <3>5. Tells(Clients)
      BY <1>0, <1>1, <2>1, <2>2, <3>2, <3>4 DEF Tells
    <3>6. Snapped' /\ Paired' /\ First'
      BY <2>1, <2>8, <3>2, <3>4 DEF Fine, Story, Snapped, Paired, First
    <3> QED  BY <1>2, <3>5, <3>6, OthersStory DEF Story
  <2>9. CASE (disk = 0) = (AtPath = 0)
    <3>1. UNCHANGED <<rec, log>>
      BY <1>4, <2>9 DEF Watch
    <3>2. Tells(Clients)
      BY <1>1, <2>1, <2>2, <3>1 DEF Tells
    <3>3. Snapped'
      BY <3>1 DEF Fine, Story, Snapped
    <3>4. Paired'
      <4>1. disk = 0 => \A v \in Recs : rec[v] # "at"
        BY <2>9, AtPathIs
      <4>2. disk # 0 => \E v \in Recs : rec[v] = "at"
        BY <2>9, AtPathIs
      <4> QED  BY <2>1, <3>1, <4>1, <4>2 DEF Paired
    <3>5. First'
      BY <2>1, <2>4, <2>5, <2>6, <3>1 DEF First
    <3> QED  BY <1>2, <3>2, <3>3, <3>4, <3>5, OthersStory DEF Story
  <2> QED  BY <2>7, <2>8, <2>9
<1> QED  BY <1>3, <1>4

\* A history without mishaps goes on as it must.
LEMMA StoryKeeps == ASSUME Inv, Inv', StoryInv, [Next]_vars PROVE StoryInv'
<1>1. Shape'
  BY ShapeKeeps DEF StoryInv
<1>2. ASSUME UNCHANGED vars, Clean' PROVE Story'
  <2>1. Clean
    BY <1>2 DEF vars, Clean, trash_coupled
  <2>2. Story
    BY <2>1 DEF StoryInv
  <2> QED  BY <1>2, <2>2
           DEF vars, Story, Snapped, Paired, First, Blobs, Said, Moved, Linked, Alone, Aimed, Cleared,
               Between, Returned, Restoring, Retrashing, Done
<1>3. ASSUME Next, Clean' PROVE Story'
  <2>1. Clean
    BY <1>3, CleanBefore
  <2>2. Fine
    BY <1>3, <2>1, LogStays DEF Fine, StoryInv
  <2>3. ~Fault
    <3> SUFFICES ASSUME Fault PROVE FALSE
      OBVIOUS
    <3>1. made' = [made EXCEPT !.fault = made.fault + 1]
      BY DEF Fault
    <3>2. made'.fault = 1
      BY <2>1, <3>1 DEF Inv, Typed, Clean
    <3> QED  BY <1>3, <3>2 DEF Clean
  <2>4. ~AbortAsked /\ \A c \in Clients : ~Crash(c)
    BY <2>3 DEF AbortAsked, Crash
  <2>5. ASSUME NEW c \in Clients, recreate_subtree(c) \/ relink_subtree(c) PROVE Story'
    <3>1. CASE rec' # rec
      BY <2>2, <2>5, <3>1, StoryLink
    <3>2. CASE rec' = rec
      <4>1. CASE relink_subtree(c)
        BY <2>2, <3>2, <4>1, StoryAsIs DEF relink_subtree
      <4>2. CASE recreate_subtree(c)
        <5>1. \/ log' = log
              \/ cl[c].cap /\ rec[cl[c].u] = "none" /\ rec' = [rec EXCEPT ![cl[c].u] = "at"]
          BY <4>2 DEF recreate_subtree
        <5>2. cl[c].cap => cl[c].u \in Recs
          <6>1. cl[c] \in Works /\ Stage(c)
            BY DEF Inv, Typed
          <6>2. cl[c].u \in 0..MaxRecs /\ (cl[c].cap => cl[c].u # 0)
            BY <6>1 DEF Works, Stage
          <6> QED  BY <6>2, TrashBounds DEF Recs
        <5>3. log' = log
          BY <3>2, <5>1, <5>2 DEF Inv, Typed
        <5> QED  BY <2>2, <3>2, <4>2, <5>3, StoryAsIs
      <4> QED  BY <2>5, <4>1, <4>2
    <3> QED  BY <3>1, <3>2
  <2> QED  BY <1>3, <2>2, <2>4, <2>5, StoryCapture, StoryDelete, StoryMove, StoryRow, StoryLook,
              StoryPlan, StoryRename, StoryPrune, StoryAtOnce, StoryRevert, StoryRetrash,
              StoryCommit, StoryAround DEF Next
<1> QED  BY <1>1, <1>2, <1>3 DEF StoryInv

\* At the start the first metarecord has the path and the first file is there.
LEMMA StoryInit == ASSUME Init PROVE StoryInv
<1>1. 1 \in Recs /\ 0 \notin Recs
  BY TrashBounds DEF Recs
<1>2. \A u \in Recs : rec[u] = "at" <=> u = 1
  BY DEF Init
<1>3. \A c \in Clients : cl[c].pc = "idle" /\ cl[c].op = 0 /\ cl[c].e = 0
  BY DEF Init, Idle
<1>4. Shape
  <2>1. made.file # 0
    BY DEF Init
  <2> QED  BY <1>2, <1>3, <2>1 DEF Shape, Single, Kinds, Reverting
<1>5. Snapped /\ Paired /\ First
  BY <1>1, <1>2 DEF Init, Snapped, Paired, First
<1>6. Blobs
  BY <1>3 DEF Init, Blobs
<1>7. \A c \in Clients : Said(c)
  BY <1>3 DEF Said, Moved, Linked, Alone, Aimed, Cleared, Between, Done, Restoring, Retrashing
<1> QED  BY <1>4, <1>5, <1>6, <1>7 DEF StoryInv, Story

\* Once all is at rest, the path is paired and the first file has the first
\* metarecord.
LEMMA StorySays == ASSUME Inv, StoryInv PROVE SameRecordBack
<1> SUFFICES ASSUME AtRest, made.fault = 0, mishaps = {},
                    \A i \in DOMAIN log : log[i].kind = "delete" => trash_coupled(i)
             PROVE  /\ Cardinality({u \in Recs : rec[u] = "at"}) = IF disk = 0 THEN 0 ELSE 1
                    /\ disk = 1 => AtPath = 1
  BY DEF SameRecordBack
<1>1. Story /\ Single /\ \A c \in Clients : cl[c].pc = "idle"
  BY DEF StoryInv, Shape, Clean, AtRest
<1>2. Paired
  BY <1>1 DEF Story, AtRest
<1>3. \A c \in Clients, u \in Recs : ~Between(c, u) /\ ~Returned(c, u)
  BY <1>1 DEF Between, Returned, Done
<1>4. \A u \in Recs : rec[u] = "at" => disk # 0
  BY <1>1, <1>2 DEF Paired
<1>5. disk # 0 => AtPath # 0
  BY <1>2, <1>3, AtPathIs DEF Paired
<1>6. CASE disk = 0
  <2>1. {u \in Recs : rec[u] = "at"} = {}
    BY <1>4, <1>6
  <2> QED  BY <1>6, <2>1, FS_EmptySet
<1>7. CASE disk # 0
  <2>1. AtPath \in Recs /\ rec[AtPath] = "at"
    BY <1>5, <1>7, AtPathIs
  <2>2. {u \in Recs : rec[u] = "at"} = {AtPath}
    BY <1>1, <2>1 DEF Single
  <2>3. Cardinality({u \in Recs : rec[u] = "at"}) = 1
    BY <2>2, FS_Singleton
  <2>4. disk = 1 => AtPath = 1
    <3>1. 1 \in Recs
      BY TrashBounds DEF Recs
    <3>2. disk = 1 => rec[1] = "at"
      BY <1>1, <1>3, <3>1 DEF Story, First
    <3> QED  BY <1>1, <2>1, <3>1, <3>2 DEF Single
  <2> QED  BY <1>7, <2>3, <2>4
<1> QED  BY <1>6, <1>7

\* Both ways back end the same way (doc "Trash, undo and redo"): once every
\* client is done and the watcher has caught up, the path has one metarecord
\* when it has a file and none when it has not, and the first file has its first
\* metarecord, however often it went to the trash and came back - unless a
\* mishap occurred, or a metarecord was taken by the revert of a creation that
\* no trashing is behind.
THEOREM SameRecordComesBack == Spec => []SameRecordBack
<1>1. Init => StoryInv
  BY StoryInit
<1>2. Inv /\ Inv' /\ StoryInv /\ [Next]_vars => StoryInv'
  BY StoryKeeps
<1>3. Inv /\ StoryInv => SameRecordBack
  BY StorySays
<1> QED  BY <1>1, <1>2, <1>3, TrashInvariant, PTL DEF Spec
=============================================================================
