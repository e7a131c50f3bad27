------------------------------ MODULE UndoRedo ------------------------------
(***************************************************************************)
(* Undo and redo (core/src/undo.rs, the narrowing of revert.rs).  A client *)
(* reads the end of the log, picks what an undo or a redo takes back and a *)
(* label it was written in, and asks the daemon to revert that label,      *)
(* narrowed to the changes (undos) still standing.  Between the reading    *)
(* and the revert other clients and the watcher may write.                 *)
(***************************************************************************)
EXTENDS OpLog

CONSTANTS
    Window, WideWindow  \* how many operations the client reads, then rereads

ASSUME WindowAssumption == Window \in Nat /\ WideWindow \in Nat

VARIABLE asked  \* what the client asked for, and the label it picked

undoVars == <<db, view, writer, asked>>

Nothing == [what |-> "nothing", label |-> 0, op |-> 0]

-----------------------------------------------------------------------------
(* The daemon's narrowing *)

\* standing, and window's undone set: whether an operation stands among those
\* of S.  A revert is newer than what it reverts.
Standing(d, S) ==
    LET st[i \in OpIds] == \A j \in S : j > i /\ d.ops[j].reverts = i => ~st[j]
    IN  st

\* Mutant: a redo takes back any revert that stands.
NarrowReverts(d, S, what) ==
    LET st == Standing(d, DOMAIN d.ops)
    IN  {i \in S :
            /\ st[i]
            /\ \/ /\ what = "undo"
                  /\ d.ops[i].reverts = 0
                  /\ ~d.ops[i].watcher
               \/ what = "redo" /\ d.ops[i].reverts # 0}

\* narrow: the changes of S an undo takes, or the undos a redo takes.
Narrow(d, S, what) ==
    LET st == Standing(d, DOMAIN d.ops)
    IN  {i \in S :
            /\ st[i]
            /\ \/ /\ what = "undo"
                  /\ d.ops[i].reverts = 0
                  /\ ~d.ops[i].watcher
               \/ /\ what = "redo"
                  /\ d.ops[i].reverts # 0
                  /\ d.ops[i].reverts \in DOMAIN d.ops =>
                        d.ops[d.ops[i].reverts].reverts = 0}

\* label_ops
LabelOps(d, l) == {i \in DOMAIN d.ops : l \in d.labels[d.ops[i].label]}

-----------------------------------------------------------------------------
(* The client's selection *)

\* The newest n operations.
Newest(d, n) == {i \in DOMAIN d.ops : Cardinality({j \in DOMAIN d.ops : j > i}) < n}

First(d) == CHOOSE i \in DOMAIN d.ops : \A j \in DOMAIN d.ops : i <= j

Latest(S) == {i \in S : \A j \in S : j <= i}

IsDaemons(o) == o.watcher \/ (o.reverts = 0 /\ o.type = "file")

\* Mutant: what is undone already is offered again.
UndoPickUndone(d, n) ==
    Latest({i \in Newest(d, n) \ {First(d)} :
               ~IsDaemons(d.ops[i]) /\ d.ops[i].reverts = 0})

\* undo: the newest change of the user's that stands, short of the first
\* operation of the log.
UndoPick(d, n) ==
    LET S  == Newest(d, n)
        st == Standing(d, S)
    IN  Latest({i \in S \ {First(d)} :
                   ~IsDaemons(d.ops[i]) /\ d.ops[i].reverts = 0 /\ st[i]})

\* redo: the newest undo that stands, unless a change that stands is newer.
RedoPick(d, n) ==
    LET S       == Newest(d, n)
        st      == Standing(d, S)
        reverts == {i \in S : d.ops[i].reverts # 0}
        seen    == {i \in S : ~IsDaemons(d.ops[i]) /\ st[i] /\ d.ops[i].reverts \notin reverts}
    IN  Latest(seen) \cap reverts

\* The wider window is read when the first finds nothing and came back full.
Pick(d, what) ==
    LET In(n) == IF what = "undo" THEN UndoPick(d, n) ELSE RedoPick(d, n)
    IN  IF In(Window) = {} /\ Cardinality(Newest(d, Window)) >= Window
        THEN In(WideWindow)
        ELSE In(Window)

-----------------------------------------------------------------------------

\* GET /log and the choice of a label the operation was written in.
Select(what, i, l) ==
    /\ asked = Nothing
    /\ Closed
    /\ i \in Pick(db, what)
    /\ l \in db.labels[db.ops[i].label]
    /\ asked' = [what |-> what, label |-> l, op |-> i]
    /\ UNCHANGED vars

Target == Narrow(db, LabelOps(db, asked.label), asked.what)

\* The revert of the label, in the writer just opened.  Both clients go through
\* a coordinated revert, file operations included.
TakeBack ==
    /\ asked # Nothing
    /\ asked.label \in DOMAIN db.labels
    /\ BeginRevert(Target, "coordinated")
    /\ UNCHANGED asked

\* The label is gone (404), or holds nothing to take back any more.
TakeNothing ==
    /\ asked # Nothing
    /\ Closed
    /\ asked.label \in DOMAIN db.labels => Target = {}
    /\ asked' = Nothing
    /\ UNCHANGED vars

\* The answer to the revert, or its failure, reaches the client.
EndRevert ==
    /\ Commit \/ Abort
    /\ asked' = IF writer.mode = "revert" THEN Nothing ELSE asked

UndoInit == Init /\ asked = Nothing

\* Clients write in labels of their own, the watcher in its; an undo opens a
\* new label.
UndoNext ==
    \/ \E what \in {"undo", "redo"}, i \in OpIds, l \in Labels : Select(what, i, l)
    \/ TakeBack
    \/ TakeNothing
    \/ EndRevert
    \/ /\ \/ BeginNew
          \/ \E l \in Labels : BeginInLabel(l)
          \/ BeginWatcher
          \/ Edit
          \/ \E i \in OpIds : RevertNewest(i)
          \/ \E i \in OpIds : Prune(i)
       /\ UNCHANGED asked

UndoSpec == UndoInit /\ [][UndoNext]_undoVars

-----------------------------------------------------------------------------
(* Properties *)

\* What the client picks for an undo, having read only the end of the log, is a
\* change the daemon's narrowing takes: a window that cut a revert off would
\* have the two disagree on what stands (undo::window, revert::standing).
SelectionAgrees ==
    \A n \in {Window, WideWindow} :
        UndoPick(db, n) \subseteq Narrow(db, DOMAIN db.ops, "undo")

\* A redo only ever takes back undos, never a redo or a change, so that it
\* cannot undo; of a revert whose target was pruned that can no longer be told,
\* and it is taken for an undo (revert::narrow).
RedoNeverUndoes ==
    [][TakeBack /\ asked.what = "redo" =>
          \A i \in Target : db.ops[i].reverts \in DOMAIN db.ops =>
              db.past[i].role = "undo"]_undoVars
=============================================================================
