--------------------------- MODULE RevertSession ---------------------------
(***************************************************************************)
(* What a coordinated revert promises, with every request atomic (doc      *)
(* "Filesystem coordination").  A session is entered with the operations   *)
(* it will revert, and is left by one commit that reverts some of them or  *)
(* by an abort that reverts none; between the two the log does not move.   *)
(* RepoLocks shows that the daemon's handlers, which race for the store    *)
(* and for the revert lock, implement this.                                *)
(*                                                                         *)
(* An entry of the log stands for one committed write; log[i] is the set   *)
(* of operations write i reverts, empty for an ordinary write.             *)
(***************************************************************************)
EXTENDS Naturals

CONSTANT NoSession  \* the value of session outside a coordinated revert

VARIABLES
    log,      \* the writes still in the log, by id
    head,     \* the id of the newest write
    session   \* NoSession, or the operations the revert in progress fixed

vars == <<log, head, session>>

\* The log after a write that reverts K, retention having dropped T.
Appended(l, h, K, T) ==
    [i \in (DOMAIN l \ T) \cup {h + 1} |-> IF i = h + 1 THEN K ELSE l[i]]

Restricted(l, S) == [i \in S |-> l[i]]

Init ==
    /\ log = [i \in {1} |-> {}]
    /\ head = 1
    /\ session = NoSession

\* An ordinary write, an uncoordinated revert or a flush: only outside a session.
Write ==
    /\ session = NoSession
    /\ \E K, T \in SUBSET DOMAIN log : log' = Appended(log, head, K, T)
    /\ head' = head + 1
    /\ UNCHANGED session

\* A prune: only outside a session.
Prune ==
    /\ session = NoSession
    /\ \E S \in SUBSET DOMAIN log : log' = Restricted(log, S)
    /\ UNCHANGED <<head, session>>

Start ==
    /\ session = NoSession
    /\ session' \in SUBSET DOMAIN log
    /\ UNCHANGED <<log, head>>

\* The one write of a session: it reverts only what the session fixed.
Commit ==
    /\ session # NoSession
    /\ \E K \in SUBSET session, T \in SUBSET DOMAIN log :
          log' = Appended(log, head, K, T)
    /\ head' = head + 1
    /\ session' = NoSession

\* An abort, a commit that applies nothing, or the repository let go.
Leave ==
    /\ session # NoSession
    /\ session' = NoSession
    /\ UNCHANGED <<log, head>>

Next == Write \/ Prune \/ Start \/ Commit \/ Leave

Spec == Init /\ [][Next]_vars
=============================================================================
