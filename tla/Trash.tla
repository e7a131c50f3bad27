------------------------------- MODULE Trash -------------------------------
(***************************************************************************)
(* The trash-bin.  Trashing, restoring, pruning and the reverts of a       *)
(* trashing are run by the clients (the command line, the graphical        *)
(* client), each a sequence of separate effects: a request to the daemon,  *)
(* a rename on the disk, a transaction of the trash's index.  Clients, the *)
(* user's own file operations, the watcher and crashes come between any    *)
(* two of them.                                                            *)
(*                                                                         *)
(* One path of the repository is followed.  A file is a number, given when *)
(* it is created; an entry of the trash and a metarecord likewise.         *)
(* Directories (merging, descendants, ancestors), the metarecords' other   *)
(* fields and inbound references are left out; so are the reverts of a     *)
(* file the watcher saw go, and a log cut by a prune.                      *)
(***************************************************************************)
EXTENDS Naturals, Sequences, FiniteSets, FiniteSetsExt

CONSTANTS
    Clients,
    MaxCmds,    \* commands the clients may start
    MaxFiles,   \* files ever created at the path
    MaxRecs,    \* metarecords ever made
    MaxFaults   \* crashes of a client, and aborts asked by another

\* There is room for the metarecord the path starts with.
ASSUME TrashBounds == {MaxCmds, MaxFiles, MaxRecs, MaxFaults} \subseteq Nat /\ MaxRecs # 0

Files == 1..MaxFiles

Recs == 1..MaxRecs

Entries == 1..MaxCmds  \* a command makes one entry at most

VARIABLES
    disk,     \* the file at the path, 0 when there is none
    blob,     \* entry -> the file its blob holds, 0 when there is none
    row,      \* entry -> its row in the trash's index
    rec,      \* metarecord -> "none", "at" the path, or "orphan"
    log,      \* the creations and deletions of metarecords, oldest first
    lock,     \* the operation the coordinated revert in progress fixed, or 0
    dirty,    \* the watcher has an event of the path to apply
    cl,       \* client -> what it is doing
    made,     \* how many files, entries, metarecords, commands and faults
    mishaps   \* the windows the code leaves open that were met so far, by name

vars == <<disk, blob, row, rec, log, lock, dirty, cl, made, mishaps>>

NoRow == [live |-> FALSE, rec |-> 0, cap |-> FALSE]

Idle == [pc |-> "idle", op |-> 0, u |-> 0, cap |-> FALSE, e |-> 0, sel |-> {},
         all |-> FALSE, seen |-> 0, ok |-> FALSE]

Live == {e \in Entries : row[e].live}

\* The metarecord whose mfr_path is the path, 0 when none is.
AtPath == IF \E u \in Recs : rec[u] = "at" THEN CHOOSE u \in Recs : rec[u] = "at" ELSE 0

\* An operation of the log: by is the operation it reverts, was what the
\* snapshot of a deletion says of the metarecord's mfr_path.
Create(u, by) == [kind |-> "create", u |-> u, was |-> "none", trash |-> FALSE, by |-> by]

Delete(u, trash, by) == [kind |-> "delete", u |-> u, was |-> rec[u], trash |-> trash, by |-> by]

\* The chain of reverts an operation ends leads back to a trashing.
trash_coupled(i) ==
    LET coupled[j \in 0..i] ==
            /\ j # 0
            /\ (log[j].kind = "delete" /\ log[j].trash) \/ coupled[log[j].by]
    IN  coupled[i]

Init ==
    /\ disk = 1
    /\ blob = [e \in Entries |-> 0]
    /\ row = [e \in Entries |-> NoRow]
    /\ rec = [u \in Recs |-> IF u = 1 THEN "at" ELSE "none"]
    /\ log = <<>>
    /\ lock = 0
    /\ dirty = FALSE
    /\ cl = [c \in Clients |-> Idle]
    /\ made = [file |-> 1, entry |-> 0, rec |-> 1, cmd |-> 0, fault |-> 0]
    /\ mishaps = {}

-----------------------------------------------------------------------------
(* What a client does next.                                                *)

Go(c, r) == cl' = [cl EXCEPT ![c] = r]

Step(c, pc) == Go(c, [cl[c] EXCEPT !.pc = pc])

Begin(c, r) ==
    /\ cl[c].pc = "idle"
    /\ made.cmd < MaxCmds
    /\ made' = [made EXCEPT !.cmd = @ + 1]
    /\ Go(c, r)

\* An error ends the command.  In a coordinated revert, a restoration that
\* fails leaves the operation out, and any other error aborts the revert.
RestoreFails(c) ==
    IF cl[c].op = 0 THEN Go(c, Idle) ELSE Go(c, [cl[c] EXCEPT !.pc = "commit", !.ok = FALSE])

TrashFails(c) == IF cl[c].op = 0 THEN Go(c, Idle) ELSE Step(c, "abort")

\* The mishap of a step that takes u away while a restore has put it back
\* and not yet moved its bytes.
Displaced(u) ==
    IF \E c \in Clients : cl[c].u = u /\ cl[c].pc \in {"relink", "plan", "rename"}
    THEN {"displaced"} ELSE {}

\* Those of a deletion of u: an orphan it finds has no place to come back to.
Taken(u) == Displaced(u) \cup (IF rec[u] = "orphan" THEN {"orphaned"} ELSE {})

\* The mishap of a step that gives the path to u while a trashing has taken
\* another metarecord from it and not yet moved the bytes.
Retaken(u) ==
    IF \E c \in Clients : cl[c].pc = "move" /\ cl[c].u \notin {0, u} THEN {"retaken"} ELSE {}

\* The mishap of bytes that come back for u once a revert that takes u away
\* again has looked for them.
Crossed(u) ==
    IF \E c \in Clients : /\ cl[c].u = u /\ cl[c].pc \in {"row", "attach", "commit"}
                         /\ cl[c].op # 0 /\ log[cl[c].op].kind = "create"
    THEN {"crossed"} ELSE {}

-----------------------------------------------------------------------------
(* Trashing: capture the metarecord, delete it through the daemon, move    *)
(* the bytes, record the entry, attach the capture to it.                  *)

\* The command line refuses a path without a metarecord; the graphical
\* client then moves the bytes alone.  Looking the path up and reading what is
\* captured are several requests, taken as one step: a metarecord orphaned in
\* between, whose capture is then empty, is not modelled.
TrashCapture(c) ==
    /\ Begin(c, [Idle EXCEPT !.u = AtPath, !.seen = disk, !.pc = IF AtPath = 0 THEN "move" ELSE "delete"])
    /\ UNCHANGED <<disk, blob, row, rec, log, lock, dirty, mishaps>>

trash_delete_endpoint(c) ==
    /\ cl[c].pc = "delete"
    /\ IF lock # 0 \/ rec[cl[c].u] = "none"
       THEN Go(c, Idle) /\ UNCHANGED <<rec, log, mishaps>>
       ELSE /\ rec' = [rec EXCEPT ![cl[c].u] = "none"]
            /\ log' = Append(log, Delete(cl[c].u, TRUE, 0))
            /\ mishaps' = mishaps \cup Taken(cl[c].u)
            /\ Step(c, "move")
    /\ UNCHANGED <<disk, blob, row, lock, dirty, made>>

\* The blob is moved before the row is written.
TrashMove(c) ==
    /\ cl[c].pc = "move"
    /\ IF disk = 0
       THEN /\ TrashFails(c)
            /\ mishaps' = IF cl[c].u # 0 /\ rec[cl[c].u] = "none"
                          THEN mishaps \cup {"vanished"} ELSE mishaps
            /\ UNCHANGED <<disk, blob, dirty, made>>
       ELSE /\ blob' = [blob EXCEPT ![made.entry + 1] = disk]
            /\ disk' = 0
            /\ dirty' = TRUE
            /\ made' = [made EXCEPT !.entry = @ + 1]
            /\ Go(c, [cl[c] EXCEPT !.pc = "row", !.e = made.entry + 1, !.seen = 0])
            /\ mishaps' = mishaps \cup (IF disk # cl[c].seen THEN {"replaced"} ELSE {})
                                   \cup (IF cl[c].u = 0 THEN {"untracked"} ELSE {})
    /\ UNCHANGED <<row, rec, log, lock>>

TrashRow(c) ==
    /\ cl[c].pc = "row"
    /\ row' = [row EXCEPT ![cl[c].e] = [live |-> TRUE, rec |-> cl[c].u, cap |-> FALSE]]
    /\ IF cl[c].u = 0 THEN Go(c, Idle) ELSE Step(c, "attach")
    /\ UNCHANGED <<disk, blob, rec, log, lock, dirty, made, mishaps>>

attach_subtree(c) ==
    /\ cl[c].pc = "attach"
    /\ IF row[cl[c].e].live
       THEN /\ row' = [row EXCEPT ![cl[c].e].cap = TRUE]
            /\ IF cl[c].op = 0 THEN Go(c, Idle)
               ELSE Go(c, [cl[c] EXCEPT !.pc = "commit", !.ok = TRUE])
       ELSE TrashFails(c) /\ UNCHANGED row
    /\ UNCHANGED <<disk, blob, rec, log, lock, dirty, made, mishaps>>

-----------------------------------------------------------------------------
(* Restoring: check that the path is free, put the metarecord back, check  *)
(* again, move the bytes, drop the row.                                    *)

RestoreLook(c) ==
    /\ disk = 0
    /\ \E e \in Live :
          Begin(c, [Idle EXCEPT !.pc = "recreate", !.e = e, !.u = row[e].rec, !.cap = row[e].cap])
    /\ UNCHANGED <<disk, blob, row, rec, log, lock, dirty, mishaps>>

\* Mutant: a repository under a coordinated revert passes for a position taken.
RecreateIfOpen(c) ==
    /\ cl[c].pc = "recreate"
    /\ Step(c, "relink")
    /\ LET u == cl[c].u
           taken == rec[u] = "none" /\ AtPath # 0
       IN  /\ IF cl[c].cap /\ lock = 0 /\ rec[u] = "none" /\ AtPath = 0
              THEN /\ rec' = [rec EXCEPT ![u] = "at"]
                   /\ log' = Append(log, Create(u, 0))
                   /\ mishaps' = mishaps \cup Retaken(u)
              ELSE /\ mishaps' = mishaps \cup (IF ~cl[c].cap /\ u # 0 THEN {"unattached"} ELSE {})
                                         \cup (IF cl[c].cap /\ taken THEN {"refused"} ELSE {})
                   /\ UNCHANGED <<rec, log>>
    /\ UNCHANGED <<disk, blob, row, lock, dirty, made>>

\* A metarecord that exists is passed over; a position taken is not an
\* error; a repository under a coordinated revert is.
recreate_subtree(c) ==
    /\ cl[c].pc = "recreate"
    /\ LET u == cl[c].u IN
       IF ~cl[c].cap
       THEN Step(c, "relink") /\ UNCHANGED <<rec, log>>
            /\ mishaps' = IF u # 0 THEN mishaps \cup {"unattached"} ELSE mishaps
       ELSE IF lock # 0
       THEN Go(c, Idle) /\ UNCHANGED <<rec, log, mishaps>>
       ELSE /\ Step(c, "relink")
            /\ IF rec[u] = "none" /\ AtPath = 0
               THEN /\ rec' = [rec EXCEPT ![u] = "at"]
                    /\ log' = Append(log, Create(u, 0))
                    /\ mishaps' = mishaps \cup Retaken(u)
               ELSE /\ mishaps' = IF rec[u] = "none" THEN mishaps \cup {"refused"} ELSE mishaps
                    /\ UNCHANGED <<rec, log>>
    /\ UNCHANGED <<disk, blob, row, lock, dirty, made>>

\* Of the captured metarecord, or of the one the entry names.
relink_subtree(c) ==
    /\ cl[c].pc = "relink"
    /\ LET u == cl[c].u
           linked == u = 0 \/ rec[u] # "orphan"
       IN  IF ~linked /\ lock # 0
           THEN Go(c, Idle) /\ UNCHANGED <<rec, mishaps>>
           ELSE /\ Step(c, "plan")
                /\ IF linked THEN UNCHANGED <<rec, mishaps>>
                   ELSE IF AtPath # 0 THEN mishaps' = mishaps \cup {"unlinked"} /\ UNCHANGED rec
                   ELSE rec' = [rec EXCEPT ![u] = "at"] /\ mishaps' = mishaps \cup Retaken(u)
    /\ UNCHANGED <<disk, blob, row, log, lock, dirty, made>>

\* Mutant: the look the command began with is trusted.
PlanUnchecked(c) ==
    /\ cl[c].pc = "plan"
    /\ row[cl[c].e].live
    /\ Go(c, [cl[c] EXCEPT !.pc = "rename", !.seen = disk])
    /\ UNCHANGED <<disk, blob, row, rec, log, lock, dirty, made, mishaps>>

plan_restore(c) ==
    /\ cl[c].pc = "plan"
    /\ IF row[cl[c].e].live /\ disk = 0
       THEN Go(c, [cl[c] EXCEPT !.pc = "rename", !.seen = disk]) /\ UNCHANGED mishaps
       ELSE /\ RestoreFails(c)
            /\ mishaps' = IF row[cl[c].e].live THEN mishaps ELSE mishaps \cup {"dropped"}
    /\ UNCHANGED <<disk, blob, row, rec, log, lock, dirty, made>>

\* rename(2): what is at the path by now is replaced.
RestoreRename(c) ==
    /\ cl[c].pc = "rename"
    /\ IF blob[cl[c].e] = 0
       THEN /\ RestoreFails(c)
            /\ mishaps' = mishaps \cup {"dropped"}
            /\ UNCHANGED <<disk, blob, dirty>>
       ELSE /\ disk' = blob[cl[c].e]
            /\ blob' = [blob EXCEPT ![cl[c].e] = 0]
            /\ dirty' = TRUE
            /\ Step(c, "unlist")
            /\ mishaps' = mishaps \cup Crossed(cl[c].u)
    /\ UNCHANGED <<row, rec, log, lock, made>>

\* Mutant: the entry stays listed.
RestoreStaysListed(c) ==
    /\ cl[c].pc = "unlist"
    /\ IF cl[c].op = 0 THEN Go(c, Idle)
       ELSE Go(c, [cl[c] EXCEPT !.pc = "commit", !.ok = TRUE])
    /\ UNCHANGED <<disk, blob, row, rec, log, lock, dirty, made, mishaps>>

RestoreUnlist(c) ==
    /\ cl[c].pc = "unlist"
    /\ row' = [row EXCEPT ![cl[c].e] = NoRow]
    /\ IF cl[c].op = 0 THEN Go(c, Idle)
       ELSE Go(c, [cl[c] EXCEPT !.pc = "commit", !.ok = TRUE])
    /\ UNCHANGED <<disk, blob, rec, log, lock, dirty, made, mishaps>>

-----------------------------------------------------------------------------
(* Removing one entry: the row, then the blob.  Pruning: the blob, then    *)
(* the row, of each entry the walk of the index selected, oldest first.    *)

RemoveRow(c) ==
    /\ \E e \in Live :
          /\ Begin(c, [Idle EXCEPT !.pc = "rmblob", !.e = e])
          /\ row' = [row EXCEPT ![e] = NoRow]
    /\ UNCHANGED <<disk, blob, rec, log, lock, dirty, mishaps>>

RemoveBlob(c) ==
    /\ cl[c].pc = "rmblob"
    /\ blob' = [blob EXCEPT ![cl[c].e] = 0]
    /\ Go(c, Idle)
    /\ UNCHANGED <<disk, row, rec, log, lock, dirty, made, mishaps>>

\* Where a prune goes once S is left of its selection.
PruneNext(S, all) ==
    IF S # {} THEN [Idle EXCEPT !.pc = "pruneblob", !.e = Min(S), !.sel = S, !.all = all]
    ELSE IF all THEN [Idle EXCEPT !.pc = "sweep"]
    ELSE Idle

\* Everything, or the entries older than some instant.
PruneWalk(c) ==
    /\ \/ Begin(c, PruneNext(Live, TRUE))
       \/ \E e \in Live : Begin(c, PruneNext({x \in Live : x <= e}, FALSE))
    /\ UNCHANGED <<disk, blob, row, rec, log, lock, dirty, mishaps>>

PruneBlob(c) ==
    /\ cl[c].pc = "pruneblob"
    /\ blob' = [blob EXCEPT ![cl[c].e] = 0]
    /\ Step(c, "prunerow")
    /\ UNCHANGED <<disk, row, rec, log, lock, dirty, made, mishaps>>

PruneRow(c) ==
    /\ cl[c].pc = "prunerow"
    /\ row' = [row EXCEPT ![cl[c].e] = NoRow]
    /\ Go(c, PruneNext(cl[c].sel \ {cl[c].e}, cl[c].all))
    /\ UNCHANGED <<disk, blob, rec, log, lock, dirty, made, mishaps>>

\* Every blob left: those of the entries made since the walk too.
sweep_orphan_blobs(c) ==
    /\ cl[c].pc = "sweep"
    /\ blob' = [e \in Entries |-> 0]
    /\ mishaps' = IF \E e \in Entries : blob[e] # 0 THEN mishaps \cup {"swept"} ELSE mishaps
    /\ Go(c, Idle)
    /\ UNCHANGED <<disk, row, rec, log, lock, dirty, made>>

-----------------------------------------------------------------------------
(* Reverting one operation.  The daemon writes at once a revert that needs *)
(* no file action; one that does is coordinated: the lock, the action on   *)
(* the disk, then the write.                                               *)

\* The inverse of operation i can be written.
Invertible(i) ==
    log[i].kind = "delete" => /\ rec[log[i].u] = "none"
                              /\ log[i].was = "at" => AtPath = 0

\* A creation whose metarecord is gone already has nothing to take back.
revert_apply(i) ==
    LET u == log[i].u IN
    IF log[i].kind = "delete"
    THEN /\ rec' = [rec EXCEPT ![u] = log[i].was]
         /\ log' = Append(log, Create(u, i))
         /\ mishaps' = mishaps \cup (IF log[i].was = "at" THEN Retaken(u) ELSE {})
    ELSE IF rec[u] = "none" THEN UNCHANGED <<rec, log, mishaps>>
    ELSE /\ rec' = [rec EXCEPT ![u] = "none"]
         /\ log' = Append(log, Delete(u, FALSE, i))
         /\ mishaps' = mishaps \cup Taken(u)

RevertAtOnce(c) ==
    /\ lock = 0
    /\ \E i \in DOMAIN log :
          /\ ~trash_coupled(i)
          /\ Invertible(i)
          /\ revert_apply(i)
          /\ Begin(c, Idle)
    /\ UNCHANGED <<disk, blob, row, lock, dirty>>

revert_start(c) ==
    /\ lock = 0
    /\ \E i \in DOMAIN log :
          /\ trash_coupled(i)
          /\ lock' = i
          /\ Begin(c, [Idle EXCEPT !.op = i, !.u = log[i].u,
                        !.pc = IF log[i].kind = "delete" THEN "entries" ELSE "retrash"])
    /\ UNCHANGED <<disk, blob, row, rec, log, dirty, mishaps>>

\* A metarecord a trashing took comes back: the first entry that holds it.
decide_deleted(c) ==
    /\ cl[c].pc = "entries"
    /\ LET holding == {e \in Live : row[e].rec = cl[c].u} IN
       IF holding = {} THEN RestoreFails(c)
       ELSE Go(c, [cl[c] EXCEPT !.pc = "plan", !.e = Min(holding)])
    /\ UNCHANGED <<disk, blob, row, rec, log, lock, dirty, made, mishaps>>

\* Mutant: only the metadata goes forward.
RetrashNothing(c) ==
    /\ cl[c].pc = "retrash"
    /\ Go(c, [cl[c] EXCEPT !.pc = "commit", !.ok = TRUE])
    /\ UNCHANGED <<disk, blob, row, rec, log, lock, dirty, made, mishaps>>

\* It goes again: its file is sent back to the trash, if it is there.
retrash(c) ==
    /\ cl[c].pc = "retrash"
    /\ IF rec[cl[c].u] = "at" /\ disk # 0 THEN Go(c, [cl[c] EXCEPT !.pc = "move", !.seen = disk])
       ELSE Go(c, [cl[c] EXCEPT !.pc = "commit", !.ok = TRUE])
    /\ UNCHANGED <<disk, blob, row, rec, log, lock, dirty, made, mishaps>>

\* A commit that leaves the operation out writes nothing.  A refused one is
\* followed by an abort.
revert_commit(c) ==
    /\ cl[c].pc = "commit"
    /\ LET i == cl[c].op IN
       IF lock # 0 /\ ~cl[c].ok
       THEN lock' = 0 /\ Go(c, Idle) /\ UNCHANGED <<rec, log, mishaps>>
       ELSE IF lock = i /\ Invertible(i)
       THEN lock' = 0 /\ Go(c, Idle) /\ revert_apply(i)
       ELSE /\ Step(c, "abort")
            /\ mishaps' = IF lock = i THEN mishaps \cup {"refused"} ELSE mishaps
            /\ UNCHANGED <<rec, log, lock>>
    /\ UNCHANGED <<disk, blob, row, dirty, made>>

revert_abort(c) ==
    /\ cl[c].pc = "abort"
    /\ lock' = 0
    /\ Go(c, Idle)
    /\ UNCHANGED <<disk, blob, row, rec, log, dirty, made, mishaps>>

-----------------------------------------------------------------------------
(* Around the clients.                                                     *)

\* The watcher applies what it saw of the path, outside a coordinated
\* revert: a file nobody claims is tracked afresh, a metarecord whose file
\* is gone is orphaned.
Watch ==
    /\ dirty /\ lock = 0
    /\ dirty' = FALSE
    /\ \/ /\ disk # 0 /\ AtPath = 0 /\ made.rec < MaxRecs
          /\ made' = [made EXCEPT !.rec = @ + 1]
          /\ rec' = [rec EXCEPT ![made.rec + 1] = "at"]
          /\ log' = Append(log, Create(made.rec + 1, 0))
          /\ mishaps' = mishaps \cup Retaken(made.rec + 1)
       \/ /\ disk = 0 /\ AtPath # 0
          /\ rec' = [rec EXCEPT ![AtPath] = "orphan"]
          /\ mishaps' = mishaps \cup Displaced(AtPath)
          /\ UNCHANGED <<log, made>>
       \/ /\ (disk = 0) = (AtPath = 0)
          /\ UNCHANGED <<rec, log, made, mishaps>>
    /\ UNCHANGED <<disk, blob, row, lock, cl>>

UserCreates ==
    /\ disk = 0 /\ made.file < MaxFiles
    /\ disk' = made.file + 1
    /\ made' = [made EXCEPT !.file = @ + 1]
    /\ dirty' = TRUE
    /\ UNCHANGED <<blob, row, rec, log, lock, cl, mishaps>>

UserRemoves ==
    /\ disk # 0
    /\ disk' = 0
    /\ dirty' = TRUE
    /\ UNCHANGED <<blob, row, rec, log, lock, cl, made, mishaps>>

Fault == made.fault < MaxFaults /\ made' = [made EXCEPT !.fault = @ + 1]

\* A client dies where it is; the daemon does not notice.
Crash(c) ==
    /\ cl[c].pc # "idle"
    /\ Fault
    /\ Go(c, Idle)
    /\ UNCHANGED <<disk, blob, row, rec, log, lock, dirty, mishaps>>

\* The revert's lock belongs to nobody: anyone may ask to abort it.
AbortAsked ==
    /\ lock # 0
    /\ Fault
    /\ lock' = 0
    /\ UNCHANGED <<disk, blob, row, rec, log, dirty, cl, mishaps>>

Next ==
    \/ \E c \in Clients :
          \/ TrashCapture(c) \/ trash_delete_endpoint(c) \/ TrashMove(c) \/ TrashRow(c)
          \/ attach_subtree(c)
          \/ RestoreLook(c) \/ recreate_subtree(c) \/ relink_subtree(c) \/ plan_restore(c)
          \/ RestoreRename(c) \/ RestoreUnlist(c)
          \/ RemoveRow(c) \/ RemoveBlob(c)
          \/ PruneWalk(c) \/ PruneBlob(c) \/ PruneRow(c) \/ sweep_orphan_blobs(c)
          \/ RevertAtOnce(c) \/ revert_start(c) \/ decide_deleted(c) \/ retrash(c)
          \/ revert_commit(c) \/ revert_abort(c)
          \/ Crash(c)
    \/ Watch \/ UserCreates \/ UserRemoves \/ AbortAsked

Spec == Init /\ [][Next]_vars

-----------------------------------------------------------------------------
(* Properties.                                                             *)

Held(f) == disk = f \/ \E e \in Entries : blob[e] = f

\* Client c took the step.
By(c) == cl'[c] # cl[c]

\* A file's bytes leave the disk and the trash together only by the user's
\* own rm, by removing or pruning the entry that holds them, or through the
\* two windows the code leaves: the sweep of `prune --all` takes the blobs
\* trashed since its walk, and the rename of a restore replaces a file that
\* came to the path after the restore looked.  A file that was there when it
\* looked is never replaced (doc "What restoring does").
BytesLeaveByChoice ==
    [][\A f \in Files : Held(f) /\ ~Held(f)' =>
          \/ cl' = cl
          \/ \E c \in Clients : By(c) /\
                \/ cl[c].pc \in {"rmblob", "pruneblob"} /\ blob[cl[c].e] = f
                \/ cl[c].pc = "sweep"
                \/ cl[c].pc = "rename" /\ disk = f /\ cl[c].seen # f]_vars

Doing(e, pcs) == \E c \in Clients : cl[c].e = e /\ cl[c].pc \in pcs

\* Without a crash the index and the blobs agree: a blob is listed, or a
\* client is about to list or to destroy it; a listed entry has its blob, or
\* the client that took the blob is about to drop the row (trash_path: "a
\* row always implies its blob"), or a sweep met an entry newer than its walk.
IndexAgrees ==
    made.fault = 0 => \A e \in Entries :
        /\ blob[e] # 0 => row[e].live \/ Doing(e, {"row", "rmblob"})
        /\ row[e].live /\ blob[e] = 0 => Doing(e, {"unlist", "prunerow"}) \/ "swept" \in mishaps

\* The metarecord is in the repository, in the trash with its bytes, or in
\* the hands of a client.
Kept(u) ==
    \/ rec[u] # "none"
    \/ \E e \in Live : row[e].rec = u /\ row[e].cap /\ blob[e] # 0
    \/ \E c \in Clients :
          /\ cl[c].u = u
          /\ \/ cl[c].pc \in {"move", "row", "attach"}
             \/ cl[c].op # 0 /\ (cl[c].pc = "unlist" \/ (cl[c].pc = "commit" /\ cl[c].ok))

\* The last word of the log on u is a revert's that took it, and no file.
Untracked(u) ==
    LET last == Max({0} \cup {i \in DOMAIN log : log[i].u = u})
    IN  last # 0 /\ log[last].kind = "delete" /\ ~trash_coupled(last)

\* A metarecord dies with its bytes, never before (doc "Why the trash owns
\* the metarecord"): it leaves the repository, the trash and the clients'
\* hands only with the entry that holds its bytes, by a revert of its own
\* creation, by a crash, or through four windows the code leaves, each a
\* mishap: the file was gone when the trashing came to move it, putting the
\* metarecord back was refused while its bytes came back, the entry was
\* restored before its capture was attached, or the metarecord was taken
\* away between the two halves of a restore.
MetadataKept ==
    [][\A u \in Recs : Kept(u) /\ ~Kept(u)' =>
          \/ mishaps' \cap {"vanished", "refused", "unattached", "displaced"} # {}
          \/ made'.fault > 0
          \/ \E c \in Clients : By(c) /\
                \/ cl'[c].pc = "rmblob" /\ row[cl'[c].e].rec = u
                \/ cl[c].pc = "pruneblob" /\ row[cl[c].e].rec = u
                \/ cl[c].pc = "sweep"
                \/ cl[c].pc = "attach" /\ (row[cl[c].e].live => blob[cl[c].e] = 0)
                \/ cl[c].pc = "commit" /\ log[cl[c].op].kind = "create"
          \/ Untracked(u)']_vars

AtRest == dirty = FALSE /\ lock = 0 /\ \A c \in Clients : cl[c].pc = "idle"

\* Both ways back end the same way (doc "Trash, undo and redo"): "the same
\* metarecords at the same uuids, the bytes at the original path".  Once
\* every client is done and the watcher has caught up, the path has one
\* metarecord when it has a file and none when it has not, and the first file
\* has its first metarecord, however often it went to the trash and came back
\* - unless a mishap occurred, or a metarecord was taken by the revert of a
\* creation that no trashing is behind.
SameRecordBack ==
    AtRest /\ made.fault = 0 /\ mishaps = {}
    /\ (\A i \in DOMAIN log : log[i].kind = "delete" => trash_coupled(i))
    => /\ Cardinality({u \in Recs : rec[u] = "at"}) = IF disk = 0 THEN 0 ELSE 1
       /\ disk = 1 => AtPath = 1
=============================================================================
