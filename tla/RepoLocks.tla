----------------------------- MODULE RepoLocks -----------------------------
(***************************************************************************)
(* The store mutex and the coordinated-revert lock of one loaded           *)
(* repository (daemon/src/state.rs, routes/revert.rs, routes/history.rs,   *)
(* the entry of executor.rs).  Every request runs on a thread of its own:  *)
(* it may look at the revert lock, waits for the store, looks at the lock  *)
(* again with the store in hand, and commits.  Each of these is a step:    *)
(* between two of them another thread may run, or the repository may be    *)
(* let go, which drops the lock without the store.                         *)
(***************************************************************************)
EXTENDS Naturals

CONSTANTS
    Clients,  \* request threads, the executor and the tasks among them
    Routes,   \* the kinds of requests the threads make
    MaxOps,   \* bound on the number of writes
    NoLock    \* the revert lock when nobody holds it

Kinds == {"write", "background", "revert", "start", "commit", "abort",
          "flush", "prune", "label"}

ASSUME BoundAssumption == MaxOps \in Nat \ {0}

ASSUME ClientsAssumption == "free" \notin Clients

ASSUME RoutesAssumption == Routes \subseteq Kinds

ASSUME NoLockAssumption == \A S \in SUBSET (1..MaxOps) : NoLock # S

VARIABLES
    conn,        \* the thread holding RepoState::conn, or "free"
    revertLock,  \* RepoState::revert_lock: NoLock or RevertLock.ops
    log,         \* write id -> the operations it reverts
    head,        \* newest write
    labels,      \* labels opened by POST /labels
    lost,        \* RepoState::root_lost
    pc,          \* thread -> "idle", "entry", "wait", "held" or "open"
    kind,        \* thread -> what it was asked, "none" when idle
    locked       \* thread -> the operations its commit read from the lock

vars == <<conn, revertLock, log, head, labels, lost, pc, kind, locked>>

Ids == 1..MaxOps

\* The session a client is in: what the commit at work read, else the lock.
Session ==
    IF conn # "free" /\ locked[conn] # NoLock THEN locked[conn] ELSE revertLock

RS == INSTANCE RevertSession WITH NoSession <- NoLock, session <- Session

TypeOK ==
    /\ conn \in Clients \cup {"free"}
    /\ revertLock \in {NoLock} \cup SUBSET Ids
    /\ head \in Ids
    /\ DOMAIN log \subseteq 1..head
    /\ log \in [DOMAIN log -> SUBSET Ids]
    /\ labels \in 0..1
    /\ lost \in BOOLEAN
    /\ pc \in [Clients -> {"idle", "entry", "wait", "held", "open"}]
    /\ kind \in [Clients -> Kinds \cup {"none"}]
    /\ locked \in [Clients -> {NoLock} \cup SUBSET Ids]

\* is_revert_locked
RevertLocked == revertLock # NoLock

\* A repository just created: its first write is the root metarecord.
Init ==
    /\ conn = "free"
    /\ revertLock = NoLock
    /\ log = [i \in {1} |-> {}]
    /\ head = 1
    /\ labels = 0
    /\ lost = FALSE
    /\ pc = [c \in Clients |-> "idle"]
    /\ kind = [c \in Clients |-> "none"]
    /\ locked = [c \in Clients |-> NoLock]

-----------------------------------------------------------------------------
(* Reaching the store *)

\* A request arrives; a lost repository refuses every one (with_repo).
Call(c, k) ==
    /\ pc[c] = "idle"
    /\ ~lost
    /\ pc' = [pc EXCEPT ![c] = "entry"]
    /\ kind' = [kind EXCEPT ![c] = k]
    /\ UNCHANGED <<conn, revertLock, log, head, labels, lost, locked>>

\* Whether a request of kind k looks at the revert lock before it waits for
\* the store: ensure_writable in the routes, the first test of a flush.
LooksFirst(k) == k \in {"write", "revert", "prune", "label", "flush"}

\* Turned away at the door: 423, or a flush that leaves the buffer alone; a
\* flush also stops at a lost root.
Refuse(c) ==
    /\ pc[c] = "entry"
    /\ \/ LooksFirst(kind[c]) /\ RevertLocked
       \/ kind[c] = "flush" /\ lost
    /\ pc' = [pc EXCEPT ![c] = "idle"]
    /\ kind' = [kind EXCEPT ![c] = "none"]
    /\ UNCHANGED <<conn, revertLock, log, head, labels, lost, locked>>

Enter(c) ==
    /\ pc[c] = "entry"
    /\ ~(LooksFirst(kind[c]) /\ RevertLocked)
    /\ ~(kind[c] = "flush" /\ lost)
    /\ pc' = [pc EXCEPT ![c] = "wait"]
    /\ UNCHANGED <<conn, revertLock, log, head, labels, lost, kind, locked>>

\* self.conn.lock_recover()
Acquire(c) ==
    /\ pc[c] = "wait"
    /\ conn = "free"
    /\ conn' = c
    /\ pc' = [pc EXCEPT ![c] = "held"]
    /\ UNCHANGED <<revertLock, log, head, labels, lost, kind, locked>>

-----------------------------------------------------------------------------
(* With the store in hand *)

At(c, p, k) == pc[c] = p /\ kind[c] = k

\* The store is dropped and the request answered.
Release(c) ==
    /\ conn' = "free"
    /\ pc' = [pc EXCEPT ![c] = "idle"]
    /\ kind' = [kind EXCEPT ![c] = "none"]
    /\ locked' = [locked EXCEPT ![c] = NoLock]

\* The end of a coordinated revert: the store is dropped, then the same thread
\* flushes the watcher's buffer.
ReleaseThenFlush(c) ==
    /\ conn' = "free"
    /\ pc' = [pc EXCEPT ![c] = "entry"]
    /\ kind' = [kind EXCEPT ![c] = "flush"]
    /\ locked' = [locked EXCEPT ![c] = NoLock]

\* Mutant: HEAD is not written.
AppendOpStale(K) ==
    /\ head < MaxOps
    /\ \E T \in SUBSET DOMAIN log : log' = RS!Appended(log, head, K, T)
    /\ UNCHANGED head

\* A committed write that reverts K; retention drops any older operations.
AppendOp(K) ==
    /\ head < MaxOps
    /\ \E T \in SUBSET DOMAIN log : log' = RS!Appended(log, head, K, T)
    /\ head' = head + 1

\* An error, a refusal, or nothing left to do: the transaction is dropped.
Fail(c) ==
    /\ pc[c] \in {"held", "open"}
    /\ Release(c)
    /\ UNCHANGED <<revertLock, log, head, labels, lost>>

\* Mutant: the lock is only looked at before the store is waited for.
WriterOpensUnasked == TRUE

\* RepoState::writer refuses while the repository is locked, asked with the
\* store in hand.
WriterOpens == ~RevertLocked

\* The requests that write through RepoState::writer.
Writers == {"write", "background", "revert", "flush"}

Open(c) ==
    /\ pc[c] = "held"
    /\ kind[c] \in Writers
    /\ WriterOpens
    /\ pc' = [pc EXCEPT ![c] = "open"]
    /\ UNCHANGED <<conn, revertLock, log, head, labels, lost, kind, locked>>

\* A write route, a task, or a background record of the daemon.
WriteUnder(c) ==
    /\ At(c, "open", "write") \/ At(c, "open", "background")
    /\ AppendOp({})
    /\ Release(c)
    /\ UNCHANGED <<revertLock, labels, lost>>

\* POST /revert: the effective operations are reverted in one write.
RevertUnder(c) ==
    /\ At(c, "open", "revert")
    /\ \E K \in SUBSET DOMAIN log \ {{}} : AppendOp(K)
    /\ Release(c)
    /\ UNCHANGED <<revertLock, labels, lost>>

\* A flush commits its groups one writer each, the store in hand throughout.
FlushUnder(c) ==
    /\ At(c, "open", "flush")
    /\ AppendOp({})
    /\ pc' = [pc EXCEPT ![c] = "held"]
    /\ UNCHANGED <<conn, revertLock, labels, lost, kind, locked>>

\* Mutant: a second start takes the lock over.
StartUnderAnyway(c) ==
    /\ At(c, "held", "start")
    /\ revertLock' \in SUBSET DOMAIN log
    /\ Release(c)
    /\ UNCHANGED <<log, head, labels, lost>>

\* POST /revert/start: looked at and taken in one step.
StartUnder(c) ==
    /\ At(c, "held", "start")
    /\ ~RevertLocked
    /\ revertLock' \in SUBSET DOMAIN log
    /\ Release(c)
    /\ UNCHANGED <<log, head, labels, lost>>

\* POST /revert/commit reads the operations of the lock, under the store.
ReadLock(c) ==
    /\ At(c, "held", "commit")
    /\ RevertLocked
    /\ locked' = [locked EXCEPT ![c] = revertLock]
    /\ pc' = [pc EXCEPT ![c] = "open"]
    /\ UNCHANGED <<conn, revertLock, log, head, labels, lost, kind>>

\* Mutant: the request's apply list is not narrowed to what the start fixed.
CommitUnderWidened(c) ==
    /\ At(c, "open", "commit")
    /\ locked[c] \subseteq DOMAIN log
    /\ \E A \in SUBSET DOMAIN log :
          \/ A # {} /\ AppendOp(A)
          \/ UNCHANGED <<log, head>>
    /\ revertLock' = NoLock
    /\ ReleaseThenFlush(c)
    /\ UNCHANGED <<labels, lost>>

\* Every operation fixed at the start is still in the log and the request's
\* apply list names only those: the revert is written, unless nothing is left
\* of it, and the lock released.  Anything else is a Fail: the lock stands.
\* A read that fails once the revert is committed, which leaves the lock too,
\* is not modelled.
CommitUnder(c) ==
    /\ At(c, "open", "commit")
    /\ locked[c] \subseteq DOMAIN log
    /\ \E A \in SUBSET locked[c] :
          \/ A # {} /\ AppendOp(A)
          \/ UNCHANGED <<log, head>>
    /\ revertLock' = NoLock
    /\ ReleaseThenFlush(c)
    /\ UNCHANGED <<labels, lost>>

\* POST /revert/abort
AbortUnder(c) ==
    /\ At(c, "held", "abort")
    /\ RevertLocked
    /\ revertLock' = NoLock
    /\ ReleaseThenFlush(c)
    /\ UNCHANGED <<log, head, labels, lost>>

\* POST /log/prune: everything older than the target goes.  It opens its own
\* transaction and does not ask the lock again.
PruneUnder(c) ==
    /\ At(c, "held", "prune")
    /\ \E t \in DOMAIN log :
          log' = RS!Restricted(log, {i \in DOMAIN log : i >= t})
    /\ Release(c)
    /\ UNCHANGED <<revertLock, head, labels, lost>>

\* POST /labels: its own transaction as well.
LabelUnder(c) ==
    /\ At(c, "held", "label")
    /\ labels = 0
    /\ labels' = 1
    /\ Release(c)
    /\ UNCHANGED <<revertLock, log, head, lost>>

-----------------------------------------------------------------------------
(* The root goes away, and comes back with a load *)

\* take_out_of_service and let_go: the lock is dropped without the store.
LetGo ==
    /\ ~lost
    /\ lost' = TRUE
    /\ revertLock' = NoLock
    /\ UNCHANGED <<conn, log, head, labels, pc, kind, locked>>

\* A load opens the store again, which needs the last thread to have let it go.
Reload ==
    /\ lost
    /\ \A c \in Clients : pc[c] = "idle"
    /\ lost' = FALSE
    /\ revertLock' = NoLock
    /\ UNCHANGED <<conn, log, head, labels, pc, kind, locked>>

Step(c) ==
    \/ \E k \in Routes : Call(c, k)
    \/ Refuse(c)
    \/ Enter(c)
    \/ Acquire(c)
    \/ Fail(c)
    \/ Open(c)
    \/ WriteUnder(c)
    \/ RevertUnder(c)
    \/ FlushUnder(c)
    \/ StartUnder(c)
    \/ ReadLock(c)
    \/ CommitUnder(c)
    \/ AbortUnder(c)
    \/ PruneUnder(c)
    \/ LabelUnder(c)

Next == (\E c \in Clients : Step(c)) \/ LetGo \/ Reload

Spec == Init /\ [][Next]_vars

-----------------------------------------------------------------------------
(* Properties *)

\* While a coordinated revert is in progress every operation it will revert is
\* still in the log, so its commit never answers "vanished during the revert"
\* (routes/revert.rs, revert_commit).
LockedOpsKept == RevertLocked => revertLock \subseteq DOMAIN log

\* While a coordinated revert is in progress the store does not move but by the
\* commit that ends it: neither the log nor the labels (RepoState::writer).
StoreStillWhileLocked ==
    [][RevertLocked /\ RevertLocked' => UNCHANGED <<log, head, labels>>]_vars

\* A write that lands while a coordinated revert is in progress is that
\* revert's own commit: it ends the session and reverts only what the start
\* fixed (narrow_to_applied), whichever requests are in flight.
OnlyCommitWrites ==
    [][head' # head /\ Session # NoLock
          => Session' = NoLock /\ log'[head'] \subseteq Session]_vars

\* The handlers implement the atomic session of RevertSession.
ImplementsSession == RS!Spec
=============================================================================
