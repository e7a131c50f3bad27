-------------------------- MODULE RepoLocksProofs --------------------------
(***************************************************************************)
(* Proofs about RepoLocks, for any number of threads, any bound on the log *)
(* and any choice of the routes the theorem's assumption allows.           *)
(***************************************************************************)
EXTENDS RepoLocks, TLAPS

-----------------------------------------------------------------------------
(* The inductive invariant that all routes keep *)

\* The store has one holder, and only the holder is past the wait.
Holder ==
    \A c \in Clients : pc[c] \in {"held", "open"} <=> conn = c

\* A writer open under the store: the repository is not locked, unless it is
\* the commit's, which read the lock that still stands or was let go.
OpenKnowsLock ==
    \A c \in Clients :
       pc[c] = "open" =>
          \/ kind[c] \in Writers /\ revertLock = NoLock
          \/ /\ kind[c] = "commit"
             /\ locked[c] # NoLock
             /\ revertLock \in {NoLock, locked[c]}

\* Only a commit with its writer open remembers the operations of a lock.
OnlyOpenReads ==
    \A c \in Clients : locked[c] # NoLock => At(c, "open", "commit")

MutexInv == TypeOK /\ Holder /\ OpenKnowsLock /\ OnlyOpenReads

\* The initial state satisfies the invariant.
LEMMA InitMutex == Init => MutexInv
<1> SUFFICES ASSUME Init PROVE MutexInv
  OBVIOUS
<1>1. TypeOK
  <2>1. 1 \in Ids /\ 1..head = {1} /\ DOMAIN log = {1}
    BY BoundAssumption DEF Init, Ids
  <2>2. log \in [DOMAIN log -> SUBSET Ids]
    BY <2>1 DEF Init
  <2>3. head \in Ids /\ DOMAIN log \subseteq 1..head /\ labels \in 0..1
    BY <2>1 DEF Init
  <2>4. /\ pc \in [Clients -> {"idle", "entry", "wait", "held", "open"}]
        /\ kind \in [Clients -> Kinds \cup {"none"}]
        /\ locked \in [Clients -> {NoLock} \cup SUBSET Ids]
    BY DEF Init
  <2> QED
    BY <2>2, <2>3, <2>4, Zenon DEF Init, TypeOK
<1>2. Holder /\ OpenKnowsLock /\ OnlyOpenReads
  BY ClientsAssumption DEF Init, Holder, OpenKnowsLock, OnlyOpenReads
<1> QED
  BY <1>1, <1>2 DEF MutexInv

\* A committed write keeps the log well typed.
LEMMA AppendType ==
  ASSUME TypeOK, NEW K \in SUBSET Ids, AppendOp(K)
  PROVE  /\ head' \in Ids
         /\ DOMAIN log' \subseteq 1..head'
         /\ log' \in [DOMAIN log' -> SUBSET Ids]
         /\ log'[head'] = K
<1> USE BoundAssumption
<1>1. PICK T \in SUBSET DOMAIN log : log' = RS!Appended(log, head, K, T)
  BY DEF AppendOp
<1>2. log' = [i \in (DOMAIN log \ T) \cup {head + 1} |->
                IF i = head + 1 THEN K ELSE log[i]]
  BY <1>1 DEF RS!Appended
<1>3. head' = head + 1 /\ head < MaxOps /\ head \in Ids
  BY DEF AppendOp, TypeOK
<1>4. DOMAIN log' = (DOMAIN log \ T) \cup {head + 1}
  BY <1>2
<1>5. \A i \in DOMAIN log : i \in 1..head /\ log[i] \in SUBSET Ids
  BY DEF TypeOK
<1>6. head' \in Ids /\ DOMAIN log' \subseteq 1..head'
  BY <1>3, <1>4, <1>5 DEF Ids
<1>7. \A i \in DOMAIN log' : log'[i] \in SUBSET Ids
  BY <1>2, <1>4, <1>5
<1>8. log'[head'] = K
  BY <1>2, <1>3
<1> QED
  BY <1>2, <1>4, <1>6, <1>7, <1>8

\* Every step keeps the type invariant.
LEMMA NextType == TypeOK /\ [Next]_vars => TypeOK'
<1> SUFFICES ASSUME TypeOK, [Next]_vars PROVE TypeOK'
  OBVIOUS
<1> USE BoundAssumption, RoutesAssumption
<1>a. DOMAIN log \subseteq Ids
  BY DEF TypeOK, Ids
<1>1. ASSUME NEW c \in Clients, Step(c) PROVE TypeOK'
  <2>1. ASSUME NEW k \in Routes, Call(c, k) PROVE TypeOK'
    BY <2>1 DEF Call, TypeOK
  <2>2. CASE Refuse(c)
    BY <2>2 DEF Refuse, TypeOK
  <2>3. CASE Enter(c) \/ Acquire(c)
    BY <2>3 DEF Enter, Acquire, TypeOK
  <2>4. CASE Fail(c)
    BY <2>4 DEF Fail, Release, TypeOK
  <2>5. CASE Open(c)
    BY <2>5 DEF Open, TypeOK
  <2>6. CASE WriteUnder(c)
    <3>1. AppendOp({}) /\ Release(c) /\ UNCHANGED <<revertLock, labels, lost>>
      BY <2>6 DEF WriteUnder
    <3> QED BY <3>1, AppendType DEF Release, TypeOK
  <2>7. CASE RevertUnder(c)
    <3>1. PICK K \in SUBSET DOMAIN log : AppendOp(K)
      BY <2>7 DEF RevertUnder
    <3>2. Release(c) /\ UNCHANGED <<revertLock, labels, lost>>
      BY <2>7 DEF RevertUnder
    <3>3. K \in SUBSET Ids
      BY <1>a
    <3> QED BY <3>1, <3>2, <3>3, AppendType DEF Release, TypeOK
  <2>8. CASE FlushUnder(c)
    <3>1. AppendOp({})
      BY <2>8 DEF FlushUnder
    <3> QED BY <2>8, <3>1, AppendType DEF FlushUnder, TypeOK
  <2>9. CASE StartUnder(c)
    BY <2>9, <1>a DEF StartUnder, Release, TypeOK
  <2>10. CASE ReadLock(c)
    BY <2>10 DEF ReadLock, TypeOK
  <2>11. CASE CommitUnder(c)
    <3>1. PICK A \in SUBSET locked[c] : AppendOp(A) \/ UNCHANGED <<log, head>>
      BY <2>11 DEF CommitUnder
    <3>2. /\ locked[c] \subseteq DOMAIN log
          /\ revertLock' = NoLock
          /\ ReleaseThenFlush(c)
          /\ UNCHANGED <<labels, lost>>
      BY <2>11 DEF CommitUnder
    <3>3. A \in SUBSET Ids
      BY <3>2, <1>a
    <3>4. CASE AppendOp(A)
      BY <3>2, <3>3, <3>4, AppendType DEF ReleaseThenFlush, TypeOK, Kinds
    <3>5. CASE UNCHANGED <<log, head>>
      BY <3>2, <3>5 DEF ReleaseThenFlush, TypeOK, Kinds
    <3> QED BY <3>1, <3>4, <3>5
  <2>12. CASE AbortUnder(c)
    BY <2>12 DEF AbortUnder, ReleaseThenFlush, TypeOK, Kinds
  <2>13. CASE PruneUnder(c)
    <3>1. PICK t \in DOMAIN log :
             log' = RS!Restricted(log, {i \in DOMAIN log : i >= t})
      BY <2>13 DEF PruneUnder
    <3>2. log' = [i \in {i \in DOMAIN log : i >= t} |-> log[i]]
      BY <3>1 DEF RS!Restricted
    <3>3. DOMAIN log' \subseteq DOMAIN log /\ log' \in [DOMAIN log' -> SUBSET Ids]
      BY <3>2 DEF TypeOK
    <3> QED BY <2>13, <3>3 DEF PruneUnder, Release, TypeOK
  <2>14. CASE LabelUnder(c)
    BY <2>14 DEF LabelUnder, Release, TypeOK
  <2> QED
    BY <1>1, <2>1, <2>2, <2>3, <2>4, <2>5, <2>6, <2>7, <2>8, <2>9, <2>10,
       <2>11, <2>12, <2>13, <2>14 DEF Step
<1>2. CASE LetGo \/ Reload
  BY <1>2 DEF LetGo, Reload, TypeOK
<1>3. CASE UNCHANGED vars
  BY <1>3 DEF vars, TypeOK
<1> QED
  BY <1>1, <1>2, <1>3 DEF Next

\* Every step keeps one holder of the store, and what that holder knows of the
\* lock.
LEMMA NextMutex == MutexInv /\ [Next]_vars => MutexInv'
<1> SUFFICES ASSUME MutexInv, [Next]_vars PROVE MutexInv'
  OBVIOUS
<1> USE ClientsAssumption DEF MutexInv, Holder, OpenKnowsLock, OnlyOpenReads, At
<1>0. TypeOK'
  BY NextType
<1>1. ASSUME NEW c \in Clients, Step(c)
      PROVE  Holder' /\ OpenKnowsLock' /\ OnlyOpenReads'
  <2>1. ASSUME NEW k \in Routes, Call(c, k)
        PROVE  Holder' /\ OpenKnowsLock' /\ OnlyOpenReads'
    BY <2>1 DEF Call, TypeOK
  <2>2. CASE Refuse(c)
    BY <2>2 DEF Refuse, TypeOK
  <2>3. CASE Enter(c)
    BY <2>3 DEF Enter, TypeOK
  <2>4. CASE Acquire(c)
    BY <2>4 DEF Acquire, TypeOK
  <2>5. CASE Fail(c)
    BY <2>5 DEF Fail, Release, TypeOK
  <2>6. CASE Open(c)
    BY <2>6 DEF Open, WriterOpens, RevertLocked, TypeOK
  <2>7. CASE WriteUnder(c)
    BY <2>7 DEF WriteUnder, Release, TypeOK
  <2>8. CASE RevertUnder(c)
    BY <2>8 DEF RevertUnder, Release, TypeOK
  <2>9. CASE FlushUnder(c)
    BY <2>9 DEF FlushUnder, TypeOK
  <2>10. CASE StartUnder(c)
    BY <2>10 DEF StartUnder, Release, TypeOK
  <2>11. CASE ReadLock(c)
    BY <2>11 DEF ReadLock, RevertLocked, TypeOK
  <2>12. CASE CommitUnder(c)
    BY <2>12 DEF CommitUnder, ReleaseThenFlush, TypeOK
  <2>13. CASE AbortUnder(c)
    BY <2>13 DEF AbortUnder, ReleaseThenFlush, TypeOK
  <2>14. CASE PruneUnder(c)
    BY <2>14 DEF PruneUnder, Release, TypeOK
  <2>15. CASE LabelUnder(c)
    BY <2>15 DEF LabelUnder, Release, TypeOK
  <2> QED
    BY <1>1, <2>1, <2>2, <2>3, <2>4, <2>5, <2>6, <2>7, <2>8, <2>9, <2>10,
       <2>11, <2>12, <2>13, <2>14, <2>15 DEF Step
<1>2. ASSUME LetGo \/ Reload PROVE Holder' /\ OpenKnowsLock' /\ OnlyOpenReads'
  BY <1>2 DEF LetGo, Reload
<1>3. ASSUME UNCHANGED vars PROVE Holder' /\ OpenKnowsLock' /\ OnlyOpenReads'
  BY <1>3 DEF vars
<1> QED
  BY <1>0, <1>1, <1>2, <1>3 DEF Next

\* The log, the locks and the threads' states are well formed whichever
\* requests run (RepoState, routes/revert.rs).
THEOREM TypeCorrect == Spec => []TypeOK
<1>1. Spec => []MutexInv
  BY InitMutex, NextMutex, PTL DEF Spec
<1> QED
  BY <1>1, PTL DEF MutexInv

-----------------------------------------------------------------------------
(* What the session keeps, when every write goes through the writer *)

\* A thread is asked only what Routes names, or to flush after a session.
AskedRoutes ==
    \A c \in Clients : kind[c] \in Routes \cup {"none", "flush"}

\* What a commit read is in the log, like what the lock holds.
ReadOpsKept ==
    \A c \in Clients : locked[c] # NoLock => locked[c] \subseteq DOMAIN log

SessionInv == MutexInv /\ AskedRoutes /\ LockedOpsKept /\ ReadOpsKept

\* No session is in progress in a repository just created.
LEMMA InitSession == Init => SessionInv
<1> SUFFICES ASSUME Init PROVE SessionInv
  OBVIOUS
<1>1. AskedRoutes /\ LockedOpsKept /\ ReadOpsKept
  BY DEF Init, AskedRoutes, LockedOpsKept, RevertLocked, ReadOpsKept
<1> QED
  BY <1>1, InitMutex DEF SessionInv

\* Every step keeps the operations of a session in the log: only the holder of
\* the store moves it, and a holder that does found no session or ends it.
LEMMA NextSession ==
  ASSUME "prune" \notin Routes
  PROVE  SessionInv /\ [Next]_vars => SessionInv'
<1> SUFFICES ASSUME SessionInv, [Next]_vars PROVE SessionInv'
  OBVIOUS
<1>0. MutexInv'
  BY NextMutex DEF SessionInv
<1> USE ClientsAssumption
    DEF SessionInv, MutexInv, AskedRoutes, LockedOpsKept, ReadOpsKept,
        RevertLocked, At
<1> DEFINE Kept == AskedRoutes' /\ LockedOpsKept' /\ ReadOpsKept'
<1>1. ASSUME NEW c \in Clients, Step(c) PROVE Kept
  <2>1. ASSUME NEW k \in Routes, Call(c, k) PROVE Kept
    BY <2>1 DEF Call, TypeOK
  <2>2. CASE Refuse(c)
    BY <2>2 DEF Refuse, TypeOK
  <2>3. CASE Enter(c) \/ Acquire(c)
    BY <2>3 DEF Enter, Acquire, TypeOK
  <2>4. CASE Fail(c)
    BY <2>4 DEF Fail, Release, TypeOK
  <2>5. CASE Open(c)
    BY <2>5 DEF Open, TypeOK
  <2>6. CASE WriteUnder(c) \/ RevertUnder(c) \/ FlushUnder(c)
    <3>1. pc[c] = "open" /\ kind[c] \in Writers
      BY <2>6 DEF WriteUnder, RevertUnder, FlushUnder, Writers
    <3>2. revertLock = NoLock
      BY <3>1 DEF OpenKnowsLock, Writers
    <3>3. \A d \in Clients : locked[d] = NoLock
      BY <3>1 DEF OnlyOpenReads, Holder, Writers
    <3>4. /\ revertLock' = revertLock
          /\ locked' \in {locked, [locked EXCEPT ![c] = NoLock]}
          /\ kind' \in {kind, [kind EXCEPT ![c] = "none"]}
      BY <2>6 DEF WriteUnder, RevertUnder, FlushUnder, Release
    <3>5. \A d \in Clients : locked'[d] = NoLock
      BY <3>3, <3>4 DEF TypeOK
    <3>6. AskedRoutes'
      BY <3>4 DEF TypeOK
    <3> QED BY <3>2, <3>4, <3>5, <3>6
  <2>7. CASE StartUnder(c)
    BY <2>7 DEF StartUnder, Release, TypeOK
  <2>8. CASE ReadLock(c)
    BY <2>8 DEF ReadLock, TypeOK
  <2>9. CASE CommitUnder(c)
    <3>1. \A d \in Clients : locked'[d] = NoLock
      BY <2>9 DEF CommitUnder, ReleaseThenFlush, OnlyOpenReads, Holder, TypeOK
    <3>2. AskedRoutes'
      BY <2>9 DEF CommitUnder, ReleaseThenFlush, TypeOK
    <3> QED BY <2>9, <3>1, <3>2 DEF CommitUnder
  <2>10. CASE AbortUnder(c)
    BY <2>10 DEF AbortUnder, ReleaseThenFlush, TypeOK
  <2>11. CASE PruneUnder(c)
    BY <2>11 DEF PruneUnder
  <2>12. CASE LabelUnder(c)
    BY <2>12 DEF LabelUnder, Release, TypeOK
  <2> QED
    BY <1>1, <2>1, <2>2, <2>3, <2>4, <2>5, <2>6, <2>7, <2>8, <2>9, <2>10,
       <2>11, <2>12 DEF Step
<1>2. ASSUME LetGo \/ Reload PROVE Kept
  BY <1>2 DEF LetGo, Reload
<1>3. ASSUME UNCHANGED vars PROVE Kept
  BY <1>3 DEF vars
<1> QED
  BY <1>0, <1>1, <1>2, <1>3 DEF Next

\* As long as no prune runs, a coordinated revert finds at its commit every
\* operation it fixed at its start, for any number of threads.
THEOREM LockedOpsSafe ==
  ASSUME "prune" \notin Routes
  PROVE  Spec => []LockedOpsKept
<1>1. SessionInv /\ [Next]_vars => SessionInv'
  BY NextSession
<1>2. Spec => []SessionInv
  BY <1>1, InitSession, PTL DEF Spec
<1> QED
  BY <1>2, PTL DEF SessionInv

-----------------------------------------------------------------------------
(* The handlers implement the atomic session *)

\* What a thread past the wait makes of the session: it alone holds the store.
LEMMA HolderSession ==
  ASSUME MutexInv, NEW c \in Clients, pc[c] \in {"held", "open"}
  PROVE  /\ conn = c
         /\ locked[c] = NoLock => Session = revertLock
         /\ locked[c] # NoLock => /\ Session = locked[c]
                                  /\ At(c, "open", "commit")
                                  /\ revertLock \in {NoLock, Session}
BY ClientsAssumption
   DEF MutexInv, Holder, OnlyOpenReads, OpenKnowsLock, Session, At, Writers

\* A writer's commit is an ordinary write, outside a session.
LEMMA WriterStep ==
  ASSUME MutexInv, NEW c \in Clients,
         WriteUnder(c) \/ RevertUnder(c) \/ FlushUnder(c)
  PROVE  /\ Session = NoLock /\ Session' = NoLock
         /\ \E K \in SUBSET DOMAIN log : AppendOp(K)
<1>1. pc[c] = "open" /\ kind[c] \in Writers
  BY DEF WriteUnder, RevertUnder, FlushUnder, Writers, At
<1>2. revertLock = NoLock /\ locked[c] = NoLock
  BY <1>1 DEF MutexInv, OpenKnowsLock, OnlyOpenReads, At, Writers
<1>3. conn = c /\ Session = NoLock
  BY <1>1, <1>2, HolderSession
<1>4. revertLock' = NoLock /\ conn' \in {"free", c} /\ locked'[c] = NoLock
  BY <1>2, <1>3
     DEF WriteUnder, RevertUnder, FlushUnder, Release, MutexInv, TypeOK
<1>5. Session' = NoLock
  BY <1>4 DEF Session
<1>6. \E K \in SUBSET DOMAIN log : AppendOp(K)
  <2>1. CASE WriteUnder(c) \/ FlushUnder(c)
    <3>1. AppendOp({}) /\ {} \in SUBSET DOMAIN log
      BY <2>1 DEF WriteUnder, FlushUnder
    <3> QED BY <3>1
  <2>2. CASE RevertUnder(c)
    BY <2>2 DEF RevertUnder
  <2> QED BY <2>1, <2>2
<1> QED
  BY <1>3, <1>5, <1>6

\* A session's commit ends the session and reverts only what it fixed.
LEMMA CommitStep ==
  ASSUME MutexInv, NEW c \in Clients, CommitUnder(c)
  PROVE  /\ Session # NoLock /\ Session' = NoLock
         /\ Session \in SUBSET DOMAIN log
         /\ \/ \E A \in SUBSET Session : AppendOp(A)
            \/ UNCHANGED <<log, head>>
<1>1. At(c, "open", "commit")
  BY DEF CommitUnder
<1>2. locked[c] # NoLock
  BY <1>1 DEF MutexInv, OpenKnowsLock, At, Writers
<1>3. Session = locked[c]
  BY <1>1, <1>2, HolderSession DEF At
<1>4. Session' = NoLock
  BY DEF CommitUnder, ReleaseThenFlush, Session
<1> QED
  BY <1>2, <1>3, <1>4 DEF CommitUnder

\* The other steps leave the log and the head alone, the prune excepted, and
\* the session too, unless they enter or leave it.
LEMMA OtherStep ==
  ASSUME MutexInv, NEW c \in Clients,
         \/ \E k \in Routes : Call(c, k)
         \/ Refuse(c) \/ Enter(c) \/ Acquire(c) \/ Fail(c) \/ Open(c)
         \/ ReadLock(c) \/ AbortUnder(c) \/ LabelUnder(c)
  PROVE  UNCHANGED <<log, head>> /\ Session' \in {Session, NoLock}
<1> USE ClientsAssumption DEF MutexInv
<1>1. CASE (\E k \in Routes : Call(c, k)) \/ Refuse(c) \/ Enter(c) \/ Open(c)
  BY <1>1 DEF Call, Refuse, Enter, Open, Session
<1>2. CASE Acquire(c)
  BY <1>2 DEF Acquire, Session, OnlyOpenReads, At
<1>3. CASE Fail(c)
  <2>1. Session' = revertLock
    BY <1>3 DEF Fail, Release, Session
  <2>2. revertLock \in {NoLock, Session}
    BY <1>3, HolderSession DEF Fail
  <2> QED BY <1>3, <2>1, <2>2 DEF Fail
<1>4. CASE ReadLock(c)
  <2>1. conn = c /\ locked[c] = NoLock /\ Session = revertLock
    BY <1>4, HolderSession DEF ReadLock, At, OnlyOpenReads
  <2>2. conn' = c /\ locked'[c] = revertLock /\ revertLock # NoLock
    BY <1>4, <2>1 DEF ReadLock, RevertLocked, TypeOK
  <2> QED BY <1>4, <2>1, <2>2 DEF ReadLock, Session
<1>5. CASE AbortUnder(c)
  BY <1>5 DEF AbortUnder, ReleaseThenFlush, Session
<1>6. CASE LabelUnder(c)
  <2>1. Session' = revertLock
    BY <1>6 DEF LabelUnder, Release, Session
  <2>2. revertLock \in {NoLock, Session}
    BY <1>6, HolderSession DEF LabelUnder, At
  <2> QED BY <1>6, <2>1, <2>2 DEF LabelUnder
<1> QED
  BY <1>1, <1>2, <1>3, <1>4, <1>5, <1>6
  
\* Letting the repository go, or loading it again, at most leaves a session.
LEMMA RepoStep ==
  ASSUME MutexInv, LetGo \/ Reload
  PROVE  UNCHANGED <<log, head>> /\ Session' \in {Session, NoLock}
BY DEF LetGo, Reload, Session

\* Starting takes the lock when there is no session.
LEMMA StartStep ==
  ASSUME MutexInv, NEW c \in Clients, StartUnder(c)
  PROVE  /\ UNCHANGED <<log, head>>
         /\ Session = NoLock
         /\ Session' \in SUBSET DOMAIN log
<1>1. locked[c] = NoLock /\ revertLock = NoLock
  BY DEF StartUnder, At, MutexInv, OnlyOpenReads, RevertLocked
<1>2. Session = NoLock
  BY <1>1, HolderSession DEF StartUnder, At
<1>3. Session' = revertLock'
  BY DEF StartUnder, Release, Session
<1> QED
  BY <1>2, <1>3 DEF StartUnder

\* A step that does not prune is a step of the atomic session, or none.
LEMMA NextImplements ==
  ASSUME "prune" \notin Routes, SessionInv, [Next]_vars
  PROVE  [RS!Next]_(RS!vars)
<1> USE DEF SessionInv
<1> DEFINE Quiet == UNCHANGED <<log, head>> /\ Session' \in {Session, NoLock}
<1>0. ASSUME Quiet PROVE [RS!Next]_(RS!vars)
  BY <1>0 DEF RS!Next, RS!Leave, RS!vars
<1>1. ASSUME NEW c \in Clients, Step(c) PROVE [RS!Next]_(RS!vars)
  <2>1. CASE WriteUnder(c) \/ RevertUnder(c) \/ FlushUnder(c)
    <3>1. /\ Session = NoLock /\ Session' = NoLock
          /\ \E K \in SUBSET DOMAIN log : AppendOp(K)
      BY <2>1, WriterStep
    <3>2. RS!Write
      BY <3>1 DEF AppendOp, RS!Write
    <3> QED BY <3>2 DEF RS!Next
  <2>2. CASE CommitUnder(c)
    <3>1. /\ Session # NoLock /\ Session' = NoLock
          /\ \/ \E A \in SUBSET Session : AppendOp(A)
             \/ UNCHANGED <<log, head>>
      BY <2>2, CommitStep
    <3>2. RS!Commit \/ RS!Leave
      BY <3>1 DEF AppendOp, RS!Commit, RS!Leave
    <3> QED BY <3>2 DEF RS!Next
  <2>3. CASE StartUnder(c)
    BY <2>3, StartStep DEF RS!Start, RS!Next
  <2>4. CASE PruneUnder(c)
    BY <2>4 DEF PruneUnder, At, AskedRoutes
  <2>5. CASE \/ \E k \in Routes : Call(c, k)
             \/ Refuse(c) \/ Enter(c) \/ Acquire(c) \/ Fail(c) \/ Open(c)
             \/ ReadLock(c) \/ AbortUnder(c) \/ LabelUnder(c)
    BY <2>5, <1>0, OtherStep
  <2> QED
    BY <1>1, <2>1, <2>2, <2>3, <2>4, <2>5 DEF Step
<1>2. CASE LetGo \/ Reload
  BY <1>2, <1>0, RepoStep
<1>3. CASE UNCHANGED vars
  BY <1>3 DEF vars, RS!vars, Session
<1> QED
  BY <1>1, <1>2, <1>3 DEF Next

\* As long as no prune runs, the racing handlers implement the atomic session:
\* it is entered once, and left by one commit of what it fixed or by none.
THEOREM Refinement ==
  ASSUME "prune" \notin Routes
  PROVE  Spec => ImplementsSession
<1>1. SessionInv /\ [Next]_vars => SessionInv'
  BY NextSession
<1>2. SessionInv /\ [Next]_vars => [RS!Next]_(RS!vars)
  BY NextImplements
<1>3. Init => RS!Init
  BY DEF Init, RS!Init, Session
<1> QED
  BY <1>1, <1>2, <1>3, InitSession, PTL DEF Spec, ImplementsSession, RS!Spec

\* Whichever requests are in flight, prune included, the only write that lands
\* during a session is its own commit.
THEOREM OnlyCommit == Spec => OnlyCommitWrites
<1> DEFINE A == head' # head /\ Session # NoLock
                  => Session' = NoLock /\ log'[head'] \subseteq Session
<1>1. ASSUME MutexInv, [Next]_vars PROVE [A]_vars
  <2>1. ASSUME NEW c \in Clients, Step(c) PROVE A
    <3>1. CASE WriteUnder(c) \/ RevertUnder(c) \/ FlushUnder(c)
      BY <1>1, <3>1, WriterStep
    <3>2. CASE CommitUnder(c)
      <4>1. /\ Session' = NoLock
            /\ Session \in SUBSET DOMAIN log
            /\ \/ \E K \in SUBSET Session : AppendOp(K)
               \/ UNCHANGED <<log, head>>
        BY <1>1, <3>2, CommitStep
      <4>2. DOMAIN log \subseteq Ids
        BY <1>1, BoundAssumption DEF MutexInv, TypeOK, Ids
      <4>3. ASSUME NEW K \in SUBSET Session, AppendOp(K) PROVE log'[head'] = K
        BY <1>1, <4>1, <4>2, <4>3, AppendType DEF MutexInv
      <4> QED BY <4>1, <4>3
    <3>3. CASE StartUnder(c) \/ PruneUnder(c)
      BY <3>3 DEF StartUnder, PruneUnder
    <3>4. CASE \/ \E k \in Routes : Call(c, k)
               \/ Refuse(c) \/ Enter(c) \/ Acquire(c) \/ Fail(c) \/ Open(c)
               \/ ReadLock(c) \/ AbortUnder(c) \/ LabelUnder(c)
      BY <1>1, <3>4, OtherStep
    <3> QED
      BY <2>1, <3>1, <3>2, <3>3, <3>4 DEF Step
  <2>2. ASSUME LetGo \/ Reload PROVE A
    BY <2>2 DEF LetGo, Reload
  <2> QED
    BY <1>1, <2>1, <2>2 DEF Next
<1> QED
  BY <1>1, InitMutex, NextMutex, PTL DEF Spec, OnlyCommitWrites

\* While a coordinated revert is in progress neither the log nor the labels
\* move, but by the commit that ends it: the routes that open a transaction of
\* their own and do not ask the lock again under the store (POST /log/prune,
\* POST /labels) are the only exceptions, and are left out.
THEOREM StillWhileLocked ==
  ASSUME "prune" \notin Routes, "label" \notin Routes
  PROVE  Spec => StoreStillWhileLocked
<1> DEFINE A == RevertLocked /\ RevertLocked' => UNCHANGED <<log, head, labels>>
<1>1. ASSUME SessionInv, [Next]_vars PROVE [A]_vars
  <2>1. ASSUME NEW c \in Clients, Step(c) PROVE A
    <3>1. CASE WriteUnder(c) \/ RevertUnder(c) \/ FlushUnder(c)
      <4>1. pc[c] = "open" /\ kind[c] \in Writers
        BY <3>1 DEF WriteUnder, RevertUnder, FlushUnder, Writers, At
      <4>2. revertLock = NoLock
        BY <1>1, <4>1 DEF SessionInv, MutexInv, OpenKnowsLock, Writers
      <4> QED BY <4>2 DEF RevertLocked
    <3>2. CASE CommitUnder(c) \/ AbortUnder(c)
      BY <3>2 DEF CommitUnder, AbortUnder, RevertLocked
    <3>3. CASE PruneUnder(c) \/ LabelUnder(c)
      BY <1>1, <3>3 DEF PruneUnder, LabelUnder, At, SessionInv, AskedRoutes
    <3>4. CASE \/ \E k \in Routes : Call(c, k)
               \/ Refuse(c) \/ Enter(c) \/ Acquire(c) \/ Fail(c) \/ Open(c)
               \/ ReadLock(c) \/ StartUnder(c)
      BY <3>4 DEF Call, Refuse, Enter, Acquire, Fail, Open, ReadLock, StartUnder
    <3> QED
      BY <2>1, <3>1, <3>2, <3>3, <3>4 DEF Step
  <2>2. ASSUME LetGo \/ Reload PROVE A
    BY <2>2 DEF LetGo, Reload
  <2> QED
    BY <1>1, <2>1, <2>2 DEF Next
<1>2. SessionInv /\ [Next]_vars => SessionInv'
  BY NextSession
<1> QED
  BY <1>1, <1>2, InitSession, PTL DEF Spec, StoreStillWhileLocked
=============================================================================
