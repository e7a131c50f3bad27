--------------------------- MODULE RegistryProofs ---------------------------
(***************************************************************************)
(* The life of a loaded repository, proved for every set of repositories   *)
(* and threads and every bound: no two instances have the store of one     *)
(* repository open, what was answered is on its disk and in the instance   *)
(* that serves it, one that is loaded is not listed as lost, and one taken *)
(* out of service has its unload under way.  The five rest on each other   *)
(* and on who holds which reference, so they are one inductive invariant.  *)
(***************************************************************************)
EXTENDS Registry, FiniteSetTheorems, TLAPS

-----------------------------------------------------------------------------
(* The inductive invariant. *)

Pcs == {"idle", "look", "check", "remove", "let_go", "open", "init", "name", "register",
        "insert", "warm", "claim", "warmup", "activate", "unlist", "unload", "drop",
        "loaded", "release", "await", "swap", "admit", "data", "memory"}

\* Where a request holds a reference to an instance.
Holding == {"check", "let_go", "name", "register", "insert", "claim", "warmup", "activate",
            "drop", "data", "memory"}

\* The way of an init_repo.
InitPath == {"init", "name", "warmup", "activate", "register", "insert"}

Requests == [pc : Pcs, kind : {"none"} \cup DOMAIN FirstStep, u : Repos,
             ref : {NoInst} \cup Inst, weak : {NoInst} \cup Inst, mem : BOOLEAN]

Instances == [uuid : Repos, store : Stores, root : {"home", "away"}, out : BOOLEAN,
              hooked : BOOLEAN, early : BOOLEAN, ready : BOOLEAN, task : BOOLEAN,
              inMemory : BOOLEAN, mem : {"no", "held", "behind"}, copy : SUBSET Writes]

HookStates == {"none", "spawned", "holds", "listed"}

\* Every variable has its type.
RegistryTypeOK ==
  /\ repos \in [Repos -> {NoInst} \cup Inst]
  /\ lost \subseteq Repos
  /\ inst \in [Inst -> Instances]
  /\ made \in 0..MaxInst
  /\ hook \in [Inst -> HookStates]
  /\ thr \in [Threads -> Requests]
  /\ exists \in [Repos -> BOOLEAN]
  /\ place \in [Repos -> {"home", "away"}]
  /\ store \in [Repos -> Stores]
  /\ spare \in {0} \cup Stores
  /\ content \in [Stores -> SUBSET Writes]
  /\ acked \in [Repos -> SUBSET Writes]
  /\ raced \in BOOLEAN

\* A reference names an instance of the repository it is held for, one that was
\* opened; a hook is called once an instance is out of service.
RefsName ==
  /\ \A u \in Repos : repos[u] # NoInst => repos[u] <= made /\ inst[repos[u]].uuid = u
  /\ \A t \in Threads :
       /\ thr[t].ref # NoInst <=> thr[t].pc \in Holding
       /\ thr[t].ref # NoInst => thr[t].ref <= made /\ inst[thr[t].ref].uuid = thr[t].u
       /\ thr[t].kind = "init" => thr[t].pc \in InitPath
       /\ thr[t].pc = "admit" => thr[t].kind \in {"data", "memory"}
  /\ \A i \in Inst : hook[i] # "none" => i <= made /\ inst[i].out

\* The request has opened its instance and not registered it yet.
Opening(t) ==
  \/ thr[t].pc \in {"name", "register", "insert"}
  \/ thr[t].kind = "init" /\ thr[t].pc \in {"warmup", "activate"}

\* Nobody else knows an instance that is not registered yet, and the hook is
\* installed on it just before it is.
OpeningAlone ==
  \A t \in Threads : Opening(t) =>
    /\ \A v \in Threads : thr[v].ref = thr[t].ref => v = t
    /\ \A u \in Repos : repos[u] # thr[t].ref
    /\ hook[thr[t].ref] = "none"
    /\ inst[thr[t].ref].hooked <=> thr[t].pc = "insert"
    /\ inst[thr[t].ref].out => inst[thr[t].ref].early

\* What the hook holds is in the registry no more; what is in it has a hook.
HookHolds ==
  /\ \A i \in Inst : hook[i] \in {"holds", "listed"} => \A u \in Repos : repos[u] # i
  /\ \A u \in Repos : repos[u] # NoInst => inst[repos[u]].hooked

\* No two repositories share a store, and the backup's is none of theirs.
StoresApart ==
  /\ \A u, v \in Repos : store[u] = store[v] => u = v
  /\ \A u \in Repos : store[u] # spare

\* An instance somebody holds has the store of its repository open, and its copy,
\* if it reads one, has what was answered.
Opened ==
  ~raced => \A i \in Inst : Alive(i) =>
    /\ inst[i].store = store[inst[i].uuid]
    /\ exists[inst[i].uuid]
    /\ inst[i].mem # "no" => acked[inst[i].uuid] \subseteq inst[i].copy

\* Nothing lists a repository between the two locks of a register.
InsertUnlisted ==
  ~raced => \A t \in Threads : thr[t].pc = "insert" => thr[t].u \notin lost

RegistryInv ==
  /\ RegistryTypeOK /\ RefsName /\ OpeningAlone /\ HookHolds /\ StoresApart
  /\ Opened /\ OneOpener /\ InsertUnlisted /\ LostOrLoaded /\ AckedKept /\ LostHasItsUnload

-----------------------------------------------------------------------------
(* What a step does to its request. *)

\* The request of t went to pc, holding i; the others are where they were.
Stepped(t, pc, i) ==
  /\ thr' \in [Threads -> Requests]
  /\ \A v \in Threads : v # t => thr'[v] = thr[v]
  /\ thr'[t].pc = pc /\ thr'[t].ref = i
  /\ \/ thr'[t].u = thr[t].u /\ thr'[t].kind = thr[t].kind
     \/ i = NoInst /\ (thr'[t].kind = "init" => pc = "init")

\* A request at rest is a request.
LEMMA IdleRequest ==
  Idle \in Requests /\ Idle.pc = "idle" /\ Idle.ref = NoInst /\ Idle.kind = "none"
BY RegistryAssumption DEF Idle, NoOne, Requests, Pcs, FirstStep, NoInst

\* Goto keeps the reference.
LEMMA StepGoto ==
  ASSUME thr \in [Threads -> Requests], NEW t \in Threads, NEW pc \in Pcs, Goto(t, pc)
  PROVE  Stepped(t, pc, thr[t].ref)
BY DEF Goto, Stepped, Requests

\* GotoHolding changes it.
LEMMA StepHolding ==
  ASSUME thr \in [Threads -> Requests], NEW t \in Threads, NEW pc \in Pcs,
         NEW i \in {NoInst} \cup Inst, GotoHolding(t, pc, i)
  PROVE  Stepped(t, pc, i)
BY DEF GotoHolding, Stepped, Requests

\* An answer lets go of it.
LEMMA StepAnswer ==
  ASSUME thr \in [Threads -> Requests], NEW t \in Threads, Answer(t)
  PROVE  Stepped(t, "idle", NoInst)
BY IdleRequest DEF Answer, Stepped

-----------------------------------------------------------------------------
(* What the operators on instances return. *)

\* An instance just opened is one.
LEMMA NewTyped ==
  ASSUME RegistryTypeOK, NEW u \in Repos
  PROVE  NewInst(u) \in Instances
BY DEF RegistryTypeOK, NewInst, Instances

\* So is the one in place of an instance not there.
LEMMA NoOneTyped == NoOne \in Instances
<1>1. 1 \in Stores
  BY RegistryAssumption, FS_CardinalityType, FS_EmptySet DEF Stores
<1> QED BY <1>1, RegistryAssumption DEF NoOne, Instances

\* And one whose flags are set.
LEMMA FlagsTyped ==
  ASSUME NEW r \in Instances, NEW b \in BOOLEAN
  PROVE  /\ [r EXCEPT !.hooked = b] \in Instances
         /\ [r EXCEPT !.ready = b] \in Instances
         /\ [r EXCEPT !.task = b] \in Instances
         /\ [r EXCEPT !.inMemory = b] \in Instances
         /\ \A p \in {"home", "away"} : [r EXCEPT !.root = p, !.inMemory = b] \in Instances
BY DEF Instances

\* TaskOver changes the task and nothing else.
LEMMA TaskOverTyped ==
  ASSUME NEW t, NEW r \in Instances
  PROVE  /\ TaskOver(t, r) \in Instances
         /\ TaskOver(t, r) = [r EXCEPT !.task = TaskOver(t, r).task]
<1>1. (r.task /\ thr[t].kind # "load") \in BOOLEAN
  OBVIOUS
<1> QED BY <1>1 DEF TaskOver, Instances

\* Reading the store in changes the copy and nothing else.
LEMMA ReadInTyped ==
  ASSUME RegistryTypeOK, NEW r \in Instances
  PROVE  /\ ReadIn(r) \in Instances
         /\ ReadIn(r) = r \/ ReadIn(r) = [r EXCEPT !.mem = "held", !.copy = content[r.store]]
BY DEF RegistryTypeOK, ReadIn, Instances

\* An instance taken out of service keeps the rest of what it was.
LEMMA TakenOutTyped ==
  ASSUME NEW r \in Instances
  PROVE  /\ TakenOut(r) \in Instances
         /\ TakenOut(r) = [r EXCEPT !.out = TRUE, !.early = TakenOut(r).early]
         /\ TakenOut(r).early <=> (r.early \/ (~r.out /\ ~r.hooked))
         /\ TakenOut(r).copy = r.copy
<1>1. (r.early \/ (~r.out /\ ~r.hooked)) \in BOOLEAN
  OBVIOUS
<1> QED BY <1>1 DEF TakenOut, Instances

-----------------------------------------------------------------------------
(* A step that leaves the registry, the list and the stores alone. *)

\* The instance is of the repository and the store it was of.
SameOf(j) ==
  /\ inst'[j].uuid = inst[j].uuid
  /\ inst'[j].store = inst[j].store
  /\ inst'[j].hooked = inst[j].hooked

\* It serves what it served, from the store or a copy of it.
Served(j) ==
  /\ SameOf(j)
  /\ inst'[j].mem # "no" => \/ inst[j].mem # "no" /\ inst'[j].copy = inst[j].copy
                            \/ inst'[j].copy = content[inst[j].store]

\* It is in service as before ...
InService(j) ==
  inst'[j].out = inst[j].out /\ inst'[j].early = inst[j].early /\ hook'[j] = hook[j]

\* ... or was taken out of service, and its hook called if it has one.
WentOut(j) ==
  /\ ~inst[j].out /\ inst'[j].out
  /\ \/ inst[j].hooked /\ hook'[j] = "spawned" /\ inst'[j].early = inst[j].early
     \/ ~inst[j].hooked /\ hook'[j] = hook[j] /\ inst'[j].early

\* What a request may hold after a step: what it held, or what is registered;
\* an instance not registered yet, only if it held that one.
MayHold(t, pc, i) ==
  /\ i # NoInst <=> pc \in Holding
  /\ i \in {NoInst, thr[t].ref, repos[thr[t].u]}
  /\ thr'[t].kind = "init" => pc \in InitPath
  /\ pc = "admit" => thr'[t].kind \in {"data", "memory"}
  /\ Opening(t)' => Opening(t) /\ i = thr[t].ref /\ (pc = "insert" <=> thr[t].pc = "insert")

\* The instances that can be taken out of service: those registered, and the
\* one t holds unless it is about to register it.
InReach(t, j) ==
  \/ \E u \in Repos : repos[u] = j
  \/ j = thr[t].ref /\ thr[t].pc # "insert"

\* Nobody takes hold of an instance that nobody held.
LEMMA NoNewHolder ==
  ASSUME RegistryInv, NEW t \in Threads, NEW pc, NEW i, Stepped(t, pc, i),
         i \in {NoInst, thr[t].ref, repos[thr[t].u]},
         UNCHANGED repos, NEW j \in Inst, hook'[j] \in {hook[j], "spawned"}, Alive(j)'
  PROVE  Alive(j)
BY DEF RegistryInv, RegistryTypeOK, Requests, Alive, Stepped, Inst, NoInst

\* Such a step keeps what is said of the references and the hooks.
LEMMA HoldersKeep ==
  ASSUME RegistryInv, NEW t \in Threads, NEW pc \in Pcs, NEW i \in {NoInst} \cup Inst,
         Stepped(t, pc, i), MayHold(t, pc, i),
         \A j \in Inst : SameOf(j) /\ (InService(j) \/ (WentOut(j) /\ InReach(t, j))),
         UNCHANGED <<repos, made>>
  PROVE  /\ RefsName' /\ OpeningAlone' /\ HookHolds' /\ LostHasItsUnload'
         /\ \A j \in Inst : Alive(j)' => Alive(j)
         /\ \A v \in Threads : thr'[v].pc = "insert" => thr[v].pc = "insert" /\ thr'[v].u = thr[v].u
<1>1. /\ thr[t].u \in Repos /\ thr[t].ref \in {NoInst} \cup Inst
      /\ i # NoInst => thr'[t].u = thr[t].u
  BY DEF RegistryInv, RegistryTypeOK, Requests, Stepped
<1>2. RefsName'
  <2>1. ASSUME NEW u \in Repos, repos[u] # NoInst
        PROVE  repos[u] <= made /\ inst'[repos[u]].uuid = u
    BY <2>1 DEF RegistryInv, RegistryTypeOK, RefsName, SameOf
  <2>2. ASSUME NEW v \in Threads
        PROVE  /\ thr'[v].ref # NoInst <=> thr'[v].pc \in Holding
               /\ thr'[v].ref # NoInst => thr'[v].ref <= made /\ inst'[thr'[v].ref].uuid = thr'[v].u
               /\ thr'[v].kind = "init" => thr'[v].pc \in InitPath
               /\ thr'[v].pc = "admit" => thr'[v].kind \in {"data", "memory"}
    <3>1. CASE v # t
      <4>1. thr'[v] = thr[v] /\ thr[v].ref \in {NoInst} \cup Inst
        BY <3>1 DEF Stepped, RegistryInv, RegistryTypeOK, Requests
      <4> QED BY <4>1 DEF RegistryInv, RefsName, SameOf
    <3>2. CASE v = t
      <4>1. i # NoInst => i <= made /\ inst[i].uuid = thr[t].u
        BY <1>1 DEF RegistryInv, RefsName, MayHold
      <4> QED BY <3>2, <4>1, <1>1 DEF Stepped, MayHold, SameOf, NoInst
    <3> QED BY <3>1, <3>2
  <2>3. ASSUME NEW j \in Inst, hook'[j] # "none"
        PROVE  j <= made /\ inst'[j].out
    <3>1. CASE InService(j)
      BY <2>3, <3>1 DEF InService, RegistryInv, RefsName
    <3>2. CASE WentOut(j) /\ InReach(t, j)
      <4>1. j # NoInst
        BY DEF Inst, NoInst
      <4> QED BY <3>2, <4>1, <1>1 DEF WentOut, InReach, RegistryInv, RefsName
    <3> QED BY <3>1, <3>2
  <2> QED BY <2>1, <2>2, <2>3 DEF RefsName
<1>3. OpeningAlone'
  <2> SUFFICES ASSUME NEW v \in Threads, Opening(v)'
               PROVE  /\ \A w \in Threads : thr'[w].ref = thr'[v].ref => w = v
                      /\ \A u \in Repos : repos[u] # thr'[v].ref
                      /\ hook'[thr'[v].ref] = "none"
                      /\ inst'[thr'[v].ref].hooked <=> thr'[v].pc = "insert"
                      /\ inst'[thr'[v].ref].out => inst'[thr'[v].ref].early
    BY DEF OpeningAlone
  <2> DEFINE r == thr[v].ref
  <2>1. Opening(v) /\ thr'[v].ref = r /\ (thr'[v].pc = "insert" <=> thr[v].pc = "insert")
    BY DEF Stepped, MayHold, Opening
  <2>2. r \in Inst /\ r # NoInst
    BY <2>1 DEF RegistryInv, RegistryTypeOK, Requests, RefsName, Opening, Holding, Inst, NoInst
  <2>3. /\ \A w \in Threads : thr[w].ref = r => w = v
        /\ \A u \in Repos : repos[u] # r
        /\ hook[r] = "none"
        /\ inst[r].hooked <=> thr[v].pc = "insert"
        /\ inst[r].out => inst[r].early
    BY <2>1 DEF RegistryInv, OpeningAlone
  <2>4. \A w \in Threads : thr'[w].ref = r => w = v
    <3> SUFFICES ASSUME NEW w \in Threads, thr'[w].ref = r, w # v PROVE FALSE
      OBVIOUS
    <3>1. CASE w # t
      BY <3>1, <2>3 DEF Stepped
    <3>2. CASE w = t
      BY <3>2, <2>2, <2>3, <1>1 DEF Stepped, MayHold
    <3> QED BY <3>1, <3>2
  <2>5. /\ hook'[r] = "none"
        /\ inst'[r].hooked <=> thr'[v].pc = "insert"
        /\ inst'[r].out => inst'[r].early
    <3>1. inst'[r].hooked = inst[r].hooked
      BY <2>2 DEF SameOf
    <3>2. CASE InService(r)
      BY <3>1, <3>2, <2>1, <2>3 DEF InService
    <3>3. CASE WentOut(r) /\ InReach(t, r)
      <4>1. v = t
        BY <3>3, <2>3, <1>1 DEF InReach
      <4>2. thr[t].pc # "insert"
        BY <3>3, <2>3 DEF InReach
      <4> QED BY <4>1, <4>2, <3>1, <3>3, <2>1, <2>3 DEF WentOut
    <3> QED BY <3>2, <3>3, <2>2
  <2> QED BY <2>1, <2>3, <2>4, <2>5
<1>4. HookHolds' /\ LostHasItsUnload'
  <2>1. ASSUME NEW j \in Inst, hook'[j] \in {"holds", "listed"}, NEW u \in Repos
        PROVE  repos[u] # j
    BY <2>1 DEF InService, WentOut, RegistryInv, HookHolds
  <2>2. ASSUME NEW u \in Repos, repos[u] # NoInst
        PROVE  /\ inst'[repos[u]].hooked
               /\ inst'[repos[u]].out /\ ~inst'[repos[u]].early => hook'[repos[u]] = "spawned"
    <3>1. repos[u] \in Inst /\ inst[repos[u]].hooked
      BY <2>2 DEF RegistryInv, RegistryTypeOK, HookHolds
    <3>2. inst[repos[u]].out /\ ~inst[repos[u]].early => hook[repos[u]] = "spawned"
      BY <2>2 DEF RegistryInv, LostHasItsUnload
    <3> QED BY <3>1, <3>2 DEF SameOf, InService, WentOut
  <2> QED BY <2>1, <2>2 DEF HookHolds, LostHasItsUnload
<1>5. \A j \in Inst : Alive(j)' => Alive(j)
  BY NoNewHolder DEF InService, WentOut, MayHold
<1>6. ASSUME NEW v \in Threads, thr'[v].pc = "insert"
      PROVE  thr[v].pc = "insert" /\ thr'[v].u = thr[v].u
  <2>1. thr[v].pc = "insert"
    BY <1>6 DEF Stepped, MayHold, Opening
  <2> QED BY <1>1, <1>6, <2>1 DEF Stepped, MayHold, Holding
<1> QED BY <1>2, <1>3, <1>4, <1>5, <1>6

\* And it keeps the invariant.
LEMMA RequestKeeps ==
  ASSUME RegistryInv, NEW t \in Threads, NEW pc \in Pcs, NEW i \in {NoInst} \cup Inst,
         Stepped(t, pc, i), MayHold(t, pc, i),
         inst' \in [Inst -> Instances], hook' \in [Inst -> HookStates],
         \A j \in Inst : Served(j) /\ (InService(j) \/ (WentOut(j) /\ InReach(t, j))),
         UNCHANGED <<repos, lost, made, exists, place, store, spare, content, acked, raced>>
  PROVE  RegistryInv'
<1>1. RegistryTypeOK'
  BY DEF RegistryInv, RegistryTypeOK, Stepped
<1>2. /\ RefsName' /\ OpeningAlone' /\ HookHolds' /\ LostHasItsUnload'
      /\ \A j \in Inst : Alive(j)' => Alive(j)
      /\ \A v \in Threads : thr'[v].pc = "insert" => thr[v].pc = "insert" /\ thr'[v].u = thr[v].u
  BY HoldersKeep DEF Served
<1>3. StoresApart' /\ LostOrLoaded' /\ AckedKept'
  BY DEF RegistryInv, StoresApart, LostOrLoaded, AckedKept
<1>4. Opened' /\ OneOpener'
  <2>1. \A j \in Inst : inst'[j].uuid = inst[j].uuid /\ inst'[j].store = inst[j].store
    BY DEF Served, SameOf
  <2>2. OneOpener'
    BY <1>2, <2>1 DEF OneOpener, RegistryInv
  <2>3. ASSUME ~raced, NEW j \in Inst, Alive(j)'
        PROVE  /\ inst'[j].store = store[inst'[j].uuid]
               /\ exists[inst'[j].uuid]
               /\ inst'[j].mem # "no" => acked[inst'[j].uuid] \subseteq inst'[j].copy
    <3>1. /\ inst[j].store = store[inst[j].uuid] /\ exists[inst[j].uuid]
          /\ inst[j].mem # "no" => acked[inst[j].uuid] \subseteq inst[j].copy
      BY <2>3, <1>2 DEF RegistryInv, Opened
    <3>2. acked[inst[j].uuid] \subseteq content[store[inst[j].uuid]]
      BY <2>3 DEF RegistryInv, RegistryTypeOK, Instances, AckedKept
    <3> QED BY <3>1, <3>2, <2>1 DEF Served, SameOf
  <2> QED BY <2>2, <2>3 DEF Opened
<1>5. InsertUnlisted'
  BY <1>2 DEF RegistryInv, InsertUnlisted
<1> QED BY <1>1, <1>2, <1>3, <1>4, <1>5 DEF RegistryInv

-----------------------------------------------------------------------------
(* The steps of a request that are such steps. *)

\* What the invariant says of a request's fields.
LEMMA RequestTyped ==
  ASSUME RegistryInv, NEW t \in Threads
  PROVE  /\ thr \in [Threads -> Requests]
         /\ inst \in [Inst -> Instances]
         /\ hook \in [Inst -> HookStates]
         /\ thr[t].u \in Repos
         /\ thr[t].mem \in BOOLEAN
         /\ thr[t].ref \in {NoInst} \cup Inst
         /\ repos[thr[t].u] \in {NoInst} \cup Inst
         /\ thr[t].ref # NoInst <=> thr[t].pc \in Holding
         /\ thr[t].kind = "init" => thr[t].pc \in InitPath
         /\ thr[t].pc = "admit" => thr[t].kind \in {"data", "memory"}
BY DEF RegistryInv, RegistryTypeOK, RefsName, Requests

\* A step that changes the request only.
LEMMA QuietKeeps ==
  ASSUME RegistryInv, NEW t \in Threads, NEW pc \in Pcs, NEW i \in {NoInst} \cup Inst,
         Stepped(t, pc, i), MayHold(t, pc, i),
         UNCHANGED <<inst, hook, repos, lost, made, exists, place, store, spare, content,
                     acked, raced>>
  PROVE  RegistryInv'
<1>1. inst' \in [Inst -> Instances] /\ hook' \in [Inst -> HookStates]
  BY RequestTyped
<1>2. \A j \in Inst : Served(j) /\ InService(j)
  BY DEF Served, SameOf, InService
<1> QED BY <1>1, <1>2, RequestKeeps

\* An answer that changes nothing else.
LEMMA AnswerKeeps ==
  ASSUME RegistryInv, NEW t \in Threads, Answer(t), thr[t].pc # "insert",
         UNCHANGED <<inst, hook, repos, lost, made, exists, place, store, spare, content,
                     acked, raced>>
  PROVE  RegistryInv'
<1>1. Stepped(t, "idle", NoInst)
  BY RequestTyped, StepAnswer
<1>2. thr'[t].kind = "none"
  BY RequestTyped, IdleRequest DEF Answer
<1>3. MayHold(t, "idle", NoInst)
  BY <1>1, <1>2 DEF MayHold, Stepped, Holding, Opening
<1> QED BY <1>1, <1>3, QuietKeeps DEF Pcs

\* A step that goes on with what the request held, or with nothing.
LEMMA GotoKeeps ==
  ASSUME RegistryInv, NEW t \in Threads, NEW pc \in Pcs \ {"name", "register", "insert", "admit"},
         \/ Goto(t, pc) /\ (pc \in Holding <=> thr[t].pc \in Holding)
         \/ GotoHolding(t, pc, NoInst) /\ pc \notin Holding
         \/ GotoHolding(t, pc, repos[thr[t].u]) /\ (repos[thr[t].u] # NoInst <=> pc \in Holding),
         thr[t].pc # "insert", thr[t].kind # "init",
         UNCHANGED <<inst, hook, repos, lost, made, exists, place, store, spare, content,
                     acked, raced>>
  PROVE  RegistryInv'
<1>1. PICK i \in {NoInst, thr[t].ref, repos[thr[t].u]} :
        Stepped(t, pc, i) /\ (i # NoInst <=> pc \in Holding)
  BY RequestTyped, StepGoto, StepHolding
<1>2. i \in {NoInst} \cup Inst
  BY RequestTyped
<1>3. thr'[t].kind = "init" => pc = "init" /\ i = NoInst
  BY <1>1 DEF Stepped
<1>4. MayHold(t, pc, i)
  BY <1>1, <1>3 DEF MayHold, Stepped, Opening, InitPath
<1> QED BY <1>1, <1>2, <1>4, QuietKeeps

\* Asking for something.
LEMMA AskKeeps ==
  ASSUME RegistryInv, NEW t \in Threads, NEW kind \in DOMAIN FirstStep, NEW u \in Repos,
         NEW mem \in BOOLEAN, Ask(t, kind, u, mem)
  PROVE  RegistryInv'
<1>1. /\ FirstStep[kind] \in Pcs \ Holding /\ (kind = "init" => FirstStep[kind] = "init")
      /\ FirstStep[kind] = "admit" => kind \in {"data", "memory"}
  BY DEF FirstStep, Pcs, Holding
<1>2. Stepped(t, FirstStep[kind], NoInst) /\ thr'[t].kind = kind
  BY <1>1, RequestTyped, IdleRequest DEF Ask, Stepped, Requests, NoInst
<1>3. MayHold(t, FirstStep[kind], NoInst)
  BY <1>1, <1>2 DEF MayHold, Stepped, Opening, InitPath, Ask, At, Holding
<1> QED BY <1>1, <1>2, <1>3, QuietKeeps DEF Ask

\* The steps that look, wait or let go.
LEMMA LooksKeep ==
  ASSUME RegistryInv, NEW t \in Threads,
         \/ LoadLook(t) \/ LoadLetGo(t) \/ WarmLook(t) \/ UnloadDrop(t) \/ RestoreLook(t)
         \/ ReleaseAwait(t) \/ Serve(t)
  PROVE  RegistryInv'
<1>1. thr[t].kind # "init" /\ thr[t].pc # "insert"
  BY RequestTyped DEF LoadLook, LoadLetGo, WarmLook, UnloadDrop, RestoreLook, ReleaseAwait,
                      Serve, At, InitPath
<1>2. UNCHANGED <<inst, hook, repos, lost, made, exists, place, store, spare, content,
                  acked, raced>>
  BY DEF LoadLook, LoadLetGo, WarmLook, UnloadDrop, RestoreLook, ReleaseAwait, Serve, world
<1>3. Answer(t) => RegistryInv'
  BY <1>1, <1>2, AnswerKeeps
<1>4. ASSUME LoadLook(t) PROVE RegistryInv'
  BY <1>1, <1>2, <1>4, GotoKeeps DEF LoadLook, Holding, Pcs
<1>5. ASSUME LoadLetGo(t) PROVE RegistryInv'
  BY <1>1, <1>2, <1>5, GotoKeeps DEF LoadLetGo, Holding, Pcs
<1>6. ASSUME WarmLook(t) PROVE RegistryInv'
  BY <1>1, <1>2, <1>3, <1>6, GotoKeeps DEF WarmLook, Holding, Pcs
<1>7. ASSUME UnloadDrop(t) PROVE RegistryInv'
  BY <1>1, <1>2, <1>3, <1>7, GotoKeeps DEF UnloadDrop, Unloaded, Holding, Pcs
<1>8. ASSUME RestoreLook(t) PROVE RegistryInv'
  BY <1>1, <1>2, <1>8, GotoKeeps DEF RestoreLook, At, Holding, Pcs
<1>9. ASSUME ReleaseAwait(t) PROVE RegistryInv'
  BY <1>1, <1>2, <1>3, <1>9, GotoKeeps DEF ReleaseAwait, At, Holding, Pcs
<1>10. ASSUME Serve(t) PROVE RegistryInv'
  BY <1>3, <1>10 DEF Serve
<1> QED BY <1>4, <1>5, <1>6, <1>7, <1>8, <1>9, <1>10

\* release_within remembers which instance it waits for.
LEMMA ReleaseKeeps ==
  ASSUME RegistryInv, NEW t \in Threads, Release(t)
  PROVE  RegistryInv'
<1>1. UNCHANGED <<inst, hook, repos, lost, made, exists, place, store, spare, content,
                  acked, raced>> /\ thr[t].pc = "release"
  BY DEF Release, world, At
<1>2. CASE Answer(t)
  BY <1>1, <1>2, AnswerKeeps
<1>3. CASE ~Answer(t)
  <2>1. thr[t].ref = NoInst /\ thr[t].kind # "init"
    BY <1>1, RequestTyped DEF Holding, InitPath
  <2>2. repos[thr[t].u] \in Inst
        /\ thr' = [thr EXCEPT ![t].pc = "unlist", ![t].weak = repos[thr[t].u]]
    BY <1>3, RequestTyped DEF Release
  <2>3. Stepped(t, "unlist", NoInst) /\ thr'[t].kind = thr[t].kind
    BY <2>1, <2>2, RequestTyped DEF Stepped, Requests, Pcs
  <2>4. MayHold(t, "unlist", NoInst)
    BY <1>1, <2>1, <2>3 DEF MayHold, Stepped, Opening, Holding
  <2> QED BY <1>1, <2>3, <2>4, QuietKeeps DEF Pcs
<1> QED BY <1>2, <1>3

-----------------------------------------------------------------------------
(* The steps that change an instance. *)

\* r is the instance k with other flags, or with its store read in.
Alike(r, k) ==
  /\ r \in Instances
  /\ r.uuid = inst[k].uuid /\ r.store = inst[k].store /\ r.hooked = inst[k].hooked
  /\ r.out = inst[k].out /\ r.early = inst[k].early
  /\ r.mem # "no" => \/ inst[k].mem # "no" /\ r.copy = inst[k].copy
                     \/ r.copy = content[inst[k].store]

\* Flags change nothing that matters here, nor does reading in, nor letting go
\* of the copy.
LEMMA FlagsAlike ==
  ASSUME RegistryInv, NEW k \in Inst, NEW b \in BOOLEAN, NEW t
  PROVE  /\ Alike(inst[k], k)
         /\ Alike([inst[k] EXCEPT !.ready = b], k)
         /\ Alike([inst[k] EXCEPT !.task = b], k)
         /\ \A p \in {"home", "away"} : Alike([inst[k] EXCEPT !.root = p, !.inMemory = b], k)
         /\ Alike(TaskOver(t, inst[k]), k)
         /\ Alike(TaskOver(t, [inst[k] EXCEPT !.ready = b]), k)
         /\ Alike(ReadIn(inst[k]), k)
         /\ Alike([ReadIn(inst[k]) EXCEPT !.inMemory = b], k)
         /\ Alike([[inst[k] EXCEPT !.mem = "no", !.copy = {}] EXCEPT !.inMemory = b], k)
<1> DEFINE q == inst[k]
<1>1. q \in Instances /\ RegistryTypeOK
  BY DEF RegistryInv, RegistryTypeOK
<1>2. /\ Alike(q, k) /\ Alike([q EXCEPT !.ready = b], k) /\ Alike([q EXCEPT !.task = b], k)
      /\ \A p \in {"home", "away"} : Alike([q EXCEPT !.root = p, !.inMemory = b], k)
  <2>1. Alike(q, k)
    BY <1>1 DEF Alike, Instances
  <2>2. Alike([q EXCEPT !.ready = b], k)
    BY <1>1 DEF Alike, Instances
  <2>3. Alike([q EXCEPT !.task = b], k)
    BY <1>1 DEF Alike, Instances
  <2>4. ASSUME NEW p \in {"home", "away"} PROVE Alike([q EXCEPT !.root = p, !.inMemory = b], k)
    BY <1>1 DEF Alike, Instances
  <2> QED BY <2>1, <2>2, <2>3, <2>4
<1>3. Alike(TaskOver(t, q), k)
  BY <1>1, TaskOverTyped DEF Alike, Instances
<1>4. Alike(TaskOver(t, [q EXCEPT !.ready = b]), k)
  <2>1. [q EXCEPT !.ready = b] \in Instances
    BY <1>1, FlagsTyped
  <2> QED BY <1>1, <2>1, TaskOverTyped DEF Alike, Instances
<1>5. Alike(ReadIn(q), k) /\ ReadIn(q) \in Instances
  BY <1>1, ReadInTyped DEF Alike, Instances
<1>6. Alike([ReadIn(q) EXCEPT !.inMemory = b], k)
  <2>1. ASSUME NEW r \in Instances, Alike(r, k) PROVE Alike([r EXCEPT !.inMemory = b], k)
    BY <2>1 DEF Alike, Instances
  <2> QED BY <1>5, <2>1
<1>7. Alike([[q EXCEPT !.mem = "no", !.copy = {}] EXCEPT !.inMemory = b], k)
  BY <1>1 DEF Alike, Instances
<1> QED BY <1>2, <1>3, <1>4, <1>5, <1>6, <1>7

\* An instance replaced by one alike serves as it did.
LEMMA ChangeServes ==
  ASSUME RegistryInv, NEW k \in Inst, NEW r, Alike(r, k),
         inst' = [inst EXCEPT ![k] = r], hook' = hook
  PROVE  /\ inst' \in [Inst -> Instances] /\ hook' \in [Inst -> HookStates]
         /\ \A j \in Inst : Served(j) /\ InService(j)
<1>1. inst \in [Inst -> Instances] /\ hook \in [Inst -> HookStates]
  BY DEF RegistryInv, RegistryTypeOK
<1>2. inst' \in [Inst -> Instances]
  BY <1>1 DEF Alike
<1> QED BY <1>1, <1>2 DEF Alike, Served, SameOf, InService

\* So does one taken out of service.
LEMMA TakeOutServes ==
  ASSUME RegistryInv, NEW k \in Inst, NEW r, Alike(r, k),
         inst' = [inst EXCEPT ![k] = TakenOut(r)], hook' = Spawned(k)
  PROVE  /\ inst' \in [Inst -> Instances] /\ hook' \in [Inst -> HookStates]
         /\ \A j \in Inst : Served(j) /\ (InService(j) \/ (WentOut(j) /\ j = k))
<1> DEFINE q == TakenOut(r)
<1>1. inst \in [Inst -> Instances] /\ hook \in [Inst -> HookStates] /\ r \in Instances
  BY DEF RegistryInv, RegistryTypeOK, Alike
<1>2. /\ q \in Instances /\ q = [r EXCEPT !.out = TRUE, !.early = q.early]
      /\ q.early <=> (r.early \/ (~r.out /\ ~r.hooked))
  BY <1>1, TakenOutTyped
<1>3. inst' \in [Inst -> Instances] /\ inst'[k] = q /\ \A j \in Inst : j # k => inst'[j] = inst[j]
  BY <1>1, <1>2
<1>4. hook' \in [Inst -> HookStates] /\ \A j \in Inst : j # k => hook'[j] = hook[j]
  BY <1>1 DEF Spawned, HookStates
<1>5. /\ ~inst[k].out /\ inst[k].hooked => hook'[k] = "spawned"
      /\ inst[k].out \/ ~inst[k].hooked => hook'[k] = hook[k]
  BY <1>1 DEF Spawned
<1>6. /\ q.uuid = r.uuid /\ q.store = r.store /\ q.hooked = r.hooked /\ q.mem = r.mem
      /\ q.copy = r.copy /\ q.out = TRUE
  BY <1>1, <1>2 DEF Instances
<1>7. \A j \in Inst : Served(j)
  BY <1>3, <1>6 DEF Served, SameOf, Alike
<1>8. \A j \in Inst : j # k => InService(j)
  BY <1>3, <1>4 DEF InService
<1>9. InService(k) \/ WentOut(k)
  <2>1. /\ inst'[k].out = TRUE /\ inst'[k].early = q.early
        /\ r.out = inst[k].out /\ r.early = inst[k].early /\ r.hooked = inst[k].hooked
        /\ {r.out, r.early, r.hooked, q.early} \subseteq BOOLEAN
    BY <1>1, <1>2, <1>3, <1>6 DEF Alike, Instances
  <2> QED BY <1>2, <1>5, <2>1, Zenon DEF InService, WentOut
<1> QED BY <1>3, <1>4, <1>7, <1>8, <1>9

\* An answer, with an instance changed or taken out of service.
LEMMA AnswerServes ==
  ASSUME RegistryInv, NEW t \in Threads, Answer(t), thr[t].pc # "insert",
         inst' \in [Inst -> Instances], hook' \in [Inst -> HookStates],
         \A j \in Inst : Served(j) /\ (InService(j) \/ (WentOut(j) /\ InReach(t, j))),
         UNCHANGED <<repos, lost, made, exists, place, store, spare, content, acked, raced>>
  PROVE  RegistryInv'
<1>1. Stepped(t, "idle", NoInst)
  BY RequestTyped, StepAnswer
<1>2. thr'[t].kind = "none"
  BY RequestTyped, IdleRequest DEF Answer
<1>3. MayHold(t, "idle", NoInst)
  BY <1>1, <1>2 DEF MayHold, Stepped, Holding, Opening
<1> QED BY <1>1, <1>3, RequestKeeps DEF Pcs

\* A step that goes on with the instance it holds, changed.
LEMMA GotoServes ==
  ASSUME RegistryInv, NEW t \in Threads, NEW pc \in Pcs \cap Holding, Goto(t, pc),
         thr[t].pc \in Holding \ {"insert"}, pc \notin {"insert", "admit"},
         \/ thr[t].kind # "init" /\ pc \notin {"name", "register"}
         \/ Opening(t) /\ pc \in InitPath,
         inst' \in [Inst -> Instances], hook' \in [Inst -> HookStates],
         \A j \in Inst : Served(j) /\ (InService(j) \/ (WentOut(j) /\ InReach(t, j))),
         UNCHANGED <<repos, lost, made, exists, place, store, spare, content, acked, raced>>
  PROVE  RegistryInv'
<1>1. Stepped(t, pc, thr[t].ref) /\ thr[t].ref # NoInst
  BY RequestTyped, StepGoto
<1>2. thr'[t].kind = thr[t].kind
  BY <1>1 DEF Stepped
<1>3. MayHold(t, pc, thr[t].ref)
  BY <1>1, <1>2, RequestTyped DEF MayHold, Stepped, Opening, InitPath
<1> QED BY <1>1, <1>3, RequestTyped, RequestKeeps

\* A load that finds the repository loaded: present, or lost.
LEMMA LoadCheckKeeps ==
  ASSUME RegistryInv, NEW t \in Threads, LoadCheck(t)
  PROVE  RegistryInv'
<1> DEFINE i == thr[t].ref
<1>1. /\ thr[t].pc = "check" /\ i \in Inst /\ thr[t].kind # "init"
      /\ UNCHANGED <<repos, lost, made, exists, place, store, spare, content, acked, raced>>
  BY RequestTyped DEF LoadCheck, At, world, Holding, InitPath
<1>2. CASE Present(i)
  BY <1>1, <1>2, AnswerKeeps, GotoKeeps DEF LoadCheck, Pcs, Holding
<1>3. CASE ~Present(i)
  <2>1. GotoHolding(t, "remove", NoInst) /\ TakeOutOfService(i)
    BY <1>3 DEF LoadCheck
  <2>2. /\ inst' \in [Inst -> Instances] /\ hook' \in [Inst -> HookStates]
        /\ \A j \in Inst : Served(j) /\ (InService(j) \/ (WentOut(j) /\ j = i))
    BY <1>1, <2>1, FlagsAlike, TakeOutServes DEF TakeOutOfService
  <2>3. Stepped(t, "remove", NoInst)
    BY <2>1, RequestTyped, StepHolding DEF Pcs
  <2>4. MayHold(t, "remove", NoInst)
    BY <1>1, <2>3 DEF MayHold, Stepped, Opening, Holding
  <2>5. InReach(t, i)
    BY <1>1 DEF InReach
  <2> QED BY <1>1, <2>2, <2>3, <2>4, <2>5, RequestKeeps DEF Pcs
<1> QED BY <1>2, <1>3

\* The checks between the open and the registration.
LEMMA OpenedNameKeeps ==
  ASSUME RegistryInv, NEW t \in Threads, OpenedName(t)
  PROVE  RegistryInv'
<1> DEFINE i == thr[t].ref
           r == [inst[i] EXCEPT !.root = place[thr[t].u], !.inMemory = thr[t].mem]
           pc == IF thr[t].kind = "init" THEN "warmup" ELSE "register"
<1>1. /\ thr[t].pc = "name" /\ i \in Inst
      /\ UNCHANGED <<hook, repos, lost, made, exists, place, store, spare, content, acked, raced>>
  BY RequestTyped DEF OpenedName, At, world, Holding
<1>2. CASE Answer(t) /\ UNCHANGED inst
  BY <1>1, <1>2, AnswerKeeps
<1>3. CASE ~(Answer(t) /\ UNCHANGED inst)
  <2>1. /\ inst' = [inst EXCEPT ![i].root = place[thr[t].u], ![i].inMemory = thr[t].mem]
        /\ Goto(t, pc)
    BY <1>3 DEF OpenedName
  <2>2. inst' = [inst EXCEPT ![i] = r]
    BY <1>1, <2>1, RequestTyped DEF Instances
  <2>3. Alike(r, i)
    BY <1>1, RequestTyped, FlagsAlike DEF RegistryInv, RegistryTypeOK
  <2>4. Opening(t)
    BY <1>1 DEF Opening
  <2>5. pc \in Pcs \cap Holding /\ pc # "insert" /\ pc \in InitPath
    BY DEF Pcs, Holding, InitPath
  <2>6. /\ inst' \in [Inst -> Instances] /\ hook' \in [Inst -> HookStates]
        /\ \A j \in Inst : Served(j) /\ InService(j)
    BY <1>1, <2>2, <2>3, ChangeServes
  <2> QED BY <1>1, <2>1, <2>4, <2>5, <2>6, GotoServes DEF Holding
<1> QED BY <1>2, <1>3

\* The steps of a warmup.
LEMMA WarmsKeep ==
  ASSUME RegistryInv, NEW t \in Threads, WarmClaim(t) \/ WarmFails(t) \/ Warmup(t)
  PROVE  RegistryInv'
<1> DEFINE i == thr[t].ref
<1>1. /\ thr[t].pc \in {"claim", "warmup", "activate"} /\ i \in Inst
      /\ UNCHANGED <<hook, repos, lost, made, exists, place, store, spare, content, acked, raced>>
  BY RequestTyped DEF WarmClaim, WarmFails, Warmup, At, world, Holding
<1>2. thr[t].kind # "init" \/ Opening(t)
  BY <1>1, RequestTyped DEF Opening, InitPath
<1>3. CASE WarmClaim(t)
  <2>1. thr[t].kind # "init" /\ thr[t].pc = "claim"
    BY <1>3, RequestTyped DEF WarmClaim, At, InitPath
  <2>2. CASE Answer(t) /\ UNCHANGED inst
    BY <1>1, <2>2, AnswerKeeps
  <2>3. CASE inst' = [inst EXCEPT ![i].task = TRUE] /\ Goto(t, "warmup")
    <3>1. inst' = [inst EXCEPT ![i] = [inst[i] EXCEPT !.task = TRUE]]
      BY <1>1, <2>3, RequestTyped DEF Instances
    <3>2. /\ inst' \in [Inst -> Instances] /\ hook' \in [Inst -> HookStates]
          /\ \A j \in Inst : Served(j) /\ InService(j)
      BY <1>1, <3>1, FlagsAlike, ChangeServes
    <3> QED BY <1>1, <2>1, <2>3, <3>2, GotoServes DEF Holding, Pcs
  <2> QED BY <1>3, <2>2, <2>3 DEF WarmClaim
<1>4. CASE WarmFails(t)
  <2>1. inst' = [inst EXCEPT ![i] = TaskOver(t, inst[i])] /\ Answer(t)
    BY <1>4, <1>1, RequestTyped DEF WarmFails
  <2>2. /\ inst' \in [Inst -> Instances] /\ hook' \in [Inst -> HookStates]
        /\ \A j \in Inst : Served(j) /\ InService(j)
    BY <1>1, <2>1, FlagsAlike, ChangeServes
  <2> QED BY <1>1, <2>1, <2>2, AnswerServes
<1>5. CASE Warmup(t)
  <2>1. PICK r : Alike(r, i) /\ inst' = [inst EXCEPT ![i] = r]
    BY <1>5, <1>1, RequestTyped, FlagsAlike DEF Warmup
  <2>2. /\ inst' \in [Inst -> Instances] /\ hook' \in [Inst -> HookStates]
        /\ \A j \in Inst : Served(j) /\ InService(j)
    BY <1>1, <2>1, ChangeServes
  <2>3. Goto(t, "activate")
    BY <1>5 DEF Warmup
  <2> QED BY <1>1, <1>2, <2>2, <2>3, GotoServes DEF Holding, Pcs, InitPath
<1> QED BY <1>3, <1>4, <1>5

\* The end of a warmup, which may find the root gone.
LEMMA ActivateKeeps ==
  ASSUME RegistryInv, NEW t \in Threads, Activate(t)
  PROVE  RegistryInv'
<1> DEFINE i == thr[t].ref
           r == TaskOver(t, [inst[i] EXCEPT !.ready = TRUE])
<1>1. /\ thr[t].pc = "activate" /\ i \in Inst
      /\ UNCHANGED <<repos, lost, made, exists, place, store, spare, content, acked, raced>>
  BY RequestTyped DEF Activate, At, world, Holding
<1>2. Alike(r, i)
  BY <1>1, FlagsAlike
<1>3. /\ inst' \in [Inst -> Instances] /\ hook' \in [Inst -> HookStates]
      /\ \A j \in Inst : Served(j) /\ (InService(j) \/ (WentOut(j) /\ j = i))
  <2>1. CASE Present(i)
    BY <1>1, <1>2, <2>1, ChangeServes DEF Activate
  <2>2. CASE ~Present(i)
    BY <1>1, <1>2, <2>2, TakeOutServes DEF Activate
  <2> QED BY <2>1, <2>2
<1>4. InReach(t, i)
  BY <1>1 DEF InReach
<1>5. CASE thr[t].kind = "init"
  <2>1. Goto(t, "register") /\ Opening(t)
    BY <1>1, <1>5 DEF Activate, Opening
  <2> QED BY <1>1, <1>3, <1>4, <2>1, GotoServes DEF Holding, Pcs, InitPath
<1>6. CASE thr[t].kind # "init"
  <2>1. Answer(t)
    BY <1>6 DEF Activate
  <2> QED BY <1>1, <1>3, <1>4, <2>1, AnswerServes
<1> QED BY <1>5, <1>6

\* A request let in, or one that finds the root gone.
LEMMA AdmitKeeps ==
  ASSUME RegistryInv, NEW t \in Threads, Admit(t)
  PROVE  RegistryInv'
<1> DEFINE i == repos[thr[t].u]
<1>1. /\ thr[t].pc = "admit" /\ thr[t].kind \in {"data", "memory"}
      /\ UNCHANGED <<repos, lost, made, exists, place, store, spare, content, acked, raced>>
  BY RequestTyped DEF Admit, At, world
<1>2. CASE Answer(t) /\ UNCHANGED <<inst, hook>>
  BY <1>1, <1>2, AnswerKeeps
<1>3. CASE GotoHolding(t, thr[t].kind, i) /\ UNCHANGED <<inst, hook>> /\ i # NoInst
  BY <1>1, <1>3, GotoKeeps DEF Pcs, Holding
<1>4. CASE Answer(t) /\ TakeOutOfService(i) /\ i # NoInst
  <2>1. i \in Inst /\ thr[t].u \in Repos
    BY <1>4, RequestTyped
  <2>2. /\ inst' \in [Inst -> Instances] /\ hook' \in [Inst -> HookStates]
        /\ \A j \in Inst : Served(j) /\ (InService(j) \/ (WentOut(j) /\ j = i))
    BY <1>4, <2>1, FlagsAlike, TakeOutServes DEF TakeOutOfService
  <2>3. InReach(t, i)
    BY <2>1 DEF InReach
  <2> QED BY <1>1, <1>4, <2>2, <2>3, AnswerServes
<1> QED BY <1>2, <1>3, <1>4 DEF Admit

\* The switch to memory and back.
LEMMA SetInMemoryKeeps ==
  ASSUME RegistryInv, NEW t \in Threads, SetInMemory(t)
  PROVE  RegistryInv'
<1> DEFINE i == thr[t].ref
<1>1. /\ thr[t].pc = "memory" /\ i \in Inst /\ thr[t].mem \in BOOLEAN
      /\ UNCHANGED <<hook, repos, lost, made, exists, place, store, spare, content, acked, raced>>
  BY RequestTyped DEF SetInMemory, At, world, Holding
<1>2. PICK r : Alike(r, i) /\ inst' = [inst EXCEPT ![i] = r]
  <2>1. CASE UNCHANGED inst
    BY <1>1, <2>1, RequestTyped, FlagsAlike
  <2>2. CASE ~UNCHANGED inst
    <3>1. CASE thr[t].mem
      BY <1>1, <2>2, <3>1, RequestTyped, FlagsAlike DEF SetInMemory
    <3>2. CASE ~thr[t].mem
      BY <1>1, <2>2, <3>2, RequestTyped, FlagsAlike DEF SetInMemory
    <3> QED BY <3>1, <3>2
  <2> QED BY <2>1, <2>2
<1>3. /\ inst' \in [Inst -> Instances] /\ hook' \in [Inst -> HookStates]
      /\ \A j \in Inst : Served(j) /\ InService(j)
  BY <1>1, <1>2, ChangeServes
<1> QED BY <1>1, <1>3, AnswerServes DEF SetInMemory

\* The flush that finds the root gone.
LEMMA FlushKeeps ==
  ASSUME RegistryInv, NEW i \in Inst, Flush(i)
  PROVE  RegistryInv'
<1>1. /\ UNCHANGED <<repos, lost, made, exists, place, store, spare, content, acked, raced, thr>>
      /\ TakeOutOfService(i) /\ \E u \in Repos : repos[u] = i
  BY DEF Flush, world
<1>2. PICK t \in Threads : TRUE
  BY RegistryAssumption
<1>3. /\ inst' \in [Inst -> Instances] /\ hook' \in [Inst -> HookStates]
      /\ \A j \in Inst : Served(j) /\ (InService(j) \/ (WentOut(j) /\ j = i))
  BY <1>1, FlagsAlike, TakeOutServes DEF TakeOutOfService
<1>4. Stepped(t, thr[t].pc, thr[t].ref) /\ MayHold(t, thr[t].pc, thr[t].ref)
  BY <1>1, RequestTyped DEF Stepped, MayHold, Opening
<1>5. InReach(t, i)
  BY <1>1 DEF InReach
<1>6. thr[t].pc \in Pcs /\ thr[t].ref \in {NoInst} \cup Inst
  BY RequestTyped DEF Requests
<1> QED BY <1>1, <1>3, <1>4, <1>5, <1>6, RequestKeeps

-----------------------------------------------------------------------------
(* The steps that change the list or the stores. *)

\* What is open stays as it was while nobody opens anything.
LEMMA OpenedFrame ==
  ASSUME RegistryInv, \A j \in Inst : Alive(j)' => Alive(j),
         \A j \in Inst : /\ inst'[j].uuid = inst[j].uuid /\ inst'[j].store = inst[j].store
                         /\ inst'[j].mem = inst[j].mem /\ inst'[j].copy = inst[j].copy,
         UNCHANGED <<store, exists, acked, raced>>
  PROVE  Opened' /\ OneOpener'
<1>1. OneOpener'
  BY DEF RegistryInv, OneOpener
<1>2. ASSUME ~raced, NEW j \in Inst, Alive(j)'
      PROVE  /\ inst'[j].store = store[inst'[j].uuid] /\ exists[inst'[j].uuid]
             /\ inst'[j].mem # "no" => acked[inst'[j].uuid] \subseteq inst'[j].copy
  BY <1>2 DEF RegistryInv, Opened
<1> QED BY <1>1, <1>2 DEF Opened

\* One listed as lost is forgotten.
LEMMA UnloadLostKeeps ==
  ASSUME RegistryInv, NEW t \in Threads, UnloadLost(t)
  PROVE  RegistryInv'
<1>1. /\ thr[t].pc = "unlist" /\ thr[t].kind # "init"
      /\ UNCHANGED <<inst, hook, repos, made, exists, place, store, spare, content, acked, raced>>
  BY RequestTyped DEF UnloadLost, At, world, InitPath
<1>2. CASE UNCHANGED lost /\ Goto(t, "unload")
  BY <1>1, <1>2, GotoKeeps DEF Pcs, Holding
<1>3. CASE lost' = lost \ {thr[t].u} /\ Unloaded(t)
  <2>1. PICK pc \in {"idle", "await"} : Stepped(t, pc, NoInst) /\ MayHold(t, pc, NoInst)
    <3>1. CASE thr[t].kind = "restore"
      <4>1. Stepped(t, "await", NoInst) /\ thr'[t].kind # "init"
        BY <1>1, <1>3, <3>1, RequestTyped, StepHolding DEF Unloaded, Pcs, Stepped
      <4> QED BY <4>1 DEF MayHold, Stepped, Opening, Holding
    <3>2. CASE thr[t].kind # "restore"
      <4>1. Stepped(t, "idle", NoInst) /\ thr'[t].kind = "none"
        BY <1>3, <3>2, RequestTyped, StepAnswer, IdleRequest DEF Unloaded, Answer
      <4> QED BY <4>1 DEF MayHold, Stepped, Opening, Holding
    <3> QED BY <3>1, <3>2
  <2>2. \A j \in Inst : Served(j) /\ InService(j)
    BY <1>1 DEF Served, SameOf, InService
  <2>3. /\ RefsName' /\ OpeningAlone' /\ HookHolds' /\ LostHasItsUnload'
        /\ \A j \in Inst : Alive(j)' => Alive(j)
        /\ \A v \in Threads : thr'[v].pc = "insert" => thr[v].pc = "insert" /\ thr'[v].u = thr[v].u
    BY <1>1, <2>1, <2>2, HoldersKeep DEF Pcs, Served
  <2>4. RegistryTypeOK'
    BY <1>1, <1>3, <2>1 DEF RegistryInv, RegistryTypeOK, Stepped
  <2>5. Opened' /\ OneOpener'
    BY <1>1, <2>3, OpenedFrame
  <2>6. StoresApart' /\ LostOrLoaded' /\ AckedKept' /\ InsertUnlisted'
    BY <1>1, <1>3, <2>3 DEF RegistryInv, StoresApart, LostOrLoaded, AckedKept, InsertUnlisted
  <2> QED BY <2>3, <2>4, <2>5, <2>6 DEF RegistryInv
<1> QED BY <1>2, <1>3 DEF UnloadLost

\* The store of a repository is replaced by one that holds a backup.
LEMMA RestoreSwapKeeps ==
  ASSUME RegistryInv, NEW t \in Threads, RestoreSwap(t)
  PROVE  RegistryInv'
<1> DEFINE u == thr[t].u
<1>1. /\ thr[t].pc = "swap" /\ thr[t].kind # "init" /\ u \in Repos
      /\ UNCHANGED <<inst, hook, repos, lost, made, exists, place, content>>
  BY RequestTyped DEF RestoreSwap, At, InitPath
<1>2. CASE UNCHANGED <<store, spare, acked, raced>>
                /\ (Answer(t) \/ GotoHolding(t, "look", NoInst))
  BY <1>1, <1>2, AnswerKeeps, GotoKeeps DEF Pcs, Holding
<1>3. CASE /\ spare > 0 /\ store' = [store EXCEPT ![u] = spare] /\ spare' = 0
           /\ acked' = [acked EXCEPT ![u] = {}]
           /\ raced' = (raced \/ ~Unlocked(store[u]))
           /\ GotoHolding(t, "look", NoInst)
  <2>1. Stepped(t, "look", NoInst) /\ thr'[t].kind # "init"
    BY <1>1, <1>3, RequestTyped, StepHolding DEF Pcs, Stepped
  <2>2. MayHold(t, "look", NoInst)
    BY <2>1 DEF MayHold, Stepped, Opening, Holding
  <2>3. \A j \in Inst : Served(j) /\ InService(j)
    BY <1>1 DEF Served, SameOf, InService
  <2>4. /\ RefsName' /\ OpeningAlone' /\ HookHolds' /\ LostHasItsUnload'
        /\ \A j \in Inst : Alive(j)' => Alive(j)
        /\ \A v \in Threads : thr'[v].pc = "insert" => thr[v].pc = "insert" /\ thr'[v].u = thr[v].u
    BY <1>1, <2>1, <2>2, <2>3, HoldersKeep DEF Pcs, Served
  <2>5. raced' \in BOOLEAN
    BY <1>3
  <2>6. RegistryTypeOK'
    BY <1>1, <1>3, <2>1, <2>5 DEF RegistryInv, RegistryTypeOK, Stepped, Stores
  <2>7. StoresApart'
    <3>1. store \in [Repos -> Stores] /\ 0 \notin Stores /\ spare \in Stores
      BY <1>3, RegistryAssumption, FS_CardinalityType DEF RegistryInv, RegistryTypeOK, Stores
    <3> QED BY <1>1, <1>3, <3>1 DEF RegistryInv, StoresApart
  <2>8. ~raced' => ~raced /\ \A j \in Inst : Alive(j) => inst[j].uuid # u
    <3>1. ~raced' => ~raced /\ Unlocked(store[u])
      BY <1>3
    <3> QED BY <3>1 DEF RegistryInv, Opened, Unlocked
  <2>9. OneOpener'
    BY <1>1, <2>4, <2>8 DEF RegistryInv, OneOpener
  <2>10. Opened'
    <3>1. ASSUME ~raced', NEW j \in Inst, Alive(j)'
          PROVE  /\ inst[j].store = store'[inst[j].uuid] /\ exists[inst[j].uuid]
                 /\ inst[j].mem # "no" => acked'[inst[j].uuid] \subseteq inst[j].copy
      <4>1. /\ inst[j].uuid # u /\ inst[j].uuid \in Repos
            /\ inst[j].store = store[inst[j].uuid] /\ exists[inst[j].uuid]
            /\ inst[j].mem # "no" => acked[inst[j].uuid] \subseteq inst[j].copy
        BY <2>4, <2>8, <3>1 DEF RegistryInv, RegistryTypeOK, Instances, Opened
      <4> QED BY <1>3, <4>1 DEF RegistryInv, RegistryTypeOK
    <3> QED BY <1>1, <3>1 DEF Opened
  <2>11. LostOrLoaded' /\ InsertUnlisted'
    BY <1>1, <2>4, <2>8 DEF RegistryInv, LostOrLoaded, InsertUnlisted
  <2>12. AckedKept'
    BY <1>1, <1>3, <2>8 DEF RegistryInv, RegistryTypeOK, AckedKept
  <2> QED BY <2>4, <2>6, <2>7, <2>9, <2>10, <2>11, <2>12 DEF RegistryInv
<1> QED BY <1>2, <1>3 DEF RestoreSwap

\* A write: the disk, then the copy, which may refuse it.
LEMMA WriteKeeps ==
  ASSUME RegistryInv, NEW t \in Threads, NEW w \in Writes, Write(t, w)
  PROVE  RegistryInv'
<1> DEFINE i == thr[t].ref
           u == thr[t].u
           s == inst[i].store
<1>1. /\ thr[t].pc = "data" /\ i \in Inst /\ i # NoInst /\ u \in Repos
      /\ inst[i].mem # "behind" /\ Answer(t)
      /\ content' = [content EXCEPT ![s] = @ \cup {w}]
      /\ UNCHANGED <<repos, lost, made, exists, place, store, spare, raced>>
  BY RequestTyped DEF Write, At, Holding
<1>2. inst[i].uuid = u /\ Alive(i) /\ inst[i] \in Instances
  BY <1>1 DEF RegistryInv, RegistryTypeOK, RefsName, Alive
<1>3. Stepped(t, "idle", NoInst) /\ MayHold(t, "idle", NoInst)
  <2>1. Stepped(t, "idle", NoInst) /\ thr'[t].kind = "none"
    BY <1>1, RequestTyped, StepAnswer, IdleRequest DEF Answer
  <2> QED BY <2>1 DEF MayHold, Stepped, Opening, Holding
<1>4. content' \in [Stores -> SUBSET Writes] /\ \A q \in Stores : content[q] \subseteq content'[q]
  BY <1>1 DEF RegistryInv, RegistryTypeOK
<1>5. CASE /\ acked' = [acked EXCEPT ![u] = @ \cup {w}]
           /\ inst' = [inst EXCEPT ![i].copy = IF inst[i].mem = "held" THEN @ \cup {w} ELSE @]
           /\ UNCHANGED hook
  <2> DEFINE r == [inst[i] EXCEPT !.copy = IF inst[i].mem = "held" THEN inst[i].copy \cup {w}
                                           ELSE inst[i].copy]
  <2>1. inst' = [inst EXCEPT ![i] = r]
    BY <1>1, <1>5, RequestTyped DEF Instances
  <2>2. r \in Instances
    BY <1>2 DEF Instances
  <2>3. inst' \in [Inst -> Instances] /\ inst'[i] = r /\ \A j \in Inst : j # i => inst'[j] = inst[j]
    BY <1>1, <2>1, <2>2, RequestTyped
  <2>4. /\ r.uuid = inst[i].uuid /\ r.store = inst[i].store /\ r.hooked = inst[i].hooked
        /\ r.out = inst[i].out /\ r.early = inst[i].early /\ r.mem = inst[i].mem
        /\ inst[i].mem = "held" => r.copy = inst[i].copy \cup {w}
        /\ inst[i].mem # "held" => r.copy = inst[i].copy
    BY <1>2 DEF Instances
  <2>5. \A j \in Inst : /\ inst'[j].uuid = inst[j].uuid /\ inst'[j].store = inst[j].store
                        /\ inst'[j].hooked = inst[j].hooked /\ inst'[j].out = inst[j].out
                        /\ inst'[j].early = inst[j].early
    BY <2>3, <2>4
  <2>6. /\ RefsName' /\ OpeningAlone' /\ HookHolds' /\ LostHasItsUnload'
        /\ \A j \in Inst : Alive(j)' => Alive(j)
        /\ \A v \in Threads : thr'[v].pc = "insert" => thr[v].pc = "insert" /\ thr'[v].u = thr[v].u
    <3>1. \A j \in Inst : SameOf(j) /\ InService(j)
      BY <1>5, <2>5 DEF SameOf, InService
    <3> QED BY <1>1, <1>3, <3>1, HoldersKeep DEF Pcs
  <2>7. acked' \in [Repos -> SUBSET Writes]
    BY <1>1, <1>5 DEF RegistryInv, RegistryTypeOK
  <2>8. RegistryTypeOK'
    BY <1>1, <1>3, <1>4, <1>5, <2>3, <2>7 DEF RegistryInv, RegistryTypeOK, Stepped
  <2>9. OneOpener'
    BY <1>1, <2>5, <2>6 DEF RegistryInv, OneOpener
  <2>10. Opened'
    <3>1. ASSUME ~raced, NEW j \in Inst, Alive(j)'
          PROVE  /\ inst'[j].store = store[inst'[j].uuid] /\ exists[inst'[j].uuid]
                 /\ inst'[j].mem # "no" => acked'[inst'[j].uuid] \subseteq inst'[j].copy
      <4>1. /\ Alive(j) /\ inst[j].uuid \in Repos
            /\ inst[j].store = store[inst[j].uuid] /\ exists[inst[j].uuid]
            /\ inst[j].mem # "no" => acked[inst[j].uuid] \subseteq inst[j].copy
            /\ inst[j].mem \in {"no", "held", "behind"}
        BY <2>6, <3>1 DEF RegistryInv, RegistryTypeOK, Instances, Opened
      <4>2. acked \in [Repos -> SUBSET Writes]
        BY DEF RegistryInv, RegistryTypeOK
      <4>3. CASE j # i
        <5>1. inst[j].uuid # u
          BY <4>1, <4>3, <1>1, <1>2, <3>1 DEF RegistryInv, OneOpener
        <5>2. inst'[j] = inst[j] /\ acked'[inst[j].uuid] = acked[inst[j].uuid]
          BY <1>5, <2>3, <4>1, <4>2, <4>3, <5>1
        <5> QED BY <4>1, <5>2
      <4>4. CASE j = i
        <5>1. acked'[u] = acked[u] \cup {w}
          BY <1>1, <1>5, <4>2
        <5>2. inst'[j].store = store[inst'[j].uuid] /\ exists[inst'[j].uuid] /\ inst'[j].uuid = u
          BY <1>2, <2>5, <4>1, <4>4
        <5>3. inst'[j].mem # "no" => acked[u] \cup {w} \subseteq inst'[j].copy
          BY <1>1, <1>2, <2>3, <2>4, <4>1, <4>4
        <5> QED BY <5>1, <5>2, <5>3
      <4> QED BY <4>3, <4>4
    <3> QED BY <1>1, <3>1 DEF Opened
  <2>11. StoresApart' /\ LostOrLoaded' /\ InsertUnlisted'
    BY <1>1, <2>6 DEF RegistryInv, StoresApart, LostOrLoaded, InsertUnlisted
  <2>12. AckedKept'
    <3>1. ASSUME ~raced, NEW v \in Repos PROVE acked'[v] \subseteq content'[store[v]]
      <4>1. s = store[u] /\ store[v] \in Stores /\ acked[v] \subseteq content[store[v]]
        BY <1>1, <1>2, <3>1 DEF RegistryInv, RegistryTypeOK, Opened, AckedKept
      <4>2. acked'[v] = acked[v] \/ (v = u /\ acked'[v] = acked[v] \cup {w})
        BY <1>5 DEF RegistryInv, RegistryTypeOK
      <4>3. v = u => w \in content'[store[v]]
        BY <1>1, <4>1 DEF RegistryInv, RegistryTypeOK
      <4> QED BY <1>4, <4>1, <4>2, <4>3
    <3> QED BY <1>1, <3>1 DEF AckedKept
  <2> QED BY <2>6, <2>8, <2>9, <2>10, <2>11, <2>12 DEF RegistryInv
<1>6. CASE /\ inst[i].mem = "held"
           /\ inst' = [inst EXCEPT ![i] = TakenOut([@ EXCEPT !.mem = "behind"])]
           /\ hook' = Spawned(i)
           /\ UNCHANGED acked
  <2> DEFINE r == [inst[i] EXCEPT !.mem = "behind"]
  <2>1. inst' = [inst EXCEPT ![i] = TakenOut(r)]
    BY <1>1, <1>6, RequestTyped
  <2>2. Alike(r, i)
    BY <1>2, <1>6 DEF Alike, Instances
  <2>3. /\ inst' \in [Inst -> Instances] /\ hook' \in [Inst -> HookStates]
        /\ \A j \in Inst : Served(j) /\ (InService(j) \/ (WentOut(j) /\ j = i))
    BY <1>1, <1>6, <2>1, <2>2, TakeOutServes
  <2>4. InReach(t, i)
    BY <1>1 DEF InReach
  <2>5. /\ RefsName' /\ OpeningAlone' /\ HookHolds' /\ LostHasItsUnload'
        /\ \A j \in Inst : Alive(j)' => Alive(j)
        /\ \A v \in Threads : thr'[v].pc = "insert" => thr[v].pc = "insert" /\ thr'[v].u = thr[v].u
    BY <1>1, <1>3, <2>3, <2>4, HoldersKeep DEF Pcs, Served
  <2>6. RegistryTypeOK'
    BY <1>1, <1>3, <1>4, <1>6, <2>3 DEF RegistryInv, RegistryTypeOK, Stepped
  <2>7. OneOpener'
    BY <1>1, <2>3, <2>5 DEF RegistryInv, OneOpener, Served, SameOf
  <2>8. Opened'
    <3>1. inst'[i].copy = inst[i].copy
      <4>1. TakenOut(r).copy = r.copy /\ r.copy = inst[i].copy
        BY <2>2, <1>2, TakenOutTyped DEF Alike, Instances
      <4> QED BY <1>1, <2>1, <4>1, RequestTyped
    <3>2. \A j \in Inst : j # i => inst'[j] = inst[j]
      BY <2>1, RequestTyped
    <3>3. ASSUME ~raced, NEW j \in Inst, Alive(j)'
          PROVE  /\ inst'[j].store = store[inst'[j].uuid] /\ exists[inst'[j].uuid]
                 /\ inst'[j].mem # "no" => acked[inst'[j].uuid] \subseteq inst'[j].copy
      BY <1>6, <2>3, <2>5, <3>1, <3>2, <3>3 DEF RegistryInv, Opened, Served, SameOf
    <3> QED BY <1>1, <1>6, <3>3 DEF Opened
  <2>9. StoresApart' /\ LostOrLoaded' /\ InsertUnlisted'
    BY <1>1, <2>5 DEF RegistryInv, StoresApart, LostOrLoaded, InsertUnlisted
  <2>10. AckedKept'
    BY <1>1, <1>4, <1>6 DEF RegistryInv, RegistryTypeOK, AckedKept
  <2> QED BY <2>5, <2>6, <2>7, <2>8, <2>9, <2>10 DEF RegistryInv
<1> QED BY <1>5, <1>6 DEF Write

-----------------------------------------------------------------------------
(* The steps that change the registry. *)

\* A repository is taken out of the registry by a request, which holds it.
LEMMA RemovedKeeps ==
  ASSUME RegistryInv, NEW t \in Threads, NEW pc \in {"open", "let_go", "drop"},
         Stepped(t, pc, repos[thr[t].u]), repos[thr[t].u] # NoInst <=> pc \in Holding,
         thr'[t].kind # "init",
         repos' = [repos EXCEPT ![thr[t].u] = NoInst],
         UNCHANGED <<inst, hook, lost, made, exists, place, store, spare, content, acked, raced>>
  PROVE  RegistryInv'
<1> DEFINE u == thr[t].u
           i == repos[u]
<1>1. u \in Repos /\ i \in {NoInst} \cup Inst /\ repos \in [Repos -> {NoInst} \cup Inst]
  BY RequestTyped DEF RegistryInv, RegistryTypeOK
<1>2. RegistryTypeOK'
  BY <1>1 DEF RegistryInv, RegistryTypeOK, Stepped
<1>3. \A v \in Repos : repos'[v] # NoInst => repos'[v] = repos[v]
  BY <1>1
<1>4. i # NoInst => i <= made /\ inst[i].uuid = u /\ thr'[t].u = u
  BY <1>1 DEF RegistryInv, RefsName, Stepped
<1>5. RefsName'
  <2>1. ASSUME NEW v \in Threads
        PROVE  /\ thr'[v].ref # NoInst <=> thr'[v].pc \in Holding
               /\ thr'[v].ref # NoInst => thr'[v].ref <= made /\ inst[thr'[v].ref].uuid = thr'[v].u
               /\ thr'[v].kind = "init" => thr'[v].pc \in InitPath
               /\ thr'[v].pc = "admit" => thr'[v].kind \in {"data", "memory"}
    <3>1. CASE v # t
      BY <3>1 DEF RegistryInv, RefsName, Stepped
    <3>2. CASE v = t
      BY <3>2, <1>4 DEF Stepped
    <3> QED BY <3>1, <3>2
  <2>2. \A v \in Repos : repos'[v] # NoInst => repos'[v] <= made /\ inst[repos'[v]].uuid = v
    BY <1>3 DEF RegistryInv, RefsName
  <2> QED BY <2>1, <2>2 DEF RegistryInv, RefsName
<1>6. OpeningAlone'
  <2> SUFFICES ASSUME NEW v \in Threads, Opening(v)'
               PROVE  /\ \A w \in Threads : thr'[w].ref = thr'[v].ref => w = v
                      /\ \A x \in Repos : repos'[x] # thr'[v].ref
                      /\ hook[thr'[v].ref] = "none"
                      /\ inst[thr'[v].ref].hooked <=> thr'[v].pc = "insert"
                      /\ inst[thr'[v].ref].out => inst[thr'[v].ref].early
    BY DEF OpeningAlone
  <2>1. v # t
    BY DEF Stepped, Opening
  <2>2. thr'[v] = thr[v] /\ Opening(v)
    BY <2>1 DEF Stepped, Opening
  <2>3. thr[v].ref # NoInst
    BY <2>2 DEF RegistryInv, RefsName, Opening, Holding
  <2>4. /\ \A w \in Threads : thr[w].ref = thr[v].ref => w = v
        /\ \A x \in Repos : repos[x] # thr[v].ref
        /\ hook[thr[v].ref] = "none"
        /\ inst[thr[v].ref].hooked <=> thr[v].pc = "insert"
        /\ inst[thr[v].ref].out => inst[thr[v].ref].early
    BY <2>2 DEF RegistryInv, OpeningAlone
  <2>5. \A w \in Threads : thr'[w].ref = thr[v].ref => w = v
    BY <1>1, <2>4 DEF Stepped
  <2>6. \A x \in Repos : repos'[x] # thr[v].ref
    BY <1>3, <2>3, <2>4
  <2> QED BY <2>2, <2>4, <2>5, <2>6
<1>7. \A j \in Inst : Alive(j)' => Alive(j)
  <2> SUFFICES ASSUME NEW j \in Inst, Alive(j)' PROVE Alive(j)
    OBVIOUS
  <2>1. j # NoInst
    BY DEF Inst, NoInst
  <2>2. CASE \E v \in Repos : repos'[v] = j
    BY <1>3, <2>1, <2>2 DEF Alive
  <2>3. CASE \E v \in Threads : thr'[v].ref = j
    BY <1>1, <2>1, <2>3 DEF Alive, Stepped
  <2>4. CASE hook[j] \in {"holds", "listed"}
    BY <2>4 DEF Alive
  <2> QED BY <2>2, <2>3, <2>4 DEF Alive
<1>8. Opened' /\ OneOpener'
  BY <1>7, OpenedFrame
<1>9. HookHolds' /\ LostHasItsUnload'
  <2>1. \A j \in Inst : hook[j] \in {"holds", "listed"} => \A v \in Repos : repos'[v] # j
    BY <1>3 DEF RegistryInv, HookHolds, Inst, NoInst
  <2>2. \A v \in Repos : repos'[v] # NoInst => inst[repos'[v]].hooked
    BY <1>3 DEF RegistryInv, HookHolds
  <2> QED BY <1>3, <2>1, <2>2 DEF RegistryInv, HookHolds, LostHasItsUnload
<1>10. StoresApart' /\ AckedKept' /\ LostOrLoaded'
  BY <1>3 DEF RegistryInv, RegistryTypeOK, StoresApart, AckedKept, LostOrLoaded
<1>11. InsertUnlisted'
  BY DEF RegistryInv, InsertUnlisted, Stepped
<1> QED BY <1>2, <1>5, <1>6, <1>8, <1>9, <1>10, <1>11 DEF RegistryInv

\* A load that unloads a lost repository, and an unload.
LEMMA RemovesKeep ==
  ASSUME RegistryInv, NEW t \in Threads, LoadRemove(t) \/ UnloadRemove(t)
  PROVE  RegistryInv'
<1> DEFINE i == repos[thr[t].u]
<1>1. /\ thr[t].pc \in {"remove", "unload"} /\ thr[t].kind # "init" /\ i \in {NoInst} \cup Inst
      /\ UNCHANGED <<inst, hook, lost, made, exists, place, store, spare, content, acked, raced>>
  BY RequestTyped DEF LoadRemove, UnloadRemove, At, world, InitPath
<1>2. CASE Answer(t) /\ UNCHANGED repos
  BY <1>1, <1>2, AnswerKeeps
<1>3. ASSUME NEW pc \in {"open", "let_go", "drop"}, GotoHolding(t, pc, i), i # NoInst <=> pc \in Holding,
             repos' = [repos EXCEPT ![thr[t].u] = NoInst]
      PROVE  RegistryInv'
  <2>1. Stepped(t, pc, i) /\ thr'[t].kind # "init"
    BY <1>1, <1>3, RequestTyped, StepHolding DEF Pcs, Stepped
  <2> QED BY <1>1, <1>3, <2>1, RemovedKeeps
<1>4. CASE LoadRemove(t)
  BY <1>3, <1>4 DEF LoadRemove, Holding
<1>5. CASE UnloadRemove(t)
  BY <1>2, <1>3, <1>5 DEF UnloadRemove, Holding
<1> QED BY <1>4, <1>5

\* The hook's installation, and the list cleared.
LEMMA RegisterForgetKeeps ==
  ASSUME RegistryInv, NEW t \in Threads, RegisterForget(t)
  PROVE  RegistryInv'
<1> DEFINE i == thr[t].ref
           r == [inst[i] EXCEPT !.hooked = TRUE]
<1>1. /\ thr[t].pc = "register" /\ i \in Inst /\ i # NoInst /\ Goto(t, "insert")
      /\ lost' \subseteq lost \ {thr[t].u}
      /\ UNCHANGED <<repos, hook, made, exists, place, store, spare, content, acked, raced>>
  BY RequestTyped DEF RegisterForget, At, Holding, world
<1>2. inst' = [inst EXCEPT ![i] = r]
  BY <1>1, RequestTyped DEF RegisterForget, Instances
<1>3. r \in Instances
  BY <1>1, RequestTyped, FlagsTyped
<1>4. /\ r.uuid = inst[i].uuid /\ r.store = inst[i].store /\ r.out = inst[i].out
      /\ r.early = inst[i].early /\ r.mem = inst[i].mem /\ r.copy = inst[i].copy /\ r.hooked
  BY <1>1, RequestTyped DEF Instances
<1>5. inst' \in [Inst -> Instances] /\ inst'[i] = r /\ \A j \in Inst : j # i => inst'[j] = inst[j]
  BY <1>1, <1>2, <1>3, RequestTyped
<1>6. \A j \in Inst : /\ inst'[j].uuid = inst[j].uuid /\ inst'[j].store = inst[j].store
                      /\ inst'[j].mem = inst[j].mem /\ inst'[j].copy = inst[j].copy
                      /\ inst'[j].out = inst[j].out /\ inst'[j].early = inst[j].early
                      /\ inst[j].hooked => inst'[j].hooked
  BY <1>4, <1>5
<1>7. Stepped(t, "insert", i) /\ thr'[t].u = thr[t].u
  BY <1>1, RequestTyped, StepGoto DEF Pcs, Stepped
<1>8. /\ \A v \in Threads : thr'[v].ref = thr[v].ref /\ (v # t => thr'[v] = thr[v])
      /\ \A v \in Threads : thr'[v].u = thr[v].u
  BY <1>7 DEF Stepped
<1>9. RegistryTypeOK'
  BY <1>1, <1>5, <1>7 DEF RegistryInv, RegistryTypeOK, Stepped
<1>10. RefsName'
  <2>1. ASSUME NEW v \in Threads
        PROVE  /\ thr'[v].ref # NoInst <=> thr'[v].pc \in Holding
               /\ thr'[v].ref # NoInst => thr'[v].ref <= made /\ inst'[thr'[v].ref].uuid = thr'[v].u
               /\ thr'[v].kind = "init" => thr'[v].pc \in InitPath
               /\ thr'[v].pc = "admit" => thr'[v].kind \in {"data", "memory"}
    <3>1. thr[v].ref \in {NoInst} \cup Inst
      BY RequestTyped
    <3>2. thr'[v].ref # NoInst => thr'[v].ref <= made /\ inst'[thr'[v].ref].uuid = thr'[v].u
      BY <1>6, <1>8, <3>1 DEF RegistryInv, RefsName
    <3>3. CASE v # t
      BY <1>8, <3>2, <3>3 DEF RegistryInv, RefsName
    <3>4. CASE v = t
      BY <1>1, <1>7, <3>2, <3>4 DEF Stepped, Holding, InitPath
    <3> QED BY <3>3, <3>4
  <2>2. \A v \in Repos : repos[v] # NoInst => repos[v] <= made /\ inst'[repos[v]].uuid = v
    BY <1>6 DEF RegistryInv, RegistryTypeOK, RefsName
  <2>3. \A j \in Inst : hook[j] # "none" => j <= made /\ inst'[j].out
    BY <1>6 DEF RegistryInv, RefsName
  <2> QED BY <1>1, <2>1, <2>2, <2>3 DEF RefsName
<1>11. OpeningAlone'
  <2> SUFFICES ASSUME NEW v \in Threads, Opening(v)'
               PROVE  /\ \A w \in Threads : thr[w].ref = thr[v].ref => w = v
                      /\ \A x \in Repos : repos[x] # thr[v].ref
                      /\ hook[thr[v].ref] = "none"
                      /\ inst'[thr[v].ref].hooked <=> thr'[v].pc = "insert"
                      /\ inst'[thr[v].ref].out => inst'[thr[v].ref].early
    BY <1>1, <1>8 DEF OpeningAlone
  <2>1. Opening(v)
    BY <1>1, <1>8 DEF Opening
  <2>2. thr[v].ref \in Inst
    BY <2>1, RequestTyped DEF Opening, Holding
  <2>3. /\ \A w \in Threads : thr[w].ref = thr[v].ref => w = v
        /\ \A x \in Repos : repos[x] # thr[v].ref
        /\ hook[thr[v].ref] = "none"
        /\ inst[thr[v].ref].hooked <=> thr[v].pc = "insert"
        /\ inst[thr[v].ref].out => inst[thr[v].ref].early
    BY <2>1 DEF RegistryInv, OpeningAlone
  <2>4. inst'[thr[v].ref].hooked <=> thr'[v].pc = "insert"
    <3>1. CASE v = t
      BY <1>4, <1>5, <1>7, <3>1 DEF Stepped
    <3>2. CASE v # t
      BY <1>5, <1>8, <2>2, <2>3, <3>2
    <3> QED BY <3>1, <3>2
  <2> QED BY <1>6, <2>2, <2>3, <2>4
<1>12. \A j \in Inst : Alive(j)' => Alive(j)
  BY <1>1, <1>8 DEF Alive
<1>13. Opened' /\ OneOpener'
  BY <1>1, <1>6, <1>12, OpenedFrame
<1>14. HookHolds' /\ LostHasItsUnload'
  BY <1>1, <1>6 DEF RegistryInv, RegistryTypeOK, HookHolds, LostHasItsUnload
<1>15. StoresApart' /\ AckedKept' /\ LostOrLoaded'
  BY <1>1 DEF RegistryInv, StoresApart, AckedKept, LostOrLoaded
<1>16. InsertUnlisted'
  BY <1>1, <1>8 DEF RegistryInv, InsertUnlisted
<1> QED BY <1>9, <1>10, <1>11, <1>13, <1>14, <1>15, <1>16 DEF RegistryInv

\* The registry filled.
LEMMA RegisterInsertKeeps ==
  ASSUME RegistryInv, NEW t \in Threads, RegisterInsert(t)
  PROVE  RegistryInv'
<1> DEFINE i == thr[t].ref
           u == thr[t].u
<1>1. /\ thr[t].pc = "insert" /\ i \in Inst /\ i # NoInst /\ u \in Repos
      /\ repos' = [repos EXCEPT ![u] = i]
      /\ UNCHANGED <<inst, hook, lost, made, exists, place, store, spare, content, acked, raced>>
  BY RequestTyped DEF RegisterInsert, At, Holding, world
<1>2. PICK pc \in {"idle", "warm"} : Stepped(t, pc, NoInst) /\ thr'[t].kind # "init"
  <2>1. CASE thr[t].kind = "init"
    BY <2>1, RequestTyped, StepAnswer, IdleRequest DEF RegisterInsert, Answer
  <2>2. CASE thr[t].kind # "init"
    BY <2>2, RequestTyped, StepHolding DEF RegisterInsert, Pcs, Stepped
  <2> QED BY <2>1, <2>2
<1>3. repos'[u] = i /\ \A v \in Repos : v # u => repos'[v] = repos[v]
  BY <1>1 DEF RegistryInv, RegistryTypeOK
<1>4. Opening(t)
  BY <1>1 DEF Opening
<1>5. /\ \A v \in Threads : thr[v].ref = i => v = t
      /\ \A v \in Repos : repos[v] # i
      /\ hook[i] = "none" /\ inst[i].hooked
      /\ inst[i].out => inst[i].early
      /\ i <= made /\ inst[i].uuid = u
  BY <1>1, <1>4 DEF RegistryInv, OpeningAlone, RefsName
<1>6. RegistryTypeOK'
  BY <1>1, <1>2 DEF RegistryInv, RegistryTypeOK, Stepped
<1>7. RefsName'
  <2>1. ASSUME NEW v \in Threads
        PROVE  /\ thr'[v].ref # NoInst <=> thr'[v].pc \in Holding
               /\ thr'[v].ref # NoInst => thr'[v].ref <= made /\ inst[thr'[v].ref].uuid = thr'[v].u
               /\ thr'[v].kind = "init" => thr'[v].pc \in InitPath
               /\ thr'[v].pc = "admit" => thr'[v].kind \in {"data", "memory"}
    <3>1. CASE v # t
      BY <1>2, <3>1 DEF RegistryInv, RefsName, Stepped
    <3>2. CASE v = t
      BY <1>2, <3>2 DEF Stepped, Holding
    <3> QED BY <3>1, <3>2
  <2>2. \A v \in Repos : repos'[v] # NoInst => repos'[v] <= made /\ inst[repos'[v]].uuid = v
    BY <1>3, <1>5 DEF RegistryInv, RefsName
  <2> QED BY <1>1, <2>1, <2>2 DEF RegistryInv, RefsName
<1>8. OpeningAlone'
  <2> SUFFICES ASSUME NEW v \in Threads, Opening(v)'
               PROVE  /\ \A w \in Threads : thr'[w].ref = thr'[v].ref => w = v
                      /\ \A x \in Repos : repos'[x] # thr'[v].ref
                      /\ hook[thr'[v].ref] = "none"
                      /\ inst[thr'[v].ref].hooked <=> thr'[v].pc = "insert"
                      /\ inst[thr'[v].ref].out => inst[thr'[v].ref].early
    BY <1>1 DEF OpeningAlone
  <2>1. v # t
    BY <1>2 DEF Stepped, Opening
  <2>2. thr'[v] = thr[v] /\ Opening(v)
    BY <1>2, <2>1 DEF Stepped, Opening
  <2>3. thr[v].ref # NoInst
    BY <2>2 DEF RegistryInv, RefsName, Opening, Holding
  <2>4. /\ \A w \in Threads : thr[w].ref = thr[v].ref => w = v
        /\ \A x \in Repos : repos[x] # thr[v].ref
        /\ hook[thr[v].ref] = "none"
        /\ inst[thr[v].ref].hooked <=> thr[v].pc = "insert"
        /\ inst[thr[v].ref].out => inst[thr[v].ref].early
    BY <2>2 DEF RegistryInv, OpeningAlone
  <2>5. \A w \in Threads : thr'[w].ref = thr[v].ref => w = v
    BY <1>2, <2>3, <2>4 DEF Stepped
  <2>6. \A x \in Repos : repos'[x] # thr[v].ref
    BY <1>3, <2>1, <2>4
  <2> QED BY <2>2, <2>4, <2>5, <2>6
<1>9. \A j \in Inst : Alive(j)' => Alive(j)
  <2> SUFFICES ASSUME NEW j \in Inst, Alive(j)' PROVE Alive(j)
    OBVIOUS
  <2>1. j # NoInst
    BY DEF Inst, NoInst
  <2>2. CASE \E v \in Repos : repos'[v] = j
    BY <1>3, <2>2 DEF Alive
  <2>3. CASE \E v \in Threads : thr'[v].ref = j
    BY <1>2, <2>1, <2>3 DEF Alive, Stepped
  <2>4. CASE hook[j] \in {"holds", "listed"}
    BY <2>4 DEF Alive
  <2> QED BY <1>1, <2>2, <2>3, <2>4 DEF Alive
<1>10. Opened' /\ OneOpener'
  BY <1>1, <1>9, OpenedFrame
<1>11. HookHolds'
  BY <1>1, <1>3, <1>5 DEF RegistryInv, HookHolds
<1>12. LostHasItsUnload'
  BY <1>1, <1>3, <1>5 DEF RegistryInv, LostHasItsUnload
<1>13. LostOrLoaded'
  <2>1. ~raced => u \notin lost
    BY <1>1 DEF RegistryInv, InsertUnlisted
  <2> QED BY <1>1, <1>3, <2>1 DEF RegistryInv, RegistryTypeOK, LostOrLoaded
<1>14. StoresApart' /\ AckedKept'
  BY <1>1 DEF RegistryInv, StoresApart, AckedKept
<1>15. InsertUnlisted'
  BY <1>1, <1>2 DEF RegistryInv, InsertUnlisted, Stepped
<1> QED BY <1>6, <1>7, <1>8, <1>10, <1>11, <1>12, <1>13, <1>14, <1>15 DEF RegistryInv

\* A store opened: a new instance, that only the request holds.
LEMMA OpensKeep ==
  ASSUME RegistryInv, NEW t \in Threads, made < MaxInst, thr[t].ref = NoInst,
         Stepped(t, "name", made + 1), thr'[t].u = thr[t].u, made' = made + 1,
         inst' = [inst EXCEPT ![made + 1] = NewInst(thr[t].u)],
         exists' \in [Repos -> BOOLEAN], exists'[thr[t].u],
         \A v \in Repos : exists[v] => exists'[v],
         ~raced => \A j \in Inst : Alive(j) => inst[j].uuid # thr[t].u,
         UNCHANGED <<repos, lost, hook, place, store, spare, content, acked, raced>>
  PROVE  RegistryInv'
<1> DEFINE n == made + 1
           u == thr[t].u
           r == NewInst(u)
<1>1. u \in Repos /\ made \in Nat /\ n \in Inst /\ inst \in [Inst -> Instances]
  BY RequestTyped, RegistryAssumption DEF RegistryInv, RegistryTypeOK, Inst
<1>2. r \in Instances
  BY <1>1, NewTyped DEF RegistryInv
<1>3. r.uuid = u /\ r.store = store[u] /\ r.mem = "no" /\ ~r.hooked /\ ~r.out
  BY DEF NewInst
<1>4. inst' \in [Inst -> Instances] /\ inst'[n] = r /\ \A j \in Inst : j # n => inst'[j] = inst[j]
  BY <1>1, <1>2
<1>5. /\ \A v \in Repos : repos[v] # n
      /\ \A v \in Threads : thr[v].ref # n
      /\ hook[n] = "none"
  <2>1. ~(n <= made) /\ n # NoInst
    BY <1>1 DEF NoInst
  <2> QED BY <1>1, <2>1 DEF RegistryInv, RefsName
<1>6. RegistryTypeOK'
  <2>1. made' \in 0..MaxInst
    BY <1>1, RegistryAssumption
  <2> QED BY <1>4, <2>1 DEF RegistryInv, RegistryTypeOK, Stepped
<1>7. RefsName'
  <2>1. ASSUME NEW v \in Threads
        PROVE  /\ thr'[v].ref # NoInst <=> thr'[v].pc \in Holding
               /\ thr'[v].ref # NoInst => thr'[v].ref <= made' /\ inst'[thr'[v].ref].uuid = thr'[v].u
               /\ thr'[v].kind = "init" => thr'[v].pc \in InitPath
               /\ thr'[v].pc = "admit" => thr'[v].kind \in {"data", "memory"}
    <3>1. CASE v # t
      <4>1. thr'[v] = thr[v] /\ thr[v].ref \in {NoInst} \cup Inst
        BY <3>1, RequestTyped DEF Stepped
      <4>2. thr[v].ref # NoInst => thr[v].ref <= made + 1 /\ inst'[thr[v].ref] = inst[thr[v].ref]
        BY <1>1, <1>4, <1>5, <4>1 DEF RegistryInv, RefsName, Inst
      <4> QED BY <4>1, <4>2 DEF RegistryInv, RefsName
    <3>2. CASE v = t
      BY <1>1, <1>3, <1>4, <3>2 DEF Stepped, Holding, InitPath, NoInst
    <3> QED BY <3>1, <3>2
  <2>2. ASSUME NEW v \in Repos, repos[v] # NoInst
        PROVE  repos[v] <= made' /\ inst'[repos[v]].uuid = v
    <3>1. repos[v] \in Inst /\ repos[v] <= made /\ inst[repos[v]].uuid = v
      BY <2>2 DEF RegistryInv, RegistryTypeOK, RefsName
    <3> QED BY <1>1, <1>4, <1>5, <3>1 DEF Inst
  <2>3. ASSUME NEW j \in Inst, hook[j] # "none"
        PROVE  j <= made' /\ inst'[j].out
    <3>1. j <= made /\ inst[j].out
      BY <2>3 DEF RegistryInv, RefsName
    <3> QED BY <1>1, <1>4, <1>5, <2>3, <3>1 DEF Inst
  <2> QED BY <2>1, <2>2, <2>3 DEF RefsName
<1>8. OpeningAlone'
  <2> SUFFICES ASSUME NEW v \in Threads, Opening(v)'
               PROVE  /\ \A w \in Threads : thr'[w].ref = thr'[v].ref => w = v
                      /\ \A x \in Repos : repos[x] # thr'[v].ref
                      /\ hook[thr'[v].ref] = "none"
                      /\ inst'[thr'[v].ref].hooked <=> thr'[v].pc = "insert"
                      /\ inst'[thr'[v].ref].out => inst'[thr'[v].ref].early
    BY DEF OpeningAlone
  <2>1. CASE v = t
    BY <1>3, <1>4, <1>5, <2>1 DEF Stepped
  <2>2. CASE v # t
    <3>1. thr'[v] = thr[v] /\ Opening(v)
      BY <2>2 DEF Stepped, Opening
    <3>2. /\ \A w \in Threads : thr[w].ref = thr[v].ref => w = v
          /\ \A x \in Repos : repos[x] # thr[v].ref
          /\ hook[thr[v].ref] = "none"
          /\ inst[thr[v].ref].hooked <=> thr[v].pc = "insert"
          /\ inst[thr[v].ref].out => inst[thr[v].ref].early
      BY <3>1 DEF RegistryInv, OpeningAlone
    <3>3. thr[v].ref \in Inst
      BY <3>1, RequestTyped DEF Opening, Holding
    <3>4. inst'[thr[v].ref] = inst[thr[v].ref]
      BY <1>4, <1>5, <3>3
    <3>5. \A w \in Threads : thr'[w].ref = thr[v].ref => w = v
      BY <1>5, <3>2 DEF Stepped
    <3> QED BY <3>1, <3>2, <3>4, <3>5
  <2> QED BY <2>1, <2>2
<1>9. \A j \in Inst : Alive(j)' => Alive(j) \/ j = n
  BY DEF Alive, Stepped
<1>10. OneOpener'
  <2> SUFFICES ASSUME ~raced, NEW j \in Inst, NEW k \in Inst, Alive(j)', Alive(k)',
                      inst'[j].uuid = inst'[k].uuid
               PROVE  j = k
    BY DEF OneOpener
  <2>1. CASE j # n /\ k # n
    BY <1>4, <1>9, <2>1 DEF RegistryInv, OneOpener
  <2>2. CASE j = n /\ k # n
    BY <1>3, <1>4, <1>9, <2>2
  <2>3. CASE j # n /\ k = n
    BY <1>3, <1>4, <1>9, <2>3
  <2> QED BY <2>1, <2>2, <2>3
<1>11. Opened'
  <2> SUFFICES ASSUME ~raced, NEW j \in Inst, Alive(j)'
               PROVE  /\ inst'[j].store = store[inst'[j].uuid] /\ exists'[inst'[j].uuid]
                      /\ inst'[j].mem # "no" => acked[inst'[j].uuid] \subseteq inst'[j].copy
    BY DEF Opened
  <2>1. CASE j = n
    BY <1>3, <1>4, <2>1
  <2>2. CASE j # n
    BY <1>1, <1>4, <1>9, <2>2 DEF RegistryInv, RegistryTypeOK, Instances, Opened
  <2> QED BY <2>1, <2>2
<1>12. HookHolds' /\ LostHasItsUnload'
  <2>1. \A v \in Repos : repos[v] # NoInst => inst'[repos[v]] = inst[repos[v]]
    BY <1>4, <1>5 DEF RegistryInv, RegistryTypeOK
  <2> QED BY <2>1 DEF RegistryInv, HookHolds, LostHasItsUnload
<1>13. StoresApart' /\ AckedKept' /\ LostOrLoaded'
  BY DEF RegistryInv, StoresApart, AckedKept, LostOrLoaded
<1>14. InsertUnlisted'
  BY DEF RegistryInv, InsertUnlisted, Stepped
<1> QED BY <1>6, <1>7, <1>8, <1>10, <1>11, <1>12, <1>13, <1>14 DEF RegistryInv

\* The two that open one: a load, of a store nobody has open, and an init.
LEMMA OpenersKeep ==
  ASSUME RegistryInv, NEW t \in Threads, LoadOpen(t) \/ InitMake(t)
  PROVE  RegistryInv'
<1> DEFINE u == thr[t].u
<1>1. /\ thr[t].pc \in {"open", "init"} /\ thr[t].ref = NoInst /\ u \in Repos
      /\ UNCHANGED <<repos, lost, hook, place, store, spare, content, acked, raced>>
  BY RequestTyped DEF LoadOpen, InitMake, At, Holding, world
<1>2. CASE Answer(t) /\ UNCHANGED <<inst, made, exists>>
  BY <1>1, <1>2, AnswerKeeps
<1>3. ASSUME made < MaxInst, made' = made + 1, inst' = [inst EXCEPT ![made + 1] = NewInst(u)],
             GotoHolding(t, "name", made + 1), exists' \in [Repos -> BOOLEAN], exists'[u],
             \A v \in Repos : exists[v] => exists'[v],
             ~raced => \A j \in Inst : Alive(j) => inst[j].uuid # u
      PROVE  RegistryInv'
  <2>1. made + 1 \in Inst
    BY <1>3, RegistryAssumption DEF RegistryInv, RegistryTypeOK, Inst
  <2>2. Stepped(t, "name", made + 1)
    BY <1>3, <2>1, RequestTyped, StepHolding DEF Pcs
  <2>3. thr'[t].u = u
    BY <2>1, <2>2 DEF Stepped, Inst, NoInst
  <2> QED BY <1>1, <1>3, <2>2, <2>3, OpensKeep
<1>4. CASE LoadOpen(t)
  <2>1. UNCHANGED exists /\ exists \in [Repos -> BOOLEAN]
    BY <1>4 DEF LoadOpen, world, RegistryInv, RegistryTypeOK
  <2>2. CASE ~(Answer(t) /\ UNCHANGED <<inst, made>>)
    <3>1. /\ exists[u] /\ Unlocked(store[u]) /\ made < MaxInst /\ made' = made + 1
          /\ inst' = [inst EXCEPT ![made + 1] = NewInst(u)] /\ GotoHolding(t, "name", made + 1)
      BY <1>4, <2>2 DEF LoadOpen
    <3>2. ~raced => \A j \in Inst : Alive(j) => inst[j].uuid # u
      BY <3>1 DEF RegistryInv, Opened, Unlocked
    <3> QED BY <1>3, <2>1, <3>1, <3>2
  <2> QED BY <1>2, <2>1, <2>2
<1>5. CASE InitMake(t)
  <2>1. CASE ~(Answer(t) /\ UNCHANGED <<inst, made, exists>>)
    <3>1. /\ ~exists[u] /\ made < MaxInst /\ made' = made + 1 /\ exists' = [exists EXCEPT ![u] = TRUE]
          /\ inst' = [inst EXCEPT ![made + 1] = NewInst(u)] /\ GotoHolding(t, "name", made + 1)
      BY <1>5, <2>1 DEF InitMake
    <3>2. ~raced => \A j \in Inst : Alive(j) => inst[j].uuid # u
      BY <3>1 DEF RegistryInv, Opened
    <3>3. exists' \in [Repos -> BOOLEAN] /\ exists'[u] /\ \A v \in Repos : exists[v] => exists'[v]
      BY <1>1, <3>1 DEF RegistryInv, RegistryTypeOK
    <3> QED BY <1>3, <3>1, <3>2, <3>3
  <2> QED BY <1>2, <2>1
<1> QED BY <1>4, <1>5

-----------------------------------------------------------------------------
(* The hook's thread, the machine, and the initial states. *)

\* The hook moves on: it takes the instance out of the registry, lists it as
\* lost while it holds it, and lets go.
LEMMA HooksKeep ==
  ASSUME RegistryInv, NEW i \in Inst, HookStep(i)
  PROVE  RegistryInv'
<1> DEFINE u == inst[i].uuid
<1>1. /\ u \in Repos /\ hook[i] # "none" /\ hook \in [Inst -> HookStates]
      /\ UNCHANGED <<inst, made, thr, exists, place, store, spare, content, acked, raced>>
  BY DEF RegistryInv, RegistryTypeOK, Instances, HookStep, HookRemove, HookList, HookLetGo, world
<1>2. PICK h \in HookStates : hook' = [hook EXCEPT ![i] = h]
  BY DEF HookStep, HookRemove, HookList, HookLetGo, HookStates
<1>3. \A j \in Inst : hook'[j] = IF j = i THEN h ELSE hook[j]
  BY <1>1, <1>2
<1>4. \A v \in Repos : repos'[v] # NoInst => repos'[v] = repos[v]
  BY <1>1 DEF RegistryInv, RegistryTypeOK, HookStep, HookRemove, HookList, HookLetGo
<1>5. /\ h # "spawned"
      /\ h \in {"holds", "listed"} => \A v \in Repos : repos'[v] # i
      /\ h \in {"holds", "listed"} => Alive(i)
      /\ hook[i] = "spawned" => \A v \in Repos : repos'[v] # i
  <2>1. i # NoInst /\ \A v \in Repos : repos[v] = i => v = u
    BY DEF RegistryInv, RefsName, Inst, NoInst
  <2>2. CASE HookRemove(i)
    BY <1>1, <1>3, <2>1, <2>2 DEF HookRemove, Alive, RegistryInv, RegistryTypeOK
  <2>3. CASE HookList(i)
    BY <1>1, <1>3, <2>3 DEF HookList, Alive, RegistryInv, HookHolds
  <2>4. CASE HookLetGo(i)
    BY <1>1, <1>3, <2>4 DEF HookLetGo
  <2> QED BY <2>2, <2>3, <2>4 DEF HookStep
<1>6. lost' = lost \/ (hook[i] = "holds" /\ lost' = lost \cup {u})
  BY DEF HookStep, HookRemove, HookList, HookLetGo
<1>7. RegistryTypeOK'
  <2>1. repos' \in [Repos -> {NoInst} \cup Inst]
    BY DEF RegistryInv, RegistryTypeOK, HookStep, HookRemove, HookList, HookLetGo
  <2> QED BY <1>1, <1>2, <1>6, <2>1 DEF RegistryInv, RegistryTypeOK
<1>8. RefsName'
  <2>1. \A j \in Inst : hook'[j] # "none" => j <= made /\ inst[j].out
    BY <1>1, <1>3 DEF RegistryInv, RefsName
  <2>2. \A v \in Repos : repos'[v] # NoInst => repos'[v] <= made /\ inst[repos'[v]].uuid = v
    BY <1>4 DEF RegistryInv, RefsName
  <2> QED BY <1>1, <2>1, <2>2 DEF RegistryInv, RefsName
<1>9. OpeningAlone'
  <2> SUFFICES ASSUME NEW v \in Threads, Opening(v)
               PROVE  /\ \A w \in Threads : thr[w].ref = thr[v].ref => w = v
                      /\ \A x \in Repos : repos'[x] # thr[v].ref
                      /\ hook'[thr[v].ref] = "none"
                      /\ inst[thr[v].ref].hooked <=> thr[v].pc = "insert"
                      /\ inst[thr[v].ref].out => inst[thr[v].ref].early
    BY <1>1 DEF OpeningAlone, Opening
  <2>1. thr[v].ref \in Inst /\ thr[v].ref # NoInst
    BY RequestTyped DEF Opening, Holding
  <2> QED BY <1>1, <1>3, <1>4, <2>1 DEF RegistryInv, OpeningAlone
<1>10. \A j \in Inst : Alive(j)' => Alive(j)
  <2> SUFFICES ASSUME NEW j \in Inst, Alive(j)' PROVE Alive(j)
    OBVIOUS
  <2>1. j # NoInst
    BY DEF Inst, NoInst
  <2>2. CASE \E v \in Repos : repos'[v] = j
    BY <1>4, <2>1, <2>2 DEF Alive
  <2>3. CASE \E v \in Threads : thr[v].ref = j
    BY <2>3 DEF Alive
  <2>4. CASE hook'[j] \in {"holds", "listed"}
    BY <1>3, <1>5, <2>4 DEF Alive
  <2> QED BY <1>1, <2>2, <2>3, <2>4 DEF Alive
<1>11. Opened' /\ OneOpener'
  BY <1>1, <1>10, OpenedFrame
<1>12. HookHolds'
  <2>1. \A j \in Inst : hook'[j] \in {"holds", "listed"} => \A v \in Repos : repos'[v] # j
    BY <1>3, <1>4, <1>5 DEF RegistryInv, HookHolds, Inst, NoInst
  <2>2. \A v \in Repos : repos'[v] # NoInst => inst[repos'[v]].hooked
    BY <1>4 DEF RegistryInv, HookHolds
  <2> QED BY <1>1, <2>1, <2>2 DEF HookHolds
<1>13. LostHasItsUnload'
  <2> SUFFICES ASSUME NEW v \in Repos, repos'[v] # NoInst,
                      inst[repos'[v]].out, ~inst[repos'[v]].early
               PROVE  hook'[repos'[v]] = "spawned"
    BY <1>1 DEF LostHasItsUnload
  <2>1. repos'[v] = repos[v] /\ repos[v] \in Inst /\ hook[repos[v]] = "spawned"
    BY <1>4 DEF RegistryInv, RegistryTypeOK, LostHasItsUnload
  <2> QED BY <1>3, <1>5, <2>1
<1>14. ASSUME ~raced, hook[i] = "holds"
       PROVE  repos'[u] = NoInst /\ \A v \in Threads : thr[v].pc = "insert" => thr[v].u # u
  <2>1. Alive(i)
    BY <1>14 DEF Alive
  <2>2. ASSUME repos'[u] # NoInst PROVE FALSE
    <3>1. repos[u] \in Inst /\ repos[u] # NoInst /\ repos[u] # i
      BY <1>1, <1>4, <1>14, <2>2 DEF RegistryInv, RegistryTypeOK, HookHolds
    <3>2. Alive(repos[u]) /\ inst[repos[u]].uuid = u
      BY <1>1, <3>1 DEF Alive, RegistryInv, RefsName
    <3> QED BY <1>14, <2>1, <3>1, <3>2 DEF RegistryInv, OneOpener
  <2>3. ASSUME NEW v \in Threads, thr[v].pc = "insert", thr[v].u = u PROVE FALSE
    <3>1. thr[v].ref \in Inst /\ Opening(v) /\ inst[thr[v].ref].uuid = u
      BY <2>3, RequestTyped DEF Opening, Holding, RegistryInv, RefsName
    <3>2. hook[thr[v].ref] = "none" /\ Alive(thr[v].ref)
      BY <3>1 DEF RegistryInv, OpeningAlone, Alive
    <3> QED BY <1>14, <2>1, <3>1, <3>2 DEF RegistryInv, OneOpener
  <2> QED BY <2>2, <2>3
<1>15. LostOrLoaded'
  <2> SUFFICES ASSUME ~raced, NEW v \in lost' PROVE repos'[v] = NoInst
    BY <1>1 DEF LostOrLoaded
  <2>1. CASE v \in lost
    BY <1>4, <2>1 DEF RegistryInv, RegistryTypeOK, LostOrLoaded
  <2>2. CASE v \notin lost
    BY <1>6, <1>14, <2>2
  <2> QED BY <2>1, <2>2
<1>16. InsertUnlisted'
  BY <1>1, <1>6, <1>14 DEF RegistryInv, InsertUnlisted
<1>17. StoresApart' /\ AckedKept'
  BY <1>1 DEF RegistryInv, StoresApart, AckedKept
<1> QED BY <1>7, <1>8, <1>9, <1>11, <1>12, <1>13, <1>15, <1>16, <1>17 DEF RegistryInv

\* A root moved.
LEMMA MoveRootKeeps ==
  ASSUME RegistryInv, NEW u \in Repos, MoveRoot(u)
  PROVE  RegistryInv'
<1>1. UNCHANGED <<repos, lost, inst, made, hook, thr, exists, store, spare, content, acked, raced>>
  BY DEF MoveRoot
<1>2. place' \in [Repos -> {"home", "away"}]
  BY DEF RegistryInv, RegistryTypeOK, MoveRoot
<1>3. RegistryTypeOK'
  BY <1>1, <1>2 DEF RegistryInv, RegistryTypeOK
<1>4. \A j \in Inst : Alive(j)' <=> Alive(j)
  BY <1>1 DEF Alive
<1>5. Opened' /\ OneOpener'
  BY <1>1, <1>4, OpenedFrame
<1>6. RefsName' /\ OpeningAlone' /\ HookHolds' /\ StoresApart'
  BY <1>1 DEF RegistryInv, RefsName, OpeningAlone, Opening, HookHolds, StoresApart
<1>7. InsertUnlisted' /\ LostOrLoaded' /\ AckedKept' /\ LostHasItsUnload'
  BY <1>1 DEF RegistryInv, InsertUnlisted, LostOrLoaded, AckedKept, LostHasItsUnload
<1> QED BY <1>3, <1>5, <1>6, <1>7 DEF RegistryInv

\* The daemon killed: nobody holds anything.
LEMMA CrashKeeps ==
  ASSUME RegistryInv, Crash
  PROVE  RegistryInv'
<1>1. /\ repos' = [v \in Repos |-> NoInst] /\ lost' = {}
      /\ hook' = [j \in Inst |-> "none"] /\ thr' = [t \in Threads |-> Idle]
      /\ inst' = [j \in Inst |-> NoOne]
      /\ UNCHANGED <<made, exists, place, store, spare, content, acked, raced>>
  BY DEF Crash, world
<1>2. RegistryTypeOK'
  BY <1>1, IdleRequest, NoOneTyped DEF RegistryInv, RegistryTypeOK, HookStates
<1>3. \A t \in Threads : thr'[t].pc = "idle" /\ thr'[t].ref = NoInst /\ thr'[t].kind = "none"
  BY <1>1, IdleRequest
<1>4. \A j \in Inst : ~Alive(j)'
  BY <1>1, <1>3 DEF Alive, Inst, NoInst
<1>5. RefsName' /\ OpeningAlone' /\ HookHolds' /\ StoresApart'
  BY <1>1, <1>3 DEF RegistryInv, RefsName, OpeningAlone, Opening, HookHolds, StoresApart, Holding
<1>6. Opened' /\ OneOpener'
  BY <1>4 DEF Opened, OneOpener
<1>7. InsertUnlisted' /\ LostOrLoaded' /\ AckedKept' /\ LostHasItsUnload'
  BY <1>1, <1>3 DEF RegistryInv, InsertUnlisted, LostOrLoaded, AckedKept, LostHasItsUnload
<1> QED BY <1>2, <1>5, <1>6, <1>7 DEF RegistryInv

\* The repositories can be given a store each.
LEMMA FirstStoreApart ==
  /\ FirstStore \in [Repos -> 1..Cardinality(Repos)]
  /\ \A u, v \in Repos : FirstStore[u] = FirstStore[v] => u = v
<1> DEFINE N == Cardinality(Repos)
<1>1. ExistsBijection(1..N, Repos)
  BY RegistryAssumption, FS_CardinalityType
<1>2. PICK g \in Bijection(1..N, Repos) : TRUE
  BY <1>1 DEF ExistsBijection
<1>3. g \in [1..N -> Repos] /\ \A u \in Repos : \E n \in 1..N : g[n] = u
  BY <1>2 DEF Bijection, Injection, Surjection
<1> DEFINE f == [u \in Repos |-> CHOOSE n \in 1..N : g[n] = u]
<1>4. \A u \in Repos : f[u] \in 1..N /\ g[f[u]] = u
  BY <1>3
<1>5. f \in [Repos -> 1..N] /\ \A u, v \in Repos : f[u] = f[v] => u = v
  <2>1. f \in [Repos -> 1..N]
    BY <1>4
  <2> QED BY <1>4, <2>1
<1> HIDE DEF f
<1> QED BY <1>5 DEF FirstStore

\* The daemon's configuration loaded.
LEMMA RegistryInitial == Init => RegistryInv
<1> SUFFICES ASSUME Init PROVE RegistryInv
  OBVIOUS
<1> DEFINE N == Cardinality(Repos)
<1>1. N \in Nat /\ N <= MaxInst /\ MaxInst \in Nat
  BY RegistryAssumption, FS_CardinalityType
<1>2. FirstStore \in [Repos -> 1..N] /\ \A u, v \in Repos : FirstStore[u] = FirstStore[v] => u = v
  BY FirstStoreApart
<1>3. PICK auto \in SUBSET {u \in Repos : exists[u]}, mem \in [Repos -> BOOLEAN] :
        /\ repos = [u \in Repos |-> IF u \in auto THEN FirstStore[u] ELSE NoInst]
        /\ inst = [i \in Inst |-> IF \E u \in auto : FirstStore[u] = i
                                  THEN LET u == CHOOSE v \in auto : FirstStore[v] = i
                                       IN Loaded(u, mem[u])
                                  ELSE NoOne]
  BY DEF Init
<1>4. /\ exists \in [Repos -> BOOLEAN] /\ place = [u \in Repos |-> "home"] /\ store = FirstStore
      /\ spare = N + 1 /\ content = [s \in Stores |-> {}] /\ acked = [u \in Repos |-> {}]
      /\ made = N /\ lost = {} /\ hook = [i \in Inst |-> "none"]
      /\ thr = [t \in Threads |-> Idle] /\ raced = FALSE
  BY DEF Init
<1>5. \A u \in Repos : FirstStore[u] \in Inst /\ FirstStore[u] \in Stores /\ FirstStore[u] # NoInst
  BY <1>1, <1>2 DEF Inst, Stores, NoInst
<1>6. ASSUME NEW u \in Repos, NEW m \in BOOLEAN
      PROVE  /\ Loaded(u, m) \in Instances
             /\ Loaded(u, m).uuid = u /\ Loaded(u, m).hooked /\ ~Loaded(u, m).out
             /\ Loaded(u, m).store = FirstStore[u]
  BY <1>4, <1>5 DEF Loaded, NewInst, Instances
<1>7. ASSUME NEW u \in auto
      PROVE  inst[FirstStore[u]] = Loaded(u, mem[u]) /\ u \in Repos /\ exists[u]
  <2>1. u \in Repos /\ exists[u] /\ FirstStore[u] \in Inst
    BY <1>3, <1>5
  <2>2. (CHOOSE v \in auto : FirstStore[v] = FirstStore[u]) = u
    BY <1>2, <1>3
  <2> HIDE DEF N
  <2> QED BY <1>3, <2>1, <2>2
<1>8. inst \in [Inst -> Instances]
  <2>1. ASSUME NEW i \in Inst PROVE inst[i] \in Instances
    <3>1. CASE \E u \in auto : FirstStore[u] = i
      BY <1>6, <1>7, <3>1
    <3>2. CASE ~\E u \in auto : FirstStore[u] = i
      BY <1>3, <3>2, NoOneTyped
    <3> QED BY <3>1, <3>2
  <2> QED BY <1>3, <2>1
<1>9. RegistryTypeOK
  <2>1. repos \in [Repos -> {NoInst} \cup Inst]
    BY <1>3, <1>5
  <2>2. store \in [Repos -> Stores] /\ spare \in Stores
    BY <1>1, <1>2, <1>4 DEF Stores
  <2>3. made \in 0..MaxInst
    BY <1>1, <1>4
  <2> QED BY <1>4, <1>8, <2>1, <2>2, <2>3, IdleRequest DEF RegistryTypeOK, HookStates
<1>10. \A u \in Repos : repos[u] # NoInst => u \in auto /\ repos[u] = FirstStore[u]
  BY <1>3
<1>11. \A t \in Threads : thr[t].pc = "idle" /\ thr[t].ref = NoInst /\ thr[t].kind = "none"
  BY <1>4, IdleRequest
<1>12. RefsName
  <2>1. ASSUME NEW u \in Repos, repos[u] # NoInst
        PROVE  repos[u] <= made /\ inst[repos[u]].uuid = u
    <3>1. repos[u] = FirstStore[u] /\ inst[repos[u]] = Loaded(u, mem[u]) /\ mem[u] \in BOOLEAN
      BY <1>7, <1>10, <2>1
    <3>2. FirstStore[u] <= made
      BY <1>1, <1>2, <1>4
    <3> QED BY <1>6, <3>1, <3>2
  <2> QED BY <1>4, <1>11, <2>1 DEF RefsName, Holding
<1>13. OpeningAlone /\ InsertUnlisted
  BY <1>11 DEF OpeningAlone, Opening, InsertUnlisted
<1>14. HookHolds /\ LostHasItsUnload
  <2>1. ASSUME NEW u \in Repos, repos[u] # NoInst
        PROVE  inst[repos[u]].hooked /\ ~inst[repos[u]].out
    <3>1. inst[repos[u]] = Loaded(u, mem[u]) /\ mem[u] \in BOOLEAN
      BY <1>7, <1>10, <2>1
    <3> QED BY <1>6, <3>1
  <2> QED BY <1>4, <2>1 DEF HookHolds, LostHasItsUnload
<1>15. StoresApart
  <2>1. \A u \in Repos : FirstStore[u] # N + 1
    BY <1>1, <1>2
  <2> QED BY <1>2, <1>4, <2>1 DEF StoresApart
<1>16. \A i \in Inst : Alive(i) => \E u \in auto : i = FirstStore[u] /\ repos[u] = i
  BY <1>4, <1>10, <1>11 DEF Alive, Inst, NoInst
<1>17. Opened /\ OneOpener
  <2>1. ASSUME NEW i \in Inst, Alive(i)
        PROVE  inst[i].store = store[inst[i].uuid] /\ exists[inst[i].uuid] /\ i = FirstStore[inst[i].uuid]
               /\ inst[i].uuid \in Repos
    <3>1. PICK u \in auto : i = FirstStore[u]
      BY <1>16, <2>1
    <3>2. inst[i] = Loaded(u, mem[u]) /\ mem[u] \in BOOLEAN /\ u \in Repos /\ exists[u]
      BY <1>7, <3>1
    <3> QED BY <1>4, <1>6, <3>1, <3>2
  <2>2. \A i \in Inst : Alive(i) => acked[inst[i].uuid] = {}
    BY <1>4, <2>1
  <2> QED BY <2>1, <2>2 DEF Opened, OneOpener
<1>18. LostOrLoaded /\ AckedKept
  BY <1>4 DEF LostOrLoaded, AckedKept
<1> QED BY <1>9, <1>12, <1>13, <1>14, <1>15, <1>17, <1>18 DEF RegistryInv

-----------------------------------------------------------------------------
(* The invariant and what follows from it. *)

\* A step of a request keeps the invariant.
LEMMA RequestStepKeeps ==
  ASSUME RegistryInv, NEW t \in Threads, RequestStep(t)
  PROVE  RegistryInv'
<1>1. CASE \E kind \in DOMAIN FirstStep, u \in Repos, mem \in BOOLEAN : Ask(t, kind, u, mem)
  BY <1>1, AskKeeps
<1>2. CASE LoadStep(t)
  BY <1>2, LooksKeep, LoadCheckKeeps, RemovesKeep, OpenersKeep, OpenedNameKeeps,
     RegisterForgetKeeps, RegisterInsertKeeps, WarmsKeep, ActivateKeeps DEF LoadStep
<1>3. CASE \E w \in Writes : Write(t, w)
  BY <1>3, WriteKeeps
<1>4. CASE \/ UnloadLost(t) \/ UnloadRemove(t) \/ UnloadDrop(t) \/ RestoreLook(t) \/ Release(t)
           \/ ReleaseAwait(t) \/ RestoreSwap(t) \/ Admit(t) \/ Serve(t) \/ SetInMemory(t)
  BY <1>4, UnloadLostKeeps, RemovesKeep, LooksKeep, ReleaseKeeps, RestoreSwapKeeps, AdmitKeeps,
     SetInMemoryKeeps
<1> QED BY <1>1, <1>2, <1>3, <1>4 DEF RequestStep

\* So does every step.
LEMMA RegistryNext ==
  ASSUME RegistryInv, [Next]_vars
  PROVE  RegistryInv'
<1>1. CASE \E t \in Threads : RequestStep(t)
  BY <1>1, RequestStepKeeps
<1>2. CASE \E i \in Inst : HookStep(i) \/ Flush(i)
  BY <1>2, HooksKeep, FlushKeeps
<1>3. CASE \E u \in Repos : MoveRoot(u)
  BY <1>3, MoveRootKeeps
<1>4. CASE Crash
  BY <1>4, CrashKeeps
<1>5. CASE UNCHANGED vars
  <2>1. UNCHANGED <<repos, lost, inst, made, hook, thr, exists, place, store, spare, content, acked, raced>>
    BY <1>5 DEF vars, world
  <2>2. \A j \in Inst : Alive(j)' <=> Alive(j)
    BY <2>1 DEF Alive
  <2>3. Opened' /\ OneOpener'
    BY <2>1, <2>2, OpenedFrame
  <2>4. RegistryTypeOK' /\ RefsName' /\ OpeningAlone' /\ HookHolds' /\ StoresApart'
    BY <2>1 DEF RegistryInv, RegistryTypeOK, RefsName, OpeningAlone, Opening, HookHolds, StoresApart
  <2>5. InsertUnlisted' /\ LostOrLoaded' /\ AckedKept' /\ LostHasItsUnload'
    BY <2>1 DEF RegistryInv, InsertUnlisted, LostOrLoaded, AckedKept, LostHasItsUnload
  <2> QED BY <2>3, <2>4, <2>5 DEF RegistryInv
<1> QED BY <1>1, <1>2, <1>3, <1>4, <1>5 DEF Next

\* The invariant holds of every reachable state of the life of repositories.
THEOREM RegistryInvariant == Spec => []RegistryInv
<1>1. Init => RegistryInv
  BY RegistryInitial
<1>2. RegistryInv /\ [Next]_vars => RegistryInv'
  BY RegistryNext
<1> QED BY <1>1, <1>2, PTL DEF Spec

\* The variables of the registry keep their types (state.rs).
THEOREM RegistryTypeCorrect == Spec => []RegistryTypeOK
<1>1. RegistryInv => RegistryTypeOK
  BY DEF RegistryInv
<1> QED BY <1>1, RegistryInvariant, PTL

\* However loads, unloads, restores and lost roots interleave, the store of a
\* repository is open in one instance at a time (load_repo_with, release_within).
THEOREM StoreOpenOnce == Spec => []OneOpener
<1>1. RegistryInv => OneOpener
  BY DEF RegistryInv
<1> QED BY <1>1, RegistryInvariant, PTL

\* A repository that is loaded is never listed as lost (register, unload_lost).
THEOREM LoadedNotListed == Spec => []LostOrLoaded
<1>1. RegistryInv => LostOrLoaded
  BY DEF RegistryInv
<1> QED BY <1>1, RegistryInvariant, PTL

\* A write that was answered is in the store the repository has on disk
\* (Memory::commit).
THEOREM AnsweredIsOnDisk == Spec => []AckedKept
<1>1. RegistryInv => AckedKept
  BY DEF RegistryInv
<1> QED BY <1>1, RegistryInvariant, PTL

\* The instance requests are served from holds every write answered, from the
\* store or from a copy of it (hold_in_memory, set_in_memory, Memory::commit).
THEOREM ServedSeesAnswered == Spec => []LoadedSeesAcked
<1>1. RegistryInv => LoadedSeesAcked
  <2> SUFFICES ASSUME RegistryInv, ~raced, NEW u \in Repos, repos[u] # NoInst
               PROVE  acked[u] \subseteq View(repos[u])
    BY DEF LoadedSeesAcked
  <2>1. repos[u] \in Inst /\ inst[repos[u]].uuid = u /\ Alive(repos[u])
    BY DEF RegistryInv, RegistryTypeOK, RefsName, Alive
  <2>2. /\ inst[repos[u]].store = store[u]
        /\ inst[repos[u]].mem # "no" => acked[u] \subseteq inst[repos[u]].copy
    BY <2>1 DEF RegistryInv, Opened
  <2>3. acked[u] \subseteq content[store[u]]
    BY DEF RegistryInv, AckedKept
  <2> QED BY <2>2, <2>3 DEF View
<1> QED BY <1>1, RegistryInvariant, PTL

\* A repository taken out of service that is still loaded has the thread that
\* unloads it under way, unless it was found lost before it had a hook
\* (take_out_of_service, register).
THEOREM LostIsUnloaded == Spec => []LostHasItsUnload
<1>1. RegistryInv => LostHasItsUnload
  BY DEF RegistryInv
<1> QED BY <1>1, RegistryInvariant, PTL

\* A step that leaves the requests and the instances as they are takes no
\* repository in service out of the registry: the hook of one lost spares the one
\* loaded after it (unload_lost).
LEMMA SparesNew ==
  ASSUME RegistryInv, [Next]_vars, NEW u \in Repos, repos[u] # NoInst, ~inst[repos[u]].out,
         inst' = inst, thr' = thr
  PROVE  repos'[u] = repos[u]
<1>1. repos \in [Repos -> {NoInst} \cup Inst] /\ thr \in [Threads -> Requests]
  BY DEF RegistryInv, RegistryTypeOK
<1>2. ASSUME NEW t \in Threads, RequestStep(t) PROVE UNCHANGED repos
  <2>1. CASE LoadRemove(t)
    BY <1>1, <2>1 DEF LoadRemove, At, GotoHolding, Requests
  <2>2. CASE RegisterInsert(t)
    BY <1>1, <2>2, IdleRequest DEF RegisterInsert, At, GotoHolding, Answer, Requests
  <2>3. CASE UnloadRemove(t)
    BY <1>1, <2>3 DEF UnloadRemove, At, GotoHolding, Requests
  <2>4. CASE \E kind \in DOMAIN FirstStep, v \in Repos, mem \in BOOLEAN : Ask(t, kind, v, mem)
    BY <2>4 DEF Ask
  <2>5. CASE \E w \in Writes : Write(t, w)
    BY <2>5 DEF Write
  <2>6. CASE \/ LoadLook(t) \/ LoadCheck(t) \/ LoadLetGo(t) \/ LoadOpen(t) \/ InitMake(t)
             \/ OpenedName(t) \/ RegisterForget(t) \/ WarmLook(t) \/ WarmClaim(t) \/ Warmup(t)
             \/ Activate(t) \/ WarmFails(t)
    BY <2>6 DEF LoadLook, LoadCheck, LoadLetGo, LoadOpen, InitMake, OpenedName, RegisterForget,
                WarmLook, WarmClaim, Warmup, Activate, WarmFails
  <2>7. CASE \/ UnloadLost(t) \/ UnloadDrop(t) \/ RestoreLook(t) \/ Release(t) \/ ReleaseAwait(t)
             \/ RestoreSwap(t) \/ Admit(t) \/ Serve(t) \/ SetInMemory(t)
    BY <2>7 DEF UnloadLost, UnloadDrop, RestoreLook, Release, ReleaseAwait, RestoreSwap, Admit,
                Serve, SetInMemory
  <2> QED BY <1>2, <2>1, <2>2, <2>3, <2>4, <2>5, <2>6, <2>7 DEF RequestStep, LoadStep
<1>3. ASSUME NEW i \in Inst, HookStep(i) PROVE repos'[u] = repos[u]
  <2>1. hook[i] # "none" => inst[i].out
    BY DEF RegistryInv, RefsName
  <2> QED BY <1>1, <1>3, <2>1 DEF HookStep, HookRemove, HookList, HookLetGo
<1>4. CASE Crash
  <2>1. inst[repos[u]].hooked /\ repos[u] \in Inst
    BY <1>1 DEF RegistryInv, HookHolds
  <2> QED BY <1>4, <2>1 DEF Crash, NoOne
<1> QED BY <1>2, <1>3, <1>4 DEF Next, Flush, MoveRoot, vars

\* The hook of a repository lost never unloads the one loaded after it
\* (unload_lost: "that one stays").
THEOREM HookSparesTheNext == Spec => HookSparesNew
<1>1. RegistryInv /\ [Next]_vars =>
        [\A u \in Repos : repos[u] # NoInst /\ ~inst[repos[u]].out /\ inst' = inst /\ thr' = thr
                            => repos'[u] = repos[u]]_vars
  BY SparesNew
<1> QED BY <1>1, RegistryInvariant, PTL DEF Spec, HookSparesNew
=============================================================================
