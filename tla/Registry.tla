------------------------------ MODULE Registry ------------------------------
(***************************************************************************)
(* The life of a loaded repository (state.rs, AppState and RepoState): the *)
(* registry of loaded repositories, the list of those lost, the requests   *)
(* that load, initialise, unload, restore, write and switch to memory, and *)
(* the hook that unloads a repository taken out of service.                *)
(*                                                                         *)
(* A loaded repository is an INSTANCE (an Arc<RepoState>).  It lives, and  *)
(* its store stays open under its exclusive lock, until the last reference *)
(* is dropped: the registry's, a request's or the hook's.  Each lock of    *)
(* the registry or of the list is one step, so a request that takes both,  *)
(* or one twice, is several.                                               *)
(*                                                                         *)
(* The store is its set of writes.  Held in memory (kvstore/memory.rs) it  *)
(* is read from a copy that a write reaches after the disk; a copy that    *)
(* refuses what the disk took is behind, and the repository is lost.       *)
(***************************************************************************)
EXTENDS Naturals, FiniteSets

CONSTANTS Repos,      \* repositories, by uuid
          NameOf,     \* the name each has in its config.json
          Threads,    \* threads serving requests
          Writes,     \* the writes requested
          MaxInst,    \* bound: instances ever opened
          MaxMoves,   \* bound: times a root is moved away or back
          MaxAsks     \* bound: requests made

NoInst == 0
Inst == 1..MaxInst

ASSUME RegistryAssumption ==
  /\ {MaxInst, MaxMoves, MaxAsks} \subseteq Nat
  /\ IsFiniteSet(Repos) /\ Repos # {} /\ Threads # {}
  /\ Cardinality(Repos) <= MaxInst  \* room to open each of them once

VARIABLES repos,    \* AppState::repos: the instance loaded, or NoInst
          lost,     \* AppState::lost: the repositories listed as lost
          inst,     \* the instances, by number
          made,     \* instances opened so far
          hook,     \* the thread on_root_lost spawned for an instance
          thr,      \* the requests under way
          exists,   \* repositories initialised on disk
          place,    \* where the root of each is
          store,    \* the store at a repository's place: a number
          spare,    \* a store the backup can be put into, 0 once used
          content,  \* what each store holds on disk
          acked,    \* ghost: writes answered, and not undone by a restore
          raced,    \* ghost: a restore replaced a store somebody had open
          moves, asks

world == <<exists, place, store, spare, content, acked, raced, moves, asks>>
vars == <<repos, lost, inst, made, hook, thr, world>>

Stores == 1..(Cardinality(Repos) + 1)
FirstStore == CHOOSE f \in [Repos -> 1..Cardinality(Repos)] :
                \A u, v \in Repos : f[u] = f[v] => u = v

-----------------------------------------------------------------------------
(* Instances. *)

NewInst(u) ==
  [uuid |-> u, store |-> store[u], root |-> place[u], out |-> FALSE,
   hooked |-> FALSE, early |-> FALSE, ready |-> FALSE, task |-> FALSE,
   inMemory |-> FALSE, mem |-> "no", copy |-> {}]

NoOne == [uuid |-> CHOOSE u \in Repos : TRUE, store |-> 1, root |-> "home",
          out |-> FALSE, hooked |-> FALSE, early |-> FALSE, ready |-> FALSE,
          task |-> FALSE, inMemory |-> FALSE, mem |-> "no", copy |-> {}]

\* Mutant: the hook lets go of a lost repository before it is listed.
AliveUntilRemoved(i) ==
  \/ \E u \in Repos : repos[u] = i
  \/ \E t \in Threads : thr[t].ref = i

\* Somebody holds a reference to the instance: its store is open.
Alive(i) ==
  \/ \E u \in Repos : repos[u] = i
  \/ \E t \in Threads : thr[t].ref = i
  \/ hook[i] \in {"holds", "listed"}

\* Mutant: a store is opened whoever has it open.
UnlockedAlways(s) == TRUE

\* The exclusive lock of a store (daemon.lock) is free.
Unlocked(s) == \A i \in Inst : Alive(i) => inst[i].store # s

\* RepoState::root_present, without its effect.
Present(i) == ~inst[i].out /\ inst[i].root = place[inst[i].uuid]

\* take_out_of_service: the flag, once, and the hook's thread if one is set.
TakenOut(r) == [r EXCEPT !.out = TRUE, !.early = @ \/ (~r.out /\ ~r.hooked)]

\* Mutant: the hook is called only of a repository that is ready.
SpawnedReady(i) ==
  IF ~inst[i].out /\ inst[i].hooked /\ inst[i].ready THEN [hook EXCEPT ![i] = "spawned"] ELSE hook

Spawned(i) == IF ~inst[i].out /\ inst[i].hooked THEN [hook EXCEPT ![i] = "spawned"] ELSE hook

TakeOutOfService(i) ==
  /\ inst' = [inst EXCEPT ![i] = TakenOut(@)]
  /\ hook' = Spawned(i)

\* hold_in_memory: the copy is what the disk holds, unless one is held.
ReadIn(r) == IF r.mem = "no" THEN [r EXCEPT !.mem = "held", !.copy = content[r.store]] ELSE r

\* ensure_name_available.
NameTaken(u) == \E v \in Repos : repos[v] # NoInst /\ NameOf[v] = NameOf[u]

\* What a reader of the instance sees.
View(i) == IF inst[i].mem = "no" THEN content[inst[i].store] ELSE inst[i].copy

-----------------------------------------------------------------------------
(* Requests. *)

Idle == [pc |-> "idle", kind |-> "none", u |-> NoOne.uuid, ref |-> NoInst,
         weak |-> NoInst, mem |-> FALSE]

At(t, pc) == thr[t].pc = pc
Goto(t, pc) == thr' = [thr EXCEPT ![t].pc = pc]
GotoHolding(t, pc, i) == thr' = [thr EXCEPT ![t].pc = pc, ![t].ref = i]
Answer(t) == thr' = [thr EXCEPT ![t] = Idle]

FirstStep == [load |-> "look", init |-> "init", unload |-> "unlist",
              restore |-> "loaded", data |-> "admit", memory |-> "admit"]

Ask(t, kind, u, mem) ==
  /\ At(t, "idle") /\ asks < MaxAsks
  /\ mem => kind \in {"load", "memory"}
  /\ asks' = asks + 1
  /\ thr' = [thr EXCEPT ![t] = [Idle EXCEPT !.pc = FirstStep[kind], !.kind = kind,
                                            !.u = u, !.mem = mem]]
  /\ UNCHANGED <<repos, lost, inst, made, hook, exists, place, store, spare, content,
                 acked, raced, moves>>

(* POST /repos/load, and the load that ends a restore. *)

\* load_repo_with: is it loaded already?
LoadLook(t) ==
  LET i == repos[thr[t].u]
  IN /\ At(t, "look")
     /\ GotoHolding(t, IF i = NoInst THEN "open" ELSE "check", i)
     /\ UNCHANGED <<repos, lost, inst, made, hook, world>>

\* Loaded and present: nothing to load, or 409 if memory was asked.  Lost, and
\* not unloaded yet: this load unloads it.
LoadCheck(t) ==
  LET i == thr[t].ref
  IN /\ At(t, "check")
     /\ IF Present(i)
        THEN /\ IF thr[t].mem /\ ~inst[i].inMemory THEN Answer(t)
                ELSE GotoHolding(t, "warm", NoInst)
             /\ UNCHANGED <<inst, hook>>
        ELSE /\ GotoHolding(t, "remove", NoInst)
             /\ TakeOutOfService(i)
     /\ UNCHANGED <<repos, lost, made, world>>

LoadRemove(t) ==
  LET i == repos[thr[t].u]
  IN /\ At(t, "remove")
     /\ repos' = [repos EXCEPT ![thr[t].u] = NoInst]
     /\ GotoHolding(t, IF i = NoInst THEN "open" ELSE "let_go", i)
     /\ UNCHANGED <<lost, inst, made, hook, world>>

\* let_go, then the reference is dropped.
LoadLetGo(t) ==
  /\ At(t, "let_go")
  /\ GotoHolding(t, "open", NoInst)
  /\ UNCHANGED <<repos, lost, inst, made, hook, world>>

\* load_repository: the store's lock is waited for a while, then refused.
LoadOpen(t) ==
  LET u == thr[t].u
  IN /\ At(t, "open")
     /\ \/ /\ exists[u] /\ Unlocked(store[u]) /\ made < MaxInst
           /\ made' = made + 1
           /\ inst' = [inst EXCEPT ![made + 1] = NewInst(u)]
           /\ GotoHolding(t, "name", made + 1)
        \/ /\ ~exists[u] \/ ~Unlocked(store[u])
           /\ Answer(t)
           /\ UNCHANGED <<inst, made>>
     /\ UNCHANGED <<repos, lost, hook, world>>

\* init_repo: the repository is made on disk and opened.
InitMake(t) ==
  LET u == thr[t].u
  IN /\ At(t, "init")
     /\ \/ /\ ~exists[u] /\ ~NameTaken(u) /\ made < MaxInst
           /\ exists' = [exists EXCEPT ![u] = TRUE]
           /\ made' = made + 1
           /\ inst' = [inst EXCEPT ![made + 1] = NewInst(u)]
           /\ GotoHolding(t, "name", made + 1)
        \/ /\ exists[u] \/ NameTaken(u)
           /\ Answer(t)
           /\ UNCHANGED <<exists, made, inst>>
     /\ UNCHANGED <<repos, lost, hook, place, store, spare, content, acked, raced, moves, asks>>

\* ensure_name_available, from_opened_with, and load_config, which may fail.
\* A load registers, then warms; init_repo warms first.
OpenedName(t) ==
  LET i == thr[t].ref
  IN /\ At(t, "name")
     /\ \/ /\ ~NameTaken(thr[t].u)
           /\ inst' = [inst EXCEPT ![i].root = place[thr[t].u], ![i].inMemory = thr[t].mem]
           /\ Goto(t, IF thr[t].kind = "init" THEN "warmup" ELSE "register")
        \/ Answer(t) /\ UNCHANGED inst
     /\ UNCHANGED <<repos, lost, made, hook, world>>

\* register: the hook is installed, the list cleared ...
RegisterForget(t) ==
  LET u == thr[t].u
  IN /\ At(t, "register")
     /\ inst' = [inst EXCEPT ![thr[t].ref].hooked = TRUE]
     /\ lost' = {v \in lost : v # u /\ NameOf[v] # NameOf[u]}
     /\ Goto(t, "insert")
     /\ UNCHANGED <<repos, made, hook, world>>

\* ... and the registry filled.
RegisterInsert(t) ==
  /\ At(t, "insert")
  /\ repos' = [repos EXCEPT ![thr[t].u] = thr[t].ref]
  /\ IF thr[t].kind = "init" THEN Answer(t) ELSE GotoHolding(t, "warm", NoInst)
  /\ UNCHANGED <<lost, inst, made, hook, world>>

\* spawn_load_warmup: the repository is looked at, then its load task claimed.
\* The load that ends a restore warms it without a task.
WarmLook(t) ==
  LET i == repos[thr[t].u]
  IN /\ At(t, "warm")
     /\ IF i = NoInst THEN Answer(t)
        ELSE IF thr[t].kind = "restore" THEN GotoHolding(t, "warmup", i)
        ELSE IF inst[i].ready THEN Answer(t)
        ELSE GotoHolding(t, "claim", i)
     /\ UNCHANGED <<repos, lost, inst, made, hook, world>>

WarmClaim(t) ==
  LET i == thr[t].ref
  IN /\ At(t, "claim")
     /\ IF inst[i].task THEN Answer(t) /\ UNCHANGED inst
        ELSE /\ inst' = [inst EXCEPT ![i].task = TRUE]
             /\ Goto(t, "warmup")
     /\ UNCHANGED <<repos, lost, made, hook, world>>

\* The load task of a load is over; a restore's load has none.
TaskOver(t, r) == [r EXCEPT !.task = @ /\ thr[t].kind # "load"]

WarmFails(t) ==
  /\ At(t, "warmup") \/ At(t, "activate")
  /\ inst' = [inst EXCEPT ![thr[t].ref] = TaskOver(t, @)]
  /\ Answer(t)
  /\ UNCHANGED <<repos, lost, made, hook, world>>

\* RepoState::warmup, which reads the store in when asked.
Warmup(t) ==
  /\ At(t, "warmup")
  /\ inst' = [inst EXCEPT ![thr[t].ref] = IF @.inMemory THEN ReadIn(@) ELSE @]
  /\ Goto(t, "activate")
  /\ UNCHANGED <<repos, lost, made, hook, world>>

\* activate replays what is buffered, which looks at the root; then ready.
Activate(t) ==
  LET i == thr[t].ref
      r == TaskOver(t, [inst[i] EXCEPT !.ready = TRUE])
  IN /\ At(t, "activate")
     /\ inst' = [inst EXCEPT ![i] = IF Present(i) THEN r ELSE TakenOut(r)]
     /\ hook' = IF Present(i) THEN hook ELSE Spawned(i)
     /\ IF thr[t].kind = "init" THEN Goto(t, "register") ELSE Answer(t)
     /\ UNCHANGED <<repos, lost, made, world>>

(* POST /repos/:repo/unload, and the release that starts a restore. *)

Unloaded(t) == IF thr[t].kind = "restore" THEN GotoHolding(t, "await", NoInst) ELSE Answer(t)

\* unload_repo: one listed as lost is forgotten ...
UnloadLost(t) ==
  LET u == thr[t].u
  IN /\ At(t, "unlist")
     /\ IF u \in lost THEN lost' = lost \ {u} /\ Unloaded(t)
                      ELSE Goto(t, "unload") /\ UNCHANGED lost
     /\ UNCHANGED <<repos, inst, made, hook, world>>

\* ... and one loaded is removed, unless a load, another task or a revert runs.
UnloadRemove(t) ==
  LET u == thr[t].u
      i == repos[u]
  IN /\ At(t, "unload")
     /\ \/ /\ i # NoInst /\ ~inst[i].task
           /\ repos' = [repos EXCEPT ![u] = NoInst]
           /\ GotoHolding(t, "drop", i)
        \/ Answer(t) /\ UNCHANGED repos
     /\ UNCHANGED <<lost, inst, made, hook, world>>

\* The last reference joins the executor and closes the store.
UnloadDrop(t) ==
  /\ At(t, "drop")
  /\ Unloaded(t)
  /\ UNCHANGED <<repos, lost, inst, made, hook, world>>

(* POST /repos/restore. *)

\* restore_repo: one that is loaded is let go of first.
RestoreLook(t) ==
  /\ At(t, "loaded")
  /\ exists[thr[t].u]
  /\ Goto(t, IF repos[thr[t].u] = NoInst THEN "swap" ELSE "release")
  /\ UNCHANGED <<repos, lost, inst, made, hook, world>>

\* release_within: the instance to wait for, then unload_repo.
Release(t) ==
  LET i == repos[thr[t].u]
  IN /\ At(t, "release")
     /\ IF i = NoInst THEN Answer(t)
        ELSE thr' = [thr EXCEPT ![t].pc = "unlist", ![t].weak = i]
     /\ UNCHANGED <<repos, lost, inst, made, hook, world>>

\* The last reference is waited for, up to a minute.
ReleaseAwait(t) ==
  /\ At(t, "await")
  /\ IF Alive(thr[t].weak) THEN Answer(t) ELSE Goto(t, "swap")
  /\ UNCHANGED <<repos, lost, inst, made, hook, world>>

\* backup::restore: a store holding the backup is put in place of the current
\* one; the load that follows is skipped if it failed and nothing was loaded.
\* The set-aside and the rename are one step: a crash between them, which leaves
\* no store at all, is not modelled.
RestoreSwap(t) ==
  LET u == thr[t].u
  IN /\ At(t, "swap")
     /\ \/ /\ spare > 0
           /\ store' = [store EXCEPT ![u] = spare]
           /\ spare' = 0
           /\ acked' = [acked EXCEPT ![u] = {}]
           /\ raced' = (raced \/ ~Unlocked(store[u]))
           /\ GotoHolding(t, "look", NoInst)
        \/ /\ IF thr[t].weak = NoInst THEN Answer(t) ELSE GotoHolding(t, "look", NoInst)
           /\ UNCHANGED <<store, spare, acked, raced>>
     /\ UNCHANGED <<repos, lost, inst, made, hook, exists, place, content, moves, asks>>

(* Requests to a repository. *)

\* ready_repo: loaded, ready, its root present.
Admit(t) ==
  LET i == repos[thr[t].u]
  IN /\ At(t, "admit")
     /\ IF i = NoInst \/ ~inst[i].ready
        THEN Answer(t) /\ UNCHANGED <<inst, hook>>
        ELSE IF Present(i)
        THEN GotoHolding(t, thr[t].kind, i) /\ UNCHANGED <<inst, hook>>
        ELSE Answer(t) /\ TakeOutOfService(i)
     /\ UNCHANGED <<repos, lost, made, world>>

\* Mutant: the copy takes the write first, and the write is answered whatever
\* the disk makes of it.
WriteCopyFirst(t, w) ==
  LET i == thr[t].ref
      s == inst[i].store
  IN /\ At(t, "data")
     /\ inst[i].mem # "behind"
     /\ \/ content' = [content EXCEPT ![s] = @ \cup {w}]
        \/ inst[i].mem = "held" /\ UNCHANGED content
     /\ acked' = [acked EXCEPT ![thr[t].u] = @ \cup {w}]
     /\ inst' = [inst EXCEPT ![i].copy = IF inst[i].mem = "held" THEN @ \cup {w} ELSE @]
     /\ Answer(t)
     /\ UNCHANGED <<repos, lost, made, hook, exists, place, store, spare, raced, moves, asks>>

\* Mutant: a copy that refuses what the disk took goes unnoticed.
WriteAnyway(t, w) ==
  LET i == thr[t].ref
      s == inst[i].store
  IN /\ At(t, "data")
     /\ content' = [content EXCEPT ![s] = @ \cup {w}]
     /\ acked' = [acked EXCEPT ![thr[t].u] = @ \cup {w}]
     /\ \/ inst' = [inst EXCEPT ![i].copy = IF inst[i].mem = "held" THEN @ \cup {w} ELSE @]
        \/ UNCHANGED inst
     /\ Answer(t)
     /\ UNCHANGED <<repos, lost, made, hook, exists, place, store, spare, raced, moves, asks>>

\* Memory::commit, or the commit of a store on disk: the disk takes the write
\* first, then the copy, which may refuse it.
Write(t, w) ==
  LET i == thr[t].ref
      s == inst[i].store
  IN /\ At(t, "data")
     /\ inst[i].mem # "behind"
     /\ content' = [content EXCEPT ![s] = @ \cup {w}]
     /\ \/ /\ acked' = [acked EXCEPT ![thr[t].u] = @ \cup {w}]
           /\ inst' = [inst EXCEPT ![i].copy = IF inst[i].mem = "held" THEN @ \cup {w} ELSE @]
           /\ UNCHANGED hook
        \/ /\ inst[i].mem = "held"
           /\ inst' = [inst EXCEPT ![i] = TakenOut([@ EXCEPT !.mem = "behind"])]
           /\ hook' = Spawned(i)
           /\ UNCHANGED acked
     /\ Answer(t)
     /\ UNCHANGED <<repos, lost, made, exists, place, store, spare, raced, moves, asks>>

\* A read, or a write the disk refuses or a copy fallen behind does not take.
Serve(t) ==
  /\ At(t, "data")
  /\ Answer(t)
  /\ UNCHANGED <<repos, lost, inst, made, hook, world>>

\* set_in_memory: the copy is read in, if memory has room, or let go of.
SetInMemory(t) ==
  LET i == thr[t].ref
      off == [inst[i] EXCEPT !.mem = "no", !.copy = {}]
  IN /\ At(t, "memory")
     /\ \/ inst' = [inst EXCEPT ![i] = [(IF thr[t].mem THEN ReadIn(@) ELSE off)
                                          EXCEPT !.inMemory = thr[t].mem]]
        \/ thr[t].mem /\ UNCHANGED inst
     /\ Answer(t)
     /\ UNCHANGED <<repos, lost, made, hook, world>>

-----------------------------------------------------------------------------
(* unload_lost, on the thread the hook spawned. *)

\* Mutant: whatever is loaded under the uuid is removed.
HookRemoveAny(i) ==
  LET u == inst[i].uuid
  IN /\ hook[i] = "spawned"
     /\ IF repos[u] # NoInst
        THEN repos' = [repos EXCEPT ![u] = NoInst] /\ hook' = [hook EXCEPT ![i] = "holds"]
        ELSE hook' = [hook EXCEPT ![i] = "none"] /\ UNCHANGED repos
     /\ UNCHANGED <<lost, inst, made, thr, world>>

HookRemove(i) ==
  LET u == inst[i].uuid
  IN /\ hook[i] = "spawned"
     /\ IF repos[u] = i
        THEN repos' = [repos EXCEPT ![u] = NoInst] /\ hook' = [hook EXCEPT ![i] = "holds"]
        ELSE hook' = [hook EXCEPT ![i] = "none"] /\ UNCHANGED repos
     /\ UNCHANGED <<lost, inst, made, thr, world>>

HookList(i) ==
  /\ hook[i] = "holds"
  /\ lost' = lost \cup {inst[i].uuid}
  /\ hook' = [hook EXCEPT ![i] = "listed"]
  /\ UNCHANGED <<repos, inst, made, thr, world>>

HookLetGo(i) ==
  /\ hook[i] = "listed"
  /\ hook' = [hook EXCEPT ![i] = "none"]
  /\ UNCHANGED <<repos, lost, inst, made, thr, world>>

-----------------------------------------------------------------------------
(* The machine. *)

\* A root is moved away, or back: a repository opened elsewhere has lost it.
MoveRoot(u) ==
  /\ moves < MaxMoves
  /\ moves' = moves + 1
  /\ place' = [place EXCEPT ![u] = IF @ = "home" THEN "away" ELSE "home"]
  /\ UNCHANGED <<repos, lost, inst, made, hook, thr, exists, store, spare, content, acked, raced, asks>>

\* The daemon's flush looks at the root of a repository it works for.
Flush(i) ==
  /\ inst[i].ready /\ (\E u \in Repos : repos[u] = i)
  /\ ~inst[i].out /\ ~Present(i)
  /\ TakeOutOfService(i)
  /\ UNCHANGED <<repos, lost, made, thr, world>>

\* The daemon is killed: what is on disk stays.
Crash ==
  /\ repos' = [u \in Repos |-> NoInst]
  /\ lost' = {}
  /\ hook' = [i \in Inst |-> "none"]
  /\ thr' = [t \in Threads |-> Idle]
  /\ inst' = [i \in Inst |-> NoOne]
  /\ UNCHANGED <<made, world>>

-----------------------------------------------------------------------------
\* The daemon serves once it has loaded the repositories of its configuration,
\* each held in memory or not.
Loaded(u, mem) ==
  [NewInst(u) EXCEPT !.hooked = TRUE, !.ready = TRUE, !.inMemory = mem,
                     !.mem = IF mem THEN "held" ELSE "no"]

Init ==
  /\ exists \in [Repos -> BOOLEAN]
  /\ place = [u \in Repos |-> "home"]
  /\ store = FirstStore
  /\ spare = Cardinality(Repos) + 1
  /\ content = [s \in Stores |-> {}]
  /\ acked = [u \in Repos |-> {}]
  /\ \E auto \in SUBSET {u \in Repos : exists[u]}, mem \in [Repos -> BOOLEAN] :
       /\ repos = [u \in Repos |-> IF u \in auto THEN FirstStore[u] ELSE NoInst]
       /\ inst = [i \in Inst |-> IF \E u \in auto : FirstStore[u] = i
                                 THEN LET u == CHOOSE v \in auto : FirstStore[v] = i
                                      IN Loaded(u, mem[u])
                                 ELSE NoOne]
  /\ made = Cardinality(Repos)
  /\ lost = {}
  /\ hook = [i \in Inst |-> "none"]
  /\ thr = [t \in Threads |-> Idle]
  /\ raced = FALSE
  /\ moves = 0
  /\ asks = 0

LoadStep(t) ==
  \/ LoadLook(t) \/ LoadCheck(t) \/ LoadRemove(t) \/ LoadLetGo(t) \/ LoadOpen(t)
  \/ InitMake(t) \/ OpenedName(t) \/ RegisterForget(t) \/ RegisterInsert(t)
  \/ WarmLook(t) \/ WarmClaim(t) \/ Warmup(t) \/ Activate(t) \/ WarmFails(t)

RequestStep(t) ==
  \/ \E kind \in DOMAIN FirstStep, u \in Repos, mem \in BOOLEAN : Ask(t, kind, u, mem)
  \/ LoadStep(t)
  \/ UnloadLost(t) \/ UnloadRemove(t) \/ UnloadDrop(t)
  \/ RestoreLook(t) \/ Release(t) \/ ReleaseAwait(t) \/ RestoreSwap(t)
  \/ Admit(t) \/ Serve(t) \/ SetInMemory(t)
  \/ \E w \in Writes : Write(t, w)

HookStep(i) == HookRemove(i) \/ HookList(i) \/ HookLetGo(i)

Next ==
  \/ \E t \in Threads : RequestStep(t)
  \/ \E i \in Inst : HookStep(i) \/ Flush(i)
  \/ \E u \in Repos : MoveRoot(u)
  \/ Crash

Spec == Init /\ [][Next]_vars

-----------------------------------------------------------------------------
(* Properties.  Those about the store except what follows a restore that   *)
(* replaced a store while somebody had it open (raced).                    *)

\* A repository that is loaded is never listed as lost, although the registry
\* and the list have a lock each: the hook (unload_lost) lists it while it still
\* holds the store, so no load can have opened it, and a load (register) clears
\* the list before it fills the registry.
LostOrLoaded == ~raced => \A u \in lost : repos[u] = NoInst

\* The store of a repository is open in one instance at a time, through loads
\* that race, unloads that give up waiting, restores and lost roots.
OneOpener ==
  ~raced =>
    \A i, j \in Inst : Alive(i) /\ Alive(j) /\ inst[i].uuid = inst[j].uuid => i = j

\* A write that was answered is in the store the repository has on disk, held
\* in memory or not, whatever refused it later and wherever the daemon is
\* killed (Memory::commit: the disk first).
AckedKept == ~raced => \A u \in Repos : acked[u] \subseteq content[store[u]]

\* The instance requests are served from holds every write answered, by it or
\* by an instance before it: a copy is never older than what was answered, not
\* even one fallen behind, nor one read in by two warmups.
LoadedSeesAcked ==
  ~raced => \A u \in Repos : repos[u] # NoInst => acked[u] \subseteq View(repos[u])

\* A repository taken out of service that is still loaded has the thread that
\* unloads it under way: root_present says it once, so a hook that was not
\* there then is never called.  One that init_repo found lost while it warmed
\* it, before register, is excepted.
LostHasItsUnload ==
  \A u \in Repos : repos[u] # NoInst =>
    LET i == repos[u] IN inst[i].out /\ ~inst[i].early => hook[i] = "spawned"

\* The hook of a repository lost never unloads the one loaded after it
\* (unload_lost: "that one stays").
HookSparesNew ==
  [][\A u \in Repos :
       repos[u] # NoInst /\ ~inst[repos[u]].out /\ inst' = inst /\ thr' = thr
         => repos'[u] = repos[u]]_vars
=============================================================================
