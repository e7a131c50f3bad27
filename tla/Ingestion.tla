----------------------------- MODULE Ingestion -----------------------------
(***************************************************************************)
(* From a filesystem event to its commit (daemon/src/watcher/mod.rs,       *)
(* executor.rs, state.rs, routes/fs.rs).  The watcher's ingest thread      *)
(* filters events with the published rule index and buffers them in        *)
(* memory; the executor flushes the buffer once the disk is quiet, and so  *)
(* does the route that ends a coordinated revert; the user pauses and      *)
(* resumes.  Only a flush holds the store; the buffer, the rule slot, the  *)
(* pause flag and the flush's cancel flag are shared without it.           *)
(*                                                                         *)
(* The root is watched (mf_watch) and one directory opts out; its rule     *)
(* travels with it.  A "move" event renames that directory, a "file" event *)
(* is about a file under some place, eligible unless the opted-out         *)
(* directory is there.  Every event is a group of its own: how events are  *)
(* compacted and grouped is another matter.                                *)
(***************************************************************************)
EXTENDS Naturals, Sequences, FiniteSets

CONSTANTS
    Places,        \* where the rule-carrying directory may be
    Start,         \* where it is at first
    MaxEvents,     \* bound on the events of the filesystem
    MaxMoves,      \* bound on the moves of the rule-carrying directory
    MaxFails,      \* bound on the flushes that fail while applying
    MaxReadFails,  \* bound on the flushes that fail before applying
    MaxStops,      \* bound on the pauses the user asks for
    MaxSessions,   \* bound on the coordinated reverts
    MaxTroubles    \* bound on moves, failures, pauses and a lost root

ASSUME StartAssumption == Start \in Places

ASSUME BoundsAssumption ==
    /\ MaxEvents \in Nat /\ MaxMoves \in Nat /\ MaxFails \in Nat
    /\ MaxReadFails \in Nat /\ MaxStops \in Nat /\ MaxSessions \in Nat
    /\ MaxTroubles \in Nat

Flushers == {"exec", "route"}

VARIABLES
    hist,       \* every event of the filesystem, in order
    ipc,        \* ingest thread: "idle", "read", "buffered" or "ping"
    iread,      \* what it read of the rule slot: the rule's place, trusted
    dropped,    \* numbers of the events the ingest filter dropped
    pending,    \* RepoState::pending: numbers of the buffered events
    touched, covered, published,  \* the rule slot: two counts, the rule's place
    ping,       \* whether a message waits in the executor's channel
    fpc,        \* flusher -> where it is
    mark,       \* the touch count the flush with the store read
    taken,      \* the batch it drained
    done,       \* how many events of it are committed
    conn,       \* the flusher holding the store, or "free"
    placeOf,    \* the committed place of the rule-carrying directory
    applied,    \* numbers of the events some flush committed
    revertLock, \* a coordinated revert is in progress
    lost,       \* the root is gone
    paused,     \* RepoState::ingestion_paused
    cancel,     \* cancel_requested of the flush task
    upc,        \* the user: "idle", or "stopping" within a pause
    count       \* how often each bounded thing happened

ingest == <<hist, ipc, iread, dropped>>
slot == <<touched, covered, published>>
batch == <<mark, taken, done>>
store == <<placeOf, applied>>
repo == <<revertLock, lost>>
user == <<paused, cancel, upc>>

vars == <<ingest, pending, slot, ping, fpc, batch, conn, store, repo, user,
          count>>

EventNo == 1..MaxEvents

Events == [type : {"move"}, from : Places, to : Places]
            \cup [type : {"file"}, at : Places]

Moves == {i \in DOMAIN hist : hist[i].type = "move"}

\* Where the directory is on disk when event n happens.
DiskPlace(n) ==
    LET before == {i \in Moves : i < n}
    IN  IF before = {} THEN Start
        ELSE hist[CHOOSE i \in before : \A j \in before : j <= i].to

Bound == [fail |-> MaxFails, read |-> MaxReadFails, stop |-> MaxStops,
          session |-> MaxSessions]

Troubles ==
    Cardinality(Moves) + count["fail"] + count["read"] + count["stop"]
        + IF lost THEN 1 ELSE 0

Spend(what) ==
    /\ count[what] < Bound[what]
    /\ what # "session" => Troubles < MaxTroubles
    /\ count' = [count EXCEPT ![what] = @ + 1]

TypeOK ==
    /\ hist \in Seq(Events) /\ Len(hist) <= MaxEvents
    /\ ipc \in {"idle", "read", "buffered", "ping"}
    /\ iread \in [at : Places, trusted : BOOLEAN]
    /\ dropped \subseteq EventNo /\ applied \subseteq EventNo
    /\ pending \in Seq(EventNo) /\ taken \in Seq(EventNo)
    /\ touched \in Nat /\ covered \in Nat /\ mark \in Nat
    /\ published \in Places /\ placeOf \in Places
    /\ done \in 0..Len(taken)
    /\ fpc \in [Flushers -> {"home", "quiet", "entry", "wait", "held", "marked",
                             "taken", "apply", "group", "published"}]
    /\ conn \in Flushers \cup {"free"}
    /\ ping \in BOOLEAN /\ revertLock \in BOOLEAN /\ lost \in BOOLEAN
    /\ paused \in BOOLEAN /\ cancel \in BOOLEAN
    /\ upc \in {"idle", "stopping"}
    /\ count \in [{"fail", "read", "stop", "session"} -> Nat]

Init ==
    /\ hist = <<>> /\ ipc = "idle" /\ dropped = {} /\ pending = <<>>
    /\ iread = [at |-> Start, trusted |-> TRUE]
    /\ touched = 0 /\ covered = 0 /\ published = Start /\ placeOf = Start
    /\ ping = FALSE
    /\ fpc = [f \in Flushers |-> "home"]
    /\ mark = 0 /\ taken = <<>> /\ done = 0
    /\ conn = "free" /\ applied = {}
    /\ revertLock = FALSE /\ lost = FALSE /\ paused = FALSE /\ cancel = FALSE
    /\ upc = "idle"
    /\ count = [w \in {"fail", "read", "stop", "session"} |-> 0]

-----------------------------------------------------------------------------
(* The ingest thread, one event at a time *)

This == Len(hist)

\* The filesystem changes and the backend delivers the event; the rules and
\* whether they are trusted are read together from the slot.
ReadRules ==
    /\ ipc = "idle"
    /\ Len(hist) < MaxEvents
    /\ \E e \in Events :
          /\ e.type = "move" => /\ e.from = DiskPlace(Len(hist) + 1)
                                /\ e.to # e.from
                                /\ Cardinality(Moves) < MaxMoves
                                /\ Troubles < MaxTroubles
          /\ hist' = Append(hist, e)
    /\ iread' = [at |-> published, trusted |-> touched <= covered]
    /\ ipc' = "read"
    /\ UNCHANGED <<dropped, pending, slot, ping, fpc, batch, conn, store,
                   repo, user, count>>

\* touches_rules: the rule is, as read, at one end of the move.
Touching(e) == e.type = "move" /\ iread.at \in {e.from, e.to}

\* drop_ineligible: an event the flush would turn away, the rule being where it
\* was read.  A rename is kept whole when one of its sides is eligible.
Ineligible(e) ==
    CASE e.type = "file" -> e.at = iread.at
      [] e.type = "move" -> e.from = iread.at /\ e.to = iread.at

Filtered(e) == iread.trusted /\ ~Touching(e) /\ Ineligible(e)

\* Dropped without a trace: no ping.
DropEvent ==
    /\ ipc = "read"
    /\ Filtered(hist[This])
    /\ dropped' = dropped \cup {This}
    /\ ipc' = "idle"
    /\ UNCHANGED <<hist, iread, pending, slot, ping, fpc, batch, conn, store,
                   repo, user, count>>

\* enqueue_all, before the touch is counted and before the ping.
Buffer ==
    /\ ipc = "read"
    /\ ~Filtered(hist[This])
    /\ pending' = Append(pending, This)
    /\ ipc' = IF Touching(hist[This]) THEN "buffered" ELSE "ping"
    /\ UNCHANGED <<hist, iread, dropped, slot, ping, fpc, batch, conn, store,
                   repo, user, count>>

\* rules_touched
RulesTouched ==
    /\ ipc = "buffered"
    /\ touched' = touched + 1
    /\ ipc' = "ping"
    /\ UNCHANGED <<hist, iread, dropped, pending, covered, published, ping,
                   fpc, batch, conn, store, repo, user, count>>

Ping ==
    /\ ipc = "ping"
    /\ ping' = TRUE
    /\ ipc' = "idle"
    /\ UNCHANGED <<hist, iread, dropped, pending, slot, fpc, batch, conn,
                   store, repo, user, count>>

-----------------------------------------------------------------------------
(* A flush *)

Goto(f, p) == fpc' = [fpc EXCEPT ![f] = p]

\* The executor's thread: a message opens the quiet period, another one keeps
\* it open.
Activity ==
    /\ fpc["exec"] \in {"home", "quiet"}
    /\ ping
    /\ ping' = FALSE
    /\ Goto("exec", "quiet")
    /\ UNCHANGED <<ingest, pending, slot, batch, conn, store, repo, user,
                   count>>

\* recv_timeout ran out with nothing received.
QuietOver ==
    /\ fpc["exec"] = "quiet"
    /\ ~ping
    /\ Goto("exec", "entry")
    /\ UNCHANGED <<ingest, pending, slot, ping, batch, conn, store, repo,
                   user, count>>

\* flush_pending_once before it has the store: nothing is done while the
\* repository is locked or paused, and a buffer whose root is gone is dropped.
Enter(f) ==
    /\ fpc[f] = "entry"
    /\ \/ /\ revertLock \/ paused
          /\ Goto(f, "home")
          /\ UNCHANGED pending
       \/ /\ ~revertLock /\ ~paused /\ lost
          /\ pending' = <<>>
          /\ Goto(f, "home")
       \/ /\ ~revertLock /\ ~paused /\ ~lost
          /\ Goto(f, "wait")
          /\ UNCHANGED pending
    /\ UNCHANGED <<ingest, slot, ping, batch, conn, store, repo, user, count>>

Acquire(f) ==
    /\ fpc[f] = "wait"
    /\ conn = "free"
    /\ conn' = f
    /\ Goto(f, "held")
    /\ UNCHANGED <<ingest, pending, slot, ping, batch, store, repo, user,
                   count>>

\* The end of a flush, whatever the outcome: its batch is no longer its own.
Leave(f) ==
    /\ Goto(f, "home")
    /\ conn' = "free"
    /\ taken' = <<>>
    /\ done' = 0
    /\ mark' = 0

\* The lock is looked at again with the store in hand.
TurnAway(f) ==
    /\ fpc[f] = "held"
    /\ revertLock
    /\ Leave(f)
    /\ UNCHANGED <<ingest, pending, slot, ping, store, repo, user, count>>

\* rules_touch_mark, read before the buffer is drained.
MarkTouches(f) ==
    /\ fpc[f] = "held"
    /\ ~revertLock
    /\ mark' = touched
    /\ Goto(f, "marked")
    /\ UNCHANGED <<ingest, pending, slot, ping, taken, done, conn, store,
                   repo, user, count>>

\* take_pending; an empty buffer ends the flush.
Drain(f) ==
    /\ fpc[f] = "marked"
    /\ pending' = <<>>
    /\ IF pending = <<>>
         THEN Leave(f)
         ELSE taken' = pending /\ Goto(f, "taken") /\ UNCHANGED <<mark, done, conn>>
    /\ UNCHANGED <<ingest, slot, ping, store, repo, user, count>>

\* The mount points or the rules cannot be read: `?` leaves with the batch.
ReadFails(f) ==
    /\ fpc[f] = "taken"
    /\ Spend("read")
    /\ Leave(f)
    /\ UNCHANGED <<ingest, pending, slot, ping, store, repo, user>>

\* The flush task starts, its cancel flag down, and reads the rules of the
\* store, which publishes them.
StartTask(f) ==
    /\ fpc[f] = "taken"
    /\ cancel' = FALSE
    /\ published' = placeOf
    /\ Goto(f, "apply")
    /\ UNCHANGED <<ingest, pending, touched, covered, ping, batch, conn, store,
                   repo, paused, upc, count>>

Stopping == cancel \/ paused

\* check_cancelled lets the event of the next group through.
NextGroup(f) ==
    /\ fpc[f] = "apply"
    /\ done < Len(taken)
    /\ ~Stopping
    /\ Goto(f, "group")
    /\ UNCHANGED <<ingest, pending, slot, ping, batch, conn, store, repo,
                   user, count>>

\* Mutant: a group counts twice.
CommitGroupTwice(f) ==
    /\ fpc[f] = "group"
    /\ LET i == taken[done + 1]
       IN  /\ applied' = applied \cup {i}
           /\ placeOf' = IF hist[i].type = "move" /\ hist[i].from = placeOf
                           THEN hist[i].to ELSE placeOf
    /\ done' = done + 2
    /\ Goto(f, "apply")
    /\ UNCHANGED <<ingest, pending, slot, ping, mark, taken, conn, repo,
                   user, count>>

\* The group is committed: a move takes the directory along, unless it is no
\* longer where the move says.
CommitGroup(f) ==
    /\ fpc[f] = "group"
    /\ LET i == taken[done + 1]
       IN  /\ applied' = applied \cup {i}
           /\ placeOf' = IF hist[i].type = "move" /\ hist[i].from = placeOf
                           THEN hist[i].to ELSE placeOf
    /\ done' = done + 1
    /\ Goto(f, "apply")
    /\ UNCHANGED <<ingest, pending, slot, ping, mark, taken, conn, repo,
                   user, count>>

\* Mutants: the batch is forgotten, or goes back behind what came since.
ReturnPendingNot == UNCHANGED pending

ReturnPendingBehind == pending' = pending \o taken

\* return_pending: the whole batch back at the head of the buffer.
ReturnPending == pending' = taken \o pending

\* Stopped: the batch goes back and ingestion is paused, by the flush itself.
Stop(f) ==
    /\ fpc[f] = "apply"
    /\ done < Len(taken)
    /\ Stopping
    /\ ReturnPending
    /\ paused' = TRUE
    /\ Leave(f)
    /\ UNCHANGED <<ingest, slot, ping, store, repo, cancel, upc, count>>

\* An event cannot be applied or a group committed: the batch goes back.
ApplyFails(f) ==
    /\ fpc[f] = "group"
    /\ Spend("fail")
    /\ ReturnPending
    /\ Leave(f)
    /\ UNCHANGED <<ingest, slot, ping, store, repo, user>>

\* All committed: the rules are read again and published.
Publish(f) ==
    /\ fpc[f] = "apply"
    /\ done = Len(taken)
    /\ published' = placeOf
    /\ Goto(f, "published")
    /\ UNCHANGED <<ingest, pending, touched, covered, ping, batch, conn,
                   store, repo, user, count>>

\* They cannot be read: a warning, and the filter stays off.
PublishFails(f) ==
    /\ fpc[f] = "apply"
    /\ done = Len(taken)
    /\ Leave(f)
    /\ UNCHANGED <<ingest, pending, slot, ping, store, repo, user, count>>

\* Mutant: what is covered is read after the batch was drained.
CoverLate(f) ==
    /\ fpc[f] = "published"
    /\ covered' = touched
    /\ Leave(f)
    /\ UNCHANGED <<ingest, pending, touched, published, ping, store, repo,
                   user, count>>

\* rules_covered(mark), and the task finishes.
Cover(f) ==
    /\ fpc[f] = "published"
    /\ covered' = IF mark > covered THEN mark ELSE covered
    /\ Leave(f)
    /\ UNCHANGED <<ingest, pending, touched, published, ping, store, repo,
                   user, count>>

Flush(f) ==
    \/ Enter(f) \/ Acquire(f) \/ TurnAway(f) \/ MarkTouches(f) \/ Drain(f)
    \/ ReadFails(f) \/ StartTask(f) \/ NextGroup(f) \/ CommitGroup(f)
    \/ Stop(f) \/ ApplyFails(f) \/ Publish(f) \/ PublishFails(f) \/ Cover(f)

-----------------------------------------------------------------------------
(* The user, the client of a coordinated revert, and the root *)

TaskActive == \E f \in Flushers : fpc[f] \in {"apply", "group", "published"}

\* POST /watch/pause raises the flag, then asks the running flush to stop.
Pause ==
    /\ upc = "idle"
    /\ Spend("stop")
    /\ paused' = TRUE
    /\ upc' = "stopping"
    /\ UNCHANGED <<ingest, pending, slot, ping, fpc, batch, conn, store,
                   repo, cancel>>

RequestCancel ==
    /\ upc = "stopping"
    /\ cancel' = (cancel \/ TaskActive)
    /\ upc' = "idle"
    /\ UNCHANGED <<ingest, pending, slot, ping, fpc, batch, conn, store,
                   repo, paused, count>>

\* POST /watch/resume
Resume ==
    /\ upc = "idle"
    /\ paused
    /\ paused' = FALSE
    /\ ping' = TRUE
    /\ UNCHANGED <<ingest, pending, slot, fpc, batch, conn, store, repo,
                   cancel, upc, count>>

\* POST /revert/start, the store in hand.
StartSession ==
    /\ conn = "free"
    /\ ~revertLock
    /\ Spend("session")
    /\ revertLock' = TRUE
    /\ UNCHANGED <<ingest, pending, slot, ping, fpc, batch, conn, store,
                   lost, user>>

\* Mutant: nothing is flushed when the lock is released.
EndSessionIdle ==
    /\ conn = "free"
    /\ revertLock
    /\ fpc["route"] = "home"
    /\ revertLock' = FALSE
    /\ UNCHANGED <<ingest, pending, slot, ping, fpc, batch, conn, store, lost,
                   user, count>>

\* POST /revert/commit or /revert/abort: the lock is released under the store,
\* then the same thread flushes.
EndSession ==
    /\ conn = "free"
    /\ revertLock
    /\ fpc["route"] = "home"
    /\ revertLock' = FALSE
    /\ Goto("route", "entry")
    /\ UNCHANGED <<ingest, pending, slot, ping, batch, conn, store, lost,
                   user, count>>

\* A route that explains eligibility reads the rules with the store in hand,
\* which publishes them as well.
ExplainRules ==
    /\ conn = "free"
    /\ published # placeOf
    /\ published' = placeOf
    /\ UNCHANGED <<ingest, pending, touched, covered, ping, fpc, batch, conn,
                   store, repo, user, count>>

\* The root is moved or unmounted.
LoseRoot ==
    /\ ~lost
    /\ Troubles < MaxTroubles
    /\ lost' = TRUE
    /\ UNCHANGED <<ingest, pending, slot, ping, fpc, batch, conn, store,
                   revertLock, user, count>>

Ingest == ReadRules \/ DropEvent \/ Buffer \/ RulesTouched \/ Ping
Executor == Activity \/ QuietOver \/ Flush("exec")

Next ==
    \/ Ingest
    \/ Executor
    \/ Flush("route")
    \/ Pause \/ RequestCancel \/ Resume
    \/ StartSession \/ EndSession
    \/ ExplainRules
    \/ LoseRoot

Spec == Init /\ [][Next]_vars

\* The threads run, and the client of a coordinated revert ends it.
Fairness ==
    /\ WF_vars(DropEvent \/ Buffer \/ RulesTouched \/ Ping)
    /\ WF_vars(Executor)
    /\ WF_vars(Flush("route"))
    /\ WF_vars(EndSession)

FairSpec == Spec /\ Fairness

-----------------------------------------------------------------------------
(* Properties *)

Listed(q) == {q[i] : i \in DOMAIN q}

\* The events the ingest thread is done with: all but the one it has in hand.
Delivered == IF ipc = "read" THEN 1..(Len(hist) - 1) ELSE 1..Len(hist)

\* The reads between a draining and its application (mount points, rules) have
\* all succeeded so far.
ReadsSucceed == count["read"] = 0

\* No event is lost, whatever stops or fails in its application and wherever a
\* flush is: it is buffered, in a flush's hands, committed, or dropped by the
\* ingest filter, unless the root went away (take_pending, return_pending).
NoEventLost ==
    ~lost /\ ReadsSucceed =>
        Delivered \subseteq dropped \cup applied \cup Listed(pending)
                                   \cup Listed(taken)

\* The buffer stays in the order of the events although two threads flush it
\* and a batch that was stopped goes back while others arrive (return_pending
\* splices at the head).
BufferInOrder ==
    LET all == taken \o pending
    IN  \A i, j \in DOMAIN all : i < j => all[i] < all[j]

\* While the root is there, an event is not committed before the events that
\* came before it: a stopped or failed batch is not overtaken by what was
\* buffered after it, whichever thread flushes (return_pending, under the store).
AppliedInOrder ==
    ~lost /\ ReadsSucceed =>
        \A i \in applied : 1..(i - 1) \subseteq applied \cup dropped

\* Every move of the rule that was buffered was counted as touching the rules.
\* One that comes before an earlier move is published is not: the published
\* index has the rule at neither of its ends.
AllCounted ==
    LET unread == IF ipc \in {"read", "buffered"} THEN {This} ELSE {}
    IN  Cardinality(Moves \ unread) <= touched

\* While the root is there, the ingest filter drops only what the flush would
\* turn away: a file under the directory that opted out, given where that
\* directory was when the event happened (ingest, rules_touched,
\* rules_touch_mark, rules_covered).  Excepted: a move of the rule that was not
\* counted, having followed one no flush had applied (AllCounted): the flush of
\* the first then turns filtering on while the second is still buffered.
FilterSound ==
    ~lost /\ ReadsSucceed /\ AllCounted =>
        \A i \in dropped : hist[i].type = "file" /\ hist[i].at = DiskPlace(i)

\* What is buffered is eventually committed, unless the root goes away, even
\* when a coordinated revert turned the executor's flush away.
EventuallyApplied ==
    \A n \in EventNo : n \in Listed(pending) ~> (n \in applied \/ lost)
=============================================================================
