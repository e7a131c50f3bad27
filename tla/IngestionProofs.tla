-------------------------- MODULE IngestionProofs --------------------------
(***************************************************************************)
(* Proofs about Ingestion, for any number of events, failures, pauses and  *)
(* coordinated reverts.                                                    *)
(***************************************************************************)
EXTENDS Ingestion, TLAPS

\* What a concatenation lists.
LEMMA ListedConcat ==
  ASSUME NEW S, NEW p \in Seq(S), NEW q \in Seq(S)
  PROVE  Listed(p \o q) = Listed(p) \cup Listed(q)
<1>1. ASSUME NEW x \in Listed(p \o q) PROVE x \in Listed(p) \cup Listed(q)
  <2>1. PICK i \in 1..(Len(p) + Len(q)) : x = (p \o q)[i]
    BY <1>1 DEF Listed
  <2>2. CASE i <= Len(p)
    BY <2>1, <2>2 DEF Listed
  <2>3. CASE i > Len(p)
    <3>1. i - Len(p) \in 1..Len(q) /\ x = q[i - Len(p)]
      BY <2>1, <2>3
    <3> QED BY <3>1 DEF Listed
  <2> QED BY <2>1, <2>2, <2>3
<1>2. ASSUME NEW x \in Listed(p) PROVE x \in Listed(p \o q)
  <2>1. PICK i \in 1..Len(p) : x = p[i]
    BY <1>2 DEF Listed
  <2>2. i \in 1..Len(p \o q) /\ (p \o q)[i] = p[i]
    BY <2>1
  <2> QED BY <2>1, <2>2 DEF Listed
<1>3. ASSUME NEW x \in Listed(q) PROVE x \in Listed(p \o q)
  <2>1. PICK i \in 1..Len(q) : x = q[i]
    BY <1>3 DEF Listed
  <2>2. Len(p) + i \in 1..Len(p \o q) /\ (p \o q)[Len(p) + i] = q[i]
    BY <2>1
  <2> QED BY <2>1, <2>2 DEF Listed
<1> QED
  BY <1>1, <1>2, <1>3

\* What an appended element adds.
LEMMA ListedAppend ==
  ASSUME NEW S, NEW q \in Seq(S), NEW x \in S
  PROVE  Listed(Append(q, x)) = Listed(q) \cup {x}
<1>1. /\ Append(q, x) \in Seq(S)
      /\ Len(Append(q, x)) = Len(q) + 1
      /\ Append(q, x)[Len(q) + 1] = x
      /\ \A i \in 1..Len(q) : Append(q, x)[i] = q[i]
  OBVIOUS
<1>2. DOMAIN q = 1..Len(q) /\ DOMAIN Append(q, x) = 1..(Len(q) + 1)
  BY <1>1
<1>3. ASSUME NEW y \in Listed(Append(q, x)) PROVE y \in Listed(q) \cup {x}
  BY <1>1, <1>2, <1>3 DEF Listed
<1>4. ASSUME NEW y \in Listed(q) PROVE y \in Listed(Append(q, x))
  BY <1>1, <1>2, <1>4 DEF Listed
<1>5. x \in Listed(Append(q, x))
  <2>1. Len(q) + 1 \in DOMAIN Append(q, x)
    BY <1>2
  <2> QED BY <1>1, <2>1 DEF Listed
<1> QED
  BY <1>3, <1>4, <1>5

\* The empty buffer lists nothing.
LEMMA ListedEmpty == Listed(<<>>) = {}
BY DEF Listed

-----------------------------------------------------------------------------
(* The inductive invariant *)

AtStore == {"held", "marked", "taken", "apply", "group", "published"}

\* The flush past the wait is the one holding the store.
OneFlush == \A f \in Flushers : fpc[f] \in AtStore <=> conn = f

\* A batch is in hand only between its draining and the end of its flush, and
\* is nowhere else.
BatchInHand ==
    /\ conn = "free" => taken = <<>>
    /\ conn # "free" /\ fpc[conn] \in {"held", "marked"} => taken = <<>>

\* What a flush counts as done is committed; a flush that publishes is done,
\* one that has let an event through is not.
DoneIsApplied ==
    /\ \A k \in 1..done : taken[k] \in applied
    /\ conn # "free" /\ fpc[conn] = "published" => done = Len(taken)
    /\ conn # "free" /\ fpc[conn] = "group" => done < Len(taken)

\* The buffers hold events that happened.
Happened == Listed(pending) \cup Listed(taken) \subseteq 1..Len(hist)

\* The ingest thread past its start has an event in hand.
InHand == ipc # "idle" => Len(hist) > 0

FlowInv == TypeOK /\ OneFlush /\ BatchInHand /\ DoneIsApplied /\ Happened /\ InHand

\* The flow invariant holds of an empty buffer.
LEMMA InitFlow == Init => FlowInv
<1> SUFFICES ASSUME Init PROVE FlowInv
  OBVIOUS
<1> USE StartAssumption, BoundsAssumption DEF Init
<1>1. hist \in Seq(Events) /\ pending \in Seq(EventNo) /\ taken \in Seq(EventNo)
  OBVIOUS
<1>2. Len(hist) <= MaxEvents /\ done \in 0..Len(taken)
  OBVIOUS
<1>3. /\ iread \in [at : Places, trusted : BOOLEAN]
      /\ count \in [{"fail", "read", "stop", "session"} -> Nat]
  OBVIOUS
<1>4. fpc \in [Flushers -> {"home", "quiet", "entry", "wait", "held", "marked",
                            "taken", "apply", "group", "published"}]
  OBVIOUS
<1>5. TypeOK
  <2>1. touched \in Nat /\ covered \in Nat /\ mark \in Nat
    OBVIOUS
  <2> QED BY <1>1, <1>2, <1>3, <1>4, <2>1, Zenon DEF TypeOK
<1>6. OneFlush /\ BatchInHand /\ InHand
  BY DEF OneFlush, BatchInHand, InHand, Flushers, AtStore
<1>7. DoneIsApplied /\ Happened
  BY ListedEmpty DEF DoneIsApplied, Happened
<1> QED
  BY <1>5, <1>6, <1>7 DEF FlowInv

\* The ingest thread's steps keep the invariant.
LEMMA IngestFlow ==
  ASSUME FlowInv, Ingest
  PROVE  FlowInv'
<1> USE BoundsAssumption DEF FlowInv
<1>0. hist' \in Seq(Events) /\ Len(hist') <= MaxEvents /\ Len(hist) <= Len(hist')
  <2>1. CASE ReadRules
    <3>1. PICK e \in Events : hist' = Append(hist, e)
      BY <2>1 DEF ReadRules
    <3>2. Len(hist) < MaxEvents /\ hist \in Seq(Events)
      BY <2>1 DEF ReadRules, TypeOK
    <3> QED BY <3>1, <3>2
  <2>2. CASE DropEvent \/ Buffer \/ RulesTouched \/ Ping
    <3>1. hist' = hist
      BY <2>2 DEF DropEvent, Buffer, RulesTouched, Ping, ingest
    <3> QED BY <3>1 DEF TypeOK
  <2> QED BY <2>1, <2>2 DEF Ingest
<1>a. ipc = "read" => This \in EventNo /\ This \in 1..Len(hist)
  BY DEF This, InHand, EventNo, TypeOK
<1>1. TypeOK'
  <2>1. CASE ReadRules
    BY <1>0, <2>1 DEF ReadRules, TypeOK, slot, batch, store, repo, user
  <2>2. CASE DropEvent
    BY <1>0, <1>a, <2>2 DEF DropEvent, TypeOK, slot, batch, store, repo, user
  <2>3. CASE Buffer
    BY <1>0, <1>a, <2>3 DEF Buffer, TypeOK, slot, batch, store, repo, user
  <2>4. CASE RulesTouched
    BY <1>0, <2>4 DEF RulesTouched, TypeOK, slot, batch, store, repo, user
  <2>5. CASE Ping
    BY <1>0, <2>5 DEF Ping, TypeOK, slot, batch, store, repo, user
  <2> QED BY <2>1, <2>2, <2>3, <2>4, <2>5 DEF Ingest
<1>2. UNCHANGED <<fpc, conn, taken, done, applied>>
  BY DEF Ingest, ReadRules, DropEvent, Buffer, RulesTouched, Ping, batch, store
<1>3. OneFlush' /\ BatchInHand' /\ DoneIsApplied'
  BY <1>2 DEF OneFlush, BatchInHand, DoneIsApplied
<1>4. Happened'
  <2>1. CASE Buffer
    <3>1. Listed(pending') = Listed(pending) \cup {This}
      BY <2>1, <1>a, ListedAppend DEF Buffer, TypeOK
    <3> QED BY <1>2, <1>a, <2>1, <3>1 DEF Happened, Buffer
  <2>2. CASE ~Buffer
    <3>1. pending' = pending
      BY <2>2 DEF Ingest, ReadRules, DropEvent, RulesTouched, Ping
    <3>2. 1..Len(hist) \subseteq 1..Len(hist')
      BY <1>0 DEF TypeOK
    <3> QED BY <1>2, <3>1, <3>2 DEF Happened
  <2> QED BY <2>1, <2>2
<1>5. InHand'
  <2>1. CASE ReadRules
    BY <2>1 DEF ReadRules, InHand, TypeOK
  <2>2. CASE DropEvent \/ Buffer \/ RulesTouched \/ Ping
    BY <2>2 DEF DropEvent, Buffer, RulesTouched, Ping, InHand, ingest
  <2> QED BY <2>1, <2>2 DEF Ingest
<1> QED
  BY <1>1, <1>3, <1>4, <1>5

\* The end of a flush keeps what is about the flushes; what becomes of its
\* batch is the business of the step.
LEMMA LeaveFlow ==
  ASSUME FlowInv, NEW f \in Flushers, fpc[f] \in AtStore, Leave(f),
         pending' \in Seq(EventNo), Listed(pending') \subseteq 1..Len(hist),
         UNCHANGED ingest
  PROVE  /\ OneFlush' /\ BatchInHand' /\ DoneIsApplied' /\ Happened' /\ InHand'
         /\ taken' \in Seq(EventNo) /\ done' \in 0..Len(taken') /\ mark' \in Nat
         /\ conn' \in Flushers \cup {"free"}
         /\ fpc' \in [Flushers -> {"home", "quiet", "entry", "wait", "held",
                      "marked", "taken", "apply", "group", "published"}]
<1> USE DEF FlowInv, Leave, Goto
<1>1. conn = f
  BY DEF OneFlush
<1>2. OneFlush'
  BY <1>1 DEF OneFlush, TypeOK, AtStore, Flushers
<1>3. BatchInHand' /\ InHand'
  BY DEF BatchInHand, InHand, ingest
<1>4. DoneIsApplied'
  BY DEF DoneIsApplied
<1>5. Happened'
  BY ListedEmpty DEF Happened, ingest
<1>6. taken' \in Seq(EventNo) /\ done' \in 0..Len(taken') /\ mark' \in Nat
  OBVIOUS
<1> QED
  BY <1>2, <1>3, <1>4, <1>5, <1>6 DEF TypeOK

\* A flush's steps keep the invariant.
LEMMA FlushFlow ==
  ASSUME FlowInv, NEW f \in Flushers, Flush(f)
  PROVE  FlowInv'
<1> USE DEF FlowInv, ingest, slot, batch, store, repo, user
<1>0. conn # "free" => conn \in Flushers
  BY DEF TypeOK
<1>1. CASE Enter(f)
  <2>a. fpc' \in [Flushers -> {"home", "quiet", "entry", "wait", "held", "marked",
                               "taken", "apply", "group", "published"}]
    BY <1>1 DEF Enter, Goto, TypeOK
  <2>b. pending' \in Seq(EventNo)
    <3>1. pending' = pending \/ pending' = <<>>
      BY <1>1, Zenon DEF Enter
    <3>2. pending \in Seq(EventNo) /\ <<>> \in Seq(EventNo)
      BY DEF TypeOK
    <3> QED BY <3>1, <3>2, Zenon
  <2>1. TypeOK'
    BY <1>1, <2>a, <2>b DEF Enter, TypeOK
  <2>2. OneFlush'
    BY <1>1 DEF Enter, Goto, OneFlush, AtStore, TypeOK
  <2>3. BatchInHand' /\ DoneIsApplied'
    BY <1>0, <1>1 DEF Enter, Goto, OneFlush, AtStore, TypeOK, BatchInHand, DoneIsApplied
  <2>4. Happened' /\ InHand'
    BY <1>1, ListedEmpty DEF Enter, Happened, InHand
  <2> QED BY <2>1, <2>2, <2>3, <2>4
<1>2. CASE Acquire(f)
  <2>1. TypeOK'
    BY <1>2 DEF Acquire, Goto, TypeOK
  <2>2. OneFlush' /\ BatchInHand'
    BY <1>2 DEF Acquire, Goto, OneFlush, AtStore, BatchInHand, TypeOK, Flushers
  <2>3. DoneIsApplied' /\ Happened' /\ InHand'
    BY <1>2 DEF Acquire, Goto, DoneIsApplied, Happened, InHand, TypeOK
  <2> QED BY <2>1, <2>2, <2>3
<1>3. CASE TurnAway(f)
  <2>1. fpc[f] \in AtStore /\ Leave(f) /\ UNCHANGED <<ingest, pending>>
    BY <1>3 DEF TurnAway, AtStore
  <2>2. pending' \in Seq(EventNo) /\ Listed(pending') \subseteq 1..Len(hist)
    BY <2>1 DEF TypeOK, Happened
  <2>3. TypeOK'
    BY <1>3, <2>1, <2>2, LeaveFlow DEF TurnAway, TypeOK
  <2> QED BY <2>1, <2>2, <2>3, LeaveFlow
<1>4. CASE MarkTouches(f)
  <2>1. TypeOK'
    BY <1>4 DEF MarkTouches, Goto, TypeOK
  <2>2. OneFlush' /\ BatchInHand'
    BY <1>0, <1>4 DEF MarkTouches, Goto, OneFlush, AtStore, BatchInHand, TypeOK
  <2>3. DoneIsApplied' /\ Happened' /\ InHand'
    BY <1>0, <1>4 DEF MarkTouches, Goto, DoneIsApplied, Happened, InHand, OneFlush,
                      AtStore, TypeOK
  <2> QED BY <2>1, <2>2, <2>3
<1>5. CASE Drain(f)
  <2>0. fpc[f] = "marked" /\ fpc[f] \in AtStore /\ conn = f /\ taken = <<>>
    BY <1>5 DEF Drain, AtStore, OneFlush, BatchInHand, Flushers
  <2>1. CASE pending = <<>>
    <3>1. Leave(f) /\ UNCHANGED ingest /\ pending' = <<>>
      BY <1>5, <2>1 DEF Drain
    <3>2. pending' \in Seq(EventNo) /\ Listed(pending') \subseteq 1..Len(hist)
      BY <3>1, ListedEmpty
    <3>3. TypeOK'
      BY <1>5, <2>0, <3>1, <3>2, LeaveFlow DEF Drain, TypeOK
    <3> QED BY <2>0, <3>1, <3>2, <3>3, LeaveFlow
  <2>2. CASE pending # <<>>
    <3>1. /\ taken' = pending /\ pending' = <<>> /\ Goto(f, "taken")
          /\ UNCHANGED <<mark, done, conn>>
      BY <1>5, <2>2 DEF Drain
    <3>2. done = 0
      BY <2>0 DEF TypeOK
    <3>3. taken' \in Seq(EventNo) /\ pending' \in Seq(EventNo) /\ done' \in 0..Len(taken')
      BY <3>1, <3>2 DEF TypeOK
    <3>4. TypeOK'
      BY <1>5, <3>1, <3>3 DEF Drain, Goto, TypeOK
    <3>5. OneFlush' /\ BatchInHand'
      BY <2>0, <3>1 DEF OneFlush, AtStore, BatchInHand, TypeOK, Flushers, Goto
    <3>6. DoneIsApplied'
      BY <2>0, <3>1, <3>2 DEF DoneIsApplied, TypeOK, Goto, Flushers
    <3>7. Happened' /\ InHand'
      BY <1>5, <3>1, ListedEmpty DEF Drain, Happened, InHand
    <3> QED BY <3>4, <3>5, <3>6, <3>7
  <2> QED BY <2>1, <2>2
<1>6. CASE ReadFails(f)
  <2>1. fpc[f] \in AtStore /\ Leave(f) /\ UNCHANGED <<ingest, pending>>
    BY <1>6 DEF ReadFails, AtStore
  <2>2. pending' \in Seq(EventNo) /\ Listed(pending') \subseteq 1..Len(hist)
    BY <2>1 DEF TypeOK, Happened
  <2>3. TypeOK'
    BY <1>6, <2>1, <2>2, LeaveFlow DEF ReadFails, Spend, TypeOK
  <2> QED BY <2>1, <2>2, <2>3, LeaveFlow
<1>7. CASE StartTask(f) \/ NextGroup(f)
  <2>0. /\ fpc[f] \in {"taken", "apply"} /\ conn = f
        /\ fpc' = [fpc EXCEPT ![f] = "apply"] \/
           (fpc' = [fpc EXCEPT ![f] = "group"] /\ done < Len(taken))
        /\ UNCHANGED <<ingest, pending, touched, covered, ping, batch, conn, store,
                       repo, paused, upc, count>>
        /\ cancel' \in {FALSE, cancel} /\ published' \in {published, placeOf}
    BY <1>7 DEF StartTask, NextGroup, Goto, OneFlush, AtStore
  <2>a. fpc' \in [Flushers -> {"home", "quiet", "entry", "wait", "held", "marked",
                               "taken", "apply", "group", "published"}]
    BY <2>0 DEF TypeOK
  <2>b. cancel' \in BOOLEAN
    BY <2>0, Zenon DEF TypeOK
  <2>1. TypeOK'
    BY <2>0, <2>a, <2>b DEF TypeOK
  <2>2. OneFlush' /\ BatchInHand'
    BY <2>0 DEF OneFlush, AtStore, BatchInHand, TypeOK, Flushers
  <2>3. DoneIsApplied' /\ Happened' /\ InHand'
    BY <2>0 DEF DoneIsApplied, Happened, InHand, TypeOK, Flushers
  <2> QED BY <2>1, <2>2, <2>3
<1>8. CASE CommitGroup(f)
  <2>0. fpc[f] = "group" /\ conn = f /\ done < Len(taken)
    BY <1>8 DEF CommitGroup, OneFlush, AtStore, DoneIsApplied, Flushers
  <2>1. done + 1 \in 1..Len(taken) /\ taken[done + 1] \in EventNo
    BY <2>0 DEF TypeOK
  <2>2. taken[done + 1] \in Listed(taken)
    BY <2>1 DEF Listed, TypeOK
  <2>3. taken[done + 1] \in 1..Len(hist)
    BY <2>2 DEF Happened
  <2>4. hist[taken[done + 1]] \in Events
    BY <2>3 DEF TypeOK
  <2>5. placeOf' \in Places
    BY <1>8, <2>4 DEF CommitGroup, Events, TypeOK
  <2>6. applied' = applied \cup {taken[done + 1]} /\ done' = done + 1
    BY <1>8 DEF CommitGroup
  <2>7. TypeOK'
    BY <1>8, <2>1, <2>5, <2>6 DEF CommitGroup, Goto, TypeOK
  <2>8. OneFlush' /\ BatchInHand'
    BY <1>8, <2>0 DEF CommitGroup, Goto, OneFlush, AtStore, BatchInHand, TypeOK, Flushers
  <2>9. DoneIsApplied'
    BY <1>8, <2>0, <2>6 DEF CommitGroup, Goto, DoneIsApplied, TypeOK, Flushers
  <2>10. Happened' /\ InHand'
    BY <1>8 DEF CommitGroup, Happened, InHand
  <2> QED BY <2>7, <2>8, <2>9, <2>10
<1>9. CASE Stop(f) \/ ApplyFails(f)
  <2>1. /\ fpc[f] \in AtStore /\ Leave(f) /\ UNCHANGED ingest
        /\ pending' = taken \o pending
    BY <1>9 DEF Stop, ApplyFails, ReturnPending, AtStore
  <2>2. pending' \in Seq(EventNo)
    BY <2>1 DEF TypeOK
  <2>3. Listed(pending') \subseteq 1..Len(hist)
    BY <2>1, ListedConcat DEF TypeOK, Happened
  <2>a. ASSUME Stop(f) PROVE TypeOK'
    BY <2>a, <2>1, <2>2, <2>3, LeaveFlow DEF Stop, TypeOK
  <2>b. ASSUME ApplyFails(f) PROVE TypeOK'
    BY <2>b, <2>1, <2>2, <2>3, LeaveFlow DEF ApplyFails, Spend, TypeOK
  <2>4. TypeOK'
    BY <1>9, <2>a, <2>b
  <2> QED BY <2>1, <2>2, <2>3, <2>4, LeaveFlow
<1>10. CASE Publish(f)
  <2>0. fpc[f] = "apply" /\ conn = f
    BY <1>10 DEF Publish, OneFlush, AtStore
  <2>1. TypeOK'
    BY <1>10 DEF Publish, Goto, TypeOK
  <2>2. OneFlush' /\ BatchInHand'
    BY <1>10, <2>0 DEF Publish, Goto, OneFlush, AtStore, BatchInHand, TypeOK, Flushers
  <2>3. DoneIsApplied' /\ Happened' /\ InHand'
    BY <1>10, <2>0 DEF Publish, Goto, DoneIsApplied, Happened, InHand, TypeOK, Flushers
  <2> QED BY <2>1, <2>2, <2>3
<1>11. CASE Cover(f) \/ PublishFails(f)
  <2>1. fpc[f] \in AtStore /\ Leave(f) /\ UNCHANGED <<ingest, pending>>
    BY <1>11 DEF Cover, PublishFails, AtStore
  <2>2. pending' \in Seq(EventNo) /\ Listed(pending') \subseteq 1..Len(hist)
    BY <2>1 DEF TypeOK, Happened
  <2>3. TypeOK'
    <3>1. covered' \in Nat
      BY <1>11 DEF Cover, PublishFails, TypeOK
    <3> QED BY <1>11, <2>1, <2>2, <3>1, LeaveFlow DEF Cover, PublishFails, TypeOK
  <2> QED BY <2>1, <2>2, <2>3, LeaveFlow
<1> QED
  BY <1>1, <1>2, <1>3, <1>4, <1>5, <1>6, <1>7, <1>8, <1>9, <1>10, <1>11 DEF Flush

\* Everything else leaves the buffers and the store's holder alone.
LEMMA OtherFlow ==
  ASSUME FlowInv,
         \/ Activity \/ QuietOver \/ Pause \/ RequestCancel \/ Resume
         \/ StartSession \/ EndSession \/ ExplainRules \/ LoseRoot
  PROVE  FlowInv' /\ UNCHANGED <<hist, ipc, dropped, pending, taken, applied>>
<1> USE DEF FlowInv, ingest, slot, batch, store, repo, user
<1>1. /\ UNCHANGED <<ingest, pending, touched, covered, batch, conn, store>>
      /\ published' \in {published, placeOf}
  BY DEF Activity, QuietOver, Pause, RequestCancel, Resume, StartSession,
         EndSession, ExplainRules, LoseRoot
<1>2. \/ fpc' = fpc
      \/ \E f \in Flushers :
            /\ fpc[f] \in {"home", "quiet"}
            /\ \E p \in {"quiet", "entry"} : fpc' = [fpc EXCEPT ![f] = p]
  BY DEF Activity, QuietOver, Pause, RequestCancel, Resume, StartSession,
         EndSession, ExplainRules, LoseRoot, Goto, Flushers
<1>3. /\ fpc' \in [Flushers -> {"home", "quiet", "entry", "wait", "held", "marked",
                               "taken", "apply", "group", "published"}]
      /\ \A f \in Flushers : fpc'[f] = fpc[f] \/ (fpc[f] \notin AtStore /\ fpc'[f] \notin AtStore)
  BY <1>2 DEF TypeOK, AtStore
<1>4. count' \in [{"fail", "read", "stop", "session"} -> Nat]
  BY DEF Activity, QuietOver, Pause, RequestCancel, Resume, StartSession,
         EndSession, ExplainRules, LoseRoot, Spend, TypeOK
<1>5. /\ ping' \in BOOLEAN /\ revertLock' \in BOOLEAN /\ lost' \in BOOLEAN
      /\ paused' \in BOOLEAN /\ cancel' \in BOOLEAN
  BY Zenon DEF Activity, QuietOver, Pause, RequestCancel, Resume, StartSession,
         EndSession, ExplainRules, LoseRoot, TypeOK, TaskActive
<1>6. upc' \in {"idle", "stopping"}
  BY DEF Activity, QuietOver, Pause, RequestCancel, Resume, StartSession,
         EndSession, ExplainRules, LoseRoot, TypeOK
<1>7. TypeOK'
  BY <1>1, <1>3, <1>4, <1>5, <1>6 DEF TypeOK
<1>8. OneFlush' /\ Happened' /\ InHand'
  BY <1>1, <1>3 DEF OneFlush, Happened, InHand
<1>9. BatchInHand' /\ DoneIsApplied'
  <2>1. conn # "free" => conn \in Flushers /\ fpc'[conn] = fpc[conn]
    BY <1>3 DEF TypeOK, OneFlush
  <2> QED BY <1>1, <2>1 DEF BatchInHand, DoneIsApplied
<1> QED
  BY <1>1, <1>7, <1>8, <1>9

\* Every step keeps the flow invariant: one case per action.
LEMMA NextFlow == FlowInv /\ [Next]_vars => FlowInv'
<1> SUFFICES ASSUME FlowInv, [Next]_vars PROVE FlowInv'
  OBVIOUS
<1>1. CASE Ingest
  BY <1>1, IngestFlow
<1>2. CASE Flush("exec") \/ Flush("route")
  BY <1>2, FlushFlow DEF Flushers
<1>3. CASE \/ Activity \/ QuietOver \/ Pause \/ RequestCancel \/ Resume
           \/ StartSession \/ EndSession \/ ExplainRules \/ LoseRoot
  BY <1>3, OtherFlow
<1>4. CASE UNCHANGED vars
  BY <1>4 DEF vars, ingest, slot, batch, store, repo, user, FlowInv, TypeOK,
              OneFlush, BatchInHand, DoneIsApplied, Happened, InHand
<1> QED
  BY <1>1, <1>2, <1>3, <1>4 DEF Next, Executor

\* The types of the buffers, of the flags and of where the threads are, whatever
\* fails and whoever stops (executor.rs, state.rs).
THEOREM IngestionTypeCorrect == Spec => []TypeOK
<1>1. Spec => []FlowInv
  BY InitFlow, NextFlow, PTL DEF Spec
<1> QED
  BY <1>1, PTL DEF FlowInv

-----------------------------------------------------------------------------
(* No event is lost *)

LossInv == FlowInv /\ NoEventLost

\* The end of a flush loses nothing when its batch was returned or committed.
LEMMA NextLoss == LossInv /\ [Next]_vars => LossInv'
<1> SUFFICES ASSUME LossInv, [Next]_vars PROVE LossInv'
  OBVIOUS
<1> USE DEF LossInv
<1>0. FlowInv'
  BY NextFlow
<1>1. CASE Ingest
  <2>0. /\ UNCHANGED <<taken, applied, lost, count>>
        /\ dropped \subseteq dropped'
        /\ pending \in Seq(EventNo)
    BY <1>1 DEF Ingest, ReadRules, DropEvent, Buffer, RulesTouched, Ping, batch,
                store, repo, ingest, FlowInv, TypeOK
  <2>1. CASE ReadRules
    <3>1. PICK e \in Events : hist' = Append(hist, e)
      BY <2>1 DEF ReadRules
    <3>2. hist \in Seq(Events) /\ Len(hist') = Len(hist) + 1 /\ Len(hist) \in Nat
      BY <3>1 DEF FlowInv, TypeOK
    <3>3. Delivered' = Delivered
      BY <2>1, <3>2 DEF ReadRules, Delivered
    <3> QED BY <1>0, <2>0, <2>1, <3>3 DEF ReadRules, NoEventLost, ReadsSucceed
  <2>2. CASE DropEvent
    <3>1. Delivered' \subseteq Delivered \cup {This} /\ dropped' = dropped \cup {This}
      BY <2>2 DEF DropEvent, Delivered, This, FlowInv, TypeOK
    <3> QED BY <1>0, <2>0, <2>2, <3>1 DEF DropEvent, NoEventLost, ReadsSucceed
  <2>3. CASE Buffer
    <3>1. Delivered' \subseteq Delivered \cup {This}
      BY <2>3 DEF Buffer, Delivered, This, FlowInv, TypeOK
    <3>2. This \in EventNo
      BY <2>3, BoundsAssumption DEF Buffer, This, FlowInv, TypeOK, InHand, EventNo
    <3>3. Listed(pending') = Listed(pending) \cup {This}
      BY <2>0, <2>3, <3>2, ListedAppend DEF Buffer
    <3> QED BY <1>0, <2>0, <2>3, <3>1, <3>3 DEF Buffer, NoEventLost, ReadsSucceed
  <2>4. CASE RulesTouched \/ Ping
    <3>1. Delivered' = Delivered /\ UNCHANGED <<dropped, pending>>
      BY <2>4 DEF RulesTouched, Ping, Delivered, ingest
    <3> QED BY <1>0, <2>0, <3>1 DEF NoEventLost, ReadsSucceed
  <2> QED BY <1>1, <2>1, <2>2, <2>3, <2>4 DEF Ingest
<1>2. ASSUME NEW f \in Flushers, Flush(f) PROVE LossInv'
  <2>0. /\ Delivered' = Delivered /\ dropped' = dropped /\ lost' = lost
        /\ applied \subseteq applied'
        /\ ReadsSucceed' => ReadsSucceed
        /\ pending \in Seq(EventNo) /\ taken \in Seq(EventNo)
    BY <1>2 DEF Flush, Enter, Acquire, TurnAway, MarkTouches, Drain, ReadFails,
                StartTask, NextGroup, CommitGroup, Stop, ApplyFails, Publish,
                PublishFails, Cover, ingest, store, repo, Delivered, FlowInv, TypeOK,
                ReadsSucceed, Spend
  <2>1. lost \/ ~ReadsSucceed' \/ Listed(pending) \cup Listed(taken)
                   \subseteq Listed(pending') \cup Listed(taken') \cup applied'
    <3>1. CASE Enter(f)
      BY <3>1 DEF Enter, batch
    <3>2. CASE Acquire(f) \/ MarkTouches(f) \/ StartTask(f) \/ NextGroup(f)
               \/ CommitGroup(f) \/ Publish(f)
      BY <3>2 DEF Acquire, MarkTouches, StartTask, NextGroup, CommitGroup, Publish,
                  batch
    <3>3. CASE TurnAway(f)
      <4>1. taken = <<>> /\ pending' = pending
        BY <3>3 DEF TurnAway, FlowInv, BatchInHand, OneFlush, AtStore, Flushers
      <4> QED BY <4>1, ListedEmpty
    <3>4. CASE Drain(f)
      <4>1. taken = <<>> /\ (pending = <<>> \/ taken' = pending)
        BY <3>4 DEF Drain, FlowInv, BatchInHand, OneFlush, AtStore, Flushers
      <4> QED BY <4>1, ListedEmpty
    <3>5. CASE ReadFails(f)
      <4>1. count' = [count EXCEPT !["read"] = @ + 1]
        BY <3>5 DEF ReadFails, Spend
      <4>2. count["read"] \in Nat /\ count'["read"] = count["read"] + 1
        BY <4>1 DEF FlowInv, TypeOK
      <4> QED BY <4>2 DEF ReadsSucceed
    <3>6. CASE Stop(f) \/ ApplyFails(f)
      <4>1. pending' = taken \o pending
        BY <3>6 DEF Stop, ApplyFails, ReturnPending
      <4> QED BY <2>0, <4>1, ListedConcat
    <3>7. CASE Cover(f) \/ PublishFails(f)
      <4>1. done = Len(taken) /\ pending' = pending
        BY <3>7 DEF Cover, PublishFails, FlowInv, DoneIsApplied, OneFlush, AtStore, Flushers
      <4>2. Listed(taken) \subseteq applied
        BY <2>0, <4>1 DEF Listed, FlowInv, DoneIsApplied
      <4> QED BY <2>0, <4>1, <4>2
    <3> QED
      BY <1>2, <3>1, <3>2, <3>3, <3>4, <3>5, <3>6, <3>7 DEF Flush
  <2> QED
    BY <1>0, <2>0, <2>1 DEF NoEventLost
<1>3. CASE \/ Activity \/ QuietOver \/ Pause \/ RequestCancel \/ Resume
           \/ StartSession \/ EndSession \/ ExplainRules \/ LoseRoot
  <2>1. UNCHANGED <<hist, ipc, dropped, pending, taken, applied>>
    BY <1>3, OtherFlow
  <2>2. (lost => lost') /\ (ReadsSucceed' => ReadsSucceed)
    BY <1>3 DEF Activity, QuietOver, Pause, RequestCancel, Resume, StartSession,
                EndSession, ExplainRules, LoseRoot, repo, ReadsSucceed, Spend,
                FlowInv, TypeOK
  <2> QED BY <1>0, <2>1, <2>2 DEF NoEventLost, Delivered
<1>4. CASE UNCHANGED vars
  BY <1>0, <1>4 DEF vars, ingest, batch, store, repo, NoEventLost, ReadsSucceed, Delivered
<1> QED
  BY <1>1, <1>2, <1>3, <1>4 DEF Next, Executor, Flushers

\* As long as the rules and the mount points can be read, no event of the
\* filesystem is lost, however many flushes fail, are stopped or are turned
\* away, on two threads: a batch is committed whole or goes back to the buffer.
THEOREM NothingLost == Spec => []NoEventLost
<1>1. LossInv /\ [Next]_vars => LossInv'
  BY NextLoss
<1>2. Init => NoEventLost
  BY DEF Init, NoEventLost, Delivered
<1>3. Spec => []LossInv
  BY <1>1, <1>2, InitFlow, PTL DEF Spec, LossInv
<1> QED
  BY <1>3, PTL DEF LossInv
-----------------------------------------------------------------------------
(* The order of the events *)

Increasing(q) == \A i, j \in DOMAIN q : i < j => q[i] < q[j]

\* The event the ingest thread has in hand is buffered nowhere yet.
Ahead == ipc = "read" => \A n \in Listed(pending) \cup Listed(taken) : n < Len(hist)

OrderInv == LossInv /\ BufferInOrder /\ Ahead /\ AppliedInOrder

\* Two sequences make an increasing one when each is increasing and the first
\* ends before the second begins.
LEMMA IncreasingConcat ==
  ASSUME NEW p \in Seq(EventNo), NEW q \in Seq(EventNo)
  PROVE  Increasing(p \o q) <=>
           /\ Increasing(p) /\ Increasing(q)
           /\ \A i \in DOMAIN p, j \in DOMAIN q : p[i] < q[j]
<1> DEFINE c == p \o q
<1>1. /\ Len(p) \in Nat /\ Len(q) \in Nat /\ DOMAIN p = 1..Len(p) /\ DOMAIN q = 1..Len(q)
      /\ DOMAIN c = 1..(Len(p) + Len(q))
      /\ \A i \in 1..Len(p) : c[i] = p[i]
      /\ \A j \in 1..Len(q) : c[Len(p) + j] = q[j]
  OBVIOUS
<1> HIDE DEF c
<1>2. ASSUME Increasing(c)
      PROVE  /\ Increasing(p) /\ Increasing(q)
             /\ \A i \in DOMAIN p, j \in DOMAIN q : p[i] < q[j]
  <2>1. Increasing(p)
    BY <1>1, <1>2 DEF Increasing
  <2>2. ASSUME NEW i \in DOMAIN q, NEW j \in DOMAIN q, i < j PROVE q[i] < q[j]
    <3>1. /\ Len(p) + i \in DOMAIN c /\ Len(p) + j \in DOMAIN c /\ Len(p) + i < Len(p) + j
          /\ c[Len(p) + i] = q[i] /\ c[Len(p) + j] = q[j]
      BY <1>1, <2>2
    <3> QED BY <1>2, <3>1 DEF Increasing
  <2>3. ASSUME NEW i \in DOMAIN p, NEW j \in DOMAIN q PROVE p[i] < q[j]
    <3>1. /\ i \in DOMAIN c /\ Len(p) + j \in DOMAIN c /\ i < Len(p) + j
          /\ c[i] = p[i] /\ c[Len(p) + j] = q[j]
      BY <1>1, <2>3
    <3> QED BY <1>2, <3>1 DEF Increasing
  <2> QED BY <2>1, <2>2, <2>3 DEF Increasing
<1>3. ASSUME Increasing(p), Increasing(q), \A i \in DOMAIN p, j \in DOMAIN q : p[i] < q[j]
      PROVE  Increasing(c)
  <2> SUFFICES ASSUME NEW i \in DOMAIN c, NEW j \in DOMAIN c, i < j PROVE c[i] < c[j]
    BY DEF Increasing
  <2>1. CASE j <= Len(p)
    BY <1>1, <1>3, <2>1 DEF Increasing
  <2>2. CASE j > Len(p)
    <3>1. j - Len(p) \in 1..Len(q) /\ c[j] = q[j - Len(p)]
      <4>1. j - Len(p) \in 1..Len(q) /\ Len(p) + (j - Len(p)) = j
        BY <1>1, <2>2
      <4> QED BY <1>1, <4>1
    <3>2. CASE i <= Len(p)
      BY <1>1, <1>3, <3>1, <3>2
    <3>3. CASE i > Len(p)
      <4>1. i - Len(p) \in 1..Len(q) /\ Len(p) + (i - Len(p)) = i /\ i - Len(p) < j - Len(p)
        BY <1>1, <3>3
      <4>2. c[i] = q[i - Len(p)]
        BY <1>1, <4>1
      <4> QED BY <1>1, <1>3, <3>1, <4>1, <4>2 DEF Increasing
    <3> QED BY <1>1, <3>2, <3>3
  <2> QED BY <1>1, <2>1, <2>2
<1> QED
  BY <1>2, <1>3 DEF c

\* The buffer is in order when the batch and what is buffered are, one before
\* the other.
LEMMA OrderSplit ==
  ASSUME pending \in Seq(EventNo), taken \in Seq(EventNo)
  PROVE  BufferInOrder <=>
           /\ Increasing(taken) /\ Increasing(pending)
           /\ \A i \in DOMAIN taken, j \in DOMAIN pending : taken[i] < pending[j]
<1>1. BufferInOrder <=> Increasing(taken \o pending)
  BY DEF BufferInOrder, Increasing
<1> QED
  BY <1>1, IncreasingConcat

\* The ingest thread's steps keep the order: what it buffers is the newest.
LEMMA IngestOrder ==
  ASSUME OrderInv, LossInv', Ingest
  PROVE  BufferInOrder' /\ Ahead' /\ AppliedInOrder'
<1>0. /\ UNCHANGED <<taken, applied, lost, count>> /\ dropped \subseteq dropped'
      /\ pending \in Seq(EventNo) /\ taken \in Seq(EventNo)
      /\ pending' \in Seq(EventNo) /\ taken' \in Seq(EventNo)
  BY DEF Ingest, ReadRules, DropEvent, Buffer, RulesTouched, Ping, batch, store, repo,
         ingest, OrderInv, LossInv, FlowInv, TypeOK
<1>1. AppliedInOrder'
  BY <1>0 DEF OrderInv, AppliedInOrder, ReadsSucceed
<1>2. CASE ReadRules
  <2>1. PICK e \in Events : hist' = Append(hist, e)
    BY <1>2 DEF ReadRules
  <2>2. hist \in Seq(Events) /\ Len(hist') = Len(hist) + 1 /\ Len(hist) \in Nat
    BY <2>1 DEF OrderInv, LossInv, FlowInv, TypeOK
  <2>3. pending' = pending
    BY <1>2 DEF ReadRules
  <2>4. Ahead'
    <3>1. \A n \in Listed(pending) \cup Listed(taken) : n \in 1..Len(hist)
      BY DEF OrderInv, LossInv, FlowInv, Happened
    <3> QED BY <1>0, <2>2, <2>3, <3>1 DEF Ahead
  <2> QED BY <1>0, <1>1, <2>3, <2>4 DEF OrderInv, BufferInOrder
<1>3. CASE Buffer
  <2>1. /\ This \in EventNo /\ pending' = Append(pending, This) /\ This = Len(hist)
        /\ ipc = "read" /\ ipc' # "read"
    BY <1>3, BoundsAssumption DEF Buffer, This, OrderInv, LossInv, FlowInv, TypeOK, InHand, EventNo
  <2>2. \A n \in Listed(pending) \cup Listed(taken) : n < This
    BY <2>1 DEF OrderInv, Ahead
  <2>3. /\ DOMAIN pending = 1..Len(pending) /\ DOMAIN pending' = 1..(Len(pending) + 1)
        /\ Len(pending) \in Nat /\ pending'[Len(pending) + 1] = This
        /\ \A i \in 1..Len(pending) : pending'[i] = pending[i]
    BY <1>0, <2>1
  <2>4. \A i \in DOMAIN pending : pending[i] < This
    BY <2>2 DEF Listed
  <2>5. \A i \in DOMAIN taken : taken[i] < This
    BY <2>2 DEF Listed
  <2>6. /\ Increasing(taken) /\ Increasing(pending)
        /\ \A i \in DOMAIN taken, j \in DOMAIN pending : taken[i] < pending[j]
    BY <1>0, OrderSplit DEF OrderInv
  <2>7. Increasing(pending')
    <3> SUFFICES ASSUME NEW i \in DOMAIN pending', NEW j \in DOMAIN pending', i < j
                 PROVE  pending'[i] < pending'[j]
      BY DEF Increasing
    <3>1. CASE j = Len(pending) + 1
      BY <2>3, <2>4, <3>1
    <3>2. CASE j # Len(pending) + 1
      BY <2>3, <2>6, <3>2 DEF Increasing
    <3> QED BY <3>1, <3>2
  <2>8. \A i \in DOMAIN taken, j \in DOMAIN pending' : taken[i] < pending'[j]
    BY <2>3, <2>5, <2>6
  <2>9. Increasing(taken \o pending')
    BY <1>0, <2>6, <2>7, <2>8, IncreasingConcat
  <2>10. BufferInOrder'
    BY <1>0, <2>9 DEF BufferInOrder, Increasing
  <2> QED BY <1>1, <2>1, <2>10 DEF Ahead
<1>4. CASE DropEvent \/ RulesTouched \/ Ping
  <2>1. pending' = pending /\ ipc' # "read"
    BY <1>4 DEF DropEvent, RulesTouched, Ping
  <2> QED BY <1>0, <1>1, <2>1 DEF OrderInv, BufferInOrder, Ahead
<1> QED
  BY <1>2, <1>3, <1>4 DEF Ingest

\* What a flush does to the batch and the buffer: nothing, the batch drained or
\* returned, or one of the two gone.
LEMMA FlushMoves ==
  ASSUME FlowInv, NEW f \in Flushers, Flush(f)
  PROVE  \/ pending' = pending /\ taken' = taken
         \/ pending' = <<>> /\ taken' = taken
         \/ pending' = pending /\ taken' = <<>>
         \/ pending' = <<>> /\ taken = <<>> /\ (taken' = pending \/ taken' = <<>>)
         \/ pending' = taken \o pending /\ taken' = <<>>
<1>1. CASE \/ Enter(f) \/ Acquire(f) \/ MarkTouches(f) \/ StartTask(f) \/ NextGroup(f)
           \/ CommitGroup(f) \/ Publish(f)
  <2>1. taken' = taken /\ (pending' = pending \/ pending' = <<>>)
    BY <1>1 DEF Enter, Acquire, MarkTouches, StartTask, NextGroup, CommitGroup, Publish, batch
  <2> QED BY <2>1
<1>2. CASE TurnAway(f) \/ ReadFails(f) \/ Cover(f) \/ PublishFails(f)
  BY <1>2 DEF TurnAway, ReadFails, Cover, PublishFails, Leave
<1>3. CASE Drain(f)
  <2>1. taken = <<>>
    BY <1>3 DEF Drain, FlowInv, BatchInHand, OneFlush, AtStore, Flushers
  <2> QED BY <1>3, <2>1 DEF Drain, Leave
<1>4. CASE Stop(f) \/ ApplyFails(f)
  BY <1>4 DEF Stop, ApplyFails, ReturnPending, Leave
<1> QED
  BY <1>1, <1>2, <1>3, <1>4 DEF Flush

\* A flush commits only what everything before it was committed or dropped for.
LEMMA CommitInOrder ==
  ASSUME OrderInv, NEW f \in Flushers, CommitGroup(f), ~lost, ReadsSucceed
  PROVE  1..(taken[done + 1] - 1) \subseteq applied \cup dropped
<1> DEFINE n == taken[done + 1]
<1>1. /\ done < Len(taken) /\ done \in Nat /\ taken \in Seq(EventNo) /\ pending \in Seq(EventNo)
      /\ \A k \in 1..done : taken[k] \in applied
      /\ Len(hist) \in Nat
  BY DEF CommitGroup, OrderInv, LossInv, FlowInv, TypeOK, DoneIsApplied, OneFlush, AtStore, Flushers
<1>2. done + 1 \in DOMAIN taken /\ n \in Listed(taken) /\ n \in Nat
  <2>1. done + 1 \in DOMAIN taken /\ n \in EventNo
    BY <1>1
  <2> QED BY <2>1 DEF Listed, EventNo
<1>3. n <= Len(hist) /\ (ipc = "read" => n < Len(hist))
  BY <1>2 DEF OrderInv, LossInv, FlowInv, Happened, Ahead
<1>4. 1..(n - 1) \subseteq Delivered
  BY <1>1, <1>2, <1>3 DEF Delivered
<1>5. Delivered \subseteq dropped \cup applied \cup Listed(pending) \cup Listed(taken)
  BY DEF OrderInv, LossInv, NoEventLost
<1>6. /\ Increasing(taken)
      /\ \A i \in DOMAIN taken, j \in DOMAIN pending : taken[i] < pending[j]
  BY <1>1, OrderSplit DEF OrderInv
<1>7. ASSUME NEW k \in 1..(n - 1), k \in Listed(pending) PROVE FALSE
  <2>1. PICK j \in DOMAIN pending : pending[j] = k
    BY <1>7 DEF Listed
  <2>2. n < k
    BY <1>2, <1>6, <2>1
  <2> QED BY <1>2, <2>2
<1>8. ASSUME NEW k \in 1..(n - 1), k \in Listed(taken) PROVE k \in applied
  <2>1. PICK j \in DOMAIN taken : taken[j] = k
    BY <1>8 DEF Listed
  <2>2. j \in 1..Len(taken) /\ Len(taken) \in Nat
    BY <1>1, <2>1
  <2>3. j < done + 1
    <3>1. CASE j > done + 1
      <4>1. n < k
        BY <1>2, <1>6, <2>1, <3>1 DEF Increasing
      <4> QED BY <1>2, <4>1
    <3>2. CASE j = done + 1
      BY <1>2, <2>1, <3>2
    <3> QED BY <1>1, <2>2, <3>1, <3>2
  <2> QED BY <1>1, <2>1, <2>2, <2>3
<1> QED
  BY <1>4, <1>5, <1>7, <1>8

\* A flush's steps keep the order: what goes back goes to the head.
LEMMA FlushOrder ==
  ASSUME OrderInv, LossInv', NEW f \in Flushers, Flush(f)
  PROVE  BufferInOrder' /\ Ahead' /\ AppliedInOrder'
<1>0. /\ pending \in Seq(EventNo) /\ taken \in Seq(EventNo)
      /\ pending' \in Seq(EventNo) /\ taken' \in Seq(EventNo)
  BY DEF OrderInv, LossInv, FlowInv, TypeOK
<1>1. UNCHANGED <<hist, ipc, dropped, lost>> /\ (ReadsSucceed' => ReadsSucceed)
  <2>1. UNCHANGED <<hist, ipc, dropped, lost>>
    BY DEF Flush, Enter, Acquire, TurnAway, MarkTouches, Drain, ReadFails, StartTask,
           NextGroup, CommitGroup, Stop, ApplyFails, Publish, PublishFails, Cover, ingest, repo
  <2>2. count["read"] \in Nat /\ (count' = count \/ \E w \in {"read", "fail"} : Spend(w))
    BY DEF Flush, Enter, Acquire, TurnAway, MarkTouches, Drain, ReadFails, StartTask,
           NextGroup, CommitGroup, Stop, ApplyFails, Publish, PublishFails, Cover,
           OrderInv, LossInv, FlowInv, TypeOK
  <2>3. count'["read"] = 0 => count["read"] = 0
    <3>1. DOMAIN count = {"fail", "read", "stop", "session"}
      BY DEF OrderInv, LossInv, FlowInv, TypeOK
    <3>2. ASSUME NEW w \in {"read", "fail"}, Spend(w), count'["read"] = 0
          PROVE  count["read"] = 0
      <4>1. count' = [count EXCEPT ![w] = count[w] + 1]
        BY <3>2 DEF Spend
      <4>2. CASE w = "read"
        <5>1. count'["read"] = count["read"] + 1
          BY <3>1, <4>1, <4>2
        <5> QED BY <2>2, <3>2, <5>1
      <4>3. CASE w = "fail"
        <5>1. count'["read"] = count["read"]
          BY <3>1, <4>1, <4>3
        <5> QED BY <3>2, <5>1
      <4> QED BY <4>2, <4>3
    <3> QED BY <2>2, <3>2
  <2> QED BY <2>1, <2>3 DEF ReadsSucceed
<1>2. \/ pending' = pending /\ taken' = taken
      \/ pending' = <<>> /\ taken' = taken
      \/ pending' = pending /\ taken' = <<>>
      \/ pending' = <<>> /\ taken = <<>> /\ (taken' = pending \/ taken' = <<>>)
      \/ pending' = taken \o pending /\ taken' = <<>>
  BY FlushMoves DEF OrderInv, LossInv
<1>3. /\ Increasing(taken) /\ Increasing(pending)
      /\ \A i \in DOMAIN taken, j \in DOMAIN pending : taken[i] < pending[j]
  BY <1>0, OrderSplit DEF OrderInv
<1>4. Increasing(taken \o pending)
  BY DEF OrderInv, BufferInOrder, Increasing
<1>5. DOMAIN <<>> = {} /\ Increasing(<<>>)
  BY DEF Increasing
<1>6. BufferInOrder'
  <2>1. /\ Increasing(taken') /\ Increasing(pending')
        /\ \A i \in DOMAIN taken', j \in DOMAIN pending' : taken'[i] < pending'[j]
    BY <1>2, <1>3, <1>4, <1>5
  <2>2. Increasing(taken' \o pending')
    BY <1>0, <2>1, IncreasingConcat
  <2> QED BY <2>2 DEF BufferInOrder, Increasing
<1>7. Ahead'
  <2>1. Listed(pending') \cup Listed(taken') \subseteq Listed(pending) \cup Listed(taken)
    <3>1. Listed(taken \o pending) = Listed(taken) \cup Listed(pending)
      BY <1>0, ListedConcat
    <3> QED BY <1>2, <3>1, ListedEmpty
  <2> QED BY <1>1, <2>1 DEF OrderInv, Ahead
<1>8. AppliedInOrder'
  <2>1. CASE CommitGroup(f)
    <3>1. applied' = applied \cup {taken[done + 1]} /\ UNCHANGED count
      BY <2>1 DEF CommitGroup
    <3>2. ~lost /\ ReadsSucceed => 1..(taken[done + 1] - 1) \subseteq applied \cup dropped
      BY <2>1, CommitInOrder
    <3> QED BY <1>1, <3>1, <3>2 DEF OrderInv, AppliedInOrder
  <2>2. CASE ~CommitGroup(f)
    <3>1. applied' = applied
      BY <2>2 DEF Flush, Enter, Acquire, TurnAway, MarkTouches, Drain, ReadFails, StartTask,
                  NextGroup, Stop, ApplyFails, Publish, PublishFails, Cover, store
    <3> QED BY <1>1, <3>1 DEF OrderInv, AppliedInOrder
  <2> QED BY <2>1, <2>2
<1> QED
  BY <1>6, <1>7, <1>8

\* Every step keeps the order.
LEMMA NextOrder == OrderInv /\ [Next]_vars => OrderInv'
<1> SUFFICES ASSUME OrderInv, [Next]_vars PROVE OrderInv'
  OBVIOUS
<1>0. LossInv'
  BY NextLoss DEF OrderInv
<1>1. CASE Ingest
  BY <1>0, <1>1, IngestOrder DEF OrderInv
<1>2. CASE Flush("exec") \/ Flush("route")
  BY <1>0, <1>2, FlushOrder DEF OrderInv, Flushers
<1>3. CASE \/ Activity \/ QuietOver \/ Pause \/ RequestCancel \/ Resume
           \/ StartSession \/ EndSession \/ ExplainRules \/ LoseRoot
  <2>1. UNCHANGED <<hist, ipc, dropped, pending, taken, applied>>
    BY <1>3, OtherFlow DEF OrderInv, LossInv
  <2>2. (lost => lost') /\ (ReadsSucceed' => ReadsSucceed)
    BY <1>3 DEF Activity, QuietOver, Pause, RequestCancel, Resume, StartSession,
                EndSession, ExplainRules, LoseRoot, repo, ReadsSucceed, Spend,
                OrderInv, LossInv, FlowInv, TypeOK
  <2> QED BY <1>0, <2>1, <2>2 DEF OrderInv, BufferInOrder, Ahead, AppliedInOrder
<1>4. CASE UNCHANGED vars
  BY <1>0, <1>4 DEF vars, ingest, batch, store, repo, OrderInv, BufferInOrder, Ahead,
                    AppliedInOrder, ReadsSucceed
<1> QED
  BY <1>1, <1>2, <1>3, <1>4 DEF Next, Executor

\* The order invariant holds of every reachable state.
THEOREM OrderInvariant == Spec => []OrderInv
<1>1. Init => OrderInv
  <2> SUFFICES ASSUME Init PROVE OrderInv
    OBVIOUS
  <2>1. LossInv
    BY InitFlow DEF LossInv, Init, NoEventLost, Delivered
  <2>2. BufferInOrder /\ Ahead /\ AppliedInOrder
    BY DEF Init, BufferInOrder, Ahead, AppliedInOrder
  <2> QED BY <2>1, <2>2 DEF OrderInv
<1> QED
  BY <1>1, NextOrder, PTL DEF Spec

\* The buffer stays in the order of the events, although two threads flush it
\* and a batch goes back while others arrive (return_pending).
THEOREM BufferStaysInOrder == Spec => []BufferInOrder
<1>1. OrderInv => BufferInOrder
  BY DEF OrderInv
<1> QED
  BY <1>1, OrderInvariant, PTL

\* While the root is there and the reads succeed, no event is committed before
\* one that came before it and was not dropped (flush_pending_once).
THEOREM EventsAppliedInOrder == Spec => []AppliedInOrder
<1>1. OrderInv => AppliedInOrder
  BY DEF OrderInv
<1> QED
  BY <1>1, OrderInvariant, PTL
=============================================================================
