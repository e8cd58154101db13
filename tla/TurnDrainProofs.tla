---------------------------- MODULE TurnDrainProofs ----------------------------
(* ExecutionKept, NoRerun, EndIsFinal, ObserversServed and NeverStranded of       *)
(* TurnDrain, for any number of turns, drain tasks, calls, controls and crashes.  *)
EXTENDS TurnDrain, TurnCoordinatorProofs

\* Stages of a drain whose head start has opened, and those on the way to execution.
Active == {"control", "open", "closing", "exec", "begin", "submit", "stream",
           "rejectError", "rejectFinish", "status", "failBegin", "failError",
           "failFinish", "ack"}
Executing == {"exec", "begin", "submit", "stream"}

\* Ownership is backed by a lease that is held.
LeaseHeld == owner # None => owner \in leases

\* An active drain works on the head of the queue, which it watches.
HeadIsFront ==
  \A l \in Leases : drain[l].pc \in Active =>
    /\ pending # <<>> /\ drain[l].head # None
    /\ HeadTurn(l) = Front.turn /\ watching = Front.turn

\* What is acknowledged next has ended.
AckedEnd == \A l \in Leases : At(l, "ack") => "ended" \in journal[HeadTurn(l)]

\* A withdrawn turn stays cancelled, and the drain knows.
Withdrawals ==
  /\ withdrawn \subseteq AcceptedTurns
  /\ \A i \in DOMAIN pending : pending[i].turn \in withdrawn => pending[i].control = "Cancel"
  /\ \A l \in Leases :
       /\ drain[l].pc \in Executing => HeadTurn(l) \notin withdrawn
       /\ At(l, "open") => HeadTurn(l) \notin withdrawn \/ drain[l].control = "Cancel"

DrainInv ==
  /\ IInv /\ DrainTypeOK /\ LeaseHeld /\ ExclusiveExecution /\ HeadIsFront
  /\ JournalBeforeAck /\ AckedEnd /\ Withdrawals

--------------------------------------------------------------------------------

\* The journal of an accepted turn begins with its start.
Journalled ==
  \A t \in Turns : journal[t] # {} => t \in AcceptedTurns /\ "started" \in journal[t]

\* An entry whose turn has a journal was admitted, or never runs again.
EntriesAdmitted ==
  /\ ~Resumable => \A i \in DOMAIN pending : pending[i].control # "Suspend"
  /\ \A i \in DOMAIN pending : "started" \in journal[pending[i].turn] =>
       pending[i].started \/ pending[i].control = "Cancel"

\* Before start, the head a drain has read is still the head, as admitted.
Fresh(l) ==
  drain[l].pc \in {"top", "decide"} /\ drain[l].head # None =>
    pending # <<>> /\ HeadTurn(l) = Front.turn /\ drain[l].head.started = Front.started

\* After start the head is admitted, unless it was suspended or cancelled before.
Admits(l) ==
  /\ At(l, "control") => Front.started \/ Front.control \in {"Suspend", "Cancel"}
  /\ drain[l].pc \in Active \ {"control"} => Front.started \/ Front.control = "Cancel"

\* What a drain remembers of the admission of its head agrees with the journal.
Recalls(l) ==
  /\ At(l, "control") /\ "started" \in journal[HeadTurn(l)] =>
       drain[l].was \/ Front.control = "Cancel"
  /\ At(l, "open") /\ "started" \in journal[HeadTurn(l)] =>
       drain[l].was \/ drain[l].control = "Cancel"
  /\ drain[l].pc \in {"exec", "begin"} /\ "started" \in journal[HeadTurn(l)] => drain[l].was

\* Whoever still writes the journal of a turn finds it begun and not ended.
Begun == {"submit", "stream", "rejectError", "rejectFinish", "failError", "failFinish",
          "closing"}
Unended == (Begun \cup {"exec", "begin", "failBegin"}) \ {"stream"}
Writes(l) ==
  /\ drain[l].pc \in Begun => "started" \in journal[HeadTurn(l)]
  /\ drain[l].pc \in Unended => "ended" \notin journal[HeadTurn(l)]
ExecutionOpen ==
  /\ run # None => "ended" \notin journal[run.turn]
  /\ fin # None /\ fin.step # "send" => "ended" \notin journal[fin.turn]

Sound(l) == Fresh(l) /\ Admits(l) /\ Recalls(l) /\ Writes(l)

\* Nobody resumes, if nobody asks to.
Unresumed == "Run" \notin Requests => \A c \in calls : c.step # "control"

RerunInv ==
  /\ Unresumed /\ Journalled /\ EntriesAdmitted /\ ExecutionOpen /\ NoRerun
  /\ \A l \in Leases : Sound(l)

--------------------------------------------------------------------------------

\* An observer of a turn that has left the queue, or is about to, is a retry that
\* still looks at the journal.
Looks(o) ==
  \/ o[2] = "retry" /\ \E c \in calls : c.turn = o[1] /\ c.step = "replay"
  \/ o[2] = "unread"

Served(o) == o[1] \in PendingTurns \/ Looks(o)
AckSilent(l) == At(l, "ack") => \A o \in observers : o[1] = HeadTurn(l) => Looks(o)

\* Who looks at a journal, or could, has an accepted turn.
CallsKnown ==
  /\ \A c \in calls : c.step # "control" /\ (c.step = "replay" => c.turn \in AcceptedTurns)
  /\ \A r \in receipts : r.turn \in AcceptedTurns

ObserverInv ==
  /\ \A o \in observers : Served(o)
  /\ \A l \in Leases : AckSilent(l)
  /\ CallsKnown

\* Without failing storage an owner lets go only when the process shuts down.
StrandInv ==
  /\ NeverStranded
  /\ ~draining => \A l \in Leases : At(l, "drop") => owner # l

--------------------------------------------------------------------------------

\* A step of the runtime is a step of the coordinator under it, or leaves it alone.
LEMMA Layered ==
  ASSUME DrainTypeOK, [DrainNext]_drainVars
  PROVE  [Next]_vars
<1>0. /\ None \in Callers /\ \A i \in DOMAIN pending : pending[i] \in QueuedTurn
      /\ \A l \in Leases : drain[l].head \in QueuedTurn \cup {None}
    BY DEF Callers, DrainTypeOK, TypeOK, Task
<1>1. CASE Clients
  <2>1. ASSUME NEW t \in Turns, NEW k \in Keys \cup {None}, NEW a \in Attentions, Accept(t, k, a)
        PROVE  Next
      BY <1>0, <2>1 DEF Accept, Next, Admission
  <2>2. ASSUME NEW t \in Turns, Retry(t) \/ Resume(t) PROVE UNCHANGED vars
      BY <2>2 DEF Retry, Resume
  <2>3. ASSUME NEW i \in DOMAIN pending, NEW c \in Controls, Ask(i, c) PROVE Next
      BY <1>0, <2>3 DEF Ask, Control, Next, Admission
  <2>4. PendingTurns \subseteq Turns
      BY <1>0 DEF PendingTurns, QueuedTurn
  <2>5. QED
      BY <1>1, <2>1, <2>2, <2>3, <2>4 DEF Clients
<1>2. ASSUME NEW c \in calls, CallStep(c) \/ WakeFails(c) \/ ReplayFails(c)
      PROVE  [Next]_vars
  <2>1. CASE Replay(c) \/ ReplayFails(c) \/ Signal(c) \/ WakeFails(c)
      BY <2>1 DEF Replay, ReplayFails, Signal, WakeFails
  <2>2. CASE ResumeControl(c)
    <3>1. "Run" \in Controls
        BY DEF Controls
    <3>2. QED
        BY <1>0, <2>2, <3>1 DEF ResumeControl, Control, Next, Admission
  <2>3. CASE Wake(c)
      BY <2>3 DEF Wake, Next, Execution
  <2>4. QED
      BY <1>2, <2>1, <2>2, <2>3 DEF CallStep
<1>3. ASSUME NEW l \in Leases, DrainStep(l) \/ DrainFails(l) \/ OpenFails(l) \/ PrepareFails(l)
      PROVE  [Next]_vars
  <2>1. CASE ReleaseIdle(l)
      BY <2>1 DEF ReleaseIdle, Next, Execution
  <2>2. CASE StartHead(l)
    <3>1. Start(l, HeadTurn(l))
        BY <2>2 DEF StartHead
    <3>2. HeadTurn(l) = Front.turn /\ 1 \in DOMAIN pending
        BY <3>1 DEF Start, DrainTypeOK, TypeOK
    <3>3. HeadTurn(l) \in Turns
        BY <1>0, <3>2 DEF Front, QueuedTurn
    <3>4. QED
        BY <3>1, <3>3 DEF Next, Execution
  <2>3. CASE AckHead(l)
    <3>1. Acknowledge(l, HeadTurn(l))
        BY <2>3 DEF AckHead
    <3>2. HeadTurn(l) = Front.turn /\ 1 \in DOMAIN pending
        BY <3>1 DEF Acknowledge, DrainTypeOK, TypeOK
    <3>3. HeadTurn(l) \in Turns
        BY <1>0, <3>2 DEF Front, QueuedTurn
    <3>4. QED
        BY <3>1, <3>3 DEF Next, Execution
  <2>4. CASE Exit(l)
      BY <2>4 DEF Exit, Next, Execution
  <2>5. CASE ~ReleaseIdle(l) /\ ~StartHead(l) /\ ~AckHead(l) /\ ~Exit(l)
      BY <1>3, <2>5 DEF DrainStep, Spawn, Top, Peek, ReadControl, OpenHead, CloseHead,
         EnterExecution, BeginTurn, Submit, RejectError, RejectFinish, Forward, StreamEnds,
         CheckStatus, FailBegin, FailError, FailFinish, DrainFails, OpenFails, PrepareFails
  <2>6. QED
      BY <2>1, <2>2, <2>3, <2>4, <2>5
<1>4. CASE Harness \/ FinalizerFails \/ BeginShutdown \/ StopHarness
    BY <1>4 DEF Harness, RunReturns, RunStops, Finalize, FinalizerStep, FinalizerFails,
       BeginShutdown, StopHarness
<1>5. CASE Reboot
    BY <1>5 DEF Reboot, Next
<1>6. CASE UNCHANGED drainVars
    BY <1>6 DEF drainVars
<1>7. QED
    BY <1>1, <1>2, <1>3, <1>4, <1>5, <1>6 DEF DrainNext, Faults

\* A task of drain l goes to stage pc; the other drains stay where they are.
Shifts(l, pc) ==
  /\ drain'[l].pc = pc /\ drain'[l].head = drain[l].head
  /\ drain'[l].was = drain[l].was
  /\ \A k \in Leases \ {l} : drain'[k] = drain[k]

\* The assignments that do that leave the tasks well typed.
LEMMA Shift ==
  ASSUME drain \in [Leases -> Task], NEW l \in Leases, NEW pc \in Stages, Go(l, pc)
  PROVE  /\ Shifts(l, pc) /\ drain'[l].control = drain[l].control
         /\ drain' \in [Leases -> Task]
<1>1. drain[l] \in Task
    OBVIOUS
<1>2. QED
    BY <1>1 DEF Shifts, Task, Go

LEMMA ShiftControl ==
  ASSUME drain \in [Leases -> Task], NEW l \in Leases, NEW pc \in Stages,
         NEW c \in Controls, drain' = [drain EXCEPT ![l].pc = pc, ![l].control = c]
  PROVE  Shifts(l, pc) /\ drain'[l].control = c /\ drain' \in [Leases -> Task]
<1>1. drain[l] \in Task
    OBVIOUS
<1>2. QED
    BY <1>1 DEF Shifts, Task

LEMMA ShiftSuspended ==
  ASSUME drain \in [Leases -> Task], NEW l \in Leases, NEW b \in BOOLEAN
  PROVE  /\ drain' = [drain EXCEPT ![l].pc = "status", ![l].suspended = b] =>
              Shifts(l, "status") /\ drain' \in [Leases -> Task]
         /\ drain' = [drain EXCEPT ![l].suspended = b] =>
              Shifts(l, drain[l].pc) /\ drain' \in [Leases -> Task]
<1>1. drain[l] \in Task
    OBVIOUS
<1>2. "status" \in Stages
    BY DEF Stages
<1>3. QED
    BY <1>1, <1>2 DEF Shifts, Task

\* A drain reads its head.
Reads(l, pc, h) ==
  /\ drain'[l].pc = pc /\ drain'[l].head = h
  /\ \A k \in Leases \ {l} : drain'[k] = drain[k]

LEMMA ShiftHead ==
  ASSUME drain \in [Leases -> Task], NEW l \in Leases, NEW pc \in Stages,
         NEW h \in QueuedTurn \cup {None}, drain' = [drain EXCEPT ![l].pc = pc, ![l].head = h]
  PROVE  Reads(l, pc, h) /\ drain' \in [Leases -> Task]
<1>1. drain[l] \in Task
    OBVIOUS
<1>2. QED
    BY <1>1 DEF Reads, Task

LEMMA ShiftStart ==
  ASSUME drain \in [Leases -> Task], NEW l \in Leases, NEW b \in BOOLEAN,
         drain' = [drain EXCEPT ![l].pc = "control", ![l].was = b, ![l].suspended = FALSE]
  PROVE  /\ Reads(l, "control", drain[l].head) /\ drain'[l].was = b
         /\ drain' \in [Leases -> Task]
<1>1. drain[l] \in Task
    OBVIOUS
<1>2. "control" \in Stages
    BY DEF Stages
<1>3. QED
    BY <1>1, <1>2 DEF Reads, Task

\* The task of drain l begins or ends.
LEMMA ShiftTask ==
  ASSUME drain \in [Leases -> Task], NEW l \in Leases, NEW pc \in {"none", "spawn"},
         drain' = [drain EXCEPT ![l] = [NoTask EXCEPT !.pc = pc]]
  PROVE  Reads(l, pc, None) /\ drain' \in [Leases -> Task]
<1>1. [NoTask EXCEPT !.pc = pc] \in Task
    BY DEF NoTask, Task, Stages, Controls
<1>2. QED
    BY <1>1 DEF Reads, NoTask

\* A stop signal leaves the running turn what it is.
LEMMA SignalledRun ==
  ASSUME run \in Running \cup {None}, NEW t \in Turns \cup {None}, NEW c \in Controls
  PROVE  /\ Signalled(t, c) \in Running \cup {None}
         /\ run = None => Signalled(t, c) = None
         /\ run # None => Signalled(t, c).turn = run.turn
<1>1. StopFor(c) \in {"None", "Cancel", "Suspend", "Shutdown"}
    BY DEF StopFor, Controls
<1>2. QED
    BY <1>1 DEF Signalled, Running

\* The head of a queue, or None.
LEMMA SnapshotTyped ==
  ASSUME NEW q \in Seq(QueuedTurn)
  PROVE  Snapshot(q) \in QueuedTurn \cup {None}
    BY DEF Snapshot

\* Every step keeps the types.
LEMMA DrainTypeStep ==
  ASSUME DrainTypeOK, HeadIsFront, [DrainNext]_drainVars
  PROVE  DrainTypeOK'
<1>0. /\ TypeOK /\ TypeOK' /\ drain \in [Leases -> Task]
      /\ run \in Running \cup {None} /\ fin \in Finalizer \cup {None} /\ calls \subseteq Call
      /\ pending \in Seq(QueuedTurn) /\ pending' \in Seq(QueuedTurn)
    BY Layered, TypeStep DEF DrainTypeOK, TypeOK
<1>entries. /\ \A i \in DOMAIN pending : pending[i] \in QueuedTurn
            /\ PendingTurns \subseteq Turns
  <2>1. \A i \in DOMAIN pending : pending[i] \in QueuedTurn
      BY <1>0
  <2>2. QED
      BY <2>1 DEF QueuedTurn, PendingTurns
<1>fields. /\ \A l \in Leases : drain[l].pc \in Stages /\ drain[l].suspended \in BOOLEAN
           /\ \A l \in Leases : drain[l].head \in QueuedTurn \cup {None}
           /\ \A c \in calls : c.turn \in Turns \cup {None} /\ c.control \in Controls
           /\ \A q \in QueuedTurn : q.turn \in Turns /\ q.started \in BOOLEAN
    BY <1>0 DEF Task, Call, QueuedTurn
<1>heads. \A l \in Leases : drain[l].pc \in Active => HeadTurn(l) \in Turns
    BY <1>fields DEF HeadIsFront, HeadTurn
<1>1. ASSUME NEW t \in Turns, NEW k \in Keys \cup {None}, NEW a \in Attentions, Accept(t, k, a)
      PROVE  DrainTypeOK'
  <2>1. calls' \subseteq Call
      BY <1>0, <1>1 DEF Accept, Call, Controls
  <2>2. observers' \subseteq Turns \X Callees
      BY <1>1 DEF Accept, DrainTypeOK, Callees
  <2>3. unseen' \in BOOLEAN /\ withdrawn' \subseteq Turns
    <3>1. Interrupts(None, a) => Front.turn \in Turns
        BY <1>0, <1>fields DEF Interrupts, Front
    <3>2. QED
        BY <1>1, <3>1 DEF Accept, Heard, Withdraw, DrainTypeOK
  <2>4. QED
      BY <1>0, <1>1, <2>1, <2>2, <2>3 DEF Accept, DrainTypeOK
<1>2. ASSUME NEW t \in Turns, Retry(t) PROVE DrainTypeOK'
  <2>1. calls' \subseteq Call /\ observers' \subseteq Turns \X Callees
      BY <1>0, <1>2 DEF Retry, Call, Controls, DrainTypeOK, Callees
  <2>2. QED
      BY <1>0, <1>2, <2>1 DEF Retry, DrainTypeOK, notes
<1>3. ASSUME NEW t \in Turns, Resume(t) PROVE DrainTypeOK'
  <2>1. calls' \subseteq Call /\ observers' \subseteq Turns \X Callees
      BY <1>0, <1>3 DEF Resume, Call, Controls, DrainTypeOK, Callees
  <2>2. asks' \in 0..MaxAsks
      BY <1>3, ModeAssumption DEF ModeAssumption, Resume, DrainTypeOK
  <2>3. QED
      BY <1>0, <1>3, <2>1, <2>2 DEF Resume, DrainTypeOK, notes
<1>4. ASSUME NEW i \in DOMAIN pending, NEW c \in Controls, Control(i, c)
      PROVE  unseen' \in BOOLEAN /\ withdrawn' \subseteq Turns
    BY <1>entries, <1>fields, <1>4 DEF Control, Heard, Withdraw, DrainTypeOK
<1>5. ASSUME NEW i \in DOMAIN pending, NEW c \in Controls, Ask(i, c) PROVE DrainTypeOK'
  <2>1. calls' \subseteq Call
      BY <1>0, <1>entries, <1>fields, <1>5 DEF Ask, Call
  <2>2. asks' \in 0..MaxAsks
      BY <1>5, ModeAssumption DEF ModeAssumption, Ask, DrainTypeOK
  <2>3. QED
      BY <1>0, <1>4, <1>5, <2>1, <2>2 DEF Ask, DrainTypeOK
<1>6. ASSUME NEW c \in calls, NEW s \in {"signal", "wake"}, Step(c, s)
      PROVE  calls' \subseteq Call
    BY <1>0, <1>6 DEF Step, Call
<1>7. ASSUME NEW c \in calls, Replay(c) \/ ReplayFails(c) \/ Signal(c) PROVE DrainTypeOK'
  <2>1. calls' \subseteq Call
      BY <1>6, <1>7 DEF Replay, ReplayFails, Signal
  <2>2. run' \in Running \cup {None}
      BY <1>0, <1>fields, <1>7, SignalledRun, SMTT(30) DEF Replay, ReplayFails, Signal
  <2>3. ASSUME NEW callee \in {"accept", "unread"}
        PROVE  Looked(c.turn, callee) \subseteq Turns \X Callees
      BY <2>3 DEF Looked, DrainTypeOK, Callees
  <2>4. observers' \subseteq Turns \X Callees
      BY <1>7, <2>3 DEF Replay, ReplayFails, Signal, DrainTypeOK
  <2>5. QED
      BY <1>0, <1>7, <2>1, <2>2, <2>4 DEF Replay, ReplayFails, Signal, DrainTypeOK, notes
<1>8. ASSUME NEW c \in calls, ResumeControl(c) PROVE DrainTypeOK'
  <2>1. calls' \subseteq Call
      BY <1>0, <1>6, <1>8 DEF ResumeControl
  <2>2. observers' \subseteq Turns \X Callees
      BY <1>8 DEF ResumeControl, DrainTypeOK
  <2>3. unseen' \in BOOLEAN /\ withdrawn' \subseteq Turns
    <3>1. "Run" \in Controls
        BY DEF Controls
    <3>2. QED
        BY <1>4, <1>8, <3>1 DEF ResumeControl, DrainTypeOK, notes
  <2>4. again' = again
      BY <1>8 DEF ResumeControl, notes
  <2>5. QED
      BY <1>0, <1>8, <2>1, <2>2, <2>3, <2>4 DEF ResumeControl, DrainTypeOK
<1>9. ASSUME NEW c \in calls, Wake(c) \/ WakeFails(c) PROVE DrainTypeOK'
  <2>1. drain' \in [Leases -> Task]
      BY <1>0, <1>9, ShiftTask DEF Wake, WakeFails
  <2>2. observers' \subseteq Turns \X Callees /\ calls' \subseteq Call
      BY <1>0, <1>9 DEF Wake, WakeFails, Unobserved, DrainTypeOK
  <2>3. QED
      BY <1>0, <1>9, <2>1, <2>2 DEF Wake, WakeFails, DrainTypeOK, notes
<1>10. ASSUME NEW l \in Leases, Spawn(l) \/ Peek(l) \/ AckHead(l) PROVE DrainTypeOK'
  <2>1. "top" \in Stages /\ "decide" \in Stages
      BY DEF Stages
  <2>2. drain' \in [Leases -> Task]
      BY <1>0, <1>10, <2>1, SnapshotTyped, ShiftHead DEF Spawn, Peek, AckHead
  <2>3. QED
      BY <1>0, <1>10, <2>2 DEF Spawn, Peek, AckHead, DrainTypeOK, rest
<1>11. ASSUME NEW l \in Leases, StartHead(l) PROVE DrainTypeOK'
  <2>1. drain[l].head \in QueuedTurn
      BY <1>fields, <1>11 DEF StartHead, HeadIdle
  <2>2. drain' \in [Leases -> Task]
      BY <1>0, <1>fields, <1>11, <2>1, ShiftStart DEF StartHead
  <2>3. QED
      BY <1>0, <1>11, <2>2 DEF StartHead, DrainTypeOK, rest
<1>12. ASSUME NEW l \in Leases, Exit(l) PROVE DrainTypeOK'
  <2>1. NoTask \in Task
      BY DEF NoTask, Task, Stages, Controls
  <2>2. drain' \in [Leases -> Task]
      BY <1>0, <1>12, <2>1 DEF Exit
  <2>3. QED
      BY <1>0, <1>12, <2>2 DEF Exit, DrainTypeOK, rest
<1>13. ASSUME NEW l \in Leases, ReadControl(l) PROVE DrainTypeOK'
  <2>1. (IF signal = "Suspend" THEN "again" ELSE "open") \in Stages /\ signal \in Controls
      BY <1>0 DEF Stages, TypeOK
  <2>2. drain' \in [Leases -> Task]
      BY <1>0, <1>13, <2>1, ShiftControl DEF ReadControl
  <2>3. QED
      BY <1>0, <1>13, <2>2 DEF ReadControl, DrainTypeOK, rest
<1>14. ASSUME NEW l \in Leases, Forward(l) PROVE DrainTypeOK'
  <2>0. (drain[l].suspended \/ signal = "Suspend") \in BOOLEAN
      OBVIOUS
  <2>1. drain' = [drain EXCEPT ![l].suspended = drain[l].suspended \/ signal = "Suspend"]
      BY <1>14 DEF Forward
  <2>2. drain' \in [Leases -> Task]
      BY <1>0, <2>0, <2>1, ShiftSuspended
  <2>3. run' \in Running \cup {None}
    <3>1. HeadTurn(l) \in Turns /\ signal \in Controls /\ run' = Signalled(HeadTurn(l), signal)
        BY <1>0, <1>heads, <1>14 DEF Forward, At, Active, TypeOK
    <3>2. QED
        BY <1>0, <3>1, SignalledRun
  <2>4. QED
      BY <1>0, <1>14, <2>2, <2>3 DEF Forward, DrainTypeOK
<1>15. ASSUME NEW l \in Leases, StreamEnds(l) PROVE DrainTypeOK'
  <2>1. (drain[l].suspended \/ fin.suspended) \in BOOLEAN
      OBVIOUS
  <2>2. drain' = [drain EXCEPT ![l].pc = "status",
                              ![l].suspended = drain[l].suspended \/ fin.suspended]
      BY <1>15 DEF StreamEnds
  <2>3. drain' \in [Leases -> Task]
      BY <1>0, <2>1, <2>2, ShiftSuspended
  <2>4. QED
      BY <1>0, <1>15, <2>3 DEF StreamEnds, DrainTypeOK
<1>16. ASSUME NEW l \in Leases, NEW pc \in Stages, Go(l, pc) PROVE drain' \in [Leases -> Task]
    BY <1>0, <1>16, Shift
<1>17. ASSUME NEW l \in Leases, Top(l) \/ ReleaseIdle(l) \/ OpenHead(l) \/ EnterExecution(l)
              \/ PrepareFails(l) \/ OpenFails(l)
       PROVE  DrainTypeOK'
  <2>1. drain' \in [Leases -> Task]
    <3>1. \A pc \in {"drop", "decide", "peek", "again", "status", "closing", "exec", "begin"} :
            pc \in Stages
        BY DEF Stages
    <3>2. AfterOpen(l) \in {"status", "closing", "exec"}
        BY DEF AfterOpen
    <3>3. QED
        BY <1>16, <1>17, <3>1, <3>2 DEF Top, ReleaseIdle, OpenHead, EnterExecution,
           PrepareFails, OpenFails
  <2>2. QED
      BY <1>0, <1>17, <2>1 DEF Top, ReleaseIdle, OpenHead, EnterExecution, PrepareFails,
         OpenFails, DrainTypeOK, rest
<1>18. ASSUME NEW t \in Turns, NEW k \in Kinds, Record(t, k) PROVE journal' \in [Turns -> SUBSET Kinds]
    BY <1>18 DEF Record, DrainTypeOK
<1>19. ASSUME NEW l \in Leases, CloseHead(l) \/ BeginTurn(l) \/ RejectError(l) \/ RejectFinish(l)
              \/ FailBegin(l) \/ FailError(l) \/ FailFinish(l)
       PROVE  DrainTypeOK'
  <2>0. HeadTurn(l) \in Turns
      BY <1>heads, <1>19 DEF CloseHead, BeginTurn, RejectError, RejectFinish, FailBegin,
         FailError, FailFinish, At, Active
  <2>1. drain' \in [Leases -> Task]
    <3>1. \A pc \in {"status", "submit", "rejectFinish", "failError", "failFinish", "ack"} :
            pc \in Stages
        BY DEF Stages
    <3>2. QED
        BY <1>16, <1>19, <3>1 DEF CloseHead, BeginTurn, RejectError, RejectFinish, FailBegin,
           FailError, FailFinish
  <2>2. journal' \in [Turns -> SUBSET Kinds]
    <3>1. UNCHANGED journal \/ \E k \in Kinds : Record(HeadTurn(l), k)
        BY <1>19 DEF CloseHead, BeginTurn, RejectError, RejectFinish, FailBegin, FailError,
           FailFinish, Kinds
    <3>2. QED
        BY <1>18, <2>0, <3>1 DEF DrainTypeOK
  <2>3. again' \subseteq Turns
      BY <1>19, <2>0 DEF CloseHead, BeginTurn, RejectError, RejectFinish, FailBegin,
         FailError, FailFinish, DrainTypeOK
  <2>4. observers' \subseteq Turns \X Callees
      BY <1>19 DEF CloseHead, BeginTurn, RejectError, RejectFinish, FailBegin,
         FailError, FailFinish, DrainTypeOK, Unobserved
  <2>5. QED
      BY <1>0, <1>19, <2>1, <2>2, <2>3, <2>4 DEF CloseHead, BeginTurn, RejectError,
         RejectFinish, FailBegin, FailError, FailFinish, DrainTypeOK, rest
<1>20. ASSUME NEW l \in Leases, Submit(l) PROVE DrainTypeOK'
  <2>1. "rejectError" \in Stages /\ "stream" \in Stages
      BY DEF Stages
  <2>2. drain' \in [Leases -> Task]
      BY <1>16, <1>20, <2>1 DEF Submit
  <2>3. run' \in Running \cup {None}
    <3>1. HeadTurn(l) \in Turns
        BY <1>heads, <1>20 DEF Submit, At, Active
    <3>2. QED
        BY <1>0, <1>20, <3>1 DEF Submit, Running
  <2>4. QED
      BY <1>0, <1>20, <2>2, <2>3 DEF Submit, DrainTypeOK
<1>21. ASSUME NEW l \in Leases, CheckStatus(l) \/ DrainFails(l) PROVE DrainTypeOK'
  <2>1. AfterStatus(l) \in Stages /\ "drop" \in Stages
      BY DEF AfterStatus, Stages
  <2>2. drain' \in [Leases -> Task]
      BY <1>16, <1>21, <2>1 DEF CheckStatus, DrainFails
  <2>3. observers' \subseteq Turns \X Callees
      BY <1>21 DEF CheckStatus, DrainFails, DrainTypeOK, Unobserved
  <2>4. QED
      BY <1>0, <1>21, <2>2, <2>3 DEF CheckStatus, DrainFails, DrainTypeOK, rest
<1>22. CASE RunReturns \/ RunStops
  <2>1. PICK s \in {"mark", "error", "send"}, b \in BOOLEAN : Finalize(s, b) /\ run # None
      BY <1>22 DEF RunReturns, RunStops
  <2>2. fin' \in Finalizer \cup {None}
      BY <1>0, <2>1 DEF Finalize, Running, Finalizer
  <2>3. QED
      BY <1>0, <2>1, <2>2 DEF Finalize, DrainTypeOK, others, notes
<1>23. CASE FinalizerStep \/ FinalizerFails
  <2>1. fin \in Finalizer /\ fin.turn \in Turns
      BY <1>0, <1>23 DEF FinalizerStep, FinalizerFails, Finalizer
  <2>2. fin' \in Finalizer \cup {None}
    <3>1. \E s \in {"error", "finish", "send"} : FinGo(s)
        BY <1>23 DEF FinalizerStep, FinalizerFails
    <3>2. QED
        BY <2>1, <3>1 DEF FinGo, Finalizer
  <2>3. journal' \in [Turns -> SUBSET Kinds]
    <3>1. UNCHANGED journal \/ \E k \in Kinds : Record(fin.turn, k)
        BY <1>23 DEF FinalizerStep, FinalizerFails, Kinds
    <3>2. QED
        BY <1>18, <2>1, <3>1 DEF DrainTypeOK
  <2>4. QED
      BY <1>0, <1>23, <2>2, <2>3 DEF FinalizerStep, FinalizerFails, DrainTypeOK, others, notes
<1>24. CASE BeginShutdown \/ StopHarness
  <2>1. run' \in Running \cup {None}
      BY <1>0, <1>24 DEF BeginShutdown, StopHarness, Running
  <2>2. QED
      BY <1>0, <1>24, <2>1 DEF BeginShutdown, StopHarness, DrainTypeOK, notes
<1>25. CASE Reboot
  <2>1. drain' \in [Leases -> Task]
      BY <1>25 DEF Reboot, NoTask, Task, Stages, Controls
  <2>2. calls' \subseteq Call
      BY <1>25 DEF Reboot, Call, Controls
  <2>3. crashes' \in 0..MaxCrashes
      BY <1>25, ModeAssumption DEF ModeAssumption, Reboot, DrainTypeOK
  <2>4. QED
      BY <1>0, <1>25, <2>1, <2>2, <2>3 DEF Reboot, DrainTypeOK
<1>26. CASE UNCHANGED drainVars
    BY <1>0, <1>26 DEF drainVars, runtime, notes, DrainTypeOK
<1>27. QED
    BY <1>entries, <1>1, <1>2, <1>3, <1>5, <1>7, <1>8, <1>9, <1>10, <1>11, <1>12, <1>13, <1>14,
       <1>15, <1>17, <1>19, <1>20, <1>21, <1>22, <1>23, <1>24, <1>25, <1>26
    DEF DrainNext, Clients, CallStep, DrainStep, Harness, Faults

--------------------------------------------------------------------------------

\* What every step but an acknowledgment does to the queue: entries keep their place
\* and turn, an admission or a cancellation stays, and what comes in is new.
Grows ==
  /\ \A i \in DOMAIN pending :
       /\ i \in DOMAIN pending' /\ pending'[i].turn = pending[i].turn
       /\ pending[i].started => pending'[i].started
       /\ pending[i].control = "Cancel" => pending'[i].control = "Cancel"
  /\ \A i \in DOMAIN pending' \ DOMAIN pending :
       /\ pending'[i].turn \notin AcceptedTurns
       /\ ~pending'[i].started /\ pending'[i].control = "Run"
  /\ AcceptedTurns \subseteq AcceptedTurns'
  /\ Acknowledged' = Acknowledged

\* The queue and the history that are not touched grow by nothing.
LEMMA StillGrows ==
  ASSUME UNCHANGED <<pending, accepted, acks>>
  PROVE  Grows
    BY DEF Grows, AcceptedTurns, Acknowledged

LEMMA EnqueueGrows ==
  ASSUME IInv, NEW t \in Turns, NEW p \in Callers, NEW k \in Keys \cup {None},
         NEW a \in Attentions, Enqueue(t, p, k, a)
  PROVE  /\ Grows
         /\ \A i \in DOMAIN pending :
              /\ pending'[i].started = pending[i].started
              /\ pending'[i].control = IF i = 1 /\ Interrupts(p, a)
                                         THEN "Cancel" ELSE pending[i].control
         /\ AcceptedTurns' = AcceptedTurns \cup {t} /\ t \notin AcceptedTurns
         /\ t \in PendingTurns' /\ PendingTurns \subseteq PendingTurns'
<1>0. /\ TypeOK /\ QueueIsSuffix
      /\ pending \in Seq(QueuedTurn) /\ accepted \in Seq(Acceptance) /\ acks \in Nat
    BY DEF IInv, TypeOK
<1>1. /\ pending' \in Seq(QueuedTurn) /\ Len(pending') = Len(pending) + 1
      /\ \A j \in 1..Len(pending) :
           /\ pending'[j].turn = pending[j].turn
           /\ pending'[j].started = pending[j].started
           /\ pending'[j].control = IF j = 1 /\ Interrupts(p, a)
                                      THEN "Cancel" ELSE pending[j].control
      /\ pending'[Len(pending) + 1] = NewEntry(t, p)
      /\ accepted' \in Seq(Acceptance) /\ Len(accepted') = Len(accepted) + 1
      /\ \A j \in 1..Len(accepted) : accepted'[j] = accepted[j]
      /\ accepted'[Len(accepted) + 1] = [turn |-> t, principal |-> p, key |-> k, at |-> now]
    BY <1>0, EnqueueShape
<1>2. /\ DOMAIN pending = 1..Len(pending) /\ DOMAIN pending' = 1..Len(pending) + 1
      /\ DOMAIN accepted = 1..Len(accepted) /\ DOMAIN accepted' = 1..Len(accepted) + 1
      /\ Len(pending) \in Nat /\ Len(accepted) \in Nat
    BY <1>0, <1>1
<1>3. t \notin AcceptedTurns
    BY AcceptedIsNew DEF IInv
<1>4. AcceptedTurns' = AcceptedTurns \cup {t}
    BY <1>1, <1>2, SMTT(30) DEF AcceptedTurns
<1>5. Acknowledged' = Acknowledged
  <2>1. acks' = acks /\ acks <= Len(accepted)
      BY <1>0, <1>2 DEF Enqueue, QueueIsSuffix
  <2>2. \A i \in 1..acks : accepted'[i] = accepted[i]
      BY <1>0, <1>1, <1>2, <2>1
  <2>3. QED
      BY <2>1, <2>2 DEF Acknowledged
<1>6. \A i \in DOMAIN pending' \ DOMAIN pending : pending'[i] = NewEntry(t, p)
    BY <1>1, <1>2
<1>7. /\ NewEntry(t, p).turn = t /\ NewEntry(t, p).started = FALSE
      /\ NewEntry(t, p).control = "Run"
    BY DEF NewEntry
<1>8. Grows
    BY <1>1, <1>2, <1>3, <1>4, <1>5, <1>6, <1>7 DEF Grows
<1>9. t \in PendingTurns' /\ PendingTurns \subseteq PendingTurns'
    BY <1>1, <1>2, <1>7, SMTT(30) DEF PendingTurns
<1>10. QED
    BY <1>1, <1>2, <1>3, <1>4, <1>8, <1>9

LEMMA ControlGrows ==
  ASSUME IInv, NEW i \in DOMAIN pending, NEW c \in Controls, UpdateControl(i, None, c)
  PROVE  /\ Grows /\ DOMAIN pending' = DOMAIN pending
         /\ \A j \in DOMAIN pending :
              /\ pending'[j].started = pending[j].started
              /\ pending'[j].control = IF j = i THEN c ELSE pending[j].control
         /\ AcceptedTurns' = AcceptedTurns /\ PendingTurns' = PendingTurns
<1>0. TypeOK /\ None \in Callers
    BY DEF IInv, Callers
<1>1. /\ DOMAIN pending' = DOMAIN pending
      /\ \A j \in DOMAIN pending :
           /\ pending'[j].turn = pending[j].turn
           /\ pending'[j].started = pending[j].started
           /\ pending'[j].control = IF j = i THEN c ELSE pending[j].control
    BY <1>0, ControlShape
<1>2. UNCHANGED <<accepted, acks>> /\ (pending[i].control = "Cancel" => c = "Cancel")
    BY DEF UpdateControl, MayControl, history
<1>3. PendingTurns' = PendingTurns
    BY <1>1 DEF PendingTurns
<1>4. QED
    BY <1>1, <1>2, <1>3 DEF Grows, AcceptedTurns, Acknowledged

LEMMA StartGrows ==
  ASSUME IInv, NEW l \in Leases, NEW t \in Turns, Start(l, t)
  PROVE  /\ Grows /\ DOMAIN pending' = DOMAIN pending /\ 1 \in DOMAIN pending
         /\ \A j \in DOMAIN pending :
              /\ pending'[j].control = pending[j].control
              /\ j # 1 => pending'[j].started = pending[j].started
         /\ pending'[1].started = (pending[1].started \/ pending[1].control # "Suspend")
         /\ AcceptedTurns' = AcceptedTurns /\ PendingTurns' = PendingTurns
<1>0. TypeOK
    BY DEF IInv
<1>1. /\ DOMAIN pending' = DOMAIN pending /\ 1 \in DOMAIN pending
      /\ \A j \in DOMAIN pending :
           /\ pending'[j].turn = pending[j].turn
           /\ pending'[j].control = pending[j].control
           /\ j # 1 => pending'[j].started = pending[j].started
    BY <1>0, StartShape
<1>2. UNCHANGED <<accepted, acks>>
    BY DEF Start, history
<1>3. pending'[1].started = (pending[1].started \/ pending[1].control # "Suspend")
  <2>1. pending[1] \in QueuedTurn /\ pending \in Seq(QueuedTurn)
      BY <1>0, <1>1 DEF TypeOK
  <2>2. QED
      BY <1>1, <2>1 DEF Start, Front, QueuedTurn
<1>4. PendingTurns' = PendingTurns
    BY <1>1 DEF PendingTurns
<1>5. QED
    BY <1>1, <1>2, <1>3, <1>4 DEF Grows, AcceptedTurns, Acknowledged

\* What an acknowledgment does: the head leaves the queue and is acknowledged.
LEMMA AckMoves ==
  ASSUME IInv, NEW l \in Leases, NEW t \in Turns, Acknowledge(l, t)
  PROVE  /\ pending # <<>> /\ t = Front.turn
         /\ \A i \in DOMAIN pending' : i + 1 \in DOMAIN pending /\ pending'[i] = pending[i + 1]
         /\ PendingTurns' = PendingTurns \ {t} /\ t \in PendingTurns
         /\ AcceptedTurns' = AcceptedTurns
         /\ Acknowledged' = Acknowledged \cup {t}
<1>0. /\ TypeOK /\ QueueIsSuffix /\ AcceptedOnce
      /\ pending \in Seq(QueuedTurn) /\ accepted \in Seq(Acceptance) /\ acks \in Nat
    BY DEF IInv, TypeOK
<1>1. /\ pending # <<>> /\ t = Front.turn /\ accepted' = accepted /\ acks' = acks + 1
      /\ pending' \in Seq(QueuedTurn)
      /\ Len(pending) = Len(pending') + 1 /\ Len(pending') \in Nat
      /\ \A j \in 1..Len(pending') : pending'[j] = pending[j + 1]
    BY <1>0, AcknowledgeShape DEF Acknowledge
<1>2. DOMAIN pending = 1..Len(pending') + 1 /\ DOMAIN pending' = 1..Len(pending')
    BY <1>0, <1>1
<1>3. \A i \in DOMAIN pending' : i + 1 \in DOMAIN pending /\ pending'[i] = pending[i + 1]
    BY <1>1, <1>2
<1>4. PendingTurns' = PendingTurns \ {t} /\ t \in PendingTurns
  <2>1. \A i \in DOMAIN pending : pending[i].turn = t <=> i = 1
      BY <1>0, <1>1, <1>2, PendingDistinct DEF Front
  <2>2. \A i \in DOMAIN pending \ {1} : i - 1 \in DOMAIN pending' /\ pending'[i - 1] = pending[i]
      BY <1>1, <1>2
  <2>3. PendingTurns' = {pending'[i].turn : i \in DOMAIN pending'}
      BY DEF PendingTurns
  <2>4. \A u : u \in PendingTurns' <=> \E i \in DOMAIN pending \ {1} : u = pending[i].turn
    <3>1. ASSUME NEW i \in DOMAIN pending' PROVE i + 1 \in DOMAIN pending \ {1}
        BY <1>1, <1>2
    <3>2. QED
        BY <1>3, <2>2, <2>3, <3>1
  <2>5. 1 \in DOMAIN pending
      BY <1>1, <1>2
  <2>6. \A u : u \in PendingTurns <=> \E i \in DOMAIN pending : u = pending[i].turn
      BY Zenon DEF PendingTurns
  <2>7. \A u : u \in PendingTurns' <=> u \in PendingTurns /\ u # t
      BY <2>1, <2>4, <2>6
  <2>8. t \in PendingTurns
      BY <2>1, <2>5, <2>6
  <2>9. QED
      BY <2>7, <2>8
<1>5. Acknowledged' = Acknowledged \cup {t}
  <2>1. accepted[acks + 1].turn = t
      BY <1>0, <1>1, <1>2 DEF QueueIsSuffix, Front
  <2>2. \A i : i \in 1..acks' <=> i \in 1..acks \/ i = acks + 1
      BY <1>0, <1>1
  <2>3. QED
      BY <1>1, <2>1, <2>2 DEF Acknowledged
<1>6. QED
    BY <1>1, <1>3, <1>4, <1>5 DEF AcceptedTurns

\* What the queue and the history hold are turns.
LEMMA TurnsTyped ==
  ASSUME IInv
  PROVE  AcceptedTurns \subseteq Turns /\ PendingTurns \subseteq Turns
<1>1. \A i \in DOMAIN accepted : accepted[i] \in Acceptance
    BY DEF IInv, TypeOK
<1>2. \A i \in DOMAIN pending : pending[i] \in QueuedTurn
    BY DEF IInv, TypeOK
<1>3. (\A e \in Acceptance : e.turn \in Turns) /\ \A e \in QueuedTurn : e.turn \in Turns
    BY DEF Acceptance, QueuedTurn
<1>4. QED
    BY <1>1, <1>2, <1>3 DEF AcceptedTurns, PendingTurns

\* Accepted work is queued or acknowledged.
LEMMA QueuedOrAcked ==
  ASSUME IInv
  PROVE  AcceptedTurns = PendingTurns \cup Acknowledged /\ PendingTurns \cap Acknowledged = {}
<1>0. /\ QueueIsSuffix /\ AcceptedOnce
      /\ pending \in Seq(QueuedTurn) /\ accepted \in Seq(Acceptance) /\ acks \in Nat
    BY DEF IInv, TypeOK
<1>1. /\ DOMAIN pending = 1..Len(pending) /\ DOMAIN accepted = 1..acks + Len(pending)
      /\ Len(pending) \in Nat
      /\ \A i \in 1..Len(pending) : pending[i].turn = accepted[acks + i].turn
    BY <1>0 DEF QueueIsSuffix
<1>2. \A i \in DOMAIN accepted :
        i \in 1..acks \/ (i - acks \in 1..Len(pending) /\ accepted[i].turn = pending[i - acks].turn)
  <2> TAKE i \in DOMAIN accepted
  <2>1. i \in 1..acks \/ i - acks \in 1..Len(pending)
      BY <1>0, <1>1
  <2>2. i = acks + (i - acks)
      BY <1>0, <1>1
  <2>3. QED
      BY <1>1, <2>1, <2>2
<1>3. \A i \in 1..acks : i \in DOMAIN accepted
    BY <1>0, <1>1
<1>4. \A i \in DOMAIN pending : acks + i \in DOMAIN accepted \ 1..acks
    BY <1>0, <1>1
<1>5. /\ \A u : u \in PendingTurns <=> \E i \in DOMAIN pending : u = pending[i].turn
      /\ \A u : u \in AcceptedTurns <=> \E i \in DOMAIN accepted : u = accepted[i].turn
      /\ \A u : u \in Acknowledged <=> \E i \in 1..acks : u = accepted[i].turn
    BY Zenon DEF AcceptedTurns, PendingTurns, Acknowledged
<1>6. \A u : u \in AcceptedTurns => u \in PendingTurns \/ u \in Acknowledged
    BY <1>1, <1>2, <1>5
<1>7. \A u : u \in PendingTurns \/ u \in Acknowledged => u \in AcceptedTurns
    BY <1>1, <1>3, <1>4, <1>5
<1>8. ASSUME NEW u \in PendingTurns, u \in Acknowledged PROVE FALSE
  <2>1. PICK i \in DOMAIN pending : u = pending[i].turn
      BY <1>5, <1>8
  <2>2. PICK j \in 1..acks : u = accepted[j].turn
      BY <1>5, <1>8
  <2>3. j \in DOMAIN accepted /\ acks + i \in DOMAIN accepted /\ acks + i # j
      BY <1>3, <1>4
  <2>4. accepted[acks + i].turn = u
      BY <1>1, <2>1
  <2>5. QED
      BY <1>0, <2>2, <2>3, <2>4 DEF AcceptedOnce
<1>9. QED
    BY <1>6, <1>7, <1>8

--------------------------------------------------------------------------------

\* What the steps below keep, besides the types and the coordinator's invariant.
Core == LeaseHeld /\ ExclusiveExecution /\ HeadIsFront /\ JournalBeforeAck /\ AckedEnd

\* ExclusiveExecution, part by part.
Owners == \A l \in Leases : drain[l].pc \notin {"none", "drop"} => owner = l
Runs(e) == e # None => owner # None /\ At(owner, "stream") /\ e.turn = HeadTurn(owner)

LEMMA ExclusiveParts ==
  ASSUME DrainTypeOK, HeadIsFront
  PROVE  ExclusiveExecution <=> Owners /\ Runs(run) /\ Runs(fin) /\ (run # None => fin = None)
<1>1. owner # None => owner \in Leases
    BY DEF DrainTypeOK, TypeOK
<1>2. owner # None /\ At(owner, "stream") => HeadTurn(owner) = Front.turn
    BY <1>1 DEF HeadIsFront, At, Active
<1>3. QED
    BY <1>2 DEF ExclusiveExecution, Owners, Runs

\* A drain at work is the only one.
LEMMA Alone ==
  ASSUME DrainInv, NEW l \in Leases, drain[l].pc \notin {"none", "drop"}
  PROVE  owner = l /\ \A k \in Leases \ {l} : drain[k].pc \in {"none", "drop"}
    BY DEF DrainInv, ExclusiveExecution

\* Steps of the clients and of a shutdown, which move no drain.
LEMMA ClientKeeps ==
  ASSUME DrainInv, DrainTypeOK', Grows,
         UNCHANGED <<journal, drain, fin, owner, leases, watching>>,
         run = None => run' = None, run # None => run'.turn = run.turn
  PROVE  Core'
<1>0. pending # <<>> => 1 \in DOMAIN pending
    BY DEF DrainInv, DrainTypeOK, TypeOK
<1>1. pending # <<>> => pending' # <<>> /\ pending'[1].turn = pending[1].turn
    BY <1>0 DEF Grows
<1>2. HeadIsFront'
    BY <1>1 DEF DrainInv, HeadIsFront, HeadTurn, Front
<1>3. ExclusiveExecution'
  <2>1. Owners /\ Runs(run) /\ Runs(fin) /\ (run # None => fin = None)
      BY ExclusiveParts DEF DrainInv
  <2>2. Owners' /\ Runs(run)' /\ Runs(fin)' /\ (run' # None => fin' = None)
      BY <2>1 DEF Owners, Runs, At, HeadTurn
  <2>3. (ExclusiveExecution <=> Owners /\ Runs(run) /\ Runs(fin) /\ (run # None => fin = None))'
      BY <1>2, ExclusiveParts, PTL
  <2>4. QED
      BY <2>2, <2>3
<1>4. LeaseHeld' /\ JournalBeforeAck' /\ AckedEnd'
    BY DEF DrainInv, LeaseHeld, JournalBeforeAck, AckedEnd, Grows, At, HeadTurn
<1>5. QED
    BY <1>2, <1>3, <1>4 DEF Core

\* Steps of a drain at work that leave the coordinator alone.
LEMMA DrainKeeps ==
  ASSUME DrainInv, DrainTypeOK', NEW l \in Leases, drain[l].pc \notin {"none", "drop"},
         UNCHANGED vars, \A k \in Leases \ {l} : drain'[k] = drain[k],
         drain'[l].pc \in Active =>
           drain[l].pc \in Active /\ drain'[l].head = drain[l].head,
         \A t \in Turns : journal[t] \subseteq journal'[t],
         drain'[l].pc = "ack" => "ended" \in journal'[HeadTurn(l)],
         run' # None => /\ drain'[l].pc = "stream" /\ run'.turn = HeadTurn(l)
                        /\ fin' = None,
         fin' # None => drain'[l].pc = "stream" /\ fin'.turn = HeadTurn(l)
  PROVE  Core'
<1>0. owner = l /\ \A k \in Leases \ {l} : drain[k].pc \in {"none", "drop"}
    BY Alone
<1>1. HeadIsFront'
  <2>1. ASSUME NEW k \in Leases, drain'[k].pc \in Active PROVE k = l
      BY <1>0, <2>1 DEF Active
  <2>2. QED
      BY <2>1 DEF DrainInv, HeadIsFront, HeadTurn, Front, vars
<1>2. Owners'
    BY <1>0 DEF Owners, vars
<1>3. Runs(run)' /\ Runs(fin)' /\ (run' # None => fin' = None)
  <2>1. owner' = l /\ l # None
      BY <1>0, NoneAssumption DEF vars
  <2>2. drain'[l].pc = "stream" => drain'[l].head = drain[l].head
      BY DEF Active
  <2>3. QED
      BY <2>1, <2>2 DEF Runs, At, HeadTurn
<1>4. ExclusiveExecution'
  <2>1. (ExclusiveExecution <=> Owners /\ Runs(run) /\ Runs(fin) /\ (run # None => fin = None))'
      BY <1>1, ExclusiveParts, PTL
  <2>2. QED
      BY <1>2, <1>3, <2>1
<1>5. LeaseHeld'
    BY DEF DrainInv, LeaseHeld, vars
<1>6. JournalBeforeAck'
  <2>1. Acknowledged' = Acknowledged
      BY DEF Acknowledged, vars
  <2>2. Acknowledged \subseteq Turns
      BY QueuedOrAcked, TurnsTyped DEF DrainInv
  <2>3. QED
      BY <2>1, <2>2 DEF DrainInv, JournalBeforeAck
<1>7. AckedEnd'
  <2>1. ASSUME NEW k \in Leases, drain'[k].pc = "ack"
        PROVE  k = l /\ drain'[l].head = drain[l].head
      BY <1>0, <2>1 DEF Active
  <2>2. QED
      BY <2>1 DEF AckedEnd, At, HeadTurn
<1>8. QED
    BY <1>1, <1>4, <1>5, <1>6, <1>7 DEF Core

\* What a drain at work can do to the execution before and after its stream.
LEMMA NothingRuns ==
  ASSUME DrainInv, NEW l \in Leases, drain[l].pc \notin {"none", "drop", "stream"}
  PROVE  run = None /\ fin = None
<1>1. owner = l /\ Runs(run) /\ Runs(fin)
    BY Alone, ExclusiveParts DEF DrainInv
<1>2. QED
    BY <1>1 DEF Runs, At

\* A recorded event is added to one journal.
LEMMA Recorded ==
  ASSUME DrainTypeOK, NEW t \in Turns, NEW k, Record(t, k)
  PROVE  /\ \A u \in Turns : journal[u] \subseteq journal'[u] /\ (u # t => journal'[u] = journal[u])
         /\ journal'[t] = journal[t] \cup {k}
    BY DEF Record, DrainTypeOK

\* The head of an active drain is a turn.
LEMMA HeadTyped ==
  ASSUME DrainTypeOK, HeadIsFront, NEW l \in Leases, drain[l].pc \in Active
  PROVE  HeadTurn(l) \in Turns /\ drain[l].head \in QueuedTurn
    BY DEF DrainTypeOK, HeadIsFront, HeadTurn, Task, QueuedTurn

\* The drain steps that leave the coordinator and the execution alone.
Idles(l) ==
  \/ Spawn(l) \/ Top(l) \/ Peek(l) \/ (ReleaseIdle(l) /\ UNCHANGED vars) \/ ReadControl(l)
  \/ OpenHead(l) \/ CloseHead(l) \/ EnterExecution(l) \/ PrepareFails(l) \/ BeginTurn(l)
  \/ (Submit(l) /\ stopping) \/ RejectError(l) \/ RejectFinish(l)
  \/ CheckStatus(l) \/ FailBegin(l) \/ FailError(l) \/ FailFinish(l)
  \/ DrainFails(l) \/ OpenFails(l)

LEMMA IdlesUnchanged ==
  ASSUME NEW l \in Leases, Idles(l)
  PROVE  /\ UNCHANGED <<vars, run, fin, calls, draining, stopping, withdrawn>>
         /\ drain[l].pc \notin {"none", "drop", "stream"}
<1>1. CASE Spawn(l) \/ Top(l) \/ Peek(l) \/ (ReleaseIdle(l) /\ UNCHANGED vars)
           \/ ReadControl(l) \/ OpenHead(l) \/ CloseHead(l) \/ EnterExecution(l) \/ PrepareFails(l) \/ BeginTurn(l)
    BY <1>1 DEF Spawn, Top, Peek, ReleaseIdle, ReadControl, OpenHead, CloseHead,
       EnterExecution, PrepareFails, BeginTurn, rest, At
<1>2. CASE (Submit(l) /\ stopping) \/ RejectError(l) \/ RejectFinish(l)
           \/ CheckStatus(l) \/ FailBegin(l) \/ FailError(l) \/ FailFinish(l)
           \/ DrainFails(l) \/ OpenFails(l)
    BY <1>2 DEF Submit, RejectError, RejectFinish, CheckStatus, FailBegin, FailError,
       FailFinish, DrainFails, OpenFails, rest, At
<1>3. QED
    BY <1>1, <1>2 DEF Idles

\* Which stages those steps join: only start makes a head active.
LEMMA IdlesShift ==
  ASSUME DrainTypeOK, HeadIsFront, NEW l \in Leases, Idles(l)
  PROVE  /\ \A k \in Leases \ {l} : drain'[k] = drain[k]
         /\ drain'[l].pc \in Active \cup {"top", "again", "peek", "decide", "drop"}
         /\ drain'[l].pc \in Active =>
              /\ drain[l].pc \in Active /\ Shifts(l, drain'[l].pc)
              /\ drain'[l].pc # "open" => drain'[l].control = drain[l].control
         /\ drain'[l].pc = "open" => drain[l].pc = "control" /\ drain'[l].control = signal
<1>0. drain \in [Leases -> Task] /\ pending \in Seq(QueuedTurn) /\ signal \in Controls
    BY DEF DrainTypeOK, TypeOK
<1>1. CASE Spawn(l) \/ Peek(l)
  <2>1. "top" \in Stages /\ "decide" \in Stages
      BY DEF Stages
  <2>2. \E pc \in {"top", "decide"} : Reads(l, pc, Snapshot(pending))
      BY <1>0, <1>1, <2>1, SnapshotTyped, ShiftHead DEF Spawn, Peek
  <2>3. QED
      BY <2>2 DEF Reads, Active
<1>2. CASE ReadControl(l)
  <2>1. (IF signal = "Suspend" THEN "again" ELSE "open") \in Stages
      BY DEF Stages
  <2>2. /\ Shifts(l, IF signal = "Suspend" THEN "again" ELSE "open")
        /\ drain'[l].control = signal /\ drain[l].pc = "control"
      BY <1>0, <1>2, <2>1, ShiftControl DEF ReadControl, At
  <2>3. QED
      BY <2>2 DEF Shifts, Active
<1>3. ASSUME NEW pc \in Active \ {"open"}, Go(l, pc), drain[l].pc \in Active PROVE
         /\ \A k \in Leases \ {l} : drain'[k] = drain[k]
         /\ drain'[l].pc = pc /\ Shifts(l, pc) /\ drain'[l].control = drain[l].control
  <2>1. pc \in Stages
      BY DEF Active, Stages
  <2>2. QED
      BY <1>0, <1>3, <2>1, Shift DEF Shifts
<1>4. ASSUME NEW pc \in {"again", "peek", "decide", "drop"}, Go(l, pc) PROVE
         drain'[l].pc = pc /\ \A k \in Leases \ {l} : drain'[k] = drain[k]
  <2>1. pc \in Stages
      BY DEF Stages
  <2>2. QED
      BY <1>0, <1>4, <2>1, Shift DEF Shifts
<1>5. CASE Top(l) \/ (ReleaseIdle(l) /\ UNCHANGED vars) \/ DrainFails(l)
  <2>1. \E pc \in {"again", "peek", "decide", "drop"} : Go(l, pc)
      BY <1>5 DEF Top, ReleaseIdle, DrainFails
  <2>2. QED
      BY <1>4, <2>1 DEF Active
<1>6. CASE OpenHead(l) \/ CloseHead(l) \/ EnterExecution(l) \/ PrepareFails(l) \/ BeginTurn(l)
           \/ OpenFails(l)
  <2>1. \E pc \in {"status", "closing", "exec", "begin", "submit"} : Go(l, pc)
    <3>1. AfterOpen(l) \in {"status", "closing", "exec"}
        BY DEF AfterOpen
    <3>2. QED
        BY <1>6, <3>1 DEF OpenHead, CloseHead, EnterExecution, PrepareFails, BeginTurn, OpenFails
  <2>2. drain[l].pc \in Active
      BY <1>6 DEF OpenHead, CloseHead, EnterExecution, PrepareFails, BeginTurn, OpenFails,
         At, Active
  <2>3. QED
      BY <1>3, <2>1, <2>2 DEF Active
<1>7. CASE (Submit(l) /\ stopping) \/ RejectError(l) \/ RejectFinish(l) \/ FailBegin(l)
           \/ FailError(l) \/ FailFinish(l)
  <2>1. \E pc \in {"rejectError", "rejectFinish", "status", "failError", "failFinish", "ack"} :
          Go(l, pc)
      BY <1>7 DEF Submit, RejectError, RejectFinish, FailBegin, FailError, FailFinish
  <2>2. drain[l].pc \in Active
      BY <1>7 DEF Submit, RejectError, RejectFinish, FailBegin, FailError, FailFinish,
         At, Active
  <2>3. QED
      BY <1>3, <2>1, <2>2 DEF Active
<1>8. CASE CheckStatus(l)
  <2>1. \E pc \in {"ack", "failBegin", "failError", "drop", "again"} : Go(l, pc)
      BY <1>8 DEF CheckStatus, AfterStatus
  <2>2. drain[l].pc \in Active
      BY <1>8 DEF CheckStatus, At, Active
  <2>3. QED
      BY <1>3, <1>4, <2>1, <2>2 DEF Active
<1>9. QED
    BY <1>1, <1>2, <1>5, <1>6, <1>7, <1>8 DEF Idles

\* What they write to the journal is about the head.
LEMMA IdlesRecord ==
  ASSUME DrainTypeOK, HeadIsFront, NEW l \in Leases, Idles(l)
  PROVE  /\ \A t \in Turns : journal[t] \subseteq journal'[t]
         /\ drain[l].pc \notin Active => journal' = journal
         /\ \A t \in Turns : t # HeadTurn(l) => journal'[t] = journal[t]
         /\ drain'[l].pc = "ack" => "ended" \in journal'[HeadTurn(l)]
<1>1. CASE Spawn(l) \/ Top(l) \/ Peek(l) \/ (ReleaseIdle(l) /\ UNCHANGED vars)
           \/ ReadControl(l) \/ OpenHead(l) \/ EnterExecution(l) \/ PrepareFails(l)
           \/ (Submit(l) /\ stopping) \/ DrainFails(l) \/ OpenFails(l)
  <2>1. journal' = journal
      BY <1>1 DEF Spawn, Top, Peek, ReleaseIdle, ReadControl, OpenHead, EnterExecution,
         PrepareFails, Submit, DrainFails, OpenFails
  <2>2. drain'[l].pc # "ack"
    <3>0. drain \in [Leases -> Task] /\ drain[l] \in Task
        BY DEF DrainTypeOK
    <3>1. AfterOpen(l) \in {"status", "closing", "exec"}
        BY DEF AfterOpen
    <3>2. QED
        BY <1>1, <3>0, <3>1 DEF Spawn, Top, Peek, ReleaseIdle, ReadControl, OpenHead,
           EnterExecution, PrepareFails, Submit, DrainFails, OpenFails, Go, Task
  <2>3. QED
      BY <2>1, <2>2
<1>2. CASE CloseHead(l) \/ BeginTurn(l) \/ RejectError(l) \/ RejectFinish(l) \/ FailBegin(l)
           \/ FailError(l) \/ FailFinish(l)
  <2>1. drain[l].pc \in Active
      BY <1>2 DEF CloseHead, BeginTurn, RejectError, RejectFinish, FailBegin, FailError,
         FailFinish, At, Active
  <2>2. HeadTurn(l) \in Turns
      BY <2>1, HeadTyped
  <2>3. UNCHANGED journal \/ \E k : Record(HeadTurn(l), k)
      BY <1>2 DEF CloseHead, BeginTurn, RejectError, RejectFinish, FailBegin, FailError,
         FailFinish
  <2>4. FailFinish(l) => "ended" \in journal'[HeadTurn(l)]
      BY <2>2, Recorded DEF FailFinish
  <2>5. ~FailFinish(l) => drain'[l].pc # "ack"
    <3>0. drain \in [Leases -> Task] /\ drain[l] \in Task
        BY DEF DrainTypeOK
    <3>1. QED
        BY <1>2, <3>0 DEF CloseHead, BeginTurn, RejectError, RejectFinish, FailBegin,
           FailError, Go, Task
  <2>6. QED
      BY <2>1, <2>2, <2>3, <2>4, <2>5, Recorded
<1>3. CASE CheckStatus(l)
  <2>1. journal' = journal
      BY <1>3 DEF CheckStatus
  <2>2. drain'[l].pc = AfterStatus(l)
      BY <1>3 DEF CheckStatus, Go, DrainTypeOK, Task
  <2>3. AfterStatus(l) = "ack" => "ended" \in journal[HeadTurn(l)]
      BY DEF AfterStatus, JournalStatus
  <2>4. QED
      BY <2>1, <2>2, <2>3
<1>4. QED
    BY <1>1, <1>2, <1>3 DEF Idles

\* Ownership, the head at work and its execution go through every drain step.
LEMMA CoreDrainStep ==
  ASSUME DrainInv, DrainTypeOK', NEW l \in Leases,
         DrainStep(l) \/ DrainFails(l) \/ OpenFails(l) \/ PrepareFails(l)
  PROVE  Core'
<1>0. /\ DrainTypeOK /\ HeadIsFront /\ drain \in [Leases -> Task] /\ drain[l] \in Task
      /\ run \in Running \cup {None} /\ signal \in Controls /\ l # None
      /\ Owners /\ Runs(run) /\ Runs(fin) /\ (run # None => fin = None)
    BY ExclusiveParts, NoneAssumption DEF DrainInv, DrainTypeOK, TypeOK
<1>1. CASE Idles(l)
    BY <1>0, <1>1, IdlesUnchanged, NothingRuns, IdlesShift, IdlesRecord, DrainKeeps DEF Shifts
<1>2. CASE Submit(l) /\ ~stopping
  <2>1. Shifts(l, "stream")
    <3>1. "stream" \in Stages
        BY DEF Stages
    <3>2. QED
        BY <1>0, <1>2, <3>1, Shift DEF Submit
  <2>2. drain[l].pc = "submit" /\ run' = [turn |-> HeadTurn(l), stop |-> "None"]
        /\ fin' = fin /\ UNCHANGED vars /\ journal' = journal
      BY <1>2 DEF Submit, At
  <2>3. fin' = None
      BY <2>2, NothingRuns
  <2>4. QED
      BY <2>1, <2>2, <2>3, DrainKeeps DEF Shifts, Active
<1>3. CASE Forward(l)
  <2>1. Shifts(l, "stream") /\ drain[l].pc = "stream"
    <3>1. (drain[l].suspended \/ signal = "Suspend") \in BOOLEAN
        OBVIOUS
    <3>2. drain' = [drain EXCEPT ![l].suspended = drain[l].suspended \/ signal = "Suspend"]
          /\ drain[l].pc = "stream"
        BY <1>3 DEF Forward, At
    <3>3. QED
        BY <1>0, <3>1, <3>2, ShiftSuspended
  <2>2. /\ owner = l /\ HeadTurn(l) \in Turns /\ fin' = fin /\ UNCHANGED vars
        /\ journal' = journal /\ run' = Signalled(HeadTurn(l), signal)
      BY <1>0, <1>3, <2>1, HeadTyped, Alone DEF Forward, Active
  <2>3. (run = None => run' = None) /\ (run # None => run'.turn = run.turn)
      BY <1>0, <2>2, SignalledRun
  <2>4. run' # None => run'.turn = HeadTurn(l) /\ fin' = None
      BY <1>0, <2>2, <2>3 DEF Runs
  <2>5. fin' # None => fin'.turn = HeadTurn(l)
      BY <1>0, <2>2 DEF Runs
  <2>6. QED
      BY <2>1, <2>2, <2>4, <2>5, DrainKeeps DEF Shifts, Active
<1>4. CASE StreamEnds(l)
  <2>1. Shifts(l, "status") /\ drain[l].pc = "stream"
    <3>1. (drain[l].suspended \/ fin.suspended) \in BOOLEAN
        OBVIOUS
    <3>2. drain' = [drain EXCEPT ![l].pc = "status",
                                ![l].suspended = drain[l].suspended \/ fin.suspended]
          /\ drain[l].pc = "stream"
        BY <1>4 DEF StreamEnds, At
    <3>3. QED
        BY <1>0, <3>1, <3>2, ShiftSuspended
  <2>2. run' = None /\ fin' = None /\ UNCHANGED vars /\ journal' = journal
      BY <1>0, <1>4 DEF StreamEnds
  <2>3. QED
      BY <2>1, <2>2, DrainKeeps DEF Shifts, Active
<1>5. CASE ReleaseIdle(l) /\ ~UNCHANGED vars
  <2>1. /\ owner = l /\ owner' = None /\ UNCHANGED <<pending, accepted, acks, leases>>
        /\ Go(l, "drop") /\ UNCHANGED <<journal, run, fin>> /\ drain[l].pc = "decide"
      BY <1>5 DEF ReleaseIdle, Release, durable, history, rest, At
  <2>2. Shifts(l, "drop")
    <3>1. "drop" \in Stages
        BY DEF Stages
    <3>2. QED
        BY <1>0, <2>1, <3>1, Shift
  <2>3. \A k \in Leases : drain'[k].pc \in {"none", "drop"}
      BY <2>1, <2>2, Alone DEF Shifts
  <2>4. run' = None /\ fin' = None
      BY <2>1, NothingRuns
  <2>5. QED
      BY <2>1, <2>3, <2>4 DEF Core, LeaseHeld, ExclusiveExecution, HeadIsFront, Active,
         JournalBeforeAck, Acknowledged, AckedEnd, At, DrainInv
<1>6. CASE StartHead(l)
  <2>1. /\ drain[l].head \in QueuedTurn /\ drain[l].head # None /\ drain[l].pc = "decide"
        /\ Start(l, HeadTurn(l)) /\ UNCHANGED <<journal, run, fin>>
      BY <1>0, <1>6 DEF StartHead, HeadIdle, Task, rest, At
  <2>2. HeadTurn(l) \in Turns /\ drain[l].head.started \in BOOLEAN
      BY <2>1 DEF HeadTurn, QueuedTurn
  <2>3. Reads(l, "control", drain[l].head)
      BY <1>0, <1>6, <2>2, ShiftStart DEF StartHead
  <2>4. Grows /\ 1 \in DOMAIN pending'
      BY <2>1, <2>2, StartGrows DEF DrainInv
  <2>5. owner = l /\ \A k \in Leases \ {l} : drain'[k].pc \in {"none", "drop"}
      BY <2>1, <2>3, Alone DEF Reads
  <2>6. UNCHANGED <<owner, leases>> /\ watching' = HeadTurn(l) /\ HeadTurn(l) = Front.turn
        /\ pending # <<>>
      BY <2>1 DEF Start
  <2>7. HeadIsFront'
    <3>1. pending' # <<>> /\ pending'[1].turn = HeadTurn(l)
      <4>1. 1 \in DOMAIN pending
          BY <2>6 DEF DrainInv, DrainTypeOK, TypeOK
      <4>2. QED
          BY <2>4, <2>6, <4>1 DEF Grows, Front
    <3>2. ASSUME NEW k \in Leases, drain'[k].pc \in Active PROVE k = l
        BY <2>5, <3>2 DEF Active
    <3>3. drain'[l].head = drain[l].head
        BY <2>3 DEF Reads
    <3>4. QED
        BY <2>1, <2>6, <3>1, <3>2, <3>3 DEF HeadIsFront, HeadTurn, Front
  <2>8. run' = None /\ fin' = None
      BY <2>1, NothingRuns
  <2>9. LeaseHeld' /\ ExclusiveExecution'
      BY <2>5, <2>6, <2>8 DEF DrainInv, LeaseHeld, ExclusiveExecution
  <2>10. JournalBeforeAck' /\ AckedEnd'
      BY <2>1, <2>3, <2>4, <2>5 DEF DrainInv, JournalBeforeAck, AckedEnd, Grows, At, Reads
  <2>11. QED
      BY <2>7, <2>9, <2>10 DEF Core
<1>7. CASE AckHead(l)
  <2>1. /\ drain[l].pc = "ack" /\ Acknowledge(l, HeadTurn(l))
        /\ UNCHANGED <<journal, run, fin, owner, leases>>
      BY <1>7 DEF AckHead, Acknowledge, rest, At
  <2>2. HeadTurn(l) \in Turns
      BY <1>0, <2>1, HeadTyped DEF Active
  <2>3. Reads(l, "top", Snapshot(pending'))
    <3>1. "top" \in Stages /\ Snapshot(pending') \in QueuedTurn \cup {None}
        BY SnapshotTyped DEF Stages, DrainTypeOK, TypeOK
    <3>2. QED
        BY <1>0, <1>7, <3>1, ShiftHead DEF AckHead
  <2>4. owner = l /\ \A k \in Leases \ {l} : drain'[k].pc \in {"none", "drop"}
      BY <2>1, <2>3, Alone DEF Reads
  <2>5. Acknowledged' = Acknowledged \cup {HeadTurn(l)}
      BY <2>1, <2>2, AckMoves DEF DrainInv
  <2>6. run' = None /\ fin' = None
      BY <2>1, NothingRuns
  <2>7. JournalBeforeAck'
      BY <2>1, <2>5 DEF DrainInv, JournalBeforeAck, AckedEnd, At
  <2>8. HeadIsFront' /\ AckedEnd'
      BY <2>3, <2>4 DEF HeadIsFront, AckedEnd, Active, At, Reads
  <2>9. LeaseHeld' /\ ExclusiveExecution'
      BY <2>1, <2>4, <2>6 DEF DrainInv, LeaseHeld, ExclusiveExecution
  <2>10. QED
      BY <2>7, <2>8, <2>9 DEF Core
<1>8. CASE Exit(l)
  <2>1. /\ drain[l].pc = "drop" /\ UNCHANGED <<pending, accepted, acks, journal, run, fin>>
        /\ drain'[l].pc = "none" /\ \A k \in Leases \ {l} : drain'[k] = drain[k]
        /\ leases' = leases \ {l} /\ owner' = IF owner = l THEN None ELSE owner
      BY <1>0, <1>8 DEF Exit, DropLease, durable, history, rest, At, NoTask
  <2>2. Owners' /\ Runs(run)' /\ Runs(fin)' /\ (run' # None => fin' = None)
    <3>1. Owners'
      <4> SUFFICES ASSUME NEW k \in Leases, drain'[k].pc \notin {"none", "drop"}
                   PROVE  owner' = k
          BY DEF Owners
      <4>1. k # l
          BY <2>1
      <4>2. owner = k
          BY <1>0, <2>1, <4>1 DEF Owners
      <4>3. QED
          BY <2>1, <4>1, <4>2
    <3>2. owner # None /\ At(owner, "stream") =>
            owner' = owner /\ At(owner, "stream")' /\ HeadTurn(owner)' = HeadTurn(owner)
      <4>1. owner # None => owner \in Leases
          BY DEF DrainInv, DrainTypeOK, TypeOK
      <4>2. owner # None /\ At(owner, "stream") => owner # l
          BY <2>1 DEF At
      <4>3. QED
          BY <2>1, <4>1, <4>2 DEF At, HeadTurn
    <3>3. Runs(run)' /\ Runs(fin)'
        BY <1>0, <2>1, <3>2 DEF Runs
    <3>4. QED
        BY <1>0, <2>1, <3>1, <3>3
  <2>3. LeaseHeld'
      BY <2>1 DEF DrainInv, LeaseHeld
  <2>4. HeadIsFront'
    <3>1. ASSUME NEW k \in Leases, drain'[k].pc \in Active PROVE watching' = watching
      <4>1. k # l /\ owner = k
          BY <1>0, <2>1, <3>1 DEF Active, Owners
      <4>2. k \in leases'
          BY <2>1, <4>1, NoneAssumption DEF DrainInv, LeaseHeld
      <4>3. QED
          BY <1>8, <4>2 DEF Exit, DropLease
    <3>2. QED
        BY <2>1, <3>1 DEF DrainInv, HeadIsFront, Active, HeadTurn, Front
  <2>5. ExclusiveExecution'
    <3>1. (ExclusiveExecution <=> Owners /\ Runs(run) /\ Runs(fin) /\ (run # None => fin = None))'
        BY <2>4, ExclusiveParts, PTL
    <3>2. QED
        BY <2>2, <3>1
  <2>6. JournalBeforeAck' /\ AckedEnd'
      BY <2>1 DEF DrainInv, JournalBeforeAck, Acknowledged, AckedEnd, At, HeadTurn
  <2>7. QED
      BY <2>3, <2>4, <2>5, <2>6 DEF Core
<1>9. QED
    BY <1>1, <1>2, <1>3, <1>4, <1>5, <1>6, <1>7, <1>8 DEF DrainStep, Idles

\* A drain is claimed when none is at work.
LEMMA CoreWake ==
  ASSUME DrainInv, DrainTypeOK', NEW c \in calls, Wake(c)
  PROVE  Core'
<1>0. /\ drain \in [Leases -> Task] /\ UNCHANGED <<journal, run, fin>>
    BY DEF DrainInv, DrainTypeOK, Wake
<1>1. CASE UNCHANGED <<vars, drain>>
  <2>1. Grows
      BY <1>1, StillGrows DEF vars
  <2>2. QED
      BY <1>0, <1>1, <2>1, ClientKeeps DEF vars
<1>2. ASSUME NEW l \in Leases, Claim(l),
             drain' = [drain EXCEPT ![l] = [NoTask EXCEPT !.pc = "spawn"]]
      PROVE  Core'
  <2>1. Reads(l, "spawn", None)
      BY <1>0, <1>2, ShiftTask
  <2>2. /\ owner = None /\ owner' = l /\ leases' = leases \cup {l}
        /\ UNCHANGED <<pending, accepted, acks>>
      BY <1>2 DEF Claim, durable, history
  <2>3. \A k \in Leases : drain[k].pc \in {"none", "drop"}
      BY <2>2, NoneAssumption DEF DrainInv, ExclusiveExecution
  <2>4. run = None /\ fin = None
      BY <2>2 DEF DrainInv, ExclusiveExecution
  <2>5. \A k \in Leases : drain'[k].pc \in {"none", "drop"} \/ k = l
      BY <2>1, <2>3 DEF Reads
  <2>6. \A k \in Leases : drain'[k].pc \in {"none", "drop", "spawn"}
      BY <2>1, <2>3 DEF Reads
  <2>7. LeaseHeld' /\ ExclusiveExecution'
      BY <1>0, <2>2, <2>4, <2>5 DEF LeaseHeld, ExclusiveExecution
  <2>8. HeadIsFront' /\ AckedEnd'
      BY <2>6 DEF HeadIsFront, AckedEnd, Active, At
  <2>9. JournalBeforeAck'
      BY <1>0, <2>2 DEF DrainInv, JournalBeforeAck, Acknowledged
  <2>10. QED
      BY <2>7, <2>8, <2>9 DEF Core
<1>3. QED
    BY <1>1, <1>2 DEF Wake

\* The harness and the finalizer pass the execution on and write its journal.
LEMMA CoreHarness ==
  ASSUME DrainInv, DrainTypeOK', Harness \/ FinalizerFails
  PROVE  Core'
<1>0. /\ UNCHANGED <<vars, drain>> /\ DrainTypeOK /\ HeadIsFront
      /\ Owners /\ Runs(run) /\ Runs(fin) /\ (run # None => fin = None)
      /\ run \in Running \cup {None} /\ fin \in Finalizer \cup {None}
  <2>1. UNCHANGED <<vars, drain>>
      BY DEF Harness, RunReturns, RunStops, Finalize, FinalizerStep, FinalizerFails, others
  <2>2. QED
      BY <2>1, ExclusiveParts DEF DrainInv, DrainTypeOK
<1>1. /\ \A t \in Turns : journal[t] \subseteq journal'[t]
      /\ run' # None => run' = run
      /\ fin' # None => \E e \in {run, fin} \ {None} : fin'.turn = e.turn
      /\ run' # None => fin' = None
  <2>1. CASE RunReturns \/ RunStops
    <3>1. PICK s \in {"mark", "error", "send"}, b \in BOOLEAN : Finalize(s, b) /\ run # None
        BY <2>1 DEF RunReturns, RunStops
    <3>2. QED
        BY <3>1 DEF Finalize
  <2>2. CASE FinalizerStep \/ FinalizerFails
    <3>1. fin # None /\ run' = run /\ run' = None
        BY <1>0, <2>2 DEF FinalizerStep, FinalizerFails
    <3>2. fin \in Finalizer
        BY <1>0, <3>1
    <3>3. fin.turn \in Turns
        BY <3>2 DEF Finalizer
    <3>4. fin'.turn = fin.turn
      <4>1. \E s : FinGo(s)
          BY <2>2 DEF FinalizerStep, FinalizerFails
      <4>2. QED
          BY <3>2, <4>1 DEF FinGo, Finalizer
    <3>5. UNCHANGED journal \/ \E k : Record(fin.turn, k)
        BY <2>2 DEF FinalizerStep, FinalizerFails
    <3>6. \A t \in Turns : journal[t] \subseteq journal'[t]
        BY <1>0, <3>3, <3>5, Recorded
    <3>7. QED
        BY <3>1, <3>4, <3>6
  <2>3. QED
      BY <2>1, <2>2 DEF Harness
<1>2. HeadIsFront'
    BY <1>0 DEF HeadIsFront, HeadTurn, Front, vars
<1>3. Owners' /\ Runs(run)' /\ Runs(fin)'
    BY <1>0, <1>1 DEF Owners, Runs, At, HeadTurn, vars
<1>4. ExclusiveExecution'
  <2>1. (ExclusiveExecution <=> Owners /\ Runs(run) /\ Runs(fin) /\ (run # None => fin = None))'
      BY <1>2, ExclusiveParts, PTL
  <2>2. QED
      BY <1>1, <1>3, <2>1
<1>5. JournalBeforeAck'
  <2>1. Acknowledged' = Acknowledged /\ Acknowledged \subseteq Turns
      BY <1>0, QueuedOrAcked, TurnsTyped DEF Acknowledged, vars, DrainInv
  <2>2. QED
      BY <1>1, <2>1 DEF DrainInv, JournalBeforeAck
<1>6. AckedEnd'
  <2> SUFFICES ASSUME NEW l \in Leases, At(l, "ack")' PROVE "ended" \in journal'[HeadTurn(l)']
      BY DEF AckedEnd
  <2>1. At(l, "ack") /\ HeadTurn(l)' = HeadTurn(l)
      BY <1>0 DEF At, HeadTurn
  <2>2. HeadTurn(l) \in Turns
      BY <1>0, <2>1, HeadTyped DEF At, Active
  <2>3. QED
      BY <1>1, <2>1, <2>2 DEF DrainInv, AckedEnd
<1>7. LeaseHeld'
    BY <1>0 DEF DrainInv, LeaseHeld, vars
<1>8. QED
    BY <1>2, <1>4, <1>5, <1>6, <1>7 DEF Core

\* A new process starts with nothing at work.
LEMMA CoreReboot ==
  ASSUME DrainInv, Reboot
  PROVE  Core'
<1>1. /\ owner' = None /\ run' = None /\ fin' = None
      /\ UNCHANGED <<journal, accepted, acks>>
      /\ \A l \in Leases : drain'[l].pc = "none"
    BY DEF Reboot, Crash, history, NoTask
<1>2. QED
    BY <1>1 DEF DrainInv, Core, LeaseHeld, ExclusiveExecution, HeadIsFront, AckedEnd, At,
       JournalBeforeAck, Acknowledged, Active

\* Client calls and a shutdown, and what they do to the queue.
LEMMA CoreClients ==
  ASSUME DrainInv, DrainTypeOK',
         \/ Clients \/ BeginShutdown \/ StopHarness \/ UNCHANGED drainVars
         \/ \E c \in calls : \/ Replay(c) \/ ResumeControl(c) \/ Signal(c)
                           \/ WakeFails(c) \/ ReplayFails(c)
  PROVE  Core'
<1>0. /\ IInv /\ DrainTypeOK /\ None \in Callers /\ "Run" \in Controls
      /\ run \in Running \cup {None} /\ calls \subseteq Call
    BY DEF DrainInv, DrainTypeOK, Callers, Controls
<1>1. ASSUME UNCHANGED <<vars, journal, drain, fin>>, run = None => run' = None,
             run # None => run'.turn = run.turn
      PROVE  Core'
    BY <1>1, StillGrows, ClientKeeps DEF vars
<1>2. CASE BeginShutdown \/ UNCHANGED drainVars \/ (\E t \in Turns : Retry(t))
           \/ (\E t \in PendingTurns : Resume(t)) 
           \/ \E c \in calls : Replay(c) \/ WakeFails(c) \/ ReplayFails(c)
    BY <1>1, <1>2 DEF BeginShutdown, drainVars, runtime, Retry, Resume, Replay, WakeFails,
       ReplayFails
<1>3. CASE StopHarness
    BY <1>0, <1>1, <1>3 DEF StopHarness, Running
<1>4. ASSUME NEW c \in calls, Signal(c) PROVE Core'
  <2>1. c.turn \in Turns \cup {None} /\ c.control \in Controls
      BY <1>0 DEF Call
  <2>2. (run = None => run' = None) /\ (run # None => run'.turn = run.turn)
      BY <1>0, <1>4, <2>1, SignalledRun DEF Signal
  <2>3. QED
      BY <1>1, <1>4, <2>2 DEF Signal
<1>5. ASSUME NEW t \in Turns, NEW k \in Keys \cup {None}, NEW a \in Attentions, Accept(t, k, a)
      PROVE  Core'
  <2>1. Grows
      BY <1>0, <1>5, EnqueueGrows DEF Accept
  <2>2. UNCHANGED <<journal, drain, run, fin, owner, leases, watching>>
      BY <1>5 DEF Accept, Enqueue, Notify
  <2>3. QED
      BY <2>1, <2>2, ClientKeeps
<1>6. ASSUME NEW i \in DOMAIN pending, NEW c \in Controls, Control(i, c),
             UNCHANGED <<journal, drain, run, fin>>
      PROVE  Core'
  <2>1. Grows
      BY <1>0, <1>6, ControlGrows DEF Control
  <2>2. UNCHANGED <<owner, leases, watching>>
      BY <1>6 DEF Control, UpdateControl, Notify
  <2>3. QED
      BY <1>6, <2>1, <2>2, ClientKeeps
<1>7. ASSUME NEW i \in DOMAIN pending, NEW c \in Controls, Ask(i, c) PROVE Core'
    BY <1>6, <1>7 DEF Ask
<1>8. ASSUME NEW c \in calls, ResumeControl(c) PROVE Core'
    BY <1>0, <1>1, <1>6, <1>8 DEF ResumeControl
<1>9. QED
    BY <1>2, <1>3, <1>4, <1>5, <1>7, <1>8 DEF Clients

LEMMA CoreStep ==
  ASSUME DrainInv, DrainTypeOK', [DrainNext]_drainVars
  PROVE  Core'
    BY CoreDrainStep, CoreWake, CoreHarness, CoreReboot, CoreClients
    DEF DrainNext, CallStep, Faults

--------------------------------------------------------------------------------

\* Withdrawals, part by part: of the queue, and of the drains.
QueueWithdrawn ==
  /\ withdrawn \subseteq AcceptedTurns
  /\ \A i \in DOMAIN pending : pending[i].turn \in withdrawn => pending[i].control = "Cancel"
Refrains(l) ==
  /\ drain[l].pc \in Executing => HeadTurn(l) \notin withdrawn
  /\ At(l, "open") => HeadTurn(l) \notin withdrawn \/ drain[l].control = "Cancel"

\* The queue keeps its cancellations, and adds those of a turn that is cancelled.
LEMMA QueueKeepsWithdrawn ==
  ASSUME DrainInv, Grows, withdrawn' = withdrawn
  PROVE  QueueWithdrawn'
<1>1. QueueWithdrawn
    BY DEF DrainInv, Withdrawals, QueueWithdrawn
<1>2. withdrawn' \subseteq AcceptedTurns'
    BY <1>1 DEF QueueWithdrawn, Grows
<1>3. ASSUME NEW i \in DOMAIN pending', pending'[i].turn \in withdrawn
      PROVE  pending'[i].control = "Cancel"
    BY <1>1, <1>3 DEF QueueWithdrawn, Grows
<1>4. QED
    BY <1>2, <1>3 DEF QueueWithdrawn

LEMMA CancelWithdraws ==
  ASSUME DrainInv, Grows, NEW i \in DOMAIN pending, pending'[i].control = "Cancel",
         Withdraw(pending[i].turn), drain' = drain
  PROVE  Withdrawals'
<1>0. /\ IInv /\ QueueWithdrawn /\ \A l \in Leases : Refrains(l)
    BY DEF DrainInv, Withdrawals, QueueWithdrawn, Refrains
<1>1. /\ \A j \in DOMAIN pending : pending[j].turn = pending[i].turn => j = i
      /\ PendingTurns \subseteq AcceptedTurns
    BY <1>0, PendingDistinct DEF IInv
<1>2. pending[i].turn \in AcceptedTurns
    BY <1>1 DEF PendingTurns
<1>3. withdrawn' \subseteq withdrawn \cup {pending[i].turn}
    BY DEF Withdraw
<1>4. withdrawn' \subseteq AcceptedTurns'
    BY <1>0, <1>2, <1>3 DEF QueueWithdrawn, Grows
<1>5. ASSUME NEW j \in DOMAIN pending', pending'[j].turn \in withdrawn'
      PROVE  pending'[j].control = "Cancel"
  <2>1. CASE j \in DOMAIN pending
      BY <1>0, <1>1, <1>3, <1>5, <2>1 DEF QueueWithdrawn, Grows
  <2>2. CASE j \notin DOMAIN pending
      BY <1>0, <1>2, <1>3, <1>5, <2>2 DEF QueueWithdrawn, Grows
  <2>3. QED
      BY <2>1, <2>2
<1>6. ASSUME NEW l \in Leases PROVE Refrains(l)'
  <2>1. drain[l].pc \in Executing \/ At(l, "open") =>
          (HeadTurn(l) \in withdrawn' => HeadTurn(l) \in withdrawn)
      BY DEF Withdraw, Admitted, Executing, At
  <2>2. QED
      BY <1>0, <2>1 DEF Refrains, At, HeadTurn
<1>7. QED
    BY <1>4, <1>5, <1>6 DEF Withdrawals, Refrains

\* The drain reads the control of its head before it goes on to execute it.
LEMMA DrainRefrains ==
  ASSUME DrainInv, NEW l \in Leases, Idles(l)
  PROVE  \A k \in Leases : Refrains(k)'
<1>0. /\ DrainTypeOK /\ HeadIsFront /\ IInv /\ QueueWithdrawn /\ \A k \in Leases : Refrains(k)
      /\ drain \in [Leases -> Task] /\ drain[l] \in Task
    BY DEF DrainInv, DrainTypeOK, Withdrawals, QueueWithdrawn, Refrains
<1>1. withdrawn' = withdrawn
    BY IdlesUnchanged
<1>2. \A k \in Leases \ {l} : Refrains(k)'
    BY <1>0, <1>1, IdlesShift DEF Refrains, At, HeadTurn
<1>3. CASE drain'[l].pc = "open"
  <2>1. drain[l].pc = "control" /\ drain'[l].control = signal /\ Shifts(l, "open")
      BY <1>0, <1>3, IdlesShift DEF Active
  <2>2. HeadTurn(l) = Front.turn /\ watching = Front.turn /\ pending # <<>>
      BY <1>0, <2>1 DEF HeadIsFront, Active
  <2>3. 1 \in DOMAIN pending /\ watching # None
    <3>1. pending \in Seq(QueuedTurn) /\ 1 \in DOMAIN pending
        BY <1>0, <2>2 DEF DrainTypeOK, TypeOK
    <3>2. Front \in QueuedTurn
        BY <3>1 DEF Front
    <3>3. Front.turn \in Turns
        BY <3>2 DEF QueuedTurn
    <3>4. QED
        BY <2>2, <3>1, <3>3, NoneAssumption
  <2>4. signal = Front.control
      BY <1>0, <2>3 DEF IInv, WatchIsCurrent
  <2>5. Front.turn \in withdrawn => Front.control = "Cancel"
      BY <1>0, <2>3 DEF QueueWithdrawn, Front
  <2>6. HeadTurn(l)' = HeadTurn(l)
      BY <2>1 DEF Shifts, HeadTurn
  <2>7. QED
      BY <1>1, <1>2, <1>3, <2>1, <2>2, <2>4, <2>5, <2>6 DEF Refrains, Executing, At
<1>4. CASE drain'[l].pc \in Executing
  <2>1. drain[l].pc \in Active /\ Shifts(l, drain'[l].pc)
      BY <1>0, <1>4, IdlesShift DEF Active, Executing
  <2>2. drain[l].pc \in Executing \/ (drain[l].pc = "open" /\ drain[l].control # "Cancel")
    <3>1. CASE OpenHead(l)
      <4>1. drain'[l].pc = AfterOpen(l) /\ drain[l].pc = "open"
          BY <1>0, <3>1 DEF OpenHead, Go, At, Task
      <4>2. QED
          BY <1>4, <4>1 DEF AfterOpen, Executing
    <3>2. CASE EnterExecution(l) \/ BeginTurn(l) \/ (Submit(l) /\ stopping)
        BY <3>2 DEF EnterExecution, BeginTurn, Submit, At, Executing
    <3>3. CASE Spawn(l) \/ Top(l) \/ Peek(l) \/ (ReleaseIdle(l) /\ UNCHANGED vars)
               \/ ReadControl(l)
        BY <1>0, <1>4, <3>3 DEF Spawn, Top, Peek, ReleaseIdle, ReadControl, Go, Task, Executing
    <3>4. CASE CloseHead(l) \/ PrepareFails(l) \/ RejectError(l) \/ RejectFinish(l)
               \/ FailBegin(l) \/ FailError(l) \/ FailFinish(l) \/ DrainFails(l) \/ OpenFails(l)
        BY <1>0, <1>4, <3>4 DEF CloseHead, PrepareFails, RejectError, RejectFinish,
           FailBegin, FailError, FailFinish, DrainFails, OpenFails, Go, Task, Executing
    <3>5. CASE CheckStatus(l)
      <4>1. drain'[l].pc = AfterStatus(l)
          BY <1>0, <3>5 DEF CheckStatus, Go, Task
      <4>2. QED
          BY <1>4, <4>1 DEF AfterStatus, Executing
    <3>6. QED
        BY <3>1, <3>2, <3>3, <3>4, <3>5 DEF Idles
  <2>3. HeadTurn(l)' = HeadTurn(l)
      BY <2>1 DEF Shifts, HeadTurn
  <2>4. QED
      BY <1>0, <1>1, <1>2, <1>4, <2>2, <2>3 DEF Refrains, Executing, At
<1>5. CASE drain'[l].pc \notin Executing \cup {"open"}
    BY <1>2, <1>5 DEF Refrains, At
<1>6. QED
    BY <1>3, <1>4, <1>5

LEMMA WithdrawalsStep ==
  ASSUME DrainInv, DrainTypeOK', [DrainNext]_drainVars
  PROVE  Withdrawals'
<1>0. /\ DrainTypeOK /\ IInv /\ \A l \in Leases : Refrains(l)
      /\ drain \in [Leases -> Task] /\ None \in Callers
    BY DEF DrainInv, DrainTypeOK, Withdrawals, Refrains, Callers
<1>1. QueueWithdrawn' /\ (\A l \in Leases : Refrains(l)') => Withdrawals'
    BY DEF Withdrawals, QueueWithdrawn, Refrains
<1>2. ASSUME UNCHANGED <<withdrawn, pending, accepted, acks>> PROVE QueueWithdrawn'
    BY <1>2, StillGrows, QueueKeepsWithdrawn
<1>3. ASSUME UNCHANGED <<withdrawn, drain>> PROVE \A l \in Leases : Refrains(l)'
    BY <1>0, <1>3 DEF Refrains, At, HeadTurn
<1>4. ASSUME UNCHANGED <<vars, drain, withdrawn>> PROVE Withdrawals'
    BY <1>1, <1>2, <1>3, <1>4 DEF vars
<1>5. CASE \/ BeginShutdown \/ StopHarness \/ UNCHANGED drainVars \/ Harness \/ FinalizerFails
           \/ (\E t \in Turns : Retry(t)) \/ (\E t \in PendingTurns : Resume(t))
           \/ (\E c \in calls : Replay(c) \/ Signal(c) \/ WakeFails(c) \/ ReplayFails(c))
    BY <1>4, <1>5 DEF BeginShutdown, StopHarness, drainVars, runtime, notes, Harness,
       FinalizerFails, RunReturns, RunStops, Finalize, FinalizerStep, others, Retry, Resume,
       Replay, Signal, WakeFails, ReplayFails
<1>6. ASSUME NEW t \in Turns, NEW k \in Keys \cup {None}, NEW a \in Attentions, Accept(t, k, a)
      PROVE  Withdrawals'
  <2>1. /\ Grows /\ drain' = drain
        /\ \A i \in DOMAIN pending : i = 1 /\ Interrupts(None, a) => pending'[i].control = "Cancel"
      BY <1>0, <1>6, EnqueueGrows DEF Accept
  <2>2. CASE Interrupts(None, a)
    <3>1. 1 \in DOMAIN pending
        BY <1>0, <2>2 DEF Interrupts, IInv, TypeOK
    <3>2. Withdraw(pending[1].turn) /\ pending'[1].control = "Cancel"
        BY <1>6, <2>1, <2>2, <3>1 DEF Accept, Front
    <3>3. QED
        BY <2>1, <3>1, <3>2, CancelWithdraws
  <2>3. CASE ~Interrupts(None, a)
    <3>1. withdrawn' = withdrawn
        BY <1>6, <2>3 DEF Accept
    <3>2. QED
        BY <1>1, <1>3, <2>1, <3>1, QueueKeepsWithdrawn
  <2>4. QED
      BY <2>2, <2>3
<1>7. ASSUME NEW i \in DOMAIN pending, NEW c \in Controls, Control(i, c), drain' = drain
      PROVE  Withdrawals'
  <2>1. Grows /\ pending'[i].control = c
      BY <1>0, <1>7, ControlGrows DEF Control
  <2>2. CASE c = "Cancel"
      BY <1>7, <2>1, <2>2, CancelWithdraws DEF Control
  <2>3. CASE c # "Cancel"
      BY <1>1, <1>3, <1>7, <2>1, <2>3, QueueKeepsWithdrawn DEF Control
  <2>4. QED
      BY <2>2, <2>3
<1>8. ASSUME NEW i \in DOMAIN pending, NEW c \in Controls, Ask(i, c) PROVE Withdrawals'
    BY <1>7, <1>8 DEF Ask
<1>9. ASSUME NEW c \in calls, ResumeControl(c) PROVE Withdrawals'
  <2>1. "Run" \in Controls
      BY DEF Controls
  <2>2. QED
      BY <1>4, <1>7, <1>9, <2>1 DEF ResumeControl, notes
<1>10. ASSUME NEW c \in calls, Wake(c) PROVE Withdrawals'
  <2>1. CASE UNCHANGED <<vars, drain>>
      BY <1>4, <1>10, <2>1 DEF Wake, notes
  <2>2. ASSUME NEW l \in Leases, Claim(l),
               drain' = [drain EXCEPT ![l] = [NoTask EXCEPT !.pc = "spawn"]]
        PROVE  Withdrawals'
    <3>1. Reads(l, "spawn", None)
        BY <1>0, <2>2, ShiftTask
    <3>2. UNCHANGED <<withdrawn, pending, accepted, acks>>
        BY <1>10, <2>2 DEF Wake, notes, Claim, durable, history
    <3>3. \A k \in Leases : Refrains(k)'
        BY <1>0, <3>1, <3>2 DEF Refrains, Reads, At, HeadTurn, Executing
    <3>4. QED
        BY <1>1, <1>2, <3>2, <3>3
  <2>3. QED
      BY <1>10, <2>1, <2>2 DEF Wake
<1>11. CASE Reboot
  <2>1. /\ UNCHANGED <<withdrawn, pending, accepted, acks>>
        /\ \A l \in Leases : drain'[l].pc = "none"
      BY <1>11 DEF Reboot, Crash, durable, history, NoTask
  <2>2. \A k \in Leases : Refrains(k)'
      BY <2>1 DEF Refrains, At, Executing
  <2>3. QED
      BY <1>1, <1>2, <2>1, <2>2
<1>12. ASSUME NEW l \in Leases, DrainStep(l) \/ DrainFails(l) \/ OpenFails(l) \/ PrepareFails(l)
       PROVE  Withdrawals'
  <2>1. CASE Idles(l)
      BY <1>1, <1>2, <2>1, DrainRefrains, IdlesUnchanged DEF vars
  <2>2. ASSUME drain'[l].pc \notin Executing \cup {"open"}, withdrawn' = withdrawn,
               \A k \in Leases \ {l} : drain'[k] = drain[k]
        PROVE  \A k \in Leases : Refrains(k)'
      BY <1>0, <2>2 DEF Refrains, At, HeadTurn
  <2>3. CASE ReleaseIdle(l)
    <3>1. drain'[l].pc \in {"drop", "again"} /\ \A k \in Leases \ {l} : drain'[k] = drain[k]
        BY <1>0, <2>3 DEF ReleaseIdle, Go, Task
    <3>2. UNCHANGED <<withdrawn, pending, accepted, acks>>
        BY <2>3 DEF ReleaseIdle, Release, durable, history, vars, rest
    <3>3. QED
        BY <1>1, <1>2, <2>2, <3>1, <3>2 DEF Executing
  <2>4. CASE StreamEnds(l) \/ Exit(l)
    <3>1. drain'[l].pc \in {"status", "none"} /\ \A k \in Leases \ {l} : drain'[k] = drain[k]
        BY <1>0, <2>4 DEF StreamEnds, Exit, NoTask, Task
    <3>2. UNCHANGED <<withdrawn, pending, accepted, acks>>
        BY <2>4 DEF StreamEnds, Exit, DropLease, durable, history, vars, rest
    <3>3. QED
        BY <1>1, <1>2, <2>2, <3>1, <3>2 DEF Executing
  <2>5. CASE StartHead(l)
    <3>1. /\ drain[l].head \in QueuedTurn /\ Start(l, HeadTurn(l)) /\ withdrawn' = withdrawn
        BY <1>0, <2>5 DEF StartHead, HeadIdle, Task, rest
    <3>2. HeadTurn(l) \in Turns /\ drain[l].head.started \in BOOLEAN
        BY <3>1 DEF HeadTurn, QueuedTurn
    <3>3. Reads(l, "control", drain[l].head)
        BY <1>0, <2>5, <3>2, ShiftStart DEF StartHead
    <3>4. QueueWithdrawn'
        BY <1>0, <3>1, <3>2, StartGrows, QueueKeepsWithdrawn
    <3>5. QED
        BY <1>1, <2>2, <3>1, <3>3, <3>4 DEF Reads, Executing
  <2>6. CASE AckHead(l)
    <3>1. drain[l].pc = "ack" /\ Acknowledge(l, HeadTurn(l)) /\ withdrawn' = withdrawn
        BY <2>6 DEF AckHead, At, rest
    <3>2. HeadTurn(l) \in Turns
        BY <1>0, <3>1, HeadTyped DEF Active, DrainInv
    <3>3. Reads(l, "top", Snapshot(pending'))
      <4>1. "top" \in Stages /\ Snapshot(pending') \in QueuedTurn \cup {None}
          BY SnapshotTyped DEF Stages, DrainTypeOK, TypeOK
      <4>2. QED
          BY <1>0, <2>6, <4>1, ShiftHead DEF AckHead
    <3>4. QueueWithdrawn'
        BY <1>0, <3>1, <3>2, AckMoves DEF QueueWithdrawn, DrainInv, Withdrawals
    <3>5. QED
        BY <1>1, <2>2, <3>1, <3>3, <3>4 DEF Reads, Executing
  <2>7. CASE (Submit(l) /\ ~stopping) \/ Forward(l)
    <3>1. /\ drain[l].pc \in {"submit", "stream"} /\ drain'[l].pc = "stream"
          /\ drain'[l].head = drain[l].head /\ \A k \in Leases \ {l} : drain'[k] = drain[k]
        BY <1>0, <2>7 DEF Submit, Forward, Go, At, Task
    <3>2. UNCHANGED <<withdrawn, pending, accepted, acks>>
        BY <2>7 DEF Submit, Forward, vars
    <3>3. \A k \in Leases : Refrains(k)'
        BY <1>0, <3>1, <3>2 DEF Refrains, At, HeadTurn, Executing
    <3>4. QED
        BY <1>1, <1>2, <3>2, <3>3
  <2>8. QED
      BY <1>12, <2>1, <2>3, <2>4, <2>5, <2>6, <2>7 DEF DrainStep, Idles
<1>13. QED
    BY <1>5, <1>6, <1>8, <1>9, <1>10, <1>11, <1>12
    DEF DrainNext, Clients, CallStep, Faults

\* The invariant holds throughout.
LEMMA DrainInvariance == DrainSpec => []DrainInv
<1>1. DrainInit => DrainInv
  <2> SUFFICES ASSUME DrainInit PROVE DrainInv
      OBVIOUS
  <2>1. IInv
      BY InitInv DEF DrainInit
  <2>2. NoTask \in Task
      BY DEF NoTask, Task, Stages, Controls
  <2>3. DrainTypeOK
    <3>1. 0 \in 0..MaxAsks /\ 0 \in 0..MaxCrashes
        BY ModeAssumption DEF ModeAssumption
    <3>2. journal \in [Turns -> SUBSET Kinds] /\ drain \in [Leases -> Task]
        BY <2>2 DEF DrainInit
    <3>3. QED
        BY <2>1, <3>1, <3>2 DEF DrainInit, DrainTypeOK, IInv
  <2>4. \A l \in Leases : drain[l].pc = "none"
      BY DEF DrainInit, NoTask
  <2>5. Acknowledged = {}
      BY DEF DrainInit, Init, Acknowledged
  <2>6. QED
      BY <2>1, <2>3, <2>4, <2>5 DEF DrainInit, Init, DrainInv, LeaseHeld, ExclusiveExecution,
         HeadIsFront, JournalBeforeAck, AckedEnd, Withdrawals, At, Active, Executing
<1>2. DrainInv /\ [DrainNext]_drainVars => DrainInv'
  <2> SUFFICES ASSUME DrainInv, [DrainNext]_drainVars PROVE DrainInv'
      OBVIOUS
  <2>1. IInv'
    <3>1. IInv /\ [Next]_vars
        BY Layered DEF DrainInv
    <3>2. QED
        BY <3>1, InvStep
  <2>2. DrainTypeOK'
      BY DrainTypeStep DEF DrainInv
  <2>3. Core' /\ Withdrawals'
      BY <2>2, CoreStep, WithdrawalsStep
  <2>4. QED
      BY <2>1, <2>2, <2>3 DEF DrainInv, Core
<1>3. QED
    BY <1>1, <1>2, PTL DEF DrainSpec

\* Whatever clients ask, storage loses and crashes interrupt: one execution at a time,
\* of the head of the queue, of no turn that was cancelled before its control was read,
\* and journalled to its end before it is acknowledged (run_queue).
THEOREM ExecutionCorrect == DrainSpec => []ExecutionKept
<1>1. DrainInv => ExecutionKept
  <2> SUFFICES ASSUME DrainInv PROVE ExecutionKept
      OBVIOUS
  <2>1. WithdrawnNeverRuns
    <3> SUFFICES ASSUME run # None PROVE run.turn \notin withdrawn
        BY DEF WithdrawnNeverRuns
    <3>1. Runs(run) /\ (owner # None => owner \in Leases)
        BY ExclusiveParts DEF DrainInv, DrainTypeOK, TypeOK
    <3>2. QED
        BY <3>1 DEF DrainInv, Withdrawals, Runs, At, Executing
  <2>2. QED
      BY <2>1 DEF DrainInv, ExecutionKept
<1>2. QED
    BY <1>1, DrainInvariance, PTL

--------------------------------------------------------------------------------
(* No execution begins twice.                                                   *)

\* A drain that has not read its head, or is done, has nothing to remember.
LEMMA SoundIdle ==
  ASSUME NEW l \in Leases, drain[l].pc \in {"none", "drop", "spawn", "again", "peek"}
  PROVE  Sound(l)
    BY DEF Sound, Fresh, Admits, Recalls, Writes, Active, Begun, Unended, At

\* A new turn has no journal, so what a client call adds to the queue is not begun.
LEMMA ClientEntries ==
  ASSUME DrainInv, RerunInv, TypeOK', Grows, journal' = journal,
         \A i \in DOMAIN pending :
           ~Resumable => pending'[i].control \in {pending[i].control, "Run", "Cancel"}
  PROVE  Journalled' /\ EntriesAdmitted'
<1>0. Journalled /\ EntriesAdmitted
    BY DEF RerunInv
<1>1. Journalled'
    BY <1>0 DEF Journalled, Grows
<1>2. ASSUME NEW i \in DOMAIN pending' PROVE
        /\ ~Resumable => pending'[i].control # "Suspend"
        /\ "started" \in journal'[pending'[i].turn] =>
             pending'[i].started \/ pending'[i].control = "Cancel"
  <2>1. CASE i \in DOMAIN pending
    <3>1. ~Resumable => pending[i].control # "Suspend"
        BY <1>0, <2>1 DEF EntriesAdmitted
    <3>2. QED
        BY <1>0, <2>1, <3>1 DEF EntriesAdmitted, Grows
  <2>2. CASE i \notin DOMAIN pending
    <3>1. pending'[i].turn \notin AcceptedTurns /\ pending'[i].control = "Run"
        BY <2>2 DEF Grows
    <3>2. pending'[i] \in QueuedTurn
        BY DEF TypeOK
    <3>3. pending'[i].turn \in Turns
        BY <3>2 DEF QueuedTurn
    <3>4. QED
        BY <1>0, <3>1, <3>3 DEF Journalled
  <2>3. QED
      BY <2>1, <2>2
<1>3. QED
    BY <1>1, <1>2 DEF EntriesAdmitted

\* A client call leaves what the drain knows true: the head stays admitted, and
\* nothing takes back a suspension or a cancellation.
LEMMA ClientSound ==
  ASSUME DrainInv, RerunInv, TypeOK', Grows, UNCHANGED <<journal, drain>>,
         \A i \in DOMAIN pending :
           /\ pending'[i].started = pending[i].started
           /\ pending'[i].control = "Run" => pending[i].control = "Run",
         NEW l \in Leases
  PROVE  Sound(l)'
<1>0. Fresh(l) /\ Admits(l) /\ Recalls(l) /\ Writes(l) /\ HeadIsFront
    BY DEF RerunInv, Sound, DrainInv
<1>1. pending # <<>> => 1 \in DOMAIN pending
    BY DEF DrainInv, DrainTypeOK, TypeOK
<1>2. pending # <<>> => /\ pending' # <<>> /\ Front.turn' = Front.turn
                        /\ Front.started' = Front.started
                        /\ Front.control' = "Run" => Front.control = "Run"
                        /\ Front.control = "Cancel" => Front.control' = "Cancel"
    BY <1>1 DEF Grows, Front
<1>3. pending # <<>> => Front.control' \in Controls
  <2>1. pending' # <<>> => pending'[1] \in QueuedTurn
      BY DEF TypeOK
  <2>2. QED
      BY <1>2, <2>1 DEF Front, QueuedTurn
<1>4. Fresh(l)'
    BY <1>0, <1>2 DEF Fresh, HeadTurn, Front
<1>5. drain[l].pc \in Active => pending # <<>>
    BY <1>0 DEF HeadIsFront
<1>6. Admits(l)'
    BY <1>0, <1>2, <1>3, <1>5 DEF Admits, At, Front, Active, Controls
<1>7. Recalls(l)'
    BY <1>0, <1>2, <1>5 DEF Recalls, At, HeadTurn, Front, Active
<1>8. Writes(l)'
    BY <1>0 DEF Writes, HeadTurn
<1>9. QED
    BY <1>4, <1>6, <1>7, <1>8 DEF Sound

LEMMA RerunClient ==
  ASSUME DrainInv, RerunInv, TypeOK', Grows, UNCHANGED <<journal, drain, fin, again>>,
         run = None => run' = None, run # None => run'.turn = run.turn, Unresumed',
         \A i \in DOMAIN pending :
           /\ pending'[i].started = pending[i].started
           /\ pending'[i].control = "Run" => pending[i].control = "Run"
           /\ ~Resumable => pending'[i].control \in {pending[i].control, "Run", "Cancel"}
  PROVE  RerunInv'
<1>1. \A l \in Leases : Sound(l)'
    BY ClientSound
<1>2. ExecutionOpen' /\ NoRerun'
    BY DEF RerunInv, ExecutionOpen, NoRerun
<1>3. QED
    BY <1>1, <1>2, ClientEntries DEF RerunInv

\* A step of the drain at work adds to the journal of its head what it may.
LEMMA RerunDrain ==
  ASSUME DrainInv, RerunInv, DrainTypeOK', NEW l \in Leases, drain[l].pc \notin {"none", "drop"},
         UNCHANGED <<pending, accepted, acks, calls>>,
         \A k \in Leases \ {l} : drain'[k] = drain[k],
         \/ journal' = journal
         \/ /\ drain[l].pc \in Active \ {"control"}
            /\ \E kind : Record(HeadTurn(l), kind)
            /\ "started" \in journal'[HeadTurn(l)],
         again' = again, Sound(l)', ExecutionOpen'
  PROVE  RerunInv'
<1>0. IInv /\ DrainTypeOK /\ HeadIsFront /\ Journalled /\ EntriesAdmitted /\ Admits(l)
    BY DEF DrainInv, RerunInv, Sound
<1>1. \A k \in Leases : Sound(k)'
  <2>1. ASSUME NEW k \in Leases, k # l PROVE Sound(k)'
    <3>1. drain'[k].pc \in {"none", "drop"}
        BY <2>1, Alone
    <3>2. QED
        BY <3>1 DEF Sound, Fresh, Admits, Recalls, Writes, Active, Begun, Unended, At
  <2>2. QED
      BY <2>1
<1>2. Unresumed' /\ NoRerun'
    BY DEF RerunInv, Unresumed, NoRerun
<1>3. Journalled' /\ EntriesAdmitted'
  <2>1. CASE journal' = journal
      BY <1>0, <2>1 DEF Journalled, EntriesAdmitted, AcceptedTurns
  <2>2. ASSUME drain[l].pc \in Active \ {"control"}, NEW kind, Record(HeadTurn(l), kind),
               "started" \in journal'[HeadTurn(l)]
        PROVE  Journalled' /\ EntriesAdmitted'
    <3>1. HeadTurn(l) \in Turns /\ HeadTurn(l) = Front.turn /\ 1 \in DOMAIN pending
        BY <1>0, <2>2, HeadTyped DEF HeadIsFront, DrainTypeOK, TypeOK
    <3>2. /\ \A i \in DOMAIN pending : pending[i].turn = HeadTurn(l) => i = 1
          /\ PendingTurns \subseteq AcceptedTurns
        BY <1>0, <3>1, PendingDistinct DEF IInv, Front
    <3>3. HeadTurn(l) \in AcceptedTurns
        BY <3>1, <3>2 DEF PendingTurns, Front
    <3>4. Front.started \/ Front.control = "Cancel"
        BY <1>0, <2>2 DEF Admits
    <3>5. \A t \in Turns : t # HeadTurn(l) => journal'[t] = journal[t]
        BY <1>0, <2>2, <3>1, Recorded
    <3>6. \A i \in DOMAIN pending : pending[i].turn \in Turns
        BY <1>0, TurnsTyped DEF PendingTurns
    <3>7. AcceptedTurns' = AcceptedTurns
        BY DEF AcceptedTurns
    <3>8. Journalled'
        BY <1>0, <2>2, <3>3, <3>5, <3>7 DEF Journalled
    <3>9. EntriesAdmitted'
        BY <1>0, <3>2, <3>4, <3>5, <3>6 DEF EntriesAdmitted, Front
    <3>10. QED
        BY <3>8, <3>9
  <2>3. QED
      BY <2>1, <2>2
<1>4. QED
    BY <1>1, <1>2, <1>3 DEF RerunInv

\* The control an active drain hears is the one saved for its head.
LEMMA HeardControl ==
  ASSUME DrainInv, NEW l \in Leases, drain[l].pc \in Active
  PROVE  signal = Front.control /\ Front.control \in Controls /\ HeadTurn(l) = Front.turn
<1>1. HeadTurn(l) = Front.turn /\ watching = Front.turn /\ pending # <<>>
    BY DEF DrainInv, HeadIsFront
<1>2. Front \in QueuedTurn
    BY <1>1 DEF DrainInv, DrainTypeOK, TypeOK, Front
<1>3. Front.turn \in Turns /\ Front.control \in Controls
    BY <1>2 DEF QueuedTurn
<1>4. watching # None
    BY <1>1, <1>3, NoneAssumption
<1>5. QED
    BY <1>1, <1>3, <1>4 DEF DrainInv, IInv, WatchIsCurrent

\* The drain steps on the way to the head and to its control.
LEMMA RerunReads ==
  ASSUME DrainInv, RerunInv, DrainTypeOK', NEW l \in Leases,
         \/ Spawn(l) \/ Top(l) \/ Peek(l) \/ (ReleaseIdle(l) /\ UNCHANGED vars)
         \/ ReadControl(l) \/ DrainFails(l)
  PROVE  RerunInv'
<1>0. /\ DrainTypeOK /\ drain \in [Leases -> Task] /\ drain[l] \in Task /\ HeadIsFront
      /\ pending \in Seq(QueuedTurn) /\ signal \in Controls
      /\ Fresh(l) /\ Admits(l) /\ Recalls(l) /\ Writes(l)
    BY DEF DrainInv, DrainTypeOK, TypeOK, RerunInv, Sound
<1>1. Idles(l)
    BY DEF Idles
<1>2. /\ UNCHANGED <<vars, run, fin, calls, journal, again>>
      /\ drain[l].pc \notin {"none", "drop", "stream"}
      /\ \A k \in Leases \ {l} : drain'[k] = drain[k]
  <2>1. UNCHANGED <<journal, again>>
      BY DEF Spawn, Top, Peek, ReleaseIdle, ReadControl, DrainFails
  <2>2. QED
      BY <1>0, <1>1, <2>1, IdlesUnchanged, IdlesShift
<1>3. Front' = Front
    BY <1>2 DEF Front, vars
<1>4. drain'[l].pc \in {"drop", "again", "peek"} => Sound(l)'
    BY DEF Sound, Fresh, Admits, Recalls, Writes, Active, Begun, Unended, At
<1>5. Sound(l)'
  <2>1. CASE Spawn(l) \/ Peek(l)
    <3>1. "top" \in Stages /\ "decide" \in Stages
        BY DEF Stages
    <3>2. \E pc \in {"top", "decide"} : Reads(l, pc, Snapshot(pending))
        BY <1>0, <2>1, <3>1, SnapshotTyped, ShiftHead DEF Spawn, Peek
    <3>3. Fresh(l)'
        BY <1>2, <1>3, <3>2 DEF Fresh, Reads, Snapshot, HeadTurn, Front, vars
    <3>4. QED
        BY <3>2, <3>3 DEF Reads, Sound, Admits, Recalls, Writes, Active, Begun, Unended, At
  <2>2. CASE Top(l) /\ drain'[l].pc \notin {"drop", "again", "peek"}
    <3>1. drain[l].pc = "top" /\ drain'[l].pc = "decide" /\ drain'[l].head = drain[l].head
        BY <1>0, <2>2 DEF Top, Go, At, Task
    <3>2. Fresh(l)'
        BY <1>0, <1>2, <1>3, <3>1 DEF Fresh, HeadTurn, vars
    <3>3. QED
        BY <3>1, <3>2 DEF Sound, Admits, Recalls, Writes, Active, Begun, Unended, At
  <2>3. CASE ReleaseIdle(l) \/ DrainFails(l)
      BY <1>0, <1>4, <2>3 DEF ReleaseIdle, DrainFails, Go, Task
  <2>4. CASE ReadControl(l) /\ drain'[l].pc \notin {"drop", "again", "peek"}
    <3>1. /\ drain[l].pc = "control" /\ drain'[l].pc = "open" /\ signal # "Suspend"
          /\ drain'[l].head = drain[l].head /\ drain'[l].was = drain[l].was
          /\ drain'[l].control = signal
        BY <1>0, <2>4 DEF ReadControl, At, Task
    <3>2. signal = Front.control
        BY <3>1, HeardControl DEF Active
    <3>3. Admits(l)' /\ Recalls(l)'
        BY <1>0, <1>2, <1>3, <3>1, <3>2 DEF Admits, Recalls, At, HeadTurn
    <3>4. QED
        BY <3>1, <3>3 DEF Sound, Fresh, Writes, Begun, Unended
  <2>5. QED
      BY <1>4, <2>1, <2>2, <2>3, <2>4
<1>6. ExecutionOpen'
  <2>1. run = None /\ fin = None
      BY <1>2, NothingRuns
  <2>2. QED
      BY <1>2, <2>1 DEF ExecutionOpen
<1>7. QED
    BY <1>2, <1>5, <1>6, RerunDrain DEF vars

\* The drain steps that work on the head.
LEMMA RerunWorks ==
  ASSUME DrainInv, RerunInv, DrainTypeOK', NEW l \in Leases,
         \/ OpenHead(l) \/ CloseHead(l) \/ EnterExecution(l) \/ PrepareFails(l) \/ BeginTurn(l)
         \/ (Submit(l) /\ stopping) \/ RejectError(l) \/ RejectFinish(l)
         \/ CheckStatus(l) \/ FailBegin(l) \/ FailError(l) \/ FailFinish(l) \/ OpenFails(l)
  PROVE  RerunInv'
<1>0. /\ DrainTypeOK /\ drain \in [Leases -> Task] /\ drain[l] \in Task /\ HeadIsFront
      /\ Journalled /\ Admits(l) /\ Recalls(l) /\ Writes(l)
    BY DEF DrainInv, DrainTypeOK, RerunInv, Sound
<1>1. Idles(l)
    BY DEF Idles
<1>2. /\ UNCHANGED <<vars, run, fin, calls>>
      /\ drain[l].pc \in Active \ {"control", "stream"}
      /\ \A k \in Leases \ {l} : drain'[k] = drain[k]
  <2>1. drain[l].pc \in Active \ {"control", "stream"}
      BY DEF OpenHead, CloseHead, EnterExecution, PrepareFails, BeginTurn, Submit, RejectError,
         RejectFinish, CheckStatus, FailBegin, FailError, FailFinish, OpenFails, At, Active
  <2>2. QED
      BY <1>0, <1>1, <2>1, IdlesUnchanged, IdlesShift
<1>3. HeadTurn(l) \in Turns
    BY <1>0, <1>2, HeadTyped
<1>4. ExecutionOpen'
  <2>1. run = None /\ fin = None
      BY <1>2, NothingRuns DEF Active
  <2>2. QED
      BY <1>2, <2>1 DEF ExecutionOpen
<1>5. ASSUME NEW pc \in Active \ {"control", "open"}, Go(l, pc)
      PROVE  /\ drain'[l].pc = pc /\ drain'[l].was = drain[l].was
             /\ HeadTurn(l)' = HeadTurn(l) /\ Fresh(l)' /\ Admits(l)'
  <2>1. pc \in Stages
      BY DEF Active, Stages
  <2>2. Shifts(l, pc)
      BY <1>0, <1>5, <2>1, Shift
  <2>3. Fresh(l)'
      BY <2>2 DEF Shifts, Fresh, Active
  <2>4. Admits(l)'
      BY <1>0, <1>2, <2>2 DEF Shifts, Admits, Front, At, vars
  <2>5. QED
      BY <2>2, <2>3, <2>4 DEF Shifts, HeadTurn
<1>6. ASSUME NEW pc \in Active \ {"control", "open"}, Go(l, pc), again' = again,
             pc \in {"exec", "begin"} /\ "started" \in journal'[HeadTurn(l)] => drain[l].was,
             pc \in Begun => "started" \in journal'[HeadTurn(l)],
             pc \in Unended => "ended" \notin journal'[HeadTurn(l)],
             \/ journal' = journal
             \/ /\ \E kind : Record(HeadTurn(l), kind)
                /\ "started" \in journal'[HeadTurn(l)]
      PROVE  RerunInv'
  <2>1. Recalls(l)' /\ Writes(l)'
      BY <1>5, <1>6 DEF Recalls, Writes, At
  <2>2. Sound(l)'
      BY <1>5, <1>6, <2>1 DEF Sound
  <2>3. QED
      BY <1>2, <1>4, <1>6, <2>2, RerunDrain DEF vars, Active
<1>7. CASE OpenHead(l)
  <2>1. /\ drain[l].pc = "open" /\ Go(l, AfterOpen(l)) /\ UNCHANGED <<journal, again>>
        /\ AfterOpen(l) \in {"status", "closing", "exec"}
      BY <1>7 DEF OpenHead, AfterOpen, At
  <2>2. AfterOpen(l) # "status" => drain[l].control # "Cancel" /\ "ended" \notin Events(l)
      BY DEF AfterOpen
  <2>3. "started" \in journal[HeadTurn(l)] => drain[l].was \/ drain[l].control = "Cancel"
      BY <1>0, <2>1 DEF Recalls, At
  <2>4. AfterOpen(l) = "closing" => drain[l].was /\ journal[HeadTurn(l)] # {}
      BY DEF AfterOpen, Events
  <2>5. AfterOpen(l) = "closing" =>
          "started" \in journal[HeadTurn(l)] /\ "ended" \notin journal[HeadTurn(l)]
      BY <1>0, <1>3, <2>2, <2>4 DEF Journalled, Events
  <2>6. AfterOpen(l) = "exec" =>
          /\ "started" \in journal[HeadTurn(l)] => drain[l].was
          /\ "ended" \notin journal[HeadTurn(l)]
      BY <1>0, <1>3, <2>2, <2>3 DEF Journalled, Events
  <2>7. QED
      BY <1>6, <2>1, <2>5, <2>6 DEF Active, Begun, Unended
<1>8. CASE EnterExecution(l) \/ PrepareFails(l) \/ OpenFails(l) \/ (Submit(l) /\ stopping)
  <2>1. /\ UNCHANGED <<journal, again>>
        /\ \/ Go(l, "status") \/ (drain[l].pc = "exec" /\ Go(l, "begin"))
           \/ (drain[l].pc = "submit" /\ Go(l, "rejectError"))
      BY <1>8 DEF EnterExecution, PrepareFails, OpenFails, Submit, At
  <2>2. drain[l].pc = "exec" =>
          /\ "started" \in journal[HeadTurn(l)] => drain[l].was
          /\ "ended" \notin journal[HeadTurn(l)]
      BY <1>0 DEF Recalls, Writes, Unended
  <2>3. drain[l].pc = "submit" =>
          "started" \in journal[HeadTurn(l)] /\ "ended" \notin journal[HeadTurn(l)]
      BY <1>0 DEF Writes, Begun, Unended
  <2>4. QED
      BY <1>6, <2>1, <2>2, <2>3 DEF Active, Begun, Unended
<1>9. CASE BeginTurn(l)
  <2>1. /\ drain[l].pc = "begin" /\ Go(l, "submit") /\ "ended" \notin journal[HeadTurn(l)]
        /\ "started" \in journal[HeadTurn(l)] => drain[l].was
      BY <1>0, <1>9 DEF BeginTurn, Recalls, Writes, Unended, At
  <2>2. CASE Recovering(l)
    <3>1. UNCHANGED <<journal, again>> /\ "started" \in journal[HeadTurn(l)]
        BY <1>9, <2>2 DEF BeginTurn, Recovering, Events
    <3>2. QED
        BY <1>6, <2>1, <3>1 DEF Active, Begun, Unended
  <2>3. CASE ~Recovering(l)
    <3>1. "started" \notin journal[HeadTurn(l)]
        BY <2>1, <2>3 DEF Recovering, Events
    <3>2. Record(HeadTurn(l), "started") /\ again' = again
        BY <1>9, <2>3, <3>1 DEF BeginTurn
    <3>3. journal'[HeadTurn(l)] = journal[HeadTurn(l)] \cup {"started"}
        BY <1>0, <1>3, <3>2, Recorded
    <3>4. QED
        BY <1>6, <2>1, <3>2, <3>3 DEF Active, Begun, Unended
  <2>4. QED
      BY <2>2, <2>3
<1>10. CASE CloseHead(l) \/ RejectError(l) \/ RejectFinish(l) \/ FailBegin(l) \/ FailError(l)
            \/ FailFinish(l)
  <2>1. PICK kind \in Kinds, pc \in Active \ {"control", "open"} :
          /\ Record(HeadTurn(l), kind) /\ Go(l, pc) /\ again' = again
          /\ drain[l].pc \in Begun \ {"stream"} \/ (drain[l].pc = "failBegin" /\ kind = "started")
          /\ pc \in Unended => kind # "ended"
          /\ pc \notin {"exec", "begin"}
    <3>1. CASE CloseHead(l) \/ RejectFinish(l)
      <4>1. /\ Record(HeadTurn(l), "ended") /\ Go(l, "status") /\ again' = again
            /\ drain[l].pc \in Begun \ {"stream"}
          BY <3>1 DEF CloseHead, RejectFinish, At, Begun
      <4>2. QED
          BY <4>1 DEF Kinds, Active, Unended, Begun
    <3>2. CASE RejectError(l) \/ FailError(l)
      <4>1. /\ Record(HeadTurn(l), "error") /\ again' = again
            /\ Go(l, "rejectFinish") \/ Go(l, "failFinish")
            /\ drain[l].pc \in Begun \ {"stream"}
          BY <3>2 DEF RejectError, FailError, At, Begun
      <4>2. QED
          BY <4>1 DEF Kinds, Active, Unended, Begun
    <3>3. CASE FailBegin(l)
        BY <3>3 DEF FailBegin, At, Kinds, Active, Unended, Begun
    <3>4. CASE FailFinish(l)
        BY <3>4 DEF FailFinish, At, Kinds, Active, Unended, Begun
    <3>5. QED
        BY <1>10, <3>1, <3>2, <3>3, <3>4
  <2>2. journal'[HeadTurn(l)] = journal[HeadTurn(l)] \cup {kind}
      BY <1>0, <1>3, <2>1, Recorded
  <2>3. "started" \in journal'[HeadTurn(l)] /\ "ended" \notin journal[HeadTurn(l)]
      BY <1>0, <2>1, <2>2 DEF Writes, Unended, Begun
  <2>4. QED
      BY <1>6, <2>1, <2>2, <2>3
<1>11. CASE CheckStatus(l)
  <2>1. /\ Go(l, AfterStatus(l)) /\ UNCHANGED <<journal, again>>
        /\ AfterStatus(l) \in {"ack", "drop", "again", "failBegin", "failError"}
      BY <1>11 DEF CheckStatus, AfterStatus
  <2>2. CASE AfterStatus(l) \in {"drop", "again"}
    <3>1. drain'[l].pc \in {"drop", "again"}
        BY <1>0, <2>1, <2>2 DEF Go, Task
    <3>2. Sound(l)'
        BY <3>1 DEF Sound, Fresh, Admits, Recalls, Writes, Active, Begun, Unended, At
    <3>3. QED
        BY <1>2, <1>4, <2>1, <3>2, RerunDrain DEF vars, Active
  <2>3. CASE AfterStatus(l) \notin {"drop", "again"}
    <3>1. /\ AfterStatus(l) # "ack" => "ended" \notin journal[HeadTurn(l)]
          /\ AfterStatus(l) = "failError" => "started" \in journal[HeadTurn(l)]
        BY <2>3 DEF AfterStatus, JournalStatus
    <3>2. QED
        BY <1>6, <2>1, <2>3, <3>1 DEF Active, Begun, Unended
  <2>4. QED
      BY <2>2, <2>3
<1>12. QED
    BY <1>7, <1>8, <1>9, <1>10, <1>11

\* The drain steps that start, stop and hear of an execution.
LEMMA RerunStream ==
  ASSUME DrainInv, RerunInv, DrainTypeOK', NEW l \in Leases,
         (Submit(l) /\ ~stopping) \/ Forward(l) \/ StreamEnds(l)
  PROVE  RerunInv'
<1>0. /\ DrainTypeOK /\ drain \in [Leases -> Task] /\ drain[l] \in Task /\ HeadIsFront
      /\ Admits(l) /\ Writes(l) /\ ExecutionOpen /\ Runs(run) /\ Runs(fin)
      /\ run \in Running \cup {None} /\ signal \in Controls
    BY ExclusiveParts DEF DrainInv, DrainTypeOK, TypeOK, RerunInv, Sound
<1>1. /\ drain[l].pc \in {"submit", "stream"} /\ drain'[l].pc \in {"stream", "status"}
      /\ drain'[l].head = drain[l].head /\ \A k \in Leases \ {l} : drain'[k] = drain[k]
    BY <1>0 DEF Submit, Forward, StreamEnds, Go, At, Task
<1>2. UNCHANGED <<vars, calls, journal, again>>
    BY DEF Submit, Forward, StreamEnds
<1>3. Sound(l)'
  <2>1. Fresh(l)' /\ Recalls(l)'
      BY <1>1 DEF Fresh, Recalls, At
  <2>2. Admits(l)'
      BY <1>0, <1>1, <1>2 DEF Admits, Front, At, Active, vars
  <2>3. Writes(l)'
      BY <1>0, <1>1, <1>2 DEF Writes, Begun, Unended, HeadTurn
  <2>4. QED
      BY <2>1, <2>2, <2>3 DEF Sound
<1>4. ExecutionOpen'
  <2>1. CASE Submit(l) /\ ~stopping
    <3>1. run' = [turn |-> HeadTurn(l), stop |-> "None"] /\ fin' = fin /\ drain[l].pc = "submit"
        BY <2>1 DEF Submit, At
    <3>2. fin = None /\ "ended" \notin journal[HeadTurn(l)]
        BY <1>0, <3>1, NothingRuns DEF Writes, Unended, Begun
    <3>3. QED
        BY <1>2, <3>1, <3>2 DEF ExecutionOpen
  <2>2. CASE Forward(l)
    <3>1. run' = Signalled(HeadTurn(l), signal) /\ fin' = fin /\ drain[l].pc = "stream"
        BY <2>2 DEF Forward, At
    <3>2. HeadTurn(l) \in Turns
        BY <1>0, <3>1, HeadTyped DEF Active
    <3>3. QED
        BY <1>0, <1>2, <3>1, <3>2, SignalledRun DEF ExecutionOpen
  <2>3. CASE StreamEnds(l)
      BY <1>0, <1>2, <2>3 DEF StreamEnds, ExecutionOpen
  <2>4. QED
      BY <2>1, <2>2, <2>3
<1>5. QED
    BY <1>1, <1>2, <1>3, <1>4, RerunDrain DEF vars

\* Admission of the head: what the drain remembers is what the journal says.
LEMMA RerunStart ==
  ASSUME DrainInv, RerunInv, DrainTypeOK', NEW l \in Leases, StartHead(l)
  PROVE  RerunInv'
<1>0. /\ DrainTypeOK /\ drain \in [Leases -> Task] /\ drain[l] \in Task /\ IInv
      /\ Fresh(l) /\ Unresumed /\ Journalled /\ EntriesAdmitted /\ NoRerun
    BY DEF DrainInv, DrainTypeOK, RerunInv, Sound
<1>1. /\ drain[l].head \in QueuedTurn /\ drain[l].head # None /\ drain[l].pc = "decide"
      /\ Start(l, HeadTurn(l)) /\ UNCHANGED <<journal, run, fin, calls, again>>
    BY <1>0 DEF StartHead, HeadIdle, Task, rest, At
<1>2. HeadTurn(l) \in Turns /\ drain[l].head.started \in BOOLEAN
    BY <1>1 DEF HeadTurn, QueuedTurn
<1>3. Reads(l, "control", drain[l].head) /\ drain'[l].was = drain[l].head.started
    BY <1>0, <1>2, ShiftStart DEF StartHead
<1>4. /\ Grows /\ DOMAIN pending' = DOMAIN pending /\ 1 \in DOMAIN pending
      /\ \A j \in DOMAIN pending : pending'[j].control = pending[j].control
      /\ pending'[1].started = (pending[1].started \/ pending[1].control # "Suspend")
      /\ AcceptedTurns' = AcceptedTurns
    BY <1>0, <1>1, <1>2, StartGrows
<1>5. Journalled' /\ EntriesAdmitted' /\ Unresumed' /\ NoRerun'
  <2>1. Journalled' /\ Unresumed' /\ NoRerun'
      BY <1>0, <1>1, <1>4 DEF Journalled, Unresumed, NoRerun
  <2>2. EntriesAdmitted'
      BY <1>0, <1>1, <1>4 DEF EntriesAdmitted, Grows
  <2>3. QED
      BY <2>1, <2>2
<1>6. HeadTurn(l) = Front.turn /\ drain[l].head.started = Front.started
    BY <1>0, <1>1 DEF Fresh
<1>7. Sound(l)'
  <2>1. /\ drain'[l].pc = "control" /\ HeadTurn(l)' = HeadTurn(l)
        /\ Front.control' = Front.control
        /\ Front.started' = (Front.started \/ Front.control # "Suspend")
      BY <1>3, <1>4 DEF Reads, HeadTurn, Front
  <2>2. Admits(l)'
      BY <2>1 DEF Admits, At
  <2>3. "started" \in journal[Front.turn] => Front.started \/ Front.control = "Cancel"
      BY <1>0, <1>4 DEF EntriesAdmitted, Front
  <2>4. Recalls(l)'
      BY <1>1, <1>3, <1>6, <2>1, <2>3 DEF Recalls, At
  <2>5. QED
      BY <2>1, <2>2, <2>4 DEF Sound, Fresh, Writes, Begun, Unended
<1>8. \A k \in Leases : Sound(k)'
  <2>1. ASSUME NEW k \in Leases, k # l PROVE Sound(k)'
    <3>1. drain'[k].pc \in {"none", "drop"}
        BY <1>1, <1>3, <2>1, Alone DEF Reads
    <3>2. QED
        BY <3>1 DEF Sound, Fresh, Admits, Recalls, Writes, Active, Begun, Unended, At
  <2>2. QED
      BY <1>7, <2>1
<1>9. ExecutionOpen'
  <2>1. run = None /\ fin = None
      BY <1>1, NothingRuns
  <2>2. QED
      BY <1>1, <2>1 DEF ExecutionOpen
<1>10. QED
    BY <1>5, <1>8, <1>9 DEF RerunInv

\* Acknowledgment: the next head is the one that was read.
LEMMA RerunAck ==
  ASSUME DrainInv, RerunInv, DrainTypeOK', NEW l \in Leases, AckHead(l)
  PROVE  RerunInv'
<1>0. /\ DrainTypeOK /\ drain \in [Leases -> Task] /\ drain[l] \in Task /\ IInv
      /\ Unresumed /\ Journalled /\ EntriesAdmitted /\ NoRerun
    BY DEF DrainInv, DrainTypeOK, RerunInv, Sound
<1>1. /\ drain[l].pc = "ack" /\ Acknowledge(l, HeadTurn(l))
      /\ UNCHANGED <<journal, run, fin, calls, again>>
    BY DEF AckHead, rest, At
<1>2. HeadTurn(l) \in Turns
    BY <1>0, <1>1, HeadTyped DEF Active, DrainInv
<1>3. Reads(l, "top", Snapshot(pending'))
  <2>1. "top" \in Stages /\ Snapshot(pending') \in QueuedTurn \cup {None}
      BY SnapshotTyped DEF Stages, DrainTypeOK, TypeOK
  <2>2. QED
      BY <1>0, <2>1, ShiftHead DEF AckHead
<1>4. /\ \A i \in DOMAIN pending' : i + 1 \in DOMAIN pending /\ pending'[i] = pending[i + 1]
      /\ AcceptedTurns' = AcceptedTurns
    BY <1>0, <1>1, <1>2, AckMoves
<1>5. Journalled' /\ EntriesAdmitted' /\ Unresumed' /\ NoRerun'
  <2>1. Journalled' /\ Unresumed' /\ NoRerun'
      BY <1>0, <1>1, <1>4 DEF Journalled, Unresumed, NoRerun
  <2>2. EntriesAdmitted'
      BY <1>0, <1>1, <1>4 DEF EntriesAdmitted
  <2>3. QED
      BY <2>1, <2>2
<1>6. Sound(l)'
  <2>1. Fresh(l)'
      BY <1>3 DEF Fresh, Reads, Snapshot, HeadTurn, Front
  <2>2. QED
      BY <1>3, <2>1 DEF Reads, Sound, Admits, Recalls, Writes, Active, Begun, Unended, At
<1>7. \A k \in Leases : Sound(k)'
  <2>1. ASSUME NEW k \in Leases, k # l PROVE Sound(k)'
    <3>1. drain'[k].pc \in {"none", "drop"}
        BY <1>1, <1>3, <2>1, Alone DEF Reads
    <3>2. QED
        BY <3>1 DEF Sound, Fresh, Admits, Recalls, Writes, Active, Begun, Unended, At
  <2>2. QED
      BY <1>6, <2>1
<1>8. ExecutionOpen'
  <2>1. run = None /\ fin = None
      BY <1>1, NothingRuns
  <2>2. QED
      BY <1>1, <2>1 DEF ExecutionOpen
<1>9. QED
    BY <1>5, <1>7, <1>8 DEF RerunInv

\* Drains that come and go while the queue stays as it is.
LEMMA RerunTasks ==
  ASSUME DrainInv, RerunInv, DrainTypeOK',
         \/ \E l \in Leases : Exit(l) \/ (ReleaseIdle(l) /\ ~UNCHANGED vars)
         \/ Reboot \/ \E c \in calls : Wake(c)
  PROVE  RerunInv'
<1>0. /\ drain \in [Leases -> Task] /\ Unresumed /\ Journalled /\ EntriesAdmitted /\ NoRerun
      /\ ExecutionOpen /\ \A k \in Leases : Sound(k)
    BY DEF DrainInv, DrainTypeOK, RerunInv
<1>1. ASSUME UNCHANGED <<pending, accepted, journal, again>>, Unresumed',
             run' \in {run, None}, fin' \in {fin, None},
             \A k \in Leases : drain'[k] = drain[k] \/
                               drain'[k].pc \in {"none", "drop", "spawn", "again", "peek"}
      PROVE  RerunInv'
  <2>1. Journalled' /\ EntriesAdmitted' /\ NoRerun' /\ ExecutionOpen'
      BY <1>0, <1>1 DEF Journalled, EntriesAdmitted, NoRerun, ExecutionOpen, AcceptedTurns
  <2>2. ASSUME NEW k \in Leases PROVE Sound(k)'
    <3>1. CASE drain'[k] = drain[k]
        BY <1>0, <1>1, <3>1 DEF Sound, Fresh, Admits, Recalls, Writes, At, HeadTurn, Front
    <3>2. CASE drain'[k].pc \in {"none", "drop", "spawn", "again", "peek"}
        BY <3>2 DEF Sound, Fresh, Admits, Recalls, Writes, Active, Begun, Unended, At
    <3>3. QED
        BY <1>1, <3>1, <3>2
  <2>3. QED
      BY <1>1, <2>1, <2>2 DEF RerunInv
<1>2. ASSUME NEW l \in Leases, Exit(l) \/ ReleaseIdle(l) PROVE RerunInv'
  <2>1. \A k \in Leases : drain'[k] = drain[k] \/ drain'[k].pc \in {"none", "drop", "again"}
      BY <1>0, <1>2 DEF Exit, ReleaseIdle, Go, NoTask, Task
  <2>2. UNCHANGED <<pending, accepted, journal, again, run, fin, calls>>
      BY <1>2 DEF Exit, ReleaseIdle, Release, DropLease, durable, history, vars, rest
  <2>3. QED
      BY <1>0, <1>1, <2>1, <2>2 DEF Unresumed
<1>3. CASE Reboot
  <2>1. \A k \in Leases : drain'[k].pc = "none"
      BY <1>3 DEF Reboot, NoTask
  <2>2. UNCHANGED <<pending, accepted, journal, again>> /\ run' = None /\ fin' = None
      BY <1>3 DEF Reboot, Crash, durable, history
  <2>3. Unresumed'
      BY <1>3 DEF Reboot, Unresumed
  <2>4. QED
      BY <1>1, <2>1, <2>2, <2>3
<1>4. ASSUME NEW c \in calls, Wake(c) PROVE RerunInv'
  <2>1. \A k \in Leases : drain'[k] = drain[k] \/ drain'[k].pc = "spawn"
      BY <1>0, <1>4 DEF Wake, NoTask
  <2>2. UNCHANGED <<pending, accepted, journal, again, run, fin>> /\ calls' \subseteq calls
      BY <1>4 DEF Wake, Claim, durable, history, vars, notes
  <2>3. QED
      BY <1>0, <1>1, <2>1, <2>2 DEF Unresumed
<1>5. QED
    BY <1>2, <1>3, <1>4

\* The harness and the finalizer write the journal of a turn that has begun.
LEMMA RerunHarness ==
  ASSUME DrainInv, RerunInv, DrainTypeOK', Harness \/ FinalizerFails
  PROVE  RerunInv'
<1>0. /\ DrainTypeOK /\ HeadIsFront /\ Runs(run) /\ Runs(fin) /\ (run # None => fin = None)
      /\ run \in Running \cup {None} /\ fin \in Finalizer \cup {None} /\ IInv
      /\ Unresumed /\ Journalled /\ EntriesAdmitted /\ NoRerun
      /\ ExecutionOpen /\ \A k \in Leases : Sound(k)
    BY ExclusiveParts DEF DrainInv, DrainTypeOK, RerunInv
<1>1. UNCHANGED <<vars, drain, calls, again>>
    BY DEF Harness, RunReturns, RunStops, Finalize, FinalizerStep, FinalizerFails, others, notes
<1>2. Unresumed' /\ NoRerun'
    BY <1>0, <1>1 DEF Unresumed, NoRerun
<1>3. CASE UNCHANGED journal
  <2>1. Journalled' /\ EntriesAdmitted' /\ \A k \in Leases : Sound(k)'
      BY <1>0, <1>1, <1>3 DEF Journalled, EntriesAdmitted, AcceptedTurns, Sound, Fresh, Admits,
         Recalls, Writes, At, HeadTurn, Front, vars
  <2>2. ExecutionOpen'
    <3>1. CASE RunReturns \/ RunStops
      <4>1. fin'.turn = run.turn /\ run' = None /\ run # None
          BY <3>1 DEF RunReturns, RunStops, Finalize
      <4>2. QED
          BY <1>0, <1>3, <4>1 DEF ExecutionOpen
    <3>2. CASE FinalizerFails
      <4>1. fin # None /\ fin.step # "send" /\ run' = run /\ \E s : FinGo(s)
          BY <3>2 DEF FinalizerFails
      <4>2. fin'.turn = fin.turn
          BY <1>0, <4>1 DEF FinGo, Finalizer
      <4>3. QED
          BY <1>0, <1>3, <4>1, <4>2 DEF ExecutionOpen
    <3>3. CASE FinalizerStep
      <4>1. fin # None /\ fin.step # "send" /\ run' = run /\ \E s : FinGo(s)
          BY <3>3 DEF FinalizerStep
      <4>2. fin'.turn = fin.turn
          BY <1>0, <4>1 DEF FinGo, Finalizer
      <4>3. QED
          BY <1>0, <1>3, <4>1, <4>2 DEF ExecutionOpen
    <3>4. QED
        BY <3>1, <3>2, <3>3 DEF Harness
  <2>3. QED
      BY <1>2, <2>1, <2>2 DEF RerunInv
<1>4. CASE ~UNCHANGED journal
  <2>0. FinalizerStep
      BY <1>4 DEF Harness, RunReturns, RunStops, Finalize, FinalizerFails
  <2>1. PICK kind : Record(fin.turn, kind) /\ (kind = "ended" => FinGo("send"))
                    /\ (\E s : FinGo(s)) /\ fin # None /\ run' = run
      BY <2>0 DEF FinalizerStep
  <2>2. fin \in Finalizer /\ fin.turn \in Turns /\ fin'.turn = fin.turn
    <3>1. fin \in Finalizer
        BY <1>0, <2>1
    <3>2. QED
        BY <2>1, <3>1 DEF FinGo, Finalizer
  <2>3. kind = "ended" => fin'.step = "send"
      BY <2>1, <2>2 DEF FinGo, Finalizer
  <2>4. run = None /\ owner \in Leases /\ drain[owner].pc = "stream" /\ fin.turn = HeadTurn(owner)
      BY <1>0, <2>1 DEF Runs, At, DrainTypeOK, TypeOK
  <2>5. /\ \A t \in Turns : t # fin.turn => journal'[t] = journal[t]
        /\ journal'[fin.turn] = journal[fin.turn] \cup {kind}
        /\ "started" \in journal[fin.turn]
    <3>1. "started" \in journal[fin.turn]
        BY <1>0, <2>4 DEF Sound, Writes, Begun
    <3>2. QED
        BY <1>0, <2>1, <2>2, <3>1, Recorded
  <2>6. \A t \in Turns : "started" \in journal'[t] <=> "started" \in journal[t]
      BY <2>2, <2>5
  <2>7. Journalled'
      BY <1>0, <1>1, <2>5 DEF Journalled, AcceptedTurns, vars
  <2>8. EntriesAdmitted'
    <3>1. \A i \in DOMAIN pending : pending[i].turn \in Turns
        BY <1>0, TurnsTyped DEF PendingTurns
    <3>2. QED
        BY <1>0, <1>1, <2>6, <3>1 DEF EntriesAdmitted, vars
  <2>9. ASSUME NEW k \in Leases PROVE Sound(k)'
    <3>1. CASE k = owner
      <4>1. Sound(k) /\ drain'[k].pc = "stream" /\ HeadTurn(k)' = fin.turn
          BY <1>0, <1>1, <2>4, <3>1 DEF HeadTurn
      <4>2. Fresh(k)' /\ Recalls(k)'
          BY <4>1 DEF Fresh, Recalls, At
      <4>3. Admits(k)'
          BY <1>1, <4>1 DEF Sound, Admits, At, Front, vars
      <4>4. Writes(k)'
          BY <2>5, <4>1 DEF Writes, Begun, Unended
      <4>5. QED
          BY <4>2, <4>3, <4>4 DEF Sound
    <3>2. CASE k # owner
      <4>1. drain'[k].pc \in {"none", "drop"}
          BY <1>1, <2>4, <3>2, Alone
      <4>2. QED
          BY <4>1 DEF Sound, Fresh, Admits, Recalls, Writes, Active, Begun, Unended, At
    <3>3. QED
        BY <3>1, <3>2
  <2>10. ExecutionOpen'
    <3>1. fin.step # "send"
        BY <2>0 DEF FinalizerStep
    <3>2. QED
        BY <1>0, <2>1, <2>2, <2>3, <2>4, <2>5, <3>1 DEF ExecutionOpen
  <2>11. QED
      BY <1>2, <2>7, <2>8, <2>9, <2>10 DEF RerunInv
<1>5. QED
    BY <1>3, <1>4

\* Client calls and a shutdown, as long as no suspension is taken back.
LEMMA RerunClients ==
  ASSUME "Run" \notin Requests \/ ~Resumable, DrainInv, RerunInv, DrainTypeOK',
         \/ Clients \/ BeginShutdown \/ StopHarness \/ UNCHANGED drainVars
         \/ \E c \in calls : \/ Replay(c) \/ ResumeControl(c) \/ Signal(c)
                           \/ WakeFails(c) \/ ReplayFails(c)
  PROVE  RerunInv'
<1>0. /\ IInv /\ DrainTypeOK /\ None \in Callers /\ "Run" \in Controls /\ TypeOK'
      /\ run \in Running \cup {None} /\ calls \subseteq Call /\ Unresumed /\ EntriesAdmitted
    BY DEF DrainInv, DrainTypeOK, Callers, Controls, RerunInv
<1>1. ASSUME UNCHANGED <<vars, journal, drain, fin, again>>, run = None => run' = None,
             run # None => run'.turn = run.turn, Unresumed'
      PROVE  RerunInv'
    BY <1>0, <1>1, StillGrows, RerunClient DEF vars
<1>2. ASSUME NEW c \in calls, NEW s \in {"signal", "wake"}, Step(c, s) PROVE Unresumed'
  <2>1. [c EXCEPT !.step = s].step = s
      BY <1>0 DEF Call
  <2>2. QED
      BY <1>0, <1>2, <2>1 DEF Step, Unresumed
<1>3. CASE UNCHANGED drainVars \/ (\E t \in Turns : Retry(t))
           \/ (\E t \in PendingTurns : Resume(t)) \/ BeginShutdown \/ \E c \in calls : WakeFails(c)
  <2>1. Unresumed'
      BY <1>0, <1>3 DEF BeginShutdown, drainVars, runtime, Retry, Resume, WakeFails, Unresumed
  <2>2. QED
      BY <1>1, <1>3, <2>1 DEF BeginShutdown, drainVars, runtime, notes, Retry, Resume, WakeFails
<1>4. ASSUME NEW c \in calls, Replay(c) \/ ReplayFails(c) PROVE RerunInv'
    BY <1>1, <1>2, <1>4 DEF Replay, ReplayFails, notes
<1>5. CASE StopHarness
    BY <1>0, <1>1, <1>5 DEF StopHarness, Running, Unresumed, notes
<1>6. ASSUME NEW c \in calls, Signal(c) PROVE RerunInv'
  <2>1. c.turn \in Turns \cup {None} /\ c.control \in Controls
      BY <1>0 DEF Call
  <2>2. (run = None => run' = None) /\ (run # None => run'.turn = run.turn)
      BY <1>0, <1>6, <2>1, SignalledRun DEF Signal
  <2>3. QED
      BY <1>1, <1>2, <1>6, <2>2 DEF Signal, notes
<1>7. ASSUME NEW t \in Turns, NEW k \in Keys \cup {None}, NEW a \in Attentions, Accept(t, k, a)
      PROVE  RerunInv'
  <2>1. /\ Grows
        /\ \A i \in DOMAIN pending :
              /\ pending'[i].started = pending[i].started
              /\ pending'[i].control \in {pending[i].control, "Cancel"}
      BY <1>0, <1>7, EnqueueGrows DEF Accept
  <2>2. UNCHANGED <<journal, drain, run, fin, again>> /\ Unresumed'
      BY <1>0, <1>7 DEF Accept, Unresumed
  <2>3. \A i \in DOMAIN pending : pending'[i].control = "Run" => pending[i].control = "Run"
      BY <2>1
  <2>4. QED
      BY <1>0, <2>1, <2>2, <2>3, RerunClient
<1>8. ASSUME NEW i \in DOMAIN pending, NEW c \in Controls, Control(i, c),
             UNCHANGED <<journal, drain, run, fin, again>>, Unresumed',
             c = "Run" => pending[i].control = "Run", c = "Suspend" => Resumable
      PROVE  RerunInv'
  <2>1. /\ Grows
        /\ \A j \in DOMAIN pending :
              /\ pending'[j].started = pending[j].started
              /\ pending'[j].control = IF j = i THEN c ELSE pending[j].control
      BY <1>0, <1>8, ControlGrows DEF Control
  <2>2. \A j \in DOMAIN pending :
          /\ pending'[j].control = "Run" => pending[j].control = "Run"
          /\ ~Resumable => pending'[j].control \in {pending[j].control, "Run", "Cancel"}
      BY <1>8, <2>1 DEF Controls
  <2>3. QED
      BY <1>0, <1>8, <2>1, <2>2, RerunClient
<1>9. ASSUME NEW i \in DOMAIN pending, NEW c \in Controls, Ask(i, c) PROVE RerunInv'
  <2>1. /\ Control(i, c) /\ UNCHANGED <<journal, drain, run, fin, again>>
        /\ c # "Run" /\ (c = "Suspend" => Resumable)
      BY <1>9 DEF Ask
  <2>2. Unresumed'
      BY <1>0, <1>9 DEF Ask, Unresumed
  <2>3. QED
      BY <1>8, <2>1, <2>2
<1>10. ASSUME NEW c \in calls, ResumeControl(c) PROVE RerunInv'
  <2>1. "Run" \in Requests /\ ~Resumable
      BY <1>0, <1>10 DEF ResumeControl, Unresumed
  <2>2. Unresumed'
      BY <2>1 DEF Unresumed
  <2>3. CASE UNCHANGED <<vars, again>>
      BY <1>1, <1>10, <2>2, <2>3 DEF ResumeControl
  <2>4. ASSUME NEW i \in DOMAIN pending, Control(i, "Run"), again' = again PROVE RerunInv'
    <3>1. pending[i].control # "Cancel"
        BY <2>4 DEF Control, UpdateControl, MayControl
    <3>2. pending[i].control # "Suspend"
        BY <1>0, <2>1 DEF EntriesAdmitted
    <3>3. pending[i] \in QueuedTurn
        BY <1>0 DEF DrainTypeOK, TypeOK
    <3>4. pending[i].control = "Run"
        BY <3>1, <3>2, <3>3 DEF QueuedTurn, Controls
    <3>5. QED
        BY <1>0, <1>8, <1>10, <2>2, <2>4, <3>4 DEF ResumeControl
  <2>5. QED
      BY <1>10, <2>3, <2>4 DEF ResumeControl, notes
<1>11. QED
    BY <1>3, <1>4, <1>5, <1>6, <1>7, <1>9, <1>10 DEF Clients

LEMMA RerunStep ==
  ASSUME "Run" \notin Requests \/ ~Resumable, DrainInv, RerunInv, DrainTypeOK',
         [DrainNext]_drainVars
  PROVE  RerunInv'
<1>1. ASSUME NEW l \in Leases, DrainStep(l) \/ DrainFails(l) \/ OpenFails(l) \/ PrepareFails(l)
      PROVE  RerunInv'
    BY <1>1, RerunReads, RerunWorks, RerunStream, RerunStart, RerunAck, RerunTasks DEF DrainStep
<1>2. QED
    BY <1>1, RerunTasks, RerunHarness, RerunClients DEF DrainNext, CallStep, Faults

LEMMA RerunInvariance ==
  ASSUME "Run" \notin Requests \/ ~Resumable
  PROVE  DrainSpec => [](DrainInv /\ RerunInv)
<1>1. DrainInit => RerunInv
  <2> SUFFICES ASSUME DrainInit PROVE RerunInv
      OBVIOUS
  <2>1. \A l \in Leases : drain[l].pc = "none"
      BY DEF DrainInit, NoTask
  <2>2. \A l \in Leases : Sound(l)
      BY <2>1, SoundIdle
  <2>3. QED
      BY <2>2 DEF DrainInit, Init, RerunInv, Unresumed, Journalled, EntriesAdmitted,
         ExecutionOpen, NoRerun
<1>2. DrainInv /\ DrainInv' /\ RerunInv /\ [DrainNext]_drainVars => RerunInv'
    BY RerunStep DEF DrainInv
<1>3. QED
    BY <1>1, <1>2, DrainInvariance, PTL DEF DrainSpec

\* No execution begins from scratch twice, through crashes, failing storage, refused
\* submissions and shutdowns, where no suspension can be taken back: an executor that
\* does not suspend, or clients that do not resume.  (With both, a suspension between
\* the peek of run_queue and its start loses the admission.)
THEOREM NoRerunCorrect ==
  ASSUME "Run" \notin Requests \/ ~Resumable
  PROVE  DrainSpec => []NoRerun
<1>1. RerunInv => NoRerun
    BY DEF RerunInv
<1>2. QED
    BY <1>1, RerunInvariance, PTL

\* The journal of a turn is not written, and the turn not started, after its end.
LEMMA EndStep ==
  ASSUME DrainInv, RerunInv, [DrainNext]_drainVars, NEW t \in Turns, "ended" \in journal[t]
  PROVE  journal'[t] = journal[t] /\ ((run' # None /\ run'.turn = t) => run # None)
<1>0. /\ DrainTypeOK /\ HeadIsFront /\ ExecutionOpen /\ \A l \in Leases : Sound(l)
      /\ run \in Running \cup {None} /\ fin \in Finalizer \cup {None} /\ calls \subseteq Call
    BY DEF DrainInv, DrainTypeOK, RerunInv
<1>1. CASE \/ UNCHANGED drainVars \/ Clients \/ Reboot \/ BeginShutdown \/ StopHarness
           \/ \E c \in calls : \/ Replay(c) \/ ResumeControl(c) \/ Wake(c)
                             \/ WakeFails(c) \/ ReplayFails(c)
    BY <1>1 DEF drainVars, runtime, Clients, Accept, Retry, Resume, Ask, Reboot, BeginShutdown,
       StopHarness, Replay, ResumeControl, Wake, WakeFails, ReplayFails
<1>2. ASSUME NEW c \in calls, Signal(c)
      PROVE  journal' = journal /\ (run = None => run' = None)
  <2>1. c.turn \in Turns \cup {None} /\ c.control \in Controls
      BY <1>0 DEF Call
  <2>2. QED
      BY <1>0, <1>2, <2>1, SignalledRun DEF Signal
<1>3. CASE Harness \/ FinalizerFails
  <2>1. run' # None => run' = run
      BY <1>3 DEF Harness, RunReturns, RunStops, Finalize, FinalizerStep, FinalizerFails
  <2>2. journal' = journal \/ (FinalizerStep /\ \E k : Record(fin.turn, k))
      BY <1>3 DEF Harness, RunReturns, RunStops, Finalize, FinalizerStep, FinalizerFails
  <2>3. FinalizerStep => fin.turn \in Turns /\ fin.turn # t
    <3>1. FinalizerStep => fin \in Finalizer /\ fin.step # "send" /\ fin # None
        BY <1>0 DEF FinalizerStep
    <3>2. QED
        BY <1>0, <3>1 DEF ExecutionOpen, Finalizer
  <2>4. QED
      BY <1>0, <2>1, <2>2, <2>3, Recorded
<1>4. ASSUME NEW l \in Leases, DrainStep(l) \/ DrainFails(l) \/ OpenFails(l) \/ PrepareFails(l)
      PROVE  journal'[t] = journal[t] /\ ((run' # None /\ run'.turn = t) => run # None)
  <2>0. drain[l].pc \in Unended => HeadTurn(l) \in Turns /\ HeadTurn(l) # t
    <3>1. Unended \subseteq Active
        BY DEF Unended, Begun, Active
    <3>2. drain[l].pc \in Unended => "ended" \notin journal[HeadTurn(l)]
        BY <1>0 DEF Sound, Writes
    <3>3. QED
        BY <1>0, <3>1, <3>2, HeadTyped
  <2>1. CASE CloseHead(l) \/ BeginTurn(l) \/ RejectError(l) \/ RejectFinish(l)
             \/ FailBegin(l) \/ FailError(l) \/ FailFinish(l)
    <3>1. drain[l].pc \in Unended /\ run' = run
        BY <2>1 DEF CloseHead, BeginTurn, RejectError, RejectFinish, FailBegin, FailError,
           FailFinish, Unended, Begun, At, rest
    <3>2. journal' = journal \/ \E k : Record(HeadTurn(l), k)
        BY <2>1 DEF CloseHead, BeginTurn, RejectError, RejectFinish, FailBegin, FailError,
           FailFinish
    <3>3. QED
        BY <1>0, <2>0, <3>1, <3>2, Recorded
  <2>2. CASE Submit(l)
    <3>1. drain[l].pc \in Unended /\ journal' = journal
          /\ (run' = run \/ run' = [turn |-> HeadTurn(l), stop |-> "None"])
        BY <2>2 DEF Submit, Unended, Begun, At
    <3>2. QED
        BY <2>0, <3>1
  <2>3. CASE Forward(l)
    <3>1. drain[l].pc \in Active /\ journal' = journal /\ run' = Signalled(HeadTurn(l), signal)
        BY <2>3 DEF Forward, At, Active
    <3>2. HeadTurn(l) \in Turns /\ signal \in Controls
        BY <1>0, <3>1, HeadTyped DEF DrainTypeOK, TypeOK
    <3>3. QED
        BY <1>0, <3>1, <3>2, SignalledRun
  <2>4. CASE Spawn(l) \/ Top(l) \/ Peek(l) \/ ReleaseIdle(l) \/ StartHead(l) \/ ReadControl(l)
             \/ OpenHead(l) \/ EnterExecution(l) \/ PrepareFails(l) \/ StreamEnds(l)
             \/ CheckStatus(l) \/ AckHead(l) \/ Exit(l) \/ DrainFails(l) \/ OpenFails(l)
      BY <2>4 DEF Spawn, Top, Peek, ReleaseIdle, StartHead, ReadControl, OpenHead,
         EnterExecution, PrepareFails, StreamEnds, CheckStatus, AckHead, Exit, DrainFails,
         OpenFails, rest
  <2>5. QED
      BY <1>4, <2>1, <2>2, <2>3, <2>4 DEF DrainStep
<1>5. QED
    BY <1>1, <1>2, <1>3, <1>4 DEF DrainNext, CallStep, Faults

\* The end of a turn is final: no recovery, finalizer or failing drain writes to its
\* journal or executes it again, under the condition of NoRerunCorrect.
THEOREM EndIsFinalCorrect ==
  ASSUME "Run" \notin Requests \/ ~Resumable
  PROVE  DrainSpec => EndIsFinal
<1>1. DrainInv /\ RerunInv /\ [DrainNext]_drainVars =>
        [\A t \in Turns : "ended" \in journal[t] =>
           /\ journal'[t] = journal[t]
           /\ (run' # None /\ run'.turn = t) => run # None]_drainVars
    BY EndStep
<1>2. QED
    BY <1>1, RerunInvariance, PTL DEF DrainSpec, EndIsFinal

--------------------------------------------------------------------------------
(* Observers hear the end of what they observe.                                 *)

\* Calls that are not the one who looks, and observers that stay, change nothing.
LEMMA ObserversKept ==
  ASSUME ObserverInv, observers' \subseteq observers, PendingTurns \subseteq PendingTurns',
         \A c \in calls : c.step = "replay" => c \in calls', CallsKnown',
         \A l \in Leases : At(l, "ack")' => At(l, "ack") /\ HeadTurn(l)' = HeadTurn(l)
  PROVE  ObserverInv'
<1>1. \A o \in observers : Looks(o) => Looks(o)'
    BY DEF Looks
<1>2. \A o \in observers' : Served(o)'
    BY <1>1 DEF ObserverInv, Served
<1>3. \A l \in Leases : AckSilent(l)'
    BY <1>1 DEF ObserverInv, AckSilent
<1>4. QED
    BY <1>2, <1>3 DEF ObserverInv

\* A call takes its next step.
LEMMA CallMoves ==
  ASSUME DrainTypeOK, CallsKnown, NEW c \in calls, NEW s \in {"signal", "wake"}, Step(c, s),
         AcceptedTurns' = AcceptedTurns, receipts' = receipts
  PROVE  CallsKnown' /\ \A d \in calls : d # c => d \in calls'
<1>1. [c EXCEPT !.step = s].step = s
    BY DEF DrainTypeOK, Call
<1>2. QED
    BY <1>1 DEF Step, CallsKnown

\* The observer of a retry is told of an end that is in the journal already, or
\* has missed it for good, or observes a turn that is queued.
LEMMA ObserverReplay ==
  ASSUME DrainInv, ObserverInv, NEW c \in calls, Replay(c) \/ ReplayFails(c)
  PROVE  ObserverInv'
<1>0. /\ DrainTypeOK /\ IInv /\ JournalBeforeAck /\ AckedEnd /\ CallsKnown
      /\ observers \subseteq Turns \X Callees /\ UNCHANGED <<vars, journal, drain>>
      /\ c.step = "replay" /\ c.turn \in AcceptedTurns /\ Step(c, "wake")
    BY DEF DrainInv, DrainTypeOK, ObserverInv, CallsKnown, Replay, ReplayFails
<1>1. /\ AcceptedTurns' = AcceptedTurns /\ PendingTurns' = PendingTurns
      /\ receipts' = receipts
    BY <1>0 DEF AcceptedTurns, PendingTurns, vars
<1>2. CallsKnown' /\ \A d \in calls : d # c => d \in calls'
    BY <1>0, <1>1, CallMoves
<1>3. ASSUME NEW o \in observers'
      PROVE  \/ o \in observers /\ o # <<c.turn, "retry">>
             \/ o = <<c.turn, "unread">>
             \/ o = <<c.turn, "accept">> /\ "ended" \notin journal[c.turn]
    BY <1>3 DEF Replay, ReplayFails, JournalStatus, Looked
<1>4. ASSUME NEW o \in observers, Looks(o), o # <<c.turn, "retry">> PROVE Looks(o)'
  <2>1. o = <<o[1], o[2]>>
      BY <1>0
  <2>2. CASE o[2] = "unread"
      BY <2>2 DEF Looks
  <2>3. CASE o[2] # "unread"
    <3>1. o[2] = "retry" /\ \E d \in calls : d.turn = o[1] /\ d.step = "replay"
        BY <1>4, <2>3 DEF Looks
    <3>2. o[1] # c.turn
        BY <1>4, <2>1, <3>1
    <3>3. QED
        BY <1>2, <3>1, <3>2 DEF Looks
  <2>4. QED
      BY <2>2, <2>3
<1>5. Looks(<<c.turn, "unread">>)'
    BY DEF Looks
<1>6. "ended" \notin journal[c.turn] => c.turn \in PendingTurns
    BY <1>0, QueuedOrAcked DEF JournalBeforeAck
<1>7. ASSUME NEW o \in observers' PROVE Served(o)'
  <2>1. CASE o \in observers /\ o # <<c.turn, "retry">>
      BY <1>1, <1>4, <2>1 DEF ObserverInv, Served
  <2>2. CASE o = <<c.turn, "unread">>
      BY <1>5, <2>2 DEF Served
  <2>3. CASE o = <<c.turn, "accept">> /\ "ended" \notin journal[c.turn]
      BY <1>1, <1>6, <2>3 DEF Served
  <2>4. QED
      BY <1>3, <2>1, <2>2, <2>3
<1>8. ASSUME NEW l \in Leases PROVE AckSilent(l)'
  <2> SUFFICES ASSUME drain[l].pc = "ack", NEW o \in observers', o[1] = HeadTurn(l)
               PROVE  Looks(o)'
      BY <1>0 DEF AckSilent, At, HeadTurn
  <2>1. "ended" \in journal[HeadTurn(l)]
      BY <1>0 DEF AckedEnd, At
  <2>2. CASE o \in observers /\ o # <<c.turn, "retry">>
      BY <1>4, <2>2 DEF ObserverInv, AckSilent, At
  <2>3. CASE o = <<c.turn, "unread">>
      BY <1>5, <2>3
  <2>4. CASE o = <<c.turn, "accept">> /\ "ended" \notin journal[c.turn]
      BY <2>1, <2>4
  <2>5. QED
      BY <1>3, <2>2, <2>3, <2>4
<1>9. QED
    BY <1>2, <1>7, <1>8 DEF ObserverInv

\* New observers observe a turn that is queued, or look at the journal.
LEMMA ObserverClients ==
  ASSUME "Run" \notin Requests, DrainInv, ObserverInv, Clients
  PROVE  ObserverInv'
<1>0. /\ IInv /\ DrainTypeOK /\ None \in Callers /\ CallsKnown
      /\ observers \subseteq Turns \X Callees
    BY DEF DrainInv, DrainTypeOK, ObserverInv, Callers
<1>1. ASSUME NEW t \in Turns, NEW k \in Keys \cup {None}, NEW a \in Attentions, Accept(t, k, a)
      PROVE  ObserverInv'
  <2>1. /\ AcceptedTurns' = AcceptedTurns \cup {t} /\ t \notin AcceptedTurns
        /\ t \in PendingTurns' /\ PendingTurns \subseteq PendingTurns'
      BY <1>0, <1>1, EnqueueGrows DEF Accept
  <2>2. /\ drain' = drain /\ observers' = observers \cup {<<t, "accept">>}
        /\ calls' = calls \cup {[turn |-> t, control |-> "Run", step |-> "wake"]}
        /\ receipts' = LiveReceipts \cup NewReceipts(t, None, k)
      BY <1>1 DEF Accept, Enqueue
  <2>3. CallsKnown'
    <3>1. \A r \in receipts' : r \in receipts \/ r.turn = t
        BY <2>2 DEF LiveReceipts, NewReceipts
    <3>2. QED
        BY <1>0, <2>1, <2>2, <3>1 DEF CallsKnown
  <2>4. \A o \in observers : Looks(o) => Looks(o)'
      BY <2>2 DEF Looks
  <2>5. \A o \in observers' : Served(o)'
    <3>1. \A o \in observers : Served(o)'
        BY <2>1, <2>4 DEF ObserverInv, Served
    <3>2. Served(<<t, "accept">>)'
        BY <2>1 DEF Served
    <3>3. QED
        BY <2>2, <3>1, <3>2
  <2>6. ASSUME NEW l \in Leases PROVE AckSilent(l)'
    <3> SUFFICES ASSUME drain[l].pc = "ack" PROVE AckSilent(l)'
        BY <2>2 DEF AckSilent, At
    <3>1. HeadTurn(l) # t
      <4>1. pending # <<>> /\ HeadTurn(l) = Front.turn
          BY DEF DrainInv, HeadIsFront, Active
      <4>2. Front.turn \in PendingTurns
          BY <1>0, <4>1 DEF PendingTurns, Front, DrainTypeOK, TypeOK
      <4>3. QED
          BY <1>0, <2>1, <4>1, <4>2, QueuedOrAcked
    <3>2. \A o \in observers' : o[1] = HeadTurn(l) => o \in observers
        BY <2>2, <3>1
    <3>3. \A o \in observers : o[1] = HeadTurn(l) => Looks(o)'
        BY <2>4 DEF ObserverInv, AckSilent, At
    <3>4. QED
        BY <2>2, <3>2, <3>3 DEF AckSilent, HeadTurn
  <2>7. QED
      BY <2>3, <2>5, <2>6 DEF ObserverInv
<1>2. ASSUME NEW t \in Turns, Retry(t) PROVE ObserverInv'
  <2>1. /\ UNCHANGED <<vars, drain>> /\ observers' = observers \cup {<<t, "retry">>}
        /\ calls' = calls \cup {[turn |-> t, control |-> "Run", step |-> "replay"]}
      BY <1>2 DEF Retry
  <2>2. /\ AcceptedTurns' = AcceptedTurns /\ PendingTurns' = PendingTurns
        /\ receipts' = receipts
      BY <2>1 DEF AcceptedTurns, PendingTurns, vars
  <2>3. t \in AcceptedTurns
      BY <1>0, <1>2 DEF Retry, LiveReceipts, CallsKnown
  <2>4. CallsKnown'
      BY <1>0, <2>1, <2>2, <2>3 DEF CallsKnown
  <2>5. (\A o \in observers : Looks(o) => Looks(o)') /\ Looks(<<t, "retry">>)'
    <3>1. \A o \in observers : Looks(o) => Looks(o)'
        BY <2>1 DEF Looks
    <3> DEFINE d == [turn |-> t, control |-> "Run", step |-> "replay"]
    <3>2. d \in calls' /\ d.turn = t /\ d.step = "replay"
        BY <2>1
    <3> HIDE DEF d
    <3>3. Looks(<<t, "retry">>)'
        BY <3>2 DEF Looks
    <3>4. QED
        BY <3>1, <3>3
  <2>6. \A o \in observers' : Served(o)'
      BY <2>1, <2>2, <2>5 DEF ObserverInv, Served
  <2>7. ASSUME NEW l \in Leases PROVE AckSilent(l)'
      BY <2>1, <2>5 DEF ObserverInv, AckSilent, At, HeadTurn
  <2>8. QED
      BY <2>4, <2>6, <2>7 DEF ObserverInv
<1>3. ASSUME NEW t, Resume(t) PROVE FALSE
    BY <1>3 DEF Resume
<1>4. ASSUME NEW i \in DOMAIN pending, NEW c \in Controls, Ask(i, c) PROVE ObserverInv'
  <2>1. AcceptedTurns' = AcceptedTurns /\ PendingTurns' = PendingTurns
      BY <1>0, <1>4, ControlGrows DEF Ask, Control
  <2>2. /\ UNCHANGED <<observers, drain, receipts>>
        /\ calls' = calls \cup {[turn |-> pending[i].turn, control |-> c, step |-> "signal"]}
      BY <1>4 DEF Ask, Control, UpdateControl
  <2>3. CallsKnown'
      BY <1>0, <2>1, <2>2 DEF CallsKnown
  <2>4. QED
      BY <2>1, <2>2, <2>3, ObserversKept DEF At, HeadTurn
<1>5. QED
    BY <1>1, <1>2, <1>3, <1>4 DEF Clients

\* The other calls, the harness, a shutdown and a crash.
LEMMA ObserverOthers ==
  ASSUME DrainInv, ObserverInv,
         \/ UNCHANGED drainVars \/ Harness \/ FinalizerFails \/ StopHarness \/ BeginShutdown
         \/ Reboot \/ \E c \in calls : ResumeControl(c) \/ Signal(c) \/ Wake(c) \/ WakeFails(c)
  PROVE  ObserverInv'
<1>0. DrainTypeOK /\ CallsKnown /\ observers \subseteq Turns \X Callees
      /\ drain \in [Leases -> Task]
    BY DEF DrainInv, DrainTypeOK, ObserverInv
<1>1. ASSUME UNCHANGED <<pending, accepted, receipts>>, observers' \subseteq observers,
             \A c \in calls : c.step = "replay" => c \in calls', CallsKnown',
             \A l \in Leases : drain'[l] = drain[l] \/ drain'[l].pc # "ack"
      PROVE  ObserverInv'
  <2>1. PendingTurns' = PendingTurns
      BY <1>1 DEF PendingTurns
  <2>2. \A l \in Leases : At(l, "ack")' => At(l, "ack") /\ HeadTurn(l)' = HeadTurn(l)
      BY <1>1 DEF At, HeadTurn
  <2>3. QED
      BY <1>1, <2>1, <2>2, ObserversKept
<1>2. ASSUME UNCHANGED <<accepted, receipts>>, calls' \subseteq calls PROVE CallsKnown'
    BY <1>0, <1>2 DEF CallsKnown, AcceptedTurns
<1>3. CASE UNCHANGED drainVars \/ Harness \/ FinalizerFails \/ StopHarness
  <2>1. UNCHANGED <<vars, observers, calls, drain>>
      BY <1>3 DEF drainVars, runtime, Harness, RunReturns, RunStops, Finalize, FinalizerStep,
         FinalizerFails, others, StopHarness
  <2>2. QED
      BY <1>1, <1>2, <2>1 DEF vars
<1>4. CASE BeginShutdown
  <2>1. /\ UNCHANGED <<vars, drain, observers>> /\ calls' \subseteq calls
        /\ \A c \in calls : c.turn = None
      BY <1>0, <1>4 DEF BeginShutdown, CallsKnown
  <2>2. CallsKnown' /\ PendingTurns' = PendingTurns
      BY <1>2, <2>1 DEF vars, PendingTurns
  <2>3. \A o \in observers : Looks(o) => Looks(o)'
    <3>1. \A o \in observers : o[1] \in Turns
        BY <1>0
    <3>2. QED
        BY <2>1, <3>1, NoneAssumption DEF Looks
  <2>4. QED
      BY <2>1, <2>2, <2>3 DEF ObserverInv, Served, AckSilent, At, HeadTurn
<1>5. CASE Reboot
  <2>1. /\ observers' = {} /\ UNCHANGED <<accepted, receipts>>
        /\ \A c \in calls' : c.step = "wake"
      BY <1>5 DEF Reboot, Crash, durable, history
  <2>2. CallsKnown'
      BY <1>0, <2>1 DEF CallsKnown, AcceptedTurns
  <2>3. QED
      BY <2>1, <2>2 DEF ObserverInv, AckSilent
<1>6. ASSUME NEW c \in calls, ResumeControl(c) PROVE FALSE
    BY <1>0, <1>6 DEF ResumeControl, CallsKnown
<1>7. ASSUME NEW c \in calls, Signal(c) PROVE ObserverInv'
  <2>1. UNCHANGED <<vars, drain, observers>> /\ Step(c, "wake") /\ c.step = "signal"
      BY <1>7 DEF Signal
  <2>2. CallsKnown' /\ \A d \in calls : d # c => d \in calls'
      BY <1>0, <2>1, CallMoves DEF AcceptedTurns, vars
  <2>3. QED
      BY <1>1, <2>1, <2>2 DEF vars
<1>8. ASSUME NEW c \in calls, Wake(c) \/ WakeFails(c) PROVE ObserverInv'
  <2>1. /\ UNCHANGED <<pending, accepted, receipts>> /\ observers' \subseteq observers
        /\ calls' = calls \ {c} /\ c.step = "wake"
      BY <1>8 DEF Wake, WakeFails, Claim, durable, history, vars, Unobserved
  <2>2. \A l \in Leases : drain'[l] = drain[l] \/ drain'[l].pc # "ack"
      BY <1>0, <1>8 DEF Wake, WakeFails, NoTask
  <2>3. QED
      BY <1>1, <1>2, <2>1, <2>2
<1>9. QED
    BY <1>3, <1>4, <1>5, <1>6, <1>7, <1>8

\* The drain tells the observers of its head before it acknowledges it.
LEMMA ObserverDrain ==
  ASSUME DrainInv, ObserverInv, DrainTypeOK', NEW l \in Leases,
         DrainStep(l) \/ DrainFails(l) \/ OpenFails(l) \/ PrepareFails(l)
  PROVE  ObserverInv'
<1>0. /\ DrainTypeOK /\ CallsKnown /\ drain \in [Leases -> Task] /\ drain[l] \in Task /\ IInv
      /\ HeadIsFront
    BY DEF DrainInv, DrainTypeOK, ObserverInv
<1>1. ASSUME UNCHANGED <<calls, accepted, receipts>>, observers' \subseteq observers,
             PendingTurns \subseteq PendingTurns',
             \A k \in Leases \ {l} : drain'[k] = drain[k], drain'[l].pc # "ack"
      PROVE  ObserverInv'
  <2>1. CallsKnown'
      BY <1>0, <1>1 DEF CallsKnown, AcceptedTurns
  <2>2. \A k \in Leases : At(k, "ack")' => At(k, "ack") /\ HeadTurn(k)' = HeadTurn(k)
      BY <1>1 DEF At, HeadTurn
  <2>3. QED
      BY <1>1, <2>1, <2>2, ObserversKept
<1>2. CASE Idles(l)
  <2>1. /\ UNCHANGED <<vars, calls>> /\ drain[l].pc \notin {"none", "drop"}
        /\ \A k \in Leases \ {l} : drain'[k] = drain[k]
        /\ drain'[l].pc = "ack" => Shifts(l, "ack")
      BY <1>0, <1>2, IdlesUnchanged, IdlesShift DEF Active
  <2>2. observers' \subseteq observers
      BY <1>2 DEF Idles, Spawn, Top, Peek, ReleaseIdle, ReadControl, OpenHead, CloseHead,
         EnterExecution, PrepareFails, BeginTurn, Submit, RejectError, RejectFinish,
         CheckStatus, FailBegin, FailError, FailFinish, DrainFails, OpenFails, Unobserved
  <2>3. PendingTurns' = PendingTurns
      BY <2>1 DEF PendingTurns, vars
  <2>4. CASE drain'[l].pc # "ack"
      BY <1>1, <2>1, <2>2, <2>3, <2>4 DEF vars
  <2>5. CASE drain'[l].pc = "ack"
    <3>1. observers' = Unobserved(HeadTurn(l))
      <4>1. CASE CheckStatus(l)
        <5>1. drain'[l].pc = AfterStatus(l)
            BY <1>0, <4>1 DEF CheckStatus, Go, Task
        <5>2. QED
            BY <2>5, <4>1, <5>1 DEF CheckStatus
      <4>2. CASE FailFinish(l)
          BY <4>2 DEF FailFinish
      <4>3. CASE Spawn(l) \/ Top(l) \/ Peek(l) \/ ReleaseIdle(l) \/ ReadControl(l)
                 \/ CloseHead(l) \/ EnterExecution(l) \/ PrepareFails(l) \/ BeginTurn(l)
          BY <1>0, <2>5, <4>3 DEF Spawn, Top, Peek, ReleaseIdle, ReadControl, CloseHead,
             EnterExecution, PrepareFails, BeginTurn, Go, Task
      <4>4. CASE (Submit(l) /\ stopping) \/ RejectError(l) \/ RejectFinish(l) \/ FailBegin(l)
                 \/ FailError(l) \/ DrainFails(l) \/ OpenFails(l)
          BY <1>0, <2>5, <4>4 DEF Submit, RejectError, RejectFinish, FailBegin, FailError,
             DrainFails, OpenFails, Go, Task
      <4>5. CASE OpenHead(l)
        <5>1. drain'[l].pc = AfterOpen(l)
            BY <1>0, <4>5 DEF OpenHead, Go, Task
        <5>2. QED
            BY <2>5, <5>1 DEF AfterOpen
      <4>6. QED
          BY <1>2, <4>1, <4>2, <4>3, <4>4, <4>5 DEF Idles
    <3>2. HeadTurn(l)' = HeadTurn(l)
        BY <2>1, <2>5 DEF Shifts, HeadTurn
    <3>3. \A o \in observers : Looks(o) => Looks(o)'
        BY <2>1 DEF Looks
    <3>4. \A o \in observers' : Served(o)'
        BY <2>2, <2>3, <3>3 DEF ObserverInv, Served
    <3>5. ASSUME NEW k \in Leases PROVE AckSilent(k)'
      <4>1. CASE k = l
          BY <3>1, <3>2, <4>1 DEF AckSilent, Unobserved
      <4>2. CASE k # l
          BY <2>1, <2>2, <3>3, <4>2 DEF ObserverInv, AckSilent, At, HeadTurn
      <4>3. QED
          BY <4>1, <4>2
    <3>6. CallsKnown'
        BY <1>0, <2>1 DEF CallsKnown, AcceptedTurns, vars
    <3>7. QED
        BY <3>4, <3>5, <3>6 DEF ObserverInv
  <2>6. QED
      BY <2>4, <2>5
<1>3. CASE (Submit(l) /\ ~stopping) \/ Forward(l) \/ StreamEnds(l) \/ ReleaseIdle(l) \/ Exit(l)
  <2>1. /\ UNCHANGED <<calls, accepted, receipts, observers, pending>>
      BY <1>3 DEF Submit, Forward, StreamEnds, ReleaseIdle, Exit, Release, DropLease, durable,
         history, vars, rest
  <2>2. /\ \A k \in Leases \ {l} : drain'[k] = drain[k]
        /\ drain'[l].pc # "ack"
      BY <1>0, <1>3 DEF Submit, Forward, StreamEnds, ReleaseIdle, Exit, Go, At, Task, NoTask
  <2>3. PendingTurns' = PendingTurns
      BY <2>1 DEF PendingTurns
  <2>4. QED
      BY <1>1, <2>1, <2>2, <2>3
<1>4. CASE StartHead(l)
  <2>1. /\ drain[l].head \in QueuedTurn /\ Start(l, HeadTurn(l))
        /\ UNCHANGED <<calls, observers>>
      BY <1>0, <1>4 DEF StartHead, HeadIdle, Task, rest
  <2>2. HeadTurn(l) \in Turns /\ drain[l].head.started \in BOOLEAN
      BY <2>1 DEF HeadTurn, QueuedTurn
  <2>3. Reads(l, "control", drain[l].head)
      BY <1>0, <1>4, <2>2, ShiftStart DEF StartHead
  <2>4. PendingTurns' = PendingTurns
      BY <1>0, <2>1, <2>2, StartGrows
  <2>5. QED
      BY <1>1, <2>1, <2>3, <2>4 DEF Reads, Start, history
<1>5. CASE AckHead(l)
  <2>1. /\ drain[l].pc = "ack" /\ Acknowledge(l, HeadTurn(l))
        /\ UNCHANGED <<calls, observers>>
      BY <1>5 DEF AckHead, At, rest
  <2>2. HeadTurn(l) \in Turns
      BY <1>0, <2>1, HeadTyped DEF Active
  <2>3. Reads(l, "top", Snapshot(pending'))
    <3>1. "top" \in Stages /\ Snapshot(pending') \in QueuedTurn \cup {None}
        BY SnapshotTyped DEF Stages, DrainTypeOK, TypeOK
    <3>2. QED
        BY <1>0, <1>5, <3>1, ShiftHead DEF AckHead
  <2>4. PendingTurns' = PendingTurns \ {HeadTurn(l)}
      BY <1>0, <2>1, <2>2, AckMoves
  <2>5. \A o \in observers : Looks(o) => Looks(o)'
      BY <2>1 DEF Looks
  <2>6. \A o \in observers' : Served(o)'
      BY <2>1, <2>4, <2>5 DEF ObserverInv, Served, AckSilent, At
  <2>7. ASSUME NEW k \in Leases PROVE AckSilent(k)'
    <3>1. drain'[k].pc # "ack"
        BY <2>1, <2>3, Alone DEF Reads
    <3>2. QED
        BY <3>1 DEF AckSilent, At
  <2>8. CallsKnown'
      BY <1>0, <2>1 DEF CallsKnown, AcceptedTurns, Acknowledge
  <2>9. QED
      BY <2>6, <2>7, <2>8 DEF ObserverInv
<1>6. QED
    BY <1>2, <1>3, <1>4, <1>5 DEF DrainStep, Idles

\* Whoever observes a turn hears the end of it, whatever fails, crashes or is retried, as
\* long as nobody resumes.  (resume_local_turn registers its observer before it knows
\* that the turn is still queued.)
THEOREM ObserversCorrect ==
  ASSUME "Run" \notin Requests
  PROVE  DrainSpec => []ObserversServed
<1>1. DrainInit => ObserverInv
    BY DEF DrainInit, Init, ObserverInv, CallsKnown, AckSilent
<1>2. DrainInv /\ DrainInv' /\ ObserverInv /\ [DrainNext]_drainVars => ObserverInv'
    BY ObserverClients, ObserverOthers, ObserverReplay, ObserverDrain
    DEF DrainInv, DrainNext, CallStep, Faults
<1>3. ObserverInv => ObserversServed
    BY DEF ObserverInv, Served, Looks, ObserversServed
<1>4. QED
    BY <1>1, <1>2, <1>3, DrainInvariance, PTL DEF DrainSpec

--------------------------------------------------------------------------------
(* Accepted work is never stranded.                                             *)

Waking == \E c \in calls : c.step \in {"replay", "signal", "wake"}
LetsGo == ~draining => \A l \in Leases : At(l, "drop") => owner # l

\* NeverStranded, when no owner is about to go.
LEMMA StrandParts ==
  ASSUME TypeOK, LetsGo
  PROVE  NeverStranded <=> (~draining /\ ~Idle => owner # None \/ Waking)
    BY DEF LetsGo, NeverStranded, Waking, TypeOK

\* A call that leads to a wake goes on leading to one.
LEMMA StrandClients ==
  ASSUME ~MayFail, DrainInv, StrandInv, DrainTypeOK',
         \/ Clients \/ StopHarness \/ BeginShutdown \/ UNCHANGED drainVars \/ Harness
         \/ FinalizerFails \/ \E c \in calls : Replay(c) \/ ResumeControl(c) \/ Signal(c)
  PROVE  StrandInv'
<1>0. /\ DrainTypeOK /\ TypeOK /\ LetsGo /\ calls \subseteq Call
      /\ ~draining /\ ~Idle => owner # None \/ Waking
    BY StrandParts DEF DrainInv, DrainTypeOK, StrandInv, LetsGo
<1>1. ASSUME UNCHANGED <<drain, owner>>, draining => draining',
             draining' \/ Waking' \/ (Idle' = Idle /\ (Waking => Waking'))
      PROVE  StrandInv'
  <2>1. LetsGo'
      BY <1>0, <1>1 DEF LetsGo, At
  <2>2. ~draining' /\ ~Idle' => owner' # None \/ Waking'
      BY <1>0, <1>1
  <2>3. TypeOK'
      BY DEF DrainTypeOK
  <2>4. (NeverStranded <=> (~draining /\ ~Idle => owner # None \/ Waking))'
      BY <2>1, <2>3, StrandParts, PTL
  <2>5. QED
      BY <2>1, <2>2, <2>4 DEF StrandInv, LetsGo
<1>2. ASSUME UNCHANGED vars PROVE Idle' = Idle /\ owner' = owner
    BY <1>2 DEF Idle, Front, vars
<1>3. CASE UNCHANGED drainVars \/ Harness \/ FinalizerFails \/ StopHarness \/ BeginShutdown
  <2>1. /\ UNCHANGED <<vars, drain>> /\ (draining => draining')
        /\ calls' = calls \/ draining'
      BY <1>3 DEF drainVars, runtime, Harness, RunReturns, RunStops, Finalize, FinalizerStep,
         FinalizerFails, others, StopHarness, BeginShutdown
  <2>2. QED
      BY <1>1, <1>2, <2>1 DEF Waking
<1>4. ASSUME NEW t \in Turns, NEW k \in Keys \cup {None}, NEW a \in Attentions, Accept(t, k, a)
      PROVE  StrandInv'
  <2>1. /\ UNCHANGED <<drain, owner, draining>>
        /\ calls' = calls \cup {[turn |-> t, control |-> "Run", step |-> "wake"]}
      BY <1>4 DEF Accept, Enqueue
  <2>2. Waking'
    <3> DEFINE d == [turn |-> t, control |-> "Run", step |-> "wake"]
    <3>1. d \in calls' /\ d.step = "wake"
        BY <2>1
    <3> HIDE DEF d
    <3>2. QED
        BY <3>1 DEF Waking
  <2>3. QED
      BY <1>1, <2>1, <2>2
<1>5. ASSUME NEW t, Retry(t) \/ Resume(t) PROVE StrandInv'
  <2>1. UNCHANGED <<vars, drain, draining>> /\ calls \subseteq calls'
      BY <1>5 DEF Retry, Resume
  <2>2. QED
      BY <1>1, <1>2, <2>1 DEF Waking
<1>6. ASSUME NEW i \in DOMAIN pending, NEW c \in Controls, Ask(i, c) PROVE StrandInv'
  <2>1. /\ UNCHANGED <<drain, owner, draining>>
        /\ calls' = calls \cup {[turn |-> pending[i].turn, control |-> c, step |-> "signal"]}
      BY <1>6 DEF Ask, Control, UpdateControl
  <2>2. Waking'
    <3> DEFINE d == [turn |-> pending[i].turn, control |-> c, step |-> "signal"]
    <3>1. d \in calls' /\ d.step = "signal"
        BY <2>1
    <3> HIDE DEF d
    <3>2. QED
        BY <3>1 DEF Waking
  <2>3. QED
      BY <1>1, <2>1, <2>2
<1>7. ASSUME NEW c \in calls, NEW s \in {"signal", "wake"}, Step(c, s) PROVE Waking'
  <2>1. [c EXCEPT !.step = s].step = s
      BY <1>0 DEF Call
  <2>2. QED
      BY <1>7, <2>1 DEF Step, Waking
<1>8. ASSUME NEW c \in calls, Replay(c) \/ Signal(c) PROVE StrandInv'
  <2>1. UNCHANGED <<vars, drain, draining>> /\ Step(c, "wake")
      BY <1>8 DEF Replay, Signal
  <2>2. QED
      BY <1>1, <1>2, <1>7, <2>1
<1>9. ASSUME NEW c \in calls, ResumeControl(c) PROVE StrandInv'
  <2>1. UNCHANGED <<drain, draining, owner>>
      BY <1>9 DEF ResumeControl, Control, UpdateControl, vars
  <2>2. CASE Step(c, "signal")
      BY <1>1, <1>7, <2>1, <2>2
  <2>3. CASE UNCHANGED vars /\ calls' = calls \ {c} /\ c.step = "control"
      BY <1>1, <1>2, <2>1, <2>3 DEF Waking
  <2>4. QED
      BY <1>9, <2>2, <2>3 DEF ResumeControl
<1>10. QED
    BY <1>3, <1>4, <1>5, <1>6, <1>8, <1>9 DEF Clients

\* A wake finds an owner or becomes one, and a restart wakes what is runnable.
LEMMA StrandWake ==
  ASSUME DrainInv, StrandInv, Reboot \/ \E c \in calls : Wake(c)
  PROVE  StrandInv'
<1>0. drain \in [Leases -> Task] /\ LetsGo /\ (owner # None => owner \in Leases)
    BY DEF DrainInv, DrainTypeOK, TypeOK, StrandInv, LetsGo
<1>1. CASE Reboot
  <2>1. /\ owner' = None /\ pending' = pending
        /\ ~Idle => calls' = {[turn |-> None, control |-> "Run", step |-> "wake"]}
        /\ \A l \in Leases : drain'[l].pc = "none"
      BY <1>1 DEF Reboot, Crash, durable, NoTask
  <2>2. Idle' = Idle
      BY <2>1 DEF Idle, Front
  <2>3. ~Idle => \E c \in calls' : c.step = "wake"
    <3> DEFINE d == [turn |-> None, control |-> "Run", step |-> "wake"]
    <3>1. ~Idle => d \in calls'
        BY <2>1
    <3>2. d.step = "wake"
        OBVIOUS
    <3> HIDE DEF d
    <3>3. QED
        BY <3>1, <3>2
  <2>4. QED
      BY <2>1, <2>2, <2>3 DEF StrandInv, NeverStranded, At
<1>2. ASSUME NEW c \in calls, Wake(c) PROVE StrandInv'
  <2>1. draining' = draining
      BY <1>2 DEF Wake
  <2>2. CASE owner # None /\ UNCHANGED <<vars, drain>>
      BY <1>0, <2>1, <2>2 DEF vars, StrandInv, LetsGo, NeverStranded, At
  <2>3. ASSUME NEW l \in Leases, Claim(l),
               drain' = [drain EXCEPT ![l] = [NoTask EXCEPT !.pc = "spawn"]]
        PROVE  StrandInv'
    <3>1. owner' = l /\ l # None /\ Reads(l, "spawn", None)
        BY <1>0, <2>3, ShiftTask, NoneAssumption DEF Claim
    <3>2. QED
        BY <3>1 DEF StrandInv, NeverStranded, At, Reads
  <2>4. QED
      BY <1>2, <2>2, <2>3 DEF Wake
<1>3. QED
    BY <1>1, <1>2

\* A drain lets go only of an idle queue, or of all when the process shuts down.
LEMMA StrandDrain ==
  ASSUME ~MayFail, DrainInv, StrandInv, DrainTypeOK', NEW l \in Leases,
         DrainStep(l) \/ DrainFails(l) \/ OpenFails(l) \/ PrepareFails(l)
  PROVE  StrandInv'
<1>0. /\ DrainTypeOK /\ drain \in [Leases -> Task] /\ drain[l] \in Task /\ IInv /\ HeadIsFront
      /\ LetsGo /\ (owner # None => owner \in Leases)
    BY DEF DrainInv, DrainTypeOK, TypeOK, StrandInv, LetsGo
<1>1. ASSUME drain[l].pc \notin {"none", "drop"}, owner' = owner,
             drain'[l].pc # "drop" \/ draining'
      PROVE  StrandInv'
  <2>1. owner = l /\ l # None
      BY <1>1, Alone, NoneAssumption
  <2>2. QED
      BY <1>1, <2>1 DEF StrandInv, NeverStranded, At
<1>2. CASE Idles(l)
  <2>1. UNCHANGED <<vars, draining>> /\ drain[l].pc \notin {"none", "drop"}
      BY <1>2, IdlesUnchanged
  <2>2. drain'[l].pc # "drop" \/ draining
    <3>1. CASE CheckStatus(l)
      <4>1. drain'[l].pc = AfterStatus(l)
          BY <1>0, <3>1 DEF CheckStatus, Go, Task
      <4>2. QED
          BY <4>1 DEF AfterStatus
    <3>2. CASE OpenHead(l)
      <4>1. drain'[l].pc = AfterOpen(l)
          BY <1>0, <3>2 DEF OpenHead, Go, Task
      <4>2. QED
          BY <4>1 DEF AfterOpen
    <3>3. CASE ReleaseIdle(l) /\ UNCHANGED vars
      <4>1. ~Idle
        <5>1. owner = l /\ l # None
            BY <2>1, Alone, NoneAssumption
        <5>2. QED
            BY <3>3, <5>1 DEF ReleaseIdle, Release, vars
      <4>2. QED
          BY <1>0, <3>3, <4>1 DEF ReleaseIdle, Go, Task
    <3>4. CASE Spawn(l) \/ Top(l) \/ Peek(l) \/ ReadControl(l) \/ CloseHead(l)
               \/ EnterExecution(l) \/ PrepareFails(l) \/ BeginTurn(l)
        BY <1>0, <3>4 DEF Spawn, Top, Peek, ReadControl, CloseHead, EnterExecution,
           PrepareFails, BeginTurn, Go, Task
    <3>5. CASE (Submit(l) /\ stopping) \/ RejectError(l) \/ RejectFinish(l) \/ FailBegin(l)
               \/ FailError(l) \/ FailFinish(l) \/ DrainFails(l) \/ OpenFails(l)
        BY <1>0, <3>5 DEF Submit, RejectError, RejectFinish, FailBegin, FailError, FailFinish,
           DrainFails, OpenFails, Go, Task
    <3>6. QED
        BY <1>2, <3>1, <3>2, <3>3, <3>4, <3>5 DEF Idles
  <2>3. QED
      BY <1>1, <2>1, <2>2 DEF vars
<1>3. CASE (Submit(l) /\ ~stopping) \/ Forward(l) \/ StreamEnds(l) \/ StartHead(l) \/ AckHead(l)
  <2>1. drain[l].pc \notin {"none", "drop"} /\ owner' = owner
      BY <1>3 DEF Submit, Forward, StreamEnds, StartHead, AckHead, Start, Acknowledge, vars, At
  <2>2. drain'[l].pc # "drop"
      BY <1>0, <1>3 DEF Submit, Forward, StreamEnds, StartHead, AckHead, Go, At, Task
  <2>3. QED
      BY <1>1, <2>1, <2>2
<1>4. CASE ReleaseIdle(l) /\ ~UNCHANGED vars
  <2>1. Idle /\ owner' = None /\ pending' = pending
      BY <1>4 DEF ReleaseIdle, Release, durable
  <2>2. Idle'
      BY <2>1 DEF Idle, Front
  <2>3. QED
      BY <2>1, <2>2, NoneAssumption DEF StrandInv, NeverStranded
<1>5. CASE Exit(l)
  <2>1. /\ drain[l].pc = "drop" /\ owner' = (IF owner = l THEN None ELSE owner)
        /\ UNCHANGED <<pending, calls, draining>> /\ drain'[l].pc = "none"
        /\ \A k \in Leases \ {l} : drain'[k] = drain[k]
      BY <1>0, <1>5 DEF Exit, DropLease, durable, rest, At, NoTask
  <2>2. Idle' = Idle
      BY <2>1 DEF Idle, Front
  <2>3. ~draining => owner # l
      BY <1>0, <2>1 DEF LetsGo, At
  <2>4. CASE draining
      BY <2>1, <2>4 DEF StrandInv, NeverStranded
  <2>5. CASE ~draining
    <3>1. owner' = owner
        BY <2>1, <2>3, <2>5
    <3>2. LetsGo'
        BY <1>0, <2>1, <2>5, <3>1 DEF LetsGo, At
    <3>3. NeverStranded'
      <4>1. CASE owner = None
          BY <2>1, <2>2, <2>5, <3>1, <4>1 DEF StrandInv, NeverStranded
      <4>2. CASE owner # None
          BY <1>0, <2>5, <3>1, <3>2, <4>2, <2>1 DEF LetsGo, NeverStranded
      <4>3. QED
          BY <4>1, <4>2
    <3>4. QED
        BY <3>2, <3>3 DEF StrandInv, LetsGo
  <2>6. QED
      BY <2>4, <2>5
<1>6. QED
    BY <1>2, <1>3, <1>4, <1>5 DEF DrainStep, Idles

\* While the process lives and storage does not fail it, a runnable head has a drain, or a
\* call that will start one: release_if_idle and the wake after every enqueue and control
\* close the window between them.
THEOREM NeverStrandedCorrect ==
  ASSUME ~MayFail
  PROVE  DrainSpec => []NeverStranded
<1>1. DrainInit => StrandInv
  <2> SUFFICES ASSUME DrainInit PROVE StrandInv
      OBVIOUS
  <2>1. Idle /\ \A l \in Leases : ~At(l, "drop")
      BY DEF DrainInit, Init, Idle, At, NoTask
  <2>2. QED
      BY <2>1 DEF StrandInv, NeverStranded
<1>2. DrainInv /\ DrainInv' /\ StrandInv /\ [DrainNext]_drainVars => StrandInv'
  <2> SUFFICES ASSUME DrainInv, DrainInv', StrandInv, [DrainNext]_drainVars PROVE StrandInv'
      OBVIOUS
  <2>1. ASSUME NEW c, WakeFails(c) \/ ReplayFails(c) PROVE FALSE
      BY <2>1 DEF WakeFails, ReplayFails
  <2>2. DrainTypeOK'
      BY DEF DrainInv
  <2>3. QED
      BY <2>1, <2>2, StrandClients, StrandWake, StrandDrain DEF DrainNext, CallStep, Faults
<1>3. StrandInv => NeverStranded
    BY DEF StrandInv
<1>4. QED
    BY <1>1, <1>2, <1>3, DrainInvariance, PTL DEF DrainSpec
================================================================================
