------------------------------ MODULE TurnDrain ------------------------------
(***************************************************************************)
(* The execution of one thread's queue inside one process of crates/executor: *)
(*   turn_queue.rs        client calls, the drain task (run_queue)         *)
(*   harness_executor.rs  start_local_turn and its finalizer               *)
(*   harness_adapter.rs   ExecutorHarness: the running turn and its stop   *)
(* on top of TurnCoordinator, whose operations are conjuncts of the steps  *)
(* here.  A step is what happens between two awaits that let another task  *)
(* change what it used.  A drain task is named by its lease.               *)
(*                                                                         *)
(* The journal of a turn is the set of the event kinds in it that recovery *)
(* looks for: "started" (TurnStarted), "marked" (RUNTIME_TURN_COMPLETED),  *)
(* "error" and "ended" (TurnEnded).  The executor is external: it returns, *)
(* fails, or is stopped.                                                   *)
(***************************************************************************)
EXTENDS TurnCoordinator, FiniteSets

CONSTANTS Resumable,    \* executor.can_suspend_turn
          Requests,     \* controls that clients ask for
          MayFail,      \* storage may return errors to the running process
          MayShutDown,  \* Runtime::shutdown may be called
          MaxCalls,     \* bound on client calls in flight
          MaxAsks,      \* bound on the number of control calls
          MaxCrashes    \* bound on the number of crashes

ASSUME ModeAssumption ==
  /\ Resumable \in BOOLEAN /\ MayFail \in BOOLEAN /\ MayShutDown \in BOOLEAN
  /\ Requests \subseteq Controls
  /\ MaxCalls \in Nat /\ MaxAsks \in Nat /\ MaxCrashes \in Nat

VARIABLES journal,    \* per turn: the kinds of its journalled events
          drain,      \* per lease: where its drain task stands
          run,        \* ExecutorHarness.active: the turn being executed
          fin,        \* the finalizer of the last execution
          calls,      \* client calls in flight
          observers,  \* TurnQueueRuntime.contexts: <<turn, call>> pairs; an
                      \* "unread" one missed the end of the turn
          unseen,     \* the control watch holds a value the drain has not read
          draining,   \* TurnQueueRuntime.draining
          stopping,   \* ActiveTurns.stopping
          asks,       \* how many control calls there were
          crashes,    \* how many crashes there were
          again,      \* history: turns begun although they had begun before
          withdrawn   \* history: turns cancelled before a drain read their control

runtime == <<drain, run, fin, calls, observers, unseen, draining, stopping>>
notes == <<again, withdrawn>>
drainVars == <<vars, journal, runtime, asks, crashes, notes>>

-----------------------------------------------------------------------------
(* State. *)

Kinds == {"started", "marked", "error", "ended"}
Stages == {"none", "spawn", "top", "again", "peek", "decide", "control", "open",
           "closing", "exec", "begin", "submit", "stream", "rejectError",
           "rejectFinish", "status", "failBegin", "failError", "failFinish",
           "ack", "drop"}
Callees == {"accept", "retry", "unread", "resume"}

Task == [pc : Stages, head : QueuedTurn \cup {None}, was : BOOLEAN,
         control : Controls, suspended : BOOLEAN]
NoTask == [pc |-> "none", head |-> None, was |-> FALSE, control |-> "Run",
           suspended |-> FALSE]
Running == [turn : Turns, stop : {"None", "Cancel", "Suspend", "Shutdown"}]
Finalizer == [turn : Turns, step : {"mark", "error", "finish", "send"},
              suspended : BOOLEAN]
Call == [turn : Turns \cup {None}, control : Controls,
         step : {"replay", "control", "signal", "wake"}]

\* Every variable of the runtime holds what its Rust counterpart can hold.
DrainTypeOK ==
  /\ TypeOK
  /\ journal \in [Turns -> SUBSET Kinds]
  /\ drain \in [Leases -> Task]
  /\ run \in Running \cup {None}
  /\ fin \in Finalizer \cup {None}
  /\ calls \subseteq Call
  /\ observers \subseteq Turns \X Callees
  /\ unseen \in BOOLEAN /\ draining \in BOOLEAN /\ stopping \in BOOLEAN
  /\ asks \in 0..MaxAsks /\ crashes \in 0..MaxCrashes
  /\ again \subseteq Turns /\ withdrawn \subseteq Turns

\* journal_status_from_events.
JournalStatus(t) ==
  IF "ended" \in journal[t] THEN "Finished"
  ELSE IF "started" \in journal[t] THEN "Running" ELSE "Unstarted"

At(l, pc) == drain[l].pc = pc
Go(l, pc) == drain' = [drain EXCEPT ![l].pc = pc]
HeadTurn(l) == drain[l].head.turn
Record(t, kind) == journal' = [journal EXCEPT ![t] = @ \cup {kind}]
Snapshot(queue) == IF queue = <<>> THEN None ELSE queue[1]

\* A terminal broadcast delivers the event and removes the turn's context;
\* stop_observers drains its observers.
Unobserved(t) == {o \in observers : o[1] # t}

\* What a control update does to the watch as the drain sees it.
Heard(t) == unseen' = (unseen \/ watching = t)

\* submit of CancelTurn, SuspendTurn or ResumeTurn: a turn that is stopped for
\* good stays so.
StopFor(c) == CASE c = "Run" -> "None" [] OTHER -> c
Signalled(t, c) ==
  IF run # None /\ run.turn = t /\ run.stop \notin {"Cancel", "Shutdown"}
    THEN [run EXCEPT !.stop = StopFor(c)]
    ELSE run

\* A drain has read the control of turn t and may go on to execute it.
Admitted(t) ==
  \E l \in Leases :
    drain[l].pc \in {"open", "exec", "begin", "submit", "stream"} /\ HeadTurn(l) = t

\* History of a cancellation: did it come before that?
Withdraw(t) == withdrawn' = IF Admitted(t) THEN withdrawn ELSE withdrawn \cup {t}

-----------------------------------------------------------------------------
(* Client calls. *)

Room == Cardinality(calls) < MaxCalls

\* accept_local_turn up to the enqueue: the observer is registered first.
Accept(t, k, attention) ==
  /\ ~draining
  /\ Room
  /\ Enqueue(t, None, k, attention)
  /\ observers' = observers \cup {<<t, "accept">>}
  /\ calls' = calls \cup {[turn |-> t, control |-> "Run", step |-> "wake"]}
  /\ IF Interrupts(None, attention)
       THEN Heard(Front.turn) /\ Withdraw(Front.turn) ELSE UNCHANGED <<unseen, withdrawn>>
  /\ UNCHANGED <<journal, drain, run, fin, draining, stopping, asks, crashes, again>>

\* accept_local_turn of a duplicate: the retry observes the accepted turn.
Retry(t) ==
  /\ ~draining
  /\ Room
  /\ \E r \in LiveReceipts : r.turn = t
  /\ observers' = observers \cup {<<t, "retry">>}
  /\ calls' = calls \cup {[turn |-> t, control |-> "Run", step |-> "replay"]}
  /\ UNCHANGED <<vars, journal, drain, run, fin, unseen, draining, stopping,
                 asks, crashes, notes>>

Step(c, step) == calls' = (calls \ {c}) \cup {[c EXCEPT !.step = step]}

MutReplay(c) ==
  /\ c.step = "replay"
  /\ Step(c, "wake")
  /\ UNCHANGED <<vars, journal, drain, run, fin, observers, unseen, draining,
                 stopping, asks, crashes, notes>>

\* The observer of a retry, once the journal of the turn was looked at.
Looked(t, callee) == {IF o = <<t, "retry">> THEN <<t, callee>> ELSE o : o \in observers}

\* replay_completion, when the journal already holds the end of the turn; if not,
\* the retry observes it as the first call does.
Replay(c) ==
  /\ c.step = "replay"
  /\ observers' = IF JournalStatus(c.turn) = "Finished"
                     THEN observers \ {<<c.turn, "retry">>} ELSE Looked(c.turn, "accept")
  /\ Step(c, "wake")
  /\ UNCHANGED <<vars, journal, drain, run, fin, unseen, draining, stopping,
                 asks, crashes, notes>>

\* The durable part of a control call, with its effect on the watch.
Control(i, c) ==
  /\ UpdateControl(i, None, c)
  /\ Heard(pending[i].turn)
  /\ IF c = "Cancel" THEN Withdraw(pending[i].turn) ELSE UNCHANGED withdrawn

\* cancel_queued_turn, and set_queued_suspended(true) of a resumable turn.
Ask(i, c) ==
  /\ ~draining
  /\ Room
  /\ c \in Requests \ {"Run"}
  /\ c = "Suspend" => Resumable
  /\ asks < MaxAsks /\ asks' = asks + 1
  /\ Control(i, c)
  /\ calls' = calls \cup
       {[turn |-> pending[i].turn, control |-> c, step |-> "signal"]}
  /\ UNCHANGED <<journal, drain, run, fin, observers, draining, stopping,
                 crashes, again>>

\* resume_local_turn registers its observer before anything else.
Resume(t) ==
  /\ "Run" \in Requests
  /\ Room
  /\ asks < MaxAsks /\ asks' = asks + 1
  /\ observers' = observers \cup {<<t, "resume">>}
  /\ calls' = calls \cup {[turn |-> t, control |-> "Run", step |-> "control"]}
  /\ UNCHANGED <<vars, journal, drain, run, fin, unseen, draining, stopping,
                 crashes, notes>>

\* set_queued_suspended(false), or the removal of the observer when the turn is
\* not queued, may not be controlled or the runtime shuts down.
ResumeControl(c) ==
  /\ c.step = "control"
  /\ \/ \E i \in DOMAIN pending :
          /\ ~draining
          /\ pending[i].turn = c.turn
          /\ Control(i, "Run")
          /\ Step(c, "signal")
          /\ UNCHANGED <<observers, again>>
     \/ /\ \/ draining
           \/ c.turn \notin PendingTurns
           \/ \E i \in DOMAIN pending :
                /\ pending[i].turn = c.turn
                /\ ~MayControl(pending[i], None, "Run")
        /\ calls' = calls \ {c}
        /\ observers' = observers \ {<<c.turn, "resume">>}
        /\ UNCHANGED <<vars, unseen, notes>>
  /\ UNCHANGED <<journal, drain, run, fin, draining, stopping, asks, crashes>>

\* finish_queued_control tells the harness.
Signal(c) ==
  /\ c.step = "signal"
  /\ run' = Signalled(c.turn, c.control)
  /\ Step(c, "wake")
  /\ UNCHANGED <<vars, journal, drain, fin, observers, unseen, draining,
                 stopping, asks, crashes, notes>>

\* spawn_queue: a claimed queue needs no second drain.
Wake(c) ==
  /\ c.step = "wake"
  /\ calls' = calls \ {c}
  /\ \/ owner # None /\ UNCHANGED <<vars, drain>>
     \/ \E l \in Leases :
          Claim(l) /\ drain' = [drain EXCEPT ![l] = [NoTask EXCEPT !.pc = "spawn"]]
  /\ UNCHANGED <<journal, run, fin, observers, unseen, draining, stopping,
                 asks, crashes, notes>>

\* spawn_queue that fails: the turn is retained and its observers are stopped.
WakeFails(c) ==
  /\ MayFail
  /\ c.step = "wake"
  /\ calls' = calls \ {c}
  /\ observers' = Unobserved(c.turn)
  /\ UNCHANGED <<vars, journal, drain, run, fin, unseen, draining, stopping,
                 asks, crashes, notes>>

\* The journal of a duplicate cannot be read: the error is logged and the call goes
\* on with the observer registered, "unread" if the turn was over already.
ReplayFails(c) ==
  /\ MayFail
  /\ c.step = "replay"
  /\ observers' = Looked(c.turn, IF JournalStatus(c.turn) = "Finished"
                                   THEN "unread" ELSE "accept")
  /\ Step(c, "wake")
  /\ UNCHANGED <<vars, journal, drain, run, fin, unseen, draining, stopping,
                 asks, crashes, notes>>

-----------------------------------------------------------------------------
(* The drain task: spawn_queue and run_queue. *)

\* What a step of the drain leaves alone unless it says otherwise.
rest == <<run, fin, calls, draining, stopping, asks, crashes, withdrawn>>

\* The peek of spawn_queue.
Spawn(l) ==
  /\ At(l, "spawn")
  /\ drain' = [drain EXCEPT ![l].pc = "top", ![l].head = Snapshot(pending)]
  /\ UNCHANGED <<vars, journal, observers, unseen, again, rest>>

\* The loop condition: with the head known, or with the head still to be read.
Top(l) ==
  /\ At(l, "top") \/ At(l, "again")
  /\ Go(l, IF draining THEN "drop" ELSE IF At(l, "top") THEN "decide" ELSE "peek")
  /\ UNCHANGED <<vars, journal, observers, unseen, again, rest>>

Peek(l) ==
  /\ At(l, "peek")
  /\ drain' = [drain EXCEPT ![l].pc = "decide", ![l].head = Snapshot(pending)]
  /\ UNCHANGED <<vars, journal, observers, unseen, again, rest>>

HeadIdle(l) == drain[l].head # None => drain[l].head.control = "Suspend"

MutReleaseIdle(l) ==
  /\ At(l, "decide")
  /\ HeadIdle(l)
  /\ IF Idle
       THEN Release(l) /\ unseen' = FALSE /\ Go(l, "drop")
       ELSE UNCHANGED <<vars, unseen>> /\ Go(l, "drop")
  /\ UNCHANGED <<journal, observers, again, rest>>

\* No head, or a suspended one (its observers are told): the queue is
\* released unless work has arrived since it was read.
ReleaseIdle(l) ==
  /\ At(l, "decide")
  /\ HeadIdle(l)
  /\ IF Idle
       THEN Release(l) /\ unseen' = FALSE /\ Go(l, "drop")
       ELSE UNCHANGED <<vars, unseen>> /\ Go(l, "again")
  /\ UNCHANGED <<journal, observers, again, rest>>

\* start: execution admission is saved and the watch opened.
StartHead(l) ==
  /\ At(l, "decide")
  /\ ~HeadIdle(l)
  /\ Start(l, HeadTurn(l))
  /\ drain' = [drain EXCEPT ![l].pc = "control", ![l].was = drain[l].head.started,
                            ![l].suspended = FALSE]
  /\ unseen' = TRUE
  /\ UNCHANGED <<journal, observers, again, rest>>

\* The first value of the control watch.
ReadControl(l) ==
  /\ At(l, "control")
  /\ unseen' = FALSE
  /\ drain' = [drain EXCEPT ![l].pc = IF signal = "Suspend" THEN "again" ELSE "open",
                            ![l].control = signal]
  /\ UNCHANGED <<vars, journal, observers, again, rest>>

\* The journal as open_queue_head sees it: only of a head admitted before.
Events(l) == IF drain[l].was THEN journal[HeadTurn(l)] ELSE {}

MutAfterOpenAlways(l) ==
  IF drain[l].control = "Cancel" THEN "status" ELSE "exec"

\* What open_queue_head does about the head.
AfterOpen(l) ==
  IF "ended" \in Events(l) \/ drain[l].control = "Cancel" THEN "status"
  ELSE IF {"error", "marked"} \cap Events(l) # {} THEN "closing"
  ELSE "exec"

OpenHead(l) ==
  /\ At(l, "open")
  /\ Go(l, AfterOpen(l))
  /\ UNCHANGED <<vars, journal, observers, unseen, again, rest>>

\* A turn whose outcome is on record only lacks its end.
CloseHead(l) ==
  /\ At(l, "closing")
  /\ Record(HeadTurn(l), "ended")
  /\ Go(l, "status")
  /\ UNCHANGED <<vars, observers, unseen, again, rest>>

\* start_local_turn registers the execution, unless the runtime shuts down.
EnterExecution(l) ==
  /\ At(l, "exec")
  /\ Go(l, IF draining THEN "status" ELSE "begin")
  /\ UNCHANGED <<vars, journal, observers, unseen, again, rest>>

\* Preparing the conversation, or resolving the caller, fails.
PrepareFails(l) ==
  /\ At(l, "begin")
  /\ Go(l, "status")
  /\ UNCHANGED <<vars, journal, observers, unseen, again, rest>>

MutRecovering(l) == FALSE

\* execute_turn is told to recover a turn whose journal shows a start.
Recovering(l) == "started" \in Events(l)

\* begin_turn of a turn that is not recovered; a recovered one is only opened.
BeginTurn(l) ==
  /\ At(l, "begin")
  /\ IF Recovering(l)
       THEN UNCHANGED <<journal, again>>
       ELSE /\ Record(HeadTurn(l), "started")
            /\ again' = IF "started" \in journal[HeadTurn(l)]
                          THEN again \cup {HeadTurn(l)} ELSE again
  /\ Go(l, "submit")
  /\ UNCHANGED <<vars, observers, unseen, rest>>

\* submit of StartTurn: a stopping harness refuses it.
Submit(l) ==
  /\ At(l, "submit")
  /\ IF stopping
       THEN Go(l, "rejectError") /\ UNCHANGED run
       ELSE /\ run' = [turn |-> HeadTurn(l), stop |-> "None"]
            /\ Go(l, "stream")
  /\ UNCHANGED <<vars, journal, observers, unseen, again,
                 fin, calls, draining, stopping, asks, crashes, withdrawn>>

\* finalize_turn of the refused submission.
RejectError(l) ==
  /\ At(l, "rejectError")
  /\ Record(HeadTurn(l), "error")
  /\ Go(l, "rejectFinish")
  /\ UNCHANGED <<vars, observers, unseen, again, rest>>

RejectFinish(l) ==
  /\ At(l, "rejectFinish")
  /\ Record(HeadTurn(l), "ended")
  /\ Go(l, "status")
  /\ UNCHANGED <<vars, observers, unseen, again, rest>>

\* The select loop hears a change of control and passes it on.
Forward(l) ==
  /\ At(l, "stream")
  /\ unseen
  /\ unseen' = FALSE
  /\ run' = Signalled(HeadTurn(l), signal)
  /\ drain' = [drain EXCEPT ![l].suspended = @ \/ signal = "Suspend"]
  /\ UNCHANGED <<vars, journal, observers, again,
                 fin, calls, draining, stopping, asks, crashes, withdrawn>>

MutStreamEnds(l) ==
  /\ At(l, "stream")
  /\ run = None
  /\ drain' = [drain EXCEPT ![l].pc = "status"]
  /\ UNCHANGED <<vars, journal, observers, unseen, again, rest>>

\* The select loop reaches the end of the stream: the finalizer has sent its
\* result and the harness has dropped the turn.
StreamEnds(l) ==
  /\ At(l, "stream")
  /\ fin # None
  /\ fin.step = "send"
  /\ fin' = None
  /\ drain' = [drain EXCEPT ![l].pc = "status",
                            ![l].suspended = @ \/ fin.suspended]
  /\ UNCHANGED <<vars, journal, observers, unseen, again,
                 run, calls, draining, stopping, asks, crashes, withdrawn>>

MutAfterStatusRetry(l) ==
  IF JournalStatus(HeadTurn(l)) = "Finished" THEN "ack"
  ELSE IF draining THEN "drop" ELSE "again"

\* Where the head goes after its execution.
AfterStatus(l) ==
  IF JournalStatus(HeadTurn(l)) = "Finished" THEN "ack"
  ELSE IF draining THEN "drop"
  ELSE IF Front.control = "Suspend" \/ (Front.control = "Run" /\ drain[l].suspended)
    THEN "again"
  ELSE IF JournalStatus(HeadTurn(l)) = "Unstarted" THEN "failBegin" ELSE "failError"

\* A finished turn is broadcast here, a failed one after its failure is saved.
CheckStatus(l) ==
  /\ At(l, "status")
  /\ Go(l, AfterStatus(l))
  /\ observers' = IF AfterStatus(l) = "ack" THEN Unobserved(HeadTurn(l)) ELSE observers
  /\ UNCHANGED <<vars, journal, unseen, again, rest>>

\* persist_head_failure: begin_turn, the error, the end.
FailBegin(l) ==
  /\ At(l, "failBegin")
  /\ Record(HeadTurn(l), "started")
  /\ Go(l, "failError")
  /\ UNCHANGED <<vars, observers, unseen, again, rest>>

FailError(l) ==
  /\ At(l, "failError")
  /\ Record(HeadTurn(l), "error")
  /\ Go(l, "failFinish")
  /\ UNCHANGED <<vars, observers, unseen, again, rest>>

FailFinish(l) ==
  /\ At(l, "failFinish")
  /\ Record(HeadTurn(l), "ended")
  /\ observers' = Unobserved(HeadTurn(l))
  /\ Go(l, "ack")
  /\ UNCHANGED <<vars, unseen, again, rest>>

\* acknowledge, which also returns the next head.
AckHead(l) ==
  /\ At(l, "ack")
  /\ Acknowledge(l, HeadTurn(l))
  /\ drain' = [drain EXCEPT ![l].pc = "top", ![l].head = Snapshot(pending')]
  /\ unseen' = FALSE
  /\ UNCHANGED <<journal, observers, again, rest>>

\* A storage error ends run_queue; the observers of its head are stopped.
DrainFails(l) ==
  /\ MayFail
  /\ drain[l].pc \in {"peek", "decide", "control", "status", "failBegin",
                      "failError", "failFinish", "ack"}
  /\ Go(l, "drop")
  /\ observers' = IF drain[l].head = None THEN observers ELSE Unobserved(HeadTurn(l))
  /\ UNCHANGED <<vars, journal, unseen, again, rest>>

\* A storage error inside open_queue_head becomes the error of the turn.
OpenFails(l) ==
  /\ MayFail
  /\ At(l, "open") \/ At(l, "closing")
  /\ Go(l, "status")
  /\ UNCHANGED <<vars, journal, observers, unseen, again, rest>>

\* The task ends and drops its lease.
Exit(l) ==
  /\ At(l, "drop")
  /\ DropLease(l)
  /\ drain' = [drain EXCEPT ![l] = NoTask]
  /\ unseen' = (unseen /\ watching' # None)
  /\ UNCHANGED <<journal, observers, again, rest>>

DrainStep(l) ==
  \/ Spawn(l) \/ Top(l) \/ Peek(l) \/ ReleaseIdle(l) \/ StartHead(l)
  \/ ReadControl(l) \/ OpenHead(l) \/ CloseHead(l) \/ EnterExecution(l)
  \/ BeginTurn(l) \/ Submit(l) \/ RejectError(l) \/ RejectFinish(l)
  \/ Forward(l) \/ StreamEnds(l) \/ CheckStatus(l) \/ FailBegin(l)
  \/ FailError(l) \/ FailFinish(l) \/ AckHead(l) \/ Exit(l)

-----------------------------------------------------------------------------
(* The harness and the finalizer. *)

others == <<drain, calls, observers, unseen, draining, stopping,
            asks, crashes, notes>>

Finalize(step, suspended) ==
  /\ fin' = [turn |-> run.turn, step |-> step, suspended |-> suspended]
  /\ run' = None
  /\ UNCHANGED <<vars, journal, others>>

\* The executor returns, or fails.
RunReturns == run # None /\ (Finalize("mark", FALSE) \/ Finalize("error", FALSE))

\* A stop reason takes effect: a cancelled turn is recorded as failed, a turn
\* suspended (at a boundary) or interrupted is left unfinished.
RunStops ==
  /\ run # None
  /\ \/ run.stop = "Cancel" /\ Finalize("error", FALSE)
     \/ run.stop = "Shutdown" /\ Finalize("send", FALSE)
     \/ run.stop = "Suspend" /\ Resumable /\ Finalize("send", TRUE)

FinGo(step) == fin' = [fin EXCEPT !.step = step]

\* The finalizer marks a completed turn, or records its error, and ends it.
FinalizerStep ==
  /\ fin # None
  /\ \/ fin.step = "mark" /\ Record(fin.turn, "marked") /\ FinGo("finish")
     \/ fin.step = "error" /\ Record(fin.turn, "error") /\ FinGo("finish")
     \/ fin.step = "finish" /\ Record(fin.turn, "ended") /\ FinGo("send")
  /\ UNCHANGED <<vars, run, others>>

\* A write of the finalizer fails: an unmarked completion becomes an error, and
\* finalize_turn gives up at its first failing write.
FinalizerFails ==
  /\ MayFail
  /\ fin # None
  /\ fin.step # "send"
  /\ FinGo(IF fin.step = "mark" THEN "error" ELSE "send")
  /\ UNCHANGED <<vars, run, journal, others>>

-----------------------------------------------------------------------------
(* Shutdown and crashes. *)

\* LocalProvider::shutdown takes the admission lock for writing: no call holds
\* it for reading.  Calls that come to it later are refused.
BeginShutdown ==
  /\ MayShutDown
  /\ ~draining
  /\ \A c \in calls : c.turn = None \/ c.step = "control"
  /\ draining' = TRUE
  /\ calls' = {c \in calls : c.step = "control"}
  /\ UNCHANGED <<vars, journal, drain, run, fin, observers, unseen, stopping,
                 asks, crashes, notes>>

\* ExecutorHarness::shutdown: every turn but a cancelled one is interrupted.
StopHarness ==
  /\ draining
  /\ ~stopping
  /\ stopping' = TRUE
  /\ run' = IF run # None /\ run.stop # "Cancel"
              THEN [run EXCEPT !.stop = "Shutdown"] ELSE run
  /\ UNCHANGED <<vars, journal, drain, fin, calls, observers, unseen, draining,
                 asks, crashes, notes>>

\* The process ends, by a crash or after a shutdown, and starts again: what
\* is not on disk is gone.  recover_local_turns wakes the queue if its head is
\* runnable.
Reboot ==
  /\ crashes < MaxCrashes
  /\ crashes' = crashes + 1
  /\ Crash
  /\ drain' = [l \in Leases |-> NoTask]
  /\ run' = None
  /\ fin' = None
  /\ calls' = IF Idle THEN {}
              ELSE {[turn |-> None, control |-> "Run", step |-> "wake"]}
  /\ observers' = {}
  /\ unseen' = FALSE
  /\ draining' = FALSE
  /\ stopping' = FALSE
  /\ UNCHANGED <<journal, asks, again, withdrawn>>

DrainInit ==
  /\ Init
  /\ journal = [t \in Turns |-> {}]
  /\ drain = [l \in Leases |-> NoTask]
  /\ run = None
  /\ fin = None
  /\ calls = {}
  /\ observers = {}
  /\ unseen = FALSE
  /\ draining = FALSE
  /\ stopping = FALSE
  /\ asks = 0 /\ crashes = 0
  /\ again = {} /\ withdrawn = {}

CallStep(c) == Replay(c) \/ ResumeControl(c) \/ Signal(c) \/ Wake(c)

Clients ==
  \/ \E t \in Turns, k \in Keys \cup {None}, a \in Attentions : Accept(t, k, a)
  \/ \E t \in Turns : Retry(t)
  \/ \E t \in PendingTurns : Resume(t)
  \/ \E i \in DOMAIN pending, c \in Controls : Ask(i, c)

Harness == RunReturns \/ RunStops \/ FinalizerStep

Faults ==
  \/ \E c \in calls : WakeFails(c) \/ ReplayFails(c)
  \/ \E l \in Leases : DrainFails(l) \/ OpenFails(l) \/ PrepareFails(l)
  \/ FinalizerFails
  \/ BeginShutdown \/ StopHarness
  \/ Reboot

DrainNext ==
  \/ Clients
  \/ \E c \in calls : CallStep(c)
  \/ \E l \in Leases : DrainStep(l)
  \/ Harness
  \/ Faults

DrainSpec == DrainInit /\ [][DrainNext]_drainVars

\* The tasks of a process keep running: the host polls every call, every drain,
\* the harness task and the finalizer; executions come to an end (external).
Fairness ==
  /\ WF_drainVars(\E c \in calls : CallStep(c))
  /\ \A l \in Leases : WF_drainVars(DrainStep(l))
  /\ WF_drainVars(Harness)

FairDrainSpec == DrainSpec /\ Fairness

-----------------------------------------------------------------------------
(* Properties. *)

\* A turn leaves the queue only when the end of it is in its journal, whatever
\* failed, crashed or was cancelled in between: run_queue acknowledges last.
JournalBeforeAck ==
  \A t \in Acknowledged : "ended" \in journal[t]

\* One execution at a time: a running turn, or its finalizer, belongs to the
\* live drain that owns the queue and waits for it, and is the queue's head.
\* A drain without ownership has nothing left to do but to exit.
ExclusiveExecution ==
  /\ \A l \in Leases : drain[l].pc \notin {"none", "drop"} => owner = l
  /\ \A e \in {run, fin} \ {None} :
       /\ owner # None
       /\ At(owner, "stream")
       /\ e.turn = HeadTurn(owner)
       /\ e.turn = Front.turn
  /\ run # None => fin = None

\* Accepted work is never stranded: while the process lives, a runnable head has
\* a drain, or a call in flight that will start one.  release_if_idle and the
\* wake after every enqueue and control close the window between them.
NeverStranded ==
  ~draining /\ ~Idle =>
    \/ owner # None /\ ~At(owner, "drop")
    \/ \E c \in calls : c.step \in {"replay", "signal", "wake"}

\* No execution is begun from scratch twice: recovery resumes what has begun and
\* acknowledges what has ended, from the admission saved by start.
NoRerun == again = {}

\* A turn cancelled before a drain reads its control is not executed, or executed
\* again: neither a later control nor a restart brings it back.
WithdrawnNeverRuns == run # None => run.turn \notin withdrawn

\* Under any controls the runtime stays in states it knows: one execution at a time,
\* of the head, of no turn that was cancelled first, journalled before it is
\* acknowledged.
ExecutionKept == DrainTypeOK /\ ExclusiveExecution /\ WithdrawnNeverRuns /\ JournalBeforeAck

\* The journal of a turn is closed by its end, and the turn is not executed
\* again, by no recovery, finalizer or failing drain.
EndIsFinal ==
  [][\A t \in Turns : "ended" \in journal[t] =>
       /\ journal'[t] = journal[t]
       /\ (run' # None /\ run'.turn = t) => run # None]_drainVars

\* Whoever observes a turn hears the end of it: an observer that is registered
\* has a queued turn, or a call of its own that looks at the journal.  The one
\* exception is a retry that came when the turn was over and could not read the
\* journal, which is only logged: nobody serves or removes its observer.
ObserversServed ==
  \A o \in observers :
    \/ o[1] \in PendingTurns
    \/ o[2] = "unread"
    \/ \E c \in calls : c.turn = o[1] /\ c.step \in {"replay", "control"}

\* The queue always drains down to nothing or to a suspended head.
Drains == []<>(pending = <<>> \/ Front.control = "Suspend" \/ draining)
=============================================================================
