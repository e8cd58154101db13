----------------------------- MODULE MCProcesses -----------------------------
(* What processes share on disk and owe each other in spite of crashes, one   *)
(* component per behaviour: the scheduler's runner lock, the leases of local  *)
(* sessions, the wakeup lock, the records of an adapter, its messages and the *)
(* fires of scheduled tasks.  The initial state chooses the component; the    *)
(* others rest.                                                               *)
EXTENDS RunnerLock, LocalSessions, WakeupLock, AdapterRunner, Scheduler, AdapterOutbox, TLC

CONSTANTS r1, o1

VARIABLE part

\* Tasks 1 and 2 belong to process 4, task 3 to process 5.
MCHostOf == <<4, 4, 5>>
\* A recurring task and one that fires once.
MCSchedule == r1 :> [kind |-> "every", interval |-> 2] @@ o1 :> [kind |-> "at", at |-> 1]
AllOnce == [t \in Tasks |-> "once"]
\* Bound: loops of the adapter that end and messages that come in, together.
MaxDisturbed == 3

MCInit ==
  /\ part \in {"runnerLock", "sessions", "wakeups", "adapter", "tasks", "messages"}
  /\ LockInit /\ SessInit /\ WakeupInit /\ RunnerInit /\ SchedInit /\ OutboxInit

MCNext ==
  /\ UNCHANGED part
  /\ \/ part = "runnerLock" /\ LockNext
        /\ UNCHANGED <<sessVars, wakeVars, runnerVars, schedVars, outboxVars>>
     \/ part = "sessions" /\ SessNext
        /\ UNCHANGED <<lockVars, wakeVars, runnerVars, schedVars, outboxVars>>
     \/ part = "wakeups" /\ WakeupNext
        /\ UNCHANGED <<lockVars, sessVars, runnerVars, schedVars, outboxVars>>
     \/ part = "adapter" /\ RunnerNext
        /\ UNCHANGED <<lockVars, sessVars, wakeVars, schedVars, outboxVars>>
     \/ part = "tasks" /\ SchedNext
        /\ UNCHANGED <<lockVars, sessVars, wakeVars, runnerVars, outboxVars>>
     \/ part = "messages" /\ OutboxNext /\ stops' + arrivals' <= MaxDisturbed
        /\ UNCHANGED <<lockVars, sessVars, wakeVars, runnerVars, schedVars>>

MCVars == <<part, lockVars, sessVars, wakeVars, runnerVars, schedVars, outboxVars>>

\* The fairness of each component, in its own behaviours.
MCFairness ==
  /\ \A p \in Procs : WF_lockVars(part = "runnerLock" /\ AcquireStep(p))
  /\ \A j \in Jobs : WF_sessVars(part = "sessions" /\ JobAdvances(j))
  /\ \A h \in Hosts : WF_sessVars(part = "sessions" /\ Closes(h))
  /\ \A w \in Wakers : WF_wakeVars(part = "wakeups" /\ WakeStep(w))
  /\ WF_wakeVars(part = "wakeups" /\ GrowsOld)
  /\ WF_runnerVars(part = "adapter" /\ WatchStep)
  /\ WF_runnerVars(part = "adapter" /\ SupStep)
  /\ WF_runnerVars(part = "adapter" /\ EventStep)
  /\ WF_schedVars(part = "tasks" /\ RunnerStep) /\ WF_schedVars(part = "tasks" /\ StartRunner)
  /\ WF_schedVars(part = "tasks" /\ TimePasses)
  /\ WF_outboxVars(part = "messages" /\ LoopStep)
  /\ WF_outboxVars(part = "messages" /\ CommandStep)
  /\ WF_outboxVars(part = "messages" /\ WorkerStep)

MCSpec == MCInit /\ [][MCNext]_MCVars /\ MCFairness

\* The types of the components that lease, supervise and schedule.
ProcessesTypeOK == SessTypeOK /\ RunnerTypeOK

\* No one waits for ever on what another process left or holds: starts of runners,
\* session operations, wakeups, drains and stops of adapters all come to an end.
NobodyWaitsForEver == StartEnds /\ OpsEnd /\ WaitersProceed /\ DrainEnds /\ DisabledStops

\* Whatever dies, due tasks are served and queued messages are settled.
Delivers == DueServed /\ Settles
=============================================================================
