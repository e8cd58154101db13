----------------------------- MODULE MCSandboxes -----------------------------
(* The sandboxes of a thread, one view per behaviour: their records and       *)
(* handles, a process on its way from pipes to a buffer, and the event log    *)
(* that its clients read.  The initial state chooses the view; the others     *)
(* rest.                                                                      *)
EXTENDS SandboxRecords, ManagedProcess, ProcessEvents

VARIABLE part

MCVars == <<part, boxVars, procVars, eventVars>>

MCInit ==
  /\ part \in {"records", "process", "events"}
  /\ BoxInit /\ ProcInit /\ EventsInit
  /\ part # "records" => \A b \in Boxes : cached[b] = 0
  /\ part # "process" => input = "closed"
  /\ part # "events" => kept /\ poll.at = "none"

MCNext ==
  /\ UNCHANGED part
  /\ \/ part = "records" /\ BoxNext /\ UNCHANGED <<procVars, eventVars>>
     \/ part = "process" /\ ProcNext /\ UNCHANGED <<boxVars, eventVars>>
     \/ part = "events" /\ EventsNext /\ UNCHANGED <<boxVars, procVars>>

\* The fairness of each component, in its own behaviours.
MCFairness ==
  /\ \A c \in Calls : WF_boxVars(part = "records" /\ CallAdvances(c))
  /\ WF_procVars(part = "process" /\ Supervisor) /\ WF_procVars(part = "process" /\ GiveUpInput)
  /\ \A s \in Streams : WF_procVars(part = "process" /\ ReaderStep(s))
  /\ \A w \in Waiters : WF_procVars(part = "process" /\ (Arm(w) \/ Look(w)))
  /\ \A s \in Pipes : WF_eventVars(part = "events" /\ Tap(s))
  /\ WF_eventVars(part = "events" /\ ExitStep)
  /\ WF_eventVars(part = "events" /\ (Cancel2 \/ Cancel3))
  /\ WF_eventVars(part = "events" /\ FollowStep)
  /\ WF_eventVars(part = "events" /\ (PollEvents \/ PollStatus))

MCSpec == MCInit /\ [][MCNext]_MCVars /\ MCFairness

\* The types of the three views.
SandboxesTypeOK == BoxTypeOK /\ ProcTypeOK /\ EventsTypeOK

\* Everyone who calls, waits for a process or follows its events comes back.
EveryoneReturns == CallsEnd /\ EndIsReported /\ WaitersReturn /\ ExitRecorded /\ FollowerServed
=============================================================================
