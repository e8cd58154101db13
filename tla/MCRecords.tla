------------------------------ MODULE MCRecords ------------------------------
(* Six stores, one per behaviour: the accepted work of a conversation, its    *)
(* event log, the events of a turn that runs tools, the task records of a     *)
(* scheduler whose tasks are edited while they run, and the machines and the  *)
(* snapshot templates of a Firecracker host.  The initial state chooses the   *)
(* store; the others rest.                                                    *)
EXTENDS TurnCoordinator, Scheduler, Journal, ToolTurn, FirecrackerMachines, SnapshotTemplates, TLC

CONSTANTS r1, a1, a2, o1, A, B

VARIABLE part

\* One task that fires at every unit of time and catches up on all it missed.
FastSchedule == r1 :> [kind |-> "every", interval |-> 1]
AllAll == [t \in Tasks |-> "all"]
\* Two specifications of one sandbox, and one command in another.
MCSandboxOf == [v \in Vms |-> IF v = o1 THEN B ELSE A]
\* The template of a fork has the number of its clone.
OwnKeys == [m \in Clones |-> m]

MCVars == <<part, vars, schedVars, journalVars, toolVars, vmVars, tplVars>>

MCInit ==
  /\ part \in {"coordinator", "tasks", "journal", "turns", "machines", "templates"}
  /\ Init /\ SchedInit /\ JournalInit /\ ToolInit /\ VmInit /\ TplInit
  /\ part # "journal" => client = "get"

MCNext ==
  /\ UNCHANGED part
  /\ \/ part = "coordinator" /\ Next
        /\ UNCHANGED <<schedVars, journalVars, toolVars, vmVars, tplVars>>
     \/ part = "tasks" /\ SchedNext
        /\ UNCHANGED <<vars, journalVars, toolVars, vmVars, tplVars>>
     \/ part = "journal" /\ JournalNext
        /\ UNCHANGED <<vars, schedVars, toolVars, vmVars, tplVars>>
     \/ part = "turns" /\ ToolNext
        /\ UNCHANGED <<vars, schedVars, journalVars, vmVars, tplVars>>
     \/ part = "templates" /\ TplNext
        /\ UNCHANGED <<vars, schedVars, journalVars, toolVars, vmVars>>
     \/ part = "machines" /\ VmNext
        /\ UNCHANGED <<vars, schedVars, journalVars, toolVars, tplVars>>

MCSpec == MCInit /\ [][MCNext]_MCVars

\* A call on a machine has a step unless Blocked says that it waits.
BlockedIsAll == \A w \in Workers : job[w].at # "idle" /\ ~Blocked(w) => ENABLED VmStep(w)

\* The types of the six stores, and that calls on machines wait only where Blocked
\* says.
RecordsTypeOK == /\ TypeOK /\ SchedTypeOK /\ JournalTypeOK /\ ToolTypeOK /\ VmTypeOK
                 /\ TplTypeOK /\ BlockedIsAll
=============================================================================
