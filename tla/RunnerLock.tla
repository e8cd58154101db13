------------------------------ MODULE RunnerLock ------------------------------
(***************************************************************************)
(* SchedulerRunnerLock of exo/scheduler-runner/src/main.rs: the file       *)
(* exo-scheduler.lock that holds the pid of the one scheduler runner.      *)
(* A step is one system call.  A process is named by its pid.              *)
(***************************************************************************)
CONSTANTS Procs,    \* processes, each started once; their pids are not reused
          None,     \* no file; no pid
          Overlap   \* a process may start while another one is acquiring

Files == [by : Procs, pid : Procs \cup {None}]

ASSUME LockAssumption ==
  Overlap \in BOOLEAN /\ None \notin Procs /\ None \notin Files

VARIABLES file,   \* the lock file: its creator and the pid written into it
          pc,     \* per process: its next step
          saw,    \* per process: existing_pid
          alone   \* history: processes that started while no other one lived

lockVars == <<file, pc, saw, alone>>

Acquiring == {"open", "write", "read", "probe", "remove"}
Alive(p) == pc[p] \in Acquiring \cup {"run"}

LockInit ==
  /\ file = None
  /\ pc = [p \in Procs |-> "new"]
  /\ saw = [p \in Procs |-> None]
  /\ alone = {}

Go(p, step) == pc' = [pc EXCEPT ![p] = step]

Launch(p) ==
  /\ pc[p] = "new"
  /\ Overlap \/ \A q \in Procs : pc[q] \notin Acquiring
  /\ Go(p, "open")
  /\ alone' = IF \E q \in Procs : Alive(q) THEN alone ELSE alone \cup {p}
  /\ UNCHANGED <<file, saw>>

\* create_new
Create(p) ==
  /\ pc[p] = "open" /\ file = None
  /\ file' = [by |-> p, pid |-> None]
  /\ Go(p, "write")
  /\ UNCHANGED <<saw, alone>>

Exists(p) ==
  /\ pc[p] = "open" /\ file # None
  /\ Go(p, "read")
  /\ UNCHANGED <<file, saw, alone>>

\* The pid goes into the file that was created, which may have lost its name.
WritePid(p) ==
  /\ pc[p] = "write"
  /\ file' = IF file # None /\ file.by = p THEN [file EXCEPT !.pid = p] ELSE file
  /\ Go(p, "run")
  /\ UNCHANGED <<saw, alone>>

\* A file that is empty or gone reads as no pid.
ReadPid(p) ==
  /\ pc[p] = "read"
  /\ saw' = [saw EXCEPT ![p] = IF file = None THEN None ELSE file.pid]
  /\ Go(p, "probe")
  /\ UNCHANGED <<file, alone>>

\* Mutant: any recorded pid counts as a running process.
MutProcessIsRunning(pid) == pid # None

ProcessIsRunning(pid) == pid # None /\ Alive(pid)

\* Mutant: an existing file is removed without a look at the pid.
MutProbe(p) ==
  /\ pc[p] = "probe"
  /\ Go(p, "remove")
  /\ UNCHANGED <<file, saw, alone>>

\* kill -0
Probe(p) ==
  /\ pc[p] = "probe"
  /\ Go(p, IF ProcessIsRunning(saw[p]) THEN "refused" ELSE "remove")
  /\ UNCHANGED <<file, saw, alone>>

\* The stale file is removed by its name; if it is gone the start fails.
RemoveStale(p) ==
  /\ pc[p] = "remove"
  /\ Go(p, IF file = None THEN "refused" ELSE "open")
  /\ file' = None
  /\ UNCHANGED <<saw, alone>>

\* Drop removes whatever file has the name.
Drop(p) ==
  /\ pc[p] = "run"
  /\ file' = None
  /\ Go(p, "done")
  /\ UNCHANGED <<saw, alone>>

Kill(p) ==
  /\ Alive(p)
  /\ Go(p, "dead")
  /\ UNCHANGED <<file, saw, alone>>

AcquireStep(p) == Create(p) \/ Exists(p) \/ WritePid(p) \/ ReadPid(p) \/ Probe(p) \/ RemoveStale(p)

LockNext == \E p \in Procs : Launch(p) \/ AcquireStep(p) \/ Drop(p) \/ Kill(p)

LockSpec == LockInit /\ [][LockNext]_lockVars

\* A process that is acquiring the lock is scheduled.
LockFairness == \A p \in Procs : WF_lockVars(AcquireStep(p))
FairLockSpec == LockSpec /\ LockFairness

-----------------------------------------------------------------------------

\* At most one runner works on the task store: claim_due_tasks relies on it.
OneRunner == \A p, q \in Procs : pc[p] = "run" /\ pc[q] = "run" => p = q

\* A start that finds no other process alive succeeds unless it is killed: the
\* file that a killed runner left, an empty one too, does not keep the scheduler
\* down.
Startable == \A p \in alone : pc[p] # "refused"

\* Every start ends, nobody tries for ever: the runner runs, is refused or dies.
StartEnds == []<>(\A p \in Procs : pc[p] \notin Acquiring)
=============================================================================
