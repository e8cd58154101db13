------------------------------ MODULE Scheduler ------------------------------
(***************************************************************************)
(* The task scheduler of crates/executor/src/native:                       *)
(*   scheduler_types.rs    due, lease, the missed-fire plan and the grid   *)
(*   scheduler_store.rs    tasks/, fires/pending, fires/delivered on disk  *)
(*   scheduler_runtime.rs  redelivery, claiming, running and waking        *)
(*   harness_tool.rs       the schedule, cancel and delete tools           *)
(* One runner process (exo/scheduler-runner) executes passes; the tools    *)
(* edit the same files from any turn, also from the turn that a wakeup of  *)
(* the runner started.  Every file is replaced by a rename, so a step is   *)
(* one file operation and what the process does until the next one.        *)
(*                                                                         *)
(* Sandboxes, commands, artifacts and the woken turn are external: a run   *)
(* finishes or fails.  Time is counted in units; a slot is a time.         *)
(***************************************************************************)
EXTENDS Integers, Sequences, FiniteSets

CONSTANTS Tasks,         \* task ids
          Schedule,      \* per task: [kind |-> "every", interval] or [kind |-> "at", at]
          Policy,        \* per task: ScheduledTaskRecord.missed
          NoValue,          \* Option::None
          LeaseMs,       \* DEFAULT_TASK_LEASE_MS
          CatchupCap,    \* MAX_MISSED_FIRE_CATCHUP
          Batch,         \* SchedulerRunOptions.limit
          MayEdit,       \* the cancel and delete tools are used
          MaxClock,       \* bound on the clock
          MaxStarts,     \* bound on the number of runner processes
          MaxFaults      \* bound on the number of failing runs

\* What a task file may hold, for any time.
TaskRecords ==
  [enabled : BOOLEAN, completed : BOOLEAN, anchor : Nat, lease : Nat,
   outcome : [due : Nat, fired : Nat, skipped : Nat] \cup {NoValue}, next : Nat]

ASSUME SchedulerAssumption ==
  /\ \A t \in Tasks : \/ Schedule[t].kind = "every" /\ Schedule[t].interval \in Nat \ {0}
                      \/ Schedule[t].kind = "at" /\ Schedule[t].at \in Nat
  /\ Policy \in [Tasks -> {"skip", "once", "all"}]
  /\ LeaseMs \in Nat \ {0} /\ CatchupCap \in Nat \ {0} /\ Batch \in Nat \ {0}
  /\ MayEdit \in BOOLEAN
  /\ MaxClock \in Nat /\ MaxStarts \in Nat /\ MaxFaults \in Nat
  /\ NoValue \notin TaskRecords

VARIABLES clock,        \* the clock
          disk,       \* tasks/<id>.json
          pendingFires,    \* fires/pending: <<task, slot>>
          deliveredFires,  \* fires/delivered
          owners,      \* tasks whose agent and conversation exist
          daemon,     \* what the runner process does
          queue,      \* the fires redelivery has read and not settled
          due,        \* the records claim_due_tasks has read and not leased
          runs,       \* per task: the run_task future of this pass
          edit,       \* per task: the record disable_task has read
          starts,     \* how many runner processes there were
          faults,     \* how many runs failed
          fired,      \* history: slot executions, per task a bag of slots
          wakes,      \* history: wakeups, per task a bag of slots
          res,        \* history: <<task, slot>> whose result exists
          errored,    \* history: <<task, slot>> that failed before its fire was recorded
          passed,     \* history: per task the slots that resuming left behind unfired
          resumed,    \* history: per task the first slot it may still fire
          dropped     \* history: tasks that were cancelled or deleted

store == <<disk, pendingFires, deliveredFires>>
process == <<daemon, queue, due, runs>>
limits == <<starts, faults>>
schedHistory == <<fired, wakes, res, errored, passed, resumed, dropped>>
schedVars == <<clock, store, owners, process, edit, limits, schedHistory>>

-----------------------------------------------------------------------------
(* Records, the grid and the plan. *)

Times == 0 .. MaxClock
Slots == 0 .. MaxClock + 1 + LeaseMs
Every(t) == Schedule[t].kind = "every"
Fires == Tasks \X Slots

\* No lease is a lease that has expired at time 0.
NewTask(t) ==
  [enabled |-> TRUE, completed |-> FALSE, anchor |-> clock, lease |-> 0, outcome |-> NoValue,
   next |-> IF Every(t) THEN clock + Schedule[t].interval ELSE Schedule[t].at]

IsDue(r) == r.enabled /\ ~ r.completed /\ r.next <= clock /\ r.lease <= clock

Sat(a, b) == IF a < b THEN 0 ELSE a - b

\* First slot strictly after `after` on the grid anchored at `anchor`.
NextSlotAfter(t, anchor, after) ==
  IF Every(t)
  THEN anchor + (Sat(after, anchor) \div Schedule[t].interval + 1) * Schedule[t].interval
  ELSE Schedule[t].at

\* Slots that came and went behind the due one.
Overdue(t, r) == IF Every(t) THEN Sat(clock, r.next) \div Schedule[t].interval ELSE 0

CatchUp(t, r) ==
  LET backlog == Overdue(t, r) + 1
      first == Sat(backlog, CatchupCap)
  IN [k \in 1 .. backlog - first |-> r.next + (first + k - 1) * Schedule[t].interval]

FireSlots(t, r) ==
  CASE ~ Every(t) -> IF r.completed THEN <<>> ELSE <<Schedule[t].at>>
    [] Every(t) /\ Policy[t] = "skip" /\ Overdue(t, r) > 0 -> <<>>
    [] Every(t) /\ Policy[t] = "all" /\ Overdue(t, r) > 0 -> CatchUp(t, r)
    [] OTHER -> <<r.next>>

\* Mutant: the due slot is not counted in the backlog.
MutPlanMissedFires(t, r) ==
  LET fires == FireSlots(t, r)
  IN [fires |-> fires,
      next |-> NextSlotAfter(t, r.anchor, clock),
      completes |-> ~ Every(t),
      outcome |-> [due |-> r.next, fired |-> Len(fires),
                   skipped |-> IF Every(t) THEN Sat(Overdue(t, r), Len(fires)) ELSE 0]]

PlanMissedFires(t, r) ==
  LET fires == FireSlots(t, r)
  IN [fires |-> fires,
      next |-> NextSlotAfter(t, r.anchor, clock),
      completes |-> ~ Every(t),
      outcome |-> [due |-> r.next, fired |-> Len(fires),
                   skipped |-> IF Every(t) THEN Sat(Overdue(t, r) + 1, Len(fires)) ELSE 0]]

ResumeAfterFires(r, plan) ==
  [r EXCEPT !.next = plan.next, !.outcome = plan.outcome,
            !.completed = @ \/ plan.completes, !.lease = 0]

Asleep == [pc |-> "idle", task |-> NoValue, plan |-> NoValue, todo |-> <<>>]
Resting == \A t \in Tasks : runs[t] = Asleep

Count(bag, t, s) == [bag EXCEPT ![t][s] = @ + 1]

SchedInit ==
  /\ clock = 0
  /\ disk = [t \in Tasks |-> NoValue] /\ pendingFires = {} /\ deliveredFires = {}
  /\ owners = Tasks
  /\ daemon = "down" /\ queue = {} /\ due = {}
  /\ runs = [t \in Tasks |-> Asleep]
  /\ edit = [t \in Tasks |-> NoValue]
  /\ starts = 0 /\ faults = 0
  /\ fired = [t \in Tasks |-> [s \in Slots |-> 0]] /\ wakes = fired
  /\ res = {} /\ errored = {} /\ dropped = {}
  /\ passed = [t \in Tasks |-> {}]
  /\ resumed = [t \in Tasks |-> 0]

-----------------------------------------------------------------------------
(* The tools of the agent, and the world outside. *)

CreateTask(t) ==
  /\ disk[t] = NoValue /\ t \notin dropped
  /\ disk' = [disk EXCEPT ![t] = NewTask(t)]
  /\ resumed' = [resumed EXCEPT ![t] = NewTask(t).next]
  /\ UNCHANGED <<clock, pendingFires, deliveredFires, owners, process, edit, limits, fired,
                 wakes, res, errored, passed, dropped>>

\* disable_task reads the record ...
DisableRead(t) ==
  /\ MayEdit /\ disk[t] # NoValue /\ edit[t] = NoValue
  /\ edit' = [edit EXCEPT ![t] = [disk[t] EXCEPT !.enabled = FALSE]]
  /\ UNCHANGED <<clock, store, owners, process, limits, schedHistory>>

\* ... and puts its copy back; the cancel tool reports success.
DisableWrite(t) ==
  /\ edit[t] # NoValue
  /\ disk' = [disk EXCEPT ![t] = edit[t]]
  /\ edit' = [edit EXCEPT ![t] = NoValue]
  /\ dropped' = dropped \cup {t}
  /\ UNCHANGED <<clock, pendingFires, deliveredFires, owners, process, limits, fired, wakes,
                 res, errored, passed, resumed>>

DeleteTask(t) ==
  /\ MayEdit /\ disk[t] # NoValue
  /\ disk' = [disk EXCEPT ![t] = NoValue]
  /\ dropped' = dropped \cup {t}
  /\ UNCHANGED <<clock, pendingFires, deliveredFires, owners, process, edit, limits, fired,
                 wakes, res, errored, passed, resumed>>

\* The conversation of a task is deleted.
RemoveOwner(t) ==
  /\ MayEdit /\ t \in owners
  /\ owners' = owners \ {t}
  /\ UNCHANGED <<clock, store, process, edit, limits, schedHistory>>

TimePasses ==
  /\ clock < MaxClock
  /\ clock' = clock + 1
  /\ UNCHANGED <<store, owners, process, edit, limits, schedHistory>>

-----------------------------------------------------------------------------
(* The runner process: start, redelivery, exit. *)

\* redeliver_pending_wakes reads the pending fires before the first pass.
StartRunner ==
  /\ daemon = "down" /\ starts < MaxStarts
  /\ daemon' = "redeliver"
  /\ queue' = {[fire |-> f, sent |-> FALSE] : f \in pendingFires}
  /\ starts' = starts + 1
  /\ UNCHANGED <<clock, store, owners, due, runs, edit, faults, schedHistory>>

\* The process is gone, and with it everything that is not on disk.
Dies ==
  /\ daemon' = "down" /\ queue' = {} /\ due' = {}
  /\ runs' = [t \in Tasks |-> Asleep]

\* Killed between two steps, or ended by a storage error that a pass returns.
RunnerDies ==
  /\ daemon # "down" /\ starts < MaxStarts
  /\ Dies
  /\ UNCHANGED <<clock, store, owners, edit, limits, schedHistory>>

Sending == \E q \in queue : q.sent

RedeliverSend(q) ==
  /\ daemon = "redeliver" /\ ~ Sending
  /\ q.fire[1] \in owners
  /\ queue' = (queue \ {q}) \cup {[q EXCEPT !.sent = TRUE]}
  /\ wakes' = Count(wakes, q.fire[1], q.fire[2])
  /\ UNCHANGED <<clock, store, owners, daemon, due, runs, edit, limits, fired, res, errored,
                 passed, resumed, dropped>>

\* A wakeup that fails ends the runner before its first pass.
RedeliverFails(q) ==
  /\ daemon = "redeliver" /\ ~ Sending
  /\ q.fire[1] \in owners
  /\ faults < MaxFaults /\ starts < MaxStarts
  /\ faults' = faults + 1
  /\ Dies
  /\ UNCHANGED <<clock, store, owners, edit, starts, schedHistory>>

Settle(f) ==
  /\ pendingFires' = pendingFires \ {f}
  /\ deliveredFires' = IF f \in pendingFires THEN deliveredFires \cup {f} ELSE deliveredFires

\* mark_fire_delivered, after the wakeup or because nobody is left to hear it.
RedeliverMark(q) ==
  /\ daemon = "redeliver"
  /\ q.sent \/ (~ Sending /\ q.fire[1] \notin owners)
  /\ Settle(q.fire)
  /\ queue' = queue \ {q}
  /\ UNCHANGED <<clock, disk, owners, daemon, due, runs, edit, limits, schedHistory>>

Redelivered ==
  /\ daemon = "redeliver" /\ queue = {}
  /\ daemon' = "poll"
  /\ UNCHANGED <<clock, store, owners, queue, due, runs, edit, limits, schedHistory>>

\* The pass is over: sleep and poll again.
EndPass ==
  /\ daemon = "pass" /\ due = {} /\ Resting
  /\ daemon' = "poll"
  /\ UNCHANGED <<clock, store, owners, queue, due, runs, edit, limits, schedHistory>>

\* The restart marker is claimed between two passes.
Exit ==
  /\ daemon = "pass" /\ due = {} /\ Resting /\ starts < MaxStarts
  /\ Dies
  /\ UNCHANGED <<clock, store, owners, edit, limits, schedHistory>>

-----------------------------------------------------------------------------
(* claim_due_tasks. *)

\* What due_tasks reads, with the now_ms of the pass.
Due == {[id |-> t, task |-> disk[t], now |-> clock] : t \in {u \in Tasks : disk[u] # NoValue /\ IsDue(disk[u])}}

\* The earliest `Batch` due records; the order of equals is by name.
Earliest(batch) ==
  /\ batch \subseteq Due
  /\ Cardinality(batch) = IF Cardinality(Due) < Batch THEN Cardinality(Due) ELSE Batch
  /\ \A d \in batch, e \in Due \ batch : d.task.next <= e.task.next

Poll ==
  /\ daemon = "poll"
  /\ \E batch \in SUBSET Due : Earliest(batch) /\ due' = batch
  /\ daemon' = "pass"
  /\ UNCHANGED <<clock, store, owners, queue, runs, edit, limits, schedHistory>>

ClaimedAt(now, r) == [r EXCEPT !.lease = now + LeaseMs]

\* The copy that was read goes back with a lease that runs from the reading,
\* whatever is on disk by now.
ClaimTask(d) ==
  /\ daemon = "pass"
  /\ disk' = [disk EXCEPT ![d.id] = ClaimedAt(d.now, d.task)]
  /\ runs' = [runs EXCEPT ![d.id] = [Asleep EXCEPT !.pc = "plan", !.task = ClaimedAt(d.now, d.task)]]
  /\ due' = due \ {d}
  /\ UNCHANGED <<clock, pendingFires, deliveredFires, owners, daemon, queue, edit, limits,
                 schedHistory>>

-----------------------------------------------------------------------------
(* run_task, for every claimed task at once. *)

At(t, pc) == daemon = "pass" /\ due = {} /\ runs[t].pc = pc

\* After a fire the next slot, unless the owner turned out to be gone.
Onward(w) == IF w.todo = <<>> \/ ~ w.task.enabled THEN "resume" ELSE "fire"

PlanTask(t) ==
  /\ At(t, "plan")
  /\ LET plan == PlanMissedFires(t, runs[t].task)
         w == [runs[t] EXCEPT !.plan = plan, !.todo = plan.fires]
     IN runs' = [runs EXCEPT ![t] = [w EXCEPT !.pc = Onward(w)]]
  /\ UNCHANGED <<clock, store, owners, daemon, queue, due, edit, limits, schedHistory>>

Slot(t) == Head(runs[t].todo)

\* fire_once begins; the command runs and its artifact is written.
RunCommand(t) ==
  /\ At(t, "fire")
  /\ t \in owners
  /\ runs' = [runs EXCEPT ![t].pc = "pend"]
  /\ fired' = Count(fired, t, Slot(t))
  /\ res' = res \cup {<<t, Slot(t)>>}
  /\ UNCHANGED <<clock, store, owners, daemon, queue, due, edit, limits, wakes, errored,
                 passed, resumed, dropped>>

\* Neither sandbox nor artifact: the run ends in an error nobody is told of.
RunFails(t) ==
  /\ At(t, "fire")
  /\ \/ /\ t \in owners /\ faults < MaxFaults
        /\ faults' = faults + 1
        /\ runs' = [runs EXCEPT ![t].pc = "record"]
     \/ /\ t \notin owners
        /\ runs' = [runs EXCEPT ![t].pc = "record",
                                ![t].task.enabled = FALSE]
        /\ UNCHANGED faults
  /\ fired' = Count(fired, t, Slot(t))
  /\ errored' = errored \cup {<<t, Slot(t)>>}
  /\ UNCHANGED <<clock, store, owners, daemon, queue, due, edit, starts, wakes, res, passed,
                 resumed, dropped>>

\* Mutant: the fire is put among the delivered ones before the wakeup.
MutPutDelivered(t) ==
  /\ At(t, "pend")
  /\ deliveredFires' = deliveredFires \cup {<<t, Slot(t)>>}
  /\ runs' = [runs EXCEPT ![t].pc = "send"]
  /\ UNCHANGED <<clock, disk, pendingFires, owners, daemon, queue, due, edit, limits,
                 schedHistory>>

\* A no-op for a slot that was delivered before; the wakeup is sent even so.
PutPendingFire(t) ==
  /\ At(t, "pend")
  /\ pendingFires' = IF <<t, Slot(t)>> \in deliveredFires THEN pendingFires
                     ELSE pendingFires \cup {<<t, Slot(t)>>}
  /\ runs' = [runs EXCEPT ![t].pc = "send"]
  /\ UNCHANGED <<clock, disk, deliveredFires, owners, daemon, queue, due, edit, limits,
                 schedHistory>>

SendWakeup(t) ==
  /\ At(t, "send")
  /\ runs' = [runs EXCEPT ![t].pc = "mark"]
  /\ wakes' = Count(wakes, t, Slot(t))
  /\ UNCHANGED <<clock, store, owners, daemon, queue, due, edit, limits, fired, res,
                 errored, passed, resumed, dropped>>

\* Recording, waking or marking fails: the error ends the run and is put on its
\* record.  A wakeup may fail after the conversation heard it.  What is pending
\* stays so until the next start.
DeliveryFails(t) ==
  /\ \E pc \in {"pend", "send", "mark"} : At(t, pc)
  /\ faults < MaxFaults
  /\ faults' = faults + 1
  /\ runs' = [runs EXCEPT ![t].pc = "record"]
  /\ \/ UNCHANGED wakes
     \/ At(t, "send") /\ wakes' = Count(wakes, t, Slot(t))
  /\ errored' = IF At(t, "pend") THEN errored \cup {<<t, Slot(t)>>} ELSE errored
  /\ UNCHANGED <<clock, store, owners, daemon, queue, due, edit, starts, fired, res, passed,
                 resumed, dropped>>

MarkFireDelivered(t) ==
  /\ At(t, "mark")
  /\ Settle(<<t, Slot(t)>>)
  /\ runs' = [runs EXCEPT ![t].pc = "record"]
  /\ UNCHANGED <<clock, disk, owners, daemon, queue, due, edit, limits, schedHistory>>

\* fire_once ends: put_run, then put_task with the copy of this run.
RecordRun(t) ==
  /\ At(t, "record")
  /\ LET w == [runs[t] EXCEPT !.todo = Tail(@)]
     IN runs' = [runs EXCEPT ![t] = [w EXCEPT !.pc = Onward(w)]]
  /\ disk' = [disk EXCEPT ![t] = runs[t].task]
  /\ UNCHANGED <<clock, pendingFires, deliveredFires, owners, daemon, queue, due, edit,
                 limits, schedHistory>>

\* Back onto the grid, lease released.
Resume(t) ==
  /\ At(t, "resume")
  /\ LET plan == runs[t].plan
         fires == {plan.fires[k] : k \in DOMAIN plan.fires}
     IN /\ disk' = [disk EXCEPT ![t] = ResumeAfterFires(runs[t].task, plan)]
        /\ passed' = [passed EXCEPT ![t] = @ \cup ({s \in Slots : plan.outcome.due <= s
                                                      /\ s < plan.next} \ fires)]
        /\ resumed' = [resumed EXCEPT ![t] = plan.next + (IF plan.completes THEN 1 ELSE 0)]
  /\ runs' = [runs EXCEPT ![t] = Asleep]
  /\ UNCHANGED <<clock, pendingFires, deliveredFires, owners, daemon, queue, due, edit,
                 limits, fired, wakes, res, errored, dropped>>

RunnerStep ==
  \/ Redelivered \/ EndPass \/ Poll
  \/ \E q \in queue : RedeliverSend(q) \/ RedeliverMark(q)
  \/ \E d \in due : ClaimTask(d)
  \/ \E t \in Tasks : \/ PlanTask(t) \/ RunCommand(t) \/ RunFails(t) \/ PutPendingFire(t)
                      \/ SendWakeup(t) \/ DeliveryFails(t) \/ MarkFireDelivered(t)
                      \/ RecordRun(t) \/ Resume(t)

SchedNext ==
  \/ \E t \in Tasks : CreateTask(t) \/ DisableRead(t) \/ DisableWrite(t) \/ DeleteTask(t)
                      \/ RemoveOwner(t)
  \/ TimePasses \/ StartRunner \/ RunnerDies \/ Exit \/ RunnerStep
  \/ \E q \in queue : RedeliverFails(q)

SchedSpec == SchedInit /\ [][SchedNext]_schedVars

\* The guardian restarts the runner, time passes, and the runner's futures are polled.
FairSchedSpec ==
  SchedSpec /\ WF_schedVars(RunnerStep) /\ WF_schedVars(StartRunner) /\ WF_schedVars(TimePasses)

-----------------------------------------------------------------------------
(* Properties. *)

RecordType ==
  [enabled : BOOLEAN, completed : BOOLEAN, anchor : Times, lease : 0 .. MaxClock + LeaseMs,
   outcome : [due : Slots, fired : Nat, skipped : Nat] \cup {NoValue}, next : Slots]

\* Types, and: only a claimed task has a copy, and a run has a slot to fire.
SchedTypeOK ==
  /\ clock \in Times
  /\ \A t \in Tasks : disk[t] = NoValue \/ disk[t] \in RecordType
  /\ pendingFires \subseteq Fires /\ deliveredFires \subseteq Fires /\ owners \subseteq Tasks
  /\ daemon \in {"down", "redeliver", "poll", "pass"}
  /\ queue \subseteq [fire : Fires, sent : BOOLEAN]
  /\ \A t \in Tasks :
       /\ runs[t].pc \in {"idle", "plan", "fire", "pend", "send", "mark", "record", "resume"}
       /\ runs[t].pc = "idle" \/ runs[t].task \in RecordType
       /\ runs[t].pc \in {"fire", "pend", "send", "mark", "record"} => runs[t].todo # <<>>
  /\ starts \in 0 .. MaxStarts /\ faults \in 0 .. MaxFaults

\* The result of a run that finished reaches the conversation: it was woken, or
\* the wakeup is on disk for the next start, or the slot will be run again, or
\* the run failed before its fire was recorded, or the missed-fire policy passed
\* over the slot after a downtime (run_task_inner, redeliver_pending_wakes).
NoSilentRun ==
  \A f \in res :
    LET t == f[1]
    IN \/ wakes[t][f[2]] > 0 \/ f \in pendingFires \/ f \in errored \/ f[2] \in passed[t]
       \/ t \notin owners
       \/ disk[t] = NoValue \/ ~ disk[t].enabled
       \/ ~ disk[t].completed /\ disk[t].next <= f[2]

\* A slot is fired neither before its time nor again once the grid has resumed
\* beyond it, and a finished one-shot never: not after a crash and not when a
\* cancel puts an older copy of the record back.
NeverPastResume ==
  [][\A t \in Tasks, s \in Slots :
       fired'[t][s] > fired[t][s] => resumed[t] <= s /\ s <= clock]_schedVars

\* A runner process fires a slot once, and can repeat one wakeup of an earlier
\* process besides: no wakeup loops inside a process.
BoundedWakes ==
  \A t \in Tasks, s \in Slots :
    /\ fired[t][s] <= starts
    /\ wakes[t][s] > 0 => wakes[t][s] <= 2 * starts - 1

\* The key of a fire bounds a crash in the middle of its delivery to one repeated
\* wakeup rather than a loop (redeliver_pending_wakes, the page on the scheduler): a
\* slot wakes its conversation once, and once more for every time the runner died.
OneRepeat == \A t \in Tasks, s \in Slots : wakes[t][s] <= starts

\* A delivered fire is never pending again, so redelivery does not repeat it
\* (put_pending_fire against a rerun of a delivered slot).
NoResurrection == pendingFires \cap deliveredFires = {}

\* A recurring task stays on the grid of its anchor, and the recorded outcome
\* accounts for every slot between the one that was due and the next one.
Accounted ==
  \A t \in Tasks :
    disk[t] # NoValue /\ Every(t) =>
      LET r == disk[t]  i == Schedule[t].interval
      IN /\ r.next > r.anchor /\ (r.next - r.anchor) % i = 0
         /\ r.outcome # NoValue =>
              /\ (r.outcome.fired + r.outcome.skipped) * i = r.next - r.outcome.due
              /\ r.outcome.fired <= CatchupCap

\* Under "all" the slots that are given up are the oldest ones of a backlog that
\* exceeds the cap, never a slot between two fired ones.
NewestKept ==
  \A t \in Tasks :
    Policy[t] = "all" /\ Every(t) /\ runs[t].pc = "fire" /\ runs[t].todo = runs[t].plan.fires =>
      LET fires == runs[t].plan.fires  i == Schedule[t].interval
      IN /\ fires[Len(fires)] + i = runs[t].plan.next
         /\ \A k \in 1 .. Len(fires) - 1 : fires[k + 1] = fires[k] + i
         /\ Len(fires) = CatchupCap \/ fires[1] = runs[t].plan.outcome.due

\* The plan of a pass leaves no slot out and gives up only the oldest ones, and no
\* pass, crash or edit of the record fires a slot beyond which the grid resumed
\* (plan_missed_fires, run_task, disable_task).
PlanKept == [](Accounted /\ NewestKept) /\ NeverPastResume

\* The result of a run is heard, and not over and over: the conversation is woken
\* once per slot but for the repeats that runners which died owe.
FiresHeard == NoSilentRun /\ BoundedWakes /\ NoResurrection

\* Whatever dies, every due slot is run or passed over in the end, until the grid
\* is beyond the modelled time: a runner that dies with the lease delays the task
\* by the lease at most (leases that outlive the modelled time aside).
DueServed ==
  \A t \in Tasks :
    []<>(\/ disk[t] = NoValue
         \/ ~ disk[t].enabled \/ disk[t].completed
         \/ disk[t].next >= MaxClock \/ disk[t].lease > MaxClock)

\* A task that was cancelled or deleted stays so (the task scheduler page).
CancelSticks ==
  \A t \in dropped : runs[t] = Asleep /\ disk[t] # NoValue => ~ disk[t].enabled
=============================================================================
