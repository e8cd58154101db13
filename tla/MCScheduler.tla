----------------------------- MODULE MCScheduler -----------------------------
(* Scheduler with one recurring task. *)
EXTENDS Scheduler

MCSchedule == [t \in Tasks |-> [kind |-> "every", interval |-> 2]]
AllOnce == [t \in Tasks |-> "once"]
=============================================================================
