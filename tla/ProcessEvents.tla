----------------------------- MODULE ProcessEvents -----------------------------
(***************************************************************************)
(* RunningSandboxProcess of crates/exoharness/src/basic/sandboxes.rs: one  *)
(* process whose output readers, exit task and cancel call share a list of *)
(* events, a status and a count of open streams, each behind a lock of its *)
(* own, and two readers of them: a call that follows the events, and the   *)
(* poller of http/process.rs that turns them into streams and an exit code.*)
(***************************************************************************)
EXTENDS Naturals, Sequences, FiniteSets

CONSTANTS Pipes,      \* stdout and stderr
          Talkers,    \* bound: the streams the child writes to
          MaxWrites   \* bound: chunks the child writes to a stream

ASSUME EventsAssumption ==
  /\ \E o, e \in Pipes : o # e /\ Pipes = {o, e}
  /\ Pipes \cap {"exit", "error", "cancelled"} = {}
  /\ MaxWrites \in Nat /\ Talkers \subseteq Pipes

VARIABLES elog,     \* events: the stream of a chunk, "exit", "error" or "cancelled"
          estatus,  \* status
          kept,     \* the thread exists, so that events can be journalled
          piped,    \* per stream: chunks in the pipe
          written,  \* per stream: chunks written
          held,     \* streams somebody can still write to
          code,     \* what waiting for the child gives: an exit code or an error
          tap,      \* per stream: its record_sandbox_process_output task
          streams,  \* open_output_streams
          exitTask, \* record_sandbox_process_exit
          group,    \* the task group has not been dropped
          kill,     \* cancel_sandbox_process
          follow,   \* get_sandbox_process_events with follow
          poll,     \* the poller: its next step, cursor, events in hand, status
          shown,    \* per stream: chunks the poller wrote to it
          result    \* what the poller reported, and on what grounds

eventVars == <<elog, estatus, kept, piped, written, held, code, tap, streams, exitTask,
               group, kill, follow, poll, shown, result>>

world == <<kept, piped, written, held, code>>
work == <<tap, streams, exitTask, group, kill>>
clients == <<follow, poll, shown, result>>

EventsInit ==
  /\ elog = <<>> /\ estatus = "running" /\ kept \in BOOLEAN
  /\ piped = [s \in Pipes |-> 0] /\ written = piped /\ held = Pipes /\ code = "none"
  /\ tap = [s \in Pipes |-> "read"] /\ streams = 2
  /\ exitTask = "wait" /\ group = TRUE /\ kill = "none"
  /\ \E client \in {"follower", "poller"} :
       /\ follow = [at |-> IF client = "follower" THEN "arm" ELSE "none", some |-> FALSE]
       /\ poll = [at |-> IF client = "poller" THEN "events" ELSE "none", cursor |-> 0, upto |-> 0]
  /\ shown = [s \in Pipes |-> 0] /\ result = "none"

--------------------------------------------------------------------------------

WorldStep ==
  /\ \/ \E s \in held \cap Talkers : /\ written[s] < MaxWrites
                        /\ written' = [written EXCEPT ![s] = @ + 1]
                        /\ piped' = [piped EXCEPT ![s] = @ + 1]
                        /\ UNCHANGED <<held, code>>
     \/ \E s \in held : held' = held \ {s} /\ UNCHANGED <<written, piped, code>>
     \/ code = "none" /\ code' \in {"exit", "error"} /\ UNCHANGED <<written, piped, held>>
  /\ UNCHANGED <<kept, elog, estatus, work, clients>>

\* notify_waiters: a follower that has armed looks again.
Notified == IF follow.at \in {"armed", "looked", "parked"} THEN [follow EXCEPT !.at = "again"]
                                                           ELSE follow

\* push_sandbox_process_event; when it cannot be journalled an error follows (in
\* the code other events may come in between).
Push(e) ==
  /\ elog' = IF kept THEN Append(elog, e) ELSE elog \o <<e, "error">>
  /\ follow' = Notified
  /\ UNCHANGED <<poll, shown, result>>

\* set_sandbox_process_status
SetStatus(s) ==
  /\ estatus' = s
  /\ elog' = IF kept THEN elog ELSE Append(elog, "error")
  /\ follow' = Notified
  /\ UNCHANGED <<poll, shown, result>>

--------------------------------------------------------------------------------

TapChunk(s) ==
  /\ group /\ tap[s] = "read" /\ piped[s] > 0
  /\ piped' = [piped EXCEPT ![s] = @ - 1]
  /\ Push(s)
  /\ UNCHANGED <<estatus, kept, written, held, code, work>>

TapError(s) ==
  /\ group /\ tap[s] = "read"
  /\ Push("error")
  /\ tap' = [tap EXCEPT ![s] = "fail"]
  /\ UNCHANGED <<estatus, world, streams, exitTask, group, kill>>

TapFail(s) ==
  /\ group /\ tap[s] = "fail"
  /\ SetStatus("failed")
  /\ tap' = [tap EXCEPT ![s] = "close"]
  /\ UNCHANGED <<world, streams, exitTask, group, kill>>

\* mark_sandbox_process_output_closed: count, then notify.
TapClose(s) ==
  /\ group
  /\ tap[s] = "close" \/ (tap[s] = "read" /\ piped[s] = 0 /\ s \notin held)
  /\ streams' = IF streams > 0 THEN streams - 1 ELSE 0
  /\ tap' = [tap EXCEPT ![s] = IF streams \in {0, 1} THEN "notify" ELSE "end"]
  /\ UNCHANGED <<elog, estatus, world, exitTask, group, kill, clients>>

TapNotify(s) ==
  /\ group /\ tap[s] = "notify"
  /\ exitTask' = IF exitTask \in {"armed", "parked"} THEN "drain" ELSE exitTask
  /\ tap' = [tap EXCEPT ![s] = "end"]
  /\ UNCHANGED <<elog, estatus, world, streams, group, kill, clients>>

Tap(s) == TapChunk(s) \/ TapFail(s) \/ TapClose(s) \/ TapNotify(s)

--------------------------------------------------------------------------------

Exits(from, to) ==
  /\ group /\ exitTask = from /\ exitTask' = to
  /\ UNCHANGED <<world, tap, streams, group, kill>>

ExitSeen == code # "none" /\ Exits("wait", "drain") /\ UNCHANGED <<elog, estatus, clients>>

\* wait_for_sandbox_process_output_drained: enable, then read the count.
DrainArm == Exits("drain", "armed") /\ UNCHANGED <<elog, estatus, clients>>

DrainLook ==
  /\ Exits("armed", IF streams = 0 THEN "check" ELSE "parked")
  /\ UNCHANGED <<elog, estatus, clients>>

\* A stream that failed has said how the process ended.
ExitPush ==
  \/ estatus = "running" /\ Exits("check", "set") /\ Push(code) /\ UNCHANGED estatus
  \/ estatus # "running" /\ Exits("check", "end") /\ UNCHANGED <<elog, estatus, clients>>

ExitSet == Exits("set", "end") /\ SetStatus(IF code = "exit" THEN "exited" ELSE "failed")

ExitStep == ExitSeen \/ DrainArm \/ DrainLook \/ ExitPush \/ ExitSet

\* cancel_sandbox_process: the tasks are dropped, whatever they were doing.
Cancel1 ==
  /\ kill = "none" /\ kill' = "push"
  /\ group' = FALSE
  /\ UNCHANGED <<elog, estatus, world, tap, streams, exitTask, clients>>

Cancel2 ==
  /\ kill = "push" /\ kill' = "set"
  /\ Push("cancelled")
  /\ UNCHANGED <<estatus, world, tap, streams, exitTask, group>>

Cancel3 ==
  /\ kill = "set" /\ kill' = "done"
  /\ SetStatus("cancelled")
  /\ UNCHANGED <<world, tap, streams, exitTask, group>>

--------------------------------------------------------------------------------

FollowArm ==
  /\ follow.at \in {"arm", "again"}
  /\ follow' = [follow EXCEPT !.at = "armed"]
  /\ UNCHANGED <<elog, estatus, world, work, poll, shown, result>>

FollowEvents ==
  /\ follow.at = "armed"
  /\ follow' = [at |-> "looked", some |-> elog # <<>>]
  /\ UNCHANGED <<elog, estatus, world, work, poll, shown, result>>

FollowStatus ==
  /\ follow.at = "looked"
  /\ follow' = [at |-> IF follow.some \/ estatus # "running" THEN "back" ELSE "parked",
                some |-> FALSE]
  /\ UNCHANGED <<elog, estatus, world, work, poll, shown, result>>

FollowStep == FollowArm \/ FollowEvents \/ FollowStatus

--------------------------------------------------------------------------------

PollEvents ==
  /\ poll.at = "events"
  /\ poll' = [at |-> "status", cursor |-> poll.cursor, upto |-> Len(elog)]
  /\ UNCHANGED <<elog, estatus, world, work, follow, shown, result>>

Polled == [at |-> "end", cursor |-> 0, upto |-> poll.upto]

IsOutput(e) == e \in Pipes
Chunks(s, positions) == Cardinality({i \in positions : elog[i] = s})

\* Mutant: the cursor is not moved when the answer has events.
MutPollStatus ==
  LET new == poll.cursor + 1 .. poll.upto
      ends == {i \in new : ~IsOutput(elog[i])}
  IN
  /\ poll.at = "status"
  /\ shown' = [s \in Pipes |-> shown[s] + Chunks(s, new)]
  /\ poll' = IF ends # {} THEN Polled ELSE [poll EXCEPT !.at = "events"]
  /\ result' = IF ends # {} THEN elog[CHOOSE i \in ends : \A j \in ends : i <= j] ELSE "none"
  /\ UNCHANGED <<elog, estatus, world, work, follow>>

\* The answer has the events of before and the status of now.  Chunks go to the
\* streams up to the first terminal event, which decides; the status decides
\* when there is none.
PollStatus ==
  LET new == poll.cursor + 1 .. poll.upto
      ends == {i \in new : ~IsOutput(elog[i])}
      read == {i \in new : \A j \in ends : i <= j}
  IN
  /\ poll.at = "status"
  /\ shown' = [s \in Pipes |-> shown[s] + Chunks(s, read)]
  /\ poll' = IF ends # {} \/ estatus # "running" THEN Polled
             ELSE [at |-> "events", cursor |-> poll.upto, upto |-> 0]
  /\ \/ \E i \in ends \cap read : result' = elog[i]
     \/ ends = {} /\ result' = IF estatus # "running" THEN "by status" ELSE "none"
  /\ UNCHANGED <<elog, estatus, world, work, follow>>

\* A request that fails, or a consumer that is gone, ends the poller.
PollFail ==
  /\ poll.at = "events"
  /\ poll' = Polled /\ result' = "error"
  /\ UNCHANGED <<elog, estatus, world, work, follow, shown>>

EventsNext ==
  \/ WorldStep \/ ExitStep \/ Cancel1 \/ Cancel2 \/ Cancel3 \/ FollowStep
  \/ PollEvents \/ PollStatus \/ PollFail
  \/ \E s \in Pipes : Tap(s) \/ TapError(s)

\* The tasks, the calls and the poller run on; the child need not.
EventsFairness ==
  /\ \A s \in Pipes : WF_eventVars(Tap(s))
  /\ WF_eventVars(ExitStep) /\ WF_eventVars(Cancel2 \/ Cancel3)
  /\ WF_eventVars(FollowStep) /\ WF_eventVars(PollEvents \/ PollStatus)

EventsSpec == EventsInit /\ [][EventsNext]_eventVars
FairEventsSpec == EventsSpec /\ EventsFairness

--------------------------------------------------------------------------------

\* Types; no chunk is recorded that was not written.
EventsTypeOK ==
  /\ elog \in Seq(Pipes \cup {"exit", "error", "cancelled"})
  /\ estatus \in {"running", "exited", "failed", "cancelled"}
  /\ kept \in BOOLEAN /\ code \in {"none", "exit", "error"} /\ group \in BOOLEAN
  /\ piped \in [Pipes -> 0..MaxWrites] /\ written \in [Pipes -> 0..MaxWrites]
  /\ held \subseteq Pipes /\ streams \in 0..2
  /\ tap \in [Pipes -> {"read", "fail", "close", "notify", "end"}]
  /\ exitTask \in {"wait", "drain", "armed", "parked", "check", "set", "end"}
  /\ kill \in {"none", "push", "set", "done"}
  /\ follow \in [at : {"none", "arm", "armed", "looked", "parked", "again", "back"},
                 some : BOOLEAN]
  /\ poll \in [at : {"none", "events", "status", "end"}, cursor : Nat, upto : Nat]
  /\ shown \in [Pipes -> Nat] /\ result \in {"none", "exit", "error", "cancelled", "by status"}

\* An exit event is the last word of a process that ran to its end: all output
\* is before it and no read has failed.
ExitIsClean ==
  \A i \in DOMAIN elog : elog[i] = "exit" =>
    /\ \A j \in DOMAIN elog : j > i => elog[j] \notin Pipes
    /\ \A j \in 1..i : elog[j] = "error" => ~kept

\* A poller that meets the exit event has passed on all output.
ExitComplete == result = "exit" => \A s \in Pipes : shown[s] = Chunks(s, DOMAIN elog)

\* One that meets no terminal event and reports the end from the status has been
\* overtaken between its two reads: it passed on every chunk it had read, once, and
\* the terminal event is in the log beyond those.  What was logged between the two
\* reads is lost to its client, output before the exit included; nothing else is.
StatusComplete ==
  result = "by status" =>
    /\ \A s \in Pipes : shown[s] = Chunks(s, 1..poll.upto)
    /\ \E i \in DOMAIN elog : i > poll.upto /\ ~IsOutput(elog[i])

\* The event log has no output behind the exit, and a client that polls it misses
\* output only when the end overtook it between its read of the events and its
\* read of the status.
OutputFirst == ExitIsClean /\ ExitComplete /\ StatusComplete

\* When the child is gone and nobody holds the pipes, which lasts, the end is
\* recorded sooner or later.
ExitRecorded == []<>(code # "none" /\ held = {} => estatus # "running")

\* Whoever follows the events hears of the first one sooner or later.
FollowerServed == []<>(elog # <<>> \/ estatus # "running" => follow.at \in {"back", "none"})
================================================================================
