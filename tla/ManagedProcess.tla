---------------------------- MODULE ManagedProcess ----------------------------
(***************************************************************************)
(* ProcessRegistry of crates/exoharness/src/sandbox_process.rs: one        *)
(* process with its two output readers, its supervising task, calls that   *)
(* write input, wait and cancel, and the child that a provider runs.       *)
(***************************************************************************)
EXTENDS Naturals, Sequences

CONSTANTS Streams,     \* stdout and stderr
          Waiters,     \* calls of wait_process
          MaxChunks    \* bound: chunks the child writes to a stream

ASSUME ProcAssumption == MaxChunks \in Nat

ProcEnds == {"exited", "failed", "cancelled"}

VARIABLES plog,     \* ProcessState.events: the stream of a chunk, or the end
          pstatus,  \* ProcessState.status
          unread,   \* per stream: chunks in the pipe
          wrote,    \* per stream: chunks the child wrote
          open,     \* streams somebody can still write to
          child,    \* "running", "exited" or, when wait fails, "lost"
          reader,   \* per stream: "reading", "stopping", "ok", "failed" or "cut"
          failures, \* messages in output_failures
          cancel,   \* Process.cancel
          exited,   \* Process.exited
          sup,      \* the supervising task: its next step
          verdict,  \* the status it is going to set
          input,    \* Process.stdin: "open", "locked" by a write, "closed"
          waiter    \* per wait call: "idle", "armed", "parked" or "back"

procVars == <<plog, pstatus, unread, wrote, open, child, reader, failures, cancel,
              exited, sup, verdict, input, waiter>>

outside == <<unread, wrote, open, child>>
state == <<plog, pstatus>>
tokens == <<cancel, exited>>

ProcInit ==
  /\ plog = <<>> /\ pstatus = "running"
  /\ unread = [s \in Streams |-> 0] /\ wrote = unread /\ open = Streams
  /\ child = "running"
  /\ reader = [s \in Streams |-> "reading"]
  /\ failures = 0
  /\ cancel = FALSE /\ exited = FALSE
  /\ sup = "select" /\ verdict = "running"
  /\ input \in {"open", "closed"}
  /\ waiter = [w \in Waiters |-> "idle"]

--------------------------------------------------------------------------------

\* The child.  A process that it leaves behind may keep a pipe open.
ChildWrites(s) ==
  /\ s \in open /\ wrote[s] < MaxChunks
  /\ unread' = [unread EXCEPT ![s] = @ + 1]
  /\ wrote' = [wrote EXCEPT ![s] = @ + 1]
  /\ UNCHANGED <<state, open, child, reader, failures, tokens, sup, verdict, input, waiter>>

ChildEnds ==
  /\ child = "running" /\ child' \in {"exited", "lost"}
  /\ UNCHANGED <<state, unread, wrote, open, reader, failures, tokens, sup, verdict, input,
                 waiter>>

PipeCloses(s) ==
  /\ s \in open /\ open' = open \ {s}
  /\ UNCHANGED <<state, unread, wrote, child, reader, failures, tokens, sup, verdict, input,
                 waiter>>

--------------------------------------------------------------------------------

\* Mutant: output is recorded whatever the status.
MutReadChunk(s) ==
  /\ reader[s] \in {"reading", "stopping"} /\ unread[s] > 0
  /\ unread' = [unread EXCEPT ![s] = @ - 1]
  /\ plog' = Append(plog, s)
  /\ UNCHANGED <<pstatus, wrote, open, child, reader, failures, tokens, sup, verdict, input,
                 waiter>>

\* read_output
ReadChunk(s) ==
  /\ reader[s] \in {"reading", "stopping"} /\ unread[s] > 0
  /\ unread' = [unread EXCEPT ![s] = @ - 1]
  /\ IF pstatus = "running"
       THEN plog' = Append(plog, s) /\ UNCHANGED reader
       ELSE reader' = [reader EXCEPT ![s] = "cut"] /\ UNCHANGED plog
  /\ UNCHANGED <<pstatus, wrote, open, child, failures, tokens, sup, verdict, input,
                 waiter>>

ReadEnd(s) ==
  /\ reader[s] = "reading" /\ unread[s] = 0 /\ s \notin open
  /\ reader' = [reader EXCEPT ![s] = "ok"]
  /\ UNCHANGED <<state, outside, failures, tokens, sup, verdict, input, waiter>>

ReadFails(s) ==
  /\ reader[s] = "reading"
  /\ reader' = [reader EXCEPT ![s] = "failed"]
  /\ failures' = failures + 1
  /\ UNCHANGED <<state, outside, tokens, sup, verdict, input, waiter>>

Stopped(s) ==
  /\ reader[s] = "stopping"
  /\ reader' = [reader EXCEPT ![s] = "cut"]
  /\ UNCHANGED <<state, outside, failures, tokens, sup, verdict, input, waiter>>

--------------------------------------------------------------------------------

\* The first select, in its order of preference.
Select ==
  /\ sup = "select" /\ (cancel \/ failures > 0 \/ child # "running")
  /\ verdict' = CASE cancel -> "cancelled"
                  [] failures > 0 \/ child = "lost" -> "failed"
                  [] OTHER -> "exited"
  /\ failures' = IF ~cancel /\ failures > 0 THEN failures - 1 ELSE failures
  /\ exited' = TRUE
  /\ sup' = IF verdict' = "failed" THEN "abort" ELSE "drain"
  /\ UNCHANGED <<state, outside, reader, cancel, input, waiter>>

Ended(s) == reader[s] \in {"ok", "failed"}

\* The second select: a cancellation, a failed reader, both readers' ends, or
\* two seconds.
Drain ==
  /\ sup = "drain"
  /\ \/ /\ cancel \/ failures = 0
        /\ sup' = "abort"          \* cancelled, or out of time
        /\ UNCHANGED <<verdict, failures>>
     \/ /\ ~cancel /\ failures > 0
        /\ verdict' = "failed" /\ failures' = failures - 1
        /\ sup' = "abort"
     \/ /\ ~cancel /\ failures = 0 /\ \A s \in Streams : Ended(s)
        /\ verdict' = IF verdict # "cancelled" /\ \E s \in Streams : reader[s] = "failed"
                        THEN "failed" ELSE verdict
        /\ sup' = "input"
        /\ UNCHANGED failures
  /\ UNCHANGED <<state, outside, reader, tokens, input, waiter>>

\* abort() stops a reader at its next await: it may have a chunk in its hand.
Abort ==
  /\ sup = "abort"
  /\ reader' = [s \in Streams |-> IF reader[s] = "reading" THEN "stopping" ELSE reader[s]]
  /\ sup' = "input"
  /\ UNCHANGED <<state, outside, verdict, failures, tokens, input, waiter>>

\* stdin.lock().await.take()
TakeInput ==
  /\ sup = "input" /\ input # "locked"
  /\ input' = "closed"
  /\ sup' = "finish"
  /\ UNCHANGED <<state, outside, reader, verdict, failures, tokens, waiter>>

\* Mutant: the Notified is not enabled, so that a call which has looked and does not
\* wait yet misses the notification.
MutFinish ==
  /\ sup = "finish"
  /\ plog' = Append(plog, verdict) /\ pstatus' = verdict
  /\ sup' = "end"
  /\ \E W \in SUBSET {w \in Waiters : waiter[w] = "parked"} :
       waiter' = [w \in Waiters |-> IF w \in W THEN "idle" ELSE waiter[w]]
  /\ UNCHANGED <<outside, reader, verdict, failures, tokens, input>>

\* notify_waiters reaches every call that has enabled its Notified.
Finish ==
  /\ sup = "finish"
  /\ plog' = Append(plog, verdict) /\ pstatus' = verdict
  /\ sup' = "end"
  /\ waiter' = [w \in Waiters |-> IF waiter[w] = "parked" THEN "idle" ELSE waiter[w]]
  /\ UNCHANGED <<outside, reader, verdict, failures, tokens, input>>

Supervisor == Select \/ Drain \/ Abort \/ TakeInput \/ Finish

--------------------------------------------------------------------------------

\* write_input: the lock is held until the child has taken the data, or the
\* call is given up.
WriteInput ==
  /\ input = "open" /\ ~cancel /\ ~exited
  /\ input' = "locked"
  /\ UNCHANGED <<state, outside, reader, failures, tokens, sup, verdict, waiter>>

InputTaken ==
  /\ input = "locked" /\ input' = "open"
  /\ UNCHANGED <<state, outside, reader, failures, tokens, sup, verdict, waiter>>

GiveUpInput ==
  /\ input = "locked" /\ (cancel \/ exited)
  /\ input' = "open"
  /\ UNCHANGED <<state, outside, reader, failures, tokens, sup, verdict, waiter>>

CloseInput ==
  /\ input = "open" /\ input' = "closed"
  /\ UNCHANGED <<state, outside, reader, failures, tokens, sup, verdict, waiter>>

\* cancel_process, cancel_all of a sandbox that stops, and the registry's drop.
CancelProcess ==
  /\ ~cancel /\ cancel' = TRUE
  /\ UNCHANGED <<state, outside, reader, failures, exited, sup, verdict, input, waiter>>

\* wait: enable, then look.  A notification in between is remembered, so that
\* the call looks again at once.
Arm(w) ==
  /\ waiter[w] = "idle"
  /\ waiter' = [waiter EXCEPT ![w] = "armed"]
  /\ UNCHANGED <<state, outside, reader, failures, tokens, sup, verdict, input>>

Look(w) ==
  /\ waiter[w] = "armed"
  /\ waiter' = [waiter EXCEPT ![w] = IF pstatus = "running" THEN "parked" ELSE "back"]
  /\ UNCHANGED <<state, outside, reader, failures, tokens, sup, verdict, input>>

--------------------------------------------------------------------------------

ReaderStep(s) == ReadChunk(s) \/ ReadEnd(s) \/ Stopped(s)

ProcNext ==
  \/ ChildEnds \/ Supervisor \/ WriteInput \/ InputTaken \/ GiveUpInput \/ CloseInput
  \/ CancelProcess
  \/ \E s \in Streams : ChildWrites(s) \/ PipeCloses(s) \/ ReaderStep(s) \/ ReadFails(s)
  \/ \E w \in Waiters : Arm(w) \/ Look(w)

\* The tasks run; the child need not do anything, nor take its input.
ProcFairness ==
  /\ WF_procVars(Supervisor) /\ WF_procVars(GiveUpInput)
  /\ \A s \in Streams : WF_procVars(ReaderStep(s))
  /\ \A w \in Waiters : WF_procVars(Arm(w) \/ Look(w))

ProcSpec == ProcInit /\ [][ProcNext]_procVars
FairProcSpec == ProcSpec /\ ProcFairness

--------------------------------------------------------------------------------

\* Types; no more output is read than was written.
ProcTypeOK ==
  /\ plog \in Seq(Streams \cup ProcEnds) /\ pstatus \in ProcEnds \cup {"running"}
  /\ unread \in [Streams -> 0..MaxChunks] /\ wrote \in [Streams -> 0..MaxChunks]
  /\ open \subseteq Streams /\ child \in {"running", "exited", "lost"}
  /\ reader \in [Streams -> {"reading", "stopping", "ok", "failed", "cut"}]
  /\ failures \in Nat /\ cancel \in BOOLEAN /\ exited \in BOOLEAN
  /\ sup \in {"select", "drain", "abort", "input", "finish", "end"}
  /\ verdict \in ProcEnds \cup {"running"} /\ input \in {"open", "locked", "closed"}
  /\ waiter \in [Waiters -> {"idle", "armed", "parked", "back"}]

Contract == INSTANCE ProcessLog WITH Output <- Streams, Ends <- ProcEnds,
                                     log <- plog, status <- pstatus

\* Readers of the log see output and then one terminal event, which no output of
\* a reader that was not aborted in time can follow.
ImplementsLog == Contract!Spec

\* A process that is reported as exited, no reader of which failed or was cut
\* off, has all its output in the log, that of the streams' last writers included.
ExitHasOutput ==
  [][(/\ pstatus = "running" /\ pstatus' = "exited"
      /\ \A s \in Streams : reader[s] \in {"reading", "ok"})
     => \A s \in Streams : unread[s] = 0 /\ s \notin open]_procVars

\* What readers of the buffer are promised: the contract of ProcessLog, and no exit
\* before the output.
LogPromise == ImplementsLog /\ ExitHasOutput

\* The end of the child or a cancellation is reported, even when a process that
\* the child left behind keeps the pipes and a write of input is stuck.  Neither
\* is ever undone, so the report must come in the end.
EndIsReported == []<>(child # "running" \/ cancel => pstatus # "running")

\* Nobody who waits misses the end.
WaitersReturn == []<>(pstatus # "running" => \A w \in Waiters : waiter[w] = "back")
================================================================================
