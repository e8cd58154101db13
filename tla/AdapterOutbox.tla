---------------------------- MODULE AdapterOutbox ----------------------------
(***************************************************************************)
(* The messages of one adapter (crates/executor/src/native/adapter):       *)
(*   store.rs    the outbox, in-flight, delivered, failed and seen files   *)
(*   worker.rs   the worker loop, its command task and its event task      *)
(*   runtime.rs  the adapter loop and the handling of worker events        *)
(* A step is one file operation, each atomic by a rename, or one message   *)
(* between the runner and the worker, the process of the provider under    *)
(* exo/adapters: it sends each command and acknowledges it, or rejects     *)
(* it, or dies.  The provider may deliver an inbound message repeatedly.   *)
(***************************************************************************)
EXTENDS Naturals, Sequences, FiniteSets

CONSTANTS Messages,     \* outbound messages
          Inbound,      \* provider ids of inbound messages
          Nothing,         \* no file; no job
          MaxAttempts,  \* MAX_DELIVERY_ATTEMPTS
          MaxQueued,    \* MAX_QUEUED_MESSAGES_PER_ADAPTER
          MaxClaim,     \* MAX_MESSAGES_PER_CLAIM
          MaxStops,     \* bound on how often the loop or the process ends
          MaxArrivals   \* bound on inbound deliveries

Attempts == 0 .. MaxAttempts
OutboxEvent == [kind : {"ack", "nack", "message"}, id : Messages \cup Inbound]
OutboxJob ==
  [kind : {"ack", "nack", "message"}, id : Messages \cup Inbound, attempt : Attempts,
   step : {"read", "putDelivered", "rmInflight", "rmOutbox", "write", "wake"}]

ASSUME OutboxAssumption ==
  /\ MaxAttempts \in Nat \ {0} /\ MaxQueued \in Nat \ {0} /\ MaxClaim \in Nat \ {0}
  /\ MaxStops \in Nat /\ MaxArrivals \in Nat
  /\ Nothing \notin Messages \cup Attempts \cup OutboxJob

VARIABLES outbox,     \* outbox/: per message the attempt in its file, or Nothing
          inflight,   \* outbox-inflight/: likewise
          delivered,  \* outbox-delivered/
          failed,     \* outbox-failed/
          seen,       \* inbound-seen/
          loop,       \* the adapter loop: "down", "requeue" or "up"
          claim,      \* the message whose claim is half done
          batch,      \* claimed messages not yet given to the worker
          sending,    \* the command task writes a batch to the worker
          given,      \* commands the worker has not answered
          events,     \* worker events not yet handled, in order
          job,        \* what is being done with a message, or Nothing
          stops,      \* how often the loop ended
          arrivals,   \* how many inbound deliveries there were
          queued,     \* history: messages accepted into the outbox
          sent,       \* history: how often the provider got a message
          woken,      \* history: how often an inbound message woke a turn
          unheard     \* history: inbound messages whose wakeup failed or was cut off

files == <<outbox, inflight, delivered, failed, seen>>
tasks == <<claim, batch, sending>>
counts == <<stops, arrivals>>
record == <<queued, sent, woken, unheard>>
outboxVars == <<files, loop, tasks, given, events, job, counts, record>>

OutboxInit ==
  /\ outbox = [m \in Messages |-> Nothing] /\ inflight = outbox
  /\ delivered = {} /\ failed = {} /\ seen = {}
  /\ loop = "down" /\ claim = Nothing /\ batch = {} /\ sending = FALSE
  /\ given = {} /\ events = <<>> /\ job = Nothing
  /\ stops = 0 /\ arrivals = 0
  /\ queued = {} /\ sent = [m \in Messages |-> 0] /\ woken = [i \in Inbound |-> 0]
  /\ unheard = {}

Pending(m) == outbox[m] # Nothing \/ inflight[m] # Nothing
Put(dir, m, attempt) == [dir EXCEPT ![m] = attempt]
Remove(dir, m) == [dir EXCEPT ![m] = Nothing]

-----------------------------------------------------------------------------
(* send_adapter_message, in whatever process runs the turn. *)

Enqueue(m) ==
  /\ m \notin queued
  /\ Cardinality({n \in Messages : outbox[n] # Nothing})
       + Cardinality({n \in Messages : inflight[n] # Nothing}) < MaxQueued
  /\ outbox' = Put(outbox, m, 0)
  /\ queued' = queued \cup {m}
  /\ UNCHANGED <<inflight, delivered, failed, seen, loop, tasks, given, events, job,
                 counts, sent, woken, unheard>>

-----------------------------------------------------------------------------
(* The adapter loop: requeue what an earlier loop left, then run a worker. *)

StartLoop ==
  /\ loop = "down"
  /\ loop' = "requeue"
  /\ UNCHANGED <<files, tasks, given, events, job, counts, record>>

Doing(kind, step) == job # Nothing /\ job.kind = kind /\ job.step = step
Job(kind, m) == [kind |-> kind, id |-> m, step |-> "read", attempt |-> 0]

RequeueNext(m) ==
  /\ loop = "requeue" /\ job = Nothing /\ inflight[m] # Nothing
  /\ job' = Job("nack", m)
  /\ UNCHANGED <<files, loop, tasks, given, events, counts, record>>

\* Mutant: the worker starts without the requeue.
MutSpawnWorker ==
  /\ loop = "requeue" /\ job = Nothing
  /\ loop' = "up"
  /\ UNCHANGED <<files, tasks, given, events, job, counts, record>>

SpawnWorker ==
  /\ loop = "requeue" /\ job = Nothing /\ \A m \in Messages : inflight[m] = Nothing
  /\ loop' = "up"
  /\ UNCHANGED <<files, tasks, given, events, job, counts, record>>

\* The worker exits, a task fails, the adapter is disabled or the process dies:
\* the tasks are aborted wherever they are.  A wakeup cut off may have begun its turn.
Stop ==
  /\ loop # "down" /\ stops < MaxStops
  /\ stops' = stops + 1
  /\ loop' = "down"
  /\ claim' = Nothing /\ batch' = {} /\ sending' = FALSE
  /\ given' = {} /\ events' = <<>> /\ job' = Nothing
  /\ IF Doing("message", "wake")
       THEN /\ unheard' = unheard \cup {job.id}
            /\ woken' \in {woken, [woken EXCEPT ![job.id] = @ + 1]}
       ELSE UNCHANGED <<unheard, woken>>
  /\ UNCHANGED <<files, arrivals, queued, sent>>

-----------------------------------------------------------------------------
(* The command task: claim_outbound_messages, then one line per message. *)

ClaimWrite(m) ==
  /\ loop = "up" /\ ~ sending /\ claim = Nothing
  /\ outbox[m] # Nothing /\ m \notin batch /\ Cardinality(batch) < MaxClaim
  /\ inflight' = Put(inflight, m, outbox[m] + 1)
  /\ claim' = m
  /\ UNCHANGED <<outbox, delivered, failed, seen, loop, batch, sending, given, events, job,
                 counts, record>>

ClaimRemove ==
  /\ claim # Nothing
  /\ outbox' = Remove(outbox, claim)
  /\ batch' = batch \cup {claim}
  /\ claim' = Nothing
  /\ UNCHANGED <<inflight, delivered, failed, seen, loop, sending, given, events, job,
                 counts, record>>

\* The directory is read to its end, or the claim is full.
ClaimDone ==
  /\ loop = "up" /\ ~ sending /\ claim = Nothing /\ batch # {}
  /\ sending' = TRUE
  /\ UNCHANGED <<files, loop, claim, batch, given, events, job, counts, record>>

SendCommand(m) ==
  /\ sending /\ m \in batch
  /\ given' = given \cup {m}
  /\ batch' = batch \ {m}
  /\ sending' = (batch # {m})
  /\ UNCHANGED <<files, loop, claim, events, job, counts, record>>

-----------------------------------------------------------------------------
(* The worker. *)

\* It hands a message to the provider and acknowledges the command.
Deliver(m) ==
  /\ m \in given
  /\ sent' = [sent EXCEPT ![m] = @ + 1]
  /\ given' = given \ {m}
  /\ events' = Append(events, [kind |-> "ack", id |-> m])
  /\ UNCHANGED <<files, loop, tasks, job, counts, queued, woken, unheard>>

\* It cannot, or not confirm it.
Reject(m) ==
  /\ m \in given
  /\ sent' \in {sent, [sent EXCEPT ![m] = @ + 1]}
  /\ given' = given \ {m}
  /\ events' = Append(events, [kind |-> "nack", id |-> m])
  /\ UNCHANGED <<files, loop, tasks, job, counts, queued, woken, unheard>>

Arrive(i) ==
  /\ loop = "up" /\ arrivals < MaxArrivals
  /\ arrivals' = arrivals + 1
  /\ events' = Append(events, [kind |-> "message", id |-> i])
  /\ UNCHANGED <<files, loop, tasks, given, job, stops, record>>

-----------------------------------------------------------------------------
(* The event task: one event at a time, in order. *)

\* Mutant: the next event is taken while one is being handled.
MutTakeEvent ==
  /\ loop = "up" /\ events # <<>>
  /\ job' = Job(Head(events).kind, Head(events).id)
  /\ events' = Tail(events)
  /\ UNCHANGED <<files, loop, tasks, given, counts, record>>

TakeEvent ==
  /\ loop = "up" /\ job = Nothing /\ events # <<>>
  /\ job' = Job(Head(events).kind, Head(events).id)
  /\ events' = Tail(events)
  /\ UNCHANGED <<files, loop, tasks, given, counts, record>>

Step(step) == job' = [job EXCEPT !.step = step]

\* read_pending_outbound_message: the in-flight file counts if there are two.
ReadAttempt(m) == IF inflight[m] # Nothing THEN inflight[m] ELSE outbox[m]

ReadPending ==
  /\ \E kind \in {"ack", "nack"} : Doing(kind, "read")
  /\ job' = IF Pending(job.id)
            THEN [job EXCEPT !.attempt = ReadAttempt(job.id),
                             !.step = IF job.kind = "ack" THEN "putDelivered" ELSE "rmInflight"]
            ELSE Nothing
  /\ UNCHANGED <<files, loop, tasks, given, events, counts, record>>

PutDelivered ==
  /\ Doing("ack", "putDelivered")
  /\ delivered' = delivered \cup {job.id}
  /\ Step("rmInflight")
  /\ UNCHANGED <<outbox, inflight, failed, seen, loop, tasks, given, events, counts, record>>

RemoveInflight ==
  /\ \E kind \in {"ack", "nack"} : Doing(kind, "rmInflight")
  /\ inflight' = Remove(inflight, job.id)
  /\ Step("rmOutbox")
  /\ UNCHANGED <<outbox, delivered, failed, seen, loop, tasks, given, events, counts, record>>

RemoveOutbox ==
  /\ \E kind \in {"ack", "nack"} : Doing(kind, "rmOutbox")
  /\ outbox' = Remove(outbox, job.id)
  /\ job' = IF job.kind = "ack" THEN Nothing ELSE [job EXCEPT !.step = "write"]
  /\ UNCHANGED <<inflight, delivered, failed, seen, loop, tasks, given, events, counts, record>>

\* Mutant: a message that was rejected is queued as if it were new.
MutPutNew ==
  /\ Doing("nack", "write")
  /\ outbox' = Put(outbox, job.id, 0)
  /\ job' = Nothing
  /\ UNCHANGED <<inflight, delivered, failed, seen, loop, tasks, given, events, counts, record>>

\* The rejected message is written back, or to the failed ones.
PutBack ==
  /\ Doing("nack", "write")
  /\ IF job.attempt >= MaxAttempts
     THEN failed' = failed \cup {job.id} /\ UNCHANGED outbox
     ELSE outbox' = Put(outbox, job.id, job.attempt) /\ UNCHANGED failed
  /\ job' = Nothing
  /\ UNCHANGED <<inflight, delivered, seen, loop, tasks, given, events, counts, record>>

\* record_inbound_message_once: create_new decides who was first.
MarkInbound ==
  /\ Doing("message", "read")
  /\ IF job.id \in seen
     THEN job' = Nothing /\ UNCHANGED seen
     ELSE seen' = seen \cup {job.id} /\ Step("wake")
  /\ UNCHANGED <<outbox, inflight, delivered, failed, loop, tasks, given, events, counts, record>>

\* The wakeup turn begins; the worker stays up even if it fails.
Wake ==
  /\ Doing("message", "wake")
  /\ woken' = [woken EXCEPT ![job.id] = @ + 1]
  /\ job' = Nothing
  /\ UNCHANGED <<files, loop, tasks, given, events, counts, queued, sent, unheard>>

\* Its lock or its place in the queue is not to be had: that is recorded and the worker
\* stays up, but the marker of the message stays too.
WakeFails ==
  /\ Doing("message", "wake")
  /\ unheard' = unheard \cup {job.id}
  /\ job' = Nothing
  /\ UNCHANGED <<files, loop, tasks, given, events, counts, queued, sent, woken>>

JobStep == ReadPending \/ PutDelivered \/ RemoveInflight \/ RemoveOutbox \/ PutBack
           \/ MarkInbound \/ Wake \/ WakeFails

LoopStep == StartLoop \/ SpawnWorker \/ TakeEvent \/ JobStep
            \/ \E m \in Messages : RequeueNext(m)
CommandStep == ClaimRemove \/ ClaimDone \/ \E m \in Messages : ClaimWrite(m) \/ SendCommand(m)
WorkerStep == \E m \in Messages : Deliver(m) \/ Reject(m)

OutboxNext ==
  \/ \E m \in Messages : Enqueue(m)
  \/ LoopStep \/ CommandStep \/ WorkerStep \/ Stop
  \/ \E i \in Inbound : Arrive(i)

OutboxSpec == OutboxInit /\ [][OutboxNext]_outboxVars

\* The supervisor restarts the loop, the tasks of the runner are polled, and a
\* worker that lives answers its commands.
OutboxFairness ==
  /\ WF_outboxVars(LoopStep) /\ WF_outboxVars(CommandStep)
  /\ WF_outboxVars(WorkerStep)

FairOutboxSpec == OutboxSpec /\ OutboxFairness

-----------------------------------------------------------------------------
(* Properties. *)

\* Types; attempts never exceed the limit, in-flight ones are counted from 1.
OutboxTypeOK ==
  /\ outbox \in [Messages -> Attempts \cup {Nothing}]
  /\ inflight \in [Messages -> (Attempts \ {0}) \cup {Nothing}]
  /\ delivered \subseteq queued /\ failed \subseteq queued /\ seen \subseteq Inbound
  /\ loop \in {"down", "requeue", "up"}
  /\ claim \in Messages \cup {Nothing} /\ batch \subseteq Messages /\ given \subseteq Messages
  /\ events \in Seq(OutboxEvent) /\ job \in OutboxJob \cup {Nothing}

\* The file of a pending message counts every hand-over to the provider, also
\* across aborted claims and restarts, so that the provider never gets a message
\* more often than MAX_DELIVERY_ATTEMPTS.
AttemptsCounted ==
  \A m \in Messages :
    /\ sent[m] <= MaxAttempts
    /\ Pending(m) => sent[m] <= ReadAttempt(m)

\* What the worker holds, or has answered, is in flight on disk: nothing that
\* was handed over is forgotten when the loop ends.
OnRecord ==
  \A m \in Messages :
    \/ m \in given
    \/ \E k \in DOMAIN events : events[k].kind # "message" /\ events[k].id = m
    => inflight[m] # Nothing

\* A message id wakes the conversation once, whatever the provider repeats and
\* however often the worker restarts (record_inbound_message_once).
WokenOnce == \A i \in Inbound : woken[i] <= 1

\* A message whose marker is on disk is dropped when it comes again, so it must
\* have woken its turn, be about to, or be one whose wakeup failed or whose loop
\* ended in between: no order of events loses another (handle_worker_message).
MarkedIsWoken ==
  \A i \in seen : woken[i] = 1 \/ (Doing("message", "wake") /\ job.id = i) \/ i \in unheard

\* Hand-overs to the provider are counted and on record wherever the loop is aborted.
HandoversCounted == OutboxTypeOK /\ AttemptsCounted /\ OnRecord

\* An inbound message is never heard twice, and unheard only if its one wakeup failed
\* or was cut off: its marker, written first, keeps a repeated delivery from another.
HeardOnce == WokenOnce /\ MarkedIsWoken

\* A queued message is delivered or fails in the end, unless the loop ended
\* between the removal of its file and its rewriting in nack_outbound_message.
Settles ==
  \A m \in Messages :
    []<>(m \in queued => m \in delivered \cup failed \/ (~ Pending(m) /\ job = Nothing))

\* Outbound messages are durable records: an accepted message is queued, in
\* flight, delivered or failed, and is never without a file except while the
\* loop that is moving it goes on (the adapters page).
NeverLost ==
  \A m \in queued :
    Pending(m) \/ m \in delivered \cup failed \/ (job # Nothing /\ job.id = m)
=============================================================================
