# Verification of exo

TLA+ models of the durable core of exo, the TLC runs that check them on small
instances, and TLAPS proofs about them for every value of the constants. The
models are translated from the source; `PROJECT.json` names, for every definition,
the lines it stands for, and lists components, hazards, runs, mutants, findings and
theorems.

    tlc -workers 2 -config Records.cfg MCRecords          # a run
    tlapm TurnCoordinatorProofs.tla                       # the proofs of a module

## 1. The system

exo runs agents. A client submits a *turn* to a *thread* (conversation); the runtime
accepts it durably, executes it with a harness (a model loop with tools in a
sandbox) and journals what happens. Around that core, other processes start turns of
their own: a scheduler runner fires tasks and wakes conversations with the results,
and an adapter runner connects conversations to chat providers. All of them share
files under one root; atomic renames, `create_new`, advisory locks and a few lock
files coordinate them, and nothing else.

### Components

| component | state it keeps | operations | module |
|---|---|---|---|
| turn coordinator (`exoharness/src/turn_coordinator.rs`, `turn_coordinator/stored.rs`, `basic/turn_queue.rs`) | per thread: queue, receipts, last acknowledgment (on disk); owner, control watch (in memory) | enqueue, cancel, suspend, resume, claim, peek, start, acknowledge, release | `TurnCoordinator`, `AcceptedWork` |
| turn queue runtime (`executor/src/turn_queue.rs`) | drain tasks, observers of turns, the draining flag | accept, retry, control calls, wake, the drain loop, shutdown, recovery | `TurnDrain` |
| harness adapter and finalizer (`harness_adapter.rs`, `harness_executor.rs`, `shared.rs`) | the active turn and its stop reason, the finalizer task | start, stop, complete, finalize, shutdown, recovery of tools | `TurnDrain`, `ToolTurn` |
| tool recovery and events (`harness_events.rs`), basic executor (`basic.rs`, `message_history.rs`), approvals (`permissions.rs`) | rounds, unfinished tool calls, approvals, cached history | model round, tool call, authorize, respond, suspend, recover | `ToolTurn` |
| journal (`exoharness/src/basic.rs`, `storage.rs`) | event objects, the batch index of a handle, watches | append, get, watch, read from a cursor | `Journal` |
| local sessions (`basic/sessions.rs` and the operations of `basic.rs` that claim) | lock files per scope, `lifecycle.lock`, leases and recovered scopes per process | use, create, fork, delete, shut down | `LocalSessions` |
| sandbox records (`basic/sandboxes.rs`) | sandbox records, running handles | create, name, attach, resume, stop, detach, snapshot, delete | `SandboxRecords` |
| sandbox processes (`sandbox_process.rs`, `basic/sandboxes.rs`, `http/process.rs`) | output, status, events, waiters | read, write, wait, cancel, follow, poll | `ManagedProcess`, `ProcessLog`, `ProcessEvents` |
| Firecracker provider (`sandbox_provider/firecracker.rs`) | VMs, manifests, slots, leases, warm machines, reservations, listeners; snapshot templates | acquire, exec, stop, reap; capture, fork, restore, delete | `FirecrackerMachines`, `SnapshotTemplates` |
| task scheduler (`native/scheduler_{types,store,runtime}.rs`) | task records with a lease, pending and delivered fires | create, cancel, delete, claim, plan, run, wake, redeliver | `Scheduler` |
| scheduler runner (`exo/scheduler-runner`) | `exo-scheduler.lock` | acquire, release | `RunnerLock` |
| adapter messages (`native/adapter/{store,worker,runtime}.rs`, `exo/adapters`) | outbox, in-flight, delivered, failed and seen files; worker process | enqueue, claim, acknowledge, reject, requeue, inbound deduplication | `AdapterOutbox` |
| adapter records and supervision (`native/adapter/{store,runtime,worker}.rs`) | adapter record, drain marker, worker loop, mapping of targets | enable, disable, delete, health writes, drain, stop | `AdapterRunner` |
| wakeup lock (`native/conversation_wakeup.rs`) | a lock file per conversation | acquire, remove when stale, drop | `WakeupLock` |
| other sandbox providers, vaults, egress, resources, HTTP, managed agents, MCP, other harnesses, CLI, tracing | mostly configuration or remote | see section 6 and `PROJECT.json` | |

### What is hard, and what correctness means

*Coordinator.* Submissions are retried, controls race the owner, the process dies at
any point. Accepted work must stay in order, be accepted once per key and retention,
be controlled only by those who may, and the watch must show the saved control.

*Queue runtime and harness.* Every `await` of the drain is a window for controls,
shutdown, storage errors and restarts. One execution at a time; no turn is begun
twice, acknowledged without its end in the journal, forgotten, or left without a
drain; every client that observes a turn hears its end.

*A turn with tools.* It is suspended, cancelled, shut down or killed at any await,
also between a tool call and its result. A call runs once, and only when approved;
one response counts and is not missed; the model is not asked before every call has
its result; a suspension takes effect at a boundary.

*Journal.* Calls are dropped while their put goes on; handles cache an index that
nobody invalidates; the clock may be set back. Committed events must be found,
watched and read exactly once.

*Sessions and sandboxes.* Processes die with machines running; threads are deleted
while sandboxes are created. One owner per scope, machines of the dead stopped before
others work there, nothing left behind, everyone comes back.

*Sandbox processes.* The end must be told once, after all the output there is, to
everyone who waits, however the exit, the pipes and a cancel are ordered.

*Firecracker.* Reapers, starts at the host limit, restores and dying controllers share
one directory. No machine without a record, no address twice, no template removed from
under a machine.

*Scheduler.* The runner dies between the command, the record of the fire, the wakeup,
its mark and the task record; tools edit the same files meanwhile. Results must reach
the conversation, wakeups must not loop, the grid must not slip, a lease must expire.

*Locks.* One runner and one wakeup turn at a time; but the file of a dead process must
not keep the next one out.

*Adapters.* The loop is aborted between any two file operations; providers repeat
messages; records are read and written back without a lock. Every hand-over must be
counted, no inbound message wake twice or be lost by an order of events, a stop must
neither cut a turn nor be lost.

*Exposed, without a property:* receipts are stamped with the wall clock, so that one
lives longer after the clock is set back (`stored.rs:173`); a suspension can be
broadcast twice (`turn_queue.rs:584`); a wake can find the queue claimed by a drain
that is about to stop on an error, which is by design (`turn_queue.rs:454`, `:512`); a
turn marked complete but not ended at a crash and cancelled before recovery is
recorded as failed (`turn_queue.rs:707`); shutdown between `begin_turn` and `submit`
ends the accepted turn with an error, as a test expects (`harness_executor.rs:671`); a
pending wakeup that cannot be sent ends the runner at every start
(`scheduler_runtime.rs:94`); two enqueues that count at once exceed the outbox limit
(`store.rs:275`).

## 2. The modules

| module | models | a step is |
|---|---|---|
| `TurnCoordinator` | `StoredTurnCoordinator` for one thread | one operation, from load to save under the thread's mutation lock |
| `AcceptedWork` | the contract of its traits, abstractly | one promise kept |
| `TurnDrain` | one process: client calls, drain tasks, harness, finalizer, shutdown, faults, restart; extends `TurnCoordinator` and conjoins its actions | what lies between two awaits that let another task change what was read |
| `ToolTurn` | the turns of a session as the basic executor runs them | as above |
| `Journal` | the event log of one thread | one object put, one list, one cache access |
| `LocalSessions` | processes over one state directory | one lock or file operation |
| `SandboxRecords` | the sandboxes of one thread in one process | what lies between two awaits |
| `ManagedProcess`, `ProcessLog` | `ProcessRegistry`, and the promise of its log | one poll of a task |
| `ProcessEvents` | `RunningSandboxProcess` and its readers | one access under one of its locks |
| `FirecrackerMachines` | the machines of one state root | what lies between two awaits or two file operations |
| `SnapshotTemplates` | the templates of one state root | one file, flock or directory operation |
| `Scheduler` | task files, one runner process after another, the tools | one file operation |
| `RunnerLock`, `WakeupLock` | the two lock files | one system call |
| `AdapterOutbox` | one adapter's files, its loop, its worker | one file operation or one worker message |
| `AdapterRunner` | supervision and record of one adapter | one read or write of a file, one poll of a task |
| `TurnCoordinatorProofs`, `TurnDrainProofs`, `ToolTurnProofs`, `LocalSessionsProofs`, `SandboxProofs`, `FirecrackerProofs`, `DeliveriesProofs`, `SharedFilesProofs` | theorems | |
| `MCRecords`, `MCProcesses`, `MCSandboxes`, `MCTurnDrain`, `MCScheduler`, `MCLocalSessions` | constants, symmetry, composition for TLC | |

`MCRecords`, `MCProcesses` and `MCSandboxes` check several components in one run. Their variable `part` is chosen in the initial state; the component it
names moves, the others rest in their initial state. The state spaces add up and do
not multiply: this is a way to put several questions to TLC at once, and no claim about
how these components interact. Components that do interact are in one module
(`TurnDrain` extends `TurnCoordinator`; `ToolTurn` has executor, adapter, approvals and
journal; `LocalSessions` has sessions, threads and machines).

**TurnCoordinator.** `pending`, `receipts`, `acknowledged` are `TurnQueueState`, the
content of `turn_queue.json`; `owner`, `leases`, `watching`, `signal` are
`ThreadMutation` and die in a `Crash`. `accepted` and `acks` are history. Operations
that fail or only read have no action; a failed save changes nothing, because the
file is replaced as a whole. Ids that clients submit are fresh or repeat a submission
that is still pending or whose key is retained (`Submittable`): that is what
`accept_local_turn` does with `Uuid7::now()`.

**TurnDrain.** `drain[l].pc` is the place in `spawn_queue`/`run_queue`/
`open_queue_head`/`start_local_turn` of the drain that holds lease `l`; its `head`,
`was` and `control` are the locals that go stale. The journal of a turn is the set of
the event kinds recovery looks for. `run` is `ActiveTurn` with its stop reason, `fin`
the finalizer task, `calls` the client calls in flight with the step they are at,
`observers` the streams of `TurnQueueRuntime.contexts`. The executor is external: it
returns, fails, or is stopped. `DrainFails`, `OpenFails`, `PrepareFails`,
`FinalizerFails`, `WakeFails` and `ReplayFails` are errors returned by storage at each
step; after the last one the observer of a retry stays, and is marked `unread` when its
turn was over already. `Reboot` is a crash or an orderly exit followed by
`recover_local_turns`.

**ToolTurn.** `events` is the journal of the session, with a place for each append
whose call was dropped (`late`) and may still land. `exec.at` is the executor's future:
loading its progress, a model round, authorization of a call, waiting for a response,
running a tool, journalling its result. `pendingTools` and `flight` are
`HarnessTurn`, `stop` and `suspending` the select loop of `ExecutorHarness::submit`,
`historyCache` the cached prompt history with its cursor. Disturbances are suspension,
cancellation, shutdown, a crash, and dropped appends; the append of a response is one
step, since what becomes of half-done appends is `Journal`'s subject. What the model asks for, what a
tool answers and what a user decides is chosen freely.

**Journal.** `objects` are the stored batches, `appender` the append that holds the
write lock, `unwritten` puts of dropped calls. Three readers, one per behaviour:
`get_event` through the cached `index`, `watch_events`, and a reader that resumes
`get_events` from a `cursor`. A restart may come with an earlier clock (`back`).

**LocalSessions.** A lock file is a number; `name` is the one the directory shows,
`owned` what a process has open and locked. A file that was unlinked stays locked.
`recovered` is the `OnceCell` of a lease, `lifecycle` the lock of the namespace, `op`
the task with the locks it has and wants, `vm` the process that started the machine of
a scope. Processes die, and shut down through `release_local_sessions`. A reader of the
agent's lock may pass a writer that waits, which the fair lock of the code does not
allow: the model has more orders than the code.

**SandboxRecords.** `stored` and `cached` are the record and `running_sandboxes`;
`machine` is the boot that is up, in the backend, which is external: it has one machine
per id and may fail, also when it should stop a machine that nobody will register
(`StopUnregistered`; such machines are `leaked`). `writer` and `threadLock` are
`write_lock` and the resource lock. Snapshots are numbered in the order in which they
were recorded; `call[c].from` is the one a restore or a start was asked for.

**ManagedProcess, ProcessLog, ProcessEvents.** The child writes chunks, may leave a
pipe to a background process, exits or is lost. Readers, supervisor, `GiveUpInput` and
waiters are the tasks of `ProcessRegistry`; `ProcessLog` says what its log promises, and
`ImplementsLog` that it is kept. In `ProcessEvents` the taps, the exit task and `kill`
share `elog`, `estatus` and `streams`, which have a lock each; `follow` and `poll` are the
clients. An event and the error that says it could not be journalled are pushed in one
step, where the code has awaits in between.

**FirecrackerMachines.** `manifest`, `claimed`, `lease`, `stamp` are the files (a
machine's record with its slot, the claim of a slot, the lease and the age of the
record), `warm`, `starting`, `tracked` the maps of `Shared`. `job[w]` is a call: the
machine it is for, the lock it holds, and, while it is inside `cleanup_machine`, the
machine it removes. A dropped call gives up its lock and its reservation, and the
blocking closure it was waiting for goes on (`loose`); machines such a closure worked on
are `adrift`. A host limit is set, and the runtime fingerprint does not change.

**SnapshotTemplates.** `dir` and `inode` are a template's directory and lease file; an
flock belongs to an inode, so that a lease file that was removed and made anew is
another lock. Removal is two steps, files first. One source machine; the machines that
are restored have one number each, and a fork's target is a new sandbox. A call may be
dropped at any of its awaits: its lock and its lease, locals of the future, are gone, and
the manifest its blocking closure was writing (`loose`) may still appear, without the
lease (`unheld`).

**Scheduler.** `disk` are the task records, `pendingFires` and `deliveredFires` the fire
files, `runs[t]` the `run_task` future with the copy of the record it was given,
`edit[t]` the copy `disable_task` has read. `PlanMissedFires`, `NextSlotAfter`, `CatchUp`
are the arithmetic of `scheduler_types.rs`. Time is counted in units; `u64` saturation
is out of reach of the instants that occur.

**RunnerLock, WakeupLock.** Creation of the file and the writing of the pid are two
steps, as are the probe and the removal; the pid goes into the inode that was created,
which may no longer have the name. The wakeup lock has no pid but an age; a call that is
aborted while its turn runs drops the file and leaves the turn `adrift`.

**AdapterOutbox.** The four directories hold an attempt count per message; `job` is
the event task inside `acknowledge_outbound_message` or `nack_outbound_message`, file
by file; `Stop` aborts the tasks wherever they are. An inbound message whose wakeup fails
or is cut off is `unheard`.

**AdapterRunner.** `rec` is the adapter record, `calls` what each actor has read and is
about to write back; `sup`, `worker`, `stopping`, `inbox`, `doing` are the supervisor, the
worker process, the latch of `run_worker_loop`, the events waiting and the one in hand;
`mapping` is the conversation of a target.

## 3. The runs

Every property of a passing run has a mutant in `PROJECT.json`, a plausible slip in
the code that the run then reports.

| run | question | bounds |
|---|---|---|
| `records` | *coordinator*: order, deduplication, admission, watch, scope, `AcceptedWork` implemented. *tasks*: plan and accounting while the task is cancelled, deleted and orphaned. *journal*: is everything found, watched and read? *turns*: no call run twice, no answer lost, suspension at a boundary. *machines*, *templates*: records, addresses, limit and templates of a Firecracker host | 2 turns, a named and an anonymous caller, 1 key, 2 leases, retention 1; interval 1, cap 2, 4 instants, 2 runners; 1 handle, 1 watcher, 4 events in batches of 2, 1 restart; 1 tool round, 2 users, 2 turns, 2 calls, 2 disturbances; 2 specifications of a sandbox and a one-shot machine, 2 slots, limit 1, 2 calls at once, 3 in all, 1 fault; 2 clones, 1 snapshot, 2 calls at once, 3 in all, 2 faults, dropped calls among them |
| `processes` | *runner lock*, *sessions*, *wakeups*, *adapter*: one owner of each, nobody waits for ever. *tasks*: do results arrive, without loops, when runners die? *messages*: are hand-overs counted, recorded and settled, and is none heard twice or lost? | 3 processes with starts that do not overlap; 2 processes, 3 tasks, 2 threads and their agent, 2 attempts of a deletion, forks; 3 wakers, 2 wakeups each; 2 targets, 2 tool calls, 2 events, 1 failure; a recurring and a one-shot task, 4 instants, 3 runners, 1 fault; 2 messages, 2 attempts, 2 aborts, an inbound message that arrives twice, no more than 3 aborts and arrivals together; fair |
| `sandboxes` | *records*, *process*, *events*: nothing left behind, output before the end, everyone returns | 3 sandboxes, 3 calls, 2 tries, failing backend; 2 streams, 1 chunk, 1 waiter; fair |
| `drain_faults` | does the drain survive storage errors in every step, shutdown and a restart, with cancels, interrupts and retries? | 2 turns, 1 key, 2 drain tasks, 2 calls in flight, 1 cancel call, 1 restart |
| `drain_controls` | do suspend, resume and cancel leave work stranded, or the queue undrained? | 2 turns, 2 drain tasks, 1 call in flight, 2 control calls, 1 restart; fair |
| `suspend_reruns`, `resume_orphan`, `cancel_undone`, `wakes_repeat`, `runner_lock_race`, `outbox_loses`, `session_deadlock` | does the code do what the documentation says? No: section 5 | smallest instance that shows it |

What a run checks is often a conjunction; its parts are definitions of their own:

| checked | parts |
|---|---|
| `QueueKept` | `AcceptedOnce`, `DedupWindow`, `QueueIsSuffix`, `OnlyHeadStarted` |
| `PlanKept` | `Accounted`, `NewestKept`, `NeverPastResume` |
| `ReadsComplete` | `IndexAnswers`, `GetFinds`, `WatchExact`, `ReaderSkipsNothing` |
| `MachinesOnRecord`, `HostLimitsKept` | `VmOnRecord`, `AddressesExclusive`; `CapacityHeld`, `ReapsOnlyIdle`, `NoVmDeadlock` |
| `TemplatesKept` | `SnapshotsWhole`, `UnheldAreOff`, `ForksWhole`, `SnapshotsLast` |
| `FiresHeard` | `NoSilentRun`, `BoundedWakes`, `NoResurrection` |
| `HandoversCounted`, `HeardOnce` | `OutboxTypeOK`, `AttemptsCounted`, `OnRecord`; `WokenOnce`, `MarkedIsWoken` |
| `Delivers` | `DueServed`, `Settles` |
| `ExecutionKept` | `DrainTypeOK`, `ExclusiveExecution`, `WithdrawnNeverRuns`, `JournalBeforeAck` |
| `MachinesCovered` | `VmLeased`, `RecoveredFirst`, `DeletedIsIdle` |
| `AdapterKept` | `LastCallHolds`, `StopCutsNoTurn`, `OneThread` |
| `ToolsRunOnce`, `HistoryComplete` | `RunOnce`, `ApprovedOnly`; `ModelSeesResults`, `HistoryPaired` |
| `ResponseCounts`, `SuspendsAtBoundary` | `OneResponse`, `ResponseSeen`; `SuspendEndsRound`, `SuspendsClean` |
| `NobodyWaitsForEver` | `StartEnds`, `OpsEnd`, `WaitersProceed`, `DrainEnds`, `DisabledStops` |
| `RecordsTrue` | `NoOrphan`, `DeletedLeavesNothing`, `StoppedIsOff`, `HandleIsLive`, `NamedOnce` |
| `LogPromise`, `OutputFirst` | `ImplementsLog`, `ExitHasOutput`; `ExitIsClean`, `ExitComplete`, `StatusComplete` |
| `EveryoneReturns` | `CallsEnd`, `EndIsReported`, `WaitersReturn`, `ExitRecorded`, `FollowerServed` |

*Why the bounds are enough.* The operations of a queue tell its head from the entries
behind it, so two turns show every position an operation can find, and an accepted turn
behind an acknowledged one; what the run checks of longer queues is proved (section 4).
A second lease is what a stale drain needs. The retention of 1 with 2 instants has receipts alive,
expiring and expired. In the drain, every window is between one call and one drain, or
two calls, and one restart leaves every reachable disk state behind; a second restart
finds no new one, because recovery itself is a drain. Three runner processes allow a
crash, a crash during redelivery and a rerun. Interval 1 with cap 2 and 4 instants
gives backlogs of one, of the cap and beyond it. Two aborts with two attempts
interrupt a claim and the answer; one abort between two arrivals a wakeup. Four events in batches of two give an append before,
during and after a reader's look, and one that was dropped. Two processes and three
tasks are what a deadlock over three locks and a takeover after a death need; two
attempts have a deletion that tries again and one that gives up. Three sandbox calls
allow a creation, a deletion and a third that meets both. Two turns with two
disturbances allow a crash during recovery and a history with a turn cut short before
it. Three machine calls of which two overlap allow a start, a second at the limit and
a reaper; three template calls a capture, a restore and a deletion. All `Max...`
constants, `Rounds` and `Tries` are bounds; deadlock is not checked, because
behaviours end where the bounds do and an idle system rests. Turns and leases are
interchangeable, hence the symmetry of `drain_faults`; the other runs use none.

*Fairness.* A step of a task that can go on is taken, because tokio polls every ready
task and its locks are fair; clients, faults, crashes, deaths and restarts are never
forced, but bounded. In particular:

* drain: the tasks of a live process are polled and an execution ends (the model loop
  has bounded rounds);
* scheduler: the guardian restarts a runner, its futures are polled, time passes;
* runner lock: a starting process is scheduled;
* outbox: the supervisor restarts a loop that ended, its tasks are polled, a worker
  that lives answers each command, which its command loop does;
* sessions: a task that can go on does, and a shutdown goes on;
* wakeups: a waiter polls every 100 ms, a turn ends, time passes;
* adapter: the watcher, the supervisor and the event task are polled;
* sandbox calls, readers, supervisor, exit task, followers and poller are polled.

The coordinator, journal, `ToolTurn`, and Firecracker parts are checked for safety only;
that machine calls do not block each other is the invariant `NoVmDeadlock`.

## 4. The proofs

`TurnCoordinatorProofs` is about any sets of turns, callers, keys and leases, any
retention and any clock bound, from the assumptions that `None` is none of them and
that the times are naturals:

* `TypeCorrect`, `QueueCorrect`, `WatchCorrect`: `Spec => []P` for `TypeOK`, `QueueKept`
  and `WatchIsCurrent`. None but the type is inductive alone. `IInv` is their conjunction
  with `ReceiptsCover` (a keyed acceptance has its receipt on file until it expires). The
  parts lean on each other: that a repeated id finds its receipt gives `AcceptedOnce`;
  that ids in the queue are distinct, from `AcceptedOnce` and `QueueIsSuffix`, gives
  `WatchIsCurrent`, because an update of another entry is then not one of the head.
  There is one lemma per part and, under it, one step per action that can disturb it;
  shape lemmas say what each action does to the queue.
* `Refinement`: `Spec => ImplementsPromise`. Under the mapping queue = ids of
  `pending`, done = acknowledged ids, cancelled = ids whose control is `Cancel`, every
  step is a step of `AcceptedWork` or changes nothing it sees.
* `ScopeCorrect`: `Spec => EnqueueIsScoped`, from the type invariant and the shape lemma of
  `Enqueue`: every entry but the head keeps its fields, and an interrupt finds a head of
  its own principal.

`TurnDrainProofs` is about any number of turns, drain tasks, calls, controls, crashes and
failures. `DrainNext` is a step of the coordinator or leaves it alone (`Layered`), so the
coordinator's invariant carries over; four more are built on it, each inductive only
with those before it:

* `DrainInv` gives `ExecutionCorrect` (`ExecutionKept`), without any condition. It adds
  that an owner's lease is held, that a drain past `start` works on the head and watches
  it, that what is acknowledged next has ended, and that a withdrawn turn stays
  cancelled in the queue and known as such to the drain between its read of the control
  and its decision.
* `RerunInv` gives `NoRerunCorrect` and `EndIsFinalCorrect`: the admission saved in the
  queue, the one the drain remembers (`was`) and the journal agree at every stage
  (`Fresh`, `Admits`, `Recalls`), and whoever still writes a journal finds it begun and not
  ended (`Writes`, `ExecutionOpen`). Hypothesis: clients do not resume or the executor does
  not suspend. It is needed: with both, `suspend_reruns` refutes `NoRerun`.
* `ObserverInv` gives `ObserversCorrect`: an observer's turn is queued, or the observer is a
  retry whose look at the journal is still to come, or one whose look failed when the
  turn was over (`unread`); at the acknowledgment only retries are left. Hypothesis:
  clients do not resume. It is needed: `resume_orphan`.
* `StrandInv` gives `NeverStrandedCorrect`. Hypothesis: storage does not fail, because a
  drain that meets an error stops by design and waits for the next wake.

The first attempt at `ExecutionCorrect` failed for a reason: `withdrawn` had held every
turn cancelled before it was executed, also one cancelled after the drain had read `Run`
as its control and before the execution was registered. That cancel is delivered to the
execution over the watch and does not prevent it. `withdrawn` is now what was cancelled
before a drain read the control, which is what `run_queue` promises.

`LocalSessionsProofs` is about any processes, tasks, threads, deaths, deletions and forks:
`OneOwnerCorrect`, `MachinesCoveredCorrect`, `OthersVmsKeptCorrect`. Neither `OneOwner` nor
`VmLeased` is inductive: lock files are removed and made again under the same name, so
`SessInv` says which files were ever made, that creations and deletions hold
`lifecycle.lock` from their claim on, which leases a task or a shutdown still relies on at
each stage, that a recovered lease has no foreign machine under it, and that what a
deletion releases is gone for good.

`ToolTurnProofs` is about any number of turns, rounds, calls, users and disturbances:
`ToolsRunOnceCorrect`, `ResponseCountsCorrect`, `SuspendsCorrect`, `ModelSeesResultsCorrect`
(the first part of `HistoryComplete`) and the types. None of them is inductive, because
what a stopped execution knew is gone and has to be read back from the journal.
`ToolInv` has two halves:

* about the journal: a call is requested once, and its result, approval and response are
  in its turn (`RequestsOK`); a call begins only when those before it have their results
  (`OrderOK`, which is what lets recovery take the first open call and restart the others);
  what was executed was requested and allowed (`RanOK`); one user at a time is about to
  answer, and nobody an answered call (`ResponsesOK`); what a dropped append may still
  store belongs to an earlier or a stopped turn (`TurnsOK`);
* about the executor: which append each stage has in flight (`FlightOK`), that the pending
  tools are what the journal leaves open and the calls still to do what the append leaves
  open of them (`PendingOK`), and how far the first of these calls has come, while the
  others have not begun (`TodoOK`).

`SandboxProofs` is about any streams, callers, chunks, sandboxes and calls:

* `LogPromised`: the refinement of `ProcessLog` and `ExitHasOutput`. `ProcInv` adds that the
  status changes in the supervisor's last step only, that a reader at the end of its pipe
  left nothing in it, and that none is reading past the second select.
* `OutputFirstCorrect`: `EventsInv` adds that `open_output_streams` is the number of readers
  that have not closed, that a journalled error has a cause that will set the status, that
  the exit task alone pushes the exit, and that the poller has written the chunks up to
  its cursor. Of a poller that goes by the status it says what is true and no more: the
  page it read is passed on, and the end is behind that page.
* `RecordsTrueCorrect` and `SnapshotKeptCorrect`: the parts of `RecordsTrue` speak of a
  thread where nothing is under way; `BoxInv` says for each stage of each call what it may
  rely on. The record stays between check and finish under `write_lock` (`LockOK`), a new
  id is its maker's own until its record is written (`MakerOK`), what others read may be
  stale but for its name (`UserOK`), and a machine without a running record is in
  somebody's hands (`MachineOK`, `HandleOK`). `cut` are the sandboxes whose machine was
  taken down under a call that then registered it, `leaked` those with a machine the
  backend would not stop; section 5 has both.
* `SandboxTypesCorrect`, for the run's three components together.

`FirecrackerProofs` is about any machines, slots, calls, failures and restarts:

* `MachinesOnRecordCorrect`: `VmInv` says which lock a call has at each stage (`LockOK`), that a
  lock has one holder and a reservation one owner (`OneHolder`, `Reserved`), what a call has
  made of the process, manifest and slot of the machine it works on (`WorkOK`), that a
  one-shot machine is known to its call alone (`ShotOK`), and that closures of dropped calls
  touch only machines that are `adrift` (`LooseOK`).
* `HostLimitsCorrect`: `LimitInv` adds that one call at a time is between scan and admission,
  with room for one more (`GateOK`). `NoVmDeadlock` follows from it: whoever waits for the
  gate or a lock waits for a call that does not wait for one of his (`SomeoneGoesOn`). It is
  stated with `Blocked`, the conditions under which a call has no step; that they are all
  such conditions uses `ENABLED` and is checked by TLC (`BlockedIsAll` in `RecordsTypeOK`).
  `CapacityHeld` holds as long as no start was admitted on a scan that was out of date
  (`overrun`); section 5 says when one is.
* `TemplatesKeptCorrect`, for any clones, keys, calls, drops and crashes: `TplInv` says what a
  call may rely on at each stage of its lease (`TaskHolds`), that the exclusive and the
  shared lock of one lease file exclude each other (`TasksApart`), what a reaper may have
  missed between its scan and its second look, and that every manifest written under a
  lease has its template whole, while one that a dropped call left to be written without
  the lease never has a running machine (`CloneOK`).

`DeliveriesProofs`, part 1, is about any tasks, schedules, policies, lease, cap and number of
runner processes, with the cancel and delete tools writing the same files, from the
assumptions that intervals, lease and cap are positive and `NoValue` is no record:

* `PlanKeptCorrect`: `CopyInv` says of every copy of a record - on disk, read by
  `claim_due_tasks`, held by a run, read by `disable_task` - that it is on the grid of its
  anchor (`OnGrid`), that only the pass puts an enabled one back and that none of these is
  behind the slot where the grid resumed (`FilesOK`, `DueCopy`), and that a plan fires
  ascending slots from the due one to before the one it resumes at (`PlanOK`). `PlanFacts`
  is the arithmetic of `plan_missed_fires`: quotients on the grid, and the catch-up as the
  last slots of the backlog.
* `FiresHeardCorrect`: `HearInv` adds that a slot whose run has a result is heard of or
  still owed by every copy (`RanOK`), how far the wakeup of the slot in hand has come
  (`HeadOK`), that only heard fires were settled (`SettledOK`), and the budgets: a slot that
  the process may still begin (`Left`) has one firing and one wakeup to spare, a fire that
  redelivery has read one wakeup more (`BudgetOK`).

Part 2 is about any messages, limits and number of restarts of an adapter, from the
assumption that `Nothing` is no message, no attempt and no job: `HandoversCorrect` and
`HeardCorrect`. `AttemptsCounted` is not inductive. A claim writes one file before it removes
the other, so each of the two must bound the hand-overs by itself (`Counted`); a given
message must have room for one more (`Held`); and it must be in one place - batch, worker,
answer, job - for an answer to find its file and a second answer not to exist
(`InOnePlace`). `HeardInv` adds that an unmarked message woke nothing, and one about to
wake is marked. `HeardCorrect` leaves out messages whose one wakeup failed or was cut off
(`unheard`): their marker stays and nobody tries again.

`SharedFilesProofs` is about the two lock files and the adapter's record:

* `OneRunnerCorrect` and `StartableCorrect`, for any set of processes, from
  `Overlap = FALSE` (a start begins only when no other is acquiring). The invariant says
  that the file names the runner, that whoever is about to remove it has seen no live
  pid, and that a lone start neither loses the file nor finds its own pid in it. The
  assumption is needed: `runner_lock_race` refutes `OneRunner` without it.
* `WakeupsExclude`: as long as no turn has overstayed its thirty minutes and no waiter was
  caught between its look at a file and the removal, two wakeup turns of a conversation
  run at once only if one of them is `adrift`, its call aborted. The file is there, and
  young, while a call with its turn lives: `create_new` then refuses the others, and
  nobody takes it for a dead one's.
* `AdapterCorrect`, for any numbers of calls, events, failures and conversations. Its three
  parts rest on three invariants: the runner's own tasks put back the flag they read;
  `pending_events` is the queued events and the one in hand, so that the zero a stop waits
  for excludes a turn; all conversations that exist are one.
* `ProcessTypesCorrect`: the types of the run `processes`, from those of its components. An
  event is logged only with its conversation, and no more events are pending than were
  taken.

Attempts at these proofs that failed corrected the models, each time towards the source:
`release_resource_slot` gives a slot up only for its owner; the id of a one-shot machine is
new at each call; two guards of what follows `cleanup_machine` overlapped; a second
creation of a name may find any running sandbox of that name, and not a chosen one; and a
handle that a failed restart left stale is registered by the next call, since
`active_sandbox_handle` (`sandboxes.rs:1575-1598`) looks only at `running` and
`running_sandboxes`. In `ToolTurn` the calls that are still to do are a set, taken in the
order of their ids, where the code has a vector in that order.

Only model-checked:

* every liveness property, since reasoning about fairness is out of the prover's reach,
  and the part of `RecordsTypeOK` that uses `ENABLED`;
* `HistoryPaired`, the second part of `HistoryComplete`, which folds over the journal, and
  `ReadsComplete`, whose index is sorted: both need induction over a sequence;
* the drain's properties outside the hypotheses above.

There is no recursion in the modules.

## 5. Where code and documentation disagree

Shown by a violation run, with the quoted line in `PROJECT.json`:

* `suspend_reruns`: `was_started` is read before `start`. A suspend before `start` and a
  resume before the first control read execute a turn without a saved admission;
  after a restart it is begun from scratch.
* `resume_orphan`: a resume between the terminal broadcast and the acknowledgment
  succeeds with a stream that never ends.
* `cancel_undone`: the runner puts back the copy it claimed, over a cancel or delete
  made during the run.
* `wakes_repeat`: a runner that dies between a wakeup and its mark leaves the fire pending
  and the task leased. The next runner delivers the fire again and, when the lease is up,
  runs the slot and wakes once more: `put_pending_fire` refuses the delivered slot, but
  the wakeup behind it is sent all the same. One crash, three wakeups;
  `scheduler_runtime.rs:69` and the page on the scheduler say one repeat.
* `runner_lock_race`: two overlapping starts both acquire the lock, because the file
  exists before its pid.
* `outbox_loses`: a rejection removes a message's files before it rewrites it; an abort
  in between loses it.
* `session_deadlock`: a fork has `lifecycle.lock` and waits for resource locks, a
  deletion has resource locks and waits for `lifecycle.lock`; the guard that "is never
  held for a session's lifetime" is then held for good.

Met while modelling, visible in how the checked properties had to be stated:

* `BoundedWakes` states the bound on wakeups that holds where `OneRepeat` does not: one for
  each process and one repeat for each earlier one.
* Under the policy `skip`, a crash after the command and before its fire is recorded
  leaves a result the conversation never hears of; `NoSilentRun` therefore exempts
  slots that resuming passed over.
* An acknowledgment interrupted before the in-flight file is removed sends a delivered
  message again; `AttemptsCounted` bounds how often.
* An inbound message whose marker was written and whose wakeup then failed
  (`runtime.rs:850-871` records the error and keeps the worker) or was aborted is not
  heard, and its marker drops it when the provider repeats it; `MarkedIsWoken` exempts
  such messages (`unheard`).
* A retry of a turn that is over, whose look at the journal fails, keeps a registered
  observer that nobody serves (`turn_queue.rs:445-450` only logs the error);
  `ObserversServed` exempts it (`unread`).
* `LastCallHolds` exempts records over which a health write put back an older copy
  (`stale`): a disable can be undone that way (`store.rs:206`).
* `OneTurnAtATime` holds only while no turn outlives 30 minutes and no waiter removes a new
  file for the old one it saw; and it exempts turns whose call was aborted. When an
  adapter worker ends, `run_worker_loop` aborts the event task (`worker.rs:194`): the
  guard of the wakeup removes the file, while the turn goes on in the task of the queue
  (`turn_queue.rs:525`), and the next wakeup does not wait for it. `lifecycles.md:156`:
  "Wakeups are serialized per conversation".
* A machine that was acquired for a sandbox whose record, owner or running state went away
  meanwhile is stopped once. If that stop fails the machine stays up without a record:
  a warning at `sandboxes.rs:850-853` ("it must not outlive the failed persist"), an error
  to the caller at `:1250-1252` and `:1581-1592`. `NoOrphan`, `StoppedIsOff` and `NamedOnce`
  exempt such sandboxes (`leaked`).
* `get_sandbox_process_events` reads the events and the status under separate locks
  (`sandboxes.rs:677-690`). A process that ends in between is reported by the poller from
  the status (`http/process.rs:106-108`), and the output logged between the two reads never
  reaches its client. `ExitComplete` is about a poller that meets the exit event,
  `StatusComplete` bounds what the other one misses.
* `HandleIsLive` exempts `cut` sandboxes: a resume (`sandboxes.rs:1248-1276`) registers a
  handle for a machine that a stop has taken down meanwhile, which the comment at
  `sandboxes.rs:1280` wants to avoid ("leaving a dead handle recorded as running").
  `SnapshotKept` allows a resume to write back the older snapshot of the record it read,
  and a start from a snapshot to record the one it was asked for (`sandboxes.rs:1290`),
  although a newer one may have been recorded since it loaded the payload (`:1278`).
* A recovering turn that is suspended before its tools are restored is suspended with an
  outstanding request, although `architecture.md:428` has suspension wait for them;
  `SuspendsClean` exempts that window. And an approval answered between the turn becoming
  active and `load_turn_progress` makes recovery refuse the turn ("cannot safely resume")
  though the tool never ran (`executors.md:68`).
* `CapacityHeld` exempts starts admitted on a scan that was out of date (`overrun`): a
  machine that came up, and whose reservation was dropped, between the scan and the
  count is counted in neither. `firecracker.rs:198` calls the limit a "hard physical
  ceiling".
* A dropped acquisition gives up lock and reservation while its blocking launch or
  cleanup goes on (`adrift`); `firecracker.rs:1308` says the reservation stays "until the
  VMM is running or fully cleaned up".
* A restore can make the lease file anew in a template that is being removed, and lock
  that one (`remade`); the reaper's comment says it either has its lease before the
  removal or sees the template gone. And a restore that is dropped gives its lease up
  while its blocking closure still writes the manifest (`firecracker.rs:1218-1244`, `2178`):
  the reaper may remove the template first (`unheld`). `SnapshotsWhole` exempts both;
  `UnheldAreOff` says that no machine runs on such a manifest.

Read in the code, and outside the properties: a slot whose claim a crash left without a
manifest is never reclaimed; the lease of a machine is touched only after a command
ends, so that a command longer than the idle time can lose its machine; a fork whose
template is reaped between its publication and its lease fails and leaves
`snapshot-pending`, after which the source cannot be captured until it restarts
(`wedged`); a crash during the removal of a template leaves a directory without lease
file, on which every later reap fails; `firecracker_bridge.rs:241` says the first reap
removes every manifest of a crashed bridge, while unexpired machines are adopted; an
error of `should_stop` in `run_worker_loop` (`worker.rs:170`) returns without aborting
the event task.

## 6. Not modelled

The map covers a small part of the repository's lines: the concurrent and durable
protocols, and not the bulk of the code around them. The reason for each part is in
`PROJECT.json`. In short:

* *External:* model and chat providers, the backends behind the Docker, smolvm, cloud and
  Lima providers, the Firecracker guest, TLS, OAuth, cryptography. Their state lives in
  a service; a model would be of the service.
* *No protocol state:* parsing, rendering, configuration, price tables, the CLI and the
  terminal interface, translation of requests to HTTP and back, tool definitions, the
  grants of `access.rs`.
* *Possible, not done:* the cache of listeners in `egress/sandbox.rs`; leases and tickets
  of the Lima bridge; mirrors and mounts of `resources.rs`; registration of adapters and
  the reboot notice; the TypeScript harness's process; artifacts, slugs and the copying
  part of a fork.
* *Inside the modelled parts:* several threads at once (queues share nothing), deletion
  of a thread with a queue, the in-memory store, migration of old task records, reuse of
  pids, attachments, volumes, file transfer, mounts and network policy of sandboxes,
  changed runtime fingerprints and networks of Firecracker machines, errors inside their
  cleanup and inside the reaper's scan of references (both end the call and are retried),
  and the start of a sandbox from a snapshot on another provider, which boots the new
  machine before it stops the old one (`sandboxes.rs:1318-1340`).

## 7. Plan

Done: coordinator with contract and refinement; drain; scheduler; runner lock; outbox;
journal; local sessions; sandbox records, processes and their events; adapter runner;
wakeup lock; turns with tools; Firecracker machines and templates; proofs of all of them
but the journal.

Next theorems: `GetFinds` and `WatchExact` of `Journal`, over an index that is a set of
batches and not a sorted sequence.

Next modules: the listener cache of `egress/sandbox.rs`, composed with
`FirecrackerMachines`; resources; registration and reboot notice of adapters; the Lima
bridge.
