--------------------------- MODULE TurnCoordinator ---------------------------
(***************************************************************************)
(* The stored turn coordinator of crates/exoharness:                       *)
(*   turn_coordinator.rs          the traits TurnAdmission and TurnQueue   *)
(*   turn_coordinator/stored.rs   StoredTurnCoordinator                    *)
(*   basic/turn_queue.rs          its durable store, turn_queue.json       *)
(*                                                                         *)
(* One thread's queue.  Queues of different threads share nothing, and     *)
(* every operation runs from load to save under the thread's mutation      *)
(* lock, so one operation is one step.  An operation that returns an error *)
(* or only reads (get, peek, a claim of an owned queue, a duplicate        *)
(* submission, a repeated acknowledgment) leaves the state alone and has   *)
(* no action.  A failed save is such an error: put_json replaces the file  *)
(* as a whole.  A Crash loses ThreadMutation and keeps turn_queue.json.    *)
(***************************************************************************)
EXTENDS Naturals, Sequences

CONSTANTS Turns,        \* turn ids
          Principals,   \* callers with a name; a caller without one is None
          Keys,         \* idempotency keys
          Leases,       \* lease identities (the Arc<()> of a TurnLease)
          None,         \* Option::None
          Retention,    \* lifetime of a receipt: 24 * 60 * 60 seconds
          MaxTime       \* bound on the clock

ASSUME NoneAssumption == None \notin Turns \cup Principals \cup Keys \cup Leases
ASSUME TimeAssumption == Retention \in Nat /\ MaxTime \in Nat

VARIABLES pending,      \* TurnQueueState.pending, head first
          receipts,     \* TurnQueueState.receipts
          acknowledged, \* TurnQueueState.acknowledged
          owner,        \* ThreadMutation.owner, None when it cannot be upgraded
          leases,       \* lease values that some task still holds
          watching,     \* ThreadMutation.control: the turn it is for, or None
          signal,       \* ThreadMutation.control: the value in the watch channel
          now,          \* Utc::now().timestamp()
          accepted,     \* history: every accepted submission, in order
          acks          \* history: how many of them were acknowledged

durable == <<pending, receipts, acknowledged>>
mutation == <<owner, leases, watching, signal>>
history == <<accepted, acks>>
vars == <<pending, receipts, acknowledged, owner, leases, watching, signal,
          now, accepted, acks>>

-----------------------------------------------------------------------------
(* Types. *)

Controls == {"Run", "Cancel", "Suspend"}
Callers == Principals \cup {None}
Attentions == {"Wake", "Interrupt"}

QueuedTurn == [turn : Turns, principal : Callers, started : BOOLEAN,
               control : Controls]
TurnReceipt == [principal : Callers, key : Keys, turn : Turns, expires : Nat]
Acceptance == [turn : Turns, principal : Callers, key : Keys \cup {None},
               at : Nat]

\* Every variable holds what its Rust counterpart can hold.
TypeOK ==
  /\ pending \in Seq(QueuedTurn)
  /\ receipts \subseteq TurnReceipt
  /\ acknowledged \in Turns \cup {None}
  /\ owner \in Leases \cup {None}
  /\ leases \subseteq Leases
  /\ watching \in Turns \cup {None}
  /\ signal \in Controls
  /\ now \in Nat
  /\ accepted \in Seq(Acceptance)
  /\ acks \in Nat

-----------------------------------------------------------------------------
(* Reading the queue. *)

PendingTurns == {pending[i].turn : i \in DOMAIN pending}
AcceptedTurns == {accepted[i].turn : i \in DOMAIN accepted}

\* The head of the queue, when there is one.
Front == pending[1]

\* state.pending.front() is absent or suspended: nothing to execute now.
Idle == pending # <<>> => Front.control = "Suspend"

MutLiveReceipts == {r \in receipts : r.expires > now + 1}

\* The receipts that enqueue retains.
LiveReceipts == {r \in receipts : r.expires > now}

\* The receipt that makes a submission with this key a retry.
Matches(r, p, k) == r.key = k /\ r.principal = p

\* enqueue returns an existing turn instead of accepting the submission.
Duplicate(t, p, k) ==
  \/ t \in PendingTurns
  \/ k # None /\ \E r \in LiveReceipts : Matches(r, p, k)

MutInterrupts(p, attention) ==
  /\ attention = "Interrupt"
  /\ pending # <<>>
  /\ Front.started \/ owner # None

\* An interrupting submission cancels the head its own principal has in
\* execution: started, or claimed by a live owner.
Interrupts(p, attention) ==
  /\ attention = "Interrupt"
  /\ pending # <<>>
  /\ Front.started \/ owner # None
  /\ Front.principal = p

-----------------------------------------------------------------------------
(* Admission. *)

NewEntry(t, p) == [turn |-> t, principal |-> p, started |-> FALSE,
                   control |-> "Run"]

MutNewReceipts(t, p, k) ==
  IF k = None THEN {}
  ELSE {[principal |-> p, key |-> k, turn |-> t, expires |-> now - Retention]}

NewReceipts(t, p, k) ==
  IF k = None THEN {}
  ELSE {[principal |-> p, key |-> k, turn |-> t, expires |-> now + Retention]}

MutNotify(t, c) == UNCHANGED <<watching, signal>>

\* ThreadMutation::notify: only the watch of this very turn hears of it.
Notify(t, c) ==
  /\ signal' = IF watching = t THEN c ELSE signal
  /\ UNCHANGED watching

\* The ids callers submit: fresh ones (Uuid7::now() in accept_local_turn), and
\* those of a submission they repeat while it is pending or its key retained.
Submittable(t, p, k) ==
  t \in AcceptedTurns =>
    \E i \in DOMAIN accepted :
      /\ accepted[i].turn = t
      /\ accepted[i].principal = p
      /\ accepted[i].key = k
      /\ t \in PendingTurns \/ (k # None /\ now < accepted[i].at + Retention)

\* enqueue of a submission that is not a duplicate.
Enqueue(t, p, k, attention) ==
  /\ Submittable(t, p, k)
  /\ ~Duplicate(t, p, k)
  /\ IF Interrupts(p, attention)
       THEN /\ pending' = Append([pending EXCEPT ![1].control = "Cancel"],
                                 NewEntry(t, p))
            /\ Notify(Front.turn, "Cancel")
       ELSE /\ pending' = Append(pending, NewEntry(t, p))
            /\ UNCHANGED <<watching, signal>>
  /\ receipts' = LiveReceipts \cup NewReceipts(t, p, k)
  /\ accepted' = Append(accepted, [turn |-> t, principal |-> p, key |-> k,
                                   at |-> now])
  /\ UNCHANGED <<acknowledged, owner, leases, now, acks>>

MutMayControl(entry, by, c) == by = None \/ entry.principal = by

\* The checks of update_control: the thread owner (by = None) or the submitter,
\* and a cancelled turn takes no other control.
MayControl(entry, by, c) ==
  /\ by = None \/ entry.principal = by
  /\ entry.control # "Cancel" \/ c = "Cancel"

\* update_control: cancel and set_suspended(true / false) of the turn at i.
UpdateControl(i, by, c) ==
  /\ MayControl(pending[i], by, c)
  /\ pending' = [pending EXCEPT ![i].control = c]
  /\ Notify(pending[i].turn, c)
  /\ UNCHANGED <<receipts, acknowledged, owner, leases, now, history>>

-----------------------------------------------------------------------------
(* Ownership and execution. *)

\* control.take(): the sender is dropped and the stream of the watch ends.
CloseWatch == watching' = None /\ signal' = "Run"

\* claim of a queue no live lease owns.
Claim(l) ==
  /\ owner = None
  /\ l \notin leases
  /\ owner' = l
  /\ leases' = leases \cup {l}
  /\ UNCHANGED <<durable, watching, signal, now, history>>

\* The last clone of a lease is dropped: ThreadMutation.owner no longer
\* upgrades.  Without leases the ThreadState, and the watch in it, goes too,
\* unless a concurrent operation still holds it.
DropLease(l) ==
  /\ l \in leases
  /\ leases' = leases \ {l}
  /\ owner' = IF owner = l THEN None ELSE owner
  /\ \/ leases' = {} /\ CloseWatch
     \/ UNCHANGED <<watching, signal>>
  /\ UNCHANGED <<durable, now, history>>

\* start of the head: admission is saved unless the head is suspended, and the
\* watch is opened on its current control.
Start(l, t) ==
  /\ owner = l
  /\ pending # <<>>
  /\ Front.turn = t
  /\ pending' = [pending EXCEPT ![1].started = @ \/ Front.control # "Suspend"]
  /\ watching' = t
  /\ signal' = Front.control
  /\ UNCHANGED <<receipts, acknowledged, owner, leases, now, history>>

\* acknowledge of the head.  Repeating the last acknowledgment only reads.
Acknowledge(l, t) ==
  /\ owner = l
  /\ acknowledged # t
  /\ pending # <<>>
  /\ Front.turn = t
  /\ pending' = Tail(pending)
  /\ acknowledged' = t
  /\ CloseWatch
  /\ acks' = acks + 1
  /\ UNCHANGED <<receipts, owner, leases, now, accepted>>

\* release_if_idle that succeeds: the lease value lives on, without ownership.
Release(l) ==
  /\ owner = l
  /\ Idle
  /\ owner' = None
  /\ CloseWatch
  /\ UNCHANGED <<durable, leases, now, history>>

-----------------------------------------------------------------------------
(* The environment. *)

\* The process dies: what is not in turn_queue.json is gone.
Crash ==
  /\ owner' = None
  /\ leases' = {}
  /\ CloseWatch
  /\ UNCHANGED <<durable, now, history>>

Tick ==
  /\ now < MaxTime
  /\ now' = now + 1
  /\ UNCHANGED <<durable, mutation, history>>

Init ==
  /\ pending = <<>>
  /\ receipts = {}
  /\ acknowledged = None
  /\ owner = None
  /\ leases = {}
  /\ watching = None
  /\ signal = "Run"
  /\ now = 0
  /\ accepted = <<>>
  /\ acks = 0

Admission ==
  \/ \E t \in Turns, p \in Callers, k \in Keys \cup {None}, a \in Attentions :
       Enqueue(t, p, k, a)
  \/ \E i \in DOMAIN pending, by \in Callers, c \in Controls :
       UpdateControl(i, by, c)

Execution ==
  \E l \in Leases :
    \/ Claim(l)
    \/ DropLease(l)
    \/ \E t \in Turns : Start(l, t) \/ Acknowledge(l, t)
    \/ Release(l)

Next == Admission \/ Execution \/ Crash \/ Tick

Spec == Init /\ [][Next]_vars

-----------------------------------------------------------------------------
(* Safety. *)

\* The queue is exactly the accepted turns that were not acknowledged, in the
\* order of acceptance, and the remembered acknowledgment is the last one:
\* enqueue, interrupts, controls, retried acknowledgments and crashes neither
\* lose, reorder nor duplicate a turn.
QueueIsSuffix ==
  /\ Len(accepted) = acks + Len(pending)
  /\ \A i \in DOMAIN pending :
       /\ pending[i].turn = accepted[acks + i].turn
       /\ pending[i].principal = accepted[acks + i].principal
  /\ acknowledged = IF acks = 0 THEN None ELSE accepted[acks].turn

\* No turn is accepted twice, so no turn is executed under two entries.
AcceptedOnce ==
  \A i, j \in DOMAIN accepted :
    accepted[i].turn = accepted[j].turn => i = j

\* Only the head has ever been started: what stands behind it waits.
OnlyHeadStarted ==
  \A i \in DOMAIN pending : pending[i].started => i = 1

\* The control watch that start opened always shows the control saved for the
\* head, whoever changed it: no update is lost between save and notify, and no
\* watch outlives its head.
WatchIsCurrent ==
  watching # None =>
    /\ pending # <<>>
    /\ watching = Front.turn
    /\ signal = Front.control

\* Two submissions of one principal under one key are both accepted only when
\* the second comes after the retention of the first, whatever was enqueued,
\* acknowledged or lost in between.
DedupWindow ==
  \A i, j \in DOMAIN accepted :
    /\ i < j
    /\ accepted[i].key # None
    /\ accepted[i].key = accepted[j].key
    /\ accepted[i].principal = accepted[j].principal
    => accepted[j].at >= accepted[i].at + Retention

\* What stored.rs keeps in turn_queue.json, all at once: a submission is accepted
\* once, per id for ever and per key for the retention; accepted work stays in
\* order until it is acknowledged; and only the head is ever admitted.
QueueKept == AcceptedOnce /\ DedupWindow /\ QueueIsSuffix /\ OnlyHeadStarted

\* Why DedupWindow holds: a keyed acceptance has its receipt on file for as long
\* as the receipt has not expired, through every pruning and every crash.
ReceiptsCover ==
  \A i \in DOMAIN accepted :
    /\ accepted[i].at <= now
    /\ accepted[i].key # None /\ now < accepted[i].at + Retention =>
         [principal |-> accepted[i].principal, key |-> accepted[i].key,
          turn |-> accepted[i].turn,
          expires |-> accepted[i].at + Retention] \in receipts

\* The promise of the traits, over the ids of the queue.
PendingIds == [i \in DOMAIN pending |-> pending[i].turn]
Acknowledged == {accepted[i].turn : i \in 1..acks}
Cancelled == {pending[i].turn : i \in {j \in DOMAIN pending :
                                         pending[j].control = "Cancel"}}

Promise == INSTANCE AcceptedWork
             WITH queue <- PendingIds, done <- Acknowledged,
                  cancelled <- Cancelled

\* The coordinator implements the contract of turn_coordinator.rs: every step,
\* crashes included, is one of its steps or leaves the promised state alone.
\* In particular nothing withdraws a cancellation: not a resume, a suspension,
\* a restart or a later interrupt.
ImplementsPromise == Promise!Spec

\* A submission never touches the queue position, the admission or the control
\* of work that another principal submitted, not even as an interrupt.
EnqueueIsScoped ==
  [][Len(accepted') > Len(accepted) =>
       \A i \in DOMAIN pending :
         pending[i].principal # accepted'[Len(accepted')].principal
           => pending'[i] = pending[i]]_vars
=============================================================================
