------------------------------ MODULE WakeupLock -------------------------------
(***************************************************************************)
(* WakeupFileLock of crates/executor/src/native/conversation_wakeup.rs:    *)
(* the file that serialises the wakeup turns of a conversation between     *)
(* processes.  It names no owner.  A file older than STALE_AFTER is taken  *)
(* for that of a dead process and removed, in two steps; a holder removes  *)
(* whatever file is there when its turn ends.  An adapter worker that ends *)
(* aborts the task that called: the guard goes with it, but the turn runs  *)
(* on in the task that turn_queue.rs spawned for it.                       *)
(***************************************************************************)
EXTENDS Naturals

CONSTANTS Wakers,     \* who calls: schedulers and adapters
          MaxWakeups  \* bound: wakeups of a caller

ASSUME WakeupAssumption == MaxWakeups \in Nat

VARIABLES lockFile,  \* the file: "none", "new" or "old", older than STALE_AFTER
          waker,     \* per caller: its step; "adrift" is a turn whose call was aborted
          wakeups,   \* per caller: how many wakeups it has begun
          overstayed \* history: a file grew old while its maker was running its turn,
                     \* or a waiter was between its look at a file and the removal

wakeVars == <<lockFile, waker, wakeups, overstayed>>

WakeupInit ==
  /\ lockFile = "none" /\ waker = [w \in Wakers |-> "idle"]
  /\ wakeups = [w \in Wakers |-> 0] /\ overstayed = FALSE

--------------------------------------------------------------------------------

WakeAsked(w) ==
  /\ waker[w] = "idle" /\ wakeups[w] < MaxWakeups
  /\ waker' = [waker EXCEPT ![w] = "open"] /\ wakeups' = [wakeups EXCEPT ![w] = @ + 1]
  /\ UNCHANGED <<lockFile, overstayed>>

\* Mutant: the file is opened whether it exists or not.
MutOpen(w) ==
  /\ waker[w] = "open" /\ lockFile' = "new" /\ waker' = [waker EXCEPT ![w] = "turn"]
  /\ UNCHANGED <<wakeups, overstayed>>

\* create_new decides; where the file exists its age is looked at.
Open(w) ==
  /\ waker[w] = "open"
  /\ \/ lockFile = "none" /\ lockFile' = "new" /\ waker' = [waker EXCEPT ![w] = "turn"]
     \/ lockFile # "none" /\ waker' = [waker EXCEPT ![w] = "stat"] /\ UNCHANGED lockFile
  /\ UNCHANGED <<wakeups, overstayed>>

\* Mutant: no file is taken for a dead one's.
MutStat(w) ==
  /\ waker[w] = "stat" /\ waker' = [waker EXCEPT ![w] = "open"]
  /\ UNCHANGED <<lockFile, wakeups, overstayed>>

\* remove_stale_lock: the metadata.
Stat(w) ==
  /\ waker[w] = "stat"
  /\ waker' = [waker EXCEPT ![w] = IF lockFile = "old" THEN "remove" ELSE "open"]
  /\ UNCHANGED <<lockFile, wakeups, overstayed>>

\* remove_stale_lock: the removal, of whatever file is there by now.
RemoveStaleLock(w) ==
  /\ waker[w] = "remove"
  /\ overstayed' = (overstayed \/ lockFile = "new")
  /\ lockFile' = "none" /\ waker' = [waker EXCEPT ![w] = "open"]
  /\ UNCHANGED wakeups

\* The turn and the end of its session are over, well or not: the guard is dropped.
TurnOver(w) ==
  /\ waker[w] = "turn"
  /\ lockFile' = "none" /\ waker' = [waker EXCEPT ![w] = "idle"]
  /\ UNCHANGED <<wakeups, overstayed>>

\* event_task.abort(): a turn that was accepted goes on without its file.  A call that
\* waits is gone, but an open under way may still make the file.
WakeAborted(w) ==
  /\ \/ waker[w] = "turn" /\ lockFile' = "none" /\ waker' = [waker EXCEPT ![w] = "adrift"]
     \/ /\ waker[w] \in {"open", "stat", "remove"}
        /\ waker' = [waker EXCEPT ![w] = "idle"]
        /\ lockFile' = lockFile \/ (waker[w] = "open" /\ lockFile = "none" /\ lockFile' = "new")
  /\ UNCHANGED <<wakeups, overstayed>>

AdriftOver(w) ==
  /\ waker[w] = "adrift" /\ waker' = [waker EXCEPT ![w] = "idle"]
  /\ UNCHANGED <<lockFile, wakeups, overstayed>>

\* Thirty minutes pass.
GrowsOld ==
  /\ lockFile = "new" /\ lockFile' = "old"
  /\ overstayed' = (overstayed \/ \E w \in Wakers : waker[w] = "turn")
  /\ UNCHANGED <<waker, wakeups>>

\* The process dies: nobody removes its file.
WakerDies(w) ==
  /\ waker[w] \in {"open", "stat", "remove", "turn", "adrift"}
  /\ waker' = [waker EXCEPT ![w] = "dead"]
  /\ UNCHANGED <<lockFile, wakeups, overstayed>>

Waits(w) == waker[w] \in {"open", "stat", "remove"}

WakeStep(w) == Open(w) \/ Stat(w) \/ RemoveStaleLock(w) \/ TurnOver(w) \/ AdriftOver(w)

WakeupNext ==
  \/ \E w \in Wakers : WakeAsked(w) \/ WakeStep(w) \/ WakeAborted(w) \/ WakerDies(w)
  \/ GrowsOld

WakeupSpec == WakeupInit /\ [][WakeupNext]_wakeVars

\* A waiter polls every 100 ms, a turn ends, and time passes.
WakeupFairness ==
  /\ \A w \in Wakers : WF_wakeVars(WakeStep(w))
  /\ WF_wakeVars(GrowsOld)

FairWakeupSpec == WakeupSpec /\ WakeupFairness

--------------------------------------------------------------------------------

\* Types.
WakeupTypeOK ==
  /\ lockFile \in {"none", "new", "old"}
  /\ waker \in [Wakers -> {"idle", "open", "stat", "remove", "turn", "adrift", "dead"}]
  /\ wakeups \in [Wakers -> 0..MaxWakeups] /\ overstayed \in BOOLEAN

Runs(w) == waker[w] \in {"turn", "adrift"}

\* Two wakeup turns of a conversation run at once only after a turn of more than
\* thirty minutes, after a waiter removed the new file for the old one it saw, or
\* while one of the two is the turn of an aborted call.
OneTurnAtATime ==
  ~overstayed =>
    \A v, w \in Wakers :
      Runs(v) /\ Runs(w) /\ v # w => "adrift" \in {waker[v], waker[w]}

\* A file left by a process that died holds up the others for a while only:
\* waiters never all wait for ever.
WaitersProceed ==
  []<>((\E w \in Wakers : waker[w] = "turn") \/ ~\E w \in Wakers : Waits(w))
================================================================================
