----------------------------- MODULE SandboxRecords -----------------------------
(***************************************************************************)
(* The sandboxes of one thread in one process: BasicScopedSandboxHandle    *)
(* and its helpers in crates/exoharness/src/basic/sandboxes.rs, and        *)
(* delete_conversation of basic.rs.  Calls run concurrently.  Writes of    *)
(* records are made under write_lock, but machines are mostly acquired     *)
(* outside it; resume and deletion hold the thread's resource lock.  The   *)
(* backend knows one machine per sandbox id: acquiring a machine that is   *)
(* up returns it, and a handle outlives the machine it was made for.       *)
(***************************************************************************)
EXTENDS Naturals, FiniteSets

CONSTANTS Boxes,       \* sandbox ids, in the order in which they are made
          Earlier,     \* those created before, which run
          Calls,       \* slots for concurrent calls, taken in order
          Tries,       \* attempts of a deletion (5 in the code)
          KeepsDisk,   \* registration.retains_disk_when_stopped
          MaxBoxCalls, \* bound: calls begun
          BackendFails \* a backend may refuse to acquire or to stop

ASSUME BoxAssumption ==
  /\ Earlier \subseteq Boxes /\ Boxes \subseteq Nat \ {0} /\ Calls \subseteq Nat \ {0}
  /\ Tries \in Nat \ {0} /\ MaxBoxCalls \in Nat
  /\ KeepsDisk \in BOOLEAN /\ BackendFails \in BOOLEAN

\* No call, no sandbox.
Nobody == 0

VARIABLES stored,     \* per sandbox: its record (StoredSandbox) or NoRecord
          cached,     \* running_sandboxes: the boot its handle is for, or 0
          machine,    \* per sandbox: the boot that is up, or 0
          boots,      \* per sandbox: boots so far
          ownerRec,   \* the thread's record exists
          writer,     \* the call that holds write_lock
          threadLock, \* the call that holds the thread's resource lock
          call,       \* per call: what it does
          boxCalls,   \* how many calls began
          cut,        \* history: sandboxes whose handle was registered after its machine
                      \* had gone, by a resume or after a restart that failed
          leaked,     \* history: sandboxes with a machine that nobody registered and
                      \* that the backend would not stop
          snaps       \* snapshots of the thread so far, numbered from 1

boxVars == <<stored, cached, machine, boots, ownerRec, writer, threadLock, call,
             boxCalls, cut, leaked, snaps>>

NoRecord == [is |-> FALSE, running |-> FALSE, snap |-> 0, ext |-> FALSE, named |-> FALSE]
NewRecord(kind, from) ==
  [is |-> TRUE, running |-> TRUE, snap |-> from, ext |-> kind = "attach", named |-> kind = "named"]

\* box: the sandbox.  seen: the record as read.  got: the boot acquired.
\* from: the snapshot it starts from, or 0.
NoCall == [kind |-> "none", box |-> Nobody, at |-> "idle", seen |-> NoRecord,
           got |-> 0, from |-> 0, todo |-> {}, try |-> 0]

BoxInit ==
  /\ stored = [b \in Boxes |-> IF b \in Earlier THEN NewRecord("create", 0) ELSE NoRecord]
  /\ machine = [b \in Boxes |-> IF b \in Earlier THEN 1 ELSE 0]
  \* A process that started since has no handle, nor has one after a failed restore.
  /\ \E H \in SUBSET Earlier : cached = [b \in Boxes |-> IF b \in H THEN 1 ELSE 0]
  /\ boots = machine
  /\ ownerRec = TRUE
  /\ writer = Nobody
  /\ threadLock = Nobody
  /\ call = [c \in Calls |-> NoCall]
  /\ boxCalls = 0
  /\ cut = {} /\ leaked = {} /\ snaps = 0

--------------------------------------------------------------------------------

Serving(c, kinds, at) == call[c].kind \in kinds /\ call[c].at = at
Then(c, at) == call' = [call EXCEPT ![c].at = at]

Done(c) ==
  /\ call' = [call EXCEPT ![c] = NoCall]
  /\ threadLock' = IF threadLock = c THEN Nobody ELSE threadLock
  /\ writer' = IF writer = c THEN Nobody ELSE writer
Unlocked == writer = Nobody

\* backend.acquire, attach, fork_sandbox or acquire_from_snapshot.
Acquired(b) == IF machine[b] # 0 THEN machine[b] ELSE boots[b] + 1
Boot(b, boot) ==
  /\ machine' = [machine EXCEPT ![b] = boot]
  /\ boots' = [boots EXCEPT ![b] = IF boot > @ THEN boot ELSE @]

\* backend.stop, terminate and handle.stop: by sandbox id, whatever the boot.
PowerOff(B) == machine' = [b \in Boxes |-> IF b \in B THEN 0 ELSE machine[b]]

\* handle.stop of a machine that nobody will register: its failure is only
\* logged, or ends the call with an error, and the machine stays up.
StopUnregistered(b) ==
  \/ PowerOff({b}) /\ UNCHANGED leaked
  \/ BackendFails /\ leaked' = leaked \cup {b} /\ UNCHANGED machine

--------------------------------------------------------------------------------

\* fork_sandbox needs a running source; restore_sandbox and start_sandbox may name
\* any snapshot of the thread, whose payload they load before any lock.
Making == {"create", "named", "attach", "fork", "restore"}
Unmade(b) == boots[b] = 0 /\ \A c \in Calls : call[c].box # b
Fits(kind, b, s) ==
  /\ kind \in Making => b \in Boxes /\ Unmade(b) /\ \A d \in 1..(b - 1) : ~Unmade(d)
  /\ kind = "fork" => \E d \in Boxes : stored[d].running /\ ~stored[d].ext
  /\ IF kind \in {"restore", "restart"} THEN s > 0 /\ ownerRec ELSE s = 0
  /\ kind = "delete" => b = Nobody
  /\ kind \notin Making \cup {"delete"} => b \in Boxes /\ boots[b] > 0

CallStart ==
  [create |-> "acquire", fork |-> "acquire", restore |-> "acquire", attach |-> "acquire",
   named |-> "lock", use |-> "read", resume |-> "threadLock", restart |-> "lock",
   stop |-> "lock", detach |-> "read", terminate |-> "lock", snapshot |-> "read",
   delete |-> "threadLock"]

BeginCall(c, kind, b, s) ==
  /\ call[c].kind = "none" /\ \A d \in 1..(c - 1) : call[d].kind # "none"
  /\ boxCalls < MaxBoxCalls /\ Fits(kind, b, s)
  /\ call' = [call EXCEPT ![c] = [NoCall EXCEPT !.kind = kind, !.box = b, !.from = s,
                                                 !.at = CallStart[kind]]]
  /\ boxCalls' = boxCalls + 1
  /\ UNCHANGED <<stored, cached, machine, boots, ownerRec, writer, threadLock, cut, leaked, snaps>>

TakeThread(c) ==
  /\ call[c].at = "threadLock" /\ threadLock = Nobody
  /\ threadLock' = c
  /\ Then(c, IF call[c].kind = "resume" THEN "read" ELSE "sweep")
  /\ UNCHANGED <<stored, cached, machine, boots, ownerRec, writer, boxCalls, cut, leaked, snaps>>

TakeWrite(c) ==
  /\ call[c].at = "lock" /\ Unlocked
  /\ writer' = c
  /\ Then(c, "check")
  /\ UNCHANGED <<stored, cached, machine, boots, ownerRec, threadLock, boxCalls, cut, leaked, snaps>>

\* The backend refuses: the call ends with an error and has changed nothing.
BackendError(c) ==
  /\ BackendFails /\ call[c].at \in {"acquire", "backend"}
  /\ Done(c)
  /\ UNCHANGED <<stored, cached, machine, boots, ownerRec, boxCalls, cut, leaked, snaps>>

--------------------------------------------------------------------------------

\* create_sandbox_handle of a sandbox that is new, or that has no handle here.
Acquire(c) ==
  LET b == call[c].box
      boot == Acquired(b)
  IN
  /\ call[c].at = "acquire"
  /\ IF call[c].kind = "attach"
       THEN boots' = [boots EXCEPT ![b] = boot] /\ UNCHANGED machine
       ELSE Boot(b, boot)
  /\ call' = [call EXCEPT ![c].got = boot,
       ![c].at = CASE call[c].kind \in Making -> "persist"
                   [] call[c].kind = "resume" /\ ~call[c].seen.running -> "write"
                   [] OTHER -> "register"]
  /\ UNCHANGED <<stored, cached, ownerRec, writer, threadLock, boxCalls, cut, leaked, snaps>>

\* persist_created_sandbox_locked and persist_attached_sandbox_locked
Persist(c) ==
  LET b == call[c].box IN
  /\ call[c].at = "persist" /\ writer \in {Nobody, c}
  /\ \/ /\ ownerRec
        /\ stored' = [stored EXCEPT ![b] = NewRecord(call[c].kind, call[c].from)]
        /\ cached' = [cached EXCEPT ![b] = call[c].got]
        /\ UNCHANGED <<machine, leaked>>
     \/ /\ ~ownerRec
        /\ IF call[c].kind = "attach" THEN UNCHANGED <<machine, leaked>> ELSE StopUnregistered(b)
        /\ UNCHANGED <<stored, cached>>
  /\ Done(c)
  /\ UNCHANGED <<boots, ownerRec, boxCalls, cut, snaps>>

\* create_sandbox with a name: the newest running sandbox of that name is reused.
NamedCheck(c) ==
  LET same == {b \in Boxes : stored[b].named /\ stored[b].running} IN
  /\ Serving(c, {"named"}, "check")
  /\ \/ \E b \in same :
          /\ \A d \in same : d <= b
          /\ \/ cached[b] # 0 /\ Done(c)
             \/ /\ cached[b] = 0
                /\ call' = [call EXCEPT ![c].box = b, ![c].at = "backend"]
                /\ UNCHANGED <<writer, threadLock>>
     \/ same = {} /\ Then(c, "backend") /\ UNCHANGED <<writer, threadLock>>
  /\ UNCHANGED <<stored, cached, machine, boots, ownerRec, boxCalls, cut, leaked, snaps>>

\* active_sandbox_handle_locked, or the acquisition of a new one.
NamedBackend(c) ==
  LET b == call[c].box
      boot == Acquired(b)
  IN
  /\ Serving(c, {"named"}, "backend")
  /\ Boot(b, boot)
  /\ \/ /\ stored[b].is
        /\ cached' = [cached EXCEPT ![b] = boot]
        /\ Done(c)
     \/ /\ ~stored[b].is
        /\ call' = [call EXCEPT ![c].got = boot, ![c].at = "persist"]
        /\ UNCHANGED <<cached, writer, threadLock>>
  /\ UNCHANGED <<stored, ownerRec, boxCalls, cut, leaked, snaps>>

CreateStep(c) == Acquire(c) \/ Persist(c) \/ NamedCheck(c) \/ NamedBackend(c)

--------------------------------------------------------------------------------

Onwards(kind) == IF kind = "resume" THEN "write" ELSE kind

\* load_sandbox and the guards of run_in_sandbox, detach_sandbox, resume and
\* snapshot_sandbox, then the handle in running_sandboxes.
Read(c) ==
  LET b == call[c].box
      kind == call[c].kind
      fit == CASE kind = "resume" -> stored[b].is /\ ~stored[b].ext
               [] kind = "snapshot" -> stored[b].is /\ ~stored[b].ext /\ cached[b] # 0
               [] OTHER -> stored[b].is /\ stored[b].running
      warm == stored[b].running /\ cached[b] # 0
  IN
  /\ call[c].at = "read"
  /\ \/ ~fit /\ Done(c)
     \/ fit /\ warm /\ kind = "use" /\ Done(c)
     \/ /\ fit /\ ~(warm /\ kind = "use")
        /\ call' = [call EXCEPT ![c].seen = stored[b],
                                ![c].got = IF warm THEN cached[b] ELSE 0,
                                ![c].at = IF warm THEN Onwards(kind) ELSE "acquire"]
        /\ UNCHANGED <<writer, threadLock>>
  /\ UNCHANGED <<stored, cached, machine, boots, ownerRec, boxCalls, cut, leaked, snaps>>

\* The locked end of active_sandbox_handle: the record may have gone or stopped
\* and another call may have registered a handle.
Register(c) ==
  LET b == call[c].box IN
  /\ call[c].at = "register" /\ Unlocked
  /\ \/ ~stored[b].running /\ StopUnregistered(b) /\ Done(c) /\ UNCHANGED <<cached, cut>>
     \/ /\ stored[b].running
        /\ cached' = [cached EXCEPT ![b] = IF @ = 0 THEN call[c].got ELSE @]
        /\ IF call[c].kind = "use" THEN Done(c)
             ELSE /\ call' = [call EXCEPT ![c].got = cached'[b], ![c].at = Onwards(call[c].kind)]
                  /\ UNCHANGED <<writer, threadLock>>
        /\ cut' = IF cached[b] # 0 \/ call[c].got = machine[b] THEN cut ELSE cut \cup {b}
        /\ UNCHANGED <<machine, leaked>>
  /\ UNCHANGED <<stored, boots, ownerRec, boxCalls, snaps>>

\* start_sandbox without a snapshot: the record that was read before the
\* machine was acquired is written back.
ResumeWrite(c) ==
  LET b == call[c].box IN
  /\ call[c].at = "write" /\ Unlocked
  /\ \/ ~stored[b].is /\ StopUnregistered(b) /\ UNCHANGED <<stored, cached, cut>>
     \/ /\ stored[b].is
        /\ cached' = [cached EXCEPT ![b] = call[c].got]
        /\ stored' = [stored EXCEPT ![b] = [call[c].seen EXCEPT !.running = TRUE]]
        /\ cut' = IF call[c].got = machine[b] THEN cut ELSE cut \cup {b}
        /\ UNCHANGED <<machine, leaked>>
  /\ Done(c)
  /\ UNCHANGED <<boots, ownerRec, boxCalls, snaps>>

\* Mutant: the record of before the lock is written back.
MutDetach(c) ==
  LET b == call[c].box IN
  /\ call[c].at = "detach" /\ Unlocked
  /\ \/ /\ stored[b].is /\ stored[b].running /\ ~stored[b].ext
        /\ cached' = [cached EXCEPT ![b] = 0]
        /\ machine' = [machine EXCEPT ![b] = 0]
        /\ stored' = [stored EXCEPT ![b] = [call[c].seen EXCEPT !.running = FALSE, !.ext = TRUE]]
     \/ /\ ~(stored[b].is /\ stored[b].running /\ ~stored[b].ext)
        /\ UNCHANGED <<stored, cached, machine>>
  /\ Done(c)
  /\ UNCHANGED <<boots, ownerRec, boxCalls, cut, leaked, snaps>>

\* detach_sandbox: from now on the machine is somebody else's.
Detach(c) ==
  LET b == call[c].box IN
  /\ call[c].at = "detach" /\ Unlocked
  /\ \/ /\ stored[b].is /\ stored[b].running /\ ~stored[b].ext
        /\ cached' = [cached EXCEPT ![b] = 0]
        /\ machine' = [machine EXCEPT ![b] = 0]
        /\ stored' = [stored EXCEPT ![b].running = FALSE, ![b].ext = TRUE]
     \/ /\ ~(stored[b].is /\ stored[b].running /\ ~stored[b].ext)
        /\ UNCHANGED <<stored, cached, machine>>
  /\ Done(c)
  /\ UNCHANGED <<boots, ownerRec, boxCalls, cut, leaked, snaps>>

\* snapshot_sandbox_side_effect once the payload is taken.
SnapshotWrite(c) ==
  LET b == call[c].box IN
  /\ call[c].at = "snapshot" /\ Unlocked
  /\ \/ /\ stored[b].is
        /\ snaps' = snaps + 1
        /\ stored' = [stored EXCEPT ![b].snap = snaps + 1]
     \/ ~stored[b].is /\ UNCHANGED <<stored, snaps>>
  /\ Done(c)
  /\ UNCHANGED <<cached, machine, boots, ownerRec, boxCalls, cut, leaked>>

HandleStep(c) == Read(c) \/ Register(c) \/ ResumeWrite(c) \/ Detach(c) \/ SnapshotWrite(c)

--------------------------------------------------------------------------------

Requires(b) == stored[b].is /\ ~stored[b].ext /\ (stored[b].running \/ KeepsDisk)

\* stop_sandbox and terminate_sandbox hold write_lock throughout.
StopCheck(c) ==
  LET b == call[c].box
      stops == CASE call[c].kind = "stop" -> stored[b].is /\ stored[b].running
                 [] OTHER -> Requires(b)
  IN
  /\ Serving(c, {"stop", "terminate"}, "check")
  /\ \/ (~stored[b].is \/ stored[b].ext \/ (call[c].kind = "stop" /\ ~stops)) /\ Done(c)
     \/ /\ stored[b].is /\ ~stored[b].ext /\ (call[c].kind = "stop" => stops)
        /\ Then(c, IF stops THEN "backend" ELSE "finish")
        /\ UNCHANGED <<writer, threadLock>>
  /\ UNCHANGED <<stored, cached, machine, boots, ownerRec, boxCalls, cut, leaked, snaps>>

StopBackend(c) ==
  /\ Serving(c, {"stop", "terminate"}, "backend")
  /\ PowerOff({call[c].box})
  /\ Then(c, "finish")
  /\ UNCHANGED <<stored, cached, boots, ownerRec, writer, threadLock, boxCalls, cut, leaked, snaps>>

StopFinish(c) ==
  LET b == call[c].box IN
  /\ Serving(c, {"stop", "terminate"}, "finish")
  /\ cached' = [cached EXCEPT ![b] = 0]
  /\ stored' = [stored EXCEPT ![b] = IF call[c].kind = "stop" THEN [@ EXCEPT !.running = FALSE]
                                                             ELSE NoRecord]
  /\ Done(c)
  /\ UNCHANGED <<machine, boots, ownerRec, boxCalls, cut, leaked, snaps>>

\* start_sandbox from a snapshot, on the sandbox's own provider: the old handle is
\* stopped first.  It is out of running_sandboxes even when it cannot be stopped.
RestartCheck(c) ==
  LET b == call[c].box
      fit == stored[b].is /\ ~stored[b].ext
  IN
  /\ Serving(c, {"restart"}, "check")
  /\ \/ ~fit /\ Done(c) /\ UNCHANGED <<cached, machine>>
     \/ /\ fit /\ cached' = [cached EXCEPT ![b] = 0]
        /\ \/ /\ PowerOff(IF cached[b] # 0 THEN {b} ELSE {})
              /\ Then(c, "backend") /\ UNCHANGED <<writer, threadLock>>
           \/ /\ BackendFails /\ cached[b] # 0
              /\ Done(c) /\ UNCHANGED machine
  /\ UNCHANGED <<stored, boots, ownerRec, boxCalls, cut, leaked, snaps>>

\* acquire_from_snapshot replaces a machine that is up.
RestartBackend(c) ==
  LET b == call[c].box IN
  /\ Serving(c, {"restart"}, "backend")
  /\ Boot(b, boots[b] + 1)
  /\ cached' = [cached EXCEPT ![b] = boots[b] + 1]
  /\ stored' = [stored EXCEPT ![b].running = TRUE, ![b].snap = call[c].from]
  /\ Done(c)
  /\ UNCHANGED <<ownerRec, boxCalls, cut, leaked, snaps>>

LockedStep(c) ==
  StopCheck(c) \/ StopBackend(c) \/ StopFinish(c) \/ RestartCheck(c) \/ RestartBackend(c)

--------------------------------------------------------------------------------

\* delete_conversation: terminate what needs it, one write_lock each.
SweepList(c) ==
  /\ call[c].at = "sweep"
  /\ \/ ~ownerRec /\ Done(c)
     \/ /\ ownerRec
        /\ call' = [call EXCEPT ![c].todo = {b \in Boxes : Requires(b)}, ![c].at = "next"]
        /\ UNCHANGED <<writer, threadLock>>
  /\ UNCHANGED <<stored, cached, machine, boots, ownerRec, boxCalls, cut, leaked, snaps>>

\* A sandbox that somebody else terminated meanwhile ends the deletion.
SweepNext(c) ==
  /\ call[c].at = "next"
  /\ \/ /\ call[c].todo = {}
        /\ Then(c, "recheck") /\ UNCHANGED <<machine, writer, threadLock>>
     \/ \E b \in call[c].todo :
          /\ Unlocked
          /\ \/ (~stored[b].is \/ stored[b].ext) /\ Done(c) /\ UNCHANGED machine
             \/ BackendFails /\ Requires(b) /\ Done(c) /\ UNCHANGED machine
             \/ /\ stored[b].is /\ ~stored[b].ext
                /\ PowerOff(IF Requires(b) THEN {b} ELSE {})
                /\ writer' = c
                /\ call' = [call EXCEPT ![c].box = b, ![c].at = "remove"]
                /\ UNCHANGED threadLock
  /\ UNCHANGED <<stored, cached, boots, ownerRec, boxCalls, cut, leaked, snaps>>

SweepRemove(c) ==
  LET b == call[c].box IN
  /\ call[c].at = "remove"
  /\ cached' = [cached EXCEPT ![b] = 0]
  /\ stored' = [stored EXCEPT ![b] = NoRecord]
  /\ writer' = Nobody
  /\ call' = [call EXCEPT ![c].todo = @ \ {b}, ![c].at = "next"]
  /\ UNCHANGED <<machine, boots, ownerRec, threadLock, boxCalls, cut, leaked, snaps>>

\* Mutant: the owner is deleted without a second look.
MutRecheck(c) ==
  /\ call[c].at = "recheck" /\ Unlocked
  /\ ownerRec' = FALSE
  /\ cached' = [b \in Boxes |-> IF stored[b].is THEN 0 ELSE cached[b]]
  /\ stored' = [b \in Boxes |-> NoRecord]
  /\ Done(c)
  /\ UNCHANGED <<machine, boots, boxCalls, cut, leaked, snaps>>

\* Mutant: one attempt too many.
MutMayTryAgain(c) == call[c].try < Tries

MayTryAgain(c) == call[c].try + 1 < Tries

\* The locked end: no sandbox may have appeared, then everything goes.
Recheck(c) ==
  /\ call[c].at = "recheck" /\ Unlocked
  /\ \/ /\ \E b \in Boxes : Requires(b)
        /\ \/ /\ MayTryAgain(c)
              /\ call' = [call EXCEPT ![c].try = @ + 1, ![c].at = "sweep"]
              /\ UNCHANGED <<writer, threadLock>>
           \/ ~MayTryAgain(c) /\ Done(c)
        /\ UNCHANGED <<stored, cached, ownerRec>>
     \/ /\ \A b \in Boxes : ~Requires(b)
        /\ ownerRec' = FALSE
        /\ cached' = [b \in Boxes |-> IF stored[b].is THEN 0 ELSE cached[b]]
        /\ stored' = [b \in Boxes |-> NoRecord]
        /\ Done(c)
  /\ UNCHANGED <<machine, boots, boxCalls, cut, leaked, snaps>>

DeleteOwnerStep(c) == SweepList(c) \/ SweepNext(c) \/ SweepRemove(c) \/ Recheck(c)

--------------------------------------------------------------------------------

CallAdvances(c) ==
  TakeThread(c) \/ TakeWrite(c) \/ BackendError(c) \/ CreateStep(c) \/ HandleStep(c)
    \/ LockedStep(c) \/ DeleteOwnerStep(c)

BoxNext ==
  \E c \in Calls :
    \/ \E kind \in DOMAIN CallStart, b \in Boxes \cup {Nobody}, s \in 0..snaps :
         BeginCall(c, kind, b, s)
    \/ CallAdvances(c)

BoxSpec == BoxInit /\ [][BoxNext]_boxVars
BoxFairness == \A c \in Calls : WF_boxVars(CallAdvances(c))
FairBoxSpec == BoxSpec /\ BoxFairness

--------------------------------------------------------------------------------

BoxRecords == [is : BOOLEAN, running : BOOLEAN, snap : Nat, ext : BOOLEAN, named : BOOLEAN]

CallRecords ==
  [kind : DOMAIN CallStart \cup {"none"}, box : Boxes \cup {Nobody},
   at : {"idle", "threadLock", "lock", "check", "acquire", "persist", "backend", "read",
         "register", "write", "detach", "snapshot", "finish", "sweep", "next", "remove",
         "recheck"},
   seen : BoxRecords, got : Nat, from : Nat, todo : SUBSET Boxes, try : 0..Tries - 1]

\* Types; a deletion makes at most Tries attempts.
BoxTypeOK ==
  /\ stored \in [Boxes -> BoxRecords]
  /\ cached \in [Boxes -> Nat] /\ machine \in [Boxes -> Nat] /\ boots \in [Boxes -> Nat]
  /\ ownerRec \in BOOLEAN /\ writer \in Calls \cup {Nobody} /\ threadLock \in Calls \cup {Nobody}
  /\ call \in [Calls -> CallRecords]
  /\ boxCalls \in 0..MaxBoxCalls /\ cut \subseteq Boxes
  /\ leaked \subseteq Boxes /\ snaps \in Nat

\* No call is about b.
Settled(b) ==
  \A c \in Calls : call[c].box # b /\ b \notin call[c].todo /\ call[c].kind # "delete"

\* A machine without a record is in the hands of a call that will record or stop
\* it, unless the backend would not stop it: none else outlives its record or its
\* owner, whatever a deletion raced with.
NoOrphan ==
  \A b \in Boxes : machine[b] # 0 /\ ~stored[b].is /\ b \notin leaked =>
    \E c \in Calls : call[c].box = b /\ call[c].at # "idle"

\* A sandbox that was stopped is off once nothing is under way, unless a call had
\* acquired a machine for it meanwhile that the backend would not stop.
StoppedIsOff ==
  \A b \in Boxes : Settled(b) /\ stored[b].is /\ ~stored[b].running /\ b \notin leaked =>
    machine[b] = 0

\* A registered handle is for the machine that is up and for a record that says
\* running, unless the machine had gone when the handle was registered: write_lock
\* is taken after the machine is acquired, and nobody looks at the machine again.
HandleIsLive ==
  \A b \in Boxes : Settled(b) /\ cached[b] # 0 /\ b \notin cut =>
    /\ stored[b].is /\ stored[b].running
    /\ ~stored[b].ext => cached[b] = machine[b]

\* A deleted thread leaves no record and no handle.
DeletedLeavesNothing ==
  ~ownerRec => \A b \in Boxes : ~stored[b].is /\ cached[b] = 0

\* Of two running sandboxes with the same name one was stopped and resumed:
\* concurrent calls that create a name share one sandbox.
NamedOnce ==
  \A b, d \in Boxes :
    /\ stored[b].named /\ stored[b].running /\ stored[d].named /\ stored[d].running
    /\ boots[b] = 1 /\ boots[d] = 1 /\ {b, d} \cap (cut \cup leaked) = {}
    => b = d

\* When nothing is under way, records, handles and machines say the same, and a
\* deletion has left none of the three.
RecordsTrue == NoOrphan /\ DeletedLeavesNothing /\ StoppedIsOff /\ HandleIsLive /\ NamedOnce

\* Two writers alone put an older snapshot in the place of a newer one, and they
\* write nothing but what they had in hand before they took write_lock: a resume
\* writes back the record it had read, a start from a snapshot the one it was
\* asked for.  No other writer loses what another one recorded.
SnapshotKept ==
  [][\A b \in Boxes : stored[b].is /\ stored'[b].is /\ stored'[b].snap < stored[b].snap =>
       \E c \in Calls :
         /\ call[c].box = b /\ call'[c].kind = "none"
         /\ \/ call[c].kind = "resume" /\ stored'[b].snap = call[c].seen.snap
            \/ call[c].kind = "restart" /\ stored'[b].snap = call[c].from]_boxVars

\* However many calls are under way, in the end all have returned (the model has
\* MaxBoxCalls of them): write_lock and the thread lock always come free.
CallsEnd == []<>(\A c \in Calls : call[c].kind = "none")
================================================================================
