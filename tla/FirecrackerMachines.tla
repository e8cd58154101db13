-------------------------- MODULE FirecrackerMachines --------------------------
(***************************************************************************)
(* The virtual machines of one Firecracker state root in                   *)
(* crates/exoharness/src/sandbox_provider/firecracker.rs: acquisition with *)
(* its reaping of dead and idle machines, the host limit, slots, manifests *)
(* and leases on disk, commands, stop, egress listeners, and a controller  *)
(* that dies while its machines go on.  Calls interleave at every await.   *)
(* A call that is dropped gives up its lock and its reservation at once,   *)
(* but the blocking closure it was waiting for runs to its end.            *)
(***************************************************************************)
EXTENDS Naturals, FiniteSets

CONSTANTS Vms,        \* machine ids: one per sandbox and specification, or one-shot
          SandboxOf,  \* the sandbox a machine is for
          OneShots,   \* machines without an idle time, for one command each
          VmSlots,      \* resource slots: the addresses and uids of machines
          MaxVms,     \* max_machines
          Workers,    \* calls under way at once, taken in order
          MaxVmCalls, \* bound: calls begun
          MaxVmFaults,\* bound: failing steps, deaths, crashes and dropped calls
          NoVm

ASSUME VmAssumption ==
  /\ IsFiniteSet(Vms) /\ OneShots \subseteq Vms /\ NoVm \notin Vms
  /\ DOMAIN SandboxOf = Vms /\ \A v \in Vms : SandboxOf[v] # NoVm
  /\ Workers \subseteq Nat /\ VmSlots \subseteq Nat \ {0}
  /\ MaxVms \in Nat \ {0} /\ MaxVmCalls \in Nat /\ MaxVmFaults \in Nat

VARIABLES up,       \* machines whose Firecracker process runs
          manifest, \* per machine: the slot in its manifest, or 0
          claimed,  \* per slot: the machine named in its claim, or NoVm
          lease,    \* per machine: its lease file is "none", "fresh" or "old"
          stamp,    \* machines whose manifest is younger than their idle time
          warm,     \* warm_machines: per sandbox a machine, or NoVm
          starting, \* starting_machines: reservations
          tracked,  \* egress_transports
          handles,  \* machines a caller has a handle of
          job,      \* per worker: its call
          adrift,   \* history: machines a closure of a dropped call worked on
          overrun,  \* history: a start was admitted on a scan that was out of date
          vmCalls, vmFaults

vmVars == <<up, manifest, claimed, lease, stamp, warm, starting, tracked, handles, job,
            adrift, overrun, vmCalls, vmFaults>>

vmDisk == <<manifest, claimed, lease, stamp>>
memory == <<warm, starting, tracked, handles>>
vmHistory == <<adrift, overrun>>
vmBounds == <<vmCalls, vmFaults>>

Sandboxes == {SandboxOf[v] : v \in Vms}

\* machine_lifecycle_key: a one-shot machine has a key of its own, which is not
\* that of its sandbox.
KeyOf(v) == IF v \in OneShots THEN v ELSE SandboxOf[v]

\* vm: the machine asked for.  has: the lifecycle lock held.  res: vm is reserved.
\* todo: machines a scan has found.  old, slot, keep, then: the machine that
\* cleanup_machine works on, its slot, whether its files stay, and what follows.
NoJob == [kind |-> "none", vm |-> NoVm, at |-> "idle", has |-> NoVm, res |-> FALSE, todo |-> {},
          old |-> NoVm, slot |-> 0, keep |-> FALSE, then |-> "none", loose |-> FALSE]

VmInit ==
  /\ up = {} /\ manifest = [v \in Vms |-> 0] /\ claimed = [s \in VmSlots |-> NoVm]
  /\ lease = [v \in Vms |-> "none"] /\ stamp = {}
  /\ warm = [s \in Sandboxes |-> NoVm] /\ starting = {} /\ tracked = {} /\ handles = {}
  /\ job = [w \in Workers |-> NoJob]
  /\ adrift = {} /\ overrun = FALSE /\ vmCalls = 0 /\ vmFaults = 0

-----------------------------------------------------------------------------
(* Steps of a call.                                                          *)

Stage(w, stage) == job[w].at = stage
Free(key) == \A w \in Workers : job[w].has # key
Goes(w, stage) == job' = [job EXCEPT ![w].at = stage]
\* The call returns; its guard and its reservation are dropped.
Returns(w) == job' = [job EXCEPT ![w] = NoJob]
Unreserved(w) == IF job[w].res THEN starting \ {job[w].vm} ELSE starting
Fault == vmFaults < MaxVmFaults /\ vmFaults' = vmFaults + 1

\* The call returns an error.
Fails(w) == Returns(w) /\ starting' = Unreserved(w)

\* cleanup_machine of v begins, with the lock has; the record is read first.
CleansUp(w, v, has, keep, then) ==
  job' = [job EXCEPT ![w].at = "kill", ![w].has = has, ![w].old = v,
                     ![w].slot = manifest[v], ![w].keep = keep, ![w].then = then]

Forget(v) == warm' = [s \in Sandboxes |-> IF warm[s] = v THEN NoVm ELSE warm[s]]

\* expired_machine_ids, machine_lease_expired.
Expired(v) ==
  /\ manifest[v] # 0 /\ v \notin OneShots
  /\ IF lease[v] = "none" THEN v \notin stamp ELSE lease[v] = "old"

Begins(w, kind, v, stage) ==
  /\ vmCalls < MaxVmCalls /\ Stage(w, "idle")
  /\ \A x \in Workers : x < w => job[x].at # "idle"
  /\ job' = [job EXCEPT ![w].kind = kind, ![w].vm = v, ![w].at = stage]
  /\ vmCalls' = vmCalls + 1
  /\ UNCHANGED <<up, vmDisk, memory, vmHistory, vmFaults>>

\* acquire_raw; the id of a one-shot machine is new.
AcquireVm(w, v) ==
  /\ v \in OneShots => /\ manifest[v] = 0 /\ v \notin handles \cup adrift
                       /\ \A x \in Workers : v \notin {job[x].vm, job[x].old}
  /\ Begins(w, "acquire", v, "scan")
\* reap_expired, called by the bridge.
ReapVms(w) == Begins(w, "reap", NoVm, "scan")
ExecVm(w, v) == v \in handles /\ Begins(w, "exec", v, "use")
StopVm(w, v) == v \in handles /\ Begins(w, "stop", v, "use")
TrackVm(w, v) == v \in handles \ OneShots /\ Begins(w, "track", v, "use")
\* shutdown_request, which finds the machine under the lock of the sandbox.
ShutVm(w, v) == v \notin OneShots /\ Begins(w, "shutdown", v, "use")

-----------------------------------------------------------------------------
(* Reaping.                                                                  *)

\* reap_stale_machines: manifests whose process does not run.
ScanStale(w) ==
  /\ Stage(w, "scan")
  /\ job' = [job EXCEPT ![w].at = "stale", ![w].todo = {v \in Vms : manifest[v] # 0 /\ v \notin up}]
  /\ UNCHANGED <<up, vmDisk, memory, vmHistory, vmBounds>>

\* Mutant: the reaper trusts its lock; a one-shot start holds the lock of its sandbox.
MutIsStale(v) == v \notin up /\ manifest[v] # 0

\* cleanup_stale_machine leaves a machine alone that starts, runs or is gone.
IsStale(v) == v \notin starting /\ v \notin up /\ manifest[v] # 0

ReapStale(w) ==
  /\ Stage(w, "stale") /\ UNCHANGED <<up, vmDisk, starting, tracked, handles, vmHistory, vmBounds>>
  /\ \/ job[w].todo = {} /\ Goes(w, "scan expired") /\ UNCHANGED warm
     \/ \E v \in job[w].todo :
          /\ Free(KeyOf(v))
          /\ \/ IsStale(v) /\ Forget(v) /\ CleansUp(w, v, KeyOf(v), FALSE, "stale")
             \/ ~IsStale(v) /\ job' = [job EXCEPT ![w].todo = @ \ {v}] /\ UNCHANGED warm

\* reap_expired_machines: the entry of a warm machine is touched with its lease.
ScanExpired(w) ==
  /\ Stage(w, "scan expired")
  /\ job' = [job EXCEPT ![w].at = "expired", ![w].todo = {v \in Vms : Expired(v)}]
  /\ UNCHANGED <<up, vmDisk, memory, vmHistory, vmBounds>>

ReapExpired(w) ==
  /\ Stage(w, "expired") /\ UNCHANGED <<up, vmDisk, starting, tracked, handles, vmHistory, vmBounds>>
  /\ \/ /\ job[w].todo = {} /\ UNCHANGED warm
        /\ IF job[w].kind = "reap" THEN Returns(w) ELSE Goes(w, "lock")
     \/ \E v \in job[w].todo :
          /\ Free(KeyOf(v))
          /\ \/ Expired(v) /\ Forget(v) /\ CleansUp(w, v, KeyOf(v), FALSE, "expired")
             \/ ~Expired(v) /\ job' = [job EXCEPT ![w].todo = @ \ {v}] /\ UNCHANGED warm

-----------------------------------------------------------------------------
(* Acquisition, under the lock of the sandbox.                               *)

LockSandbox(w) ==
  /\ Stage(w, "lock") /\ Free(SandboxOf[job[w].vm])
  /\ job' = [job EXCEPT ![w].at = "previous", ![w].has = SandboxOf[job[w].vm]]
  /\ UNCHANGED <<up, vmDisk, memory, vmHistory, vmBounds>>

\* The machine of another specification that the caller's provider state names.
CleanPrevious(w) ==
  /\ Stage(w, "previous") /\ UNCHANGED <<up, vmDisk, memory, vmHistory, vmBounds>>
  /\ \/ Goes(w, "replace")
     \/ \E v \in Vms \ (OneShots \cup {job[w].vm}) :
          /\ SandboxOf[v] = SandboxOf[job[w].vm]
          /\ CleansUp(w, v, job[w].has, FALSE, "replace")

\* The warm machine of another specification.
CleanReplaced(w) ==
  LET old == warm[SandboxOf[job[w].vm]]
      stays == old \in {NoVm, job[w].vm} \/ job[w].vm \in OneShots IN
  /\ Stage(w, "replace") /\ UNCHANGED <<up, vmDisk, starting, tracked, handles, vmHistory, vmBounds>>
  /\ \/ stays /\ Goes(w, "gate") /\ UNCHANGED warm
     \/ ~stays /\ Forget(old) /\ CleansUp(w, old, job[w].has, FALSE, "gate")

\* reserve_machine_capacity scans under the gate, then counts.
ScanCapacity(w) ==
  /\ Stage(w, "gate") /\ \A x \in Workers : ~Stage(x, "admit")
  /\ job' = [job EXCEPT ![w].at = "admit", ![w].todo = {v \in up : manifest[v] # 0}]
  /\ UNCHANGED <<up, vmDisk, memory, vmHistory, vmBounds>>

Admit(w) ==
  LET v == job[w].vm
      occupied == job[w].todo \cup starting IN
  /\ Stage(w, "admit") /\ UNCHANGED <<up, vmDisk, warm, tracked, handles, adrift, vmBounds>>
  /\ \/ /\ v \notin starting /\ (v \in occupied \/ Cardinality(occupied) < MaxVms)
        /\ starting' = starting \cup {v}
        /\ job' = [job EXCEPT ![w].at = "ensure", ![w].res = TRUE, ![w].todo = {}]
        /\ overrun' = (overrun \/ ~({x \in up : manifest[x] # 0} \subseteq occupied))
     \/ /\ v \in starting \/ (v \notin occupied /\ Cardinality(occupied) >= MaxVms)
        /\ Returns(w) /\ UNCHANGED <<starting, overrun>>

\* ensure_machine: a machine that runs and answers is used as it is; one that does
\* not is stopped and launched again from its record.
Ensure(w) ==
  LET v == job[w].vm IN
  /\ Stage(w, "ensure") /\ UNCHANGED <<up, vmDisk, memory, vmHistory, vmCalls>>
  /\ \/ manifest[v] = 0 /\ Goes(w, "claim") /\ UNCHANGED vmFaults
     \/ manifest[v] # 0 /\ v \in up /\ Goes(w, "touch") /\ UNCHANGED vmFaults
     \/ /\ manifest[v] # 0
        /\ \/ v \notin up /\ UNCHANGED vmFaults
           \/ v \in up /\ Fault
        /\ CleansUp(w, v, job[w].has, TRUE, "launch")

\* new_machine_record: the claim, then the manifest, which must not exist.
ClaimSlot(w) ==
  /\ Stage(w, "claim")
  /\ UNCHANGED <<up, manifest, lease, stamp, warm, tracked, handles, vmHistory, vmBounds>>
  /\ \/ \E s \in VmSlots :
          /\ claimed[s] = NoVm /\ \A t \in VmSlots : t < s => claimed[t] # NoVm
          /\ claimed' = [claimed EXCEPT ![s] = job[w].vm]
          /\ job' = [job EXCEPT ![w].at = "write", ![w].slot = s]
          /\ UNCHANGED starting
     \/ (\A s \in VmSlots : claimed[s] # NoVm) /\ Fails(w) /\ UNCHANGED claimed

\* release_resource_slot leaves a slot alone that is another machine's.
Released(slot, v) == [s \in VmSlots |-> IF s = slot /\ claimed[s] = v THEN NoVm ELSE claimed[s]]

WriteManifest(w) ==
  LET v == job[w].vm IN
  /\ Stage(w, "write") /\ UNCHANGED <<up, lease, warm, tracked, handles, vmHistory, vmCalls>>
  /\ \/ /\ manifest[v] = 0 /\ manifest' = [manifest EXCEPT ![v] = job[w].slot]
        /\ stamp' = stamp \cup {v}
        /\ IF job[w].loose THEN Returns(w)
                           ELSE job' = [job EXCEPT ![w].at = "launch", ![w].slot = 0]
        /\ UNCHANGED <<claimed, starting, vmFaults>>
     \/ /\ \/ manifest[v] # 0 /\ UNCHANGED vmFaults
           \/ manifest[v] = 0 /\ Fault
        /\ claimed' = Released(job[w].slot, v)
        /\ Fails(w) /\ UNCHANGED <<manifest, stamp>>

\* prepare_and_launch.  After a failure the record stays if it was there before.
Launch(w) ==
  LET v == job[w].vm IN
  /\ Stage(w, "launch") /\ UNCHANGED <<vmDisk, memory, vmHistory, vmCalls>>
  /\ \/ /\ up' = up \cup {v} /\ UNCHANGED vmFaults
        /\ IF job[w].loose THEN Returns(w) ELSE Goes(w, "ready")
     \/ /\ Fault /\ up' \in {up, up \cup {v}}
        /\ IF job[w].loose THEN Returns(w)
                           ELSE CleansUp(w, v, job[w].has, job[w].keep, "failed")

\* The guest's signal that it is ready, or a death or a timeout first.
Ready(w) ==
  LET v == job[w].vm IN
  /\ Stage(w, "ready") /\ UNCHANGED <<up, vmDisk, memory, vmHistory, vmCalls>>
  /\ \/ v \in up /\ Goes(w, "touch") /\ UNCHANGED vmFaults
     \/ /\ \/ v \notin up /\ UNCHANGED vmFaults
           \/ v \in up /\ Fault
        /\ CleansUp(w, v, job[w].has, job[w].keep, "failed")

\* The lease, the warm entry and the handle; the reservation is dropped.
HandOut(w) ==
  LET v == job[w].vm IN
  /\ Stage(w, "touch") /\ UNCHANGED <<up, manifest, claimed, stamp, tracked, vmHistory, vmCalls>>
  /\ Fails(w)
  /\ \/ /\ handles' = handles \cup {v} /\ UNCHANGED vmFaults
        /\ IF v \in OneShots
           THEN UNCHANGED <<lease, warm>>
           ELSE /\ lease' = [lease EXCEPT ![v] = "fresh"]
                /\ warm' = [warm EXCEPT ![SandboxOf[v]] = v]
     \/ v \notin OneShots /\ Fault /\ UNCHANGED <<lease, warm, handles>>

-----------------------------------------------------------------------------
(* cleanup_machine.                                                          *)

\* What follows a cleanup: a reaper gives up the lock and goes on with its list.
AfterCleanup(w) ==
  LET then == IF job[w].loose THEN "done" ELSE job[w].then IN
  CASE then = "done" -> Returns(w) /\ UNCHANGED starting
    [] then = "failed" -> Fails(w)
    [] then \in {"stale", "expired"} ->
         /\ job' = [job EXCEPT ![w] = [NoJob EXCEPT !.kind = job[w].kind, !.vm = job[w].vm,
                                       !.at = then, !.todo = job[w].todo \ {job[w].old}]]
         /\ UNCHANGED starting
    [] OTHER ->
         /\ job' = [job EXCEPT ![w].at = then, ![w].old = NoVm, ![w].slot = 0,
                               ![w].then = "none"]
         /\ UNCHANGED starting

\* Mutant: the cleanup leaves the listener to its owner.
MutKillVm(w) ==
  /\ Stage(w, "kill") /\ UNCHANGED <<vmDisk, warm, tracked, handles, vmHistory, vmBounds>>
  /\ up' = up \ {job[w].old}
  /\ IF job[w].keep \/ job[w].loose
     THEN AfterCleanup(w)
     ELSE Goes(w, "files") /\ UNCHANGED starting

\* The listener is closed before the process is killed.
KillVm(w) ==
  /\ Stage(w, "kill") /\ UNCHANGED <<vmDisk, warm, handles, vmHistory, vmCalls>>
  /\ tracked' = tracked \ {job[w].old}
  /\ \/ /\ up' = up \ {job[w].old} /\ UNCHANGED vmFaults
        /\ IF job[w].keep \/ job[w].loose
           THEN AfterCleanup(w)
           ELSE Goes(w, "files") /\ UNCHANGED starting
     \/ job[w].old \in up /\ Fault /\ Fails(w) /\ UNCHANGED up

RemoveManifest(w) ==
  /\ Stage(w, "files") /\ Goes(w, "release")
  /\ manifest' = [manifest EXCEPT ![job[w].old] = 0] /\ stamp' = stamp \ {job[w].old}
  /\ UNCHANGED <<up, claimed, lease, memory, vmHistory, vmBounds>>

\* The lease, then the slot if the record read at the start had one.
ReleaseSlot(w) ==
  /\ Stage(w, "release")
  /\ lease' = [lease EXCEPT ![job[w].old] = "none"]
  /\ UNCHANGED <<up, manifest, stamp, warm, tracked, handles, vmHistory, vmBounds>>
  /\ LET s == job[w].slot IN
     /\ claimed' = Released(s, job[w].old)
     /\ IF s = 0 \/ claimed[s] \in {NoVm, job[w].old} THEN AfterCleanup(w) ELSE Fails(w)

-----------------------------------------------------------------------------
(* Calls on a handle, under the lock of the machine.                         *)

UseVm(w) ==
  LET v == job[w].vm
      key == KeyOf(v) IN
  /\ Stage(w, "use") /\ Free(key)
  /\ UNCHANGED <<up, manifest, claimed, stamp, starting, handles, vmHistory, vmCalls>>
  /\ \/ \* exec of a one-shot machine has run: it is cleaned up
        /\ job[w].kind = "exec" /\ v \in OneShots /\ CleansUp(w, v, key, FALSE, "done")
        /\ UNCHANGED <<lease, warm, tracked, vmFaults>>
     \/ \* touch_machine, if the handle's machine is still the warm one
        /\ job[w].kind = "exec" /\ v \notin OneShots /\ Returns(w)
        /\ lease' = IF warm[SandboxOf[v]] = v THEN [lease EXCEPT ![v] = "fresh"] ELSE lease
        /\ UNCHANGED <<warm, tracked, vmFaults>>
     \/ \* track_egress
        /\ job[w].kind = "track" /\ Returns(w)
        /\ tracked' = IF v \in up /\ ~Expired(v) THEN tracked \cup {v} ELSE tracked
        /\ UNCHANGED <<lease, warm, vmFaults>>
     \/ \* shutdown_machine_locked; Stop gives up when the guest cannot sync
        /\ job[w].kind \in {"stop", "shutdown"} /\ UNCHANGED <<lease, tracked>>
        /\ LET m == IF job[w].kind = "shutdown" /\ warm[SandboxOf[v]] # NoVm
                    THEN warm[SandboxOf[v]] ELSE v IN
           \/ Forget(m) /\ CleansUp(w, m, key, FALSE, "done") /\ UNCHANGED vmFaults
           \/ m \in up /\ Fault /\ Returns(w) /\ UNCHANGED warm

VmStep(w) ==
  \/ ScanStale(w) \/ ReapStale(w) \/ ScanExpired(w) \/ ReapExpired(w)
  \/ LockSandbox(w) \/ CleanPrevious(w) \/ CleanReplaced(w) \/ ScanCapacity(w) \/ Admit(w)
  \/ Ensure(w) \/ ClaimSlot(w) \/ WriteManifest(w) \/ Launch(w) \/ Ready(w) \/ HandOut(w)
  \/ KillVm(w) \/ RemoveManifest(w) \/ ReleaseSlot(w) \/ UseVm(w)

-----------------------------------------------------------------------------
(* The environment.                                                          *)

VmDies(v) ==
  /\ v \in up /\ Fault /\ up' = up \ {v}
  /\ UNCHANGED <<vmDisk, memory, job, vmHistory, vmCalls>>

\* The idle time of a machine passes.
IdleTimePasses(v) ==
  /\ v \notin OneShots /\ (lease[v] = "fresh" \/ v \in stamp)
  /\ lease' = [lease EXCEPT ![v] = IF @ = "none" THEN @ ELSE "old"]
  /\ stamp' = stamp \ {v}
  /\ UNCHANGED <<up, manifest, claimed, memory, job, vmHistory, vmBounds>>

\* The controller dies; the next one takes over what is on disk and what runs.
ControllerDies ==
  /\ Fault
  /\ warm' = [s \in Sandboxes |-> NoVm] /\ starting' = {} /\ tracked' = {} /\ handles' = {}
  /\ job' = [w \in Workers |-> NoJob]
  /\ UNCHANGED <<up, vmDisk, vmHistory, vmCalls>>

\* The future of a call is dropped at an await.
DropVmCall(w) ==
  /\ job[w].at # "idle" /\ ~job[w].loose /\ Fault
  /\ starting' = Unreserved(w)
  /\ IF job[w].at \in {"claim", "write", "launch", "kill", "files", "release"}
     THEN /\ job' = [job EXCEPT ![w].loose = TRUE, ![w].has = NoVm, ![w].res = FALSE]
          /\ adrift' = adrift \cup ({job[w].vm, job[w].old} \ {NoVm})
     ELSE Returns(w) /\ UNCHANGED adrift
  /\ \/ UNCHANGED lease
     \/ /\ Stage(w, "touch") /\ job[w].vm \notin OneShots
        /\ lease' = [lease EXCEPT ![job[w].vm] = "fresh"]
  /\ UNCHANGED <<up, manifest, claimed, stamp, warm, tracked, handles, overrun, vmCalls>>

VmNext ==
  \/ \E w \in Workers :
       \/ VmStep(w) \/ DropVmCall(w) \/ ReapVms(w)
       \/ \E v \in Vms : AcquireVm(w, v) \/ ExecVm(w, v) \/ StopVm(w, v) \/ TrackVm(w, v)
                         \/ ShutVm(w, v)
  \/ \E v \in Vms : VmDies(v) \/ IdleTimePasses(v)
  \/ ControllerDies

VmSpec == VmInit /\ [][VmNext]_vmVars

-----------------------------------------------------------------------------
VmTypeOK ==
  /\ up \subseteq Vms /\ starting \subseteq Vms /\ tracked \subseteq Vms /\ handles \subseteq Vms
  /\ stamp \subseteq Vms /\ adrift \subseteq Vms /\ overrun \in BOOLEAN
  /\ manifest \in [Vms -> VmSlots \cup {0}] /\ claimed \in [VmSlots -> Vms \cup {NoVm}]
  /\ lease \in [Vms -> {"none", "fresh", "old"}] /\ warm \in [Sandboxes -> Vms \cup {NoVm}]
  /\ \A w \in Workers : job[w].vm \in Vms \cup {NoVm} /\ job[w].todo \subseteq Vms

\* Every machine that runs has its manifest, without which no reaper would find it.
VmOnRecord == \A v \in up : manifest[v] # 0 \/ v \in adrift

\* The slot of a manifest is claimed for its machine, and a listener is open only
\* while its machine has its address.
AddressesExclusive ==
  /\ \A v \in Vms : manifest[v] # 0 /\ v \notin adrift => claimed[manifest[v]] = v
  /\ \A v \in tracked \ adrift : manifest[v] # 0

\* Whatever fails, crashes, dies or is stopped, a machine that runs is on record,
\* its record has its slot, so that no two machines have one address, and no
\* egress listener serves an address that may be another machine's by now.  Only
\* what a dropped call was working on is excepted (ensure_machine,
\* new_machine_record, cleanup_machine).
MachinesOnRecord == VmOnRecord /\ AddressesExclusive

\* Live and admitted machines are at most max_machines, as long as no start was
\* admitted on a scan that was out of date.
CapacityHeld == overrun \/ Cardinality((up \cup starting) \ adrift) <= MaxVms

\* A reaper that is about to kill a machine has found it idle or dead under its
\* lock.
ReapsOnlyIdle ==
  \A w \in Workers : Stage(w, "kill") /\ ~job[w].loose /\ job[w].old \notin adrift =>
    /\ job[w].then = "expired" => Expired(job[w].old)
    /\ job[w].then = "stale" => job[w].old \notin up \cup starting

\* The call waits for a lifecycle lock or for the gate.
Blocked(w) ==
  \/ Stage(w, "lock") /\ ~Free(SandboxOf[job[w].vm])
  \/ Stage(w, "use") /\ ~Free(KeyOf(job[w].vm))
  \/ /\ job[w].at \in {"stale", "expired"} /\ job[w].todo # {}
     /\ \A v \in job[w].todo : ~Free(KeyOf(v))
  \/ Stage(w, "gate") /\ \E x \in Workers : Stage(x, "admit")

\* Calls never all wait for each other's locks and for the gate.
NoVmDeadlock ==
  (\E w \in Workers : job[w].at # "idle") => \E w \in Workers : job[w].at # "idle" /\ ~Blocked(w)

\* The host limit holds for machines that run or start, and reapers make room only
\* by what is idle for its time or dead: never by a machine that is starting or
\* was used since the scan; and calls never end up all waiting for each other
\* (reserve_machine_capacity, reap_stale_machines, reap_expired_machines).
HostLimitsKept == CapacityHeld /\ ReapsOnlyIdle /\ NoVmDeadlock

=============================================================================
