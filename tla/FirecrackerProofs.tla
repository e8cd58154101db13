--------------------------- MODULE FirecrackerProofs ---------------------------
(* MachinesOnRecord and the host limits of FirecrackerMachines, for any         *)
(* number of machines, slots, calls and faults; and TemplatesKept of            *)
(* SnapshotTemplates, for any number of clones, keys, calls and faults.         *)
EXTENDS FirecrackerMachines, SnapshotTemplates, FiniteSetTheorems, TLAPS

Early == {"previous", "replace", "gate", "admit"}
Starts == {"ensure", "claim", "write", "launch", "ready", "touch"}
Cleans == {"kill", "files", "release"}
OldThens == {"stale", "expired", "done"}
NewThens == {"replace", "gate"}
OwnThens == {"launch", "failed"}

Waits == {"scan", "stale", "scan expired", "expired", "lock"} \cup Early

\* The call is before its admission: manifest, process and slot are not its own.
Waiting(w) ==
  \/ job[w].at \in Waits
  \/ job[w].at \in Cleans /\ job[w].then \in {"stale", "expired", "replace", "gate"}

\* The call has a start of its machine under way, or cleans it up for one.
Owning(w) == job[w].at \in Starts \/ (job[w].at \in Cleans /\ job[w].then \in OwnThens)

\* The call works on the process and the files of Target(w).
Holds(w) == ~job[w].loose /\ job[w].at \in Starts \cup Cleans
Target(w) == IF job[w].at \in Cleans THEN job[w].old ELSE job[w].vm

LockKeys == Vms \cup Sandboxes
Kinds == {"none", "acquire", "reap", "exec", "stop", "track", "shutdown"}
Stages == {"idle", "scan", "stale", "scan expired", "expired", "lock", "use"}
            \cup Early \cup Starts \cup Cleans
Thens == {"none"} \cup OldThens \cup NewThens \cup OwnThens
JobSet ==
  [kind : Kinds, vm : Vms \cup {NoVm}, at : Stages, has : LockKeys \cup {NoVm}, res : BOOLEAN,
   todo : SUBSET Vms, old : Vms \cup {NoVm}, slot : VmSlots \cup {0}, keep : BOOLEAN,
   then : Thens, loose : BOOLEAN]
JobTyped == job \in [Workers -> JobSet]

JobOK(w) ==
  /\ job[w].kind = "acquire" => job[w].vm \in Vms
  /\ job[w].at = "idle" => job[w].kind = "none"
  /\ job[w].at \in {"lock"} \cup Early \cup Starts => job[w].kind = "acquire"
  /\ job[w].at \in {"scan", "stale", "scan expired", "expired"} => job[w].kind \in {"acquire", "reap"}
  /\ job[w].at = "use" =>
       /\ job[w].kind \in {"exec", "stop", "track", "shutdown"} /\ job[w].vm \in Vms
       /\ job[w].kind = "shutdown" => job[w].vm \notin OneShots
  /\ job[w].at \in Cleans =>
       /\ job[w].old \in Vms /\ job[w].then \in OldThens \cup NewThens \cup OwnThens
       /\ job[w].then \in {"stale", "expired"} => job[w].kind \in {"acquire", "reap"}
       /\ job[w].then = "done" => job[w].kind \in {"exec", "stop", "shutdown"}
       /\ job[w].then \in NewThens \cup OwnThens => job[w].kind = "acquire"
       /\ job[w].then \in OwnThens => job[w].old = job[w].vm
       /\ job[w].then = "launch" => job[w].at = "kill" /\ job[w].keep

\* A call on its way has the lock it needs.
LockOK(w) ==
  /\ job[w].has # NoVm => job[w].at \in Early \cup Starts \cup Cleans
  /\ ~job[w].loose =>
       /\ job[w].at \in Early \cup Starts => job[w].has = SandboxOf[job[w].vm]
       /\ job[w].at \in Cleans =>
            /\ job[w].then \in OldThens => job[w].has = KeyOf(job[w].old)
            /\ job[w].then \in NewThens \cup OwnThens => job[w].has = SandboxOf[job[w].vm]
            /\ job[w].then \in NewThens => /\ SandboxOf[job[w].old] = SandboxOf[job[w].vm]
                                           /\ job[w].old \notin OneShots

\* A lock has one holder, and a machine is reserved by one call.
OneHolder ==
  \A w, x \in Workers : w # x =>
    /\ job[w].has = NoVm \/ job[w].has # job[x].has
    /\ job[w].res /\ job[x].res => job[w].vm # job[x].vm
Reserved(w) ==
  /\ job[w].res => job[w].vm \in starting /\ job[w].kind = "acquire" /\ ~job[w].loose /\ Owning(w)
  /\ Owning(w) /\ ~job[w].loose => job[w].res

\* Whoever starts a machine that is for one command is alone with its new id.
ShotOK(w) ==
  ~job[w].loose /\ job[w].kind = "acquire" /\ job[w].vm \in OneShots =>
    /\ job[w].vm \notin handles \cup adrift
    /\ \A x \in Workers : x # w => job[x].vm # job[w].vm /\ job[x].old # job[w].vm
    /\ Waiting(w) => manifest[job[w].vm] = 0
    /\ Waiting(w) /\ job[w].at \in Cleans => job[w].old # job[w].vm

\* What a call may rely on when it works on a machine.
WorkOK(w) ==
  Holds(w) /\ Target(w) \notin adrift =>
    /\ job[w].at \in {"files", "release"} => Target(w) \notin up \cup tracked
    /\ job[w].at \in {"claim", "write", "release"} => manifest[Target(w)] = 0
    /\ job[w].at = "write" => job[w].slot \in VmSlots /\ claimed[job[w].slot] = Target(w)
    /\ job[w].at = "launch" \/ (job[w].at = "kill" /\ job[w].then = "launch") =>
         manifest[Target(w)] # 0

\* A closure that goes on is about machines that are adrift.
LooseOK(w) ==
  job[w].loose => /\ {job[w].vm, job[w].old} \ {NoVm} \subseteq adrift
                  /\ job[w].at \in {"claim", "write", "launch"} \cup Cleans

WarmOK ==
  \A s \in Sandboxes : warm[s] # NoVm => warm[s] \in Vms \ OneShots /\ SandboxOf[warm[s]] = s

VmInv ==
  /\ \A w \in Workers : JobOK(w) /\ LockOK(w) /\ Reserved(w) /\ ShotOK(w) /\ WorkOK(w) /\ LooseOK(w)
  /\ JobTyped /\ OneHolder /\ WarmOK /\ VmTypeOK /\ MachinesOnRecord

--------------------------------------------------------------------------------
(* What a step of w does to its entry; the others keep theirs.                  *)

Others(w) == \A x \in Workers : x # w => job'[x] = job[x]

LEMMA EntryShape ==
  ASSUME JobTyped, NEW w \in Workers, NEW j \in JobSet, job' = [job EXCEPT ![w] = j]
  PROVE  JobTyped' /\ Others(w) /\ job'[w] = j
BY DEF JobTyped, Others

LEMMA GoesShape ==
  ASSUME JobTyped, NEW w \in Workers, NEW stage \in Stages, Goes(w, stage)
  PROVE  /\ JobTyped' /\ Others(w) /\ job'[w].at = stage
         /\ job'[w].kind = job[w].kind /\ job'[w].vm = job[w].vm /\ job'[w].has = job[w].has
         /\ job'[w].res = job[w].res /\ job'[w].todo = job[w].todo /\ job'[w].old = job[w].old
         /\ job'[w].slot = job[w].slot /\ job'[w].keep = job[w].keep
         /\ job'[w].then = job[w].then /\ job'[w].loose = job[w].loose
BY DEF JobTyped, JobSet, Goes, Others

LEMMA CleansShape ==
  ASSUME JobTyped, manifest \in [Vms -> VmSlots \cup {0}], NEW w \in Workers, NEW v \in Vms,
         NEW has \in LockKeys, NEW keep \in BOOLEAN, NEW then \in Thens,
         CleansUp(w, v, has, keep, then)
  PROVE  /\ JobTyped' /\ Others(w) /\ job'[w].at = "kill"
         /\ job'[w].kind = job[w].kind /\ job'[w].vm = job[w].vm /\ job'[w].has = has
         /\ job'[w].res = job[w].res /\ job'[w].todo = job[w].todo /\ job'[w].old = v
         /\ job'[w].keep = keep /\ job'[w].then = then /\ job'[w].loose = job[w].loose
<1>1. job \in [Workers -> JobSet] /\ job[w] \in JobSet
    BY DEF JobTyped
<1> DEFINE j == [job[w] EXCEPT !.at = "kill", !.has = has, !.old = v, !.slot = manifest[v],
                               !.keep = keep, !.then = then]
<1>2. j \in JobSet
    BY <1>1 DEF JobSet, Stages, Cleans
<1>3. /\ j.at = "kill" /\ j.kind = job[w].kind /\ j.vm = job[w].vm /\ j.has = has
      /\ j.res = job[w].res /\ j.todo = job[w].todo /\ j.old = v
      /\ j.keep = keep /\ j.then = then /\ j.loose = job[w].loose
    BY <1>1 DEF JobSet
<1>4. job' = [job EXCEPT ![w] = j]
    BY <1>1 DEF CleansUp
<1> HIDE DEF j
<1>5. job'[w] = j /\ job' \in [Workers -> JobSet] /\ Others(w)
    BY <1>1, <1>2, <1>4 DEF Others
<1>6. QED
    BY <1>3, <1>5 DEF JobTyped

LEMMA ReturnShape ==
  ASSUME JobTyped, NEW w \in Workers, Returns(w)
  PROVE  JobTyped' /\ Others(w) /\ job'[w] = NoJob /\ NoJob \in JobSet
<1>1. NoJob \in JobSet
    BY DEF JobSet, NoJob, Kinds, Stages, Thens
<1>2. QED
    BY <1>1 DEF JobTyped, Returns, Others

--------------------------------------------------------------------------------
(* Two calls never work on one machine.                                         *)

LEMMA KeyFacts ==
  ASSUME NEW v \in Vms
  PROVE  /\ SandboxOf[v] \in Sandboxes /\ SandboxOf[v] # NoVm /\ v # NoVm
         /\ KeyOf(v) \in LockKeys /\ KeyOf(v) # NoVm
         /\ v \notin OneShots => KeyOf(v) = SandboxOf[v]
BY VmAssumption DEF VmAssumption, KeyOf, LockKeys, Sandboxes

\* With the key of the machine, or with the new id of one that is for one command.
LEMMA HolderKey ==
  ASSUME VmInv, NEW w \in Workers, Holds(w)
  PROVE  /\ Target(w) \in Vms
         /\ \/ job[w].has = KeyOf(Target(w))
            \/ job[w].kind = "acquire" /\ job[w].vm = Target(w) /\ Target(w) \in OneShots
<1>1. JobOK(w) /\ LockOK(w) /\ ~job[w].loose
    BY DEF VmInv, Holds
<1>2. CASE job[w].at \in Starts
  <2>1. job[w].at \notin Cleans
      BY <1>2 DEF Starts, Cleans
  <2>2. job[w].vm \in Vms /\ Target(w) = job[w].vm /\ job[w].has = SandboxOf[job[w].vm]
        /\ job[w].kind = "acquire"
      BY <1>1, <1>2, <2>1 DEF JobOK, LockOK, Target
  <2>3. QED
      BY <2>2, KeyFacts
<1>3. CASE job[w].at \in Cleans
  <2>1. job[w].old \in Vms /\ Target(w) = job[w].old
      BY <1>1, <1>3 DEF JobOK, Target
  <2>2. CASE job[w].then \in OldThens
      BY <1>1, <1>3, <2>1, <2>2 DEF LockOK
  <2>3. CASE job[w].then \in NewThens
      BY <1>1, <1>3, <2>1, <2>3, KeyFacts DEF LockOK
  <2>4. CASE job[w].then \in OwnThens
      BY <1>1, <1>3, <2>1, <2>4, KeyFacts DEF LockOK, JobOK
  <2>5. QED
      BY <1>1, <1>3, <2>2, <2>3, <2>4, <2>1 DEF JobOK
<1>4. QED
    BY <1>2, <1>3 DEF Holds

LEMMA Exclusive ==
  ASSUME VmInv, NEW w \in Workers, NEW x \in Workers, w # x, Holds(w), Holds(x)
  PROVE  Target(w) # Target(x)
<1> SUFFICES ASSUME Target(w) = Target(x) PROVE FALSE
    OBVIOUS
<1>1. Target(w) \in {job[w].vm, job[w].old} /\ Target(x) \in {job[x].vm, job[x].old}
    BY DEF Target
<1>2. ShotOK(w) /\ ShotOK(x) /\ ~job[w].loose /\ ~job[x].loose
    BY DEF VmInv, Holds
<1>3. CASE job[w].kind = "acquire" /\ job[w].vm = Target(w) /\ Target(w) \in OneShots
    BY <1>1, <1>2, <1>3 DEF ShotOK
<1>4. CASE job[x].kind = "acquire" /\ job[x].vm = Target(x) /\ Target(x) \in OneShots
    BY <1>1, <1>2, <1>4 DEF ShotOK
<1>5. CASE job[w].has = KeyOf(Target(w)) /\ job[x].has = KeyOf(Target(x))
  <2>1. job[w].has = job[x].has /\ job[w].has # NoVm
      BY <1>5, HolderKey, KeyFacts
  <2>2. QED
      BY <2>1 DEF VmInv, OneHolder
<1>6. QED
    BY <1>3, <1>4, <1>5, HolderKey

--------------------------------------------------------------------------------
(* A step of one call and what the others rely on.                              *)

Shot(w) == ~job[w].loose /\ job[w].kind = "acquire" /\ job[w].vm \in OneShots
Own(w) == JobOK(w) /\ LockOK(w) /\ Reserved(w) /\ ShotOK(w) /\ WorkOK(w) /\ LooseOK(w)

\* The step changes the process, the manifest and the slot of at most the machine
\* its call works on, and takes no name that is another call's.
Frame(w) ==
  /\ Others(w) /\ adrift \subseteq adrift' /\ adrift' \subseteq adrift \cup {job[w].vm, job[w].old}
  /\ handles' \subseteq handles \cup {job[w].vm}
  /\ \A v \in starting : v \in starting' \/ (job[w].res /\ v = job[w].vm)
  /\ \A v \in Vms \ adrift' : ~(Holds(w) /\ Target(w) = v) =>
       /\ manifest'[v] = manifest[v] /\ (v \in up' => v \in up)
       /\ v \in tracked' => v \in tracked \cup up
       /\ \A s \in VmSlots : claimed[s] = v => claimed'[s] = v
  /\ \A x \in Workers : x # w /\ Shot(x) => job[x].vm \notin {job'[w].vm, job'[w].old}

\* The step leaves the machine it works on in order.
TargetOK(w) ==
  Holds(w) /\ Target(w) \notin adrift' =>
    /\ Target(w) \in up' \cup tracked' => manifest'[Target(w)] # 0
    /\ manifest'[Target(w)] # 0 => claimed'[manifest'[Target(w)]] = Target(w)

\* The lock and the reservation of the call are its own.
KeysOK(w) ==
  \A x \in Workers : x # w =>
    /\ job'[w].has = NoVm \/ job'[w].has # job[x].has
    /\ job'[w].res /\ job[x].res => job'[w].vm # job[x].vm

LEMMA OthersKept ==
  ASSUME VmInv, NEW w \in Workers, Frame(w), NEW x \in Workers, x # w
  PROVE  Own(x)'
<1>0. /\ JobOK(x) /\ LockOK(x) /\ Reserved(x) /\ ShotOK(x) /\ WorkOK(x) /\ LooseOK(x)
      /\ job'[x] = job[x] /\ adrift \subseteq adrift'
    BY DEF VmInv, Frame, Others
<1>1. JobOK(x)' /\ LockOK(x)' /\ LooseOK(x)'
    BY <1>0 DEF JobOK, LockOK, LooseOK
<1>2. Reserved(x)'
  <2>1. job[x].res => job[x].vm \in starting'
      BY <1>0 DEF Reserved, Frame, VmInv, OneHolder
  <2>2. QED
      BY <1>0, <2>1 DEF Reserved, Owning
<1>3. ShotOK(x)'
  <2>1. SUFFICES ASSUME Shot(x)
                 PROVE  /\ job[x].vm \notin handles' \cup adrift'
                        /\ \A y \in Workers : y # x =>
                             job'[y].vm # job[x].vm /\ job'[y].old # job[x].vm
                        /\ Waiting(x) => manifest'[job[x].vm] = 0
                        /\ Waiting(x) /\ job[x].at \in Cleans => job[x].old # job[x].vm
      BY <1>0 DEF ShotOK, Shot, Waiting
  <2>2. /\ job[x].vm \notin handles \cup adrift
        /\ \A y \in Workers : y # x => job[y].vm # job[x].vm /\ job[y].old # job[x].vm
        /\ Waiting(x) => manifest[job[x].vm] = 0
        /\ Waiting(x) /\ job[x].at \in Cleans => job[x].old # job[x].vm
      BY <1>0, <2>1 DEF ShotOK, Shot
  <2>3. job[x].vm \notin handles' \cup adrift'
      BY <2>2 DEF Frame
  <2>4. \A y \in Workers : y # x => job'[y].vm # job[x].vm /\ job'[y].old # job[x].vm
      BY <2>1, <2>2 DEF Frame, Others
  <2>5. manifest'[job[x].vm] = manifest[job[x].vm]
    <3>1. job[x].vm \in Vms
        BY <1>0, <2>1 DEF JobOK, Shot
    <3>2. ~(Holds(w) /\ Target(w) = job[x].vm)
        BY <2>2 DEF Target
    <3>3. QED
        BY <2>3, <3>1, <3>2 DEF Frame
  <2>6. QED
      BY <2>2, <2>3, <2>4, <2>5
<1>4. WorkOK(x)'
  <2>0. Holds(x)' <=> Holds(x)
      BY <1>0 DEF Holds
  <2>1. SUFFICES ASSUME Holds(x), Target(x) \notin adrift' PROVE WorkOK(x)'
      BY <1>0, <2>0 DEF WorkOK, Holds, Target
  <2>2. Target(x) \in Vms /\ Target(x) \notin adrift
      BY <1>0, <2>1, HolderKey
  <2>3. ~(Holds(w) /\ Target(w) = Target(x))
      BY <2>1, Exclusive
  <2>4. /\ manifest'[Target(x)] = manifest[Target(x)] /\ (Target(x) \in up' => Target(x) \in up)
        /\ Target(x) \in tracked' => Target(x) \in tracked \cup up
        /\ \A s \in VmSlots : claimed[s] = Target(x) => claimed'[s] = Target(x)
      BY <2>1, <2>2, <2>3 DEF Frame
  <2>5. /\ job[x].at \in {"files", "release"} => Target(x) \notin up \cup tracked
        /\ job[x].at \in {"claim", "write", "release"} => manifest[Target(x)] = 0
        /\ job[x].at = "write" => job[x].slot \in VmSlots /\ claimed[job[x].slot] = Target(x)
        /\ job[x].at = "launch" \/ (job[x].at = "kill" /\ job[x].then = "launch") =>
             manifest[Target(x)] # 0
      BY <1>0, <2>1, <2>2 DEF WorkOK
  <2>6. Target(x)' = Target(x)
      BY <1>0 DEF Target
  <2>7. QED
      BY <1>0, <2>4, <2>5, <2>6 DEF WorkOK
<1>5. QED
    BY <1>1, <1>2, <1>3, <1>4 DEF Own

LEMMA Assemble ==
  ASSUME VmInv, NEW w \in Workers, Frame(w), JobTyped', Own(w)', TargetOK(w), KeysOK(w), WarmOK',
         VmTypeOK'
  PROVE  VmInv'
<1>1. \A x \in Workers : Own(x)'
    BY OthersKept
<1>2. OneHolder'
    BY DEF VmInv, OneHolder, KeysOK, Frame, Others
<1>3. VmOnRecord'
  <2>1. SUFFICES ASSUME NEW v \in up', v \notin adrift' PROVE manifest'[v] # 0
      BY DEF VmOnRecord
  <2>2. v \in Vms
      BY DEF VmTypeOK
  <2>3. CASE Holds(w) /\ Target(w) = v
      BY <2>1, <2>3 DEF TargetOK
  <2>4. CASE ~(Holds(w) /\ Target(w) = v)
      BY <2>1, <2>2, <2>4 DEF Frame, VmInv, MachinesOnRecord, VmOnRecord
  <2>5. QED
      BY <2>3, <2>4
<1>4. AddressesExclusive'
  <2>1. ASSUME NEW v \in Vms, manifest'[v] # 0, v \notin adrift' PROVE claimed'[manifest'[v]] = v
    <3>1. CASE Holds(w) /\ Target(w) = v
        BY <2>1, <3>1 DEF TargetOK
    <3>2. CASE ~(Holds(w) /\ Target(w) = v)
      <4>1. manifest'[v] = manifest[v] /\ \A s \in VmSlots : claimed[s] = v => claimed'[s] = v
          BY <2>1, <3>2 DEF Frame
      <4>2. manifest[v] \in VmSlots
          BY <2>1, <4>1 DEF VmInv, VmTypeOK
      <4>3. claimed[manifest[v]] = v
          BY <2>1, <4>1 DEF VmInv, MachinesOnRecord, AddressesExclusive, Frame
      <4>4. QED
          BY <4>1, <4>2, <4>3
    <3>3. QED
        BY <3>1, <3>2
  <2>2. ASSUME NEW v \in tracked', v \notin adrift' PROVE manifest'[v] # 0
    <3>1. v \in Vms
        BY DEF VmTypeOK
    <3>2. CASE Holds(w) /\ Target(w) = v
        BY <2>2, <3>2 DEF TargetOK
    <3>3. CASE ~(Holds(w) /\ Target(w) = v)
      <4>1. manifest'[v] = manifest[v] /\ v \in tracked \cup up /\ v \notin adrift
          BY <2>2, <3>1, <3>3 DEF Frame
      <4>2. QED
          BY <4>1 DEF VmInv, MachinesOnRecord, AddressesExclusive, VmOnRecord
    <3>4. QED
        BY <3>2, <3>3
  <2>3. QED
      BY <2>1, <2>2 DEF AddressesExclusive
<1>5. QED
    BY <1>1, <1>2, <1>3, <1>4 DEF VmInv, Own, MachinesOnRecord

--------------------------------------------------------------------------------
(* Kinds of steps.                                                              *)

Still == UNCHANGED <<up, manifest, claimed, tracked, handles, adrift, starting>>
Stranger(w) ==
  \A x \in Workers : x # w /\ Shot(x) => job[x].vm \notin {job'[w].vm, job'[w].old}

\* Most steps change nothing but the call's own entry.
LEMMA StillFrame ==
  ASSUME VmInv, NEW w \in Workers, Others(w), Still, Stranger(w)
  PROVE  Frame(w) /\ TargetOK(w)
<1>1. Frame(w)
    BY DEF Frame, Still, Stranger
<1>2. TargetOK(w)
  <2>1. SUFFICES ASSUME Holds(w), Target(w) \notin adrift
                 PROVE  /\ Target(w) \in up \cup tracked => manifest[Target(w)] # 0
                        /\ manifest[Target(w)] # 0 => claimed[manifest[Target(w)]] = Target(w)
      BY DEF TargetOK, Still
  <2>2. Target(w) \in Vms
      BY <2>1, HolderKey
  <2>3. QED
      BY <2>1, <2>2 DEF VmInv, MachinesOnRecord, VmOnRecord, AddressesExclusive
<1>3. QED
    BY <1>1, <1>2

LEMMA KeptNames ==
  ASSUME VmInv, NEW w \in Workers, job'[w].vm \in {job[w].vm, NoVm} \cup (Vms \ OneShots),
         job'[w].old \in {job[w].old, job[w].vm, NoVm} \cup (Vms \ OneShots)
  PROVE  Stranger(w)
<1> SUFFICES ASSUME NEW x \in Workers, x # w, Shot(x)
             PROVE  job[x].vm \notin {job'[w].vm, job'[w].old}
    BY DEF Stranger
<1>1. job[x].vm \in OneShots /\ job[x].vm # job[w].vm /\ job[x].vm # job[w].old
    BY DEF Shot, VmInv, ShotOK
<1>2. job[x].vm # NoVm
    BY <1>1, VmAssumption DEF VmAssumption
<1>3. QED
    BY <1>1, <1>2

\* A call that returns owes nothing.
LEMMA ReturnOwn ==
  ASSUME VmInv, NEW w \in Workers, Returns(w)
  PROVE  JobTyped' /\ Others(w) /\ Own(w)' /\ KeysOK(w) /\ Stranger(w)
<1>1. JobTyped' /\ Others(w) /\ job'[w] = NoJob
    BY ReturnShape DEF VmInv
<1>2. /\ job'[w].kind = "none" /\ job'[w].vm = NoVm /\ job'[w].at = "idle" /\ job'[w].has = NoVm
      /\ job'[w].res = FALSE /\ job'[w].old = NoVm /\ job'[w].loose = FALSE
    BY <1>1 DEF NoJob
<1>3. Stranger(w)
    BY <1>2, KeptNames
<1>4. KeysOK(w)
    BY <1>2 DEF KeysOK
<1>5. JobOK(w)' /\ LockOK(w)' /\ LooseOK(w)' /\ Reserved(w)' /\ ShotOK(w)' /\ WorkOK(w)'
    BY <1>2 DEF JobOK, LockOK, LooseOK, Reserved, Owning, ShotOK, WorkOK, Holds, Early, Starts, Cleans
<1>6. QED
    BY <1>1, <1>3, <1>4, <1>5 DEF Own

\* A call that begins to clean up v.
CleanFits(w, v, has, then) ==
  /\ then \in {"stale", "expired"} => job[w].kind \in {"acquire", "reap"}
  /\ then = "done" => job[w].kind \in {"exec", "stop", "shutdown"}
  /\ then \in NewThens \cup OwnThens => job[w].kind = "acquire" /\ has = SandboxOf[job[w].vm]
  /\ then \in NewThens => SandboxOf[v] = SandboxOf[job[w].vm] /\ v \notin OneShots
  /\ then \in OldThens => has = KeyOf(v)
  /\ then \in OwnThens <=> Owning(w)
  /\ then \in OwnThens => v = job[w].vm
  /\ then \in {"stale", "expired", "replace", "gate"} /\ Shot(w) => Waiting(w) /\ v # job[w].vm
  /\ has = job[w].has \/ Free(has)
  /\ then = "launch" => manifest[v] # 0

LEMMA CleanOwn ==
  ASSUME VmInv, NEW w \in Workers, NEW v \in Vms, NEW has \in LockKeys, NEW keep \in BOOLEAN,
         NEW then \in Thens \ {"none"}, CleansUp(w, v, has, keep, then), ~job[w].loose,
         UNCHANGED <<manifest, handles, adrift, starting>>, CleanFits(w, v, has, then),
         then = "launch" => keep
  PROVE  JobTyped' /\ Others(w) /\ Own(w)' /\ KeysOK(w) /\ job'[w].vm = job[w].vm /\ job'[w].old = v
<1>1. /\ JobTyped' /\ Others(w) /\ job'[w].at = "kill"
      /\ job'[w].kind = job[w].kind /\ job'[w].vm = job[w].vm /\ job'[w].has = has
      /\ job'[w].res = job[w].res /\ job'[w].old = v /\ job'[w].keep = keep
      /\ job'[w].then = then /\ job'[w].loose = job[w].loose
    BY CleansShape DEF VmInv, VmTypeOK
<1>2. JobOK(w) /\ LockOK(w) /\ Reserved(w) /\ ShotOK(w) /\ OneHolder
    BY DEF VmInv
<1>3. then \in OldThens \cup NewThens \cup OwnThens
    BY DEF Thens
<1>4. JobOK(w)'
    BY <1>1, <1>2, <1>3 DEF JobOK, CleanFits, Early, Starts, Cleans, NewThens, OwnThens, OldThens
<1>5. LockOK(w)'
    BY <1>1 DEF LockOK, CleanFits, Early, Starts, Cleans
<1>6. Reserved(w)'
  <2>1. Owning(w)' <=> then \in OwnThens
      BY <1>1 DEF Owning, Starts, Cleans
  <2>2. QED
      BY <1>1, <1>2, <2>1 DEF Reserved, CleanFits
<1>7. ShotOK(w)'
  <2>1. Waiting(w)' => then \in {"stale", "expired", "replace", "gate"}
      BY <1>1 DEF Waiting, Waits, Early
  <2>2. QED
      BY <1>1, <1>2, <2>1 DEF ShotOK, CleanFits, Others, Shot
<1>8. WorkOK(w)' /\ LooseOK(w)'
    BY <1>1 DEF WorkOK, LooseOK, CleanFits, Target, Cleans
<1>9. KeysOK(w)
    BY <1>1, <1>2 DEF KeysOK, OneHolder, CleanFits, Free
<1>10. QED
    BY <1>1, <1>4, <1>5, <1>6, <1>7, <1>8, <1>9 DEF Own

\* The types of what a quiet step leaves alone.
LEMMA StillTypes ==
  ASSUME VmInv, Still, JobTyped', stamp' \subseteq Vms, lease' \in [Vms -> {"none", "fresh", "old"}],
         overrun' = overrun, warm' \in [Sandboxes -> Vms \cup {NoVm}]
  PROVE  VmTypeOK'
BY DEF VmInv, Still, VmTypeOK, JobTyped, JobSet

LEMMA ForgetWarm ==
  ASSUME VmInv, NEW v, Forget(v) \/ UNCHANGED warm
  PROVE  WarmOK' /\ warm' \in [Sandboxes -> Vms \cup {NoVm}]
BY DEF VmInv, WarmOK, VmTypeOK, Forget

LEMMA QuietStep ==
  ASSUME VmInv, NEW w \in Workers, Still, JobTyped', Others(w), Stranger(w), Own(w)', KeysOK(w),
         stamp' \subseteq Vms, lease' \in [Vms -> {"none", "fresh", "old"}], overrun' = overrun,
         WarmOK', warm' \in [Sandboxes -> Vms \cup {NoVm}]
  PROVE  VmInv'
BY StillFrame, StillTypes, Assemble

LEMMA TodoShape ==
  ASSUME JobTyped, NEW w \in Workers, NEW stage \in Stages, NEW T \in SUBSET Vms,
         \/ job' = [job EXCEPT ![w].at = stage, ![w].todo = T]
         \/ job[w].at = stage /\ job' = [job EXCEPT ![w].todo = T]
  PROVE  /\ JobTyped' /\ Others(w) /\ job'[w].at = stage /\ job'[w].todo = T
         /\ job'[w].kind = job[w].kind /\ job'[w].vm = job[w].vm /\ job'[w].has = job[w].has
         /\ job'[w].res = job[w].res /\ job'[w].old = job[w].old
         /\ job'[w].then = job[w].then /\ job'[w].loose = job[w].loose
<1> DEFINE j == [job[w] EXCEPT !.at = stage, !.todo = T]
<1>1. job \in [Workers -> JobSet] /\ job[w] \in JobSet
    BY DEF JobTyped
<1>2. /\ j \in JobSet /\ j.at = stage /\ j.todo = T
      /\ j.kind = job[w].kind /\ j.vm = job[w].vm /\ j.has = job[w].has /\ j.res = job[w].res
      /\ j.old = job[w].old /\ j.then = job[w].then /\ j.loose = job[w].loose
    BY <1>1 DEF JobSet
<1>3. job[w].at = stage => j = [job[w] EXCEPT !.todo = T]
    BY <1>1 DEF JobSet
<1>4. job' = [job EXCEPT ![w] = j]
    BY <1>1, <1>3
<1> HIDE DEF j
<1>5. QED
    BY <1>2, <1>4, EntryShape

\* A call that goes from one step before its admission to another.
LEMMA WaitOwn ==
  ASSUME VmInv, NEW w \in Workers, JobTyped', Others(w), job[w].at \in Waits, job'[w].at \in Waits,
         job'[w].kind = job[w].kind, job'[w].vm = job[w].vm, job'[w].res = job[w].res,
         job'[w].old = job[w].old, job'[w].loose = job[w].loose,
         job'[w].at \in {"lock"} \cup Early => job[w].kind = "acquire",
         job'[w].at \in Early => job'[w].has = SandboxOf[job[w].vm],
         job[w].at \in Early \/ job'[w].has # job[w].has => job'[w].at \in Early,
         job'[w].has = job[w].has \/ Free(job'[w].has),
         UNCHANGED <<manifest, handles, adrift, starting>>
  PROVE  Own(w)' /\ KeysOK(w) /\ Stranger(w)
<1>1. JobOK(w) /\ LockOK(w) /\ Reserved(w) /\ ShotOK(w) /\ LooseOK(w) /\ OneHolder
    BY DEF VmInv
<1>2. /\ job'[w].at \notin Starts \cup Cleans /\ job'[w].at \notin {"idle", "use"}
      /\ job[w].at \notin Starts \cup Cleans /\ job[w].at \notin {"idle", "use"}
    BY DEF Waits, Early, Starts, Cleans
<1>3. ~job[w].loose
    BY <1>1, <1>2 DEF LooseOK, Starts
<1>4. job[w].kind \in {"acquire", "reap"}
    BY <1>1 DEF JobOK, Waits
<1>5. JobOK(w)'
    BY <1>1, <1>2, <1>4 DEF JobOK
<1>6. LockOK(w)' /\ LooseOK(w)' /\ WorkOK(w)'
    BY <1>1, <1>2, <1>3 DEF LockOK, LooseOK, WorkOK, Holds
<1>7. Reserved(w)'
    BY <1>1, <1>2 DEF Reserved, Owning
<1>8. ShotOK(w)'
  <2>1. Waiting(w) /\ job'[w].at \notin Cleans
      BY <1>2 DEF Waiting
  <2>2. QED
      BY <1>1, <2>1 DEF ShotOK, Others
<1>9. KeysOK(w)
    BY <1>1 DEF KeysOK, OneHolder, Free
<1>10. Stranger(w)
    BY KeptNames
<1>11. QED
    BY <1>5, <1>6, <1>7, <1>8, <1>9, <1>10 DEF Own

\* The types and the warm table of a step that leaves them alone.
LEMMA SameRest ==
  ASSUME VmInv, UNCHANGED <<lease, stamp, warm>>
  PROVE  /\ stamp' \subseteq Vms /\ lease' \in [Vms -> {"none", "fresh", "old"}]
         /\ WarmOK' /\ warm' \in [Sandboxes -> Vms \cup {NoVm}]
BY DEF VmInv, VmTypeOK, WarmOK

\* Scans, steps over an entry, and the lock.
LEMMA ScanStep ==
  ASSUME VmInv, NEW w \in Workers,
         \/ ScanStale(w) \/ ScanExpired(w) \/ ScanCapacity(w) \/ LockSandbox(w)
  PROVE  VmInv'
<1>0. JobTyped /\ JobOK(w) /\ LockOK(w) /\ LooseOK(w)
    BY DEF VmInv
<1>1. Still /\ UNCHANGED <<lease, stamp, warm>> /\ overrun' = overrun
    BY DEF ScanStale, ScanExpired, ScanCapacity, LockSandbox, vmDisk, memory, vmHistory, Still
<1>2. CASE ScanStale(w) \/ ScanExpired(w) \/ ScanCapacity(w)
  <2>1. PICK stage \in {"stale", "expired", "admit"}, T \in SUBSET Vms :
          /\ job' = [job EXCEPT ![w].at = stage, ![w].todo = T]
          /\ job[w].at = IF stage = "stale" THEN "scan"
                         ELSE IF stage = "expired" THEN "scan expired" ELSE "gate"
    <3>1. {v \in Vms : manifest[v] # 0 /\ v \notin up} \in SUBSET Vms
          /\ {v \in Vms : Expired(v)} \in SUBSET Vms /\ {v \in up : manifest[v] # 0} \in SUBSET Vms
        BY DEF VmInv, VmTypeOK
    <3>2. CASE ScanStale(w)
        BY <3>1, <3>2 DEF ScanStale, Stage
    <3>3. CASE ScanExpired(w)
        BY <3>1, <3>3 DEF ScanExpired, Stage
    <3>4. CASE ScanCapacity(w)
        BY <3>1, <3>4 DEF ScanCapacity, Stage
    <3>5. QED
        BY <1>2, <3>2, <3>3, <3>4
  <2>2. stage \in Stages
      BY DEF Stages, Early
  <2>3. /\ JobTyped' /\ Others(w) /\ job'[w].at = stage
        /\ job'[w].kind = job[w].kind /\ job'[w].vm = job[w].vm /\ job'[w].has = job[w].has
        /\ job'[w].res = job[w].res /\ job'[w].old = job[w].old /\ job'[w].loose = job[w].loose
      BY <1>0, <2>1, <2>2, TodoShape
  <2>4. job[w].at \in Waits /\ stage \in Waits /\ (stage \in {"lock"} \cup Early => stage = "admit")
      BY <2>1 DEF Waits, Early
  <2>5. stage = "admit" => job[w].kind = "acquire" /\ job[w].has = SandboxOf[job[w].vm]
    <3>1. stage = "admit" => job[w].at \in Early /\ job[w].at \notin {"claim", "write", "launch"} \cup Cleans
        BY <2>1 DEF Early, Cleans
    <3>2. QED
        BY <1>0, <3>1 DEF JobOK, LockOK, LooseOK
  <2>6. job[w].at \in Early => job'[w].at \in Early
      BY <2>1, <2>3 DEF Early
  <2>7. Own(w)' /\ KeysOK(w) /\ Stranger(w)
      BY <1>1, <2>3, <2>4, <2>5, <2>6, WaitOwn DEF Still
  <2>8. QED
      BY <1>1, <2>3, <2>7, SameRest, QuietStep
<1>3. CASE LockSandbox(w)
  <2>1. /\ job[w].at = "lock" /\ Free(SandboxOf[job[w].vm])
        /\ job' = [job EXCEPT ![w].at = "previous", ![w].has = SandboxOf[job[w].vm]]
      BY <1>3 DEF LockSandbox, Stage
  <2>2. job[w].kind = "acquire" /\ job[w].vm \in Vms /\ SandboxOf[job[w].vm] \in LockKeys
    <3>1. job[w].kind = "acquire" /\ job[w].vm \in Vms
        BY <1>0, <2>1 DEF JobOK
    <3>2. QED
        BY <3>1, KeyFacts DEF LockKeys
  <2>3. /\ JobTyped' /\ Others(w) /\ job'[w].at = "previous" /\ job'[w].has = SandboxOf[job[w].vm]
        /\ job'[w].kind = job[w].kind /\ job'[w].vm = job[w].vm
        /\ job'[w].res = job[w].res /\ job'[w].old = job[w].old /\ job'[w].loose = job[w].loose
    <3> DEFINE j == [job[w] EXCEPT !.at = "previous", !.has = SandboxOf[job[w].vm]]
    <3>1. job \in [Workers -> JobSet] /\ job[w] \in JobSet /\ "previous" \in Stages
        BY <1>0 DEF JobTyped, Stages, Early
    <3>2. /\ j \in JobSet /\ j.at = "previous" /\ j.has = SandboxOf[job[w].vm]
          /\ j.kind = job[w].kind /\ j.vm = job[w].vm /\ j.res = job[w].res
          /\ j.old = job[w].old /\ j.loose = job[w].loose
        BY <2>2, <3>1 DEF JobSet
    <3>3. job' = [job EXCEPT ![w] = j]
        BY <2>1, <3>1
    <3> HIDE DEF j
    <3>4. QED
        BY <1>0, <3>2, <3>3, EntryShape
  <2>4. job[w].at \in Waits /\ "previous" \in Waits /\ "previous" \in Early
      BY <2>1 DEF Waits, Early
  <2>5. Own(w)' /\ KeysOK(w) /\ Stranger(w)
      BY <1>1, <2>1, <2>2, <2>3, <2>4, WaitOwn DEF Still
  <2>6. QED
      BY <1>1, <2>3, <2>5, SameRest, QuietStep
<1>4. QED
    BY <1>2, <1>3

\* A call at one of its first steps is not a closure that goes on, and has no
\* reservation.
LEMMA WaitFacts ==
  ASSUME VmInv, NEW w \in Workers, job[w].at \in Waits
  PROVE  /\ ~job[w].loose /\ ~Owning(w) /\ Waiting(w) /\ JobTyped
         /\ job[w].kind \in {"acquire", "reap"}
         /\ job[w].at \in Early => /\ job[w].kind = "acquire" /\ job[w].vm \in Vms
                                   /\ job[w].has = SandboxOf[job[w].vm]
<1>1. JobOK(w) /\ LockOK(w) /\ LooseOK(w) /\ JobTyped
    BY DEF VmInv
<1>2. job[w].at \notin Starts \cup Cleans
    BY DEF Waits, Early, Starts, Cleans
<1>3. ~job[w].loose
    BY <1>1, <1>2 DEF LooseOK, Starts
<1>4. job[w].kind \in {"acquire", "reap"}
    BY <1>1 DEF JobOK, Waits
<1>5. job[w].at \in Early => /\ job[w].kind = "acquire" /\ job[w].vm \in Vms
                             /\ job[w].has = SandboxOf[job[w].vm]
    BY <1>1, <1>3 DEF JobOK, LockOK
<1>6. ~Owning(w) /\ Waiting(w)
    BY <1>2 DEF Owning, Waiting
<1>7. QED
    BY <1>1, <1>3, <1>4, <1>5, <1>6

\* A call that goes on to another of its first steps, or drops an entry.
LEMMA WaitGoes ==
  ASSUME VmInv, NEW w \in Workers, job[w].at \in Waits, NEW stage \in Waits,
         \/ Goes(w, stage)
         \/ stage = job[w].at /\ \E v : job' = [job EXCEPT ![w].todo = @ \ {v}],
         stage \in {"lock"} \cup Early => job[w].kind = "acquire",
         stage \in Early <=> job[w].at \in Early,
         Still, UNCHANGED <<lease, stamp, warm>>, overrun' = overrun
  PROVE  VmInv'
<1>0. JobTyped /\ stage \in Stages
    BY DEF VmInv, Waits, Stages
<1>1. /\ JobTyped' /\ Others(w) /\ job'[w].at = stage
      /\ job'[w].kind = job[w].kind /\ job'[w].vm = job[w].vm /\ job'[w].has = job[w].has
      /\ job'[w].res = job[w].res /\ job'[w].old = job[w].old /\ job'[w].loose = job[w].loose
  <2>1. CASE Goes(w, stage)
      BY <1>0, <2>1, GoesShape
  <2>2. ASSUME stage = job[w].at, NEW v, job' = [job EXCEPT ![w].todo = @ \ {v}]
        PROVE  /\ JobTyped' /\ Others(w) /\ job'[w].at = stage
               /\ job'[w].kind = job[w].kind /\ job'[w].vm = job[w].vm /\ job'[w].has = job[w].has
               /\ job'[w].res = job[w].res /\ job'[w].old = job[w].old /\ job'[w].loose = job[w].loose
    <3>1. job[w].todo \ {v} \in SUBSET Vms
        BY <1>0 DEF JobTyped, JobSet
    <3>2. PICK T \in SUBSET Vms : job' = [job EXCEPT ![w].todo = T]
        BY <1>0, <2>2, <3>1 DEF JobTyped
    <3>3. job[w].at = stage /\ job' = [job EXCEPT ![w].todo = T]
        BY <2>2, <3>2
    <3>4. QED
        BY <1>0, <3>3, TodoShape
  <2>3. QED
      BY <2>1, <2>2
<1>2. Own(w)' /\ KeysOK(w) /\ Stranger(w)
    BY <1>1, WaitFacts, WaitOwn DEF Still
<1>3. QED
    BY <1>1, <1>2, SameRest, QuietStep

\* A call that begins to clean up a machine before its admission, or on a handle.
LEMMA WaitCleans ==
  ASSUME VmInv, NEW w \in Workers, NEW v \in Vms, NEW has \in LockKeys, NEW then \in Thens \ {"none"},
         CleansUp(w, v, has, FALSE, then), ~job[w].loose, CleanFits(w, v, has, then),
         then # "launch",
         \A x \in Workers : x # w /\ Shot(x) => job[x].vm # v,
         Still, UNCHANGED <<lease, stamp>>, overrun' = overrun, Forget(v) \/ UNCHANGED warm
  PROVE  VmInv'
<1>1. JobTyped' /\ Others(w) /\ Own(w)' /\ KeysOK(w) /\ job'[w].vm = job[w].vm /\ job'[w].old = v
    BY CleanOwn DEF Still
<1>2. Stranger(w)
  <2>1. SUFFICES ASSUME NEW x \in Workers, x # w, Shot(x)
                 PROVE  job[x].vm \notin {job[w].vm, v}
      BY <1>1 DEF Stranger
  <2>2. job[x].vm # job[w].vm
      BY <2>1 DEF VmInv, ShotOK, Shot
  <2>3. QED
      BY <2>1, <2>2
<1>3. stamp' \subseteq Vms /\ lease' \in [Vms -> {"none", "fresh", "old"}]
    BY DEF VmInv, VmTypeOK
<1>4. QED
    BY <1>1, <1>2, <1>3, ForgetWarm, QuietStep

\* Nobody starts a machine for one command whose manifest is there while it is not
\* reserved.
LEMMA ShotElsewhere ==
  ASSUME VmInv, NEW x \in Workers, Shot(x), manifest[job[x].vm] # 0
  PROVE  job[x].vm \in starting /\ ~Waiting(x)
<1>1. JobOK(x) /\ Reserved(x) /\ ShotOK(x) /\ JobTyped
    BY DEF VmInv
<1>2. ~Waiting(x)
    BY <1>1 DEF ShotOK, Shot
<1>3. Owning(x)
  <2>1. job[x].at \in Stages /\ job[x].kind = "acquire"
      BY <1>1 DEF JobTyped, JobSet, Shot
  <2>2. job[x].at \notin {"idle", "use"}
      BY <1>1, <2>1 DEF JobOK
  <2>3. job[x].at \in Cleans => job[x].then \in OldThens \cup NewThens \cup OwnThens /\ job[x].then # "done"
      BY <1>1, <2>1 DEF JobOK
  <2>4. job[x].at \notin Waits
      BY <1>2 DEF Waiting
  <2>5. job[x].at \in Starts \cup Cleans
      BY <2>1, <2>2, <2>4 DEF Stages, Waits
  <2>6. job[x].at \in Cleans => job[x].then \in OwnThens
      BY <1>2, <2>3 DEF Waiting, OldThens, NewThens
  <2>7. QED
      BY <2>5, <2>6 DEF Owning
<1>4. QED
    BY <1>1, <1>2, <1>3 DEF Reserved, Shot

LEMMA ReapStep ==
  ASSUME VmInv, NEW w \in Workers, ReapStale(w) \/ ReapExpired(w)
  PROVE  VmInv'
<1>0. /\ Still /\ UNCHANGED <<lease, stamp>> /\ overrun' = overrun
      /\ job[w].at \in {"stale", "expired"}
    BY DEF ReapStale, ReapExpired, Stage, vmDisk, vmHistory, Still
<1>1. job[w].at \in Waits
    BY <1>0 DEF Waits
<1>2. ~job[w].loose /\ ~Owning(w) /\ Waiting(w) /\ job[w].kind \in {"acquire", "reap"} /\ JobTyped
    BY <1>1, WaitFacts
<1>3. ASSUME NEW v \in job[w].todo, Free(KeyOf(v)), manifest[v] # 0,
             \/ job[w].at = "stale" /\ v \notin starting
             \/ job[w].at = "expired" /\ v \notin OneShots,
             Forget(v), CleansUp(w, v, KeyOf(v), FALSE, job[w].at)
      PROVE  VmInv'
  <2>1. v \in Vms
      BY <1>2 DEF JobTyped, JobSet
  <2>2. KeyOf(v) \in LockKeys /\ job[w].at \in Thens \ {"none"} /\ job[w].at \in OldThens
        /\ job[w].at \notin NewThens \cup OwnThens
      BY <1>0, <2>1, KeyFacts DEF Thens, OldThens, NewThens, OwnThens
  <2>3. \A x \in Workers : Shot(x) => job[x].vm # v
    <3>1. SUFFICES ASSUME NEW x \in Workers, Shot(x), job[x].vm = v PROVE FALSE
        OBVIOUS
    <3>2. job[x].vm \in starting
        BY <1>3, <3>1, ShotElsewhere
    <3>3. QED
        BY <1>3, <3>1, <3>2 DEF Shot
  <2>4. CleanFits(w, v, KeyOf(v), job[w].at)
      BY <1>0, <1>2, <1>3, <2>2, <2>3 DEF CleanFits
  <2>5. PICK has \in LockKeys, then \in Thens \ {"none"} : has = KeyOf(v) /\ then = job[w].at
      BY <2>2
  <2>6. CleansUp(w, v, has, FALSE, then) /\ CleanFits(w, v, has, then)
      BY <1>3, <2>4, <2>5
  <2>7. then # "launch"
      BY <1>0, <2>5
  <2>8. QED
      BY <1>0, <1>2, <1>3, <2>1, <2>3, <2>6, <2>7, WaitCleans
<1>4. ASSUME NEW v, job' = [job EXCEPT ![w].todo = @ \ {v}], UNCHANGED warm PROVE VmInv'
    BY <1>0, <1>1, <1>4, WaitGoes DEF Early
<1>5. CASE ReapStale(w)
  <2>0. job[w].at = "stale"
      BY <1>5 DEF ReapStale, Stage
  <2>1. CASE Goes(w, "scan expired") /\ UNCHANGED warm
    <3>1. /\ "scan expired" \in Waits /\ "scan expired" \notin {"lock"} \cup Early
          /\ job[w].at \notin Early
        BY <2>0 DEF Waits, Early
    <3>2. QED
        BY <1>0, <1>1, <2>1, <3>1, WaitGoes
  <2>2. ASSUME NEW v \in job[w].todo, Free(KeyOf(v)), IsStale(v), Forget(v),
               CleansUp(w, v, KeyOf(v), FALSE, "stale")
        PROVE  VmInv'
      BY <1>3, <2>0, <2>2 DEF IsStale
  <2>3. QED
      BY <1>4, <1>5, <2>1, <2>2 DEF ReapStale
<1>6. CASE ReapExpired(w)
  <2>0. job[w].at = "expired"
      BY <1>6 DEF ReapExpired, Stage
  <2>1. CASE Goes(w, "lock") /\ UNCHANGED warm /\ job[w].kind # "reap"
    <3>1. "lock" \in Waits /\ "lock" \notin Early /\ job[w].at \notin Early
        BY <2>0 DEF Waits, Early
    <3>2. QED
        BY <1>0, <1>1, <1>2, <2>1, <3>1, WaitGoes
  <2>2. CASE Returns(w) /\ UNCHANGED warm
      BY <1>0, <2>2, ReturnOwn, SameRest, QuietStep
  <2>3. ASSUME NEW v \in job[w].todo, Free(KeyOf(v)), Expired(v), Forget(v),
               CleansUp(w, v, KeyOf(v), FALSE, "expired")
        PROVE  VmInv'
      BY <1>3, <2>0, <2>3 DEF Expired
  <2>4. QED
      BY <1>4, <1>6, <2>1, <2>2, <2>3 DEF ReapExpired
<1>7. QED
    BY <1>5, <1>6

LEMMA ReplaceStep ==
  ASSUME VmInv, NEW w \in Workers, CleanPrevious(w) \/ CleanReplaced(w)
  PROVE  VmInv'
<1>0. /\ Still /\ UNCHANGED <<lease, stamp>> /\ overrun' = overrun
      /\ job[w].at \in {"previous", "replace"}
    BY DEF CleanPrevious, CleanReplaced, Stage, vmDisk, vmHistory, memory, Still
<1>1. job[w].at \in Waits /\ job[w].at \in Early
    BY <1>0 DEF Waits, Early
<1>2. /\ ~job[w].loose /\ ~Owning(w) /\ Waiting(w) /\ job[w].kind = "acquire" /\ job[w].vm \in Vms
      /\ job[w].has = SandboxOf[job[w].vm]
    BY <1>1, WaitFacts
<1>3. ASSUME NEW v \in Vms \ OneShots, SandboxOf[v] = SandboxOf[job[w].vm],
             NEW then \in {"replace", "gate"}, CleansUp(w, v, job[w].has, FALSE, then),
             Forget(v) \/ UNCHANGED warm
      PROVE  VmInv'
  <2>1. job[w].has \in LockKeys
      BY <1>2, KeyFacts DEF LockKeys
  <2>2. then \in Thens \ {"none"} /\ then \in NewThens /\ then \notin OldThens \cup OwnThens
        /\ then \notin {"launch", "done"}
      BY DEF Thens, OldThens, NewThens, OwnThens
  <2>3. CleanFits(w, v, job[w].has, then)
      BY <1>2, <1>3, <2>2 DEF CleanFits, Shot
  <2>4. \A x \in Workers : Shot(x) => job[x].vm # v
      BY <1>3 DEF Shot
  <2>5. PICK has \in LockKeys : has = job[w].has
      BY <2>1
  <2>6. CleansUp(w, v, has, FALSE, then) /\ CleanFits(w, v, has, then)
      BY <1>3, <2>3, <2>5
  <2>7. v \in Vms /\ then \in Thens \ {"none"} /\ ~job[w].loose
      BY <1>2, <2>2
  <2>8. Still /\ UNCHANGED <<lease, stamp>> /\ overrun' = overrun /\ (Forget(v) \/ UNCHANGED warm)
      BY <1>0, <1>3
  <2>9. QED
      BY <2>4, <2>6, <2>7, <2>8, WaitCleans
<1>4. ASSUME NEW stage \in {"replace", "gate"}, Goes(w, stage), UNCHANGED warm PROVE VmInv'
  <2>1. stage \in Waits /\ stage \in Early
      BY DEF Waits, Early
  <2>2. QED
      BY <1>0, <1>1, <1>2, <1>4, <2>1, WaitGoes
<1>5. CASE CleanPrevious(w)
  <2>1. UNCHANGED warm
      BY <1>5 DEF CleanPrevious, memory
  <2>2. QED
      BY <1>3, <1>4, <1>5, <2>1 DEF CleanPrevious
<1>6. CASE CleanReplaced(w)
  <2>1. CASE Goes(w, "gate") /\ UNCHANGED warm
      BY <1>4, <2>1
  <2> DEFINE old == warm[SandboxOf[job[w].vm]]
  <2>2. CASE old \notin {NoVm, job[w].vm} /\ Forget(old) /\ CleansUp(w, old, job[w].has, FALSE, "gate")
    <3>1. SandboxOf[job[w].vm] \in Sandboxes
        BY <1>2, KeyFacts
    <3>2. old \in Vms \ OneShots /\ SandboxOf[old] = SandboxOf[job[w].vm]
        BY <2>2, <3>1 DEF VmInv, WarmOK
    <3>3. QED
        BY <1>3, <2>2, <3>2
  <2>3. QED
      BY <1>6, <2>1, <2>2 DEF CleanReplaced
<1>7. QED
    BY <1>5, <1>6

--------------------------------------------------------------------------------
(* Calls begin.                                                                 *)

LEMMA BeginShape ==
  ASSUME VmInv, NEW w \in Workers, NEW kind \in Kinds, NEW v \in Vms \cup {NoVm},
         NEW stage \in {"scan", "use"}, Begins(w, kind, v, stage)
  PROVE  /\ JobTyped' /\ Others(w) /\ job'[w].kind = kind /\ job'[w].vm = v /\ job'[w].at = stage
         /\ job'[w].has = job[w].has /\ job'[w].res = job[w].res /\ job'[w].old = job[w].old
         /\ job'[w].loose = job[w].loose /\ job[w].at = "idle"
         /\ Still /\ UNCHANGED <<lease, stamp, warm>> /\ overrun' = overrun
<1> DEFINE j == [job[w] EXCEPT !.kind = kind, !.vm = v, !.at = stage]
<1>1. job \in [Workers -> JobSet] /\ job[w] \in JobSet /\ stage \in Stages
    BY DEF VmInv, JobTyped, Stages
<1>2. /\ j \in JobSet /\ j.kind = kind /\ j.vm = v /\ j.at = stage /\ j.has = job[w].has
      /\ j.res = job[w].res /\ j.old = job[w].old /\ j.loose = job[w].loose
    BY <1>1 DEF JobSet
<1>3. job' = [job EXCEPT ![w] = j]
    BY <1>1 DEF Begins
<1>4. Still /\ UNCHANGED <<lease, stamp, warm>> /\ overrun' = overrun /\ job[w].at = "idle"
    BY DEF Begins, Stage, Still, vmDisk, memory, vmHistory
<1> HIDE DEF j
<1>5. QED
    BY <1>2, <1>3, <1>4, EntryShape DEF VmInv

LEMMA BeginOne ==
  ASSUME VmInv, NEW w \in Workers, NEW kind \in Kinds, NEW v \in Vms \cup {NoVm},
         NEW stage \in {"scan", "use"}, Begins(w, kind, v, stage),
         kind \in {"acquire", "reap"} <=> stage = "scan", kind # "none", kind # "reap" => v \in Vms,
         kind = "acquire" /\ v \in OneShots =>
             /\ manifest[v] = 0 /\ v \notin handles \cup adrift
             /\ \A x \in Workers : v \notin {job[x].vm, job[x].old},
         kind # "acquire" /\ v \in OneShots => kind # "shutdown" /\ v \in handles
  PROVE  VmInv'
<1>2. /\ JobTyped' /\ Others(w) /\ job'[w].kind = kind /\ job'[w].vm = v /\ job'[w].at = stage
      /\ job'[w].has = job[w].has /\ job'[w].res = job[w].res /\ job'[w].old = job[w].old
      /\ job'[w].loose = job[w].loose /\ job[w].at = "idle"
      /\ Still /\ UNCHANGED <<lease, stamp, warm>> /\ overrun' = overrun
    BY BeginShape
<1>3. JobOK(w) /\ LockOK(w) /\ LooseOK(w) /\ Reserved(w) /\ OneHolder
    BY DEF VmInv
<1>4. /\ stage \notin {"idle", "lock"} \cup Early \cup Starts \cup Cleans
      /\ job[w].at \notin {"idle"} => FALSE
      /\ job[w].at \notin {"claim", "write", "launch"} \cup Early \cup Starts \cup Cleans
    BY <1>2 DEF Early, Starts, Cleans
<1>5. ~job[w].loose /\ ~job[w].res
    BY <1>3, <1>4 DEF LooseOK, Reserved, Owning
<1>6. JobOK(w)'
  <2>1. kind \in {"exec", "stop", "track", "shutdown"} \/ kind \in {"acquire", "reap"}
      BY DEF Kinds
  <2>2. QED
      BY <1>2, <1>4, <2>1 DEF JobOK
<1>7. LockOK(w)' /\ LooseOK(w)' /\ WorkOK(w)' /\ Reserved(w)'
    BY <1>2, <1>3, <1>4, <1>5 DEF LockOK, LooseOK, WorkOK, Reserved, Owning, Holds
<1>8. ShotOK(w)'
    BY <1>2, <1>4 DEF ShotOK, Others, Still
<1>9. KeysOK(w)
    BY <1>2, <1>3, <1>5 DEF KeysOK, OneHolder
<1>10. Stranger(w)
  <2>1. SUFFICES ASSUME NEW x \in Workers, x # w, Shot(x) PROVE job[x].vm \notin {v, job[w].old}
      BY <1>2 DEF Stranger
  <2>2. job[x].vm \in OneShots /\ job[x].vm # job[w].old /\ job[x].vm \notin handles
      BY <2>1 DEF VmInv, ShotOK, Shot
  <2>3. QED
      BY <2>2
<1>11. QED
    BY <1>2, <1>6, <1>7, <1>8, <1>9, <1>10, SameRest, QuietStep DEF Own

LEMMA BeginStep ==
  ASSUME VmInv, NEW w \in Workers,
         \/ ReapVms(w)
         \/ \E v \in Vms : AcquireVm(w, v) \/ ExecVm(w, v) \/ StopVm(w, v) \/ TrackVm(w, v)
                           \/ ShutVm(w, v)
  PROVE  VmInv'
<1>0. /\ NoVm \notin OneShots /\ {"reap", "acquire", "exec", "stop", "track", "shutdown"} \subseteq Kinds
    BY VmAssumption DEF Kinds, VmAssumption
<1>1. CASE ReapVms(w)
    BY <1>0, <1>1, BeginOne DEF ReapVms
<1>2. ASSUME NEW v \in Vms, AcquireVm(w, v) PROVE VmInv'
    BY <1>0, <1>2, BeginOne DEF AcquireVm
<1>3. ASSUME NEW v \in Vms, ExecVm(w, v) PROVE VmInv'
    BY <1>0, <1>3, BeginOne DEF ExecVm
<1>4. ASSUME NEW v \in Vms, StopVm(w, v) PROVE VmInv'
    BY <1>0, <1>4, BeginOne DEF StopVm
<1>5. ASSUME NEW v \in Vms, TrackVm(w, v) PROVE VmInv'
    BY <1>0, <1>5, BeginOne DEF TrackVm
<1>6. ASSUME NEW v \in Vms, ShutVm(w, v) PROVE VmInv'
    BY <1>0, <1>6, BeginOne DEF ShutVm
<1>7. QED
    BY <1>1, <1>2, <1>3, <1>4, <1>5, <1>6

--------------------------------------------------------------------------------
(* A machine is admitted and started.                                           *)

Calm == UNCHANGED <<up, manifest, claimed, tracked, adrift>>
GivesUp(w) == \A v \in starting : v \in starting' \/ (job[w].res /\ v = job[w].vm)

LEMMA CalmStep ==
  ASSUME VmInv, NEW w \in Workers, Calm, GivesUp(w), starting' \subseteq Vms,
         handles' \subseteq handles \cup {job[w].vm}, handles' \subseteq Vms,
         JobTyped', Others(w), Stranger(w), Own(w)', KeysOK(w),
         stamp' \subseteq Vms, lease' \in [Vms -> {"none", "fresh", "old"}], overrun' \in BOOLEAN,
         WarmOK', warm' \in [Sandboxes -> Vms \cup {NoVm}]
  PROVE  VmInv'
<1>1. Frame(w)
    BY DEF Frame, Calm, GivesUp, Stranger
<1>2. TargetOK(w)
  <2>1. SUFFICES ASSUME Holds(w), Target(w) \notin adrift
                 PROVE  /\ Target(w) \in up \cup tracked => manifest[Target(w)] # 0
                        /\ manifest[Target(w)] # 0 => claimed[manifest[Target(w)]] = Target(w)
      BY DEF TargetOK, Calm
  <2>2. Target(w) \in Vms
      BY <2>1, HolderKey
  <2>3. QED
      BY <2>1, <2>2 DEF VmInv, MachinesOnRecord, VmOnRecord, AddressesExclusive
<1>3. VmTypeOK'
    BY DEF VmInv, Calm, VmTypeOK, JobTyped, JobSet
<1>4. QED
    BY <1>1, <1>2, <1>3, Assemble

\* The call fails or is served: its reservation is dropped.
LEMMA FailStep ==
  ASSUME VmInv, NEW w \in Workers, Calm, Fails(w),
         handles' \subseteq handles \cup {job[w].vm}, handles' \subseteq Vms,
         stamp' \subseteq Vms, lease' \in [Vms -> {"none", "fresh", "old"}], overrun' = overrun,
         WarmOK', warm' \in [Sandboxes -> Vms \cup {NoVm}]
  PROVE  VmInv'
<1>1. JobTyped' /\ Others(w) /\ Own(w)' /\ KeysOK(w) /\ Stranger(w)
    BY ReturnOwn DEF Fails
<1>2. GivesUp(w) /\ starting' \subseteq Vms /\ overrun' \in BOOLEAN
    BY DEF Fails, Unreserved, GivesUp, VmInv, VmTypeOK
<1>3. QED
    BY <1>1, <1>2, CalmStep

LEMMA StartFacts ==
  ASSUME VmInv, NEW w \in Workers, job[w].at \in Starts
  PROVE  /\ JobTyped /\ job[w].kind = "acquire" /\ job[w].vm \in Vms /\ Owning(w)
         /\ job[w].at \notin Cleans /\ Target(w) = job[w].vm
         /\ job[w].loose => job[w].at \in {"claim", "write", "launch"} /\ job[w].vm \in adrift
         /\ ~job[w].loose =>
              /\ Holds(w) /\ job[w].res /\ job[w].has = SandboxOf[job[w].vm] /\ job[w].has \in LockKeys
<1>1. JobOK(w) /\ LockOK(w) /\ Reserved(w) /\ LooseOK(w) /\ JobTyped
    BY DEF VmInv
<1>2. job[w].at \notin Cleans
    BY DEF Starts, Cleans
<1>3. job[w].kind = "acquire" /\ job[w].vm \in Vms /\ Owning(w) /\ Target(w) = job[w].vm
    BY <1>1, <1>2 DEF JobOK, Owning, Target
<1>4. job[w].loose => job[w].at \in {"claim", "write", "launch"} /\ job[w].vm \in adrift
    BY <1>1, <1>2, <1>3, KeyFacts DEF LooseOK
<1>5. ~job[w].loose => /\ Holds(w) /\ job[w].res /\ job[w].has = SandboxOf[job[w].vm]
                       /\ job[w].has \in LockKeys
    BY <1>1, <1>3, KeyFacts DEF LockOK, Reserved, Holds, LockKeys
<1>6. QED
    BY <1>1, <1>2, <1>3, <1>4, <1>5

\* The start goes on.
LEMMA StartOwn ==
  ASSUME VmInv, NEW w \in Workers, JobTyped', Others(w), job[w].at \in Starts, job'[w].at \in Starts,
         job'[w].kind = job[w].kind, job'[w].vm = job[w].vm, job'[w].res = job[w].res,
         job'[w].old = job[w].old, job'[w].loose = job[w].loose, job'[w].has = job[w].has,
         job[w].loose => job'[w].at \in {"claim", "write", "launch"},
         UNCHANGED <<handles, adrift, starting>>, WorkOK(w)'
  PROVE  Own(w)' /\ KeysOK(w) /\ Stranger(w)
<1>1. JobOK(w) /\ LockOK(w) /\ Reserved(w) /\ ShotOK(w) /\ LooseOK(w) /\ OneHolder
    BY DEF VmInv
<1>2. /\ job'[w].at \notin Cleans /\ job'[w].at \notin Waits /\ job'[w].at \notin {"idle", "use"}
    BY DEF Starts, Cleans, Waits, Early
<1>3. job[w].kind = "acquire" /\ job[w].vm \in Vms /\ Owning(w)
    BY StartFacts
<1>4. JobOK(w)'
    BY <1>2, <1>3 DEF JobOK, Waits
<1>5. LockOK(w)'
    BY <1>1, <1>2 DEF LockOK
<1>6. Reserved(w)'
    BY <1>1, <1>3 DEF Reserved, Owning
<1>7. ShotOK(w)'
  <2>1. ~Waiting(w)'
      BY <1>2 DEF Waiting
  <2>2. QED
      BY <1>1, <2>1 DEF ShotOK, Others
<1>8. LooseOK(w)'
    BY <1>1 DEF LooseOK
<1>9. KeysOK(w)
    BY <1>1 DEF KeysOK, OneHolder
<1>10. QED
    BY <1>4, <1>5, <1>6, <1>7, <1>8, <1>9, KeptNames DEF Own

LEMMA AdmitStep ==
  ASSUME VmInv, NEW w \in Workers, Admit(w)
  PROVE  VmInv'
<1>0. Calm /\ UNCHANGED <<lease, stamp, warm, handles>> /\ job[w].at = "admit"
    BY DEF Admit, Stage, Calm, vmDisk
<1>1. job[w].at \in Waits /\ job[w].at \in Early
    BY <1>0 DEF Waits, Early
<1>2. /\ ~job[w].loose /\ ~Owning(w) /\ Waiting(w) /\ job[w].kind = "acquire" /\ job[w].vm \in Vms
      /\ job[w].has = SandboxOf[job[w].vm] /\ JobTyped
    BY <1>1, WaitFacts
<1>rest. /\ stamp' \subseteq Vms /\ lease' \in [Vms -> {"none", "fresh", "old"}]
         /\ WarmOK' /\ warm' \in [Sandboxes -> Vms \cup {NoVm}]
    BY <1>0, SameRest
<1>3. CASE Returns(w) /\ UNCHANGED <<starting, overrun>>
  <2>1. Still
      BY <1>0, <1>3 DEF Still, Calm
  <2>2. QED
      BY <1>3, <1>rest, <2>1, ReturnOwn, QuietStep
<1>4. CASE /\ job[w].vm \notin starting /\ starting' = starting \cup {job[w].vm}
           /\ job' = [job EXCEPT ![w].at = "ensure", ![w].res = TRUE, ![w].todo = {}]
           /\ overrun' \in BOOLEAN
  <2>1. /\ JobTyped' /\ Others(w) /\ job'[w].at = "ensure" /\ job'[w].res = TRUE
        /\ job'[w].kind = job[w].kind /\ job'[w].vm = job[w].vm /\ job'[w].has = job[w].has
        /\ job'[w].old = job[w].old /\ job'[w].loose = job[w].loose
    <3> DEFINE j == [job[w] EXCEPT !.at = "ensure", !.res = TRUE, !.todo = {}]
    <3>1. job \in [Workers -> JobSet] /\ job[w] \in JobSet /\ "ensure" \in Stages
        BY <1>2 DEF JobTyped, Stages, Starts
    <3>2. /\ j \in JobSet /\ j.at = "ensure" /\ j.res = TRUE /\ j.kind = job[w].kind
          /\ j.vm = job[w].vm /\ j.has = job[w].has /\ j.old = job[w].old /\ j.loose = job[w].loose
        BY <3>1 DEF JobSet
    <3>3. job' = [job EXCEPT ![w] = j]
        BY <1>4, <3>1
    <3> HIDE DEF j
    <3>4. QED
        BY <1>2, <3>2, <3>3, EntryShape
  <2>2. job'[w].at \in Starts /\ job'[w].at \notin Cleans /\ job'[w].at \notin Waits
      BY <2>1 DEF Starts, Cleans, Waits, Early
  <2>3. JobOK(w) /\ ShotOK(w) /\ OneHolder /\ \A x \in Workers : Reserved(x)
      BY DEF VmInv
  <2>4. JobOK(w)'
      BY <1>2, <2>1, <2>2 DEF JobOK, Waits
  <2>5. LockOK(w)' /\ LooseOK(w)'
      BY <1>2, <2>1, <2>2 DEF LockOK, LooseOK
  <2>6. Reserved(w)'
      BY <1>2, <1>4, <2>1, <2>2 DEF Reserved, Owning
  <2>7. ShotOK(w)'
    <3>1. ~Waiting(w)'
        BY <2>2 DEF Waiting
    <3>2. QED
        BY <1>0, <1>2, <2>1, <2>3, <3>1 DEF ShotOK, Others, Calm
  <2>8. WorkOK(w)'
      BY <2>1 DEF WorkOK
  <2>9. KeysOK(w)
      BY <1>4, <2>1, <2>3 DEF KeysOK, OneHolder, Reserved
  <2>10. GivesUp(w) /\ starting' \subseteq Vms /\ handles' \subseteq Vms
      BY <1>0, <1>2, <1>4 DEF GivesUp, VmInv, VmTypeOK
  <2>11. Stranger(w)
      BY <2>1, KeptNames
  <2>12. Own(w)'
      BY <2>4, <2>5, <2>6, <2>7, <2>8 DEF Own
  <2>13. QED
      BY <1>0, <1>4, <1>rest, <2>1, <2>9, <2>10, <2>11, <2>12, CalmStep
<1>5. overrun' = (overrun \/ ~({x \in up : manifest[x] # 0} \subseteq job[w].todo \cup starting))
      => overrun' \in BOOLEAN
    OBVIOUS
<1>6. QED
    BY <1>3, <1>4, <1>5 DEF Admit

\* The start fails or begins anew: the call cleans up its own machine.
LEMMA StartCleans ==
  ASSUME VmInv, NEW w \in Workers, job[w].at \in Starts, ~job[w].loose, NEW keep \in BOOLEAN,
         NEW then \in OwnThens, CleansUp(w, job[w].vm, job[w].has, keep, then),
         then = "launch" => manifest[job[w].vm] # 0 /\ keep,
         UNCHANGED <<manifest, handles, adrift, starting>>
  PROVE  JobTyped' /\ Others(w) /\ Own(w)' /\ KeysOK(w) /\ Stranger(w)
<1>1. /\ job[w].kind = "acquire" /\ job[w].vm \in Vms /\ Owning(w)
      /\ job[w].has = SandboxOf[job[w].vm] /\ job[w].has \in LockKeys
    BY StartFacts
<1>2. /\ then \in Thens \ {"none"} /\ then \notin OldThens \cup NewThens
      /\ then \notin {"stale", "expired", "replace", "gate", "done"}
    BY DEF OwnThens, Thens, OldThens, NewThens
<1>3. PICK v \in Vms, has \in LockKeys : v = job[w].vm /\ has = job[w].has
    BY <1>1
<1>4. CleansUp(w, v, has, keep, then) /\ CleanFits(w, v, has, then)
    BY <1>1, <1>2, <1>3 DEF CleanFits
<1>5. /\ JobTyped' /\ Others(w) /\ Own(w)' /\ KeysOK(w) /\ job'[w].vm = job[w].vm
      /\ job'[w].old = job[w].vm
    BY <1>2, <1>3, <1>4, CleanOwn
<1>6. QED
    BY <1>5, KeptNames

\* The machine a call works on is its own, or adrift.
LEMMA WorkFacts ==
  ASSUME VmInv, NEW w \in Workers, job[w].at \in Starts \cup Cleans
  PROVE  /\ Target(w) \in Vms
         /\ ~job[w].loose => Holds(w)
         /\ job[w].loose => Target(w) \in adrift
<1>1. JobOK(w) /\ LooseOK(w)
    BY DEF VmInv
<1>2. CASE job[w].at \in Cleans
  <2>1. Target(w) = job[w].old /\ job[w].old \in Vms
      BY <1>1, <1>2 DEF JobOK, Target
  <2>2. QED
      BY <1>1, <1>2, <2>1, KeyFacts DEF LooseOK, Holds
<1>3. CASE job[w].at \in Starts
    BY <1>3, StartFacts
<1>4. QED
    BY <1>2, <1>3

\* A step on the machine a call works on.
LEMMA WorkStep ==
  ASSUME VmInv, NEW w \in Workers, job[w].at \in Starts \cup Cleans,
         JobTyped', Others(w), Stranger(w), Own(w)', KeysOK(w),
         UNCHANGED <<handles, adrift, overrun>>, GivesUp(w), starting' \subseteq Vms,
         \A v \in Vms \ {Target(w)} :
           /\ manifest'[v] = manifest[v] /\ (v \in up' => v \in up)
           /\ v \in tracked' => v \in tracked \cup up
           /\ \A s \in VmSlots : claimed[s] = v => claimed'[s] = v,
         TargetOK(w), WarmOK', VmTypeOK'
  PROVE  VmInv'
<1>1. \A v \in Vms \ adrift : ~(Holds(w) /\ Target(w) = v) => v \in Vms \ {Target(w)}
    BY WorkFacts
<1>2. Frame(w)
    BY <1>1 DEF Frame, GivesUp, Stranger
<1>3. QED
    BY <1>2, Assemble

\* ensure_machine, and what follows the launch.
LEMMA EnsureStep ==
  ASSUME VmInv, NEW w \in Workers, Ensure(w) \/ Ready(w)
  PROVE  VmInv'
<1>0. Still /\ UNCHANGED <<lease, stamp, warm>> /\ overrun' = overrun /\ job[w].at \in {"ensure", "ready"}
    BY DEF Ensure, Ready, Stage, vmDisk, memory, vmHistory, Still
<1>1. job[w].at \in Starts /\ ~job[w].loose
    BY <1>0, StartFacts DEF Starts
<1>2. ASSUME NEW stage \in {"claim", "touch"}, Goes(w, stage),
             stage = "claim" => manifest[job[w].vm] = 0
      PROVE  VmInv'
  <2>1. stage \in Stages /\ stage \in Starts /\ stage \notin Cleans
      BY DEF Stages, Starts, Cleans
  <2>2. /\ JobTyped' /\ Others(w) /\ job'[w].at = stage
        /\ job'[w].kind = job[w].kind /\ job'[w].vm = job[w].vm /\ job'[w].has = job[w].has
        /\ job'[w].res = job[w].res /\ job'[w].old = job[w].old /\ job'[w].loose = job[w].loose
      BY <1>2, <2>1, GoesShape DEF VmInv
  <2>3. WorkOK(w)'
      BY <1>0, <1>2, <2>1, <2>2 DEF WorkOK, Target, Still
  <2>4. Own(w)' /\ KeysOK(w) /\ Stranger(w)
      BY <1>0, <1>1, <2>1, <2>2, <2>3, StartOwn DEF Still
  <2>5. QED
      BY <1>0, <2>2, <2>4, SameRest, QuietStep
<1>3. ASSUME NEW keep \in BOOLEAN, NEW then \in OwnThens, CleansUp(w, job[w].vm, job[w].has, keep, then),
             then = "launch" => manifest[job[w].vm] # 0 /\ keep
      PROVE  VmInv'
    BY <1>0, <1>1, <1>3, StartCleans, SameRest, QuietStep DEF Still
<1>4. job[w].keep \in BOOLEAN /\ TRUE \in BOOLEAN /\ {"launch", "failed"} \subseteq OwnThens
    BY DEF VmInv, JobTyped, JobSet, OwnThens
<1>5. CASE Ensure(w)
  <2>1. \/ manifest[job[w].vm] = 0 /\ Goes(w, "claim")
        \/ Goes(w, "touch")
        \/ manifest[job[w].vm] # 0 /\ CleansUp(w, job[w].vm, job[w].has, TRUE, "launch")
      BY <1>5 DEF Ensure
  <2>2. QED
      BY <1>2, <1>3, <1>4, <2>1
<1>6. CASE Ready(w)
  <2>1. \/ Goes(w, "touch")
        \/ CleansUp(w, job[w].vm, job[w].has, job[w].keep, "failed")
      BY <1>6 DEF Ready
  <2>2. QED
      BY <1>2, <1>3, <1>4, <2>1
<1>7. QED
    BY <1>5, <1>6

LEMMA HandOutStep ==
  ASSUME VmInv, NEW w \in Workers, HandOut(w)
  PROVE  VmInv'
<1>0. /\ Calm /\ UNCHANGED stamp /\ overrun' = overrun /\ Fails(w) /\ job[w].at = "touch"
    BY DEF HandOut, Stage, Calm, vmHistory
<1>1. job[w].at \in Starts
    BY <1>0 DEF Starts
<1>2. job[w].vm \in Vms
    BY <1>1, StartFacts
<1>3. handles' \subseteq handles \cup {job[w].vm} /\ handles' \subseteq Vms
    BY <1>2 DEF HandOut, VmInv, VmTypeOK
<1>4. stamp' \subseteq Vms /\ lease' \in [Vms -> {"none", "fresh", "old"}]
    BY <1>0, <1>2 DEF HandOut, VmInv, VmTypeOK
<1>5. WarmOK' /\ warm' \in [Sandboxes -> Vms \cup {NoVm}]
  <2>1. CASE UNCHANGED warm
      BY <2>1 DEF VmInv, VmTypeOK, WarmOK
  <2>2. CASE job[w].vm \notin OneShots /\ warm' = [warm EXCEPT ![SandboxOf[job[w].vm]] = job[w].vm]
      BY <1>2, <2>2 DEF VmInv, VmTypeOK, WarmOK
  <2>3. QED
      BY <2>1, <2>2 DEF HandOut
<1>6. QED
    BY <1>0, <1>3, <1>4, <1>5, FailStep

\* The types after a step that leaves the tables in memory alone.
LEMMA WorkTypes ==
  ASSUME VmInv, UNCHANGED <<handles, adrift, overrun, warm>>, JobTyped', starting' \subseteq Vms,
         up' \subseteq Vms, tracked' \subseteq Vms, stamp' \subseteq Vms,
         manifest' \in [Vms -> VmSlots \cup {0}], claimed' \in [VmSlots -> Vms \cup {NoVm}],
         lease' \in [Vms -> {"none", "fresh", "old"}]
  PROVE  VmTypeOK' /\ WarmOK'
<1>1. VmTypeOK'
    BY DEF VmInv, VmTypeOK, JobTyped, JobSet
<1>2. WarmOK'
    BY DEF VmInv, WarmOK
<1>3. QED
    BY <1>1, <1>2

\* new_machine_record claims the first slot that is not claimed.
LEMMA ClaimStep ==
  ASSUME VmInv, NEW w \in Workers, ClaimSlot(w)
  PROVE  VmInv'
<1>0. /\ UNCHANGED <<up, manifest, lease, stamp, warm, tracked, handles, adrift, overrun>>
      /\ job[w].at = "claim"
    BY DEF ClaimSlot, Stage, vmHistory
<1>1. job[w].at \in Starts
    BY <1>0 DEF Starts
<1>2. /\ JobTyped /\ job[w].vm \in Vms /\ Target(w) = job[w].vm /\ WorkOK(w)
      /\ claimed \in [VmSlots -> Vms \cup {NoVm}]
    BY <1>1, StartFacts DEF VmInv, VmTypeOK
<1>3. CASE Fails(w) /\ UNCHANGED claimed
  <2>1. Calm
      BY <1>0, <1>3 DEF Calm
  <2>2. handles' \subseteq handles \cup {job[w].vm} /\ handles' \subseteq Vms
      BY <1>0 DEF VmInv, VmTypeOK
  <2>3. QED
      BY <1>0, <1>3, <2>1, <2>2, SameRest, FailStep
<1>4. ASSUME NEW s \in VmSlots, claimed[s] = NoVm, UNCHANGED starting,
             claimed' = [claimed EXCEPT ![s] = job[w].vm],
             job' = [job EXCEPT ![w].at = "write", ![w].slot = s]
      PROVE  VmInv'
  <2>1. /\ JobTyped' /\ Others(w) /\ job'[w].at = "write" /\ job'[w].slot = s
        /\ job'[w].kind = job[w].kind /\ job'[w].vm = job[w].vm /\ job'[w].has = job[w].has
        /\ job'[w].res = job[w].res /\ job'[w].old = job[w].old /\ job'[w].loose = job[w].loose
    <3> DEFINE j == [job[w] EXCEPT !.at = "write", !.slot = s]
    <3>1. job \in [Workers -> JobSet] /\ job[w] \in JobSet /\ "write" \in Stages
        BY <1>2 DEF JobTyped, Stages, Starts
    <3>2. /\ j \in JobSet /\ j.at = "write" /\ j.slot = s /\ j.kind = job[w].kind
          /\ j.vm = job[w].vm /\ j.has = job[w].has /\ j.res = job[w].res
          /\ j.old = job[w].old /\ j.loose = job[w].loose
        BY <3>1 DEF JobSet
    <3>3. job' = [job EXCEPT ![w] = j]
        BY <1>4, <3>1
    <3> HIDE DEF j
    <3>4. QED
        BY <1>2, <3>2, <3>3, EntryShape
  <2>2. job'[w].at \in Starts /\ job'[w].at \notin Cleans
      BY <2>1 DEF Starts, Cleans
  <2>3. claimed' \in [VmSlots -> Vms \cup {NoVm}] /\ claimed'[s] = job[w].vm
        /\ \A t \in VmSlots : claimed[t] # NoVm => claimed'[t] = claimed[t]
      BY <1>2, <1>4
  <2>4. Holds(w)' => Holds(w)
      BY <1>1, <2>1 DEF Holds
  <2>5. Holds(w) /\ Target(w) \notin adrift => manifest[job[w].vm] = 0
      BY <1>0, <1>2 DEF WorkOK
  <2>6. Target(w)' = job[w].vm
      BY <2>1, <2>2 DEF Target
  <2>7. WorkOK(w)'
      BY <1>0, <1>2, <2>1, <2>3, <2>4, <2>5, <2>6 DEF WorkOK
  <2>8. Own(w)' /\ KeysOK(w) /\ Stranger(w)
      BY <1>0, <1>1, <1>4, <2>1, <2>2, <2>7, StartOwn
  <2>9. TargetOK(w)
      BY <1>0, <1>2, <2>5 DEF TargetOK, VmInv, MachinesOnRecord, VmOnRecord, AddressesExclusive
  <2>10. VmTypeOK' /\ WarmOK'
      BY <1>0, <1>4, <2>1, <2>3, WorkTypes DEF VmInv, VmTypeOK
  <2>11. GivesUp(w) /\ starting' \subseteq Vms
      BY <1>4 DEF GivesUp, VmInv, VmTypeOK
  <2>12. \A v \in Vms \ {Target(w)} :
           /\ manifest'[v] = manifest[v] /\ (v \in up' => v \in up)
           /\ v \in tracked' => v \in tracked \cup up
           /\ \A t \in VmSlots : claimed[t] = v => claimed'[t] = v
      BY <1>0, <2>3, KeyFacts
  <2>13. QED
      BY <1>0, <1>1, <2>1, <2>8, <2>9, <2>10, <2>11, <2>12, WorkStep
<1>5. QED
    BY <1>3, <1>4 DEF ClaimSlot

\* release_resource_slot takes no slot from another machine.
LEMMA ReleasedKeeps ==
  ASSUME VmInv, NEW v \in Vms, NEW slot
  PROVE  /\ Released(slot, v) \in [VmSlots -> Vms \cup {NoVm}]
         /\ \A u \in Vms \ {v}, s \in VmSlots : claimed[s] = u => Released(slot, v)[s] = u
         /\ \A s \in VmSlots : s # slot => Released(slot, v)[s] = claimed[s]
BY DEF Released, VmInv, VmTypeOK

LEMMA WriteStep ==
  ASSUME VmInv, NEW w \in Workers, WriteManifest(w)
  PROVE  VmInv'
<1>0. /\ UNCHANGED <<up, lease, warm, tracked, handles, adrift, overrun>> /\ job[w].at = "write"
    BY DEF WriteManifest, Stage, vmHistory
<1>1. job[w].at \in Starts
    BY <1>0 DEF Starts
<1>2. /\ JobTyped /\ job[w].vm \in Vms /\ Target(w) = job[w].vm /\ WorkOK(w)
      /\ job[w].slot \in VmSlots \cup {0} /\ (~job[w].loose => Holds(w))
    BY <1>1, StartFacts DEF VmInv, JobTyped, JobSet
<1>types. /\ claimed \in [VmSlots -> Vms \cup {NoVm}] /\ manifest \in [Vms -> VmSlots \cup {0}]
          /\ up \subseteq Vms /\ tracked \subseteq Vms /\ stamp \subseteq Vms /\ starting \subseteq Vms
          /\ lease \in [Vms -> {"none", "fresh", "old"}]
    BY DEF VmInv, VmTypeOK
<1>3. Holds(w) /\ Target(w) \notin adrift =>
        /\ manifest[job[w].vm] = 0 /\ job[w].slot \in VmSlots /\ claimed[job[w].slot] = job[w].vm
        /\ job[w].vm \notin up \cup tracked
    BY <1>0, <1>2 DEF WorkOK, VmInv, MachinesOnRecord, VmOnRecord, AddressesExclusive
<1>4. CASE claimed' = Released(job[w].slot, job[w].vm) /\ Fails(w) /\ UNCHANGED <<manifest, stamp>>
  <2>1. JobTyped' /\ Others(w) /\ Own(w)' /\ KeysOK(w) /\ Stranger(w)
      BY <1>4, ReturnOwn DEF Fails
  <2>2. GivesUp(w) /\ starting' \subseteq Vms
      BY <1>4, <1>types DEF Fails, Unreserved, GivesUp
  <2>3. /\ claimed' \in [VmSlots -> Vms \cup {NoVm}]
        /\ \A u \in Vms \ {job[w].vm}, s \in VmSlots : claimed[s] = u => claimed'[s] = u
      BY <1>2, <1>4, ReleasedKeeps
  <2>4. VmTypeOK' /\ WarmOK'
      BY <1>0, <1>4, <1>types, <2>1, <2>2, <2>3, WorkTypes
  <2>5. TargetOK(w)
      BY <1>0, <1>2, <1>3, <1>4 DEF TargetOK
  <2>6. QED
      BY <1>0, <1>1, <1>2, <1>4, <2>1, <2>2, <2>3, <2>4, <2>5, WorkStep
<1>5. CASE /\ manifest' = [manifest EXCEPT ![job[w].vm] = job[w].slot]
           /\ stamp' = stamp \cup {job[w].vm}
           /\ UNCHANGED <<claimed, starting>>
           /\ IF job[w].loose THEN Returns(w)
                              ELSE job' = [job EXCEPT ![w].at = "launch", ![w].slot = 0]
  <2>0. /\ manifest' \in [Vms -> VmSlots \cup {0}] /\ manifest'[job[w].vm] = job[w].slot
        /\ \A v \in Vms \ {job[w].vm} : manifest'[v] = manifest[v]
        /\ stamp' \subseteq Vms
      BY <1>2, <1>5, <1>types
  <2>1. JobTyped' /\ Others(w) /\ Own(w)' /\ KeysOK(w) /\ Stranger(w)
    <3>1. CASE job[w].loose
        BY <1>5, <3>1, ReturnOwn
    <3>2. CASE ~job[w].loose
      <4>1. /\ JobTyped' /\ Others(w) /\ job'[w].at = "launch"
            /\ job'[w].kind = job[w].kind /\ job'[w].vm = job[w].vm /\ job'[w].has = job[w].has
            /\ job'[w].res = job[w].res /\ job'[w].old = job[w].old /\ job'[w].loose = job[w].loose
        <5> DEFINE j == [job[w] EXCEPT !.at = "launch", !.slot = 0]
        <5>1. job \in [Workers -> JobSet] /\ job[w] \in JobSet /\ "launch" \in Stages
            BY <1>2 DEF JobTyped, Stages, Starts
        <5>2. /\ j \in JobSet /\ j.at = "launch" /\ j.kind = job[w].kind
              /\ j.vm = job[w].vm /\ j.has = job[w].has /\ j.res = job[w].res
              /\ j.old = job[w].old /\ j.loose = job[w].loose
            BY <5>1 DEF JobSet
        <5>3. job' = [job EXCEPT ![w] = j]
            BY <1>5, <3>2, <5>1
        <5> HIDE DEF j
        <5>4. QED
            BY <1>2, <5>2, <5>3, EntryShape
      <4>2. job'[w].at \in Starts /\ job'[w].at \notin Cleans
          BY <4>1 DEF Starts, Cleans
      <4>3. Target(w)' = job[w].vm
          BY <4>1, <4>2 DEF Target
      <4>4. job[w].vm \notin adrift => job[w].slot # 0
          BY <1>2, <1>3, <3>2, VmAssumption DEF VmAssumption
      <4>5. WorkOK(w)'
          BY <1>0, <2>0, <4>1, <4>3, <4>4 DEF WorkOK
      <4>6. QED
          BY <1>0, <1>1, <1>5, <3>2, <4>1, <4>2, <4>5, StartOwn
    <3>3. QED
        BY <3>1, <3>2
  <2>2. GivesUp(w) /\ starting' \subseteq Vms
      BY <1>5, <1>types DEF GivesUp
  <2>3. VmTypeOK' /\ WarmOK'
      BY <1>0, <1>5, <1>types, <2>0, <2>1, <2>2, WorkTypes
  <2>4. TargetOK(w)
      BY <1>0, <1>2, <1>3, <1>5, <2>0 DEF TargetOK
  <2>5. QED
      BY <1>0, <1>1, <1>2, <1>5, <2>0, <2>1, <2>2, <2>3, <2>4, WorkStep
<1>6. QED
    BY <1>4, <1>5 DEF WriteManifest

LEMMA LaunchStep ==
  ASSUME VmInv, NEW w \in Workers, Launch(w)
  PROVE  VmInv'
<1>0. /\ UNCHANGED <<manifest, claimed, lease, stamp, warm, starting, tracked, handles, adrift, overrun>>
      /\ job[w].at = "launch" /\ up' \in {up, up \cup {job[w].vm}}
    BY DEF Launch, Stage, vmDisk, memory, vmHistory
<1>1. job[w].at \in Starts
    BY <1>0 DEF Starts
<1>2. JobTyped /\ job[w].vm \in Vms /\ Target(w) = job[w].vm /\ WorkOK(w) /\ job[w].keep \in BOOLEAN
    BY <1>1, StartFacts DEF VmInv, JobTyped, JobSet
<1>3. Holds(w) /\ Target(w) \notin adrift => manifest[job[w].vm] # 0
    BY <1>0, <1>2 DEF WorkOK
<1>4. JobTyped' /\ Others(w) /\ Own(w)' /\ KeysOK(w) /\ Stranger(w)
  <2>1. CASE Returns(w)
      BY <2>1, ReturnOwn
  <2>2. CASE Goes(w, "ready") /\ ~job[w].loose
    <3>1. "ready" \in Stages /\ "ready" \in Starts /\ "ready" \notin Cleans
        BY DEF Stages, Starts, Cleans
    <3>2. /\ JobTyped' /\ Others(w) /\ job'[w].at = "ready"
          /\ job'[w].kind = job[w].kind /\ job'[w].vm = job[w].vm /\ job'[w].has = job[w].has
          /\ job'[w].res = job[w].res /\ job'[w].old = job[w].old /\ job'[w].loose = job[w].loose
        BY <1>2, <2>2, <3>1, GoesShape
    <3>3. WorkOK(w)'
        BY <3>2 DEF WorkOK
    <3>4. QED
        BY <1>0, <1>1, <2>2, <3>1, <3>2, <3>3, StartOwn
  <2>3. CASE ~job[w].loose /\ CleansUp(w, job[w].vm, job[w].has, job[w].keep, "failed")
    <3>1. "failed" \in OwnThens
        BY DEF OwnThens
    <3>2. QED
        BY <1>0, <1>1, <1>2, <2>3, <3>1, StartCleans
  <2>4. QED
      BY <2>1, <2>2, <2>3 DEF Launch
<1>5. GivesUp(w) /\ starting' \subseteq Vms /\ up' \subseteq Vms
    BY <1>0, <1>2 DEF GivesUp, VmInv, VmTypeOK
<1>6. VmTypeOK' /\ WarmOK'
    BY <1>0, <1>4, <1>5, WorkTypes DEF VmInv, VmTypeOK
<1>7. TargetOK(w)
    BY <1>0, <1>2, <1>3 DEF TargetOK, VmInv, MachinesOnRecord, AddressesExclusive
<1>8. QED
    BY <1>0, <1>1, <1>2, <1>4, <1>5, <1>6, <1>7, WorkStep

--------------------------------------------------------------------------------
(* cleanup_machine.                                                             *)

LEMMA CleanFacts ==
  ASSUME VmInv, NEW w \in Workers, job[w].at \in Cleans
  PROVE  /\ JobTyped /\ JobOK(w) /\ LockOK(w) /\ Reserved(w) /\ ShotOK(w) /\ WorkOK(w) /\ LooseOK(w)
         /\ OneHolder /\ Target(w) = job[w].old /\ job[w].old \in Vms
         /\ job[w].at \notin Starts /\ (Holds(w) <=> ~job[w].loose)
<1>1. /\ JobTyped /\ JobOK(w) /\ LockOK(w) /\ Reserved(w) /\ ShotOK(w) /\ WorkOK(w) /\ LooseOK(w)
      /\ OneHolder
    BY DEF VmInv
<1>2. QED
    BY <1>1 DEF JobOK, Target, Holds, Starts, Cleans

\* The reaper goes on with its list.
LEMMA BackToList ==
  ASSUME VmInv, NEW w \in Workers, job[w].at \in Cleans, ~job[w].loose,
         job[w].then \in {"stale", "expired"}, UNCHANGED <<manifest, handles, adrift>>,
         job' = [job EXCEPT ![w] = [NoJob EXCEPT !.kind = job[w].kind, !.vm = job[w].vm,
                                    !.at = job[w].then, !.todo = job[w].todo \ {job[w].old}]]
  PROVE  JobTyped' /\ Others(w) /\ Own(w)' /\ KeysOK(w) /\ Stranger(w)
<1>0. JobTyped /\ JobOK(w) /\ ShotOK(w)
    BY CleanFacts
<1>1. /\ JobTyped' /\ Others(w) /\ job'[w].kind = job[w].kind /\ job'[w].vm = job[w].vm
      /\ job'[w].at = job[w].then /\ job'[w].has = NoVm /\ job'[w].res = FALSE
      /\ job'[w].old = NoVm /\ job'[w].loose = FALSE
  <2> DEFINE j == [NoJob EXCEPT !.kind = job[w].kind, !.vm = job[w].vm,
                                !.at = job[w].then, !.todo = job[w].todo \ {job[w].old}]
  <2>1. job[w] \in JobSet /\ job[w].then \in Stages
      BY <1>0 DEF JobTyped, Stages
  <2>2. "none" \in Kinds /\ "none" \in Thens
      BY DEF Kinds, Thens
  <2>3. /\ j \in JobSet /\ j.kind = job[w].kind /\ j.vm = job[w].vm /\ j.at = job[w].then
        /\ j.has = NoVm /\ j.res = FALSE /\ j.old = NoVm /\ j.loose = FALSE
      BY <2>1, <2>2 DEF JobSet, NoJob
  <2>4. job' = [job EXCEPT ![w] = j]
      OBVIOUS
  <2> HIDE DEF j
  <2>5. QED
      BY <1>0, <2>3, <2>4, EntryShape
<1>2. /\ job'[w].at \notin {"idle", "lock", "use"} \cup Early \cup Starts \cup Cleans
      /\ job'[w].at \in {"stale", "expired"}
    BY <1>1 DEF Early, Starts, Cleans
<1>3. JobOK(w)'
    BY <1>0, <1>1, <1>2 DEF JobOK
<1>4. LockOK(w)' /\ LooseOK(w)' /\ WorkOK(w)' /\ Reserved(w)'
    BY <1>1, <1>2 DEF LockOK, LooseOK, WorkOK, Reserved, Owning, Holds
<1>5. ShotOK(w)'
  <2>1. Waiting(w)
      BY DEF Waiting
  <2>2. QED
      BY <1>0, <1>1, <1>2, <2>1 DEF ShotOK, Others
<1>6. KeysOK(w) /\ Stranger(w)
    BY <1>1, KeptNames DEF KeysOK
<1>7. QED
    BY <1>1, <1>3, <1>4, <1>5, <1>6 DEF Own

\* The call goes on with its acquisition.
LEMMA BackToStart ==
  ASSUME VmInv, NEW w \in Workers, job[w].at \in Cleans, ~job[w].loose,
         job[w].then \in {"replace", "gate", "launch"}, UNCHANGED <<manifest, handles, adrift, starting>>,
         job' = [job EXCEPT ![w].at = job[w].then, ![w].old = NoVm, ![w].slot = 0,
                            ![w].then = "none"]
  PROVE  JobTyped' /\ Others(w) /\ Own(w)' /\ KeysOK(w) /\ Stranger(w)
<1>0. JobTyped /\ JobOK(w) /\ LockOK(w) /\ Reserved(w) /\ ShotOK(w) /\ WorkOK(w) /\ OneHolder
      /\ Target(w) = job[w].old /\ Holds(w)
    BY CleanFacts
<1>1. /\ JobTyped' /\ Others(w) /\ job'[w].kind = job[w].kind /\ job'[w].vm = job[w].vm
      /\ job'[w].at = job[w].then /\ job'[w].has = job[w].has /\ job'[w].res = job[w].res
      /\ job'[w].old = NoVm /\ job'[w].loose = job[w].loose
  <2> DEFINE j == [job[w] EXCEPT !.at = job[w].then, !.old = NoVm, !.slot = 0, !.then = "none"]
  <2>1. job \in [Workers -> JobSet] /\ job[w] \in JobSet /\ job[w].then \in Stages /\ "none" \in Thens
      BY <1>0 DEF JobTyped, Stages, Early, Starts, Thens
  <2>2. /\ j \in JobSet /\ j.kind = job[w].kind /\ j.vm = job[w].vm /\ j.at = job[w].then
        /\ j.has = job[w].has /\ j.res = job[w].res /\ j.old = NoVm /\ j.loose = job[w].loose
      BY <2>1 DEF JobSet
  <2>3. job' = [job EXCEPT ![w] = j]
      BY <2>1
  <2> HIDE DEF j
  <2>4. QED
      BY <1>0, <2>2, <2>3, EntryShape
<1>2. /\ job'[w].at \notin {"idle", "use", "scan", "stale", "scan expired", "expired"} \cup Cleans
      /\ job'[w].at \in Early \cup Starts /\ (job'[w].at \in Starts <=> job[w].then = "launch")
      /\ job[w].then \in NewThens \cup OwnThens
      /\ (job[w].then \in OwnThens <=> job[w].then = "launch")
    BY <1>1 DEF Early, Starts, Cleans, NewThens, OwnThens
<1>3. job[w].kind = "acquire" /\ job[w].has = SandboxOf[job[w].vm]
    BY <1>0, <1>2 DEF JobOK, LockOK
<1>4. JobOK(w)'
    BY <1>0, <1>1, <1>2, <1>3 DEF JobOK
<1>5. LockOK(w)' /\ LooseOK(w)'
    BY <1>1, <1>2, <1>3 DEF LockOK, LooseOK
<1>6. Reserved(w)'
  <2>1. Owning(w)' <=> Owning(w)
      BY <1>1, <1>2, CleanFacts DEF Owning
  <2>2. QED
      BY <1>0, <1>1, <2>1 DEF Reserved
<1>7. ShotOK(w)'
  <2>1. Waiting(w)' => Waiting(w)
      BY <1>1, <1>2 DEF Waiting, Waits, Early
  <2>2. QED
      BY <1>0, <1>1, <1>2, <2>1 DEF ShotOK, Others
<1>8. WorkOK(w)'
  <2>1. job[w].then = "launch" => job[w].at = "kill" /\ job[w].old = job[w].vm
      BY <1>0, <1>2 DEF JobOK
  <2>2. Target(w)' = job[w].vm
      BY <1>1, <1>2 DEF Target
  <2>3. QED
      BY <1>0, <1>1, <2>1, <2>2 DEF WorkOK
<1>9. KeysOK(w) /\ Stranger(w)
    BY <1>0, <1>1, KeptNames DEF KeysOK, OneHolder
<1>10. QED
    BY <1>1, <1>4, <1>5, <1>6, <1>7, <1>8, <1>9 DEF Own

LEMMA AfterOwn ==
  ASSUME VmInv, NEW w \in Workers, job[w].at \in Cleans, AfterCleanup(w),
         UNCHANGED <<manifest, handles, adrift>>
  PROVE  /\ JobTyped' /\ Others(w) /\ Own(w)' /\ KeysOK(w) /\ Stranger(w)
         /\ GivesUp(w) /\ starting' \subseteq Vms
<1>0. starting \subseteq Vms
    BY DEF VmInv, VmTypeOK
<1>1. CASE job[w].loose \/ job[w].then = "done"
  <2>1. Returns(w) /\ UNCHANGED starting
      BY <1>1 DEF AfterCleanup
  <2>2. QED
      BY <1>0, <2>1, ReturnOwn DEF GivesUp
<1>2. CASE ~(job[w].loose \/ job[w].then = "done") /\ job[w].then = "failed"
  <2>1. Fails(w)
      BY <1>2 DEF AfterCleanup
  <2>2. QED
      BY <1>0, <2>1, ReturnOwn DEF GivesUp, Fails, Unreserved
<1>3. CASE ~(job[w].loose \/ job[w].then = "done") /\ job[w].then # "failed"
  <2>1. CASE job[w].then \in {"stale", "expired"}
    <3>1. /\ job' = [job EXCEPT ![w] = [NoJob EXCEPT !.kind = job[w].kind, !.vm = job[w].vm,
                                         !.at = job[w].then, !.todo = job[w].todo \ {job[w].old}]]
          /\ UNCHANGED starting
        BY <1>3, <2>1 DEF AfterCleanup
    <3>2. QED
        BY <1>0, <1>3, <2>1, <3>1, BackToList DEF GivesUp
  <2>2. CASE job[w].then \notin {"stale", "expired"}
    <3>1. /\ job' = [job EXCEPT ![w].at = job[w].then, ![w].old = NoVm, ![w].slot = 0,
                                ![w].then = "none"]
          /\ UNCHANGED starting
        BY <1>3, <2>2 DEF AfterCleanup
    <3>2. job[w].then \in {"replace", "gate", "launch"}
        BY <1>3, <2>2, CleanFacts DEF JobOK, OldThens, NewThens, OwnThens
    <3>3. QED
        BY <1>0, <1>3, <3>1, <3>2, BackToStart DEF GivesUp
  <2>3. QED
      BY <2>1, <2>2
<1>4. QED
    BY <1>1, <1>2, <1>3

\* The cleanup goes on to the files and to the slot.
LEMMA CleanGoes ==
  ASSUME VmInv, NEW w \in Workers, job[w].at \in Cleans, NEW stage \in Cleans \ {"kill"}, Goes(w, stage),
         job[w].then # "launch", UNCHANGED <<handles, adrift, starting>>,
         \A v \in Vms : manifest[v] = 0 => manifest'[v] = 0, WorkOK(w)'
  PROVE  JobTyped' /\ Others(w) /\ Own(w)' /\ KeysOK(w) /\ Stranger(w)
<1>0. /\ JobTyped /\ JobOK(w) /\ LockOK(w) /\ Reserved(w) /\ ShotOK(w) /\ LooseOK(w) /\ OneHolder
      /\ stage \in Stages /\ stage \notin Starts /\ job[w].at \notin Starts
    BY CleanFacts DEF Stages, Cleans, Starts
<1>1. /\ JobTyped' /\ Others(w) /\ job'[w].at = stage
      /\ job'[w].kind = job[w].kind /\ job'[w].vm = job[w].vm /\ job'[w].has = job[w].has
      /\ job'[w].res = job[w].res /\ job'[w].old = job[w].old /\ job'[w].then = job[w].then
      /\ job'[w].loose = job[w].loose
    BY <1>0, GoesShape
<1>2. stage \notin {"idle", "use", "lock", "scan", "stale", "scan expired", "expired"} \cup Early
    BY DEF Cleans, Early
<1>3. JobOK(w)'
    BY <1>0, <1>1, <1>2 DEF JobOK
<1>4. LockOK(w)' /\ LooseOK(w)'
    BY <1>0, <1>1, <1>2 DEF LockOK, LooseOK
<1>5. Reserved(w)'
  <2>1. Owning(w)' <=> Owning(w)
      BY <1>0, <1>1 DEF Owning
  <2>2. QED
      BY <1>0, <1>1, <2>1 DEF Reserved
<1>6. ShotOK(w)'
  <2>1. Waiting(w)' <=> Waiting(w)
    <3>1. stage \notin Waits /\ job[w].at \notin Waits
        BY DEF Cleans, Waits, Early
    <3>2. QED
        BY <1>1, <3>1 DEF Waiting
  <2>2. job[w].kind = "acquire" => job[w].vm \in Vms
      BY <1>0 DEF JobOK
  <2>3. QED
      BY <1>0, <1>1, <2>1, <2>2 DEF ShotOK, Others
<1>7. KeysOK(w) /\ Stranger(w)
    BY <1>0, <1>1, KeptNames DEF KeysOK, OneHolder
<1>8. QED
    BY <1>1, <1>3, <1>4, <1>5, <1>6, <1>7 DEF Own

LEMMA KillStep ==
  ASSUME VmInv, NEW w \in Workers, KillVm(w)
  PROVE  VmInv'
<1>0. /\ UNCHANGED <<manifest, claimed, lease, stamp, warm, handles, adrift, overrun>>
      /\ job[w].at = "kill" /\ tracked' = tracked \ {job[w].old}
    BY DEF KillVm, Stage, vmDisk, vmHistory
<1>1. job[w].at \in Cleans
    BY <1>0 DEF Cleans
<1>2. /\ JobTyped /\ JobOK(w) /\ Target(w) = job[w].old /\ job[w].old \in Vms
      /\ starting \subseteq Vms /\ up \subseteq Vms
    BY <1>1, CleanFacts DEF VmInv, VmTypeOK
<1>3. /\ JobTyped' /\ Others(w) /\ Own(w)' /\ KeysOK(w) /\ Stranger(w)
      /\ GivesUp(w) /\ starting' \subseteq Vms
      /\ up' = up \ {job[w].old} \/ up' = up
  <2>1. CASE AfterCleanup(w) /\ up' = up \ {job[w].old}
      BY <1>0, <1>1, <2>1, AfterOwn
  <2>2. CASE ~(job[w].keep \/ job[w].loose) /\ Goes(w, "files") /\ UNCHANGED starting
             /\ up' = up \ {job[w].old}
    <3>1. "files" \in Cleans \ {"kill"} /\ "files" \in Stages
        BY DEF Cleans, Stages
    <3>2. job[w].then # "launch"
        BY <1>1, <1>2, <2>2 DEF JobOK
    <3>3. job'[w].at = "files" /\ job'[w].old = job[w].old
        BY <1>2, <2>2, <3>1, GoesShape
    <3>4. Target(w)' = job[w].old
        BY <3>1, <3>3 DEF Target
    <3>5. WorkOK(w)'
        BY <1>0, <2>2, <3>3, <3>4 DEF WorkOK
    <3>6. QED
        BY <1>0, <1>1, <1>2, <2>2, <3>1, <3>2, <3>5, CleanGoes DEF GivesUp
  <2>3. CASE Fails(w) /\ UNCHANGED up
      BY <1>2, <2>3, ReturnOwn DEF GivesUp, Fails, Unreserved
  <2>4. QED
      BY <2>1, <2>2, <2>3 DEF KillVm
<1>4. up' \subseteq Vms /\ tracked' \subseteq Vms
    BY <1>0, <1>2, <1>3 DEF VmInv, VmTypeOK
<1>5. VmTypeOK' /\ WarmOK'
    BY <1>0, <1>3, <1>4, WorkTypes DEF VmInv, VmTypeOK
<1>6. TargetOK(w)
    BY <1>0, <1>2, <1>3 DEF TargetOK, VmInv, MachinesOnRecord, VmOnRecord, AddressesExclusive
<1>7. QED
    BY <1>0, <1>1, <1>2, <1>3, <1>5, <1>6, WorkStep

LEMMA RemoveStep ==
  ASSUME VmInv, NEW w \in Workers, RemoveManifest(w)
  PROVE  VmInv'
<1>0. /\ UNCHANGED <<up, claimed, lease, warm, starting, tracked, handles, adrift, overrun>>
      /\ job[w].at = "files" /\ manifest' = [manifest EXCEPT ![job[w].old] = 0]
      /\ stamp' = stamp \ {job[w].old} /\ Goes(w, "release")
    BY DEF RemoveManifest, Stage, memory, vmHistory
<1>1. job[w].at \in Cleans /\ "release" \in Cleans \ {"kill"} /\ "release" \in Stages
    BY <1>0 DEF Cleans, Stages
<1>2. JobTyped /\ JobOK(w) /\ WorkOK(w) /\ Target(w) = job[w].old /\ job[w].old \in Vms
      /\ (Holds(w) <=> ~job[w].loose)
    BY <1>1, CleanFacts
<1>3. /\ manifest' \in [Vms -> VmSlots \cup {0}] /\ manifest'[job[w].old] = 0 /\ stamp' \subseteq Vms
      /\ \A v \in Vms \ {job[w].old} : manifest'[v] = manifest[v]
    BY <1>0, <1>2 DEF VmInv, VmTypeOK
<1>4. job[w].then # "launch"
    BY <1>0, <1>1, <1>2 DEF JobOK
<1>5. job'[w].at = "release" /\ job'[w].old = job[w].old /\ job'[w].loose = job[w].loose
    BY <1>0, <1>1, <1>2, GoesShape
<1>6. Holds(w) /\ Target(w) \notin adrift => job[w].old \notin up \cup tracked
    BY <1>0, <1>2 DEF WorkOK
<1>7. WorkOK(w)'
  <2>1. Target(w)' = job[w].old
      BY <1>1, <1>5 DEF Target
  <2>2. Holds(w)' => Holds(w)
      BY <1>1, <1>5 DEF Holds
  <2>3. QED
      BY <1>0, <1>2, <1>3, <1>5, <1>6, <2>1, <2>2 DEF WorkOK
<1>8. JobTyped' /\ Others(w) /\ Own(w)' /\ KeysOK(w) /\ Stranger(w)
    BY <1>0, <1>1, <1>3, <1>4, <1>7, CleanGoes
<1>9. GivesUp(w) /\ starting' \subseteq Vms
    BY <1>0 DEF GivesUp, VmInv, VmTypeOK
<1>10. VmTypeOK' /\ WarmOK'
    BY <1>0, <1>3, <1>8, <1>9, WorkTypes DEF VmInv, VmTypeOK
<1>11. TargetOK(w)
    BY <1>0, <1>2, <1>3, <1>6 DEF TargetOK
<1>12. QED
    BY <1>0, <1>1, <1>2, <1>3, <1>8, <1>9, <1>10, <1>11, WorkStep

LEMMA ReleaseStep ==
  ASSUME VmInv, NEW w \in Workers, ReleaseSlot(w)
  PROVE  VmInv'
<1>0. /\ UNCHANGED <<up, manifest, stamp, warm, tracked, handles, adrift, overrun>>
      /\ job[w].at = "release" /\ lease' = [lease EXCEPT ![job[w].old] = "none"]
      /\ claimed' = Released(job[w].slot, job[w].old) /\ (AfterCleanup(w) \/ Fails(w))
    BY DEF ReleaseSlot, Stage, vmHistory
<1>1. job[w].at \in Cleans
    BY <1>0 DEF Cleans
<1>2. JobTyped /\ WorkOK(w) /\ Target(w) = job[w].old /\ job[w].old \in Vms
    BY <1>1, CleanFacts
<1>3. /\ JobTyped' /\ Others(w) /\ Own(w)' /\ KeysOK(w) /\ Stranger(w)
      /\ GivesUp(w) /\ starting' \subseteq Vms
  <2>1. CASE AfterCleanup(w)
      BY <1>0, <1>1, <2>1, AfterOwn
  <2>2. CASE Fails(w)
      BY <2>2, ReturnOwn DEF GivesUp, Fails, Unreserved, VmInv, VmTypeOK
  <2>3. QED
      BY <1>0, <2>1, <2>2
<1>4. /\ claimed' \in [VmSlots -> Vms \cup {NoVm}]
      /\ \A u \in Vms \ {job[w].old}, s \in VmSlots : claimed[s] = u => claimed'[s] = u
    BY <1>0, <1>2, ReleasedKeeps
<1>5. lease' \in [Vms -> {"none", "fresh", "old"}]
    BY <1>0 DEF VmInv, VmTypeOK
<1>6. VmTypeOK' /\ WarmOK'
    BY <1>0, <1>3, <1>4, <1>5, WorkTypes DEF VmInv, VmTypeOK
<1>7. TargetOK(w)
    BY <1>0, <1>2 DEF TargetOK, WorkOK
<1>8. QED
    BY <1>0, <1>1, <1>2, <1>3, <1>4, <1>6, <1>7, WorkStep

--------------------------------------------------------------------------------
(* Calls on a handle, and what calls do not do themselves.                      *)

LEMMA UseStep ==
  ASSUME VmInv, NEW w \in Workers, UseVm(w)
  PROVE  VmInv'
<1>0. /\ UNCHANGED <<up, manifest, claimed, stamp, starting, handles, adrift, overrun>>
      /\ job[w].at = "use" /\ Free(KeyOf(job[w].vm))
    BY DEF UseVm, Stage, vmHistory
<1>1. /\ JobTyped /\ JobOK(w) /\ LooseOK(w) /\ job[w].at \notin {"idle"} \cup Starts \cup Cleans
      /\ job[w].at \notin {"claim", "write", "launch"}
    BY <1>0 DEF VmInv, Starts, Cleans
<1>2. /\ ~job[w].loose /\ ~Owning(w) /\ ~Holds(w) /\ job[w].vm \in Vms
      /\ job[w].kind = "shutdown" => job[w].vm \notin OneShots
      /\ job[w].kind \in {"exec", "stop", "track", "shutdown"}
    BY <1>0, <1>1 DEF LooseOK, JobOK, Owning, Holds
<1>3. stamp' \subseteq Vms /\ (UNCHANGED lease => lease' \in [Vms -> {"none", "fresh", "old"}])
      /\ (UNCHANGED warm => WarmOK' /\ warm' \in [Sandboxes -> Vms \cup {NoVm}])
    BY <1>0 DEF VmInv, VmTypeOK, WarmOK
<1>4. ASSUME NEW m \in Vms, m = job[w].vm \/ (m \notin OneShots /\ job[w].vm \notin OneShots
                                              /\ SandboxOf[m] = SandboxOf[job[w].vm]),
             CleansUp(w, m, KeyOf(job[w].vm), FALSE, "done"), UNCHANGED <<lease, tracked>>,
             job[w].kind \in {"exec", "stop", "shutdown"}, Forget(m) \/ UNCHANGED warm
      PROVE  VmInv'
  <2>1. KeyOf(m) = KeyOf(job[w].vm)
      BY <1>2, <1>4 DEF KeyOf
  <2>2. PICK has \in LockKeys : has = KeyOf(job[w].vm)
      BY <1>2, KeyFacts
  <2>3. /\ "done" \in Thens \ {"none"} /\ "done" \in OldThens
        /\ "done" \notin NewThens \cup OwnThens \cup {"stale", "expired", "replace", "gate"}
      BY DEF Thens, OldThens, NewThens, OwnThens
  <2>4. CleansUp(w, m, has, FALSE, "done") /\ CleanFits(w, m, has, "done")
      BY <1>0, <1>2, <1>4, <2>1, <2>2, <2>3 DEF CleanFits
  <2>5. \A x \in Workers : Shot(x) => job[x].vm # m
      BY <1>2, <1>4 DEF VmInv, ShotOK, Shot
  <2>6. Still
      BY <1>0, <1>4 DEF Still
  <2>7. PICK then \in Thens \ {"none"} : then = "done"
      BY <2>3
  <2>8. CleansUp(w, m, has, FALSE, then) /\ CleanFits(w, m, has, then) /\ then # "launch"
      BY <2>4, <2>7
  <2>9. UNCHANGED <<lease, stamp>> /\ overrun' = overrun /\ (Forget(m) \/ UNCHANGED warm)
      BY <1>0, <1>4
  <2>10. QED
      BY <1>2, <2>5, <2>6, <2>8, <2>9, WaitCleans
<1>5. CASE Returns(w) /\ UNCHANGED <<warm, tracked>> /\ lease' \in [Vms -> {"none", "fresh", "old"}]
  <2>1. Still
      BY <1>0, <1>5 DEF Still
  <2>2. QED
      BY <1>0, <1>3, <1>5, <2>1, ReturnOwn, QuietStep
<1>6. CASE /\ Returns(w) /\ UNCHANGED <<lease, warm>>
           /\ tracked' \subseteq tracked \cup (up \cap {job[w].vm}) /\ tracked \subseteq tracked'
  <2>1. JobTyped' /\ Others(w) /\ Own(w)' /\ KeysOK(w) /\ Stranger(w)
      BY <1>6, ReturnOwn
  <2>2. Frame(w) /\ TargetOK(w)
      BY <1>0, <1>2, <1>6, <2>1 DEF Frame, TargetOK, Stranger
  <2>3. tracked' \subseteq Vms
      BY <1>6 DEF VmInv, VmTypeOK
  <2>4. VmTypeOK' /\ WarmOK'
      BY <1>0, <1>6, <2>1, <2>3, WorkTypes DEF VmInv, VmTypeOK
  <2>5. QED
      BY <2>1, <2>2, <2>4, Assemble
<1>7. CASE job[w].kind = "exec"
  <2>1. CASE CleansUp(w, job[w].vm, KeyOf(job[w].vm), FALSE, "done") /\ UNCHANGED <<lease, warm, tracked>>
      BY <1>2, <1>4, <1>7, <2>1
  <2>2. CASE /\ Returns(w) /\ UNCHANGED <<warm, tracked>>
             /\ lease' = IF warm[SandboxOf[job[w].vm]] = job[w].vm
                         THEN [lease EXCEPT ![job[w].vm] = "fresh"] ELSE lease
    <3>1. lease' \in [Vms -> {"none", "fresh", "old"}]
        BY <2>2 DEF VmInv, VmTypeOK
    <3>2. QED
        BY <1>5, <2>2, <3>1
  <2>3. QED
      BY <1>7, <2>1, <2>2 DEF UseVm
<1>8. CASE job[w].kind = "track"
    BY <1>6, <1>8 DEF UseVm
<1>9. CASE job[w].kind \in {"stop", "shutdown"}
  <2> DEFINE m == IF job[w].kind = "shutdown" /\ warm[SandboxOf[job[w].vm]] # NoVm
                  THEN warm[SandboxOf[job[w].vm]] ELSE job[w].vm
  <2>1. /\ UNCHANGED <<lease, tracked>>
        /\ \/ Forget(m) /\ CleansUp(w, m, KeyOf(job[w].vm), FALSE, "done")
           \/ Returns(w) /\ UNCHANGED warm
      BY <1>9 DEF UseVm
  <2>2. /\ m \in Vms
        /\ m = job[w].vm \/ (m \notin OneShots /\ job[w].vm \notin OneShots
                             /\ SandboxOf[m] = SandboxOf[job[w].vm])
    <3>1. SandboxOf[job[w].vm] \in Sandboxes
        BY <1>2, KeyFacts
    <3>2. QED
        BY <1>2, <3>1 DEF VmInv, WarmOK
  <2> HIDE DEF m
  <2>3. QED
      BY <1>3, <1>4, <1>5, <1>9, <2>1, <2>2
<1>10. QED
    BY <1>2, <1>7, <1>8, <1>9

\* The future of the call is dropped.
LEMMA DropStep ==
  ASSUME VmInv, NEW w \in Workers, DropVmCall(w)
  PROVE  VmInv'
<1>0. /\ UNCHANGED <<up, manifest, claimed, stamp, warm, tracked, handles, overrun>>
      /\ ~job[w].loose /\ starting' = Unreserved(w)
    BY DEF DropVmCall
<1>1. JobTyped /\ JobOK(w) /\ VmTypeOK /\ WarmOK /\ job[w] \in JobSet
    BY DEF VmInv, JobTyped
<1>2. lease' \in [Vms -> {"none", "fresh", "old"}]
    BY <1>1 DEF DropVmCall, VmTypeOK
<1>3. CASE job[w].at \notin {"claim", "write", "launch", "kill", "files", "release"}
  <2>1. Fails(w) /\ UNCHANGED adrift
      BY <1>0, <1>3 DEF DropVmCall, Fails
  <2>2. Calm
      BY <1>0, <2>1 DEF Calm
  <2>3. /\ handles' \subseteq handles \cup {job[w].vm} /\ handles' \subseteq Vms /\ stamp' \subseteq Vms
        /\ WarmOK' /\ warm' \in [Sandboxes -> Vms \cup {NoVm}]
      BY <1>0, <1>1 DEF VmTypeOK, WarmOK
  <2>4. QED
      BY <1>0, <1>2, <2>1, <2>2, <2>3, FailStep
<1>4. CASE job[w].at \in {"claim", "write", "launch", "kill", "files", "release"}
  <2>1. /\ job' = [job EXCEPT ![w].loose = TRUE, ![w].has = NoVm, ![w].res = FALSE]
        /\ adrift' = adrift \cup ({job[w].vm, job[w].old} \ {NoVm})
      BY <1>4 DEF DropVmCall
  <2>2. /\ JobTyped' /\ Others(w) /\ job'[w].kind = job[w].kind /\ job'[w].vm = job[w].vm
        /\ job'[w].at = job[w].at /\ job'[w].has = NoVm /\ job'[w].res = FALSE
        /\ job'[w].old = job[w].old /\ job'[w].then = job[w].then /\ job'[w].keep = job[w].keep
        /\ job'[w].loose = TRUE
    <3> DEFINE j == [job[w] EXCEPT !.loose = TRUE, !.has = NoVm, !.res = FALSE]
    <3>1. /\ j \in JobSet /\ j.kind = job[w].kind /\ j.vm = job[w].vm /\ j.at = job[w].at
          /\ j.has = NoVm /\ j.res = FALSE /\ j.old = job[w].old /\ j.then = job[w].then
          /\ j.keep = job[w].keep /\ j.loose = TRUE
        BY <1>1 DEF JobSet
    <3>2. job' = [job EXCEPT ![w] = j]
        BY <1>1, <2>1 DEF JobTyped
    <3> HIDE DEF j
    <3>3. QED
        BY <1>1, <3>1, <3>2, EntryShape
  <2>3. JobOK(w)'
      BY <1>1, <2>2 DEF JobOK
  <2>4. LockOK(w)' /\ WorkOK(w)' /\ Reserved(w)' /\ ShotOK(w)'
      BY <2>2 DEF LockOK, WorkOK, Holds, Reserved, ShotOK
  <2>5. LooseOK(w)'
      BY <1>4, <2>1, <2>2 DEF LooseOK, Cleans
  <2>6. KeysOK(w) /\ Stranger(w)
      BY <2>2, KeptNames DEF KeysOK
  <2>7. GivesUp(w) /\ starting' \subseteq Vms /\ adrift' \subseteq Vms
      BY <1>0, <1>1, <2>1 DEF GivesUp, Unreserved, VmTypeOK, JobSet
  <2>8. Frame(w)
      BY <1>0, <2>1, <2>2, <2>6, <2>7 DEF Frame, Stranger, GivesUp
  <2>9. TargetOK(w)
    <3>1. Holds(w) => Target(w) \in Vms
        BY HolderKey
    <3>2. Target(w) \in {job[w].vm, job[w].old}
        BY DEF Target
    <3>3. QED
        BY <2>1, <3>1, <3>2, VmAssumption DEF TargetOK, VmAssumption
  <2>10. VmTypeOK' /\ WarmOK'
    <3>1. WarmOK'
        BY <1>0, <1>1 DEF WarmOK
    <3>2. VmTypeOK'
        BY <1>0, <1>1, <1>2, <2>2, <2>7 DEF VmTypeOK, JobTyped, JobSet
    <3>3. QED
        BY <3>1, <3>2
  <2>11. Own(w)'
      BY <2>3, <2>4, <2>5 DEF Own
  <2>12. QED
      BY <2>2, <2>6, <2>8, <2>9, <2>10, <2>11, Assemble
<1>5. QED
    BY <1>3, <1>4

\* A machine dies, or its idle time passes.
LEMMA EnvStep ==
  ASSUME VmInv, UNCHANGED <<manifest, claimed, warm, starting, tracked, handles, job, adrift, overrun>>,
         up' \subseteq up, stamp' \subseteq Vms, lease' \in [Vms -> {"none", "fresh", "old"}]
  PROVE  VmInv'
<1>1. ASSUME NEW w \in Workers
      PROVE  JobOK(w)' /\ LockOK(w)' /\ Reserved(w)' /\ ShotOK(w)' /\ WorkOK(w)' /\ LooseOK(w)'
  <2>1. JobOK(w) /\ LockOK(w) /\ Reserved(w) /\ ShotOK(w) /\ WorkOK(w) /\ LooseOK(w)
      BY <1>1 DEF VmInv
  <2>2. JobOK(w)' /\ LockOK(w)' /\ LooseOK(w)'
      BY <2>1 DEF JobOK, LockOK, LooseOK
  <2>3. Reserved(w)'
      BY <2>1 DEF Reserved, Owning
  <2>4. ShotOK(w)'
      BY <2>1 DEF ShotOK, Waiting
  <2>5. WorkOK(w)'
      BY <2>1 DEF WorkOK, Holds, Target
  <2>6. QED
      BY <2>2, <2>3, <2>4, <2>5
<1>2. JobTyped' /\ OneHolder' /\ WarmOK'
    BY DEF VmInv, JobTyped, OneHolder, WarmOK
<1>3. VmTypeOK'
    BY DEF VmInv, VmTypeOK
<1>4. MachinesOnRecord'
    BY DEF VmInv, MachinesOnRecord, VmOnRecord, AddressesExclusive
<1>5. QED
    BY <1>1, <1>2, <1>3, <1>4 DEF VmInv

\* A controller that begins has nothing in its memory.
LEMMA FreshController ==
  ASSUME VmTypeOK', MachinesOnRecord', warm' = [s \in Sandboxes |-> NoVm],
         job' = [w \in Workers |-> NoJob]
  PROVE  VmInv'
<1>1. NoJob \in JobSet
    BY DEF JobSet, NoJob, Kinds, Stages, Thens
<1>2. JobTyped'
    BY <1>1 DEF JobTyped
<1>3. ASSUME NEW w \in Workers
      PROVE  JobOK(w)' /\ LockOK(w)' /\ Reserved(w)' /\ ShotOK(w)' /\ WorkOK(w)' /\ LooseOK(w)'
  <2>1. /\ job'[w].kind = "none" /\ job'[w].vm = NoVm /\ job'[w].at = "idle" /\ job'[w].has = NoVm
        /\ job'[w].res = FALSE /\ job'[w].old = NoVm /\ job'[w].loose = FALSE
      BY <1>3 DEF NoJob
  <2>2. QED
      BY <2>1 DEF JobOK, LockOK, LooseOK, Reserved, Owning, ShotOK, WorkOK, Holds, Early, Starts, Cleans
<1>4. OneHolder' /\ WarmOK'
    BY DEF OneHolder, WarmOK, NoJob
<1>5. QED
    BY <1>2, <1>3, <1>4 DEF VmInv

LEMMA CrashStep ==
  ASSUME VmInv, ControllerDies
  PROVE  VmInv'
<1>1. /\ UNCHANGED <<up, manifest, claimed, lease, stamp, adrift, overrun>> /\ tracked' = {}
      /\ warm' = [s \in Sandboxes |-> NoVm] /\ starting' = {} /\ handles' = {}
      /\ job' = [w \in Workers |-> NoJob]
    BY DEF ControllerDies, vmDisk, vmHistory
<1>2. VmTypeOK'
    BY <1>1 DEF VmInv, VmTypeOK, NoJob
<1>3. MachinesOnRecord'
    BY <1>1 DEF VmInv, MachinesOnRecord, VmOnRecord, AddressesExclusive
<1>4. QED
    BY <1>1, <1>2, <1>3, FreshController

LEMMA VmInvInit == VmInit => VmInv
<1> SUFFICES ASSUME VmInit PROVE VmInv
    OBVIOUS
<1>1. NoJob \in JobSet
    BY DEF JobSet, NoJob, Kinds, Stages, Thens
<1>2. JobTyped /\ OneHolder /\ WarmOK
    BY <1>1 DEF VmInit, JobTyped, OneHolder, WarmOK, NoJob
<1>3. ASSUME NEW w \in Workers
      PROVE  JobOK(w) /\ LockOK(w) /\ Reserved(w) /\ ShotOK(w) /\ WorkOK(w) /\ LooseOK(w)
  <2>1. /\ job[w].kind = "none" /\ job[w].vm = NoVm /\ job[w].at = "idle" /\ job[w].has = NoVm
        /\ job[w].res = FALSE /\ job[w].old = NoVm /\ job[w].loose = FALSE
      BY <1>3 DEF VmInit, NoJob
  <2>2. QED
      BY <2>1 DEF JobOK, LockOK, LooseOK, Reserved, Owning, ShotOK, WorkOK, Holds, Early, Starts, Cleans
<1>4. VmTypeOK
    BY DEF VmInit, VmTypeOK, NoJob
<1>5. MachinesOnRecord
    BY DEF VmInit, MachinesOnRecord, VmOnRecord, AddressesExclusive
<1>6. QED
    BY <1>2, <1>3, <1>4, <1>5 DEF VmInv

LEMMA VmInvStep == VmInv /\ [VmNext]_vmVars => VmInv'
<1> SUFFICES ASSUME VmInv, [VmNext]_vmVars PROVE VmInv'
    OBVIOUS
<1>0. stamp \subseteq Vms /\ lease \in [Vms -> {"none", "fresh", "old"}]
    BY DEF VmInv, VmTypeOK
<1>1. ASSUME NEW w \in Workers, VmStep(w) PROVE VmInv'
    BY <1>1, ScanStep, ReapStep, ReplaceStep, AdmitStep, EnsureStep, ClaimStep, WriteStep, LaunchStep,
       HandOutStep, KillStep, RemoveStep, ReleaseStep, UseStep DEF VmStep
<1>2. ASSUME NEW w \in Workers,
             \/ ReapVms(w)
             \/ \E v \in Vms : AcquireVm(w, v) \/ ExecVm(w, v) \/ StopVm(w, v) \/ TrackVm(w, v)
                               \/ ShutVm(w, v)
      PROVE  VmInv'
    BY <1>2, BeginStep
<1>3. ASSUME NEW w \in Workers, DropVmCall(w) PROVE VmInv'
    BY <1>3, DropStep
<1>4. ASSUME NEW v \in Vms, VmDies(v) PROVE VmInv'
  <2>1. /\ UNCHANGED <<manifest, claimed, warm, starting, tracked, handles, job, adrift, overrun>>
        /\ up' \subseteq up /\ UNCHANGED <<lease, stamp>>
      BY <1>4 DEF VmDies, vmDisk, memory, vmHistory
  <2>2. QED
      BY <1>0, <2>1, EnvStep
<1>5. ASSUME NEW v \in Vms, IdleTimePasses(v) PROVE VmInv'
  <2>1. /\ UNCHANGED <<manifest, claimed, warm, starting, tracked, handles, job, adrift, overrun>>
        /\ up' = up /\ stamp' = stamp \ {v}
        /\ lease' = [lease EXCEPT ![v] = IF @ = "none" THEN @ ELSE "old"]
      BY <1>5 DEF IdleTimePasses, memory, vmHistory
  <2>2. lease' \in [Vms -> {"none", "fresh", "old"}] /\ stamp' \subseteq Vms
      BY <1>0, <2>1
  <2>3. QED
      BY <2>1, <2>2, EnvStep
<1>6. CASE ControllerDies
    BY <1>6, CrashStep
<1>7. CASE UNCHANGED vmVars
    BY <1>0, <1>7, EnvStep DEF vmVars
<1>8. QED
    BY <1>1, <1>2, <1>3, <1>4, <1>5, <1>6, <1>7 DEF VmNext

\* Whatever fails, crashes, dies or is dropped, and for any number of machines,
\* slots, calls and faults: a machine that runs is on record, its slot is its own,
\* and no listener serves an address that may be another machine's.
THEOREM MachinesOnRecordCorrect == VmSpec => []MachinesOnRecord
<1>1. VmInv => MachinesOnRecord
    BY DEF VmInv
<1>2. QED
    BY <1>1, VmInvInit, VmInvStep, PTL DEF VmSpec

--------------------------------------------------------------------------------
(* The host limit, and what reapers take.                                       *)

\* A call that is between scan and admission keeps everyone else out.
GateOK ==
  /\ \A w, x \in Workers : job[w].at = "admit" /\ job[x].at = "admit" => w = x
  /\ \A w \in Workers : job[w].at = "admit" =>
       \/ overrun
       \/ Cardinality((up \cup starting \cup job[w].todo) \ adrift) <= MaxVms

LimitInv == VmInv /\ GateOK /\ CapacityHeld /\ ReapsOnlyIdle

ReapOK(w) ==
  Stage(w, "kill") /\ ~job[w].loose /\ job[w].old \notin adrift =>
    /\ job[w].then = "expired" => Expired(job[w].old)
    /\ job[w].then = "stale" => job[w].old \notin up \cup starting

\* The step makes no machine run or start that did not, and touches only the
\* machine its call works on, or one whose lock nobody has.
LimitFrame(w) ==
  /\ Others(w) /\ adrift \subseteq adrift' /\ overrun' = overrun
  /\ \A v \in Vms \ adrift' :
       /\ v \in up' \cup starting' => v \in up \cup starting
       /\ ~(Holds(w) /\ Target(w) = v) /\ ~Free(KeyOf(v)) /\ Expired(v) => Expired(v)'

\* The call does not come to its admission, nor to a kill as a reaper.
Plain(w) ==
  /\ job'[w].at # "admit"
  /\ job'[w].at = "kill" => job'[w].loose \/ job'[w].then \notin {"stale", "expired"}

LEMMA CardMono ==
  ASSUME NEW S, NEW T, S \subseteq T, T \subseteq Vms
  PROVE  Cardinality(S) \in Nat /\ Cardinality(T) \in Nat /\ Cardinality(S) <= Cardinality(T)
<1>1. IsFiniteSet(T) /\ IsFiniteSet(S)
    BY VmAssumption, FS_Subset DEF VmAssumption
<1>2. QED
    BY <1>1, FS_Subset, FS_CardinalityType

LEMMA FewerHold ==
  ASSUME NEW S, NEW T, S \subseteq T, T \subseteq Vms, Cardinality(T) <= MaxVms
  PROVE  Cardinality(S) <= MaxVms
<1>1. Cardinality(S) \in Nat /\ Cardinality(T) \in Nat /\ Cardinality(S) <= Cardinality(T)
    BY CardMono
<1>2. MaxVms \in Nat
    BY VmAssumption DEF VmAssumption
<1>3. QED
    BY <1>1, <1>2

\* What a reaper has found under the lock still holds after a step of another call.
LEMMA ReapKept ==
  ASSUME LimitInv, NEW w \in Workers, LimitFrame(w), NEW x \in Workers, x # w
  PROVE  ReapOK(x)'
<1>0. job'[x] = job[x] /\ adrift \subseteq adrift' /\ VmInv
    BY DEF LimitFrame, Others, LimitInv
<1>1. PICK v : v = job[x].old
    OBVIOUS
<1>2. SUFFICES ASSUME job[x].at = "kill", ~job[x].loose, v \notin adrift'
               PROVE  /\ job[x].then = "expired" => Expired(v)'
                      /\ job[x].then = "stale" => v \notin up' \cup starting'
    BY <1>0, <1>1 DEF ReapOK, Stage, Expired
<1>3. job[x].at \in Cleans /\ v \notin adrift
    BY <1>0, <1>2 DEF Cleans
<1>4. Holds(x) /\ Target(x) = v /\ v \in Vms /\ LockOK(x)
    BY <1>0, <1>1, <1>2, <1>3, CleanFacts
<1>5. /\ job[x].then = "expired" => Expired(v)
      /\ job[x].then = "stale" => v \notin up \cup starting
    BY <1>1, <1>2, <1>3 DEF LimitInv, ReapsOnlyIdle, Stage
<1>6. ~(Holds(w) /\ Target(w) = v)
    BY <1>0, <1>4, Exclusive
<1>7. job[x].then = "expired" => ~Free(KeyOf(v))
    BY <1>1, <1>2, <1>3, <1>4 DEF LockOK, OldThens, Free
<1>8. QED
    BY <1>2, <1>4, <1>5, <1>6, <1>7 DEF LimitFrame

LEMMA RoomKept ==
  ASSUME LimitInv, VmInv', adrift \subseteq adrift', overrun' = overrun,
         \A v \in Vms \ adrift' : v \in up' \cup starting' => v \in up \cup starting
  PROVE  /\ CapacityHeld'
         /\ \A T : (overrun \/ Cardinality((up \cup starting \cup T) \ adrift) <= MaxVms) /\ T \subseteq Vms =>
              overrun' \/ Cardinality((up' \cup starting' \cup T) \ adrift') <= MaxVms
<1>1. up \subseteq Vms /\ starting \subseteq Vms /\ up' \subseteq Vms /\ starting' \subseteq Vms
    BY DEF LimitInv, VmInv, VmTypeOK
<1>2. ASSUME NEW T \in SUBSET Vms,
             overrun \/ Cardinality((up \cup starting \cup T) \ adrift) <= MaxVms
      PROVE  overrun' \/ Cardinality((up' \cup starting' \cup T) \ adrift') <= MaxVms
  <2>1. (up' \cup starting' \cup T) \ adrift' \subseteq (up \cup starting \cup T) \ adrift
      BY <1>1
  <2>2. (up \cup starting \cup T) \ adrift \subseteq Vms
      BY <1>1
  <2>3. QED
      BY <1>2, <2>1, <2>2, FewerHold
<1>3. CapacityHeld'
  <2>1. (up' \cup starting') \ adrift' \subseteq (up \cup starting) \ adrift
      BY <1>1
  <2>2. (up \cup starting) \ adrift \subseteq Vms
      BY <1>1
  <2>3. QED
      BY <2>1, <2>2, FewerHold DEF LimitInv, CapacityHeld
<1>4. QED
    BY <1>2, <1>3

LEMMA ReapAll ==
  ASSUME NEW w \in Workers, ReapOK(w)', \A x \in Workers : x # w => ReapOK(x)'
  PROVE  ReapsOnlyIdle'
BY DEF ReapOK, ReapsOnlyIdle

LEMMA LimitKept ==
  ASSUME LimitInv, VmInv', NEW w \in Workers, LimitFrame(w), ReapOK(w)', job'[w].at # "admit"
  PROVE  LimitInv'
<1>1. /\ CapacityHeld'
      /\ \A T : (overrun \/ Cardinality((up \cup starting \cup T) \ adrift) <= MaxVms) /\ T \subseteq Vms =>
           overrun' \/ Cardinality((up' \cup starting' \cup T) \ adrift') <= MaxVms
    BY RoomKept DEF LimitFrame
<1>2. ReapsOnlyIdle'
    BY ReapKept, ReapAll
<1>3. \A x \in Workers : job'[x].at = "admit" => x # w /\ job'[x] = job[x]
    BY DEF LimitFrame, Others
<1>4. ASSUME NEW x \in Workers, job'[x].at = "admit"
      PROVE  overrun' \/ Cardinality((up' \cup starting' \cup job'[x].todo) \ adrift') <= MaxVms
  <2>1. job'[x] = job[x] /\ job[x].at = "admit" /\ job[x].todo \subseteq Vms
      BY <1>3, <1>4 DEF LimitInv, VmInv, VmTypeOK
  <2>2. overrun \/ Cardinality((up \cup starting \cup job[x].todo) \ adrift) <= MaxVms
      BY <2>1 DEF LimitInv, GateOK
  <2>3. QED
      BY <1>1, <2>1, <2>2
<1>5. \A x, y \in Workers : job'[x].at = "admit" /\ job'[y].at = "admit" => x = y
    BY <1>3 DEF LimitInv, GateOK
<1>6. QED
    BY <1>1, <1>2, <1>4, <1>5 DEF LimitInv, GateOK

LEMMA PlainStep ==
  ASSUME LimitInv, VmInv', NEW w \in Workers, LimitFrame(w), Plain(w)
  PROVE  LimitInv'
<1>1. ReapOK(w)' /\ job'[w].at # "admit"
    BY DEF Plain, ReapOK, Stage
<1>2. QED
    BY <1>1, LimitKept

LEMMA QuietFrame ==
  ASSUME VmInv, NEW w \in Workers, Others(w), UNCHANGED <<up, manifest, lease, stamp, adrift, overrun>>,
         starting' \subseteq starting
  PROVE  LimitFrame(w)
<1>1. \A v \in Vms : Expired(v) => Expired(v)'
    BY DEF Expired
<1>2. QED
    BY <1>1 DEF LimitFrame

\* Where a step may take a call.
LEMMA ReturnPlain ==
  ASSUME VmInv, NEW w \in Workers, Returns(w)
  PROVE  Others(w) /\ Plain(w)
<1>1. Others(w) /\ job'[w] = NoJob
    BY ReturnShape DEF VmInv
<1>2. QED
    BY <1>1 DEF Plain, NoJob

LEMMA GoesPlain ==
  ASSUME VmInv, NEW w \in Workers, NEW stage \in Stages \ {"admit", "kill"}, Goes(w, stage)
  PROVE  Others(w) /\ Plain(w)
<1>1. Others(w) /\ job'[w].at = stage
    BY GoesShape DEF VmInv
<1>2. QED
    BY <1>1 DEF Plain

LEMMA CleansPlain ==
  ASSUME VmInv, NEW w \in Workers, NEW v \in Vms, NEW has \in LockKeys, NEW keep \in BOOLEAN,
         NEW then \in Thens \ {"stale", "expired"}, CleansUp(w, v, has, keep, then)
  PROVE  Others(w) /\ Plain(w)
<1>1. Others(w) /\ job'[w].at = "kill" /\ job'[w].then = then
    BY CleansShape DEF VmInv, VmTypeOK
<1>2. QED
    BY <1>1 DEF Plain

LEMMA AfterPlain ==
  ASSUME VmInv, NEW w \in Workers, job[w].at \in Cleans, AfterCleanup(w)
  PROVE  Others(w) /\ Plain(w) /\ starting' \subseteq starting
<1>0. JobTyped /\ job \in [Workers -> JobSet] /\ job[w] \in JobSet /\ JobOK(w)
    BY DEF VmInv, JobTyped
<1>1. CASE job[w].loose \/ job[w].then = "done"
  <2>1. Returns(w) /\ UNCHANGED starting
      BY <1>1 DEF AfterCleanup
  <2>2. QED
      BY <2>1, ReturnPlain
<1>2. CASE ~(job[w].loose \/ job[w].then = "done") /\ job[w].then = "failed"
  <2>1. Fails(w)
      BY <1>2 DEF AfterCleanup
  <2>2. QED
      BY <2>1, ReturnPlain DEF Fails, Unreserved
<1>3. CASE ~(job[w].loose \/ job[w].then = "done") /\ job[w].then \in {"stale", "expired"}
  <2>1. /\ job' = [job EXCEPT ![w] = [NoJob EXCEPT !.kind = job[w].kind, !.vm = job[w].vm,
                                       !.at = job[w].then, !.todo = job[w].todo \ {job[w].old}]]
        /\ UNCHANGED starting
      BY <1>3 DEF AfterCleanup
  <2>2. Others(w) /\ job'[w].at = job[w].then
      BY <1>0, <2>1 DEF Others, NoJob
  <2>3. QED
      BY <1>3, <2>1, <2>2 DEF Plain
<1>4. CASE /\ ~(job[w].loose \/ job[w].then = "done")
           /\ job[w].then \notin {"failed", "stale", "expired"}
  <2>1. /\ job' = [job EXCEPT ![w].at = job[w].then, ![w].old = NoVm, ![w].slot = 0,
                              ![w].then = "none"]
        /\ UNCHANGED starting
      BY <1>4 DEF AfterCleanup
  <2>2. Others(w) /\ job'[w].at = job[w].then
      BY <1>0, <2>1 DEF Others, JobSet
  <2>3. job[w].then \in {"replace", "gate", "launch"}
      BY <1>0, <1>4 DEF JobOK, OldThens, NewThens, OwnThens
  <2>4. QED
      BY <2>1, <2>2, <2>3 DEF Plain
<1>5. QED
    BY <1>1, <1>2, <1>3, <1>4

\* A start, a cleanup or a call on a handle: what it changes is its own machine's.
LEMMA WorkFrame ==
  ASSUME VmInv, NEW w \in Workers, job[w].at \in Starts \cup Cleans, Others(w),
         UNCHANGED <<adrift, overrun>>, starting' \subseteq starting,
         \A v \in Vms \ {Target(w)} :
           /\ v \in up' => v \in up
           /\ manifest'[v] = manifest[v] /\ lease'[v] = lease[v] /\ (v \in stamp' => v \in stamp),
         Target(w) \in up' => Target(w) \in up \cup starting \cup adrift
  PROVE  LimitFrame(w)
<1>1. \A v \in Vms \ adrift : ~(Holds(w) /\ Target(w) = v) => v \in Vms \ {Target(w)}
    BY WorkFacts
<1>2. ASSUME NEW v \in Vms \ {Target(w)}, Expired(v) PROVE Expired(v)'
    BY <1>2 DEF Expired
<1>3. ASSUME NEW v \in Vms \ adrift', v \in up' \cup starting' PROVE v \in up \cup starting
    BY <1>3
<1>4. QED
    BY <1>1, <1>2, <1>3 DEF LimitFrame

LEMMA ScanLimit ==
  ASSUME LimitInv, VmInv', NEW w \in Workers,
         \/ ScanStale(w) \/ ScanExpired(w) \/ LockSandbox(w) \/ CleanPrevious(w) \/ CleanReplaced(w)
  PROVE  LimitInv'
<1>0. VmInv /\ JobTyped /\ job \in [Workers -> JobSet] /\ job[w] \in JobSet
    BY DEF LimitInv, VmInv, JobTyped
<1>1. UNCHANGED <<up, manifest, lease, stamp, adrift, overrun>> /\ starting' \subseteq starting
    BY DEF ScanStale, ScanExpired, LockSandbox, CleanPrevious, CleanReplaced, vmDisk, memory, vmHistory
<1>2. Others(w) /\ Plain(w)
  <2>1. CASE ScanStale(w)
      BY <1>0, <2>1 DEF ScanStale, Others, Plain, JobSet
  <2>2. CASE ScanExpired(w)
      BY <1>0, <2>2 DEF ScanExpired, Others, Plain, JobSet
  <2>3. CASE LockSandbox(w)
      BY <1>0, <2>3 DEF LockSandbox, Others, Plain, JobSet
  <2>4. CASE CleanPrevious(w) \/ CleanReplaced(w)
    <3>1. job[w].at \in Waits /\ job[w].at \in Early
        BY <2>4 DEF CleanPrevious, CleanReplaced, Stage, Waits, Early
    <3>2. PICK has \in LockKeys : has = job[w].has /\ job[w].vm \in Vms
        BY <1>0, <3>1, WaitFacts, KeyFacts DEF LockKeys
    <3>3. {"replace", "gate"} \subseteq Stages \ {"admit", "kill"}
          /\ {"replace", "gate"} \subseteq Thens \ {"stale", "expired"}
        BY DEF Stages, Early, Thens, NewThens
    <3>4. CASE CleanPrevious(w)
        BY <1>0, <3>2, <3>3, <3>4, GoesPlain, CleansPlain DEF CleanPrevious
    <3>5. CASE CleanReplaced(w)
      <4>1. warm[SandboxOf[job[w].vm]] \in Vms \cup {NoVm}
          BY <1>0, <3>2, KeyFacts DEF VmInv, VmTypeOK
      <4>2. QED
          BY <1>0, <3>2, <3>3, <3>5, <4>1, GoesPlain, CleansPlain DEF CleanReplaced
    <3>6. QED
        BY <2>4, <3>4, <3>5
  <2>5. QED
      BY <2>1, <2>2, <2>3, <2>4
<1>3. QED
    BY <1>0, <1>1, <1>2, QuietFrame, PlainStep

\* The reapers look again under the lock.
LEMMA ReapLimit ==
  ASSUME LimitInv, VmInv', NEW w \in Workers, ReapStale(w) \/ ReapExpired(w)
  PROVE  LimitInv'
<1>0. VmInv /\ JobTyped /\ job \in [Workers -> JobSet] /\ job[w] \in JobSet
    BY DEF LimitInv, VmInv, JobTyped
<1>1. UNCHANGED <<up, manifest, lease, stamp, adrift, overrun, starting>>
    BY DEF ReapStale, ReapExpired, vmDisk, vmHistory
<1>2. CASE Returns(w)
    BY <1>0, <1>1, <1>2, ReturnPlain, QuietFrame, PlainStep
<1>3. ASSUME NEW stage \in {"scan expired", "lock"}, Goes(w, stage) PROVE LimitInv'
  <2>1. stage \in Stages \ {"admit", "kill"}
      BY DEF Stages
  <2>2. QED
      BY <1>0, <1>1, <1>3, <2>1, GoesPlain, QuietFrame, PlainStep
<1>4. ASSUME NEW v, job' = [job EXCEPT ![w].todo = @ \ {v}], job[w].at \in {"stale", "expired"}
      PROVE  LimitInv'
  <2>1. Others(w) /\ Plain(w)
      BY <1>0, <1>4 DEF Others, Plain, JobSet
  <2>2. QED
      BY <1>0, <1>1, <2>1, QuietFrame, PlainStep
<1>5. ASSUME NEW v \in job[w].todo, NEW then \in {"stale", "expired"},
             CleansUp(w, v, KeyOf(v), FALSE, then),
             then = "stale" => v \notin up \cup starting, then = "expired" => Expired(v)
      PROVE  LimitInv'
  <2>1. v \in Vms /\ then \in Thens
      BY <1>0 DEF JobSet, Thens, OldThens
  <2>2. PICK has \in LockKeys : has = KeyOf(v)
      BY <2>1, KeyFacts
  <2>3. Others(w) /\ job'[w].at = "kill" /\ job'[w].old = v /\ job'[w].then = then
    <3>1. PICK keep \in BOOLEAN : keep = FALSE
        OBVIOUS
    <3>2. CleansUp(w, v, has, keep, then) /\ manifest \in [Vms -> VmSlots \cup {0}]
        BY <1>0, <1>5, <2>2, <3>1 DEF VmInv, VmTypeOK
    <3>3. JobTyped /\ v \in Vms /\ then \in Thens
        BY <1>0, <2>1
    <3>4. QED
        BY <3>2, <3>3, CleansShape
  <2>4. Expired(v) => Expired(v)'
      BY <1>1 DEF Expired
  <2>5. ReapOK(w)' /\ job'[w].at # "admit"
      BY <1>1, <1>5, <2>3, <2>4 DEF ReapOK, Stage, Expired
  <2>6. QED
      BY <1>0, <1>1, <2>3, <2>5, QuietFrame, LimitKept
<1>6. CASE ReapStale(w)
    BY <1>3, <1>4, <1>5, <1>6 DEF ReapStale, IsStale, Stage
<1>7. CASE ReapExpired(w)
    BY <1>2, <1>3, <1>4, <1>5, <1>7 DEF ReapExpired, Stage
<1>8. QED
    BY <1>6, <1>7

\* reserve_machine_capacity.
LEMMA GateLimit ==
  ASSUME LimitInv, VmInv', NEW w \in Workers, ScanCapacity(w)
  PROVE  LimitInv'
<1>0. VmInv /\ JobTyped /\ job \in [Workers -> JobSet] /\ job[w] \in JobSet
    BY DEF LimitInv, VmInv, JobTyped
<1>1. /\ UNCHANGED <<up, manifest, lease, stamp, adrift, overrun, starting>>
      /\ \A x \in Workers : job[x].at # "admit"
    BY DEF ScanCapacity, vmDisk, memory, vmHistory, Stage
<1>2. Others(w) /\ job'[w].at = "admit" /\ job'[w].todo = {v \in up : manifest[v] # 0}
    BY <1>0 DEF ScanCapacity, Others, JobSet
<1>3. LimitFrame(w)
    BY <1>0, <1>1, <1>2, QuietFrame
<1>4. ReapsOnlyIdle'
  <2>1. ReapOK(w)'
      BY <1>2 DEF ReapOK, Stage
  <2>2. QED
      BY <1>3, <2>1, ReapKept, ReapAll
<1>5. CapacityHeld'
    BY <1>1 DEF LimitInv, CapacityHeld
<1>6. \A x \in Workers : job'[x].at = "admit" => x = w
    BY <1>1, <1>2 DEF Others
<1>7. overrun' \/ Cardinality((up' \cup starting' \cup job'[w].todo) \ adrift') <= MaxVms
  <2>1. up' \cup starting' \cup job'[w].todo = up \cup starting
      BY <1>1, <1>2
  <2>2. QED
      BY <1>1, <2>1 DEF LimitInv, CapacityHeld
<1>8. QED
    BY <1>4, <1>5, <1>6, <1>7 DEF LimitInv, GateOK

LEMMA AdmitLimit ==
  ASSUME LimitInv, VmInv', NEW w \in Workers, Admit(w)
  PROVE  LimitInv'
<1>0. VmInv /\ JobTyped /\ job \in [Workers -> JobSet] /\ job[w] \in JobSet
    BY DEF LimitInv, VmInv, JobTyped
<1>1. UNCHANGED <<up, manifest, lease, stamp, adrift>> /\ job[w].at = "admit"
    BY DEF Admit, Stage, vmDisk
<1>2. CASE Returns(w) /\ UNCHANGED <<starting, overrun>>
    BY <1>0, <1>1, <1>2, ReturnPlain, QuietFrame, PlainStep
<1> DEFINE occupied == job[w].todo \cup starting
           live == {x \in up : manifest[x] # 0}
<1>3. CASE /\ job[w].vm \notin starting /\ (job[w].vm \in occupied \/ Cardinality(occupied) < MaxVms)
           /\ starting' = starting \cup {job[w].vm}
           /\ job' = [job EXCEPT ![w].at = "ensure", ![w].res = TRUE, ![w].todo = {}]
           /\ overrun' = (overrun \/ ~(live \subseteq occupied))
  <2>1. Others(w) /\ job'[w].at = "ensure"
      BY <1>0, <1>3 DEF Others, JobSet
  <2>2. /\ job[w].vm \in Vms /\ job[w].todo \subseteq Vms /\ starting \subseteq Vms /\ up \subseteq Vms
        /\ job[w].has = SandboxOf[job[w].vm] /\ ~job[w].loose /\ job[w].kind = "acquire"
    <3>1. job[w].at \in Waits /\ job[w].at \in Early
        BY <1>1 DEF Waits, Early
    <3>2. QED
        BY <1>0, <3>1, WaitFacts DEF VmInv, VmTypeOK
  <2>3. CapacityHeld'
    <3>1. SUFFICES ASSUME ~overrun, live \subseteq occupied
                   PROVE  Cardinality((up \cup (starting \cup {job[w].vm})) \ adrift) <= MaxVms
        BY <1>1, <1>3 DEF CapacityHeld
    <3>2. up \ adrift \subseteq live
        BY <1>0 DEF VmInv, MachinesOnRecord, VmOnRecord
    <3>3. CASE job[w].vm \in occupied
      <4>1. (up \cup (starting \cup {job[w].vm})) \ adrift \subseteq (up \cup starting \cup job[w].todo) \ adrift
          BY <1>3, <3>3
      <4>2. (up \cup starting \cup job[w].todo) \ adrift \subseteq Vms
          BY <2>2
      <4>3. Cardinality((up \cup starting \cup job[w].todo) \ adrift) <= MaxVms
          BY <1>1, <3>1 DEF LimitInv, GateOK
      <4>4. QED
          BY <4>1, <4>2, <4>3, FewerHold
    <3>4. CASE job[w].vm \notin occupied /\ Cardinality(occupied) < MaxVms
      <4>1. (up \cup (starting \cup {job[w].vm})) \ adrift \subseteq occupied \cup {job[w].vm}
          BY <3>1, <3>2
      <4>2. occupied \cup {job[w].vm} \subseteq Vms /\ occupied \subseteq Vms
          BY <2>2
      <4>3. IsFiniteSet(occupied) /\ Cardinality(occupied) \in Nat
        <5>1. IsFiniteSet(occupied)
            BY <4>2, VmAssumption, FS_Subset DEF VmAssumption
        <5>2. QED
            BY <5>1, FS_CardinalityType
      <4>4. Cardinality(occupied \cup {job[w].vm}) = Cardinality(occupied) + 1
          BY <3>4, <4>3, FS_AddElement
      <4>5. Cardinality(occupied \cup {job[w].vm}) <= MaxVms
          BY <3>4, <4>3, <4>4, VmAssumption DEF VmAssumption
      <4>6. QED
          BY <4>1, <4>2, <4>5, FewerHold
    <3>5. QED
        BY <1>3, <3>3, <3>4
  <2>4. GateOK'
      BY <1>1, <2>1 DEF LimitInv, GateOK, Others
  <2>5. ASSUME NEW x \in Workers, x # w PROVE ReapOK(x)'
    <3>1. job'[x] = job[x]
        BY <2>1, <2>5 DEF Others
    <3>2. PICK v : v = job[x].old
        OBVIOUS
    <3>3. SUFFICES ASSUME job[x].at = "kill", ~job[x].loose, v \notin adrift
                   PROVE  /\ job[x].then = "expired" => Expired(v)'
                          /\ job[x].then = "stale" => v \notin up' \cup starting'
        BY <1>1, <3>1, <3>2 DEF ReapOK, Stage, Expired
    <3>4. /\ job[x].then = "expired" => Expired(v)
          /\ job[x].then = "stale" => v \notin up \cup starting
        BY <3>2, <3>3 DEF LimitInv, ReapsOnlyIdle, Stage
    <3>5. Expired(v) => Expired(v)'
        BY <1>1 DEF Expired
    <3>6. job[x].then = "stale" => v # job[w].vm
      <4>1. SUFFICES ASSUME job[x].then = "stale", v = job[w].vm PROVE FALSE
          OBVIOUS
      <4>2. job[x].at \in Cleans
          BY <3>3 DEF Cleans
      <4>3. job[x].has = KeyOf(job[w].vm)
          BY <1>0, <3>2, <3>3, <4>1, <4>2, CleanFacts DEF LockOK, OldThens
      <4>4. CASE job[w].vm \in OneShots
          BY <1>0, <2>2, <2>5, <3>2, <4>1, <4>4 DEF VmInv, ShotOK
      <4>5. CASE job[w].vm \notin OneShots
          BY <1>0, <2>2, <2>5, <4>3, <4>5, KeyFacts DEF VmInv, OneHolder
      <4>6. QED
          BY <4>4, <4>5
    <3>7. QED
        BY <1>1, <1>3, <3>4, <3>5, <3>6
  <2>6. ReapOK(w)'
      BY <2>1 DEF ReapOK, Stage
  <2>7. QED
      BY <2>3, <2>4, <2>5, <2>6, ReapAll DEF LimitInv
<1>4. QED
    BY <1>2, <1>3 DEF Admit

\* A start goes on, fails or is served.
LEMMA StartLimit ==
  ASSUME LimitInv, VmInv', NEW w \in Workers,
         Ensure(w) \/ ClaimSlot(w) \/ WriteManifest(w) \/ Launch(w) \/ Ready(w) \/ HandOut(w)
  PROVE  LimitInv'
<1>0. VmInv /\ JobTyped /\ job \in [Workers -> JobSet] /\ job[w] \in JobSet
    BY DEF LimitInv, VmInv, JobTyped
<1>1. job[w].at \in Starts /\ UNCHANGED <<adrift, overrun>> /\ starting' \subseteq starting
    BY DEF Ensure, ClaimSlot, WriteManifest, Launch, Ready, HandOut, Stage, Starts, vmHistory, memory,
           Fails, Unreserved
<1>2. /\ job[w].vm \in Vms /\ Target(w) = job[w].vm /\ job[w].keep \in BOOLEAN
      /\ job[w].loose \/ job[w].has \in LockKeys
      /\ job[w].vm \in starting \cup adrift
  <2>1. /\ job[w].vm \in Vms /\ Target(w) = job[w].vm /\ (job[w].loose => job[w].vm \in adrift)
        /\ ~job[w].loose => job[w].res /\ job[w].has \in LockKeys
      BY <1>0, <1>1, StartFacts
  <2>2. QED
      BY <1>0, <2>1 DEF VmInv, Reserved, JobSet
<1>3. /\ {"claim", "touch", "ready"} \subseteq Stages \ {"admit", "kill"}
      /\ {"launch", "failed"} \subseteq Thens \ {"stale", "expired"}
    BY DEF Stages, Starts, Thens, OwnThens
<1>4. Others(w) /\ Plain(w)
  <2>1. CASE Returns(w)
      BY <1>0, <2>1, ReturnPlain
  <2>2. ASSUME NEW stage \in {"claim", "touch", "ready"}, Goes(w, stage) PROVE Others(w) /\ Plain(w)
      BY <1>0, <1>3, <2>2, GoesPlain
  <2>3. ASSUME NEW keep \in BOOLEAN, NEW then \in {"launch", "failed"}, ~job[w].loose,
               CleansUp(w, job[w].vm, job[w].has, keep, then)
        PROVE  Others(w) /\ Plain(w)
    <3>1. PICK v \in Vms, has \in LockKeys : v = job[w].vm /\ has = job[w].has
        BY <1>2, <2>3
    <3>2. QED
        BY <1>0, <1>3, <2>3, <3>1, CleansPlain
  <2>4. job[w].loose => job[w].at \in {"claim", "write", "launch"}
      BY <1>0, <1>1, StartFacts
  <2>5. CASE Ensure(w)
    <3>1. ~job[w].loose
        BY <2>4, <2>5 DEF Ensure, Stage
    <3>2. QED
        BY <2>2, <2>3, <2>5, <3>1 DEF Ensure
  <2>6. CASE ClaimSlot(w)
    <3>1. CASE Fails(w)
        BY <2>1, <3>1 DEF Fails
    <3>2. ASSUME NEW s \in VmSlots, job' = [job EXCEPT ![w].at = "write", ![w].slot = s]
          PROVE  Others(w) /\ Plain(w)
        BY <1>0, <3>2 DEF Others, Plain, JobSet
    <3>3. QED
        BY <2>6, <3>1, <3>2 DEF ClaimSlot
  <2>7. CASE WriteManifest(w)
    <3>1. CASE Fails(w)
        BY <2>1, <3>1 DEF Fails
    <3>2. CASE job' = [job EXCEPT ![w].at = "launch", ![w].slot = 0]
        BY <1>0, <3>2 DEF Others, Plain, JobSet
    <3>3. QED
        BY <2>1, <2>7, <3>1, <3>2 DEF WriteManifest
  <2>8. CASE Launch(w)
      BY <1>2, <2>1, <2>2, <2>3, <2>8 DEF Launch
  <2>9. CASE Ready(w)
    <3>1. ~job[w].loose
        BY <2>4, <2>9 DEF Ready, Stage
    <3>2. QED
        BY <1>2, <2>2, <2>3, <2>9, <3>1 DEF Ready
  <2>10. CASE HandOut(w)
      BY <2>1, <2>10 DEF HandOut, Fails
  <2>11. QED
      BY <2>5, <2>6, <2>7, <2>8, <2>9, <2>10
<1>5. /\ up' \subseteq up \cup {job[w].vm}
      /\ \A v \in Vms \ {job[w].vm} :
           manifest'[v] = manifest[v] /\ lease'[v] = lease[v] /\ (v \in stamp' => v \in stamp)
  <2>1. manifest \in [Vms -> VmSlots \cup {0}] /\ lease \in [Vms -> {"none", "fresh", "old"}]
      BY <1>0 DEF VmInv, VmTypeOK
  <2>2. CASE Ensure(w) \/ ClaimSlot(w) \/ Launch(w) \/ Ready(w)
      BY <2>2 DEF Ensure, ClaimSlot, Launch, Ready, vmDisk
  <2>3. CASE WriteManifest(w)
      BY <1>2, <2>1, <2>3 DEF WriteManifest
  <2>4. CASE HandOut(w)
      BY <1>2, <2>1, <2>4 DEF HandOut
  <2>5. QED
      BY <2>2, <2>3, <2>4
<1>6. LimitFrame(w)
    BY <1>0, <1>1, <1>2, <1>4, <1>5, WorkFrame
<1>7. QED
    BY <1>4, <1>6, PlainStep

LEMMA CleanLimit ==
  ASSUME LimitInv, VmInv', NEW w \in Workers, KillVm(w) \/ RemoveManifest(w) \/ ReleaseSlot(w)
  PROVE  LimitInv'
<1>0. VmInv
    BY DEF LimitInv
<1>1. job[w].at \in Cleans /\ UNCHANGED <<adrift, overrun>>
    BY DEF KillVm, RemoveManifest, ReleaseSlot, Stage, Cleans, vmHistory
<1>2. job[w].old \in Vms /\ Target(w) = job[w].old
    BY <1>0, <1>1, CleanFacts
<1>3. {"files", "release"} \subseteq Stages \ {"admit", "kill"}
    BY DEF Stages, Cleans
<1>4. Others(w) /\ Plain(w) /\ starting' \subseteq starting
  <2>1. CASE AfterCleanup(w)
      BY <1>0, <1>1, <2>1, AfterPlain
  <2>2. CASE Fails(w)
      BY <1>0, <2>2, ReturnPlain DEF Fails, Unreserved
  <2>3. ASSUME NEW stage \in {"files", "release"}, Goes(w, stage), UNCHANGED starting
        PROVE  Others(w) /\ Plain(w) /\ starting' \subseteq starting
      BY <1>0, <1>3, <2>3, GoesPlain
  <2>4. CASE KillVm(w)
      BY <2>1, <2>2, <2>3, <2>4 DEF KillVm
  <2>5. CASE RemoveManifest(w)
      BY <2>3, <2>5 DEF RemoveManifest, memory
  <2>6. CASE ReleaseSlot(w)
    <3>1. AfterCleanup(w) \/ Fails(w)
        BY <2>6 DEF ReleaseSlot
    <3>2. QED
        BY <2>1, <2>2, <3>1
  <2>7. QED
      BY <2>4, <2>5, <2>6
<1>5. /\ up' \subseteq up
      /\ \A v \in Vms \ {job[w].old} :
           manifest'[v] = manifest[v] /\ lease'[v] = lease[v] /\ (v \in stamp' => v \in stamp)
  <2>1. manifest \in [Vms -> VmSlots \cup {0}] /\ lease \in [Vms -> {"none", "fresh", "old"}]
      BY <1>0 DEF VmInv, VmTypeOK
  <2>2. CASE KillVm(w)
      BY <2>2 DEF KillVm, vmDisk
  <2>3. CASE RemoveManifest(w)
      BY <1>2, <2>1, <2>3 DEF RemoveManifest
  <2>4. CASE ReleaseSlot(w)
      BY <1>2, <2>1, <2>4 DEF ReleaseSlot
  <2>5. QED
      BY <2>2, <2>3, <2>4
<1>6. LimitFrame(w)
    BY <1>0, <1>1, <1>2, <1>4, <1>5, WorkFrame
<1>7. QED
    BY <1>4, <1>6, PlainStep

\* A command touches the lease under the lock of its machine.
LEMMA UseLimit ==
  ASSUME LimitInv, VmInv', NEW w \in Workers, UseVm(w)
  PROVE  LimitInv'
<1>0. VmInv /\ JobOK(w) /\ job[w].at = "use" /\ Free(KeyOf(job[w].vm)) /\ job[w].vm \in Vms
    BY DEF LimitInv, VmInv, UseVm, Stage, JobOK
<1>1. UNCHANGED <<up, manifest, stamp, adrift, overrun, starting>>
    BY DEF UseVm, vmHistory
<1>2. \A v \in Vms \ {job[w].vm} : lease'[v] = lease[v]
  <2>1. lease \in [Vms -> {"none", "fresh", "old"}]
      BY <1>0 DEF VmInv, VmTypeOK
  <2>2. UNCHANGED lease \/ lease' = [lease EXCEPT ![job[w].vm] = "fresh"]
      BY DEF UseVm
  <2>3. QED
      BY <1>0, <2>1, <2>2
<1>3. Others(w) /\ Plain(w)
  <2>1. CASE Returns(w)
      BY <1>0, <2>1, ReturnPlain
  <2>2. ASSUME NEW m \in Vms, CleansUp(w, m, KeyOf(job[w].vm), FALSE, "done")
        PROVE  Others(w) /\ Plain(w)
    <3>1. PICK has \in LockKeys, then \in Thens \ {"stale", "expired"} :
            has = KeyOf(job[w].vm) /\ then = "done"
        BY <1>0, KeyFacts DEF Thens, OldThens
    <3>2. QED
        BY <1>0, <2>2, <3>1, CleansPlain
  <2>3. warm[SandboxOf[job[w].vm]] \in Vms \cup {NoVm}
      BY <1>0, KeyFacts DEF VmInv, VmTypeOK
  <2>4. CASE job[w].kind \in {"exec", "track"}
      BY <1>0, <2>1, <2>2, <2>4 DEF UseVm
  <2>5. CASE job[w].kind \in {"stop", "shutdown"}
    <3> DEFINE m == IF job[w].kind = "shutdown" /\ warm[SandboxOf[job[w].vm]] # NoVm
                    THEN warm[SandboxOf[job[w].vm]] ELSE job[w].vm
    <3>1. CleansUp(w, m, KeyOf(job[w].vm), FALSE, "done") \/ Returns(w)
        BY <2>5 DEF UseVm
    <3>2. m \in Vms
        BY <1>0, <2>3
    <3> HIDE DEF m
    <3>3. QED
        BY <2>1, <2>2, <3>1, <3>2
  <2>6. QED
      BY <1>0, <2>4, <2>5 DEF JobOK
<1>4. LimitFrame(w)
  <2>1. ASSUME NEW v \in Vms, ~Free(KeyOf(v)), Expired(v) PROVE Expired(v)'
    <3>1. v # job[w].vm
        BY <1>0, <2>1
    <3>2. QED
        BY <1>1, <1>2, <2>1, <3>1 DEF Expired
  <2>2. QED
      BY <1>1, <1>3, <2>1 DEF LimitFrame
<1>5. QED
    BY <1>3, <1>4, PlainStep

LEMMA DropLimit ==
  ASSUME LimitInv, VmInv', NEW w \in Workers, DropVmCall(w)
  PROVE  LimitInv'
<1>0. VmInv /\ JobTyped /\ job \in [Workers -> JobSet] /\ job[w] \in JobSet
    BY DEF LimitInv, VmInv, JobTyped
<1>1. /\ UNCHANGED <<up, manifest, stamp, overrun>> /\ ~job[w].loose
      /\ adrift \subseteq adrift' /\ starting' \subseteq starting
    BY DEF DropVmCall, Unreserved
<1>2. Others(w) /\ Plain(w)
  <2>1. CASE Returns(w)
      BY <1>0, <2>1, ReturnPlain
  <2>2. CASE /\ job[w].at \in {"claim", "write", "launch", "kill", "files", "release"}
             /\ job' = [job EXCEPT ![w].loose = TRUE, ![w].has = NoVm, ![w].res = FALSE]
      BY <1>0, <2>2 DEF Others, Plain, JobSet
  <2>3. QED
      BY <2>1, <2>2 DEF DropVmCall
<1>3. LimitFrame(w)
  <2>1. ASSUME NEW v \in Vms, ~(Holds(w) /\ Target(w) = v), Expired(v) PROVE Expired(v)'
    <3>1. CASE UNCHANGED lease
        BY <1>1, <2>1, <3>1 DEF Expired
    <3>2. CASE job[w].at = "touch" /\ lease' = [lease EXCEPT ![job[w].vm] = "fresh"]
      <4>1. job[w].at \in Starts
          BY <3>2 DEF Starts
      <4>2. Holds(w) /\ Target(w) = job[w].vm
          BY <1>0, <1>1, <4>1, StartFacts
      <4>3. lease'[v] = lease[v]
          BY <1>0, <2>1, <3>2, <4>2 DEF VmInv, VmTypeOK
      <4>4. QED
          BY <1>1, <2>1, <4>3 DEF Expired
    <3>3. QED
        BY <3>1, <3>2 DEF DropVmCall, Stage
  <2>2. QED
      BY <1>1, <1>2, <2>1 DEF LimitFrame
<1>4. QED
    BY <1>2, <1>3, PlainStep

LEMMA BeginLimit ==
  ASSUME LimitInv, VmInv', NEW w \in Workers, NEW kind, NEW v, NEW stage \in {"scan", "use"},
         Begins(w, kind, v, stage)
  PROVE  LimitInv'
<1>0. VmInv /\ job \in [Workers -> JobSet] /\ job[w] \in JobSet
    BY DEF LimitInv, VmInv, JobTyped
<1>1. UNCHANGED <<up, manifest, lease, stamp, adrift, overrun, starting>>
    BY DEF Begins, vmDisk, memory, vmHistory
<1>2. Others(w) /\ Plain(w)
    BY <1>0 DEF Begins, Others, Plain, JobSet
<1>3. QED
    BY <1>0, <1>1, <1>2, QuietFrame, PlainStep

\* A machine dies, its idle time passes, or the controller dies.
LEMMA EnvLimit ==
  ASSUME LimitInv, VmInv', up' \subseteq up, starting' \subseteq starting, UNCHANGED <<adrift, overrun>>,
         \A v \in Vms : Expired(v) => Expired(v)', job' = job \/ job' = [w \in Workers |-> NoJob]
  PROVE  LimitInv'
<1>1. /\ CapacityHeld'
      /\ \A T : (overrun \/ Cardinality((up \cup starting \cup T) \ adrift) <= MaxVms) /\ T \subseteq Vms =>
           overrun' \/ Cardinality((up' \cup starting' \cup T) \ adrift') <= MaxVms
    BY RoomKept
<1>2. \A x \in Workers : job'[x].at \in {"admit", "kill"} => job'[x] = job[x]
    BY DEF NoJob
<1>3. ASSUME NEW x \in Workers, job'[x].at = "admit"
      PROVE  overrun' \/ Cardinality((up' \cup starting' \cup job'[x].todo) \ adrift') <= MaxVms
  <2>1. job'[x] = job[x] /\ job[x].at = "admit" /\ job[x].todo \subseteq Vms
      BY <1>2, <1>3 DEF LimitInv, VmInv, VmTypeOK
  <2>2. overrun \/ Cardinality((up \cup starting \cup job[x].todo) \ adrift) <= MaxVms
      BY <2>1 DEF LimitInv, GateOK
  <2>3. QED
      BY <1>1, <2>1, <2>2
<1>4. \A x, y \in Workers : job'[x].at = "admit" /\ job'[y].at = "admit" => x = y
    BY <1>2 DEF LimitInv, GateOK
<1>5. ASSUME NEW x \in Workers PROVE ReapOK(x)'
  <2>1. PICK v : v = job[x].old
      OBVIOUS
  <2>2. CASE job'[x].at = "kill"
    <3>1. job'[x] = job[x] /\ job[x].at = "kill" /\ job[x].at \in Cleans /\ VmInv
        BY <1>2, <2>2 DEF Cleans, LimitInv
    <3>2. v \in Vms
        BY <2>1, <3>1, CleanFacts
    <3>3. ~job[x].loose /\ v \notin adrift =>
            /\ job[x].then = "expired" => Expired(v)
            /\ job[x].then = "stale" => v \notin up \cup starting
        BY <2>1, <3>1 DEF LimitInv, ReapsOnlyIdle, Stage
    <3>4. ~job[x].loose /\ v \notin adrift =>
            /\ job[x].then = "expired" => Expired(v)'
            /\ job[x].then = "stale" => v \notin up' \cup starting'
        BY <3>2, <3>3
    <3>5. QED
        BY <2>1, <3>1, <3>4 DEF ReapOK, Stage, Expired
  <2>3. CASE job'[x].at # "kill"
      BY <2>3 DEF ReapOK, Stage
  <2>4. QED
      BY <2>2, <2>3
<1>6. ReapsOnlyIdle'
    BY <1>5 DEF ReapOK, ReapsOnlyIdle
<1>7. QED
    BY <1>1, <1>3, <1>4, <1>6 DEF LimitInv, GateOK

LEMMA LimitInvStep == LimitInv /\ [VmNext]_vmVars => LimitInv'
<1> SUFFICES ASSUME LimitInv, [VmNext]_vmVars PROVE LimitInv'
    OBVIOUS
<1>0. VmInv /\ VmInv'
    BY VmInvStep DEF LimitInv
<1>1. ASSUME NEW w \in Workers, VmStep(w) PROVE LimitInv'
    BY <1>0, <1>1, ScanLimit, ReapLimit, GateLimit, AdmitLimit, StartLimit, CleanLimit, UseLimit DEF VmStep
<1>2. ASSUME NEW w \in Workers, NEW v \in Vms,
             ReapVms(w) \/ AcquireVm(w, v) \/ ExecVm(w, v) \/ StopVm(w, v) \/ TrackVm(w, v) \/ ShutVm(w, v)
      PROVE  LimitInv'
    BY <1>0, <1>2, BeginLimit DEF ReapVms, AcquireVm, ExecVm, StopVm, TrackVm, ShutVm
<1>3. ASSUME NEW w \in Workers, ReapVms(w) PROVE LimitInv'
    BY <1>0, <1>3, BeginLimit DEF ReapVms
<1>4. ASSUME NEW w \in Workers, DropVmCall(w) PROVE LimitInv'
    BY <1>0, <1>4, DropLimit
<1>5. CASE (\E v \in Vms : VmDies(v)) \/ ControllerDies \/ UNCHANGED vmVars
  <2>1. /\ up' \subseteq up /\ starting' \subseteq starting
        /\ UNCHANGED <<adrift, overrun, manifest, lease, stamp>>
        /\ job' = job \/ job' = [w \in Workers |-> NoJob]
      BY <1>5 DEF VmDies, ControllerDies, vmVars, vmDisk, memory, vmHistory
  <2>2. \A v \in Vms : Expired(v) => Expired(v)'
      BY <2>1 DEF Expired
  <2>3. QED
      BY <1>0, <2>1, <2>2, EnvLimit
<1>6. ASSUME NEW v \in Vms, IdleTimePasses(v) PROVE LimitInv'
  <2>1. /\ UNCHANGED <<up, manifest, starting, job, adrift, overrun>> /\ stamp' = stamp \ {v}
        /\ lease' = [lease EXCEPT ![v] = IF @ = "none" THEN @ ELSE "old"]
      BY <1>6 DEF IdleTimePasses, memory, vmHistory
  <2>2. lease \in [Vms -> {"none", "fresh", "old"}]
      BY <1>0 DEF VmInv, VmTypeOK
  <2>3. \A u \in Vms : Expired(u) => Expired(u)'
      BY <2>1, <2>2 DEF Expired
  <2>4. QED
      BY <1>0, <2>1, <2>3, EnvLimit
<1>7. QED
    BY <1>1, <1>2, <1>3, <1>4, <1>5, <1>6 DEF VmNext

LEMMA LimitInvInit == VmInit => LimitInv
<1> SUFFICES ASSUME VmInit PROVE LimitInv
    OBVIOUS
<1>1. VmInv
    BY VmInvInit
<1>2. \A w \in Workers : job[w].at = "idle"
    BY DEF VmInit, NoJob
<1>3. CapacityHeld
  <2>1. (up \cup starting) \ adrift = {}
      BY DEF VmInit
  <2>2. Cardinality({}) = 0
      BY FS_EmptySet
  <2>3. QED
      BY <2>1, <2>2, VmAssumption DEF CapacityHeld, VmAssumption
<1>4. GateOK /\ ReapsOnlyIdle
    BY <1>2 DEF GateOK, ReapsOnlyIdle, Stage
<1>5. QED
    BY <1>1, <1>3, <1>4 DEF LimitInv

\* Who has a lock does not wait for another one, and who is past the gate goes on.
LEMMA SomeoneGoesOn == VmInv => NoVmDeadlock
<1> SUFFICES ASSUME VmInv, NEW w \in Workers, job[w].at # "idle"
             PROVE  \E x \in Workers : job[x].at # "idle" /\ ~Blocked(x)
    BY DEF NoVmDeadlock
<1>1. ASSUME NEW x \in Workers, job[x].at = "admit"
      PROVE  job[x].at # "idle" /\ ~Blocked(x)
    BY <1>1 DEF Blocked, Stage
<1>2. ASSUME NEW x \in Workers, job[x].has # NoVm
      PROVE  \E y \in Workers : job[y].at # "idle" /\ ~Blocked(y)
  <2>1. job[x].at \in Early \cup Starts \cup Cleans
      BY <1>2 DEF VmInv, LockOK
  <2>2. /\ job[x].at # "idle"
        /\ Blocked(x) => \E y \in Workers : job[y].at = "admit"
      BY <2>1 DEF Blocked, Stage, Early, Starts, Cleans
  <2>3. QED
      BY <1>1, <2>2
<1>3. ASSUME NEW v \in Vms, NEW key \in {KeyOf(v), SandboxOf[v]}, ~Free(key)
      PROVE  \E y \in Workers : job[y].at # "idle" /\ ~Blocked(y)
  <2>1. key # NoVm
      BY KeyFacts
  <2>2. PICK x \in Workers : job[x].has = key
      BY <1>3 DEF Free
  <2>3. QED
      BY <1>2, <2>1, <2>2
<1>4. JobOK(w) /\ JobTyped
    BY DEF VmInv
<1>5. CASE job[w].at \in {"lock", "use"} /\ Blocked(w)
  <2>1. job[w].vm \in Vms
      BY <1>4, <1>5 DEF JobOK
  <2>2. QED
      BY <1>3, <1>5, <2>1 DEF Blocked, Stage
<1>6. CASE job[w].at \in {"stale", "expired"} /\ Blocked(w)
  <2>1. PICK v \in job[w].todo : ~Free(KeyOf(v))
      BY <1>6 DEF Blocked, Stage
  <2>2. v \in Vms
      BY <1>4 DEF JobTyped, JobSet
  <2>3. QED
      BY <1>3, <2>1, <2>2
<1>7. CASE job[w].at = "gate" /\ Blocked(w)
    BY <1>1, <1>7 DEF Blocked, Stage
<1>8. CASE ~Blocked(w)
    BY <1>8
<1>9. QED
    BY <1>5, <1>6, <1>7, <1>8 DEF Blocked, Stage

\* For any number of machines and calls: machines that run or start are at most
\* max_machines as long as no start was admitted on a scan that was out of date;
\* a reaper about to kill has found its machine idle for its time, or neither
\* running nor starting, and nothing has changed that since; and calls never all
\* wait for each other's locks and for the gate.
THEOREM HostLimitsCorrect == VmSpec => []HostLimitsKept
<1>1. LimitInv => HostLimitsKept
    BY SomeoneGoesOn DEF LimitInv, HostLimitsKept
<1>2. QED
    BY <1>1, LimitInvInit, LimitInvStep, PTL DEF VmSpec

-----------------------------------------------------------------------------
(* Snapshot templates.  A directory is protected in turn by the lock that its   *)
(* capture has, by the shared lock on its lease file and by the manifest that   *)
(* refers to it; the invariant TplInv says so of every call on its way.         *)

TplKinds == {"none", "snapshot", "fork", "restore", "delete", "reap", "clean"}
Reaping == {"refs", "pick", "try", "rescan", "tear", "gone"}
Victims == {"try", "rescan", "tear", "gone"}
Undoing == {"kill", "undo", "unrefer"}
TplStages ==
  {"idle", "capture", "link", "open", "share", "check ready", "record", "launch"} \cup Reaping
    \cup Undoing
TaskSet ==
  [kind : TplKinds, key : TplKeys \cup {0}, to : Clones \cup {0}, at : TplStages,
   seen : SUBSET TplKeys, todo : SUBSET TplKeys, victim : TplKeys \cup {0}, file : 0..2,
   mode : {"none", "shared", "exclusive"}]
TaskTyped == task \in [Helpers -> TaskSet]

\* What the kind and the stage of a call say of the rest of it.
TaskOK(t) ==
  /\ t.at = "idle" => t.kind = "none"
  /\ t.kind = "none" => t.key = 0 /\ t.to = 0 /\ t.at = "idle"
  /\ t.victim # 0 <=> t.at \in Victims
  /\ t.mode = "exclusive" <=> t.at \in {"rescan", "tear", "gone"}
  /\ t.mode = "shared" <=> t.at = "record" \/ (t.at = "check ready" /\ t.kind = "fork")
  /\ t.file # 0 <=> t.at \in Victims \cup {"share"} \/ t.mode = "shared"
  /\ t.todo # {} => t.at \in Reaping
  /\ t.kind = "fork" => t.to \in Clones /\ t.key = ForkKeys[t.to]
  /\ t.kind = "restore" => t.to \in Clones /\ t.key \in SnapKeys
  /\ t.kind = "snapshot" => t.key \in SnapKeys
  /\ t.kind = "clean" => t.to \in Clones /\ t.key \in TplKeys
  /\ t.kind = "clean" /\ IsFork(t.key) => t.key = ForkKeys[t.to]
  /\ t.at \in {"capture", "link"} => t.kind \in Captures
  /\ t.at \in {"open", "share"} => t.kind \in Captures \cup {"restore"}
  /\ t.at \in {"check ready", "record", "launch"} => t.kind \in {"fork", "restore"}
  /\ t.at \in Undoing => t.kind \in {"fork", "restore", "clean"}
  /\ t.at = "undo" => IsFork(t.key)

\* A capture whose template is not there yet, and the keys that are past it.
Unpublished(t) == t.kind \in Captures /\ t.at \in Reaping \cup {"capture"}
Out(k) == k \in keysUsed /\ \A x \in Helpers : Unpublished(task[x]) => task[x].key # k

Whole(k) == dir[k] = "full" \/ k \in remade
FileDir(t) == IF t.victim # 0 THEN t.victim ELSE t.key

\* The references whose manifests were written under a lease.
Held == {refers[m] : m \in Clones \ unheld} \ {0}

\* What a call may rely on.
TaskHolds(t) ==
  /\ t.victim # 0 => Out(t.victim)
  /\ \A k \in t.todo : Out(k)
  /\ t.key # 0 => t.key \in keysUsed
  /\ t.key # 0 /\ ~Unpublished(t) => Out(t.key)
  /\ t.file = 2 => FileDir(t) \in remade
  /\ t.at \in {"tear", "gone"} /\ t.victim \in Held => t.victim \in remade
  /\ t.victim \in SnapKeys /\ dir[t.victim] = "full" => t.victim \in deleted \cup aged
  /\ t.mode = "shared" => Whole(t.key)
  /\ t.at = "launch" => refers[t.to] = t.key /\ t.to \notin unheld /\ Whole(t.key)
  /\ t.kind = "fork" /\ t.at \notin {"launch"} \cup Undoing => refers[t.to] = 0 \/ t.to \in unheld
  /\ t.at \in {"undo", "unrefer"} => t.to \notin running

\* Two calls: one at a time for a clone, one capture, and a file of which one has
\* the exclusive lock is not shared.
TasksApart(t, u) ==
  /\ t.to # 0 => t.to # u.to
  /\ t.kind \in Captures => u.kind \notin Captures
  /\ t.mode = "exclusive" /\ u.mode = "shared" /\ t.victim = u.key => t.file # u.file

DirOK(k) ==
  /\ dir[k] # "full" => inode[k] = 0 \/ k \in remade
  /\ inode[k] = 2 => k \in remade
  /\ dir[k] # "none" => Out(k)
CloneOK(m) ==
  /\ refers[m] # 0 => Out(refers[m])
  /\ refers[m] # 0 /\ IsFork(refers[m]) => refers[m] = ForkKeys[m]
  /\ refers[m] \in SnapKeys /\ m \notin unheld => Whole(refers[m])
  /\ m \in unheld => refers[m] # 0 /\ m \notin running
  /\ m \in running => refers[m] # 0 /\ Whole(refers[m])

\* A manifest yet to be written by a dropped call.
LooseRefOK(p) == Out(p[2]) /\ (IsFork(p[2]) => p[2] = ForkKeys[p[1]])

TplInv ==
  /\ TplTypeOK /\ TaskTyped
  /\ \A h \in Helpers : TaskOK(task[h])
  /\ \A h \in Helpers : TaskHolds(task[h])
  /\ \A x, y \in Helpers : x # y => TasksApart(task[x], task[y])
  /\ \A k \in TplKeys : DirOK(k)
  /\ \A m \in Clones : CloneOK(m)
  /\ \A p \in loose : LooseRefOK(p)

-----------------------------------------------------------------------------
(* How a step changes the calls.                                               *)

\* Only the call of h changes.
OnlyTask(h) == \A x \in Helpers : x # h => task'[x] = task[x]

LEMMA NoTaskFields ==
  /\ NoTask \in TaskSet
  /\ NoTask.kind = "none" /\ NoTask.key = 0 /\ NoTask.to = 0 /\ NoTask.at = "idle"
  /\ NoTask.seen = {} /\ NoTask.todo = {} /\ NoTask.victim = 0 /\ NoTask.file = 0
  /\ NoTask.mode = "none"
BY TplAssumption DEF NoTask, TaskSet, TplKinds, TplStages

LEMMA NewTask ==
  ASSUME NEW a \in TplKinds, NEW k \in TplKeys \cup {0}, NEW m \in Clones \cup {0},
         NEW s \in TplStages,
         NEW t, t = [NoTask EXCEPT !.kind = a, !.key = k, !.to = m, !.at = s]
  PROVE  /\ t \in TaskSet /\ t.kind = a /\ t.key = k /\ t.to = m /\ t.at = s
         /\ t.seen = {} /\ t.todo = {} /\ t.victim = 0 /\ t.file = 0 /\ t.mode = "none"
<1> DEFINE n == NoTask
<1>1. n \in TaskSet /\ n.seen = {} /\ n.todo = {} /\ n.victim = 0 /\ n.file = 0 /\ n.mode = "none"
  BY NoTaskFields
<1> HIDE DEF n
<1>2. t = [n EXCEPT !.kind = a, !.key = k, !.to = m, !.at = s]
  BY DEF n
<1> QED BY <1>1, <1>2 DEF TaskSet

LEMMA TaskEntry ==
  ASSUME TaskTyped, NEW h \in Helpers, NEW t \in TaskSet, task' = [task EXCEPT ![h] = t]
  PROVE  TaskTyped' /\ OnlyTask(h) /\ task'[h] = t
BY DEF TaskTyped, OnlyTask

LEMMA MovesDoes ==
  ASSUME TaskTyped, NEW h \in Helpers, NEW s \in TplStages, Moves(h, s)
  PROVE  /\ TaskTyped' /\ OnlyTask(h)
         /\ task'[h].at = s /\ task'[h].kind = task[h].kind /\ task'[h].key = task[h].key
         /\ task'[h].to = task[h].to /\ task'[h].seen = task[h].seen
         /\ task'[h].todo = task[h].todo /\ task'[h].victim = task[h].victim
         /\ task'[h].file = task[h].file /\ task'[h].mode = task[h].mode
BY DEF TaskTyped, TaskSet, Moves, OnlyTask

LEMMA DoneDoes ==
  ASSUME TaskTyped, NEW h \in Helpers, Done(h)
  PROVE  TaskTyped' /\ OnlyTask(h) /\ task'[h] = NoTask
BY NoTaskFields DEF TaskTyped, Done, OnlyTask

LEMMA PassesDoes ==
  ASSUME TaskTyped, NEW h \in Helpers, Passes(h)
  PROVE  /\ TaskTyped' /\ OnlyTask(h)
         /\ task'[h].at = "pick" /\ task'[h].kind = task[h].kind /\ task'[h].key = task[h].key
         /\ task'[h].to = task[h].to /\ task'[h].seen = task[h].seen
         /\ task'[h].todo = task[h].todo \ {task[h].victim} /\ task'[h].victim = 0
         /\ task'[h].file = 0 /\ task'[h].mode = "none"
<1>1. task \in [Helpers -> TaskSet] /\ task[h] \in TaskSet
  BY DEF TaskTyped
<1>t. PICK T \in SUBSET TplKeys : T = task[h].todo \ {task[h].victim}
  <2>1. task[h].todo \ {task[h].victim} \in SUBSET TplKeys
    BY <1>1 DEF TaskSet
  <2> QED BY <2>1
<1>2. PICK s \in TplStages, v \in TplKeys \cup {0}, f \in 0..2,
           o \in {"none", "shared", "exclusive"} :
        s = "pick" /\ v = 0 /\ f = 0 /\ o = "none"
  <2>1. "pick" \in TplStages
    BY DEF TplStages, Reaping
  <2> QED BY <2>1
<1> DEFINE t == [task[h] EXCEPT !.at = s, !.todo = T, !.victim = v, !.file = f, !.mode = o]
<1>3. task' = [task EXCEPT ![h] = t]
  BY <1>1, <1>t, <1>2 DEF Passes
<1>4. /\ t \in TaskSet
      /\ t.at = s /\ t.kind = task[h].kind /\ t.key = task[h].key /\ t.to = task[h].to
      /\ t.seen = task[h].seen /\ t.todo = T /\ t.victim = v /\ t.file = f /\ t.mode = o
  BY <1>1 DEF TaskSet
<1> HIDE DEF t
<1> QED BY <1>t, <1>2, <1>3, <1>4, TaskEntry

LEMMA AfterReapDoes ==
  ASSUME TaskTyped, NEW h \in Helpers, NEW ok \in BOOLEAN, AfterReap(h, ok)
  PROVE  /\ TaskTyped' /\ OnlyTask(h)
         /\ \/ task'[h] = NoTask
            \/ /\ task[h].kind \in Captures
               /\ task'[h].at = "capture" /\ task'[h].kind = task[h].kind
               /\ task'[h].key = task[h].key /\ task'[h].to = task[h].to
               /\ task'[h].seen = {} /\ task'[h].todo = {} /\ task'[h].victim = 0
               /\ task'[h].file = 0 /\ task'[h].mode = "none"
<1>1. CASE task[h].kind \in Captures /\ ok
  <2> DEFINE n == NoTask
  <2>1. /\ n \in TaskSet /\ n.seen = {} /\ n.todo = {} /\ n.victim = 0 /\ n.file = 0
        /\ n.mode = "none"
    BY NoTaskFields
  <2>2. PICK s \in TplStages : s = "capture"
    BY DEF TplStages
  <2> DEFINE t == [n EXCEPT !.kind = task[h].kind, !.key = task[h].key, !.to = task[h].to,
                            !.at = s]
  <2>3. task' = [task EXCEPT ![h] = t]
    BY <1>1, <2>2 DEF AfterReap
  <2> HIDE DEF n
  <2>5. /\ t \in TaskSet /\ t.kind = task[h].kind /\ t.key = task[h].key /\ t.to = task[h].to
        /\ t.at = s /\ t.seen = {} /\ t.todo = {} /\ t.victim = 0 /\ t.file = 0
        /\ t.mode = "none"
    <3>1. task[h] \in TaskSet
      BY DEF TaskTyped
    <3> QED BY <2>1, <3>1 DEF TaskSet
  <2> HIDE DEF t
  <2>4. TaskTyped' /\ OnlyTask(h) /\ task'[h] = t
    BY <2>3, <2>5, TaskEntry
  <2> QED BY <2>2, <2>4, <2>5, <1>1
<1>2. CASE ~(task[h].kind \in Captures /\ ok)
  BY <1>2, DoneDoes DEF AfterReap
<1> QED BY <1>1, <1>2

LEMMA RestoreFailsDoes ==
  ASSUME TaskTyped, NEW h \in Helpers, RestoreFails(h)
  PROVE  /\ TaskTyped' /\ OnlyTask(h)
         /\ \/ task'[h] = NoTask
            \/ /\ task[h].kind = "fork"
               /\ task'[h].at = "undo" /\ task'[h].kind = "fork"
               /\ task'[h].key = task[h].key /\ task'[h].to = task[h].to
               /\ task'[h].seen = task[h].seen /\ task'[h].todo = task[h].todo
               /\ task'[h].victim = task[h].victim /\ task'[h].file = 0
               /\ task'[h].mode = "none"
<1>1. CASE task[h].kind = "fork"
  <2>1. task \in [Helpers -> TaskSet] /\ task[h] \in TaskSet
    BY DEF TaskTyped
  <2>2. PICK s \in TplStages, f \in 0..2, o \in {"none", "shared", "exclusive"} :
          s = "undo" /\ f = 0 /\ o = "none"
    <3>1. "undo" \in TplStages
      BY DEF TplStages, Undoing
    <3> QED BY <3>1
  <2> DEFINE t == [task[h] EXCEPT !.at = s, !.file = f, !.mode = o]
  <2>3. task' = [task EXCEPT ![h] = t]
    BY <1>1, <2>1, <2>2 DEF RestoreFails
  <2>4. /\ t \in TaskSet /\ t.at = s /\ t.kind = task[h].kind /\ t.key = task[h].key
        /\ t.to = task[h].to /\ t.seen = task[h].seen /\ t.todo = task[h].todo
        /\ t.victim = task[h].victim /\ t.file = f /\ t.mode = o
    BY <2>1 DEF TaskSet
  <2> HIDE DEF t
  <2> QED BY <1>1, <2>2, <2>3, <2>4, TaskEntry
<1>2. CASE task[h].kind # "fork"
  BY <1>2, DoneDoes DEF RestoreFails
<1> QED BY <1>1, <1>2

LEMMA IdleOK ==
  ASSUME NEW h \in Helpers, task'[h] = NoTask
  PROVE  TaskOK(task[h])' /\ TaskHolds(task[h])' /\ ~Unpublished(task'[h])
BY NoTaskFields, TplAssumption
DEF TaskOK, TaskHolds, Unpublished, Victims, Reaping, Undoing, Captures, TplKeys

-----------------------------------------------------------------------------
(* What a step of one call leaves to the others.                               *)

\* A key that is past its capture stays past it: each capture has a new key.
LEMMA OutKept ==
  ASSUME NEW h \in Helpers, OnlyTask(h), keysUsed \subseteq keysUsed',
         Unpublished(task'[h]) =>
           \/ Unpublished(task[h]) /\ task'[h].key = task[h].key
           \/ task'[h].key \notin keysUsed
  PROVE  \A k \in TplKeys : Out(k) => Out(k)'
<1> SUFFICES ASSUME NEW k \in TplKeys, Out(k), NEW x \in Helpers, Unpublished(task'[x])
             PROVE  task'[x].key # k
  BY DEF Out, Unpublished
<1>1. CASE x = h
  BY <1>1 DEF Out
<1>2. CASE x # h
  BY <1>2 DEF OnlyTask, Out
<1> QED BY <1>1, <1>2

\* A step that keeps directories, references and running clones.
LEMMA OtherQuiet ==
  ASSUME TplInv, NEW h \in Helpers, OnlyTask(h), \A k \in TplKeys : Out(k) => Out(k)',
         UNCHANGED <<dir, refers, running, unheld>>, keysUsed \subseteq keysUsed',
         remade \subseteq remade', deleted \subseteq deleted', aged \subseteq aged',
         NEW x \in Helpers, x # h
  PROVE  TaskHolds(task[x])'
<1>1. task'[x] = task[x]
  BY DEF OnlyTask
<1>2. TaskHolds(task[x]) /\ task[x] \in TaskSet
  BY DEF TplInv, TaskTyped
<1>3. Referenced' = Referenced /\ Held' = Held
  BY DEF Referenced, Held
<1>4. /\ task[x].victim \in TplKeys \cup {0} /\ task[x].key \in TplKeys \cup {0}
      /\ task[x].todo \subseteq TplKeys
  BY <1>2 DEF TaskSet
<1> QED BY <1>1, <1>2, <1>3, <1>4 DEF TaskHolds, Unpublished, FileDir, Whole

LEMMA ClonesQuiet ==
  ASSUME TplInv, \A k \in TplKeys : Out(k) => Out(k)', UNCHANGED <<dir, refers, running, unheld>>,
         remade \subseteq remade'
  PROVE  \A m \in Clones : CloneOK(m)'
BY DEF TplInv, TplTypeOK, CloneOK, Whole, IsFork

LEMMA DirsQuiet ==
  ASSUME TplInv, \A k \in TplKeys : Out(k) => Out(k)', UNCHANGED <<dir, inode, remade>>
  PROVE  \A k \in TplKeys : DirOK(k)'
BY DEF TplInv, DirOK

\* A call that takes no lock and no other clone, and begins no capture.
LEMMA ApartKept ==
  ASSUME TplInv, NEW h \in Helpers, OnlyTask(h),
         task'[h].to \in {0, task[h].to}, task'[h].kind \in Captures => task[h].kind \in Captures,
         task'[h].mode # "none" =>
           /\ task'[h].mode = task[h].mode /\ task'[h].victim = task[h].victim
           /\ task'[h].key = task[h].key /\ task'[h].file = task[h].file,
         NEW x \in Helpers, x # h
  PROVE  TasksApart(task[h], task[x])' /\ TasksApart(task[x], task[h])'
<1>1. task'[x] = task[x]
  BY DEF OnlyTask
<1>2. TasksApart(task[h], task[x]) /\ TasksApart(task[x], task[h])
  BY DEF TplInv
<1> QED BY <1>1, <1>2 DEF TasksApart

\* The manifests that dropped calls still write.
LEMMA LooseKept ==
  ASSUME TplInv, \A k \in TplKeys : Out(k) => Out(k)', loose' \subseteq loose
  PROVE  \A p \in loose' : LooseRefOK(p)'
<1> SUFFICES ASSUME NEW p \in loose' PROVE LooseRefOK(p)'
  OBVIOUS
<1>1. LooseRefOK(p) /\ p[2] \in TplKeys
  BY DEF TplInv, TplTypeOK
<1> QED BY <1>1 DEF LooseRefOK, IsFork

LEMMA AssembleLoose ==
  ASSUME TplInv, NEW h \in Helpers, OnlyTask(h), TplTypeOK', TaskTyped', TaskOK(task[h])',
         TaskHolds(task[h])', \A x \in Helpers : x # h => TaskHolds(task[x])',
         \A x \in Helpers : x # h => TasksApart(task[h], task[x])' /\ TasksApart(task[x], task[h])',
         \A k \in TplKeys : DirOK(k)', \A m \in Clones : CloneOK(m)',
         \A p \in loose' : LooseRefOK(p)'
  PROVE  TplInv'
<1>1. ASSUME NEW x \in Helpers PROVE TaskOK(task[x])'
  <2>1. CASE x = h
    BY <2>1
  <2>2. CASE x # h
    <3>1. task'[x] = task[x] /\ TaskOK(task[x])
      BY <2>2 DEF OnlyTask, TplInv
    <3> QED BY <3>1 DEF TaskOK, IsFork
  <2> QED BY <2>1, <2>2
<1>2. ASSUME NEW x \in Helpers PROVE TaskHolds(task[x])'
  <2>1. CASE x = h
    BY <2>1
  <2>2. CASE x # h
    BY <2>2
  <2> QED BY <2>1, <2>2
<1>3. ASSUME NEW x \in Helpers, NEW y \in Helpers, x # y PROVE TasksApart(task[x], task[y])'
  <2>1. CASE x = h
    BY <1>3, <2>1
  <2>2. CASE y = h
    BY <1>3, <2>2
  <2>3. CASE x # h /\ y # h
    <3>1. task'[x] = task[x] /\ task'[y] = task[y] /\ TasksApart(task[x], task[y])
      BY <1>3, <2>3 DEF OnlyTask, TplInv
    <3> QED BY <3>1 DEF TasksApart
  <2> QED BY <2>1, <2>2, <2>3
<1> QED BY <1>1, <1>2, <1>3 DEF TplInv

LEMMA AssembleTpl ==
  ASSUME TplInv, NEW h \in Helpers, OnlyTask(h), TplTypeOK', TaskTyped', TaskOK(task[h])',
         TaskHolds(task[h])', \A x \in Helpers : x # h => TaskHolds(task[x])',
         \A x \in Helpers : x # h => TasksApart(task[h], task[x])' /\ TasksApart(task[x], task[h])',
         \A k \in TplKeys : DirOK(k)', \A m \in Clones : CloneOK(m)',
         \A k \in TplKeys : Out(k) => Out(k)', loose' = loose
  PROVE  TplInv'
<1>1. \A p \in loose' : LooseRefOK(p)'
  BY LooseKept
<1> QED BY <1>1, AssembleLoose

\* A step of one call that keeps directories, references and running clones.
LEMMA QuietTplStep ==
  ASSUME TplInv, NEW h \in Helpers, OnlyTask(h), TplTypeOK', TaskTyped',
         UNCHANGED <<dir, inode, refers, running, remade, loose, unheld>>, keysUsed \subseteq keysUsed',
         deleted \subseteq deleted', aged \subseteq aged',
         \A k \in TplKeys : Out(k) => Out(k)',
         TaskOK(task[h])', TaskHolds(task[h])',
         \A x \in Helpers : x # h => TasksApart(task[h], task[x])' /\ TasksApart(task[x], task[h])'
  PROVE  TplInv'
<1>1. \A x \in Helpers : x # h => TaskHolds(task[x])'
  BY OtherQuiet
<1>2. \A k \in TplKeys : DirOK(k)'
  BY DirsQuiet
<1>3. \A m \in Clones : CloneOK(m)'
  BY ClonesQuiet
<1> QED BY <1>1, <1>2, <1>3, AssembleTpl

-----------------------------------------------------------------------------
(* The reaper.                                                                 *)

LEMMA TaskFacts ==
  ASSUME TplInv, NEW h \in Helpers
  PROVE  /\ TaskTyped /\ task[h] \in TaskSet /\ TaskOK(task[h]) /\ TaskHolds(task[h])
         /\ task[h].kind \in TplKinds /\ task[h].key \in TplKeys \cup {0}
         /\ task[h].to \in Clones \cup {0} /\ task[h].at \in TplStages
         /\ task[h].todo \subseteq TplKeys /\ task[h].victim \in TplKeys \cup {0}
         /\ task[h].file \in 0..2 /\ task[h].mode \in {"none", "shared", "exclusive"}
         /\ 0 \notin TplKeys /\ 0 \notin Clones
         /\ \A m \in Clones : ForkKeys[m] \in TplKeys /\ IsFork(ForkKeys[m])
<1>1. TaskTyped /\ task[h] \in TaskSet /\ TaskOK(task[h]) /\ TaskHolds(task[h])
  BY DEF TplInv, TaskTyped
<1>2. /\ task[h].kind \in TplKinds /\ task[h].key \in TplKeys \cup {0}
      /\ task[h].to \in Clones \cup {0} /\ task[h].at \in TplStages
      /\ task[h].todo \subseteq TplKeys /\ task[h].victim \in TplKeys \cup {0}
      /\ task[h].file \in 0..2 /\ task[h].mode \in {"none", "shared", "exclusive"}
  BY <1>1 DEF TaskSet
<1>3. 0 \notin TplKeys /\ 0 \notin Clones
  BY TplAssumption
<1>4. \A m \in Clones : ForkKeys[m] \in TplKeys /\ IsFork(ForkKeys[m])
  BY TplAssumption DEF TplKeys, IsFork
<1> QED BY <1>1, <1>2, <1>3, <1>4

\* A step that changes nothing but the call and the pending file.
LEMMA CallStep ==
  ASSUME TplInv, NEW h \in Helpers, OnlyTask(h), TaskTyped', UNCHANGED <<dirs, clones, tplPast>>,
         wedged' \in BOOLEAN, \A k \in TplKeys : Out(k) => Out(k)',
         TaskOK(task[h])', TaskHolds(task[h])',
         \A x \in Helpers : x # h => TasksApart(task[h], task[x])' /\ TasksApart(task[x], task[h])'
  PROVE  TplInv'
<1>1. UNCHANGED <<dir, inode, deleted, aged, refers, running, remade, keysUsed, loose, unheld>>
  BY DEF dirs, clones, tplPast, drops
<1>2. TplTypeOK'
  BY <1>1 DEF TplInv, TplTypeOK
<1> QED BY <1>1, <1>2, QuietTplStep

LEMMA EndStep ==
  ASSUME TplInv, NEW h \in Helpers, OnlyTask(h), TaskTyped', UNCHANGED <<dirs, clones, tplPast>>,
         wedged' \in BOOLEAN, task'[h] = NoTask
  PROVE  TplInv'
<1>1. TaskOK(task[h])' /\ TaskHolds(task[h])' /\ ~Unpublished(task'[h])
  BY IdleOK
<1>2. keysUsed' = keysUsed
  BY DEF tplPast, drops
<1>3. \A k \in TplKeys : Out(k) => Out(k)'
  BY <1>1, <1>2, OutKept
<1>4. \A x \in Helpers : x # h => TasksApart(task[h], task[x])' /\ TasksApart(task[x], task[h])'
  BY ApartKept, NoTaskFields DEF Captures
<1> QED BY <1>1, <1>3, <1>4, CallStep

LEMMA ReadRefsKeeps ==
  ASSUME TplInv, NEW h \in Helpers, ReadRefs(h)
  PROVE  TplInv'
<1>1. /\ task \in [Helpers -> TaskSet] /\ task[h] \in TaskSet /\ TaskOK(task[h])
      /\ TaskHolds(task[h]) /\ task[h].at = "refs"
  BY TaskFacts DEF ReadRefs, On, TaskTyped
<1>2. PICK s \in TplStages, S \in SUBSET TplKeys, T \in SUBSET TplKeys :
        s = "pick" /\ S = Referenced /\ T = {k \in TplKeys : dir[k] # "none"}
  <2>1. "pick" \in TplStages
    BY DEF TplStages, Reaping
  <2>2. Referenced \in SUBSET TplKeys
    BY DEF Referenced, Held, TplInv, TplTypeOK
  <2> QED BY <2>1, <2>2
<1> DEFINE t == [task[h] EXCEPT !.at = s, !.seen = S, !.todo = T]
<1>3. task' = [task EXCEPT ![h] = t]
  BY <1>1, <1>2 DEF ReadRefs
<1>4. /\ t \in TaskSet /\ t.at = s /\ t.kind = task[h].kind /\ t.key = task[h].key
      /\ t.to = task[h].to /\ t.seen = S /\ t.todo = T /\ t.victim = task[h].victim
      /\ t.file = task[h].file /\ t.mode = task[h].mode
  BY <1>1 DEF TaskSet
<1> HIDE DEF t
<1>5. TaskTyped' /\ OnlyTask(h) /\ task'[h] = t
  BY <1>3, <1>4, TaskEntry DEF TplInv
<1>6. UNCHANGED <<dirs, clones, tplPast>> /\ wedged' \in BOOLEAN /\ keysUsed' = keysUsed
  BY DEF ReadRefs, TplInv, TplTypeOK, tplPast, drops
<1>7. \A k \in TplKeys : Out(k) => Out(k)'
  BY <1>1, <1>2, <1>4, <1>5, <1>6, OutKept DEF Unpublished, Reaping
<1>8. TaskOK(task[h])'
  BY <1>1, <1>2, <1>4, <1>5 DEF TaskOK, Victims, Reaping, Undoing, IsFork
<1>9. TaskHolds(task[h])'
  <2>1. UNCHANGED <<dir, inode, deleted, aged, refers, running, remade, unheld>>
    BY <1>6 DEF dirs, clones, tplPast, drops
  <2>2. \A k \in T : Out(k)
    BY <1>2 DEF TplInv, DirOK
  <2>3. task[h].victim = 0 /\ task[h].file = 0 /\ task[h].key \in TplKeys \cup {0}
    BY <1>1, TaskFacts DEF TaskOK, Victims
  <2>4. 0 \notin SnapKeys
    BY TplAssumption DEF TplKeys
  <2> QED
    BY <1>1, <1>2, <1>4, <1>5, <1>6, <1>7, <2>1, <2>2, <2>3, <2>4
    DEF TaskHolds, Unpublished, Undoing, Reaping, TaskOK, Captures
<1>10. \A x \in Helpers : x # h => TasksApart(task[h], task[x])' /\ TasksApart(task[x], task[h])'
  BY <1>4, <1>5, ApartKept
<1> QED BY <1>5, <1>6, <1>7, <1>8, <1>9, <1>10, CallStep

\* The reap of a capture is over: it goes on, or the call ends.
LEMMA AfterReapKeeps ==
  ASSUME TplInv, NEW h \in Helpers, NEW ok \in BOOLEAN, AfterReap(h, ok), task[h].at \in Reaping,
         UNCHANGED <<dirs, clones, wedged, tplPast>>
  PROVE  TplInv'
<1>1. /\ TaskTyped /\ TaskOK(task[h]) /\ TaskHolds(task[h]) /\ 0 \notin TplKeys
      /\ task[h].key \in TplKeys \cup {0}
  BY TaskFacts
<1>2. wedged' \in BOOLEAN /\ keysUsed' = keysUsed
  BY DEF TplInv, TplTypeOK, tplPast, drops
<1>3. TaskTyped' /\ OnlyTask(h)
  BY <1>1, AfterReapDoes
<1>4. CASE task'[h] = NoTask
  BY <1>2, <1>3, <1>4, EndStep
<1>5. CASE task'[h] # NoTask
  <2>1. /\ task[h].kind \in Captures
        /\ task'[h].at = "capture" /\ task'[h].kind = task[h].kind
        /\ task'[h].key = task[h].key /\ task'[h].to = task[h].to
        /\ task'[h].seen = {} /\ task'[h].todo = {} /\ task'[h].victim = 0
        /\ task'[h].file = 0 /\ task'[h].mode = "none"
    BY <1>1, <1>5, AfterReapDoes
  <2>2. \A k \in TplKeys : Out(k) => Out(k)'
    BY <1>2, <1>3, <2>1, OutKept DEF Unpublished
  <2>3. TaskOK(task[h])'
    BY <1>1, <2>1 DEF TaskOK, Victims, Reaping, Undoing, IsFork, Captures
  <2>4. TaskHolds(task[h])'
    <3>1. UNCHANGED <<dir, refers, running, remade, unheld>>
      BY DEF dirs, clones, tplPast, drops
    <3>2. 0 \notin SnapKeys
      BY <1>1 DEF TplKeys
    <3>3. /\ Unpublished(task'[h])
          /\ task[h].key # 0 => task[h].key \in keysUsed
          /\ task[h].kind = "fork" => refers[task[h].to] = 0 \/ task[h].to \in unheld
      BY <1>1, <2>1 DEF TaskHolds, Unpublished, Undoing, Reaping
    <3> QED
      BY <1>2, <2>1, <3>1, <3>2, <3>3 DEF TaskHolds, Undoing
  <2>5. \A x \in Helpers : x # h => TasksApart(task[h], task[x])' /\ TasksApart(task[x], task[h])'
    BY <1>3, <2>1, ApartKept
  <2> QED BY <1>2, <1>3, <2>2, <2>3, <2>4, <2>5, CallStep
<1> QED BY <1>4, <1>5

\* A reaper that passes over an entry lets go of it.
LEMMA PassesOwn ==
  ASSUME TplInv, NEW h \in Helpers, Passes(h), task[h].at \in Reaping,
         keysUsed' = keysUsed, refers' = refers, unheld' = unheld
  PROVE  /\ TaskTyped' /\ OnlyTask(h) /\ \A k \in TplKeys : Out(k) => Out(k)'
         /\ TaskOK(task[h])' /\ TaskHolds(task[h])'
         /\ \A x \in Helpers :
              x # h => TasksApart(task[h], task[x])' /\ TasksApart(task[x], task[h])'
<1>1. /\ TaskTyped /\ TaskOK(task[h]) /\ TaskHolds(task[h]) /\ 0 \notin TplKeys
      /\ task[h].key \in TplKeys \cup {0} /\ task[h].todo \subseteq TplKeys
  BY TaskFacts
<1>2. /\ TaskTyped' /\ OnlyTask(h)
      /\ task'[h].at = "pick" /\ task'[h].kind = task[h].kind /\ task'[h].key = task[h].key
      /\ task'[h].to = task[h].to /\ task'[h].seen = task[h].seen
      /\ task'[h].todo = task[h].todo \ {task[h].victim} /\ task'[h].victim = 0
      /\ task'[h].file = 0 /\ task'[h].mode = "none"
  BY <1>1, PassesDoes
<1>3. \A k \in TplKeys : Out(k) => Out(k)'
  BY <1>2, OutKept DEF Unpublished, Reaping
<1>4. TaskOK(task[h])'
  BY <1>1, <1>2 DEF TaskOK, Victims, Reaping, Undoing, IsFork
<1>5. TaskHolds(task[h])'
  <2>1. 0 \notin SnapKeys
    BY <1>1 DEF TplKeys
  <2>2. /\ \A k \in task[h].todo : Out(k)
        /\ task[h].key # 0 => task[h].key \in keysUsed
        /\ task[h].key # 0 /\ ~Unpublished(task[h]) => Out(task[h].key)
        /\ task[h].kind = "fork" => refers[task[h].to] = 0 \/ task[h].to \in unheld
    BY <1>1 DEF TaskHolds, Undoing, Reaping
  <2>3. Unpublished(task[h]) => Unpublished(task'[h])
    BY <1>2 DEF Unpublished, Reaping
  <2> QED
    BY <1>1, <1>2, <1>3, <2>1, <2>2, <2>3 DEF TaskHolds, Undoing
<1>6. \A x \in Helpers : x # h => TasksApart(task[h], task[x])' /\ TasksApart(task[x], task[h])'
  BY <1>2, ApartKept
<1> QED BY <1>2, <1>3, <1>4, <1>5, <1>6

LEMMA PassesKeeps ==
  ASSUME TplInv, NEW h \in Helpers, Passes(h), task[h].at \in Reaping,
         UNCHANGED <<dirs, clones, wedged, tplPast>>
  PROVE  TplInv'
<1>1. keysUsed' = keysUsed /\ refers' = refers /\ unheld' = unheld /\ wedged' \in BOOLEAN
  BY DEF tplPast, drops, clones, TplInv, TplTypeOK
<1> QED BY <1>1, PassesOwn, CallStep

LEMMA PickTemplateKeeps ==
  ASSUME TplInv, NEW h \in Helpers, PickTemplate(h)
  PROVE  TplInv'
<1>1. /\ TaskTyped /\ TaskOK(task[h]) /\ TaskHolds(task[h]) /\ 0 \notin TplKeys
      /\ task[h].key \in TplKeys \cup {0} /\ task[h].todo \subseteq TplKeys
      /\ task \in [Helpers -> TaskSet] /\ task[h] \in TaskSet
      /\ task[h].at = "pick" /\ task[h].at \in Reaping
  BY TaskFacts DEF PickTemplate, On, TaskTyped, Reaping
<1>2. /\ UNCHANGED <<dirs, clones, wedged, tplPast>> /\ wedged' \in BOOLEAN
      /\ UNCHANGED <<dir, inode, deleted, aged, refers, running, remade, keysUsed, loose, unheld>>
  BY DEF PickTemplate, TplInv, TplTypeOK, tplPast, drops, dirs, clones
<1>u. task[h].victim = 0 /\ task[h].mode = "none" /\ task[h].file = 0 /\ 0 \notin SnapKeys
  BY <1>1, TaskFacts DEF TaskOK, Victims, TplKeys
<1>3. ASSUME NEW ok \in BOOLEAN, AfterReap(h, ok) PROVE TplInv'
  BY <1>1, <1>2, <1>3, AfterReapKeeps
<1>4. ASSUME NEW k \in task[h].todo, inode[k] # 0, IsFork(k) \/ k \in deleted \cup aged,
             task' = [task EXCEPT ![h].at = "try", ![h].victim = k, ![h].file = inode[k]]
      PROVE  TplInv'
  <2>1. PICK s \in TplStages, v \in TplKeys \cup {0}, f \in 0..2 :
          s = "try" /\ v = k /\ f = inode[k]
    <3>1. "try" \in TplStages
      BY DEF TplStages, Reaping
    <3>2. k \in TplKeys \cup {0} /\ inode[k] \in 0..2
      BY <1>1, <1>4 DEF TplInv, TplTypeOK
    <3> QED BY <3>1, <3>2
  <2> DEFINE t == [task[h] EXCEPT !.at = s, !.victim = v, !.file = f]
  <2>2. task' = [task EXCEPT ![h] = t]
    BY <1>1, <1>4, <2>1
  <2>3. /\ t \in TaskSet /\ t.at = s /\ t.kind = task[h].kind /\ t.key = task[h].key
        /\ t.to = task[h].to /\ t.seen = task[h].seen /\ t.todo = task[h].todo /\ t.victim = v
        /\ t.file = f /\ t.mode = task[h].mode
    BY <1>1 DEF TaskSet
  <2> HIDE DEF t
  <2>4. TaskTyped' /\ OnlyTask(h) /\ task'[h] = t
    BY <1>1, <2>2, <2>3, TaskEntry
  <2>5. \A i \in TplKeys : Out(i) => Out(i)'
    BY <1>1, <1>2, <2>1, <2>3, <2>4, OutKept DEF Unpublished, Reaping
  <2>6. k \in TplKeys /\ v # 0 /\ f # 0 /\ Out(k)
    BY <1>1, <1>4, <2>1 DEF TaskHolds
  <2>7. TaskOK(task[h])'
    BY <1>1, <1>u, <2>1, <2>3, <2>4, <2>6 DEF TaskOK, Victims, Reaping, Undoing, IsFork
  <2>8. TaskHolds(task[h])'
    <3>1. f = 2 => k \in remade
      BY <2>1, <2>6 DEF TplInv, DirOK
    <3>2. k \in SnapKeys => k \in deleted \cup aged
      BY <1>4 DEF IsFork
    <3> QED
      BY <1>1, <1>2, <1>u, <2>1, <2>3, <2>4, <2>5, <2>6, <3>1, <3>2
      DEF TaskHolds, Unpublished, Undoing, Reaping, TaskOK, Captures, FileDir
  <2>9. \A x \in Helpers : x # h => TasksApart(task[h], task[x])' /\ TasksApart(task[x], task[h])'
    BY <1>u, <2>3, <2>4, ApartKept
  <2> QED BY <1>2, <2>4, <2>5, <2>7, <2>8, <2>9, CallStep
<1>5. ASSUME NEW k \in task[h].todo, task' = [task EXCEPT ![h].todo = @ \ {k}]
      PROVE  TplInv'
  <2>1. PICK T \in SUBSET TplKeys : T = task[h].todo \ {k}
    <3>1. task[h].todo \ {k} \in SUBSET TplKeys
      BY <1>1
    <3> QED BY <3>1
  <2> DEFINE t == [task[h] EXCEPT !.todo = T]
  <2>2. task' = [task EXCEPT ![h] = t]
    BY <1>1, <1>5, <2>1
  <2>3. /\ t \in TaskSet /\ t.at = task[h].at /\ t.kind = task[h].kind /\ t.key = task[h].key
        /\ t.to = task[h].to /\ t.seen = task[h].seen /\ t.todo = T
        /\ t.victim = task[h].victim /\ t.file = task[h].file /\ t.mode = task[h].mode
    BY <1>1 DEF TaskSet
  <2> HIDE DEF t
  <2>4. TaskTyped' /\ OnlyTask(h) /\ task'[h] = t
    BY <1>1, <2>2, <2>3, TaskEntry
  <2>5. \A i \in TplKeys : Out(i) => Out(i)'
    BY <1>1, <1>2, <2>3, <2>4, OutKept DEF Unpublished
  <2>6. TaskOK(task[h])'
    BY <1>1, <1>u, <2>1, <2>3, <2>4 DEF TaskOK, Victims, Reaping, Undoing, IsFork
  <2>7. TaskHolds(task[h])'
    BY <1>1, <1>2, <1>u, <2>1, <2>3, <2>4, <2>5
    DEF TaskHolds, Unpublished, Undoing, Reaping, TaskOK, Captures
  <2>8. \A x \in Helpers : x # h => TasksApart(task[h], task[x])' /\ TasksApart(task[x], task[h])'
    BY <1>u, <2>3, <2>4, ApartKept
  <2> QED BY <1>2, <2>4, <2>5, <2>6, <2>7, <2>8, CallStep
<1> QED BY <1>3, <1>4, <1>5 DEF PickTemplate

LEMMA TryExclusiveKeeps ==
  ASSUME TplInv, NEW h \in Helpers, TryExclusive(h)
  PROVE  TplInv'
<1>1. /\ TaskTyped /\ TaskOK(task[h]) /\ TaskHolds(task[h]) /\ 0 \notin TplKeys
      /\ task[h].key \in TplKeys \cup {0} /\ task[h].victim \in TplKeys \cup {0}
      /\ task \in [Helpers -> TaskSet] /\ task[h] \in TaskSet
      /\ task[h].at = "try" /\ task[h].at \in Reaping
  BY TaskFacts DEF TryExclusive, On, TaskTyped, Reaping
<1>2. /\ UNCHANGED <<dirs, clones, wedged, tplPast>> /\ wedged' \in BOOLEAN
      /\ UNCHANGED <<dir, inode, deleted, aged, refers, running, remade, keysUsed, loose, unheld>>
  BY DEF TryExclusive, TplInv, TplTypeOK, tplPast, drops, dirs, clones
<1>3. CASE LockedBy(task[h].victim, task[h].file, {"shared", "exclusive"}) # {}
  BY <1>1, <1>2, <1>3, PassesKeeps DEF TryExclusive
<1>4. CASE LockedBy(task[h].victim, task[h].file, {"shared", "exclusive"}) = {}
  <2>1. PICK s \in TplStages, o \in {"none", "shared", "exclusive"} :
          s = "rescan" /\ o = "exclusive"
    <3>1. "rescan" \in TplStages
      BY DEF TplStages, Reaping
    <3> QED BY <3>1
  <2> DEFINE t == [task[h] EXCEPT !.at = s, !.mode = o]
  <2>2. task' = [task EXCEPT ![h] = t]
    BY <1>1, <1>4, <2>1 DEF TryExclusive
  <2>3. /\ t \in TaskSet /\ t.at = s /\ t.kind = task[h].kind /\ t.key = task[h].key
        /\ t.to = task[h].to /\ t.seen = task[h].seen /\ t.todo = task[h].todo
        /\ t.victim = task[h].victim /\ t.file = task[h].file /\ t.mode = o
    BY <1>1 DEF TaskSet
  <2> HIDE DEF t
  <2>4. TaskTyped' /\ OnlyTask(h) /\ task'[h] = t
    BY <1>1, <2>2, <2>3, TaskEntry
  <2>5. \A i \in TplKeys : Out(i) => Out(i)'
    BY <1>1, <1>2, <2>1, <2>3, <2>4, OutKept DEF Unpublished, Reaping
  <2>6. TaskOK(task[h])'
    BY <1>1, <2>1, <2>3, <2>4 DEF TaskOK, Victims, Reaping, Undoing, IsFork
  <2>7. TaskHolds(task[h])'
    <3>1. Unpublished(task[h]) => Unpublished(task'[h])
      BY <2>1, <2>3, <2>4 DEF Unpublished, Reaping
    <3>2. \A k \in task[h].todo : k \in TplKeys
      BY TaskFacts
    <3> QED
      BY <1>1, <1>2, <2>1, <2>3, <2>4, <2>5, <3>1, <3>2 DEF TaskHolds, Undoing, FileDir
  <2>8. ASSUME NEW x \in Helpers, x # h
        PROVE  TasksApart(task[h], task[x])' /\ TasksApart(task[x], task[h])'
    <3>1. task'[x] = task[x] /\ TasksApart(task[h], task[x]) /\ TasksApart(task[x], task[h])
      BY <2>4, <2>8 DEF OnlyTask, TplInv
    <3>2. task[x].mode = "shared" /\ task[h].victim = task[x].key => task[h].file # task[x].file
      <4>1. task[x].mode = "shared" => task[x].victim = 0
        BY TaskFacts DEF TaskOK, Victims
      <4> QED BY <1>4, <4>1 DEF LockedBy, HasFile
    <3> QED BY <2>1, <2>3, <2>4, <3>1, <3>2 DEF TasksApart
  <2> QED BY <1>2, <2>4, <2>5, <2>6, <2>7, <2>8, CallStep
<1> QED BY <1>3, <1>4

LEMMA RescanKeeps ==
  ASSUME TplInv, NEW h \in Helpers, Rescan(h)
  PROVE  TplInv'
<1>1. /\ TaskTyped /\ TaskOK(task[h]) /\ TaskHolds(task[h]) /\ 0 \notin TplKeys
      /\ task[h].key \in TplKeys \cup {0} /\ task[h].victim \in TplKeys \cup {0}
      /\ task[h].at = "rescan" /\ task[h].at \in Reaping
  BY TaskFacts DEF Rescan, On, Reaping
<1>2. /\ UNCHANGED <<dirs, clones, wedged, tplPast>> /\ wedged' \in BOOLEAN
      /\ UNCHANGED <<dir, inode, deleted, aged, refers, running, remade, keysUsed, loose, unheld>>
  BY DEF Rescan, TplInv, TplTypeOK, tplPast, drops, dirs, clones
<1>3. CASE task[h].victim \in Referenced \/ dir[task[h].victim] = "none"
  BY <1>1, <1>2, <1>3, PassesKeeps DEF Rescan
<1>4. CASE ~(task[h].victim \in Referenced \/ dir[task[h].victim] = "none")
  <2>1. Moves(h, "tear") /\ "tear" \in TplStages
    BY <1>4 DEF Rescan, TplStages, Reaping
  <2>2. /\ TaskTyped' /\ OnlyTask(h)
        /\ task'[h].at = "tear" /\ task'[h].kind = task[h].kind /\ task'[h].key = task[h].key
        /\ task'[h].to = task[h].to /\ task'[h].seen = task[h].seen
        /\ task'[h].todo = task[h].todo /\ task'[h].victim = task[h].victim
        /\ task'[h].file = task[h].file /\ task'[h].mode = task[h].mode
    BY <1>1, <2>1, MovesDoes
  <2>5. \A i \in TplKeys : Out(i) => Out(i)'
    BY <1>1, <1>2, <2>2, OutKept DEF Unpublished, Reaping
  <2>6. TaskOK(task[h])'
    BY <1>1, <2>2 DEF TaskOK, Victims, Reaping, Undoing, IsFork
  <2>7. TaskHolds(task[h])'
    <3>1. Unpublished(task[h]) => Unpublished(task'[h])
      BY <2>2 DEF Unpublished, Reaping
    <3>2. \A k \in task[h].todo : k \in TplKeys
      BY TaskFacts
    <3>3. Referenced' = Referenced /\ Held' = Held
      BY <1>2 DEF Referenced, Held
    <3>4. task[h].victim \notin Held
      <4>1. task[h].victim \notin Referenced
        BY <1>1, <1>4, TaskFacts DEF TaskOK, Victims
      <4> QED BY <4>1 DEF Referenced, Held
    <3> QED
      BY <1>1, <1>2, <1>4, <2>2, <2>5, <3>1, <3>2, <3>3, <3>4
      DEF TaskHolds, TaskOK, Undoing, FileDir
  <2>8. \A x \in Helpers : x # h => TasksApart(task[h], task[x])' /\ TasksApart(task[x], task[h])'
    BY <2>2, ApartKept
  <2> QED BY <1>2, <2>2, <2>5, <2>6, <2>7, <2>8, CallStep
<1> QED BY <1>3, <1>4

\* A directory is not removed from under a call that has shared its lease, nor from
\* under one that has recorded its machine, unless the lease file was made anew.
LEMMA TornApart ==
  ASSUME TplInv, NEW h \in Helpers, task[h].at \in {"tear", "gone"}, NEW x \in Helpers,
         task[x].mode = "shared" \/ task[x].at = "launch", task[x].key = task[h].victim
  PROVE  task[h].victim \in remade
<1>1. /\ TaskOK(task[h]) /\ TaskHolds(task[h]) /\ TaskOK(task[x]) /\ TaskHolds(task[x])
      /\ 0 \notin TplKeys /\ 0 \notin Clones
      /\ task[h].file \in 0..2 /\ task[x].file \in 0..2
      /\ task[h].victim \in TplKeys \cup {0}
  BY TaskFacts
<1>2. CASE task[x].mode = "shared"
  <2>1. /\ task[h].mode = "exclusive" /\ h # x /\ task[h].victim # 0 /\ task[h].file # 0
        /\ task[x].victim = 0 /\ task[x].file # 0
    BY <1>1, <1>2 DEF TaskOK, Victims
  <2>2. task[h].file # task[x].file
    <3>1. TasksApart(task[h], task[x])
      BY <2>1 DEF TplInv
    <3> QED BY <1>2, <2>1, <3>1 DEF TasksApart
  <2>3. task[h].file = 2 \/ task[x].file = 2
    BY <1>1, <2>1, <2>2
  <2> QED BY <1>1, <2>1, <2>3 DEF TaskHolds, FileDir
<1>3. CASE task[x].at = "launch"
  <2>1. refers[task[x].to] = task[h].victim /\ task[x].to \in Clones \ unheld
    BY <1>1, <1>3 DEF TaskOK, TaskHolds
  <2>2. task[h].victim \in Held
    <3>1. task[h].victim # 0
      BY <1>1 DEF TaskOK, Victims
    <3> QED BY <2>1, <3>1 DEF Referenced, Held
  <2> QED BY <1>1, <2>2 DEF TaskHolds
<1> QED BY <1>2, <1>3

\* A step that tears or removes the directory of k, where nothing stands on it; and
\* what it leaves of the call of h.
Removes(k) ==
  /\ \E d \in {"none", "torn"} : dir' = [dir EXCEPT ![k] = d]
  /\ inode' = [inode EXCEPT ![k] = 0]
  /\ deleted' \subseteq deleted /\ deleted \subseteq deleted' \cup {k}
  /\ aged' \subseteq aged /\ aged \subseteq aged' \cup {k}
  /\ UNCHANGED <<refers, running, wedged, remade, keysUsed, loose, unheld>>
Unneeded(h, k) ==
  /\ \A x \in Helpers :
       (x # h /\ (task[x].mode = "shared" \/ task[x].at = "launch") /\ task[x].key = k)
         => k \in remade
  /\ \A m \in Clones : refers[m] = k =>
       k \in remade \/ m \in unheld \/ (IsFork(k) /\ m \notin running)
OwnKept(h) ==
  /\ OnlyTask(h) /\ TaskTyped' /\ TaskOK(task[h])' /\ TaskHolds(task[h])'
  /\ \A x \in Helpers : x # h => TasksApart(task[h], task[x])' /\ TasksApart(task[x], task[h])'
  /\ \A i \in TplKeys : Out(i) => Out(i)'

LEMMA RemovalKeeps ==
  ASSUME TplInv, NEW h \in Helpers, OwnKept(h), NEW k \in TplKeys, Out(k), Removes(k),
         Unneeded(h, k)
  PROVE  TplInv'
<1>0. PICK d \in {"none", "torn"} : dir' = [dir EXCEPT ![k] = d]
  BY DEF Removes
<1>a. /\ inode' = [inode EXCEPT ![k] = 0]
      /\ deleted' \subseteq deleted /\ deleted \subseteq deleted' \cup {k}
      /\ aged' \subseteq aged /\ aged \subseteq aged' \cup {k}
      /\ refers' = refers /\ running' = running /\ wedged' = wedged /\ remade' = remade
      /\ keysUsed' = keysUsed /\ loose' = loose /\ unheld' = unheld
  BY DEF Removes
<1>b. /\ OnlyTask(h) /\ TaskTyped' /\ TaskOK(task[h])' /\ TaskHolds(task[h])'
      /\ \A x \in Helpers : x # h => TasksApart(task[h], task[x])' /\ TasksApart(task[x], task[h])'
      /\ \A i \in TplKeys : Out(i) => Out(i)'
  BY DEF OwnKept
<1>1. TplTypeOK'
  BY <1>0, <1>a DEF TplInv, TplTypeOK
<1>2. /\ dir \in [TplKeys -> {"none", "full", "torn"}] /\ inode \in [TplKeys -> 0..2]
      /\ refers \in [Clones -> TplKeys \cup {0}] /\ Referenced' = Referenced /\ Held' = Held
  BY <1>a DEF TplInv, TplTypeOK, Referenced, Held
<1>3. ASSUME NEW x \in Helpers, x # h PROVE TaskHolds(task[x])'
  <2>1. task'[x] = task[x] /\ TaskHolds(task[x]) /\ task[x] \in TaskSet /\ TaskOK(task[x])
    BY <1>3, <1>b, TaskFacts DEF OnlyTask
  <2>2. /\ task[x].victim \in TplKeys \cup {0} /\ task[x].key \in TplKeys \cup {0}
        /\ task[x].todo \subseteq TplKeys /\ 0 \notin TplKeys
    BY TaskFacts
  <2>3. ASSUME task[x].victim \in SnapKeys, dir'[task[x].victim] = "full"
        PROVE  task[x].victim \in deleted' \cup aged'
    <3>1. task[x].victim \in TplKeys
      BY <2>3 DEF TplKeys
    <3>2. task[x].victim # k /\ dir[task[x].victim] = "full"
      BY <1>0, <1>2, <2>3, <3>1
    <3> QED BY <1>a, <2>1, <2>3, <3>2 DEF TaskHolds
  <2>4. ASSUME task[x].mode = "shared" \/ task[x].at = "launch" PROVE Whole(task[x].key)'
    <3>1. Whole(task[x].key) /\ task[x].key \in TplKeys
      BY <2>1, <2>4, TaskFacts DEF TaskOK, TaskHolds, TplKeys
    <3>2. CASE task[x].key = k
      BY <1>3, <1>a, <2>1, <2>4, <3>2 DEF Whole, Unneeded
    <3>3. CASE task[x].key # k
      BY <1>0, <1>2, <1>a, <2>1, <3>1, <3>3 DEF Whole
    <3> QED BY <3>2, <3>3
  <2> QED BY <1>2, <1>a, <1>b, <2>1, <2>2, <2>3, <2>4 DEF TaskHolds, Unpublished, FileDir
<1>4. ASSUME NEW i \in TplKeys PROVE DirOK(i)'
  <2>1. DirOK(i)
    BY DEF TplInv
  <2> QED BY <1>0, <1>2, <1>a, <1>b, <2>1 DEF DirOK
<1>5. ASSUME NEW m \in Clones PROVE CloneOK(m)'
  <2>1. CloneOK(m) /\ refers[m] \in TplKeys \cup {0} /\ 0 \notin TplKeys
    BY <1>2, TaskFacts DEF TplInv
  <2>2. refers[m] \in SnapKeys /\ m \notin unheld => Whole(refers[m])'
    BY <1>0, <1>2, <1>a, <2>1 DEF CloneOK, Whole, IsFork, Unneeded
  <2>3. m \in running => refers[m] # 0 /\ Whole(refers[m])'
    BY <1>0, <1>2, <1>a, <2>1 DEF CloneOK, Whole, IsFork, Unneeded
  <2> QED BY <1>a, <1>b, <2>1, <2>2, <2>3 DEF CloneOK, IsFork
<1> QED BY <1>1, <1>3, <1>4, <1>5, <1>a, <1>b, AssembleTpl

LEMMA TornUnneeded ==
  ASSUME TplInv, NEW h \in Helpers, task[h].at \in {"tear", "gone"}, NEW k \in TplKeys,
         k = task[h].victim
  PROVE  Unneeded(h, k)
<1>1. \A x \in Helpers :
        (x # h /\ (task[x].mode = "shared" \/ task[x].at = "launch") /\ task[x].key = k)
          => k \in remade
  BY TornApart
<1>2. \A m \in Clones : refers[m] = k => k \in remade \/ m \in unheld
  <2>1. TaskHolds(task[h]) /\ 0 \notin TplKeys
    BY TaskFacts
  <2> QED BY <2>1 DEF TaskHolds, Referenced, Held
<1> QED BY <1>1, <1>2 DEF Unneeded

LEMMA TearKeeps ==
  ASSUME TplInv, NEW h \in Helpers, Tear(h)
  PROVE  TplInv'
<1>1. /\ TaskTyped /\ TaskOK(task[h]) /\ TaskHolds(task[h]) /\ 0 \notin TplKeys
      /\ task[h].key \in TplKeys \cup {0} /\ task[h].victim \in TplKeys \cup {0}
      /\ task[h].at = "tear" /\ task[h].at \in Reaping
  BY TaskFacts DEF Tear, On, Reaping
<1>2. PICK k \in TplKeys : k = task[h].victim /\ Out(k)
  BY <1>1 DEF TaskOK, Victims, TaskHolds
<1>3. PICK d \in {"none", "torn"} :
        dir' = [dir EXCEPT ![k] = d] /\ inode' = [inode EXCEPT ![k] = 0]
  <2>1. dir' = [dir EXCEPT ![k] = IF dir[k] = "none" THEN dir[k] ELSE "torn"]
    BY <1>2 DEF Tear
  <2>2. inode' = [inode EXCEPT ![k] = 0]
    BY <1>2 DEF Tear
  <2>3. CASE dir[k] = "none"
    BY <2>1, <2>2, <2>3
  <2>4. CASE dir[k] # "none"
    BY <2>1, <2>2, <2>4
  <2> QED BY <2>3, <2>4
<1>4. /\ deleted' \subseteq deleted /\ deleted \subseteq deleted' \cup {k}
      /\ aged' \subseteq aged /\ aged \subseteq aged' \cup {k}
      /\ UNCHANGED <<refers, running, wedged, remade, keysUsed, loose, unheld>>
  BY <1>2 DEF Tear, clones, tplPast, drops
<1>5. /\ TaskTyped' /\ OnlyTask(h)
      /\ task'[h].at = "gone" /\ task'[h].kind = task[h].kind /\ task'[h].key = task[h].key
      /\ task'[h].to = task[h].to /\ task'[h].seen = task[h].seen
      /\ task'[h].todo = task[h].todo /\ task'[h].victim = task[h].victim
      /\ task'[h].file = task[h].file /\ task'[h].mode = task[h].mode
  <2>1. Moves(h, "gone") /\ "gone" \in TplStages
    BY DEF Tear, TplStages, Reaping
  <2> QED BY <1>1, <2>1, MovesDoes
<1>6. \A i \in TplKeys : Out(i) => Out(i)'
  BY <1>1, <1>4, <1>5, OutKept DEF Unpublished, Reaping
<1>7. TaskOK(task[h])'
  BY <1>1, <1>5 DEF TaskOK, Victims, Reaping, Undoing, IsFork
<1>8. TaskHolds(task[h])'
  <2>1. Unpublished(task[h]) => Unpublished(task'[h])
    BY <1>5 DEF Unpublished, Reaping
  <2>2. \A i \in task[h].todo : i \in TplKeys
    BY TaskFacts
  <2>3. Referenced' = Referenced /\ Held' = Held
    BY <1>4 DEF Referenced, Held
  <2>4. dir'[k] # "full"
    BY <1>3 DEF TplInv, TplTypeOK
  <2>5. task[h].mode = "exclusive"
    BY <1>1 DEF TaskOK
  <2> QED
    BY <1>1, <1>2, <1>4, <1>5, <1>6, <2>1, <2>2, <2>3, <2>4, <2>5 DEF TaskHolds, Undoing, FileDir
<1>9. \A x \in Helpers : x # h => TasksApart(task[h], task[x])' /\ TasksApart(task[x], task[h])'
  BY <1>5, ApartKept
<1>10. Unneeded(h, k)
  BY <1>1, <1>2, TornUnneeded
<1>11. Removes(k)
  BY <1>3, <1>4 DEF Removes
<1>12. OwnKept(h)
  BY <1>5, <1>6, <1>7, <1>8, <1>9 DEF OwnKept
<1> QED BY <1>2, <1>10, <1>11, <1>12, RemovalKeeps

LEMMA RemoveTemplateKeeps ==
  ASSUME TplInv, NEW h \in Helpers, RemoveTemplate(h)
  PROVE  TplInv'
<1>1. /\ TaskTyped /\ TaskOK(task[h]) /\ TaskHolds(task[h]) /\ 0 \notin TplKeys
      /\ task[h].key \in TplKeys \cup {0} /\ task[h].victim \in TplKeys \cup {0}
      /\ task[h].at = "gone" /\ task[h].at \in Reaping
  BY TaskFacts DEF RemoveTemplate, On, Reaping
<1>2. PICK k \in TplKeys : k = task[h].victim /\ Out(k)
  BY <1>1 DEF TaskOK, Victims, TaskHolds
<1>3. UNCHANGED <<aged, refers, running, wedged, remade, keysUsed, loose, unheld>>
  BY DEF RemoveTemplate, clones, tplPast, drops
<1>4. CASE AfterReap(h, FALSE) /\ UNCHANGED <<dir, inode, deleted>>
  BY <1>1, <1>3, <1>4, AfterReapKeeps DEF dirs, clones, tplPast, drops
<1>5. CASE /\ dir' = [dir EXCEPT ![k] = "none"] /\ inode' = [inode EXCEPT ![k] = 0]
           /\ deleted' = deleted \ {k} /\ Passes(h)
  <2>1. OwnKept(h)
    BY <1>1, <1>3, <1>5, PassesOwn DEF OwnKept
  <2>2. Unneeded(h, k)
    BY <1>1, <1>2, TornUnneeded
  <2>3. Removes(k)
    BY <1>3, <1>5 DEF Removes
  <2> QED BY <1>2, <2>1, <2>2, <2>3, RemovalKeeps
<1> QED BY <1>2, <1>4, <1>5 DEF RemoveTemplate

-----------------------------------------------------------------------------
(* A capture.                                                                  *)

LEMMA PublishKeeps ==
  ASSUME TplInv, NEW h \in Helpers, Publish(h)
  PROVE  TplInv'
<1>1. /\ TaskTyped /\ TaskOK(task[h]) /\ TaskHolds(task[h]) /\ 0 \notin TplKeys
      /\ task[h].key \in TplKeys \cup {0} /\ task[h].at = "capture"
  BY TaskFacts DEF Publish, On
<1>2. UNCHANGED <<deleted, aged, refers, running, remade, keysUsed, loose, unheld>>
  BY DEF Publish, clones, tplPast, drops
<1>3. CASE Done(h) /\ wedged' \in BOOLEAN /\ UNCHANGED <<dir, inode>>
  BY <1>1, <1>2, <1>3, DoneDoes, EndStep DEF dirs, clones, tplPast, drops
<1>4. CASE /\ dir' = [dir EXCEPT ![task[h].key] = "full"]
           /\ inode' = [inode EXCEPT ![task[h].key] = 1]
           /\ wedged' = TRUE /\ Moves(h, "link")
  <2>1. task[h].kind \in Captures /\ Unpublished(task[h]) /\ 0 \notin SnapKeys
    BY <1>1 DEF TaskOK, Unpublished, TplKeys
  <2>2. PICK k \in TplKeys : k = task[h].key /\ k \in keysUsed
    <3>1. task[h].key \in TplKeys
      BY <2>1, TaskFacts DEF Captures, TaskOK, TplKeys
    <3> QED BY <1>1, <3>1 DEF TaskHolds
  <2>3. /\ TaskTyped' /\ OnlyTask(h)
        /\ task'[h].at = "link" /\ task'[h].kind = task[h].kind /\ task'[h].key = task[h].key
        /\ task'[h].to = task[h].to /\ task'[h].seen = task[h].seen
        /\ task'[h].todo = task[h].todo /\ task'[h].victim = task[h].victim
        /\ task'[h].file = task[h].file /\ task'[h].mode = task[h].mode
    <3>1. "link" \in TplStages
      BY DEF TplStages
    <3> QED BY <1>1, <1>4, <3>1, MovesDoes
  <2>4. ~Unpublished(task'[h])
    BY <2>3 DEF Unpublished, Reaping
  <2>5. \A i \in TplKeys : Out(i) => Out(i)'
    BY <1>2, <2>3, <2>4, OutKept
  <2>6. Out(k)'
    <3>1. ASSUME NEW x \in Helpers, Unpublished(task'[x]) PROVE task'[x].key # k
      <4>1. x # h
        BY <2>4, <3>1
      <4>2. task'[x] = task[x] /\ TasksApart(task[h], task[x])
        BY <2>3, <4>1 DEF OnlyTask, TplInv
      <4> QED BY <2>1, <3>1, <4>2 DEF TasksApart, Unpublished
    <3> QED BY <1>2, <2>2, <3>1 DEF Out, Unpublished
  <2>7. /\ dir \in [TplKeys -> {"none", "full", "torn"}] /\ inode \in [TplKeys -> 0..2]
        /\ dir' = [dir EXCEPT ![k] = "full"] /\ inode' = [inode EXCEPT ![k] = 1]
        /\ Referenced' = Referenced /\ Held' = Held /\ refers \in [Clones -> TplKeys \cup {0}]
    BY <1>2, <1>4, <2>2 DEF TplInv, TplTypeOK, Referenced, Held
  <2>8. \A i \in TplKeys : Whole(i) => Whole(i)'
    BY <1>2, <2>7 DEF Whole
  <2>9. TaskOK(task[h])'
    <3>1. task[h].kind \in {"snapshot", "fork"}
      BY <2>1 DEF Captures
    <3>2. /\ task[h].victim = 0 /\ task[h].file = 0 /\ task[h].mode = "none"
          /\ task[h].todo = {}
      BY <1>1, TaskFacts DEF TaskOK, Victims, Reaping
    <3> QED BY <1>1, <2>3, <3>1, <3>2 DEF TaskOK, Victims, Reaping, Undoing, IsFork, Captures
  <2>10. TaskHolds(task[h])'
    <3>1. /\ task[h].victim = 0 /\ task[h].file = 0 /\ task[h].mode = "none"
          /\ task[h].todo = {}
      BY <1>1, <2>1, TaskFacts DEF TaskOK, Victims, Reaping, Captures
    <3>2. task[h].kind = "fork" => refers[task[h].to] = 0 \/ task[h].to \in unheld
      BY <1>1 DEF TaskHolds, Undoing
    <3> QED BY <1>2, <2>1, <2>2, <2>3, <2>6, <3>1, <3>2 DEF TaskHolds, Undoing
  <2>11. ASSUME NEW x \in Helpers, x # h PROVE TaskHolds(task[x])'
    <3>1. task'[x] = task[x] /\ TaskHolds(task[x]) /\ TaskOK(task[x])
      BY <2>3, <2>11, TaskFacts DEF OnlyTask
    <3>2. /\ task[x].victim \in TplKeys \cup {0} /\ task[x].key \in TplKeys \cup {0}
          /\ task[x].todo \subseteq TplKeys
      BY TaskFacts
    <3>3. task[x].victim # k
      <4>1. ~Out(k)
        BY <2>1, <2>2 DEF Out
      <4> QED BY <1>1, <3>1, <4>1 DEF TaskHolds
    <3>4. ASSUME task[x].victim \in SnapKeys, dir'[task[x].victim] = "full"
          PROVE  task[x].victim \in deleted' \cup aged'
      <4>1. task[x].victim \in TplKeys
        BY <3>4 DEF TplKeys
      <4>2. dir[task[x].victim] = "full"
        BY <2>7, <3>3, <3>4, <4>1
      <4> QED BY <1>2, <3>1, <3>4, <4>2 DEF TaskHolds
    <3>5. task[x].mode = "shared" \/ task[x].at = "launch" => task[x].key \in TplKeys
      BY <3>1, TaskFacts DEF TaskOK, TplKeys
    <3> QED
      BY <1>2, <2>5, <2>7, <2>8, <3>1, <3>2, <3>4, <3>5 DEF TaskHolds, Unpublished, FileDir
  <2>12. \A x \in Helpers :
           x # h => TasksApart(task[h], task[x])' /\ TasksApart(task[x], task[h])'
    BY <2>3, ApartKept
  <2>13. ASSUME NEW i \in TplKeys PROVE DirOK(i)'
    <3>1. DirOK(i)
      BY DEF TplInv
    <3> QED BY <1>2, <2>5, <2>6, <2>7, <3>1 DEF DirOK
  <2>14. ASSUME NEW m \in Clones PROVE CloneOK(m)'
    <3>1. CloneOK(m) /\ refers[m] \in TplKeys \cup {0} /\ 0 \notin SnapKeys
      BY <2>1, <2>7 DEF TplInv
    <3> QED BY <1>2, <2>5, <2>8, <3>1 DEF CloneOK, IsFork
  <2>15. TplTypeOK'
    <3>1. wedged' \in BOOLEAN
      BY <1>4
    <3>2. dir' \in [TplKeys -> {"none", "full", "torn"}] /\ inode' \in [TplKeys -> 0..2]
      BY <2>7
    <3> QED BY <1>2, <3>1, <3>2 DEF TplInv, TplTypeOK
  <2> QED BY <1>2, <2>3, <2>5, <2>9, <2>10, <2>11, <2>12, <2>13, <2>14, <2>15, AssembleTpl
<1> QED BY <1>3, <1>4 DEF Publish

\* A call that moves to a stage where it needs no more than before.
LEMMA MoveStep ==
  ASSUME TplInv, NEW h \in Helpers, NEW s \in {"open", "check ready", "record"},
         task[h].at \in {"link", "check ready"}, Moves(h, s),
         UNCHANGED <<dirs, clones, tplPast>>, wedged' \in BOOLEAN,
         s = "open" => task[h].mode = "none", s # "open" => task[h].mode = "shared"
  PROVE  TplInv'
<1>1. /\ TaskTyped /\ TaskOK(task[h]) /\ TaskHolds(task[h]) /\ 0 \notin TplKeys
      /\ task[h].key \in TplKeys \cup {0}
  BY TaskFacts
<1>2. UNCHANGED <<dir, deleted, aged, refers, running, remade, keysUsed, loose, unheld>>
  BY DEF dirs, clones, tplPast, drops
<1>3. /\ TaskTyped' /\ OnlyTask(h)
      /\ task'[h].at = s /\ task'[h].kind = task[h].kind /\ task'[h].key = task[h].key
      /\ task'[h].to = task[h].to /\ task'[h].seen = task[h].seen
      /\ task'[h].todo = task[h].todo /\ task'[h].victim = task[h].victim
      /\ task'[h].file = task[h].file /\ task'[h].mode = task[h].mode
  <2>1. s \in TplStages
    BY DEF TplStages
  <2> QED BY <1>1, <2>1, MovesDoes
<1>4. \A i \in TplKeys : Out(i) => Out(i)'
  BY <1>2, <1>3, OutKept DEF Unpublished, Reaping
<1>5. TaskOK(task[h])'
  BY <1>1, <1>3, TaskFacts DEF TaskOK, Victims, Reaping, Undoing, IsFork, Captures
<1>6. TaskHolds(task[h])'
  <2>1. /\ task[h].victim = 0 /\ task[h].todo = {} /\ ~Unpublished(task[h])
        /\ task[h].at \notin {"launch"} \cup Undoing
    BY <1>1 DEF TaskOK, Victims, Reaping, Unpublished, Undoing
  <2> QED BY <1>1, <1>2, <1>3, <1>4, <2>1 DEF TaskHolds, Undoing, FileDir, Whole, TplKeys
<1>7. \A x \in Helpers : x # h => TasksApart(task[h], task[x])' /\ TasksApart(task[x], task[h])'
  BY <1>3, ApartKept
<1> QED BY <1>3, <1>4, <1>5, <1>6, <1>7, CallStep

LEMMA LinkMemoryKeeps ==
  ASSUME TplInv, NEW h \in Helpers, LinkMemory(h)
  PROVE  TplInv'
<1>1. TaskTyped /\ TaskOK(task[h]) /\ task[h].at = "link"
  BY TaskFacts DEF LinkMemory, On
<1>2. UNCHANGED <<dirs, clones, tplPast>> /\ wedged' \in BOOLEAN
  BY DEF LinkMemory, TplInv, TplTypeOK
<1>3. CASE dir[task[h].key] = "full"
  <2>1. task[h].mode = "none"
    BY <1>1, TaskFacts DEF TaskOK
  <2> QED BY <1>1, <1>2, <1>3, <2>1, MoveStep DEF LinkMemory
<1>4. CASE dir[task[h].key] # "full"
  BY <1>1, <1>2, <1>4, DoneDoes, EndStep DEF LinkMemory
<1> QED BY <1>3, <1>4

-----------------------------------------------------------------------------
(* A lease, and the restore under it.                                          *)

LEMMA OpenLeaseKeeps ==
  ASSUME TplInv, NEW h \in Helpers, OpenLease(h)
  PROVE  TplInv'
<1>1. /\ TaskTyped /\ TaskOK(task[h]) /\ TaskHolds(task[h]) /\ 0 \notin TplKeys
      /\ task \in [Helpers -> TaskSet] /\ task[h] \in TaskSet
      /\ task[h].key \in TplKeys \cup {0} /\ task[h].at = "open"
  BY TaskFacts DEF OpenLease, On, TaskTyped
<1>2. /\ UNCHANGED <<dir, deleted, aged, refers, running, wedged, keysUsed, loose, unheld>>
      /\ wedged' \in BOOLEAN
  BY DEF OpenLease, clones, drops, TplInv, TplTypeOK
<1>3. CASE dir[task[h].key] = "none"
  BY <1>1, <1>2, <1>3, DoneDoes, EndStep DEF OpenLease, dirs, clones, tplPast, drops
<1>4. CASE dir[task[h].key] # "none"
  <2>1. PICK k \in TplKeys : k = task[h].key /\ Out(k)
    <3>1. task[h].kind \in {"snapshot", "fork", "restore"} /\ ~Unpublished(task[h])
      BY <1>1 DEF TaskOK, Captures, Unpublished, Reaping
    <3>2. task[h].key \in TplKeys
      BY <1>1, <3>1, TaskFacts DEF TaskOK, TplKeys
    <3> QED BY <1>1, <3>1, <3>2 DEF TaskHolds
  <2>2. inode \in [TplKeys -> 0..2] /\ DirOK(k) /\ 0 \notin SnapKeys
    BY <1>1 DEF TplInv, TplTypeOK, TplKeys
  <2>3. PICK f \in 0..2 : /\ f = (IF inode[k] = 0 THEN 2 ELSE inode[k])
                          /\ inode' = [inode EXCEPT ![k] = f]
    <3>1. inode' = [inode EXCEPT ![k] = IF inode[k] = 0 THEN 2 ELSE inode[k]]
      BY <1>4, <2>1 DEF OpenLease
    <3>2. (IF inode[k] = 0 THEN 2 ELSE inode[k]) \in 0..2
      BY <2>2
    <3> QED BY <3>1, <3>2
  <2>4. remade' = (IF inode[k] = 0 THEN remade \cup {k} ELSE remade)
    BY <1>4, <2>1 DEF OpenLease
  <2>5. f # 0 /\ (f = 2 => k \in remade') /\ remade \subseteq remade' /\ inode'[k] = f
    BY <2>2, <2>3, <2>4 DEF DirOK
  <2>6. PICK s \in TplStages : s = "share"
    BY DEF TplStages
  <2> DEFINE t == [task[h] EXCEPT !.at = s, !.file = f]
  <2>7. task' = [task EXCEPT ![h] = t]
    <3>1. task' = [task EXCEPT ![h].at = "share", ![h].file = inode'[k]]
      BY <1>4, <2>1 DEF OpenLease
    <3> QED BY <1>1, <2>5, <2>6, <3>1
  <2>8. /\ t \in TaskSet /\ t.at = s /\ t.kind = task[h].kind /\ t.key = task[h].key
        /\ t.to = task[h].to /\ t.seen = task[h].seen /\ t.todo = task[h].todo
        /\ t.victim = task[h].victim /\ t.file = f /\ t.mode = task[h].mode
    BY <1>1 DEF TaskSet
  <2> HIDE DEF t
  <2>9. TaskTyped' /\ OnlyTask(h) /\ task'[h] = t
    BY <1>1, <2>7, <2>8, TaskEntry
  <2>10. /\ task[h].victim = 0 /\ task[h].mode = "none" /\ task[h].todo = {}
    BY <1>1, TaskFacts DEF TaskOK, Victims, Reaping
  <2>11. \A i \in TplKeys : Out(i) => Out(i)'
    BY <1>2, <2>6, <2>8, <2>9, OutKept DEF Unpublished, Reaping
  <2>12. TaskOK(task[h])'
    BY <1>1, <2>5, <2>6, <2>8, <2>9, <2>10 DEF TaskOK, Victims, Reaping, Undoing, IsFork
  <2>13. TaskHolds(task[h])'
    <3>1. task[h].kind = "fork" => refers[task[h].to] = 0 \/ task[h].to \in unheld
      BY <1>1 DEF TaskHolds, Undoing
    <3>2. k \in keysUsed
      BY <2>1 DEF Out
    <3> QED
      BY <1>2, <2>1, <2>2, <2>5, <2>6, <2>8, <2>9, <2>10, <2>11, <3>1, <3>2
      DEF TaskHolds, Undoing, FileDir
  <2>14. \A x \in Helpers : x # h => TaskHolds(task[x])'
    BY <1>2, <2>5, <2>9, <2>11, OtherQuiet
  <2>15. \A x \in Helpers :
           x # h => TasksApart(task[h], task[x])' /\ TasksApart(task[x], task[h])'
    BY <2>8, <2>9, <2>10, ApartKept
  <2>16. ASSUME NEW i \in TplKeys PROVE DirOK(i)'
    <3>1. DirOK(i)
      BY DEF TplInv
    <3> QED BY <1>2, <2>2, <2>3, <2>4, <2>5, <2>11, <3>1 DEF DirOK
  <2>17. \A m \in Clones : CloneOK(m)'
    BY <1>2, <2>5, <2>11, ClonesQuiet
  <2>18. TplTypeOK'
    <3>1. inode' \in [TplKeys -> 0..2] /\ remade' \subseteq TplKeys
      BY <2>2, <2>3, <2>4 DEF TplInv, TplTypeOK
    <3> QED BY <1>2, <3>1 DEF TplInv, TplTypeOK
  <2> QED BY <1>2, <2>9, <2>11, <2>12, <2>13, <2>14, <2>15, <2>16, <2>17, <2>18, AssembleTpl
<1> QED BY <1>3, <1>4

LEMMA ShareLeaseKeeps ==
  ASSUME TplInv, NEW h \in Helpers, ShareLease(h)
  PROVE  TplInv'
<1>1. /\ TaskTyped /\ TaskOK(task[h]) /\ TaskHolds(task[h]) /\ 0 \notin TplKeys
      /\ task \in [Helpers -> TaskSet] /\ task[h] \in TaskSet
      /\ task[h].key \in TplKeys \cup {0} /\ task[h].at = "share"
  BY TaskFacts DEF ShareLease, On, TaskTyped
<1>2. /\ UNCHANGED <<dirs, clones, wedged, tplPast>> /\ wedged' \in BOOLEAN
      /\ UNCHANGED <<dir, inode, deleted, aged, refers, running, remade, keysUsed, loose, unheld>>
  BY DEF ShareLease, TplInv, TplTypeOK, tplPast, drops, dirs, clones
<1> DEFINE Refused == \/ task[h].key \in deleted \cup aged \/ inode[task[h].key] = 0
                    \/ task[h].kind = "snapshot"
<1>3. CASE Refused
  BY <1>1, <1>2, <1>3, DoneDoes, EndStep DEF ShareLease
<1>4. CASE ~Refused
  <2>1. PICK s \in TplStages, o \in {"none", "shared", "exclusive"} :
          /\ s = (IF task[h].kind = "fork" THEN "check ready" ELSE "record") /\ o = "shared"
    <3>1. "check ready" \in TplStages /\ "record" \in TplStages
      BY DEF TplStages
    <3> QED BY <3>1
  <2> DEFINE t == [task[h] EXCEPT !.mode = o, !.at = s]
  <2>2. task' = [task EXCEPT ![h] = t]
    BY <1>1, <1>4, <2>1 DEF ShareLease
  <2>3. /\ t \in TaskSet /\ t.at = s /\ t.kind = task[h].kind /\ t.key = task[h].key
        /\ t.to = task[h].to /\ t.seen = task[h].seen /\ t.todo = task[h].todo
        /\ t.victim = task[h].victim /\ t.file = task[h].file /\ t.mode = o
    BY <1>1 DEF TaskSet
  <2> HIDE DEF t
  <2>4. TaskTyped' /\ OnlyTask(h) /\ task'[h] = t
    BY <1>1, <2>2, <2>3, TaskEntry
  <2>5. /\ task[h].victim = 0 /\ task[h].mode = "none" /\ task[h].todo = {}
        /\ task[h].file # 0 /\ task[h].kind \in {"fork", "restore"}
    BY <1>1, <1>4, TaskFacts DEF TaskOK, Victims, Reaping, Captures
  <2>6. task[h].key \in TplKeys /\ 0 \notin SnapKeys /\ ~Unpublished(task[h])
    BY <1>1, <2>5, TaskFacts DEF TaskOK, TplKeys, Unpublished, Reaping
  <2>7. \A i \in TplKeys : Out(i) => Out(i)'
    BY <1>2, <2>1, <2>3, <2>4, OutKept DEF Unpublished, Reaping
  <2>8. TaskOK(task[h])'
    BY <1>1, <2>1, <2>3, <2>4, <2>5 DEF TaskOK, Victims, Reaping, Undoing, IsFork, Captures
  <2>9. TaskHolds(task[h])'
    <3>1. Whole(task[h].key)
      BY <1>4, <2>6 DEF TplInv, DirOK, Whole
    <3>2. Whole(task[h].key)'
      BY <1>2, <2>3, <2>4, <3>1 DEF Whole
    <3>3. task[h].kind = "fork" => refers[task[h].to] = 0 \/ task[h].to \in unheld
      BY <1>1 DEF TaskHolds, Undoing
    <3>4. Out(task[h].key) /\ task[h].key \in keysUsed
      BY <1>1, <2>6 DEF TaskHolds
    <3>5. task[h].file = 2 => task[h].key \in remade
      BY <1>1, <2>5 DEF TaskHolds, FileDir
    <3> QED
      BY <1>2, <2>1, <2>3, <2>4, <2>5, <2>6, <2>7, <3>2, <3>3, <3>4, <3>5
      DEF TaskHolds, Undoing, FileDir
  <2>10. ASSUME NEW x \in Helpers, x # h
         PROVE  TasksApart(task[h], task[x])' /\ TasksApart(task[x], task[h])'
    <3>1. task'[x] = task[x] /\ TasksApart(task[h], task[x]) /\ TasksApart(task[x], task[h])
      BY <2>4, <2>10 DEF OnlyTask, TplInv
    <3>2. task[x].mode = "exclusive" /\ task[x].victim = task[h].key => task[x].file # task[h].file
      <4>1. LockedBy(task[h].key, task[h].file, {"exclusive"}) = {}
        BY DEF ShareLease
      <4>2. task[x].mode = "exclusive" => task[x].victim # 0
        BY TaskFacts DEF TaskOK, Victims
      <4> QED BY <4>1, <4>2 DEF LockedBy, HasFile
    <3> QED BY <2>1, <2>3, <2>4, <3>1, <3>2 DEF TasksApart
  <2> QED BY <1>2, <2>4, <2>7, <2>8, <2>9, <2>10, CallStep
<1> QED BY <1>3, <1>4

LEMMA ZeroIsNotTwo == 0 # 2
OBVIOUS

\* A fork that fails before its machine is recorded goes on to remove its template.
LEMMA RestoreFailsKeeps ==
  ASSUME TplInv, NEW h \in Helpers, RestoreFails(h), task[h].at \in {"check ready", "record"},
         UNCHANGED <<dirs, clones, wedged, tplPast>>
  PROVE  TplInv'
<1>1. /\ TaskTyped /\ TaskOK(task[h]) /\ TaskHolds(task[h]) /\ 0 \notin TplKeys
      /\ task[h].key \in TplKeys \cup {0}
  BY TaskFacts
<1>2. /\ wedged' \in BOOLEAN
      /\ UNCHANGED <<dir, inode, deleted, aged, refers, running, remade, keysUsed, loose, unheld>>
  BY DEF TplInv, TplTypeOK, tplPast, drops, dirs, clones
<1>3. TaskTyped' /\ OnlyTask(h)
  BY <1>1, RestoreFailsDoes
<1>4. CASE task'[h] = NoTask
  BY <1>2, <1>3, <1>4, EndStep
<1>5. CASE task'[h] # NoTask
  <2>1. /\ task[h].kind = "fork"
        /\ task'[h].at = "undo" /\ task'[h].kind = "fork"
        /\ task'[h].key = task[h].key /\ task'[h].to = task[h].to
        /\ task'[h].seen = task[h].seen /\ task'[h].todo = task[h].todo
        /\ task'[h].victim = task[h].victim /\ task'[h].file = 0 /\ task'[h].mode = "none"
    BY <1>1, <1>5, RestoreFailsDoes
  <2>2. /\ task[h].victim = 0 /\ task[h].todo = {} /\ ~Unpublished(task[h])
        /\ task[h].to \in Clones /\ task[h].key = ForkKeys[task[h].to]
    BY <1>1, <2>1 DEF TaskOK, Victims, Reaping, Unpublished
  <2>3. /\ task[h].key \in TplKeys /\ IsFork(task[h].key) /\ 0 \notin SnapKeys
    BY <1>1, <2>2, TaskFacts DEF TplKeys
  <2>4. task[h].to \notin running
    <3>1. refers[task[h].to] = 0 \/ task[h].to \in unheld
      BY <1>1, <2>1 DEF TaskHolds, Undoing
    <3> QED BY <2>2, <3>1 DEF TplInv, CloneOK
  <2>5. \A i \in TplKeys : Out(i) => Out(i)'
    BY <1>2, <1>3, <2>1, OutKept DEF Unpublished, Reaping
  <2>6. TaskOK(task[h])'
    BY <2>1, <2>2, <2>3 DEF TaskOK, Victims, Reaping, Undoing, IsFork, Captures
  <2>7. TaskHolds(task[h])'
    <3>1. Out(task[h].key) /\ task[h].key \in keysUsed
      BY <1>1, <2>2, <2>3 DEF TaskHolds
    <3>2. Out(task[h].key)'
      <4>1. PICK k \in TplKeys : k = task[h].key
        BY <2>3
      <4>2. Out(k)'
        BY <2>5, <3>1, <4>1
      <4> QED BY <2>1, <4>1, <4>2
    <3>3. /\ task'[h].victim = 0 /\ task'[h].todo = {} /\ task'[h].file = 0
          /\ task'[h].mode = "none" /\ task'[h].at = "undo" /\ task'[h].to \notin running'
          /\ task'[h].key \in keysUsed' /\ task'[h].victim \notin SnapKeys
      BY <1>2, <2>1, <2>2, <2>3, <2>4, <3>1
    <3>4. task'[h].file # 2
      BY <3>3, ZeroIsNotTwo
    <3> QED BY <3>2, <3>3, <3>4 DEF TaskHolds, Undoing
  <2>8. \A x \in Helpers : x # h => TasksApart(task[h], task[x])' /\ TasksApart(task[x], task[h])'
    BY <1>3, <2>1, ApartKept
  <2> QED BY <1>2, <1>3, <2>5, <2>6, <2>7, <2>8, CallStep
<1> QED BY <1>4, <1>5

LEMMA CheckReadyKeeps ==
  ASSUME TplInv, NEW h \in Helpers, CheckReady(h)
  PROVE  TplInv'
<1>1. TaskTyped /\ TaskOK(task[h]) /\ task[h].at = "check ready"
  BY TaskFacts DEF CheckReady, On
<1>2. UNCHANGED <<dirs, clones, wedged, tplPast>> /\ wedged' \in BOOLEAN
  BY DEF CheckReady, TplInv, TplTypeOK
<1>3. CASE dir[task[h].key] # "full"
  BY <1>1, <1>2, <1>3, RestoreFailsKeeps DEF CheckReady
<1>4. CASE dir[task[h].key] = "full" /\ task[h].kind = "fork"
  <2>1. task[h].mode = "shared" /\ Moves(h, "record")
    BY <1>1, <1>4 DEF TaskOK, CheckReady
  <2> QED BY <1>1, <1>2, <2>1, MoveStep
<1>5. CASE dir[task[h].key] = "full" /\ task[h].kind # "fork"
  <2>1. task[h].mode = "none" /\ Moves(h, "open")
    BY <1>1, <1>5, TaskFacts DEF TaskOK, CheckReady
  <2> QED BY <1>1, <1>2, <2>1, MoveStep
<1> QED BY <1>3, <1>4, <1>5

\* The manifest is written while the lease is shared: a reaper that has begun to
\* remove the directory has the lock of another file.
LEMMA RecordKeeps ==
  ASSUME TplInv, NEW h \in Helpers, Record(h)
  PROVE  TplInv'
<1>1. /\ TaskTyped /\ TaskOK(task[h]) /\ TaskHolds(task[h]) /\ 0 \notin TplKeys
      /\ task \in [Helpers -> TaskSet] /\ task[h] \in TaskSet
      /\ task[h].key \in TplKeys \cup {0} /\ task[h].at = "record"
  BY TaskFacts DEF Record, On, TaskTyped
<1>2. /\ UNCHANGED <<dirs, running, wedged, tplPast>> /\ wedged' \in BOOLEAN
      /\ UNCHANGED <<dir, inode, deleted, aged, running, remade, keysUsed, loose, unheld>>
  BY DEF Record, TplInv, TplTypeOK, tplPast, drops, dirs
<1>3. CASE RestoreFails(h) /\ UNCHANGED refers
  BY <1>1, <1>2, <1>3, RestoreFailsKeeps DEF clones
<1>4. CASE /\ refers[task[h].to] = 0 /\ refers' = [refers EXCEPT ![task[h].to] = task[h].key]
           /\ task' = [task EXCEPT ![h].at = "launch", ![h].file = 0, ![h].mode = "none"]
  <2>1. PICK s \in TplStages, f \in 0..2, o \in {"none", "shared", "exclusive"} :
          s = "launch" /\ f = 0 /\ o = "none"
    <3>1. "launch" \in TplStages
      BY DEF TplStages
    <3> QED BY <3>1
  <2> DEFINE t == [task[h] EXCEPT !.at = s, !.file = f, !.mode = o]
  <2>2. task' = [task EXCEPT ![h] = t]
    BY <1>1, <1>4, <2>1
  <2>3. /\ t \in TaskSet /\ t.at = s /\ t.kind = task[h].kind /\ t.key = task[h].key
        /\ t.to = task[h].to /\ t.seen = task[h].seen /\ t.todo = task[h].todo
        /\ t.victim = task[h].victim /\ t.file = f /\ t.mode = o
    BY <1>1 DEF TaskSet
  <2> HIDE DEF t
  <2>4. TaskTyped' /\ OnlyTask(h) /\ task'[h] = t
    BY <1>1, <2>2, <2>3, TaskEntry
  <2>5. /\ task[h].victim = 0 /\ task[h].mode = "shared" /\ task[h].todo = {}
        /\ task[h].kind \in {"fork", "restore"} /\ ~Unpublished(task[h])
    BY <1>1, TaskFacts DEF TaskOK, Victims, Reaping, Captures, Unpublished
  <2>6. PICK k \in TplKeys, m \in Clones :
          /\ k = task[h].key /\ m = task[h].to /\ Out(k) /\ k \in keysUsed /\ Whole(k)
          /\ IsFork(k) => k = ForkKeys[m]
    <3>1. task[h].key \in TplKeys /\ task[h].to \in Clones
      BY <1>1, <2>5, TaskFacts DEF TaskOK, TplKeys
    <3>2. Out(task[h].key) /\ task[h].key \in keysUsed /\ Whole(task[h].key)
      BY <1>1, <2>5, <3>1 DEF TaskHolds
    <3>3. IsFork(task[h].key) => task[h].key = ForkKeys[task[h].to]
      BY <1>1, <2>5 DEF TaskOK, IsFork
    <3> QED BY <3>1, <3>2, <3>3
  <2>7. /\ refers \in [Clones -> TplKeys \cup {0}] /\ refers' = [refers EXCEPT ![m] = k]
        /\ k # 0 /\ 0 \notin SnapKeys /\ m \notin unheld
    <3>1. CloneOK(m)
      BY DEF TplInv
    <3> QED BY <1>1, <1>4, <2>6, <3>1 DEF TplInv, TplTypeOK, TplKeys, CloneOK
  <2>8. \A i \in TplKeys : Out(i) => Out(i)'
    BY <1>2, <2>1, <2>3, <2>4, OutKept DEF Unpublished, Reaping
  <2>9. \A i \in TplKeys : Whole(i) => Whole(i)'
    BY <1>2 DEF Whole
  <2>10. TaskOK(task[h])'
    BY <1>1, <2>1, <2>3, <2>4, <2>5 DEF TaskOK, Victims, Reaping, Undoing, IsFork, Captures
  <2>11. TaskHolds(task[h])'
    BY <1>2, <2>1, <2>3, <2>4, <2>5, <2>6, <2>7, <2>8, <2>9 DEF TaskHolds, Undoing
  <2>12. ASSUME NEW x \in Helpers, x # h PROVE TaskHolds(task[x])'
    <3>1. task'[x] = task[x] /\ TaskHolds(task[x]) /\ TaskOK(task[x])
      BY <2>4, <2>12, TaskFacts DEF OnlyTask
    <3>2. /\ task[x].victim \in TplKeys \cup {0} /\ task[x].key \in TplKeys \cup {0}
          /\ task[x].todo \subseteq TplKeys
      BY TaskFacts
    <3>3. task[x].to # m
      <4>1. TasksApart(task[h], task[x])
        BY <2>12 DEF TplInv
      <4> QED BY <2>6, <4>1, TaskFacts DEF TasksApart
    <3>4. ASSUME task[x].at \in {"tear", "gone"}, task[x].victim \in Held'
          PROVE  task[x].victim \in remade'
      <4>1. CASE task[x].victim = k
        BY <1>2, <2>5, <2>6, <3>4, <4>1, TornApart
      <4>2. CASE task[x].victim # k
        <5>1. task[x].victim \in Held
          BY <1>2, <2>7, <3>4, <4>2 DEF Referenced, Held
        <5> QED BY <1>2, <3>1, <3>4, <5>1 DEF TaskHolds
      <4> QED BY <4>1, <4>2
    <3>5. task[x].at = "launch" => refers'[task[x].to] = task[x].key
      BY <2>7, <3>1, <3>3 DEF TaskHolds, TaskOK
    <3>6. task[x].kind = "fork" => refers'[task[x].to] = refers[task[x].to]
      BY <2>7, <3>1, <3>3 DEF TaskOK
    <3>7. task[x].mode = "shared" \/ task[x].at = "launch" => task[x].key \in TplKeys
      BY <3>1, TaskFacts DEF TaskOK, TplKeys
    <3> QED
      BY <1>2, <2>8, <2>9, <3>1, <3>2, <3>4, <3>5, <3>6, <3>7 DEF TaskHolds, Unpublished, FileDir
  <2>13. \A x \in Helpers :
           x # h => TasksApart(task[h], task[x])' /\ TasksApart(task[x], task[h])'
    BY <2>1, <2>3, <2>4, ApartKept
  <2>14. \A i \in TplKeys : DirOK(i)'
    BY <1>2, <2>8, DirsQuiet
  <2>15. ASSUME NEW n \in Clones PROVE CloneOK(n)'
    <3>1. CASE n = m
      BY <1>2, <2>6, <2>7, <2>8, <2>9, <3>1 DEF CloneOK, IsFork
    <3>2. CASE n # m
      <4>1. CloneOK(n) /\ refers'[n] = refers[n] /\ refers[n] \in TplKeys \cup {0}
        BY <2>7, <3>2 DEF TplInv
      <4> QED BY <1>2, <2>7, <2>8, <2>9, <4>1 DEF CloneOK, IsFork
    <3> QED BY <3>1, <3>2
  <2>16. TplTypeOK'
    <3>1. refers' \in [Clones -> TplKeys \cup {0}]
      BY <2>7
    <3> QED BY <1>2, <3>1 DEF TplInv, TplTypeOK
  <2> QED BY <1>2, <2>4, <2>8, <2>10, <2>11, <2>12, <2>13, <2>14, <2>15, <2>16, AssembleTpl
<1> QED BY <1>3, <1>4 DEF Record

\* A step that starts or ends machines of the call's own clone.
LEMMA RunningKeeps ==
  ASSUME TplInv, NEW h \in Helpers, OwnKept(h), UNCHANGED <<dirs, refers, wedged, tplPast>>,
         task[h].to \in Clones,
         \/ running' = running \ {task[h].to} \/ running' = running
         \/ /\ running' = running \cup {task[h].to}
            /\ refers[task[h].to] # 0 /\ Whole(refers[task[h].to]) /\ task[h].to \notin unheld
  PROVE  TplInv'
<1>1. /\ UNCHANGED <<dir, inode, deleted, aged, refers, remade, keysUsed, loose, unheld>>
      /\ \A k : Whole(k) => Whole(k)'
  BY DEF dirs, tplPast, drops, Whole
<1>2. TplTypeOK'
  BY <1>1 DEF TplInv, TplTypeOK
<1>3. /\ OnlyTask(h) /\ \A k \in TplKeys : Out(k) => Out(k)'
  BY DEF OwnKept
<1>4. ASSUME NEW x \in Helpers, x # h PROVE TaskHolds(task[x])'
  <2>1. task'[x] = task[x] /\ TaskHolds(task[x]) /\ TaskOK(task[x])
    BY <1>3, <1>4, TaskFacts DEF OnlyTask
  <2>2. /\ task[x].victim \in TplKeys \cup {0} /\ task[x].key \in TplKeys \cup {0}
        /\ task[x].todo \subseteq TplKeys
    BY TaskFacts
  <2>3. task[x].to # task[h].to
    <3>1. TasksApart(task[h], task[x])
      BY <1>4 DEF TplInv
    <3> QED BY <3>1, TaskFacts DEF TasksApart
  <2>4. task[x].to \notin running => task[x].to \notin running'
    BY <2>3
  <2>5. Referenced' = Referenced /\ Held' = Held
    BY <1>1 DEF Referenced, Held
  <2> QED BY <1>1, <1>3, <2>1, <2>2, <2>4, <2>5 DEF TaskHolds, Unpublished, FileDir
<1>5. \A k \in TplKeys : DirOK(k)'
  BY <1>1, <1>3, DirsQuiet
<1>6. ASSUME NEW m \in Clones PROVE CloneOK(m)'
  <2>1. CloneOK(m) /\ refers[m] \in TplKeys \cup {0}
    BY DEF TplInv, TplTypeOK
  <2>2. m \in running' =>
          m \in running \/ (refers[m] # 0 /\ Whole(refers[m]) /\ m \notin unheld)
    OBVIOUS
  <2>3. refers[m] # 0 => Out(refers[m])'
    <3>1. refers[m] # 0 => Out(refers[m])
      BY <2>1 DEF CloneOK
    <3> QED BY <1>1, <1>3, <2>1, <3>1
  <2>4. Whole(refers[m]) => Whole(refers[m])'
    BY <1>1 DEF Whole
  <2> QED BY <1>1, <2>1, <2>2, <2>3, <2>4 DEF CloneOK, IsFork
<1> QED BY <1>1, <1>2, <1>3, <1>4, <1>5, <1>6, AssembleTpl DEF OwnKept

\* What the end of a call leaves of it.
LEMMA EndOwn ==
  ASSUME TplInv, NEW h \in Helpers, Done(h), keysUsed' = keysUsed
  PROVE  OwnKept(h)
<1>1. TaskTyped' /\ OnlyTask(h) /\ task'[h] = NoTask
  BY DoneDoes, TaskFacts
<1>2. TaskOK(task[h])' /\ TaskHolds(task[h])' /\ ~Unpublished(task'[h])
  BY <1>1, IdleOK
<1>3. \A k \in TplKeys : Out(k) => Out(k)'
  BY <1>1, <1>2, OutKept
<1>4. \A x \in Helpers : x # h => TasksApart(task[h], task[x])' /\ TasksApart(task[x], task[h])'
  BY <1>1, ApartKept, NoTaskFields DEF Captures
<1> QED BY <1>1, <1>2, <1>3, <1>4 DEF OwnKept

\* A call that goes on to clean up its clone, or a step further in that.
LEMMA UndoOwn ==
  ASSUME TplInv, NEW h \in Helpers, task[h].at \in {"launch"} \cup Undoing,
         NEW s \in Undoing, Moves(h, s), keysUsed' = keysUsed,
         s = "undo" => IsFork(task[h].key), s # "kill" => task[h].to \notin running'
  PROVE  OwnKept(h)
<1>1. /\ TaskTyped /\ TaskOK(task[h]) /\ TaskHolds(task[h])
      /\ task[h].key \in TplKeys \cup {0} /\ 0 \notin TplKeys
  BY TaskFacts
<1>2. /\ TaskTyped' /\ OnlyTask(h)
      /\ task'[h].at = s /\ task'[h].kind = task[h].kind /\ task'[h].key = task[h].key
      /\ task'[h].to = task[h].to /\ task'[h].seen = task[h].seen
      /\ task'[h].todo = task[h].todo /\ task'[h].victim = task[h].victim
      /\ task'[h].file = task[h].file /\ task'[h].mode = task[h].mode
  <2>1. s \in TplStages
    BY DEF TplStages
  <2> QED BY <1>1, <2>1, MovesDoes
<1>3. /\ task[h].victim = 0 /\ task[h].todo = {} /\ task[h].file = 0 /\ task[h].mode = "none"
      /\ task[h].kind \in {"fork", "restore", "clean"} /\ 0 \notin SnapKeys
      /\ ~Unpublished(task[h])
  BY <1>1, TaskFacts DEF TaskOK, Victims, Reaping, Undoing, TplKeys, Unpublished
<1>4. \A k \in TplKeys : Out(k) => Out(k)'
  BY <1>2, OutKept DEF Unpublished, Reaping, Undoing
<1>5. TaskOK(task[h])'
  BY <1>1, <1>2, <1>3 DEF TaskOK, Victims, Reaping, Undoing, IsFork, Captures
<1>6. TaskHolds(task[h])'
  <2>1. task[h].key # 0 => Out(task[h].key) /\ task[h].key \in keysUsed
    BY <1>1, <1>3 DEF TaskHolds
  <2>2. s \notin {"tear", "gone", "launch"} /\ (s \in {"undo", "unrefer"} => s # "kill")
    BY DEF Undoing
  <2> QED BY <1>1, <1>2, <1>3, <1>4, <2>1, <2>2, ZeroIsNotTwo DEF TaskHolds
<1>7. \A x \in Helpers : x # h => TasksApart(task[h], task[x])' /\ TasksApart(task[x], task[h])'
  BY <1>2, ApartKept
<1> QED BY <1>2, <1>4, <1>5, <1>6, <1>7 DEF OwnKept

LEMMA LaunchCloneKeeps ==
  ASSUME TplInv, NEW h \in Helpers, LaunchClone(h)
  PROVE  TplInv'
<1>1. TaskOK(task[h]) /\ TaskHolds(task[h]) /\ 0 \notin TplKeys /\ task[h].at = "launch"
  BY TaskFacts DEF LaunchClone, On
<1>2. UNCHANGED <<dirs, refers, wedged, tplPast>> /\ keysUsed' = keysUsed
  BY DEF LaunchClone, tplPast, drops
<1>3. /\ task[h].to \in Clones \ unheld /\ refers[task[h].to] = task[h].key
      /\ task[h].key # 0 /\ Whole(task[h].key)
  BY <1>1, TaskFacts DEF TaskOK, TaskHolds, TplKeys
<1>4. CASE running' = running \cup {task[h].to} /\ Done(h)
  BY <1>2, <1>3, <1>4, EndOwn, RunningKeeps
<1>5. CASE Moves(h, "kill") /\ UNCHANGED running
  <2>1. "kill" \in Undoing
    BY DEF Undoing
  <2>2. OwnKept(h)
    BY <1>1, <1>2, <1>5, <2>1, UndoOwn
  <2> QED BY <1>2, <1>3, <1>5, <2>2, RunningKeeps
<1> QED BY <1>4, <1>5 DEF LaunchClone

LEMMA KillCloneKeeps ==
  ASSUME TplInv, NEW h \in Helpers, KillClone(h)
  PROVE  TplInv'
<1>1. TaskOK(task[h]) /\ task[h].at = "kill" /\ task[h].at \in Undoing
  BY TaskFacts DEF KillClone, On, Undoing
<1>2. UNCHANGED <<dirs, refers, wedged, tplPast>> /\ keysUsed' = keysUsed
  BY DEF KillClone, tplPast, drops
<1>3. task[h].to \in Clones
  BY <1>1 DEF TaskOK
<1>4. running' = running \ {task[h].to} /\ task[h].to \notin running'
  BY DEF KillClone
<1>5. OwnKept(h)
  <2>1. "undo" \in Undoing /\ "unrefer" \in Undoing
    BY DEF Undoing
  <2>2. CASE IsFork(task[h].key)
    BY <1>1, <1>2, <1>4, <2>1, <2>2, UndoOwn DEF KillClone
  <2>3. CASE ~IsFork(task[h].key)
    BY <1>1, <1>2, <1>4, <2>1, <2>3, UndoOwn DEF KillClone
  <2> QED BY <2>2, <2>3
<1> QED BY <1>2, <1>3, <1>4, <1>5, RunningKeeps

LEMMA UndoForkKeeps ==
  ASSUME TplInv, NEW h \in Helpers, UndoFork(h)
  PROVE  TplInv'
<1>1. /\ TaskOK(task[h]) /\ TaskHolds(task[h]) /\ 0 \notin TplKeys
      /\ task[h].at = "undo" /\ task[h].at \in Undoing /\ ~Unpublished(task[h])
  BY TaskFacts DEF UndoFork, On, Undoing, Unpublished, Reaping
<1>2. UNCHANGED <<refers, running, wedged, remade, keysUsed, loose, unheld>>
  BY DEF UndoFork, clones, tplPast, drops
<1>3. /\ task[h].to \in Clones /\ IsFork(task[h].key) /\ task[h].key = ForkKeys[task[h].to]
      /\ task[h].to \notin running
  BY <1>1 DEF TaskOK, TaskHolds, IsFork, Undoing
<1>4. PICK k \in TplKeys : k = task[h].key /\ Out(k)
  <2>1. task[h].key \in TplKeys
    BY <1>3, TaskFacts
  <2> QED BY <1>1, <2>1 DEF TaskHolds
<1>5. Removes(k)
  <2>1. /\ dir' = [dir EXCEPT ![k] = "none"] /\ inode' = [inode EXCEPT ![k] = 0]
        /\ deleted' = deleted \ {k} /\ aged' = aged \ {k}
    BY <1>4 DEF UndoFork
  <2> QED BY <1>2, <2>1 DEF Removes
<1>6. Unneeded(h, k)
  <2>1. ASSUME NEW x \in Helpers, x # h, task[x].mode = "shared" \/ task[x].at = "launch",
               task[x].key = k
        PROVE  FALSE
    <3>1. TaskOK(task[x]) /\ TasksApart(task[h], task[x])
      BY <2>1, TaskFacts DEF TplInv
    <3>2. task[x].to \in Clones /\ k = ForkKeys[task[x].to]
      BY <1>3, <1>4, <2>1, <3>1 DEF TaskOK, IsFork
    <3>3. task[x].to = task[h].to
      BY <1>3, <1>4, <3>2, TplAssumption
    <3> QED BY <1>3, <3>1, <3>3, TaskFacts DEF TasksApart
  <2>2. ASSUME NEW m \in Clones, refers[m] = k PROVE IsFork(k) /\ m \notin running
    <3>1. k = ForkKeys[m]
      BY <1>1, <1>3, <1>4, <2>2 DEF TplInv, CloneOK
    <3> QED BY <1>3, <1>4, <3>1, TplAssumption
  <2> QED BY <2>1, <2>2 DEF Unneeded
<1>7. OwnKept(h)
  <2>1. CASE Done(h)
    BY <1>2, <2>1, EndOwn
  <2>2. CASE Moves(h, "unrefer")
    <3>1. "unrefer" \in Undoing
      BY DEF Undoing
    <3> QED BY <1>1, <1>2, <1>3, <2>2, <3>1, UndoOwn
  <2> QED BY <2>1, <2>2 DEF UndoFork
<1> QED BY <1>4, <1>5, <1>6, <1>7, RemovalKeeps

LEMMA UnreferKeeps ==
  ASSUME TplInv, NEW h \in Helpers, Unrefer(h)
  PROVE  TplInv'
<1>1. /\ TaskTyped /\ TaskOK(task[h]) /\ TaskHolds(task[h]) /\ 0 \notin TplKeys
      /\ task[h].at = "unrefer" /\ task[h].at \in Undoing
  BY TaskFacts DEF Unrefer, On, Undoing
<1>2. UNCHANGED <<dir, inode, deleted, aged, running, wedged, remade, keysUsed, loose>>
  BY DEF Unrefer, dirs
<1>3. PICK m \in Clones : m = task[h].to /\ m \notin running
  BY <1>1 DEF TaskOK, TaskHolds
<1>4. /\ refers \in [Clones -> TplKeys \cup {0}] /\ refers' = [refers EXCEPT ![m] = 0]
      /\ unheld' = unheld \ {m} /\ Held' \subseteq Held /\ 0 \notin SnapKeys
  <2>1. /\ refers \in [Clones -> TplKeys \cup {0}] /\ refers' = [refers EXCEPT ![m] = 0]
        /\ unheld' = unheld \ {m}
    BY <1>3 DEF Unrefer, TplInv, TplTypeOK
  <2> QED BY <1>1, <2>1 DEF Referenced, Held, TplKeys
<1> DEFINE n == NoTask
<1>5. /\ n \in TaskSet /\ n.key = 0 /\ n.seen = {} /\ n.todo = {} /\ n.victim = 0 /\ n.file = 0
      /\ n.mode = "none"
  BY NoTaskFields
<1>6. PICK s \in TplStages, a \in TplKinds : s = "refs" /\ a = "reap"
  <2>1. "refs" \in TplStages /\ "reap" \in TplKinds
    BY DEF TplStages, Reaping, TplKinds
  <2> QED BY <2>1
<1> DEFINE t == [n EXCEPT !.kind = a, !.to = m, !.at = s]
<1>7. task' = [task EXCEPT ![h] = t]
  BY <1>3, <1>6 DEF Unrefer
<1> HIDE DEF n
<1>8. /\ t \in TaskSet /\ t.kind = a /\ t.key = 0 /\ t.to = m /\ t.at = s /\ t.seen = {}
      /\ t.todo = {} /\ t.victim = 0 /\ t.file = 0 /\ t.mode = "none"
  BY <1>5 DEF TaskSet
<1> HIDE DEF t
<1>9. TaskTyped' /\ OnlyTask(h) /\ task'[h] = t
  BY <1>1, <1>7, <1>8, TaskEntry
<1>10. \A i \in TplKeys : Out(i) => Out(i)'
  BY <1>2, <1>6, <1>8, <1>9, OutKept DEF Unpublished, Captures
<1>11. TaskOK(task[h])'
  BY <1>6, <1>8, <1>9 DEF TaskOK, Victims, Reaping, Undoing, Captures
<1>12. TaskHolds(task[h])'
  BY <1>4, <1>6, <1>8, <1>9, ZeroIsNotTwo DEF TaskHolds, Undoing
<1>13. ASSUME NEW x \in Helpers, x # h PROVE TaskHolds(task[x])'
  <2>1. task'[x] = task[x] /\ TaskHolds(task[x]) /\ TaskOK(task[x])
    BY <1>9, <1>13, TaskFacts DEF OnlyTask
  <2>2. /\ task[x].victim \in TplKeys \cup {0} /\ task[x].key \in TplKeys \cup {0}
        /\ task[x].todo \subseteq TplKeys
    BY TaskFacts
  <2>3. task[x].to # m
    <3>1. TasksApart(task[h], task[x])
      BY <1>13 DEF TplInv
    <3> QED BY <1>3, <3>1, TaskFacts DEF TasksApart
  <2>4. task[x].at = "launch" => refers'[task[x].to] = task[x].key
    BY <1>4, <2>1, <2>3 DEF TaskHolds, TaskOK
  <2>5. /\ task[x].kind = "fork" => refers'[task[x].to] = refers[task[x].to]
        /\ task[x].to \in unheld <=> task[x].to \in unheld'
    BY <1>4, <2>1, <2>3 DEF TaskOK
  <2> QED
    BY <1>2, <1>4, <1>10, <2>1, <2>2, <2>4, <2>5 DEF TaskHolds, Unpublished, FileDir, Whole
<1>14. \A x \in Helpers : x # h => TasksApart(task[h], task[x])' /\ TasksApart(task[x], task[h])'
  BY <1>3, <1>6, <1>8, <1>9, ApartKept DEF Captures
<1>15. \A i \in TplKeys : DirOK(i)'
  BY <1>2, <1>10, DirsQuiet
<1>16. ASSUME NEW i \in Clones PROVE CloneOK(i)'
  <2>1. CASE i = m
    BY <1>2, <1>3, <1>4, <2>1 DEF CloneOK
  <2>2. CASE i # m
    <3>1. CloneOK(i) /\ refers'[i] = refers[i] /\ refers[i] \in TplKeys \cup {0}
      BY <1>4, <2>2 DEF TplInv
    <3> QED BY <1>2, <1>4, <1>10, <3>1 DEF CloneOK, IsFork, Whole
  <2> QED BY <2>1, <2>2
<1>17. TplTypeOK'
  <2>1. refers' \in [Clones -> TplKeys \cup {0}]
    BY <1>4
  <2> QED BY <1>2, <1>4, <2>1 DEF TplInv, TplTypeOK
<1> QED BY <1>2, <1>9, <1>10, <1>11, <1>12, <1>13, <1>14, <1>15, <1>16, <1>17, AssembleTpl

-----------------------------------------------------------------------------
(* The beginnings of calls.                                                    *)

LEMMA BeginDoes ==
  ASSUME TplInv, NEW h \in Helpers, NEW a \in TplKinds, NEW k \in TplKeys \cup {0},
         NEW m \in Clones \cup {0}, NEW s \in TplStages, BeginsTpl(h, a, k, m, s)
  PROVE  /\ TaskTyped' /\ OnlyTask(h)
         /\ task'[h].kind = a /\ task'[h].key = k /\ task'[h].to = m /\ task'[h].at = s
         /\ task'[h].seen = {} /\ task'[h].todo = {} /\ task'[h].victim = 0
         /\ task'[h].file = 0 /\ task'[h].mode = "none"
         /\ UNCHANGED <<refers, running, wedged, remade, loose, unheld>>
         /\ \A x \in Helpers :
              x # h => TasksApart(task[h], task[x])' /\ TasksApart(task[x], task[h])'
<1> DEFINE n == NoTask
           t == [n EXCEPT !.kind = a, !.key = k, !.to = m, !.at = s]
<1>1. /\ n \in TaskSet /\ n.seen = {} /\ n.todo = {} /\ n.victim = 0 /\ n.file = 0
      /\ n.mode = "none"
  BY NoTaskFields
<1>2. task' = [task EXCEPT ![h] = t]
  BY DEF BeginsTpl
<1> HIDE DEF n
<1>3. /\ t \in TaskSet /\ t.kind = a /\ t.key = k /\ t.to = m /\ t.at = s /\ t.seen = {}
      /\ t.todo = {} /\ t.victim = 0 /\ t.file = 0 /\ t.mode = "none"
  BY <1>1 DEF TaskSet
<1> HIDE DEF t
<1>4. TaskTyped' /\ OnlyTask(h) /\ task'[h] = t
  BY <1>2, <1>3, TaskEntry, TaskFacts
<1>5. UNCHANGED <<refers, running, wedged, remade, loose, unheld>>
  BY DEF BeginsTpl, clones, drops
<1>6. ASSUME NEW x \in Helpers, x # h
      PROVE  TasksApart(task[h], task[x])' /\ TasksApart(task[x], task[h])'
  <2>1. /\ a \in Captures => task[x].kind \notin Captures
        /\ m # 0 => task[x].to # m
    BY DEF BeginsTpl
  <2>2. task'[x] = task[x]
    BY <1>4, <1>6 DEF OnlyTask
  <2> QED BY <1>3, <1>4, <2>1, <2>2 DEF TasksApart
<1> QED BY <1>3, <1>4, <1>5, <1>6

\* The call that begins needs little: its key is new, or past its capture.
LEMMA BeginKeeps ==
  ASSUME TplInv, NEW h \in Helpers, NEW a \in TplKinds, NEW k \in TplKeys \cup {0},
         NEW m \in Clones \cup {0}, NEW s \in {"refs", "check ready", "kill"},
         BeginsTpl(h, a, k, m, s),
         UNCHANGED <<dir, inode, aged>>,
         deleted \subseteq deleted', deleted' \subseteq TplKeys,
         a \in Captures => k \in TplKeys \ keysUsed /\ keysUsed' = keysUsed \cup {k} /\ s = "refs",
         a \notin Captures => keysUsed' = keysUsed /\ (k # 0 => Out(k)),
         a # "none", a = "fork" => m \in Clones /\ k = ForkKeys[m] /\ refers[m] = 0,
         a = "snapshot" => k \in SnapKeys,
         a = "restore" => m \in Clones /\ k \in SnapKeys,
         a = "clean" => m \in Clones /\ k \in TplKeys /\ (IsFork(k) => k = ForkKeys[m]),
         s = "check ready" => a = "restore", s = "kill" => a = "clean"
  PROVE  TplInv'
<1>1. s \in TplStages /\ 0 \notin TplKeys /\ 0 \notin SnapKeys
  BY TaskFacts DEF TplStages, Reaping, Undoing, TplKeys
<1>2. /\ TaskTyped' /\ OnlyTask(h)
      /\ task'[h].kind = a /\ task'[h].key = k /\ task'[h].to = m /\ task'[h].at = s
      /\ task'[h].seen = {} /\ task'[h].todo = {} /\ task'[h].victim = 0
      /\ task'[h].file = 0 /\ task'[h].mode = "none"
      /\ UNCHANGED <<refers, running, wedged, remade, loose, unheld>>
      /\ \A x \in Helpers :
           x # h => TasksApart(task[h], task[x])' /\ TasksApart(task[x], task[h])'
  BY <1>1, BeginDoes
<1>3. keysUsed \subseteq keysUsed' /\ keysUsed' \subseteq TplKeys
  BY DEF TplInv, TplTypeOK
<1>4. \A i \in TplKeys : Out(i) => Out(i)'
  BY <1>2, <1>3, OutKept DEF Unpublished
<1>5. TaskOK(task[h])'
  BY <1>2 DEF TaskOK, Victims, Reaping, Undoing, IsFork, Captures
<1>6. TaskHolds(task[h])'
  <2>1. k # 0 => k \in keysUsed'
    BY DEF Out
  <2>2. a \in Captures => Unpublished(task'[h])
    BY <1>2 DEF Unpublished, Reaping
  <2>3. a \notin Captures /\ k # 0 => Out(k)'
    BY <1>4
  <2>4. a = "fork" => refers'[m] = 0
    BY <1>2 DEF Captures
  <2>5. s \notin {"tear", "gone", "launch", "undo", "unrefer"}
    OBVIOUS
  <2> QED BY <1>1, <1>2, <2>1, <2>2, <2>3, <2>4, <2>5, ZeroIsNotTwo DEF TaskHolds
<1>7. TplTypeOK'
  BY <1>2, <1>3 DEF TplInv, TplTypeOK
<1> QED BY <1>2, <1>3, <1>4, <1>5, <1>6, <1>7, QuietTplStep

LEMMA BeginsKeep ==
  ASSUME TplInv, NEW h \in Helpers,
         \/ ReapTemplates(h)
         \/ \E k \in SnapKeys : Snapshot(h, k) \/ Delete(h, k) \/ \E m \in Clones : Restore(h, k, m)
         \/ \E m \in Clones : Fork(h, m) \/ CleanClone(h, m)
  PROVE  TplInv'
<1>1. /\ TplTypeOK /\ 0 \notin TplKeys /\ SnapKeys \subseteq TplKeys
      /\ \A m \in Clones : ForkKeys[m] \in TplKeys /\ IsFork(ForkKeys[m])
  BY TaskFacts DEF TplInv, TplKeys
<1>2. deleted \subseteq TplKeys
  BY <1>1 DEF TplTypeOK
<1>3. CASE ReapTemplates(h)
  <2>1. PICK a \in TplKinds, s \in {"refs", "check ready", "kill"} : a = "reap" /\ s = "refs"
    BY DEF TplKinds
  <2>2. BeginsTpl(h, a, 0, 0, s) /\ UNCHANGED <<dir, inode, aged, deleted, keysUsed>>
    BY <1>3, <2>1 DEF ReapTemplates, dirs
  <2>3. a \notin Captures /\ a \notin {"none", "fork", "snapshot", "restore", "clean"}
    BY <2>1 DEF Captures
  <2> QED BY <1>2, <2>1, <2>2, <2>3, BeginKeeps
<1>4. ASSUME NEW k \in SnapKeys, Snapshot(h, k) PROVE TplInv'
  <2>1. PICK a \in TplKinds, s \in {"refs", "check ready", "kill"} : a = "snapshot" /\ s = "refs"
    BY DEF TplKinds
  <2>2. /\ BeginsTpl(h, a, k, 0, s) /\ UNCHANGED <<dir, inode, aged, deleted>>
        /\ k \notin keysUsed /\ keysUsed' = keysUsed \cup {k}
    BY <1>4, <2>1 DEF Snapshot, dirs
  <2>3. a \in Captures /\ a \notin {"none", "fork", "restore", "clean"} /\ k \in TplKeys
    BY <1>1, <2>1 DEF Captures
  <2> QED BY <1>2, <2>1, <2>2, <2>3, BeginKeeps
<1>5. ASSUME NEW k \in SnapKeys, Delete(h, k) PROVE TplInv'
  <2>1. PICK a \in TplKinds, s \in {"refs", "check ready", "kill"} : a = "delete" /\ s = "refs"
    BY DEF TplKinds
  <2>2. /\ BeginsTpl(h, a, k, 0, s) /\ UNCHANGED <<dir, inode, aged, keysUsed>>
        /\ deleted' = deleted \cup {k} /\ dir[k] # "none"
    BY <1>5, <2>1 DEF Delete
  <2>3. a \notin Captures /\ a \notin {"none", "fork", "snapshot", "restore", "clean"}
    BY <2>1 DEF Captures
  <2>4. k \in TplKeys /\ Out(k) /\ deleted \subseteq deleted' /\ deleted' \subseteq TplKeys
    BY <1>1, <1>2, <2>2 DEF TplInv, DirOK
  <2> QED BY <2>1, <2>2, <2>3, <2>4, BeginKeeps
<1>6. ASSUME NEW k \in SnapKeys, NEW m \in Clones, Restore(h, k, m) PROVE TplInv'
  <2>1. PICK a \in TplKinds, s \in {"refs", "check ready", "kill"} :
          a = "restore" /\ s = "check ready"
    BY DEF TplKinds
  <2>2. /\ BeginsTpl(h, a, k, m, s) /\ UNCHANGED <<dir, inode, aged, deleted, keysUsed>>
        /\ dir[k] # "none"
    BY <1>6, <2>1 DEF Restore, dirs
  <2>3. a \notin Captures /\ a \notin {"none", "fork", "snapshot", "clean"}
    BY <2>1 DEF Captures
  <2>4. k \in TplKeys /\ Out(k)
    BY <1>1, <2>2 DEF TplInv, DirOK
  <2> QED BY <1>2, <2>1, <2>2, <2>3, <2>4, BeginKeeps
<1>7. ASSUME NEW m \in Clones, Fork(h, m) PROVE TplInv'
  <2>1. PICK a \in TplKinds, s \in {"refs", "check ready", "kill"} : a = "fork" /\ s = "refs"
    BY DEF TplKinds
  <2>2. PICK k \in TplKeys : k = ForkKeys[m]
    BY <1>1
  <2>3. /\ BeginsTpl(h, a, k, m, s) /\ UNCHANGED <<dir, inode, aged, deleted>>
        /\ k \notin keysUsed /\ keysUsed' = keysUsed \cup {k} /\ refers[m] = 0
    BY <1>7, <2>1, <2>2 DEF Fork, dirs
  <2>4. a \in Captures /\ a \notin {"none", "snapshot", "restore", "clean"}
    BY <2>1 DEF Captures
  <2> QED BY <1>2, <2>1, <2>2, <2>3, <2>4, BeginKeeps
<1>8. ASSUME NEW m \in Clones, CleanClone(h, m) PROVE TplInv'
  <2>1. PICK a \in TplKinds, s \in {"refs", "check ready", "kill"} : a = "clean" /\ s = "kill"
    BY DEF TplKinds
  <2>2. PICK k \in TplKeys : /\ k = refers[m] /\ Out(k) /\ (IsFork(k) => k = ForkKeys[m])
                             /\ refers[m] # 0
    <3>1. refers[m] # 0 /\ refers[m] \in TplKeys
      BY <1>1, <1>8 DEF CleanClone, TplTypeOK
    <3>2. CloneOK(m)
      BY DEF TplInv
    <3> QED BY <3>1, <3>2 DEF CloneOK
  <2>3. BeginsTpl(h, a, k, m, s) /\ UNCHANGED <<dir, inode, aged, deleted, keysUsed>>
    BY <1>8, <2>1, <2>2 DEF CleanClone, dirs
  <2>4. a \notin Captures /\ a \notin {"none", "fork", "snapshot", "restore"}
    BY <2>1 DEF Captures
  <2> QED BY <1>2, <2>1, <2>2, <2>3, <2>4, BeginKeeps
<1> QED BY <1>3, <1>4, <1>5, <1>6, <1>7, <1>8

-----------------------------------------------------------------------------
(* The invariant.                                                              *)

LEMMA RestKeeps ==
  ASSUME TplInv, (\E k \in TplKeys : GetsOld(k)) \/ SourceRestarts \/ UNCHANGED tplVars
  PROVE  TplInv'
<1>1. /\ UNCHANGED <<dir, inode, deleted, refers, running, remade, keysUsed, loose, unheld, task>>
      /\ aged \subseteq aged' /\ aged' \subseteq TplKeys
  BY DEF GetsOld, SourceRestarts, tplVars, dirs, clones, tplPast, drops, TplInv, TplTypeOK
<1>2. wedged' \in BOOLEAN
  <2>1. wedged \in BOOLEAN
    BY DEF TplInv, TplTypeOK
  <2>2. CASE \E k \in TplKeys : GetsOld(k)
    BY <2>1, <2>2 DEF GetsOld
  <2>3. CASE SourceRestarts
    BY <2>3 DEF SourceRestarts
  <2>4. CASE UNCHANGED tplVars
    BY <2>1, <2>4 DEF tplVars
  <2> QED BY <2>2, <2>3, <2>4
<1>3. TplTypeOK'
  BY <1>1, <1>2 DEF TplInv, TplTypeOK
<1>4. TaskTyped' /\ Referenced' = Referenced /\ Held' = Held
  BY <1>1 DEF TplInv, TaskTyped, Referenced, Held
<1>5. ASSUME NEW k PROVE Out(k) <=> Out(k)'
  BY <1>1 DEF Out, Unpublished
<1>6. ASSUME NEW h \in Helpers PROVE TaskOK(task[h])' /\ TaskHolds(task[h])'
  <2>1. TaskOK(task[h]) /\ TaskHolds(task[h])
    BY TaskFacts
  <2>2. TaskOK(task[h])'
    BY <1>1, <2>1 DEF TaskOK, IsFork
  <2>3. TaskHolds(task[h])'
    BY <1>1, <1>4, <1>5, <2>1 DEF TaskHolds, Unpublished, FileDir, Whole
  <2> QED BY <2>2, <2>3
<1>7. ASSUME NEW x \in Helpers, NEW y \in Helpers, x # y PROVE TasksApart(task[x], task[y])'
  BY <1>1, <1>7 DEF TplInv, TasksApart
<1>8. ASSUME NEW k \in TplKeys PROVE DirOK(k)'
  BY <1>1, <1>5 DEF TplInv, DirOK
<1>9. ASSUME NEW m \in Clones PROVE CloneOK(m)'
  <2>1. CloneOK(m)
    BY DEF TplInv
  <2> QED BY <1>1, <1>5, <2>1 DEF CloneOK, IsFork, Whole
<1>10. \A p \in loose' : LooseRefOK(p)'
  BY <1>1, <1>5, LooseKept
<1> QED BY <1>3, <1>4, <1>6, <1>7, <1>8, <1>9, <1>10 DEF TplInv

LEMMA TplCrashKeeps ==
  ASSUME TplInv, TplCrash
  PROVE  TplInv'
<1>1. /\ UNCHANGED <<dir, inode, deleted, aged, refers, running, remade, keysUsed, unheld>>
      /\ task' = [h \in Helpers |-> NoTask] /\ loose' = {}
  BY DEF TplCrash, dirs, clones
<1>2. wedged' \in BOOLEAN
  <2>1. wedged \in BOOLEAN
    BY DEF TplInv, TplTypeOK
  <2>2. CASE \E h \in Helpers : On(h, "capture")
    BY <2>2 DEF TplCrash
  <2>3. CASE ~\E h \in Helpers : On(h, "capture")
    BY <2>1, <2>3 DEF TplCrash
  <2> QED BY <2>2, <2>3
<1>3. TplTypeOK'
  BY <1>1, <1>2 DEF TplInv, TplTypeOK
<1>4. TaskTyped'
  BY <1>1, NoTaskFields DEF TaskTyped
<1>5. ASSUME NEW h \in Helpers PROVE /\ task'[h] = NoTask /\ TaskOK(task[h])'
                                     /\ TaskHolds(task[h])' /\ ~Unpublished(task'[h])
  <2>1. task'[h] = NoTask
    BY <1>1
  <2> QED BY <2>1, IdleOK
<1>6. ASSUME NEW k, Out(k) PROVE Out(k)'
  BY <1>1, <1>5, <1>6 DEF Out, Unpublished
<1>7. ASSUME NEW x \in Helpers, NEW y \in Helpers, x # y PROVE TasksApart(task[x], task[y])'
  <2>1. task'[x] = NoTask
    BY <1>5
  <2> QED BY <2>1, NoTaskFields DEF TasksApart, Captures
<1>8. ASSUME NEW k \in TplKeys PROVE DirOK(k)'
  BY <1>1, <1>6 DEF TplInv, DirOK
<1>9. ASSUME NEW m \in Clones PROVE CloneOK(m)'
  <2>1. CloneOK(m)
    BY DEF TplInv
  <2> QED BY <1>1, <1>6, <2>1 DEF CloneOK, IsFork, Whole
<1> QED BY <1>1, <1>3, <1>4, <1>5, <1>7, <1>8, <1>9 DEF TplInv

\* The future of a call is dropped.  What it held is free; if the closure that writes
\* its manifest was under way, that is remembered.
LEMMA DropTplCallKeeps ==
  ASSUME TplInv, NEW h \in Helpers, DropTplCall(h)
  PROVE  TplInv'
<1>1. /\ TaskTyped /\ TaskOK(task[h]) /\ TaskHolds(task[h])
      /\ task[h].key \in TplKeys \cup {0} /\ 0 \notin TplKeys
  BY TaskFacts
<1>2. /\ UNCHANGED <<dir, inode, deleted, aged, refers, running, wedged, remade, keysUsed, unheld>>
      /\ loose' = IF task[h].at = "record" THEN loose \cup {<<task[h].to, task[h].key>>} ELSE loose
  BY DEF DropTplCall, On, dirs, clones
<1>3. wedged \in BOOLEAN
  BY DEF TplInv, TplTypeOK
<1>4. wedged' \in BOOLEAN
  BY <1>2, <1>3
<1>5. TaskTyped' /\ OnlyTask(h) /\ task'[h] = NoTask
  BY <1>1, DoneDoes DEF DropTplCall
<1>6. CASE task[h].at # "record"
  <2>1. UNCHANGED <<dirs, clones, tplPast>>
    BY <1>2, <1>6 DEF dirs, clones, tplPast, drops
  <2> QED BY <1>4, <1>5, <2>1, EndStep
<1>7. CASE task[h].at = "record"
  <2>1. PICK k \in TplKeys, m \in Clones :
          /\ k = task[h].key /\ m = task[h].to /\ Out(k)
          /\ IsFork(k) => k = ForkKeys[m]
    <3>1. task[h].kind \in {"fork", "restore"} /\ ~Unpublished(task[h])
      BY <1>1, <1>7 DEF TaskOK, Unpublished, Reaping
    <3>2. task[h].key \in TplKeys /\ task[h].to \in Clones
      BY <1>1, <3>1, TaskFacts DEF TaskOK, TplKeys
    <3>3. Out(task[h].key)
      BY <1>1, <3>1, <3>2 DEF TaskHolds
    <3>4. IsFork(task[h].key) => task[h].key = ForkKeys[task[h].to]
      BY <1>1, <3>1 DEF TaskOK, IsFork
    <3> QED BY <3>2, <3>3, <3>4
  <2>2. loose' = loose \cup {<<m, k>>}
    BY <1>2, <1>7, <2>1
  <2>3. TaskOK(task[h])' /\ TaskHolds(task[h])' /\ ~Unpublished(task'[h])
    BY <1>5, IdleOK
  <2>4. \A i \in TplKeys : Out(i) => Out(i)'
    BY <1>2, <1>5, <2>3, OutKept
  <2>5. \A x \in Helpers : x # h => TasksApart(task[h], task[x])' /\ TasksApart(task[x], task[h])'
    BY <1>5, ApartKept, NoTaskFields DEF Captures
  <2>6. TplTypeOK'
    <3>1. loose' \subseteq Clones \X TplKeys
      BY <2>2 DEF TplInv, TplTypeOK
    <3> QED BY <1>2, <1>4, <3>1 DEF TplInv, TplTypeOK
  <2>7. ASSUME NEW p \in loose' PROVE LooseRefOK(p)'
    <3>1. CASE p = <<m, k>>
      <4>1. p[1] = m /\ p[2] = k
        BY <3>1
      <4> QED BY <2>1, <2>4, <4>1 DEF LooseRefOK, IsFork
    <3>2. CASE p \in loose
      <4>1. LooseRefOK(p) /\ p[2] \in TplKeys
        BY <3>2 DEF TplInv, TplTypeOK
      <4> QED BY <2>4, <4>1 DEF LooseRefOK, IsFork
    <3> QED BY <2>2, <3>1, <3>2
  <2>8. \A x \in Helpers : x # h => TaskHolds(task[x])'
    BY <1>2, <1>5, <2>4, OtherQuiet
  <2>9. \A i \in TplKeys : DirOK(i)'
    BY <1>2, <2>4, DirsQuiet
  <2>10. \A i \in Clones : CloneOK(i)'
    BY <1>2, <2>4, ClonesQuiet
  <2> QED BY <1>5, <2>3, <2>5, <2>6, <2>7, <2>8, <2>9, <2>10, AssembleLoose
<1> QED BY <1>6, <1>7

\* The manifest of a dropped call: its clone stands on nothing, and does not run.
LEMMA LooseRecordKeeps ==
  ASSUME TplInv, NEW m \in Clones, NEW k \in TplKeys, LooseRecord(m, k)
  PROVE  TplInv'
<1>1. /\ UNCHANGED <<dir, inode, deleted, aged, running, wedged, task, remade, keysUsed>>
      /\ <<m, k>> \in loose /\ loose' \subseteq loose
  BY DEF LooseRecord, dirs
<1>2. /\ refers \in [Clones -> TplKeys \cup {0}] /\ 0 \notin TplKeys /\ wedged \in BOOLEAN
      /\ TplTypeOK /\ k # 0
  BY TplAssumption DEF TplInv, TplTypeOK
<1>3. \A i : Out(i) <=> Out(i)'
  BY <1>1 DEF Out, Unpublished
<1>4. \A p \in loose' : LooseRefOK(p)'
  BY <1>1, <1>3, LooseKept
<1>5. Out(k) /\ (IsFork(k) => k = ForkKeys[m])
  <2>1. LooseRefOK(<<m, k>>)
    BY <1>1 DEF TplInv
  <2> QED BY <2>1 DEF LooseRefOK
<1>6. /\ refers' \in [Clones -> TplKeys \cup {0}]
      /\ unheld \subseteq unheld' /\ unheld' \subseteq unheld \cup {m}
      /\ \A n \in Clones : n # m => refers'[n] = refers[n]
      /\ \/ refers[m] = 0 /\ refers'[m] = k /\ m \in unheld'
         \/ refers[m] # 0 /\ refers'[m] = refers[m] /\ unheld' = unheld
  BY <1>2 DEF LooseRecord
<1>7. Held' \subseteq Held
  BY <1>2, <1>6 DEF Held
<1>8. TplTypeOK'
  <2>1. wedged' \in BOOLEAN
    BY <1>1, <1>2
  <2> QED BY <1>1, <1>2, <1>6, <2>1 DEF TplTypeOK
<1>9. TaskTyped'
  BY <1>1 DEF TplInv, TaskTyped
<1>10. ASSUME NEW h \in Helpers PROVE TaskOK(task[h])' /\ TaskHolds(task[h])'
  <2>1. TaskOK(task[h]) /\ TaskHolds(task[h]) /\ 0 \notin Clones
    BY TaskFacts
  <2>2. TaskOK(task[h])'
    BY <1>1, <2>1 DEF TaskOK, IsFork
  <2>3. ASSUME task[h].at = "launch"
        PROVE  refers'[task[h].to] = task[h].key /\ task[h].to \notin unheld'
    <3>1. /\ task[h].to \in Clones \ unheld /\ refers[task[h].to] = task[h].key
          /\ task[h].key # 0
      BY <1>2, <2>1, <2>3, TaskFacts DEF TaskOK, TaskHolds, TplKeys
    <3> QED BY <1>6, <3>1
  <2>4. task[h].kind = "fork" /\ (refers[task[h].to] = 0 \/ task[h].to \in unheld) =>
          refers'[task[h].to] = 0 \/ task[h].to \in unheld'
    BY <1>6, <2>1 DEF TaskOK
  <2>5. Unpublished(task[h]) <=> Unpublished(task[h])'
    BY <1>1 DEF Unpublished
  <2>6. TaskHolds(task[h])'
    BY <1>1, <1>3, <1>7, <2>1, <2>3, <2>4, <2>5 DEF TaskHolds, FileDir, Whole
  <2> QED BY <2>2, <2>6
<1>11. ASSUME NEW x \in Helpers, NEW y \in Helpers, x # y PROVE TasksApart(task[x], task[y])'
  BY <1>1, <1>11 DEF TplInv, TasksApart
<1>12. ASSUME NEW i \in TplKeys PROVE DirOK(i)'
  BY <1>1, <1>3 DEF TplInv, DirOK
<1>13. ASSUME NEW n \in Clones PROVE CloneOK(n)'
  <2>1. CloneOK(n)
    BY DEF TplInv
  <2>2. CASE n # m \/ refers[m] # 0
    <3>1. refers'[n] = refers[n] /\ (n \in unheld <=> n \in unheld')
      BY <1>6, <2>2
    <3> QED BY <1>1, <1>3, <2>1, <3>1 DEF CloneOK, IsFork, Whole
  <2>3. CASE n = m /\ refers[m] = 0
    BY <1>1, <1>2, <1>3, <1>5, <1>6, <2>1, <2>3 DEF CloneOK, IsFork
  <2> QED BY <2>2, <2>3
<1> QED BY <1>4, <1>8, <1>9, <1>10, <1>11, <1>12, <1>13 DEF TplInv

LEMMA TplInvInit == TplInit => TplInv
<1> SUFFICES ASSUME TplInit PROVE TplInv
  OBVIOUS
<1>1. /\ dir = [k \in TplKeys |-> "none"] /\ inode = [k \in TplKeys |-> 0] /\ deleted = {}
      /\ aged = {} /\ refers = [m \in Clones |-> 0] /\ running = {} /\ wedged = FALSE
      /\ task = [h \in Helpers |-> NoTask] /\ remade = {} /\ keysUsed = {}
      /\ loose = {} /\ unheld = {}
  BY DEF TplInit
<1>2. TplTypeOK
  <2>1. wedged \in BOOLEAN
    BY <1>1
  <2> QED BY <1>1, <2>1 DEF TplTypeOK
<1>3. TaskTyped
  BY <1>1, NoTaskFields DEF TaskTyped
<1>4. ASSUME NEW h \in Helpers PROVE task[h] = NoTask /\ TaskOK(task[h]) /\ TaskHolds(task[h])
  <2>1. task[h] = NoTask
    BY <1>1
  <2>2. TaskOK(task[h])
    BY <2>1, NoTaskFields DEF TaskOK, Victims, Reaping, Undoing, Captures
  <2>3. TaskHolds(task[h])
    <3>1. 0 \notin SnapKeys
      BY TplAssumption DEF TplKeys
    <3> QED BY <2>1, <3>1, NoTaskFields, ZeroIsNotTwo DEF TaskHolds, Undoing
  <2> QED BY <2>1, <2>2, <2>3
<1>5. ASSUME NEW x \in Helpers, NEW y \in Helpers PROVE TasksApart(task[x], task[y])
  BY <1>4, NoTaskFields DEF TasksApart, Captures
<1>6. ASSUME NEW k \in TplKeys PROVE DirOK(k)
  BY <1>1 DEF DirOK
<1>7. ASSUME NEW m \in Clones PROVE CloneOK(m)
  BY <1>1, TplAssumption DEF CloneOK, TplKeys
<1> QED BY <1>1, <1>2, <1>3, <1>4, <1>5, <1>6, <1>7 DEF TplInv

LEMMA TplInvNext == TplInv /\ [TplNext]_tplVars => TplInv'
<1> SUFFICES ASSUME TplInv, [TplNext]_tplVars PROVE TplInv'
  OBVIOUS
<1>1. ASSUME NEW h \in Helpers, TplStep(h) PROVE TplInv'
  BY <1>1, ReadRefsKeeps, PickTemplateKeeps, TryExclusiveKeeps, RescanKeeps, TearKeeps,
     RemoveTemplateKeeps, PublishKeeps, LinkMemoryKeeps, OpenLeaseKeeps, ShareLeaseKeeps,
     CheckReadyKeeps, RecordKeeps, LaunchCloneKeeps, KillCloneKeeps, UndoForkKeeps, UnreferKeeps
  DEF TplStep
<1>2. ASSUME NEW h \in Helpers,
             \/ ReapTemplates(h)
             \/ \E k \in SnapKeys :
                  Snapshot(h, k) \/ Delete(h, k) \/ \E m \in Clones : Restore(h, k, m)
             \/ \E m \in Clones : Fork(h, m) \/ CleanClone(h, m)
      PROVE  TplInv'
  BY <1>2, BeginsKeep
<1>3. ASSUME (\E k \in TplKeys : GetsOld(k)) \/ SourceRestarts \/ UNCHANGED tplVars PROVE TplInv'
  BY <1>3, RestKeeps
<1>4. ASSUME TplCrash PROVE TplInv'
  BY <1>4, TplCrashKeeps
<1>5. ASSUME NEW h \in Helpers, DropTplCall(h) PROVE TplInv'
  BY <1>5, DropTplCallKeeps
<1>6. ASSUME NEW m \in Clones, NEW k \in TplKeys, LooseRecord(m, k) PROVE TplInv'
  BY <1>6, LooseRecordKeeps
<1> QED BY <1>1, <1>2, <1>3, <1>4, <1>5, <1>6 DEF TplNext

LEMMA TplInvHolds == TplSpec => []TplInv
BY TplInvInit, TplInvNext, PTL DEF TplSpec

LEMMA TplInvWhole == TplInv => SnapshotsWhole /\ ForksWhole /\ UnheldAreOff
<1> SUFFICES ASSUME TplInv PROVE SnapshotsWhole /\ ForksWhole /\ UnheldAreOff
  OBVIOUS
<1>1. SnapshotsWhole
  BY DEF TplInv, CloneOK, Whole, SnapshotsWhole
<1>2. ForksWhole
  <2>1. running \subseteq Clones
    BY DEF TplInv, TplTypeOK
  <2> QED BY <2>1 DEF TplInv, CloneOK, Whole, ForksWhole
<1>3. UnheldAreOff
  BY DEF TplInv, TplTypeOK, CloneOK, UnheldAreOff
<1> QED BY <1>1, <1>2, <1>3

\* The steps that take a directory away: a reaper's, and a fork's for its own.
LEMMA RemovalStep ==
  ASSUME TplInv, [TplNext]_tplVars, NEW k \in SnapKeys, dir[k] = "full", dir'[k] # "full"
  PROVE  k \in deleted \cup aged
<1>1. dir \in [TplKeys -> {"none", "full", "torn"}] /\ k \in TplKeys /\ dir' # dir
  BY DEF TplInv, TplTypeOK, TplKeys
<1>2. PICK h \in Helpers : Tear(h) \/ RemoveTemplate(h) \/ Publish(h) \/ UndoFork(h)
  BY <1>1
  DEF TplNext, TplStep, ReadRefs, PickTemplate, TryExclusive, Rescan, LinkMemory, OpenLease,
      ShareLease, CheckReady, Record, LaunchClone, KillClone, Unrefer, ReapTemplates, Snapshot,
      Delete, Restore, Fork, CleanClone, GetsOld, TplCrash, SourceRestarts, DropTplCall,
      LooseRecord, tplVars, dirs
<1>3. TaskOK(task[h]) /\ TaskHolds(task[h])
  BY TaskFacts
<1>4. CASE Tear(h) \/ RemoveTemplate(h)
  <2>1. k = task[h].victim
    BY <1>1, <1>4 DEF Tear, RemoveTemplate
  <2> QED BY <1>3, <2>1 DEF TaskHolds
<1>5. CASE Publish(h)
  BY <1>1, <1>5 DEF Publish
<1>6. CASE UndoFork(h)
  <2>1. k = task[h].key /\ IsFork(task[h].key)
    BY <1>1, <1>3, <1>6 DEF UndoFork, TaskOK, On
  <2> QED BY <2>1 DEF IsFork
<1> QED BY <1>2, <1>4, <1>5, <1>6

\* Whatever forks, restores, deletions, reaps, dropped calls and crashes run at once, no
\* template is taken away that a machine stands on, but that of a manifest which a dropped
\* call left to be written without the lease, and on which no machine runs; and no snapshot
\* is taken away that was neither deleted nor is too old (open_snapshot_template_lease,
\* reap_orphaned_fork_snapshot_templates).
THEOREM TemplatesKeptCorrect == TplSpec => TemplatesKept
<1>1. TplInv => SnapshotsWhole /\ ForksWhole /\ UnheldAreOff
  BY TplInvWhole
<1>2. TplInv /\ [TplNext]_tplVars =>
        [\A k \in SnapKeys : dir[k] = "full" /\ dir'[k] # "full" => k \in deleted \cup aged]_tplVars
  BY RemovalStep
<1> QED BY <1>1, <1>2, TplInvHolds, PTL DEF TplSpec, TemplatesKept, SnapshotsLast
================================================================================
