-------------------------- MODULE LocalSessionsProofs --------------------------
(* OneOwner, MachinesCovered and OthersVmsKept of LocalSessions, for any number *)
(* of processes, tasks, threads and operations.                                 *)
EXTENDS LocalSessions, TLAPS

\* The stages an operation goes through, and what it is about.
ShapeOf(o) ==
  /\ o.kind = "none" => o.at = "idle" /\ o.has = {}
  /\ o.kind = "use" => o.at \in {"owns", "lifecycle", "claim", "recover", "work"}
  /\ o.kind = "newThread" => o.at \in {"lifecycle", "claim"}
  /\ o.kind = "fork" => o.at \in {"lifecycle", "agentLock", "threadLock", "write"}
  /\ o.kind \in Deletions =>
       o.at \in {"agentLock", "threadLock", "keys", "lifecycle", "claim",
                 "terminate", "recheck", "release"}
  /\ o.kind = "deleteAgent" => o.on = Agent /\ o.at # "threadLock"
  /\ o.kind \in {"deleteThread", "fork"} => o.on \in Threads

Shape == \A j \in Jobs : ShapeOf(op[j])

\* Only a process that is up has tasks.
HostsUp == \A j \in Jobs : op[j].kind # "none" => host[HostOf[j]] = "up"

\* Whoever creates or deletes, from its claim on, has lifecycle.lock.
Guards(o) ==
  \/ o.kind \in Deletions /\ o.at \in {"claim", "terminate", "recheck", "release"}
  \/ o.kind = "newThread" /\ o.at = "claim"
  \/ o.kind = "fork" /\ o.at \in {"agentLock", "threadLock", "write"}

LifecycleHeld == \A j \in Jobs : Guards(op[j]) => lifecycle = j

\* Locked files were created, and so was the file that has the name.
LeaseFiles ==
  /\ \A s \in Scopes : name[s] <= made[s]
  /\ \A h \in Hosts : \A l \in LeasesOf(h) : l[2] \in 1..made[l[1]]

\* Threads go with their agent; what a deletion releases is gone for good.
Deleted ==
  /\ Agent \notin live => live = {}
  /\ \A j \in Jobs : op[j].at = "release" => op[j].on \notin live

\* The leases a task relies on are in its hand, and a user's is published too
\* unless the scope is gone.
Relies(j) ==
  /\ op[j].kind = "use" /\ op[j].at \in {"recover", "work"} =>
       /\ \E f \in Nat : op[j].has = {<<op[j].on, f>>}
       /\ op[j].on \in live => owned[HostOf[j]][op[j].on] # 0
  /\ op[j].at = "work" => op[j].has \subseteq recovered
  /\ op[j].at \in {"terminate", "recheck"} =>
       \A s \in Doomed(j) : \E f \in Nat : <<s, f>> \in op[j].has
  /\ op[j].at = "release" => \E f \in Nat : <<op[j].on, f>> \in op[j].has

TaskLeases == \A j \in Jobs : Relies(j)

\* A shutdown keeps the leases of what it has still to stop.
ClosingLeases ==
  \A h \in Hosts :
    /\ \A s \in sweep[h] : \E f \in Nat : <<s, f>> \in closing[h]
    /\ host[h] = "closing" =>
         \A s \in Scopes : vm[s] = h => \E f \in Nat : <<s, f>> \in closing[h]

\* Under a lease that is recovered no machine of another process is left.
Recovered ==
  \A h \in Hosts : \A l \in LeasesOf(h) : l \in recovered => vm[l[1]] \in {NoOne, h}

SessInv ==
  /\ SessTypeOK /\ Shape /\ HostsUp /\ LifecycleHeld /\ LeaseFiles /\ Deleted /\ TaskLeases
  /\ ClosingLeases /\ Recovered
  /\ OneOwner /\ VmLeased /\ DeletedIsIdle

--------------------------------------------------------------------------------

Ops == [kind : Deletions \cup {"none", "use", "newThread", "fork"},
        on : Scopes,
        at : {"idle", "owns", "lifecycle", "agentLock", "threadLock", "keys", "claim",
              "recover", "work", "write", "terminate", "recheck", "release"},
        res : SUBSET ({"read", "write"} \cup Threads),
        has : SUBSET (Scopes \X Nat),
        round : 0..Rounds - 1]

\* The resting operation is one.
LEMMA NoOpTyped == NoOp \in Ops
    BY SessAssumption DEF SessAssumption, NoOp, Ops, Scopes

\* A step that changes one task leaves the operations well formed.
LEMMA OpTyped ==
  ASSUME op \in [Jobs -> Ops], NEW j \in Jobs, NEW o \in Ops, op' = [op EXCEPT ![j] = o]
  PROVE  op' \in [Jobs -> Ops]
    OBVIOUS

\* A claim puts leases into a task's hand.
LEMMA OpClaims ==
  ASSUME op \in [Jobs -> Ops], NEW j \in Jobs, NEW R \in SUBSET (Scopes \X Nat),
         NEW a \in {"recover", "terminate"},
         op' = [op EXCEPT ![j].has = R, ![j].at = a]
  PROVE  op' \in [Jobs -> Ops]
<1>1. op[j] \in Ops /\ op' = [op EXCEPT ![j] = [op[j] EXCEPT !.has = R, !.at = a]]
    OBVIOUS
<1>2. [op[j] EXCEPT !.has = R, !.at = a] \in Ops
    BY <1>1 DEF Ops
<1>3. QED
    BY <1>1, <1>2

\* Task j goes to stage a with leases R in its hand; the others stay where they are.
Moved(j, a, R) ==
  /\ op'[j].kind = op[j].kind /\ op'[j].on = op[j].on /\ op'[j].at = a /\ op'[j].has = R
  /\ \A k \in Jobs \ {j} : op'[k] = op[k]

\* The assignments that do that.
LEMMA Moves ==
  ASSUME op \in [Jobs -> Ops], NEW j \in Jobs, NEW a, NEW R
  PROVE  /\ Goto(j, a) => Moved(j, a, op[j].has)
         /\ op' = [op EXCEPT ![j].res = R, ![j].at = a] => Moved(j, a, op[j].has)
         /\ op' = [op EXCEPT ![j].round = R, ![j].at = a] => Moved(j, a, op[j].has)
         /\ op' = [op EXCEPT ![j].has = R, ![j].at = a] => Moved(j, a, R)
         /\ Finished(j) => op'[j] = NoOp /\ \A k \in Jobs \ {j} : op'[k] = op[k]
<1>1. op[j] \in Ops
    OBVIOUS
<1>2. op' = [op EXCEPT ![j].res = R, ![j].at = a] => Moved(j, a, op[j].has)
    BY <1>1 DEF Moved, Ops
<1>3. op' = [op EXCEPT ![j].round = R, ![j].at = a] => Moved(j, a, op[j].has)
    BY <1>1 DEF Moved, Ops
<1>4. op' = [op EXCEPT ![j].has = R, ![j].at = a] => Moved(j, a, R)
    BY <1>1 DEF Moved, Ops
<1>5. Goto(j, a) => Moved(j, a, op[j].has)
    BY <1>1 DEF Moved, Goto, Ops
<1>6. QED
    BY <1>2, <1>3, <1>4, <1>5 DEF Finished

\* Types hold at the start.
LEMMA SessTypeInit == SessInit => SessTypeOK
<1> SUFFICES ASSUME SessInit PROVE SessTypeOK
    OBVIOUS
<1> USE SessAssumption DEF SessInit, SessAssumption
<1>1. op \in [Jobs -> Ops]
    BY NoOpTyped
<1>2. 0 \in Nat /\ 0 \in 0..MaxJobs /\ live \subseteq Scopes
    BY DEF Scopes
<1>3. QED
    BY <1>1, <1>2 DEF SessTypeOK, Ops

\* What it takes for a process to keep a lease.
Leased(h, l) ==
  \/ \E s \in Scopes : owned[h][s] # 0 /\ l = <<s, owned[h][s]>>
  \/ \E j \in Jobs : HostOf[j] = h /\ l \in op[j].has
  \/ l \in closing[h]

\* LeasesOf holds these leases, before and after a step.
LEMMA LeaseMembers ==
  \A h, l : /\ l \in LeasesOf(h) <=> Leased(h, l)
            /\ l \in LeasesOf(h)' <=> Leased(h, l)'
<1> SUFFICES ASSUME NEW h, NEW l
             PROVE  /\ l \in LeasesOf(h) <=> Leased(h, l)
                    /\ l \in LeasesOf(h)' <=> Leased(h, l)'
    OBVIOUS
<1> DEFINE A == {<<s, owned[h][s]>> : s \in {z \in Scopes : owned[h][z] # 0}}
           B == UNION {op[j].has : j \in {k \in Jobs : HostOf[k] = h}}
<1>1. l \in B <=> \E j \in Jobs : HostOf[j] = h /\ l \in op[j].has
    BY Zenon
<1>2. l \in B' <=> \E j \in Jobs : HostOf[j] = h /\ l \in op'[j].has
    BY Zenon
<1>3. l \in A <=> \E s \in Scopes : owned[h][s] # 0 /\ l = <<s, owned[h][s]>>
    BY Zenon
<1>4. l \in A' <=> \E s \in Scopes : owned'[h][s] # 0 /\ l = <<s, owned'[h][s]>>
    BY Zenon
<1>5. /\ LeasesOf(h) = A \cup B \cup closing[h]
      /\ LeasesOf(h)' = A' \cup B' \cup closing'[h]
    BY DEF LeasesOf
<1> HIDE DEF A, B
<1>6. l \in LeasesOf(h) <=> Leased(h, l)
    BY <1>1, <1>3, <1>5 DEF Leased
<1>7. l \in LeasesOf(h)' <=> Leased(h, l)'
    BY <1>2, <1>4, <1>5 DEF Leased
<1>8. QED
    BY <1>6, <1>7

\* A claim leaves the lock files well typed, and so does what it returns.
LEMMA PublishTyped ==
  ASSUME SessTypeOK, NEW h \in Hosts, NEW S \in SUBSET Scopes, Publish(h, S)
  PROVE  /\ name' \in [Scopes -> Nat] /\ made' \in [Scopes -> Nat]
         /\ owned' \in [Hosts -> [Scopes -> Nat]] /\ recovered' \subseteq Scopes \X Nat
         /\ Returned(h, S) \in SUBSET (Scopes \X Nat)
<1> USE DEF SessTypeOK
<1>1. \A s \in Scopes : Opened(s) \in Nat
    BY DEF Opened
<1>2. QED
    BY <1>1 DEF Publish, Returned

\* Every step keeps the types.
LEMMA SessTypeStep ==
  ASSUME SessTypeOK, Shape, [SessNext]_sessVars
  PROVE  SessTypeOK'
<1> USE SessAssumption DEF SessAssumption
<1>0. /\ op \in [Jobs -> Ops] /\ NoOp \in Ops
      /\ \A j \in Jobs : HostOf[j] \in Hosts /\ op[j] \in Ops /\ op[j].on \in Scopes
    BY NoOpTyped DEF SessTypeOK, Ops
<1> DEFINE T == op' \in [Jobs -> Ops]
<1>1. ASSUME NEW j \in Jobs, NEW k, NEW s \in Scopes, NEW a, Begin(j, k, s, a),
             [NoOp EXCEPT !.kind = k, !.on = s, !.at = a] \in Ops
      PROVE  SessTypeOK'
  <2>1. T
      BY <1>0, <1>1 DEF Begin
  <2>2. begun' \in 0..MaxJobs
      BY <1>1 DEF Begin, SessTypeOK
  <2>3. QED
      BY <1>1, <2>1, <2>2 DEF Begin, SessTypeOK, Ops, locks, shutdown
<1>2. ASSUME NEW j \in Jobs, Requests(j) PROVE SessTypeOK'
  <2>1. Agent \in Scopes /\ Threads \subseteq Scopes
      BY DEF Scopes
  <2>2. \A k \in Deletions \cup {"use", "newThread", "fork"} : \A s \in Scopes :
          \A a \in {"owns", "agentLock", "lifecycle"} :
            [NoOp EXCEPT !.kind = k, !.on = s, !.at = a] \in Ops
      BY <1>0, ZenonT(30) DEF Ops, NoOp
  <2>3. QED
      BY <1>1, <1>2, <2>1, <2>2 DEF Requests, BeginUse, BeginDeleteThread, BeginFork,
         BeginDeleteAgent, BeginNewThread, Deletions
<1>3. ASSUME NEW j \in Jobs, TakeLifecycle(j) PROVE SessTypeOK'
  <2>1. T
      BY <1>0, <1>3 DEF TakeLifecycle, Goto, Ops
  <2>2. QED
      BY <1>3, <2>1 DEF TakeLifecycle, SessTypeOK, Ops, locks, shutdown
<1>4. ASSUME NEW j \in Jobs, TakeAgentLock(j) \/ TakeThreadLock(j) PROVE SessTypeOK'
  <2>1. op[j].at = "threadLock" => op[j].on \in Threads
      BY <1>0 DEF Shape, ShapeOf, Ops, Deletions
  <2>2. T
      BY <1>0, <1>4, <2>1 DEF TakeAgentLock, TakeThreadLock, Ops
  <2>3. QED
      BY <1>4, <2>2 DEF TakeAgentLock, TakeThreadLock, SessTypeOK, Ops, locks, shutdown
<1>5. ASSUME NEW j \in Jobs, UseOwns(j) \/ DeleteKeys(j) PROVE SessTypeOK'
  <2>1. T
      BY <1>0, <1>5 DEF UseOwns, DeleteKeys, Goto, Finished, Ops
  <2>2. QED
      BY <1>5, <2>1 DEF UseOwns, DeleteKeys, SessTypeOK, Ops, locks, shutdown
<1>6. ASSUME NEW j \in Jobs, UseClaim(j) PROVE SessTypeOK'
  <2>1. CASE Finished(j) /\ UNCHANGED locks
    <3>1. T
        BY <1>0, <2>1 DEF Finished
    <3>2. QED
        BY <1>6, <2>1, <3>1 DEF UseClaim, SessTypeOK, Ops, locks, shutdown
  <2>2. CASE /\ Publish(HostOf[j], {op[j].on})
             /\ op' = [op EXCEPT ![j].has = Returned(HostOf[j], {op[j].on}),
                                 ![j].at = "recover"]
    <3>1. Returned(HostOf[j], {op[j].on}) \in SUBSET (Scopes \X Nat)
        BY <1>0, <2>2, PublishTyped
    <3>2. T
        BY <1>0, <2>2, <3>1, OpClaims
    <3>3. /\ name' \in [Scopes -> Nat] /\ made' \in [Scopes -> Nat]
          /\ owned' \in [Hosts -> [Scopes -> Nat]] /\ recovered' \subseteq Scopes \X Nat
        BY <1>0, <2>2, PublishTyped
    <3>4. QED
        BY <1>6, <3>2, <3>3 DEF UseClaim, SessTypeOK, Ops, shutdown
  <2>3. QED
      BY <1>6, <2>1, <2>2 DEF UseClaim
<1>7. ASSUME NEW j \in Jobs, UseRecover(j) \/ UseWork(j) PROVE SessTypeOK'
  <2>1. T
      BY <1>0, <1>7 DEF UseRecover, UseWork, Goto, Finished, Ops
  <2>2. op[j].has \subseteq Scopes \X Nat
      BY <1>0 DEF Ops
  <2>3. QED
      BY <1>0, <1>7, <2>1, <2>2, ZenonT(30) DEF UseRecover, UseWork, SessTypeOK, Ops, locks, shutdown
<1>8. ASSUME NEW j \in Jobs, CreateThread(j) PROVE SessTypeOK'
  <2>1. T /\ lifecycle' \in Jobs \cup {NoOne}
      BY <1>0, <1>8 DEF CreateThread, GiveUp, Finished, Unlock, SessTypeOK
  <2>2. CASE UNCHANGED <<live, locks>>
      BY <1>8, <2>1, <2>2 DEF CreateThread, SessTypeOK, Ops, locks, shutdown
  <2>3. CASE \E s \in Threads : live' = live \cup {s} /\ Publish(HostOf[j], {s})
    <3>1. PICK s \in Threads : live' = live \cup {s} /\ Publish(HostOf[j], {s})
        BY <2>3
    <3>2. {s} \in SUBSET Scopes
        BY DEF Scopes
    <3>3. /\ name' \in [Scopes -> Nat] /\ made' \in [Scopes -> Nat]
          /\ owned' \in [Hosts -> [Scopes -> Nat]] /\ recovered' \subseteq Scopes \X Nat
        BY <1>0, <3>1, <3>2, PublishTyped
    <3>4. QED
        BY <1>8, <2>1, <3>1, <3>2, <3>3 DEF CreateThread, SessTypeOK, Ops, shutdown
  <2>4. QED
      BY <1>8, <2>2, <2>3 DEF CreateThread
<1>9. ASSUME NEW j \in Jobs, DeleteClaim(j) PROVE SessTypeOK'
  <2>1. CASE GiveUp(j) /\ UNCHANGED locks
    <3>1. T /\ lifecycle' \in Jobs \cup {NoOne}
        BY <1>0, <2>1 DEF GiveUp, Finished, Unlock, SessTypeOK
    <3>2. QED
        BY <1>9, <2>1, <3>1 DEF DeleteClaim, SessTypeOK, Ops, locks, shutdown
  <2>2. CASE /\ Publish(HostOf[j], Doomed(j)) /\ UNCHANGED lifecycle
             /\ op' = [op EXCEPT ![j].has = Returned(HostOf[j], Doomed(j)),
                                 ![j].at = "terminate"]
    <3>0. Doomed(j) \in SUBSET Scopes
        BY <1>0 DEF Doomed, SessTypeOK, Scopes
    <3>1. Returned(HostOf[j], Doomed(j)) \in SUBSET (Scopes \X Nat)
        BY <1>0, <2>2, <3>0, PublishTyped
    <3>2. T
        BY <1>0, <2>2, <3>1, OpClaims
    <3>3. /\ name' \in [Scopes -> Nat] /\ made' \in [Scopes -> Nat]
          /\ owned' \in [Hosts -> [Scopes -> Nat]] /\ recovered' \subseteq Scopes \X Nat
        BY <1>0, <2>2, <3>0, PublishTyped
    <3>4. QED
        BY <1>9, <2>2, <3>2, <3>3 DEF DeleteClaim, SessTypeOK, Ops, shutdown
  <2>3. QED
      BY <1>9, <2>1, <2>2 DEF DeleteClaim
<1>10. ASSUME NEW j \in Jobs, DeleteTerminate(j) PROVE SessTypeOK'
  <2>1. T /\ lifecycle' \in Jobs \cup {NoOne}
    <3>1. \/ Goto(j, "recheck") /\ UNCHANGED lifecycle
          \/ Finished(j) /\ Unlock(j)
        BY <1>10 DEF DeleteTerminate, GiveUp
    <3>2. Goto(j, "recheck") => T
        BY <1>0 DEF Goto, Ops
    <3>3. Finished(j) => T
        BY <1>0 DEF Finished
    <3>4. QED
        BY <3>1, <3>2, <3>3 DEF Unlock, SessTypeOK
  <2>2. vm' \in [Scopes -> Hosts \cup {NoOne}]
      BY <1>10 DEF DeleteTerminate, SessTypeOK
  <2>3. QED
      BY <1>10, <2>1, <2>2 DEF DeleteTerminate, SessTypeOK, Ops, locks, shutdown
<1>11. ASSUME NEW j \in Jobs, DeleteRecheck(j) PROVE SessTypeOK'
  <2>1. T
    <3>1. op[j].round + 1 < Rounds => op[j].round + 1 \in 0..Rounds - 1
        BY <1>0 DEF Ops
    <3>2. QED
        BY <1>0, <1>11, <3>1 DEF DeleteRecheck, MayRetry, Goto, GiveUp, Finished, Ops
  <2>2. lifecycle' \in Jobs \cup {NoOne} /\ live' \subseteq Scopes
      BY <1>11 DEF DeleteRecheck, GiveUp, Unlock, SessTypeOK
  <2>3. QED
      BY <1>11, <2>1, <2>2 DEF DeleteRecheck, SessTypeOK, Ops, locks, shutdown
<1>12. ASSUME NEW j \in Jobs, DeleteRelease(j) PROVE SessTypeOK'
  <2>1. T /\ lifecycle' \in Jobs \cup {NoOne}
      BY <1>0, <1>12 DEF DeleteRelease, GiveUp, Finished, Unlock, SessTypeOK
  <2>2. name' \in [Scopes -> Nat] /\ owned' \in [Hosts -> [Scopes -> Nat]]
      BY <1>0, <1>12 DEF DeleteRelease, ReleaseAll, SessTypeOK
  <2>3. QED
      BY <1>12, <2>1, <2>2 DEF DeleteRelease, ReleaseAll, SessTypeOK, Ops, shutdown
<1>13. ASSUME NEW h \in Hosts, ShutDown(h) PROVE SessTypeOK'
  <2>1. LeasesOf(h) \subseteq Scopes \X Nat
    <3>1. \A s \in Scopes : owned[h][s] \in Nat
        BY DEF SessTypeOK
    <3>2. \A j \in Jobs : op[j].has \subseteq Scopes \X Nat
        BY <1>0 DEF Ops
    <3>3. closing[h] \subseteq Scopes \X Nat
        BY DEF SessTypeOK
    <3>4. QED
        BY <3>1, <3>2, <3>3, LeaseMembers DEF Leased
  <2>2. {l[1] : l \in LeasesOf(h)} \subseteq Scopes
      BY <2>1
  <2>3. QED
      BY <1>13, <2>1, <2>2 DEF ShutDown, SessTypeOK
<1>14. ASSUME NEW h \in Hosts, NEW s \in Scopes, ShutDownScope(h, s) PROVE SessTypeOK'
    BY <1>14 DEF ShutDownScope, SessTypeOK, locks
<1>15. ASSUME NEW h \in Hosts, ShutDownDrop(h) PROVE SessTypeOK'
    BY <1>15 DEF ShutDownDrop, SessTypeOK, locks
<1>16. ASSUME NEW h \in Hosts, Die(h) PROVE SessTypeOK'
  <2>1. T /\ lifecycle' \in Jobs \cup {NoOne}
      BY <1>0, <1>16 DEF Die, SessTypeOK
  <2>2. QED
      BY <1>16, <2>1 DEF Die, SessTypeOK, Ops
<1>17. CASE UNCHANGED sessVars
    BY <1>17 DEF sessVars, SessTypeOK
<1>18. QED
    BY <1>2, <1>3, <1>4, <1>5, <1>6, <1>7, <1>8, <1>9, <1>10, <1>11, <1>12, <1>13, <1>14,
       <1>15, <1>16, <1>17
    DEF SessNext, JobAdvances, UseStep, DeleteStep, Closes

--------------------------------------------------------------------------------

\* Leases are pairs of a scope and a file.
LEMMA LeasesTyped ==
  ASSUME SessTypeOK, NEW h \in Hosts, NEW l \in LeasesOf(h)
  PROVE  l \in Scopes \X Nat /\ l = <<l[1], l[2]>> /\ l[1] \in Scopes /\ l[2] \in Nat
<1>1. l \in Scopes \X Nat
    BY LeaseMembers DEF Leased, SessTypeOK
<1>2. QED
    BY <1>1

\* A step of one task that takes no new lease, in a process that publishes none.
LEMMA NoNewLease ==
  ASSUME NEW j \in Jobs, \A k \in Jobs \ {j} : op'[k] = op[k],
         op'[j].has \subseteq op[j].has, UNCHANGED <<owned, closing>>
  PROVE  \A h \in Hosts : LeasesOf(h)' \subseteq LeasesOf(h)
<1> SUFFICES ASSUME NEW h \in Hosts, NEW l \in LeasesOf(h)' PROVE l \in LeasesOf(h)
    OBVIOUS
<1>1. Leased(h, l)'
    BY LeaseMembers
<1>2. CASE \E k \in Jobs : HostOf[k] = h /\ l \in op'[k].has
    BY <1>2, LeaseMembers DEF Leased
<1>3. CASE (\E s \in Scopes : owned'[h][s] # 0 /\ l = <<s, owned'[h][s]>>) \/ l \in closing'[h]
    BY <1>3, LeaseMembers DEF Leased
<1>4. QED
    BY <1>1, <1>2, <1>3 DEF Leased

\* Where no lease is new and no file changes its name, ownership stays single.
LEMMA OwnershipKept ==
  ASSUME LeaseFiles, OneOwner, UNCHANGED <<name, made>>, live' \subseteq live,
         \A h \in Hosts : LeasesOf(h)' \subseteq LeasesOf(h)
  PROVE  LeaseFiles' /\ OneOwner'
    BY DEF LeaseFiles, OneOwner

\* What is new after a claim is what the claim opened, in its own process, and
\* nobody had it locked.
LEMMA ClaimOpens ==
  ASSUME SessTypeOK, NEW h \in Hosts, NEW S \in SUBSET Scopes, Publish(h, S), MayClaim(h, S),
         NEW j \in Jobs, HostOf[j] = h, \A k \in Jobs \ {j} : op'[k] = op[k],
         op'[j].has \subseteq Returned(h, S), closing' = closing
  PROVE  /\ \A g \in Hosts : \A l \in LeasesOf(g)' :
              \/ l \in LeasesOf(g)
              \/ g = h /\ \E s \in New(h, S) : l = <<s, Opened(s)>>
         /\ \A s \in New(h, S) : \A g \in Hosts : <<s, Opened(s)>> \notin LeasesOf(g)
<1>1. ASSUME NEW s \in New(h, S), NEW g \in Hosts PROVE <<s, Opened(s)>> \notin LeasesOf(g)
    BY <1>1 DEF MayClaim, Flocked
<1>2. ASSUME NEW g \in Hosts, NEW l \in LeasesOf(g)'
      PROVE  l \in LeasesOf(g) \/ (g = h /\ \E s \in New(h, S) : l = <<s, Opened(s)>>)
  <2>1. Leased(g, l)'
      BY <1>2, LeaseMembers
  <2>2. CASE \E s \in Scopes : owned'[g][s] # 0 /\ l = <<s, owned'[g][s]>>
    <3>1. PICK s \in Scopes : owned'[g][s] # 0 /\ l = <<s, owned'[g][s]>>
        BY <2>2
    <3>2. owned'[g][s] = IF g = h /\ s \in New(h, S) THEN Opened(s) ELSE owned[g][s]
        BY DEF Publish, SessTypeOK
    <3>3. QED
        BY <3>1, <3>2, LeaseMembers DEF Leased
  <2>3. CASE \E k \in Jobs : HostOf[k] = g /\ l \in op'[k].has
    <3>1. PICK k \in Jobs : HostOf[k] = g /\ l \in op'[k].has
        BY <2>3
    <3>2. CASE k # j
        BY <3>1, <3>2, LeaseMembers DEF Leased
    <3>3. CASE k = j
      <4>1. g = h /\ l \in Returned(h, S)
          BY <3>1, <3>3
      <4>2. PICK s \in S : l = <<s, IF owned[h][s] = 0 THEN Opened(s) ELSE owned[h][s]>>
          BY <4>1 DEF Returned
      <4>3. QED
          BY <4>1, <4>2, LeaseMembers DEF Leased, New
    <3>4. QED
        BY <3>2, <3>3
  <2>4. CASE l \in closing'[g]
      BY <2>4, LeaseMembers DEF Leased
  <2>5. QED
      BY <2>1, <2>2, <2>3, <2>4 DEF Leased
<1>3. QED
    BY <1>1, <1>2

\* A claim of scopes that exist, or of a thread that is created with it, leaves
\* every scope with one owner, whose file has the name.
LEMMA OwnershipClaimed ==
  ASSUME SessTypeOK, LeaseFiles, OneOwner, live' \subseteq Scopes,
         NEW h \in Hosts, NEW S \in SUBSET Scopes, Publish(h, S), MayClaim(h, S),
         \A g \in Hosts : \A l \in LeasesOf(g)' :
              \/ l \in LeasesOf(g)
              \/ g = h /\ \E s \in New(h, S) : l = <<s, Opened(s)>>,
         \A s \in New(h, S) : \A g \in Hosts : <<s, Opened(s)>> \notin LeasesOf(g),
         \A s \in live' \ live : made[s] = 0
  PROVE  LeaseFiles' /\ OneOwner'
<1> USE DEF SessTypeOK
<1>1. /\ \A s \in New(h, S) : s \in Scopes /\ Opened(s) \in Nat \ {0} /\ name'[s] = Opened(s)
      /\ \A s \in Scopes \ New(h, S) : name'[s] = name[s]
      /\ \A s \in Scopes : made[s] <= made'[s] /\ made[s] \in Nat /\ made'[s] \in Nat
      /\ \A s \in New(h, S) : Opened(s) <= made'[s]
    BY DEF Publish, Opened, New, LeaseFiles
<1>2. LeaseFiles'
  <2>1. \A s \in Scopes : name'[s] <= made'[s]
    <3>1. \A s \in Scopes \ New(h, S) : name[s] <= made[s] /\ name[s] \in Nat
        BY DEF LeaseFiles
    <3>2. QED
        BY <1>1, <3>1
  <2>2. ASSUME NEW g \in Hosts, NEW l \in LeasesOf(g)' PROVE l[2] \in 1..made'[l[1]]
    <3>1. CASE l \in LeasesOf(g)
      <4>1. l[1] \in Scopes /\ l[2] \in 1..made[l[1]]
          BY <3>1, LeasesTyped DEF LeaseFiles
      <4>2. QED
          BY <1>1, <4>1
    <3>2. CASE \E s \in New(h, S) : l = <<s, Opened(s)>>
        BY <1>1, <3>2
    <3>3. QED
        BY <2>2, <3>1, <3>2
  <2>3. QED
      BY <2>1, <2>2 DEF LeaseFiles
<1>3. ASSUME NEW s \in live', NEW g \in Hosts, NEW l \in LeasesOf(g), l[1] = s
      PROVE  s \in live /\ l[2] = name[s] /\ s \notin New(h, S)
  <2>1. l[2] \in 1..made[s] /\ made[s] \in Nat
      BY <1>3, <1>1, LeasesTyped DEF LeaseFiles
  <2>2. s \in live
      BY <2>1
  <2>3. l[2] = name[s]
      BY <1>3, <2>2 DEF OneOwner
  <2>4. ASSUME s \in New(h, S) PROVE FALSE
    <3>1. name[s] # 0
        BY <2>1, <2>3
    <3>2. l = <<s, Opened(s)>>
        BY <1>3, <2>3, <3>1, LeasesTyped DEF Opened
    <3>3. QED
        BY <2>4, <3>2
  <2>5. QED
      BY <2>2, <2>3, <2>4
<1>4. OneOwner'
  <2> SUFFICES ASSUME NEW s \in live', NEW f \in Hosts, NEW g \in Hosts,
                      NEW l \in LeasesOf(f)', NEW m \in LeasesOf(g)', l[1] = s, m[1] = s
               PROVE  f = g /\ l = m /\ l[2] = name'[s]
      BY DEF OneOwner
  <2>1. CASE s \in New(h, S)
    <3>1. l \notin LeasesOf(f) /\ m \notin LeasesOf(g)
        BY <1>3, <2>1
    <3>2. l = <<s, Opened(s)>> /\ m = <<s, Opened(s)>> /\ f = h /\ g = h
        BY <3>1
    <3>3. QED
        BY <1>1, <2>1, <3>2
  <2>2. CASE s \notin New(h, S)
    <3>1. l \in LeasesOf(f) /\ m \in LeasesOf(g)
        BY <2>2
    <3>2. s \in live
        BY <1>3, <3>1
    <3>3. name'[s] = name[s]
        BY <1>1, <2>2
    <3>4. QED
        BY <3>1, <3>2, <3>3 DEF OneOwner
  <2>3. QED
      BY <2>1, <2>2
<1>5. QED
    BY <1>2, <1>4

--------------------------------------------------------------------------------

\* The invariant holds at the start.
LEMMA SessInvInit == SessInit => SessInv
<1> SUFFICES ASSUME SessInit PROVE SessInv
    OBVIOUS
<1>1. SessTypeOK
    BY SessTypeInit
<1>2. \A h \in Hosts : LeasesOf(h) = {}
    BY LeaseMembers DEF SessInit, Leased, NoOp
<1>3. Shape /\ HostsUp /\ LifecycleHeld /\ TaskLeases
    BY DEF SessInit, Shape, ShapeOf, HostsUp, LifecycleHeld, Guards, TaskLeases, Relies,
       NoOp, Deletions
<1>4. LeaseFiles /\ Recovered /\ OneOwner
    BY <1>2 DEF SessInit, LeaseFiles, Recovered, OneOwner
<1>5. Deleted /\ ClosingLeases /\ VmLeased /\ DeletedIsIdle
    BY DEF SessInit, Deleted, ClosingLeases, VmLeased, DeletedIsIdle, NoOp
<1>6. QED
    BY <1>1, <1>3, <1>4, <1>5 DEF SessInv

\* Operations keep to their stages, run in processes that are up and have
\* lifecycle.lock where they need it.
LEMMA ControlStep ==
  ASSUME SessTypeOK, Shape, HostsUp, LifecycleHeld, [SessNext]_sessVars
  PROVE  Shape' /\ HostsUp' /\ LifecycleHeld'
<1> USE SessAssumption DEF SessAssumption, Shape, HostsUp, LifecycleHeld
<1>0. /\ op \in [Jobs -> Ops] /\ \A j \in Jobs : HostOf[j] \in Hosts /\ op[j] \in Ops
      /\ host \in [Hosts -> {"up", "closing", "closed", "dead"}]
    BY DEF SessTypeOK, Ops
<1> DEFINE Kept == Shape' /\ HostsUp' /\ LifecycleHeld'
<1>1. ASSUME NEW j \in Jobs, Finished(j), host' = host,
             lifecycle' = lifecycle \/ Unlock(j)
      PROVE  Kept
  <2>1. op'[j] = NoOp /\ \A k \in Jobs \ {j} : op'[k] = op[k]
      BY <1>0, <1>1, Moves
  <2>2. ShapeOf(NoOp) /\ ~Guards(NoOp) /\ NoOp.kind = "none"
      BY DEF ShapeOf, Guards, NoOp, Deletions
  <2>3. \A k \in Jobs \ {j} : lifecycle = k => lifecycle' = k
      BY <1>1 DEF Unlock
  <2>4. QED
      BY <1>1, <2>1, <2>2, <2>3
<1>22. ASSUME NEW j \in Jobs, NEW a, NEW R, Moved(j, a, R), host' = host,
              op[j].kind # "none", ShapeOf(op'[j]), Guards(op'[j]) => lifecycle' = j,
              lifecycle' = lifecycle \/ lifecycle = NoOne
       PROVE  Kept
    BY <1>0, <1>22 DEF Moved
<1>2. ASSUME NEW j \in Jobs, Requests(j) PROVE Kept
  <2>1. PICK k, s, a : Begin(j, k, s, a) /\ <<k, s, a>> \in
                         ({"use"} \X Scopes \X {"owns"})
                           \cup ({"deleteThread"} \X Threads \X {"agentLock"})
                           \cup ({"fork"} \X Threads \X {"lifecycle"})
                           \cup {<<"deleteAgent", Agent, "agentLock">>,
                                 <<"newThread", Agent, "lifecycle">>}
      BY <1>2 DEF Requests, BeginUse, BeginDeleteThread, BeginFork, BeginDeleteAgent,
         BeginNewThread
  <2>2. op' = [op EXCEPT ![j] = [NoOp EXCEPT !.kind = k, !.on = s, !.at = a]]
      BY <2>1 DEF Begin
  <2>3. /\ op'[j].kind = k /\ op'[j].on = s /\ op'[j].at = a
        /\ \A i \in Jobs \ {j} : op'[i] = op[i]
      BY <1>0, <2>2 DEF NoOp
  <2>4. host[HostOf[j]] = "up" /\ UNCHANGED <<host, lifecycle>> /\ op[j].kind = "none"
      BY <2>1 DEF Begin, shutdown
  <2>5. ShapeOf(op'[j]) /\ ~Guards(op'[j])
      BY <2>1, <2>3 DEF ShapeOf, Guards, Deletions
  <2>6. QED
      BY <1>0, <2>3, <2>4, <2>5
<1>3. ASSUME NEW j \in Jobs, TakeLifecycle(j) PROVE Kept
  <2>1. Moved(j, IF op[j].kind = "fork" THEN "agentLock" ELSE "claim", op[j].has)
      BY <1>0, <1>3, Moves DEF TakeLifecycle
  <2>2. QED
    <3>1. op[j].kind # "none" /\ ShapeOf(op'[j])
        BY <1>3, <2>1 DEF Moved, TakeLifecycle, Stage, ShapeOf, Deletions
    <3>2. (Guards(op'[j]) => lifecycle' = j) /\ (lifecycle' = lifecycle \/ lifecycle = NoOne)
        BY <1>3, <2>1 DEF Moved, TakeLifecycle, Stage, ShapeOf, Guards, Deletions
    <3>3. QED
        BY <1>22, <1>3, <2>1, <3>1, <3>2 DEF TakeLifecycle, shutdown
<1>4. ASSUME NEW j \in Jobs, TakeAgentLock(j) PROVE Kept
  <2>1. Moved(j, IF op[j].kind = "deleteAgent" THEN "keys" ELSE "threadLock", op[j].has)
      BY <1>0, <1>4, Moves DEF TakeAgentLock
  <2>2. QED
    <3>1. op[j].kind # "none" /\ ShapeOf(op'[j])
      <4>1. op[j].kind \in Deletions \cup {"none", "use", "newThread", "fork"}
          BY <1>0 DEF Ops
      <4>2. ShapeOf(op[j]) /\ op[j].at = "agentLock"
          BY <1>4 DEF TakeAgentLock
      <4>3. op[j].kind \in Deletions \cup {"fork"}
          BY <4>1, <4>2 DEF ShapeOf
      <4>4. QED
          BY <2>1, <4>2, <4>3 DEF Moved, ShapeOf, Deletions
    <3>2. (Guards(op'[j]) => lifecycle' = j) /\ (lifecycle' = lifecycle \/ lifecycle = NoOne)
        BY <1>4, <2>1 DEF Moved, TakeAgentLock, Stage, ShapeOf, Guards, Deletions
    <3>3. QED
        BY <1>22, <1>4, <2>1, <3>1, <3>2 DEF TakeAgentLock, shutdown
<1>5. ASSUME NEW j \in Jobs, TakeThreadLock(j) PROVE Kept
  <2>1. Moved(j, IF op[j].kind = "fork" THEN "write" ELSE "keys", op[j].has)
      BY <1>0, <1>5, Moves DEF TakeThreadLock
  <2>2. QED
    <3>1. op[j].kind # "none" /\ ShapeOf(op'[j])
        BY <1>5, <2>1 DEF Moved, TakeThreadLock, Stage, ShapeOf, Deletions
    <3>2. (Guards(op'[j]) => lifecycle' = j) /\ (lifecycle' = lifecycle \/ lifecycle = NoOne)
        BY <1>5, <2>1 DEF Moved, TakeThreadLock, Stage, ShapeOf, Guards, Deletions
    <3>3. QED
        BY <1>22, <1>5, <2>1, <3>1, <3>2 DEF TakeThreadLock, shutdown
<1>6. ASSUME NEW j \in Jobs, UseOwns(j) PROVE Kept
  <2>1. PICK a \in {"claim", "lifecycle"} : Moved(j, a, op[j].has)
      BY <1>0, <1>6, Moves DEF UseOwns
  <2>2. QED
    <3>1. op[j].kind # "none" /\ ShapeOf(op'[j])
        BY <1>6, <2>1 DEF Moved, UseOwns, Stage, ShapeOf, Deletions
    <3>2. (Guards(op'[j]) => lifecycle' = j) /\ (lifecycle' = lifecycle \/ lifecycle = NoOne)
        BY <1>6, <2>1 DEF Moved, UseOwns, Stage, ShapeOf, Guards, Deletions
    <3>3. QED
        BY <1>22, <1>6, <2>1, <3>1, <3>2 DEF UseOwns, shutdown
<1>7. ASSUME NEW j \in Jobs, UseClaim(j) PROVE Kept
  <2>1. CASE Finished(j)
      BY <1>0, <1>1, <1>7, <2>1 DEF UseClaim, shutdown
  <2>2. CASE Moved(j, "recover", Returned(HostOf[j], {op[j].on}))
    <3>1. op[j].kind # "none" /\ ShapeOf(op'[j])
        BY <1>7, <2>2 DEF Moved, UseClaim, Stage, ShapeOf, Deletions
    <3>2. (Guards(op'[j]) => lifecycle' = j) /\ (lifecycle' = lifecycle \/ lifecycle = NoOne)
        BY <1>7, <2>2 DEF Moved, UseClaim, Stage, ShapeOf, Guards, Deletions
    <3>3. QED
        BY <1>22, <1>7, <2>2, <3>1, <3>2 DEF UseClaim, shutdown
  <2>3. QED
      BY <1>0, <1>7, <2>1, <2>2, Moves DEF UseClaim
<1>8. ASSUME NEW j \in Jobs, UseRecover(j) PROVE Kept
  <2>1. CASE Finished(j)
      BY <1>0, <1>1, <1>8, <2>1 DEF UseRecover, Stage, shutdown
  <2>2. CASE Moved(j, "work", op[j].has)
    <3>1. op[j].kind # "none" /\ ShapeOf(op'[j])
        BY <1>8, <2>2 DEF Moved, UseRecover, Stage, ShapeOf, Deletions
    <3>2. (Guards(op'[j]) => lifecycle' = j) /\ (lifecycle' = lifecycle \/ lifecycle = NoOne)
        BY <1>8, <2>2 DEF Moved, UseRecover, Stage, ShapeOf, Guards, Deletions
    <3>3. QED
        BY <1>22, <1>8, <2>2, <3>1, <3>2 DEF UseRecover, shutdown
  <2>3. QED
      BY <1>0, <1>8, <2>1, <2>2, Moves DEF UseRecover
<1>9. ASSUME NEW j \in Jobs, UseWork(j) PROVE Kept
    BY <1>0, <1>1, <1>9 DEF UseWork, Stage, shutdown
<1>10. ASSUME NEW j \in Jobs, CreateThread(j) PROVE Kept
    BY <1>1, <1>10 DEF CreateThread, GiveUp, shutdown
<1>11. ASSUME NEW j \in Jobs, DeleteKeys(j) PROVE Kept
  <2>1. CASE Finished(j)
      BY <1>0, <1>1, <1>11, <2>1 DEF DeleteKeys, shutdown
  <2>2. CASE Moved(j, "lifecycle", op[j].has)
    <3>1. op[j].kind # "none" /\ ShapeOf(op'[j])
        BY <1>11, <2>2 DEF Moved, DeleteKeys, Stage, ShapeOf, Deletions
    <3>2. (Guards(op'[j]) => lifecycle' = j) /\ (lifecycle' = lifecycle \/ lifecycle = NoOne)
        BY <1>11, <2>2 DEF Moved, DeleteKeys, Stage, ShapeOf, Guards, Deletions
    <3>3. QED
        BY <1>22, <1>11, <2>2, <3>1, <3>2 DEF DeleteKeys, shutdown
  <2>3. QED
      BY <1>0, <1>11, <2>1, <2>2, Moves DEF DeleteKeys
<1>12. ASSUME NEW j \in Jobs, DeleteClaim(j) PROVE Kept
  <2>1. CASE GiveUp(j)
      BY <1>1, <1>12, <2>1 DEF DeleteClaim, GiveUp, shutdown
  <2>2. CASE Moved(j, "terminate", Returned(HostOf[j], Doomed(j))) /\ UNCHANGED lifecycle
    <3>1. op[j].kind # "none" /\ ShapeOf(op'[j])
        BY <1>12, <2>2 DEF Moved, DeleteClaim, Stage, ShapeOf, Deletions
    <3>2. (Guards(op'[j]) => lifecycle' = j) /\ (lifecycle' = lifecycle \/ lifecycle = NoOne)
        BY <1>12, <2>2 DEF Moved, DeleteClaim, Stage, ShapeOf, Guards, Deletions
    <3>3. QED
        BY <1>22, <1>12, <2>2, <3>1, <3>2 DEF DeleteClaim, shutdown
  <2>3. QED
      BY <1>0, <1>12, <2>1, <2>2, Moves DEF DeleteClaim
<1>13. ASSUME NEW j \in Jobs, DeleteTerminate(j) PROVE Kept
  <2>1. CASE GiveUp(j)
      BY <1>1, <1>13, <2>1 DEF DeleteTerminate, GiveUp, shutdown
  <2>2. CASE Moved(j, "recheck", op[j].has) /\ UNCHANGED lifecycle
    <3>1. op[j].kind # "none" /\ ShapeOf(op'[j])
        BY <1>13, <2>2 DEF Moved, DeleteTerminate, Stage, ShapeOf, Deletions
    <3>2. (Guards(op'[j]) => lifecycle' = j) /\ (lifecycle' = lifecycle \/ lifecycle = NoOne)
        BY <1>13, <2>2 DEF Moved, DeleteTerminate, Stage, ShapeOf, Guards, Deletions
    <3>3. QED
        BY <1>22, <1>13, <2>2, <3>1, <3>2 DEF DeleteTerminate, shutdown
  <2>3. QED
      BY <1>0, <1>13, <2>1, <2>2, Moves DEF DeleteTerminate
<1>14. ASSUME NEW j \in Jobs, DeleteRecheck(j) PROVE Kept
  <2>1. CASE GiveUp(j)
      BY <1>1, <1>14, <2>1 DEF DeleteRecheck, GiveUp, shutdown
  <2>2. CASE \E a \in {"terminate", "release"} : Moved(j, a, op[j].has) /\ UNCHANGED lifecycle
    <3>1. op[j].kind # "none" /\ ShapeOf(op'[j])
        BY <1>14, <2>2 DEF Moved, DeleteRecheck, Stage, ShapeOf, Deletions
    <3>2. (Guards(op'[j]) => lifecycle' = j) /\ (lifecycle' = lifecycle \/ lifecycle = NoOne)
        BY <1>14, <2>2 DEF Moved, DeleteRecheck, Stage, ShapeOf, Guards, Deletions
    <3>3. QED
        BY <1>22, <1>14, <2>2, <3>1, <3>2 DEF DeleteRecheck, shutdown
  <2>3. \/ GiveUp(j)
        \/ op' = [op EXCEPT ![j].round = op[j].round + 1, ![j].at = "terminate"]
             /\ UNCHANGED lifecycle
        \/ Goto(j, "release") /\ UNCHANGED lifecycle
      BY <1>0, <1>14 DEF DeleteRecheck
  <2>4. /\ Goto(j, "release") => Moved(j, "release", op[j].has)
        /\ op' = [op EXCEPT ![j].round = op[j].round + 1, ![j].at = "terminate"]
             => Moved(j, "terminate", op[j].has)
      BY <1>0, Moves
  <2>5. QED
      BY <2>1, <2>2, <2>3, <2>4
<1>15. ASSUME NEW j \in Jobs, DeleteRelease(j) PROVE Kept
    BY <1>1, <1>15 DEF DeleteRelease, GiveUp, shutdown
<1>16. ASSUME NEW h \in Hosts, ShutDown(h) PROVE Kept
    BY <1>0, <1>16 DEF ShutDown
<1>17. ASSUME NEW h \in Hosts, NEW s \in Scopes, ShutDownScope(h, s) PROVE Kept
    BY <1>17 DEF ShutDownScope
<1>18. ASSUME NEW h \in Hosts, ShutDownDrop(h) PROVE Kept
    BY <1>0, <1>18 DEF ShutDownDrop
<1>19. ASSUME NEW h \in Hosts, Die(h) PROVE Kept
    BY <1>0, <1>19 DEF Die, NoOp, ShapeOf, Guards, Deletions
<1>20. CASE UNCHANGED sessVars
    BY <1>20 DEF sessVars
<1>21. QED
    BY <1>2, <1>3, <1>4, <1>5, <1>6, <1>7, <1>8, <1>9, <1>10, <1>11, <1>12, <1>13, <1>14,
       <1>15, <1>16, <1>17, <1>18, <1>19, <1>20
    DEF SessNext, JobAdvances, UseStep, DeleteStep, Closes

--------------------------------------------------------------------------------

\* A step of task j that takes no lease and gives none back.
Quiet(j) ==
  /\ UNCHANGED <<name, made, owned, shutdown>>
  /\ \A k \in Jobs \ {j} : op'[k] = op[k]
  /\ op'[j].has \subseteq op[j].has
  /\ live' \subseteq live /\ recovered \subseteq recovered'

\* A step of task j that claims the scopes S, or creates the one thread in S.
Claims(j, S) ==
  /\ MayClaim(HostOf[j], S) /\ Publish(HostOf[j], S)
  /\ \A k \in Jobs \ {j} : op'[k] = op[k]
  /\ op'[j].has \subseteq Returned(HostOf[j], S)
  /\ UNCHANGED <<vm, shutdown>>
  /\ \/ live' = live
     \/ Guards(op[j]) /\ \E s \in Threads : Fresh(s) /\ live' = live \cup {s} /\ Agent \in live

\* Every step of a task is quiet, claims, or releases what it has deleted.
LEMMA TaskSteps ==
  ASSUME SessTypeOK, NEW j \in Jobs, Requests(j) \/ JobAdvances(j)
  PROVE  Quiet(j) \/ (\E S \in SUBSET Scopes : Claims(j, S)) \/ DeleteRelease(j)
<1>0. op \in [Jobs -> Ops] /\ HostOf[j] \in Hosts /\ op[j].on \in Scopes
    BY SessAssumption DEF SessAssumption, SessTypeOK, Ops
<1>1. ASSUME Finished(j) PROVE op'[j].has = {} /\ \A k \in Jobs \ {j} : op'[k] = op[k]
    BY <1>0, <1>1 DEF Finished, NoOp
<1>2. ASSUME NEW a, Goto(j, a)
      PROVE op'[j].has = op[j].has /\ \A k \in Jobs \ {j} : op'[k] = op[k]
    BY <1>0, <1>2, Moves DEF Moved
<1>3. CASE Requests(j)
  <2>1. PICK k, s, a : Begin(j, k, s, a)
      BY <1>3 DEF Requests, BeginUse, BeginDeleteThread, BeginFork, BeginDeleteAgent,
         BeginNewThread
  <2>2. op'[j].has = {} /\ \A i \in Jobs \ {j} : op'[i] = op[i]
      BY <1>0, <2>1 DEF Begin, NoOp
  <2>3. QED
      BY <2>1, <2>2 DEF Begin, Quiet, locks
<1>4. CASE TakeLifecycle(j)
    BY <1>2, <1>4 DEF TakeLifecycle, Quiet, locks
<1>5. CASE TakeAgentLock(j)
  <2>1. \E a : Moved(j, a, op[j].has)
      BY <1>0, <1>5, Moves DEF TakeAgentLock
  <2>2. QED
      BY <1>5, <2>1 DEF TakeAgentLock, Quiet, locks, Moved
<1>6. CASE TakeThreadLock(j)
  <2>1. \E a : Moved(j, a, op[j].has)
      BY <1>0, <1>6, Moves DEF TakeThreadLock
  <2>2. QED
      BY <1>6, <2>1 DEF TakeThreadLock, Quiet, locks, Moved
<1>7. CASE UseOwns(j) \/ UseRecover(j) \/ UseWork(j) \/ DeleteKeys(j)
    BY <1>1, <1>2, <1>7 DEF UseOwns, UseRecover, UseWork, DeleteKeys, Quiet, locks
<1>8. CASE UseClaim(j)
  <2>1. CASE Finished(j) /\ UNCHANGED locks
      BY <1>1, <1>8, <2>1 DEF UseClaim, Quiet, locks
  <2>2. CASE /\ MayClaim(HostOf[j], {op[j].on}) /\ Publish(HostOf[j], {op[j].on})
             /\ op' = [op EXCEPT ![j].has = Returned(HostOf[j], {op[j].on}),
                                 ![j].at = "recover"]
    <3>1. Moved(j, "recover", Returned(HostOf[j], {op[j].on}))
        BY <1>0, <2>2, Moves
    <3>2. Claims(j, {op[j].on})
        BY <1>8, <2>2, <3>1 DEF UseClaim, Claims, Moved
    <3>3. QED
        BY <1>0, <3>2
  <2>3. QED
      BY <1>8, <2>1, <2>2 DEF UseClaim
<1>9. CASE CreateThread(j)
  <2>1. op'[j].has = {} /\ \A k \in Jobs \ {j} : op'[k] = op[k]
      BY <1>1, <1>9 DEF CreateThread, GiveUp
  <2>2. CASE UNCHANGED <<live, locks>>
      BY <1>9, <2>1, <2>2 DEF CreateThread, Quiet, locks
  <2>3. CASE \E s \in Threads : /\ Fresh(s) /\ MayClaim(HostOf[j], {s}) /\ Agent \in live
                                /\ live' = live \cup {s} /\ Publish(HostOf[j], {s})
    <3>1. PICK s \in Threads : /\ Fresh(s) /\ MayClaim(HostOf[j], {s}) /\ Agent \in live
                               /\ live' = live \cup {s} /\ Publish(HostOf[j], {s})
        BY <2>3
    <3>2. Guards(op[j]) /\ {s} \in SUBSET Scopes
        BY <1>9 DEF CreateThread, Stage, Guards, Scopes
    <3>3. Claims(j, {s})
        BY <1>9, <2>1, <3>1, <3>2 DEF CreateThread, Claims
    <3>4. QED
        BY <3>2, <3>3
  <2>4. QED
      BY <1>9, <2>2, <2>3 DEF CreateThread
<1>10. CASE DeleteClaim(j)
  <2>1. CASE GiveUp(j) /\ UNCHANGED locks
      BY <1>1, <1>10, <2>1 DEF DeleteClaim, GiveUp, Quiet, locks
  <2>2. CASE /\ MayClaim(HostOf[j], Doomed(j)) /\ Publish(HostOf[j], Doomed(j))
             /\ op' = [op EXCEPT ![j].has = Returned(HostOf[j], Doomed(j)),
                                 ![j].at = "terminate"]
    <3>1. Moved(j, "terminate", Returned(HostOf[j], Doomed(j)))
        BY <1>0, <2>2, Moves
    <3>2. Doomed(j) \in SUBSET Scopes
        BY <1>0 DEF Doomed, SessTypeOK, Scopes
    <3>3. Claims(j, Doomed(j))
        BY <1>10, <2>2, <3>1 DEF DeleteClaim, Claims, Moved
    <3>4. QED
        BY <3>2, <3>3
  <2>3. QED
      BY <1>10, <2>1, <2>2 DEF DeleteClaim
<1>11. CASE DeleteTerminate(j)
  <2>1. Goto(j, "recheck") \/ Finished(j)
      BY <1>11 DEF DeleteTerminate, GiveUp
  <2>2. QED
      BY <1>1, <1>2, <1>11, <2>1 DEF DeleteTerminate, Quiet, locks
<1>12. CASE DeleteRecheck(j)
  <2>1. \/ Finished(j) \/ Goto(j, "release")
        \/ op' = [op EXCEPT ![j].round = op[j].round + 1, ![j].at = "terminate"]
      BY <1>0, <1>12 DEF DeleteRecheck, GiveUp
  <2>2. op'[j].has \subseteq op[j].has /\ \A k \in Jobs \ {j} : op'[k] = op[k]
    <3>1. ASSUME op' = [op EXCEPT ![j].round = op[j].round + 1, ![j].at = "terminate"]
          PROVE  Moved(j, "terminate", op[j].has)
        BY <1>0, <3>1, Moves
    <3>2. QED
        BY <1>1, <1>2, <2>1, <3>1 DEF Moved
  <2>3. live' \subseteq live
      BY <1>12 DEF DeleteRecheck
  <2>4. QED
      BY <1>12, <2>2, <2>3 DEF DeleteRecheck, Quiet, locks
<1>13. QED
    BY <1>3, <1>4, <1>5, <1>6, <1>7, <1>8, <1>9, <1>10, <1>11, <1>12
    DEF JobAdvances, UseStep, DeleteStep

\* Releases, shutdowns and deaths take no lease.
LEMMA LeasesDropped ==
  ASSUME SessTypeOK,
         \/ \E j \in Jobs : DeleteRelease(j)
         \/ \E h \in Hosts : ShutDown(h) \/ Closes(h) \/ Die(h)
  PROVE  \A h \in Hosts : LeasesOf(h)' \subseteq LeasesOf(h)
<1> SUFFICES \A g \in Hosts : \A l : Leased(g, l)' => Leased(g, l)
    BY LeaseMembers
<1>1. ASSUME NEW j \in Jobs, DeleteRelease(j), NEW g \in Hosts, NEW l, Leased(g, l)'
      PROVE  Leased(g, l)
  <2>0. HostOf[j] \in Hosts /\ op \in [Jobs -> Ops]
      BY SessAssumption DEF SessAssumption, SessTypeOK, Ops
  <2>1. op'[j].has = {} /\ \A k \in Jobs \ {j} : op'[k] = op[k]
      BY <1>1, <2>0 DEF DeleteRelease, GiveUp, Finished, NoOp
  <2>2. closing' = closing /\ \A s \in Scopes : owned'[g][s] \in {0, owned[g][s]}
      BY <1>1, <2>0 DEF DeleteRelease, ReleaseAll, SessTypeOK, shutdown
  <2>3. QED
      BY <1>1, <2>1, <2>2 DEF Leased
<1>2. ASSUME NEW h \in Hosts, ShutDown(h), NEW g \in Hosts, NEW l, Leased(g, l)'
      PROVE  Leased(g, l)
  <2>1. CASE g = h
    <3>1. closing'[g] = LeasesOf(h) /\ op' = op /\ \A s \in Scopes : owned'[g][s] = 0
        BY <1>2, <2>1 DEF ShutDown, SessTypeOK
    <3>2. l \in LeasesOf(h) \/ Leased(g, l)
        BY <1>2, <3>1 DEF Leased
    <3>3. QED
        BY <2>1, <3>2, LeaseMembers
  <2>2. CASE g # h
    <3>1. closing'[g] = closing[g] /\ op' = op /\ owned'[g] = owned[g]
        BY <1>2, <2>2 DEF ShutDown, SessTypeOK
    <3>2. QED
        BY <1>2, <3>1 DEF Leased
  <2>3. QED
      BY <2>1, <2>2
<1>3. ASSUME NEW h \in Hosts, Closes(h) \/ Die(h), NEW g \in Hosts, NEW l, Leased(g, l)'
      PROVE  Leased(g, l)
  <2>1. CASE \E s \in Scopes : ShutDownScope(h, s)
    <3>1. UNCHANGED <<owned, op, closing>>
        BY <2>1 DEF ShutDownScope, locks
    <3>2. QED
        BY <1>3, <3>1 DEF Leased
  <2>2. CASE ShutDownDrop(h)
    <3>1. UNCHANGED <<owned, op>> /\ closing'[g] \subseteq closing[g]
        BY <2>2 DEF ShutDownDrop, locks, SessTypeOK
    <3>2. QED
        BY <1>3, <3>1 DEF Leased
  <2>3. CASE Die(h)
    <3>1. closing'[g] \subseteq closing[g]
        BY <2>3 DEF Die, SessTypeOK
    <3>2. \A j \in Jobs : op'[j].has \subseteq op[j].has
        BY <2>3 DEF Die, NoOp
    <3>3. \A s \in Scopes : owned'[g][s] \in {0, owned[g][s]}
        BY <2>3 DEF Die, SessTypeOK
    <3>4. QED
        BY <1>3, <3>1, <3>2, <3>3 DEF Leased
  <2>4. QED
      BY <1>3, <2>1, <2>2, <2>3 DEF Closes
<1>4. QED
    BY <1>1, <1>2, <1>3

\* A deletion releases only what is gone.
LEMMA ReleasesDeleted ==
  ASSUME SessInv, NEW j \in Jobs, DeleteRelease(j)
  PROVE  \E S \in SUBSET Scopes : ReleaseAll(HostOf[j], S) /\ S \cap live = {}
<1>1. op[j].on \notin live /\ op[j].on \in Scopes
    BY DEF DeleteRelease, SessInv, Deleted, SessTypeOK
<1>2. CASE op[j].kind = "deleteAgent"
  <2>1. live = {}
      BY <1>1, <1>2 DEF SessInv, Shape, ShapeOf, Deleted
  <2>2. QED
      BY <1>2, <2>1 DEF DeleteRelease
<1>3. CASE op[j].kind # "deleteAgent"
    BY <1>1, <1>3 DEF DeleteRelease
<1>4. QED
    BY <1>2, <1>3

\* Locked files stay on record, and a scope that exists has one owner.
LEMMA OwnershipStep ==
  ASSUME SessInv, [SessNext]_sessVars
  PROVE  LeaseFiles' /\ OneOwner'
<1>0. SessTypeOK /\ LeaseFiles /\ OneOwner /\ SessTypeOK'
    BY SessTypeStep DEF SessInv
<1>1. ASSUME NEW j \in Jobs, Quiet(j) PROVE LeaseFiles' /\ OneOwner'
  <2>1. \A h \in Hosts : LeasesOf(h)' \subseteq LeasesOf(h)
      BY <1>1, NoNewLease DEF Quiet, shutdown
  <2>2. QED
      BY <1>0, <1>1, <2>1, OwnershipKept DEF Quiet
<1>2. ASSUME NEW j \in Jobs, NEW S \in SUBSET Scopes, Claims(j, S) PROVE LeaseFiles' /\ OneOwner'
  <2>1. HostOf[j] \in Hosts
      BY SessAssumption DEF SessAssumption
  <2>2. /\ \A g \in Hosts : \A l \in LeasesOf(g)' :
              \/ l \in LeasesOf(g)
              \/ g = HostOf[j] /\ \E s \in New(HostOf[j], S) : l = <<s, Opened(s)>>
        /\ \A s \in New(HostOf[j], S) : \A g \in Hosts : <<s, Opened(s)>> \notin LeasesOf(g)
      BY <1>0, <1>2, <2>1, ClaimOpens DEF Claims, shutdown
  <2>3. live' \subseteq Scopes /\ \A s \in live' \ live : made[s] = 0
      BY <1>0, <1>2 DEF Claims, Fresh, SessTypeOK
  <2>4. QED
      BY <1>0, <1>2, <2>1, <2>2, <2>3, OwnershipClaimed DEF Claims
<1>3. ASSUME NEW j \in Jobs, DeleteRelease(j) PROVE LeaseFiles' /\ OneOwner'
  <2>1. PICK S \in SUBSET Scopes : ReleaseAll(HostOf[j], S) /\ S \cap live = {}
      BY <1>3, ReleasesDeleted
  <2>2. \A h \in Hosts : LeasesOf(h)' \subseteq LeasesOf(h)
      BY <1>0, <1>3, LeasesDropped
  <2>3. /\ made' = made /\ live' = live
        /\ \A s \in Scopes : name'[s] \in {0, name[s]}
        /\ \A s \in live : name'[s] = name[s]
      BY <1>0, <1>3, <2>1 DEF ReleaseAll, DeleteRelease, SessTypeOK
  <2>4. LeaseFiles'
    <3>1. \A s \in Scopes : name[s] <= made[s] /\ 0 <= made[s]
        BY <1>0 DEF LeaseFiles, SessTypeOK
    <3>2. QED
        BY <1>0, <2>2, <2>3, <3>1 DEF LeaseFiles
  <2>5. OneOwner'
      BY <1>0, <2>2, <2>3 DEF OneOwner
  <2>6. QED
      BY <2>4, <2>5
<1>4. ASSUME NEW h \in Hosts, ShutDown(h) \/ Closes(h) \/ Die(h) PROVE LeaseFiles' /\ OneOwner'
  <2>1. \A g \in Hosts : LeasesOf(g)' \subseteq LeasesOf(g)
      BY <1>0, <1>4, LeasesDropped
  <2>2. UNCHANGED <<name, made, live>>
      BY <1>4 DEF ShutDown, Closes, ShutDownScope, ShutDownDrop, Die, locks
  <2>3. QED
      BY <1>0, <2>1, <2>2, OwnershipKept
<1>5. CASE UNCHANGED sessVars
  <2>1. \A h \in Hosts : LeasesOf(h)' = LeasesOf(h)
      BY <1>5 DEF sessVars, LeasesOf
  <2>2. QED
      BY <1>0, <1>5, <2>1, OwnershipKept DEF sessVars
<1>6. QED
    BY <1>0, <1>1, <1>2, <1>3, <1>4, <1>5, TaskSteps DEF SessNext

\* What is deleted stays deleted, and is idle.
LEMMA DeletedStep ==
  ASSUME SessInv, [SessNext]_sessVars
  PROVE  Deleted' /\ DeletedIsIdle'
<1>0. /\ SessTypeOK /\ SessTypeOK' /\ Deleted /\ DeletedIsIdle
      /\ op \in [Jobs -> Ops] /\ Agent \notin Threads
      /\ \A j \in Jobs : HostOf[j] \in Hosts /\ op[j].on \in Scopes
    BY SessTypeStep, SessAssumption DEF SessInv, SessAssumption, SessTypeOK, Ops
<1>1. ASSUME live' = live, \A s \in Scopes : vm'[s] \in {vm[s], NoOne},
             \A k \in Jobs : op'[k].at = "release" =>
               op[k].at = "release" /\ op'[k].on = op[k].on
      PROVE  Deleted' /\ DeletedIsIdle'
    BY <1>0, <1>1 DEF Deleted, DeletedIsIdle
<1>2. ASSUME NEW j \in Jobs, Finished(j)
      PROVE  \A k \in Jobs : op'[k].at = "release" =>
               op[k].at = "release" /\ op'[k].on = op[k].on
    BY <1>0, <1>2 DEF Finished, NoOp
<1>3. ASSUME NEW j \in Jobs, NEW a, NEW R, a # "release", Moved(j, a, R)
      PROVE  \A k \in Jobs : op'[k].at = "release" =>
               op[k].at = "release" /\ op'[k].on = op[k].on
    BY <1>3 DEF Moved
<1>4. ASSUME NEW j \in Jobs, Requests(j) PROVE Deleted' /\ DeletedIsIdle'
  <2>1. PICK k, s, a : Begin(j, k, s, a) /\ a \in {"owns", "agentLock", "lifecycle"}
      BY <1>4 DEF Requests, BeginUse, BeginDeleteThread, BeginFork, BeginDeleteAgent,
         BeginNewThread
  <2>2. op'[j].at = a /\ \A i \in Jobs \ {j} : op'[i] = op[i]
      BY <1>0, <2>1 DEF Begin, NoOp
  <2>3. QED
      BY <1>1, <2>1, <2>2 DEF Begin
<1>5. ASSUME NEW j \in Jobs,
             TakeLifecycle(j) \/ TakeAgentLock(j) \/ TakeThreadLock(j) \/ UseOwns(j)
      PROVE Deleted' /\ DeletedIsIdle'
  <2>1. \E a \in {"agentLock", "claim", "keys", "threadLock", "write", "lifecycle"} :
          Moved(j, a, op[j].has)
    <3>1. TakeLifecycle(j) \/ UseOwns(j) =>
            \E a \in {"agentLock", "claim", "lifecycle"} : Moved(j, a, op[j].has)
        BY <1>0, Moves DEF TakeLifecycle, UseOwns
    <3>2. TakeAgentLock(j) => \E a \in {"keys", "threadLock"} : Moved(j, a, op[j].has)
        BY <1>0, Moves DEF TakeAgentLock
    <3>3. TakeThreadLock(j) => \E a \in {"write", "keys"} : Moved(j, a, op[j].has)
        BY <1>0, Moves DEF TakeThreadLock
    <3>4. QED
        BY <1>5, <3>1, <3>2, <3>3
  <2>2. live' = live /\ vm' = vm
      BY <1>5 DEF TakeLifecycle, TakeAgentLock, TakeThreadLock, UseOwns
  <2>3. QED
      BY <1>1, <1>3, <2>1, <2>2
<1>6. ASSUME NEW j \in Jobs, UseClaim(j) \/ DeleteKeys(j) \/ DeleteClaim(j)
      PROVE Deleted' /\ DeletedIsIdle'
  <2>1. Finished(j) \/ \E a \in {"recover", "lifecycle", "terminate"} : \E R : Moved(j, a, R)
    <3>1. UseClaim(j) => Finished(j) \/ Moved(j, "recover", Returned(HostOf[j], {op[j].on}))
        BY <1>0, Moves DEF UseClaim
    <3>2. DeleteKeys(j) => Finished(j) \/ Moved(j, "lifecycle", op[j].has)
        BY <1>0, Moves DEF DeleteKeys
    <3>3. DeleteClaim(j) => Finished(j) \/ Moved(j, "terminate", Returned(HostOf[j], Doomed(j)))
        BY <1>0, Moves DEF DeleteClaim, GiveUp
    <3>4. QED
        BY <1>6, <3>1, <3>2, <3>3
  <2>2. live' = live /\ vm' = vm
      BY <1>6 DEF UseClaim, DeleteKeys, DeleteClaim
  <2>3. QED
      BY <1>1, <1>2, <1>3, <2>1, <2>2
<1>7. ASSUME NEW j \in Jobs, UseRecover(j) PROVE Deleted' /\ DeletedIsIdle'
  <2>1. Finished(j) \/ Moved(j, "work", op[j].has)
      BY <1>0, <1>7, Moves DEF UseRecover
  <2>2. live' = live /\ \A s \in Scopes : vm'[s] \in {vm[s], NoOne}
      BY <1>0, <1>7 DEF UseRecover, SessTypeOK
  <2>3. QED
      BY <1>1, <1>2, <1>3, <2>1, <2>2
<1>8. ASSUME NEW j \in Jobs, UseWork(j) PROVE Deleted' /\ DeletedIsIdle'
  <2>1. live' = live /\ Finished(j)
        /\ \A s \in Scopes : vm'[s] \in {vm[s], NoOne} \/ s \in live
      BY <1>0, <1>8 DEF UseWork, MayStart, SessTypeOK
  <2>2. QED
      BY <1>0, <1>2, <2>1 DEF Deleted, DeletedIsIdle
<1>9. ASSUME NEW j \in Jobs, CreateThread(j) PROVE Deleted' /\ DeletedIsIdle'
  <2>1. Finished(j) /\ vm' = vm
      BY <1>9 DEF CreateThread, GiveUp
  <2>2. CASE live' = live
      BY <1>1, <1>2, <2>1, <2>2
  <2>3. CASE \E s \in Threads : Fresh(s) /\ live' = live \cup {s} /\ Agent \in live
    <3>1. PICK s \in Threads : Fresh(s) /\ live' = live \cup {s} /\ Agent \in live
        BY <2>3
    <3>2. ASSUME NEW k \in Jobs, op[k].at = "release" PROVE op[k].on # s
      <4>1. PICK f \in Nat : <<op[k].on, f>> \in op[k].has
          BY <3>2 DEF SessInv, TaskLeases, Relies
      <4>2. <<op[k].on, f>> \in LeasesOf(HostOf[k])
          BY <4>1, LeaseMembers DEF Leased
      <4>3. f \in 1..made[op[k].on]
          BY <1>0, <4>2 DEF SessInv, LeaseFiles
      <4>4. QED
          BY <3>1, <4>3 DEF Fresh
    <3>3. QED
        BY <1>0, <1>2, <2>1, <3>1, <3>2 DEF Deleted, DeletedIsIdle
  <2>4. QED
      BY <1>9, <2>2, <2>3 DEF CreateThread
<1>10. ASSUME NEW j \in Jobs, DeleteTerminate(j) PROVE Deleted' /\ DeletedIsIdle'
  <2>1. Finished(j) \/ Moved(j, "recheck", op[j].has)
      BY <1>0, <1>10, Moves DEF DeleteTerminate, GiveUp
  <2>2. live' = live /\ \A s \in Scopes : vm'[s] \in {vm[s], NoOne}
      BY <1>10 DEF DeleteTerminate
  <2>3. QED
      BY <1>1, <1>2, <1>3, <2>1, <2>2
<1>11. ASSUME NEW j \in Jobs, DeleteRecheck(j) PROVE Deleted' /\ DeletedIsIdle'
  <2>0. vm' = vm
      BY <1>11 DEF DeleteRecheck
  <2>1. CASE live' = live /\ (\/ Finished(j)
                              \/ op' = [op EXCEPT ![j].round = op[j].round + 1,
                                                  ![j].at = "terminate"])
    <3>1. Finished(j) \/ Moved(j, "terminate", op[j].has)
        BY <1>0, <2>1, Moves
    <3>2. QED
        BY <1>1, <1>2, <1>3, <2>0, <2>1, <3>1
  <2>2. CASE live' = live \ Doomed(j) /\ ~AcquiredAgain(j) /\ Goto(j, "release")
    <3>1. Moved(j, "release", op[j].has)
        BY <1>0, <2>2, Moves
    <3>2. /\ op[j].kind = "deleteAgent" => op[j].on = Agent /\ live' = {}
          /\ op[j].kind # "deleteAgent" => op[j].on \in Threads /\ live' = live \ {op[j].on}
      <4>1. ShapeOf(op[j]) /\ op[j].kind \in Deletions \cup {"none", "use", "newThread", "fork"}
            /\ op[j].at = "recheck"
          BY <1>0, <1>11 DEF SessInv, Shape, Ops, DeleteRecheck
      <4>2. op[j].kind \in Deletions
          BY <4>1 DEF ShapeOf
      <4>3. QED
          BY <2>2, <4>1, <4>2 DEF ShapeOf, Doomed, Deletions
    <3>3. Deleted'
        BY <1>0, <3>1, <3>2 DEF Deleted, Moved
    <3>4. DeletedIsIdle'
        BY <1>0, <2>0, <2>2 DEF DeletedIsIdle, AcquiredAgain
    <3>5. QED
        BY <3>3, <3>4
  <2>3. QED
      BY <1>0, <1>11, <2>1, <2>2 DEF DeleteRecheck, GiveUp
<1>12. ASSUME NEW j \in Jobs, DeleteRelease(j) PROVE Deleted' /\ DeletedIsIdle'
    BY <1>1, <1>2, <1>12 DEF DeleteRelease, GiveUp
<1>13. ASSUME NEW h \in Hosts, ShutDown(h) \/ ShutDownDrop(h) PROVE Deleted' /\ DeletedIsIdle'
    BY <1>1, <1>13 DEF ShutDown, ShutDownDrop
<1>14. ASSUME NEW h \in Hosts, NEW s \in Scopes, ShutDownScope(h, s)
       PROVE Deleted' /\ DeletedIsIdle'
    BY <1>0, <1>1, <1>14 DEF ShutDownScope, SessTypeOK
<1>15. ASSUME NEW h \in Hosts, Die(h) PROVE Deleted' /\ DeletedIsIdle'
    BY <1>1, <1>15 DEF Die, NoOp
<1>16. CASE UNCHANGED sessVars
    BY <1>1, <1>16 DEF sessVars
<1>17. QED
    BY <1>4, <1>5, <1>6, <1>7, <1>8, <1>9, <1>10, <1>11, <1>12, <1>13, <1>14, <1>15, <1>16
    DEF SessNext, JobAdvances, UseStep, DeleteStep, Closes

\* What another task relies on is not taken from it.
LEMMA OthersRely ==
  ASSUME SessInv, SessTypeOK', NEW j \in Jobs, NEW k \in Jobs \ {j},
         Quiet(j) \/ (\E S \in SUBSET Scopes : Claims(j, S)) \/ DeleteRelease(j)
  PROVE  Relies(k)'
<1>0. /\ SessTypeOK /\ Relies(k) /\ HostOf[j] \in Hosts /\ HostOf[k] \in Hosts
      /\ op \in [Jobs -> Ops] /\ op[k].on \in Scopes
    BY SessAssumption DEF SessAssumption, SessInv, TaskLeases, SessTypeOK, Ops
<1>1. op'[k] = op[k]
    BY <1>0 DEF Quiet, Claims, DeleteRelease, GiveUp, Finished
<1>2. CASE Quiet(j)
    BY <1>0, <1>1, <1>2 DEF Quiet, Relies, Doomed
<1>3. ASSUME NEW S \in SUBSET Scopes, Claims(j, S) PROVE Relies(k)'
  <2>1. ASSUME NEW s \in Scopes, NEW f \in Nat, <<s, f>> \in op[k].has
        PROVE  made[s] # 0 /\ (<<s, f>> \in recovered => <<s, f>> \in recovered')
    <3>1. <<s, f>> \in LeasesOf(HostOf[k])
        BY <2>1, LeaseMembers DEF Leased
    <3>2. f \in 1..made[s]
        BY <1>0, <3>1 DEF SessInv, LeaseFiles
    <3>3. \A z \in New(HostOf[j], S) : <<z, Opened(z)>> # <<s, f>>
        BY <1>0, <1>3, <3>1 DEF Claims, MayClaim, Flocked
    <3>4. QED
        BY <1>3, <3>2, <3>3 DEF Claims, Publish
  <2>2. \A s \in Scopes : owned[HostOf[k]][s] # 0 => owned'[HostOf[k]][s] # 0
      BY <1>0, <1>3 DEF Claims, Publish, New, SessTypeOK
  <2>3. \A f \in Nat : <<op[k].on, f>> \in op[k].has /\ op[k].on \in live' => op[k].on \in live
      BY <1>0, <1>3, <2>1 DEF Claims, Fresh
  <2>4. op[k].kind = "use" /\ op[k].at \in {"recover", "work"} =>
          /\ \E f \in Nat : op[k].has = {<<op[k].on, f>>}
          /\ op[k].on \in live' => owned'[HostOf[k]][op[k].on] # 0
      BY <1>0, <2>2, <2>3 DEF Relies
  <2>5. op[k].at = "work" => op[k].has \subseteq recovered'
    <3>1. op[k].has \subseteq Scopes \X Nat
        BY <1>0 DEF Ops
    <3>2. ASSUME op[k].at = "work", NEW l \in op[k].has PROVE l \in recovered'
      <4>1. PICK s \in Scopes, f \in Nat : l = <<s, f>>
          BY <3>1, <3>2
      <4>2. l \in recovered
          BY <1>0, <3>2 DEF Relies
      <4>3. QED
          BY <2>1, <3>2, <4>1, <4>2
    <3>3. QED
        BY <3>2
  <2>6. ASSUME op[k].at \in {"terminate", "recheck"} PROVE live' = live
    <3>1. Guards(op[k])
      <4>1. ShapeOf(op[k]) /\ op[k].kind \in Deletions \cup {"none", "use", "newThread", "fork"}
          BY <1>0 DEF SessInv, Shape, Ops
      <4>2. QED
          BY <2>6, <4>1 DEF ShapeOf, Guards
    <3>2. lifecycle = k /\ ~Guards(op[j])
        BY <3>1 DEF SessInv, LifecycleHeld
    <3>3. QED
        BY <1>3, <3>2 DEF Claims
  <2>7. op[k].at \in {"terminate", "recheck"} =>
          \A s \in Doomed(k)' : \E f \in Nat : <<s, f>> \in op[k].has
      BY <1>0, <1>1, <2>6 DEF Relies, Doomed
  <2>8. QED
      BY <1>0, <1>1, <2>4, <2>5, <2>7 DEF Relies
<1>4. CASE DeleteRelease(j)
  <2>1. PICK S \in SUBSET Scopes : ReleaseAll(HostOf[j], S) /\ S \cap live = {}
      BY <1>4, ReleasesDeleted
  <2>2. live' = live /\ recovered' = recovered
      BY <1>4, <2>1 DEF DeleteRelease, ReleaseAll
  <2>3. \A s \in live : owned[HostOf[k]][s] # 0 => owned'[HostOf[k]][s] # 0
      BY <1>0, <2>1 DEF ReleaseAll, SessTypeOK
  <2>4. QED
      BY <1>0, <1>1, <2>2, <2>3 DEF Relies, Doomed
<1>5. QED
    BY <1>2, <1>3, <1>4

\* What task j has after a step of its own is what it relies on.
LEMMA OwnRelies ==
  ASSUME SessInv, SessTypeOK', Shape', NEW j \in Jobs, Requests(j) \/ JobAdvances(j)
  PROVE  Relies(j)'
<1>0. /\ op \in [Jobs -> Ops] /\ HostOf[j] \in Hosts /\ op[j].on \in Scopes
      /\ SessTypeOK /\ Relies(j) /\ ShapeOf(op[j]) /\ ShapeOf(op'[j])
      /\ op[j].kind \in Deletions \cup {"none", "use", "newThread", "fork"}
    BY SessAssumption DEF SessAssumption, SessInv, Shape, TaskLeases, SessTypeOK, Ops
<1>1. ASSUME op'[j].at \notin {"recover", "work", "terminate", "recheck", "release"}
      PROVE  Relies(j)'
    BY <1>1 DEF Relies
<1>2. ASSUME Finished(j) PROVE Relies(j)'
  <2>1. op'[j].at = "idle"
      BY <1>0, <1>2 DEF Finished, NoOp
  <2>2. QED
      BY <1>1, <2>1
<1>3. CASE Requests(j)
  <2>1. PICK k, s, a : Begin(j, k, s, a) /\ a \in {"owns", "agentLock", "lifecycle"}
      BY <1>3 DEF Requests, BeginUse, BeginDeleteThread, BeginFork, BeginDeleteAgent,
         BeginNewThread
  <2>2. op'[j].at = a
      BY <1>0, <2>1 DEF Begin, NoOp
  <2>3. QED
      BY <1>1, <2>1, <2>2
<1>4. CASE TakeLifecycle(j) \/ UseOwns(j) \/ DeleteKeys(j)
  <2>1. Finished(j) \/ \E a \in {"agentLock", "claim", "lifecycle"} : Moved(j, a, op[j].has)
      BY <1>0, <1>4, Moves DEF TakeLifecycle, UseOwns, DeleteKeys
  <2>2. QED
      BY <1>1, <1>2, <2>1 DEF Moved
<1>5. CASE TakeAgentLock(j)
  <2>1. \E a \in {"keys", "threadLock"} : Moved(j, a, op[j].has)
      BY <1>0, <1>5, Moves DEF TakeAgentLock
  <2>2. QED
      BY <1>1, <2>1 DEF Moved
<1>6. CASE TakeThreadLock(j)
  <2>1. \E a \in {"write", "keys"} : Moved(j, a, op[j].has)
      BY <1>0, <1>6, Moves DEF TakeThreadLock
  <2>2. QED
      BY <1>1, <2>1 DEF Moved
<1>7. CASE UseWork(j) \/ CreateThread(j) \/ DeleteRelease(j)
    BY <1>2, <1>7 DEF UseWork, CreateThread, DeleteRelease, GiveUp
<1>8. CASE UseClaim(j)
  <2>1. CASE /\ Publish(HostOf[j], {op[j].on})
             /\ op' = [op EXCEPT ![j].has = Returned(HostOf[j], {op[j].on}),
                                 ![j].at = "recover"]
    <3>1. Moved(j, "recover", Returned(HostOf[j], {op[j].on}))
        BY <1>0, <2>1, Moves
    <3>2. \E f \in Nat : Returned(HostOf[j], {op[j].on}) = {<<op[j].on, f>>}
      <4>1. owned[HostOf[j]][op[j].on] \in Nat /\ Opened(op[j].on) \in Nat
          BY <1>0 DEF SessTypeOK, Opened
      <4>2. QED
          BY <4>1 DEF Returned
    <3>3. owned'[HostOf[j]][op[j].on] # 0
      <4>1. Opened(op[j].on) # 0
          BY <1>0 DEF Opened, SessTypeOK
      <4>2. QED
          BY <1>0, <2>1, <4>1 DEF Publish, New, SessTypeOK
    <3>4. QED
        BY <3>1, <3>2, <3>3 DEF Relies, Moved
  <2>2. QED
      BY <1>2, <1>8, <2>1 DEF UseClaim
<1>9. CASE UseRecover(j)
  <2>1. CASE Goto(j, "work") /\ op[j].has \subseteq recovered'
    <3>1. Moved(j, "work", op[j].has)
        BY <1>0, <2>1, Moves
    <3>2. UNCHANGED <<owned, live>> /\ op[j].kind = "use" /\ op[j].at = "recover"
        BY <1>9 DEF UseRecover, Stage
    <3>3. QED
        BY <1>0, <2>1, <3>1, <3>2 DEF Relies, Moved
  <2>2. QED
      BY <1>2, <1>9, <2>1 DEF UseRecover
<1>10. CASE DeleteClaim(j)
  <2>1. CASE op' = [op EXCEPT ![j].has = Returned(HostOf[j], Doomed(j)),
                              ![j].at = "terminate"]
    <3>1. Moved(j, "terminate", Returned(HostOf[j], Doomed(j))) /\ live' = live
        BY <1>0, <1>10, <2>1, Moves DEF DeleteClaim
    <3>2. Doomed(j) \subseteq Scopes /\ Doomed(j)' = Doomed(j)
        BY <1>0, <3>1 DEF Doomed, SessTypeOK, Scopes, Moved
    <3>3. \A s \in Doomed(j) : \E f \in Nat : <<s, f>> \in Returned(HostOf[j], Doomed(j))
      <4>1. \A s \in Doomed(j) : owned[HostOf[j]][s] \in Nat /\ Opened(s) \in Nat
          BY <1>0, <3>2 DEF SessTypeOK, Opened
      <4>2. QED
          BY <4>1 DEF Returned
    <3>4. op'[j].kind # "use"
        BY <1>10, <3>1 DEF DeleteClaim, Moved, Deletions
    <3>5. QED
        BY <3>1, <3>2, <3>3, <3>4 DEF Relies, Moved
  <2>2. QED
      BY <1>2, <1>10, <2>1 DEF DeleteClaim, GiveUp
<1>11. CASE DeleteTerminate(j)
  <2>1. CASE Goto(j, "recheck")
    <3>1. Moved(j, "recheck", op[j].has) /\ live' = live /\ op[j].at = "terminate"
        BY <1>0, <1>11, <2>1, Moves DEF DeleteTerminate
    <3>2. Doomed(j)' = Doomed(j)
        BY <3>1 DEF Doomed, Moved
    <3>3. QED
        BY <1>0, <3>1, <3>2 DEF Relies, Moved
  <2>2. QED
      BY <1>2, <1>11, <2>1 DEF DeleteTerminate, GiveUp
<1>12. CASE DeleteRecheck(j)
  <2>0. op[j].at = "recheck"
      BY <1>12 DEF DeleteRecheck
  <2>1. CASE op' = [op EXCEPT ![j].round = op[j].round + 1, ![j].at = "terminate"]
             /\ live' = live
    <3>1. Moved(j, "terminate", op[j].has)
        BY <1>0, <2>1, Moves
    <3>2. Doomed(j)' = Doomed(j)
        BY <2>1, <3>1 DEF Doomed, Moved
    <3>3. QED
        BY <1>0, <2>0, <3>1, <3>2 DEF Relies, Moved
  <2>2. CASE Goto(j, "release")
    <3>1. Moved(j, "release", op[j].has)
        BY <1>0, <2>2, Moves
    <3>2. op[j].kind \in Deletions /\ op[j].on \in Doomed(j)
        BY <1>0, <2>0 DEF ShapeOf, Doomed, Deletions
    <3>3. QED
        BY <1>0, <2>0, <3>1, <3>2 DEF Relies, Moved
  <2>3. QED
      BY <1>0, <1>2, <1>12, <2>1, <2>2 DEF DeleteRecheck, GiveUp
<1>13. QED
    BY <1>3, <1>4, <1>5, <1>6, <1>7, <1>8, <1>9, <1>10, <1>11, <1>12
    DEF JobAdvances, UseStep, DeleteStep

\* What every task relies on is there after every step.
LEMMA ReliesStep ==
  ASSUME SessInv, [SessNext]_sessVars
  PROVE  TaskLeases'
<1>0. SessTypeOK /\ SessTypeOK' /\ Shape' /\ HostsUp /\ TaskLeases
      /\ \A j \in Jobs : HostOf[j] \in Hosts /\ op[j].on \in Scopes
    BY SessTypeStep, ControlStep, SessAssumption DEF SessAssumption, SessInv, SessTypeOK
<1>1. ASSUME NEW j \in Jobs, Requests(j) \/ JobAdvances(j) PROVE TaskLeases'
  <2>1. Quiet(j) \/ (\E S \in SUBSET Scopes : Claims(j, S)) \/ DeleteRelease(j)
      BY <1>0, <1>1, TaskSteps
  <2>2. \A k \in Jobs \ {j} : Relies(k)'
      BY <1>0, <2>1, OthersRely
  <2>3. Relies(j)'
      BY <1>0, <1>1, OwnRelies
  <2>4. QED
      BY <2>2, <2>3 DEF TaskLeases
<1>2. ASSUME NEW h \in Hosts, ShutDown(h) \/ Closes(h) \/ Die(h), NEW k \in Jobs
      PROVE  Relies(k)'
  <2>1. CASE op'[k] = NoOp
      BY <2>1 DEF Relies, NoOp
  <2>2. CASE op'[k] = op[k] /\ op[k].kind # "none" /\ owned'[HostOf[k]] = owned[HostOf[k]]
    <3>1. UNCHANGED <<recovered, live>>
        BY <1>2 DEF ShutDown, Closes, ShutDownScope, ShutDownDrop, Die, locks
    <3>2. QED
        BY <1>0, <2>2, <3>1 DEF TaskLeases, Relies, Doomed
  <2>3. CASE op'[k] = op[k] /\ op[k].kind = "none"
    <3>1. op'[k].at = "idle"
        BY <2>3 DEF SessInv, Shape, ShapeOf
    <3>2. QED
        BY <3>1 DEF Relies
  <2>4. QED
    <3>1. CASE ShutDown(h)
        BY <1>0, <2>2, <2>3, <3>1 DEF ShutDown, SessTypeOK
    <3>2. CASE Closes(h)
        BY <2>2, <2>3, <3>2 DEF Closes, ShutDownScope, ShutDownDrop, locks
    <3>3. CASE Die(h)
        BY <1>0, <2>1, <2>2, <2>3, <3>3 DEF Die, SessTypeOK
    <3>4. QED
        BY <1>2, <3>1, <3>2, <3>3
<1>3. CASE UNCHANGED sessVars
    BY <1>0, <1>3 DEF sessVars, TaskLeases, Relies, Doomed
<1>4. QED
    BY <1>1, <1>2, <1>3 DEF SessNext, TaskLeases

\* Only a task that works starts a machine, and only a recovery sets a lease's cell.
LEMMA OnlyUsersStart ==
  ASSUME SessTypeOK, NEW j \in Jobs, Requests(j) \/ JobAdvances(j)
  PROVE  /\ \/ UseWork(j)
            \/ \A s \in Scopes : vm'[s] \in {vm[s], NoOne}
         /\ UseRecover(j) \/ recovered' \subseteq recovered
<1>1. CASE Requests(j)
    BY <1>1 DEF Requests, BeginUse, BeginDeleteThread, BeginFork, BeginDeleteAgent,
       BeginNewThread, Begin, locks
<1>2. CASE TakeLifecycle(j) \/ TakeAgentLock(j) \/ TakeThreadLock(j) \/ UseOwns(j)
           \/ DeleteKeys(j) \/ DeleteRecheck(j)
    BY <1>2 DEF TakeLifecycle, TakeAgentLock, TakeThreadLock, UseOwns, DeleteKeys,
       DeleteRecheck, locks
<1>3. CASE UseClaim(j)
    BY <1>3 DEF UseClaim, Publish, locks
<1>4. CASE UseRecover(j)
    BY <1>4 DEF UseRecover, SessTypeOK
<1>5. CASE UseWork(j)
    BY <1>5 DEF UseWork, locks
<1>6. CASE CreateThread(j)
    BY <1>6 DEF CreateThread, Publish, locks
<1>7. CASE DeleteClaim(j)
    BY <1>7 DEF DeleteClaim, Publish, locks
<1>8. CASE DeleteTerminate(j)
    BY <1>8 DEF DeleteTerminate, locks
<1>9. CASE DeleteRelease(j)
    BY <1>9 DEF DeleteRelease, ReleaseAll
<1>10. QED
    BY <1>1, <1>2, <1>3, <1>4, <1>5, <1>6, <1>7, <1>8, <1>9
    DEF JobAdvances, UseStep, DeleteStep

\* The leases of a user at work, or about to recover, are leases of its process.
LEMMA UserLease ==
  ASSUME SessInv, NEW j \in Jobs, op[j].kind = "use", op[j].at \in {"recover", "work"}
  PROVE  \E f \in Nat : /\ op[j].has = {<<op[j].on, f>>}
                        /\ <<op[j].on, f>> \in LeasesOf(HostOf[j])
<1>1. PICK f \in Nat : op[j].has = {<<op[j].on, f>>}
    BY DEF SessInv, TaskLeases, Relies
<1>2. <<op[j].on, f>> \in LeasesOf(HostOf[j])
    BY <1>1, LeaseMembers DEF Leased
<1>3. QED
    BY <1>1, <1>2

\* A step that starts nothing and opens no recovered lease keeps Recovered.
LEMMA RecoveredKept ==
  ASSUME SessInv, \A s \in Scopes : vm'[s] \in {vm[s], NoOne},
         \A g \in Hosts : \A l \in LeasesOf(g)' :
           l \in recovered' => l \in LeasesOf(g) /\ l \in recovered
  PROVE  Recovered'
<1>1. \A g \in Hosts : \A l \in LeasesOf(g) : l[1] \in Scopes
    BY LeasesTyped DEF SessInv
<1>2. QED
    BY <1>1 DEF SessInv, Recovered

\* A recovery and the work after it take no new lease.
LEMMA UsersTakeNone ==
  ASSUME SessTypeOK, NEW j \in Jobs, UseRecover(j) \/ UseWork(j)
  PROVE  \A g \in Hosts : LeasesOf(g)' \subseteq LeasesOf(g)
<1>1. op \in [Jobs -> Ops]
    BY DEF SessTypeOK, Ops
<1>2. op'[j].has \subseteq op[j].has /\ \A k \in Jobs \ {j} : op'[k] = op[k]
  <2>1. CASE Finished(j)
      BY <1>1, <2>1 DEF Finished, NoOp
  <2>2. CASE Goto(j, "work")
      BY <1>1, <2>2, Moves DEF Moved
  <2>3. QED
      BY <2>1, <2>2 DEF UseRecover, UseWork
<1>3. UNCHANGED <<owned, closing>>
    BY DEF UseRecover, UseWork, locks, shutdown
<1>4. QED
    BY <1>2, <1>3, NoNewLease

\* No step leaves a machine of another process under a recovered lease.
LEMMA RecoveredStep ==
  ASSUME SessInv, [SessNext]_sessVars
  PROVE  Recovered'
<1>0. SessTypeOK /\ \A j \in Jobs : HostOf[j] \in Hosts /\ op[j].on \in Scopes
    BY SessAssumption DEF SessAssumption, SessInv, SessTypeOK
<1>1. ASSUME NEW j \in Jobs, UseRecover(j) PROVE Recovered'
  <2>1. \A g \in Hosts : LeasesOf(g)' \subseteq LeasesOf(g)
      BY <1>0, <1>1, UsersTakeNone
  <2>2. CASE UNCHANGED <<recovered, vm>>
      BY <2>1, <2>2 DEF SessInv, Recovered
  <2>3. CASE vm' = [vm EXCEPT ![op[j].on] = NoOne] /\ recovered' = recovered \cup op[j].has
    <3>1. PICK f \in Nat : op[j].has = {<<op[j].on, f>>}
        BY <1>1, UserLease DEF UseRecover, Stage
    <3>2. vm'[op[j].on] = NoOne /\ \A s \in Scopes : vm'[s] \in {vm[s], NoOne}
        BY <1>0, <2>3 DEF SessTypeOK
    <3>3. \A g \in Hosts : \A l \in LeasesOf(g) : l[1] \in Scopes
        BY <1>0, LeasesTyped
    <3>4. QED
        BY <2>1, <2>3, <3>1, <3>2, <3>3 DEF SessInv, Recovered
  <2>4. QED
      BY <1>1, <2>2, <2>3 DEF UseRecover
<1>2. ASSUME NEW j \in Jobs, UseWork(j) PROVE Recovered'
  <2>1. \A g \in Hosts : LeasesOf(g)' \subseteq LeasesOf(g)
      BY <1>0, <1>2, UsersTakeNone
  <2>2. /\ recovered' = recovered
        /\ \A s \in Scopes : \/ vm'[s] \in {vm[s], NoOne}
                             \/ s = op[j].on /\ s \in live /\ vm'[s] = HostOf[j]
      BY <1>0, <1>2 DEF UseWork, MayStart, locks, SessTypeOK
  <2>3. ASSUME NEW g \in Hosts, NEW l \in LeasesOf(g), l[1] = op[j].on, op[j].on \in live
        PROVE  g = HostOf[j]
    <3>1. PICK f \in Nat : <<op[j].on, f>> \in LeasesOf(HostOf[j])
        BY <1>2, UserLease DEF UseWork, Stage
    <3>2. QED
        BY <1>0, <2>3, <3>1 DEF SessInv, OneOwner
  <2>4. \A g \in Hosts : \A l \in LeasesOf(g) : l[1] \in Scopes
      BY <1>0, LeasesTyped
  <2>5. QED
      BY <2>1, <2>2, <2>3, <2>4 DEF SessInv, Recovered
<1>3. ASSUME NEW j \in Jobs, Requests(j) \/ JobAdvances(j), ~UseRecover(j), ~UseWork(j)
      PROVE  Recovered'
  <2>1. recovered' \subseteq recovered /\ \A s \in Scopes : vm'[s] \in {vm[s], NoOne}
      BY <1>0, <1>3, OnlyUsersStart
  <2>2. CASE Quiet(j)
    <3>1. \A g \in Hosts : LeasesOf(g)' \subseteq LeasesOf(g)
        BY <2>2, NoNewLease DEF Quiet, shutdown
    <3>2. QED
        BY <2>1, <3>1, RecoveredKept
  <2>3. ASSUME NEW S \in SUBSET Scopes, Claims(j, S) PROVE Recovered'
    <3>1. \A g \in Hosts : \A l \in LeasesOf(g)' :
              \/ l \in LeasesOf(g)
              \/ g = HostOf[j] /\ \E s \in New(HostOf[j], S) : l = <<s, Opened(s)>>
        BY <1>0, <2>3, ClaimOpens DEF Claims, shutdown
    <3>2. \A s \in New(HostOf[j], S) : <<s, Opened(s)>> \notin recovered'
        BY <2>3 DEF Claims, Publish
    <3>3. QED
        BY <2>1, <3>1, <3>2, RecoveredKept
  <2>4. CASE DeleteRelease(j)
    <3>1. \A g \in Hosts : LeasesOf(g)' \subseteq LeasesOf(g)
        BY <1>0, <2>4, LeasesDropped
    <3>2. QED
        BY <2>1, <3>1, RecoveredKept
  <2>5. QED
      BY <1>0, <1>3, <2>2, <2>3, <2>4, TaskSteps
<1>4. ASSUME NEW h \in Hosts, ShutDown(h) \/ Closes(h) \/ Die(h) PROVE Recovered'
  <2>1. \A g \in Hosts : LeasesOf(g)' \subseteq LeasesOf(g)
      BY <1>0, <1>4, LeasesDropped
  <2>2. recovered' = recovered /\ \A s \in Scopes : vm'[s] \in {vm[s], NoOne}
    <3>1. CASE ShutDown(h) \/ ShutDownDrop(h) \/ Die(h)
        BY <3>1 DEF ShutDown, ShutDownDrop, Die, locks
    <3>2. CASE \E s \in Scopes : ShutDownScope(h, s)
        BY <1>0, <3>2 DEF ShutDownScope, locks, SessTypeOK
    <3>3. QED
        BY <1>4, <3>1, <3>2 DEF Closes
  <2>3. QED
      BY <2>1, <2>2, RecoveredKept
<1>5. CASE UNCHANGED sessVars
  <2>1. \A h \in Hosts : LeasesOf(h)' = LeasesOf(h)
      BY <1>5 DEF sessVars, LeasesOf
  <2>2. QED
      BY <1>5, <2>1, RecoveredKept DEF sessVars
<1>6. QED
    BY <1>1, <1>2, <1>3, <1>4, <1>5 DEF SessNext

\* A machine of a process that is up stays under a lease the process published.
LEMMA VmLeasedStep ==
  ASSUME SessInv, [SessNext]_sessVars
  PROVE  VmLeased'
<1>0. /\ SessTypeOK /\ VmLeased /\ NoOne \notin Hosts
      /\ \A j \in Jobs : HostOf[j] \in Hosts /\ op[j].on \in Scopes
      /\ \A s \in Scopes : vm[s] \in Hosts \cup {NoOne}
    BY SessAssumption DEF SessAssumption, SessInv, SessTypeOK
<1>1. ASSUME \A s \in Scopes : vm'[s] \in {vm[s], NoOne},
             \A h \in Hosts : host'[h] = "up" =>
               /\ host[h] = "up"
               /\ \A s \in Scopes : vm[s] = h /\ owned[h][s] # 0 => owned'[h][s] # 0
      PROVE  VmLeased'
    BY <1>0, <1>1 DEF VmLeased
<1>2. ASSUME NEW j \in Jobs, UseWork(j) PROVE VmLeased'
  <2>1. UNCHANGED <<owned, host>> /\
        \A s \in Scopes : \/ vm'[s] \in {vm[s], NoOne}
                          \/ s = op[j].on /\ s \in live /\ vm'[s] = HostOf[j]
      BY <1>0, <1>2 DEF UseWork, MayStart, locks, shutdown, SessTypeOK
  <2>2. op[j].on \in live => owned[HostOf[j]][op[j].on] # 0
      BY <1>2 DEF UseWork, Stage, SessInv, TaskLeases, Relies
  <2>3. QED
      BY <1>0, <2>1, <2>2 DEF VmLeased
<1>3. ASSUME NEW j \in Jobs, Requests(j) \/ JobAdvances(j), ~UseWork(j)
      PROVE  VmLeased'
  <2>1. \A s \in Scopes : vm'[s] \in {vm[s], NoOne}
      BY <1>0, <1>3, OnlyUsersStart
  <2>2. CASE Quiet(j)
      BY <1>1, <2>1, <2>2 DEF Quiet, shutdown
  <2>3. ASSUME NEW S \in SUBSET Scopes, Claims(j, S) PROVE VmLeased'
    <3>1. host' = host /\ \A h \in Hosts : \A s \in Scopes : owned[h][s] # 0 => owned'[h][s] # 0
        BY <1>0, <2>3 DEF Claims, Publish, New, SessTypeOK, shutdown
    <3>2. QED
        BY <1>1, <2>1, <3>1
  <2>4. CASE DeleteRelease(j)
    <3>1. PICK S \in SUBSET Scopes : ReleaseAll(HostOf[j], S) /\ S \cap live = {}
        BY <2>4, ReleasesDeleted
    <3>2. \A s \in S : vm[s] = NoOne
        BY <3>1 DEF SessInv, DeletedIsIdle
    <3>3. \A h \in Hosts : \A s \in Scopes \ S : owned'[h][s] = owned[h][s]
        BY <1>0, <3>1 DEF ReleaseAll, SessTypeOK
    <3>4. host' = host
        BY <2>4 DEF DeleteRelease, shutdown
    <3>5. QED
        BY <1>0, <1>1, <2>1, <3>2, <3>3, <3>4
  <2>5. QED
      BY <1>0, <1>3, <2>2, <2>3, <2>4, TaskSteps
<1>4. ASSUME NEW h \in Hosts, ShutDown(h) \/ Die(h) PROVE VmLeased'
  <2>1. vm' = vm /\ host'[h] # "up"
      BY <1>0, <1>4 DEF ShutDown, Die, SessTypeOK
  <2>2. \A g \in Hosts \ {h} : host'[g] = host[g] /\ owned'[g] = owned[g]
      BY <1>0, <1>4 DEF ShutDown, Die, SessTypeOK
  <2>3. QED
      BY <1>1, <2>1, <2>2
<1>5. ASSUME NEW h \in Hosts, ShutDownDrop(h) PROVE VmLeased'
    BY <1>0, <1>1, <1>5 DEF ShutDownDrop, SessTypeOK, locks
<1>6. ASSUME NEW h \in Hosts, NEW s \in Scopes, ShutDownScope(h, s) PROVE VmLeased'
    BY <1>0, <1>1, <1>6 DEF ShutDownScope, SessTypeOK, locks
<1>7. CASE UNCHANGED sessVars
    BY <1>1, <1>7 DEF sessVars
<1>8. QED
    BY <1>2, <1>3, <1>4, <1>5, <1>6, <1>7 DEF SessNext, Closes

\* A shutdown keeps the leases of every machine of its process until it lets go.
LEMMA ClosingStep ==
  ASSUME SessInv, [SessNext]_sessVars
  PROVE  ClosingLeases'
<1>0. /\ SessTypeOK /\ ClosingLeases /\ NoOne \notin Hosts
      /\ \A j \in Jobs : HostOf[j] \in Hosts /\ op[j].on \in Scopes
      /\ \A s \in Scopes : vm[s] \in Hosts \cup {NoOne}
    BY SessAssumption DEF SessAssumption, SessInv, SessTypeOK
<1>1. ASSUME \A s \in Scopes : vm'[s] \in {vm[s], NoOne}, UNCHANGED <<host, closing>>,
             \A h \in Hosts : sweep'[h] \subseteq sweep[h]
      PROVE  ClosingLeases'
    BY <1>0, <1>1 DEF ClosingLeases
<1>2. ASSUME NEW j \in Jobs, Requests(j) \/ JobAdvances(j) PROVE ClosingLeases'
  <2>1. UNCHANGED shutdown
      BY <1>0, <1>2, TaskSteps DEF Quiet, Claims, DeleteRelease
  <2>2. CASE \A s \in Scopes : vm'[s] \in {vm[s], NoOne}
      BY <1>1, <2>1, <2>2 DEF shutdown
  <2>3. CASE UseWork(j)
    <3>1. \A s \in Scopes : vm'[s] \in {vm[s], NoOne, HostOf[j]}
        BY <1>0, <2>3 DEF UseWork, SessTypeOK
    <3>2. host[HostOf[j]] = "up"
        BY <2>3 DEF UseWork, Stage, SessInv, HostsUp
    <3>3. QED
        BY <1>0, <2>1, <3>1, <3>2 DEF shutdown, ClosingLeases
  <2>4. QED
      BY <1>0, <1>2, <2>2, <2>3, OnlyUsersStart
<1>3. ASSUME NEW h \in Hosts, ShutDown(h) PROVE ClosingLeases'
  <2>1. /\ closing'[h] = LeasesOf(h) /\ sweep'[h] = {l[1] : l \in LeasesOf(h)} /\ vm' = vm
        /\ \A g \in Hosts \ {h} : UNCHANGED <<closing[g], sweep[g], host[g]>>
      BY <1>0, <1>3 DEF ShutDown, SessTypeOK
  <2>2. \A s \in sweep'[h] : \E f \in Nat : <<s, f>> \in LeasesOf(h)
      BY <1>0, <2>1, LeasesTyped
  <2>3. ASSUME NEW s \in Scopes, vm[s] = h PROVE \E f \in Nat : <<s, f>> \in LeasesOf(h)
    <3>1. owned[h][s] # 0 /\ owned[h][s] \in Nat
        BY <1>0, <1>3, <2>3 DEF ShutDown, SessInv, VmLeased, SessTypeOK
    <3>2. <<s, owned[h][s]>> \in LeasesOf(h)
        BY <3>1, LeaseMembers DEF Leased
    <3>3. QED
        BY <3>1, <3>2
  <2>4. QED
      BY <1>0, <2>1, <2>2, <2>3 DEF ClosingLeases
<1>4. ASSUME NEW h \in Hosts, NEW s \in Scopes, ShutDownScope(h, s) PROVE ClosingLeases'
    BY <1>0, <1>1, <1>4 DEF ShutDownScope, SessTypeOK
<1>5. ASSUME NEW h \in Hosts, ShutDownDrop(h) \/ Die(h) PROVE ClosingLeases'
  <2>1. /\ sweep'[h] = {} /\ host'[h] # "closing" /\ vm' = vm
        /\ \A g \in Hosts \ {h} : UNCHANGED <<closing[g], sweep[g], host[g]>>
      BY <1>0, <1>5 DEF ShutDownDrop, Die, SessTypeOK
  <2>2. QED
      BY <1>0, <2>1 DEF ClosingLeases
<1>6. CASE UNCHANGED sessVars
    BY <1>1, <1>6 DEF sessVars
<1>7. QED
    BY <1>2, <1>3, <1>4, <1>5, <1>6 DEF SessNext, Closes

\* The invariant is inductive, and so holds throughout.
LEMMA SessInvAlways == SessSpec => []SessInv
<1>1. SessInv /\ [SessNext]_sessVars => SessInv'
  <2> SUFFICES ASSUME SessInv, [SessNext]_sessVars PROVE SessInv'
      OBVIOUS
  <2>1. SessTypeOK' /\ Shape' /\ HostsUp' /\ LifecycleHeld'
      BY SessTypeStep, ControlStep DEF SessInv
  <2>2. LeaseFiles' /\ OneOwner' /\ Deleted' /\ DeletedIsIdle' /\ TaskLeases'
      BY OwnershipStep, DeletedStep, ReliesStep
  <2>3. ClosingLeases' /\ Recovered' /\ VmLeased'
      BY ClosingStep, RecoveredStep, VmLeasedStep
  <2>4. QED
      BY <2>1, <2>2, <2>3 DEF SessInv
<1>2. QED
    BY SessInvInit, <1>1, PTL DEF SessSpec

\* Whoever works in a scope finds it recovered.
LEMMA InvRecoveredFirst == SessInv => RecoveredFirst
<1> SUFFICES ASSUME SessInv, NEW j \in Jobs, Stage(j, "use", "work")
             PROVE  vm[op[j].on] \in {NoOne, HostOf[j]}
    BY DEF RecoveredFirst
<1>1. PICK f \in Nat : op[j].has = {<<op[j].on, f>>} /\ <<op[j].on, f>> \in LeasesOf(HostOf[j])
    BY UserLease DEF Stage
<1>2. <<op[j].on, f>> \in recovered
    BY <1>1 DEF Stage, SessInv, TaskLeases, Relies
<1>3. HostOf[j] \in Hosts
    BY SessAssumption DEF SessAssumption
<1>4. QED
    BY <1>1, <1>2, <1>3 DEF SessInv, Recovered

--------------------------------------------------------------------------------

\* A scope that exists is leased by one process at a time, with one lease, on the
\* file that has the lock's name, although lock files come and go: LocalSessions of
\* sessions.rs, whatever processes die, shut down, delete and fork.
THEOREM OneOwnerCorrect == SessSpec => []OneOwner
<1>1. SessInv => OneOwner
    BY DEF SessInv
<1>2. QED
    BY SessInvAlways, <1>1, PTL

\* A running machine is leased by the process that started it, was stopped before
\* anyone else works in its scope, and is gone before its record is: the recovery,
\* deletion and release of basic.rs.
THEOREM MachinesCoveredCorrect == SessSpec => []MachinesCovered
<1>1. SessInv => MachinesCovered
    BY InvRecoveredFirst DEF SessInv, MachinesCovered
<1>2. QED
    BY SessInvAlways, <1>1, PTL

\* A process has a lease of every machine it runs, until it is closed or dead.
LEMMA MachineLease ==
  ASSUME SessInv, NEW s \in Scopes, NEW h \in Hosts, vm[s] = h, host[h] \in {"up", "closing"}
  PROVE  s \in live /\ \E f \in Nat : <<s, f>> \in LeasesOf(h)
<1>0. h # NoOne /\ SessTypeOK
    BY SessAssumption DEF SessAssumption, SessInv
<1>1. s \in live
    BY <1>0 DEF SessInv, DeletedIsIdle
<1>2. CASE host[h] = "up"
  <2>1. owned[h][s] # 0 /\ owned[h][s] \in Nat
      BY <1>0, <1>2 DEF SessInv, VmLeased, SessTypeOK
  <2>2. <<s, owned[h][s]>> \in LeasesOf(h)
      BY <2>1, LeaseMembers DEF Leased
  <2>3. QED
      BY <1>1, <2>1, <2>2
<1>3. CASE host[h] = "closing"
  <2>1. PICK f \in Nat : <<s, f>> \in closing[h]
      BY <1>3 DEF SessInv, ClosingLeases
  <2>2. <<s, f>> \in LeasesOf(h)
      BY <2>1, LeaseMembers DEF Leased
  <2>3. QED
      BY <1>1, <2>2
<1>4. QED
    BY <1>2, <1>3

\* Who stops a machine has a lease of its scope, and moves on as it does.
LEMMA WhoStops ==
  ASSUME SessInv, [SessNext]_sessVars, NEW s \in Scopes, vm'[s] # vm[s]
  PROVE  \E g \in Hosts : \E f \in Nat :
           /\ <<s, f>> \in LeasesOf(g)
           /\ sweep'[g] # sweep[g] \/ \E j \in Jobs : HostOf[j] = g /\ op'[j] # op[j]
<1>0. /\ SessTypeOK /\ op \in [Jobs -> Ops]
      /\ \A j \in Jobs : HostOf[j] \in Hosts /\ op[j].on \in Scopes
    BY SessAssumption DEF SessAssumption, SessInv, SessTypeOK, Ops
<1>1. ASSUME NEW j \in Jobs, UseRecover(j) \/ UseWork(j)
      PROVE  op'[j] # op[j] /\ \E f \in Nat : <<s, f>> \in LeasesOf(HostOf[j])
  <2>1. s = op[j].on
      BY <1>0, <1>1 DEF UseRecover, UseWork, SessTypeOK
  <2>2. op[j].kind = "use" /\ op[j].at \in {"recover", "work"}
      BY <1>1 DEF UseRecover, UseWork, Stage
  <2>3. Finished(j) \/ (op[j].at = "recover" /\ Moved(j, "work", op[j].has))
      BY <1>0, <1>1, Moves DEF UseRecover, UseWork, Stage
  <2>4. op'[j].at # op[j].at
      BY <1>0, <2>2, <2>3 DEF Finished, NoOp, Moved
  <2>5. QED
      BY <2>1, <2>2, <2>4, UserLease
<1>2. ASSUME NEW j \in Jobs, DeleteTerminate(j)
      PROVE  op'[j] # op[j] /\ \E f \in Nat : <<s, f>> \in LeasesOf(HostOf[j])
  <2>1. s \in Doomed(j) /\ op[j].at = "terminate"
      BY <1>0, <1>2 DEF DeleteTerminate, SessTypeOK
  <2>2. PICK f \in Nat : <<s, f>> \in op[j].has
      BY <2>1 DEF SessInv, TaskLeases, Relies
  <2>3. <<s, f>> \in LeasesOf(HostOf[j])
      BY <2>2, LeaseMembers DEF Leased
  <2>4. Finished(j) \/ Moved(j, "recheck", op[j].has)
      BY <1>0, <1>2, Moves DEF DeleteTerminate, GiveUp
  <2>5. op'[j].at # op[j].at
      BY <1>0, <2>1, <2>4 DEF Finished, NoOp, Moved
  <2>6. QED
      BY <2>3, <2>5
<1>3. ASSUME NEW j \in Jobs, Requests(j) \/ JobAdvances(j)
      PROVE  UseRecover(j) \/ UseWork(j) \/ DeleteTerminate(j)
  <2>1. ~Requests(j)
      BY DEF Requests, BeginUse, BeginDeleteThread, BeginFork, BeginDeleteAgent,
         BeginNewThread, Begin
  <2>2. ~(TakeLifecycle(j) \/ TakeAgentLock(j) \/ TakeThreadLock(j) \/ UseOwns(j)
          \/ UseClaim(j) \/ CreateThread(j) \/ DeleteKeys(j) \/ DeleteClaim(j)
          \/ DeleteRecheck(j) \/ DeleteRelease(j))
      BY DEF TakeLifecycle, TakeAgentLock, TakeThreadLock, UseOwns, UseClaim, CreateThread,
         DeleteKeys, DeleteClaim, DeleteRecheck, DeleteRelease
  <2>3. QED
      BY <1>3, <2>1, <2>2 DEF JobAdvances, UseStep, DeleteStep
<1>4. ASSUME NEW h \in Hosts, ShutDown(h) \/ Closes(h) \/ Die(h)
      PROVE  sweep'[h] # sweep[h] /\ \E f \in Nat : <<s, f>> \in LeasesOf(h)
  <2>1. ShutDownScope(h, s)
      BY <1>0, <1>4 DEF ShutDown, Closes, ShutDownScope, ShutDownDrop, Die, SessTypeOK
  <2>2. s \in sweep[h] /\ s \notin sweep'[h]
      BY <1>0, <2>1 DEF ShutDownScope, SessTypeOK
  <2>3. PICK f \in Nat : <<s, f>> \in closing[h]
      BY <2>2 DEF SessInv, ClosingLeases
  <2>4. <<s, f>> \in LeasesOf(h)
      BY <2>3, LeaseMembers DEF Leased
  <2>5. QED
      BY <2>2, <2>4
<1>5. SessNext
    BY DEF sessVars
<1>6. QED
    BY <1>0, <1>1, <1>2, <1>3, <1>4, <1>5 DEF SessNext

\* A machine of a process that is up or shutting down is stopped by that process
\* only: no recovery, deletion or shutdown elsewhere takes it away.
THEOREM OthersVmsKeptCorrect == SessSpec => OthersVmsKept
<1> DEFINE Kept == \A s \in Scopes : \A h \in Hosts :
                     vm[s] = h /\ host[h] \in {"up", "closing"} /\ vm'[s] # h =>
                       \/ sweep'[h] # sweep[h]
                       \/ \E j \in Jobs : HostOf[j] = h /\ op'[j] # op[j]
<1>1. SessInv /\ [SessNext]_sessVars => [Kept]_sessVars
  <2> SUFFICES ASSUME SessInv, [SessNext]_sessVars, NEW s \in Scopes, NEW h \in Hosts,
                      vm[s] = h, host[h] \in {"up", "closing"}, vm'[s] # h
               PROVE  \/ sweep'[h] # sweep[h]
                      \/ \E j \in Jobs : HostOf[j] = h /\ op'[j] # op[j]
      OBVIOUS
  <2>1. PICK e \in Nat : <<s, e>> \in LeasesOf(h)
      BY MachineLease
  <2>2. PICK g \in Hosts, f \in Nat :
           /\ <<s, f>> \in LeasesOf(g)
           /\ sweep'[g] # sweep[g] \/ \E j \in Jobs : HostOf[j] = g /\ op'[j] # op[j]
      BY WhoStops
  <2>3. g = h
      BY <2>1, <2>2, MachineLease DEF SessInv, OneOwner
  <2>4. QED
      BY <2>2, <2>3
<1>2. QED
    BY SessInvAlways, <1>1, PTL DEF SessSpec, OthersVmsKept
================================================================================
