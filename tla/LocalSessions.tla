----------------------------- MODULE LocalSessions -----------------------------
(***************************************************************************)
(* LocalSessions of crates/exoharness/src/basic/sessions.rs and the        *)
(* operations of basic.rs that claim, release or hold out for a session:   *)
(* processes that share one state directory, and in each of them tasks     *)
(* that use the sandboxes of a scope, create, fork and delete threads and  *)
(* delete the agent.  A lease is the advisory lock on a file of            *)
(* sessions/<agent>/, which lasts while a map, a task or a shutdown keeps  *)
(* the open file.  A file that loses its name stays locked; the next       *)
(* process to open the name makes a new file.                              *)
(***************************************************************************)
EXTENDS Naturals, FiniteSets

CONSTANTS Hosts,      \* processes that share the state directory
          Jobs,       \* tasks
          HostOf,     \* the process of a task
          Threads,    \* thread ids; an id is never used twice
          Agent,      \* the agent's own scope
          Existing,   \* the threads there are at the start
          NoOne,      \* no process, no task
          Rounds,     \* attempts of a deletion (5 in the code)
          MaxJobs,    \* bound: operations begun
          MayFork     \* fork is among them

Scopes == Threads \cup {Agent}

ASSUME SessAssumption ==
  /\ HostOf \in [Jobs -> Hosts] /\ Existing \subseteq Threads
  /\ Agent \notin Threads /\ NoOne \notin Hosts \cup Jobs
  /\ Rounds \in Nat \ {0} /\ MaxJobs \in Nat /\ MayFork \in BOOLEAN

VARIABLES name,      \* per scope: the file that has the lock's name, or 0
          made,      \* per scope: how many lock files were created
          owned,     \* SessionState.leases: per process and scope the locked file
          recovered, \* <<scope, file>> whose present lease has its OnceCell set
          lifecycle, \* the task that has lifecycle.lock locked
          op,        \* per task: what it does
          live,      \* scopes whose record exists
          vm,        \* per scope: the process that started its running sandbox
          host,      \* per process: "up", "closing", "closed" or "dead"
          closing,   \* per process: leases that release_local_sessions took
          sweep,     \* per process: scopes it has still to stop
          begun      \* how many operations began

sessVars == <<name, made, owned, recovered, lifecycle, op, live, vm, host, closing,
              sweep, begun>>

locks == <<name, made, owned, recovered>>
shutdown == <<host, closing, sweep>>

\* res: the resource locks held, per process read or write on the agent and
\* write on a thread.  has: the leases the task keeps alive.
NoOp == [kind |-> "none", on |-> Agent, at |-> "idle", res |-> {}, has |-> {},
         round |-> 0]

SessInit ==
  /\ name = [s \in Scopes |-> 0]
  /\ made = [s \in Scopes |-> 0]
  /\ owned = [h \in Hosts |-> [s \in Scopes |-> 0]]
  /\ recovered = {}
  /\ lifecycle = NoOne
  /\ op = [j \in Jobs |-> NoOp]
  /\ live = Existing \cup {Agent}
  /\ vm = [s \in Scopes |-> NoOne]
  /\ host = [h \in Hosts |-> "up"]
  /\ closing = [h \in Hosts |-> {}]
  /\ sweep = [h \in Hosts |-> {}]
  /\ begun = 0

--------------------------------------------------------------------------------

\* Every lease that process h keeps alive, as <<scope, file>>.
LeasesOf(h) ==
  {<<s, owned[h][s]>> : s \in {z \in Scopes : owned[h][z] # 0}}
    \cup (UNION {op[j].has : j \in {k \in Jobs : HostOf[k] = h}})
    \cup closing[h]

Flocked(s, f) == \E h \in Hosts : <<s, f>> \in LeasesOf(h)

\* open_lease of each scope of S that h has no lease of.
New(h, S) == {s \in S : owned[h][s] = 0}
Opened(s) == IF name[s] = 0 THEN made[s] + 1 ELSE name[s]

MayClaim(h, S) ==
  /\ host[h] = "up"
  /\ \A s \in New(h, S) : ~Flocked(s, Opened(s))

\* claim and claim_all: publish every lease, or none.
Publish(h, S) ==
  LET new == New(h, S)
      opened == {<<s, Opened(s)>> : s \in new}
  IN
  /\ owned' = [owned EXCEPT ![h] =
                 [s \in Scopes |-> IF s \in new THEN Opened(s) ELSE owned[h][s]]]
  /\ name' = [s \in Scopes |-> IF s \in new THEN Opened(s) ELSE name[s]]
  /\ made' = [s \in Scopes |-> IF s \in new /\ name[s] = 0 THEN made[s] + 1 ELSE made[s]]
  /\ recovered' = recovered \ opened

\* The leases that claim and claimed return once Publish(h, S) is done.
Returned(h, S) ==
  {<<s, IF owned[h][s] = 0 THEN Opened(s) ELSE owned[h][s]>> : s \in S}

\* release of S: out of the map, then the name is removed.
ReleaseAll(h, S) ==
  /\ owned' = [owned EXCEPT ![h] = [s \in Scopes |-> IF s \in S THEN 0 ELSE owned[h][s]]]
  /\ name' = [s \in Scopes |-> IF s \in S /\ owned[h][s] # 0 THEN 0 ELSE name[s]]
  /\ UNCHANGED <<made, recovered>>

--------------------------------------------------------------------------------

Stage(j, kind, at) == op[j].kind = kind /\ op[j].at = at
Goto(j, at) == op' = [op EXCEPT ![j].at = at]
Finished(j) == op' = [op EXCEPT ![j] = NoOp]
Siblings(j) == {k \in Jobs \ {j} : HostOf[k] = HostOf[j]}

Unlock(j) == lifecycle' = IF lifecycle = j THEN NoOne ELSE lifecycle
GiveUp(j) == Finished(j) /\ Unlock(j)

Begin(j, kind, s, at) ==
  /\ op[j].kind = "none" /\ host[HostOf[j]] = "up" /\ begun < MaxJobs
  /\ op' = [op EXCEPT ![j] = [NoOp EXCEPT !.kind = kind, !.on = s, !.at = at]]
  /\ begun' = begun + 1
  /\ UNCHANGED <<locks, lifecycle, live, vm, shutdown>>

\* An id no thread ever had; the model has one for each creation under way.
Fresh(s) == s \in Threads \ live /\ made[s] = 0
Spare ==
  Cardinality({s \in Threads : Fresh(s)})
    > Cardinality({j \in Jobs : op[j].kind \in {"newThread", "fork"}})

BeginUse(j, s) == s \in live /\ Begin(j, "use", s, "owns")
BeginDeleteThread(j, s) == s \in live /\ Begin(j, "deleteThread", s, "agentLock")
BeginDeleteAgent(j) == Begin(j, "deleteAgent", Agent, "agentLock")
BeginNewThread(j) == Spare /\ Begin(j, "newThread", Agent, "lifecycle")
BeginFork(j, s) == MayFork /\ Spare /\ s \in live /\ Begin(j, "fork", s, "lifecycle")

\* agent_change.  The lock is per open file: a task of the same process waits
\* for it as well.
TakeLifecycle(j) ==
  /\ op[j].kind # "use" /\ op[j].at = "lifecycle" /\ lifecycle = NoOne
  /\ lifecycle' = j
  /\ Goto(j, IF op[j].kind = "fork" THEN "agentLock" ELSE "claim")
  /\ UNCHANGED <<locks, live, vm, shutdown, begun>>

\* The agent's resource lock: write for delete_agent, read for the others.  The order
\* in which the waiting get it is free, though a reader does not pass a writer that
\* waits: more orders than the lock allows.
TakeAgentLock(j) ==
  LET mode == IF op[j].kind = "deleteAgent" THEN "write" ELSE "read" IN
  /\ op[j].at = "agentLock"
  /\ \A k \in Siblings(j) :
       "write" \notin op[k].res /\ (mode = "write" => "read" \notin op[k].res)
  /\ op' = [op EXCEPT ![j].res = @ \cup {mode},
                      ![j].at = IF mode = "write" THEN "keys" ELSE "threadLock"]
  /\ UNCHANGED <<locks, lifecycle, live, vm, shutdown, begun>>

TakeThreadLock(j) ==
  /\ op[j].at = "threadLock"
  /\ \A k \in Siblings(j) : op[j].on \notin op[k].res
  /\ op' = [op EXCEPT ![j].res = @ \cup {op[j].on},
                      ![j].at = IF op[j].kind = "fork" THEN "write" ELSE "keys"]
  /\ UNCHANGED <<locks, lifecycle, live, vm, shutdown, begun>>

--------------------------------------------------------------------------------

\* claim_local_scope: owns, then either claim or the locked record check.
UseOwns(j) ==
  /\ Stage(j, "use", "owns")
  /\ Goto(j, IF owned[HostOf[j]][op[j].on] # 0 THEN "claim" ELSE "lifecycle")
  /\ UNCHANGED <<locks, lifecycle, live, vm, shutdown, begun>>

OwnerExists(j) == op[j].at = "lifecycle" => op[j].on \in live

\* Nothing between taking and dropping lifecycle.lock waits for another task.
UseClaim(j) ==
  LET h == HostOf[j] IN
  /\ op[j].kind = "use" /\ op[j].at \in {"claim", "lifecycle"}
  /\ op[j].at = "lifecycle" => lifecycle = NoOne
  /\ \/ /\ OwnerExists(j) /\ MayClaim(h, {op[j].on})
        /\ Publish(h, {op[j].on})
        /\ op' = [op EXCEPT ![j].has = Returned(h, {op[j].on}), ![j].at = "recover"]
     \/ /\ ~(OwnerExists(j) /\ MayClaim(h, {op[j].on}))
        /\ Finished(j)
        /\ UNCHANGED locks
  /\ UNCHANGED <<lifecycle, live, vm, shutdown, begun>>

\* Mutant: a new lease counts as recovered.
MutUseRecover(j) ==
  /\ Stage(j, "use", "recover")
  /\ Goto(j, "work")
  /\ UNCHANGED <<locks, lifecycle, live, vm, shutdown, begun>>

\* lease.recovered: the first user stops what the previous owner left.
UseRecover(j) ==
  /\ Stage(j, "use", "recover")
  /\ \/ /\ op[j].has \subseteq recovered
        /\ Goto(j, "work") /\ UNCHANGED <<recovered, vm>>
     \/ /\ ~(op[j].has \subseteq recovered)
        /\ vm' = [vm EXCEPT ![op[j].on] = NoOne]
        /\ recovered' = recovered \cup op[j].has
        /\ Goto(j, "work")
     \/ /\ ~(op[j].has \subseteq recovered) /\ vm[op[j].on] # NoOne
        /\ Finished(j) /\ UNCHANGED <<recovered, vm>>
  /\ UNCHANGED <<name, made, owned, lifecycle, live, shutdown, begun>>

MayStart(j) == op[j].on \in live

\* What the lease is for: a sandbox of the scope is started, stopped or left.
UseWork(j) ==
  /\ Stage(j, "use", "work")
  /\ \/ MayStart(j) /\ vm' = [vm EXCEPT ![op[j].on] = HostOf[j]]
     \/ vm' = [vm EXCEPT ![op[j].on] = NoOne]
     \/ UNCHANGED vm
  /\ Finished(j)
  /\ UNCHANGED <<locks, lifecycle, live, shutdown, begun>>

UseStep(j) == UseOwns(j) \/ UseClaim(j) \/ UseRecover(j) \/ UseWork(j)

--------------------------------------------------------------------------------

\* new_conversation after agent_change, and fork once it has all its locks:
\* the record and its lease, both under lifecycle.lock.
CreateThread(j) ==
  LET h == HostOf[j] IN
  /\ Stage(j, "newThread", "claim") \/ Stage(j, "fork", "write")
  /\ \/ /\ Agent \in live
        /\ \E s \in Threads : /\ Fresh(s) /\ MayClaim(h, {s})
                              /\ live' = live \cup {s}
                              /\ Publish(h, {s})
     \/ Agent \notin live /\ UNCHANGED <<live, locks>>
  /\ GiveUp(j)
  /\ UNCHANGED <<vm, shutdown, begun>>

--------------------------------------------------------------------------------

\* The scopes of a deletion, and list_keys of its directory.
Doomed(j) == IF op[j].kind = "deleteAgent" THEN live \cup {Agent} ELSE {op[j].on}
NoKeys(j) == op[j].on \notin live

DeleteKeys(j) ==
  /\ op[j].at = "keys"
  /\ IF NoKeys(j) THEN Finished(j) ELSE Goto(j, "lifecycle")
  /\ UNCHANGED <<locks, lifecycle, live, vm, shutdown, begun>>

Deletions == {"deleteThread", "deleteAgent"}

DeleteClaim(j) ==
  LET h == HostOf[j] IN
  /\ op[j].kind \in Deletions /\ op[j].at = "claim"
  /\ \/ /\ MayClaim(h, Doomed(j))
        /\ Publish(h, Doomed(j))
        /\ op' = [op EXCEPT ![j].has = Returned(h, Doomed(j)), ![j].at = "terminate"]
        /\ UNCHANGED lifecycle
     \/ /\ ~MayClaim(h, Doomed(j))
        /\ GiveUp(j) /\ UNCHANGED locks
  /\ UNCHANGED <<live, vm, shutdown, begun>>

\* Mutant: the sandboxes of the whole agent are terminated for one thread.
MutDeleteTerminate(j) ==
  /\ op[j].at = "terminate"
  /\ vm' = [s \in Scopes |-> NoOne]
  /\ Goto(j, "recheck")
  /\ UNCHANGED <<locks, lifecycle, live, shutdown, begun>>

\* terminate_managed_sandboxes of every scope; a failure ends the deletion with
\* the scopes before it terminated.
DeleteTerminate(j) ==
  /\ op[j].at = "terminate"
  /\ \E S \in SUBSET Doomed(j) :
       /\ vm' = [s \in Scopes |-> IF s \in S THEN NoOne ELSE vm[s]]
       /\ \/ S = Doomed(j) /\ Goto(j, "recheck") /\ UNCHANGED lifecycle
          \/ (\E s \in Doomed(j) \ S : vm[s] # NoOne) /\ GiveUp(j)
  /\ UNCHANGED <<locks, live, shutdown, begun>>

\* prepare_sandbox_scopes_for_deletion
AcquiredAgain(j) == \E s \in Doomed(j) : vm[s] # NoOne

MayRetry(j) == op[j].round + 1 < Rounds

\* Under write_lock.
DeleteRecheck(j) ==
  /\ op[j].at = "recheck"
  /\ \/ NoKeys(j) /\ GiveUp(j) /\ UNCHANGED live
     \/ /\ ~NoKeys(j) /\ AcquiredAgain(j) /\ UNCHANGED live
        /\ \/ /\ MayRetry(j)
              /\ op' = [op EXCEPT ![j].round = @ + 1, ![j].at = "terminate"]
              /\ UNCHANGED lifecycle
           \/ ~MayRetry(j) /\ GiveUp(j)
     \/ /\ ~NoKeys(j) /\ ~AcquiredAgain(j)
        /\ live' = live \ Doomed(j)
        /\ Goto(j, "release") /\ UNCHANGED lifecycle
  /\ UNCHANGED <<locks, vm, shutdown, begun>>

\* release, or release_agent: whatever the process has of the agent.
DeleteRelease(j) ==
  /\ op[j].at = "release"
  /\ ReleaseAll(HostOf[j], IF op[j].kind = "deleteAgent" THEN Scopes ELSE {op[j].on})
  /\ GiveUp(j)
  /\ UNCHANGED <<live, vm, shutdown, begun>>

DeleteStep(j) ==
  DeleteKeys(j) \/ DeleteClaim(j) \/ DeleteTerminate(j) \/ DeleteRecheck(j) \/ DeleteRelease(j)

JobAdvances(j) ==
  TakeLifecycle(j) \/ TakeAgentLock(j) \/ TakeThreadLock(j) \/ UseStep(j)
    \/ CreateThread(j) \/ DeleteStep(j)

--------------------------------------------------------------------------------

\* Mutant: a shutdown removes the names of its locks as a deletion does.
MutShutDown(h) ==
  /\ host[h] = "up" /\ \A j \in Jobs : HostOf[j] = h => op[j].kind = "none"
  /\ host' = [host EXCEPT ![h] = "closing"]
  /\ closing' = [closing EXCEPT ![h] = LeasesOf(h)]
  /\ sweep' = [sweep EXCEPT ![h] = {l[1] : l \in LeasesOf(h)}]
  /\ ReleaseAll(h, Scopes)
  /\ UNCHANGED <<lifecycle, op, live, vm, begun>>

\* release_local_sessions runs when execution has drained.
ShutDown(h) ==
  /\ host[h] = "up" /\ \A j \in Jobs : HostOf[j] = h => op[j].kind = "none"
  /\ host' = [host EXCEPT ![h] = "closing"]
  /\ closing' = [closing EXCEPT ![h] = LeasesOf(h)]
  /\ sweep' = [sweep EXCEPT ![h] = {l[1] : l \in LeasesOf(h)}]
  /\ owned' = [owned EXCEPT ![h] = [s \in Scopes |-> 0]]
  /\ UNCHANGED <<name, made, recovered, lifecycle, op, live, vm, begun>>

\* A sandbox that cannot be stopped is left running.
ShutDownScope(h, s) ==
  /\ host[h] = "closing" /\ s \in sweep[h]
  /\ \/ vm' = [vm EXCEPT ![s] = NoOne]
     \/ vm[s] # NoOne /\ UNCHANGED vm
  /\ sweep' = [sweep EXCEPT ![h] = @ \ {s}]
  /\ UNCHANGED <<locks, lifecycle, op, live, host, closing, begun>>

ShutDownDrop(h) ==
  /\ host[h] = "closing" /\ sweep[h] = {}
  /\ host' = [host EXCEPT ![h] = "closed"]
  /\ closing' = [closing EXCEPT ![h] = {}]
  /\ UNCHANGED <<locks, lifecycle, op, live, vm, sweep, begun>>

\* The process dies: its locks go, its sandboxes run on.
Die(h) ==
  /\ host[h] \in {"up", "closing"}
  /\ host' = [host EXCEPT ![h] = "dead"]
  /\ closing' = [closing EXCEPT ![h] = {}]
  /\ sweep' = [sweep EXCEPT ![h] = {}]
  /\ owned' = [owned EXCEPT ![h] = [s \in Scopes |-> 0]]
  /\ op' = [j \in Jobs |-> IF HostOf[j] = h THEN NoOp ELSE op[j]]
  /\ lifecycle' = IF lifecycle # NoOne /\ HostOf[lifecycle] = h THEN NoOne ELSE lifecycle
  /\ UNCHANGED <<name, made, recovered, live, vm, begun>>

--------------------------------------------------------------------------------

Requests(j) ==
  \/ \E s \in Scopes : BeginUse(j, s)
  \/ \E s \in Threads : BeginDeleteThread(j, s) \/ BeginFork(j, s)
  \/ BeginDeleteAgent(j) \/ BeginNewThread(j)

Closes(h) == ShutDownDrop(h) \/ \E s \in Scopes : ShutDownScope(h, s)

SessNext ==
  \/ \E j \in Jobs : Requests(j) \/ JobAdvances(j)
  \/ \E h \in Hosts : ShutDown(h) \/ Closes(h) \/ Die(h)

\* A task that can go on does; a shutdown that began goes on.
SessFairness ==
  /\ \A j \in Jobs : WF_sessVars(JobAdvances(j))
  /\ \A h \in Hosts : WF_sessVars(Closes(h))

SessSpec == SessInit /\ [][SessNext]_sessVars
FairSessSpec == SessSpec /\ SessFairness

--------------------------------------------------------------------------------

\* Types; a deletion makes at most Rounds attempts.
SessTypeOK ==
  /\ name \in [Scopes -> Nat] /\ made \in [Scopes -> Nat]
  /\ owned \in [Hosts -> [Scopes -> Nat]]
  /\ recovered \subseteq Scopes \X Nat
  /\ lifecycle \in Jobs \cup {NoOne}
  /\ op \in [Jobs -> [kind : Deletions \cup {"none", "use", "newThread", "fork"},
                      on : Scopes,
                      at : {"idle", "owns", "lifecycle", "agentLock", "threadLock",
                            "keys", "claim", "recover", "work", "write",
                            "terminate", "recheck", "release"},
                      res : SUBSET ({"read", "write"} \cup Threads),
                      has : SUBSET (Scopes \X Nat),
                      round : 0..Rounds - 1]]
  /\ live \subseteq Scopes /\ vm \in [Scopes -> Hosts \cup {NoOne}]
  /\ host \in [Hosts -> {"up", "closing", "closed", "dead"}]
  /\ closing \in [Hosts -> SUBSET (Scopes \X Nat)]
  /\ sweep \in [Hosts -> SUBSET Scopes]
  /\ begun \in 0..MaxJobs

\* All leases of a scope that exists are one lease, of one process, on the file
\* that has the lock's name: what a process has locked is what the next one
\* tries to lock, although lock files are removed and created again.
OneOwner ==
  \A s \in live : \A g, h \in Hosts : \A l \in LeasesOf(g) : \A m \in LeasesOf(h) :
    l[1] = s /\ m[1] = s => g = h /\ l = m /\ l[2] = name[s]

\* The running sandbox of a process that is up is covered by a lease of it: no
\* deletion or release takes the lease away and leaves the machine.
VmLeased ==
  \A s \in Scopes : vm[s] # NoOne /\ host[vm[s]] = "up" => owned[vm[s]][s] # 0

\* Whoever works in a scope finds no machine of an earlier owner there.
RecoveredFirst ==
  \A j \in Jobs : Stage(j, "use", "work") => vm[op[j].on] \in {NoOne, HostOf[j]}

\* No machine outlives the record of its thread or agent.
DeletedIsIdle == \A s \in Scopes \ live : vm[s] = NoOne

\* A machine has an owner: it runs under a lease of the process that started it, is
\* stopped before another process works in its scope, and goes with the record.
MachinesCovered == VmLeased /\ RecoveredFirst /\ DeletedIsIdle

\* A machine of a process that is up or shutting down goes away only in a step
\* of that process: no recovery, deletion or shutdown of another one stops it.
OthersVmsKept ==
  [][\A s \in Scopes : \A h \in Hosts :
       vm[s] = h /\ host[h] \in {"up", "closing"} /\ vm'[s] # h =>
         \/ sweep'[h] # sweep[h]
         \/ \E j \in Jobs : HostOf[j] = h /\ op'[j] # op[j]]_sessVars

\* fork waits for resource locks with lifecycle.lock in its hand, a deletion of
\* the same process for lifecycle.lock with resource locks in its hand.
ForkAndDeleteWait ==
  \E f, d \in Jobs :
    /\ op[f].kind = "fork" /\ lifecycle = f /\ d \in Siblings(f)
    /\ op[d].kind \in Deletions /\ op[d].at = "lifecycle"

\* However many operations are under way (the model begins MaxJobs), in the end
\* all have ended: nobody waits for ever for lifecycle.lock or a resource lock,
\* whatever dies or is refused, unless a fork and a deletion of one process wait
\* for each other.
OpsEnd == []<>((\A j \in Jobs : op[j].kind = "none") \/ ForkAndDeleteWait)

\* "A short namespace guard prevents agent deletion racing thread creation or a
\* new ownership claim. It is never held for a session's lifetime": whoever has
\* lifecycle.lock gives it back.
NamespaceGuardIsShort == \A j \in Jobs : lifecycle = j ~> lifecycle # j
================================================================================
