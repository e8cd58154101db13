--------------------------- MODULE SnapshotTemplates ---------------------------
(***************************************************************************)
(* The snapshot templates of a Firecracker state root in                   *)
(* crates/exoharness/src/sandbox_provider/firecracker.rs: directories that *)
(* are captured from one running machine, for a fork or as a snapshot, and *)
(* from which machines are restored.  A restore holds a shared lock on the *)
(* lease file of the directory until the manifest of its machine refers to *)
(* it; the reaper removes what nothing refers to under an exclusive lock.  *)
(* Removal takes one file after the other.                                 *)
(***************************************************************************)
EXTENDS Naturals, FiniteSets

CONSTANTS Clones,      \* machines to restore; an id is used for one fork
          ForkKeys,    \* fork_snapshot_template_key of a clone and the source
          SnapKeys,    \* keys of snapshots
          Helpers,     \* calls under way at once, taken in order
          MaxTplCalls, \* bound: calls begun
          MaxTplFaults \* bound: failing steps and crashes

TplKeys == {ForkKeys[m] : m \in Clones} \cup SnapKeys

\* The keys are digests of what tells them apart, the target's id or the snapshot's.
ASSUME TplAssumption ==
  /\ DOMAIN ForkKeys = Clones /\ TplKeys \subseteq Nat \ {0} /\ Helpers \subseteq Nat
  /\ 0 \notin Clones /\ \A m \in Clones : ForkKeys[m] \notin SnapKeys
  /\ \A m, n \in Clones : ForkKeys[m] = ForkKeys[n] => m = n
  /\ MaxTplCalls \in Nat /\ MaxTplFaults \in Nat

VARIABLES dir,      \* per key: "none", "full" or, while it is removed, "torn"
          inode,    \* per key: the lease file, 0 if there is none
          deleted,  \* keys with the file that snapshot deletion leaves
          aged,     \* keys whose lease file is older than SNAPSHOT_MAX_AGE
          refers,   \* per clone: the template its manifest names, or 0
          running,  \* clones that run
          wedged,   \* the source's snapshot-pending file was left behind
          task,     \* per helper: its call
          remade,   \* history: keys whose lease file was made anew in a torn directory
          keysUsed, \* history: keys a fork or a snapshot has taken; each is new
          loose,    \* <<clone, key>> of the manifests that dropped calls still write
          unheld,   \* clones whose manifest such a call wrote, without the lease
          tplCalls, tplFaults

tplVars == <<dir, inode, deleted, aged, refers, running, wedged, task, remade, keysUsed,
             loose, unheld, tplCalls, tplFaults>>

dirs == <<dir, inode, deleted, aged>>
clones == <<refers, running>>
drops == <<loose, unheld>>
tplPast == <<remade, keysUsed, drops>>
tplBounds == <<tplCalls, tplFaults>>

\* key, to: the template and the clone.  seen, todo: the reaper's references and
\* entries.  file, mode: the lease file opened and the lock on it.
NoTask == [kind |-> "none", key |-> 0, to |-> 0, at |-> "idle", seen |-> {}, todo |-> {},
           victim |-> 0, file |-> 0, mode |-> "none"]

TplInit ==
  /\ dir = [k \in TplKeys |-> "none"] /\ inode = [k \in TplKeys |-> 0]
  /\ deleted = {} /\ aged = {} /\ refers = [m \in Clones |-> 0] /\ running = {}
  /\ wedged = FALSE /\ task = [h \in Helpers |-> NoTask] /\ remade = {} /\ keysUsed = {}
  /\ loose = {} /\ unheld = {} /\ tplCalls = 0 /\ tplFaults = 0

IsFork(k) == k \notin SnapKeys
Referenced == {refers[m] : m \in Clones} \ {0}
On(h, stage) == task[h].at = stage
Moves(h, stage) == task' = [task EXCEPT ![h].at = stage]
Done(h) == task' = [task EXCEPT ![h] = NoTask]
TplFault == tplFaults < MaxTplFaults /\ tplFaults' = tplFaults + 1
Captures == {"snapshot", "fork"}
\* The entry of task that has file f of directory k open.
HasFile(h, k, f) ==
  /\ task[h].file = f
  /\ k = IF task[h].victim # 0 THEN task[h].victim ELSE task[h].key
LockedBy(k, f, modes) == {h \in Helpers : HasFile(h, k, f) /\ task[h].mode \in modes}

\* A call begins when it has its lifecycle locks: of the source, of the clone, or
\* of both.
BeginsTpl(h, kind, k, m, stage) ==
  /\ tplCalls < MaxTplCalls /\ On(h, "idle")
  /\ \A x \in Helpers : x < h => task[x].at # "idle"
  /\ kind \in Captures => \A x \in Helpers : task[x].kind \notin Captures
  /\ m # 0 => \A x \in Helpers : task[x].to # m
  /\ task' = [task EXCEPT ![h] = [NoTask EXCEPT !.kind = kind, !.key = k, !.to = m, !.at = stage]]
  /\ tplCalls' = tplCalls + 1
  /\ UNCHANGED <<clones, wedged, remade, drops, tplFaults>>

\* capture_snapshot: the key is new.
Snapshot(h, k) ==
  /\ ~wedged /\ k \notin keysUsed /\ keysUsed' = keysUsed \cup {k}
  /\ BeginsTpl(h, "snapshot", k, 0, "refs") /\ UNCHANGED dirs
\* fork_sandbox.
Fork(h, m) ==
  /\ ~wedged /\ ForkKeys[m] \notin keysUsed /\ refers[m] = 0
  /\ BeginsTpl(h, "fork", ForkKeys[m], m, "refs")
  /\ keysUsed' = keysUsed \cup {ForkKeys[m]} /\ UNCHANGED dirs
\* acquire_from_snapshot.
Restore(h, k, m) ==
  /\ dir[k] # "none" /\ BeginsTpl(h, "restore", k, m, "check ready") /\ UNCHANGED <<dirs, keysUsed>>
\* delete_snapshot marks the directory and reaps.
Delete(h, k) ==
  /\ dir[k] # "none" /\ BeginsTpl(h, "delete", k, 0, "refs")
  /\ deleted' = deleted \cup {k} /\ UNCHANGED <<dir, inode, aged, keysUsed>>
ReapTemplates(h) == BeginsTpl(h, "reap", 0, 0, "refs") /\ UNCHANGED <<dirs, keysUsed>>
\* cleanup_machine, for any reason.
CleanClone(h, m) ==
  refers[m] # 0 /\ BeginsTpl(h, "clean", refers[m], m, "kill") /\ UNCHANGED <<dirs, keysUsed>>

-----------------------------------------------------------------------------
(* reap_orphaned_fork_snapshot_templates_blocking.                           *)

ReadRefs(h) ==
  /\ On(h, "refs")
  /\ task' = [task EXCEPT ![h].at = "pick", ![h].seen = Referenced,
                          ![h].todo = {k \in TplKeys : dir[k] # "none"}]
  /\ UNCHANGED <<dirs, clones, wedged, tplPast, tplBounds>>

\* What a reap was for.  Its error ends a capture or a deletion; others go on.
AfterReap(h, ok) ==
  IF task[h].kind \in Captures /\ ok
  THEN task' = [task EXCEPT ![h] = [NoTask EXCEPT !.kind = task[h].kind, !.key = task[h].key,
                                                  !.to = task[h].to, !.at = "capture"]]
  ELSE Done(h)

\* The next entry: one that is referred to, or neither a fork's nor deleted or too
\* old, is passed over.
PickTemplate(h) ==
  /\ On(h, "pick") /\ UNCHANGED <<dirs, clones, wedged, tplPast, tplBounds>>
  /\ \/ task[h].todo = {} /\ AfterReap(h, TRUE)
     \/ \E k \in task[h].todo :
          /\ \A x \in task[h].todo : k <= x
          /\ LET orphan == k \notin task[h].seen /\ (IsFork(k) \/ k \in deleted \cup aged)
                 unread == k \notin task[h].seen /\ ~IsFork(k) /\ k \notin deleted IN
             \/ /\ (orphan \/ unread) /\ inode[k] = 0 /\ dir[k] # "none" /\ AfterReap(h, FALSE)
             \/ /\ orphan /\ inode[k] # 0
                /\ task' = [task EXCEPT ![h].at = "try", ![h].victim = k, ![h].file = inode[k]]
             \/ /\ ~orphan \/ dir[k] = "none"
                /\ unread => inode[k] # 0 \/ dir[k] = "none"
                /\ task' = [task EXCEPT ![h].todo = @ \ {k}]

Passes(h) ==
  task' = [task EXCEPT ![h].at = "pick", ![h].todo = @ \ {task[h].victim}, ![h].victim = 0,
                       ![h].file = 0, ![h].mode = "none"]

TryExclusive(h) ==
  /\ On(h, "try") /\ UNCHANGED <<dirs, clones, wedged, tplPast, tplBounds>>
  /\ IF LockedBy(task[h].victim, task[h].file, {"shared", "exclusive"}) = {}
     THEN task' = [task EXCEPT ![h].at = "rescan", ![h].mode = "exclusive"]
     ELSE Passes(h)

\* Mutant: the reaper relies on the references it read first.
MutRescan(h) ==
  /\ On(h, "rescan") /\ Moves(h, "tear")
  /\ UNCHANGED <<dirs, clones, wedged, tplPast, tplBounds>>

\* The references are read once more under the lock.
Rescan(h) ==
  /\ On(h, "rescan") /\ UNCHANGED <<dirs, clones, wedged, tplPast, tplBounds>>
  /\ IF task[h].victim \in Referenced \/ dir[task[h].victim] = "none"
     THEN Passes(h)
     ELSE Moves(h, "tear")

\* remove_dir_all has taken the lease file, and perhaps the file of a deletion.
Tear(h) ==
  LET k == task[h].victim IN
  /\ On(h, "tear") /\ Moves(h, "gone")
  /\ dir' = [dir EXCEPT ![k] = IF @ = "none" THEN @ ELSE "torn"]
  /\ inode' = [inode EXCEPT ![k] = 0] /\ deleted' \in {deleted, deleted \ {k}}
  /\ aged' = aged \ {k}
  /\ UNCHANGED <<clones, wedged, tplPast, tplBounds>>

\* It fails on a directory in which a file was made meanwhile.
RemoveTemplate(h) ==
  LET k == task[h].victim IN
  /\ On(h, "gone") /\ UNCHANGED <<aged, clones, wedged, tplPast, tplBounds>>
  /\ \/ /\ dir' = [dir EXCEPT ![k] = "none"] /\ inode' = [inode EXCEPT ![k] = 0]
        /\ deleted' = deleted \ {k} /\ Passes(h)
     \/ inode[k] # 0 /\ AfterReap(h, FALSE) /\ UNCHANGED <<dir, inode, deleted>>

-----------------------------------------------------------------------------
(* capture_snapshot_template.                                                *)

Publish(h) ==
  LET k == task[h].key IN
  /\ On(h, "capture") /\ UNCHANGED <<deleted, aged, clones, tplPast, tplCalls>>
  /\ \/ /\ dir' = [dir EXCEPT ![k] = "full"] /\ inode' = [inode EXCEPT ![k] = 1]
        /\ wedged' = TRUE /\ Moves(h, "link") /\ UNCHANGED tplFaults
     \/ /\ TplFault /\ wedged' \in BOOLEAN /\ Done(h) /\ UNCHANGED <<dir, inode>>

\* The new memory becomes the base of the next capture; snapshot-pending is removed.
LinkMemory(h) ==
  /\ On(h, "link") /\ UNCHANGED <<dirs, clones, tplPast, tplBounds>>
  /\ IF dir[task[h].key] = "full"
     THEN wedged' = FALSE /\ Moves(h, "open")
     ELSE Done(h) /\ UNCHANGED wedged

-----------------------------------------------------------------------------
(* open_snapshot_template_lease.                                             *)

OpenLease(h) ==
  LET k == task[h].key IN
  /\ On(h, "open") /\ UNCHANGED <<dir, deleted, aged, clones, wedged, keysUsed, drops, tplBounds>>
  /\ IF dir[k] = "none"
     THEN Done(h) /\ UNCHANGED <<inode, remade>>
     ELSE /\ inode' = [inode EXCEPT ![k] = IF @ = 0 THEN 2 ELSE @]
          /\ remade' = IF inode[k] = 0 THEN remade \cup {k} ELSE remade
          /\ task' = [task EXCEPT ![h].at = "share", ![h].file = inode'[k]]

\* The shared lock waits for an exclusive one; then the directory must still have
\* a lease file that is young, and no file of a deletion.
ShareLease(h) ==
  LET k == task[h].key IN
  /\ On(h, "share") /\ LockedBy(k, task[h].file, {"exclusive"}) = {}
  /\ UNCHANGED <<dirs, clones, wedged, tplPast, tplBounds>>
  /\ IF k \in deleted \cup aged \/ inode[k] = 0 \/ task[h].kind = "snapshot"
     THEN Done(h)
     ELSE task' = [task EXCEPT ![h].mode = "shared",
                               ![h].at = IF task[h].kind = "fork" THEN "check ready" ELSE "record"]

-----------------------------------------------------------------------------
(* restore_snapshot_locked.                                                  *)

\* A failed fork removes its template.
RestoreFails(h) ==
  IF task[h].kind = "fork"
  THEN task' = [task EXCEPT ![h].at = "undo", ![h].file = 0, ![h].mode = "none"]
  ELSE Done(h)

CheckReady(h) ==
  /\ On(h, "check ready") /\ UNCHANGED <<dirs, clones, wedged, tplPast, tplBounds>>
  /\ IF dir[task[h].key] = "full"
     THEN Moves(h, IF task[h].kind = "fork" THEN "record" ELSE "open")
     ELSE RestoreFails(h)

\* The manifest, which must be new; the lease is dropped.  Nothing can tell the two
\* apart but a call that is dropped between them, DropTplCall.
Record(h) ==
  LET m == task[h].to IN
  /\ On(h, "record") /\ UNCHANGED <<dirs, running, wedged, tplPast, tplCalls>>
  /\ \/ /\ refers[m] = 0 /\ refers' = [refers EXCEPT ![m] = task[h].key]
        /\ task' = [task EXCEPT ![h].at = "launch", ![h].file = 0, ![h].mode = "none"]
        /\ UNCHANGED tplFaults
     \/ /\ \/ refers[m] # 0 /\ UNCHANGED tplFaults
           \/ TplFault
        /\ RestoreFails(h) /\ UNCHANGED refers

\* The overlay is copied and memory and state are linked, while they are there.
LaunchClone(h) ==
  LET k == task[h].key IN
  /\ On(h, "launch") /\ UNCHANGED <<dirs, refers, wedged, tplPast, tplCalls>>
  /\ \/ /\ dir[k] # "none" /\ running' = running \cup {task[h].to} /\ Done(h)
        /\ UNCHANGED tplFaults
     \/ /\ \/ dir[k] # "full" /\ UNCHANGED tplFaults
           \/ TplFault
        /\ Moves(h, "kill") /\ UNCHANGED running

\* cleanup_machine: the process, the template of a fork, the manifest, a reap.
KillClone(h) ==
  /\ On(h, "kill") /\ running' = running \ {task[h].to}
  /\ Moves(h, IF IsFork(task[h].key) THEN "undo" ELSE "unrefer")
  /\ UNCHANGED <<dirs, refers, wedged, tplPast, tplBounds>>

\* remove_snapshot_template.
UndoFork(h) ==
  LET k == task[h].key IN
  /\ On(h, "undo")
  /\ dir' = [dir EXCEPT ![k] = "none"] /\ inode' = [inode EXCEPT ![k] = 0]
  /\ deleted' = deleted \ {k} /\ aged' = aged \ {k}
  /\ IF refers[task[h].to] = k THEN Moves(h, "unrefer") ELSE Done(h)
  /\ UNCHANGED <<clones, wedged, tplPast, tplBounds>>

Unrefer(h) ==
  /\ On(h, "unrefer") /\ refers' = [refers EXCEPT ![task[h].to] = 0]
  /\ unheld' = unheld \ {task[h].to}
  /\ task' = [task EXCEPT ![h] = [NoTask EXCEPT !.kind = "reap", !.to = task[h].to, !.at = "refs"]]
  /\ UNCHANGED <<dirs, running, wedged, remade, keysUsed, loose, tplBounds>>

TplStep(h) ==
  \/ ReadRefs(h) \/ PickTemplate(h) \/ TryExclusive(h) \/ Rescan(h) \/ Tear(h) \/ RemoveTemplate(h)
  \/ Publish(h) \/ LinkMemory(h) \/ OpenLease(h) \/ ShareLease(h)
  \/ CheckReady(h) \/ Record(h) \/ LaunchClone(h) \/ KillClone(h) \/ UndoFork(h) \/ Unrefer(h)

\* The future of a restore, a fork or a cleanup is dropped, with its lifecycle locks
\* and its lease, at the end of a closure or while new_machine_record's closure is
\* under way, which then writes the manifest all the same.  The other closures that
\* outlive a call are FirecrackerMachines'.
DropTplCall(h) ==
  /\ TplFault /\ task[h].at \in {"check ready", "record", "launch", "kill", "undo", "unrefer"}
  /\ Done(h)
  /\ loose' = IF On(h, "record") THEN loose \cup {<<task[h].to, task[h].key>>} ELSE loose
  /\ UNCHANGED <<dirs, clones, wedged, remade, keysUsed, unheld, tplCalls>>

\* The manifest of a dropped call, which must be new: nothing holds the template.
LooseRecord(m, k) ==
  /\ <<m, k>> \in loose /\ loose' = loose \ {<<m, k>>}
  /\ \/ /\ refers[m] = 0 /\ refers' = [refers EXCEPT ![m] = k] /\ unheld' = unheld \cup {m}
     \/ refers[m] # 0 /\ UNCHANGED <<refers, unheld>>
  /\ UNCHANGED <<dirs, running, wedged, task, remade, keysUsed, tplBounds>>

\* A day passes.
GetsOld(k) ==
  /\ inode[k] # 0 /\ k \notin aged /\ aged' = aged \cup {k}
  /\ UNCHANGED <<dir, inode, deleted, clones, wedged, task, tplPast, tplBounds>>

\* The controller dies; flocks go with it, directories stay as they are.
TplCrash ==
  /\ TplFault /\ \E h \in Helpers : task[h].at # "idle"
  /\ task' = [h \in Helpers |-> NoTask]
  /\ wedged' \in IF \E h \in Helpers : On(h, "capture") THEN BOOLEAN ELSE {wedged}
  /\ loose' = {} /\ UNCHANGED <<dirs, clones, remade, keysUsed, unheld, tplCalls>>

\* The source machine is started anew, without its snapshot-pending file.
SourceRestarts ==
  /\ wedged /\ wedged' = FALSE /\ \A h \in Helpers : task[h].kind \notin Captures
  /\ UNCHANGED <<dirs, clones, task, tplPast, tplBounds>>

TplNext ==
  \/ \E h \in Helpers :
       \/ TplStep(h) \/ ReapTemplates(h) \/ DropTplCall(h)
       \/ \E k \in SnapKeys : Snapshot(h, k) \/ Delete(h, k) \/ \E m \in Clones : Restore(h, k, m)
       \/ \E m \in Clones : Fork(h, m) \/ CleanClone(h, m)
  \/ \E k \in TplKeys : GetsOld(k) \/ \E m \in Clones : LooseRecord(m, k)
  \/ TplCrash \/ SourceRestarts

TplSpec == TplInit /\ [][TplNext]_tplVars

-----------------------------------------------------------------------------
TplTypeOK ==
  /\ dir \in [TplKeys -> {"none", "full", "torn"}] /\ inode \in [TplKeys -> 0..2]
  /\ deleted \subseteq TplKeys /\ aged \subseteq TplKeys /\ remade \subseteq TplKeys
  /\ refers \in [Clones -> TplKeys \cup {0}] /\ running \subseteq Clones
  /\ wedged \in BOOLEAN /\ keysUsed \subseteq TplKeys
  /\ loose \subseteq Clones \X TplKeys /\ unheld \subseteq Clones

\* The snapshot that the manifest of a machine names is whole until the machine is
\* cleaned up, unless its lease file was made anew while it was being removed or the
\* manifest is one that a dropped call left to be written after its lease was gone.
SnapshotsWhole ==
  \A m \in Clones : refers[m] \in SnapKeys =>
    dir[refers[m]] = "full" \/ refers[m] \in remade \/ m \in unheld

\* No machine runs on a manifest that a dropped call left.
UnheldAreOff == unheld \cap running = {}

\* The template of a fork is whole as long as its machine runs and no call cleans it up.
ForksWhole ==
  \A m \in running : refers[m] # 0 /\ IsFork(refers[m]) =>
    \/ dir[refers[m]] = "full" \/ refers[m] \in remade
    \/ \E h \in Helpers : task[h].to = m

\* A snapshot is removed only when it was deleted or is too old.
SnapshotsLast ==
  [][\A k \in SnapKeys : dir[k] = "full" /\ dir'[k] # "full" => k \in deleted \cup aged]_tplVars

\* Forks, restores, deletions and reaps at once never take away a template that a
\* machine stands on, nor a snapshot that was neither deleted nor is too old
\* (open_snapshot_template_lease and the reaper's second look at the references).
TemplatesKept == [](SnapshotsWhole /\ ForksWhole /\ UnheldAreOff) /\ SnapshotsLast
=============================================================================
