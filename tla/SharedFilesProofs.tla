--------------------------- MODULE SharedFilesProofs ---------------------------
(***************************************************************************)
(* What processes leave each other on disk.                                *)
(* Part 1, for any number of runner processes, killed anywhere: if starts  *)
(* do not overlap, exo-scheduler.lock admits one runner at a time and a    *)
(* file left by a dead one never refuses a lone start.                     *)
(* Part 2, for any number of processes and wakeups: the wakeup lock.       *)
(* Part 3, for any number of tool calls, events, failures and              *)
(* conversations: the adapter record against calls that read it and write  *)
(* it back, the stop that waits for the turn in hand, and the one          *)
(* conversation of a target.                                               *)
(***************************************************************************)
EXTENDS MCProcesses, LocalSessionsProofs, FiniteSetTheorems, TLAPS

(* Part 1: the runner lock *)

LockTypeOK ==
  /\ file \in Files \cup {None}
  /\ pc \in [Procs -> Acquiring \cup {"new", "run", "refused", "done", "dead"}]
  /\ saw \in [Procs -> Procs \cup {None}]
  /\ alone \subseteq Procs

\* One process acquires at a time; that is the assumption on starts.
OneAcquires ==
  \A p, q \in Procs : pc[p] \in Acquiring /\ pc[q] \in Acquiring => p = q

\* A runner's pid is in the file, and what a starting process has seen or
\* made of the file agrees with whether there is a runner.
FileNamesRunner ==
  /\ \A p \in Procs : pc[p] = "run" => file # None /\ file.by = p /\ file.pid = p
  /\ \A p, q \in Procs :
       pc[p] = "run" => /\ pc[q] \notin {"write", "remove"}
                        /\ pc[q] = "probe" => saw[q] = p
  /\ \A q \in Procs : pc[q] = "write" => file # None /\ file.by = q

\* A lone start stays alone until it is over, finds the file where it was and
\* never its own pid in it.
LoneStart ==
  /\ \A p \in alone : pc[p] \in Acquiring => \A q \in Procs : Alive(q) => q = p
  /\ \A p \in alone : /\ pc[p] \in {"read", "probe", "remove"} => file # None
                      /\ pc[p] \notin {"new", "refused"}
  /\ \A p \in Procs : file # None /\ file.pid = p => pc[p] \notin Acquiring \cup {"new"}
  /\ \A p \in Procs : pc[p] \in Acquiring \cup {"new"} => saw[p] # p

LockInv == LockTypeOK /\ OneAcquires /\ FileNamesRunner /\ LoneStart

LEMMA LockInductive ==
  ASSUME Overlap = FALSE, LockInv, [LockNext]_lockVars
  PROVE  LockInv'
<1> USE LockAssumption DEF LockInv, LockTypeOK, Files, Acquiring
<1>1. CASE UNCHANGED lockVars
  BY <1>1 DEF lockVars, OneAcquires, FileNamesRunner, LoneStart, Alive
<1>2. ASSUME NEW p \in Procs, Launch(p) PROVE LockInv'
  <2>1. LockTypeOK' BY <1>2 DEF Launch, Go
  <2>2. OneAcquires' BY <1>2 DEF Launch, Go, OneAcquires
  <2>3. FileNamesRunner' BY <1>2 DEF Launch, Go, FileNamesRunner
  <2>4. LoneStart' BY <1>2 DEF Launch, Go, LoneStart, Alive
  <2> QED BY <2>1, <2>2, <2>3, <2>4
<1>3. ASSUME NEW p \in Procs, Create(p) PROVE LockInv'
  <2>1. LockTypeOK' BY <1>3 DEF Create, Go
  <2>2. OneAcquires' BY <1>3 DEF Create, Go, OneAcquires
  <2>3. FileNamesRunner' BY <1>3 DEF Create, Go, FileNamesRunner, OneAcquires
  <2>4. LoneStart' BY <1>3 DEF Create, Go, LoneStart, Alive
  <2> QED BY <2>1, <2>2, <2>3, <2>4
<1>4. ASSUME NEW p \in Procs, Exists(p) PROVE LockInv'
  <2>1. LockTypeOK' BY <1>4 DEF Exists, Go
  <2>2. OneAcquires' BY <1>4 DEF Exists, Go, OneAcquires
  <2>3. FileNamesRunner' BY <1>4 DEF Exists, Go, FileNamesRunner
  <2>4. LoneStart' BY <1>4 DEF Exists, Go, LoneStart, Alive
  <2> QED BY <2>1, <2>2, <2>3, <2>4
<1>5. ASSUME NEW p \in Procs, WritePid(p) PROVE LockInv'
  <2>1. LockTypeOK' BY <1>5 DEF WritePid, Go
  <2>2. OneAcquires' BY <1>5 DEF WritePid, Go, OneAcquires
  <2>3. FileNamesRunner' BY <1>5 DEF WritePid, Go, FileNamesRunner, OneAcquires
  <2>4. LoneStart' BY <1>5 DEF WritePid, Go, LoneStart, Alive
  <2> QED BY <2>1, <2>2, <2>3, <2>4
<1>6. ASSUME NEW p \in Procs, ReadPid(p) PROVE LockInv'
  <2>1. LockTypeOK' BY <1>6 DEF ReadPid, Go
  <2>2. OneAcquires' BY <1>6 DEF ReadPid, Go, OneAcquires
  <2>3. FileNamesRunner' BY <1>6 DEF ReadPid, Go, FileNamesRunner
  <2>4. LoneStart' BY <1>6 DEF ReadPid, Go, LoneStart, Alive
  <2> QED BY <2>1, <2>2, <2>3, <2>4
<1>7. ASSUME NEW p \in Procs, Probe(p) PROVE LockInv'
  <2>1. LockTypeOK' BY <1>7 DEF Probe, Go
  <2>2. OneAcquires' BY <1>7 DEF Probe, Go, OneAcquires
  <2>3. FileNamesRunner' BY <1>7 DEF Probe, Go, FileNamesRunner, ProcessIsRunning, Alive
  <2>4. LoneStart' BY <1>7 DEF Probe, Go, LoneStart, Alive, ProcessIsRunning
  <2> QED BY <2>1, <2>2, <2>3, <2>4
<1>8. ASSUME NEW p \in Procs, RemoveStale(p) PROVE LockInv'
  <2>1. LockTypeOK' BY <1>8 DEF RemoveStale, Go
  <2>2. OneAcquires' BY <1>8 DEF RemoveStale, Go, OneAcquires
  <2>3. FileNamesRunner' BY <1>8 DEF RemoveStale, Go, FileNamesRunner, OneAcquires
  <2>4. LoneStart' BY <1>8 DEF RemoveStale, Go, LoneStart, Alive
  <2> QED BY <2>1, <2>2, <2>3, <2>4
<1>9. ASSUME NEW p \in Procs, Drop(p) PROVE LockInv'
  <2>1. LockTypeOK' BY <1>9 DEF Drop, Go
  <2>2. OneAcquires' BY <1>9 DEF Drop, Go, OneAcquires
  <2>3. FileNamesRunner' BY <1>9 DEF Drop, Go, FileNamesRunner
  <2>4. LoneStart' BY <1>9 DEF Drop, Go, LoneStart, Alive
  <2> QED BY <2>1, <2>2, <2>3, <2>4
<1>10. ASSUME NEW p \in Procs, Kill(p) PROVE LockInv'
  <2>1. LockTypeOK' BY <1>10 DEF Kill, Go
  <2>2. OneAcquires' BY <1>10 DEF Kill, Go, OneAcquires
  <2>3. FileNamesRunner' BY <1>10 DEF Kill, Go, FileNamesRunner
  <2>4. LoneStart' BY <1>10 DEF Kill, Go, LoneStart, Alive
  <2> QED BY <2>1, <2>2, <2>3, <2>4
<1> QED
  BY <1>1, <1>2, <1>3, <1>4, <1>5, <1>6, <1>7, <1>8, <1>9, <1>10 DEF LockNext, AcquireStep

LEMMA LockInvariance ==
  ASSUME Overlap = FALSE
  PROVE  LockSpec => []LockInv
<1>1. LockInit => LockInv
  BY LockAssumption DEF LockInit, LockInv, LockTypeOK, OneAcquires, FileNamesRunner,
     LoneStart, Files, Acquiring, Alive
<1>2. LockInv /\ [LockNext]_lockVars => LockInv'
  BY LockInductive
<1> QED BY <1>1, <1>2, PTL DEF LockSpec

\* SchedulerRunnerLock keeps two runners apart when starts do not overlap: for
\* every set of processes, killed at any system call, the pid in the file names
\* the one runner, and only a file whose owner is dead is removed.
THEOREM OneRunnerCorrect ==
  ASSUME Overlap = FALSE
  PROVE  LockSpec => []OneRunner
<1>1. LockInv => OneRunner
  BY DEF LockInv, FileNamesRunner, OneRunner
<1> QED BY <1>1, LockInvariance, PTL

\* A runner started while no other process lives is never refused, whatever the
\* processes before it left in exo-scheduler.lock.
THEOREM StartableCorrect ==
  ASSUME Overlap = FALSE
  PROVE  LockSpec => []Startable
<1>1. LockInv => Startable
  BY DEF LockInv, LoneStart, Startable
<1> QED BY <1>1, LockInvariance, PTL

--------------------------------------------------------------------------------

(* Part 2: the wakeup lock *)

\* As long as nobody overstayed, the file of a running turn is there and new, so
\* that create_new refuses the others, and nobody takes it for a dead one's.
TurnHasNewFile ==
  ~overstayed => \A w \in Wakers : waker[w] = "turn" => lockFile = "new"

WakeupInv == WakeupTypeOK /\ TurnHasNewFile /\ OneTurnAtATime

\* The invariant holds at the start.
LEMMA WakeupInvInit == WakeupInit => WakeupInv
<1> SUFFICES ASSUME WakeupInit PROVE WakeupInv
    OBVIOUS
<1> USE DEF WakeupInit
<1>1. WakeupTypeOK
  <2>1. 0 \in 0..MaxWakeups
      BY WakeupAssumption DEF WakeupAssumption
  <2>2. QED
      BY <2>1 DEF WakeupTypeOK
<1>2. TurnHasNewFile /\ OneTurnAtATime
    BY DEF TurnHasNewFile, OneTurnAtATime, Runs
<1>3. QED
    BY <1>1, <1>2 DEF WakeupInv

\* Every step of a wakeup, and the passing of time, preserves it.
LEMMA WakeupInvStep == WakeupInv /\ [WakeupNext]_wakeVars => WakeupInv'
<1> SUFFICES ASSUME WakeupInv, [WakeupNext]_wakeVars PROVE WakeupInv'
    OBVIOUS
<1> USE WakeupAssumption DEF WakeupAssumption, WakeupInv, WakeupTypeOK, TurnHasNewFile,
        OneTurnAtATime, Runs
<1>1. ASSUME NEW w \in Wakers, WakeAsked(w) PROVE WakeupInv'
    BY <1>1 DEF WakeAsked
<1>2. ASSUME NEW w \in Wakers, Open(w) PROVE WakeupInv'
    BY <1>2 DEF Open
<1>3. ASSUME NEW w \in Wakers, Stat(w) PROVE WakeupInv'
    BY <1>3 DEF Stat
<1>4. ASSUME NEW w \in Wakers, RemoveStaleLock(w) PROVE WakeupInv'
    BY <1>4 DEF RemoveStaleLock
<1>5. ASSUME NEW w \in Wakers, TurnOver(w) PROVE WakeupInv'
    BY <1>5 DEF TurnOver
<1>6. ASSUME NEW w \in Wakers, WakerDies(w) PROVE WakeupInv'
    BY <1>6 DEF WakerDies
<1>7. CASE GrowsOld
    BY <1>7 DEF GrowsOld
<1>8. CASE UNCHANGED wakeVars
    BY <1>8 DEF wakeVars
<1>9. ASSUME NEW w \in Wakers, WakeAborted(w) PROVE WakeupInv'
    BY <1>9 DEF WakeAborted
<1>10. ASSUME NEW w \in Wakers, AdriftOver(w) PROVE WakeupInv'
    BY <1>10 DEF AdriftOver
<1>11. QED
    BY <1>1, <1>2, <1>3, <1>4, <1>5, <1>6, <1>7, <1>8, <1>9, <1>10 DEF WakeupNext, WakeStep

\* Two wakeup turns run at once only after one of more than thirty minutes, after a
\* waiter removed a newer file than the one it looked at, or while one of them is the
\* turn of a call that was aborted: such a turn takes no other turn's file with it.
THEOREM WakeupsExclude == WakeupSpec => []OneTurnAtATime
<1>1. WakeupInv => OneTurnAtATime
    BY DEF WakeupInv
<1>2. QED
    BY <1>1, WakeupInvInit, WakeupInvStep, PTL DEF WakeupSpec

--------------------------------------------------------------------------------

(* Part 3: the adapter *)

\* Only a tool call changes what the record asks for: the tasks of the runner put
\* back the flag as they read it.
TasksTouch ==
  /\ DOMAIN calls = Actors
  /\ \A a \in Actors : calls[a] # Gone /\ a # "tool" => calls[a].kind = "touch"

RecordInv == TasksTouch /\ LastCallHolds

InHand ==
  [kind : Kinds \cup {"none"}, to : Targets \cup {Gone},
   step : {"none", "resolve", "map", "mark", "note", "log", "turn", "done"}]

\* The count of pending events is that of the queued ones and the one in hand, so
\* that a count of zero means that no turn is running.
PendingCounted ==
  /\ inbox \in Seq(Kinds)
  /\ doing \in InHand
  /\ (doing.step = "none" <=> doing = NoEvent)
  /\ pend = Len(inbox) + IF doing.step = "none" THEN 0 ELSE 1

TurnInv == PendingCounted /\ StopCutsNoTurn /\ alive \subseteq Targets

\* All conversations of the target that exist are one.
AliveIsOne == \A s, t \in alive : s = t

-----------------------------------------------------------------------------

\* A call is read from the record or put back to it.
LEMMA ReadingTouches ==
  ASSUME TasksTouch, NEW a \in Actors, NEW kind, a # "tool" => kind = "touch", Reading(a, kind)
  PROVE  TasksTouch'
  BY DEF TasksTouch, Reading

LEMMA WritingHolds ==
  ASSUME RecordInv, NEW a \in Actors, Writing(a)
  PROVE  RecordInv'
  <1>1. TasksTouch'
    BY DEF RecordInv, TasksTouch, Writing
  <1>2. LastCallHolds'
    <2> SUFFICES ASSUME ~stale' PROVE rec' = wanted'
      BY DEF LastCallHolds
    <2>1. calls[a].copy = rec /\ rec = wanted
      BY DEF RecordInv, LastCallHolds, Writing
    <2>2. CASE a = "tool" /\ calls[a].kind # "touch"
      BY <2>2 DEF Writing
    <2>3. CASE ~(a = "tool" /\ calls[a].kind # "touch")
      <3>1. calls[a].kind = "touch"
        BY <2>3 DEF RecordInv, TasksTouch, Writing
      <3>2. PutRecord(calls[a]) = calls[a].copy
        BY <3>1 DEF PutRecord
      <3> QED
        BY <2>1, <2>3, <3>2 DEF Writing
    <2> QED
      BY <2>2, <2>3
  <1> QED
    BY <1>1, <1>2 DEF RecordInv

LEMMA RecordStep == RecordInv /\ [RunnerNext]_runnerVars => RecordInv'
  <1> SUFFICES ASSUME RecordInv, [RunnerNext]_runnerVars PROVE RecordInv'
    OBVIOUS
  <1>1. ASSUME UNCHANGED recVars PROVE RecordInv'
    BY <1>1 DEF recVars, RecordInv, TasksTouch, LastCallHolds
  <1>2. ASSUME UNCHANGED <<rec, wanted, stale>>, TasksTouch' PROVE RecordInv'
    BY <1>2 DEF RecordInv, LastCallHolds
  <1>3. ASSUME NEW kind, ToolRead(kind) PROVE RecordInv'
    <2>1. TasksTouch'
      BY <1>3, ReadingTouches DEF ToolRead, RecordInv, Actors
    <2> QED
      BY <1>2, <1>3, <2>1 DEF ToolRead
  <1>4. ASSUME SupRead \/ EventRead PROVE RecordInv'
    <2>1. TasksTouch'
      BY <1>4, ReadingTouches DEF SupRead, EventRead, RecordInv, Actors
    <2> QED
      BY <1>2, <1>4, <2>1 DEF SupRead, EventRead
  <1>5. ASSUME ToolWrite \/ SupWrite \/ EventWrite PROVE RecordInv'
    BY <1>5, WritingHolds DEF ToolWrite, SupWrite, EventWrite, Actors
  <1>6. ASSUME RunnerCrash \/ WorkerFails \/ StopNow PROVE RecordInv'
    <2>1. TasksTouch'
      BY <1>6 DEF RunnerCrash, WorkerFails, StopNow, RecordInv, TasksTouch, Actors
    <2> QED
      BY <1>2, <1>6, <2>1 DEF RunnerCrash, WorkerFails, StopNow
  <1>7. ASSUME \/ UNCHANGED runnerVars \/ WatchStep \/ DrainAsked \/ SupCheck \/ SupStart
               \/ SupDelay \/ StopSeen \/ Take \/ Resolve \/ Map \/ TurnEnds \/ Handled
               \/ ThreadDeleted \/ \E k \in Kinds : WorkerEvent(k)
        PROVE  RecordInv'
    BY <1>1, <1>7 DEF runnerVars, recVars, WatchStep, RunnerStart, DrainClaimed, Scan,
         RunnerExit, DrainAsked, SupCheck, SupStart, SupDelay, StopSeen, Take, Resolve, Map,
         TurnEnds, Handled, ThreadDeleted, WorkerEvent
  <1> QED
    BY <1>3, <1>4, <1>5, <1>6, <1>7 DEF RunnerNext, SupStep, EventStep

-----------------------------------------------------------------------------

LEMMA TurnStep == TurnInv /\ [RunnerNext]_runnerVars => TurnInv'
  <1> SUFFICES ASSUME TurnInv, [RunnerNext]_runnerVars PROVE TurnInv'
    OBVIOUS
  <1>0. /\ inbox \in Seq(Kinds) /\ Len(inbox) \in Nat
        /\ doing \in InHand
        /\ (doing.step = "none" <=> doing = NoEvent)
        /\ (doing.step = "none" => pend = Len(inbox))
        /\ (doing.step # "none" => pend = Len(inbox) + 1)
        /\ "stop" \notin cut /\ alive \subseteq Targets
    BY DEF TurnInv, PendingCounted, StopCutsNoTurn
  <1>a. alive' \subseteq Targets
    BY <1>0 DEF RunnerNext, runnerVars, WatchStep, SupStep, EventStep, ToolRead, ToolWrite,
         RunnerStart, DrainClaimed, Scan, RunnerExit, DrainAsked, RunnerCrash, SupCheck, SupStart,
         SupRead, SupWrite, SupDelay, StopSeen, StopNow, WorkerFails, WorkerEvent, Take, EventRead,
         EventWrite, Resolve, Map, TurnEnds, Handled, ThreadDeleted, threadVars, Unused
  <1>b. ASSUME inbox' \in Seq(Kinds), doing' \in InHand, doing'.step = "none" <=> doing' = NoEvent,
               doing'.step = "none" => pend' = Len(inbox'),
               doing'.step # "none" => pend' = Len(inbox') + 1,
               "stop" \notin cut'
        PROVE  TurnInv'
    <2>1. Len(inbox') \in Nat
      BY <1>b
    <2> QED
      BY <1>a, <1>b, <2>1 DEF TurnInv, PendingCounted, StopCutsNoTurn
  <1>1. ASSUME UNCHANGED <<inbox, pend, doing, cut>> PROVE TurnInv'
    BY <1>0, <1>1, <1>b
  <1>2. ASSUME NEW reason, LoopEnds(reason), reason = "stop" => doing.step # "turn"
        PROVE  TurnInv'
    <2>1. inbox' = <<>> /\ pend' = 0 /\ doing' = NoEvent /\ "stop" \notin cut'
      BY <1>0, <1>2 DEF LoopEnds
    <2>2. NoEvent \in InHand /\ NoEvent.step = "none"
      BY DEF NoEvent, InHand
    <2> QED
      BY <1>b, <2>1, <2>2
  <1>3. ASSUME RunnerCrash \/ WorkerFails PROVE TurnInv'
    <2>1. LoopEnds("crash") \/ LoopEnds("worker")
      BY <1>3 DEF RunnerCrash, WorkerFails
    <2> QED
      BY <1>2, <2>1
  <1>4. ASSUME StopNow PROVE TurnInv'
    <2>1. pend = 0 /\ LoopEnds("stop")
      BY <1>4 DEF StopNow
    <2>2. doing.step # "turn"
      BY <1>0, <2>1
    <2> QED
      BY <1>2, <2>1, <2>2
  <1>5. ASSUME NEW k \in Kinds, WorkerEvent(k) PROVE TurnInv'
    <2>1. inbox' = Append(inbox, k) /\ pend' = pend + 1 /\ UNCHANGED <<doing, cut>>
      BY <1>5 DEF WorkerEvent
    <2>2. inbox' \in Seq(Kinds) /\ Len(inbox') = Len(inbox) + 1
      BY <1>0, <2>1
    <2> QED
      BY <1>0, <1>b, <2>1, <2>2
  <1>6. ASSUME Take PROVE TurnInv'
    <2>1. /\ doing = NoEvent /\ inbox # <<>> /\ inbox' = Tail(inbox) /\ UNCHANGED <<pend, cut>>
          /\ doing' = [kind |-> Head(inbox),
                       step |-> IF Head(inbox) = "message" THEN "resolve" ELSE "mark",
                       to |-> Gone]
      BY <1>6 DEF Take
    <2>2. inbox' \in Seq(Kinds) /\ Len(inbox') + 1 = Len(inbox) /\ Head(inbox) \in Kinds
      <3>1. Len(inbox) # 0
        BY <1>0, <2>1
      <3> QED
        BY <1>0, <2>1, <3>1
    <2>3. doing' \in InHand /\ doing'.step # "none" /\ doing' # NoEvent
      BY <2>1, <2>2 DEF NoEvent, InHand
    <2> QED
      BY <1>0, <1>b, <2>1, <2>2, <2>3
  <1>7. ASSUME Handled PROVE TurnInv'
    <2>1. /\ doing.step = "done" /\ doing' = NoEvent /\ UNCHANGED <<inbox, cut>>
          /\ pend' = IF pend > 0 THEN pend - 1 ELSE 0
      BY <1>7 DEF Handled
    <2>2. pend' = Len(inbox') /\ doing'.step = "none" /\ doing' \in InHand
      BY <1>0, <2>1 DEF NoEvent, InHand
    <2> QED
      BY <1>0, <1>b, <2>1, <2>2
  <1>8. ASSUME UNCHANGED <<inbox, pend, cut>>, doing.step # "none", NEW t \in Targets \cup {Gone},
               NEW s \in {"map", "mark", "note", "log", "turn", "done"},
               \/ doing' = [doing EXCEPT !.step = s]
               \/ doing' = [doing EXCEPT !.step = s, !.to = t]
        PROVE  TurnInv'
    <2>1. doing' \in InHand /\ doing'.step # "none"
      <3>1. CASE doing' = [doing EXCEPT !.step = s]
        BY <1>0, <1>8, <3>1 DEF InHand
      <3>2. CASE doing' = [doing EXCEPT !.step = s, !.to = t]
        BY <1>0, <1>8, <3>2 DEF InHand
      <3> QED
        BY <1>8, <3>1, <3>2
    <2>2. doing' # NoEvent
      BY <2>1 DEF NoEvent
    <2> QED
      BY <1>0, <1>b, <1>8, <2>1, <2>2
  <1>9. ASSUME EventRead \/ EventWrite PROVE TurnInv'
    <2>1. /\ UNCHANGED <<inbox, pend, cut>> /\ doing.step \in {"mark", "note", "log"}
          /\ doing' = doing \/ doing' = [doing EXCEPT !.step = After(@)]
      BY <1>9 DEF EventRead, EventWrite
    <2>2. After(doing.step) \in {"note", "turn", "done"}
      BY <2>1 DEF After
    <2>3. doing' = doing \/ \E s \in {"note", "turn", "done"} : doing' = [doing EXCEPT !.step = s]
      BY <2>1, <2>2
    <2> QED
      BY <1>1, <1>8, <2>1, <2>3
  <1>10. ASSUME Resolve PROVE TurnInv'
    <2>1. /\ UNCHANGED <<inbox, pend, cut>> /\ doing.step = "resolve"
          /\ \E s \in {"log", "map"}, t \in Targets : doing' = [doing EXCEPT !.step = s, !.to = t]
      BY <1>0, <1>10 DEF Resolve, Unused
    <2> QED
      BY <1>8, <2>1
  <1>11. ASSUME Map \/ TurnEnds PROVE TurnInv'
    <2>1. /\ UNCHANGED <<inbox, pend, cut>> /\ doing.step # "none"
          /\ \E s \in {"log", "done", "mark"} : doing' = [doing EXCEPT !.step = s]
      BY <1>11 DEF Map, TurnEnds
    <2> QED
      BY <1>8, <2>1
  <1>12. ASSUME \/ UNCHANGED runnerVars \/ WatchStep \/ DrainAsked \/ SupCheck \/ SupStart
                \/ SupRead \/ SupWrite \/ SupDelay \/ StopSeen \/ ToolWrite \/ ThreadDeleted
                \/ \E kind \in {"enable", "disable", "delete", "touch"} : ToolRead(kind)
         PROVE  TurnInv'
    BY <1>1, <1>12 DEF runnerVars, loopVars, WatchStep, RunnerStart, DrainClaimed, Scan,
         RunnerExit, DrainAsked, SupCheck, SupStart, SupRead, SupWrite, SupDelay, StopSeen,
         ToolWrite, ToolRead, ThreadDeleted
  <1> QED
    BY <1>3, <1>4, <1>5, <1>6, <1>7, <1>9, <1>10, <1>11, <1>12 DEF RunnerNext, SupStep, EventStep

-----------------------------------------------------------------------------

LEMMA AliveStep == AliveIsOne /\ [RunnerNext]_runnerVars => AliveIsOne'
  <1> SUFFICES ASSUME AliveIsOne, [RunnerNext]_runnerVars PROVE AliveIsOne'
    OBVIOUS
  <1>1. CASE Resolve \/ ThreadDeleted
    BY <1>1 DEF AliveIsOne, Resolve, ThreadDeleted
  <1>2. CASE ~(Resolve \/ ThreadDeleted)
    <2>1. UNCHANGED alive
      BY <1>2 DEF RunnerNext, runnerVars, WatchStep, SupStep, EventStep, ToolRead, ToolWrite,
         RunnerStart, DrainClaimed, Scan, RunnerExit, DrainAsked, RunnerCrash, SupCheck, SupStart,
         SupRead, SupWrite, SupDelay, StopSeen, StopNow, WorkerFails, WorkerEvent, Take, EventRead,
         EventWrite, Map, TurnEnds, Handled, threadVars
    <2> QED
      BY <2>1 DEF AliveIsOne
  <1> QED
    BY <1>1, <1>2

\* Set theory: elements that are all one are at most one.
LEMMA AtMostOne == ASSUME NEW S, \A s, t \in S : s = t PROVE Cardinality(S) <= 1
  <1>1. CASE S = {}
    BY <1>1, FS_EmptySet
  <1>2. CASE S # {}
    <2>1. PICK s : s \in S
      BY <1>2
    <2>2. S = {s}
      BY <2>1
    <2>3. Cardinality({s}) = 1
      BY FS_Singleton
    <2> QED
      BY <2>2, <2>3
  <1> QED
    BY <1>1, <1>2

\* The record says what the last tool call asked for unless a stale copy was written
\* back, a stop never cuts off the turn in hand, and a target has one conversation.
THEOREM AdapterCorrect == RunnerSpec => []AdapterKept
  <1>1. RunnerInit => RecordInv /\ TurnInv /\ AliveIsOne
    <2> SUFFICES ASSUME RunnerInit PROVE RecordInv /\ TurnInv /\ AliveIsOne
      OBVIOUS
    <2>1. RecordInv /\ AliveIsOne
      BY DEF RunnerInit, RecordInv, TasksTouch, LastCallHolds, AliveIsOne
    <2>2. NoEvent \in InHand /\ NoEvent.step = "none"
      BY DEF NoEvent, InHand
    <2>3. TurnInv
      BY <2>2 DEF RunnerInit, TurnInv, PendingCounted, StopCutsNoTurn
    <2> QED
      BY <2>1, <2>3
  <1>2. RecordInv /\ TurnInv /\ AliveIsOne => AdapterKept
    BY AtMostOne DEF RecordInv, TurnInv, AliveIsOne, AdapterKept, OneThread
  <1> QED
    BY <1>1, <1>2, RecordStep, TurnStep, AliveStep, PTL DEF RunnerSpec

-----------------------------------------------------------------------------
(* The types of what the processes share *)

\* Calls hold copies of the record.
CallRecords == [kind : {"enable", "disable", "delete", "touch"}, copy : {"on", "off", Gone}]

\* Worker events are counted, and an event that is logged has its conversation.
RunnerTypes ==
  /\ RunnerTypeOK
  /\ calls \in [Actors -> CallRecords \cup {Gone}]
  /\ taken \in 0..MaxTaken /\ pend \in 0..taken
  /\ doing.step \in {"map", "log", "turn"} => doing.to \in Targets

LEMMA PutTyped ==
  ASSUME RunnerTypes, NEW a \in Actors, Writing(a)
  PROVE  /\ rec' \in {"on", "off", Gone} /\ wanted' \in {"on", "off", Gone} /\ stale' \in BOOLEAN
         /\ calls' \in [Actors -> CallRecords \cup {Gone}]
<1>1. calls[a] \in CallRecords BY DEF RunnerTypes, Writing
<1>2. PutRecord(calls[a]) \in {"on", "off", Gone}
  <2>1. calls[a].copy \in {"on", "off", Gone} BY <1>1 DEF CallRecords
  <2> QED BY <2>1 DEF PutRecord
<1>3. calls' \in [Actors -> CallRecords \cup {Gone}] BY DEF RunnerTypes, Writing
<1> QED BY <1>2, <1>3 DEF Writing, RunnerTypes, RunnerTypeOK

LEMMA ReadTyped ==
  ASSUME RunnerTypes, NEW a \in Actors, NEW kind \in {"enable", "disable", "delete", "touch"},
         Reading(a, kind)
  PROVE  calls' \in [Actors -> CallRecords \cup {Gone}]
<1>1. rec \in {"on", "off", Gone} BY DEF RunnerTypes, RunnerTypeOK
<1>2. (IF rec = Gone THEN Gone ELSE [kind |-> kind, copy |-> rec]) \in CallRecords \cup {Gone}
  BY <1>1 DEF CallRecords
<1> QED BY <1>2 DEF Reading, RunnerTypes

LEMMA RunnerTypesStep ==
  RunnerTypes /\ TurnInv /\ TurnInv' /\ [RunnerNext]_runnerVars => RunnerTypes'
<1> SUFFICES ASSUME RunnerTypes, TurnInv, TurnInv', [RunnerNext]_runnerVars PROVE RunnerTypes'
  OBVIOUS
<1>0. /\ inbox' \in Seq(Kinds) /\ alive \subseteq Targets /\ alive' \subseteq Targets
      /\ doing \in InHand /\ pend \in Nat /\ taken \in Nat /\ MaxTaken \in Nat
  BY RunnerAssumption DEF TurnInv, PendingCounted, RunnerTypes
<1>1. CASE UNCHANGED runnerVars
  BY <1>1 DEF runnerVars, RunnerTypes, RunnerTypeOK
<1>2. CASE \E kind \in {"enable", "disable", "delete", "touch"} : ToolRead(kind)
  BY <1>2, ReadTyped DEF ToolRead, Actors, procVars, loopVars, threadVars, RunnerTypes, RunnerTypeOK
<1>3. CASE ToolWrite
  <2>1. /\ rec' \in {"on", "off", Gone} /\ wanted' \in {"on", "off", Gone} /\ stale' \in BOOLEAN
        /\ calls' \in [Actors -> CallRecords \cup {Gone}]
    BY <1>3, PutTyped DEF ToolWrite, Actors
  <2> QED BY <1>3, <2>1 DEF ToolWrite, procVars, loopVars, bounds, RunnerTypes, RunnerTypeOK
<1>a. ASSUME UNCHANGED <<recVars, stopping, inbox, pend, doing, threadVars, taken>>,
             runner' \in {"down", "up", "draining"}, drain' \in BOOLEAN, marker' \in BOOLEAN,
             sup' \in {"none", "check", "start", "run", "mark", "note", "delay"},
             worker' \in BOOLEAN, worker' => sup' = "run", runner' = "down" => sup' = "none"
      PROVE  RunnerTypes'
  <2>1. RunnerTypeOK'
    BY <1>0, <1>a DEF recVars, threadVars, RunnerTypes, RunnerTypeOK
  <2> QED BY <1>0, <1>a, <2>1 DEF recVars, threadVars, RunnerTypes
<1>4. CASE WatchStep \/ DrainAsked
  <2>0. /\ runner \in {"down", "up", "draining"} /\ drain \in BOOLEAN /\ marker \in BOOLEAN
        /\ worker \in BOOLEAN
        /\ worker => sup = "run"
        /\ runner = "down" => sup = "none"
        /\ sup \in {"none", "check", "start", "run", "mark", "note", "delay"}
    BY DEF RunnerTypes, RunnerTypeOK
  <2>1. CASE RunnerStart BY <1>a, <2>0, <2>1 DEF RunnerStart, loopVars, bounds
  <2>2. CASE DrainClaimed BY <1>a, <2>0, <2>2 DEF DrainClaimed, loopVars, bounds
  <2>3. CASE Scan BY <1>a, <2>0, <2>3 DEF Scan, loopVars, bounds, procVars
  <2>4. CASE RunnerExit BY <1>a, <2>0, <2>4 DEF RunnerExit, loopVars, bounds
  <2>5. CASE DrainAsked BY <1>a, <2>0, <2>5 DEF DrainAsked, loopVars
  <2> QED BY <1>4, <2>1, <2>2, <2>3, <2>4, <2>5 DEF WatchStep
<1>5. ASSUME NEW reason, LoopEnds(reason)
      PROVE  /\ worker' = FALSE /\ stopping' = FALSE /\ inbox' \in Seq(Kinds)
             /\ pend' = 0 /\ pend' \in 0..MaxTaken /\ pend' \in 0..taken
             /\ doing'.step = "none"
  BY <1>0, <1>5 DEF LoopEnds, NoEvent
<1>6. CASE RunnerCrash
  <2>1. calls' \in [Actors -> CallRecords \cup {Gone}]
    BY <1>6 DEF RunnerCrash, RunnerTypes
  <2>2. LoopEnds("crash") BY <1>6 DEF RunnerCrash
  <2> QED BY <1>5, <1>6, <2>1, <2>2 DEF RunnerCrash, threadVars, RunnerTypes, RunnerTypeOK
<1>7. CASE WorkerFails
  <2>1. calls' \in [Actors -> CallRecords \cup {Gone}]
    BY <1>7 DEF WorkerFails, RunnerTypes
  <2>2. LoopEnds("worker") BY <1>7 DEF WorkerFails
  <2> QED BY <1>5, <1>7, <2>1, <2>2 DEF WorkerFails, procVars, threadVars, RunnerTypes, RunnerTypeOK
<1>8. CASE StopNow
  <2>1. calls' \in [Actors -> CallRecords \cup {Gone}]
    BY <1>8 DEF StopNow, RunnerTypes
  <2>2. LoopEnds("stop") BY <1>8 DEF StopNow
  <2> QED BY <1>5, <1>8, <2>1, <2>2
          DEF StopNow, procVars, threadVars, bounds, RunnerTypes, RunnerTypeOK
<1>9. CASE SupCheck \/ SupStart \/ SupDelay \/ StopSeen
  <2>0. /\ runner \in {"down", "up", "draining"} /\ drain \in BOOLEAN /\ marker \in BOOLEAN
        /\ worker \in BOOLEAN
        /\ worker => sup = "run"
        /\ runner = "down" => sup = "none"
        /\ sup \in {"none", "check", "start", "run", "mark", "note", "delay"}
    BY DEF RunnerTypes, RunnerTypeOK
  <2>1. CASE SupCheck BY <1>a, <2>0, <2>1 DEF SupCheck, loopVars, bounds, procVars
  <2>2. CASE SupStart BY <1>a, <2>0, <2>2 DEF SupStart, bounds, procVars
  <2>3. CASE SupDelay BY <1>a, <2>0, <2>3 DEF SupDelay, loopVars, bounds, procVars
  <2>4. CASE StopSeen
    BY <2>4 DEF StopSeen, recVars, procVars, threadVars, bounds, RunnerTypes, RunnerTypeOK
  <2> QED BY <1>9, <2>1, <2>2, <2>3, <2>4
<1>10. CASE SupRead
  <2>1. calls' \in [Actors -> CallRecords \cup {Gone}]
    BY <1>10, ReadTyped DEF SupRead, Actors
  <2> QED BY <1>10, <2>1
          DEF SupRead, procVars, loopVars, threadVars, bounds, RunnerTypes, RunnerTypeOK
<1>11. CASE SupWrite
  <2>1. /\ rec' \in {"on", "off", Gone} /\ wanted' \in {"on", "off", Gone} /\ stale' \in BOOLEAN
        /\ calls' \in [Actors -> CallRecords \cup {Gone}]
    BY <1>11, PutTyped DEF SupWrite, Actors
  <2> QED BY <1>11, <2>1
          DEF SupWrite, procVars, loopVars, threadVars, bounds, RunnerTypes, RunnerTypeOK
<1>12. CASE \E k \in Kinds : WorkerEvent(k)
  <2>1. taken' \in 0..MaxTaken /\ pend' \in 0..taken' /\ pend' \in 0..MaxTaken
    BY <1>0, <1>12 DEF WorkerEvent, RunnerTypes
  <2> QED BY <1>0, <1>12, <2>1
          DEF WorkerEvent, recVars, procVars, threadVars, RunnerTypes, RunnerTypeOK
<1>13. CASE Take
  <2>1. doing'.step \in {"resolve", "mark"} BY <1>13 DEF Take
  <2> QED BY <1>0, <1>13, <2>1
          DEF Take, recVars, procVars, threadVars, bounds, RunnerTypes, RunnerTypeOK
<1>14. ASSUME doing.step \in {"mark", "note", "log"},
              doing' = doing \/ doing' = [doing EXCEPT !.step = After(@)]
       PROVE  /\ doing'.step \in {"none", "resolve", "map", "mark", "note", "log", "turn", "done"}
              /\ doing'.step \in {"map", "log", "turn"} => doing'.to \in Targets
  BY <1>0, <1>14 DEF After, InHand, RunnerTypes, RunnerTypeOK
<1>15. CASE EventRead
  <2>1. calls' \in [Actors -> CallRecords \cup {Gone}]
    BY <1>15, ReadTyped DEF EventRead, Actors
  <2>2. /\ doing'.step \in {"none", "resolve", "map", "mark", "note", "log", "turn", "done"}
        /\ doing'.step \in {"map", "log", "turn"} => doing'.to \in Targets
    BY <1>14, <1>15 DEF EventRead
  <2> QED BY <1>0, <1>15, <2>1, <2>2
          DEF EventRead, procVars, threadVars, bounds, RunnerTypes, RunnerTypeOK
<1>16. CASE EventWrite
  <2>1. /\ rec' \in {"on", "off", Gone} /\ wanted' \in {"on", "off", Gone} /\ stale' \in BOOLEAN
        /\ calls' \in [Actors -> CallRecords \cup {Gone}]
    BY <1>16, PutTyped DEF EventWrite, Actors
  <2>2. /\ doing'.step \in {"none", "resolve", "map", "mark", "note", "log", "turn", "done"}
        /\ doing'.step \in {"map", "log", "turn"} => doing'.to \in Targets
    BY <1>14, <1>16 DEF EventWrite
  <2> QED BY <1>0, <1>16, <2>1, <2>2
          DEF EventWrite, procVars, threadVars, bounds, RunnerTypes, RunnerTypeOK
<1>17. CASE Resolve
  <2>1. PICK s \in {"log", "map"}, to \in Targets : doing' = [doing EXCEPT !.step = s, !.to = to]
    BY <1>0, <1>17 DEF Resolve, Unused
  <2>2. doing'.step = s /\ doing'.to = to BY <1>0, <2>1 DEF InHand
  <2>3. /\ UNCHANGED <<recVars, procVars, sup, worker, stopping, inbox, pend, mapping, used, bounds>>
    BY <1>17 DEF Resolve
  <2>4. RunnerTypeOK'
    BY <1>0, <2>1, <2>2, <2>3 DEF recVars, procVars, bounds, RunnerTypes, RunnerTypeOK
  <2> QED BY <2>1, <2>2, <2>3, <2>4 DEF recVars, bounds, RunnerTypes
<1>18. CASE Map
  <2>1. doing'.step = "log" /\ doing'.to = doing.to /\ doing.to \in Targets
    BY <1>0, <1>18 DEF Map, InHand, RunnerTypes
  <2> QED BY <1>0, <1>18, <2>1 DEF Map, recVars, procVars, bounds, RunnerTypes, RunnerTypeOK
<1>19. CASE TurnEnds
  <2>1. doing'.step \in {"done", "mark"} /\ doing.to \in Targets
    BY <1>0, <1>19 DEF TurnEnds, InHand, RunnerTypes
  <2> QED BY <1>0, <1>19, <2>1 DEF TurnEnds, recVars, procVars, bounds, RunnerTypes, RunnerTypeOK
<1>20. CASE Handled
  <2>1. doing'.step = "none" BY <1>20 DEF Handled, NoEvent
  <2>2. pend' \in 0..taken /\ pend' \in 0..MaxTaken BY <1>0, <1>20 DEF Handled, RunnerTypes
  <2> QED BY <1>0, <1>20, <2>1, <2>2
          DEF Handled, recVars, procVars, threadVars, bounds, RunnerTypes, RunnerTypeOK
<1>21. CASE ThreadDeleted
  BY <1>0, <1>21 DEF ThreadDeleted, recVars, procVars, loopVars, RunnerTypes, RunnerTypeOK
<1> QED BY <1>1, <1>2, <1>3, <1>4, <1>6, <1>7, <1>8, <1>9, <1>10, <1>11, <1>12, <1>13, <1>15,
           <1>16, <1>17, <1>18, <1>19, <1>20, <1>21 DEF RunnerNext, SupStep, EventStep

LEMMA RunnerTypesAlways == RunnerSpec => []RunnerTypes
<1>1. RunnerInit => TurnInv
  <2>1. NoEvent \in InHand /\ NoEvent.step = "none" BY DEF NoEvent, InHand
  <2> QED BY <2>1 DEF RunnerInit, TurnInv, PendingCounted, StopCutsNoTurn
<1>2. RunnerInit => RunnerTypes
  <2> SUFFICES ASSUME RunnerInit PROVE RunnerTypes OBVIOUS
  <2>1. NoEvent.step = "none" BY DEF NoEvent
  <2>2. 0 \in 0..MaxTaken /\ 0 \in 0..0 /\ <<>> \in Seq(Kinds) BY RunnerAssumption
  <2>3. RunnerTypeOK BY <2>1, <2>2 DEF RunnerInit, RunnerTypeOK
  <2>4. calls \in [Actors -> CallRecords \cup {Gone}] BY DEF RunnerInit
  <2>5. taken \in 0..MaxTaken /\ pend \in 0..taken BY <2>2 DEF RunnerInit
  <2> QED BY <2>1, <2>3, <2>4, <2>5 DEF RunnerInit, RunnerTypes
<1> QED BY <1>1, <1>2, TurnStep, RunnerTypesStep, PTL DEF RunnerSpec

\* The leases and the adapter's runner keep their types in every behaviour, for
\* any number of processes, tasks, scopes and events.
THEOREM ProcessTypesCorrect == MCSpec => []ProcessesTypeOK
<1>1. MCInit => SessInit /\ RunnerInit
  BY DEF MCInit
<1>2. [MCNext]_MCVars => [SessNext]_sessVars /\ [RunnerNext]_runnerVars
  BY DEF MCNext, MCVars
<1>3. SessInv /\ RunnerTypes => ProcessesTypeOK
  BY DEF SessInv, RunnerTypes, ProcessesTypeOK
<1> QED BY <1>1, <1>2, <1>3, SessInvAlways, RunnerTypesAlways, PTL
        DEF MCSpec, SessSpec, RunnerSpec
================================================================================
