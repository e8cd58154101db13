----------------------------- MODULE SandboxProofs -----------------------------
(* The sandboxes of a thread, for any number of sandboxes, calls, streams and   *)
(* amount of output.  Part 1: the records, handles and machines of              *)
(* SandboxRecords agree.  Part 2: the process of ManagedProcess implements      *)
(* ProcessLog.  Part 3: the event log of ProcessEvents has the output first.    *)
EXTENDS MCSandboxes, FiniteSetTheorems, TLAPS

(* Part 1: records, handles and machines *)

CallKinds == {"none", "create", "fork", "restore", "attach", "named", "use", "resume",
              "restart", "stop", "detach", "terminate", "snapshot", "delete"}
CallStages == {"idle", "threadLock", "lock", "check", "acquire", "persist", "backend", "read",
               "register", "write", "detach", "snapshot", "finish", "sweep", "next", "remove",
               "recheck"}

\* Where a call of each kind can be.
StageOK(kind, at) ==
  \/ kind = "none" /\ at = "idle"
  \/ kind \in {"create", "fork", "restore", "attach"} /\ at \in {"acquire", "persist"}
  \/ kind = "named" /\ at \in {"lock", "check", "backend", "persist"}
  \/ kind = "use" /\ at \in {"read", "acquire", "register"}
  \/ kind = "resume" /\ at \in {"threadLock", "read", "acquire", "register", "write"}
  \/ kind = "restart" /\ at \in {"lock", "check", "backend"}
  \/ kind \in {"stop", "terminate"} /\ at \in {"lock", "check", "backend", "finish"}
  \/ kind = "detach" /\ at \in {"read", "acquire", "register", "detach"}
  \/ kind = "snapshot" /\ at \in {"read", "acquire", "register", "snapshot"}
  \/ kind = "delete" /\ at \in {"threadLock", "sweep", "next", "remove", "recheck"}

\* The machine is off and the record about to go; a machine in hand, to be
\* recorded or stopped; before the record was read.
Ends == {"finish", "remove"}
Hands == {"persist", "register", "write"}
Early == {"threadLock", "lock", "read", "check"}

CallOK(c) ==
  /\ StageOK(call[c].kind, call[c].at)
  /\ call[c].kind = "none" => call[c].box = Nobody
  /\ call[c].kind \notin {"none", "delete"} => call[c].box \in Boxes
  /\ call[c].at = "remove" => call[c].box \in Boxes
  /\ call[c].kind = "delete" /\ call[c].at = "threadLock" => call[c].box = Nobody

\* What write_lock protects: between check and finish the record stays, and
\* between a name's check and its record nobody else gets it running.
LockOK(c) ==
  LET b == call[c].box IN
  /\ call[c].at \in {"check", "backend"} \cup Ends => writer = c
  /\ call[c].kind = "named" /\ call[c].at = "persist" => writer = c
  /\ call[c].at \in Ends \/ (call[c].at = "backend" /\ call[c].kind # "named") =>
       stored[b].is /\ ~stored[b].ext
  /\ call[c].kind = "named" /\ call[c].at = "backend" /\ stored[b].is =>
       stored[b].running /\ ~stored[b].ext
  /\ call[c].kind = "named" /\ call[c].at \in {"backend", "persist"} /\ ~stored[b].is =>
       \A d \in Boxes : ~(stored[d].named /\ stored[d].running)

\* The call makes a sandbox whose machine never was.
Fresh(c) ==
  /\ call[c].kind \in Making
  /\ \/ call[c].at \in {"acquire", "lock", "check"}
     \/ call[c].at = "backend" /\ ~stored[call[c].box].is

\* A new id is its maker's own; with a machine and no record, others who know
\* the id have not read a record.
MakerOK(c) ==
  LET b == call[c].box IN
  /\ Fresh(c) => boots[b] = 0 /\ \A d \in Calls : call[d].box = b => d = c
  /\ call[c].at = "persist" =>
       /\ boots[b] # 0 /\ ~stored[b].is /\ call[c].got # 0
       /\ machine[b] = IF call[c].kind = "attach" THEN 0 ELSE call[c].got
       /\ \A d \in Calls : call[d].box = b /\ d # c => call[d].at \in Early

\* A call that acquires for a record it read: what it read may be stale, but for
\* its name and that the sandbox was not somebody else's.
UserOK(c) ==
  LET b == call[c].box IN
  call[c].kind \notin Making /\ call[c].at \in {"acquire", "register", "write"} =>
    /\ boots[b] # 0
    /\ ~(stored[b].ext /\ stored[b].running)
    /\ call[c].kind = "resume" =>
         call[c].seen.is /\ ~call[c].seen.ext /\ (stored[b].is => call[c].seen.named = stored[b].named)
    /\ call[c].at # "acquire" => call[c].got # 0

RecordOK(b) ==
  /\ ~stored[b].is => ~stored[b].running /\ ~stored[b].named /\ ~stored[b].ext
  /\ cached[b] # 0 => stored[b].running
  /\ boots[b] = 0 => ~stored[b].is
  /\ machine[b] <= boots[b]
  /\ stored[b].ext /\ stored[b].running => cached[b] # 0 /\ machine[b] = 0 /\ ~stored[b].named

Ending(b) == \E c \in Calls : call[c].box = b /\ call[c].at \in Ends
InHand(b) == \E c \in Calls : call[c].box = b /\ call[c].at \in Hands

HandleOK(b) ==
  cached[b] # 0 /\ ~stored[b].ext /\ b \notin cut /\ cached[b] # machine[b] => Ending(b)

MachineOK(b) ==
  machine[b] # 0 /\ b \notin leaked /\ (~stored[b].running \/ Ending(b)) => InHand(b)

\* A named sandbox that was stopped has no machine of its first boot.
NamedOK(b) ==
  stored[b].named /\ boots[b] = 1 /\ b \notin cut /\ b \notin leaked /\ (~stored[b].running \/ Ending(b))
    => machine[b] = 0

OwnerOK == ~ownerRec => \A b \in Boxes : ~stored[b].is

BoxInv ==
  /\ BoxTypeOK
  /\ \A c \in Calls : CallOK(c) /\ LockOK(c) /\ MakerOK(c) /\ UserOK(c)
  /\ \A b \in Boxes : RecordOK(b) /\ HandleOK(b) /\ MachineOK(b) /\ NamedOK(b)
  /\ OwnerOK
  /\ NamedOnce

LEMMA KindsAre == DOMAIN CallStart \cup {"none"} = CallKinds
BY DEF CallStart, CallKinds

LEMMA StartsWell ==
  ASSUME NEW kind \in DOMAIN CallStart
  PROVE  /\ StageOK(kind, CallStart[kind])
         /\ CallStart[kind] \in {"acquire", "lock", "read", "threadLock"}
         /\ kind \in Making => CallStart[kind] \in {"acquire", "lock"}
         /\ kind \notin Making => CallStart[kind] # "acquire"
BY DEF CallStart, StageOK, Making

LEMMA CallType ==
  ASSUME NEW j
  PROVE  j \in CallRecords <=>
           j \in [kind : CallKinds, box : Boxes \cup {Nobody}, at : CallStages,
                  seen : BoxRecords, got : Nat, from : Nat, todo : SUBSET Boxes, try : 0..Tries - 1]
BY KindsAre DEF CallRecords, CallStages

LEMMA NoneTyped ==
  /\ NoRecord \in BoxRecords
  /\ ~NoRecord.is /\ ~NoRecord.running /\ ~NoRecord.named /\ ~NoRecord.ext
  /\ NoCall \in CallRecords
  /\ NoCall.kind = "none" /\ NoCall.at = "idle" /\ NoCall.box = Nobody
<1>1. NoRecord \in BoxRecords
  BY DEF NoRecord, BoxRecords
<1>2. ~NoRecord.is /\ ~NoRecord.running /\ ~NoRecord.named /\ ~NoRecord.ext
  BY DEF NoRecord
<1>3. NoCall.kind = "none" /\ NoCall.at = "idle" /\ NoCall.box = Nobody
  BY DEF NoCall
<1>4. 0 \in 0..Tries - 1
  BY BoxAssumption
<1>5. NoCall \in CallRecords
  BY <1>1, <1>4, CallType DEF NoCall, CallKinds, CallStages
<1> QED
  BY <1>1, <1>2, <1>3, <1>5

LEMMA NobodyIsNone == Nobody \notin Calls /\ Nobody \notin Boxes
BY BoxAssumption DEF Nobody

LEMMA BoxInitInv == BoxInit => BoxInv
<1> SUFFICES ASSUME BoxInit
             PROVE  BoxInv
  OBVIOUS
<1>1. PICK H \in SUBSET Earlier : cached = [b \in Boxes |-> IF b \in H THEN 1 ELSE 0]
  BY DEF BoxInit
<1>2. /\ NewRecord("create", 0) \in BoxRecords
      /\ NewRecord("create", 0).is /\ NewRecord("create", 0).running
      /\ ~NewRecord("create", 0).ext /\ ~NewRecord("create", 0).named
  BY DEF NewRecord, BoxRecords
<1>3. BoxTypeOK
  <2>1. stored \in [Boxes -> BoxRecords]
    BY <1>2, NoneTyped DEF BoxInit
  <2>2. cached \in [Boxes -> Nat] /\ machine \in [Boxes -> Nat] /\ boots \in [Boxes -> Nat]
    BY <1>1 DEF BoxInit
  <2>3. call \in [Calls -> CallRecords]
    BY NoneTyped DEF BoxInit
  <2> QED
    BY <2>1, <2>2, <2>3, BoxAssumption DEF BoxInit, BoxTypeOK
<1>4. ASSUME NEW c \in Calls
      PROVE  CallOK(c) /\ LockOK(c) /\ MakerOK(c) /\ UserOK(c)
  <2>1. call[c] = NoCall
    BY DEF BoxInit
  <2>2. CallOK(c)
    BY <2>1, NoneTyped DEF CallOK, StageOK
  <2> QED
    BY <2>1, <2>2, NoneTyped DEF LockOK, MakerOK, Fresh, UserOK, Making, Ends
<1>5. ASSUME NEW b \in Boxes
      PROVE  RecordOK(b) /\ HandleOK(b) /\ MachineOK(b) /\ NamedOK(b)
  <2>1. ~Ending(b)
    BY NoneTyped DEF BoxInit, Ending, Ends
  <2>2. CASE b \in Earlier
    BY <1>1, <1>2, <2>1, <2>2 DEF BoxInit, RecordOK, HandleOK, MachineOK, NamedOK
  <2>3. CASE b \notin Earlier
    BY <1>1, <2>1, <2>3, NoneTyped DEF BoxInit, RecordOK, HandleOK, MachineOK, NamedOK
  <2> QED
    BY <2>2, <2>3
<1>6. OwnerOK
  BY DEF BoxInit, OwnerOK
<1>7. \A b \in Boxes : ~stored[b].named
  BY <1>2, NoneTyped DEF BoxInit
<1> QED
  BY <1>3, <1>4, <1>5, <1>6, <1>7 DEF BoxInv, NamedOnce

\* A call moves on, or ends, with nothing in hand; records, handles and machines
\* stay as they are.
LEMMA CallMoves ==
  ASSUME BoxInv, NEW c \in Calls, NEW j \in CallRecords,
         call' = [call EXCEPT ![c] = j],
         UNCHANGED <<stored, cached, machine, boots, ownerRec, cut, leaked, snaps>>,
         writer' \in Calls \cup {Nobody}, threadLock' \in Calls \cup {Nobody},
         boxCalls' \in 0..MaxBoxCalls,
         \A d \in Calls : d # c /\ writer = d => writer' = d,
         call[c].at \notin Hands \cup Ends,
         CallOK(c)', LockOK(c)', MakerOK(c)', UserOK(c)',
         \A d \in Calls : d # c /\ call[d].box = j.box =>
           ~Fresh(d) /\ (call[d].at = "persist" => j.at \in Early),
         j.at \in Ends => machine[j.box] = 0 \/ ~stored[j.box].running
  PROVE  BoxInv'
<1>t. BoxTypeOK'
  BY DEF BoxInv, BoxTypeOK
<1>c. call'[c] = j /\ \A d \in Calls : d # c => call'[d] = call[d]
  BY DEF BoxInv, BoxTypeOK
<1>1. ASSUME NEW d \in Calls
      PROVE  CallOK(d)' /\ LockOK(d)' /\ MakerOK(d)' /\ UserOK(d)'
  <2>1. CASE d = c
    BY <2>1
  <2>2. CASE d # c
    <3>1. call'[d] = call[d]
      BY <1>c, <2>2
    <3>2. CallOK(d)' /\ UserOK(d)'
      BY <3>1 DEF BoxInv, CallOK, UserOK
    <3>3. LockOK(d)'
      BY <2>2, <3>1 DEF BoxInv, LockOK
    <3>4. Fresh(d)' <=> Fresh(d)
      BY <3>1 DEF Fresh
    <3>5. MakerOK(d)'
      BY <1>c, <2>2, <3>1, <3>4 DEF BoxInv, MakerOK
    <3> QED
      BY <3>2, <3>3, <3>5
  <2> QED
    BY <2>1, <2>2
<1>2. ASSUME NEW b \in Boxes
      PROVE  RecordOK(b)' /\ HandleOK(b)' /\ MachineOK(b)' /\ NamedOK(b)'
  <2>1. RecordOK(b)'
    BY DEF BoxInv, RecordOK
  <2>2. Ending(b) => Ending(b)'
    BY <1>c DEF Ending
  <2>3. Ending(b)' => Ending(b) \/ machine[b] = 0 \/ ~stored[b].running
    BY <1>c DEF Ending
  <2>4. InHand(b) => InHand(b)'
    BY <1>c DEF InHand
  <2>5. HandleOK(b)'
    BY <2>2 DEF BoxInv, HandleOK
  <2>6. MachineOK(b)'
    BY <2>3, <2>4 DEF BoxInv, MachineOK
  <2>7. NamedOK(b)'
    BY <2>3 DEF BoxInv, NamedOK
  <2> QED
    BY <2>1, <2>5, <2>6, <2>7
<1>3. OwnerOK' /\ NamedOnce'
  BY DEF BoxInv, OwnerOK, NamedOnce
<1> QED
  BY <1>t, <1>1, <1>2, <1>3 DEF BoxInv

LEMMA CallTyped ==
  ASSUME BoxInv, NEW c \in Calls
  PROVE  /\ call[c] \in CallRecords /\ CallOK(c)
         /\ call[c].kind \in CallKinds /\ call[c].at \in CallStages
         /\ call[c].box \in Boxes \cup {Nobody}
         /\ call[c].seen \in BoxRecords /\ call[c].got \in Nat /\ call[c].from \in Nat
         /\ call[c].todo \subseteq Boxes
<1>1. call[c] \in CallRecords /\ CallOK(c)
  BY DEF BoxInv, BoxTypeOK
<1> QED
  BY <1>1, CallType

LEMMA Stepped ==
  ASSUME BoxInv, NEW c \in Calls, NEW at \in CallStages, Then(c, at)
  PROVE  \E j \in CallRecords :
           /\ call' = [call EXCEPT ![c] = j]
           /\ j.kind = call[c].kind /\ j.box = call[c].box /\ j.at = at
           /\ j.seen = call[c].seen /\ j.got = call[c].got
<1> DEFINE j == [call[c] EXCEPT !.at = at]
<1>1. call[c] \in CallRecords
  BY CallTyped
<1>2. /\ j \in CallRecords
      /\ j.kind = call[c].kind /\ j.box = call[c].box /\ j.at = at
      /\ j.seen = call[c].seen /\ j.got = call[c].got
  BY <1>1, CallType
<1>3. call' = [call EXCEPT ![c] = j]
  BY DEF Then
<1> QED
  BY <1>2, <1>3

LEMMA CallEnds ==
  ASSUME BoxInv, NEW c \in Calls, Done(c), call[c].at \notin Hands \cup Ends,
         UNCHANGED <<stored, cached, machine, boots, ownerRec, boxCalls, cut, leaked, snaps>>
  PROVE  BoxInv'
<1>1. call' = [call EXCEPT ![c] = NoCall] /\ call'[c] = NoCall
  BY DEF Done, BoxInv, BoxTypeOK
<1>2. writer' \in Calls \cup {Nobody} /\ threadLock' \in Calls \cup {Nobody}
  BY DEF Done, BoxInv, BoxTypeOK
<1>3. boxCalls' \in 0..MaxBoxCalls
  BY DEF BoxInv, BoxTypeOK
<1>4. \A d \in Calls : d # c /\ writer = d => writer' = d
  BY DEF Done
<1>5. CallOK(c)' /\ LockOK(c)' /\ MakerOK(c)' /\ UserOK(c)'
  BY <1>1, NoneTyped DEF CallOK, StageOK, LockOK, MakerOK, Fresh, UserOK, Making, Ends
<1>6. ASSUME NEW d \in Calls, d # c, call[d].box = NoCall.box
      PROVE  ~Fresh(d) /\ call[d].at # "persist"
  BY <1>6, CallTyped, NoneTyped, NobodyIsNone DEF CallOK, StageOK, Fresh, Making
<1> QED
  BY <1>1, <1>2, <1>3, <1>4, <1>5, <1>6, CallMoves, NoneTyped DEF Ends

LEMMA BeginCallInv ==
  ASSUME BoxInv, NEW c \in Calls, NEW kind \in DOMAIN CallStart, NEW b \in Boxes \cup {Nobody},
         NEW s \in 0..snaps, BeginCall(c, kind, b, s)
  PROVE  BoxInv'
<1> DEFINE j == [NoCall EXCEPT !.kind = kind, !.box = b, !.from = s, !.at = CallStart[kind]]
<1>1. call' = [call EXCEPT ![c] = j]
  BY DEF BeginCall
<1>2. kind \in CallKinds /\ CallStart[kind] \in CallStages
  BY StartsWell, KindsAre DEF CallStages
<1>3. j \in CallRecords /\ j.kind = kind /\ j.box = b /\ j.at = CallStart[kind]
  <2>1. PICK at \in CallStages : at = CallStart[kind]
    BY <1>2
  <2>n. s \in Nat
    BY DEF BoxInv, BoxTypeOK
  <2> DEFINE r == [NoCall EXCEPT !.kind = kind, !.box = b, !.from = s, !.at = at]
  <2>2. NoCall \in [kind : CallKinds, box : Boxes \cup {Nobody}, at : CallStages,
                    seen : BoxRecords, got : Nat, from : Nat, todo : SUBSET Boxes, try : 0..Tries - 1]
    BY NoneTyped, CallType
  <2>3. r \in [kind : CallKinds, box : Boxes \cup {Nobody}, at : CallStages,
               seen : BoxRecords, got : Nat, from : Nat, todo : SUBSET Boxes, try : 0..Tries - 1]
        /\ r.kind = kind /\ r.box = b /\ r.at = at
    BY <1>2, <2>n, <2>2
  <2>4. j = r
    BY <2>1
  <2> HIDE DEF r
  <2>5. r \in CallRecords
    BY <2>3, CallType
  <2> QED
    BY <2>1, <2>3, <2>4, <2>5
<1> HIDE DEF j
<1>4. call'[c] = j /\ call[c].kind = "none"
  BY <1>1 DEF BeginCall, BoxInv, BoxTypeOK
<1>5. call[c].at = "idle"
  BY <1>4, CallTyped DEF CallOK, StageOK
<1>6. /\ kind \in Making => b \in Boxes /\ boots[b] = 0 /\ \A d \in Calls : call[d].box # b
      /\ kind = "delete" => b = Nobody
      /\ kind \notin Making \cup {"delete"} => b \in Boxes /\ boots[b] # 0
  BY DEF BeginCall, Fits, Unmade, BoxInv, BoxTypeOK
<1>7. boxCalls' \in 0..MaxBoxCalls
  BY BoxAssumption DEF BeginCall, BoxInv, BoxTypeOK
<1>8. UNCHANGED <<stored, cached, machine, boots, ownerRec, writer, threadLock, cut, leaked, snaps>>
  BY DEF BeginCall
<1>9. CallOK(c)'
  <2>1. StageOK(kind, CallStart[kind]) /\ CallStart[kind] # "remove"
    BY StartsWell
  <2>2. kind # "none"
    BY StartsWell DEF StageOK
  <2>3. (kind \notin {"none", "delete"} => b \in Boxes) /\ (kind = "delete" => b = Nobody)
    BY <1>6
  <2> QED
    BY <1>3, <1>4, <2>1, <2>2, <2>3 DEF CallOK
<1>10. LockOK(c)' /\ UserOK(c)'
  BY <1>3, <1>4, StartsWell DEF LockOK, UserOK, Ends, Making
<1>11. call'[c].at # "persist"
  BY <1>3, <1>4, StartsWell
<1>12. MakerOK(c)'
  <2>1. CASE kind \in Making
    <3>1. \A d \in Calls : d # c => call'[d].box # b
      BY <1>1, <1>6, <2>1 DEF BoxInv, BoxTypeOK
    <3> QED
      BY <1>3, <1>4, <1>6, <1>8, <1>11, <2>1, <3>1 DEF MakerOK
  <2>2. CASE kind \notin Making
    BY <1>3, <1>4, <1>11, <2>2 DEF MakerOK, Fresh
  <2> QED
    BY <2>1, <2>2
<1>13. ASSUME NEW d \in Calls, d # c, call[d].box = j.box
       PROVE  ~Fresh(d) /\ (call[d].at = "persist" => j.at \in Early)
  <2>1. kind \notin Making
    BY <1>3, <1>6, <1>13
  <2>2. j.at \in Early
    BY <1>3, <2>1, StartsWell DEF Early
  <2>3. CASE b = Nobody
    BY <1>3, <1>13, <2>2, <2>3, CallTyped, NobodyIsNone DEF Fresh, CallOK, Making
  <2>4. CASE b # Nobody
    BY <1>3, <1>6, <1>13, <2>1, <2>2, <2>4 DEF BoxInv, MakerOK
  <2> QED
    BY <2>2, <2>3, <2>4
<1>14. writer \in Calls \cup {Nobody} /\ threadLock \in Calls \cup {Nobody}
  BY DEF BoxInv, BoxTypeOK
<1>15. j.at \notin Ends
  BY <1>3, StartsWell DEF Ends
<1>16. call[c].at \notin Hands \cup Ends
  BY <1>5 DEF Hands, Ends
<1> QED
  BY <1>1, <1>3, <1>7, <1>8, <1>9, <1>10, <1>12, <1>13, <1>14, <1>15, <1>16, CallMoves

\* A call goes on about the sandbox it is about.
LEMMA StageMoves ==
  ASSUME BoxInv, NEW c \in Calls, NEW j \in CallRecords,
         call' = [call EXCEPT ![c] = j],
         j.kind = call[c].kind, j.box = call[c].box, call[c].kind # "none",
         StageOK(j.kind, j.at), j.at # "remove",
         UNCHANGED <<stored, cached, machine, boots, ownerRec, boxCalls, cut, leaked, snaps>>,
         writer' = writer \/ (writer = Nobody /\ writer' = c),
         threadLock' \in Calls \cup {Nobody},
         call[c].at \notin Hands \cup Ends,
         LockOK(c)', MakerOK(c)', UserOK(c)',
         j.at \in Early \/ call[c].at \notin Early \/ j.box \notin Boxes \/ stored[j.box].is,
         j.at # "threadLock",
         j.at \in Ends => machine[j.box] = 0 \/ ~stored[j.box].running
  PROVE  BoxInv'
<1>1. call'[c] = j
  BY DEF BoxInv, BoxTypeOK
<1>2. CallOK(c)'
  BY <1>1, CallTyped DEF CallOK
<1>3. ASSUME NEW d \in Calls, d # c, call[d].box = j.box
      PROVE  ~Fresh(d) /\ (call[d].at = "persist" => j.at \in Early)
  <2>1. MakerOK(d) /\ CallOK(d)
    BY DEF BoxInv
  <2>2. ~Fresh(d)
    BY <1>3, <2>1 DEF MakerOK
  <2>3. call[d].at = "persist" => j.box \in Boxes
    BY <1>3, <2>1 DEF CallOK, StageOK
  <2>4. call[d].at = "persist" => ~stored[j.box].is
    BY <1>3, <2>1 DEF MakerOK
  <2>5. call[d].at = "persist" => call[c].at \in Early
    BY <1>3, <2>1 DEF MakerOK
  <2> QED
    BY <2>2, <2>3, <2>4, <2>5
<1>4. writer' \in Calls \cup {Nobody} /\ boxCalls' \in 0..MaxBoxCalls
  BY DEF BoxInv, BoxTypeOK
<1>5. \A d \in Calls : d # c /\ writer = d => writer' = d
  BY NobodyIsNone
<1> QED
  BY <1>2, <1>3, <1>4, <1>5, CallMoves

LEMMA TakeThreadInv ==
  ASSUME BoxInv, NEW c \in Calls, TakeThread(c)
  PROVE  BoxInv'
<1>1. PICK at : at = IF call[c].kind = "resume" THEN "read" ELSE "sweep"
  OBVIOUS
<1>2. /\ Then(c, at) /\ call[c].at = "threadLock" /\ threadLock' = c
      /\ UNCHANGED <<stored, cached, machine, boots, ownerRec, writer, boxCalls, cut, leaked, snaps>>
  BY <1>1 DEF TakeThread
<1>3. call[c].kind \in {"resume", "delete"}
  BY <1>2, CallTyped DEF CallOK, StageOK
<1>4. at \in CallStages /\ StageOK(call[c].kind, at) /\ at \in {"read", "sweep"}
  BY <1>1, <1>3 DEF CallStages, StageOK
<1>5. PICK j \in CallRecords :
        /\ call' = [call EXCEPT ![c] = j]
        /\ j.kind = call[c].kind /\ j.box = call[c].box /\ j.at = at
  BY <1>2, <1>4, Stepped
<1>6. call'[c] = j
  BY <1>5 DEF BoxInv, BoxTypeOK
<1>7. LockOK(c)' /\ MakerOK(c)' /\ UserOK(c)'
  BY <1>3, <1>4, <1>5, <1>6 DEF LockOK, MakerOK, UserOK, Fresh, Making, Ends
<1>8. CASE call[c].kind = "resume"
  BY <1>1, <1>2, <1>3, <1>4, <1>5, <1>7, <1>8, StageMoves DEF Early, Ends, Hands
<1>9. CASE call[c].kind = "delete"
  <2>1. j.box \notin Boxes
    BY <1>2, <1>5, <1>9, CallTyped, NobodyIsNone DEF CallOK
  <2> QED
    BY <1>1, <1>2, <1>3, <1>4, <1>5, <1>7, <1>9, <2>1, StageMoves DEF Ends, Hands
<1> QED
  BY <1>3, <1>8, <1>9

LEMMA TakeWriteInv ==
  ASSUME BoxInv, NEW c \in Calls, TakeWrite(c)
  PROVE  BoxInv'
<1>1. /\ Then(c, "check") /\ call[c].at = "lock" /\ writer = Nobody /\ writer' = c
      /\ UNCHANGED <<stored, cached, machine, boots, ownerRec, threadLock, boxCalls, cut, leaked, snaps>>
  BY DEF TakeWrite, Unlocked
<1>2. call[c].kind \in {"named", "restart", "stop", "terminate"}
  BY <1>1, CallTyped DEF CallOK, StageOK
<1>3. PICK at \in CallStages : at = "check"
  BY DEF CallStages
<1>4. PICK j \in CallRecords :
        /\ call' = [call EXCEPT ![c] = j]
        /\ j.kind = call[c].kind /\ j.box = call[c].box /\ j.at = at
  BY <1>1, <1>3, Stepped
<1>5. call'[c] = j /\ \A d \in Calls : call'[d].box = call[d].box
  BY <1>4 DEF BoxInv, BoxTypeOK
<1>6. LockOK(c)' /\ UserOK(c)'
  BY <1>1, <1>2, <1>3, <1>4, <1>5 DEF LockOK, UserOK, Making, Ends
<1>7. Fresh(c)' => Fresh(c)
  BY <1>1, <1>2, <1>3, <1>4, <1>5 DEF Fresh
<1>8. MakerOK(c)'
  BY <1>1, <1>3, <1>4, <1>5, <1>7 DEF BoxInv, MakerOK
<1>9. StageOK(j.kind, j.at)
  BY <1>2, <1>3, <1>4 DEF StageOK
<1>10. threadLock' \in Calls \cup {Nobody}
  BY <1>1 DEF BoxInv, BoxTypeOK
<1> QED
  BY <1>1, <1>2, <1>3, <1>4, <1>6, <1>8, <1>9, <1>10, StageMoves DEF Early, Ends, Hands

LEMMA BackendErrorInv ==
  ASSUME BoxInv, NEW c \in Calls, BackendError(c)
  PROVE  BoxInv'
<1>1. /\ Done(c) /\ call[c].at \in {"acquire", "backend"}
      /\ UNCHANGED <<stored, cached, machine, boots, ownerRec, boxCalls, cut, leaked, snaps>>
  BY DEF BackendError
<1> QED
  BY <1>1, CallEnds DEF Hands, Ends

LEMMA NamedCheckInv ==
  ASSUME BoxInv, NEW c \in Calls, NamedCheck(c)
  PROVE  BoxInv'
<1> DEFINE same == {b \in Boxes : stored[b].named /\ stored[b].running}
<1>1. /\ call[c].kind = "named" /\ call[c].at = "check"
      /\ UNCHANGED <<stored, cached, machine, boots, ownerRec, boxCalls, cut, leaked, snaps>>
  BY DEF NamedCheck, Serving
<1>2. \/ Done(c)
      \/ \E b \in same : call' = [call EXCEPT ![c].box = b, ![c].at = "backend"]
                         /\ UNCHANGED <<writer, threadLock>>
      \/ same = {} /\ Then(c, "backend") /\ UNCHANGED <<writer, threadLock>>
  BY DEF NamedCheck
<1>a. call[c].at \notin Hands \cup Ends /\ writer = c
  BY <1>1 DEF Hands, Ends, BoxInv, LockOK
<1>b. boxCalls' \in 0..MaxBoxCalls /\ writer \in Calls \cup {Nobody}
      /\ threadLock \in Calls \cup {Nobody}
  BY <1>1 DEF BoxInv, BoxTypeOK
<1>f. boots[call[c].box] = 0 /\ \A d \in Calls : call[d].box = call[c].box => d = c
  BY <1>1 DEF BoxInv, MakerOK, Fresh, Making
<1>3. CASE Done(c)
  BY <1>1, <1>a, <1>3, CallEnds
<1>4. ASSUME NEW b \in same, call' = [call EXCEPT ![c].box = b, ![c].at = "backend"],
             UNCHANGED <<writer, threadLock>>
      PROVE  BoxInv'
  <2> DEFINE j == [call[c] EXCEPT !.box = b, !.at = "backend"]
  <2>1. call' = [call EXCEPT ![c] = j]
    BY <1>4
  <2>2. j \in CallRecords /\ j.kind = "named" /\ j.box = b /\ j.at = "backend"
    <3>1. "backend" \in CallStages /\ b \in Boxes \cup {Nobody}
      BY DEF CallStages
    <3>2. call[c] \in [kind : CallKinds, box : Boxes \cup {Nobody}, at : CallStages,
                       seen : BoxRecords, got : Nat, from : Nat, todo : SUBSET Boxes, try : 0..Tries - 1]
      BY CallTyped, CallType
    <3>3. j \in [kind : CallKinds, box : Boxes \cup {Nobody}, at : CallStages,
                 seen : BoxRecords, got : Nat, from : Nat, todo : SUBSET Boxes, try : 0..Tries - 1]
          /\ j.kind = "named" /\ j.box = b /\ j.at = "backend"
      BY <1>1, <3>1, <3>2
    <3> QED
      BY <3>3, CallType
  <2> HIDE DEF j
  <2>3. call'[c] = j
    BY <2>1 DEF BoxInv, BoxTypeOK
  <2>4. b \in Boxes /\ stored[b].is /\ stored[b].running /\ ~stored[b].ext /\ boots[b] # 0
    BY DEF BoxInv, RecordOK
  <2>5. CallOK(c)' /\ UserOK(c)'
    BY <2>2, <2>3, <2>4 DEF CallOK, UserOK, StageOK
  <2>6. LockOK(c)'
    BY <1>1, <1>4, <1>a, <2>2, <2>3, <2>4 DEF LockOK, Ends
  <2>7. MakerOK(c)'
    BY <1>1, <2>2, <2>3, <2>4 DEF MakerOK, Fresh
  <2>8. ASSUME NEW d \in Calls, d # c, call[d].box = j.box
        PROVE  ~Fresh(d) /\ call[d].at # "persist"
    BY <2>2, <2>4, <2>8 DEF BoxInv, MakerOK
  <2>9. j.at \notin Ends
    BY <2>2 DEF Ends
  <2> QED
    BY <1>1, <1>4, <1>a, <1>b, <2>1, <2>2, <2>5, <2>6, <2>7, <2>8, <2>9, CallMoves
<1>5. CASE same = {} /\ Then(c, "backend") /\ UNCHANGED <<writer, threadLock>>
  <2>1. PICK at \in CallStages : at = "backend"
    BY DEF CallStages
  <2>2. PICK j \in CallRecords :
          /\ call' = [call EXCEPT ![c] = j]
          /\ j.kind = call[c].kind /\ j.box = call[c].box /\ j.at = at
    BY <1>5, <2>1, Stepped
  <2>3. call'[c] = j /\ \A d \in Calls : call'[d].box = call[d].box
    BY <2>2 DEF BoxInv, BoxTypeOK
  <2>4. j.box \in Boxes /\ ~stored[j.box].is
    BY <1>1, <1>f, <2>2, CallTyped DEF CallOK, BoxInv, RecordOK
  <2>5. CallOK(c)' /\ UserOK(c)'
    BY <1>1, <2>1, <2>2, <2>3, <2>4 DEF CallOK, UserOK, StageOK
  <2>6. \A b \in Boxes : ~(stored[b].named /\ stored[b].running)
    BY <1>5
  <2>7. LockOK(c)'
    BY <1>1, <1>5, <1>a, <2>1, <2>2, <2>3, <2>4, <2>6 DEF LockOK, Ends
  <2>8. MakerOK(c)'
    BY <1>1, <1>f, <2>1, <2>2, <2>3 DEF MakerOK
  <2>9. \A d \in Calls : call[d].box = j.box => d = c
    BY <1>f, <2>2
  <2>10. j.at \notin Ends
    BY <2>1, <2>2 DEF Ends
  <2> QED
    BY <1>1, <1>5, <1>a, <1>b, <2>2, <2>5, <2>7, <2>8, <2>9, <2>10, CallMoves
<1> QED
  BY <1>2, <1>3, <1>4, <1>5

LEMMA ReadInv ==
  ASSUME BoxInv, NEW c \in Calls, Read(c)
  PROVE  BoxInv'
<1> DEFINE b == call[c].box
           warm == stored[b].running /\ cached[b] # 0
           got == IF warm THEN cached[b] ELSE 0
           at == IF warm THEN Onwards(call[c].kind) ELSE "acquire"
<1>1. /\ call[c].at = "read"
      /\ UNCHANGED <<stored, cached, machine, boots, ownerRec, boxCalls, cut, leaked, snaps>>
  BY DEF Read
<1>2. call[c].kind \in {"use", "resume", "detach", "snapshot"} /\ b \in Boxes
  BY <1>1, CallTyped DEF CallOK, StageOK
<1>3. \/ Done(c)
      \/ /\ stored[b].is /\ (call[c].kind = "resume" => ~stored[b].ext)
         /\ ~(warm /\ call[c].kind = "use")
         /\ call' = [call EXCEPT ![c].seen = stored[b], ![c].got = got, ![c].at = at]
         /\ UNCHANGED <<writer, threadLock>>
  BY DEF Read
<1>4. call[c].at \notin Hands \cup Ends
  BY <1>1 DEF Hands, Ends
<1>5. CASE Done(c)
  BY <1>1, <1>4, <1>5, CallEnds
<1>6. CASE /\ stored[b].is /\ (call[c].kind = "resume" => ~stored[b].ext)
           /\ ~(warm /\ call[c].kind = "use")
           /\ call' = [call EXCEPT ![c].seen = stored[b], ![c].got = got, ![c].at = at]
           /\ UNCHANGED <<writer, threadLock>>
  <2>1. stored[b] \in BoxRecords /\ got \in Nat
    BY <1>2 DEF BoxInv, BoxTypeOK
  <2>2. StageOK(call[c].kind, at) /\ at \in {"acquire", "write", "detach", "snapshot"}
        /\ (at = "write" => got # 0) /\ (at \in {"acquire", "write"} /\ warm => call[c].kind = "resume")
    BY <1>2, <1>6 DEF StageOK, Onwards
  <2>3. at \in CallStages
    BY <2>2 DEF CallStages
  <2>4. PICK s \in BoxRecords, g \in Nat, a \in CallStages : s = stored[b] /\ g = got /\ a = at
    BY <2>1, <2>3
  <2> DEFINE j == [call[c] EXCEPT !.seen = s, !.got = g, !.at = a]
  <2>5. call' = [call EXCEPT ![c] = j]
    BY <1>6, <2>4
  <2>6. call[c] \in [kind : CallKinds, box : Boxes \cup {Nobody}, at : CallStages,
                     seen : BoxRecords, got : Nat, from : Nat, todo : SUBSET Boxes, try : 0..Tries - 1]
    BY CallTyped, CallType
  <2> HIDE DEF b, warm, got, at
  <2>7. j \in [kind : CallKinds, box : Boxes \cup {Nobody}, at : CallStages,
               seen : BoxRecords, got : Nat, from : Nat, todo : SUBSET Boxes, try : 0..Tries - 1]
        /\ j.kind = call[c].kind /\ j.box = call[c].box /\ j.seen = s /\ j.got = g /\ j.at = a
    BY <2>6
  <2> HIDE DEF j
  <2>8. j \in CallRecords
    BY <2>7, CallType
  <2>9. call'[c] = j
    BY <2>5 DEF BoxInv, BoxTypeOK
  <2>10. LockOK(c)' /\ MakerOK(c)'
    BY <1>2, <2>2, <2>4, <2>7, <2>9 DEF LockOK, MakerOK, Fresh, Making, Ends
  <2>11. RecordOK(b)
    BY <1>2 DEF BoxInv
  <2>12. boots[b] # 0 /\ (at \in {"acquire", "write"} => ~(stored[b].ext /\ stored[b].running))
    BY <1>6, <2>2, <2>11 DEF RecordOK, warm
  <2>13. UserOK(c)'
    BY <1>1, <1>2, <1>6, <2>2, <2>4, <2>7, <2>9, <2>12 DEF UserOK, b
  <2>14. threadLock' \in Calls \cup {Nobody}
    BY <1>6 DEF BoxInv, BoxTypeOK
  <2>15. stored[j.box].is /\ j.at \notin Ends /\ j.at \notin {"remove", "threadLock"}
         /\ StageOK(j.kind, j.at)
    BY <1>6, <2>2, <2>4, <2>7 DEF Ends, b
  <2> QED
    BY <1>1, <1>2, <1>4, <1>6, <2>5, <2>7, <2>8, <2>10, <2>13, <2>14, <2>15, StageMoves
<1> QED
  BY <1>3, <1>5, <1>6

LEMMA StopCheckInv ==
  ASSUME BoxInv, NEW c \in Calls, StopCheck(c)
  PROVE  BoxInv'
<1> DEFINE b == call[c].box
<1>1. /\ call[c].at = "check" /\ call[c].kind \in {"stop", "terminate"}
      /\ UNCHANGED <<stored, cached, machine, boots, ownerRec, boxCalls, cut, leaked, snaps>>
  BY DEF StopCheck, Serving
<1>2. b \in Boxes /\ call[c].at \notin Hands \cup Ends /\ writer = c
  BY <1>1, CallTyped DEF CallOK, Hands, Ends, BoxInv, LockOK
<1>3. CASE Done(c)
  BY <1>1, <1>2, <1>3, CallEnds
<1>4. CASE ~Done(c)
  <2>1. PICK at \in CallStages :
          /\ at \in {"backend", "finish"} /\ (at = "finish" => ~stored[b].running)
          /\ stored[b].is /\ ~stored[b].ext
          /\ Then(c, at) /\ UNCHANGED <<writer, threadLock>>
    <3> DEFINE halts == CASE call[c].kind = "stop" -> stored[b].is /\ stored[b].running
                          [] OTHER -> Requires(b)
    <3>1. PICK at : at = IF halts THEN "backend" ELSE "finish"
      OBVIOUS
    <3>2. /\ stored[b].is /\ ~stored[b].ext /\ (call[c].kind = "stop" => halts)
          /\ Then(c, at) /\ UNCHANGED <<writer, threadLock>>
      BY <1>4, <3>1 DEF StopCheck
    <3>3. ~halts => ~stored[b].running
      BY <1>1, <3>2 DEF Requires
    <3> HIDE DEF halts
    <3>4. at \in {"backend", "finish"} /\ (at = "finish" => ~halts) /\ at \in CallStages
      BY <3>1 DEF CallStages
    <3> QED
      BY <3>2, <3>3, <3>4
  <2>2. PICK j \in CallRecords :
          /\ call' = [call EXCEPT ![c] = j]
          /\ j.kind = call[c].kind /\ j.box = b /\ j.at = at
    BY <2>1, Stepped
  <2>3. call'[c] = j
    BY <2>2 DEF BoxInv, BoxTypeOK
  <2>4. LockOK(c)' /\ MakerOK(c)' /\ UserOK(c)'
    BY <1>1, <1>2, <2>1, <2>2, <2>3 DEF LockOK, MakerOK, UserOK, Fresh, Making, Ends
  <2>5. StageOK(j.kind, j.at) /\ threadLock' \in Calls \cup {Nobody}
    BY <1>1, <2>1, <2>2 DEF StageOK, BoxInv, BoxTypeOK
  <2> QED
    BY <1>1, <1>2, <2>1, <2>2, <2>4, <2>5, StageMoves DEF Ends
<1> QED
  BY <1>3, <1>4

LEMMA SweepListInv ==
  ASSUME BoxInv, NEW c \in Calls, SweepList(c)
  PROVE  BoxInv'
<1>1. /\ call[c].at = "sweep"
      /\ UNCHANGED <<stored, cached, machine, boots, ownerRec, boxCalls, cut, leaked, snaps>>
  BY DEF SweepList
<1>2. call[c].kind = "delete" /\ call[c].at \notin Hands \cup Ends \cup Early
  BY <1>1, CallTyped DEF CallOK, StageOK, Hands, Ends, Early
<1>3. CASE Done(c)
  BY <1>1, <1>2, <1>3, CallEnds
<1>4. CASE ~Done(c)
  <2>1. PICK D \in SUBSET Boxes :
          /\ call' = [call EXCEPT ![c].todo = D, ![c].at = "next"]
          /\ UNCHANGED <<writer, threadLock>>
    <3>1. PICK D : D = {b \in Boxes : Requires(b)}
      OBVIOUS
    <3>2. D \in SUBSET Boxes
      BY <3>1
    <3> QED
      BY <1>4, <3>1, <3>2 DEF SweepList
  <2> DEFINE j == [call[c] EXCEPT !.todo = D, !.at = "next"]
  <2>2. call' = [call EXCEPT ![c] = j]
    BY <2>1
  <2>3. call[c] \in [kind : CallKinds, box : Boxes \cup {Nobody}, at : CallStages,
                     seen : BoxRecords, got : Nat, from : Nat, todo : SUBSET Boxes, try : 0..Tries - 1]
        /\ "next" \in CallStages
    BY CallTyped, CallType DEF CallStages
  <2>4. j \in [kind : CallKinds, box : Boxes \cup {Nobody}, at : CallStages,
               seen : BoxRecords, got : Nat, from : Nat, todo : SUBSET Boxes, try : 0..Tries - 1]
        /\ j.kind = call[c].kind /\ j.box = call[c].box /\ j.at = "next"
    BY <2>3
  <2> HIDE DEF j
  <2>5. j \in CallRecords
    BY <2>4, CallType
  <2>6. call'[c] = j
    BY <2>2 DEF BoxInv, BoxTypeOK
  <2>7. LockOK(c)' /\ MakerOK(c)' /\ UserOK(c)'
    BY <1>2, <2>4, <2>6 DEF LockOK, MakerOK, UserOK, Fresh, Making, Ends
  <2>8. StageOK(j.kind, j.at) /\ threadLock' \in Calls \cup {Nobody}
    BY <1>2, <2>1, <2>4 DEF StageOK, BoxInv, BoxTypeOK
  <2> QED
    BY <1>1, <1>2, <2>1, <2>2, <2>4, <2>5, <2>7, <2>8, StageMoves DEF Ends
<1> QED
  BY <1>3, <1>4

\* A call ends, or goes on, that held a machine or was at its end: what it held
\* is recorded or off.  Other calls keep what they know of their sandboxes.
LEMMA OthersKeep ==
  ASSUME BoxInv, BoxTypeOK', NEW c \in Calls, NEW d \in Calls, d # c, NEW x \in Boxes,
         call'[d] = call[d],
         \A b \in Boxes : b # x => /\ stored'[b] = stored[b] /\ machine'[b] = machine[b]
                                   /\ boots'[b] = boots[b],
         \A e \in Calls : e # c => call'[e] = call[e],
         call'[c].box \in {x, Nobody},
         writer = d => writer' = d,
         \* The record of x.
         writer = d => stored'[x] = stored[x],
         stored[x].is /\ stored'[x].is => stored'[x].named = stored[x].named,
         ~stored[x].is /\ stored'[x].is =>
           \A e \in Calls : e # c /\ call[e].box = x => call[e].at \in Early,
         stored'[x].ext /\ stored'[x].running =>
           \/ stored[x].ext /\ stored[x].running
           \/ \A e \in Calls : e # c /\ call[e].box = x => call[e].at \in Early,
         writer = d /\ ~(stored[x].named /\ stored[x].running) => ~(stored'[x].named /\ stored'[x].running),
         \* The machine of x.
         boots[x] = 0 => \A e \in Calls : e # c => call[e].box # x,
         boots[x] # 0 => boots'[x] # 0,
         call[d].box = x => call[d].at # "persist"
  PROVE  CallOK(d)' /\ LockOK(d)' /\ MakerOK(d)' /\ UserOK(d)'
<1> DEFINE b == call[d].box
<1>1. CallOK(d) /\ LockOK(d) /\ MakerOK(d) /\ UserOK(d)
  BY DEF BoxInv
<1>2. CallOK(d)'
  BY <1>1 DEF CallOK
<1>3. b \in Boxes \cup {Nobody}
  BY CallTyped
<1>4. LockOK(d)'
  <2>1. b \in Boxes \/ ~(call[d].at \in {"check", "backend", "persist"} \cup Ends)
    BY <1>1, <1>3 DEF CallOK, StageOK, Ends
  <2>2. call[d].at \in {"check", "backend"} \cup Ends => writer = d
    BY <1>1 DEF LockOK
  <2>3. call[d].kind = "named" /\ call[d].at = "persist" => writer = d
    BY <1>1 DEF LockOK
  <2>4. writer = d => \A e \in Boxes : ~(stored[e].named /\ stored[e].running) =>
                                       ~(stored'[e].named /\ stored'[e].running)
    OBVIOUS
  <2>5. writer = d => \A e \in Boxes : stored'[e] = stored[e]
    OBVIOUS
  <2> QED
    BY <1>1, <2>1, <2>2, <2>3, <2>4, <2>5 DEF LockOK
<1>5. Fresh(d)' => Fresh(d)
  <2>1. call[d].at = "backend" => writer = d
    BY <1>1 DEF LockOK
  <2>2. call[d].at = "backend" => b \in Boxes
    BY <1>1, <1>3 DEF CallOK, StageOK
  <2>3. call[d].at = "backend" => stored'[b] = stored[b]
    BY <2>1, <2>2
  <2> QED
    BY <2>3 DEF Fresh
<1>6. Fresh(d) => b # x /\ b \in Boxes
  BY <1>1 DEF MakerOK, CallOK, Fresh, Making
<1>7. call[d].at = "persist" => b # x /\ b \in Boxes
  BY <1>1 DEF CallOK, StageOK
<1>8. MakerOK(d)'
  <2>1. \A e \in Calls : call'[e].box = b /\ b # x /\ b \in Boxes => call'[e] = call[e]
    BY NobodyIsNone
  <2> QED
    BY <1>1, <1>5, <1>6, <1>7, <2>1 DEF MakerOK
<1>9. UserOK(d)'
  <2>1. CASE b # x
    BY <1>1, <2>1 DEF UserOK, CallOK, StageOK
  <2>2. CASE b = x
    BY <1>1, <2>2 DEF UserOK, Early
  <2> QED
    BY <2>1, <2>2
<1> QED
  BY <1>2, <1>4, <1>8, <1>9

LEMMA OtherBoxes ==
  ASSUME BoxInv, NEW c \in Calls, NEW b \in Boxes,
         stored'[b] = stored[b], cached'[b] = cached[b], machine'[b] = machine[b],
         boots'[b] = boots[b], b \in cut' <=> b \in cut, b \in leaked' <=> b \in leaked,
         \A e \in Calls : e # c => call'[e] = call[e],
         call'[c].box # b, call[c].box = b => call[c].at \notin Hands \cup Ends
  PROVE  RecordOK(b)' /\ HandleOK(b)' /\ MachineOK(b)' /\ NamedOK(b)'
<1>1. RecordOK(b)'
  BY DEF BoxInv, RecordOK
<1>2. Ending(b)' <=> Ending(b)
  BY DEF Ending
<1>3. InHand(b) => InHand(b)'
  BY DEF InHand
<1> QED
  BY <1>1, <1>2, <1>3 DEF BoxInv, HandleOK, MachineOK, NamedOK

\* A step of call c that changes one sandbox.
LEMMA BoxMoves ==
  ASSUME BoxInv, BoxTypeOK', NEW c \in Calls, NEW x \in Boxes, NEW j,
         call' = [call EXCEPT ![c] = j], j.box \in {x, Nobody},
         CallOK(c)', LockOK(c)', MakerOK(c)', UserOK(c)',
         \A b \in Boxes : b # x => /\ stored'[b] = stored[b] /\ cached'[b] = cached[b]
                                   /\ machine'[b] = machine[b] /\ boots'[b] = boots[b]
                                   /\ (b \in cut' <=> b \in cut)
                                   /\ (b \in leaked' <=> b \in leaked),
         ownerRec' = ownerRec,
         call[c].box # x => call[c].at \notin Hands \cup Ends,
         \A d \in Calls : d # c /\ writer = d => writer' = d,
         stored'[x] = stored[x] \/ writer \in {Nobody, c},
         stored[x].is \/ (call[c].box = x /\ call[c].at \notin Early),
         boots[x] # 0 \/ (call[c].box = x /\ Fresh(c)),
         boots[x] # 0 => boots'[x] # 0,
         stored[x].is /\ stored'[x].is => stored'[x].named = stored[x].named,
         stored'[x].is => stored[x].is \/ (call[c].box = x /\ call[c].at = "persist" /\ ownerRec),
         stored'[x].ext /\ stored'[x].running =>
           (stored[x].ext /\ stored[x].running) \/ (call[c].box = x /\ call[c].at = "persist"),
         stored'[x].named /\ stored'[x].running /\ boots'[x] = 1 /\ x \notin cut' /\ x \notin leaked' =>
           \/ stored[x].named /\ stored[x].running /\ boots[x] = 1 /\ x \notin cut /\ x \notin leaked
           \/ \A b \in Boxes : ~(stored[b].named /\ stored[b].running),
         RecordOK(x)', HandleOK(x)', MachineOK(x)', NamedOK(x)'
  PROVE  BoxInv'
<1>1. call'[c] = j /\ \A d \in Calls : d # c => call'[d] = call[d]
  BY DEF BoxInv, BoxTypeOK
<1>2. ASSUME NEW d \in Calls
      PROVE  CallOK(d)' /\ LockOK(d)' /\ MakerOK(d)' /\ UserOK(d)'
  <2>1. CASE d = c
    BY <2>1
  <2>2. CASE d # c
    <3>1. call[d].box = x => call[d].at # "persist"
      BY <2>2 DEF BoxInv, MakerOK
    <3>2. boots[x] = 0 => \A e \in Calls : e # c => call[e].box # x
      BY DEF BoxInv, MakerOK
    <3>3. call[c].box = x /\ call[c].at = "persist" =>
            \A e \in Calls : e # c /\ call[e].box = x => call[e].at \in Early
      BY DEF BoxInv, MakerOK
    <3>4. writer = d => stored'[x] = stored[x]
      BY <2>2, NobodyIsNone
    <3> QED
      BY <1>1, <2>2, <3>1, <3>2, <3>3, <3>4, OthersKeep
  <2> QED
    BY <2>1, <2>2
<1>3. ASSUME NEW b \in Boxes
      PROVE  RecordOK(b)' /\ HandleOK(b)' /\ MachineOK(b)' /\ NamedOK(b)'
  <2>1. CASE b = x
    BY <2>1
  <2>2. CASE b # x
    <3>1. call'[c].box # b /\ (call[c].box = b => call[c].at \notin Hands \cup Ends)
      BY <1>1, <2>2, NobodyIsNone
    <3> QED
      BY <1>1, <2>2, <3>1, OtherBoxes
  <2> QED
    BY <2>1, <2>2
<1>4. OwnerOK'
  BY DEF BoxInv, OwnerOK
<1>5. NamedOnce'
  <2> SUFFICES ASSUME NEW b \in Boxes, NEW d \in Boxes,
                      stored'[b].named, stored'[b].running, stored'[d].named, stored'[d].running,
                      boots'[b] = 1, boots'[d] = 1, b \notin cut', d \notin cut',
                      b \notin leaked', d \notin leaked', b # d
               PROVE  FALSE
    BY DEF NamedOnce
  <2>1. NamedOnce
    BY DEF BoxInv
  <2>2. CASE b = x
    BY <2>1, <2>2 DEF NamedOnce
  <2>3. CASE d = x
    BY <2>1, <2>3 DEF NamedOnce
  <2>4. CASE b # x /\ d # x
    BY <2>1, <2>4 DEF NamedOnce
  <2> QED
    BY <2>2, <2>3, <2>4
<1> QED
  BY <1>2, <1>3, <1>4, <1>5 DEF BoxInv

\* A call goes on with a machine in its hands.
Holding(c, g, at) == call' = [call EXCEPT ![c].got = g, ![c].at = at]

LEMMA GotTyped ==
  ASSUME BoxInv, NEW c \in Calls, NEW g \in Nat, NEW a \in CallStages, Holding(c, g, a)
  PROVE  \E j \in CallRecords :
         /\ call' = [call EXCEPT ![c] = j]
         /\ j.kind = call[c].kind /\ j.box = call[c].box
         /\ j.got = g /\ j.at = a /\ j.seen = call[c].seen
<1> DEFINE j == [call[c] EXCEPT !.got = g, !.at = a]
<1>1. call[c] \in [kind : CallKinds, box : Boxes \cup {Nobody}, at : CallStages,
                   seen : BoxRecords, got : Nat, from : Nat, todo : SUBSET Boxes, try : 0..Tries - 1]
  BY CallTyped, CallType
<1>2. /\ j \in [kind : CallKinds, box : Boxes \cup {Nobody}, at : CallStages,
                seen : BoxRecords, got : Nat, from : Nat, todo : SUBSET Boxes, try : 0..Tries - 1]
      /\ j.kind = call[c].kind /\ j.box = call[c].box /\ j.got = g /\ j.at = a
      /\ j.seen = call[c].seen
  BY <1>1
<1>3. call' = [call EXCEPT ![c] = j]
  BY DEF Holding
<1> HIDE DEF j
<1>4. j \in CallRecords
  BY <1>2, CallType
<1> QED
  BY <1>2, <1>3, <1>4

LEMMA AcquiredTyped ==
  ASSUME BoxInv, NEW b \in Boxes
  PROVE  /\ Acquired(b) \in Nat /\ Acquired(b) # 0
         /\ machine[b] # 0 => Acquired(b) = machine[b] /\ Acquired(b) <= boots[b]
         /\ machine[b] = 0 => Acquired(b) = boots[b] + 1
BY DEF BoxInv, BoxTypeOK, Acquired, RecordOK

\* What a boot does to the numbers.
LEMMA BootFacts ==
  ASSUME BoxInv, NEW b \in Boxes, NEW g \in Nat, g = Acquired(b), Boot(b, g)
  PROVE  /\ machine' \in [Boxes -> Nat] /\ boots' \in [Boxes -> Nat]
         /\ \A d \in Boxes : d # b => machine'[d] = machine[d] /\ boots'[d] = boots[d]
         /\ machine'[b] = g /\ g # 0 /\ g <= boots'[b] /\ boots'[b] # 0
         /\ machine[b] # 0 => g = machine[b] /\ boots'[b] = boots[b]
         /\ machine[b] = 0 => boots'[b] = boots[b] + 1
<1>1. machine \in [Boxes -> Nat] /\ boots \in [Boxes -> Nat]
  BY DEF BoxInv, BoxTypeOK
<1>2. /\ machine' = [machine EXCEPT ![b] = g]
      /\ boots' = [boots EXCEPT ![b] = IF g > @ THEN g ELSE @]
  BY DEF Boot
<1>3. boots'[b] = IF g > boots[b] THEN g ELSE boots[b]
  BY <1>1, <1>2
<1>4. machine' \in [Boxes -> Nat] /\ boots' \in [Boxes -> Nat]
  BY <1>1, <1>2
<1>5. \A d \in Boxes : d # b => machine'[d] = machine[d] /\ boots'[d] = boots[d]
  BY <1>1, <1>2
<1>6. machine'[b] = g /\ boots[b] \in Nat
  BY <1>1, <1>2
<1> QED
  BY <1>3, <1>4, <1>5, <1>6, AcquiredTyped

LEMMA AcquireInv ==
  ASSUME BoxInv, NEW c \in Calls, Acquire(c)
  PROVE  BoxInv'
<1>1. PICK b : b = call[c].box
  OBVIOUS
<1>2. /\ call[c].at = "acquire"
      /\ UNCHANGED <<stored, cached, ownerRec, writer, threadLock, boxCalls, cut, leaked, snaps>>
  BY DEF Acquire
<1>3. /\ call[c].kind \in {"create", "fork", "restore", "attach", "use", "resume", "detach", "snapshot"}
      /\ b \in Boxes
  BY <1>1, <1>2, CallTyped DEF CallOK, StageOK
<1>4. PICK g \in Nat : g = Acquired(b)
  BY <1>3, AcquiredTyped
<1> DEFINE to == CASE call[c].kind \in Making -> "persist"
                   [] call[c].kind = "resume" /\ ~call[c].seen.running -> "write"
                   [] OTHER -> "register"
<1>5. /\ to \in {"persist", "write", "register"} /\ StageOK(call[c].kind, to)
      /\ to = "persist" <=> call[c].kind \in Making
  BY <1>3 DEF Making, StageOK
<1>6. PICK a \in CallStages : a = to
  BY <1>5 DEF CallStages
<1> HIDE DEF to
<1>7. Holding(c, g, a)
  BY <1>1, <1>4, <1>6 DEF Acquire, to, Holding
<1>8. PICK j \in CallRecords :
        /\ call' = [call EXCEPT ![c] = j]
        /\ j.kind = call[c].kind /\ j.box = call[c].box
        /\ j.got = g /\ j.at = a /\ j.seen = call[c].seen
  BY <1>7, GotTyped
<1>9. /\ j \in CallRecords /\ j.kind = call[c].kind /\ j.box = b
      /\ j.got = g /\ j.at = a /\ j.seen = call[c].seen
  BY <1>1, <1>8
<1>a. call' = [call EXCEPT ![c] = j]
  BY <1>8
<1>10. call'[c] = j /\ \A d \in Calls : d # c => call'[d] = call[d]
  BY <1>a DEF BoxInv, BoxTypeOK
<1>11. call' \in [Calls -> CallRecords]
  BY <1>a, <1>9 DEF BoxInv, BoxTypeOK
<1>12. RecordOK(b) /\ HandleOK(b) /\ MachineOK(b) /\ NamedOK(b) /\ MakerOK(c) /\ UserOK(c)
  BY <1>3 DEF BoxInv
<1>13. call[c].kind \in Making =>
         /\ Fresh(c) /\ boots[b] = 0 /\ machine[b] = 0 /\ ~stored[b].is
         /\ \A d \in Calls : call[d].box = b => d = c
  <2>1. call[c].kind \in Making => Fresh(c)
    BY <1>2 DEF Fresh
  <2>2. machine[b] \in Nat
    BY <1>3 DEF BoxInv, BoxTypeOK
  <2> QED
    BY <1>1, <1>12, <2>1, <2>2 DEF MakerOK, RecordOK
<1>14. call[c].kind \notin Making => boots[b] # 0 /\ ~(stored[b].ext /\ stored[b].running)
  BY <1>1, <1>2, <1>12 DEF UserOK
<1>15. /\ machine' \in [Boxes -> Nat] /\ boots' \in [Boxes -> Nat]
       /\ \A d \in Boxes : d # b => machine'[d] = machine[d] /\ boots'[d] = boots[d]
       /\ machine'[b] = IF call[c].kind = "attach" THEN 0 ELSE g
       /\ g # 0 /\ machine'[b] <= boots'[b] /\ boots'[b] # 0
       /\ machine[b] # 0 => g = machine[b] /\ boots'[b] = boots[b]
       /\ machine[b] = 0 => boots'[b] = boots[b] + 1
  <2>1. CASE call[c].kind = "attach"
    <3>1. machine[b] = 0 /\ boots[b] = 0 /\ g = 1
      BY <1>3, <1>4, <1>13, <2>1, AcquiredTyped DEF Making
    <3>2. boots' = [boots EXCEPT ![b] = g] /\ UNCHANGED machine
      BY <1>1, <1>4, <2>1 DEF Acquire
    <3>3. machine \in [Boxes -> Nat] /\ boots \in [Boxes -> Nat]
      BY DEF BoxInv, BoxTypeOK
    <3> QED
      BY <1>3, <2>1, <3>1, <3>2, <3>3
  <2>2. CASE call[c].kind # "attach"
    <3>1. Boot(b, g)
      BY <1>1, <1>4, <2>2 DEF Acquire
    <3> QED
      BY <1>3, <1>4, <2>2, <3>1, BootFacts
  <2> QED
    BY <2>1, <2>2
<1>16. BoxTypeOK'
  BY <1>2, <1>11, <1>15 DEF BoxInv, BoxTypeOK
<1>17. CallOK(c)' /\ LockOK(c)'
  BY <1>2, <1>3, <1>5, <1>6, <1>9, <1>10 DEF CallOK, LockOK, Ends
<1>18. MakerOK(c)'
  BY <1>2, <1>3, <1>5, <1>6, <1>9, <1>10, <1>13, <1>15 DEF MakerOK, Fresh
<1>19. UserOK(c)'
  BY <1>1, <1>2, <1>3, <1>5, <1>6, <1>9, <1>10, <1>12, <1>14, <1>15 DEF UserOK
<1>20. RecordOK(b)'
  BY <1>2, <1>3, <1>12, <1>13, <1>14, <1>15 DEF RecordOK
<1>21. Ending(b)' <=> Ending(b)
  BY <1>2, <1>5, <1>6, <1>9, <1>10 DEF Ending, Ends
<1>22. HandleOK(b)'
  <2>1. call[c].kind \in Making => cached[b] = 0
    BY <1>12, <1>13 DEF RecordOK
  <2>2. call[c].kind # "attach" /\ machine[b] # 0 => machine'[b] = machine[b]
    BY <1>15
  <2>3. cached[b] # 0 => call[c].kind # "attach"
    BY <2>1 DEF Making
  <2> QED
    BY <1>2, <1>12, <1>21, <2>2, <2>3 DEF HandleOK
<1>23. MachineOK(b)'
  BY <1>5, <1>6, <1>9, <1>10 DEF MachineOK, InHand, Hands
<1>24. NamedOK(b)'
  <2>1. stored[b].named => boots[b] # 0 /\ call[c].kind \notin Making
    BY <1>12, <1>13 DEF RecordOK
  <2>2. boots[b] \in Nat
    BY <1>3 DEF BoxInv, BoxTypeOK
  <2>3. stored[b].named /\ boots'[b] = 1 => machine[b] # 0
    BY <1>15, <2>1, <2>2
  <2>4. stored[b].named /\ boots'[b] = 1 => machine'[b] = machine[b] /\ boots[b] = 1
    BY <1>15, <2>1, <2>3 DEF Making
  <2> QED
    BY <1>2, <1>12, <1>21, <2>4 DEF NamedOK
<1>25. /\ call[c].at \notin Early /\ (boots[b] # 0 \/ Fresh(c))
       /\ (boots[b] # 0 => boots'[b] # 0)
  BY <1>2, <1>13, <1>14, <1>15 DEF Early
<1>26. stored[b].named /\ boots'[b] = 1 => boots[b] = 1
  <2>1. stored[b].named => boots[b] # 0 /\ boots[b] \in Nat
    BY <1>3, <1>12 DEF RecordOK, BoxInv, BoxTypeOK
  <2> QED
    BY <1>15, <2>1
<1> QED
  BY <1>1, <1>2, <1>3, <1>a, <1>9, <1>15, <1>16, <1>17, <1>18, <1>19, <1>20, <1>22, <1>23,
     <1>24, <1>25, <1>26, BoxMoves

LEMMA DoneFacts ==
  ASSUME BoxInv, NEW c \in Calls, Done(c)
  PROVE  /\ call' = [call EXCEPT ![c] = NoCall] /\ NoCall.box = Nobody
         /\ call'[c] = NoCall /\ call'[c].box = Nobody /\ call'[c].at = "idle"
         /\ \A d \in Calls : d # c => call'[d] = call[d]
         /\ call' \in [Calls -> CallRecords]
         /\ writer' \in Calls \cup {Nobody} /\ threadLock' \in Calls \cup {Nobody}
         /\ \A d \in Calls : d # c /\ writer = d => writer' = d
         /\ CallOK(c)' /\ LockOK(c)' /\ MakerOK(c)' /\ UserOK(c)'
<1>1. call' = [call EXCEPT ![c] = NoCall]
  BY DEF Done
<1>2. call'[c] = NoCall /\ \A d \in Calls : d # c => call'[d] = call[d]
  BY <1>1 DEF BoxInv, BoxTypeOK
<1>3. call' \in [Calls -> CallRecords]
  BY <1>1, NoneTyped DEF BoxInv, BoxTypeOK
<1>4. writer' \in Calls \cup {Nobody} /\ threadLock' \in Calls \cup {Nobody}
  BY DEF Done, BoxInv, BoxTypeOK
<1>5. \A d \in Calls : d # c /\ writer = d => writer' = d
  BY DEF Done
<1>6. CallOK(c)' /\ LockOK(c)' /\ MakerOK(c)' /\ UserOK(c)'
  BY <1>2, NoneTyped DEF CallOK, StageOK, LockOK, MakerOK, Fresh, UserOK, Making, Ends
<1> QED
  BY <1>1, <1>2, <1>3, <1>4, <1>5, <1>6, NoneTyped

LEMMA NamedBackendInv ==
  ASSUME BoxInv, NEW c \in Calls, NamedBackend(c)
  PROVE  BoxInv'
<1>1. PICK b : b = call[c].box
  OBVIOUS
<1>2. /\ call[c].at = "backend" /\ call[c].kind = "named"
      /\ UNCHANGED <<stored, ownerRec, boxCalls, cut, leaked, snaps>>
  BY DEF NamedBackend, Serving
<1>3. b \in Boxes /\ call[c].at \notin Hands \cup Ends \cup Early
  BY <1>1, <1>2, CallTyped DEF CallOK, Hands, Ends, Early
<1>4. PICK g \in Nat : g = Acquired(b)
  BY <1>3, AcquiredTyped
<1>5. /\ Boot(b, g)
      /\ \/ stored[b].is /\ cached' = [cached EXCEPT ![b] = g] /\ Done(c)
         \/ ~stored[b].is /\ Holding(c, g, "persist") /\ UNCHANGED <<cached, writer, threadLock>>
  BY <1>1, <1>4 DEF NamedBackend, Holding
<1>6. /\ machine' \in [Boxes -> Nat] /\ boots' \in [Boxes -> Nat]
      /\ \A d \in Boxes : d # b => machine'[d] = machine[d] /\ boots'[d] = boots[d]
      /\ machine'[b] = g /\ g # 0 /\ g <= boots'[b] /\ boots'[b] # 0
      /\ machine[b] # 0 => g = machine[b] /\ boots'[b] = boots[b]
      /\ machine[b] = 0 => boots'[b] = boots[b] + 1
  BY <1>3, <1>4, <1>5, BootFacts
<1>7. RecordOK(b) /\ HandleOK(b) /\ MachineOK(b) /\ NamedOK(b) /\ MakerOK(c) /\ LockOK(c)
  BY <1>3 DEF BoxInv
<1>8. writer = c
  BY <1>2, <1>7 DEF LockOK
<1>9. boots[b] \in Nat /\ machine[b] \in Nat /\ cached \in [Boxes -> Nat]
  BY <1>3 DEF BoxInv, BoxTypeOK
<1>10. CASE stored[b].is
  <2>1. cached' = [cached EXCEPT ![b] = g] /\ Done(c)
    BY <1>5, <1>10
  <2>2. stored[b].running /\ ~stored[b].ext /\ boots[b] # 0
    BY <1>1, <1>2, <1>7, <1>10 DEF LockOK, RecordOK
  <2>3. cached' \in [Boxes -> Nat] /\ cached'[b] = g
        /\ \A d \in Boxes : d # b => cached'[d] = cached[d]
    BY <1>3, <1>9, <2>1
  <2>4. BoxTypeOK'
    BY <1>2, <1>6, <2>1, <2>3, DoneFacts DEF BoxInv, BoxTypeOK
  <2>5. RecordOK(b)' /\ HandleOK(b)'
    BY <1>2, <1>6, <1>10, <2>2, <2>3 DEF RecordOK, HandleOK
  <2>6. ~Ending(b)'
    <3>1. \A d \in Calls : call[d].at \in Ends => d = c
      BY <1>8 DEF BoxInv, LockOK
    <3> QED
      BY <2>1, <3>1, DoneFacts DEF Ending, Ends
  <2>7. MachineOK(b)' /\ NamedOK(b)'
    BY <1>2, <2>2, <2>6 DEF MachineOK, NamedOK
  <2>8. boots'[b] = 1 => boots[b] = 1
    BY <1>6, <1>9, <2>2
  <2> QED
    BY <1>1, <1>2, <1>3, <1>6, <1>8, <1>10, <2>1, <2>2, <2>3, <2>4, <2>5, <2>7, <2>8,
       DoneFacts, BoxMoves
<1>11. CASE ~stored[b].is
  <2>1. /\ Fresh(c) /\ boots[b] = 0 /\ machine[b] = 0
        /\ \A d \in Calls : call[d].box = b => d = c
    <3>1. Fresh(c)
      BY <1>1, <1>2, <1>11 DEF Fresh, Making
    <3> QED
      BY <1>1, <1>7, <1>9, <3>1 DEF MakerOK, RecordOK
  <2>2. PICK a \in CallStages : a = "persist"
    BY DEF CallStages
  <2>3. Holding(c, g, a) /\ UNCHANGED <<cached, writer, threadLock>>
    BY <1>5, <1>11, <2>2
  <2>4. PICK j \in CallRecords :
          /\ call' = [call EXCEPT ![c] = j]
          /\ j.kind = call[c].kind /\ j.box = call[c].box
          /\ j.got = g /\ j.at = a /\ j.seen = call[c].seen
    BY <2>3, GotTyped
  <2>5. call'[c] = j /\ \A d \in Calls : d # c => call'[d] = call[d]
    BY <2>4 DEF BoxInv, BoxTypeOK
  <2>6. BoxTypeOK'
    BY <1>2, <1>6, <2>3, <2>4 DEF BoxInv, BoxTypeOK
  <2>7. CallOK(c)' /\ UserOK(c)'
    BY <1>1, <1>2, <1>3, <2>2, <2>4, <2>5 DEF CallOK, StageOK, UserOK, Making
  <2>8. LockOK(c)'
    <3>1. \A d \in Boxes : ~(stored[d].named /\ stored[d].running)
      BY <1>1, <1>2, <1>7, <1>11 DEF LockOK
    <3> QED
      BY <1>1, <1>2, <1>8, <2>2, <2>3, <2>4, <2>5, <3>1 DEF LockOK, Ends
  <2>9. MakerOK(c)'
    BY <1>1, <1>2, <1>6, <1>11, <2>1, <2>2, <2>4, <2>5 DEF MakerOK, Fresh
  <2>10. ~stored[b].named /\ ~stored[b].running /\ ~stored[b].ext /\ cached[b] = 0
    BY <1>7, <1>11 DEF RecordOK
  <2>11. RecordOK(b)' /\ HandleOK(b)' /\ NamedOK(b)'
    BY <1>2, <1>6, <1>11, <2>3, <2>10 DEF RecordOK, HandleOK, NamedOK
  <2>12. MachineOK(b)'
    BY <1>1, <2>2, <2>4, <2>5 DEF MachineOK, InHand, Hands
  <2> QED
    BY <1>1, <1>2, <1>3, <1>6, <1>8, <1>11, <2>1, <2>3, <2>4, <2>6, <2>7, <2>8, <2>9, <2>10,
       <2>11, <2>12, BoxMoves
<1> QED
  BY <1>10, <1>11

LEMMA PowerFacts ==
  ASSUME BoxInv, NEW B, PowerOff(B)
  PROVE  /\ machine' \in [Boxes -> Nat]
         /\ \A b \in Boxes : machine'[b] = IF b \in B THEN 0 ELSE machine[b]
BY DEF BoxInv, BoxTypeOK, PowerOff

LEMMA StopFacts ==
  ASSUME BoxInv, NEW b \in Boxes, StopUnregistered(b)
  PROVE  /\ machine' \in [Boxes -> Nat] /\ leaked' \subseteq Boxes /\ leaked \subseteq leaked'
         /\ machine'[b] = 0 \/ (machine'[b] = machine[b] /\ b \in leaked')
         /\ \A d \in Boxes : d # b => machine'[d] = machine[d] /\ (d \in leaked' <=> d \in leaked)
<1>1. machine \in [Boxes -> Nat] /\ leaked \subseteq Boxes
  BY DEF BoxInv, BoxTypeOK
<1>2. CASE PowerOff({b}) /\ UNCHANGED leaked
  BY <1>1, <1>2, PowerFacts
<1>3. CASE leaked' = leaked \cup {b} /\ UNCHANGED machine
  BY <1>1, <1>3
<1> QED
  BY <1>2, <1>3 DEF StopUnregistered

LEMMA PersistInv ==
  ASSUME BoxInv, NEW c \in Calls, Persist(c)
  PROVE  BoxInv'
<1>1. PICK b : b = call[c].box
  OBVIOUS
<1>2. /\ call[c].at = "persist" /\ writer \in {Nobody, c} /\ Done(c)
      /\ UNCHANGED <<boots, ownerRec, boxCalls, cut, snaps>>
  BY DEF Persist
<1>3. call[c].kind \in Making /\ b \in Boxes /\ call[c].at \notin Early
  BY <1>1, <1>2, CallTyped DEF CallOK, StageOK, Making, Early
<1>4. RecordOK(b) /\ MachineOK(b) /\ MakerOK(c) /\ LockOK(c)
  BY <1>3 DEF BoxInv
<1>5. /\ boots[b] # 0 /\ ~stored[b].is /\ call[c].got # 0
      /\ machine[b] = IF call[c].kind = "attach" THEN 0 ELSE call[c].got
      /\ \A d \in Calls : call[d].box = b /\ d # c => call[d].at \in Early
  BY <1>1, <1>2, <1>4 DEF MakerOK
<1>6. ~Ending(b)'
  BY <1>2, <1>3, <1>5, DoneFacts, NobodyIsNone DEF Ending, Ends, Early
<1>7. CASE ownerRec
  <2>1. PICK r : r = NewRecord(call[c].kind, call[c].from)
    OBVIOUS
  <2>2. /\ stored' = [stored EXCEPT ![b] = r] /\ cached' = [cached EXCEPT ![b] = call[c].got]
        /\ UNCHANGED <<machine, leaked>>
    BY <1>1, <1>7, <2>1 DEF Persist
  <2>3. /\ r \in BoxRecords /\ r.is /\ r.running
        /\ (r.ext <=> call[c].kind = "attach") /\ (r.named <=> call[c].kind = "named")
    BY <2>1, CallTyped DEF NewRecord, BoxRecords
  <2>4. /\ stored' \in [Boxes -> BoxRecords] /\ cached' \in [Boxes -> Nat]
        /\ stored'[b] = r /\ cached'[b] = call[c].got
        /\ \A d \in Boxes : d # b => stored'[d] = stored[d] /\ cached'[d] = cached[d]
    BY <1>3, <2>2, <2>3, CallTyped DEF BoxInv, BoxTypeOK
  <2>5. BoxTypeOK'
    BY <1>2, <2>2, <2>4, DoneFacts DEF BoxInv, BoxTypeOK
  <2>6. RecordOK(b)'
    BY <1>2, <1>4, <1>5, <2>2, <2>3, <2>4 DEF RecordOK
  <2>7. HandleOK(b)' /\ MachineOK(b)' /\ NamedOK(b)'
    BY <1>2, <1>5, <1>6, <2>2, <2>3, <2>4 DEF HandleOK, MachineOK, NamedOK
  <2>8. r.named => \A d \in Boxes : ~(stored[d].named /\ stored[d].running)
    BY <1>1, <1>2, <1>4, <1>5, <2>3 DEF LockOK
  <2> QED
    BY <1>1, <1>2, <1>3, <1>5, <1>7, <2>2, <2>3, <2>4, <2>5, <2>6, <2>7, <2>8, DoneFacts, BoxMoves
<1>8. CASE ~ownerRec
  <2>1. machine \in [Boxes -> Nat] /\ leaked \subseteq Boxes
    BY DEF BoxInv, BoxTypeOK
  <2>2. /\ UNCHANGED <<stored, cached>>
        /\ IF call[c].kind = "attach" THEN UNCHANGED <<machine, leaked>> ELSE StopUnregistered(b)
    BY <1>1, <1>8 DEF Persist
  <2>3. /\ machine' \in [Boxes -> Nat] /\ leaked' \subseteq Boxes
        /\ machine'[b] = 0 \/ (machine'[b] = machine[b] /\ b \in leaked')
        /\ \A d \in Boxes : d # b => machine'[d] = machine[d] /\ (d \in leaked' <=> d \in leaked)
    <3>1. CASE call[c].kind = "attach"
      BY <1>5, <2>1, <2>2, <3>1
    <3>2. CASE call[c].kind # "attach"
      BY <1>3, <2>2, <3>2, StopFacts
    <3> QED
      BY <3>1, <3>2
  <2>4. BoxTypeOK'
    BY <1>2, <2>2, <2>3, DoneFacts DEF BoxInv, BoxTypeOK
  <2>5. boots[b] \in Nat
    BY <1>3 DEF BoxInv, BoxTypeOK
  <2>6. RecordOK(b)'
    BY <1>2, <1>4, <1>5, <2>2, <2>3, <2>5 DEF RecordOK
  <2>7. cached[b] = 0 /\ ~stored[b].running /\ ~stored[b].named /\ ~stored[b].ext
    BY <1>4, <1>5 DEF RecordOK
  <2>8. HandleOK(b)' /\ MachineOK(b)' /\ NamedOK(b)'
    BY <2>2, <2>3, <2>7 DEF HandleOK, MachineOK, NamedOK
  <2> QED
    BY <1>1, <1>2, <1>3, <1>5, <1>8, <2>2, <2>3, <2>4, <2>6, <2>7, <2>8, DoneFacts, BoxMoves
<1> QED
  BY <1>7, <1>8

LEMMA NoneEnding ==
  ASSUME BoxInv, writer = Nobody, NEW b \in Boxes
  PROVE  ~Ending(b)
BY NobodyIsNone DEF BoxInv, LockOK, Ending

LEMMA RegisterInv ==
  ASSUME BoxInv, NEW c \in Calls, Register(c)
  PROVE  BoxInv'
<1>1. PICK b : b = call[c].box
  OBVIOUS
<1>2. /\ call[c].at = "register" /\ writer = Nobody
      /\ UNCHANGED <<stored, boots, ownerRec, boxCalls, snaps>>
  BY DEF Register, Unlocked
<1>3. /\ call[c].kind \in {"use", "resume", "detach", "snapshot"} /\ b \in Boxes
      /\ call[c].at \notin Early
  BY <1>1, <1>2, CallTyped DEF CallOK, StageOK, Early
<1>4. RecordOK(b) /\ HandleOK(b) /\ UserOK(c) /\ ~Ending(b)
  BY <1>2, <1>3, NoneEnding DEF BoxInv
<1>5. boots[b] # 0 /\ ~(stored[b].ext /\ stored[b].running) /\ call[c].got # 0
  BY <1>1, <1>2, <1>3, <1>4 DEF UserOK, Making
<1>6. /\ boots[b] \in Nat /\ cached \in [Boxes -> Nat] /\ machine \in [Boxes -> Nat]
      /\ call[c].got \in Nat /\ cut \subseteq Boxes
  BY <1>3, CallTyped DEF BoxInv, BoxTypeOK
<1>7. CASE ~stored[b].running
  <2>1. StopUnregistered(b) /\ Done(c) /\ UNCHANGED <<cached, cut>>
    BY <1>1, <1>7 DEF Register
  <2>2. /\ machine' \in [Boxes -> Nat] /\ leaked' \subseteq Boxes /\ leaked \subseteq leaked'
        /\ machine'[b] = 0 \/ (machine'[b] = machine[b] /\ b \in leaked')
        /\ \A d \in Boxes : d # b => machine'[d] = machine[d] /\ (d \in leaked' <=> d \in leaked)
    BY <1>3, <2>1, StopFacts
  <2>3. BoxTypeOK'
    BY <1>2, <2>1, <2>2, DoneFacts DEF BoxInv, BoxTypeOK
  <2>4. cached[b] = 0
    BY <1>4, <1>7 DEF RecordOK
  <2>5. RecordOK(b)'
    BY <1>2, <1>4, <1>6, <2>1, <2>2 DEF RecordOK
  <2>6. HandleOK(b)' /\ MachineOK(b)' /\ NamedOK(b)'
    BY <2>1, <2>2, <2>4 DEF HandleOK, MachineOK, NamedOK
  <2> QED
    BY <1>1, <1>2, <1>3, <1>5, <2>1, <2>2, <2>3, <2>5, <2>6, DoneFacts, BoxMoves
<1>8. CASE stored[b].running
  <2>1. PICK g \in Nat : g = IF cached[b] = 0 THEN call[c].got ELSE cached[b]
    BY <1>3, <1>6
  <2>2. /\ cached' = [cached EXCEPT ![b] = IF @ = 0 THEN call[c].got ELSE @]
        /\ cut' = IF cached[b] # 0 \/ call[c].got = machine[b] THEN cut ELSE cut \cup {b}
        /\ UNCHANGED <<machine, leaked>>
    BY <1>1, <1>8 DEF Register
  <2>3. /\ cached' \in [Boxes -> Nat] /\ cached'[b] = g /\ g # 0
        /\ \A d \in Boxes : d # b => cached'[d] = cached[d]
    BY <1>3, <1>5, <1>6, <2>1, <2>2
  <2>4. /\ cut' \subseteq Boxes /\ \A d \in Boxes : d # b => (d \in cut' <=> d \in cut)
        /\ b \notin cut' => b \notin cut /\ (cached[b] # 0 \/ call[c].got = machine[b])
    BY <1>3, <1>6, <2>2
  <2>5. RecordOK(b)'
    BY <1>2, <1>4, <1>5, <1>8, <2>2, <2>3 DEF RecordOK
  <2>6. b \notin cut' /\ ~stored[b].ext => cached'[b] = machine[b]
    BY <1>4, <2>1, <2>3, <2>4 DEF HandleOK
  <2>7. HandleOK(b)'
    BY <1>2, <2>2, <2>6 DEF HandleOK
  <2>8. stored[b].is
    BY <1>4, <1>8 DEF RecordOK
  <2>9. CASE call[c].kind = "use"
    <3>1. Done(c)
      BY <1>1, <1>8, <2>9 DEF Register
    <3>2. BoxTypeOK'
      BY <1>2, <2>2, <2>3, <2>4, <3>1, DoneFacts DEF BoxInv, BoxTypeOK
    <3>3. ~Ending(b)'
      BY <1>4, <3>1, DoneFacts DEF Ending, Ends
    <3>4. MachineOK(b)' /\ NamedOK(b)'
      BY <1>2, <1>8, <3>3 DEF MachineOK, NamedOK
    <3> QED
      BY <1>1, <1>2, <1>3, <1>5, <2>2, <2>3, <2>4, <2>5, <2>7, <2>8, <3>1, <3>2, <3>4,
         DoneFacts, BoxMoves
  <2>10. CASE call[c].kind # "use"
    <3>1. PICK a \in CallStages : a = Onwards(call[c].kind)
      BY <1>3, <2>10 DEF Onwards, CallStages
    <3>2. Holding(c, g, a) /\ UNCHANGED <<writer, threadLock>>
      <4>1. /\ call' = [call EXCEPT ![c].got = cached'[b], ![c].at = Onwards(call[c].kind)]
            /\ UNCHANGED <<writer, threadLock>>
        BY <1>1, <1>8, <2>10 DEF Register
      <4> QED
        BY <2>3, <3>1, <4>1 DEF Holding
    <3>3. PICK j \in CallRecords :
            /\ call' = [call EXCEPT ![c] = j]
            /\ j.kind = call[c].kind /\ j.box = call[c].box
            /\ j.got = g /\ j.at = a /\ j.seen = call[c].seen
      BY <3>2, GotTyped
    <3>4. /\ call'[c] = j /\ call' \in [Calls -> CallRecords]
          /\ \A d \in Calls : d # c => call'[d] = call[d]
      BY <3>3 DEF BoxInv, BoxTypeOK
    <3>5. BoxTypeOK'
      BY <1>2, <2>2, <2>3, <2>4, <3>2, <3>4 DEF BoxInv, BoxTypeOK
    <3>6. StageOK(j.kind, j.at) /\ j.at \in {"write", "detach", "snapshot"}
          /\ (j.at = "write" => j.kind = "resume")
      BY <1>3, <2>10, <3>1, <3>3 DEF StageOK, Onwards
    <3>7. CallOK(c)' /\ LockOK(c)' /\ MakerOK(c)'
      BY <1>1, <1>3, <3>3, <3>4, <3>6 DEF CallOK, LockOK, MakerOK, Fresh, Making, Ends
    <3>8. UserOK(c)'
      BY <1>1, <1>2, <1>3, <1>4, <1>5, <2>3, <3>3, <3>4, <3>6 DEF UserOK, Making
    <3>9. ~Ending(b)'
      BY <1>4, <3>4, <3>6 DEF Ending, Ends
    <3>10. MachineOK(b)' /\ NamedOK(b)'
      BY <1>2, <1>8, <3>9 DEF MachineOK, NamedOK
    <3> QED
      BY <1>1, <1>2, <1>3, <1>5, <2>2, <2>3, <2>4, <2>5, <2>7, <2>8, <3>2, <3>3, <3>5, <3>7,
         <3>8, <3>10, BoxMoves
  <2> QED
    BY <2>9, <2>10
<1> QED
  BY <1>7, <1>8

LEMMA ResumeWriteInv ==
  ASSUME BoxInv, NEW c \in Calls, ResumeWrite(c)
  PROVE  BoxInv'
<1>1. PICK b : b = call[c].box
  OBVIOUS
<1>2. /\ call[c].at = "write" /\ writer = Nobody /\ Done(c)
      /\ UNCHANGED <<boots, ownerRec, boxCalls, snaps>>
  BY DEF ResumeWrite, Unlocked
<1>3. call[c].kind = "resume" /\ b \in Boxes /\ call[c].at \notin Early
  BY <1>1, <1>2, CallTyped DEF CallOK, StageOK, Early
<1>4. RecordOK(b) /\ HandleOK(b) /\ NamedOK(b) /\ UserOK(c) /\ ~Ending(b)
  BY <1>2, <1>3, NoneEnding DEF BoxInv
<1>5. /\ boots[b] # 0 /\ call[c].got # 0 /\ call[c].seen.is /\ ~call[c].seen.ext
      /\ stored[b].is => call[c].seen.named = stored[b].named
  BY <1>1, <1>2, <1>3, <1>4 DEF UserOK, Making
<1>6. /\ boots[b] \in Nat /\ cached \in [Boxes -> Nat] /\ machine \in [Boxes -> Nat]
      /\ stored \in [Boxes -> BoxRecords]
      /\ call[c].got \in Nat /\ call[c].seen \in BoxRecords /\ cut \subseteq Boxes
  BY <1>3, CallTyped DEF BoxInv, BoxTypeOK
<1>7. CASE ~stored[b].is
  <2>1. StopUnregistered(b) /\ UNCHANGED <<stored, cached, cut>>
    BY <1>1, <1>7 DEF ResumeWrite
  <2>2. /\ machine' \in [Boxes -> Nat] /\ leaked' \subseteq Boxes /\ leaked \subseteq leaked'
        /\ machine'[b] = 0 \/ (machine'[b] = machine[b] /\ b \in leaked')
        /\ \A d \in Boxes : d # b => machine'[d] = machine[d] /\ (d \in leaked' <=> d \in leaked)
    BY <1>3, <2>1, StopFacts
  <2>3. BoxTypeOK'
    BY <1>2, <2>1, <2>2, DoneFacts DEF BoxInv, BoxTypeOK
  <2>4. cached[b] = 0
    BY <1>4, <1>7 DEF RecordOK
  <2>5. RecordOK(b)'
    BY <1>2, <1>4, <1>6, <1>7, <2>1, <2>2 DEF RecordOK
  <2>6. HandleOK(b)' /\ MachineOK(b)' /\ NamedOK(b)'
    BY <2>1, <2>2, <2>4 DEF HandleOK, MachineOK, NamedOK
  <2> QED
    BY <1>1, <1>2, <1>3, <1>5, <2>1, <2>2, <2>3, <2>5, <2>6, DoneFacts, BoxMoves
<1>8. CASE stored[b].is
  <2> DEFINE r == [call[c].seen EXCEPT !.running = TRUE]
  <2>1. /\ cached' = [cached EXCEPT ![b] = call[c].got] /\ stored' = [stored EXCEPT ![b] = r]
        /\ cut' = IF call[c].got = machine[b] THEN cut ELSE cut \cup {b}
        /\ UNCHANGED <<machine, leaked>>
    BY <1>1, <1>8 DEF ResumeWrite
  <2>2. /\ r \in BoxRecords /\ r.running /\ r.is = call[c].seen.is /\ r.ext = call[c].seen.ext
        /\ r.named = call[c].seen.named
    BY <1>6 DEF BoxRecords
  <2> HIDE DEF r
  <2>3. /\ cached' \in [Boxes -> Nat] /\ cached'[b] = call[c].got
        /\ \A d \in Boxes : d # b => cached'[d] = cached[d]
    BY <1>3, <1>6, <2>1
  <2>4. /\ stored' \in [Boxes -> BoxRecords] /\ stored'[b] = r
        /\ \A d \in Boxes : d # b => stored'[d] = stored[d]
    BY <1>3, <1>6, <2>1, <2>2
  <2>5. /\ cut' \subseteq Boxes /\ \A d \in Boxes : d # b => (d \in cut' <=> d \in cut)
        /\ b \notin cut' => b \notin cut /\ call[c].got = machine[b]
    BY <1>3, <1>6, <2>1
  <2>6. BoxTypeOK'
    BY <1>2, <2>1, <2>3, <2>4, <2>5, DoneFacts DEF BoxInv, BoxTypeOK
  <2>7. r.is /\ r.running /\ ~r.ext /\ r.named = stored[b].named
    BY <1>5, <1>8, <2>2
  <2>8. RecordOK(b)'
    BY <1>2, <1>4, <1>5, <2>1, <2>4, <2>7 DEF RecordOK
  <2>9. HandleOK(b)'
    BY <2>1, <2>3, <2>5 DEF HandleOK
  <2>10. ~Ending(b)'
    BY <1>2, <1>4, DoneFacts DEF Ending, Ends
  <2>11. MachineOK(b)' /\ NamedOK(b)'
    BY <2>4, <2>7, <2>10 DEF MachineOK, NamedOK
  <2>12. stored'[b].named /\ boots[b] = 1 /\ b \notin cut' /\ b \notin leaked =>
           stored[b].named /\ stored[b].running /\ b \notin cut
    BY <1>4, <1>5, <2>4, <2>5, <2>7 DEF NamedOK
  <2> QED
    BY <1>1, <1>2, <1>3, <1>5, <1>8, <2>1, <2>3, <2>4, <2>5, <2>6, <2>7, <2>8, <2>9, <2>11,
       <2>12, DoneFacts, BoxMoves
<1> QED
  BY <1>7, <1>8

LEMMA DetachInv ==
  ASSUME BoxInv, NEW c \in Calls, Detach(c)
  PROVE  BoxInv'
<1>1. PICK b : b = call[c].box
  OBVIOUS
<1>2. /\ call[c].at = "detach" /\ writer = Nobody /\ Done(c)
      /\ UNCHANGED <<boots, ownerRec, boxCalls, cut, leaked, snaps>>
  BY DEF Detach, Unlocked
<1>3. b \in Boxes /\ call[c].at \notin Hands \cup Ends
  BY <1>1, <1>2, CallTyped DEF CallOK, StageOK, Hands, Ends
<1>4. CASE ~(stored[b].is /\ stored[b].running /\ ~stored[b].ext)
  <2>1. UNCHANGED <<stored, cached, machine>>
    BY <1>1, <1>4 DEF Detach
  <2> QED
    BY <1>2, <1>3, <2>1, CallEnds
<1>5. CASE stored[b].is /\ stored[b].running /\ ~stored[b].ext
  <2> DEFINE r == [stored[b] EXCEPT !.running = FALSE, !.ext = TRUE]
  <2>1. /\ cached \in [Boxes -> Nat] /\ machine \in [Boxes -> Nat]
        /\ stored \in [Boxes -> BoxRecords] /\ stored[b] \in BoxRecords
        /\ boots[b] \in Nat
    BY <1>3 DEF BoxInv, BoxTypeOK
  <2>2. /\ cached' = [cached EXCEPT ![b] = 0] /\ machine' = [machine EXCEPT ![b] = 0]
        /\ stored' = [stored EXCEPT ![b] = r]
    BY <1>1, <1>5 DEF Detach
  <2>3. /\ r \in BoxRecords /\ ~r.running /\ r.ext /\ r.is = stored[b].is
        /\ r.named = stored[b].named
    BY <2>1 DEF BoxRecords
  <2> HIDE DEF r
  <2>4. /\ cached' \in [Boxes -> Nat] /\ cached'[b] = 0
        /\ \A d \in Boxes : d # b => cached'[d] = cached[d]
    BY <1>3, <2>1, <2>2
  <2>5. /\ machine' \in [Boxes -> Nat] /\ machine'[b] = 0
        /\ \A d \in Boxes : d # b => machine'[d] = machine[d]
    BY <1>3, <2>1, <2>2
  <2>6. /\ stored' \in [Boxes -> BoxRecords] /\ stored'[b] = r
        /\ \A d \in Boxes : d # b => stored'[d] = stored[d]
    BY <1>3, <2>1, <2>2, <2>3
  <2>7. BoxTypeOK'
    BY <1>2, <2>4, <2>5, <2>6, DoneFacts DEF BoxInv, BoxTypeOK
  <2>8. boots[b] # 0
    BY <1>3, <1>5 DEF BoxInv, RecordOK
  <2>9. RecordOK(b)' /\ HandleOK(b)' /\ MachineOK(b)' /\ NamedOK(b)'
    <3>a. stored'[b].is /\ ~stored'[b].running
      BY <1>5, <2>3, <2>6
    <3>b. boots'[b] \in Nat /\ boots'[b] # 0
      BY <1>2, <2>1, <2>8
    <3>c. machine'[b] <= boots'[b]
      BY <2>5, <3>b
    <3>1. RecordOK(b)'
      BY <2>4, <3>a, <3>b, <3>c DEF RecordOK
    <3>2. HandleOK(b)'
      BY <2>4 DEF HandleOK
    <3>3. MachineOK(b)' /\ NamedOK(b)'
      BY <2>5 DEF MachineOK, NamedOK
    <3> QED
      BY <3>1, <3>2, <3>3
  <2> QED
    BY <1>1, <1>2, <1>3, <1>5, <2>3, <2>4, <2>5, <2>6, <2>7, <2>8, <2>9, DoneFacts, BoxMoves
<1> QED
  BY <1>4, <1>5

LEMMA SnapshotWriteInv ==
  ASSUME BoxInv, NEW c \in Calls, SnapshotWrite(c)
  PROVE  BoxInv'
<1>1. PICK b : b = call[c].box
  OBVIOUS
<1>2. /\ call[c].at = "snapshot" /\ writer = Nobody /\ Done(c)
      /\ UNCHANGED <<cached, machine, boots, ownerRec, boxCalls, cut, leaked>>
  BY DEF SnapshotWrite, Unlocked
<1>3. b \in Boxes /\ call[c].at \notin Hands \cup Ends
  BY <1>1, <1>2, CallTyped DEF CallOK, StageOK, Hands, Ends
<1>4. CASE ~stored[b].is
  <2>1. UNCHANGED <<stored, snaps>>
    BY <1>1, <1>4 DEF SnapshotWrite
  <2> QED
    BY <1>2, <1>3, <2>1, CallEnds
<1>5. CASE stored[b].is
  <2> DEFINE r == [stored[b] EXCEPT !.snap = snaps + 1]
  <2>1. stored \in [Boxes -> BoxRecords] /\ stored[b] \in BoxRecords /\ snaps \in Nat
    BY <1>3 DEF BoxInv, BoxTypeOK
  <2>2. stored' = [stored EXCEPT ![b] = r] /\ snaps' = snaps + 1
    BY <1>1, <1>5 DEF SnapshotWrite
  <2>3. /\ r \in BoxRecords /\ r.running = stored[b].running /\ r.ext = stored[b].ext
        /\ r.is = stored[b].is /\ r.named = stored[b].named
    <3>1. PICK n \in Nat : n = snaps + 1
      BY <2>1
    <3>2. r = [stored[b] EXCEPT !.snap = n]
      BY <3>1
    <3> HIDE DEF r
    <3> QED
      BY <2>1, <3>2 DEF BoxRecords
  <2> HIDE DEF r
  <2>4. /\ stored' \in [Boxes -> BoxRecords] /\ stored'[b] = r
        /\ \A d \in Boxes : d # b => stored'[d] = stored[d]
    BY <1>3, <2>1, <2>2, <2>3
  <2>5. BoxTypeOK'
    BY <1>2, <2>1, <2>2, <2>4, DoneFacts DEF BoxInv, BoxTypeOK
  <2>6. RecordOK(b) /\ HandleOK(b) /\ MachineOK(b) /\ ~Ending(b)
    BY <1>2, <1>3, NoneEnding DEF BoxInv
  <2>7. boots[b] # 0
    BY <1>5, <2>6 DEF RecordOK
  <2>8. RecordOK(b)'
    BY <1>2, <2>3, <2>4, <2>6 DEF RecordOK
  <2>9. ~Ending(b)' /\ (InHand(b) => InHand(b)')
    BY <1>2, <1>3, <2>6, DoneFacts DEF Ending, InHand, Ends
  <2>10. NamedOK(b)
    BY <1>3 DEF BoxInv
  <2>11. HandleOK(b)' /\ MachineOK(b)' /\ NamedOK(b)'
    BY <1>2, <2>3, <2>4, <2>6, <2>9, <2>10 DEF HandleOK, MachineOK, NamedOK
  <2> QED
    BY <1>1, <1>2, <1>3, <1>5, <2>3, <2>4, <2>5, <2>7, <2>8, <2>11, DoneFacts, BoxMoves
<1> QED
  BY <1>4, <1>5

LEMMA AloneEnding ==
  ASSUME BoxInv, NEW c \in Calls, writer = c, NEW d \in Calls, call[d].at \in Ends
  PROVE  d = c
BY DEF BoxInv, LockOK

LEMMA StopBackendInv ==
  ASSUME BoxInv, NEW c \in Calls, StopBackend(c)
  PROVE  BoxInv'
<1>1. PICK b : b = call[c].box
  OBVIOUS
<1>2. /\ call[c].at = "backend" /\ call[c].kind \in {"stop", "terminate"}
      /\ PowerOff({b}) /\ Then(c, "finish")
      /\ UNCHANGED <<stored, cached, boots, ownerRec, writer, threadLock, boxCalls, cut, leaked, snaps>>
  BY <1>1 DEF StopBackend, Serving
<1>3. b \in Boxes /\ writer = c /\ stored[b].is /\ ~stored[b].ext /\ call[c].at \notin Early
  BY <1>1, <1>2, CallTyped DEF CallOK, BoxInv, LockOK, Early
<1>4. PICK a \in CallStages : a = "finish"
  BY DEF CallStages
<1>5. PICK j \in CallRecords :
        /\ call' = [call EXCEPT ![c] = j]
        /\ j.kind = call[c].kind /\ j.box = call[c].box /\ j.at = a
  BY <1>2, <1>4, Stepped
<1>6. /\ call'[c] = j /\ call' \in [Calls -> CallRecords]
      /\ \A d \in Calls : d # c => call'[d] = call[d]
  BY <1>5 DEF BoxInv, BoxTypeOK
<1>7. /\ machine' \in [Boxes -> Nat] /\ machine'[b] = 0
      /\ \A d \in Boxes : d # b => machine'[d] = machine[d]
  BY <1>2, <1>3, PowerFacts
<1>8. BoxTypeOK'
  BY <1>2, <1>6, <1>7 DEF BoxInv, BoxTypeOK
<1>9. CallOK(c)' /\ LockOK(c)'
  BY <1>1, <1>2, <1>3, <1>4, <1>5, <1>6 DEF CallOK, StageOK, LockOK, Ends
<1>10. MakerOK(c)' /\ UserOK(c)'
  BY <1>2, <1>4, <1>5, <1>6 DEF MakerOK, UserOK, Fresh, Making
<1>11. RecordOK(b) /\ boots[b] \in Nat
  BY <1>3 DEF BoxInv, BoxTypeOK
<1>12. RecordOK(b)'
  BY <1>2, <1>7, <1>11 DEF RecordOK
<1>13. HandleOK(b)'
  BY <1>1, <1>4, <1>5, <1>6 DEF HandleOK, Ending, Ends
<1>14. MachineOK(b)' /\ NamedOK(b)'
  BY <1>7 DEF MachineOK, NamedOK
<1>15. boots[b] # 0
  BY <1>3, <1>11 DEF RecordOK
<1> QED
  BY <1>1, <1>2, <1>3, <1>5, <1>7, <1>8, <1>9, <1>10, <1>12, <1>13, <1>14, <1>15, BoxMoves

\* The record of b goes, or says stopped, with the handle: whatever machine is
\* up is in the hands of another call.
LEMMA RecordEnds ==
  ASSUME BoxInv, NEW c \in Calls, NEW b \in Boxes, NEW j \in CallRecords, NEW r \in BoxRecords,
         call[c].box = b, call[c].at \in Ends,
         call' = [call EXCEPT ![c] = j], j.box \in {b, Nobody}, j.at \notin Ends,
         cached' = [cached EXCEPT ![b] = 0], stored' = [stored EXCEPT ![b] = r],
         ~r.running, ~r.ext, r.is => r.named = stored[b].named, ~r.is => ~r.named,
         UNCHANGED <<machine, boots, ownerRec, boxCalls, cut, leaked, snaps>>,
         writer' \in Calls \cup {Nobody}, threadLock' \in Calls \cup {Nobody},
         CallOK(c)', LockOK(c)', MakerOK(c)', UserOK(c)'
  PROVE  BoxInv'
<1>1. writer = c /\ stored[b].is /\ ~stored[b].ext /\ call[c].at \notin Early \cup Hands
  BY DEF BoxInv, LockOK, Ends, Early, Hands
<1>2. /\ call'[c] = j /\ call' \in [Calls -> CallRecords]
      /\ \A d \in Calls : d # c => call'[d] = call[d]
  BY DEF BoxInv, BoxTypeOK
<1>3. /\ cached' \in [Boxes -> Nat] /\ cached'[b] = 0
      /\ \A d \in Boxes : d # b => cached'[d] = cached[d]
  BY DEF BoxInv, BoxTypeOK
<1>4. /\ stored' \in [Boxes -> BoxRecords] /\ stored'[b] = r
      /\ \A d \in Boxes : d # b => stored'[d] = stored[d]
  BY DEF BoxInv, BoxTypeOK
<1>5. BoxTypeOK'
  BY <1>2, <1>3, <1>4 DEF BoxInv, BoxTypeOK
<1>6. RecordOK(b) /\ MachineOK(b) /\ NamedOK(b) /\ Ending(b)
  BY DEF BoxInv, Ending
<1>7. boots[b] # 0
  BY <1>1, <1>6 DEF RecordOK
<1>8. RecordOK(b)'
  BY <1>3, <1>4, <1>6, <1>7 DEF RecordOK
<1>9. HandleOK(b)'
  BY <1>3 DEF HandleOK
<1>10. InHand(b) => InHand(b)'
  BY <1>1, <1>2 DEF InHand
<1>11. MachineOK(b)'
  BY <1>6, <1>10 DEF MachineOK
<1>12. NamedOK(b)'
  BY <1>4, <1>6 DEF NamedOK
<1>13. \A d \in Calls : d # c /\ writer = d => writer' = d
  BY <1>1
<1> QED
  BY <1>1, <1>3, <1>4, <1>5, <1>7, <1>8, <1>9, <1>11, <1>12, <1>13, BoxMoves

LEMMA StopFinishInv ==
  ASSUME BoxInv, NEW c \in Calls, StopFinish(c)
  PROVE  BoxInv'
<1>1. PICK b : b = call[c].box
  OBVIOUS
<1>2. /\ call[c].at = "finish" /\ call[c].kind \in {"stop", "terminate"} /\ Done(c)
      /\ cached' = [cached EXCEPT ![b] = 0]
      /\ UNCHANGED <<machine, boots, ownerRec, boxCalls, cut, leaked, snaps>>
  BY <1>1 DEF StopFinish, Serving
<1>3. b \in Boxes /\ call[c].at \in Ends /\ stored[b].is /\ ~stored[b].ext
  BY <1>1, <1>2, CallTyped DEF CallOK, Ends, BoxInv, LockOK
<1>4. stored[b] \in BoxRecords
  BY <1>3 DEF BoxInv, BoxTypeOK
<1>5. PICK r \in BoxRecords :
        /\ stored' = [stored EXCEPT ![b] = r] /\ ~r.running /\ ~r.ext
        /\ r.is => r.named = stored[b].named
        /\ ~r.is => ~r.named
  <2>1. CASE call[c].kind = "stop"
    <3> DEFINE r == [stored[b] EXCEPT !.running = FALSE]
    <3>1. /\ r \in BoxRecords /\ ~r.running /\ r.ext = stored[b].ext /\ r.is = stored[b].is
          /\ r.named = stored[b].named
      BY <1>4 DEF BoxRecords
    <3>2. stored' = [stored EXCEPT ![b] = r]
      BY <1>1, <2>1 DEF StopFinish
    <3> HIDE DEF r
    <3> QED
      BY <1>3, <3>1, <3>2
  <2>2. CASE call[c].kind = "terminate"
    <3>1. stored' = [stored EXCEPT ![b] = NoRecord]
      BY <1>1, <2>2 DEF StopFinish
    <3> QED
      BY <3>1, NoneTyped
  <2> QED
    BY <1>2, <2>1, <2>2
<1>6. NoCall.at \notin Ends
  BY NoneTyped DEF Ends
<1> QED
  BY <1>1, <1>2, <1>3, <1>5, <1>6, DoneFacts, NoneTyped, RecordEnds

LEMMA RestartCheckInv ==
  ASSUME BoxInv, NEW c \in Calls, RestartCheck(c)
  PROVE  BoxInv'
<1>1. PICK b : b = call[c].box
  OBVIOUS
<1>2. /\ call[c].at = "check" /\ call[c].kind = "restart"
      /\ UNCHANGED <<stored, boots, ownerRec, boxCalls, cut, leaked, snaps>>
  BY DEF RestartCheck, Serving
<1>3. b \in Boxes /\ writer = c /\ call[c].at \notin Hands \cup Ends
  BY <1>1, <1>2, CallTyped DEF CallOK, BoxInv, LockOK, Hands, Ends
<1>4. CASE ~(stored[b].is /\ ~stored[b].ext)
  <2>1. Done(c) /\ UNCHANGED <<cached, machine>>
    BY <1>1, <1>4 DEF RestartCheck
  <2> QED
    BY <1>2, <1>3, <2>1, CallEnds
<1>5. CASE stored[b].is /\ ~stored[b].ext
  <2>1. PICK B : B = IF cached[b] # 0 THEN {b} ELSE {}
    OBVIOUS
  <2>2. /\ cached' = [cached EXCEPT ![b] = 0]
        /\ \/ PowerOff(B) /\ Then(c, "backend") /\ UNCHANGED <<writer, threadLock>>
           \/ Done(c) /\ UNCHANGED machine
    BY <1>1, <1>5, <2>1 DEF RestartCheck
  <2>3. /\ cached' \in [Boxes -> Nat] /\ cached'[b] = 0
        /\ \A d \in Boxes : d # b => cached'[d] = cached[d]
    BY <1>3, <2>2 DEF BoxInv, BoxTypeOK
  <2>4. /\ machine' \in [Boxes -> Nat] /\ (machine'[b] = 0 \/ machine'[b] = machine[b])
        /\ \A d \in Boxes : d # b => machine'[d] = machine[d]
    <3>1. machine \in [Boxes -> Nat]
      BY DEF BoxInv, BoxTypeOK
    <3>2. CASE PowerOff(B)
      BY <1>3, <2>1, <3>2, PowerFacts
    <3>3. CASE UNCHANGED machine
      BY <1>3, <3>1, <3>3
    <3> QED
      BY <2>2, <3>2, <3>3
  <2>5. PICK j \in CallRecords :
          /\ call' = [call EXCEPT ![c] = j] /\ j.box \in {b, Nobody}
          /\ j.at \notin Ends
          /\ writer' \in Calls \cup {Nobody} /\ threadLock' \in Calls \cup {Nobody}
          /\ \A d \in Calls : d # c /\ writer = d => writer' = d
          /\ CallOK(c)' /\ LockOK(c)' /\ MakerOK(c)' /\ UserOK(c)'
    <3>1. CASE Done(c)
      BY <3>1, DoneFacts, NoneTyped DEF Ends
    <3>2. CASE Then(c, "backend") /\ UNCHANGED <<writer, threadLock>>
      <4>1. PICK a \in CallStages : a = "backend"
        BY DEF CallStages
      <4>2. PICK j \in CallRecords :
              /\ call' = [call EXCEPT ![c] = j]
              /\ j.kind = call[c].kind /\ j.box = call[c].box /\ j.at = a
        BY <3>2, <4>1, Stepped
      <4>3. call'[c] = j
        BY <4>2 DEF BoxInv, BoxTypeOK
      <4>4. CallOK(c)' /\ LockOK(c)'
        BY <1>1, <1>2, <1>3, <1>5, <3>2, <4>1, <4>2, <4>3 DEF CallOK, StageOK, LockOK, Ends
      <4>5. MakerOK(c)' /\ UserOK(c)'
        BY <1>2, <4>1, <4>2, <4>3 DEF MakerOK, UserOK, Fresh, Making
      <4>6. writer' \in Calls \cup {Nobody} /\ threadLock' \in Calls \cup {Nobody}
        BY <3>2 DEF BoxInv, BoxTypeOK
      <4>7. j.at \notin Ends
        BY <4>1, <4>2 DEF Ends
      <4> QED
        BY <1>1, <3>2, <4>2, <4>4, <4>5, <4>6, <4>7
    <3> QED
      BY <2>2, <3>1, <3>2
  <2>6. /\ call'[c] = j /\ call' \in [Calls -> CallRecords]
        /\ \A d \in Calls : d # c => call'[d] = call[d]
    BY <2>5 DEF BoxInv, BoxTypeOK
  <2>7. BoxTypeOK'
    BY <1>2, <2>3, <2>4, <2>5, <2>6 DEF BoxInv, BoxTypeOK
  <2>8. RecordOK(b) /\ MachineOK(b) /\ NamedOK(b) /\ boots[b] \in Nat
    BY <1>3 DEF BoxInv, BoxTypeOK
  <2>9. boots[b] # 0
    BY <1>5, <2>8 DEF RecordOK
  <2>10. RecordOK(b)'
    BY <1>2, <1>5, <2>3, <2>4, <2>8 DEF RecordOK
  <2>11. HandleOK(b)'
    BY <2>3 DEF HandleOK
  <2>12. (Ending(b)' => Ending(b)) /\ (InHand(b) => InHand(b)')
    BY <1>3, <2>5, <2>6 DEF Ending, InHand
  <2>13. MachineOK(b)' /\ NamedOK(b)'
    BY <1>2, <2>4, <2>8, <2>12 DEF MachineOK, NamedOK
  <2> QED
    BY <1>1, <1>2, <1>3, <1>5, <2>3, <2>4, <2>5, <2>7, <2>9, <2>10, <2>11, <2>13, BoxMoves
<1> QED
  BY <1>4, <1>5

LEMMA RestartBackendInv ==
  ASSUME BoxInv, NEW c \in Calls, RestartBackend(c)
  PROVE  BoxInv'
<1>1. PICK b : b = call[c].box
  OBVIOUS
<1>2. /\ call[c].at = "backend" /\ call[c].kind = "restart" /\ Done(c)
      /\ UNCHANGED <<ownerRec, boxCalls, cut, leaked, snaps>>
  BY DEF RestartBackend, Serving
<1>3. b \in Boxes /\ writer = c /\ call[c].at \notin Hands \cup Ends
      /\ stored[b].is /\ ~stored[b].ext
  BY <1>1, <1>2, CallTyped DEF CallOK, BoxInv, LockOK, Hands, Ends
<1>4. /\ boots \in [Boxes -> Nat] /\ machine \in [Boxes -> Nat] /\ cached \in [Boxes -> Nat]
      /\ stored \in [Boxes -> BoxRecords] /\ stored[b] \in BoxRecords /\ RecordOK(b)
  BY <1>3 DEF BoxInv, BoxTypeOK
<1>5. PICK g \in Nat : g = boots[b] + 1
  BY <1>3, <1>4
<1> DEFINE r == [stored[b] EXCEPT !.running = TRUE, !.snap = call[c].from]
<1>6. /\ machine' = [machine EXCEPT ![b] = g]
      /\ boots' = [boots EXCEPT ![b] = IF g > @ THEN g ELSE @]
      /\ cached' = [cached EXCEPT ![b] = g] /\ stored' = [stored EXCEPT ![b] = r]
  BY <1>1, <1>5 DEF RestartBackend, Boot
<1>7. /\ r \in BoxRecords /\ r.running /\ r.ext = stored[b].ext /\ r.is = stored[b].is
      /\ r.named = stored[b].named
  <2>1. PICK n \in Nat, t \in BOOLEAN : n = call[c].from /\ t = TRUE
    BY CallTyped
  <2>2. r = [stored[b] EXCEPT !.running = t, !.snap = n]
    BY <2>1
  <2> HIDE DEF r
  <2> QED
    BY <1>4, <2>1, <2>2 DEF BoxRecords
<1> HIDE DEF r
<1>8. /\ machine' \in [Boxes -> Nat] /\ machine'[b] = g
      /\ \A d \in Boxes : d # b => machine'[d] = machine[d]
  BY <1>3, <1>4, <1>6
<1>9. /\ cached' \in [Boxes -> Nat] /\ cached'[b] = g
      /\ \A d \in Boxes : d # b => cached'[d] = cached[d]
  BY <1>3, <1>4, <1>6
<1>10. /\ boots' \in [Boxes -> Nat] /\ boots'[b] = g
       /\ \A d \in Boxes : d # b => boots'[d] = boots[d]
  BY <1>3, <1>4, <1>5, <1>6
<1>11. /\ stored' \in [Boxes -> BoxRecords] /\ stored'[b] = r
       /\ \A d \in Boxes : d # b => stored'[d] = stored[d]
  BY <1>3, <1>4, <1>6, <1>7
<1>12. BoxTypeOK'
  BY <1>2, <1>8, <1>9, <1>10, <1>11, DoneFacts DEF BoxInv, BoxTypeOK
<1>13. boots[b] # 0 /\ boots[b] \in Nat
  BY <1>3, <1>4 DEF RecordOK
<1>14. g > 1
  BY <1>5, <1>13
<1>15. r.is /\ r.running /\ ~r.ext
  BY <1>3, <1>7
<1>16. RecordOK(b)'
  BY <1>8, <1>9, <1>10, <1>11, <1>14, <1>15 DEF RecordOK
<1>17. HandleOK(b)'
  BY <1>8, <1>9 DEF HandleOK
<1>18. ~Ending(b)'
  BY <1>2, <1>3, DoneFacts, AloneEnding DEF Ending, Ends
<1>19. MachineOK(b)' /\ NamedOK(b)'
  BY <1>11, <1>15, <1>18 DEF MachineOK, NamedOK
<1> QED
  BY <1>1, <1>2, <1>3, <1>7, <1>8, <1>9, <1>10, <1>11, <1>12, <1>13, <1>14, <1>15, <1>16,
     <1>17, <1>19, DoneFacts, BoxMoves

LEMMA SweepRemoveInv ==
  ASSUME BoxInv, NEW c \in Calls, SweepRemove(c)
  PROVE  BoxInv'
<1>1. PICK b : b = call[c].box
  OBVIOUS
<1>2. /\ call[c].at = "remove" /\ cached' = [cached EXCEPT ![b] = 0]
      /\ stored' = [stored EXCEPT ![b] = NoRecord] /\ writer' = Nobody
      /\ UNCHANGED <<machine, boots, ownerRec, threadLock, boxCalls, cut, leaked, snaps>>
  BY <1>1 DEF SweepRemove
<1>3. b \in Boxes /\ call[c].at \in Ends /\ call[c].kind = "delete"
  BY <1>1, <1>2, CallTyped DEF CallOK, StageOK, Ends
<1>4. PICK D \in SUBSET Boxes : D = call[c].todo \ {b}
  BY CallTyped
<1> DEFINE j == [call[c] EXCEPT !.todo = D, !.at = "next"]
<1>5. call' = [call EXCEPT ![c] = j]
  BY <1>1, <1>4 DEF SweepRemove
<1>6. call[c] \in [kind : CallKinds, box : Boxes \cup {Nobody}, at : CallStages,
                   seen : BoxRecords, got : Nat, from : Nat, todo : SUBSET Boxes, try : 0..Tries - 1]
      /\ "next" \in CallStages
  BY CallTyped, CallType DEF CallStages
<1>7. j \in [kind : CallKinds, box : Boxes \cup {Nobody}, at : CallStages,
             seen : BoxRecords, got : Nat, from : Nat, todo : SUBSET Boxes, try : 0..Tries - 1]
      /\ j.kind = call[c].kind /\ j.box = call[c].box /\ j.at = "next"
  BY <1>6
<1> HIDE DEF j
<1>8. j \in CallRecords
  BY <1>7, CallType
<1>9. call'[c] = j
  BY <1>5 DEF BoxInv, BoxTypeOK
<1>10. CallOK(c)' /\ LockOK(c)' /\ MakerOK(c)' /\ UserOK(c)'
  BY <1>3, <1>7, <1>9 DEF CallOK, StageOK, LockOK, MakerOK, UserOK, Fresh, Making, Ends
<1>11. j.at \notin Ends /\ threadLock' \in Calls \cup {Nobody}
  BY <1>2, <1>7 DEF Ends, BoxInv, BoxTypeOK
<1> QED
  BY <1>1, <1>2, <1>3, <1>5, <1>7, <1>8, <1>10, <1>11, NoneTyped, RecordEnds

LEMMA SweepNextInv ==
  ASSUME BoxInv, NEW c \in Calls, SweepNext(c)
  PROVE  BoxInv'
<1>1. /\ call[c].at = "next"
      /\ UNCHANGED <<stored, cached, boots, ownerRec, boxCalls, cut, leaked, snaps>>
  BY DEF SweepNext
<1>2. call[c].kind = "delete" /\ call[c].at \notin Hands \cup Ends \cup Early
  BY <1>1, CallTyped DEF CallOK, StageOK, Hands, Ends, Early
<1>3. CASE Then(c, "recheck") /\ UNCHANGED <<machine, writer, threadLock>>
  <2>1. PICK a \in CallStages : a = "recheck"
    BY DEF CallStages
  <2>2. PICK j \in CallRecords :
          /\ call' = [call EXCEPT ![c] = j]
          /\ j.kind = call[c].kind /\ j.box = call[c].box /\ j.at = a
    BY <1>3, <2>1, Stepped
  <2>3. call'[c] = j
    BY <2>2 DEF BoxInv, BoxTypeOK
  <2>4. LockOK(c)' /\ MakerOK(c)' /\ UserOK(c)'
    BY <1>2, <2>1, <2>2, <2>3 DEF LockOK, MakerOK, UserOK, Fresh, Making, Ends
  <2>5. StageOK(j.kind, j.at) /\ threadLock' \in Calls \cup {Nobody}
    BY <1>2, <1>3, <2>1, <2>2 DEF StageOK, BoxInv, BoxTypeOK
  <2> QED
    BY <1>1, <1>2, <1>3, <2>1, <2>2, <2>4, <2>5, StageMoves DEF Ends
<1>4. CASE Done(c) /\ UNCHANGED machine
  BY <1>1, <1>2, <1>4, CallEnds
<1>5. ASSUME NEW b \in call[c].todo, Unlocked, stored[b].is, ~stored[b].ext,
             PowerOff(IF Requires(b) THEN {b} ELSE {}), writer' = c,
             call' = [call EXCEPT ![c].box = b, ![c].at = "remove"], UNCHANGED threadLock
      PROVE  BoxInv'
  <2>1. b \in Boxes /\ writer = Nobody
    BY <1>5, CallTyped DEF Unlocked
  <2> DEFINE j == [call[c] EXCEPT !.box = b, !.at = "remove"]
  <2>2. call' = [call EXCEPT ![c] = j]
    BY <1>5
  <2>3. call[c] \in [kind : CallKinds, box : Boxes \cup {Nobody}, at : CallStages,
                     seen : BoxRecords, got : Nat, from : Nat, todo : SUBSET Boxes, try : 0..Tries - 1]
        /\ "remove" \in CallStages
    BY CallTyped, CallType DEF CallStages
  <2>4. j \in [kind : CallKinds, box : Boxes \cup {Nobody}, at : CallStages,
               seen : BoxRecords, got : Nat, from : Nat, todo : SUBSET Boxes, try : 0..Tries - 1]
        /\ j.kind = call[c].kind /\ j.box = b /\ j.at = "remove"
    BY <2>1, <2>3
  <2> HIDE DEF j
  <2>5. j \in CallRecords
    BY <2>4, CallType
  <2>6. /\ call'[c] = j /\ call' \in [Calls -> CallRecords]
        /\ \A d \in Calls : d # c => call'[d] = call[d]
    BY <2>2, <2>5 DEF BoxInv, BoxTypeOK
  <2>7. PICK B : B = IF Requires(b) THEN {b} ELSE {}
    OBVIOUS
  <2>8. PowerOff(B)
    BY <1>5, <2>7
  <2>9. /\ machine' \in [Boxes -> Nat]
        /\ \A d \in Boxes : machine'[d] = IF d \in B THEN 0 ELSE machine[d]
    BY <2>8, PowerFacts
  <2>10. /\ machine'[b] = 0 \/ (machine'[b] = machine[b] /\ ~stored[b].running)
         /\ \A d \in Boxes : d # b => machine'[d] = machine[d]
    BY <1>5, <2>1, <2>7, <2>9 DEF Requires
  <2>11. BoxTypeOK'
    BY <1>1, <1>5, <2>6, <2>9 DEF BoxInv, BoxTypeOK
  <2>12. CallOK(c)' /\ LockOK(c)'
    BY <1>1, <1>2, <1>5, <2>1, <2>4, <2>6 DEF CallOK, StageOK, LockOK, Ends
  <2>13. MakerOK(c)' /\ UserOK(c)'
    BY <1>2, <2>4, <2>6 DEF MakerOK, UserOK, Fresh, Making
  <2>14. RecordOK(b) /\ MachineOK(b) /\ NamedOK(b) /\ boots[b] \in Nat
    BY <2>1 DEF BoxInv, BoxTypeOK
  <2>15. RecordOK(b)'
    BY <1>1, <1>5, <2>10, <2>14 DEF RecordOK
  <2>16. HandleOK(b)'
    BY <2>4, <2>6 DEF HandleOK, Ending, Ends
  <2>17. InHand(b) => InHand(b)'
    BY <1>2, <2>6 DEF InHand
  <2>18. MachineOK(b)' /\ NamedOK(b)'
    BY <1>1, <2>10, <2>14, <2>17 DEF MachineOK, NamedOK
  <2>19. boots[b] # 0
    BY <1>5, <2>14 DEF RecordOK
  <2>20. \A d \in Calls : d # c /\ writer = d => writer' = d
    BY <2>1, NobodyIsNone
  <2> QED
    BY <1>1, <1>2, <1>5, <2>1, <2>2, <2>4, <2>10, <2>11, <2>12, <2>13, <2>15, <2>16, <2>18,
       <2>19, <2>20, BoxMoves
<1> QED
  BY <1>3, <1>4, <1>5 DEF SweepNext

LEMMA RecheckInv ==
  ASSUME BoxInv, NEW c \in Calls, Recheck(c)
  PROVE  BoxInv'
<1>1. /\ call[c].at = "recheck" /\ writer = Nobody
      /\ UNCHANGED <<machine, boots, boxCalls, cut, leaked, snaps>>
  BY DEF Recheck, Unlocked
<1>2. call[c].kind = "delete" /\ call[c].at \notin Hands \cup Ends \cup Early
  BY <1>1, CallTyped DEF CallOK, StageOK, Hands, Ends, Early
<1>3. CASE Done(c) /\ UNCHANGED <<stored, cached, ownerRec>>
  BY <1>1, <1>2, <1>3, CallEnds
<1>4. CASE /\ MayTryAgain(c) /\ call' = [call EXCEPT ![c].try = @ + 1, ![c].at = "sweep"]
           /\ UNCHANGED <<writer, threadLock>> /\ UNCHANGED <<stored, cached, ownerRec>>
  <2>1. call[c] \in [kind : CallKinds, box : Boxes \cup {Nobody}, at : CallStages,
                     seen : BoxRecords, got : Nat, from : Nat, todo : SUBSET Boxes, try : 0..Tries - 1]
        /\ "sweep" \in CallStages
    BY CallTyped, CallType DEF CallStages
  <2>2. PICK n \in 0..Tries - 1 : n = call[c].try + 1
    <3>1. call[c].try \in 0..Tries - 1
      BY <2>1
    <3>2. call[c].try + 1 < Tries
      BY <1>4 DEF MayTryAgain
    <3> QED
      BY <3>1, <3>2, BoxAssumption
  <2> DEFINE j == [call[c] EXCEPT !.try = n, !.at = "sweep"]
  <2>3. call' = [call EXCEPT ![c] = j]
    BY <1>4, <2>2
  <2>4. j \in [kind : CallKinds, box : Boxes \cup {Nobody}, at : CallStages,
               seen : BoxRecords, got : Nat, from : Nat, todo : SUBSET Boxes, try : 0..Tries - 1]
        /\ j.kind = call[c].kind /\ j.box = call[c].box /\ j.at = "sweep"
    BY <2>1
  <2> HIDE DEF j
  <2>5. j \in CallRecords
    BY <2>4, CallType
  <2>6. call'[c] = j
    BY <2>3 DEF BoxInv, BoxTypeOK
  <2>7. LockOK(c)' /\ MakerOK(c)' /\ UserOK(c)'
    BY <1>2, <2>4, <2>6 DEF LockOK, MakerOK, UserOK, Fresh, Making, Ends
  <2>8. StageOK(j.kind, j.at) /\ threadLock' \in Calls \cup {Nobody}
    BY <1>2, <1>4, <2>4 DEF StageOK, BoxInv, BoxTypeOK
  <2> QED
    BY <1>1, <1>2, <1>4, <2>3, <2>4, <2>5, <2>7, <2>8, StageMoves DEF Ends
<1>5. CASE /\ \A b \in Boxes : ~Requires(b)
           /\ ownerRec' = FALSE
           /\ cached' = [b \in Boxes |-> IF stored[b].is THEN 0 ELSE cached[b]]
           /\ stored' = [b \in Boxes |-> NoRecord]
           /\ Done(c)
  <2>1. \A b \in Boxes : RecordOK(b) /\ MachineOK(b)
    BY DEF BoxInv
  <2>2. \A b \in Boxes : cached'[b] = 0 /\ stored'[b] = NoRecord
    BY <1>5, <2>1 DEF RecordOK
  <2>3. cached' \in [Boxes -> Nat] /\ stored' \in [Boxes -> BoxRecords] /\ ownerRec' \in BOOLEAN
    <3>1. cached \in [Boxes -> Nat]
      BY DEF BoxInv, BoxTypeOK
    <3> QED
      BY <1>5, <3>1, NoneTyped
  <2>4. BoxTypeOK'
    BY <1>1, <1>5, <2>3, DoneFacts DEF BoxInv, BoxTypeOK
  <2>5. ASSUME NEW d \in Calls
        PROVE  CallOK(d)' /\ LockOK(d)' /\ MakerOK(d)' /\ UserOK(d)'
    <3>1. CASE d = c
      BY <1>5, <3>1, DoneFacts
    <3>2. CASE d # c
      <4>1. call'[d] = call[d]
        BY <1>5, <3>2, DoneFacts
      <4>2. CallOK(d) /\ LockOK(d) /\ MakerOK(d) /\ UserOK(d) /\ call[d].box \in Boxes \cup {Nobody}
        BY CallTyped DEF BoxInv
      <4>3. CallOK(d)'
        BY <4>1, <4>2 DEF CallOK
      <4>4. /\ call[d].at \notin {"check", "backend"} \cup Ends
            /\ ~(call[d].kind = "named" /\ call[d].at = "persist")
        BY <1>1, <4>2, NobodyIsNone DEF LockOK
      <4>5. LockOK(d)'
        BY <4>1, <4>4 DEF LockOK
      <4>6. Fresh(d)' => Fresh(d)
        BY <4>1, <4>4 DEF Fresh
      <4>7. \A e \in Calls : call'[e].box = call[d].box /\ call[d].box \in Boxes => call'[e] = call[e]
        BY <1>5, DoneFacts, NobodyIsNone
      <4>8. Fresh(d) \/ call[d].at = "persist" => call[d].box \in Boxes
        BY <4>2 DEF CallOK, StageOK, Fresh, Making
      <4>9. MakerOK(d)'
        BY <1>1, <2>2, <4>1, <4>2, <4>6, <4>7, <4>8, NoneTyped DEF MakerOK
      <4>10. UserOK(d)'
        BY <1>1, <2>2, <4>1, <4>2, NoneTyped DEF UserOK, CallOK, StageOK
      <4> QED
        BY <4>3, <4>5, <4>9, <4>10
    <3> QED
      BY <3>1, <3>2
  <2>6. ASSUME NEW b \in Boxes
        PROVE  RecordOK(b)' /\ HandleOK(b)' /\ MachineOK(b)' /\ NamedOK(b)'
    <3>1. RecordOK(b)'
      BY <1>1, <2>1, <2>2, NoneTyped DEF RecordOK
    <3>2. HandleOK(b)' /\ NamedOK(b)'
      BY <2>2, NoneTyped DEF HandleOK, NamedOK
    <3>3. machine[b] # 0 => ~stored[b].running
      BY <1>5, <2>1 DEF Requires, RecordOK
    <3>4. InHand(b) => InHand(b)'
      BY <1>2, <1>5, DoneFacts DEF InHand
    <3>5. MachineOK(b)'
      BY <1>1, <2>1, <3>3, <3>4 DEF MachineOK
    <3> QED
      BY <3>1, <3>2, <3>5
  <2>7. OwnerOK' /\ NamedOnce'
    BY <2>2, NoneTyped DEF OwnerOK, NamedOnce
  <2> QED
    BY <2>4, <2>5, <2>6, <2>7 DEF BoxInv
<1> QED
  BY <1>3, <1>4, <1>5 DEF Recheck

LEMMA BoxNextInv ==
  ASSUME BoxInv, [BoxNext]_boxVars
  PROVE  BoxInv'
<1>1. CASE UNCHANGED boxVars
  BY <1>1 DEF boxVars, BoxInv, BoxTypeOK, CallOK, LockOK, MakerOK, Fresh, UserOK, RecordOK,
              HandleOK, MachineOK, NamedOK, Ending, InHand, OwnerOK, NamedOnce
<1>2. CASE BoxNext
  <2>1. PICK c \in Calls :
          \/ \E kind \in DOMAIN CallStart, b \in Boxes \cup {Nobody}, s \in 0..snaps :
               BeginCall(c, kind, b, s)
          \/ CallAdvances(c)
    BY <1>2 DEF BoxNext
  <2>2. CASE \E kind \in DOMAIN CallStart, b \in Boxes \cup {Nobody}, s \in 0..snaps :
               BeginCall(c, kind, b, s)
    BY <2>2, BeginCallInv
  <2>3. CASE TakeThread(c) \/ TakeWrite(c) \/ BackendError(c)
    BY <2>3, TakeThreadInv, TakeWriteInv, BackendErrorInv
  <2>4. CASE CreateStep(c)
    BY <2>4, AcquireInv, PersistInv, NamedCheckInv, NamedBackendInv DEF CreateStep
  <2>5. CASE HandleStep(c)
    BY <2>5, ReadInv, RegisterInv, ResumeWriteInv, DetachInv, SnapshotWriteInv DEF HandleStep
  <2>6. CASE LockedStep(c)
    BY <2>6, StopCheckInv, StopBackendInv, StopFinishInv, RestartCheckInv, RestartBackendInv
    DEF LockedStep
  <2>7. CASE DeleteOwnerStep(c)
    BY <2>7, SweepListInv, SweepNextInv, SweepRemoveInv, RecheckInv DEF DeleteOwnerStep
  <2> QED
    BY <2>1, <2>2, <2>3, <2>4, <2>5, <2>6, <2>7 DEF CallAdvances
<1> QED
  BY <1>1, <1>2

LEMMA BoxInvIsInvariant == BoxSpec => []BoxInv
<1>1. BoxInit => BoxInv
  BY BoxInitInv
<1>2. BoxInv /\ [BoxNext]_boxVars => BoxInv'
  BY BoxNextInv
<1> QED
  BY <1>1, <1>2, PTL DEF BoxSpec

LEMMA RecordsFollow ==
  ASSUME BoxInv
  PROVE  RecordsTrue
<1>1. NoOrphan
  <2> SUFFICES ASSUME NEW b \in Boxes, machine[b] # 0, ~stored[b].is, b \notin leaked
               PROVE  \E c \in Calls : call[c].box = b /\ call[c].at # "idle"
    BY DEF NoOrphan
  <2>1. RecordOK(b) /\ MachineOK(b)
    BY DEF BoxInv
  <2>2. InHand(b)
    BY <2>1 DEF RecordOK, MachineOK
  <2> QED
    BY <2>2 DEF InHand, Hands
<1>2. DeletedLeavesNothing
  BY DEF DeletedLeavesNothing, BoxInv, OwnerOK, RecordOK
<1>3. ASSUME NEW b \in Boxes, Settled(b)
      PROVE  ~InHand(b) /\ ~Ending(b)
  BY <1>3 DEF Settled, InHand, Ending
<1>4. StoppedIsOff
  BY <1>3 DEF StoppedIsOff, BoxInv, MachineOK
<1>5. HandleIsLive
  BY <1>3 DEF HandleIsLive, BoxInv, HandleOK, RecordOK
<1>6. NamedOnce
  BY DEF BoxInv
<1> QED
  BY <1>1, <1>2, <1>4, <1>5, <1>6 DEF RecordsTrue

\* Records, handles and machines agree whenever nothing is under way, whatever
\* calls raced, and a deletion leaves none of them: no machine outlives its
\* record, a stopped sandbox is off, a handle is for the machine that is up, and
\* concurrent creations of a name share one sandbox.
THEOREM RecordsTrueCorrect == BoxSpec => []RecordsTrue
<1>1. BoxInv => RecordsTrue
  BY RecordsFollow
<1> QED
  BY <1>1, BoxInvIsInvariant, PTL

\* The numbers of the snapshots that records and calls name were all given out.
StoredBound == \A b \in Boxes : stored[b].snap <= snaps
SnapBound == StoredBound /\ \A c \in Calls : call[c].seen.snap <= snaps /\ call[c].from <= snaps

\* Call c is over, or knows the snapshots it knew.
SameSnaps(c) ==
  /\ \A d \in Calls : d # c => call'[d] = call[d]
  /\ \/ call'[c] = NoCall
     \/ call'[c].seen = call[c].seen /\ call'[c].from = call[c].from

LEMMA CallsSame ==
  ASSUME BoxInv, NEW c \in Calls, CallAdvances(c), ~Read(c)
  PROVE  SameSnaps(c)
<1>1. call \in [Calls -> CallRecords]
  BY DEF BoxInv, BoxTypeOK
<1>2. call[c] \in [kind : CallKinds, box : Boxes \cup {Nobody}, at : CallStages,
                   seen : BoxRecords, got : Nat, from : Nat, todo : SUBSET Boxes, try : 0..Tries - 1]
  BY CallTyped, CallType
<1>3. ASSUME Done(c)
      PROVE  SameSnaps(c)
  BY <1>1, <1>3 DEF Done, SameSnaps
<1>4. ASSUME NEW a, Then(c, a)
      PROVE  SameSnaps(c)
  BY <1>1, <1>2, <1>4 DEF Then, SameSnaps
<1>5. ASSUME NEW a, NEW g, call' = [call EXCEPT ![c].got = g, ![c].at = a]
      PROVE  SameSnaps(c)
  BY <1>1, <1>2, <1>5 DEF SameSnaps
<1>6. ASSUME NEW a, NEW b, call' = [call EXCEPT ![c].box = b, ![c].at = a]
      PROVE  SameSnaps(c)
  BY <1>1, <1>2, <1>6 DEF SameSnaps
<1>7. ASSUME NEW a, NEW t, call' = [call EXCEPT ![c].todo = t, ![c].at = a]
      PROVE  SameSnaps(c)
  BY <1>1, <1>2, <1>7 DEF SameSnaps
<1>8. ASSUME NEW a, NEW y, call' = [call EXCEPT ![c].try = y, ![c].at = a]
      PROVE  SameSnaps(c)
  BY <1>1, <1>2, <1>8 DEF SameSnaps
<1>9. CASE TakeThread(c) \/ TakeWrite(c) \/ BackendError(c)
  BY <1>3, <1>4, <1>9 DEF TakeThread, TakeWrite, BackendError
<1>10. CASE Acquire(c) \/ Persist(c)
  BY <1>3, <1>5, <1>10 DEF Acquire, Persist
<1>11. CASE NamedCheck(c) \/ NamedBackend(c)
  BY <1>3, <1>4, <1>5, <1>6, <1>11 DEF NamedCheck, NamedBackend
<1>12. CASE Register(c) \/ ResumeWrite(c) \/ Detach(c) \/ SnapshotWrite(c)
  BY <1>3, <1>5, <1>12 DEF Register, ResumeWrite, Detach, SnapshotWrite
<1>13. CASE LockedStep(c)
  BY <1>3, <1>4, <1>13
  DEF LockedStep, StopCheck, StopBackend, StopFinish, RestartCheck, RestartBackend
<1>14. CASE SweepList(c)
  BY <1>3, <1>7, <1>14 DEF SweepList
<1>15. CASE SweepNext(c)
  BY <1>3, <1>4, <1>6, <1>15 DEF SweepNext
<1>16. CASE SweepRemove(c)
  <2>1. PICK t : t = call[c].todo \ {call[c].box}
    OBVIOUS
  <2>2. call' = [call EXCEPT ![c].todo = t, ![c].at = "next"]
    BY <1>16, <2>1 DEF SweepRemove
  <2> QED
    BY <1>7, <2>2
<1>17. CASE Recheck(c)
  <2>1. PICK y : y = call[c].try + 1
    OBVIOUS
  <2>2. Done(c) \/ call' = [call EXCEPT ![c].try = y, ![c].at = "sweep"]
    BY <1>17, <2>1 DEF Recheck
  <2> QED
    BY <1>3, <1>8, <2>2
<1> QED
  BY <1>9, <1>10, <1>11, <1>12, <1>13, <1>14, <1>15, <1>16, <1>17
  DEF CallAdvances, CreateStep, HandleStep, DeleteOwnerStep

\* The step of SnapshotKept.
LosesSnapshot(b) == stored[b].is /\ stored'[b].is /\ stored'[b].snap < stored[b].snap
WritesBack(c, b) ==
  /\ call[c].box = b /\ call'[c].kind = "none"
  /\ \/ call[c].kind = "resume" /\ stored'[b].snap = call[c].seen.snap
     \/ call[c].kind = "restart" /\ stored'[b].snap = call[c].from
KeepsSnapshots == \A b \in Boxes : LosesSnapshot(b) => \E c \in Calls : WritesBack(c, b)

Counts == snaps \in Nat /\ snaps' \in Nat /\ snaps <= snaps'

LEMMA NoSnaps ==
  NoRecord.snap = 0 /\ ~NoRecord.is /\ NoCall.seen.snap = 0 /\ NoCall.from = 0
BY DEF NoRecord, NoCall

LEMMA SnapTyped ==
  ASSUME BoxInv, NEW b \in Boxes
  PROVE  stored[b] \in BoxRecords /\ stored[b].snap \in Nat
<1>1. stored[b] \in BoxRecords
  BY DEF BoxInv, BoxTypeOK
<1> QED
  BY <1>1 DEF BoxRecords

LEMMA SeenTyped ==
  ASSUME BoxInv, NEW c \in Calls
  PROVE  call[c].seen.snap \in Nat /\ call[c].from \in Nat
<1>1. call[c].seen \in BoxRecords /\ call[c].from \in Nat
  BY CallTyped
<1> QED
  BY <1>1 DEF BoxRecords

LEMMA RecordReplaced ==
  ASSUME BoxInv, SnapBound, Counts, NEW x \in Boxes, NEW r, stored' = [stored EXCEPT ![x] = r],
         r.snap \in Nat, r.snap <= snaps'
  PROVE  /\ StoredBound' /\ stored'[x] = r
         /\ \A b \in Boxes : b # x => stored'[b] = stored[b] /\ ~LosesSnapshot(b)
<1>1. stored \in [Boxes -> BoxRecords]
  BY DEF BoxInv, BoxTypeOK
<1>2. stored'[x] = r /\ \A b \in Boxes : b # x => stored'[b] = stored[b]
  BY <1>1
<1>3. ASSUME NEW b \in Boxes, b # x
      PROVE  ~LosesSnapshot(b)
  BY <1>2, <1>3, SnapTyped DEF LosesSnapshot
<1>4. StoredBound'
  <2> SUFFICES ASSUME NEW b \in Boxes
               PROVE  stored'[b].snap <= snaps'
    BY DEF StoredBound
  <2>1. stored[b].snap <= snaps /\ stored[b].snap \in Nat
    BY SnapTyped DEF SnapBound, StoredBound
  <2> QED
    BY <1>2, <2>1 DEF Counts
<1> QED
  BY <1>2, <1>3, <1>4

LEMMA OneRecordWritten ==
  ASSUME BoxInv, SnapBound, Counts, NEW x \in Boxes, NEW r, stored' = [stored EXCEPT ![x] = r],
         r.snap \in Nat, r.snap <= snaps',
         ~r.is \/ ~stored[x].is \/ r.snap >= stored[x].snap
  PROVE  KeepsSnapshots /\ StoredBound'
<1>1. StoredBound' /\ stored'[x] = r /\ \A b \in Boxes : b # x => ~LosesSnapshot(b)
  BY RecordReplaced
<1>2. ~LosesSnapshot(x)
  BY <1>1, SnapTyped DEF LosesSnapshot
<1> QED
  BY <1>1, <1>2 DEF KeepsSnapshots

LEMMA OneRecordWrittenBack ==
  ASSUME BoxInv, SnapBound, Counts, NEW c \in Calls, NEW r, call[c].box \in Boxes,
         stored' = [stored EXCEPT ![call[c].box] = r], call'[c].kind = "none",
         \/ call[c].kind = "resume" /\ r.snap = call[c].seen.snap
         \/ call[c].kind = "restart" /\ r.snap = call[c].from
  PROVE  KeepsSnapshots /\ StoredBound'
<1>1. r.snap \in Nat /\ r.snap <= snaps'
  BY SeenTyped DEF SnapBound, Counts
<1>2. /\ StoredBound' /\ stored'[call[c].box] = r
      /\ \A b \in Boxes : b # call[c].box => ~LosesSnapshot(b)
  BY <1>1, RecordReplaced
<1>3. WritesBack(c, call[c].box)
  BY <1>2 DEF WritesBack
<1> QED
  BY <1>2, <1>3 DEF KeepsSnapshots

LEMMA RecordRemoved ==
  ASSUME BoxInv, SnapBound, Counts, NEW x \in Boxes, stored' = [stored EXCEPT ![x] = NoRecord]
  PROVE  KeepsSnapshots /\ StoredBound'
<1>1. PICK r : r = NoRecord
  OBVIOUS
<1>2. r.snap = 0 /\ ~r.is
  BY <1>1, NoSnaps
<1>3. r.snap \in Nat /\ r.snap <= snaps'
  BY <1>2 DEF Counts
<1> QED
  BY <1>1, <1>2, <1>3, OneRecordWritten

LEMMA StoredStays ==
  ASSUME BoxInv, SnapBound, Counts, UNCHANGED stored
  PROVE  KeepsSnapshots /\ StoredBound'
<1> SUFFICES ASSUME NEW b \in Boxes
             PROVE  ~LosesSnapshot(b) /\ stored'[b].snap <= snaps'
  BY DEF KeepsSnapshots, StoredBound
<1>1. stored[b].snap <= snaps
  BY DEF SnapBound, StoredBound
<1> QED
  BY <1>1, SnapTyped DEF LosesSnapshot, Counts

LEMMA Counted ==
  ASSUME BoxInv, [BoxNext]_boxVars
  PROVE  Counts
<1>1. snaps \in Nat
  BY DEF BoxInv, BoxTypeOK
<1>2. UNCHANGED snaps \/ snaps' = snaps + 1
  <2>1. CASE UNCHANGED boxVars
    BY <2>1 DEF boxVars
  <2>2. ASSUME NEW c \in Calls, NEW kind, NEW b, NEW s, BeginCall(c, kind, b, s)
        PROVE  UNCHANGED snaps
    BY <2>2 DEF BeginCall
  <2>3. ASSUME NEW c \in Calls, TakeThread(c) \/ TakeWrite(c) \/ BackendError(c) \/ CreateStep(c)
        PROVE  UNCHANGED snaps
    BY <2>3 DEF TakeThread, TakeWrite, BackendError, CreateStep, Acquire, Persist, NamedCheck,
                NamedBackend
  <2>4. ASSUME NEW c \in Calls, HandleStep(c)
        PROVE  UNCHANGED snaps \/ snaps' = snaps + 1
    BY <2>4 DEF HandleStep, Read, Register, ResumeWrite, Detach, SnapshotWrite
  <2>5. ASSUME NEW c \in Calls, LockedStep(c) \/ DeleteOwnerStep(c)
        PROVE  UNCHANGED snaps
    BY <2>5 DEF LockedStep, StopCheck, StopBackend, StopFinish, RestartCheck, RestartBackend,
                DeleteOwnerStep, SweepList, SweepNext, SweepRemove, Recheck
  <2> QED
    BY <2>1, <2>2, <2>3, <2>4, <2>5 DEF BoxNext, CallAdvances
<1> QED
  BY <1>1, <1>2 DEF Counts

LEMMA SnapshotStep ==
  ASSUME BoxInv, SnapBound, [BoxNext]_boxVars
  PROVE  KeepsSnapshots /\ StoredBound'
<1> USE Counted
<1>1. CASE UNCHANGED boxVars
  BY <1>1, StoredStays DEF boxVars
<1>2. CASE BoxNext
  <2>1. PICK c \in Calls :
          \/ \E kind \in DOMAIN CallStart, b \in Boxes \cup {Nobody}, s \in 0..snaps :
               BeginCall(c, kind, b, s)
          \/ CallAdvances(c)
    BY <1>2 DEF BoxNext
  <2>2. CASE \E kind \in DOMAIN CallStart, b \in Boxes \cup {Nobody}, s \in 0..snaps :
               BeginCall(c, kind, b, s)
    <3>1. UNCHANGED stored
      BY <2>2 DEF BeginCall
    <3> QED
      BY <3>1, StoredStays
  <2>3. CASE \/ TakeThread(c) \/ TakeWrite(c) \/ BackendError(c)
             \/ Acquire(c) \/ NamedCheck(c) \/ NamedBackend(c) \/ Read(c) \/ Register(c)
             \/ StopCheck(c) \/ StopBackend(c) \/ RestartCheck(c) \/ SweepList(c) \/ SweepNext(c)
    <3>1. UNCHANGED stored
      BY <2>3 DEF TakeThread, TakeWrite, BackendError, Acquire, NamedCheck, NamedBackend, Read,
                  Register, StopCheck, StopBackend, RestartCheck, SweepList, SweepNext
    <3> QED
      BY <3>1, StoredStays
  <2> DEFINE b == call[c].box
  <2>4. CASE Persist(c)
    <3>1. b \in Boxes /\ ~stored[b].is
      BY <2>4, CallTyped DEF Persist, BoxInv, MakerOK, CallOK, StageOK
    <3>2. CASE UNCHANGED stored
      BY <3>2, StoredStays
    <3>3. CASE stored' = [stored EXCEPT ![b] = NewRecord(call[c].kind, call[c].from)]
      <4>1. PICK r : r = NewRecord(call[c].kind, call[c].from)
        OBVIOUS
      <4>2. r.snap = call[c].from
        BY <4>1 DEF NewRecord
      <4>3. r.snap \in Nat /\ r.snap <= snaps'
        BY <4>2, SeenTyped DEF SnapBound, Counts
      <4> QED
        BY <3>1, <3>3, <4>1, <4>3, OneRecordWritten
    <3> QED
      BY <2>4, <3>2, <3>3 DEF Persist
  <2>5. CASE ResumeWrite(c)
    <3>1. call[c].kind = "resume" /\ Done(c)
      BY <2>5, CallTyped DEF ResumeWrite, CallOK, StageOK
    <3>2. call'[c].kind = "none"
      BY <3>1, DoneFacts, NoneTyped
    <3>3. b \in Boxes /\ call[c].seen \in BoxRecords
      BY <2>5, CallTyped DEF ResumeWrite, CallOK, StageOK
    <3>4. CASE UNCHANGED stored
      BY <3>4, StoredStays
    <3>5. CASE stored' = [stored EXCEPT ![b] = [call[c].seen EXCEPT !.running = TRUE]]
      <4>1. PICK r : r = [call[c].seen EXCEPT !.running = TRUE]
        OBVIOUS
      <4>2. r.snap = call[c].seen.snap
        BY <3>3, <4>1 DEF BoxRecords
      <4> QED
        BY <3>1, <3>2, <3>3, <3>5, <4>1, <4>2, OneRecordWrittenBack
    <3> QED
      BY <2>5, <3>4, <3>5 DEF ResumeWrite
  <2>6. ASSUME b \in Boxes
        PROVE  /\ stored[b] \in BoxRecords /\ stored[b].snap \in Nat
               /\ [stored[b] EXCEPT !.running = FALSE, !.ext = TRUE].snap = stored[b].snap
               /\ [stored[b] EXCEPT !.running = FALSE].snap = stored[b].snap
               /\ stored[b].snap <= snaps /\ stored[b].snap <= snaps'
    <3>1. stored[b] \in BoxRecords /\ stored[b].snap \in Nat
      BY <2>6, SnapTyped
    <3>2. stored[b].snap <= snaps
      BY <2>6 DEF SnapBound, StoredBound
    <3>3. stored[b].snap <= snaps'
      BY <3>1, <3>2 DEF Counts
    <3> QED
      BY <3>1, <3>2, <3>3 DEF BoxRecords
  <2>7. CASE Detach(c)
    <3>1. b \in Boxes
      BY <2>7, CallTyped DEF Detach, CallOK, StageOK
    <3>2. CASE UNCHANGED stored
      BY <3>2, StoredStays
    <3>3. CASE stored' = [stored EXCEPT ![b] = [stored[b] EXCEPT !.running = FALSE, !.ext = TRUE]]
      <4>1. PICK r : r = [stored[b] EXCEPT !.running = FALSE, !.ext = TRUE]
        OBVIOUS
      <4>2. r.snap \in Nat /\ r.snap >= stored[b].snap /\ r.snap <= snaps'
        BY <2>6, <3>1, <4>1
      <4> QED
        BY <3>1, <3>3, <4>1, <4>2, OneRecordWritten
    <3> QED
      BY <2>7, <3>2, <3>3 DEF Detach
  <2>8. CASE SnapshotWrite(c)
    <3>1. b \in Boxes
      BY <2>8, CallTyped DEF SnapshotWrite, CallOK, StageOK
    <3>2. CASE UNCHANGED stored
      BY <3>2, StoredStays
    <3>3. CASE stored' = [stored EXCEPT ![b].snap = snaps + 1] /\ snaps' = snaps + 1
      <4>1. PICK n : n = snaps + 1
        OBVIOUS
      <4>2. PICK r : r = [stored[b] EXCEPT !.snap = n]
        OBVIOUS
      <4>3. stored' = [stored EXCEPT ![b] = r]
        BY <3>3, <4>1, <4>2
      <4>4. r.snap = n
        BY <2>6, <3>1, <4>2 DEF BoxRecords
      <4>5. r.snap \in Nat /\ r.snap >= stored[b].snap /\ r.snap <= snaps'
        BY <2>6, <3>1, <3>3, <4>1, <4>4 DEF Counts
      <4> QED
        BY <3>1, <4>3, <4>5, OneRecordWritten
    <3> QED
      BY <2>8, <3>2, <3>3 DEF SnapshotWrite
  <2>9. CASE StopFinish(c)
    <3>1. b \in Boxes /\ call[c].kind \in {"stop", "terminate"}
      BY <2>9, CallTyped DEF StopFinish, Serving, CallOK, StageOK
    <3>2. CASE call[c].kind = "terminate"
      <4>1. stored' = [stored EXCEPT ![b] = NoRecord]
        BY <2>9, <3>2 DEF StopFinish
      <4> QED
        BY <3>1, <4>1, RecordRemoved
    <3>3. CASE call[c].kind = "stop"
      <4>1. PICK r : r = [stored[b] EXCEPT !.running = FALSE]
        OBVIOUS
      <4>2. r.snap \in Nat /\ r.snap >= stored[b].snap /\ r.snap <= snaps'
        BY <2>6, <3>1, <4>1
      <4>3. stored' = [stored EXCEPT ![b] = r]
        BY <2>9, <3>3, <4>1 DEF StopFinish
      <4> QED
        BY <3>1, <4>2, <4>3, OneRecordWritten
    <3> QED
      BY <3>1, <3>2, <3>3
  <2>10. CASE RestartBackend(c)
    <3>1. b \in Boxes
      BY <2>10, CallTyped DEF RestartBackend, Serving, CallOK, StageOK
    <3>2. PICK t, n : t = TRUE /\ n = call[c].from
      OBVIOUS
    <3>3. PICK r : r = [stored[b] EXCEPT !.running = t, !.snap = n]
      OBVIOUS
    <3>4. stored' = [stored EXCEPT ![b] = r]
      BY <2>10, <3>2, <3>3 DEF RestartBackend
    <3>5. r.snap = call[c].from
      BY <2>6, <3>1, <3>2, <3>3 DEF BoxRecords
    <3>6. call[c].kind = "restart" /\ Done(c)
      BY <2>10 DEF RestartBackend, Serving
    <3>7. call'[c].kind = "none"
      BY <3>6, DoneFacts, NoneTyped
    <3> QED
      BY <3>1, <3>4, <3>5, <3>6, <3>7, OneRecordWrittenBack
  <2>11. CASE SweepRemove(c)
    <3>1. b \in Boxes
      BY <2>11, CallTyped DEF SweepRemove, CallOK, StageOK
    <3>2. stored' = [stored EXCEPT ![b] = NoRecord]
      BY <2>11 DEF SweepRemove
    <3> QED
      BY <3>1, <3>2, RecordRemoved
  <2>12. CASE Recheck(c)
    <3>1. CASE UNCHANGED stored
      BY <3>1, StoredStays
    <3>2. CASE stored' = [d \in Boxes |-> NoRecord]
      BY <3>2, NoSnaps DEF KeepsSnapshots, LosesSnapshot, StoredBound, Counts
    <3> QED
      BY <2>12, <3>1, <3>2 DEF Recheck
  <2> QED
    BY <2>1, <2>2, <2>3, <2>4, <2>5, <2>7, <2>8, <2>9, <2>10, <2>11, <2>12
    DEF CallAdvances, CreateStep, HandleStep, LockedStep, DeleteOwnerStep
<1> QED
  BY <1>1, <1>2

LEMMA SnapBoundStep ==
  ASSUME BoxInv, SnapBound, [BoxNext]_boxVars
  PROVE  SnapBound'
<1>1. StoredBound' /\ Counts
  BY SnapshotStep, Counted
<1> SUFFICES ASSUME NEW d \in Calls
             PROVE  call'[d].seen.snap <= snaps' /\ call'[d].from <= snaps'
  BY <1>1 DEF SnapBound
<1>2. /\ call[d].seen.snap \in Nat /\ call[d].from \in Nat
      /\ call[d].seen.snap <= snaps /\ call[d].from <= snaps
  BY SeenTyped DEF SnapBound
<1>3. ASSUME call'[d].seen.snap = call[d].seen.snap, call'[d].from = call[d].from
      PROVE  call'[d].seen.snap <= snaps' /\ call'[d].from <= snaps'
  BY <1>1, <1>2, <1>3 DEF Counts
<1>4. CASE UNCHANGED boxVars
  BY <1>3, <1>4 DEF boxVars
<1>5. CASE BoxNext
  <2>1. PICK c \in Calls :
          \/ \E kind \in DOMAIN CallStart, b \in Boxes \cup {Nobody}, s \in 0..snaps :
               BeginCall(c, kind, b, s)
          \/ CallAdvances(c)
    BY <1>5 DEF BoxNext
  <2>c. call \in [Calls -> CallRecords]
    BY DEF BoxInv, BoxTypeOK
  <2>2. CASE \E kind \in DOMAIN CallStart, b \in Boxes \cup {Nobody}, s \in 0..snaps :
               BeginCall(c, kind, b, s)
    <3>1. PICK kind \in DOMAIN CallStart, b \in Boxes \cup {Nobody}, s \in 0..snaps :
            BeginCall(c, kind, b, s)
      BY <2>2
    <3>2. PICK a : a = CallStart[kind]
      OBVIOUS
    <3>3. PICK j : j = [NoCall EXCEPT !.kind = kind, !.box = b, !.from = s, !.at = a]
      OBVIOUS
    <3>4. call' = [call EXCEPT ![c] = j]
      BY <3>1, <3>2, <3>3 DEF BeginCall
    <3>5. j.seen = NoCall.seen /\ j.from = s
      BY <3>3 DEF NoCall
    <3>6. CASE d = c
      BY <1>1, <2>c, <3>4, <3>5, <3>6, NoSnaps DEF Counts
    <3>7. CASE d # c
      BY <1>3, <2>c, <3>4, <3>7
    <3> QED
      BY <3>6, <3>7
  <2>3. CASE CallAdvances(c) /\ ~Read(c)
    <3>1. SameSnaps(c)
      BY <2>3, CallsSame
    <3>2. CASE d = c /\ call'[c] = NoCall
      BY <1>1, <3>2, NoSnaps DEF Counts
    <3>3. CASE ~(d = c /\ call'[c] = NoCall)
      BY <1>3, <3>1, <3>3 DEF SameSnaps
    <3> QED
      BY <3>2, <3>3
  <2>4. CASE Read(c)
    <3>1. CASE Done(c)
      BY <1>1, <1>3, <2>c, <3>1, NoSnaps DEF Done, Counts
    <3>2. CASE ~Done(c)
      <4> DEFINE b == call[c].box
                 warm == stored[b].running /\ cached[b] # 0
      <4>p. PICK r, g, a : /\ r = stored[b] /\ g = IF warm THEN cached[b] ELSE 0
                           /\ a = IF warm THEN Onwards(call[c].kind) ELSE "acquire"
        OBVIOUS
      <4>1. call' = [call EXCEPT ![c].seen = r, ![c].got = g, ![c].at = a]
        BY <2>4, <3>2, <4>p DEF Read
      <4>2. call[c].box \in Boxes
        BY <2>4, CallTyped DEF Read, CallOK, StageOK
      <4>3. r.snap \in Nat /\ r.snap <= snaps
        BY <4>p, <4>2, SnapTyped DEF SnapBound, StoredBound
      <4>4. call[c] \in [kind : CallKinds, box : Boxes \cup {Nobody}, at : CallStages,
                   seen : BoxRecords, got : Nat, from : Nat, todo : SUBSET Boxes, try : 0..Tries - 1]
        BY CallTyped, CallType
      <4>5. CASE d = c
        <5>1. call'[c].seen = r /\ call'[c].from = call[c].from
          BY <2>c, <4>1, <4>4
        <5> QED
          BY <1>1, <1>2, <4>3, <4>5, <5>1 DEF Counts
      <4>6. CASE d # c
        BY <1>3, <2>c, <4>1, <4>6
      <4> QED
        BY <4>5, <4>6
    <3> QED
      BY <3>1, <3>2
  <2> QED
    BY <2>1, <2>2, <2>3, <2>4
<1> QED
  BY <1>4, <1>5

\* Of all who write a record only two can put an older snapshot in the place of a
\* newer one, and they write what they had in hand before they took write_lock: a
\* resume the record it read, a start from a snapshot the one it was asked for.
THEOREM SnapshotKeptCorrect == BoxSpec => SnapshotKept
<1>1. BoxInit => SnapBound
  <2> SUFFICES ASSUME BoxInit
               PROVE  SnapBound
    OBVIOUS
  <2>1. \A b \in Boxes : stored[b].snap = 0
    BY NoSnaps DEF BoxInit, NewRecord
  <2>2. \A c \in Calls : call[c] = NoCall
    BY DEF BoxInit
  <2> QED
    BY <2>1, <2>2, NoSnaps DEF BoxInit, SnapBound, StoredBound
<1>2. BoxInv /\ SnapBound /\ [BoxNext]_boxVars => SnapBound'
  BY SnapBoundStep
<1>3. BoxInv /\ SnapBound /\ [BoxNext]_boxVars => [KeepsSnapshots]_boxVars
  BY SnapshotStep
<1>4. [KeepsSnapshots]_boxVars =>
        [\A b \in Boxes : stored[b].is /\ stored'[b].is /\ stored'[b].snap < stored[b].snap =>
           \E c \in Calls :
             /\ call[c].box = b /\ call'[c].kind = "none"
             /\ \/ call[c].kind = "resume" /\ stored'[b].snap = call[c].seen.snap
                \/ call[c].kind = "restart" /\ stored'[b].snap = call[c].from]_boxVars
  BY DEF KeepsSnapshots, LosesSnapshot, WritesBack
<1> QED
  BY <1>1, <1>2, <1>3, <1>4, BoxInvIsInvariant, PTL DEF BoxSpec, SnapshotKept

--------------------------------------------------------------------------------

(* Part 2: the process *)

\* The status changes in the supervisor's last step, to what its select decided.
StatusFollows ==
  /\ pstatus = "running" <=> sup # "end"
  /\ sup # "select" => verdict \in ProcEnds

\* A reader that came to the end of its pipe left nothing, and nobody writes there.
EndedIsDry == \A s \in Streams : reader[s] = "ok" => unread[s] = 0 /\ s \notin open

\* Past the second select, no reader is left that was neither aborted nor awaited.
NobodyReads == sup \in {"input", "finish", "end"} => \A s \in Streams : reader[s] # "reading"

\* The pipe holds no more than was written to it.
PipesHold == \A s \in Streams : unread[s] <= wrote[s]

ProcInv == ProcTypeOK /\ PipesHold /\ StatusFollows /\ EndedIsDry /\ NobodyReads

\* The invariant holds when the process is started.
LEMMA ProcInvInit == ProcInit => ProcInv
<1> SUFFICES ASSUME ProcInit PROVE ProcInv
    OBVIOUS
<1> USE DEF ProcInit
<1>1. ProcTypeOK
  <2>1. plog \in Seq(Streams \cup ProcEnds)
      OBVIOUS
  <2>2. 0 \in 0..MaxChunks
      BY ProcAssumption DEF ProcAssumption
  <2>3. unread \in [Streams -> 0..MaxChunks] /\ wrote \in [Streams -> 0..MaxChunks]
      BY <2>2
  <2>4. QED
      BY <2>1, <2>3 DEF ProcTypeOK
<1>2. PipesHold /\ StatusFollows /\ EndedIsDry /\ NobodyReads
    BY DEF PipesHold, StatusFollows, EndedIsDry, NobodyReads
<1>3. QED
    BY <1>1, <1>2 DEF ProcInv

\* Every step of the child, the readers, the supervisor and the callers preserves it.
LEMMA ProcInvStep == ProcInv /\ [ProcNext]_procVars => ProcInv'
<1> SUFFICES ASSUME ProcInv, [ProcNext]_procVars PROVE ProcInv'
    OBVIOUS
<1> USE ProcAssumption DEF ProcAssumption, ProcInv, ProcTypeOK, PipesHold, StatusFollows,
        EndedIsDry, NobodyReads, ProcEnds, state, outside, tokens
<1>1. ASSUME NEW s \in Streams, ChildWrites(s) PROVE ProcInv'
    BY <1>1 DEF ChildWrites
<1>2. CASE ChildEnds
    BY <1>2 DEF ChildEnds
<1>3. ASSUME NEW s \in Streams, PipeCloses(s) PROVE ProcInv'
    BY <1>3 DEF PipeCloses
<1>4. ASSUME NEW s \in Streams, ReadChunk(s) PROVE ProcInv'
  <2>1. plog' \in Seq(Streams \cup ProcEnds)
    <3> DEFINE E == Streams \cup ProcEnds
    <3>1. plog \in Seq(E) /\ s \in E
        OBVIOUS
    <3> HIDE DEF E
    <3>2. Append(plog, s) \in Seq(E)
        BY <3>1
    <3>3. plog' = plog \/ plog' = Append(plog, s)
        BY <1>4 DEF ReadChunk
    <3>4. QED
        BY <3>1, <3>2, <3>3 DEF E
  <2>2. /\ unread[s] \in 1..MaxChunks /\ unread' = [unread EXCEPT ![s] = unread[s] - 1]
        /\ unread[s] - 1 \in 0..MaxChunks
      BY <1>4 DEF ReadChunk
  <2>3. unread' \in [Streams -> 0..MaxChunks] /\ PipesHold'
      BY <1>4, <2>2 DEF ReadChunk
  <2>4. EndedIsDry'
      BY <1>4, <2>2 DEF ReadChunk
  <2>5. reader' \in [Streams -> {"reading", "stopping", "ok", "failed", "cut"}]
      BY <1>4 DEF ReadChunk
  <2>6. NobodyReads'
      BY <1>4 DEF ReadChunk
  <2>7. StatusFollows'
      BY <1>4 DEF ReadChunk
  <2>8. ProcTypeOK'
      BY <1>4, <2>1, <2>3, <2>5 DEF ReadChunk
  <2>9. QED
    <3> HIDE DEF ProcTypeOK, PipesHold, StatusFollows, EndedIsDry, NobodyReads
    <3> QED
        BY <2>3, <2>4, <2>6, <2>7, <2>8
<1>5. ASSUME NEW s \in Streams, ReadEnd(s) PROVE ProcInv'
    BY <1>5 DEF ReadEnd
<1>6. ASSUME NEW s \in Streams, ReadFails(s) PROVE ProcInv'
    BY <1>6 DEF ReadFails
<1>7. ASSUME NEW s \in Streams, Stopped(s) PROVE ProcInv'
    BY <1>7 DEF Stopped
<1>8. CASE Select
    BY <1>8 DEF Select
<1>9. CASE Drain
    BY <1>9 DEF Drain, Ended
<1>10. CASE Abort
    BY <1>10 DEF Abort
<1>11. CASE TakeInput
    BY <1>11 DEF TakeInput
<1>12. CASE Finish
    BY <1>12 DEF Finish
<1>13. CASE WriteInput \/ InputTaken \/ GiveUpInput \/ CloseInput \/ CancelProcess
  <2>1. CASE WriteInput \/ InputTaken
      BY <2>1 DEF WriteInput, InputTaken
  <2>2. CASE GiveUpInput
      BY <2>2 DEF GiveUpInput
  <2>3. CASE CloseInput
      BY <2>3 DEF CloseInput
  <2>4. CASE CancelProcess
      BY <2>4 DEF CancelProcess
  <2>5. QED
      BY <1>13, <2>1, <2>2, <2>3, <2>4
<1>14. ASSUME NEW w \in Waiters, Arm(w) \/ Look(w) PROVE ProcInv'
    BY <1>14 DEF Arm, Look
<1>15. CASE UNCHANGED procVars
    BY <1>15 DEF procVars
<1>16. QED
    BY <1>1, <1>2, <1>3, <1>4, <1>5, <1>6, <1>7, <1>8, <1>9, <1>10, <1>11, <1>12, <1>13,
       <1>14, <1>15
    DEF ProcNext, Supervisor, ReaderStep

\* Everywhere in a behaviour of the process.
LEMMA ProcInvAlways == ProcSpec => []ProcInv
    BY ProcInvInit, ProcInvStep, PTL DEF ProcSpec

\* Output is recorded only while the process runs, and the end once.
LEMMA LogStep ==
  ProcInv /\ [ProcNext]_procVars
    => [Contract!Emit \/ Contract!Close]_<<plog, pstatus>>
<1> SUFFICES ASSUME ProcInv, [ProcNext]_procVars
             PROVE Contract!Emit \/ Contract!Close \/ UNCHANGED <<plog, pstatus>>
    OBVIOUS
<1> USE DEF state
<1>1. ASSUME NEW s \in Streams, ReadChunk(s)
      PROVE Contract!Emit \/ UNCHANGED <<plog, pstatus>>
    BY <1>1 DEF ReadChunk, Contract!Emit
<1>2. CASE Finish
    BY <1>2 DEF Finish, Contract!Close, ProcInv, StatusFollows
<1>3. CASE Select \/ Drain \/ Abort \/ TakeInput
    BY <1>3 DEF Select, Drain, Abort, TakeInput
<1>4. CASE ChildEnds \/ WriteInput \/ InputTaken \/ GiveUpInput \/ CloseInput \/ CancelProcess
    BY <1>4 DEF ChildEnds, WriteInput, InputTaken, GiveUpInput, CloseInput, CancelProcess
<1>5. ASSUME NEW s \in Streams,
             ChildWrites(s) \/ PipeCloses(s) \/ ReadEnd(s) \/ Stopped(s) \/ ReadFails(s)
      PROVE UNCHANGED <<plog, pstatus>>
    BY <1>5 DEF ChildWrites, PipeCloses, ReadEnd, Stopped, ReadFails
<1>6. ASSUME NEW w \in Waiters, Arm(w) \/ Look(w) PROVE UNCHANGED <<plog, pstatus>>
    BY <1>6 DEF Arm, Look
<1>7. CASE UNCHANGED procVars
    BY <1>7 DEF procVars
<1>8. QED
    BY <1>1, <1>2, <1>3, <1>4, <1>5, <1>6, <1>7 DEF ProcNext, Supervisor, ReaderStep

\* The supervisor reports an exit only when no reader is behind.
LEMMA SupervisorStep ==
  ASSUME ProcInv, [ProcNext]_procVars, pstatus = "running", pstatus' = "exited",
         \A s \in Streams : reader[s] \in {"reading", "ok"}
  PROVE  \A s \in Streams : unread[s] = 0 /\ s \notin open
<1>1. sup' = "end" /\ sup # "end"
    BY ProcInvStep DEF ProcInv, StatusFollows
<1>2. Finish
    BY <1>1 DEF ProcNext, procVars, Supervisor, ReaderStep, ChildEnds, Select, Drain, Abort,
       TakeInput, WriteInput, InputTaken, GiveUpInput, CloseInput, CancelProcess, ChildWrites,
       PipeCloses, ReadChunk, ReadEnd, Stopped, ReadFails, Arm, Look
<1>3. \A s \in Streams : reader[s] = "ok"
    BY <1>2 DEF Finish, ProcInv, NobodyReads
<1>4. QED
    BY <1>3 DEF ProcInv, EndedIsDry

\* What readers of a process's buffer are promised: output while it runs, then one
\* terminal event for good, and an exit only behind the output of every reader that
\* was neither cut off nor failed (read_output and the supervising task).
THEOREM LogPromised == ProcSpec => LogPromise
<1>1. ProcInit => Contract!Init
    BY DEF ProcInit, Contract!Init
<1>2. ProcSpec => Contract!Spec
    BY <1>1, LogStep, ProcInvAlways, PTL DEF ProcSpec, Contract!Spec
<1> DEFINE Exit == (/\ pstatus = "running" /\ pstatus' = "exited"
                    /\ \A s \in Streams : reader[s] \in {"reading", "ok"})
                   => \A s \in Streams : unread[s] = 0 /\ s \notin open
<1>3. ProcInv /\ [ProcNext]_procVars => [Exit]_procVars
  <2>1. ProcInv /\ [ProcNext]_procVars => Exit
      BY SupervisorStep
  <2>2. QED
      BY <2>1
<1>4. ProcSpec => ExitHasOutput
    BY <1>3, ProcInvAlways, PTL DEF ProcSpec, ExitHasOutput
<1>5. QED
    BY <1>2, <1>4 DEF LogPromise, ImplementsLog

--------------------------------------------------------------------------------

(* Part 3: the event log *)

Closed(s) == tap[s] \in {"notify", "end"}

\* open_output_streams counts the readers that have not closed their stream, and
\* the exit task goes past its wait only when there are none.
StreamsCounted ==
  /\ streams = Cardinality({s \in Pipes : ~Closed(s)})
  /\ exitTask \in {"check", "set", "end"} => streams = 0
  /\ \A s \in Pipes : piped[s] <= written[s]
  /\ exitTask # "wait" => code # "none"

\* An error that is journalled was pushed by a reader that is about to set the
\* status or has set it, or by the exit task, which pushes once.
ErrorHasCause ==
  kept /\ (\E i \in DOMAIN elog : elog[i] = "error") =>
    \/ estatus # "running" \/ exitTask \in {"set", "end"}
    \/ \E s \in Pipes : tap[s] = "fail"

\* The exit event is pushed once, by the exit task.
ExitHasCause == (\E i \in DOMAIN elog : elog[i] = "exit") => exitTask \in {"set", "end"}

\* What the poller has written are the chunks up to its cursor; it goes on only
\* while there was no terminal event, and reports the exit only once it is logged.
PollerCounts ==
  /\ poll.at \in {"events", "status"} =>
       /\ result = "none" /\ poll.cursor <= Len(elog)
       /\ \A s \in Pipes : shown[s] = Chunks(s, 1..poll.cursor)
  /\ poll.at = "status" => poll.cursor <= poll.upto /\ poll.upto <= Len(elog)
  /\ result # "none" => poll.at = "end"
  /\ result = "exit" => \E i \in DOMAIN elog : elog[i] = "exit"
  /\ result = "by status" =>
       poll.upto <= Len(elog) /\ \A s \in Pipes : shown[s] = Chunks(s, 1..poll.upto)

EventsInv ==
  /\ EventsTypeOK /\ StreamsCounted /\ ErrorHasCause /\ ExitHasCause /\ PollerCounts
  /\ ExitIsClean /\ ExitComplete

Logged == Pipes \cup {"exit", "error", "cancelled"}

FollowType == [at : {"none", "arm", "armed", "looked", "parked", "again", "back"},
               some : BOOLEAN]
PollType == [at : {"none", "events", "status", "end"}, cursor : Nat, upto : Nat]

\* The type invariant by its parts: the log, the child, the tasks, the poller.
LogTypes == elog \in Seq(Logged) /\ follow \in FollowType
WorldTypes ==
  /\ estatus \in {"running", "exited", "failed", "cancelled"}
  /\ kept \in BOOLEAN /\ code \in {"none", "exit", "error"} /\ held \subseteq Pipes
  /\ piped \in [Pipes -> 0..MaxWrites] /\ written \in [Pipes -> 0..MaxWrites]
WorkTypes ==
  /\ tap \in [Pipes -> {"read", "fail", "close", "notify", "end"}]
  /\ exitTask \in {"wait", "drain", "armed", "parked", "check", "set", "end"}
  /\ kill \in {"none", "push", "set", "done"} /\ streams \in 0..2 /\ group \in BOOLEAN
PollTypes ==
  /\ poll \in PollType /\ shown \in [Pipes -> Nat]
  /\ result \in {"none", "exit", "error", "cancelled", "by status"}

LEMMA SameTypes ==
  /\ EventsTypeOK <=> LogTypes /\ WorldTypes /\ WorkTypes /\ PollTypes
  /\ EventsTypeOK' <=> LogTypes' /\ WorldTypes' /\ WorkTypes' /\ PollTypes'
BY DEF EventsTypeOK, LogTypes, WorldTypes, WorkTypes, PollTypes, FollowType, PollType, Logged

\* There are finitely many pipes, and finitely many places in the log.
LEMMA PipesFinite == IsFiniteSet(Pipes) /\ Cardinality(Pipes) = 2
<1>1. PICK o, e \in Pipes : o # e /\ Pipes = {o, e}
    BY EventsAssumption DEF EventsAssumption
<1>2. Pipes = {o} \cup {e} /\ e \notin {o}
    BY <1>1
<1>3. IsFiniteSet({o}) /\ Cardinality({o}) = 1
    BY FS_Singleton
<1>4. IsFiniteSet({o} \cup {e}) /\ Cardinality({o} \cup {e}) = Cardinality({o}) + 1
    BY <1>2, <1>3, FS_AddElement
<1>5. QED
    BY <1>2, <1>3, <1>4

LEMMA ChunksMore ==
  ASSUME NEW s, NEW n \in Nat, NEW R, IsFiniteSet(R), 1..n \cap R = {}
  PROVE  /\ Chunks(s, 1..n) \in Nat /\ Chunks(s, R) \in Nat
         /\ Chunks(s, 1..n) + Chunks(s, R) = Chunks(s, 1..n \cup R)
<1> DEFINE A == {i \in 1..n : elog[i] = s}
           B == {i \in R : elog[i] = s}
<1>1. IsFiniteSet(1..n)
    BY FS_Interval
<1>2. A \in SUBSET (1..n) /\ B \in SUBSET R
    OBVIOUS
<1>3. IsFiniteSet(A) /\ IsFiniteSet(B)
    BY <1>1, <1>2, FS_Subset
<1>4. A \cap B = {}
    BY <1>2
<1>5. {i \in 1..n \cup R : elog[i] = s} = A \cup B
    OBVIOUS
<1>6. Cardinality(A \cap B) = 0
    BY <1>4, FS_EmptySet
<1>7. Cardinality(A) \in Nat /\ Cardinality(B) \in Nat
    BY <1>3, FS_CardinalityType
<1> HIDE DEF A, B
<1>8. Cardinality(A \cup B) = Cardinality(A) + Cardinality(B)
  <2>1. Cardinality(A \cup B) = Cardinality(A) + Cardinality(B) - Cardinality(A \cap B)
      BY <1>3, FS_Union
  <2>2. QED
      BY <1>6, <1>7, <2>1
<1>9. QED
    BY <1>5, <1>7, <1>8 DEF A, B, Chunks

\* Push and SetStatus only make the log longer.
LEMMA PushShape ==
  ASSUME EventsTypeOK, NEW e \in Logged,
         elog' = (IF kept THEN Append(elog, e) ELSE elog \o <<e, "error">>)
         \/ elog' = (IF kept THEN elog ELSE Append(elog, "error"))
  PROVE  /\ elog' \in Seq(Logged) /\ Len(elog') \in Nat /\ Len(elog) \in Nat
         /\ Len(elog) <= Len(elog')
         /\ \A i \in 1..Len(elog) : elog'[i] = elog[i]
         /\ \A i \in 1..Len(elog') : i > Len(elog) =>
              elog'[i] = e \/ (~kept /\ elog'[i] = "error")
<1> elog \in Seq(Logged) /\ "error" \in Logged /\ kept \in BOOLEAN
    BY DEF EventsTypeOK, Logged
<1>1. CASE elog' = Append(elog, e) /\ kept
    BY <1>1
<1>2. CASE elog' = elog \o <<e, "error">> /\ ~kept
    BY <1>2
<1>3. CASE elog' = elog
    BY <1>3
<1>4. CASE elog' = Append(elog, "error") /\ ~kept
    BY <1>4
<1>5. QED
    BY <1>1, <1>2, <1>3, <1>4

Longer(e) ==
  /\ elog' \in Seq(Logged) /\ Len(elog') \in Nat /\ Len(elog) \in Nat
  /\ Len(elog) <= Len(elog')
  /\ \A i \in 1..Len(elog) : elog'[i] = elog[i]
  /\ \A i \in 1..Len(elog') : i > Len(elog) => elog'[i] = e \/ (~kept /\ elog'[i] = "error")

\* A longer log keeps what the poller relies on: nothing but the output of a
\* reader could come behind an exit, and nothing but an error before it.
LEMMA GrowthKeeps ==
  ASSUME EventsInv, NEW e \in Logged, Longer(e), UNCHANGED <<kept, poll, shown, result>>,
         e \in Pipes => \A i \in DOMAIN elog : elog[i] # "exit",
         e = "exit" /\ kept => \A i \in DOMAIN elog : elog[i] # "error"
  PROVE  PollerCounts' /\ ExitIsClean' /\ ExitComplete'
<1>0. /\ DOMAIN elog = 1..Len(elog) /\ DOMAIN elog' = 1..Len(elog')
      /\ poll.cursor \in Nat /\ poll.upto \in Nat
      /\ Pipes \cap {"exit", "error", "cancelled"} = {}
  <2>1. elog \in Seq(Logged) /\ elog' \in Seq(Logged)
      BY DEF Longer, EventsInv, EventsTypeOK, Logged
  <2>2. poll \in [at : {"none", "events", "status", "end"}, cursor : Nat, upto : Nat]
      BY DEF EventsInv, EventsTypeOK
  <2>3. QED
      BY <2>1, <2>2, EventsAssumption DEF EventsAssumption
<1>1. ExitIsClean'
  <2>1. SUFFICES ASSUME NEW i \in DOMAIN elog', elog'[i] = "exit"
                 PROVE  /\ \A j \in DOMAIN elog' : j > i => elog'[j] \notin Pipes
                        /\ \A j \in 1..i : elog'[j] = "error" => ~kept
      BY DEF ExitIsClean
  <2>2. CASE i <= Len(elog)
    <3>1. i \in DOMAIN elog /\ elog[i] = "exit"
        BY <1>0, <2>1, <2>2 DEF Longer
    <3>2. e \notin Pipes
        BY <3>1
    <3>3. ASSUME NEW j \in DOMAIN elog', j > i PROVE elog'[j] \notin Pipes
      <4>1. CASE j <= Len(elog)
          BY <1>0, <3>1, <3>3, <4>1 DEF Longer, EventsInv, ExitIsClean
      <4>2. CASE j > Len(elog)
          BY <1>0, <3>2, <3>3, <4>2 DEF Longer
      <4>3. QED
          BY <1>0, <4>1, <4>2 DEF Longer
    <3>4. ASSUME NEW j \in 1..i, elog'[j] = "error" PROVE ~kept
      <4>1. j \in 1..Len(elog)
          BY <1>0, <2>2 DEF Longer
      <4>2. elog[j] = "error"
          BY <3>4, <4>1 DEF Longer
      <4>3. QED
          BY <3>1, <4>2 DEF EventsInv, ExitIsClean
    <3>5. QED
        BY <3>3, <3>4
  <2>3. CASE i > Len(elog)
    <3>1. e = "exit"
        BY <1>0, <2>1, <2>3 DEF Longer
    <3>2. ASSUME NEW j \in DOMAIN elog', j > i PROVE elog'[j] \notin Pipes
        BY <1>0, <2>3, <3>1, <3>2 DEF Longer
    <3>3. ASSUME NEW j \in 1..i, elog'[j] = "error" PROVE ~kept
      <4>1. CASE j <= Len(elog)
        <5>1. j \in 1..Len(elog)
            BY <1>0, <4>1 DEF Longer
        <5>2. QED
            BY <1>0, <3>1, <3>3, <5>1 DEF Longer
      <4>2. CASE j > Len(elog)
        <5>1. j \in 1..Len(elog')
            BY <1>0, <2>1 DEF Longer
        <5>2. QED
            BY <3>1, <3>3, <4>2, <5>1 DEF Longer
      <4>3. QED
          BY <1>0, <4>1, <4>2 DEF Longer
    <3>4. QED
        BY <3>2, <3>3
  <2>4. QED
      BY <1>0, <2>2, <2>3 DEF Longer
<1>2. ASSUME NEW s \in Pipes, NEW n \in Nat, n <= Len(elog)
      PROVE  Cardinality({i \in 1..n : elog'[i] = s}) = Cardinality({i \in 1..n : elog[i] = s})
  <2>1. {i \in 1..n : elog'[i] = s} = {i \in 1..n : elog[i] = s}
      BY <1>0, <1>2 DEF Longer
  <2>2. QED
      BY <2>1
<1>3. PollerCounts'
  <2>1. (\E i \in DOMAIN elog : elog[i] = "exit") => \E i \in DOMAIN elog' : elog'[i] = "exit"
      BY <1>0 DEF Longer
  <2>2. ASSUME poll.at \in {"events", "status"}
        PROVE  \A s \in Pipes : shown[s] = Cardinality({i \in 1..poll.cursor : elog'[i] = s})
    <3>1. poll.cursor <= Len(elog) /\ \A s \in Pipes : shown[s] = Chunks(s, 1..poll.cursor)
        BY <2>2 DEF EventsInv, PollerCounts
    <3>2. QED
        BY <1>0, <1>2, <3>1 DEF Chunks
  <2>s. ASSUME result = "by status"
        PROVE  /\ poll.upto <= Len(elog')
               /\ \A s \in Pipes : shown[s] = Cardinality({i \in 1..poll.upto : elog'[i] = s})
    <3>1. poll.upto <= Len(elog) /\ \A s \in Pipes : shown[s] = Chunks(s, 1..poll.upto)
        BY <2>s DEF EventsInv, PollerCounts
    <3>2. poll.upto <= Len(elog')
        BY <1>0, <3>1 DEF Longer
    <3>3. QED
        BY <1>0, <1>2, <3>1, <3>2 DEF Chunks
  <2>3. QED
    <3>a. PollerCounts /\ Len(elog) \in Nat /\ Len(elog') \in Nat /\ Len(elog) <= Len(elog')
        BY DEF EventsInv, Longer
    <3>1. poll.at \in {"events", "status"} => result = "none" /\ poll.cursor <= Len(elog')
      <4>1. poll.at \in {"events", "status"} => result = "none" /\ poll.cursor <= Len(elog)
          BY <3>a DEF PollerCounts
      <4>2. QED
          BY <1>0, <3>a, <4>1
    <3>2. poll.at = "status" => poll.cursor <= poll.upto /\ poll.upto <= Len(elog')
      <4>1. poll.at = "status" => poll.cursor <= poll.upto /\ poll.upto <= Len(elog)
          BY <3>a DEF PollerCounts
      <4>2. QED
          BY <1>0, <3>a, <4>1
    <3>3. (result # "none" => poll.at = "end") /\ (result = "exit" => \E i \in DOMAIN elog' : elog'[i] = "exit")
        BY <2>1 DEF EventsInv, PollerCounts
    <3>4. QED
        BY <2>2, <2>s, <3>1, <3>2, <3>3 DEF PollerCounts, Chunks
<1>4. ExitComplete'
  <2>1. SUFFICES ASSUME result = "exit", NEW s \in Pipes
                 PROVE  shown[s] = Cardinality({i \in DOMAIN elog' : elog'[i] = s})
      BY DEF ExitComplete, Chunks
  <2>2. e \notin Pipes
      BY <2>1 DEF EventsInv, PollerCounts
  <2>3. {i \in DOMAIN elog' : elog'[i] = s} = {i \in DOMAIN elog : elog[i] = s}
      BY <1>0, <2>2 DEF Longer
  <2>4. QED
      BY <2>1, <2>3 DEF EventsInv, ExitComplete, Chunks
<1>5. QED
    BY <1>1, <1>3, <1>4

\* The invariant holds when the process is started.
LEMMA EventsInit1 == EventsInit => EventsInv
<1> SUFFICES ASSUME EventsInit PROVE EventsInv
    OBVIOUS
<1> USE EventsAssumption DEF EventsInit, EventsAssumption
<1>1. EventsTypeOK
    BY DEF EventsTypeOK
<1>2. StreamsCounted
  <2>1. {s \in Pipes : ~Closed(s)} = Pipes
      BY DEF Closed
  <2>2. streams = Cardinality({s \in Pipes : ~Closed(s)})
      BY <2>1, PipesFinite
  <2>3. \A s \in Pipes : piped[s] = 0 /\ written[s] = 0
      OBVIOUS
  <2>4. exitTask = "wait"
      OBVIOUS
  <2>5. QED
      BY <2>2, <2>3, <2>4 DEF StreamsCounted
<1>3. DOMAIN elog = {} /\ 1..0 = {} /\ Len(elog) = 0
    OBVIOUS
<1>4. Cardinality({}) = 0
    BY FS_EmptySet
<1>5. \A s \in Pipes : {i \in {} : elog[i] = s} = {}
    OBVIOUS
<1>6. PollerCounts
    BY <1>3, <1>4, <1>5 DEF PollerCounts, Chunks
<1>7. QED
    BY <1>1, <1>2, <1>3, <1>6 DEF EventsInv, ErrorHasCause, ExitHasCause, ExitIsClean, ExitComplete

\* One reader fewer.
LEMMA OneCloses ==
  ASSUME EventsInv, NEW s \in Pipes, ~Closed(s), NEW c \in {"notify", "end"},
         tap' = [tap EXCEPT ![s] = c]
  PROVE  /\ streams > 0 /\ Cardinality({r \in Pipes : ~Closed(r)})' = streams - 1
<1> DEFINE O == {r \in Pipes : ~Closed(r)}
<1>1. tap \in [Pipes -> {"read", "fail", "close", "notify", "end"}]
    BY DEF EventsInv, EventsTypeOK
<1>2. {r \in Pipes : ~Closed(r)}' = O \ {s} /\ s \in O
    BY <1>1 DEF Closed
<1>3. IsFiniteSet(O)
    BY PipesFinite, FS_Subset
<1>4. streams = Cardinality(O)
    BY DEF EventsInv, StreamsCounted
<1> HIDE DEF O
<1>5. Cardinality(O \ {s}) = Cardinality(O) - 1
    BY <1>2, <1>3, FS_RemoveElement
<1>6. Cardinality(O) # 0 /\ Cardinality(O) \in Nat
    BY <1>2, <1>3, FS_EmptySet, FS_CardinalityType
<1>7. QED
    BY <1>2, <1>4, <1>5, <1>6

Cause ==
  estatus # "running" \/ exitTask \in {"set", "end"} \/ \E s \in Pipes : tap[s] = "fail"

\* A longer log keeps its causes.
LEMMA CausesKept ==
  ASSUME EventsInv, NEW e \in Logged, Longer(e), kept' = kept,
         kept /\ elog' # elog /\ e = "error" => Cause', kept /\ Cause => Cause',
         e = "exit" => exitTask' \in {"set", "end"},
         exitTask \in {"set", "end"} => exitTask' \in {"set", "end"}
  PROVE  ErrorHasCause' /\ ExitHasCause'
<1>0. DOMAIN elog = 1..Len(elog) /\ DOMAIN elog' = 1..Len(elog') /\ ErrorHasCause /\ ExitHasCause
  <2>1. elog \in Seq(Logged) /\ elog' \in Seq(Logged)
      BY SameTypes DEF LogTypes, Longer, EventsInv
  <2>2. QED
      BY <2>1 DEF EventsInv
<1>1. \A i \in DOMAIN elog' : \/ i \in DOMAIN elog /\ elog'[i] = elog[i]
                              \/ elog' # elog /\ elog'[i] = e
                              \/ ~kept /\ elog'[i] = "error"
    BY <1>0 DEF Longer
<1>2. ErrorHasCause'
  <2>1. SUFFICES ASSUME kept, NEW i \in DOMAIN elog', elog'[i] = "error" PROVE Cause'
      BY DEF ErrorHasCause, Cause
  <2>2. CASE i \in DOMAIN elog /\ elog'[i] = elog[i]
      BY <1>0, <2>1, <2>2 DEF ErrorHasCause, Cause
  <2>3. QED
      BY <1>1, <2>1, <2>2
<1>3. ExitHasCause'
    BY <1>0, <1>1 DEF ExitHasCause
<1>4. QED
    BY <1>2, <1>3

\* Every step of the child, the tasks, a cancellation and the clients preserves it.
LEMMA EventsStep == EventsInv /\ [EventsNext]_eventVars => EventsInv'
<1> SUFFICES ASSUME EventsInv, [EventsNext]_eventVars PROVE EventsInv'
    OBVIOUS
<1> DEFINE Readers == PollerCounts' /\ ExitIsClean' /\ ExitComplete'
<1> DEFINE Causes == ErrorHasCause' /\ ExitHasCause'
<1>0. /\ LogTypes /\ WorldTypes /\ WorkTypes /\ PollTypes
      /\ StreamsCounted /\ ErrorHasCause /\ ExitHasCause
      /\ DOMAIN elog = 1..Len(elog) /\ Len(elog) \in Nat
      /\ Pipes \cap {"exit", "error", "cancelled"} = {} /\ MaxWrites \in Nat
      /\ Pipes \subseteq Logged /\ {"exit", "error", "cancelled"} \subseteq Logged
  <2>1. EventsTypeOK /\ StreamsCounted /\ ErrorHasCause /\ ExitHasCause
      BY DEF EventsInv
  <2>2. LogTypes /\ WorldTypes /\ WorkTypes /\ PollTypes
      BY <2>1, SameTypes
  <2>3. elog \in Seq(Logged)
      BY <2>2 DEF LogTypes
  <2>4. QED
      BY <2>1, <2>2, <2>3, EventsAssumption DEF EventsAssumption, Logged
<1>follow. ASSUME follow' \in {follow, Notified} PROVE follow' \in FollowType
    BY <1>0, <1>follow DEF LogTypes, Notified, FollowType
<1>types. ASSUME LogTypes', WorldTypes', WorkTypes', PollTypes' PROVE EventsTypeOK'
    BY <1>types, SameTypes
<1>same. ASSUME elog' = elog PROVE Longer("cancelled")
    BY <1>0, <1>same DEF LogTypes, Longer
<1>push. ASSUME NEW e \in Logged, Push(e) PROVE Longer(e) /\ LogTypes'
  <2>1. elog' = (IF kept THEN Append(elog, e) ELSE elog \o <<e, "error">>) /\ follow' = Notified
      BY <1>push DEF Push
  <2>2. Longer(e)
      BY <1>0, <2>1, PushShape DEF Longer, EventsInv
  <2>3. QED
      BY <2>1, <2>2, <1>follow DEF Longer, LogTypes
<1>set. ASSUME NEW e, SetStatus(e) PROVE Longer("error") /\ LogTypes' /\ (kept => elog' = elog)
  <2>1. elog' = (IF kept THEN elog ELSE Append(elog, "error")) /\ follow' = Notified
      BY <1>set DEF SetStatus
  <2>2. Longer("error") /\ (kept => elog' = elog)
      BY <1>0, <2>1, PushShape DEF Longer, EventsInv
  <2>3. QED
      BY <2>1, <2>2, <1>follow DEF Longer, LogTypes
<1>quiet. ASSUME UNCHANGED <<elog, kept, poll, shown, result>> PROVE Readers
    BY <1>0, <1>quiet, <1>same, GrowthKeeps
<1>1. CASE WorldStep
  <2>1. UNCHANGED <<elog, kept, poll, shown, result>>
      BY <1>1 DEF WorldStep, clients
  <2>2. UNCHANGED <<estatus, tap, streams, exitTask, group, kill, follow>>
      BY <1>1 DEF WorldStep, work, clients
  <2>3. /\ piped' \in [Pipes -> 0..MaxWrites] /\ written' \in [Pipes -> 0..MaxWrites]
        /\ \A s \in Pipes : piped'[s] <= written'[s]
        /\ held' \subseteq Pipes /\ code' \in {"none", "exit", "error"}
        /\ code # "none" => code' = code
    <3>1. /\ piped \in [Pipes -> 0..MaxWrites] /\ written \in [Pipes -> 0..MaxWrites]
          /\ held \subseteq Pipes /\ code \in {"none", "exit", "error"}
          /\ \A s \in Pipes : piped[s] <= written[s]
        BY <1>0 DEF WorldTypes, StreamsCounted
    <3>2. ASSUME NEW s \in held \cap Talkers, written[s] < MaxWrites,
                 written' = [written EXCEPT ![s] = @ + 1], piped' = [piped EXCEPT ![s] = @ + 1]
          PROVE  /\ piped' \in [Pipes -> 0..MaxWrites] /\ written' \in [Pipes -> 0..MaxWrites]
                 /\ \A r \in Pipes : piped'[r] <= written'[r]
      <4>1. s \in Pipes /\ piped[s] \in Nat /\ written[s] \in Nat /\ piped[s] <= written[s]
            /\ piped[s] + 1 \in 0..MaxWrites /\ written[s] + 1 \in 0..MaxWrites
          BY <1>0, <3>1, <3>2
      <4>2. QED
          BY <3>1, <3>2, <4>1
    <3>3. QED
        BY <1>1, <3>1, <3>2 DEF WorldStep
  <2>4. WorldTypes'
      BY <1>0, <2>1, <2>2, <2>3 DEF WorldTypes
  <2>5. LogTypes' /\ WorkTypes' /\ PollTypes'
      BY <1>0, <2>1, <2>2 DEF LogTypes, WorkTypes, PollTypes
  <2>6. StreamsCounted'
      BY <1>0, <2>2, <2>3 DEF StreamsCounted, Closed
  <2>7. Causes
      BY <1>0, <2>1, <2>2 DEF ErrorHasCause, ExitHasCause
  <2>8. QED
      BY <1>types, <1>quiet, <2>1, <2>4, <2>5, <2>6, <2>7 DEF EventsInv
<1>2. ASSUME NEW s \in Pipes, TapChunk(s) PROVE EventsInv'
  <2>1. Longer(s) /\ LogTypes' /\ UNCHANGED <<kept, poll, shown, result>>
      BY <1>0, <1>2, <1>push DEF TapChunk, Push
  <2>2. UNCHANGED <<estatus, written, held, code, tap, streams, exitTask, group, kill>>
        /\ piped' = [piped EXCEPT ![s] = @ - 1] /\ tap[s] = "read" /\ piped[s] > 0
      BY <1>2 DEF TapChunk, work
  <2>3. \A i \in DOMAIN elog : elog[i] # "exit"
    <3>1. s \in {r \in Pipes : ~Closed(r)}
        BY <2>2 DEF Closed
    <3>2. streams # 0
        BY <1>0, <3>1, PipesFinite, FS_Subset, FS_EmptySet DEF StreamsCounted
    <3>3. QED
        BY <1>0, <3>2 DEF StreamsCounted, ExitHasCause
  <2>4. Readers
      BY <1>0, <2>1, <2>3, GrowthKeeps
  <2>5. piped' \in [Pipes -> 0..MaxWrites] /\ \A r \in Pipes : piped'[r] <= written'[r]
    <3>1. /\ piped \in [Pipes -> 0..MaxWrites] /\ written \in [Pipes -> 0..MaxWrites]
          /\ \A r \in Pipes : piped[r] <= written[r]
        BY <1>0 DEF WorldTypes, StreamsCounted
    <3>2. piped[s] - 1 \in 0..MaxWrites /\ piped[s] - 1 <= written[s]
        BY <1>0, <2>2, <3>1
    <3>3. QED
        BY <2>2, <3>1, <3>2
  <2>6. WorldTypes'
      BY <1>0, <2>1, <2>2, <2>5 DEF WorldTypes
  <2>7. WorkTypes' /\ PollTypes'
      BY <1>0, <2>1, <2>2 DEF WorkTypes, PollTypes
  <2>8. StreamsCounted'
      BY <1>0, <2>2, <2>5 DEF StreamsCounted, Closed
  <2>9. Cause => Cause'
      BY <2>2 DEF Cause
  <2>10. Causes
      BY <1>0, <2>1, <2>2, <2>9, CausesKept
  <2>11. QED
      BY <1>types, <2>1, <2>4, <2>6, <2>7, <2>8, <2>10 DEF EventsInv
<1>open. ASSUME NEW s \in Pipes, ~Closed(s), NEW c \in {"fail", "close"},
                tap' = [tap EXCEPT ![s] = c],
                UNCHANGED <<code, streams, exitTask, piped, written, group, kill>>
         PROVE  StreamsCounted' /\ WorkTypes'
  <2>1. tap \in [Pipes -> {"read", "fail", "close", "notify", "end"}]
      BY <1>0 DEF WorkTypes
  <2>2. tap' \in [Pipes -> {"read", "fail", "close", "notify", "end"}]
        /\ {r \in Pipes : ~Closed(r)}' = {r \in Pipes : ~Closed(r)}
      BY <1>open, <2>1 DEF Closed
  <2>3. QED
      BY <1>0, <1>open, <2>2 DEF StreamsCounted, WorkTypes
<1>3. ASSUME NEW s \in Pipes, TapError(s) PROVE EventsInv'
  <2>1. Longer("error") /\ LogTypes' /\ UNCHANGED <<kept, poll, shown, result>>
      BY <1>0, <1>3, <1>push DEF TapError, Push, world
  <2>2. UNCHANGED <<estatus, piped, written, held, code, streams, exitTask, group, kill>>
        /\ tap' = [tap EXCEPT ![s] = "fail"] /\ tap[s] = "read"
      BY <1>3 DEF TapError, world
  <2>3. Readers
      BY <1>0, <2>1, GrowthKeeps
  <2>4. WorldTypes' /\ PollTypes'
      BY <1>0, <2>1, <2>2 DEF WorldTypes, PollTypes
  <2>5. StreamsCounted' /\ WorkTypes'
      BY <1>open, <2>2 DEF Closed
  <2>6. tap'[s] = "fail"
      BY <1>0, <2>2 DEF WorkTypes
  <2>7. Cause'
      BY <2>6 DEF Cause
  <2>8. Causes
      BY <1>0, <2>1, <2>2, <2>7, CausesKept
  <2>9. QED
      BY <1>types, <2>1, <2>3, <2>4, <2>5, <2>8 DEF EventsInv
<1>4. ASSUME NEW s \in Pipes, TapFail(s) PROVE EventsInv'
  <2>1. Longer("error") /\ LogTypes' /\ UNCHANGED <<kept, poll, shown, result>>
      BY <1>0, <1>4, <1>set DEF TapFail, SetStatus, world
  <2>2. UNCHANGED <<piped, written, held, code, streams, exitTask, group, kill>>
        /\ tap' = [tap EXCEPT ![s] = "close"] /\ tap[s] = "fail" /\ estatus' = "failed"
      BY <1>4 DEF TapFail, SetStatus, world
  <2>3. Readers
      BY <1>0, <2>1, GrowthKeeps
  <2>4. WorldTypes' /\ PollTypes'
      BY <1>0, <2>1, <2>2 DEF WorldTypes, PollTypes
  <2>5. StreamsCounted' /\ WorkTypes'
      BY <1>open, <2>2 DEF Closed
  <2>6. Cause'
      BY <2>2 DEF Cause
  <2>7. Causes
      BY <1>0, <2>1, <2>2, <2>6, CausesKept
  <2>8. QED
      BY <1>types, <2>1, <2>3, <2>4, <2>5, <2>7 DEF EventsInv
<1>5. ASSUME NEW s \in Pipes, TapClose(s) PROVE EventsInv'
  <2>1. UNCHANGED <<elog, kept, poll, shown, result>>
        /\ UNCHANGED <<estatus, piped, written, held, code, exitTask, group, kill, follow>>
      BY <1>5 DEF TapClose, world, clients
  <2>2. /\ tap[s] \in {"close", "read"}
        /\ streams' = IF streams > 0 THEN streams - 1 ELSE 0
      BY <1>5 DEF TapClose
  <2>3. PICK c \in {"notify", "end"} : tap' = [tap EXCEPT ![s] = c]
      BY <1>5 DEF TapClose
  <2>4. streams > 0 /\ Cardinality({r \in Pipes : ~Closed(r)})' = streams - 1
      BY <2>2, <2>3, OneCloses DEF Closed
  <2>5. StreamsCounted'
    <3>1. streams' = Cardinality({r \in Pipes : ~Closed(r)})'
        BY <2>2, <2>4
    <3>2. exitTask \notin {"check", "set", "end"}
        BY <1>0, <2>4 DEF StreamsCounted
    <3>3. QED
        BY <1>0, <2>1, <3>1, <3>2 DEF StreamsCounted
  <2>6. WorkTypes'
      BY <1>0, <2>1, <2>2, <2>3, <2>4 DEF WorkTypes
  <2>7. LogTypes' /\ WorldTypes' /\ PollTypes'
      BY <1>0, <2>1 DEF LogTypes, WorldTypes, PollTypes
  <2>8. Cause => Cause'
    <3>1. ASSUME NEW r \in Pipes, tap[r] = "fail" PROVE tap'[r] = "fail"
        BY <1>0, <2>2, <2>3, <3>1 DEF WorkTypes
    <3>2. QED
        BY <2>1, <3>1 DEF Cause
  <2>9. Causes
      BY <1>0, <1>same, <2>1, <2>8, CausesKept
  <2>10. QED
      BY <1>types, <1>quiet, <2>1, <2>5, <2>6, <2>7, <2>9 DEF EventsInv
<1>6. ASSUME NEW s \in Pipes, TapNotify(s) PROVE EventsInv'
  <2>1. UNCHANGED <<elog, kept, poll, shown, result>>
        /\ UNCHANGED <<estatus, piped, written, held, code, streams, group, kill, follow>>
      BY <1>6 DEF TapNotify, world, clients
  <2>2. /\ tap[s] = "notify" /\ tap' = [tap EXCEPT ![s] = "end"]
        /\ exitTask' = IF exitTask \in {"armed", "parked"} THEN "drain" ELSE exitTask
      BY <1>6 DEF TapNotify
  <2>3. {r \in Pipes : ~Closed(r)}' = {r \in Pipes : ~Closed(r)}
      BY <1>0, <2>2 DEF Closed, WorkTypes
  <2>4. StreamsCounted' /\ WorkTypes'
      BY <1>0, <2>1, <2>2, <2>3 DEF StreamsCounted, WorkTypes
  <2>5. LogTypes' /\ WorldTypes' /\ PollTypes'
      BY <1>0, <2>1 DEF LogTypes, WorldTypes, PollTypes
  <2>6. Cause => Cause'
    <3>1. ASSUME NEW r \in Pipes, tap[r] = "fail" PROVE tap'[r] = "fail"
        BY <1>0, <2>2, <3>1 DEF WorkTypes
    <3>2. QED
        BY <2>1, <2>2, <3>1 DEF Cause
  <2>7. Causes
      BY <1>0, <1>same, <2>1, <2>2, <2>6, CausesKept
  <2>8. QED
      BY <1>types, <1>quiet, <2>1, <2>4, <2>5, <2>7 DEF EventsInv
<1>exits. ASSUME NEW from, NEW to \in {"drain", "armed", "parked", "check", "set", "end"},
                 Exits(from, to), from = "wait" => code # "none",
                 to \in {"check", "set", "end"} => streams = 0
          PROVE  /\ StreamsCounted' /\ WorkTypes' /\ exitTask = from /\ exitTask' = to
                 /\ UNCHANGED <<kept, piped, written, held, code, tap>>
  <2>1. /\ exitTask = from /\ exitTask' = to
        /\ UNCHANGED <<kept, piped, written, held, code, tap, streams, group, kill>>
      BY <1>exits DEF Exits, world
  <2>2. StreamsCounted'
      BY <1>0, <1>exits, <2>1 DEF StreamsCounted, Closed
  <2>3. WorkTypes'
      BY <1>0, <2>1 DEF WorkTypes
  <2>4. QED
      BY <2>1, <2>2, <2>3
<1>silent. ASSUME NEW from, NEW to \in {"drain", "armed", "parked", "check", "end"},
                  Exits(from, to), UNCHANGED <<elog, estatus, clients>>,
                  from \in {"wait", "drain", "armed", "check"},
                  from = "wait" => code # "none",
                  to \in {"check", "end"} => streams = 0
           PROVE  EventsInv'
  <2>1. UNCHANGED <<elog, estatus, follow, poll, shown, result>>
      BY <1>silent DEF clients
  <2>2. /\ StreamsCounted' /\ WorkTypes' /\ exitTask = from /\ exitTask' = to
        /\ UNCHANGED <<kept, piped, written, held, code, tap>>
      BY <1>exits, <1>silent
  <2>3. LogTypes' /\ WorldTypes' /\ PollTypes'
      BY <1>0, <2>1, <2>2 DEF LogTypes, WorldTypes, PollTypes
  <2>4. Cause => Cause'
      BY <1>silent, <2>1, <2>2 DEF Cause
  <2>5. Causes
      BY <1>0, <1>same, <1>silent, <2>1, <2>2, <2>4, CausesKept
  <2>6. QED
      BY <1>types, <1>quiet, <2>1, <2>2, <2>3, <2>5 DEF EventsInv
<1>7. CASE ExitSeen
    BY <1>7, <1>silent DEF ExitSeen
<1>8. CASE DrainArm
    BY <1>8, <1>silent DEF DrainArm
<1>9. CASE DrainLook
  <2>1. CASE streams = 0
      BY <1>9, <1>silent, <2>1 DEF DrainLook
  <2>2. CASE streams # 0
      BY <1>9, <1>silent, <2>2 DEF DrainLook
  <2>3. QED
      BY <2>1, <2>2
<1>10. CASE ExitPush
  <2>1. CASE estatus # "running"
    <3>1. Exits("check", "end") /\ UNCHANGED <<elog, estatus, clients>>
        BY <1>10, <2>1 DEF ExitPush
    <3>2. streams = 0
        BY <1>0, <3>1 DEF Exits, StreamsCounted
    <3>3. QED
        BY <1>silent, <3>1, <3>2
  <2>2. CASE estatus = "running"
    <3>1. Exits("check", "set") /\ Push(code) /\ estatus' = estatus
        BY <1>10, <2>2 DEF ExitPush
    <3>2. exitTask = "check" /\ streams = 0 /\ code # "none"
        BY <1>0, <3>1 DEF Exits, StreamsCounted
    <3>3. code \in Logged /\ code \notin Pipes /\ code \in {"exit", "error"}
        BY <1>0, <3>2 DEF WorldTypes
    <3>4. Longer(code) /\ LogTypes' /\ UNCHANGED <<poll, shown, result>>
        BY <1>push, <3>1, <3>3 DEF Push
    <3>5. /\ StreamsCounted' /\ WorkTypes' /\ exitTask' = "set"
          /\ UNCHANGED <<kept, piped, written, held, code, tap>>
        BY <1>exits, <3>1, <3>2
    <3>6. ASSUME NEW r \in Pipes, tap[r] = "fail" PROVE FALSE
      <4>1. r \in {q \in Pipes : ~Closed(q)}
          BY <3>6 DEF Closed
      <4>2. QED
          BY <1>0, <3>2, <4>1, PipesFinite, FS_Subset, FS_EmptySet DEF StreamsCounted
    <3>7. kept => \A i \in DOMAIN elog : elog[i] # "error"
        BY <1>0, <2>2, <3>2, <3>6 DEF ErrorHasCause
    <3>8. Readers
        BY <3>3, <3>4, <3>5, <3>7, GrowthKeeps
    <3>9. Cause'
        BY <3>5 DEF Cause
    <3>10. Causes
        BY <3>3, <3>4, <3>5, <3>9, CausesKept
    <3>11. WorldTypes' /\ PollTypes'
        BY <1>0, <3>1, <3>4, <3>5 DEF WorldTypes, PollTypes
    <3>12. QED
        BY <1>types, <3>4, <3>5, <3>8, <3>10, <3>11 DEF EventsInv
  <2>3. QED
      BY <2>1, <2>2
<1>11. CASE ExitSet
  <2>1. PICK e \in {"exited", "failed"} : SetStatus(e)
      BY <1>11 DEF ExitSet
  <2>2. Longer("error") /\ LogTypes' /\ UNCHANGED <<poll, shown, result>> /\ estatus' = e
      BY <1>set, <2>1 DEF SetStatus
  <2>3. Exits("set", "end") /\ streams = 0
      BY <1>0, <1>11 DEF ExitSet, Exits, StreamsCounted
  <2>4. /\ StreamsCounted' /\ WorkTypes' /\ exitTask' = "end"
        /\ UNCHANGED <<kept, piped, written, held, code, tap>>
      BY <1>exits, <2>3
  <2>5. Readers
      BY <1>0, <2>2, <2>4, GrowthKeeps
  <2>6. Cause'
      BY <2>4 DEF Cause
  <2>7. Causes
      BY <1>0, <2>2, <2>4, <2>6, CausesKept
  <2>8. WorldTypes' /\ PollTypes'
      BY <1>0, <2>2, <2>4 DEF WorldTypes, PollTypes
  <2>9. QED
      BY <1>types, <2>2, <2>4, <2>5, <2>7, <2>8 DEF EventsInv
<1>12. CASE Cancel1
  <2>1. UNCHANGED <<elog, kept, poll, shown, result>>
        /\ UNCHANGED <<estatus, piped, written, held, code, tap, streams, exitTask, follow>>
        /\ group' = FALSE /\ kill' = "push"
      BY <1>12 DEF Cancel1, world, clients
  <2>2. LogTypes' /\ WorldTypes' /\ WorkTypes' /\ PollTypes'
      BY <1>0, <2>1 DEF LogTypes, WorldTypes, WorkTypes, PollTypes
  <2>3. StreamsCounted'
      BY <1>0, <2>1 DEF StreamsCounted, Closed
  <2>4. Causes
      BY <1>0, <2>1 DEF ErrorHasCause, ExitHasCause
  <2>5. QED
      BY <1>types, <1>quiet, <2>1, <2>2, <2>3, <2>4 DEF EventsInv
<1>kills. ASSUME UNCHANGED <<kept, piped, written, held, code>>,
                 UNCHANGED <<tap, streams, exitTask, group>>, kill' \in {"set", "done"}
          PROVE  StreamsCounted' /\ WorkTypes'
    BY <1>0, <1>kills DEF StreamsCounted, Closed, WorkTypes
<1>13. CASE Cancel2
  <2>1. Longer("cancelled") /\ LogTypes' /\ UNCHANGED <<poll, shown, result>>
      BY <1>0, <1>13, <1>push DEF Cancel2, Push
  <2>2. UNCHANGED <<kept, piped, written, held, code>> /\ estatus' = estatus
        /\ UNCHANGED <<tap, streams, exitTask, group>> /\ kill' = "set"
      BY <1>13 DEF Cancel2, world
  <2>3. Readers
      BY <1>0, <2>1, <2>2, GrowthKeeps
  <2>4. Cause => Cause'
      BY <2>2 DEF Cause
  <2>5. Causes
      BY <1>0, <2>1, <2>2, <2>4, CausesKept
  <2>6. WorldTypes' /\ PollTypes'
      BY <1>0, <2>1, <2>2 DEF WorldTypes, PollTypes
  <2>7. QED
      BY <1>types, <1>kills, <2>1, <2>2, <2>3, <2>5, <2>6 DEF EventsInv
<1>14. CASE Cancel3
  <2>1. Longer("error") /\ LogTypes' /\ UNCHANGED <<poll, shown, result>> /\ estatus' = "cancelled"
      BY <1>0, <1>14, <1>set DEF Cancel3, SetStatus
  <2>2. UNCHANGED <<kept, piped, written, held, code>>
        /\ UNCHANGED <<tap, streams, exitTask, group>> /\ kill' = "done"
      BY <1>14 DEF Cancel3, world
  <2>3. Readers
      BY <1>0, <2>1, <2>2, GrowthKeeps
  <2>4. Cause'
      BY <2>1 DEF Cause
  <2>5. Causes
      BY <1>0, <2>1, <2>2, <2>4, CausesKept
  <2>6. WorldTypes' /\ PollTypes'
      BY <1>0, <2>1, <2>2 DEF WorldTypes, PollTypes
  <2>7. QED
      BY <1>types, <1>kills, <2>1, <2>2, <2>3, <2>5, <2>6 DEF EventsInv
<1>reads. ASSUME UNCHANGED <<elog, estatus, world, work>>
          PROVE  StreamsCounted' /\ WorldTypes' /\ WorkTypes' /\ Causes /\ ExitIsClean'
  <2>1. UNCHANGED <<elog, estatus, kept, piped, written, held, code, tap, streams, exitTask, group,
                    kill>>
      BY <1>reads DEF world, work
  <2>2. WorldTypes' /\ WorkTypes'
      BY <1>0, <2>1 DEF WorldTypes, WorkTypes
  <2>3. StreamsCounted' /\ Causes
      BY <1>0, <2>1 DEF StreamsCounted, Closed, ErrorHasCause, ExitHasCause
  <2>4. QED
      BY <2>1, <2>2, <2>3 DEF EventsInv, ExitIsClean
<1>15. CASE FollowStep
  <2>1. UNCHANGED <<elog, estatus, world, work>> /\ UNCHANGED <<elog, kept, poll, shown, result>>
      BY <1>15 DEF FollowStep, FollowArm, FollowEvents, FollowStatus, world
  <2>2. follow' \in FollowType
    <3>1. follow \in FollowType
        BY <1>0 DEF LogTypes
    <3>2. \/ follow' = [follow EXCEPT !.at = "armed"]
          \/ \E a \in {"looked", "back", "parked"}, b \in BOOLEAN : follow' = [at |-> a, some |-> b]
        BY <1>15 DEF FollowStep, FollowArm, FollowEvents, FollowStatus
    <3>3. QED
        BY <3>1, <3>2 DEF FollowType
  <2>3. LogTypes' /\ PollTypes'
      BY <1>0, <2>1, <2>2 DEF LogTypes, PollTypes
  <2>4. QED
      BY <1>types, <1>quiet, <1>reads, <2>1, <2>3 DEF EventsInv
<1>16. CASE PollEvents \/ PollFail
  <2>1. UNCHANGED <<elog, estatus, world, work>> /\ UNCHANGED <<elog, follow, shown>>
        /\ poll.at = "events"
      BY <1>16 DEF PollEvents, PollFail
  <2>2. poll \in PollType /\ result = "none" /\ poll.cursor <= Len(elog)
      BY <1>0, <2>1 DEF PollTypes, EventsInv, PollerCounts
  <2>3. \/ /\ poll' = [at |-> "status", cursor |-> poll.cursor, upto |-> Len(elog)] /\ result' = result
        \/ poll' = Polled /\ result' = "error"
      BY <1>16 DEF PollEvents, PollFail
  <2>4. poll' \in PollType /\ (poll'.at = "status" \/ poll'.at = "end")
    <3>1. poll.cursor \in Nat
        BY <2>2 DEF PollType
    <3>2. Len(elog) \in Nat
        BY <1>0
    <3>3. CASE poll' = [at |-> "status", cursor |-> poll.cursor, upto |-> Len(elog)]
        BY <3>1, <3>2, <3>3 DEF PollType
    <3>4. CASE poll' = Polled
        BY <2>2, <3>4 DEF PollType, Polled
    <3>5. QED
        BY <2>3, <3>1, <3>3, <3>4
  <2>5. LogTypes' /\ PollTypes'
      BY <1>0, <2>1, <2>3, <2>4 DEF LogTypes, PollTypes
  <2>6. PollerCounts'
    <3>1. CASE poll' = [at |-> "status", cursor |-> poll.cursor, upto |-> Len(elog)] /\ result' = result
      <4>1. poll'.at = "status" /\ poll'.cursor = poll.cursor /\ poll'.upto = Len(elog)
          BY <3>1
      <4>2. \A s \in Pipes : shown[s] = Chunks(s, 1..poll.cursor)
          BY <2>1 DEF EventsInv, PollerCounts
      <4>3. QED
          BY <1>0, <2>1, <2>2, <3>1, <4>1, <4>2 DEF PollerCounts, Chunks
    <3>2. CASE poll' = Polled /\ result' = "error"
        BY <3>2 DEF PollerCounts, Polled
    <3>3. QED
        BY <2>3, <3>1, <3>2
  <2>7. ExitComplete'
      BY <2>2, <2>3 DEF ExitComplete
  <2>8. QED
      BY <1>types, <1>reads, <2>1, <2>5, <2>6, <2>7 DEF EventsInv
<1>17. CASE PollStatus
  <2> DEFINE new == poll.cursor + 1 .. poll.upto
             ends == {i \in new : ~IsOutput(elog[i])}
             read == {i \in new : \A j \in ends : i <= j}
  <2>1. UNCHANGED <<elog, estatus, world, work>> /\ UNCHANGED <<elog, follow>> /\ poll.at = "status"
      BY <1>17 DEF PollStatus
  <2>2. /\ poll \in PollType /\ poll.cursor \in Nat /\ poll.upto \in Nat
        /\ shown \in [Pipes -> Nat] /\ elog \in Seq(Logged)
      BY <1>0 DEF PollTypes, PollType, LogTypes
  <2>3. /\ result = "none" /\ poll.cursor <= poll.upto /\ poll.upto <= Len(elog)
        /\ \A s \in Pipes : shown[s] = Chunks(s, 1..poll.cursor)
      BY <2>1 DEF EventsInv, PollerCounts
  <2>4. ASSUME NEW s \in Pipes
        PROVE  /\ shown'[s] \in Nat
               /\ shown'[s] = Chunks(s, 1..poll.cursor \cup read)
    <3>1. shown'[s] = shown[s] + Chunks(s, read)
        BY <1>17 DEF PollStatus
    <3>2. read \in SUBSET (poll.cursor + 1 .. poll.upto)
        OBVIOUS
    <3>3. /\ Chunks(s, 1..poll.cursor) \in Nat /\ Chunks(s, read) \in Nat
          /\ Chunks(s, 1..poll.cursor) + Chunks(s, read)
               = Chunks(s, 1..poll.cursor \cup read)
      <4> HIDE DEF read
      <4>1. PICK n, R : n \in Nat /\ n = poll.cursor /\ R = read
          BY <2>2
      <4>2. IsFiniteSet(R) /\ 1..n \cap R = {}
        <5>1. IsFiniteSet(poll.cursor + 1 .. poll.upto)
          <6>1. PICK c \in Int, u \in Int : c = poll.cursor + 1 /\ u = poll.upto
              BY <2>2
          <6>2. IsFiniteSet(c..u)
              BY FS_Interval
          <6>3. QED
              BY <6>1, <6>2
        <5>2. IsFiniteSet(R)
            BY <3>2, <4>1, <5>1, FS_Subset
        <5>3. 1..n \cap R = {}
            BY <2>2, <3>2, <4>1
        <5>4. QED
            BY <5>2, <5>3
      <4>3. /\ Chunks(s, 1..n) \in Nat /\ Chunks(s, R) \in Nat
            /\ Chunks(s, 1..n) + Chunks(s, R) = Chunks(s, 1..n \cup R)
          BY <4>1, <4>2, ChunksMore
      <4>4. QED
          BY <4>1, <4>3
    <3>4. shown[s] = Chunks(s, 1..poll.cursor)
        BY <2>3
    <3> HIDE DEF read
    <3>5. QED
        BY <3>1, <3>3, <3>4
  <2>5. shown' \in [Pipes -> Nat]
    <3>1. shown' = [s \in Pipes |-> shown[s] + Chunks(s, read)]
        BY <1>17 DEF PollStatus
    <3>2. QED
        BY <2>4, <3>1
  <2>6. CASE ends = {}
    <3>1. 1..poll.cursor \cup read = 1..poll.upto
        BY <2>2, <2>3, <2>6
    <3>2. result' = (IF estatus # "running" THEN "by status" ELSE "none")
        BY <1>17, <2>6 DEF PollStatus
    <3>3. poll' = IF estatus # "running" THEN Polled
                  ELSE [at |-> "events", cursor |-> poll.upto, upto |-> 0]
        BY <1>17, <2>6 DEF PollStatus
    <3>4. LogTypes' /\ PollTypes'
      <4>1. poll' \in PollType
          BY <2>2, <3>3 DEF PollType, Polled
      <4>2. QED
          BY <1>0, <2>1, <2>5, <3>2, <4>1 DEF LogTypes, PollTypes
    <3>5. PollerCounts'
      <4>1. \A s \in Pipes : shown'[s] = Chunks(s, 1..poll.upto)
          BY <2>4, <3>1
      <4>2. CASE estatus # "running"
        <5>1. poll'.at = "end" /\ poll'.upto = poll.upto /\ result' = "by status"
            BY <3>2, <3>3, <4>2 DEF Polled
        <5>2. QED
            BY <2>1, <2>3, <4>1, <5>1 DEF PollerCounts, Chunks
      <4>3. CASE estatus = "running"
        <5>1. poll'.at = "events" /\ poll'.cursor = poll.upto /\ result' = "none"
            BY <3>2, <3>3, <4>3
        <5>2. QED
            BY <2>1, <2>3, <4>1, <5>1 DEF PollerCounts, Chunks
      <4>4. QED
          BY <4>2, <4>3
    <3>6. ExitComplete'
        BY <3>2 DEF ExitComplete
    <3>7. QED
        BY <1>types, <1>reads, <2>1, <3>4, <3>5, <3>6 DEF EventsInv
  <2>7. CASE ends # {}
    <3>1. PICK i \in ends \cap read : result' = elog[i]
        BY <1>17, <2>7 DEF PollStatus
    <3>2. poll' = Polled
        BY <1>17, <2>7 DEF PollStatus
    <3>3. i \in DOMAIN elog /\ i \in new /\ \A j \in ends : i <= j
        BY <1>0, <2>2, <2>3
    <3>4. result' \in {"exit", "error", "cancelled"}
      <4>1. elog[i] \in Logged /\ elog[i] \notin Pipes
          BY <2>2, <3>1, <3>3 DEF IsOutput
      <4>2. QED
          BY <3>1, <4>1 DEF Logged
    <3>5. LogTypes' /\ PollTypes'
      <4>1. poll' \in PollType
          BY <2>2, <3>2 DEF PollType, Polled
      <4>2. QED
          BY <1>0, <2>1, <2>5, <3>4, <4>1 DEF LogTypes, PollTypes
    <3>6. PollerCounts'
        BY <2>1, <3>1, <3>2, <3>3, <3>4 DEF PollerCounts, Polled
    <3>7. ExitComplete'
      <4>1. SUFFICES ASSUME elog[i] = "exit", NEW s \in Pipes
                     PROVE  shown'[s] = Chunks(s, DOMAIN elog)
          BY <2>1, <3>1 DEF ExitComplete, Chunks
      <4>2. \A j \in DOMAIN elog : j > i => elog[j] \notin Pipes
          BY <3>3, <4>1 DEF EventsInv, ExitIsClean
      <4>3. ASSUME NEW k \in DOMAIN elog, elog[k] = s PROVE k \in 1..poll.cursor \cup read
        <5>1. k \in Nat /\ k > 0 /\ k <= i
            BY <1>0, <3>3, <4>2, <4>3
        <5>2. CASE k <= poll.cursor
            BY <2>2, <5>1, <5>2
        <5>3. CASE k > poll.cursor
          <6>1. k \in new
              BY <2>2, <3>3, <5>1, <5>3
          <6>2. \A j \in ends : k <= j
              BY <2>2, <3>3, <5>1
          <6>3. QED
              BY <6>1, <6>2
        <5>4. QED
            BY <2>2, <5>1, <5>2, <5>3
      <4>4. 1..poll.cursor \cup read \subseteq DOMAIN elog
          BY <1>0, <2>2, <2>3
      <4>5. {k \in DOMAIN elog : elog[k] = s} = {k \in 1..poll.cursor \cup read : elog[k] = s}
          BY <4>3, <4>4
      <4>6. QED
          BY <2>4, <4>5 DEF Chunks
    <3>8. QED
        BY <1>types, <1>reads, <2>1, <3>5, <3>6, <3>7 DEF EventsInv
  <2>8. QED
      BY <2>6, <2>7
<1>18. CASE UNCHANGED eventVars
  <2>1. UNCHANGED <<elog, estatus, world, work>> /\ UNCHANGED <<elog, kept, poll, shown, result>>
        /\ follow' = follow
      BY <1>18 DEF eventVars, world, work
  <2>2. LogTypes' /\ PollTypes'
      BY <1>0, <2>1 DEF LogTypes, PollTypes
  <2>3. QED
      BY <1>types, <1>quiet, <1>reads, <2>1, <2>2 DEF EventsInv
<1>19. QED
    BY <1>1, <1>2, <1>3, <1>4, <1>5, <1>6, <1>7, <1>8, <1>9, <1>10, <1>11, <1>12, <1>13, <1>14,
       <1>15, <1>16, <1>17, <1>18 DEF EventsNext, Tap, ExitStep

\* Whoever sets the status has logged a terminal event before.
Terminal == \E i \in DOMAIN elog : ~IsOutput(elog[i])
EndOwed ==
  estatus # "running" \/ exitTask = "set" \/ kill = "set" \/ \E s \in Pipes : tap[s] = "fail"
EndIsLogged == EndOwed => Terminal

\* A poller goes on only past output; one that ends by the status has the terminal
\* event ahead.
NoneMissed ==
  /\ poll.at \in {"events", "status"} => \A i \in 1..poll.cursor : IsOutput(elog[i])
  /\ result = "by status" => \E i \in DOMAIN elog : i > poll.upto /\ ~IsOutput(elog[i])

Grows ==
  /\ DOMAIN elog \subseteq DOMAIN elog'
  /\ \A i \in DOMAIN elog : elog'[i] = elog[i]

LEMMA LogGrows ==
  ASSUME EventsInv, [EventsNext]_eventVars
  PROVE  Grows
<1>0. EventsTypeOK /\ elog \in Seq(Logged) /\ DOMAIN elog = 1..Len(elog) /\ Len(elog) \in Nat
  <2>1. EventsTypeOK
      BY DEF EventsInv
  <2>2. elog \in Seq(Logged)
      BY <2>1, SameTypes DEF LogTypes
  <2>3. QED
      BY <2>1, <2>2
<1>1. ASSUME NEW e \in Logged, Push(e)
      PROVE  Grows
  <2>1. elog' \in Seq(Logged) /\ Len(elog) <= Len(elog') /\ Len(elog') \in Nat
        /\ \A i \in 1..Len(elog) : elog'[i] = elog[i]
      BY <1>0, <1>1, PushShape DEF Push
  <2>2. QED
      BY <1>0, <2>1 DEF Grows
<1>2. ASSUME NEW e, SetStatus(e)
      PROVE  Grows
  <2>1. "error" \in Logged
      BY DEF Logged
  <2>2. elog' \in Seq(Logged) /\ Len(elog) <= Len(elog') /\ Len(elog') \in Nat
        /\ \A i \in 1..Len(elog) : elog'[i] = elog[i]
      BY <1>0, <1>2, <2>1, PushShape DEF SetStatus
  <2>3. QED
      BY <1>0, <2>2 DEF Grows
<1>3. ASSUME UNCHANGED elog
      PROVE  Grows
    BY <1>3 DEF Grows
<1>4. Pipes \subseteq Logged /\ {"error", "cancelled"} \subseteq Logged
    BY DEF Logged
<1>5. ASSUME NEW s \in Pipes, Tap(s) \/ TapError(s)
      PROVE  Grows
    BY <1>1, <1>2, <1>3, <1>4, <1>5 DEF Tap, TapChunk, TapError, TapFail, TapClose, TapNotify
<1>6. CASE ExitStep
  <2>1. ASSUME Exits("check", "set")
        PROVE  code \in Logged
    <3>1. exitTask = "check" /\ StreamsCounted /\ code \in {"none", "exit", "error"}
        BY <2>1, SameTypes DEF Exits, EventsInv, WorldTypes
    <3>2. QED
        BY <3>1 DEF StreamsCounted, Logged
  <2>2. QED
      BY <1>1, <1>2, <1>3, <1>6, <2>1 DEF ExitStep, ExitSeen, DrainArm, DrainLook, ExitPush, ExitSet
<1>7. CASE Cancel1 \/ Cancel2 \/ Cancel3
    BY <1>1, <1>2, <1>3, <1>4, <1>7 DEF Cancel1, Cancel2, Cancel3
<1>8. CASE WorldStep \/ FollowStep \/ PollEvents \/ PollStatus \/ PollFail
    BY <1>3, <1>8 DEF WorldStep, FollowStep, FollowArm, FollowEvents, FollowStatus, PollEvents,
                      PollStatus, PollFail
<1>9. CASE UNCHANGED eventVars
    BY <1>3, <1>9 DEF eventVars
<1>10. QED
    BY <1>5, <1>6, <1>7, <1>8, <1>9 DEF EventsNext

LEMMA PushEnds ==
  ASSUME EventsInv, NEW e \in {"exit", "error", "cancelled"}, Push(e)
  PROVE  Terminal'
<1>1. elog \in Seq(Logged) /\ e \in Logged /\ e \notin Pipes /\ kept \in BOOLEAN /\ "error" \in Logged
    BY SameTypes, EventsAssumption DEF EventsInv, LogTypes, WorldTypes, Logged, EventsAssumption
<1>2. PICK i \in Nat : i = Len(elog) + 1
    BY <1>1
<1>3. i \in DOMAIN elog' /\ elog'[i] = e
  <2>1. CASE kept
    <3>1. elog' = Append(elog, e)
        BY <2>1 DEF Push
    <3>2. QED
        BY <1>1, <1>2, <3>1
  <2>2. CASE ~kept
    <3>1. elog' = elog \o <<e, "error">>
        BY <2>2 DEF Push
    <3>2. QED
        BY <1>1, <1>2, <3>1
  <2>3. QED
      BY <2>1, <2>2
<1>4. QED
    BY <1>1, <1>3 DEF Terminal, IsOutput

LEMMA EndStep ==
  ASSUME EventsInv, EndIsLogged, [EventsNext]_eventVars
  PROVE  EndIsLogged'
<1>g. Terminal => Terminal'
    BY LogGrows DEF Grows, Terminal, IsOutput
<1>t. tap \in [Pipes -> {"read", "fail", "close", "notify", "end"}]
    BY SameTypes DEF EventsInv, WorkTypes
<1>1. ASSUME EndOwed' => EndOwed
      PROVE  EndIsLogged'
    BY <1>g, <1>1 DEF EndIsLogged
<1>2. ASSUME EndOwed
      PROVE  EndIsLogged'
    BY <1>g, <1>2 DEF EndIsLogged
<1>3. ASSUME NEW e \in {"exit", "error", "cancelled"}, Push(e)
      PROVE  EndIsLogged'
    BY <1>3, PushEnds DEF EndIsLogged
<1>4. ASSUME NEW s \in Pipes, TapChunk(s) \/ TapClose(s) \/ TapNotify(s)
      PROVE  EndIsLogged'
  <2>1. /\ UNCHANGED <<estatus, kill>> /\ (exitTask' = "set" => exitTask = "set")
        /\ \A r \in Pipes : tap'[r] = "fail" => tap[r] = "fail"
      BY <1>t, <1>4 DEF TapChunk, TapClose, TapNotify, work
  <2>2. QED
      BY <1>1, <2>1 DEF EndOwed
<1>5. ASSUME NEW s \in Pipes, TapError(s)
      PROVE  EndIsLogged'
    BY <1>3, <1>5 DEF TapError
<1>6. ASSUME NEW s \in Pipes, TapFail(s)
      PROVE  EndIsLogged'
    BY <1>2, <1>6 DEF TapFail, EndOwed
<1>7. CASE ExitSeen \/ DrainArm \/ DrainLook
  <2>1. UNCHANGED <<estatus, kill, tap>> /\ exitTask' # "set"
      BY <1>7 DEF ExitSeen, DrainArm, DrainLook, Exits
  <2>2. QED
      BY <1>1, <2>1 DEF EndOwed
<1>8. CASE ExitPush
  <2>1. CASE estatus # "running"
      BY <1>2, <2>1 DEF EndOwed
  <2>2. CASE estatus = "running"
    <3>1. Exits("check", "set") /\ Push(code)
        BY <1>8, <2>2 DEF ExitPush
    <3>2. exitTask = "check" /\ StreamsCounted /\ code \in {"none", "exit", "error"}
        BY <3>1, SameTypes DEF Exits, EventsInv, WorldTypes
    <3>3. code \in {"exit", "error", "cancelled"}
        BY <3>2 DEF StreamsCounted
    <3>4. QED
        BY <1>3, <3>1, <3>3
  <2>3. QED
      BY <2>1, <2>2
<1>9. CASE ExitSet \/ Cancel3
    BY <1>2, <1>9 DEF ExitSet, Exits, Cancel3, EndOwed
<1>10. CASE Cancel1
  <2>1. UNCHANGED <<estatus, exitTask, tap>> /\ kill' = "push"
      BY <1>10 DEF Cancel1
  <2>2. QED
      BY <1>1, <2>1 DEF EndOwed
<1>11. CASE Cancel2
    BY <1>3, <1>11 DEF Cancel2
<1>12. CASE \/ WorldStep \/ FollowStep \/ PollEvents \/ PollStatus \/ PollFail
            \/ UNCHANGED eventVars
  <2>1. UNCHANGED <<estatus, exitTask, tap, kill>>
      BY <1>12 DEF WorldStep, FollowStep, FollowArm, FollowEvents, FollowStatus, PollEvents,
                   PollStatus, PollFail, eventVars, work
  <2>2. QED
      BY <1>1, <2>1 DEF EndOwed
<1>13. QED
    BY <1>4, <1>5, <1>6, <1>7, <1>8, <1>9, <1>10, <1>11, <1>12 DEF EventsNext, Tap, ExitStep

LEMMA MissedStep ==
  ASSUME EventsInv, EndIsLogged, NoneMissed, [EventsNext]_eventVars
  PROVE  NoneMissed'
<1>0. /\ Grows /\ DOMAIN elog = 1..Len(elog) /\ Len(elog) \in Nat
      /\ poll.cursor \in Nat /\ poll.upto \in Nat /\ PollerCounts
  <2>1. elog \in Seq(Logged) /\ poll \in PollType
      BY SameTypes DEF EventsInv, LogTypes, PollTypes
  <2>2. QED
      BY <2>1, LogGrows DEF EventsInv, PollType
<1>1. ASSUME UNCHANGED <<poll, result>>
      PROVE  NoneMissed'
  <2>1. ASSUME poll.at \in {"events", "status"}, NEW i \in 1..poll.cursor
        PROVE  IsOutput(elog'[i])
    <3>1. i \in DOMAIN elog /\ IsOutput(elog[i])
      <4>1. poll.cursor <= Len(elog)
          BY <1>0, <2>1 DEF PollerCounts
      <4>2. IsOutput(elog[i])
          BY <2>1 DEF NoneMissed
      <4>3. QED
          BY <1>0, <2>1, <4>1, <4>2
    <3>2. QED
        BY <1>0, <3>1 DEF Grows, IsOutput
  <2>2. ASSUME result = "by status"
        PROVE  \E i \in DOMAIN elog' : i > poll.upto /\ ~IsOutput(elog'[i])
      BY <1>0, <2>2 DEF NoneMissed, Grows, IsOutput
  <2>3. QED
      BY <1>1, <2>1, <2>2 DEF NoneMissed, IsOutput
<1>2. CASE PollEvents
  <2>1. /\ poll.at = "events" /\ result' = result /\ elog' = elog
        /\ poll' = [at |-> "status", cursor |-> poll.cursor, upto |-> Len(elog)]
      BY <1>2 DEF PollEvents
  <2>2. poll'.cursor = poll.cursor /\ result = "none"
      BY <1>0, <2>1 DEF PollerCounts
  <2>3. QED
      BY <2>1, <2>2 DEF NoneMissed, IsOutput
<1>3. CASE PollFail
  <2>1. poll'.at = "end" /\ result' = "error"
      BY <1>3 DEF PollFail, Polled
  <2>2. QED
      BY <2>1 DEF NoneMissed
<1>4. CASE PollStatus
  <2> DEFINE new == poll.cursor + 1 .. poll.upto
             ends == {i \in new : ~IsOutput(elog[i])}
             read == {i \in new : \A j \in ends : i <= j}
  <2>1. poll.at = "status" /\ elog' = elog /\ \A i \in 1..poll.cursor : IsOutput(elog[i])
      BY <1>4 DEF PollStatus, NoneMissed
  <2>2. CASE ends # {}
    <3>1. poll'.at = "end"
        BY <1>4, <2>2 DEF PollStatus, Polled
    <3>2. PICK i \in ends \cap read : result' = elog[i]
        BY <1>4, <2>2 DEF PollStatus
    <3>3. elog[i] \in Logged
      <4>1. i \in DOMAIN elog
          BY <1>0, <2>1, <3>2 DEF PollerCounts
      <4>2. elog \in Seq(Logged)
          BY SameTypes DEF EventsInv, LogTypes
      <4>3. QED
          BY <4>1, <4>2
    <3>4. result' # "by status"
        BY <3>2, <3>3 DEF Logged, IsOutput
    <3>5. QED
        BY <3>1, <3>4 DEF NoneMissed
  <2>3. CASE ends = {}
    <3>1. \A i \in 1..poll.upto : IsOutput(elog[i])
        BY <1>0, <2>1, <2>3
    <3>2. result' = (IF estatus # "running" THEN "by status" ELSE "none")
        BY <1>4, <2>3 DEF PollStatus
    <3>3. poll' = IF estatus # "running" THEN Polled
                  ELSE [at |-> "events", cursor |-> poll.upto, upto |-> 0]
        BY <1>4, <2>3 DEF PollStatus
    <3>4. CASE estatus = "running"
      <4>1. poll'.cursor = poll.upto /\ result' = "none"
          BY <3>2, <3>3, <3>4
      <4>2. QED
          BY <2>1, <3>1, <4>1 DEF NoneMissed, IsOutput
    <3>5. CASE estatus # "running"
      <4>1. poll'.at = "end" /\ poll'.upto = poll.upto
          BY <3>3, <3>5 DEF Polled
      <4>2. PICK i \in DOMAIN elog : ~IsOutput(elog[i])
          BY <3>5 DEF EndIsLogged, EndOwed, Terminal
      <4>3. i > poll.upto
          BY <1>0, <3>1, <4>2
      <4>4. QED
          BY <2>1, <4>1, <4>2, <4>3 DEF NoneMissed, IsOutput
    <3>6. QED
        BY <3>4, <3>5
  <2>4. QED
      BY <2>2, <2>3
<1>5. ASSUME NEW s \in Pipes, Tap(s) \/ TapError(s)
      PROVE  NoneMissed'
    BY <1>1, <1>5 DEF Tap, TapChunk, TapError, TapFail, TapClose, TapNotify, Push, SetStatus, clients
<1>6. CASE ExitStep
    BY <1>1, <1>6 DEF ExitStep, ExitSeen, DrainArm, DrainLook, ExitPush, ExitSet, Push, SetStatus,
                      clients
<1>7. CASE Cancel1 \/ Cancel2 \/ Cancel3 \/ WorldStep \/ FollowStep \/ UNCHANGED eventVars
    BY <1>1, <1>7 DEF Cancel1, Cancel2, Cancel3, Push, SetStatus, WorldStep, FollowStep, FollowArm,
                      FollowEvents, FollowStatus, eventVars, clients
<1>8. QED
    BY <1>2, <1>3, <1>4, <1>5, <1>6, <1>7 DEF EventsNext

\* Whatever the child writes, whichever reader fails and whenever the process is
\* cancelled, for any number of chunks: output is never behind an exit event, no
\* exit event is behind a journalled read error, a poller that meets the exit event
\* has passed on every chunk, and one that reports the end by the status has passed
\* on what it had read and was overtaken between its two reads.
THEOREM OutputFirstCorrect == EventsSpec => []OutputFirst
<1>1. EventsInv /\ NoneMissed => OutputFirst
  <2>1. ASSUME EventsInv, NoneMissed
        PROVE  OutputFirst
    <3>1. StatusComplete
        BY <2>1 DEF EventsInv, PollerCounts, NoneMissed, StatusComplete
    <3>2. QED
        BY <2>1, <3>1 DEF EventsInv, OutputFirst
  <2>2. QED
      BY <2>1
<1>2. EventsInit => EndIsLogged /\ NoneMissed
    BY DEF EventsInit, EndIsLogged, EndOwed, NoneMissed
<1>3. EventsInv /\ EndIsLogged /\ [EventsNext]_eventVars => EndIsLogged'
    BY EndStep
<1>4. EventsInv /\ EndIsLogged /\ NoneMissed /\ [EventsNext]_eventVars => NoneMissed'
    BY MissedStep
<1>5. QED
    BY <1>1, <1>2, <1>3, <1>4, EventsInit1, EventsStep, PTL DEF EventsSpec

--------------------------------------------------------------------------------

(* The three views together *)

\* In every behaviour one view moves and the others stay as they are.
LEMMA ViewsRun == MCSpec => BoxSpec /\ ProcSpec /\ EventsSpec
<1>1. MCInit => BoxInit /\ ProcInit /\ EventsInit
    BY DEF MCInit
<1>2. [MCNext]_MCVars => [BoxNext]_boxVars /\ [ProcNext]_procVars /\ [EventsNext]_eventVars
    BY DEF MCNext, MCVars
<1>3. QED
    BY <1>1, <1>2, PTL DEF MCSpec, BoxSpec, ProcSpec, EventsSpec

\* The records, the process and the event log keep their types in every
\* behaviour, for any number of sandboxes, calls, attempts, streams and chunks.
THEOREM SandboxTypesCorrect == MCSpec => []SandboxesTypeOK
<1>1. BoxInv /\ ProcInv /\ EventsInv => SandboxesTypeOK
    BY DEF BoxInv, ProcInv, EventsInv, SandboxesTypeOK
<1>2. EventsSpec => []EventsInv
    BY EventsInit1, EventsStep, PTL DEF EventsSpec
<1>3. QED
    BY <1>1, <1>2, ViewsRun, BoxInvIsInvariant, ProcInvAlways, PTL
================================================================================
