------------------------ MODULE TurnCoordinatorProofs ------------------------
(* Proofs about TurnCoordinator, for every value of its constants. *)
EXTENDS TurnCoordinator, SequenceTheorems, TLAPS

-----------------------------------------------------------------------------
(* Sequences of queue entries under the updates the coordinator makes. *)

\* Changing the control of one entry keeps the queue a sequence of entries of
\* the same length and touches nothing else.
LEMMA ControlUpdate ==
  ASSUME NEW q \in Seq(QueuedTurn), NEW i \in DOMAIN q, NEW c \in Controls,
         NEW r, r = [q EXCEPT ![i].control = c]
  PROVE  /\ r \in Seq(QueuedTurn)
         /\ Len(r) = Len(q)
         /\ \A j \in DOMAIN q :
              /\ r[j].turn = q[j].turn
              /\ r[j].principal = q[j].principal
              /\ r[j].started = q[j].started
              /\ r[j].control = IF j = i THEN c ELSE q[j].control
  <1> DEFINE e == [q[i] EXCEPT !.control = c]
  <1>1. q[i] \in QueuedTurn /\ i \in 1..Len(q)
    OBVIOUS
  <1>2. /\ e \in QueuedTurn
        /\ e.turn = q[i].turn
        /\ e.principal = q[i].principal
        /\ e.started = q[i].started
        /\ e.control = c
    BY <1>1 DEF QueuedTurn
  <1>3. r = [q EXCEPT ![i] = e]
    OBVIOUS
  <1> HIDE DEF e
  <1>4. /\ r \in Seq(QueuedTurn)
        /\ Len(r) = Len(q)
        /\ \A j \in 1..Len(q) : r[j] = IF j = i THEN e ELSE q[j]
    <2>1. i \in 1..Len(q) /\ e \in QueuedTurn
      BY <1>1, <1>2
    <2> HIDE DEF QueuedTurn
    <2>2. /\ [q EXCEPT ![i] = e] \in Seq(QueuedTurn)
          /\ Len([q EXCEPT ![i] = e]) = Len(q)
          /\ \A j \in 1..Len(q) : [q EXCEPT ![i] = e][j] = IF j = i THEN e ELSE q[j]
      BY ONLY <2>1, q \in Seq(QueuedTurn), ExceptSeq
    <2> QED
      BY <1>3, <2>2
  <1> QED
    BY <1>2, <1>4

\* Admitting the head does the same to its flag.
LEMMA StartUpdate ==
  ASSUME NEW q \in Seq(QueuedTurn), q # <<>>, NEW b \in BOOLEAN,
         NEW r, r = [q EXCEPT ![1].started = b]
  PROVE  /\ r \in Seq(QueuedTurn)
         /\ Len(r) = Len(q)
         /\ \A j \in DOMAIN q :
              /\ r[j].turn = q[j].turn
              /\ r[j].principal = q[j].principal
              /\ r[j].control = q[j].control
              /\ j # 1 => r[j].started = q[j].started
  <1> DEFINE e == [q[1] EXCEPT !.started = b]
  <1>1. q[1] \in QueuedTurn /\ 1 \in 1..Len(q)
    OBVIOUS
  <1>2. /\ e \in QueuedTurn
        /\ e.turn = q[1].turn
        /\ e.principal = q[1].principal
        /\ e.control = q[1].control
    BY <1>1 DEF QueuedTurn
  <1>3. r = [q EXCEPT ![1] = e]
    OBVIOUS
  <1> HIDE DEF e
  <1>4. /\ r \in Seq(QueuedTurn)
        /\ Len(r) = Len(q)
        /\ \A j \in 1..Len(q) : r[j] = IF j = 1 THEN e ELSE q[j]
    BY <1>1, <1>2, <1>3, ExceptSeq
  <1> QED
    BY <1>2, <1>4

\* What an accepted submission does to the queue and to the history.
LEMMA EnqueueShape ==
  ASSUME TypeOK, NEW t \in Turns, NEW p \in Callers, NEW k \in Keys \cup {None},
         NEW a \in Attentions, Enqueue(t, p, k, a)
  PROVE  /\ pending' \in Seq(QueuedTurn)
         /\ Len(pending') = Len(pending) + 1
         /\ \A j \in 1..Len(pending) :
              /\ pending'[j].turn = pending[j].turn
              /\ pending'[j].principal = pending[j].principal
              /\ pending'[j].started = pending[j].started
              /\ pending'[j].control = IF j = 1 /\ Interrupts(p, a)
                                         THEN "Cancel" ELSE pending[j].control
         /\ pending'[Len(pending) + 1] = NewEntry(t, p)
         /\ accepted' \in Seq(Acceptance)
         /\ Len(accepted') = Len(accepted) + 1
         /\ \A j \in 1..Len(accepted) : accepted'[j] = accepted[j]
         /\ accepted'[Len(accepted) + 1] =
              [turn |-> t, principal |-> p, key |-> k, at |-> now]
  <1> DEFINE new == [turn |-> t, principal |-> p, key |-> k, at |-> now]
             base == IF Interrupts(p, a)
                       THEN [pending EXCEPT ![1].control = "Cancel"] ELSE pending
  <1>1. new \in Acceptance /\ accepted \in Seq(Acceptance)
    BY DEF TypeOK, Acceptance
  <1>2. accepted' = Append(accepted, new)
    BY DEF Enqueue
  <1>3. NewEntry(t, p) \in QueuedTurn
    BY DEF NewEntry, QueuedTurn, Controls
  <1>4. pending' = Append(base, NewEntry(t, p))
    BY DEF Enqueue
  <1>5. /\ base \in Seq(QueuedTurn)
        /\ Len(base) = Len(pending)
        /\ \A j \in 1..Len(pending) :
             /\ base[j].turn = pending[j].turn
             /\ base[j].principal = pending[j].principal
             /\ base[j].started = pending[j].started
             /\ base[j].control = IF j = 1 /\ Interrupts(p, a)
                                    THEN "Cancel" ELSE pending[j].control
    <2>1. CASE Interrupts(p, a)
      <3>1. 1 \in DOMAIN pending /\ "Cancel" \in Controls /\ pending \in Seq(QueuedTurn)
        BY <2>1 DEF Interrupts, TypeOK, Controls
      <3>2. base = [pending EXCEPT ![1].control = "Cancel"]
        BY <2>1
      <3> HIDE DEF base
      <3>3. /\ base \in Seq(QueuedTurn)
            /\ Len(base) = Len(pending)
            /\ \A j \in DOMAIN pending :
                 /\ base[j].turn = pending[j].turn
                 /\ base[j].principal = pending[j].principal
                 /\ base[j].started = pending[j].started
                 /\ base[j].control = IF j = 1 THEN "Cancel" ELSE pending[j].control
        BY <3>1, <3>2, ControlUpdate
      <3>4. DOMAIN pending = 1..Len(pending)
        BY <3>1
      <3> QED BY <2>1, <3>3, <3>4
    <2>2. CASE ~Interrupts(p, a)
      BY <2>2 DEF TypeOK
    <2> QED BY <2>1, <2>2
  <1> HIDE DEF new, base
  <1>6. /\ pending' \in Seq(QueuedTurn)
        /\ Len(pending') = Len(pending) + 1
        /\ \A j \in 1..Len(pending) : pending'[j] = base[j]
        /\ pending'[Len(pending) + 1] = NewEntry(t, p)
    BY <1>3, <1>4, <1>5, AppendProperties
  <1>7. /\ accepted' \in Seq(Acceptance)
        /\ Len(accepted') = Len(accepted) + 1
        /\ \A j \in 1..Len(accepted) : accepted'[j] = accepted[j]
        /\ accepted'[Len(accepted) + 1] = new
    BY <1>1, <1>2, AppendProperties
  <1> QED
    BY <1>5, <1>6, <1>7, SMTT(30) DEF new

\* What an acknowledgment does to the queue.
LEMMA AcknowledgeShape ==
  ASSUME TypeOK, NEW l \in Leases, NEW t \in Turns, Acknowledge(l, t)
  PROVE  /\ pending' \in Seq(QueuedTurn)
         /\ Len(pending') \in Nat
         /\ Len(pending) = Len(pending') + 1
         /\ \A j \in 1..Len(pending') : pending'[j] = pending[j + 1]
  <1>1. /\ pending \in Seq(QueuedTurn) /\ pending # <<>>
        /\ pending' = Tail(pending)
    BY DEF Acknowledge, TypeOK
  <1>2. Len(pending) \in Nat /\ Len(pending) # 0
    BY <1>1, EmptySeq
  <1> QED
    BY <1>1, <1>2, HeadTailProperties

\* What a change of control does to the queue.
LEMMA ControlShape ==
  ASSUME TypeOK, NEW i \in DOMAIN pending, NEW by \in Callers,
         NEW c \in Controls, UpdateControl(i, by, c)
  PROVE  /\ pending' \in Seq(QueuedTurn)
         /\ Len(pending') = Len(pending)
         /\ DOMAIN pending' = DOMAIN pending
         /\ \A j \in DOMAIN pending :
              /\ pending'[j].turn = pending[j].turn
              /\ pending'[j].principal = pending[j].principal
              /\ pending'[j].started = pending[j].started
              /\ pending'[j].control = IF j = i THEN c ELSE pending[j].control
  <1>1. pending \in Seq(QueuedTurn)
    BY DEF TypeOK
  <1>2. pending' = [pending EXCEPT ![i].control = c]
    BY DEF UpdateControl
  <1> QED
    BY <1>1, <1>2, ControlUpdate

\* What the admission of the head does to the queue.
LEMMA StartShape ==
  ASSUME TypeOK, NEW l \in Leases, NEW t \in Turns, Start(l, t)
  PROVE  /\ pending' \in Seq(QueuedTurn)
         /\ Len(pending') = Len(pending)
         /\ DOMAIN pending' = DOMAIN pending
         /\ 1 \in DOMAIN pending
         /\ \A j \in DOMAIN pending :
              /\ pending'[j].turn = pending[j].turn
              /\ pending'[j].principal = pending[j].principal
              /\ pending'[j].control = pending[j].control
              /\ j # 1 => pending'[j].started = pending[j].started
  <1>1. pending \in Seq(QueuedTurn) /\ pending # <<>>
    BY DEF TypeOK, Start
  <1>2. pending[1] \in QueuedTurn /\ 1 \in DOMAIN pending
    BY <1>1
  <1> DEFINE b == pending[1].started \/ pending[1].control # "Suspend"
  <1>3. b \in BOOLEAN
    BY <1>2 DEF QueuedTurn
  <1>4. pending' = [pending EXCEPT ![1].started = b]
    BY <1>1, <1>2 DEF Start, Front
  <1> HIDE DEF b
  <1> QED
    BY <1>1, <1>2, <1>3, <1>4, StartUpdate

\* The ownership steps that leave the queue and its history alone.
LEMMA OtherSteps ==
  ASSUME NEW l \in Leases, Claim(l) \/ DropLease(l) \/ Release(l)
  PROVE  UNCHANGED <<pending, receipts, acknowledged, accepted, acks>>
  BY DEF Claim, DropLease, Release, durable, history

-----------------------------------------------------------------------------
(* Types. *)

LEMMA TypeStep ==
  ASSUME TypeOK, [Next]_vars
  PROVE  TypeOK'
  <1> USE DEF TypeOK
  <1>1. ASSUME NEW t \in Turns, NEW p \in Callers, NEW k \in Keys \cup {None},
               NEW a \in Attentions, Enqueue(t, p, k, a)
        PROVE  TypeOK'
    <2>1. pending' \in Seq(QueuedTurn) /\ accepted' \in Seq(Acceptance)
      BY <1>1, EnqueueShape
    <2>2. receipts' \subseteq TurnReceipt
      BY <1>1, TimeAssumption
      DEF Enqueue, LiveReceipts, NewReceipts, TurnReceipt
    <2>3. watching' \in Turns \cup {None} /\ signal' \in Controls
      BY <1>1 DEF Enqueue, Notify, Controls
    <2> QED
      BY <1>1, <2>1, <2>2, <2>3 DEF Enqueue
  <1>2. ASSUME NEW i \in DOMAIN pending, NEW by \in Callers, NEW c \in Controls,
               UpdateControl(i, by, c)
        PROVE  TypeOK'
    <2>1. pending' \in Seq(QueuedTurn)
      BY <1>2, ControlShape
    <2> QED
      BY <1>2, <2>1 DEF UpdateControl, Notify, history
  <1>3. ASSUME NEW l \in Leases, NEW t \in Turns, Start(l, t)
        PROVE  TypeOK'
    <2>1. Front \in QueuedTurn
      BY <1>3 DEF Start, Front
    <2>2. Front.control \in Controls
      BY <2>1 DEF QueuedTurn
    <2>3. pending' \in Seq(QueuedTurn)
      BY <1>3, StartShape
    <2> QED
      BY <1>3, <2>2, <2>3 DEF Start, history
  <1>4. ASSUME NEW l \in Leases, NEW t \in Turns, Acknowledge(l, t)
        PROVE  TypeOK'
    BY <1>4, AcknowledgeShape DEF Acknowledge, CloseWatch, Controls
  <1>5. ASSUME NEW l \in Leases, Claim(l) \/ DropLease(l) \/ Release(l)
        PROVE  TypeOK'
    BY <1>5 DEF Claim, DropLease, Release, CloseWatch, Controls, durable, history
  <1>6. CASE Crash \/ Tick
    BY <1>6 DEF Crash, Tick, CloseWatch, Controls, durable, mutation, history
  <1>7. CASE UNCHANGED vars
    BY <1>7 DEF vars
  <1> QED
    BY <1>1, <1>2, <1>3, <1>4, <1>5, <1>6, <1>7
    DEF Next, Admission, Execution

\* Type correctness of the stored coordinator, for any set of turns, callers,
\* keys and leases.
THEOREM TypeCorrect == Spec => []TypeOK
  <1>1. Init => TypeOK
    BY DEF Init, TypeOK, Controls
  <1>2. TypeOK /\ [Next]_vars => TypeOK'
    BY TypeStep
  <1> QED
    BY <1>1, <1>2, PTL DEF Spec

-----------------------------------------------------------------------------
(* Safety.  The parts of the invariant lean on each other: AcceptedOnce on  *)
(* ReceiptsCover (a repeated id finds its receipt), WatchIsCurrent on       *)
(* AcceptedOnce (an update of another entry is not one of the head).        *)

IInv ==
  /\ TypeOK
  /\ QueueIsSuffix
  /\ AcceptedOnce
  /\ OnlyHeadStarted
  /\ WatchIsCurrent
  /\ ReceiptsCover
  /\ DedupWindow

LEMMA SuffixStep ==
  ASSUME TypeOK, QueueIsSuffix, [Next]_vars
  PROVE  QueueIsSuffix'
  <1>0. /\ acks \in Nat /\ Len(pending) \in Nat /\ Len(accepted) \in Nat
        /\ DOMAIN pending = 1..Len(pending)
        /\ Len(accepted) = acks + Len(pending)
        /\ acknowledged = IF acks = 0 THEN None ELSE accepted[acks].turn
    BY DEF TypeOK, QueueIsSuffix
  <1>9. \A i \in DOMAIN pending : /\ pending[i].turn = accepted[acks + i].turn
                                  /\ pending[i].principal = accepted[acks + i].principal
    BY DEF QueueIsSuffix
  <1>1. ASSUME NEW t \in Turns, NEW p \in Callers, NEW k \in Keys \cup {None},
               NEW a \in Attentions, Enqueue(t, p, k, a)
        PROVE  QueueIsSuffix'
    <2>1. acks' = acks /\ acknowledged' = acknowledged
      BY <1>1 DEF Enqueue
    <2>2. /\ pending' \in Seq(QueuedTurn)
          /\ Len(pending') = Len(pending) + 1
          /\ Len(accepted') = Len(accepted) + 1
          /\ \A j \in 1..Len(pending) :
               /\ pending'[j].turn = pending[j].turn
               /\ pending'[j].principal = pending[j].principal
          /\ \A j \in 1..Len(accepted) : accepted'[j] = accepted[j]
          /\ pending'[Len(pending) + 1] = NewEntry(t, p)
          /\ accepted'[Len(accepted) + 1] =
               [turn |-> t, principal |-> p, key |-> k, at |-> now]
      BY <1>1, EnqueueShape
    <2>3. Len(accepted') = acks' + Len(pending')
      BY <1>0, <2>1, <2>2
    <2>4. ASSUME NEW i \in DOMAIN pending'
          PROVE  /\ pending'[i].turn = accepted'[acks + i].turn
                 /\ pending'[i].principal = accepted'[acks + i].principal
      <3>1. CASE i \in 1..Len(pending)
        <4>1. acks + i \in 1..Len(accepted)
          BY <1>0, <3>1
        <4> QED BY <1>0, <1>9, <2>2, <3>1, <4>1
      <3>2. CASE i = Len(pending) + 1
        <4>1. acks + i = Len(accepted) + 1
          BY <1>0, <3>2
        <4> QED BY <2>2, <3>2, <4>1 DEF NewEntry
      <3>3. i \in 1..(Len(pending) + 1)
        BY <2>2, <2>4
      <3> QED BY <1>0, <3>1, <3>2, <3>3
    <2>5. acknowledged' = IF acks' = 0 THEN None ELSE accepted'[acks'].turn
      <3>1. acks # 0 => acks \in 1..Len(accepted)
        BY <1>0
      <3> QED BY <1>0, <2>1, <2>2, <3>1
    <2> QED BY <2>1, <2>3, <2>4, <2>5 DEF QueueIsSuffix
  <1>2. ASSUME NEW i \in DOMAIN pending, NEW by \in Callers, NEW c \in Controls,
               UpdateControl(i, by, c)
        PROVE  QueueIsSuffix'
    BY <1>0, <1>2, <1>9, ControlShape DEF UpdateControl, history, QueueIsSuffix
  <1>3. ASSUME NEW l \in Leases, NEW t \in Turns, Start(l, t)
        PROVE  QueueIsSuffix'
    BY <1>0, <1>3, <1>9, StartShape DEF Start, history, QueueIsSuffix
  <1>4. ASSUME NEW l \in Leases, NEW t \in Turns, Acknowledge(l, t)
        PROVE  QueueIsSuffix'
    <2>1. /\ acks' = acks + 1 /\ acknowledged' = t /\ accepted' = accepted
          /\ Front.turn = t
      BY <1>4 DEF Acknowledge
    <2>2. /\ pending' \in Seq(QueuedTurn)
          /\ Len(pending') \in Nat
          /\ Len(pending) = Len(pending') + 1
          /\ \A j \in 1..Len(pending') : pending'[j] = pending[j + 1]
      BY <1>4, AcknowledgeShape
    <2>3. ASSUME NEW i \in DOMAIN pending'
          PROVE  /\ pending'[i].turn = accepted[acks' + i].turn
                 /\ pending'[i].principal = accepted[acks' + i].principal
      <3>1. i \in 1..Len(pending')
        BY <2>2, <2>3
      <3>2. i + 1 \in 1..Len(pending) /\ acks' + i = acks + (i + 1)
        BY <1>0, <2>1, <2>2, <3>1, SMTT(30)
      <3> QED BY <1>0, <1>9, <2>2, <3>1, <3>2
    <2>4. t = accepted[acks'].turn
      BY <1>0, <1>9, <2>1, <2>2 DEF Front
    <2>5. Len(accepted') = acks' + Len(pending') /\ acks' # 0
      BY <1>0, <2>1, <2>2
    <2> QED
      BY <2>1, <2>3, <2>4, <2>5 DEF QueueIsSuffix
  <1>5. ASSUME NEW l \in Leases,
               Claim(l) \/ DropLease(l) \/ Release(l)
        PROVE  QueueIsSuffix'
    BY <1>5, OtherSteps DEF QueueIsSuffix
  <1>6. CASE Crash \/ Tick
    BY <1>6 DEF Crash, Tick, durable, history, QueueIsSuffix
  <1>7. CASE UNCHANGED vars
    BY <1>7 DEF vars, QueueIsSuffix
  <1> QED
    BY <1>1, <1>2, <1>3, <1>4, <1>5, <1>6, <1>7
    DEF Next, Admission, Execution

\* The ids in the queue are pairwise different, and all of them were accepted.
LEMMA PendingDistinct ==
  ASSUME TypeOK, QueueIsSuffix, AcceptedOnce
  PROVE  /\ \A i, j \in DOMAIN pending :
              pending[i].turn = pending[j].turn => i = j
         /\ PendingTurns \subseteq AcceptedTurns
  <1>1. /\ DOMAIN pending = 1..Len(pending) /\ DOMAIN accepted = 1..Len(accepted)
        /\ Len(pending) \in Nat /\ Len(accepted) \in Nat /\ acks \in Nat
    BY DEF TypeOK
  <1>2. \A i \in DOMAIN pending :
          acks + i \in DOMAIN accepted /\ pending[i].turn = accepted[acks + i].turn
    BY <1>1 DEF QueueIsSuffix
  <1>3. ASSUME NEW i \in DOMAIN pending, NEW j \in DOMAIN pending,
               pending[i].turn = pending[j].turn
        PROVE  i = j
    <2>1. acks + i = acks + j
      BY <1>2, <1>3 DEF AcceptedOnce
    <2> QED BY <1>1, <2>1
  <1>4. PendingTurns \subseteq AcceptedTurns
    BY <1>2 DEF PendingTurns, AcceptedTurns
  <1> QED
    BY <1>3, <1>4

\* A submission that enqueue accepts has an id it never accepted before.
LEMMA AcceptedIsNew ==
  ASSUME TypeOK, AcceptedOnce, ReceiptsCover,
         NEW t \in Turns, NEW p \in Callers, NEW k \in Keys \cup {None},
         NEW a \in Attentions, Enqueue(t, p, k, a)
  PROVE  t \notin AcceptedTurns
  <1> SUFFICES ASSUME t \in AcceptedTurns
               PROVE  FALSE
    OBVIOUS
  <1>1. t \notin PendingTurns
    BY DEF Enqueue, Duplicate
  <1>2. PICK i \in DOMAIN accepted :
          /\ accepted[i].turn = t
          /\ accepted[i].principal = p
          /\ accepted[i].key = k
          /\ k # None
          /\ now < accepted[i].at + Retention
    BY <1>1 DEF Enqueue, Submittable
  <1> DEFINE r == [principal |-> accepted[i].principal, key |-> accepted[i].key,
                   turn |-> accepted[i].turn,
                   expires |-> accepted[i].at + Retention]
  <1>3. r \in receipts
    BY <1>2 DEF ReceiptsCover
  <1>4. r.expires > now
    BY <1>2, TimeAssumption DEF TypeOK, Acceptance
  <1>5. r \in LiveReceipts
    BY <1>3, <1>4 DEF LiveReceipts
  <1>6. Matches(r, p, k)
    BY <1>2 DEF Matches
  <1> QED
    BY <1>2, <1>5, <1>6 DEF Enqueue, Duplicate

LEMMA OnceStep ==
  ASSUME TypeOK, AcceptedOnce, ReceiptsCover, [Next]_vars
  PROVE  AcceptedOnce'
  <1>1. ASSUME NEW t \in Turns, NEW p \in Callers, NEW k \in Keys \cup {None},
               NEW a \in Attentions, Enqueue(t, p, k, a)
        PROVE  AcceptedOnce'
    <2>1. /\ accepted \in Seq(Acceptance)
          /\ accepted' \in Seq(Acceptance)
          /\ Len(accepted') = Len(accepted) + 1
          /\ \A j \in 1..Len(accepted) : accepted'[j] = accepted[j]
          /\ accepted'[Len(accepted) + 1] =
               [turn |-> t, principal |-> p, key |-> k, at |-> now]
      BY <1>1, EnqueueShape DEF TypeOK
    <2>2. \A j \in DOMAIN accepted : accepted[j].turn # t
      <3>1. t \notin AcceptedTurns
        BY <1>1, AcceptedIsNew
      <3> QED BY <3>1 DEF AcceptedTurns
    <2>3. /\ DOMAIN accepted = 1..Len(accepted) /\ Len(accepted) \in Nat
          /\ DOMAIN accepted' = 1..(Len(accepted) + 1)
      BY <2>1
    <2>4. DOMAIN accepted' = DOMAIN accepted \cup {Len(accepted) + 1}
      BY <2>3
    <2> QED
      BY <2>1, <2>2, <2>3, <2>4 DEF AcceptedOnce
  <1>2. CASE UNCHANGED accepted
    BY <1>2 DEF AcceptedOnce
  <1> QED
    BY <1>1, <1>2
    DEF Next, Admission, Execution, UpdateControl, Claim, DropLease, Start,
        Acknowledge, Release, Crash, Tick, history, vars

LEMMA StartedStep ==
  ASSUME TypeOK, OnlyHeadStarted, [Next]_vars
  PROVE  OnlyHeadStarted'
  <1>0. /\ DOMAIN pending = 1..Len(pending) /\ Len(pending) \in Nat
    BY DEF TypeOK
  <1>1. ASSUME NEW t \in Turns, NEW p \in Callers, NEW k \in Keys \cup {None},
               NEW a \in Attentions, Enqueue(t, p, k, a)
        PROVE  OnlyHeadStarted'
    <2>1. /\ pending' \in Seq(QueuedTurn)
          /\ Len(pending') = Len(pending) + 1
          /\ \A j \in 1..Len(pending) : pending'[j].started = pending[j].started
          /\ pending'[Len(pending) + 1] = NewEntry(t, p)
      BY <1>1, EnqueueShape
    <2>2. DOMAIN pending' = DOMAIN pending \cup {Len(pending) + 1}
      BY <1>0, <2>1
    <2> QED
      BY <1>0, <2>1, <2>2 DEF OnlyHeadStarted, NewEntry
  <1>2. ASSUME NEW i \in DOMAIN pending, NEW by \in Callers, NEW c \in Controls,
               UpdateControl(i, by, c)
        PROVE  OnlyHeadStarted'
    BY <1>2, ControlShape DEF OnlyHeadStarted
  <1>3. ASSUME NEW l \in Leases, NEW t \in Turns, Start(l, t)
        PROVE  OnlyHeadStarted'
    BY <1>3, StartShape DEF OnlyHeadStarted
  <1>4. ASSUME NEW l \in Leases, NEW t \in Turns, Acknowledge(l, t)
        PROVE  OnlyHeadStarted'
    <2> SUFFICES ASSUME NEW j \in DOMAIN pending'
                 PROVE  ~pending'[j].started \/ j = 1
      BY DEF OnlyHeadStarted
    <2>1. /\ pending' \in Seq(QueuedTurn)
          /\ Len(pending') \in Nat
          /\ Len(pending) = Len(pending') + 1
          /\ \A n \in 1..Len(pending') : pending'[n] = pending[n + 1]
      BY <1>4, AcknowledgeShape
    <2>2. j \in 1..Len(pending')
      BY <2>1
    <2>3. j + 1 \in DOMAIN pending /\ j + 1 # 1
      BY <1>0, <2>1, <2>2
    <2> QED
      BY <2>1, <2>2, <2>3 DEF OnlyHeadStarted
  <1>5. CASE UNCHANGED pending
    BY <1>5 DEF OnlyHeadStarted
  <1> QED
    BY <1>1, <1>2, <1>3, <1>4, <1>5
    DEF Next, Admission, Execution, Claim, DropLease, Release, Crash, Tick,
        durable, vars

LEMMA WatchStep ==
  ASSUME TypeOK, QueueIsSuffix, AcceptedOnce, WatchIsCurrent, [Next]_vars
  PROVE  WatchIsCurrent'
  <1>0. /\ DOMAIN pending = 1..Len(pending) /\ Len(pending) \in Nat
        /\ pending \in Seq(QueuedTurn)
        /\ pending # <<>> => 1 \in DOMAIN pending
    BY DEF TypeOK
  <1>1. ASSUME NEW t \in Turns, NEW p \in Callers, NEW k \in Keys \cup {None},
               NEW a \in Attentions, Enqueue(t, p, k, a)
        PROVE  WatchIsCurrent'
    <2> SUFFICES ASSUME watching' # None
                 PROVE  /\ pending' # <<>>
                        /\ watching' = pending'[1].turn
                        /\ signal' = pending'[1].control
      BY DEF WatchIsCurrent, Front
    <2>1. watching' = watching
      BY <1>1 DEF Enqueue, Notify
    <2>2. /\ pending # <<>> /\ 1 \in DOMAIN pending
          /\ watching = pending[1].turn /\ signal = pending[1].control
      BY <1>0, <2>1 DEF WatchIsCurrent, Front
    <2>3. /\ pending' \in Seq(QueuedTurn)
          /\ Len(pending') = Len(pending) + 1
          /\ pending'[1].turn = pending[1].turn
          /\ pending'[1].control = IF Interrupts(p, a) THEN "Cancel"
                                   ELSE pending[1].control
      <3>1. 1 \in 1..Len(pending)
        BY <1>0, <2>2
      <3>2. /\ pending' \in Seq(QueuedTurn)
            /\ Len(pending') = Len(pending) + 1
            /\ \A j \in 1..Len(pending) :
                 /\ pending'[j].turn = pending[j].turn
                 /\ pending'[j].control = IF j = 1 /\ Interrupts(p, a) THEN "Cancel"
                                          ELSE pending[j].control
        BY <1>1, EnqueueShape
      <3> QED
        BY <3>1, <3>2
    <2>4. pending' # <<>>
      BY <1>0, <2>3
    <2>5. signal' = IF Interrupts(p, a) THEN "Cancel" ELSE signal
      BY <1>1, <2>2 DEF Enqueue, Notify, Front
    <2> QED
      BY <2>1, <2>2, <2>3, <2>4, <2>5
  <1>2. ASSUME NEW i \in DOMAIN pending, NEW by \in Callers, NEW c \in Controls,
               UpdateControl(i, by, c)
        PROVE  WatchIsCurrent'
    <2> SUFFICES ASSUME watching' # None
                 PROVE  /\ pending' # <<>>
                        /\ watching' = pending'[1].turn
                        /\ signal' = pending'[1].control
      BY DEF WatchIsCurrent, Front
    <2>1. /\ watching' = watching
          /\ signal' = IF watching = pending[i].turn THEN c ELSE signal
      BY <1>2 DEF UpdateControl, Notify
    <2>2. /\ pending # <<>> /\ 1 \in DOMAIN pending
          /\ watching = pending[1].turn /\ signal = pending[1].control
      BY <1>0, <2>1 DEF WatchIsCurrent, Front
    <2>3. /\ pending' \in Seq(QueuedTurn)
          /\ Len(pending') = Len(pending)
          /\ pending'[1].turn = pending[1].turn
          /\ pending'[1].control = IF 1 = i THEN c ELSE pending[1].control
      BY <1>2, <2>2, ControlShape
    <2>4. pending[1].turn = pending[i].turn => i = 1
      BY <2>2, PendingDistinct
    <2>5. pending' # <<>>
      BY <1>0, <2>2, <2>3
    <2> QED
      BY <2>1, <2>2, <2>3, <2>4, <2>5
  <1>3. ASSUME NEW l \in Leases, NEW t \in Turns, Start(l, t)
        PROVE  WatchIsCurrent'
    <2>1. /\ pending' \in Seq(QueuedTurn)
          /\ Len(pending') = Len(pending)
          /\ 1 \in DOMAIN pending
          /\ pending'[1].turn = pending[1].turn
          /\ pending'[1].control = pending[1].control
      BY <1>3, StartShape
    <2>2. pending' # <<>>
      BY <1>0, <2>1
    <2> QED
      BY <1>3, <2>1, <2>2 DEF Start, WatchIsCurrent, Front
  <1>4. CASE watching' = None
    BY <1>4 DEF WatchIsCurrent
  <1>5. CASE UNCHANGED <<pending, watching, signal>>
    BY <1>5 DEF WatchIsCurrent, Front
  <1> QED
    BY <1>1, <1>2, <1>3, <1>4, <1>5
    DEF Next, Admission, Execution, Claim, DropLease, Release, Acknowledge,
        CloseWatch, Crash, Tick, durable, mutation, vars

LEMMA CoverStep ==
  ASSUME TypeOK, ReceiptsCover, [Next]_vars
  PROVE  ReceiptsCover'
  <1> DEFINE Receipt(e) == [principal |-> e.principal, key |-> e.key,
                            turn |-> e.turn, expires |-> e.at + Retention]
  <1>0. /\ DOMAIN accepted = 1..Len(accepted) /\ Len(accepted) \in Nat
        /\ now \in Nat /\ Retention \in Nat
        /\ \A j \in DOMAIN accepted : accepted[j] \in Acceptance
    BY TimeAssumption DEF TypeOK
  <1>1. ASSUME NEW t \in Turns, NEW p \in Callers, NEW k \in Keys \cup {None},
               NEW a \in Attentions, Enqueue(t, p, k, a)
        PROVE  ReceiptsCover'
    <2>1. /\ accepted' \in Seq(Acceptance)
          /\ Len(accepted') = Len(accepted) + 1
          /\ \A j \in 1..Len(accepted) : accepted'[j] = accepted[j]
          /\ accepted'[Len(accepted) + 1] =
               [turn |-> t, principal |-> p, key |-> k, at |-> now]
      BY <1>1, EnqueueShape
    <2>2. now' = now /\ receipts' = LiveReceipts \cup NewReceipts(t, p, k)
      BY <1>1 DEF Enqueue
    <2> SUFFICES ASSUME NEW j \in DOMAIN accepted'
                 PROVE  /\ accepted'[j].at <= now
                        /\ accepted'[j].key # None
                             /\ now < accepted'[j].at + Retention
                             => Receipt(accepted'[j]) \in receipts'
      BY <2>2 DEF ReceiptsCover
    <2>3. CASE j = Len(accepted) + 1
      BY <1>0, <2>1, <2>2, <2>3 DEF NewReceipts
    <2>4. CASE j \in DOMAIN accepted
      <3>1. accepted'[j] = accepted[j] /\ accepted[j] \in Acceptance
        BY <1>0, <2>1, <2>4
      <3>2. accepted[j].at <= now
        BY <2>4 DEF ReceiptsCover
      <3>3. ASSUME accepted[j].key # None, now < accepted[j].at + Retention
            PROVE  Receipt(accepted[j]) \in LiveReceipts
        <4>1. Receipt(accepted[j]) \in receipts
          BY <2>4, <3>3 DEF ReceiptsCover
        <4>2. Receipt(accepted[j]).expires > now
          BY <1>0, <3>1, <3>3 DEF Acceptance
        <4> QED BY <4>1, <4>2 DEF LiveReceipts
      <3> QED BY <2>2, <3>1, <3>2, <3>3
    <2> QED
      BY <1>0, <2>1, <2>3, <2>4
  <1>2. CASE Tick
    <2>1. /\ now' = now + 1 /\ accepted' = accepted /\ receipts' = receipts
      BY <1>2 DEF Tick, durable, history
    <2> SUFFICES ASSUME NEW j \in DOMAIN accepted
                 PROVE  /\ accepted[j].at <= now + 1
                        /\ accepted[j].key # None
                             /\ now + 1 < accepted[j].at + Retention
                             => Receipt(accepted[j]) \in receipts
      BY <2>1 DEF ReceiptsCover
    <2>2. accepted[j].at \in Nat
      BY <1>0 DEF Acceptance
    <2>3. /\ accepted[j].at <= now
          /\ accepted[j].key # None /\ now < accepted[j].at + Retention
               => Receipt(accepted[j]) \in receipts
      BY DEF ReceiptsCover
    <2> QED BY <1>0, <2>2, <2>3
  <1>3. CASE UNCHANGED <<accepted, receipts, now>>
    BY <1>3 DEF ReceiptsCover
  <1> QED
    BY <1>1, <1>2, <1>3
    DEF Next, Admission, Execution, UpdateControl, Claim, DropLease, Start,
        Acknowledge, Release, Crash, durable, history, vars

LEMMA DedupStep ==
  ASSUME TypeOK, ReceiptsCover, DedupWindow, [Next]_vars
  PROVE  DedupWindow'
  <1>0. /\ DOMAIN accepted = 1..Len(accepted) /\ Len(accepted) \in Nat
        /\ now \in Nat /\ Retention \in Nat
        /\ \A j \in DOMAIN accepted : accepted[j] \in Acceptance
    BY TimeAssumption DEF TypeOK
  <1>1. ASSUME NEW t \in Turns, NEW p \in Callers, NEW k \in Keys \cup {None},
               NEW a \in Attentions, Enqueue(t, p, k, a)
        PROVE  DedupWindow'
    <2>1. /\ accepted' \in Seq(Acceptance)
          /\ Len(accepted') = Len(accepted) + 1
          /\ \A j \in 1..Len(accepted) : accepted'[j] = accepted[j]
          /\ accepted'[Len(accepted) + 1] =
               [turn |-> t, principal |-> p, key |-> k, at |-> now]
      BY <1>1, EnqueueShape
    <2>2. DOMAIN accepted' = 1..(Len(accepted) + 1)
      BY <2>1
    <2> SUFFICES ASSUME NEW i \in DOMAIN accepted', NEW j \in DOMAIN accepted',
                        i < j, accepted'[i].key # None,
                        accepted'[i].key = accepted'[j].key,
                        accepted'[i].principal = accepted'[j].principal
                 PROVE  accepted'[j].at >= accepted'[i].at + Retention
      BY DEF DedupWindow
    <2>3. i \in DOMAIN accepted /\ accepted'[i] = accepted[i]
      BY <1>0, <2>1, <2>2
    <2>4. CASE j \in DOMAIN accepted
      BY <1>0, <2>1, <2>3, <2>4 DEF DedupWindow
    <2>5. CASE j = Len(accepted) + 1
      <3>1. /\ accepted[i].key = k /\ k # None /\ accepted[i].principal = p
            /\ accepted'[j].at = now
        BY <2>1, <2>3, <2>5
      <3>2. accepted[i].at \in Nat
        BY <1>0, <2>3 DEF Acceptance
      <3> DEFINE r == [principal |-> accepted[i].principal,
                       key |-> accepted[i].key, turn |-> accepted[i].turn,
                       expires |-> accepted[i].at + Retention]
      <3>3. ~(now < accepted[i].at + Retention)
        <4> SUFFICES ASSUME now < accepted[i].at + Retention
                     PROVE  FALSE
          OBVIOUS
        <4>1. r \in receipts
          BY <2>3, <3>1 DEF ReceiptsCover
        <4>2. r.expires > now
          BY <1>0, <3>2
        <4>3. r \in LiveReceipts
          BY <4>1, <4>2 DEF LiveReceipts
        <4>4. Matches(r, p, k)
          BY <3>1 DEF Matches
        <4> QED BY <1>1, <3>1, <4>3, <4>4 DEF Enqueue, Duplicate
      <3> QED BY <1>0, <2>3, <3>1, <3>2, <3>3
    <2> QED
      BY <1>0, <2>2, <2>4, <2>5
  <1>2. CASE UNCHANGED accepted
    BY <1>2 DEF DedupWindow
  <1> QED
    BY <1>1, <1>2
    DEF Next, Admission, Execution, UpdateControl, Claim, DropLease, Start,
        Acknowledge, Release, Crash, Tick, history, vars

\* The invariant holds at first, and every operation keeps it.
LEMMA InitInv == Init => IInv
  <1> SUFFICES ASSUME Init PROVE IInv
    OBVIOUS
  <1>1. TypeOK
    BY DEF Init, TypeOK, Controls
  <1>2. /\ pending = <<>> /\ accepted = <<>> /\ acks = 0
        /\ acknowledged = None /\ watching = None
        /\ DOMAIN pending = {} /\ DOMAIN accepted = {}
        /\ Len(pending) = 0 /\ Len(accepted) = 0
    BY DEF Init
  <1> QED
    BY <1>1, <1>2 DEF IInv, QueueIsSuffix, AcceptedOnce, OnlyHeadStarted,
       WatchIsCurrent, ReceiptsCover, DedupWindow

LEMMA InvStep ==
  ASSUME IInv, [Next]_vars
  PROVE  IInv'
  BY TypeStep, SuffixStep, OnceStep, StartedStep, WatchStep, CoverStep,
     DedupStep DEF IInv

LEMMA Invariance == Spec => []IInv
  <1>1. IInv /\ [Next]_vars => IInv'
    BY InvStep
  <1> QED
    BY <1>1, InitInv, PTL DEF Spec

\* turn_queue.json keeps what it accepted: once per id and once per key and
\* retention, in order until acknowledged, and only the head is ever admitted.
THEOREM QueueCorrect == Spec => []QueueKept
  <1>1. IInv => QueueKept
    BY DEF IInv, QueueKept
  <1> QED
    BY <1>1, Invariance, PTL

\* The watch a drain listens to shows the control on disk, whoever wrote it.
THEOREM WatchCorrect == Spec => []WatchIsCurrent
  <1>1. IInv => WatchIsCurrent
    BY DEF IInv
  <1> QED
    BY <1>1, Invariance, PTL

-----------------------------------------------------------------------------
(* Refinement. *)

\* Two sequences of turns are equal when their elements are.
LEMMA SameTurns ==
  ASSUME NEW s \in Seq(Turns), NEW u \in Seq(Turns), Len(s) = Len(u),
         \A i \in 1..Len(s) : s[i] = u[i]
  PROVE  s = u
  BY SeqEqual

\* The ids of a queue, in its order.
LEMMA IdsOf ==
  ASSUME NEW q \in Seq(QueuedTurn), NEW s, s = [i \in DOMAIN q |-> q[i].turn]
  PROVE  /\ s \in Seq(Turns)
         /\ Len(s) = Len(q)
         /\ DOMAIN s = DOMAIN q
         /\ \A i \in 1..Len(q) : s[i] = q[i].turn
  <1>1. Len(q) \in Nat /\ DOMAIN q = 1..Len(q)
    OBVIOUS
  <1>2. \A i \in 1..Len(q) : q[i] \in QueuedTurn
    BY ElementOfSeq
  <1>3. \A e \in QueuedTurn : e.turn \in Turns
    BY DEF QueuedTurn
  <1>4. \A i \in 1..Len(q) : q[i].turn \in Turns
    BY <1>2, <1>3
  <1>5. s \in [1..Len(q) -> Turns]
    BY <1>1, <1>4
  <1> QED
    BY <1>1, <1>5

\* An accepted submission is an Accept of the promise.
LEMMA EnqueueRefines ==
  ASSUME IInv, IInv', NEW t \in Turns, NEW p \in Callers,
         NEW k \in Keys \cup {None}, NEW a \in Attentions, Enqueue(t, p, k, a)
  PROVE  Promise!Next
  <1> USE DEF IInv
  <1>0. /\ pending \in Seq(QueuedTurn) /\ pending' \in Seq(QueuedTurn)
        /\ DOMAIN pending = 1..Len(pending) /\ Len(pending) \in Nat
        /\ DOMAIN pending' = 1..Len(pending')
    BY DEF TypeOK
  <1>1. /\ Len(pending') = Len(pending) + 1
        /\ \A j \in 1..Len(pending) :
             /\ pending'[j].turn = pending[j].turn
             /\ pending'[j].control = IF j = 1 /\ Interrupts(p, a)
                                        THEN "Cancel" ELSE pending[j].control
        /\ pending'[Len(pending) + 1] = NewEntry(t, p)
        /\ Len(accepted') = Len(accepted) + 1
        /\ \A j \in 1..Len(accepted) : accepted'[j] = accepted[j]
    BY EnqueueShape
  <1>2. /\ PendingIds \in Seq(Turns) /\ Len(PendingIds) = Len(pending)
        /\ \A i \in 1..Len(pending) : PendingIds[i] = pending[i].turn
        /\ DOMAIN PendingIds = DOMAIN pending
    BY <1>0, IdsOf DEF PendingIds
  <1>3. /\ PendingIds' \in Seq(Turns) /\ Len(PendingIds') = Len(pending')
        /\ \A i \in 1..Len(pending') : PendingIds'[i] = pending'[i].turn
    BY <1>0, IdsOf DEF PendingIds
  <1>4. PendingIds' = Append(PendingIds, t)
    <2> DEFINE u == Append(PendingIds, t)
    <2>1. /\ u \in Seq(Turns) /\ Len(u) = Len(pending) + 1
          /\ \A i \in 1..Len(pending) : u[i] = pending[i].turn
          /\ u[Len(pending) + 1] = t
      BY <1>2, AppendProperties
    <2> HIDE DEF u
    <2>2. pending'[Len(pending) + 1].turn = t
      BY <1>1 DEF NewEntry
    <2>3. ASSUME NEW i \in 1..Len(PendingIds')
          PROVE  PendingIds'[i] = u[i]
      <3>1. CASE i \in 1..Len(pending)
        BY <1>0, <1>1, <1>3, <2>1, <3>1
      <3>2. CASE i = Len(pending) + 1
        BY <1>0, <1>1, <1>3, <2>1, <2>2, <3>2
      <3> QED BY <1>0, <1>1, <1>3, <3>1, <3>2
    <2>4. PendingIds' = u
      BY <1>0, <1>1, <1>3, <2>1, <2>3, SameTurns
    <2> QED BY <2>4 DEF u
  <1>5. Acknowledged' = Acknowledged
    <2>1. acks' = acks /\ acks \in Nat /\ Len(accepted) = acks + Len(pending)
      BY DEF Enqueue, TypeOK, QueueIsSuffix
    <2>2. \A i \in 1..acks : accepted'[i] = accepted[i]
      BY <1>0, <1>1, <2>1
    <2> QED BY <2>1, <2>2 DEF Acknowledged
  <1>6. t \notin Promise!Queued \cup Acknowledged
    <2>1. t \notin AcceptedTurns
      BY AcceptedIsNew
    <2>2. Promise!Queued \subseteq AcceptedTurns
      BY <1>0, <1>2, PendingDistinct DEF Promise!Queued, PendingTurns
    <2>3. Acknowledged \subseteq AcceptedTurns
      <3>1. 1..acks \subseteq DOMAIN accepted
        BY <1>0 DEF TypeOK, QueueIsSuffix
      <3> QED BY <3>1 DEF Acknowledged, AcceptedTurns
    <2> QED BY <2>1, <2>2, <2>3
  <1>7. DOMAIN pending' = DOMAIN pending \cup {Len(pending) + 1}
    BY <1>0, <1>1
  <1>8. pending'[Len(pending) + 1].control # "Cancel"
    BY <1>1 DEF NewEntry
  <1>9. CASE Interrupts(p, a)
    <2>1. pending # <<>> /\ 1 \in DOMAIN pending /\ PendingIds[1] = pending[1].turn
      BY <1>0, <1>2, <1>9 DEF Interrupts
    <2>2. Cancelled' = Cancelled \cup {PendingIds[1]}
      BY <1>0, <1>1, <1>7, <1>8, <1>9, <2>1 DEF Cancelled
    <2>3. PendingIds # <<>>
      BY <1>2, <2>1
    <2> QED
      BY <1>4, <1>5, <1>6, <2>2, <2>3 DEF Promise!Next, Promise!Accept
  <1>10. CASE ~Interrupts(p, a)
    <2>1. Cancelled' = Cancelled \cup {}
      BY <1>0, <1>1, <1>7, <1>8, <1>10 DEF Cancelled
    <2> QED
      BY <1>4, <1>5, <1>6, <2>1 DEF Promise!Next, Promise!Accept
  <1> QED BY <1>9, <1>10

\* What preserves the ids in their order, the cancellations and the completed
\* turns is invisible to the promise.
LEMMA SameIds ==
  ASSUME pending \in Seq(QueuedTurn), pending' \in Seq(QueuedTurn),
         Len(pending') = Len(pending),
         \A j \in DOMAIN pending : pending'[j].turn = pending[j].turn
  PROVE  PendingIds' = PendingIds
  <1>1. DOMAIN pending' = DOMAIN pending
    OBVIOUS
  <1> QED
    BY <1>1 DEF PendingIds

\* A cancellation is a Cancel; no other change of control is visible, because
\* MayControl refuses it for a cancelled turn.
LEMMA ControlRefines ==
  ASSUME TypeOK, NEW i \in DOMAIN pending, NEW by \in Callers,
         NEW c \in Controls, UpdateControl(i, by, c)
  PROVE  Promise!Next \/ UNCHANGED Promise!vars
  <1>1. /\ pending \in Seq(QueuedTurn) /\ pending' \in Seq(QueuedTurn)
        /\ Len(pending') = Len(pending)
        /\ DOMAIN pending' = DOMAIN pending
        /\ \A j \in DOMAIN pending :
             /\ pending'[j].turn = pending[j].turn
             /\ pending'[j].control = IF j = i THEN c ELSE pending[j].control
    BY ControlShape DEF TypeOK
  <1>2. PendingIds' = PendingIds
    BY <1>1, SameIds
  <1>3. Acknowledged' = Acknowledged
    BY DEF UpdateControl, history, Acknowledged
  <1>4. CASE c = "Cancel"
    <2>1. Cancelled' = Cancelled \cup {pending[i].turn}
      BY <1>1, <1>4 DEF Cancelled
    <2>2. pending[i].turn \in Promise!Queued
      BY DEF Promise!Queued, PendingIds
    <2>3. pending[i].turn \in Turns
      <3>1. \A e \in QueuedTurn : e.turn \in Turns
        BY DEF QueuedTurn
      <3>2. pending[i] \in QueuedTurn
        BY <1>1
      <3> QED BY <3>1, <3>2
    <2>4. Promise!Cancel(pending[i].turn)
      BY <1>2, <1>3, <2>1, <2>2 DEF Promise!Cancel
    <2> QED BY <2>3, <2>4 DEF Promise!Next
  <1>5. CASE c # "Cancel"
    <2>1. pending[i].control # "Cancel"
      BY <1>5 DEF UpdateControl, MayControl
    <2>2. Cancelled' = Cancelled
      BY <1>1, <1>5, <2>1 DEF Cancelled
    <2> QED BY <1>2, <1>3, <2>2 DEF Promise!vars
  <1> QED BY <1>4, <1>5

\* Admission to execution is invisible.
LEMMA StartRefines ==
  ASSUME TypeOK, NEW l \in Leases, NEW t \in Turns, Start(l, t)
  PROVE  UNCHANGED Promise!vars
  <1>1. /\ pending \in Seq(QueuedTurn) /\ pending' \in Seq(QueuedTurn)
        /\ Len(pending') = Len(pending)
        /\ DOMAIN pending' = DOMAIN pending
        /\ \A j \in DOMAIN pending :
             /\ pending'[j].turn = pending[j].turn
             /\ pending'[j].control = pending[j].control
    BY StartShape DEF TypeOK
  <1>2. PendingIds' = PendingIds
    BY <1>1, SameIds
  <1>3. Acknowledged' = Acknowledged
    BY DEF Start, history, Acknowledged
  <1>4. Cancelled' = Cancelled
    BY <1>1 DEF Cancelled
  <1> QED BY <1>2, <1>3, <1>4 DEF Promise!vars

\* An acknowledgment completes the head.
LEMMA AcknowledgeRefines ==
  ASSUME IInv, IInv', NEW l \in Leases, NEW t \in Turns, Acknowledge(l, t)
  PROVE  Promise!Next
  <1>0. TypeOK /\ QueueIsSuffix /\ AcceptedOnce
    BY DEF IInv
  <1>1. /\ pending \in Seq(QueuedTurn) /\ pending' \in Seq(QueuedTurn)
        /\ Len(pending) \in Nat /\ Len(pending') \in Nat
        /\ DOMAIN pending = 1..Len(pending) /\ DOMAIN pending' = 1..Len(pending')
        /\ Len(pending) = Len(pending') + 1
        /\ \A j \in 1..Len(pending') : pending'[j] = pending[j + 1]
    BY <1>0, AcknowledgeShape DEF TypeOK
  <1>2. /\ PendingIds \in Seq(Turns) /\ Len(PendingIds) = Len(pending)
        /\ \A i \in 1..Len(pending) : PendingIds[i] = pending[i].turn
    BY <1>1, IdsOf DEF PendingIds
  <1>3. /\ PendingIds' \in Seq(Turns) /\ Len(PendingIds') = Len(pending')
        /\ \A i \in 1..Len(pending') : PendingIds'[i] = pending'[i].turn
    BY <1>1, IdsOf DEF PendingIds
  <1>4. PendingIds # <<>>
    BY <1>1, <1>2
  <1>5. PendingIds' = Tail(PendingIds)
    <2> DEFINE u == Tail(PendingIds)
    <2>1. /\ u \in Seq(Turns) /\ Len(u) = Len(pending')
          /\ \A i \in 1..Len(pending') : u[i] = PendingIds[i + 1]
      BY <1>1, <1>2, <1>4, HeadTailProperties
    <2> HIDE DEF u
    <2>2. \A i \in 1..Len(pending') : u[i] = pending[i + 1].turn
      BY <1>1, <1>2, <2>1
    <2>3. \A i \in 1..Len(PendingIds') : PendingIds'[i] = u[i]
      BY <1>1, <1>3, <2>2
    <2>4. PendingIds' = u
      BY <1>3, <2>1, <2>3, SameTurns
    <2> QED BY <2>4 DEF u
  <1>6. PendingIds[1] = t /\ pending[1].turn = t
    BY <1>1, <1>2 DEF Acknowledge, Front
  <1>7. Acknowledged' = Acknowledged \cup {t}
    <2>1. /\ acks' = acks + 1 /\ acks \in Nat /\ accepted' = accepted
      BY <1>0 DEF Acknowledge, TypeOK
    <2>2. 1..acks' = 1..acks \cup {acks + 1}
      BY <2>1
    <2>3. accepted[acks + 1].turn = t
      BY <1>0, <1>1, <1>6 DEF QueueIsSuffix
    <2> QED BY <2>1, <2>2, <2>3 DEF Acknowledged
  <1>8. Cancelled' = Cancelled \ {t}
    <2>1. \A j \in DOMAIN pending : pending[j].turn = t <=> j = 1
      BY <1>0, <1>1, <1>6, PendingDistinct
    <2>2. \A x : x \in Cancelled' =>
              x \in Cancelled /\ x # t
      <3> SUFFICES ASSUME NEW j \in 1..Len(pending'),
                          pending'[j].control = "Cancel"
                   PROVE  /\ pending'[j].turn \in Cancelled
                          /\ pending'[j].turn # t
        BY <1>1 DEF Cancelled
      <3>1. j + 1 \in DOMAIN pending /\ pending'[j] = pending[j + 1] /\ j + 1 # 1
        BY <1>1
      <3> QED BY <2>1, <3>1 DEF Cancelled
    <2>3. \A x : x \in Cancelled /\ x # t => x \in Cancelled'
      <3> SUFFICES ASSUME NEW j \in 1..Len(pending),
                          pending[j].control = "Cancel", pending[j].turn # t
                   PROVE  pending[j].turn \in Cancelled'
        BY <1>1 DEF Cancelled
      <3>1. j # 1
        BY <1>6
      <3>2. PICK m \in 1..Len(pending') : j = m + 1
        <4>1. j - 1 \in 1..Len(pending') /\ j = (j - 1) + 1
          BY <1>1, <3>1
        <4> QED BY <4>1
      <3>3. pending'[m] = pending[j] /\ m \in DOMAIN pending'
        BY <1>1, <3>2
      <3> QED BY <3>3 DEF Cancelled
    <2> QED BY <2>2, <2>3
  <1> QED
    BY <1>4, <1>5, <1>6, <1>7, <1>8 DEF Promise!Next, Promise!Complete

LEMMA StepRefines ==
  ASSUME IInv, IInv', [Next]_vars
  PROVE  Promise!Next \/ UNCHANGED Promise!vars
  <1>0. TypeOK
    BY DEF IInv
  <1>1. ASSUME NEW t \in Turns, NEW p \in Callers, NEW k \in Keys \cup {None},
               NEW a \in Attentions, Enqueue(t, p, k, a)
        PROVE  Promise!Next
    BY <1>1, EnqueueRefines
  <1>2. ASSUME NEW i \in DOMAIN pending, NEW by \in Callers, NEW c \in Controls,
               UpdateControl(i, by, c)
        PROVE  Promise!Next \/ UNCHANGED Promise!vars
    BY <1>0, <1>2, ControlRefines
  <1>3. ASSUME NEW l \in Leases, NEW t \in Turns, Start(l, t)
        PROVE  UNCHANGED Promise!vars
    BY <1>0, <1>3, StartRefines
  <1>4. ASSUME NEW l \in Leases, NEW t \in Turns, Acknowledge(l, t)
        PROVE  Promise!Next
    BY <1>4, AcknowledgeRefines
  <1>5. CASE UNCHANGED <<pending, accepted, acks>>
    BY <1>5 DEF Promise!vars, PendingIds, Acknowledged, Cancelled
  <1>6. ASSUME NEW l \in Leases, Claim(l) \/ DropLease(l) \/ Release(l)
        PROVE  UNCHANGED <<pending, accepted, acks>>
    BY <1>6, OtherSteps
  <1>7. CASE Crash \/ Tick \/ UNCHANGED vars
    BY <1>5, <1>7 DEF Crash, Tick, durable, history, vars
  <1> QED
    BY <1>1, <1>2, <1>3, <1>4, <1>5, <1>6, <1>7 DEF Next, Admission, Execution

\* StoredTurnCoordinator implements the contract of its traits: every operation,
\* crash or dropped lease is a step of AcceptedWork or changes nothing of it.
THEOREM Refinement == Spec => ImplementsPromise
  <1>1. Init => Promise!Init
    BY DEF Init, Promise!Init, PendingIds, Acknowledged, Cancelled
  <1>2. IInv /\ IInv' /\ [Next]_vars => [Promise!Next]_(Promise!vars)
    BY StepRefines
  <1> QED
    BY <1>1, <1>2, Invariance, PTL DEF Spec, ImplementsPromise, Promise!Spec

-----------------------------------------------------------------------------
(* Whose work a submission touches. *)

\* An entry is what its fields are.
LEMMA EntryFields ==
  ASSUME NEW e \in QueuedTurn, NEW f \in QueuedTurn, e.turn = f.turn,
         e.principal = f.principal, e.started = f.started, e.control = f.control
  PROVE  e = f
  <1>1. /\ e = [turn |-> e.turn, principal |-> e.principal, started |-> e.started,
                control |-> e.control]
        /\ f = [turn |-> f.turn, principal |-> f.principal, started |-> f.started,
                control |-> f.control]
    BY DEF QueuedTurn
  <1> QED
    BY <1>1

\* enqueue leaves the entries of other principals as they are: an interrupt finds
\* the head of its own principal or cancels nothing.
THEOREM ScopeCorrect == Spec => EnqueueIsScoped
  <1> DEFINE Scoped ==
        Len(accepted') > Len(accepted) =>
          \A i \in DOMAIN pending :
            pending[i].principal # accepted'[Len(accepted')].principal
              => pending'[i] = pending[i]
  <1>1. ASSUME TypeOK, NEW t \in Turns, NEW p \in Callers, NEW k \in Keys \cup {None},
               NEW a \in Attentions, Enqueue(t, p, k, a)
        PROVE  Scoped
    <2>0. pending \in Seq(QueuedTurn) /\ Len(pending) \in Nat
      BY <1>1 DEF TypeOK
    <2>1. /\ pending' \in Seq(QueuedTurn)
          /\ Len(pending') = Len(pending) + 1
          /\ \A j \in 1..Len(pending) :
               /\ pending'[j].turn = pending[j].turn
               /\ pending'[j].principal = pending[j].principal
               /\ pending'[j].started = pending[j].started
               /\ pending'[j].control = IF j = 1 /\ Interrupts(p, a)
                                          THEN "Cancel" ELSE pending[j].control
      BY <1>1, EnqueueShape
    <2>2. accepted'[Len(accepted')].principal = p
      <3>1. /\ Len(accepted') = Len(accepted) + 1
            /\ accepted'[Len(accepted) + 1] =
                 [turn |-> t, principal |-> p, key |-> k, at |-> now]
        BY <1>1, EnqueueShape
      <3> QED
        BY <3>1
    <2>3. Interrupts(p, a) => pending[1].principal = p
      BY DEF Interrupts, Front
    <2>4. ASSUME NEW i \in DOMAIN pending, pending[i].principal # p
          PROVE  pending'[i] = pending[i]
      <3>1. pending[i] \in QueuedTurn /\ pending'[i] \in QueuedTurn /\ i \in 1..Len(pending)
        BY <2>0, <2>1
      <3>2. ~(i = 1 /\ Interrupts(p, a))
        BY <2>3, <2>4
      <3> QED
        BY <2>0, <2>1, <3>1, <3>2, EntryFields
    <2> QED
      BY <2>2, <2>4
  <1>2. ASSUME UNCHANGED accepted, TypeOK PROVE Scoped
    <2>1. Len(accepted) \in Nat /\ Len(accepted') = Len(accepted)
      BY <1>2 DEF TypeOK
    <2> QED
      BY <2>1
  <1>3. TypeOK /\ [Next]_vars => [Scoped]_vars
    <2> HIDE DEF Scoped
    <2> QED
      BY <1>1, <1>2 DEF Next, Admission, Execution, UpdateControl, Claim, DropLease,
         Start, Acknowledge, Release, Crash, Tick, history
  <1> QED
    BY <1>3, TypeCorrect, PTL DEF Spec, EnqueueIsScoped
================================================================================
