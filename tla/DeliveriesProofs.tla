-------------------------- MODULE DeliveriesProofs --------------------------
(***************************************************************************)
(* What must reach a conversation or a provider in spite of crashes.       *)
(* Part 1, for any tasks, schedules, policies, lease, cap and number of    *)
(* processes: the plan of a pass, and that the results of the runs of      *)
(* scheduled tasks are heard, and not over and over.                       *)
(* Part 2, for any messages, limits, number of restarts and order of the   *)
(* tasks' steps: what is handed to the provider of an adapter is counted   *)
(* on disk, and an inbound message is heard once.                          *)
(***************************************************************************)
EXTENDS Scheduler, AdapterOutbox, TLAPS

-----------------------------------------------------------------------------
(* Part 1: the task scheduler.  The grid and the plan. *)

Outcomes == [due : Nat, fired : Nat, skipped : Nat]

\* A record is on the grid of its anchor, and its outcome accounts for the slots.
OnGrid(t, r) ==
  /\ ~Every(t) => r.next = Schedule[t].at
  /\ Every(t) =>
       /\ r.next > r.anchor /\ (r.next - r.anchor) % Schedule[t].interval = 0
       /\ r.outcome # NoValue =>
            /\ (r.outcome.fired + r.outcome.skipped) * Schedule[t].interval
                 = r.next - r.outcome.due
            /\ r.outcome.fired <= CatchupCap

\* The slots that a plan fires, in order, from the due one to before the one it
\* resumes at.
FiresOK(t, r, p) ==
  /\ p.fires \in Seq(Slots)
  /\ \A k \in DOMAIN p.fires : r.next <= p.fires[k]
  /\ \A j, k \in DOMAIN p.fires : j < k => p.fires[j] < p.fires[k]
  /\ Every(t) => \A k \in DOMAIN p.fires : p.fires[k] < p.next
  /\ ~Every(t) => p.fires = <<Schedule[t].at>>

\* What is given up are the oldest slots.
NewestOK(t, p) ==
  Policy[t] = "all" /\ Every(t) =>
    /\ p.fires # <<>>
    /\ p.fires[Len(p.fires)] + Schedule[t].interval = p.next
    /\ \A k \in 1 .. Len(p.fires) - 1 : p.fires[k + 1] = p.fires[k] + Schedule[t].interval
    /\ Len(p.fires) = CatchupCap \/ p.fires[1] = p.outcome.due

PlanOK(t, r, p) ==
  /\ p.next \in Nat /\ p.outcome \in Outcomes
  /\ p.completes = ~Every(t) /\ p.outcome.due = r.next
  /\ OnGrid(t, [r EXCEPT !.next = p.next, !.outcome = p.outcome])
  /\ FiresOK(t, r, p) /\ NewestOK(t, p)

LEMMA DivBounds ==
  ASSUME NEW x \in Nat, NEW i \in Nat \ {0}
  PROVE  x \div i \in Nat /\ (x \div i) * i <= x /\ x < (x \div i + 1) * i
OBVIOUS

LEMMA DivShift ==
  ASSUME NEW x \in Nat, NEW i \in Nat \ {0}, NEW m \in Nat
  PROVE  (x + m * i) \div i = x \div i + m
OBVIOUS

LEMMA ModZero ==
  ASSUME NEW x \in Nat, NEW i \in Nat \ {0}, x % i = 0
  PROVE  x = (x \div i) * i /\ x \div i \in Nat
OBVIOUS

LEMMA ModMultiple ==
  ASSUME NEW i \in Nat \ {0}, NEW m \in Nat
  PROVE  (m * i) % i = 0
OBVIOUS

LEMMA TimesMonotone ==
  ASSUME NEW i \in Nat \ {0}, NEW m \in Nat, NEW n \in Nat
  PROVE  /\ m * i \in Nat /\ (m <= n => m * i <= n * i) /\ (m < n => m * i < n * i)
         /\ (m + n) * i = m * i + n * i /\ (m + 1) * i = m * i + i
OBVIOUS

LEMMA ScheduleTypes ==
  ASSUME NEW t \in Tasks
  PROVE  /\ Every(t) => Schedule[t].interval \in Nat \ {0}
         /\ ~Every(t) => Schedule[t].at \in Nat
         /\ Policy[t] \in {"skip", "once", "all"}
BY SchedulerAssumption DEF Every

\* Due slots, and the slot after the clock.
LEMMA NextSlot ==
  ASSUME NEW t \in Tasks, clock \in Nat, NEW r \in TaskRecords, OnGrid(t, r), r.next <= clock,
         Every(t)
  PROVE  LET i == Schedule[t].interval
             q == Overdue(t, r)
             n == NextSlotAfter(t, r.anchor, clock)
         IN /\ i \in Nat \ {0} /\ q \in Nat
            /\ n = r.next + (q + 1) * i /\ r.next + q * i <= clock /\ clock < n
            /\ n \in Nat /\ n > r.anchor /\ (n - r.anchor) % i = 0
<1> DEFINE i == Schedule[t].interval
           q == Overdue(t, r)
           n == NextSlotAfter(t, r.anchor, clock)
           m == (r.next - r.anchor) \div i
<1>1. i \in Nat \ {0}
  BY ScheduleTypes
<1>2. r.next \in Nat /\ r.anchor \in Nat /\ r.next > r.anchor /\ (r.next - r.anchor) % i = 0
  BY DEF OnGrid, TaskRecords
<1>3. m \in Nat /\ r.next - r.anchor = m * i
  <2>1. r.next - r.anchor \in Nat
    BY <1>2
  <2> QED
    BY <1>1, <1>2, <2>1, ModZero
<1>4. q = (clock - r.next) \div i /\ clock - r.next \in Nat
  BY <1>2 DEF Overdue, Sat
<1>5. q \in Nat /\ q * i <= clock - r.next /\ clock - r.next < (q + 1) * i
  BY <1>1, <1>4, DivBounds
<1>6. (clock - r.anchor) \div i = q + m
  <2>1. clock - r.anchor = (clock - r.next) + m * i
    <3> HIDE DEF m, q
    <3>1. m * i \in Nat
      BY <1>1, <1>3, TimesMonotone
    <3> QED
      BY <1>2, <1>3, <3>1
  <2>2. ((clock - r.next) + m * i) \div i = (clock - r.next) \div i + m
    BY <1>1, <1>3, <1>4, DivShift
  <2> QED
    BY <2>1, <2>2, <1>4
<1>7. n = r.anchor + (q + m + 1) * i
  BY <1>2, <1>6 DEF NextSlotAfter, Sat
<1> HIDE DEF m, q, n, i
<1>8. (q + m + 1) * i = (q + 1) * i + m * i /\ (q + 1) * i \in Nat /\ m * i \in Nat
      /\ q * i \in Nat
  <2>1. q + 1 \in Nat /\ q + m + 1 = (q + 1) + m
    BY <1>3, <1>5
  <2> QED
    BY <1>1, <1>3, <1>5, <2>1, TimesMonotone
<1>9. n = r.next + (q + 1) * i /\ n \in Nat
  BY <1>2, <1>3, <1>7, <1>8
<1>10. n - r.anchor = (q + m + 1) * i /\ q + m + 1 \in Nat
  BY <1>2, <1>3, <1>5, <1>7, <1>8
<1>11. (n - r.anchor) % i = 0
  BY <1>1, <1>10, ModMultiple
<1> QED
  BY <1>1, <1>2, <1>5, <1>8, <1>9, <1>11 DEF m, q, n, i

\* The catch-up: the last slots of the backlog, as many as the cap allows.
LEMMA CatchUpFacts ==
  ASSUME NEW t \in Tasks, clock \in 0 .. MaxClock, NEW r \in TaskRecords, OnGrid(t, r),
         r.next <= clock, Every(t)
  PROVE  LET i == Schedule[t].interval
             q == Overdue(t, r)
             c == CatchUp(t, r)
             n == NextSlotAfter(t, r.anchor, clock)
         IN /\ c \in Seq(Slots) /\ Len(c) \in 1 .. CatchupCap /\ Len(c) <= q + 1
            /\ \A k \in DOMAIN c : r.next <= c[k] /\ c[k] <= clock
            /\ \A j, k \in DOMAIN c : j < k => c[j] < c[k]
            /\ c[Len(c)] + i = n
            /\ \A k \in 1 .. Len(c) - 1 : c[k + 1] = c[k] + i
            /\ Len(c) = CatchupCap \/ c[1] = r.next
<1> DEFINE i == Schedule[t].interval
           q == Overdue(t, r)
           n == NextSlotAfter(t, r.anchor, clock)
           c == CatchUp(t, r)
           b == Sat(q + 1, CatchupCap)
           l == (q + 1) - b
<1>1. /\ clock \in Nat /\ clock <= MaxClock /\ MaxClock \in Nat /\ LeaseMs \in Nat
      /\ CatchupCap \in Nat \ {0} /\ r.next \in Nat
  BY SchedulerAssumption DEF TaskRecords
<1>2. /\ i \in Nat \ {0} /\ q \in Nat
      /\ n = r.next + (q + 1) * i /\ r.next + q * i <= clock /\ clock < n
  BY <1>1, NextSlot
<1>3. c = [k \in 1 .. l |-> r.next + (b + k - 1) * i]
  BY DEF CatchUp
<1>4. b \in Nat /\ l \in 1 .. CatchupCap /\ b + l = q + 1 /\ (l = CatchupCap \/ b = 0)
  <2> HIDE DEF q
  <2> QED
    BY <1>1, <1>2 DEF Sat
<1> HIDE DEF i, q, n, c, b, l
<1>5. \A k \in 1 .. l : /\ b + k - 1 \in Nat /\ b + k - 1 <= q
                        /\ (b + k - 1) * i \in Nat /\ (b + k - 1) * i <= q * i /\ q * i \in Nat
  <2> SUFFICES ASSUME NEW k \in 1 .. l
               PROVE  /\ b + k - 1 \in Nat /\ b + k - 1 <= q
                      /\ (b + k - 1) * i \in Nat /\ (b + k - 1) * i <= q * i /\ q * i \in Nat
    OBVIOUS
  <2>1. b + k - 1 \in Nat /\ b + k - 1 <= q
    BY <1>1, <1>2, <1>4
  <2> QED
    BY <1>2, <2>1, TimesMonotone
<1>6. \A k \in 1 .. l : /\ c[k] = r.next + (b + k - 1) * i
                        /\ c[k] \in Nat /\ r.next <= c[k] /\ c[k] <= clock
  <2> SUFFICES ASSUME NEW k \in 1 .. l
               PROVE  /\ c[k] = r.next + (b + k - 1) * i
                      /\ c[k] \in Nat /\ r.next <= c[k] /\ c[k] <= clock
    OBVIOUS
  <2>1. c[k] = r.next + (b + k - 1) * i
    BY <1>3
  <2>2. (b + k - 1) * i \in Nat /\ (b + k - 1) * i <= q * i /\ q * i \in Nat
    BY <1>5
  <2> DEFINE x == (b + k - 1) * i
  <2>3. c[k] = r.next + x /\ x \in Nat /\ x <= q * i
    BY <2>1, <2>2
  <2> HIDE DEF x
  <2> QED
    BY <1>1, <1>2, <2>1, <2>2, <2>3
<1>7. c \in Seq(Slots) /\ Len(c) = l /\ DOMAIN c = 1 .. l
  <2>1. l \in Nat
    BY <1>1, <1>4
  <2>2. \A k \in 1 .. l : c[k] \in Slots
    BY <1>1, <1>6 DEF Slots
  <2>3. c \in [1 .. l -> Slots]
    BY <1>3, <2>2
  <2> QED
    BY <2>1, <2>3
<1>8. \A j, k \in 1 .. l : j < k => c[j] < c[k]
  <2> SUFFICES ASSUME NEW j \in 1 .. l, NEW k \in 1 .. l, j < k
               PROVE  c[j] < c[k]
    OBVIOUS
  <2>1. b + j - 1 \in Nat /\ b + k - 1 \in Nat /\ b + j - 1 < b + k - 1
    BY <1>4, <1>5
  <2>2. (b + j - 1) * i < (b + k - 1) * i
    BY <1>2, <2>1, TimesMonotone
  <2>3. (b + j - 1) * i \in Nat /\ (b + k - 1) * i \in Nat
    BY <1>5
  <2> QED
    BY <1>1, <1>6, <2>2, <2>3
<1>9. c[l] + i = n
  <2>1. l \in 1 .. l /\ b + l - 1 = q
    BY <1>1, <1>2, <1>4
  <2>2. c[l] = r.next + q * i
    BY <1>6, <2>1
  <2>3. (q + 1) * i = q * i + i /\ q * i \in Nat
    BY <1>2, TimesMonotone
  <2> QED
    BY <1>1, <1>2, <2>2, <2>3
<1>10. \A k \in 1 .. l - 1 : c[k + 1] = c[k] + i
  <2> SUFFICES ASSUME NEW k \in 1 .. l - 1
               PROVE  c[k + 1] = c[k] + i
    OBVIOUS
  <2>1. k \in 1 .. l /\ k + 1 \in 1 .. l
    BY <1>1, <1>4
  <2>2. c[k] = r.next + (b + k - 1) * i /\ c[k + 1] = r.next + (b + (k + 1) - 1) * i
    BY <1>6, <2>1
  <2>3. b + k - 1 \in Nat /\ (b + k - 1) * i \in Nat
    BY <1>5, <2>1
  <2>4. b + (k + 1) - 1 = (b + k - 1) + 1
    BY <1>4, <2>1
  <2>5. ((b + k - 1) + 1) * i = (b + k - 1) * i + i
    BY <1>2, <2>3, TimesMonotone
  <2> QED
    BY <1>1, <1>2, <2>2, <2>3, <2>4, <2>5
<1>11. l = CatchupCap \/ c[1] = r.next
  <2>1. SUFFICES ASSUME b = 0 PROVE c[1] = r.next
    BY <1>4
  <2>2. 1 \in 1 .. l /\ b + 1 - 1 = 0
    BY <1>1, <1>4, <2>1
  <2>3. c[1] = r.next + 0 * i
    BY <1>6, <2>2
  <2> QED
    BY <1>1, <1>2, <2>3
<1>12. l <= q + 1
  BY <1>1, <1>2, <1>4
<1> QED
  BY <1>4, <1>6, <1>7, <1>8, <1>9, <1>10, <1>11, <1>12 DEF i, q, n, c

\* What plan_missed_fires returns for a record that is due.
LEMMA PlanFacts ==
  ASSUME NEW t \in Tasks, clock \in 0 .. MaxClock, NEW r \in TaskRecords, OnGrid(t, r),
         r.next <= clock, ~r.completed
  PROVE  /\ PlanOK(t, r, PlanMissedFires(t, r))
         /\ \A k \in DOMAIN PlanMissedFires(t, r).fires : PlanMissedFires(t, r).fires[k] <= clock
         /\ Every(t) => clock < PlanMissedFires(t, r).next
<1> DEFINE p == PlanMissedFires(t, r)
           f == FireSlots(t, r)
           q == Overdue(t, r)
           n == NextSlotAfter(t, r.anchor, clock)
           i == Schedule[t].interval
<1>1. /\ clock \in Nat /\ clock <= MaxClock /\ MaxClock \in Nat /\ LeaseMs \in Nat
      /\ CatchupCap \in Nat \ {0} /\ r.next \in Nat
  BY SchedulerAssumption DEF TaskRecords
<1>2. r.next \in Slots
  BY <1>1 DEF Slots
<1>3. p = [fires |-> f, next |-> n, completes |-> ~Every(t),
           outcome |-> [due |-> r.next, fired |-> Len(f),
                        skipped |-> IF Every(t) THEN Sat(q + 1, Len(f)) ELSE 0]]
  BY DEF PlanMissedFires
<1>4. CASE ~Every(t)
  <2>1. f = <<Schedule[t].at>> /\ n = Schedule[t].at /\ r.next = Schedule[t].at
    BY <1>4 DEF FireSlots, NextSlotAfter, OnGrid
  <2>2. Len(f) = 1 /\ DOMAIN f = {1} /\ f[1] = r.next /\ f \in Seq(Slots)
    BY <1>2, <2>1
  <2>3. p.outcome \in Outcomes /\ p.next \in Nat
    BY <1>1, <1>3, <1>4, <2>1, <2>2 DEF Outcomes
  <2>4. FiresOK(t, r, p)
    BY <1>1, <1>3, <1>4, <2>1, <2>2 DEF FiresOK
  <2>5. OnGrid(t, [r EXCEPT !.next = p.next, !.outcome = p.outcome])
    BY <1>3, <1>4, <2>1 DEF OnGrid, TaskRecords
  <2>6. \A k \in DOMAIN p.fires : p.fires[k] <= clock
    BY <1>3, <2>2
  <2> QED
    BY <1>3, <1>4, <2>3, <2>4, <2>5, <2>6 DEF PlanOK, NewestOK
<1>5. CASE Every(t)
  <2>1. /\ i \in Nat \ {0} /\ q \in Nat
        /\ n = r.next + (q + 1) * i /\ r.next + q * i <= clock /\ clock < n
        /\ n \in Nat /\ n > r.anchor /\ (n - r.anchor) % i = 0
    BY <1>1, <1>5, NextSlot
  <2>2. /\ f \in Seq(Slots) /\ Len(f) \in 0 .. CatchupCap /\ Len(f) <= q + 1
        /\ \A k \in DOMAIN f : r.next <= f[k] /\ f[k] <= clock
        /\ \A j, k \in DOMAIN f : j < k => f[j] < f[k]
        /\ Policy[t] = "all" =>
             /\ f # <<>> /\ f[Len(f)] + i = n
             /\ \A k \in 1 .. Len(f) - 1 : f[k + 1] = f[k] + i
             /\ Len(f) = CatchupCap \/ f[1] = r.next
    <3>1. CASE f = <<>> /\ Policy[t] = "skip"
      BY <1>1, <2>1, <3>1
    <3>2. CASE f = CatchUp(t, r)
      <4> DEFINE c == CatchUp(t, r)
      <4>1. /\ c \in Seq(Slots) /\ Len(c) \in 1 .. CatchupCap /\ Len(c) <= q + 1
            /\ \A k \in DOMAIN c : r.next <= c[k] /\ c[k] <= clock
            /\ \A j, k \in DOMAIN c : j < k => c[j] < c[k]
            /\ c[Len(c)] + i = n
            /\ \A k \in 1 .. Len(c) - 1 : c[k + 1] = c[k] + i
            /\ Len(c) = CatchupCap \/ c[1] = r.next
        BY <1>5, CatchUpFacts
      <4> HIDE DEF c, q, n, i
      <4>2. c # <<>>
        BY <4>1
      <4>3. Len(c) \in 0 .. CatchupCap
        BY <1>1, <4>1
      <4> QED
        BY <3>2, <4>1, <4>2, <4>3 DEF c
    <3>3. CASE f = <<r.next>> /\ (Policy[t] = "all" => q = 0)
      <4>1. Len(f) = 1 /\ DOMAIN f = {1} /\ f[1] = r.next /\ f \in Seq(Slots) /\ f # <<>>
        BY <1>2, <3>3
      <4>2. Policy[t] = "all" => r.next + i = n
        <5> SUFFICES ASSUME q = 0 PROVE r.next + i = n
          BY <3>3
        <5>1. n = r.next + (0 + 1) * i
          BY <2>1
        <5>2. (0 + 1) * i = 0 * i + i /\ 0 * i = 0
          BY <2>1, TimesMonotone
        <5> QED
          BY <1>1, <2>1, <5>1, <5>2
      <4> HIDE DEF f, q, n, i
      <4> QED
        BY <1>1, <2>1, <4>1, <4>2
    <3>4. \/ f = <<>> /\ Policy[t] = "skip"
          \/ f = CatchUp(t, r)
          \/ f = <<r.next>> /\ (Policy[t] = "all" => q = 0)
      <4>1. CASE Policy[t] = "skip" /\ q > 0
        BY <1>5, <4>1 DEF FireSlots
      <4>2. CASE Policy[t] = "all" /\ q > 0
        BY <1>5, <4>2 DEF FireSlots
      <4>3. CASE ~(Policy[t] = "skip" /\ q > 0) /\ ~(Policy[t] = "all" /\ q > 0)
        BY <1>5, <2>1, <4>3 DEF FireSlots
      <4> QED
        BY <4>1, <4>2, <4>3
    <3> QED
      BY <3>1, <3>2, <3>3, <3>4
  <2>3. \A k \in DOMAIN f : f[k] < n
    <3> HIDE DEF f, n, q, i
    <3>1. \A k \in DOMAIN f : f[k] \in Nat
      BY <1>1, <2>2 DEF Slots
    <3> QED
      BY <1>1, <2>1, <2>2, <3>1
  <2> DEFINE s == Sat(q + 1, Len(f))
  <2>4. s \in Nat /\ Len(f) \in Nat /\ Len(f) + s = q + 1
    <3> HIDE DEF f, n, q, i
    <3> QED
      BY <1>1, <2>1, <2>2 DEF Sat
  <2> HIDE DEF s
  <2>5. p.outcome = [due |-> r.next, fired |-> Len(f), skipped |-> s] /\ p.next = n
        /\ p.fires = f /\ p.completes = ~Every(t)
    BY <1>3, <1>5 DEF s
  <2> HIDE DEF p, f, q, n, i
  <2>6. p.outcome \in Outcomes
    BY <1>1, <2>4, <2>5 DEF Outcomes
  <2>7. OnGrid(t, [r EXCEPT !.next = p.next, !.outcome = p.outcome])
    <3> DEFINE g == [r EXCEPT !.next = p.next, !.outcome = p.outcome]
    <3>1. g.next = n /\ g.anchor = r.anchor /\ g.outcome = p.outcome
      BY <2>5 DEF TaskRecords
    <3>2. (Len(f) + s) * i = n - r.next
      <4> DEFINE x == (q + 1) * i
      <4>1. q + 1 \in Nat
        BY <2>1
      <4>2. x \in Nat
        BY <2>1, <4>1, TimesMonotone
      <4>3. (Len(f) + s) * i = x /\ n = r.next + x
        BY <2>1, <2>4
      <4> HIDE DEF x
      <4>4. x = n - r.next
        BY <1>1, <4>2, <4>3
      <4> QED
        BY <4>3, <4>4
    <3>3. g.outcome.fired = Len(f) /\ g.outcome.skipped = s /\ g.outcome.due = r.next
      BY <2>5, <3>1
    <3>4. Len(f) <= CatchupCap
      BY <1>1, <2>2
    <3> HIDE DEF g
    <3> QED
      BY <1>5, <2>1, <3>1, <3>2, <3>3, <3>4 DEF OnGrid, g, i
  <2>8. FiresOK(t, r, p)
    BY <1>5, <2>2, <2>3, <2>5 DEF FiresOK
  <2>9. NewestOK(t, p)
    BY <2>2, <2>5 DEF NewestOK, i
  <2>10. p.outcome.due = r.next
    BY <2>5
  <2> QED
    BY <1>5, <2>1, <2>2, <2>5, <2>6, <2>7, <2>8, <2>9, <2>10 DEF PlanOK, p
<1> QED
  BY <1>4, <1>5

-----------------------------------------------------------------------------
(* The invariant. *)

Stages == {"idle", "plan", "fire", "pend", "send", "mark", "record", "resume"}
Firing == {"fire", "pend", "send", "mark", "record"}
Plans == [fires : Seq(Slots), next : Nat, completes : BOOLEAN, outcome : Outcomes]
Works == [pc : Stages, task : TaskRecords \cup {NoValue}, plan : Plans \cup {NoValue},
          todo : Seq(Slots)]

SchedTypes ==
  /\ clock \in 0 .. MaxClock /\ starts \in Nat
  /\ daemon \in {"down", "redeliver", "poll", "pass"}
  /\ disk \in [Tasks -> TaskRecords \cup {NoValue}]
  /\ edit \in [Tasks -> TaskRecords \cup {NoValue}]
  /\ runs \in [Tasks -> Works]
  /\ due \subseteq [id : Tasks, task : TaskRecords, now : Nat]
  /\ queue \subseteq [fire : Fires, sent : BOOLEAN]
  /\ pendingFires \subseteq Fires /\ deliveredFires \subseteq Fires /\ res \subseteq Fires
  /\ fired \in [Tasks -> [Slots -> Nat]] /\ wakes \in [Tasks -> [Slots -> Nat]]
  /\ resumed \in [Tasks -> Nat]

InSeq(x, s) == \E k \in DOMAIN s : s[k] = x
Working(t) == runs[t].pc # "idle"
Planned(t) == runs[t].pc \notin {"idle", "plan"}
Active(r) == r # NoValue /\ r.enabled /\ ~r.completed

\* A copy that was due when it was read.
DueCopy(t, r) ==
  r \in TaskRecords /\ OnGrid(t, r) /\ ~r.completed /\ r.next <= clock /\ resumed[t] <= r.next

\* Of all copies of a record only those of the pass can be put back enabled, and
\* none of them is behind the slot where the grid resumed.
FilesOK(t) ==
  /\ disk[t] # NoValue => OnGrid(t, disk[t])
  /\ Active(disk[t]) => resumed[t] <= disk[t].next
  /\ edit[t] # NoValue => OnGrid(t, edit[t]) /\ ~edit[t].enabled

DueOK ==
  \A d \in due : /\ DueCopy(d.id, d.task) /\ d.task.enabled
                 /\ runs[d.id] = Asleep
                 /\ \A e \in due : e.id = d.id => e = d

Todo(t) ==
  /\ \A j, k \in DOMAIN runs[t].todo : j < k => runs[t].todo[j] < runs[t].todo[k]
  /\ \A k \in DOMAIN runs[t].todo :
       InSeq(runs[t].todo[k], runs[t].plan.fires) /\ runs[t].todo[k] <= clock
  /\ runs[t].pc \in Firing => runs[t].todo # <<>>
  /\ runs[t].pc = "resume" /\ runs[t].task.enabled => runs[t].todo = <<>>

WorkOK(t) ==
  /\ ~Working(t) => runs[t] = Asleep
  /\ Working(t) =>
       /\ DueCopy(t, runs[t].task)
       /\ ~runs[t].task.enabled => t \notin owners
       /\ disk[t] # NoValue /\ disk[t].enabled =>
            ~disk[t].completed /\ disk[t].next = runs[t].task.next
  /\ Planned(t) => runs[t].plan \in Plans /\ PlanOK(t, runs[t].task, runs[t].plan) /\ Todo(t)

\* What a runner has in memory, and that it has started.
RunnerOK ==
  /\ daemon # "pass" => due = {} /\ Resting
  /\ daemon # "redeliver" => queue = {}
  /\ daemon # "down" => starts > 0
  /\ starts = 0 => pendingFires = {}

\* The conversation hears of the slot, has no say in it, or is gone.
Reached(t, s) ==
  \/ wakes[t][s] > 0 \/ <<t, s>> \in pendingFires \/ <<t, s>> \in errored \/ s \in passed[t]
  \/ t \notin owners

\* The slot is run again: every copy is still before it.
Owed(t, s) ==
  /\ disk[t] # NoValue /\ disk[t].enabled => ~disk[t].completed /\ disk[t].next <= s
  /\ \A d \in due : d.id = t => d.task.next <= s
  /\ Working(t) => runs[t].task.next <= s
  /\ Planned(t) => \/ InSeq(s, runs[t].todo)
                   \/ ~InSeq(s, runs[t].plan.fires) /\ s < runs[t].plan.next

RanOK(t, s) ==
  <<t, s>> \in res => /\ s <= clock /\ (~Every(t) => s = Schedule[t].at)
                      /\ Reached(t, s) \/ Owed(t, s)

\* How far the wakeup of the slot in hand has come.
HeadOK(t) ==
  /\ runs[t].pc = "send" => <<t, Slot(t)>> \in pendingFires \cup deliveredFires
  /\ runs[t].pc = "mark" => wakes[t][Slot(t)] > 0
  /\ runs[t].pc = "record" /\ <<t, Slot(t)>> \in res => Reached(t, Slot(t))

SettledOK ==
  /\ \A f \in deliveredFires : wakes[f[1]][f[2]] > 0 \/ f[1] \notin owners
  /\ \A q \in queue : q.sent => wakes[q.fire[1]][q.fire[2]] > 0

\* The process may still begin this slot.
Left(t, s) ==
  \/ ~Working(t) /\ Active(disk[t]) /\ disk[t].next <= s
  \/ \E d \in due : d.id = t /\ d.task.next <= s
  \/ runs[t].pc = "plan" /\ runs[t].task.next <= s
  \/ Planned(t) /\ Every(t) /\ runs[t].plan.next <= s
  \/ runs[t].pc = "fire" /\ InSeq(s, runs[t].todo)
  \/ runs[t].pc \in Firing \ {"fire"} /\ InSeq(s, Tail(runs[t].todo))

BudgetOK(t, s) ==
  /\ fired[t][s] <= starts
  /\ wakes[t][s] > 0 => wakes[t][s] <= 2 * starts - 1
  /\ daemon # "down" /\ Left(t, s) => fired[t][s] < starts /\ wakes[t][s] < 2 * starts - 1
  /\ runs[t].pc \in {"pend", "send"} /\ s = Slot(t) => wakes[t][s] < 2 * starts - 1
  /\ [fire |-> <<t, s>>, sent |-> FALSE] \in queue => wakes[t][s] + 1 < 2 * starts - 1

\* A task that was never created has left no trace.
NewOK(t) ==
  disk[t] = NoValue /\ t \notin dropped =>
    /\ edit[t] = NoValue /\ ~Working(t)
    /\ \A d \in due : d.id # t
    /\ \A q \in queue : q.fire[1] # t
    /\ \A s \in Slots : /\ fired[t][s] = 0 /\ wakes[t][s] = 0
                        /\ <<t, s>> \notin res \cup pendingFires

\* The copies of the records, for PlanKept ...
CopyInv ==
  /\ SchedTypes /\ DueOK /\ RunnerOK
  /\ \A t \in Tasks : FilesOK(t) /\ WorkOK(t) /\ NewOK(t)

\* ... and what is owed to the conversations, for FiresHeard.
HearInv ==
  /\ passed \in [Tasks -> SUBSET Slots] /\ SettledOK /\ NoResurrection
  /\ \A t \in Tasks : HeadOK(t)
  /\ \A t \in Tasks, s \in Slots : RanOK(t, s) /\ BudgetOK(t, s)

SchedInv == CopyInv /\ HearInv

LEMMA SchedInvInit == SchedInit => SchedInv
<1> SUFFICES ASSUME SchedInit PROVE SchedInv
  OBVIOUS
<1>1. SchedTypes
  <2>1. Asleep \in Works
    BY DEF Asleep, Works, Stages
  <2> QED
    BY <2>1, SchedulerAssumption DEF SchedTypes, SchedInit
<1>2. \A t \in Tasks : runs[t] = Asleep /\ runs[t].pc = "idle" /\ disk[t] = NoValue /\ edit[t] = NoValue
  BY DEF SchedInit, Asleep
<1>3. \A t \in Tasks, s \in Slots : fired[t][s] = 0 /\ wakes[t][s] = 0
  BY DEF SchedInit
<1>4. due = {} /\ queue = {} /\ res = {} /\ pendingFires = {} /\ deliveredFires = {} /\ starts = 0
      /\ daemon = "down"
  BY DEF SchedInit
<1>5. DueOK /\ RunnerOK /\ SettledOK /\ NoResurrection
  BY <1>2, <1>4 DEF DueOK, RunnerOK, SettledOK, NoResurrection, Resting
<1>6. \A t \in Tasks : FilesOK(t) /\ WorkOK(t) /\ HeadOK(t) /\ NewOK(t)
  BY <1>2, <1>3, <1>4 DEF FilesOK, WorkOK, HeadOK, NewOK, Active, Working, Planned
<1>7. \A t \in Tasks, s \in Slots : RanOK(t, s) /\ BudgetOK(t, s)
  BY <1>2, <1>3, <1>4 DEF RanOK, BudgetOK
<1>8. passed \in [Tasks -> SUBSET Slots]
  BY DEF SchedInit
<1> QED
  BY <1>1, <1>5, <1>6, <1>7, <1>8 DEF SchedInv, CopyInv, HearInv

-----------------------------------------------------------------------------
(* The copies of a record. *)

LEMMA WorkFields ==
  ASSUME SchedTypes, NEW t \in Tasks
  PROVE  /\ runs[t] \in Works /\ runs[t].pc \in Stages
         /\ runs[t].task \in TaskRecords \cup {NoValue}
         /\ runs[t].plan \in Plans \cup {NoValue} /\ runs[t].todo \in Seq(Slots)
BY DEF SchedTypes, Works

LEMMA SlotTypes == \A s \in Slots : s \in Nat
BY SchedulerAssumption DEF Slots

\* A task that the step leaves alone.
LEMMA CopiesKept ==
  ASSUME CopyInv, NEW u \in Tasks, runs'[u] = runs[u], disk'[u] = disk[u], edit'[u] = edit[u],
         resumed'[u] = resumed[u], clock' \in Nat, clock <= clock', owners' \subseteq owners
  PROVE  FilesOK(u)' /\ WorkOK(u)'
<1>1. FilesOK(u) /\ WorkOK(u) /\ SchedTypes
  BY DEF CopyInv
<1>2. clock \in Nat
  BY <1>1 DEF SchedTypes
<1>3. FilesOK(u)'
  BY <1>1 DEF FilesOK, Active
<1>4. Working(u)' = Working(u) /\ Planned(u)' = Planned(u)
  BY DEF Working, Planned
<1>5. DueCopy(u, runs[u].task) => DueCopy(u, runs[u].task)'
  <2> SUFFICES ASSUME DueCopy(u, runs[u].task) PROVE DueCopy(u, runs[u].task)'
    OBVIOUS
  <2>1. runs[u].task.next \in Nat
    BY DEF DueCopy, TaskRecords
  <2> QED
    BY <1>2, <2>1 DEF DueCopy
<1>6. Todo(u) => Todo(u)'
  <2>1. runs[u].todo \in Seq(Slots)
    BY <1>1, WorkFields
  <2> QED
    BY <1>2, <2>1, SlotTypes DEF Todo
<1>7. WorkOK(u)'
  BY <1>1, <1>4, <1>5, <1>6 DEF WorkOK
<1> QED
  BY <1>3, <1>7

\* A step of run_task for t.
LEMMA TaskStepCopies ==
  ASSUME CopyInv, NEW t \in Tasks, daemon = "pass", due = {}, Working(t),
         runs' \in [Tasks -> Works], disk' \in [Tasks -> TaskRecords \cup {NoValue}],
         disk'[t] \in TaskRecords \/ disk'[t] = disk[t],
         resumed' \in [Tasks -> Nat],
         fired' \in [Tasks -> [Slots -> Nat]], wakes' \in [Tasks -> [Slots -> Nat]],
         pendingFires' \subseteq Fires, deliveredFires' \subseteq Fires, res' \subseteq Fires,
         UNCHANGED <<clock, owners, daemon, queue, due, edit, starts, dropped>>,
         \A u \in Tasks : u # t =>
           /\ runs'[u] = runs[u] /\ disk'[u] = disk[u] /\ resumed'[u] = resumed[u]
           /\ fired'[u] = fired[u] /\ wakes'[u] = wakes[u]
           /\ \A s \in Slots : <<u, s>> \in res' \cup pendingFires' => <<u, s>> \in res \cup pendingFires,
         FilesOK(t)', WorkOK(t)'
  PROVE  CopyInv'
<1>1. SchedTypes /\ RunnerOK /\ \A u \in Tasks : NewOK(u)
  BY DEF CopyInv
<1>2. SchedTypes'
  BY <1>1 DEF SchedTypes
<1>3. DueOK'
  BY DEF DueOK
<1>4. RunnerOK'
  BY <1>1 DEF RunnerOK
<1>5. \A u \in Tasks : FilesOK(u)' /\ WorkOK(u)'
  <2> SUFFICES ASSUME NEW u \in Tasks, u # t PROVE FilesOK(u)' /\ WorkOK(u)'
    OBVIOUS
  <2>1. clock \in Nat
    BY <1>1 DEF SchedTypes
  <2> QED
    BY <2>1, CopiesKept
<1>6. ASSUME NEW u \in Tasks PROVE NewOK(u)'
  <2>1. CASE u = t
    <3>1. ~(disk[t] = NoValue /\ t \notin dropped)
      BY <1>1 DEF NewOK
    <3>2. ~(disk'[t] = NoValue /\ t \notin dropped')
      BY <3>1, SchedulerAssumption
    <3> QED
      BY <2>1, <3>2 DEF NewOK
  <2>2. CASE u # t
    <3>1. runs'[u] = runs[u] /\ disk'[u] = disk[u] /\ fired'[u] = fired[u] /\ wakes'[u] = wakes[u]
          /\ \A s \in Slots : <<u, s>> \in res' \cup pendingFires' => <<u, s>> \in res \cup pendingFires
      BY <2>2
    <3>2. due' = due /\ queue' = queue /\ edit' = edit /\ dropped' = dropped
      OBVIOUS
    <3> SUFFICES ASSUME disk[u] = NoValue /\ u \notin dropped PROVE NewOK(u)'
      BY <3>1, <3>2 DEF NewOK
    <3>3. /\ edit[u] = NoValue /\ ~Working(u) /\ (\A d \in due : d.id # u)
          /\ \A q \in queue : q.fire[1] # u
          /\ \A s \in Slots : fired[u][s] = 0 /\ wakes[u][s] = 0 /\ <<u, s>> \notin res \cup pendingFires
      BY <1>1 DEF NewOK
    <3>4. \A s \in Slots : fired'[u][s] = 0 /\ wakes'[u][s] = 0 /\ <<u, s>> \notin res' \cup pendingFires'
      BY <3>1, <3>3
    <3>5. ~Working(u)'
      BY <3>1, <3>3 DEF Working
    <3> QED
      BY <3>2, <3>3, <3>4, <3>5 DEF NewOK
  <2> QED
    BY <2>1, <2>2
<1> QED
  BY <1>2, <1>3, <1>4, <1>5, <1>6 DEF CopyInv

\* The work of t goes on to another stage.
LEMMA PcStep ==
  ASSUME CopyInv, NEW t \in Tasks, Working(t), NEW p \in Stages,
         runs' = [runs EXCEPT ![t].pc = p]
  PROVE  /\ runs' \in [Tasks -> Works]
         /\ runs'[t].pc = p /\ runs'[t].task = runs[t].task /\ runs'[t].plan = runs[t].plan
         /\ runs'[t].todo = runs[t].todo
         /\ \A u \in Tasks : u # t => runs'[u] = runs[u]
<1>1. runs \in [Tasks -> Works]
  BY DEF CopyInv, SchedTypes
<1>2. [runs[t] EXCEPT !.pc = p] \in Works
  BY <1>1 DEF Works
<1>3. runs'[t] = [runs[t] EXCEPT !.pc = p]
  BY <1>1
<1>4. runs[t] \in Works
  BY <1>1
<1>5. runs'[t].pc = p /\ runs'[t].task = runs[t].task /\ runs'[t].plan = runs[t].plan
      /\ runs'[t].todo = runs[t].todo
  BY <1>3, <1>4 DEF Works
<1>6. \A u \in Tasks : u # t => runs'[u] = runs[u]
  BY <1>1
<1>7. runs' \in [Tasks -> Works]
  BY <1>1, <1>2
<1> QED
  BY <1>5, <1>6, <1>7

\* Within a fire only the stage changes, and the copy may be disabled for want of
\* an owner.
LEMMA FiringKept ==
  ASSUME CopyInv, NEW t \in Tasks, runs[t].pc \in Firing, runs'[t].pc \in Firing,
         runs'[t].task \in TaskRecords, runs'[t].task.next = runs[t].task.next,
         runs'[t].task.anchor = runs[t].task.anchor,
         runs'[t].task.completed = runs[t].task.completed,
         runs'[t].task.outcome = runs[t].task.outcome,
         runs'[t].task.enabled = runs[t].task.enabled \/ t \notin owners,
         runs'[t].plan = runs[t].plan, runs'[t].todo = runs[t].todo,
         UNCHANGED <<clock, owners, edit>>, disk'[t] = disk[t], resumed'[t] = resumed[t]
  PROVE  FilesOK(t)' /\ WorkOK(t)'
<1>1. FilesOK(t) /\ WorkOK(t) /\ SchedTypes /\ Working(t) /\ Planned(t)
  BY DEF CopyInv, Firing, Working, Planned
<1>2. FilesOK(t)'
  BY <1>1 DEF FilesOK, Active
<1>3. Working(t)' /\ Planned(t)'
  BY DEF Firing, Working, Planned
<1>4. DueCopy(t, runs[t].task)
  BY <1>1 DEF WorkOK
<1>5. DueCopy(t, runs[t].task)'
  BY <1>4 DEF DueCopy, OnGrid
<1>6. PlanOK(t, runs[t].task, runs[t].plan)'
  <2>1. PlanOK(t, runs[t].task, runs[t].plan)
    BY <1>1 DEF WorkOK
  <2>2. OnGrid(t, [runs[t].task EXCEPT !.next = runs[t].plan.next, !.outcome = runs[t].plan.outcome])
    BY <2>1 DEF PlanOK
  <2>3. OnGrid(t, [runs'[t].task EXCEPT !.next = runs[t].plan.next, !.outcome = runs[t].plan.outcome])
    <3>1. runs[t].task \in TaskRecords
      BY <1>4 DEF DueCopy
    <3> DEFINE g == [runs[t].task EXCEPT !.next = runs[t].plan.next, !.outcome = runs[t].plan.outcome]
               h == [runs'[t].task EXCEPT !.next = runs[t].plan.next, !.outcome = runs[t].plan.outcome]
    <3>2. g.next = h.next /\ g.anchor = h.anchor /\ g.outcome = h.outcome
      BY <3>1 DEF TaskRecords
    <3> HIDE DEF g, h
    <3>3. OnGrid(t, g) => OnGrid(t, h)
      BY <3>2 DEF OnGrid
    <3> QED
      BY <2>2, <3>3 DEF g, h
  <2> QED
    BY <2>1, <2>3 DEF PlanOK, FiresOK
<1>7. Todo(t)'
  <2>1. Todo(t)
    BY <1>1 DEF WorkOK
  <2> QED
    BY <2>1 DEF Todo, Firing
<1>8. ~runs'[t].task.enabled => t \notin owners
  BY <1>1 DEF WorkOK
<1>9. WorkOK(t)'
  BY <1>1, <1>3, <1>5, <1>6, <1>7, <1>8 DEF WorkOK
<1> QED
  BY <1>2, <1>9

LEMMA CountFacts ==
  ASSUME NEW bag \in [Tasks -> [Slots -> Nat]], NEW t \in Tasks, NEW s \in Slots
  PROVE  /\ Count(bag, t, s) \in [Tasks -> [Slots -> Nat]]
         /\ Count(bag, t, s)[t][s] = bag[t][s] + 1
         /\ \A u \in Tasks, x \in Slots : u # t \/ x # s => Count(bag, t, s)[u][x] = bag[u][x]
         /\ \A u \in Tasks : u # t => Count(bag, t, s)[u] = bag[u]
<1> DEFINE b == bag[t]
           row == [b EXCEPT ![s] = b[s] + 1]
<1>1. b \in [Slots -> Nat]
  OBVIOUS
<1>2. row \in [Slots -> Nat] /\ row[s] = b[s] + 1 /\ \A x \in Slots : x # s => row[x] = b[x]
  <2> HIDE DEF b
  <2>1. b[s] + 1 \in Nat
    BY <1>1
  <2> QED
    BY <1>1, <2>1
<1>3. Count(bag, t, s) = [bag EXCEPT ![t] = row]
  BY DEF Count
<1> HIDE DEF row
<1>4. Count(bag, t, s) \in [Tasks -> [Slots -> Nat]] /\ Count(bag, t, s)[t] = row
  BY <1>2, <1>3
<1>5. \A u \in Tasks : u # t => Count(bag, t, s)[u] = bag[u]
  BY <1>3
<1> QED
  BY <1>2, <1>4, <1>5

\* The slot in hand.
LEMMA HeadFacts ==
  ASSUME CopyInv, NEW t \in Tasks, runs[t].pc \in Firing
  PROVE  /\ runs[t].todo # <<>> /\ Slot(t) \in Slots /\ Slot(t) \in Nat
         /\ 1 \in DOMAIN runs[t].todo /\ Slot(t) = runs[t].todo[1]
         /\ InSeq(Slot(t), runs[t].todo) /\ InSeq(Slot(t), runs[t].plan.fires)
         /\ Slot(t) <= clock /\ runs[t].task.next <= Slot(t) /\ resumed[t] <= runs[t].task.next
         /\ <<t, Slot(t)>> \in Fires
         /\ runs[t].task.next \in Nat /\ resumed[t] \in Nat
<1>1. SchedTypes /\ WorkOK(t) /\ Working(t) /\ Planned(t)
  BY DEF CopyInv, Firing, Working, Planned
<1>2. Todo(t) /\ PlanOK(t, runs[t].task, runs[t].plan) /\ DueCopy(t, runs[t].task)
  BY <1>1 DEF WorkOK
<1>3. runs[t].todo \in Seq(Slots) /\ runs[t].todo # <<>>
  BY <1>1, <1>2, WorkFields DEF Todo
<1>4. Slot(t) \in Slots /\ Slot(t) = runs[t].todo[1] /\ 1 \in DOMAIN runs[t].todo
  BY <1>3 DEF Slot
<1>5. InSeq(Slot(t), runs[t].todo) /\ InSeq(Slot(t), runs[t].plan.fires) /\ Slot(t) <= clock
  BY <1>2, <1>4 DEF Todo, InSeq
<1>6. runs[t].task.next <= Slot(t)
  BY <1>2, <1>5 DEF PlanOK, FiresOK, InSeq
<1>7. runs[t].task.next \in Nat /\ resumed[t] \in Nat /\ resumed[t] <= runs[t].task.next
  BY <1>1, <1>2 DEF DueCopy, TaskRecords, SchedTypes
<1>8. <<t, Slot(t)>> \in Fires
  BY <1>4 DEF Fires
<1>9. Slot(t) \in Nat
  BY <1>4, SlotTypes
<1> QED
  BY <1>3, <1>4, <1>5, <1>6, <1>7, <1>8, <1>9

FiringStep(t) ==
  \/ RunCommand(t) \/ RunFails(t) \/ PutPendingFire(t) \/ SendWakeup(t) \/ DeliveryFails(t)
  \/ MarkFireDelivered(t)

\* What the steps of a fire have in common.
LEMMA FiringShape ==
  ASSUME CopyInv, NEW t \in Tasks, FiringStep(t)
  PROVE  /\ daemon = "pass" /\ due = {} /\ runs[t].pc \in Firing
         /\ runs' \in [Tasks -> Works]
         /\ runs'[t].pc \in Firing /\ runs'[t].pc # "fire" /\ runs[t].pc # "record"
         /\ runs'[t].task \in TaskRecords
         /\ runs'[t].task.next = runs[t].task.next
         /\ runs'[t].task.anchor = runs[t].task.anchor
         /\ runs'[t].task.completed = runs[t].task.completed
         /\ runs'[t].task.outcome = runs[t].task.outcome
         /\ runs'[t].task.enabled = runs[t].task.enabled \/ t \notin owners
         /\ runs'[t].plan = runs[t].plan /\ runs'[t].todo = runs[t].todo
         /\ \A u \in Tasks : u # t => runs'[u] = runs[u]
         /\ UNCHANGED <<clock, disk, owners, daemon, queue, due, edit, starts, passed, resumed,
                        dropped>>
<1>0. /\ daemon = "pass" /\ due = {} /\ runs[t].pc \in Firing /\ runs[t].pc # "record"
      /\ UNCHANGED <<clock, disk, owners, daemon, queue, due, edit, starts, passed, resumed, dropped>>
  BY DEF FiringStep, RunCommand, RunFails, PutPendingFire, SendWakeup, DeliveryFails,
         MarkFireDelivered, At, Firing, store, limits, schedHistory
<1>1. Working(t) /\ runs[t].task \in TaskRecords /\ runs \in [Tasks -> Works]
  BY <1>0 DEF CopyInv, WorkOK, DueCopy, Working, Firing, SchedTypes
<1>2. CASE \E p \in {"pend", "send", "mark", "record"} : runs' = [runs EXCEPT ![t].pc = p]
  <2>1. PICK p \in {"pend", "send", "mark", "record"} : runs' = [runs EXCEPT ![t].pc = p]
    BY <1>2
  <2>2. p \in Stages /\ p \in Firing /\ p # "fire"
    BY <2>1 DEF Stages, Firing
  <2>3. /\ runs' \in [Tasks -> Works]
        /\ runs'[t].pc = p /\ runs'[t].task = runs[t].task /\ runs'[t].plan = runs[t].plan
        /\ runs'[t].todo = runs[t].todo
        /\ \A u \in Tasks : u # t => runs'[u] = runs[u]
    BY <1>1, <2>1, <2>2, PcStep
  <2> QED
    BY <1>0, <1>1, <2>2, <2>3
<1>3. CASE /\ t \notin owners
           /\ runs' = [runs EXCEPT ![t].pc = "record", ![t].task.enabled = FALSE]
  <2>1. runs[t] \in Works
    BY <1>1
  <2> DEFINE r == [runs[t].task EXCEPT !.enabled = FALSE]
             w == [runs[t] EXCEPT !.pc = "record", !.task = r]
  <2>2. r \in TaskRecords /\ r.next = runs[t].task.next /\ r.anchor = runs[t].task.anchor
        /\ r.completed = runs[t].task.completed /\ r.outcome = runs[t].task.outcome
    BY <1>1 DEF TaskRecords
  <2>3. runs'[t] = w
    BY <1>1, <1>3, <2>1 DEF Works
  <2> HIDE DEF r
  <2>4. w \in Works /\ w.pc = "record" /\ w.task = r /\ w.plan = runs[t].plan /\ w.todo = runs[t].todo
    BY <2>1, <2>2 DEF Works, Stages
  <2>5. \A u \in Tasks : u # t => runs'[u] = runs[u]
    BY <1>1, <1>3
  <2>6. DOMAIN runs' = Tasks /\ runs' = [u \in Tasks |-> runs'[u]]
    BY <1>1, <1>3
  <2>7. runs' \in [Tasks -> Works]
    BY <1>1, <2>3, <2>4, <2>5, <2>6
  <2>8. "record" \in Firing /\ "record" # "fire"
    BY DEF Firing
  <2> HIDE DEF w
  <2> QED
    BY <1>0, <1>3, <2>2, <2>3, <2>4, <2>5, <2>7, <2>8
<1>4. \/ \E p \in {"pend", "send", "mark", "record"} : runs' = [runs EXCEPT ![t].pc = p]
      \/ /\ t \notin owners
         /\ runs' = [runs EXCEPT ![t].pc = "record", ![t].task.enabled = FALSE]
  BY DEF FiringStep, RunCommand, RunFails, PutPendingFire, SendWakeup, DeliveryFails,
         MarkFireDelivered
<1> QED
  BY <1>2, <1>3, <1>4

LEMMA FiringTypes ==
  ASSUME CopyInv, NEW t \in Tasks, FiringStep(t)
  PROVE  /\ fired' \in [Tasks -> [Slots -> Nat]] /\ wakes' \in [Tasks -> [Slots -> Nat]]
         /\ fired' = fired \/ (runs[t].pc = "fire" /\ fired' = Count(fired, t, Slot(t)))
         /\ wakes' = wakes \/ (runs[t].pc = "send" /\ wakes' = Count(wakes, t, Slot(t)))
         /\ pendingFires' \subseteq Fires /\ deliveredFires' \subseteq Fires /\ res' \subseteq Fires
         /\ \A u \in Tasks : u # t =>
              /\ fired'[u] = fired[u] /\ wakes'[u] = wakes[u]
              /\ \A s \in Slots : /\ <<u, s>> \in res' => <<u, s>> \in res
                                  /\ <<u, s>> \in pendingFires' => <<u, s>> \in pendingFires
<1>0. runs[t].pc \in Firing /\ SchedTypes
  BY FiringShape DEF CopyInv
<1>1. Slot(t) \in Slots /\ <<t, Slot(t)>> \in Fires
  BY <1>0, HeadFacts
<1>2. /\ fired' = fired \/ (runs[t].pc = "fire" /\ fired' = Count(fired, t, Slot(t)))
      /\ wakes' = wakes \/ (runs[t].pc = "send" /\ wakes' = Count(wakes, t, Slot(t)))
  BY DEF FiringStep, RunCommand, RunFails, PutPendingFire, SendWakeup, DeliveryFails,
         MarkFireDelivered, At, schedHistory
<1>3. /\ pendingFires' \subseteq pendingFires \cup {<<t, Slot(t)>>}
      /\ deliveredFires' \subseteq deliveredFires \cup {<<t, Slot(t)>>}
      /\ res' \subseteq res \cup {<<t, Slot(t)>>}
  BY DEF FiringStep, RunCommand, RunFails, PutPendingFire, SendWakeup, DeliveryFails,
         MarkFireDelivered, Settle, store, schedHistory
<1>4. /\ fired' \in [Tasks -> [Slots -> Nat]] /\ wakes' \in [Tasks -> [Slots -> Nat]]
      /\ \A u \in Tasks : u # t => fired'[u] = fired[u] /\ wakes'[u] = wakes[u]
  <2>1. fired \in [Tasks -> [Slots -> Nat]] /\ wakes \in [Tasks -> [Slots -> Nat]]
    BY <1>0 DEF SchedTypes
  <2>2. fired' \in [Tasks -> [Slots -> Nat]] /\ \A u \in Tasks : u # t => fired'[u] = fired[u]
    <3>1. CASE fired' = fired
      BY <2>1, <3>1
    <3>2. CASE fired' = Count(fired, t, Slot(t))
      <4>1. /\ Count(fired, t, Slot(t)) \in [Tasks -> [Slots -> Nat]]
            /\ \A u \in Tasks : u # t => Count(fired, t, Slot(t))[u] = fired[u]
        BY <1>1, <2>1, CountFacts
      <4> QED
        BY <3>2, <4>1
    <3> QED
      BY <1>2, <3>1, <3>2
  <2>3. wakes' \in [Tasks -> [Slots -> Nat]] /\ \A u \in Tasks : u # t => wakes'[u] = wakes[u]
    <3>1. CASE wakes' = wakes
      BY <2>1, <3>1
    <3>2. CASE wakes' = Count(wakes, t, Slot(t))
      <4>1. /\ Count(wakes, t, Slot(t)) \in [Tasks -> [Slots -> Nat]]
            /\ \A u \in Tasks : u # t => Count(wakes, t, Slot(t))[u] = wakes[u]
        BY <1>1, <2>1, CountFacts
      <4> QED
        BY <3>2, <4>1
    <3> QED
      BY <1>2, <3>1, <3>2
  <2> QED
    BY <2>2, <2>3
<1>5. \A u \in Tasks : u # t => \A s \in Slots : <<u, s>> # <<t, Slot(t)>>
  OBVIOUS
<1>6. \A u \in Tasks : u # t => \A s \in Slots :
        /\ <<u, s>> \in res' => <<u, s>> \in res
        /\ <<u, s>> \in pendingFires' => <<u, s>> \in pendingFires
  BY <1>3, <1>5
<1>7. pendingFires' \subseteq Fires /\ deliveredFires' \subseteq Fires /\ res' \subseteq Fires
  BY <1>0, <1>1, <1>3 DEF SchedTypes
<1> QED
  BY <1>2, <1>4, <1>6, <1>7

LEMMA FiringCopies ==
  ASSUME CopyInv, NEW t \in Tasks, FiringStep(t)
  PROVE  CopyInv'
<1>1. FilesOK(t)' /\ WorkOK(t)'
  BY FiringShape, FiringKept
<1>2. Working(t) /\ daemon = "pass" /\ due = {}
  BY FiringShape DEF Working, Firing
<1>3. disk \in [Tasks -> TaskRecords \cup {NoValue}] /\ resumed \in [Tasks -> Nat]
  BY DEF CopyInv, SchedTypes
<1>4. /\ UNCHANGED <<clock, owners, daemon, queue, due, edit, starts, dropped>>
      /\ disk' = disk /\ resumed' = resumed /\ runs' \in [Tasks -> Works]
      /\ \A u \in Tasks : u # t => runs'[u] = runs[u]
  BY FiringShape
<1>5. \A u \in Tasks : u # t =>
        /\ fired'[u] = fired[u] /\ wakes'[u] = wakes[u]
        /\ \A s \in Slots : <<u, s>> \in res' \cup pendingFires' => <<u, s>> \in res \cup pendingFires
  BY FiringTypes
<1>6. /\ fired' \in [Tasks -> [Slots -> Nat]] /\ wakes' \in [Tasks -> [Slots -> Nat]]
      /\ pendingFires' \subseteq Fires /\ deliveredFires' \subseteq Fires /\ res' \subseteq Fires
  BY FiringTypes
<1> QED
  BY <1>1, <1>2, <1>3, <1>4, <1>5, <1>6, TaskStepCopies

LEMMA TailFacts ==
  ASSUME NEW S, NEW s \in Seq(S), s # <<>>
  PROVE  /\ Tail(s) \in Seq(S) /\ Len(s) \in Nat /\ Len(Tail(s)) = Len(s) - 1
         /\ DOMAIN Tail(s) = 1 .. Len(s) - 1 /\ DOMAIN s = 1 .. Len(s)
         /\ \A k \in DOMAIN Tail(s) : k + 1 \in DOMAIN s /\ Tail(s)[k] = s[k + 1]
         /\ 1 \in DOMAIN s /\ Head(s) = s[1]
         /\ \A x : InSeq(x, s) <=> x = Head(s) \/ InSeq(x, Tail(s))
<1>1. /\ Tail(s) \in Seq(S) /\ Len(s) \in Nat /\ Len(Tail(s)) = Len(s) - 1
      /\ DOMAIN Tail(s) = 1 .. Len(s) - 1 /\ DOMAIN s = 1 .. Len(s)
      /\ \A k \in DOMAIN Tail(s) : k + 1 \in DOMAIN s /\ Tail(s)[k] = s[k + 1]
      /\ 1 \in DOMAIN s /\ Head(s) = s[1]
  OBVIOUS
<1>2. ASSUME NEW x PROVE InSeq(x, s) <=> x = Head(s) \/ InSeq(x, Tail(s))
  <2>1. ASSUME NEW k \in DOMAIN s, s[k] = x PROVE x = Head(s) \/ InSeq(x, Tail(s))
    <3>1. k = 1 \/ (k - 1 \in DOMAIN Tail(s) /\ (k - 1) + 1 = k)
      BY <1>1
    <3>2. k - 1 \in DOMAIN Tail(s) /\ (k - 1) + 1 = k => Tail(s)[k - 1] = s[k]
      BY <1>1
    <3> QED
      BY <1>1, <2>1, <3>1, <3>2 DEF InSeq
  <2> QED
    BY <1>1, <2>1 DEF InSeq
<1> QED
  BY <1>1, <1>2

\* A step that puts work into the place of work[t].
LEMMA WorkUpdate ==
  ASSUME SchedTypes, NEW t \in Tasks, NEW w \in Works, runs' = [runs EXCEPT ![t] = w]
  PROVE  /\ runs' \in [Tasks -> Works] /\ runs'[t] = w
         /\ \A u \in Tasks : u # t => runs'[u] = runs[u]
BY DEF SchedTypes

LEMMA WorkExcept ==
  ASSUME NEW w \in Works, NEW x, NEW s
  PROVE  [[w EXCEPT !.todo = s] EXCEPT !.pc = x]
           = [pc |-> x, task |-> w.task, plan |-> w.plan, todo |-> s]
<1>1. w = [pc |-> w.pc, task |-> w.task, plan |-> w.plan, todo |-> w.todo]
  BY DEF Works
<1>2. ASSUME NEW a, NEW b, NEW c, NEW d, w = [pc |-> a, task |-> b, plan |-> c, todo |-> d]
      PROVE  [[w EXCEPT !.todo = s] EXCEPT !.pc = x]
               = [pc |-> x, task |-> b, plan |-> c, todo |-> s]
  <2>1. [w EXCEPT !.todo = s] = [pc |-> a, task |-> b, plan |-> c, todo |-> s]
    BY <1>2
  <2>2. [[pc |-> a, task |-> b, plan |-> c, todo |-> s] EXCEPT !.pc = x]
          = [pc |-> x, task |-> b, plan |-> c, todo |-> s]
    OBVIOUS
  <2> QED
    BY <2>1, <2>2
<1> QED
  BY <1>1, <1>2

LEMMA PlanShape ==
  ASSUME CopyInv, NEW t \in Tasks, PlanTask(t)
  PROVE  LET p == PlanMissedFires(t, runs[t].task)
             g == IF p.fires = <<>> \/ ~runs[t].task.enabled THEN "resume" ELSE "fire"
             w == [pc |-> g, task |-> runs[t].task, plan |-> p, todo |-> p.fires]
         IN /\ p \in Plans /\ PlanOK(t, runs[t].task, p)
            /\ \A k \in DOMAIN p.fires : p.fires[k] <= clock
            /\ Every(t) => clock < p.next
            /\ w \in Works /\ runs' = [runs EXCEPT ![t] = w]
            /\ daemon = "pass" /\ due = {} /\ runs[t].pc = "plan" /\ runs[t].task \in TaskRecords
<1> DEFINE r == runs[t].task
           p == PlanMissedFires(t, r)
           g == IF p.fires = <<>> \/ ~r.enabled THEN "resume" ELSE "fire"
           w == [pc |-> g, task |-> r, plan |-> p, todo |-> p.fires]
           v == [runs[t] EXCEPT !.plan = p, !.todo = p.fires]
<1>1. /\ daemon = "pass" /\ due = {} /\ runs[t].pc = "plan"
      /\ runs' = [runs EXCEPT ![t] = [v EXCEPT !.pc = Onward(v)]]
  BY DEF PlanTask, At
<1>2. SchedTypes /\ DueCopy(t, r)
  BY <1>1 DEF CopyInv, WorkOK, Working
<1>3. r \in TaskRecords /\ OnGrid(t, r) /\ ~r.completed /\ r.next <= clock /\ clock \in 0 .. MaxClock
  BY <1>2 DEF DueCopy, SchedTypes
<1>4. /\ PlanOK(t, r, p) /\ (\A k \in DOMAIN p.fires : p.fires[k] <= clock)
      /\ Every(t) => clock < p.next
  BY <1>3, PlanFacts
<1>5. p \in Plans
  <2>1. \E n, o : p = [fires |-> FireSlots(t, r), next |-> n, completes |-> ~Every(t), outcome |-> o]
    BY DEF PlanMissedFires
  <2>2. p.fires \in Seq(Slots) /\ p.next \in Nat /\ p.outcome \in Outcomes
    BY <1>4 DEF PlanOK, FiresOK
  <2> HIDE DEF p
  <2>3. PICK n, o : p = [fires |-> FireSlots(t, r), next |-> n, completes |-> ~Every(t), outcome |-> o]
    BY <2>1
  <2>4. (~Every(t)) \in BOOLEAN
    BY DEF Every
  <2>5. n = p.next /\ o = p.outcome /\ FireSlots(t, r) = p.fires
    BY <2>3
  <2> QED
    BY <2>2, <2>3, <2>4, <2>5 DEF Plans
<1> HIDE DEF p, r
<1>6. runs[t] \in Works
  BY <1>2, WorkFields
<1>7. v.todo = p.fires /\ v.task = r
  BY <1>6 DEF Works, r
<1>8. Onward(v) = g
  BY <1>7 DEF Onward
<1>9. [v EXCEPT !.pc = Onward(v)] = w
  <2>1. [v EXCEPT !.pc = g] = w
    <3> DEFINE z == runs[t]
               s == p.fires
    <3>1. z \in Works /\ v = [z EXCEPT !.plan = p, !.todo = s]
          /\ w = [pc |-> g, task |-> z.task, plan |-> p, todo |-> s]
      BY <1>6 DEF r
    <3> HIDE DEF g, z, s, v, w
    <3> DEFINE y == [z EXCEPT !.plan = p]
    <3>2. y \in Works /\ y.task = z.task /\ y.plan = p
      BY <1>5, <3>1 DEF Works
    <3>3. v = [y EXCEPT !.todo = s]
      BY <3>1
    <3> HIDE DEF y
    <3>4. [v EXCEPT !.pc = g] = [[y EXCEPT !.todo = s] EXCEPT !.pc = g]
      BY <3>3
    <3>5. [[y EXCEPT !.todo = s] EXCEPT !.pc = g]
            = [pc |-> g, task |-> z.task, plan |-> p, todo |-> s]
      BY <3>2, WorkExcept
    <3> QED
      BY <3>1, <3>4, <3>5
  <2> QED
    BY <1>8, <2>1
<1>10. w \in Works
  <2>1. p.fires \in Seq(Slots)
    BY <1>5 DEF Plans
  <2> QED
    BY <1>3, <1>5, <2>1 DEF Works, Stages
<1> QED
  BY <1>1, <1>3, <1>4, <1>5, <1>9, <1>10 DEF p, r

LEMMA PlanCopies ==
  ASSUME CopyInv, NEW t \in Tasks, PlanTask(t)
  PROVE  CopyInv'
<1> DEFINE r == runs[t].task
           p == PlanMissedFires(t, r)
           g == IF p.fires = <<>> \/ ~r.enabled THEN "resume" ELSE "fire"
           w == [pc |-> g, task |-> r, plan |-> p, todo |-> p.fires]
<1>1. /\ p \in Plans /\ PlanOK(t, r, p) /\ (\A k \in DOMAIN p.fires : p.fires[k] <= clock)
      /\ w \in Works /\ runs' = [runs EXCEPT ![t] = w]
      /\ daemon = "pass" /\ due = {} /\ runs[t].pc = "plan" /\ r \in TaskRecords
  BY PlanShape
<1> HIDE DEF p
<1>2. SchedTypes /\ FilesOK(t) /\ WorkOK(t) /\ Working(t)
  BY <1>1 DEF CopyInv, Working
<1>3. /\ runs' \in [Tasks -> Works] /\ runs'[t] = w
      /\ \A u \in Tasks : u # t => runs'[u] = runs[u]
  BY <1>1, <1>2, WorkUpdate
<1>4. UNCHANGED <<clock, disk, pendingFires, deliveredFires, owners, daemon, queue, due, edit,
                  starts, fired, wakes, res, errored, passed, resumed, dropped>>
  BY DEF PlanTask, store, limits, schedHistory
<1>5. FilesOK(t)'
  BY <1>2, <1>4 DEF FilesOK, Active
<1>6. runs'[t].pc = g /\ runs'[t].task = r /\ runs'[t].plan = p /\ runs'[t].todo = p.fires
  BY <1>3
<1>7. Working(t)' /\ Planned(t)'
  BY <1>6 DEF Working, Planned
<1>8. DueCopy(t, r) /\ (~r.enabled => t \notin owners)
      /\ (disk[t] # NoValue /\ disk[t].enabled => ~disk[t].completed /\ disk[t].next = r.next)
  BY <1>2 DEF WorkOK
<1>9. DueCopy(t, runs[t].task)'
  BY <1>4, <1>6, <1>8 DEF DueCopy
<1>10. Todo(t)'
  <2>1. \A j, k \in DOMAIN p.fires : j < k => p.fires[j] < p.fires[k]
    BY <1>1 DEF PlanOK, FiresOK
  <2>2. \A k \in DOMAIN p.fires : InSeq(p.fires[k], p.fires)
    BY DEF InSeq
  <2> QED
    BY <1>1, <1>4, <1>6, <2>1, <2>2 DEF Todo, Firing
<1>11. WorkOK(t)'
  BY <1>1, <1>4, <1>6, <1>7, <1>8, <1>9, <1>10 DEF WorkOK
<1>12. disk' \in [Tasks -> TaskRecords \cup {NoValue}] /\ resumed' \in [Tasks -> Nat]
       /\ fired' \in [Tasks -> [Slots -> Nat]] /\ wakes' \in [Tasks -> [Slots -> Nat]]
       /\ pendingFires' \subseteq Fires /\ deliveredFires' \subseteq Fires /\ res' \subseteq Fires
  BY <1>2, <1>4 DEF SchedTypes
<1> QED
  BY <1>1, <1>2, <1>3, <1>4, <1>5, <1>11, <1>12, TaskStepCopies

LEMMA RecordShape ==
  ASSUME CopyInv, NEW t \in Tasks, RecordRun(t)
  PROVE  LET r == runs[t].task
             g == IF Tail(runs[t].todo) = <<>> \/ ~r.enabled THEN "resume" ELSE "fire"
             w == [pc |-> g, task |-> r, plan |-> runs[t].plan, todo |-> Tail(runs[t].todo)]
         IN /\ daemon = "pass" /\ due = {} /\ runs[t].pc = "record" /\ r \in TaskRecords
            /\ w \in Works /\ runs' = [runs EXCEPT ![t] = w]
            /\ disk' = [disk EXCEPT ![t] = r]
            /\ UNCHANGED <<clock, pendingFires, deliveredFires, owners, daemon, queue, due, edit,
                           starts, fired, wakes, res, errored, passed, resumed, dropped>>
<1> DEFINE r == runs[t].task
           s == Tail(runs[t].todo)
           g == IF s = <<>> \/ ~r.enabled THEN "resume" ELSE "fire"
           w == [pc |-> g, task |-> r, plan |-> runs[t].plan, todo |-> s]
           v == [runs[t] EXCEPT !.todo = Tail(@)]
<1>1. /\ daemon = "pass" /\ due = {} /\ runs[t].pc = "record"
      /\ runs' = [runs EXCEPT ![t] = [v EXCEPT !.pc = Onward(v)]]
      /\ disk' = [disk EXCEPT ![t] = r]
      /\ UNCHANGED <<clock, pendingFires, deliveredFires, owners, daemon, queue, due, edit,
                     starts, fired, wakes, res, errored, passed, resumed, dropped>>
  BY DEF RecordRun, At, limits, schedHistory
<1>2. SchedTypes /\ r \in TaskRecords /\ runs[t].pc \in Firing
  BY <1>1 DEF CopyInv, WorkOK, Working, DueCopy, Firing
<1>3. runs[t] \in Works /\ runs[t].plan \in Plans \cup {NoValue} /\ runs[t].todo \in Seq(Slots)
  BY <1>2, WorkFields
<1>4. s \in Seq(Slots)
  BY <1>2, <1>3, HeadFacts, TailFacts
<1>5. v.todo = s /\ v.task = r
  BY <1>3 DEF Works
<1>6. [v EXCEPT !.pc = Onward(v)] = w
  <2>1. Onward(v) = g
    BY <1>5 DEF Onward
  <2>2. [v EXCEPT !.pc = g] = w
    <3> HIDE DEF g
    <3>1. v = [runs[t] EXCEPT !.todo = s]
      BY <1>3 DEF Works
    <3> QED
      BY <1>3, <3>1, WorkExcept
  <2> QED
    BY <2>1, <2>2
<1>7. w \in Works
  <2> HIDE DEF s
  <2> QED
    BY <1>2, <1>3, <1>4 DEF Works, Stages
<1> QED
  BY <1>1, <1>2, <1>6, <1>7

LEMMA RecordCopies ==
  ASSUME CopyInv, NEW t \in Tasks, RecordRun(t)
  PROVE  CopyInv'
<1> DEFINE r == runs[t].task
           s == Tail(runs[t].todo)
           g == IF s = <<>> \/ ~r.enabled THEN "resume" ELSE "fire"
           w == [pc |-> g, task |-> r, plan |-> runs[t].plan, todo |-> s]
<1>1. /\ daemon = "pass" /\ due = {} /\ runs[t].pc = "record" /\ r \in TaskRecords
      /\ w \in Works /\ runs' = [runs EXCEPT ![t] = w]
      /\ disk' = [disk EXCEPT ![t] = r]
      /\ UNCHANGED <<clock, pendingFires, deliveredFires, owners, daemon, queue, due, edit,
                     starts, fired, wakes, res, errored, passed, resumed, dropped>>
  BY RecordShape
<1>2. SchedTypes /\ FilesOK(t) /\ WorkOK(t) /\ Working(t) /\ Planned(t) /\ runs[t].pc \in Firing
  BY <1>1 DEF CopyInv, Working, Planned, Firing
<1>3. /\ runs' \in [Tasks -> Works] /\ runs'[t] = w
      /\ \A u \in Tasks : u # t => runs'[u] = runs[u]
  BY <1>1, <1>2, WorkUpdate
<1>4. /\ disk' \in [Tasks -> TaskRecords \cup {NoValue}] /\ disk'[t] = r
      /\ \A u \in Tasks : u # t => disk'[u] = disk[u]
  BY <1>1, <1>2 DEF SchedTypes
<1>5. DueCopy(t, r) /\ (~r.enabled => t \notin owners) /\ Todo(t)
      /\ runs[t].plan \in Plans /\ PlanOK(t, r, runs[t].plan)
  BY <1>2 DEF WorkOK
<1>6. runs[t].todo \in Seq(Slots) /\ runs[t].todo # <<>>
  BY <1>2, WorkFields, HeadFacts
<1>7. /\ s \in Seq(Slots) /\ DOMAIN s = 1 .. Len(runs[t].todo) - 1
      /\ \A k \in DOMAIN s : k \in Nat /\ k + 1 \in DOMAIN runs[t].todo /\ s[k] = runs[t].todo[k + 1]
  BY <1>6, TailFacts
<1> HIDE DEF s
<1>8. FilesOK(t)'
  BY <1>1, <1>2, <1>4, <1>5 DEF FilesOK, DueCopy, Active
<1>9. runs'[t].pc = g /\ runs'[t].task = r /\ runs'[t].plan = runs[t].plan /\ runs'[t].todo = s
  BY <1>3
<1>10. Working(t)' /\ Planned(t)'
  BY <1>9 DEF Working, Planned
<1>11. DueCopy(t, runs[t].task)'
  BY <1>1, <1>5, <1>9 DEF DueCopy
<1>12. Todo(t)'
  <2>1. \A j, k \in DOMAIN s : j < k => s[j] < s[k]
    <3> SUFFICES ASSUME NEW j \in DOMAIN s, NEW k \in DOMAIN s, j < k PROVE s[j] < s[k]
      OBVIOUS
    <3>1. j + 1 < k + 1 /\ j + 1 \in DOMAIN runs[t].todo /\ k + 1 \in DOMAIN runs[t].todo
      BY <1>7
    <3> QED
      BY <1>5, <1>7, <3>1 DEF Todo
  <2>2. \A k \in DOMAIN s : InSeq(s[k], runs[t].plan.fires) /\ s[k] <= clock
    BY <1>5, <1>7 DEF Todo
  <2> QED
    BY <1>1, <1>9, <2>1, <2>2 DEF Todo, Firing
<1>13. WorkOK(t)'
  <2>1. ~r.completed
    BY <1>5 DEF DueCopy
  <2> QED
    BY <1>1, <1>4, <1>5, <1>9, <1>10, <1>11, <1>12, <2>1 DEF WorkOK
<1>14. resumed' \in [Tasks -> Nat]
       /\ fired' \in [Tasks -> [Slots -> Nat]] /\ wakes' \in [Tasks -> [Slots -> Nat]]
       /\ pendingFires' \subseteq Fires /\ deliveredFires' \subseteq Fires /\ res' \subseteq Fires
  BY <1>1, <1>2 DEF SchedTypes
<1> QED
  BY <1>1, <1>2, <1>3, <1>4, <1>8, <1>13, <1>14, TaskStepCopies

LEMMA ResumeShape ==
  ASSUME CopyInv, NEW t \in Tasks, Resume(t)
  PROVE  LET r == runs[t].task
             p == runs[t].plan
             h == ResumeAfterFires(r, p)
             n == p.next + (IF p.completes THEN 1 ELSE 0)
         IN /\ daemon = "pass" /\ due = {} /\ runs[t].pc = "resume" /\ r \in TaskRecords
            /\ p \in Plans /\ PlanOK(t, r, p) /\ DueCopy(t, r) /\ n \in Nat
            /\ h \in TaskRecords /\ h.next = p.next /\ h.anchor = r.anchor
            /\ h.outcome = p.outcome /\ h.enabled = r.enabled /\ h.completed = ~Every(t)
            /\ disk' = [disk EXCEPT ![t] = h] /\ runs' = [runs EXCEPT ![t] = Asleep]
            /\ resumed' = [resumed EXCEPT ![t] = n]
            /\ UNCHANGED <<clock, pendingFires, deliveredFires, owners, daemon, queue, due, edit,
                           starts, fired, wakes, res, errored, dropped>>
<1> DEFINE r == runs[t].task
           p == runs[t].plan
           h == ResumeAfterFires(r, p)
           n == p.next + (IF p.completes THEN 1 ELSE 0)
<1>1. /\ daemon = "pass" /\ due = {} /\ runs[t].pc = "resume"
      /\ disk' = [disk EXCEPT ![t] = h] /\ runs' = [runs EXCEPT ![t] = Asleep]
      /\ resumed' = [resumed EXCEPT ![t] = n]
      /\ UNCHANGED <<clock, pendingFires, deliveredFires, owners, daemon, queue, due, edit,
                     starts, fired, wakes, res, errored, dropped>>
  BY DEF Resume, At, limits
<1>2. WorkOK(t) /\ Working(t) /\ Planned(t)
  BY <1>1 DEF CopyInv, Working, Planned
<1>3. DueCopy(t, r) /\ p \in Plans /\ PlanOK(t, r, p)
  BY <1>2 DEF WorkOK
<1>4. r \in TaskRecords /\ ~r.completed
  BY <1>3 DEF DueCopy
<1>5. p.next \in Nat /\ p.completes = ~Every(t) /\ p.outcome \in Outcomes
  BY <1>3 DEF PlanOK
<1> HIDE DEF r, p
<1>6. n \in Nat
  BY <1>5
<1>7. h = [r EXCEPT !.next = p.next, !.outcome = p.outcome,
                    !.completed = r.completed \/ p.completes, !.lease = 0]
  BY DEF ResumeAfterFires
<1>8. r.enabled \in BOOLEAN /\ r.anchor \in Nat /\ r.completed = FALSE
  BY <1>4 DEF TaskRecords
<1>9. h = [enabled |-> r.enabled, completed |-> r.completed \/ p.completes, anchor |-> r.anchor,
           lease |-> 0, outcome |-> p.outcome, next |-> p.next]
  BY <1>4, <1>7 DEF TaskRecords
<1>10. (r.completed \/ p.completes) = ~Every(t) /\ (~Every(t)) \in BOOLEAN
  BY <1>5, <1>8
<1>11. h \in TaskRecords
  BY <1>5, <1>8, <1>9, <1>10 DEF TaskRecords, Outcomes
<1>12. h.next = p.next /\ h.anchor = r.anchor
       /\ h.outcome = p.outcome /\ h.enabled = r.enabled /\ h.completed = ~Every(t)
  BY <1>9, <1>10
<1> QED
  BY <1>1, <1>3, <1>4, <1>6, <1>11, <1>12 DEF r, p

LEMMA ResumeCopies ==
  ASSUME CopyInv, NEW t \in Tasks, Resume(t)
  PROVE  CopyInv'
<1> DEFINE r == runs[t].task
           p == runs[t].plan
           h == ResumeAfterFires(r, p)
           n == p.next + (IF p.completes THEN 1 ELSE 0)
<1>1. /\ daemon = "pass" /\ due = {} /\ runs[t].pc = "resume" /\ r \in TaskRecords
      /\ p \in Plans /\ PlanOK(t, r, p) /\ DueCopy(t, r) /\ n \in Nat
      /\ h \in TaskRecords /\ h.next = p.next /\ h.anchor = r.anchor
      /\ h.outcome = p.outcome /\ h.enabled = r.enabled /\ h.completed = ~Every(t)
      /\ disk' = [disk EXCEPT ![t] = h] /\ runs' = [runs EXCEPT ![t] = Asleep]
      /\ resumed' = [resumed EXCEPT ![t] = n]
      /\ UNCHANGED <<clock, pendingFires, deliveredFires, owners, daemon, queue, due, edit,
                     starts, fired, wakes, res, errored, dropped>>
  BY ResumeShape
<1> HIDE DEF h
<1>2. SchedTypes /\ FilesOK(t) /\ Working(t)
  BY <1>1 DEF CopyInv, Working
<1>3. Asleep \in Works /\ Asleep.pc = "idle"
  BY DEF Asleep, Works, Stages
<1>4. /\ runs' \in [Tasks -> Works] /\ runs'[t] = Asleep
      /\ \A u \in Tasks : u # t => runs'[u] = runs[u]
  BY <1>1, <1>2, <1>3, WorkUpdate
<1>5. /\ disk' \in [Tasks -> TaskRecords \cup {NoValue}] /\ disk'[t] = h
      /\ \A u \in Tasks : u # t => disk'[u] = disk[u]
  BY <1>1, <1>2 DEF SchedTypes
<1>6. /\ resumed' \in [Tasks -> Nat] /\ resumed'[t] = n
      /\ \A u \in Tasks : u # t => resumed'[u] = resumed[u]
  BY <1>1, <1>2 DEF SchedTypes
<1>7. OnGrid(t, h)
  <2> DEFINE g == [r EXCEPT !.next = p.next, !.outcome = p.outcome]
  <2>1. OnGrid(t, g)
    BY <1>1 DEF PlanOK
  <2>2. g.next = h.next /\ g.anchor = h.anchor /\ g.outcome = h.outcome
    BY <1>1 DEF TaskRecords
  <2> HIDE DEF g
  <2> QED
    BY <2>1, <2>2 DEF OnGrid
<1>8. ~h.completed => n <= h.next
  <2> SUFFICES ASSUME ~h.completed PROVE n <= h.next
    OBVIOUS
  <2>1. Every(t) /\ p.completes = FALSE
    BY <1>1 DEF PlanOK
  <2>2. p.next \in Nat
    BY <1>1 DEF PlanOK
  <2> QED
    BY <1>1, <2>1, <2>2
<1>9. FilesOK(t)'
  BY <1>1, <1>2, <1>5, <1>6, <1>7, <1>8 DEF FilesOK, Active
<1>10. WorkOK(t)'
  BY <1>3, <1>4 DEF WorkOK, Working, Planned
<1>11. fired' \in [Tasks -> [Slots -> Nat]] /\ wakes' \in [Tasks -> [Slots -> Nat]]
       /\ pendingFires' \subseteq Fires /\ deliveredFires' \subseteq Fires /\ res' \subseteq Fires
  BY <1>1, <1>2 DEF SchedTypes
<1> QED
  BY <1>1, <1>2, <1>4, <1>5, <1>6, <1>9, <1>10, <1>11, TaskStepCopies

\* A task that the step leaves alone and that gets no fire, wakeup or claim out of nothing.
LEMMA NewKept ==
  ASSUME CopyInv, NEW u \in Tasks, runs'[u] = runs[u], disk'[u] = disk[u], edit'[u] = edit[u],
         dropped \subseteq dropped', fired'[u] = fired[u], res' = res,
         pendingFires' \subseteq pendingFires, wakes'[u] = wakes[u],
         \A d \in due' : d.id = u => d \in due \/ disk[u] # NoValue,
         \A q \in queue' : q.fire[1] = u =>
           q.fire \in pendingFires \/ \E e \in queue : e.fire = q.fire
  PROVE  NewOK(u)'
<1>1. SchedTypes /\ NewOK(u)
  BY DEF CopyInv
<1> SUFFICES ASSUME disk[u] = NoValue, u \notin dropped
             PROVE  NewOK(u)'
  BY DEF NewOK
<1>2. /\ edit[u] = NoValue /\ ~Working(u)
      /\ \A d \in due : d.id # u
      /\ \A q \in queue : q.fire[1] # u
      /\ \A s \in Slots : /\ fired[u][s] = 0 /\ wakes[u][s] = 0
                          /\ <<u, s>> \notin res \cup pendingFires
  BY <1>1 DEF NewOK
<1>3. \A f \in pendingFires : f[1] # u
  <2> SUFFICES ASSUME NEW f \in pendingFires, f[1] = u PROVE FALSE
    OBVIOUS
  <2>1. f \in Tasks \X Slots
    BY <1>1 DEF SchedTypes, Fires
  <2>2. f = <<u, f[2]>> /\ f[2] \in Slots
    BY <2>1
  <2> QED
    BY <1>2, <2>2
<1>4. ~Working(u)'
  BY <1>2 DEF Working
<1> QED
  BY <1>2, <1>3, <1>4 DEF NewOK

\* The tools of the agent.
LEMMA CreateCopies ==
  ASSUME CopyInv, NEW t \in Tasks, CreateTask(t)
  PROVE  CopyInv'
<1> DEFINE h == NewTask(t)
<1>1. /\ disk[t] = NoValue /\ t \notin dropped /\ disk' = [disk EXCEPT ![t] = h]
      /\ resumed' = [resumed EXCEPT ![t] = h.next]
      /\ UNCHANGED <<clock, pendingFires, deliveredFires, owners, daemon, queue, due, runs, edit,
                     starts, fired, wakes, res, errored, passed, dropped>>
  BY DEF CreateTask, process, limits
<1>2. SchedTypes /\ DueOK /\ RunnerOK /\ WorkOK(t) /\ NewOK(t)
  BY DEF CopyInv
<1>3. edit[t] = NoValue /\ ~Working(t) /\ \A d \in due : d.id # t
  BY <1>1, <1>2 DEF NewOK
<1>4. clock \in Nat
  BY <1>2 DEF SchedTypes
<1>5. h = [enabled |-> TRUE, completed |-> FALSE, anchor |-> clock, lease |-> 0,
           outcome |-> NoValue, next |-> h.next]
  BY DEF NewTask
<1>6. /\ Every(t) => h.next = clock + Schedule[t].interval
      /\ ~Every(t) => h.next = Schedule[t].at
  BY DEF NewTask
<1>7. h.anchor = clock /\ h.outcome = NoValue
  BY DEF NewTask
<1> HIDE DEF h
<1>8. h.next \in Nat
  BY <1>4, <1>6, ScheduleTypes
<1>9. h \in TaskRecords
  <2> DEFINE n == h.next
             g == [enabled |-> TRUE, completed |-> FALSE, anchor |-> clock, lease |-> 0,
                   outcome |-> NoValue, next |-> n]
  <2>1. n \in Nat /\ h = g
    BY <1>5, <1>8
  <2> HIDE DEF n
  <2>2. g \in TaskRecords
    BY <1>4, <2>1 DEF TaskRecords
  <2> HIDE DEF g
  <2> QED
    BY <2>1, <2>2
<1>10. OnGrid(t, h)
  <2>1. CASE Every(t)
    <3> DEFINE i == Schedule[t].interval
    <3>1. i \in Nat \ {0} /\ h.next = clock + i
      BY <1>6, <2>1, ScheduleTypes
    <3> HIDE DEF i
    <3>2. h.next > clock /\ h.next - clock = 1 * i
      BY <1>4, <3>1
    <3>3. (1 * i) % i = 0
      BY <3>1, ModMultiple
    <3> QED
      BY <1>7, <2>1, <3>2, <3>3 DEF OnGrid, i
  <2>2. CASE ~Every(t)
    BY <1>6, <2>2 DEF OnGrid
  <2> QED
    BY <2>1, <2>2
<1>11. /\ disk' \in [Tasks -> TaskRecords \cup {NoValue}] /\ disk'[t] = h
       /\ \A u \in Tasks : u # t => disk'[u] = disk[u]
  BY <1>1, <1>2, <1>9 DEF SchedTypes
<1>12. /\ resumed' \in [Tasks -> Nat] /\ resumed'[t] = h.next
       /\ \A u \in Tasks : u # t => resumed'[u] = resumed[u]
  BY <1>1, <1>2, <1>8 DEF SchedTypes
<1>13. SchedTypes'
  BY <1>1, <1>2, <1>11, <1>12 DEF SchedTypes
<1>14. DueOK'
  <2> SUFFICES ASSUME NEW d \in due
               PROVE  /\ DueCopy(d.id, d.task)' /\ d.task.enabled
                      /\ runs[d.id] = Asleep
                      /\ \A e \in due : e.id = d.id => e = d
    BY <1>1 DEF DueOK
  <2>1. d.id \in Tasks /\ d.id # t
    BY <1>2, <1>3 DEF SchedTypes
  <2>2. DueCopy(d.id, d.task)'
    BY <1>1, <1>2, <1>12, <2>1 DEF DueOK, DueCopy
  <2> QED
    BY <1>2, <2>2 DEF DueOK
<1>15. RunnerOK'
  BY <1>1, <1>2 DEF RunnerOK, Resting
<1>16. FilesOK(t)' /\ WorkOK(t)' /\ NewOK(t)'
  <2>1. FilesOK(t)'
    BY <1>1, <1>3, <1>8, <1>10, <1>11, <1>12 DEF FilesOK, Active
  <2>2. WorkOK(t)'
    BY <1>1, <1>2, <1>3 DEF WorkOK, Working, Planned
  <2>3. h # NoValue
    BY <1>9, SchedulerAssumption
  <2> QED
    BY <1>11, <2>1, <2>2, <2>3 DEF NewOK
<1>17. ASSUME NEW u \in Tasks, u # t
       PROVE  FilesOK(u)' /\ WorkOK(u)' /\ NewOK(u)'
  BY <1>1, <1>4, <1>11, <1>12, <1>17, CopiesKept, NewKept
<1> QED
  BY <1>13, <1>14, <1>15, <1>16, <1>17 DEF CopyInv

LEMMA DisableReadCopies ==
  ASSUME CopyInv, NEW t \in Tasks, DisableRead(t)
  PROVE  CopyInv'
<1> DEFINE h == [disk[t] EXCEPT !.enabled = FALSE]
<1>1. /\ disk[t] # NoValue /\ edit' = [edit EXCEPT ![t] = h]
      /\ UNCHANGED <<clock, disk, pendingFires, deliveredFires, owners, daemon, queue, due, runs,
                     starts, fired, wakes, res, errored, passed, resumed, dropped>>
  BY DEF DisableRead, store, process, limits, schedHistory
<1>2. SchedTypes /\ DueOK /\ RunnerOK /\ FilesOK(t) /\ WorkOK(t) /\ NewOK(t)
  BY DEF CopyInv
<1>3. disk[t] \in TaskRecords /\ clock \in Nat
  BY <1>1, <1>2 DEF SchedTypes
<1>4. h \in TaskRecords /\ ~h.enabled /\ h.next = disk[t].next /\ h.anchor = disk[t].anchor
      /\ h.outcome = disk[t].outcome
  BY <1>3 DEF TaskRecords
<1> HIDE DEF h
<1>5. OnGrid(t, h)
  BY <1>1, <1>2, <1>4 DEF FilesOK, OnGrid
<1>6. edit' \in [Tasks -> TaskRecords \cup {NoValue}] /\ edit'[t] = h
      /\ \A u \in Tasks : u # t => edit'[u] = edit[u]
  BY <1>1, <1>2, <1>4 DEF SchedTypes
<1>7. SchedTypes'
  BY <1>1, <1>2, <1>6 DEF SchedTypes
<1>8. DueOK' /\ RunnerOK'
  BY <1>1, <1>2 DEF DueOK, DueCopy, RunnerOK, Resting
<1>9. FilesOK(t)'
  BY <1>1, <1>2, <1>4, <1>5, <1>6 DEF FilesOK, Active
<1>10. WorkOK(t)'
  BY <1>1, <1>2 DEF WorkOK, DueCopy, Working, Planned, Todo
<1>11. NewOK(t)'
  BY <1>1 DEF NewOK
<1>12. ASSUME NEW u \in Tasks, u # t
       PROVE  FilesOK(u)' /\ WorkOK(u)' /\ NewOK(u)'
  BY <1>1, <1>3, <1>6, <1>12, CopiesKept, NewKept
<1> QED
  BY <1>7, <1>8, <1>9, <1>10, <1>11, <1>12 DEF CopyInv

\* disable_task and delete_task put a record that is not enabled, or none.
LEMMA DropCopies ==
  ASSUME CopyInv, NEW t \in Tasks, DisableWrite(t) \/ DeleteTask(t)
  PROVE  CopyInv'
<1> DEFINE h == disk'[t]
<1>1. /\ disk' = [disk EXCEPT ![t] = edit[t]] \/ disk' = [disk EXCEPT ![t] = NoValue]
      /\ edit' = [edit EXCEPT ![t] = NoValue] \/ edit' = edit
      /\ dropped' = dropped \cup {t}
      /\ UNCHANGED <<clock, pendingFires, deliveredFires, owners, daemon, queue, due, runs,
                     starts, fired, wakes, res, errored, passed, resumed>>
  BY DEF DisableWrite, DeleteTask, process, limits
<1>2. SchedTypes /\ DueOK /\ RunnerOK /\ FilesOK(t) /\ WorkOK(t) /\ NewOK(t)
  BY DEF CopyInv
<1>3. clock \in Nat
  BY <1>2 DEF SchedTypes
<1>4. /\ disk' \in [Tasks -> TaskRecords \cup {NoValue}]
      /\ edit' \in [Tasks -> TaskRecords \cup {NoValue}]
      /\ disk'[t] = edit[t] \/ disk'[t] = NoValue
      /\ edit'[t] = edit[t] \/ edit'[t] = NoValue
      /\ \A u \in Tasks : u # t => disk'[u] = disk[u] /\ edit'[u] = edit[u]
  BY <1>1, <1>2 DEF SchedTypes
<1>5. SchedTypes'
  BY <1>1, <1>2, <1>4 DEF SchedTypes
<1>6. DueOK' /\ RunnerOK'
  BY <1>1, <1>2 DEF DueOK, DueCopy, RunnerOK, Resting
<1>7. disk'[t] # NoValue => ~disk'[t].enabled
  BY <1>2, <1>4 DEF FilesOK
<1>8. FilesOK(t)'
  BY <1>2, <1>4, <1>7 DEF FilesOK, Active
<1>9. WorkOK(t)'
  BY <1>1, <1>2, <1>7 DEF WorkOK, DueCopy, Working, Planned, Todo
<1>10. NewOK(t)'
  BY <1>1 DEF NewOK
<1>11. ASSUME NEW u \in Tasks, u # t
       PROVE  FilesOK(u)' /\ WorkOK(u)' /\ NewOK(u)'
  BY <1>1, <1>3, <1>4, <1>11, CopiesKept, NewKept
<1> QED
  BY <1>5, <1>6, <1>8, <1>9, <1>10, <1>11 DEF CopyInv

\* Time and the world outside.
LEMMA WorldCopies ==
  ASSUME CopyInv, TimePasses \/ \E t \in Tasks : RemoveOwner(t)
  PROVE  CopyInv'
<1>1. /\ clock' = clock \/ (clock < MaxClock /\ clock' = clock + 1)
      /\ owners' \subseteq owners
      /\ UNCHANGED <<disk, pendingFires, deliveredFires, daemon, queue, due, runs, edit,
                     starts, fired, wakes, res, errored, passed, resumed, dropped>>
  BY DEF TimePasses, RemoveOwner, store, process, limits, schedHistory
<1>2. SchedTypes /\ DueOK /\ RunnerOK
  BY DEF CopyInv
<1>3. clock \in Nat /\ clock' \in 0 .. MaxClock /\ clock' \in Nat /\ clock <= clock'
  BY <1>1, <1>2, SchedulerAssumption DEF SchedTypes
<1>4. SchedTypes'
  BY <1>1, <1>2, <1>3 DEF SchedTypes
<1>5. DueOK'
  <2> SUFFICES ASSUME NEW d \in due
               PROVE  /\ DueCopy(d.id, d.task)' /\ d.task.enabled
                      /\ runs[d.id] = Asleep
                      /\ \A e \in due : e.id = d.id => e = d
    BY <1>1 DEF DueOK
  <2>1. DueCopy(d.id, d.task)
    BY <1>2 DEF DueOK
  <2>2. d.task.next \in Nat
    BY <2>1 DEF DueCopy, TaskRecords
  <2>3. DueCopy(d.id, d.task)'
    BY <1>1, <1>3, <2>1, <2>2 DEF DueCopy
  <2> QED
    BY <1>2, <2>3 DEF DueOK
<1>6. RunnerOK'
  BY <1>1, <1>2 DEF RunnerOK, Resting
<1>7. ASSUME NEW u \in Tasks
      PROVE  FilesOK(u)' /\ WorkOK(u)' /\ NewOK(u)'
  BY <1>1, <1>3, CopiesKept, NewKept
<1> QED
  BY <1>4, <1>5, <1>6, <1>7 DEF CopyInv

\* The runner process.
LEMMA StartCopies ==
  ASSUME CopyInv, StartRunner
  PROVE  CopyInv'
<1>1. /\ daemon = "down" /\ daemon' = "redeliver" /\ starts' = starts + 1
      /\ queue' = {[fire |-> f, sent |-> FALSE] : f \in pendingFires}
      /\ UNCHANGED <<clock, disk, pendingFires, deliveredFires, owners, due, runs, edit,
                     fired, wakes, res, errored, passed, resumed, dropped>>
  BY DEF StartRunner, store, schedHistory
<1>2. SchedTypes /\ DueOK /\ RunnerOK
  BY DEF CopyInv
<1>3. clock \in Nat /\ starts \in Nat
  BY <1>2 DEF SchedTypes
<1>4. \A q \in queue' : q.fire \in pendingFires /\ q \in [fire : Fires, sent : BOOLEAN]
  <2> SUFFICES ASSUME NEW f \in pendingFires
               PROVE  LET q == [fire |-> f, sent |-> FALSE]
                      IN q.fire \in pendingFires /\ q \in [fire : Fires, sent : BOOLEAN]
    BY <1>1
  <2>1. f \in Fires
    BY <1>2 DEF SchedTypes
  <2> QED
    BY <2>1
<1>5. SchedTypes'
  BY <1>1, <1>2, <1>3, <1>4 DEF SchedTypes
<1>6. DueOK'
  BY <1>1, <1>2 DEF DueOK, DueCopy
<1>7. RunnerOK'
  BY <1>1, <1>2, <1>3 DEF RunnerOK, Resting
<1>8. ASSUME NEW u \in Tasks
      PROVE  FilesOK(u)' /\ WorkOK(u)' /\ NewOK(u)'
  BY <1>1, <1>3, <1>4, CopiesKept, NewKept
<1> QED
  BY <1>5, <1>6, <1>7, <1>8 DEF CopyInv

\* The runner ends, between two steps or for a reason.
Stops == RunnerDies \/ Exit \/ \E q \in queue : RedeliverFails(q)

LEMMA StopShape ==
  ASSUME Stops
  PROVE  /\ daemon # "down" /\ daemon' = "down" /\ queue' = {} /\ due' = {}
         /\ runs' = [t \in Tasks |-> Asleep]
         /\ UNCHANGED <<clock, disk, pendingFires, deliveredFires, owners, edit, starts,
                        fired, wakes, res, errored, passed, resumed, dropped>>
BY DEF Stops, RunnerDies, Exit, RedeliverFails, Dies, store, limits, schedHistory

LEMMA StopCopies ==
  ASSUME CopyInv, Stops
  PROVE  CopyInv'
<1>1. /\ daemon # "down" /\ daemon' = "down" /\ queue' = {} /\ due' = {}
      /\ runs' = [t \in Tasks |-> Asleep]
      /\ UNCHANGED <<clock, disk, pendingFires, deliveredFires, owners, edit, starts,
                     fired, wakes, res, errored, passed, resumed, dropped>>
  BY StopShape
<1>2. SchedTypes /\ RunnerOK
  BY DEF CopyInv
<1>3. Asleep \in Works /\ Asleep.pc = "idle"
  BY DEF Asleep, Works, Stages
<1>4. SchedTypes'
  BY <1>1, <1>2, <1>3 DEF SchedTypes
<1>5. DueOK' /\ RunnerOK'
  BY <1>1, <1>2 DEF DueOK, RunnerOK, Resting
<1>6. ASSUME NEW u \in Tasks
      PROVE  FilesOK(u)' /\ WorkOK(u)' /\ NewOK(u)'
  <2>1. FilesOK(u) /\ NewOK(u)
    BY DEF CopyInv
  <2>2. runs'[u] = Asleep /\ ~Working(u)' /\ ~Planned(u)'
    BY <1>1, <1>3 DEF Working, Planned
  <2>3. FilesOK(u)'
    BY <1>1, <2>1 DEF FilesOK, Active
  <2>4. WorkOK(u)'
    BY <2>2 DEF WorkOK
  <2>5. NewOK(u)'
    BY <1>1, <2>1, <2>2 DEF NewOK
  <2> QED
    BY <2>3, <2>4, <2>5
<1> QED
  BY <1>4, <1>5, <1>6 DEF CopyInv

LEMMA SendShape ==
  ASSUME CopyInv, NEW q \in queue, RedeliverSend(q)
  PROVE  LET t == q.fire[1]
             s == q.fire[2]
         IN /\ t \in Tasks /\ s \in Slots /\ q.fire = <<t, s>> /\ q.fire \in Fires
            /\ daemon = "redeliver" /\ ~Sending /\ ~q.sent
            /\ queue' = (queue \ {q}) \cup {[fire |-> q.fire, sent |-> TRUE]}
            /\ wakes' = Count(wakes, t, s) /\ wakes' \in [Tasks -> [Slots -> Nat]]
            /\ wakes'[t][s] = wakes[t][s] + 1
            /\ \A u \in Tasks, x \in Slots : u # t \/ x # s => wakes'[u][x] = wakes[u][x]
            /\ \A u \in Tasks : u # t => wakes'[u] = wakes[u]
            /\ UNCHANGED <<clock, disk, pendingFires, deliveredFires, owners, daemon, due, runs,
                           edit, starts, fired, res, errored, passed, resumed, dropped>>
<1> DEFINE t == q.fire[1]
           s == q.fire[2]
<1>1. /\ daemon = "redeliver" /\ ~Sending /\ wakes' = Count(wakes, t, s)
      /\ queue' = (queue \ {q}) \cup {[q EXCEPT !.sent = TRUE]}
      /\ UNCHANGED <<clock, disk, pendingFires, deliveredFires, owners, daemon, due, runs,
                     edit, starts, fired, res, errored, passed, resumed, dropped>>
  BY DEF RedeliverSend, store, limits
<1>2. SchedTypes
  BY DEF CopyInv
<1>3. q \in [fire : Fires, sent : BOOLEAN]
  BY <1>2 DEF SchedTypes
<1>4. q.fire \in Tasks \X Slots /\ [q EXCEPT !.sent = TRUE] = [fire |-> q.fire, sent |-> TRUE]
  <2>1. q.fire \in Fires /\ q = [fire |-> q.fire, sent |-> q.sent]
    BY <1>3
  <2>2. ASSUME NEW f, NEW b, NEW x, q = [fire |-> f, sent |-> b]
        PROVE  [q EXCEPT !.sent = x] = [fire |-> f, sent |-> x]
    BY <2>2
  <2> QED
    BY <2>1, <2>2 DEF Fires
<1>5. t \in Tasks /\ s \in Slots /\ q.fire = <<t, s>> /\ q.fire \in Fires
  BY <1>4 DEF Fires
<1>6. wakes \in [Tasks -> [Slots -> Nat]]
  BY <1>2 DEF SchedTypes
<1>7. ~q.sent
  BY <1>1 DEF Sending
<1> HIDE DEF t, s
<1>8. /\ wakes' \in [Tasks -> [Slots -> Nat]]
      /\ wakes'[t][s] = wakes[t][s] + 1
      /\ \A u \in Tasks, x \in Slots : u # t \/ x # s => wakes'[u][x] = wakes[u][x]
      /\ \A u \in Tasks : u # t => wakes'[u] = wakes[u]
  BY <1>1, <1>5, <1>6, CountFacts
<1> QED
  BY <1>1, <1>4, <1>5, <1>7, <1>8 DEF t, s

LEMMA SendCopies ==
  ASSUME CopyInv, NEW q \in queue, RedeliverSend(q)
  PROVE  CopyInv'
<1> DEFINE t == q.fire[1]
           s == q.fire[2]
<1>1. /\ t \in Tasks /\ s \in Slots /\ q.fire = <<t, s>> /\ q.fire \in Fires
      /\ daemon = "redeliver" /\ wakes' \in [Tasks -> [Slots -> Nat]]
      /\ queue' = (queue \ {q}) \cup {[fire |-> q.fire, sent |-> TRUE]}
      /\ \A u \in Tasks : u # t => wakes'[u] = wakes[u]
      /\ UNCHANGED <<clock, disk, pendingFires, deliveredFires, owners, daemon, due, runs,
                     edit, starts, fired, res, errored, passed, resumed, dropped>>
  BY SendShape
<1>2. SchedTypes /\ DueOK /\ RunnerOK /\ NewOK(t)
  BY <1>1 DEF CopyInv
<1>3. clock \in Nat
  BY <1>2 DEF SchedTypes
<1>4. queue' \subseteq [fire : Fires, sent : BOOLEAN]
  <2> DEFINE f == q.fire
  <2>1. f \in Fires /\ queue' = (queue \ {q}) \cup {[fire |-> f, sent |-> TRUE]}
    BY <1>1
  <2> HIDE DEF f, t, s
  <2>2. [fire |-> f, sent |-> TRUE] \in [fire : Fires, sent : BOOLEAN]
    BY <2>1
  <2>3. queue \subseteq [fire : Fires, sent : BOOLEAN]
    BY <1>2 DEF SchedTypes
  <2> QED
    BY <2>1, <2>2, <2>3, Zenon
<1>5. SchedTypes'
  BY <1>1, <1>2, <1>4 DEF SchedTypes
<1>6. DueOK' /\ RunnerOK'
  BY <1>1, <1>2 DEF DueOK, DueCopy, RunnerOK, Resting
<1>7. \A e \in queue' : \E p \in queue : p.fire = e.fire
  BY <1>1
<1>8. NewOK(t)'
  <2>1. ~(disk[t] = NoValue /\ t \notin dropped)
    BY <1>2 DEF NewOK
  <2> QED
    BY <1>1, <2>1 DEF NewOK
<1>9. ASSUME NEW u \in Tasks
      PROVE  FilesOK(u)' /\ WorkOK(u)'
  BY <1>1, <1>3, CopiesKept
<1>10. ASSUME NEW u \in Tasks, u # t
       PROVE  NewOK(u)'
  <2>1. wakes'[u] = wakes[u]
    BY <1>1, <1>10
  <2> HIDE DEF t, s
  <2> QED
    BY <1>1, <1>7, <2>1, NewKept
<1> QED
  BY <1>5, <1>6, <1>8, <1>9, <1>10 DEF CopyInv

LEMMA MarkCopies ==
  ASSUME CopyInv, NEW q \in queue, RedeliverMark(q)
  PROVE  CopyInv'
<1>1. /\ daemon = "redeliver" /\ pendingFires' = pendingFires \ {q.fire}
      /\ deliveredFires' \subseteq deliveredFires \cup {q.fire}
      /\ queue' = queue \ {q}
      /\ UNCHANGED <<clock, disk, owners, daemon, due, runs, edit, starts, fired, wakes, res,
                     errored, passed, resumed, dropped>>
  BY DEF RedeliverMark, Settle, limits, schedHistory
<1>2. SchedTypes /\ DueOK /\ RunnerOK
  BY DEF CopyInv
<1>3. clock \in Nat /\ q.fire \in Fires
  BY <1>2 DEF SchedTypes
<1>4. SchedTypes'
  BY <1>1, <1>2, <1>3 DEF SchedTypes
<1>5. DueOK' /\ RunnerOK'
  BY <1>1, <1>2 DEF DueOK, DueCopy, RunnerOK, Resting
<1>6. ASSUME NEW u \in Tasks
      PROVE  FilesOK(u)' /\ WorkOK(u)' /\ NewOK(u)'
  BY <1>1, <1>3, CopiesKept, NewKept
<1> QED
  BY <1>4, <1>5, <1>6 DEF CopyInv

LEMMA TurnCopies ==
  ASSUME CopyInv, Redelivered \/ EndPass
  PROVE  CopyInv'
<1>1. /\ daemon # "down" /\ daemon' = "poll" /\ queue = {} /\ due = {} /\ Resting
      /\ UNCHANGED <<clock, disk, pendingFires, deliveredFires, owners, queue, due, runs, edit,
                     starts, fired, wakes, res, errored, passed, resumed, dropped>>
  BY DEF CopyInv, RunnerOK, Redelivered, EndPass, store, limits, schedHistory
<1>2. SchedTypes /\ DueOK /\ RunnerOK
  BY DEF CopyInv
<1>3. clock \in Nat
  BY <1>2 DEF SchedTypes
<1>4. SchedTypes'
  BY <1>1, <1>2 DEF SchedTypes
<1>5. DueOK' /\ RunnerOK'
  BY <1>1, <1>2 DEF DueOK, RunnerOK, Resting
<1>6. ASSUME NEW u \in Tasks
      PROVE  FilesOK(u)' /\ WorkOK(u)' /\ NewOK(u)'
  BY <1>1, <1>3, CopiesKept, NewKept
<1> QED
  BY <1>4, <1>5, <1>6 DEF CopyInv

\* What claim_due_tasks reads.
LEMMA PollShape ==
  ASSUME CopyInv, Poll
  PROVE  /\ daemon = "poll" /\ daemon' = "pass" /\ due = {} /\ queue = {} /\ Resting
         /\ \A d \in due' : /\ d \in [id : Tasks, task : TaskRecords, now : Nat] /\ d.task = disk[d.id]
                            /\ d.task.enabled /\ ~d.task.completed /\ d.task.next <= clock
         /\ \A d, e \in due' : d.id = e.id => d = e
         /\ UNCHANGED <<clock, disk, pendingFires, deliveredFires, owners, queue, runs, edit,
                        starts, fired, wakes, res, errored, passed, resumed, dropped>>
<1>1. /\ daemon = "poll" /\ daemon' = "pass" /\ due' \subseteq Due
      /\ UNCHANGED <<clock, disk, pendingFires, deliveredFires, owners, queue, runs, edit,
                     starts, fired, wakes, res, errored, passed, resumed, dropped>>
  BY DEF Poll, store, limits, schedHistory
<1>2. SchedTypes /\ due = {} /\ queue = {} /\ Resting
  BY <1>1 DEF CopyInv, RunnerOK
<1>3. ASSUME NEW d \in Due
      PROVE  /\ d.id \in Tasks /\ d.task = disk[d.id] /\ d.task # NoValue /\ IsDue(d.task)
             /\ d = [id |-> d.id, task |-> disk[d.id], now |-> clock]
  BY DEF Due
<1>4. ASSUME NEW d \in Due
      PROVE  /\ d \in [id : Tasks, task : TaskRecords, now : Nat] /\ d.task = disk[d.id]
             /\ d.task.enabled /\ ~d.task.completed /\ d.task.next <= clock
  <2>1. disk[d.id] \in TaskRecords
    BY <1>2, <1>3 DEF SchedTypes
  <2>2. d.id \in Tasks /\ d.task = disk[d.id] /\ d = [id |-> d.id, task |-> disk[d.id], now |-> clock]
    BY <1>3
  <2>3. d \in [id : Tasks, task : TaskRecords, now : Nat]
    BY <1>2, <2>1, <2>2 DEF SchedTypes
  <2> QED
    BY <1>3, <2>3 DEF IsDue
<1>5. \A d, e \in Due : d.id = e.id => d = e
  BY <1>3
<1> QED
  BY <1>1, <1>2, <1>4, <1>5

LEMMA PollCopies ==
  ASSUME CopyInv, Poll
  PROVE  CopyInv'
<1>1. /\ daemon = "poll" /\ daemon' = "pass" /\ due = {} /\ queue = {} /\ Resting
      /\ \A d \in due' : /\ d \in [id : Tasks, task : TaskRecords, now : Nat] /\ d.task = disk[d.id]
                         /\ d.task.enabled /\ ~d.task.completed /\ d.task.next <= clock
      /\ \A d, e \in due' : d.id = e.id => d = e
      /\ UNCHANGED <<clock, disk, pendingFires, deliveredFires, owners, queue, runs, edit,
                     starts, fired, wakes, res, errored, passed, resumed, dropped>>
  BY PollShape
<1>2. SchedTypes /\ RunnerOK
  BY DEF CopyInv
<1>3. clock \in Nat
  BY <1>2 DEF SchedTypes
<1>4. SchedTypes'
  BY <1>1, <1>2 DEF SchedTypes
<1>5. RunnerOK'
  BY <1>1, <1>2 DEF RunnerOK
<1>6. ASSUME NEW d \in due'
      PROVE  d.id \in Tasks /\ d.task \in TaskRecords /\ d.task = disk[d.id] /\ disk[d.id] # NoValue
  BY <1>1, SchedulerAssumption
<1>7. DueOK'
  <2> SUFFICES ASSUME NEW d \in due'
               PROVE  /\ DueCopy(d.id, d.task)' /\ d.task.enabled
                      /\ runs[d.id] = Asleep
                      /\ \A e \in due' : e.id = d.id => e = d
    BY <1>1 DEF DueOK
  <2>1. FilesOK(d.id)
    BY <1>6 DEF CopyInv
  <2>2. OnGrid(d.id, d.task) /\ resumed[d.id] <= d.task.next
    BY <1>1, <1>6, <2>1 DEF FilesOK, Active
  <2>3. DueCopy(d.id, d.task)'
    BY <1>1, <1>6, <2>2 DEF DueCopy
  <2>4. runs[d.id] = Asleep
    BY <1>1, <1>6 DEF Resting
  <2> QED
    BY <1>1, <2>3, <2>4
<1>8. ASSUME NEW u \in Tasks
      PROVE  FilesOK(u)' /\ WorkOK(u)' /\ NewOK(u)'
  BY <1>1, <1>3, <1>6, CopiesKept, NewKept
<1> QED
  BY <1>4, <1>5, <1>7, <1>8 DEF CopyInv

\* The lease.
LEMMA ClaimShape ==
  ASSUME CopyInv, NEW d \in due, ClaimTask(d)
  PROVE  LET h == ClaimedAt(d.now, d.task)
             w == [pc |-> "plan", task |-> h, plan |-> NoValue, todo |-> <<>>]
         IN /\ daemon = "pass" /\ d.id \in Tasks /\ d.task \in TaskRecords
            /\ DueCopy(d.id, d.task) /\ d.task.enabled /\ runs[d.id] = Asleep
            /\ \A e \in due : e.id = d.id => e = d
            /\ h \in TaskRecords /\ h.enabled /\ h.completed = d.task.completed
            /\ h.anchor = d.task.anchor /\ h.outcome = d.task.outcome /\ h.next = d.task.next
            /\ w \in Works /\ runs' = [runs EXCEPT ![d.id] = w]
            /\ disk' = [disk EXCEPT ![d.id] = h] /\ due' = due \ {d}
            /\ UNCHANGED <<clock, pendingFires, deliveredFires, owners, daemon, queue, edit,
                           starts, fired, wakes, res, errored, passed, resumed, dropped>>
<1> DEFINE h == ClaimedAt(d.now, d.task)
           w == [pc |-> "plan", task |-> h, plan |-> NoValue, todo |-> <<>>]
<1>1. /\ daemon = "pass"
      /\ runs' = [runs EXCEPT ![d.id] = [Asleep EXCEPT !.pc = "plan", !.task = h]]
      /\ disk' = [disk EXCEPT ![d.id] = h] /\ due' = due \ {d}
      /\ UNCHANGED <<clock, pendingFires, deliveredFires, owners, daemon, queue, edit,
                     starts, fired, wakes, res, errored, passed, resumed, dropped>>
  BY DEF ClaimTask, limits, schedHistory
<1>2. SchedTypes /\ DueOK
  BY DEF CopyInv
<1>3. d.id \in Tasks /\ d.task \in TaskRecords /\ d.now \in Nat /\ LeaseMs \in Nat
  BY <1>2, SchedulerAssumption DEF SchedTypes
<1>4. /\ DueCopy(d.id, d.task) /\ d.task.enabled /\ runs[d.id] = Asleep
      /\ \A e \in due : e.id = d.id => e = d
  BY <1>2 DEF DueOK
<1>5. d.now + LeaseMs \in Nat
  BY <1>3
<1>6. /\ h \in TaskRecords /\ h.enabled = d.task.enabled /\ h.completed = d.task.completed
      /\ h.anchor = d.task.anchor /\ h.outcome = d.task.outcome /\ h.next = d.task.next
  BY <1>3, <1>5 DEF ClaimedAt, TaskRecords
<1> HIDE DEF h
<1>7. [Asleep EXCEPT !.pc = "plan", !.task = h] = w
  <2> DEFINE v == [Asleep EXCEPT !.pc = "plan"]
  <2>1. v = [pc |-> "plan", task |-> NoValue, plan |-> NoValue, todo |-> <<>>]
    BY DEF Asleep
  <2>2. [Asleep EXCEPT !.pc = "plan", !.task = h] = [v EXCEPT !.task = h]
    BY DEF Asleep
  <2> HIDE DEF v
  <2>3. [v EXCEPT !.task = h] = w
    BY <2>1
  <2> QED
    BY <2>2, <2>3
<1>8. w \in Works
  BY <1>6 DEF Works, Stages
<1> QED
  BY <1>1, <1>3, <1>4, <1>6, <1>7, <1>8 DEF h

LEMMA ClaimCopies ==
  ASSUME CopyInv, NEW d \in due, ClaimTask(d)
  PROVE  CopyInv'
<1> DEFINE t == d.id
           h == ClaimedAt(d.now, d.task)
           w == [pc |-> "plan", task |-> h, plan |-> NoValue, todo |-> <<>>]
<1>1. /\ daemon = "pass" /\ t \in Tasks /\ d.task \in TaskRecords
      /\ DueCopy(t, d.task) /\ d.task.enabled /\ runs[t] = Asleep
      /\ \A e \in due : e.id = t => e = d
      /\ h \in TaskRecords /\ h.enabled /\ h.completed = d.task.completed
      /\ h.anchor = d.task.anchor /\ h.outcome = d.task.outcome /\ h.next = d.task.next
      /\ w \in Works /\ runs' = [runs EXCEPT ![t] = w]
      /\ disk' = [disk EXCEPT ![t] = h] /\ due' = due \ {d}
      /\ UNCHANGED <<clock, pendingFires, deliveredFires, owners, daemon, queue, edit,
                     starts, fired, wakes, res, errored, passed, resumed, dropped>>
  BY ClaimShape
<1> HIDE DEF h, t
<1>2. SchedTypes /\ DueOK /\ RunnerOK /\ FilesOK(t) /\ NewOK(t)
  BY <1>1 DEF CopyInv
<1>3. clock \in Nat
  BY <1>2 DEF SchedTypes
<1>4. /\ runs' \in [Tasks -> Works] /\ runs'[t] = w
      /\ \A u \in Tasks : u # t => runs'[u] = runs[u]
  BY <1>1, <1>2, WorkUpdate
<1>5. /\ disk' \in [Tasks -> TaskRecords \cup {NoValue}] /\ disk'[t] = h
      /\ \A u \in Tasks : u # t => disk'[u] = disk[u]
  BY <1>1, <1>2 DEF SchedTypes
<1>6. SchedTypes'
  BY <1>1, <1>2, <1>4, <1>5 DEF SchedTypes
<1>7. DueOK'
  <2> SUFFICES ASSUME NEW c \in due, c # d
               PROVE  /\ DueCopy(c.id, c.task)' /\ c.task.enabled
                      /\ runs'[c.id] = Asleep
                      /\ \A e \in due : e.id = c.id => e = c
    BY <1>1 DEF DueOK
  <2>1. c.id \in Tasks /\ c.id # t
    BY <1>1, <1>2 DEF SchedTypes
  <2>2. DueCopy(c.id, c.task)'
    BY <1>1, <1>2 DEF DueOK, DueCopy
  <2>3. runs'[c.id] = Asleep
    BY <1>2, <1>4, <2>1 DEF DueOK
  <2> QED
    BY <1>2, <2>2, <2>3 DEF DueOK
<1>8. RunnerOK'
  BY <1>1, <1>2 DEF RunnerOK
<1>9. DueCopy(t, h)
  BY <1>1 DEF DueCopy, OnGrid
<1>10. FilesOK(t)'
  BY <1>1, <1>2, <1>5, <1>9 DEF FilesOK, Active, DueCopy
<1>11. WorkOK(t)'
  <2>1. runs'[t].pc = "plan" /\ runs'[t].task = h
    BY <1>4
  <2>2. Working(t)' /\ ~Planned(t)'
    BY <2>1 DEF Working, Planned
  <2>3. DueCopy(t, runs[t].task)' /\ ~h.completed
    BY <1>1, <1>9, <2>1 DEF DueCopy
  <2> QED
    BY <1>1, <1>5, <2>1, <2>2, <2>3 DEF WorkOK
<1>12. NewOK(t)'
  <2>1. h # NoValue
    BY <1>1, SchedulerAssumption
  <2> QED
    BY <1>5, <2>1 DEF NewOK
<1>13. ASSUME NEW u \in Tasks, u # t
       PROVE  FilesOK(u)' /\ WorkOK(u)' /\ NewOK(u)'
  <2>1. runs'[u] = runs[u] /\ disk'[u] = disk[u]
    BY <1>4, <1>5, <1>13
  <2> QED
    BY <1>1, <1>3, <2>1, CopiesKept, NewKept
<1> QED
  BY <1>1, <1>6, <1>7, <1>8, <1>10, <1>11, <1>12, <1>13 DEF CopyInv

LEMMA CopyInvStep ==
  ASSUME CopyInv, [SchedNext]_schedVars
  PROVE  CopyInv'
<1>1. CASE UNCHANGED schedVars
  <2>1. UNCHANGED <<clock, disk, pendingFires, deliveredFires, owners, daemon, queue, due, runs,
                    edit, starts, fired, wakes, res, errored, passed, resumed, dropped>>
    BY <1>1 DEF schedVars, store, process, limits, schedHistory
  <2>2. SchedTypes /\ DueOK /\ RunnerOK
    BY DEF CopyInv
  <2>3. clock \in Nat
    BY <2>2 DEF SchedTypes
  <2>4. SchedTypes'
    BY <2>1, <2>2 DEF SchedTypes
  <2>5. DueOK' /\ RunnerOK'
    BY <2>1, <2>2 DEF DueOK, DueCopy, RunnerOK, Resting
  <2>6. ASSUME NEW u \in Tasks PROVE FilesOK(u)' /\ WorkOK(u)' /\ NewOK(u)'
    BY <2>1, <2>3, CopiesKept, NewKept
  <2> QED
    BY <2>4, <2>5, <2>6 DEF CopyInv
<1>2. ASSUME NEW t \in Tasks, CreateTask(t) PROVE CopyInv'
  BY <1>2, CreateCopies
<1>3. ASSUME NEW t \in Tasks, DisableRead(t) PROVE CopyInv'
  BY <1>3, DisableReadCopies
<1>4. ASSUME NEW t \in Tasks, DisableWrite(t) \/ DeleteTask(t) PROVE CopyInv'
  BY <1>4, DropCopies
<1>5. CASE TimePasses \/ \E t \in Tasks : RemoveOwner(t)
  BY <1>5, WorldCopies
<1>6. CASE StartRunner
  BY <1>6, StartCopies
<1>7. CASE Stops
  BY <1>7, StopCopies
<1>8. ASSUME NEW q \in queue, RedeliverSend(q) PROVE CopyInv'
  BY <1>8, SendCopies
<1>9. ASSUME NEW q \in queue, RedeliverMark(q) PROVE CopyInv'
  BY <1>9, MarkCopies
<1>10. CASE Redelivered \/ EndPass
  BY <1>10, TurnCopies
<1>11. CASE Poll
  BY <1>11, PollCopies
<1>12. ASSUME NEW d \in due, ClaimTask(d) PROVE CopyInv'
  BY <1>12, ClaimCopies
<1>13. ASSUME NEW t \in Tasks, PlanTask(t) PROVE CopyInv'
  BY <1>13, PlanCopies
<1>14. ASSUME NEW t \in Tasks, FiringStep(t) PROVE CopyInv'
  BY <1>14, FiringCopies
<1>15. ASSUME NEW t \in Tasks, RecordRun(t) PROVE CopyInv'
  BY <1>15, RecordCopies
<1>16. ASSUME NEW t \in Tasks, Resume(t) PROVE CopyInv'
  BY <1>16, ResumeCopies
<1>17. CASE RunnerStep
  BY <1>8, <1>9, <1>10, <1>11, <1>12, <1>13, <1>14, <1>15, <1>16, <1>17 DEF RunnerStep, FiringStep
<1> QED
  BY <1>1, <1>2, <1>3, <1>4, <1>5, <1>6, <1>7, <1>17 DEF SchedNext, Stops

-----------------------------------------------------------------------------
(* The plan of a pass. *)

LEMMA AccountedFromCopies == CopyInv => Accounted /\ NewestKept
<1> SUFFICES ASSUME CopyInv PROVE Accounted /\ NewestKept
  OBVIOUS
<1>1. Accounted
  <2> SUFFICES ASSUME NEW t \in Tasks, disk[t] # NoValue, Every(t)
               PROVE  LET r == disk[t]  i == Schedule[t].interval
                      IN /\ r.next > r.anchor /\ (r.next - r.anchor) % i = 0
                         /\ r.outcome # NoValue =>
                              /\ (r.outcome.fired + r.outcome.skipped) * i = r.next - r.outcome.due
                              /\ r.outcome.fired <= CatchupCap
    BY DEF Accounted
  <2>1. OnGrid(t, disk[t])
    BY DEF CopyInv, FilesOK
  <2> QED
    BY <2>1 DEF OnGrid
<1>2. NewestKept
  <2> SUFFICES ASSUME NEW t \in Tasks, Policy[t] = "all", Every(t), runs[t].pc = "fire"
               PROVE  LET fires == runs[t].plan.fires  i == Schedule[t].interval
                      IN /\ fires[Len(fires)] + i = runs[t].plan.next
                         /\ \A k \in 1 .. Len(fires) - 1 : fires[k + 1] = fires[k] + i
                         /\ Len(fires) = CatchupCap \/ fires[1] = runs[t].plan.outcome.due
    BY DEF NewestKept
  <2>1. NewestOK(t, runs[t].plan)
    BY DEF CopyInv, WorkOK, Planned, PlanOK
  <2> QED
    BY <2>1 DEF NewestOK
<1> QED
  BY <1>1, <1>2

LEMMA NeverPastStep ==
  ASSUME CopyInv, [SchedNext]_schedVars, NEW t \in Tasks, NEW s \in Slots,
         fired'[t][s] > fired[t][s]
  PROVE  resumed[t] <= s /\ s <= clock
<1>1. fired \in [Tasks -> [Slots -> Nat]] /\ fired[t][s] \in Nat
  BY DEF CopyInv, SchedTypes
<1>2. fired' # fired
  BY <1>1
<1>3. \E u \in Tasks : RunCommand(u) \/ RunFails(u)
  BY <1>2 DEF SchedNext, RunnerStep, CreateTask, DisableRead, DisableWrite, DeleteTask, RemoveOwner,
     TimePasses, StartRunner, RunnerDies, Exit, RedeliverFails, RedeliverSend, RedeliverMark,
     Redelivered, EndPass, Poll, ClaimTask, PlanTask, PutPendingFire, SendWakeup, DeliveryFails,
     MarkFireDelivered, RecordRun, Resume, schedVars, schedHistory
<1>4. PICK u \in Tasks : RunCommand(u) \/ RunFails(u)
  BY <1>3
<1>5. runs[u].pc \in Firing /\ fired' = Count(fired, u, Slot(u))
  BY <1>4 DEF RunCommand, RunFails, At, Firing
<1>6. /\ Slot(u) \in Slots /\ Slot(u) \in Nat /\ Slot(u) <= clock
      /\ runs[u].task.next <= Slot(u) /\ resumed[u] <= runs[u].task.next
      /\ runs[u].task.next \in Nat /\ resumed[u] \in Nat
  BY <1>5, HeadFacts
<1>7. u = t /\ s = Slot(u)
  <2> SUFFICES ASSUME t # u \/ s # Slot(u) PROVE FALSE
    OBVIOUS
  <2>1. Count(fired, u, Slot(u))[t][s] = fired[t][s]
    BY <1>1, <1>6, CountFacts
  <2> QED
    BY <1>1, <1>5, <2>1
<1> QED
  BY <1>6, <1>7

\* The plan of every pass accounts for each slot and gives up only the oldest ones,
\* and no slot is fired before its time or beyond the point where the grid resumed
\* (plan_missed_fires, run_task): for any schedules, policies, lease and cap, and
\* with the cancel and delete tools writing the same files.
THEOREM PlanKeptCorrect == SchedSpec => PlanKept
<1>1. SchedInit => CopyInv
  BY SchedInvInit DEF SchedInv
<1>2. CopyInv /\ [SchedNext]_schedVars => CopyInv'
  BY CopyInvStep
<1>3. CopyInv => Accounted /\ NewestKept
  BY AccountedFromCopies
<1>4. CopyInv /\ [SchedNext]_schedVars =>
        [\A t \in Tasks, s \in Slots :
           fired'[t][s] > fired[t][s] => resumed[t] <= s /\ s <= clock]_schedVars
  BY NeverPastStep
<1> QED
  BY <1>1, <1>2, <1>3, <1>4, PTL DEF SchedSpec, PlanKept, NeverPastResume

-----------------------------------------------------------------------------
(* What is owed to the conversations. *)

\* A step takes nothing back: a fire leaves the pending ones only when its
\* conversation was woken or is gone.
Louder ==
  /\ \A t \in Tasks, s \in Slots : wakes[t][s] <= wakes'[t][s]
  /\ errored \subseteq errored' /\ owners' \subseteq owners
  /\ \A t \in Tasks : passed[t] \subseteq passed'[t]
  /\ \A f \in Fires : /\ f \in pendingFires \cup deliveredFires =>
                           f \in pendingFires' \cup deliveredFires'
                      /\ f \in pendingFires =>
                           f \in pendingFires' \/ wakes[f[1]][f[2]] > 0 \/ f[1] \notin owners

\* The step leaves the copies of u alone.
Untouched(u) ==
  runs'[u] = runs[u] /\ disk'[u] = disk[u] /\ \A d \in due' : d.id = u => d \in due

LEMMA HeardKept ==
  ASSUME SchedTypes, SchedTypes', Louder, NEW t \in Tasks, NEW s \in Slots, Reached(t, s)
  PROVE  Reached(t, s)'
<1>1. wakes[t][s] \in Nat /\ wakes'[t][s] \in Nat
  BY DEF SchedTypes
<1>2. wakes[t][s] <= wakes'[t][s]
  BY DEF Louder
<1>3. <<t, s>> \in Fires /\ <<t, s>>[1] = t /\ <<t, s>>[2] = s
  BY DEF Fires
<1>4. wakes[t][s] > 0 => wakes'[t][s] > 0
  BY <1>1, <1>2
<1>5. <<t, s>> \in pendingFires => <<t, s>> \in pendingFires' \/ wakes[t][s] > 0 \/ t \notin owners
  BY <1>3 DEF Louder
<1>6. /\ <<t, s>> \in errored => <<t, s>> \in errored'
      /\ s \in passed[t] => s \in passed'[t]
      /\ t \notin owners => t \notin owners'
  BY DEF Louder
<1> QED
  BY <1>4, <1>5, <1>6 DEF Reached

LEMMA OwedKept ==
  ASSUME NEW u \in Tasks, NEW s \in Slots, Untouched(u), Owed(u, s)
  PROVE  Owed(u, s)'
BY DEF Untouched, Owed, Working, Planned

LEMMA LeftKept ==
  ASSUME NEW u \in Tasks, NEW s \in Slots, Untouched(u), Left(u, s)'
  PROVE  Left(u, s)
BY DEF Untouched, Left, Working, Planned, Active

LEMMA RanKept ==
  ASSUME SchedTypes, SchedTypes', Louder, NEW t \in Tasks, NEW s \in Slots, RanOK(t, s),
         <<t, s>> \in res' => <<t, s>> \in res, clock <= clock',
         Owed(t, s) => Reached(t, s)' \/ Owed(t, s)'
  PROVE  RanOK(t, s)'
<1>1. clock \in Nat /\ clock' \in Nat /\ s \in Nat
  BY SlotTypes DEF SchedTypes
<1>2. s <= clock => s <= clock'
  BY <1>1
<1>3. Reached(t, s) => Reached(t, s)'
  BY HeardKept
<1> QED
  BY <1>2, <1>3 DEF RanOK

LEMMA HeadKept ==
  ASSUME CopyInv, SchedTypes', Louder, NEW u \in Tasks, runs'[u] = runs[u], HeadOK(u),
         \A s \in Slots : <<u, s>> \in res' => <<u, s>> \in res
  PROVE  HeadOK(u)'
<1>1. Slot(u)' = Slot(u)
  BY DEF Slot
<1>2. CASE runs[u].pc \in Firing
  <2>1. PICK s \in Slots : s = Slot(u)
    BY <1>2, HeadFacts
  <2>2. <<u, s>> \in Fires /\ SchedTypes /\ Slot(u)' = s
    BY <1>1, <2>1 DEF CopyInv, Fires
  <2>3. runs[u].pc = "send" => <<u, s>> \in pendingFires' \cup deliveredFires'
    BY <2>1, <2>2 DEF HeadOK, Louder
  <2>4. runs[u].pc = "mark" => wakes'[u][s] > 0
    <3>1. wakes[u][s] \in Nat /\ wakes'[u][s] \in Nat /\ wakes[u][s] <= wakes'[u][s]
      BY <2>2 DEF SchedTypes, Louder
    <3>2. wakes[u][s] > 0 => wakes'[u][s] > 0
      BY <3>1
    <3> QED
      BY <2>1, <3>2 DEF HeadOK
  <2>5. runs[u].pc = "record" /\ <<u, s>> \in res => Reached(u, s)
    BY <2>1 DEF HeadOK
  <2>6. runs[u].pc = "record" /\ <<u, s>> \in res' => Reached(u, s)'
    BY <2>2, <2>5, HeardKept
  <2> QED
    BY <2>2, <2>3, <2>4, <2>6 DEF HeadOK, Reached
<1>3. CASE runs[u].pc \notin Firing
  BY <1>3 DEF HeadOK, Firing
<1> QED
  BY <1>2, <1>3

LEMMA BudgetKept ==
  ASSUME NEW t \in Tasks, NEW s \in Slots, BudgetOK(t, s), starts' = starts,
         fired'[t][s] = fired[t][s], wakes'[t][s] = wakes[t][s],
         daemon' # "down" /\ Left(t, s)' => daemon # "down" /\ Left(t, s),
         runs'[t].pc \in {"pend", "send"} => runs[t].pc \in {"pend", "send"} /\ Slot(t)' = Slot(t),
         [fire |-> <<t, s>>, sent |-> FALSE] \in queue' => [fire |-> <<t, s>>, sent |-> FALSE] \in queue
  PROVE  BudgetOK(t, s)'
BY DEF BudgetOK

\* A task whose copies and wakeups the step leaves alone.
LEMMA HearUntouched ==
  ASSUME CopyInv, HearInv, SchedTypes', Louder, NEW u \in Tasks, Untouched(u), clock <= clock',
         starts' = starts, fired'[u] = fired[u], wakes'[u] = wakes[u],
         daemon' # "down" => daemon # "down",
         \A s \in Slots : /\ <<u, s>> \in res' => <<u, s>> \in res
                          /\ [fire |-> <<u, s>>, sent |-> FALSE] \in queue' =>
                               [fire |-> <<u, s>>, sent |-> FALSE] \in queue
  PROVE  HeadOK(u)' /\ \A s \in Slots : RanOK(u, s)' /\ BudgetOK(u, s)'
<1>1. SchedTypes /\ HeadOK(u) /\ runs'[u] = runs[u]
  BY DEF CopyInv, HearInv, Untouched
<1>2. HeadOK(u)'
  BY <1>1, HeadKept
<1>3. ASSUME NEW s \in Slots PROVE RanOK(u, s)' /\ BudgetOK(u, s)'
  <2>1. RanOK(u, s) /\ BudgetOK(u, s)
    BY DEF HearInv
  <2>2. Owed(u, s) => Owed(u, s)'
    BY OwedKept
  <2>3. RanOK(u, s)'
    BY <1>1, <2>1, <2>2, RanKept
  <2>4. Left(u, s)' => Left(u, s)
    BY LeftKept
  <2>5. Slot(u)' = Slot(u)
    BY <1>1 DEF Slot
  <2>6. BudgetOK(u, s)'
    BY <1>1, <2>1, <2>4, <2>5, BudgetKept
  <2> QED
    BY <2>3, <2>6
<1> QED
  BY <1>2, <1>3

\* Nothing is said and nothing is settled.
Mute ==
  /\ UNCHANGED <<pendingFires, deliveredFires, starts, fired, wakes, res, errored, passed>>
  /\ owners' \subseteq owners /\ clock <= clock' /\ queue' \subseteq queue
  /\ daemon' # "down" => daemon # "down"

LEMMA MuteLouder ==
  ASSUME SchedTypes, Mute
  PROVE  Louder
<1>1. wakes \in [Tasks -> [Slots -> Nat]]
  BY DEF SchedTypes
<1>2. \A t \in Tasks, s \in Slots : wakes[t][s] <= wakes'[t][s]
  BY <1>1 DEF Mute
<1> QED
  BY <1>2 DEF Mute, Louder

LEMMA MuteHear ==
  ASSUME CopyInv, HearInv, CopyInv', Mute,
         \A t \in Tasks : HeadOK(t)' /\ \A s \in Slots : RanOK(t, s)' /\ BudgetOK(t, s)'
  PROVE  HearInv'
<1>1. passed \in [Tasks -> SUBSET Slots] /\ SettledOK /\ NoResurrection
  BY DEF HearInv
<1>2. passed' \in [Tasks -> SUBSET Slots] /\ NoResurrection'
  BY <1>1 DEF Mute, NoResurrection
<1>3. SettledOK'
  BY <1>1 DEF SettledOK, Mute
<1> QED
  BY <1>2, <1>3 DEF HearInv

\* A mute step leaves alone all tasks but t.
LEMMA MuteOthers ==
  ASSUME CopyInv, HearInv, CopyInv', Mute, NEW u \in Tasks, Untouched(u)
  PROVE  HeadOK(u)' /\ \A s \in Slots : RanOK(u, s)' /\ BudgetOK(u, s)'
<1>1. SchedTypes /\ SchedTypes' /\ Louder
  BY MuteLouder DEF CopyInv
<1>2. /\ starts' = starts /\ fired'[u] = fired[u] /\ wakes'[u] = wakes[u] /\ res' = res
      /\ clock <= clock' /\ (daemon' # "down" => daemon # "down") /\ queue' \subseteq queue
  BY DEF Mute
<1> QED
  BY <1>1, <1>2, HearUntouched

\* The task that a mute step works on: its copies are still before what is owed, and
\* the process may begin no slot that it could not begin before.
LEMMA MuteTask ==
  ASSUME CopyInv, HearInv, CopyInv', Mute, NEW t \in Tasks,
         runs'[t].pc \notin {"pend", "send", "mark", "record"} \/ runs'[t] = runs[t],
         \A s \in Slots : RanOK(t, s) /\ Owed(t, s) /\ <<t, s>> \in res => Reached(t, s)' \/ Owed(t, s)',
         \A s \in Slots : Left(t, s)' => Left(t, s)
  PROVE  HeadOK(t)' /\ \A s \in Slots : RanOK(t, s)' /\ BudgetOK(t, s)'
<1>1. SchedTypes /\ SchedTypes' /\ Louder
  BY MuteLouder DEF CopyInv
<1>2. /\ starts' = starts /\ fired' = fired /\ wakes' = wakes /\ res' = res
      /\ clock <= clock' /\ (daemon' # "down" => daemon # "down") /\ queue' \subseteq queue
  BY DEF Mute
<1>3. HeadOK(t) /\ \A s \in Slots : RanOK(t, s) /\ BudgetOK(t, s)
  BY DEF HearInv
<1>4. HeadOK(t)'
  <2>1. CASE runs'[t] = runs[t]
    BY <1>1, <1>2, <1>3, <2>1, HeadKept
  <2>2. CASE runs'[t].pc \notin {"pend", "send", "mark", "record"}
    BY <2>2 DEF HeadOK
  <2> QED
    BY <2>1, <2>2
<1>5. ASSUME NEW s \in Slots PROVE RanOK(t, s)' /\ BudgetOK(t, s)'
  <2>1. RanOK(t, s)'
    <3>1. CASE <<t, s>> \in res
      BY <1>1, <1>2, <1>3, <3>1, RanKept
    <3>2. CASE <<t, s>> \notin res
      BY <1>2, <3>2 DEF RanOK
    <3> QED
      BY <3>1, <3>2
  <2>2. runs'[t].pc \in {"pend", "send"} => runs[t].pc \in {"pend", "send"} /\ Slot(t)' = Slot(t)
    BY DEF Slot
  <2>3. BudgetOK(t, s)'
    BY <1>2, <1>3, <2>2, BudgetKept
  <2> QED
    BY <2>1, <2>3
<1> QED
  BY <1>4, <1>5

LEMMA CreateHear ==
  ASSUME CopyInv, HearInv, CopyInv', NEW t \in Tasks, CreateTask(t)
  PROVE  HearInv'
<1>1. /\ disk[t] = NoValue /\ t \notin dropped /\ disk' = [disk EXCEPT ![t] = NewTask(t)]
      /\ UNCHANGED <<clock, pendingFires, deliveredFires, owners, daemon, queue, due, runs, edit,
                     starts, fired, wakes, res, errored, passed, dropped>>
  BY DEF CreateTask, process, limits
<1>2. SchedTypes /\ RunnerOK /\ NewOK(t)
  BY DEF CopyInv
<1>3. clock \in Nat /\ starts \in Nat
  BY <1>2 DEF SchedTypes
<1>4. Mute
  BY <1>1, <1>3 DEF Mute
<1>5. ASSUME NEW u \in Tasks, u # t
      PROVE  HeadOK(u)' /\ \A s \in Slots : RanOK(u, s)' /\ BudgetOK(u, s)'
  <2>1. Untouched(u)
    BY <1>1, <1>2, <1>5 DEF Untouched, SchedTypes
  <2> QED
    BY <1>4, <2>1, MuteOthers
<1>6. /\ ~Working(t) /\ (\A q \in queue : q.fire[1] # t)
      /\ \A s \in Slots : fired[t][s] = 0 /\ wakes[t][s] = 0 /\ <<t, s>> \notin res
  BY <1>1, <1>2 DEF NewOK
<1>7. HeadOK(t)'
  BY <1>1, <1>6 DEF HeadOK, Working
<1>8. ASSUME NEW s \in Slots PROVE RanOK(t, s)' /\ BudgetOK(t, s)'
  <2>1. RanOK(t, s)'
    BY <1>1, <1>6 DEF RanOK
  <2>2. daemon # "down" => 0 < starts /\ 0 < 2 * starts - 1
    BY <1>2, <1>3 DEF RunnerOK
  <2>3. fired'[t][s] = 0 /\ wakes'[t][s] = 0
    BY <1>1, <1>6
  <2>4. [fire |-> <<t, s>>, sent |-> FALSE] \notin queue
    BY <1>6
  <2>5. runs'[t].pc = "idle" /\ starts' = starts /\ daemon' = daemon /\ queue' = queue
    BY <1>1, <1>6 DEF Working
  <2>6. BudgetOK(t, s)'
    BY <1>3, <2>2, <2>3, <2>4, <2>5 DEF BudgetOK
  <2> QED
    BY <2>1, <2>6
<1> QED
  BY <1>4, <1>5, <1>7, <1>8, MuteHear

\* The other steps that change no copy.
LEMMA IdleHear ==
  ASSUME CopyInv, HearInv, CopyInv',
         \/ TimePasses \/ Redelivered \/ EndPass
         \/ \E t \in Tasks : RemoveOwner(t) \/ DisableRead(t)
  PROVE  HearInv'
<1>1. SchedTypes /\ clock \in Nat
  BY DEF CopyInv, SchedTypes
<1>2. clock <= clock'
  BY <1>1 DEF TimePasses, Redelivered, EndPass, RemoveOwner, DisableRead
<1>3. Mute /\ UNCHANGED <<disk, runs, due>>
  BY <1>2 DEF Mute, TimePasses, Redelivered, EndPass, RemoveOwner, DisableRead, store, process, limits,
            schedHistory
<1>4. \A u \in Tasks : Untouched(u)
  BY <1>3 DEF Untouched
<1> QED
  BY <1>3, <1>4, MuteOthers, MuteHear

LEMMA DropHear ==
  ASSUME CopyInv, HearInv, CopyInv', NEW t \in Tasks, DisableWrite(t) \/ DeleteTask(t)
  PROVE  HearInv'
<1>1. /\ disk' = [disk EXCEPT ![t] = edit[t]] \/ disk' = [disk EXCEPT ![t] = NoValue]
      /\ UNCHANGED <<clock, pendingFires, deliveredFires, owners, daemon, queue, due, runs,
                     starts, fired, wakes, res, errored, passed, resumed>>
  BY DEF DisableWrite, DeleteTask, process, limits
<1>2. SchedTypes /\ FilesOK(t) /\ clock \in Nat
  BY DEF CopyInv, SchedTypes
<1>3. Mute
  BY <1>1, <1>2 DEF Mute
<1>4. disk'[t] # NoValue => ~disk'[t].enabled
  BY <1>1, <1>2 DEF FilesOK, SchedTypes
<1>5. ASSUME NEW s \in Slots PROVE Owed(t, s) => Owed(t, s)'
  BY <1>1, <1>4 DEF Owed, Working, Planned
<1>6. ASSUME NEW s \in Slots PROVE Left(t, s)' => Left(t, s)
  BY <1>1, <1>4 DEF Left, Working, Planned, Active
<1>7. HeadOK(t)' /\ \A s \in Slots : RanOK(t, s)' /\ BudgetOK(t, s)'
  BY <1>1, <1>3, <1>5, <1>6, MuteTask
<1>8. ASSUME NEW u \in Tasks, u # t
      PROVE  HeadOK(u)' /\ \A s \in Slots : RanOK(u, s)' /\ BudgetOK(u, s)'
  <2>1. Untouched(u)
    BY <1>1, <1>2, <1>8 DEF Untouched, SchedTypes
  <2> QED
    BY <1>3, <2>1, MuteOthers
<1> QED
  BY <1>3, <1>7, <1>8, MuteHear

LEMMA StopHear ==
  ASSUME CopyInv, HearInv, CopyInv', Stops
  PROVE  HearInv'
<1>1. /\ daemon # "down" /\ daemon' = "down" /\ queue' = {} /\ due' = {}
      /\ runs' = [t \in Tasks |-> Asleep]
      /\ UNCHANGED <<clock, disk, pendingFires, deliveredFires, owners, edit, starts,
                     fired, wakes, res, errored, passed, resumed, dropped>>
  BY StopShape
<1>2. SchedTypes /\ SchedTypes' /\ clock \in Nat
  BY DEF CopyInv, SchedTypes
<1>3. Mute
  BY <1>1, <1>2 DEF Mute
<1>4. ASSUME NEW t \in Tasks
      PROVE  HeadOK(t)' /\ \A s \in Slots : RanOK(t, s)' /\ BudgetOK(t, s)'
  <2>1. runs'[t].pc = "idle" /\ ~Working(t)' /\ ~Planned(t)'
    BY <1>1 DEF Asleep, Working, Planned
  <2>2. HeadOK(t)'
    BY <2>1 DEF HeadOK
  <2>3. ASSUME NEW s \in Slots PROVE RanOK(t, s)' /\ BudgetOK(t, s)'
    <3>1. RanOK(t, s) /\ BudgetOK(t, s)
      BY DEF HearInv
    <3>2. Owed(t, s) => Owed(t, s)'
      BY <1>1, <2>1 DEF Owed
    <3>3. RanOK(t, s)'
      <4>1. Louder /\ clock <= clock' /\ res' = res
        BY <1>2, <1>3, MuteLouder DEF Mute
      <4> QED
        BY <1>2, <3>1, <3>2, <4>1, RanKept
    <3>4. BudgetOK(t, s)'
      BY <1>1, <2>1, <3>1 DEF BudgetOK
    <3> QED
      BY <3>3, <3>4
  <2> QED
    BY <2>2, <2>3
<1> QED
  BY <1>3, <1>4, MuteHear

LEMMA PollHear ==
  ASSUME CopyInv, HearInv, CopyInv', Poll
  PROVE  HearInv'
<1>1. /\ daemon = "poll" /\ daemon' = "pass" /\ due = {} /\ queue = {} /\ Resting
      /\ \A d \in due' : /\ d \in [id : Tasks, task : TaskRecords, now : Nat] /\ d.task = disk[d.id]
                         /\ d.task.enabled /\ ~d.task.completed /\ d.task.next <= clock
      /\ UNCHANGED <<clock, disk, pendingFires, deliveredFires, owners, queue, runs, edit,
                     starts, fired, wakes, res, errored, passed, resumed, dropped>>
  BY PollShape
<1>2. clock \in Nat
  BY DEF CopyInv, SchedTypes
<1>3. Mute
  BY <1>1, <1>2 DEF Mute
<1>4. ASSUME NEW d \in due'
      PROVE  disk[d.id] = d.task /\ Active(disk[d.id])
  BY <1>1, SchedulerAssumption DEF Active
<1>5. ASSUME NEW t \in Tasks
      PROVE  HeadOK(t)' /\ \A s \in Slots : RanOK(t, s)' /\ BudgetOK(t, s)'
  <2>1. ~Working(t) /\ runs'[t] = runs[t]
    BY <1>1 DEF Resting, Working, Asleep
  <2>2. ASSUME NEW s \in Slots PROVE Owed(t, s) => Owed(t, s)'
    BY <1>1, <1>4, <2>1 DEF Owed, Working, Planned, Active
  <2>3. ASSUME NEW s \in Slots PROVE Left(t, s)' => Left(t, s)
    BY <1>1, <1>4, <2>1 DEF Left, Working, Planned, Active
  <2> QED
    BY <1>3, <2>1, <2>2, <2>3, MuteTask
<1> QED
  BY <1>3, <1>5, MuteHear

LEMMA ClaimHear ==
  ASSUME CopyInv, HearInv, CopyInv', NEW d \in due, ClaimTask(d)
  PROVE  HearInv'
<1>1. PICK t \in Tasks : t = d.id
  BY ClaimShape
<1> DEFINE h == ClaimedAt(d.now, d.task)
           w == [pc |-> "plan", task |-> h, plan |-> NoValue, todo |-> <<>>]
<1>2. /\ daemon = "pass" /\ t \in Tasks /\ ~d.task.completed /\ h.completed = d.task.completed
      /\ h.next = d.task.next /\ w \in Works /\ runs' = [runs EXCEPT ![t] = w]
      /\ disk' = [disk EXCEPT ![t] = h] /\ due' = due \ {d}
      /\ UNCHANGED <<clock, pendingFires, deliveredFires, owners, daemon, queue, edit,
                     starts, fired, wakes, res, errored, passed, resumed, dropped>>
  BY <1>1, ClaimShape DEF DueCopy
<1> HIDE DEF h
<1>3. SchedTypes /\ clock \in Nat
  BY DEF CopyInv, SchedTypes
<1>4. Mute
  BY <1>2, <1>3 DEF Mute
<1>5. runs'[t] = w /\ disk'[t] = h /\ \A u \in Tasks : u # t => runs'[u] = runs[u] /\ disk'[u] = disk[u]
  BY <1>2, <1>3 DEF SchedTypes
<1>6. runs'[t].pc = "plan" /\ runs'[t].task = h
  BY <1>5
<1>7. Working(t)' /\ ~Planned(t)'
  BY <1>6 DEF Working, Planned
<1>8. ASSUME NEW s \in Slots PROVE Owed(t, s) => Owed(t, s)'
  BY <1>1, <1>2, <1>5, <1>6, <1>7 DEF Owed
<1>9. ASSUME NEW s \in Slots PROVE Left(t, s)' => Left(t, s)
  BY <1>1, <1>2, <1>6, <1>7 DEF Left, Firing
<1>10. HeadOK(t)' /\ \A s \in Slots : RanOK(t, s)' /\ BudgetOK(t, s)'
  BY <1>4, <1>6, <1>8, <1>9, MuteTask
<1>11. ASSUME NEW u \in Tasks, u # t
       PROVE  HeadOK(u)' /\ \A s \in Slots : RanOK(u, s)' /\ BudgetOK(u, s)'
  <2>1. Untouched(u)
    BY <1>2, <1>5, <1>11 DEF Untouched
  <2> QED
    BY <1>4, <2>1, MuteOthers
<1> QED
  BY <1>4, <1>10, <1>11, MuteHear

LEMMA PlanHear ==
  ASSUME CopyInv, HearInv, CopyInv', NEW t \in Tasks, PlanTask(t)
  PROVE  HearInv'
<1> DEFINE r == runs[t].task
           p == PlanMissedFires(t, r)
           g == IF p.fires = <<>> \/ ~r.enabled THEN "resume" ELSE "fire"
           w == [pc |-> g, task |-> r, plan |-> p, todo |-> p.fires]
<1>1. /\ p \in Plans /\ PlanOK(t, r, p) /\ (\A k \in DOMAIN p.fires : p.fires[k] <= clock)
      /\ Every(t) => clock < p.next
      /\ w \in Works /\ runs' = [runs EXCEPT ![t] = w]
      /\ daemon = "pass" /\ due = {} /\ runs[t].pc = "plan" /\ r \in TaskRecords
  BY PlanShape
<1> HIDE DEF p
<1>2. SchedTypes /\ clock \in Nat /\ WorkOK(t) /\ Working(t) /\ ~Planned(t)
  BY <1>1 DEF CopyInv, SchedTypes, Working, Planned
<1>3. UNCHANGED <<clock, disk, pendingFires, deliveredFires, owners, daemon, queue, due, edit,
                  starts, fired, wakes, res, errored, passed, resumed, dropped>>
  BY DEF PlanTask, store, limits, schedHistory
<1>4. Mute
  BY <1>2, <1>3 DEF Mute
<1>5. runs'[t] = w /\ \A u \in Tasks : u # t => runs'[u] = runs[u]
  BY <1>1, <1>2, WorkUpdate
<1>6. runs'[t].pc = g /\ runs'[t].task = r /\ runs'[t].plan = p /\ runs'[t].todo = p.fires
  BY <1>5
<1>7. g \in {"resume", "fire"}
  OBVIOUS
<1> HIDE DEF g, r
<1>8. Working(t)' /\ Planned(t)'
  BY <1>6, <1>7 DEF Working, Planned
<1>9. r.next \in Nat /\ r.next <= clock /\ p.next \in Nat
  BY <1>1, <1>2 DEF WorkOK, DueCopy, TaskRecords, PlanOK, r
<1>10. \A s \in Slots : InSeq(s, p.fires) => r.next <= s
  BY <1>1 DEF PlanOK, FiresOK, InSeq
<1>11. ASSUME NEW s \in Slots, RanOK(t, s), Owed(t, s), <<t, s>> \in res PROVE Owed(t, s)'
  <2>1. s <= clock /\ (~Every(t) => s = Schedule[t].at) /\ s \in Nat
    BY <1>11, SlotTypes DEF RanOK
  <2>2. r.next <= s /\ (disk[t] # NoValue /\ disk[t].enabled => ~disk[t].completed /\ disk[t].next <= s)
    BY <1>2, <1>11 DEF Owed, r
  <2>3. InSeq(s, p.fires) \/ (~InSeq(s, p.fires) /\ s < p.next)
    <3>1. CASE Every(t)
      BY <1>1, <1>2, <1>9, <2>1, <3>1
    <3>2. CASE ~Every(t)
      <4>1. p.fires = <<Schedule[t].at>>
        BY <1>1, <3>2 DEF PlanOK, FiresOK
      <4> QED
        BY <2>1, <3>2, <4>1 DEF InSeq
    <3> QED
      BY <3>1, <3>2
  <2> QED
    BY <1>1, <1>3, <1>6, <1>8, <2>2, <2>3 DEF Owed
<1>12. ASSUME NEW s \in Slots, Left(t, s)' PROVE Left(t, s)
  <2>1. (Every(t) /\ p.next <= s) \/ InSeq(s, p.fires)
    BY <1>1, <1>3, <1>6, <1>7, <1>8, <1>12 DEF Left, Firing
  <2>2. s \in Nat
    BY SlotTypes
  <2>3. r.next <= s
    BY <1>1, <1>2, <1>9, <1>10, <2>1, <2>2
  <2> QED
    BY <1>1, <2>3 DEF Left, r
<1>13. HeadOK(t)' /\ \A s \in Slots : RanOK(t, s)' /\ BudgetOK(t, s)'
  BY <1>4, <1>6, <1>7, <1>11, <1>12, MuteTask
<1>14. ASSUME NEW u \in Tasks, u # t
       PROVE  HeadOK(u)' /\ \A s \in Slots : RanOK(u, s)' /\ BudgetOK(u, s)'
  <2>1. Untouched(u)
    BY <1>3, <1>5, <1>14 DEF Untouched
  <2> QED
    BY <1>4, <2>1, MuteOthers
<1> QED
  BY <1>4, <1>13, <1>14, MuteHear

LEMMA RecordHear ==
  ASSUME CopyInv, HearInv, CopyInv', NEW t \in Tasks, RecordRun(t)
  PROVE  HearInv'
<1> DEFINE r == runs[t].task
           z == Tail(runs[t].todo)
           g == IF z = <<>> \/ ~r.enabled THEN "resume" ELSE "fire"
           w == [pc |-> g, task |-> r, plan |-> runs[t].plan, todo |-> z]
<1>1. /\ daemon = "pass" /\ due = {} /\ runs[t].pc = "record" /\ r \in TaskRecords
      /\ w \in Works /\ runs' = [runs EXCEPT ![t] = w]
      /\ disk' = [disk EXCEPT ![t] = r]
      /\ UNCHANGED <<clock, pendingFires, deliveredFires, owners, daemon, queue, due, edit,
                     starts, fired, wakes, res, errored, passed, resumed, dropped>>
  BY RecordShape
<1>2. /\ SchedTypes /\ SchedTypes' /\ clock \in Nat /\ WorkOK(t) /\ Working(t) /\ Planned(t)
      /\ runs[t].pc \in Firing
  BY <1>1 DEF CopyInv, SchedTypes, Working, Planned, Firing
<1>3. Mute
  BY <1>1, <1>2 DEF Mute
<1>4. /\ runs'[t] = w /\ disk'[t] = r
      /\ \A u \in Tasks : u # t => runs'[u] = runs[u] /\ disk'[u] = disk[u]
  BY <1>1, <1>2 DEF SchedTypes
<1>5. runs'[t].pc = g /\ runs'[t].task = r /\ runs'[t].plan = runs[t].plan /\ runs'[t].todo = z
  BY <1>4
<1>6. g \in {"resume", "fire"}
  OBVIOUS
<1>7. ~r.completed
  BY <1>2 DEF WorkOK, DueCopy
<1>8. \A x : InSeq(x, runs[t].todo) <=> x = Slot(t) \/ InSeq(x, z)
  <2>1. runs[t].todo \in Seq(Slots) /\ runs[t].todo # <<>>
    BY <1>2, WorkFields, HeadFacts
  <2> QED
    BY <2>1, TailFacts DEF Slot
<1> HIDE DEF g, r, z
<1>9. Working(t)' /\ Planned(t)'
  BY <1>5, <1>6 DEF Working, Planned
<1>10. ASSUME NEW s \in Slots, Owed(t, s), <<t, s>> \in res PROVE Reached(t, s)' \/ Owed(t, s)'
  <2>1. CASE s = Slot(t)
    <3>1. Reached(t, s)
      BY <1>1, <1>10, <2>1 DEF HearInv, HeadOK
    <3> QED
      BY <1>2, <1>3, <3>1, MuteLouder, HeardKept
  <2>2. CASE s # Slot(t)
    <3>1. r.next <= s /\ (InSeq(s, runs[t].todo) \/ (~InSeq(s, runs[t].plan.fires) /\ s < runs[t].plan.next))
      BY <1>2, <1>10 DEF Owed, r
    <3>2. InSeq(s, z) \/ (~InSeq(s, runs[t].plan.fires) /\ s < runs[t].plan.next)
      BY <1>8, <2>2, <3>1
    <3>3. Owed(t, s)'
      BY <1>1, <1>4, <1>5, <1>7, <3>1, <3>2 DEF Owed
    <3> QED
      BY <3>3
  <2> QED
    BY <2>1, <2>2
<1>11. ASSUME NEW s \in Slots, Left(t, s)' PROVE Left(t, s)
  <2>1. (Every(t) /\ runs[t].plan.next <= s) \/ InSeq(s, z)
    BY <1>1, <1>5, <1>6, <1>9, <1>11 DEF Left, Firing
  <2>2. runs[t].pc \in Firing \ {"fire"}
    BY <1>1 DEF Firing
  <2> QED
    BY <1>2, <2>1, <2>2 DEF Left, z
<1>12. HeadOK(t)' /\ \A s \in Slots : RanOK(t, s)' /\ BudgetOK(t, s)'
  BY <1>3, <1>5, <1>6, <1>10, <1>11, MuteTask
<1>13. ASSUME NEW u \in Tasks, u # t
       PROVE  HeadOK(u)' /\ \A s \in Slots : RanOK(u, s)' /\ BudgetOK(u, s)'
  <2>1. Untouched(u)
    BY <1>1, <1>4, <1>13 DEF Untouched
  <2> QED
    BY <1>3, <2>1, MuteOthers
<1> QED
  BY <1>3, <1>12, <1>13, MuteHear

\* A new process: every budget grows, and there is one repeat for what is pending.
LEMMA StartHear ==
  ASSUME CopyInv, HearInv, CopyInv', StartRunner
  PROVE  HearInv'
<1>1. /\ daemon = "down" /\ daemon' = "redeliver" /\ starts' = starts + 1
      /\ queue' = {[fire |-> f, sent |-> FALSE] : f \in pendingFires}
      /\ UNCHANGED <<clock, disk, pendingFires, deliveredFires, owners, due, runs, edit,
                     fired, wakes, res, errored, passed, resumed, dropped>>
  BY DEF StartRunner, store, schedHistory
<1>2. SchedTypes /\ SchedTypes' /\ RunnerOK /\ clock \in Nat /\ starts \in Nat
  BY DEF CopyInv, SchedTypes
<1>3. Louder /\ clock <= clock'
  <2>1. \A t \in Tasks, s \in Slots : wakes[t][s] <= wakes'[t][s]
    BY <1>1, <1>2 DEF SchedTypes
  <2> QED
    BY <1>1, <1>2, <2>1 DEF Louder
<1>4. passed' \in [Tasks -> SUBSET Slots] /\ NoResurrection'
  BY <1>1 DEF HearInv, NoResurrection
<1>5. SettledOK'
  BY <1>1 DEF HearInv, SettledOK
<1>6. ASSUME NEW t \in Tasks
      PROVE  HeadOK(t)' /\ \A s \in Slots : RanOK(t, s)' /\ BudgetOK(t, s)'
  <2>1. runs'[t] = runs[t] /\ runs[t].pc = "idle" /\ Untouched(t)
    BY <1>1, <1>2 DEF RunnerOK, Resting, Asleep, Untouched
  <2>2. HeadOK(t)'
    BY <2>1 DEF HeadOK
  <2>3. ASSUME NEW s \in Slots PROVE RanOK(t, s)' /\ BudgetOK(t, s)'
    <3>1. RanOK(t, s) /\ BudgetOK(t, s)
      BY DEF HearInv
    <3>2. RanOK(t, s)'
      BY <1>1, <1>2, <1>3, <2>1, <3>1, OwedKept, RanKept
    <3>3. /\ fired[t][s] \in Nat /\ wakes[t][s] \in Nat
          /\ fired[t][s] <= starts /\ (wakes[t][s] > 0 => wakes[t][s] <= 2 * starts - 1)
      BY <1>2, <3>1 DEF SchedTypes, BudgetOK
    <3>4. [fire |-> <<t, s>>, sent |-> FALSE] \in queue' => starts > 0
      <4>1. queue' # {} => pendingFires # {}
        BY <1>1
      <4>2. pendingFires # {} => starts > 0
        BY <1>2 DEF RunnerOK
      <4> QED
        BY <4>1, <4>2
    <3>5. /\ fired[t][s] <= starts + 1 /\ fired[t][s] < starts + 1
          /\ wakes[t][s] <= 2 * (starts + 1) - 1
          /\ wakes[t][s] < 2 * (starts + 1) - 1
          /\ starts > 0 => wakes[t][s] + 1 < 2 * (starts + 1) - 1
      BY <1>2, <3>3
    <3>6. BudgetOK(t, s)'
      BY <1>1, <2>1, <3>4, <3>5 DEF BudgetOK
    <3> QED
      BY <3>2, <3>6
  <2> QED
    BY <2>2, <2>3
<1> QED
  BY <1>4, <1>5, <1>6 DEF HearInv

LEMMA SendHear ==
  ASSUME CopyInv, HearInv, CopyInv', NEW q \in queue, RedeliverSend(q)
  PROVE  HearInv'
<1>1. PICK t \in Tasks, x \in Slots : t = q.fire[1] /\ x = q.fire[2] /\ q.fire = <<t, x>>
  BY SendShape
<1>2. /\ daemon = "redeliver" /\ ~q.sent
      /\ queue' = (queue \ {q}) \cup {[fire |-> <<t, x>>, sent |-> TRUE]}
      /\ wakes' \in [Tasks -> [Slots -> Nat]] /\ wakes'[t][x] = wakes[t][x] + 1
      /\ \A u \in Tasks, s \in Slots : u # t \/ s # x => wakes'[u][s] = wakes[u][s]
      /\ \A u \in Tasks : u # t => wakes'[u] = wakes[u]
      /\ UNCHANGED <<clock, disk, pendingFires, deliveredFires, owners, daemon, due, runs,
                     edit, starts, fired, res, errored, passed, resumed, dropped>>
  BY <1>1, SendShape
<1>3. /\ SchedTypes /\ SchedTypes' /\ RunnerOK /\ clock \in Nat /\ starts \in Nat
      /\ wakes \in [Tasks -> [Slots -> Nat]]
  BY DEF CopyInv, SchedTypes
<1>4. \A u \in Tasks, s \in Slots : wakes[u][s] \in Nat /\ wakes[u][s] <= wakes'[u][s]
  <2> SUFFICES ASSUME NEW u \in Tasks, NEW s \in Slots
               PROVE  wakes[u][s] \in Nat /\ wakes[u][s] <= wakes'[u][s]
    OBVIOUS
  <2>1. wakes[u][s] \in Nat /\ wakes[t][x] \in Nat
    BY <1>3
  <2>2. wakes'[u][s] = wakes[u][s] \/ wakes'[u][s] = wakes[u][s] + 1
    BY <1>2
  <2> QED
    BY <2>1, <2>2
<1>5. Louder /\ clock <= clock'
  BY <1>2, <1>3, <1>4 DEF Louder
<1>6. passed' \in [Tasks -> SUBSET Slots] /\ NoResurrection'
  BY <1>2 DEF HearInv, NoResurrection
<1>7. \A e \in queue : e \in [fire : Fires, sent : BOOLEAN]
  BY <1>3 DEF SchedTypes
<1>8. q = [fire |-> <<t, x>>, sent |-> FALSE]
  <2>1. q \in [fire : Fires, sent : BOOLEAN]
    BY <1>7
  <2> QED
    BY <1>1, <1>2, <2>1
<1>9. SettledOK'
  <2>1. ASSUME NEW f \in deliveredFires PROVE wakes'[f[1]][f[2]] > 0 \/ f[1] \notin owners
    <3>1. f[1] \in Tasks /\ f[2] \in Slots
      BY <1>3 DEF SchedTypes, Fires
    <3>2. wakes[f[1]][f[2]] > 0 \/ f[1] \notin owners
      BY DEF HearInv, SettledOK
    <3>3. wakes[f[1]][f[2]] \in Nat /\ wakes'[f[1]][f[2]] \in Nat
          /\ wakes[f[1]][f[2]] <= wakes'[f[1]][f[2]]
      BY <1>2, <1>4, <3>1
    <3> QED
      BY <3>2, <3>3
  <2>2. wakes'[t][x] > 0
    <3>1. wakes[t][x] \in Nat
      BY <1>3
    <3> QED
      BY <1>2, <3>1
  <2>3. ASSUME NEW e \in queue', e.sent PROVE wakes'[e.fire[1]][e.fire[2]] > 0
    <3>1. CASE e \in queue
      <4>1. e.fire \in Fires
        BY <1>7, <3>1
      <4>2. e.fire[1] \in Tasks /\ e.fire[2] \in Slots
        BY <4>1 DEF Fires
      <4>3. wakes[e.fire[1]][e.fire[2]] > 0
        BY <2>3, <3>1 DEF HearInv, SettledOK
      <4>4. wakes[e.fire[1]][e.fire[2]] \in Nat /\ wakes'[e.fire[1]][e.fire[2]] \in Nat
            /\ wakes[e.fire[1]][e.fire[2]] <= wakes'[e.fire[1]][e.fire[2]]
        BY <1>2, <1>4, <4>2
      <4> QED
        BY <4>3, <4>4
    <3>2. CASE e = [fire |-> <<t, x>>, sent |-> TRUE]
      BY <2>2, <3>2
    <3> QED
      BY <1>2, <2>3, <3>1, <3>2
  <2> QED
    BY <1>2, <2>1, <2>3 DEF SettledOK
<1>10. ASSUME NEW u \in Tasks PROVE Untouched(u) /\ runs[u].pc = "idle"
  BY <1>2, <1>3 DEF Untouched, RunnerOK, Resting, Asleep
<1>11. ASSUME NEW u \in Tasks, NEW s \in Slots, [fire |-> <<u, s>>, sent |-> FALSE] \in queue'
       PROVE  [fire |-> <<u, s>>, sent |-> FALSE] \in queue /\ (u # t \/ s # x)
  BY <1>2, <1>8, <1>11
<1>12. ASSUME NEW u \in Tasks
       PROVE  HeadOK(u)' /\ \A s \in Slots : RanOK(u, s)' /\ BudgetOK(u, s)'
  <2>1. HeadOK(u)'
    BY <1>2, <1>10 DEF HeadOK
  <2>2. ASSUME NEW s \in Slots PROVE RanOK(u, s)' /\ BudgetOK(u, s)'
    <3>1. RanOK(u, s) /\ BudgetOK(u, s)
      BY DEF HearInv
    <3>2. RanOK(u, s)'
      BY <1>2, <1>3, <1>5, <1>10, <3>1, OwedKept, RanKept
    <3>3. CASE u # t \/ s # x
      <4>1. wakes'[u][s] = wakes[u][s] /\ fired' = fired /\ starts' = starts /\ runs'[u].pc = "idle"
        BY <1>2, <1>10, <3>3
      <4>2. Left(u, s)' => Left(u, s)
        BY <1>10, LeftKept
      <4> QED
        BY <1>2, <1>11, <3>1, <3>2, <4>1, <4>2, BudgetKept
    <3>4. CASE u = t /\ s = x
      <4>1. wakes[t][x] + 1 < 2 * starts - 1 /\ fired[t][x] <= starts
        BY <1>8, <3>1, <3>4 DEF BudgetOK
      <4>2. Left(t, x)' => fired[t][x] < starts
        BY <1>2, <1>10, <3>1, <3>4, LeftKept DEF BudgetOK
      <4>3. wakes[t][x] \in Nat
        BY <1>3
      <4>4. wakes'[t][x] < 2 * starts - 1 /\ wakes'[t][x] <= 2 * starts - 1
        BY <1>2, <1>3, <4>1, <4>3
      <4>5. [fire |-> <<t, x>>, sent |-> FALSE] \notin queue'
        BY <1>11
      <4>6. runs'[t].pc = "idle"
        BY <1>2, <1>10
      <4>7. BudgetOK(t, x)'
        BY <1>2, <4>1, <4>2, <4>4, <4>5, <4>6 DEF BudgetOK
      <4> QED
        BY <3>2, <3>4, <4>7
    <3> QED
      BY <3>3, <3>4
  <2> QED
    BY <2>1, <2>2
<1> QED
  BY <1>6, <1>9, <1>12 DEF HearInv

LEMMA SettleFacts ==
  ASSUME NEW f \in Fires, Settle(f), wakes[f[1]][f[2]] > 0 \/ f[1] \notin owners,
         SchedTypes, UNCHANGED <<wakes, owners, errored, passed>>, NoResurrection,
         \A g \in deliveredFires : wakes[g[1]][g[2]] > 0 \/ g[1] \notin owners
  PROVE  /\ Louder /\ NoResurrection'
         /\ \A g \in deliveredFires' : wakes'[g[1]][g[2]] > 0 \/ g[1] \notin owners'
<1>1. /\ pendingFires' = pendingFires \ {f}
      /\ deliveredFires' = IF f \in pendingFires THEN deliveredFires \cup {f} ELSE deliveredFires
  BY DEF Settle
<1>2. \A t \in Tasks, s \in Slots : wakes[t][s] <= wakes'[t][s]
  BY DEF SchedTypes
<1>3. Louder
  BY <1>1, <1>2 DEF Louder
<1>4. NoResurrection'
  BY <1>1 DEF NoResurrection
<1> QED
  BY <1>1, <1>3, <1>4

LEMMA MarkHear ==
  ASSUME CopyInv, HearInv, CopyInv', NEW q \in queue, RedeliverMark(q)
  PROVE  HearInv'
<1>1. /\ daemon = "redeliver" /\ Settle(q.fire) /\ queue' = queue \ {q}
      /\ q.sent \/ q.fire[1] \notin owners
      /\ UNCHANGED <<clock, disk, owners, daemon, due, runs, edit, starts, fired, wakes, res,
                     errored, passed, resumed, dropped>>
  BY DEF RedeliverMark, limits, schedHistory
<1>2. SchedTypes /\ SchedTypes' /\ clock \in Nat /\ q.fire \in Fires
  BY DEF CopyInv, SchedTypes
<1>3. wakes[q.fire[1]][q.fire[2]] > 0 \/ q.fire[1] \notin owners
  BY <1>1 DEF HearInv, SettledOK
<1>4. /\ Louder /\ NoResurrection'
      /\ \A g \in deliveredFires' : wakes'[g[1]][g[2]] > 0 \/ g[1] \notin owners'
  BY <1>1, <1>2, <1>3, SettleFacts DEF HearInv, SettledOK
<1>5. passed' \in [Tasks -> SUBSET Slots] /\ SettledOK'
  BY <1>1, <1>4 DEF HearInv, SettledOK
<1>6. ASSUME NEW u \in Tasks
      PROVE  HeadOK(u)' /\ \A s \in Slots : RanOK(u, s)' /\ BudgetOK(u, s)'
  <2>1. Untouched(u) /\ clock <= clock'
    BY <1>1, <1>2 DEF Untouched
  <2> QED
    BY <1>1, <1>2, <1>4, <2>1, HearUntouched
<1> QED
  BY <1>4, <1>5, <1>6 DEF HearInv

LEMMA ResumeHear ==
  ASSUME CopyInv, HearInv, CopyInv', NEW t \in Tasks, Resume(t)
  PROVE  HearInv'
<1> DEFINE r == runs[t].task
           p == runs[t].plan
           h == ResumeAfterFires(r, p)
           fires == {p.fires[k] : k \in DOMAIN p.fires}
           gap == {s \in Slots : p.outcome.due <= s /\ s < p.next} \ fires
<1>1. /\ daemon = "pass" /\ due = {} /\ runs[t].pc = "resume" /\ r \in TaskRecords
      /\ PlanOK(t, r, p) /\ h.next = p.next /\ h.enabled = r.enabled /\ h.completed = ~Every(t)
      /\ disk' = [disk EXCEPT ![t] = h] /\ runs' = [runs EXCEPT ![t] = Asleep]
      /\ UNCHANGED <<clock, pendingFires, deliveredFires, owners, daemon, queue, due, edit,
                     starts, fired, wakes, res, errored, dropped>>
  BY ResumeShape
<1>2. passed' = [passed EXCEPT ![t] = @ \cup gap]
  BY DEF Resume
<1>3. /\ SchedTypes /\ SchedTypes' /\ clock \in Nat /\ WorkOK(t) /\ Working(t) /\ Planned(t)
      /\ passed \in [Tasks -> SUBSET Slots]
  BY <1>1 DEF CopyInv, SchedTypes, HearInv, Working, Planned
<1> HIDE DEF h
<1>4. /\ runs'[t] = Asleep /\ disk'[t] = h
      /\ \A u \in Tasks : u # t => runs'[u] = runs[u] /\ disk'[u] = disk[u]
  BY <1>1, <1>3 DEF SchedTypes
<1>5. /\ passed' \in [Tasks -> SUBSET Slots] /\ passed'[t] = passed[t] \cup gap
      /\ \A u \in Tasks : passed[u] \subseteq passed'[u]
  <2>1. gap \subseteq Slots
    OBVIOUS
  <2> HIDE DEF gap
  <2> QED
    BY <1>2, <1>3, <2>1
<1>6. Louder /\ clock <= clock'
  <2>1. \A u \in Tasks, s \in Slots : wakes[u][s] <= wakes'[u][s]
    BY <1>1, <1>3 DEF SchedTypes
  <2> QED
    BY <1>1, <1>3, <1>5, <2>1 DEF Louder
<1>7. NoResurrection' /\ SettledOK'
  BY <1>1 DEF HearInv, NoResurrection, SettledOK
<1>8. ASSUME NEW u \in Tasks, u # t
      PROVE  HeadOK(u)' /\ \A s \in Slots : RanOK(u, s)' /\ BudgetOK(u, s)'
  <2>1. Untouched(u)
    BY <1>1, <1>4, <1>8 DEF Untouched
  <2> QED
    BY <1>1, <1>3, <1>6, <2>1, HearUntouched
<1>9. runs'[t].pc = "idle" /\ ~Working(t)' /\ ~Planned(t)'
  BY <1>4 DEF Asleep, Working, Planned
<1>10. HeadOK(t)'
  BY <1>9 DEF HeadOK
<1>11. ASSUME NEW s \in Slots PROVE RanOK(t, s)' /\ BudgetOK(t, s)'
  <2>1. RanOK(t, s) /\ BudgetOK(t, s)
    BY DEF HearInv
  <2>2. ASSUME Owed(t, s) PROVE Reached(t, s)'
    <3>1. CASE ~r.enabled
      BY <1>1, <1>3, <3>1 DEF WorkOK, Reached
    <3>2. CASE r.enabled
      <4>1. runs[t].todo = <<>>
        BY <1>1, <1>3, <3>2 DEF WorkOK, Todo
      <4>2. ~InSeq(s, runs[t].todo)
        BY <4>1 DEF InSeq
      <4>3. r.next <= s /\ ~InSeq(s, p.fires) /\ s < p.next
        BY <1>3, <2>2, <4>2 DEF Owed
      <4>4. s \in gap
        BY <1>1, <4>3 DEF PlanOK, InSeq
      <4> HIDE DEF gap
      <4> QED
        BY <1>5, <4>4 DEF Reached
    <3> QED
      BY <3>1, <3>2
  <2>3. RanOK(t, s)'
    BY <1>1, <1>3, <1>6, <2>1, <2>2, RanKept
  <2>4. ASSUME Left(t, s)' PROVE Left(t, s)
    <3>1. ~h.completed /\ h.next <= s
      BY <1>1, <1>4, <1>9, <2>4 DEF Left, Active, Firing
    <3> QED
      BY <1>1, <1>3, <3>1 DEF Left
  <2>5. BudgetOK(t, s)'
    BY <1>1, <1>9, <2>1, <2>4, BudgetKept
  <2> QED
    BY <2>3, <2>5
<1> QED
  BY <1>5, <1>7, <1>8, <1>10, <1>11 DEF HearInv

\* The slot in hand is not ahead of the process any more.
LEMMA HeadPassed ==
  ASSUME CopyInv, NEW t \in Tasks, runs[t].pc \in Firing
  PROVE  /\ ~InSeq(Slot(t), Tail(runs[t].todo))
         /\ Every(t) => Slot(t) < runs[t].plan.next
         /\ ~Every(t) => Slot(t) = Schedule[t].at
         /\ \A x : InSeq(x, runs[t].todo) <=> x = Slot(t) \/ InSeq(x, Tail(runs[t].todo))
<1>1. SchedTypes /\ Todo(t) /\ PlanOK(t, runs[t].task, runs[t].plan)
  BY DEF CopyInv, WorkOK, Planned, Firing
<1> DEFINE z == runs[t].todo
<1>2. z \in Seq(Slots) /\ z # <<>> /\ InSeq(Slot(t), runs[t].plan.fires)
  BY <1>1, WorkFields, HeadFacts
<1> HIDE DEF z
<1>3. /\ DOMAIN Tail(z) = 1 .. Len(z) - 1 /\ Len(z) \in Nat
      /\ \A k \in DOMAIN Tail(z) : k + 1 \in DOMAIN z /\ Tail(z)[k] = z[k + 1]
      /\ 1 \in DOMAIN z /\ Head(z) = z[1] /\ DOMAIN z = 1 .. Len(z)
      /\ \A x : InSeq(x, z) <=> x = Head(z) \/ InSeq(x, Tail(z))
  BY <1>2, TailFacts
<1>4. Slot(t) = z[1]
  BY <1>3 DEF Slot, z
<1>5. ~InSeq(z[1], Tail(z))
  <2> SUFFICES ASSUME NEW k \in DOMAIN Tail(z), Tail(z)[k] = z[1] PROVE FALSE
    BY DEF InSeq
  <2>1. k + 1 \in DOMAIN z /\ 1 < k + 1 /\ z[k + 1] = z[1]
    BY <1>3
  <2>2. z[1] < z[k + 1]
    BY <1>1, <1>3, <2>1 DEF Todo, z
  <2>3. z[1] \in Nat
    BY <1>2, <1>3, SlotTypes
  <2> QED
    BY <2>1, <2>2, <2>3
<1>6. Every(t) => Slot(t) < runs[t].plan.next
  BY <1>1, <1>2 DEF PlanOK, FiresOK, InSeq
<1>7. ~Every(t) => Slot(t) = Schedule[t].at
  BY <1>1, <1>2 DEF PlanOK, FiresOK, InSeq
<1> QED
  BY <1>3, <1>4, <1>5, <1>6, <1>7 DEF z

\* What a step of a fire does to the slot in hand.
LEMMA FiringVoice ==
  ASSUME CopyInv, HearInv, NEW t \in Tasks, FiringStep(t), NEW x \in Slots, x = Slot(t)
  PROVE  /\ Louder /\ NoResurrection' /\ passed' = passed
         /\ \A g \in deliveredFires' : wakes'[g[1]][g[2]] > 0 \/ g[1] \notin owners'
         /\ runs'[t].pc = "send" => <<t, x>> \in pendingFires' \cup deliveredFires'
         /\ runs'[t].pc = "mark" => wakes'[t][x] > 0
         /\ runs'[t].pc = "record" => (<<t, x>> \in res' => Reached(t, x)')
         /\ runs'[t].pc = "pend" => runs[t].pc = "fire"
         /\ runs'[t].pc = "send" => runs[t].pc = "pend"
<1>1. SchedTypes /\ runs[t].pc \in Firing
  BY FiringShape DEF CopyInv
<1>2. /\ Slot(t) \in Slots /\ <<t, x>> \in Fires /\ <<t, x>>[1] = t /\ <<t, x>>[2] = x
  BY <1>1, HeadFacts
<1>3. /\ UNCHANGED <<owners, passed>> /\ wakes \in [Tasks -> [Slots -> Nat]]
      /\ wakes' = wakes \/ wakes' = Count(wakes, t, x)
  BY <1>1, FiringShape, FiringTypes DEF SchedTypes
<1>4. /\ \A u \in Tasks, s \in Slots : wakes[u][s] \in Nat /\ wakes'[u][s] \in Nat
                                       /\ wakes[u][s] <= wakes'[u][s]
      /\ wakes' = Count(wakes, t, x) => wakes'[t][x] > 0
  <2>1. CASE wakes' = wakes
    <3>1. \A u \in Tasks, s \in Slots : wakes[u][s] \in Nat
      BY <1>3
    <3>2. wakes' # Count(wakes, t, x)
      <4>1. Count(wakes, t, x)[t][x] = wakes[t][x] + 1
        BY <1>3, CountFacts
      <4>2. wakes[t][x] \in Nat
        BY <3>1
      <4>3. wakes[t][x] # wakes[t][x] + 1
        BY <4>2
      <4> QED
        BY <2>1, <4>1, <4>3
    <3> QED
      BY <2>1, <3>1, <3>2
  <2>2. CASE wakes' = Count(wakes, t, x)
    <3>1. /\ wakes' \in [Tasks -> [Slots -> Nat]] /\ wakes'[t][x] = wakes[t][x] + 1
          /\ \A u \in Tasks, s \in Slots : u # t \/ s # x => wakes'[u][s] = wakes[u][s]
      BY <1>3, <2>2, CountFacts
    <3>2. ASSUME NEW u \in Tasks, NEW s \in Slots
          PROVE  wakes[u][s] \in Nat /\ wakes'[u][s] \in Nat /\ wakes[u][s] <= wakes'[u][s]
      <4>1. wakes[u][s] \in Nat /\ wakes'[u][s] \in Nat
        BY <1>3, <3>1
      <4>2. wakes'[u][s] = wakes[u][s] \/ wakes'[u][s] = wakes[u][s] + 1
        BY <3>1
      <4> QED
        BY <4>1, <4>2
    <3>3. wakes[t][x] \in Nat
      BY <3>2
    <3> QED
      BY <3>1, <3>2, <3>3
  <2> QED
    BY <1>3, <2>1, <2>2
<1>5. HeadOK(t) /\ SettledOK /\ NoResurrection
  BY DEF HearInv
<1>6. \A u \in Tasks, s \in Slots : wakes[u][s] > 0 => wakes'[u][s] > 0
  BY <1>4
<1>7. ASSUME errored \subseteq errored',
             \A f \in pendingFires : f \in pendingFires',
             \A f \in deliveredFires : f \in deliveredFires'
      PROVE  Louder
  BY <1>3, <1>4, <1>7 DEF Louder
<1>8. ASSUME deliveredFires' = deliveredFires
      PROVE  \A g \in deliveredFires' : wakes'[g[1]][g[2]] > 0 \/ g[1] \notin owners'
  <2> SUFFICES ASSUME NEW g \in deliveredFires PROVE wakes'[g[1]][g[2]] > 0 \/ g[1] \notin owners
    BY <1>3, <1>8
  <2>1. g[1] \in Tasks /\ g[2] \in Slots
    BY <1>1 DEF SchedTypes, Fires
  <2>2. wakes[g[1]][g[2]] > 0 \/ g[1] \notin owners
    BY <1>5 DEF SettledOK
  <2> QED
    BY <1>6, <2>1, <2>2
<1>9. ASSUME NEW p \in Stages, runs' = [runs EXCEPT ![t].pc = p] PROVE runs'[t].pc = p
  BY <1>1, <1>9, PcStep DEF Working, Firing
<1>10. \A p \in {"pend", "send", "mark", "record"} : p \in Stages
  BY DEF Stages
<1>11. CASE RunCommand(t)
  <2>1. /\ UNCHANGED <<pendingFires, deliveredFires, errored>> /\ runs[t].pc = "fire"
        /\ runs' = [runs EXCEPT ![t].pc = "pend"]
    BY <1>11 DEF RunCommand, At, store
  <2>2. runs'[t].pc = "pend"
    BY <1>9, <1>10, <2>1
  <2> QED
    BY <1>3, <1>5, <1>7, <1>8, <2>1, <2>2 DEF NoResurrection
<1>12. CASE RunFails(t)
  <2>1. /\ UNCHANGED <<pendingFires, deliveredFires>> /\ runs[t].pc = "fire"
        /\ errored' = errored \cup {<<t, x>>}
        /\ \/ runs' = [runs EXCEPT ![t].pc = "record"]
           \/ runs' = [runs EXCEPT ![t].pc = "record", ![t].task.enabled = FALSE]
    BY <1>12 DEF RunFails, At, store
  <2>2. runs'[t].pc = "record"
    <3>1. runs \in [Tasks -> Works]
      BY <1>1 DEF SchedTypes
    <3> QED
      BY <2>1, <3>1 DEF Works
  <2>3. Reached(t, x)'
    BY <2>1 DEF Reached
  <2> QED
    BY <1>3, <1>5, <1>7, <1>8, <2>1, <2>2, <2>3 DEF NoResurrection
<1>13. CASE PutPendingFire(t)
  <2>1. /\ UNCHANGED <<deliveredFires, errored>> /\ runs[t].pc = "pend"
        /\ runs' = [runs EXCEPT ![t].pc = "send"]
        /\ pendingFires' = IF <<t, x>> \in deliveredFires THEN pendingFires
                           ELSE pendingFires \cup {<<t, x>>}
    BY <1>13 DEF PutPendingFire, At, schedHistory
  <2>2. runs'[t].pc = "send"
    BY <1>9, <1>10, <2>1
  <2>3. NoResurrection' /\ <<t, x>> \in pendingFires' \cup deliveredFires'
    BY <1>5, <2>1 DEF NoResurrection
  <2>4. Louder
    BY <1>7, <2>1
  <2> QED
    BY <1>3, <1>8, <2>1, <2>2, <2>3, <2>4
<1>14. CASE SendWakeup(t)
  <2>1. /\ UNCHANGED <<pendingFires, deliveredFires, errored>> /\ wakes' = Count(wakes, t, x)
        /\ runs' = [runs EXCEPT ![t].pc = "mark"]
    BY <1>14 DEF SendWakeup, At, store
  <2>2. runs'[t].pc = "mark"
    BY <1>9, <1>10, <2>1
  <2> QED
    BY <1>3, <1>4, <1>5, <1>7, <1>8, <2>1, <2>2 DEF NoResurrection
<1>15. CASE DeliveryFails(t)
  <2>1. /\ UNCHANGED <<pendingFires, deliveredFires>> /\ runs[t].pc \in {"pend", "send", "mark"}
        /\ runs' = [runs EXCEPT ![t].pc = "record"] /\ errored \subseteq errored'
        /\ runs[t].pc = "pend" => <<t, x>> \in errored'
    BY <1>15 DEF DeliveryFails, At, store
  <2>2. runs'[t].pc = "record"
    BY <1>9, <1>10, <2>1
  <2>3. Reached(t, x)'
    <3>1. CASE runs[t].pc = "pend"
      BY <2>1, <3>1 DEF Reached
    <3>2. CASE runs[t].pc = "mark"
      BY <1>5, <1>6, <3>2 DEF HeadOK, Reached
    <3>3. CASE runs[t].pc = "send"
      <4>1. <<t, x>> \in pendingFires' \/ <<t, x>> \in deliveredFires
        BY <1>5, <2>1, <3>3 DEF HeadOK
      <4>2. <<t, x>> \in deliveredFires => wakes[t][x] > 0 \/ t \notin owners
        BY <1>2, <1>5 DEF SettledOK
      <4> QED
        BY <1>3, <1>6, <4>1, <4>2 DEF Reached
    <3> QED
      BY <2>1, <3>1, <3>2, <3>3
  <2> QED
    BY <1>3, <1>5, <1>7, <1>8, <2>1, <2>2, <2>3 DEF NoResurrection
<1>16. CASE MarkFireDelivered(t)
  <2>1. /\ UNCHANGED <<wakes, errored>> /\ Settle(<<t, x>>) /\ runs[t].pc = "mark"
        /\ runs' = [runs EXCEPT ![t].pc = "record"]
    BY <1>16 DEF MarkFireDelivered, At, schedHistory
  <2>2. runs'[t].pc = "record"
    BY <1>9, <1>10, <2>1
  <2>3. wakes[t][x] > 0
    BY <1>5, <2>1 DEF HeadOK
  <2>4. Reached(t, x)'
    BY <2>1, <2>3 DEF Reached
  <2>5. \A g \in deliveredFires : wakes[g[1]][g[2]] > 0 \/ g[1] \notin owners
    BY <1>5 DEF SettledOK
  <2>6. wakes[<<t, x>>[1]][<<t, x>>[2]] > 0
    BY <1>2, <2>3
  <2>7. /\ Louder /\ NoResurrection'
        /\ \A g \in deliveredFires' : wakes'[g[1]][g[2]] > 0 \/ g[1] \notin owners'
    BY <1>1, <1>2, <1>3, <1>5, <2>1, <2>5, <2>6, SettleFacts
  <2> QED
    BY <1>3, <2>2, <2>4, <2>7
<1> QED
  BY <1>11, <1>12, <1>13, <1>14, <1>15, <1>16 DEF FiringStep

LEMMA FiringHear ==
  ASSUME CopyInv, HearInv, CopyInv', NEW t \in Tasks, FiringStep(t)
  PROVE  HearInv'
<1>1. /\ daemon = "pass" /\ due = {} /\ runs[t].pc \in Firing /\ runs[t].pc # "record"
      /\ runs'[t].pc \in Firing /\ runs'[t].pc # "fire" /\ runs'[t].task.next = runs[t].task.next
      /\ runs'[t].plan = runs[t].plan /\ runs'[t].todo = runs[t].todo
      /\ \A u \in Tasks : u # t => runs'[u] = runs[u]
      /\ UNCHANGED <<clock, disk, owners, daemon, queue, due, edit, starts, passed, resumed, dropped>>
  BY FiringShape
<1>2. /\ SchedTypes /\ SchedTypes' /\ clock \in Nat /\ starts \in Nat /\ queue = {}
      /\ WorkOK(t) /\ Working(t) /\ Planned(t)
  BY <1>1 DEF CopyInv, RunnerOK, SchedTypes, Working, Planned, Firing
<1>3. PICK x \in Slots : x = Slot(t)
  BY <1>1, HeadFacts
<1>4. Slot(t)' = x /\ Working(t)' /\ Planned(t)' /\ x <= clock /\ runs[t].task.next <= x
      /\ InSeq(x, runs[t].todo)
  BY <1>1, <1>3, HeadFacts DEF Slot, Working, Planned, Firing
<1>5. /\ Louder /\ NoResurrection' /\ passed' = passed
      /\ \A g \in deliveredFires' : wakes'[g[1]][g[2]] > 0 \/ g[1] \notin owners'
      /\ runs'[t].pc = "send" => <<t, x>> \in pendingFires' \cup deliveredFires'
      /\ runs'[t].pc = "mark" => wakes'[t][x] > 0
      /\ runs'[t].pc = "record" => (<<t, x>> \in res' => Reached(t, x)')
      /\ runs'[t].pc = "pend" => runs[t].pc = "fire"
      /\ runs'[t].pc = "send" => runs[t].pc = "pend"
  BY <1>3, FiringVoice
<1>6. passed' \in [Tasks -> SUBSET Slots] /\ SettledOK' /\ clock <= clock'
  BY <1>1, <1>2, <1>5 DEF HearInv, SettledOK
<1>7. ASSUME NEW u \in Tasks, u # t
      PROVE  HeadOK(u)' /\ \A s \in Slots : RanOK(u, s)' /\ BudgetOK(u, s)'
  <2>1. Untouched(u)
    BY <1>1, <1>7 DEF Untouched
  <2>2. /\ fired'[u] = fired[u] /\ wakes'[u] = wakes[u]
        /\ \A s \in Slots : <<u, s>> \in res' => <<u, s>> \in res
    BY <1>7, FiringTypes
  <2> QED
    BY <1>1, <1>2, <1>5, <1>6, <2>1, <2>2, HearUntouched
<1>8. HeadOK(t)'
  BY <1>4, <1>5 DEF HeadOK, Reached
<1>9. ASSUME NEW s \in Slots PROVE RanOK(t, s)'
  <2>1. RanOK(t, s)
    BY DEF HearInv
  <2>2. CASE <<t, s>> \in res' => <<t, s>> \in res
    <3>1. Owed(t, s) => Owed(t, s)'
      BY <1>1, <1>2, <1>4 DEF Owed
    <3> QED
      BY <1>2, <1>5, <1>6, <2>1, <2>2, <3>1, RanKept
  <2>3. CASE <<t, s>> \in res' /\ <<t, s>> \notin res
    <3>1. s = x
      BY <1>3, <2>3 DEF FiringStep, RunCommand, RunFails, PutPendingFire, SendWakeup, DeliveryFails,
                      MarkFireDelivered, schedHistory
    <3>2. ~Every(t) => s = Schedule[t].at
      BY <1>1, <1>3, <3>1, HeadPassed
    <3>3. disk[t] # NoValue /\ disk[t].enabled => ~disk[t].completed /\ disk[t].next <= s
      BY <1>2, <1>4, <3>1 DEF WorkOK
    <3>4. Owed(t, s)'
      BY <1>1, <1>4, <3>1, <3>3 DEF Owed
    <3> QED
      BY <1>1, <1>4, <3>1, <3>2, <3>4 DEF RanOK
  <2> QED
    BY <2>2, <2>3
<1>10. ASSUME NEW s \in Slots PROVE BudgetOK(t, s)'
  <2>1. BudgetOK(t, s) /\ fired[t][s] \in Nat /\ wakes[t][s] \in Nat
    BY <1>2 DEF HearInv, SchedTypes
  <2>2. /\ fired' = fired \/ (runs[t].pc = "fire" /\ fired' = Count(fired, t, x))
        /\ wakes' = wakes \/ (runs[t].pc = "send" /\ wakes' = Count(wakes, t, x))
        /\ fired \in [Tasks -> [Slots -> Nat]] /\ wakes \in [Tasks -> [Slots -> Nat]]
    BY <1>2, <1>3, FiringTypes DEF SchedTypes
  <2>3. /\ Count(fired, t, x)[t][x] = fired[t][x] + 1 /\ Count(wakes, t, x)[t][x] = wakes[t][x] + 1
        /\ s # x => Count(fired, t, x)[t][s] = fired[t][s] /\ Count(wakes, t, x)[t][s] = wakes[t][s]
    <3>1. /\ Count(fired, t, x)[t][x] = fired[t][x] + 1
          /\ s # x => Count(fired, t, x)[t][s] = fired[t][s]
      <4>1. fired \in [Tasks -> [Slots -> Nat]]
        BY <2>2
      <4> QED
        BY <4>1, CountFacts
    <3>2. /\ Count(wakes, t, x)[t][x] = wakes[t][x] + 1
          /\ s # x => Count(wakes, t, x)[t][s] = wakes[t][s]
      <4>1. wakes \in [Tasks -> [Slots -> Nat]]
        BY <2>2
      <4> QED
        BY <4>1, CountFacts
    <3> QED
      BY <3>1, <3>2
  <2>4. /\ ~InSeq(x, Tail(runs[t].todo)) /\ (Every(t) => x < runs[t].plan.next)
        /\ \A y : InSeq(y, runs[t].todo) <=> y = x \/ InSeq(y, Tail(runs[t].todo))
    BY <1>1, <1>3, HeadPassed
  <2>5. ASSUME Left(t, s)'
        PROVE  (Every(t) /\ runs[t].plan.next <= s) \/ InSeq(s, Tail(runs[t].todo))
    BY <1>1, <1>4, <2>5 DEF Left, Firing
  <2>6. CASE s # x
    <3>1. fired'[t][s] = fired[t][s] /\ wakes'[t][s] = wakes[t][s]
      BY <2>2, <2>3, <2>6
    <3>2. Left(t, s)' => Left(t, s)
      BY <1>1, <1>2, <2>4, <2>5 DEF Left
    <3>3. ~(runs'[t].pc \in {"pend", "send"} /\ s = Slot(t)')
      BY <1>4, <2>6
    <3>4. starts' = starts /\ daemon' = daemon /\ queue' = queue
      BY <1>1
    <3> QED
      BY <2>1, <3>1, <3>2, <3>3, <3>4 DEF BudgetOK
  <2>7. CASE s = x
    <3>1. ~Left(t, s)'
      <4>1. Every(t) => ~(runs[t].plan.next <= s)
        <5>1. x \in Nat /\ runs[t].plan.next \in Nat
          BY <1>2, SlotTypes DEF WorkOK, PlanOK
        <5> QED
          BY <2>4, <2>7, <5>1
      <4> QED
        BY <2>4, <2>5, <2>7, <4>1
    <3>2. starts' = starts /\ daemon' = daemon /\ queue' = {}
      BY <1>1, <1>2
    <3>3. runs[t].pc = "fire" => fired[t][s] < starts /\ wakes[t][s] < 2 * starts - 1
      <4>1. runs[t].pc = "fire" => Left(t, s)
        BY <1>4, <2>7 DEF Left
      <4> QED
        BY <1>1, <2>1, <4>1 DEF BudgetOK
    <3>4. runs[t].pc \in {"pend", "send"} => wakes[t][s] < 2 * starts - 1
      BY <1>3, <2>1, <2>7 DEF BudgetOK
    <3>5. fired[t][s] <= starts /\ (wakes[t][s] > 0 => wakes[t][s] <= 2 * starts - 1)
      BY <2>1 DEF BudgetOK
    <3>6. fired'[t][s] <= starts
      <4>1. fired'[t][s] = fired[t][s] \/ (runs[t].pc = "fire" /\ fired'[t][s] = fired[t][s] + 1)
        BY <2>2, <2>3, <2>7
      <4> QED
        BY <1>2, <2>1, <3>3, <3>5, <4>1
    <3>7. /\ wakes'[t][s] > 0 => wakes'[t][s] <= 2 * starts - 1
          /\ runs[t].pc # "send" => wakes'[t][s] = wakes[t][s]
      <4>1. wakes'[t][s] = wakes[t][s] \/ (runs[t].pc = "send" /\ wakes'[t][s] = wakes[t][s] + 1)
        BY <2>2, <2>3, <2>7
      <4>2. runs[t].pc = "send" => wakes[t][s] + 1 <= 2 * starts - 1
        BY <1>2, <2>1, <3>4
      <4> QED
        BY <3>5, <4>1, <4>2
    <3>8. runs'[t].pc \in {"pend", "send"} => wakes'[t][s] < 2 * starts - 1
      BY <1>5, <3>3, <3>4, <3>7
    <3> QED
      BY <3>1, <3>2, <3>6, <3>7, <3>8 DEF BudgetOK
  <2> QED
    BY <2>6, <2>7
<1> QED
  BY <1>5, <1>6, <1>7, <1>8, <1>9, <1>10 DEF HearInv

LEMMA SchedInvStep ==
  ASSUME SchedInv, [SchedNext]_schedVars
  PROVE  SchedInv'
<1>0. CopyInv /\ HearInv /\ CopyInv'
  BY CopyInvStep DEF SchedInv
<1> SUFFICES HearInv'
  BY <1>0 DEF SchedInv
<1>1. CASE UNCHANGED schedVars
  <2>1. UNCHANGED <<clock, disk, pendingFires, deliveredFires, owners, daemon, queue, due, runs,
                    edit, starts, fired, wakes, res, errored, passed, resumed, dropped>>
    BY <1>1 DEF schedVars, store, process, limits, schedHistory
  <2>2. clock \in Nat
    BY <1>0 DEF CopyInv, SchedTypes
  <2>3. Mute /\ \A u \in Tasks : Untouched(u)
    BY <2>1, <2>2 DEF Mute, Untouched
  <2> QED
    BY <1>0, <2>3, MuteOthers, MuteHear
<1>2. ASSUME NEW t \in Tasks, CreateTask(t) PROVE HearInv'
  BY <1>0, <1>2, CreateHear
<1>3. CASE \/ TimePasses \/ Redelivered \/ EndPass
           \/ \E t \in Tasks : RemoveOwner(t) \/ DisableRead(t)
  BY <1>0, <1>3, IdleHear
<1>4. ASSUME NEW t \in Tasks, DisableWrite(t) \/ DeleteTask(t) PROVE HearInv'
  BY <1>0, <1>4, DropHear
<1>5. CASE StartRunner
  BY <1>0, <1>5, StartHear
<1>6. CASE Stops
  BY <1>0, <1>6, StopHear
<1>7. ASSUME NEW q \in queue, RedeliverSend(q) PROVE HearInv'
  BY <1>0, <1>7, SendHear
<1>8. ASSUME NEW q \in queue, RedeliverMark(q) PROVE HearInv'
  BY <1>0, <1>8, MarkHear
<1>9. CASE Poll
  BY <1>0, <1>9, PollHear
<1>10. ASSUME NEW d \in due, ClaimTask(d) PROVE HearInv'
  BY <1>0, <1>10, ClaimHear
<1>11. ASSUME NEW t \in Tasks, PlanTask(t) PROVE HearInv'
  BY <1>0, <1>11, PlanHear
<1>12. ASSUME NEW t \in Tasks, FiringStep(t) PROVE HearInv'
  BY <1>0, <1>12, FiringHear
<1>13. ASSUME NEW t \in Tasks, RecordRun(t) PROVE HearInv'
  BY <1>0, <1>13, RecordHear
<1>14. ASSUME NEW t \in Tasks, Resume(t) PROVE HearInv'
  BY <1>0, <1>14, ResumeHear
<1>15. CASE RunnerStep
  BY <1>3, <1>7, <1>8, <1>9, <1>10, <1>11, <1>12, <1>13, <1>14, <1>15 DEF RunnerStep, FiringStep
<1> QED
  BY <1>1, <1>2, <1>3, <1>4, <1>5, <1>6, <1>15 DEF SchedNext, Stops

LEMMA HeardFromInv == SchedInv => FiresHeard
<1> SUFFICES ASSUME SchedInv PROVE FiresHeard
  OBVIOUS
<1>1. CopyInv /\ HearInv
  BY DEF SchedInv
<1>2. NoSilentRun
  <2> SUFFICES ASSUME NEW f \in res
               PROVE  LET t == f[1]
                      IN \/ wakes[t][f[2]] > 0 \/ f \in pendingFires \/ f \in errored
                         \/ f[2] \in passed[t] \/ t \notin owners
                         \/ disk[t] = NoValue \/ ~disk[t].enabled
                         \/ ~disk[t].completed /\ disk[t].next <= f[2]
    BY DEF NoSilentRun
  <2>1. f \in Tasks \X Slots
    BY <1>1 DEF CopyInv, SchedTypes, Fires
  <2>2. f[1] \in Tasks /\ f[2] \in Slots /\ f = <<f[1], f[2]>>
    BY <2>1
  <2>3. RanOK(f[1], f[2])
    BY <1>1, <2>2 DEF HearInv
  <2> QED
    BY <2>2, <2>3 DEF RanOK, Reached, Owed
<1>3. BoundedWakes
  BY <1>1 DEF HearInv, BudgetOK, BoundedWakes
<1>4. NoResurrection
  BY <1>1 DEF HearInv
<1> QED
  BY <1>2, <1>3, <1>4 DEF FiresHeard

\* The result of every run reaches its conversation or is accounted for, and a
\* runner process repeats no more than one wakeup of an earlier one (run_task_inner,
\* put_pending_fire, redeliver_pending_wakes): whenever the runner dies, whatever
\* fails and whoever edits the records.
THEOREM FiresHeardCorrect == SchedSpec => []FiresHeard
<1>1. SchedInit => SchedInv
  BY SchedInvInit
<1>2. SchedInv /\ [SchedNext]_schedVars => SchedInv'
  BY SchedInvStep
<1>3. SchedInv => FiresHeard
  BY HeardFromInv
<1> QED
  BY <1>1, <1>2, <1>3, PTL DEF SchedSpec

-----------------------------------------------------------------------------
(* Part 2: the messages of an adapter. *)

\* The worker has answered the command for m and the answer is not taken yet.
Answers(k, m) == events[k].kind # "message" /\ events[k].id = m
Answered(m) == \E k \in DOMAIN events : Answers(k, m)

\* The files of m are being moved, by an answer or by the requeue.
Settling(m) == job # Nothing /\ job.kind # "message" /\ job.id = m

\* Types, those of the history and of what a job and an event are about.
Types ==
  /\ OutboxTypeOK
  /\ queued \subseteq Messages
  /\ sent \in [Messages -> Nat]

Shapes ==
  /\ \A k \in DOMAIN events :
       IF events[k].kind = "message" THEN events[k].id \in Inbound ELSE events[k].id \in queued
  /\ job # Nothing =>
       IF job.kind = "message" THEN job.id \in Inbound ELSE job.id \in queued

\* Without a worker nothing is claimed, given or answered.
AtRest == loop # "up" => claim = Nothing /\ batch = {} /\ given = {} /\ events = <<>>

\* The attempt of each of the two files bounds the hand-overs by itself: the
\* outbox file of a claim that was cut off is not older than they are, and the
\* claim that it allows is below the limit.
Counted(m) ==
  /\ sent[m] <= MaxAttempts
  /\ (outbox[m] # Nothing => outbox[m] < MaxAttempts /\ sent[m] <= outbox[m])
  /\ (inflight[m] # Nothing => sent[m] <= inflight[m])
  /\ (m \notin queued => sent[m] = 0 /\ outbox[m] = Nothing /\ inflight[m] = Nothing)

\* From its claim to its answer a message has the in-flight file and no other, and
\* until it is handed over that file counts one attempt more than were made.
Held(m) ==
  /\ (claim = m => outbox[m] # Nothing /\ inflight[m] = outbox[m] + 1)
  /\ (m \in batch \cup given =>
        outbox[m] = Nothing /\ inflight[m] # Nothing /\ sent[m] < inflight[m])
  /\ (Answered(m) => outbox[m] = Nothing /\ inflight[m] # Nothing)
  /\ (Settling(m) /\ loop = "up" => outbox[m] = Nothing)
  /\ (Settling(m) /\ job.step # "read" =>
        sent[m] <= job.attempt)

\* A message is in one place: claimed, given, answered once, or being settled.
InOnePlace(m) ==
  /\ (m \in batch => m \notin given /\ ~Answered(m) /\ ~Settling(m))
  /\ (m \in given => ~Answered(m) /\ ~Settling(m))
  /\ (Answered(m) => ~Settling(m))
  /\ \A j, k \in DOMAIN events : Answers(j, m) /\ Answers(k, m) => j = k

OutboxInv ==
  /\ Types /\ Shapes /\ AtRest
  /\ \A m \in Messages : Counted(m) /\ Held(m) /\ InOnePlace(m)

-----------------------------------------------------------------------------

LEMMA Values == /\ Nothing \notin Messages /\ Nothing \notin Attempts
                /\ Nothing \notin OutboxJob
                /\ MaxAttempts \in Nat /\ MaxAttempts > 0
  BY OutboxAssumption

\* What the invariant gives a reader of one message.
LEMMA Parts ==
  ASSUME OutboxInv, NEW m \in Messages
  PROVE  /\ Types /\ Shapes /\ AtRest /\ Counted(m) /\ Held(m) /\ InOnePlace(m)
         /\ outbox[m] \in Attempts \cup {Nothing}
         /\ inflight[m] \in (Attempts \ {0}) \cup {Nothing}
         /\ sent[m] \in Nat
  BY DEF OutboxInv, Types, OutboxTypeOK

\* An event of the worker is put behind the others.
LEMMA AppendEvent ==
  ASSUME events \in Seq(OutboxEvent), NEW e \in OutboxEvent, events' = Append(events, e)
  PROVE  /\ events' \in Seq(OutboxEvent)
         /\ DOMAIN events' = 1 .. Len(events) + 1 /\ DOMAIN events = 1 .. Len(events)
         /\ Len(events) \in Nat
         /\ \A k \in DOMAIN events : events'[k] = events[k]
         /\ events'[Len(events) + 1] = e
  OBVIOUS

\* The first event is taken.
LEMMA TakeFirst ==
  ASSUME events \in Seq(OutboxEvent), events # <<>>, events' = Tail(events)
  PROVE  /\ events' \in Seq(OutboxEvent)
         /\ Head(events) = events[1] /\ 1 \in DOMAIN events
         /\ events[1] \in OutboxEvent
         /\ DOMAIN events' = 1 .. Len(events) - 1 /\ DOMAIN events = 1 .. Len(events)
         /\ Len(events) \in Nat
         /\ \A k \in DOMAIN events' : events'[k] = events[k + 1] /\ k + 1 \in DOMAIN events
  <1>1. events = <<>> \/ Len(events) # 0
    OBVIOUS
  <1> QED
    BY <1>1

LEMMA InitOutbox == OutboxInit => OutboxInv
  <1> SUFFICES ASSUME OutboxInit PROVE OutboxInv
    OBVIOUS
  <1> USE Values DEF OutboxInit
  <1>1. Types
    BY DEF Types, OutboxTypeOK
  <1>2. Shapes /\ AtRest
    BY DEF Shapes, AtRest
  <1>3. ASSUME NEW m \in Messages PROVE Counted(m) /\ Held(m) /\ InOnePlace(m)
    BY <1>3 DEF Counted, Held, InOnePlace, Answered, Settling, Answers
  <1> QED
    BY <1>1, <1>2, <1>3 DEF OutboxInv

\* send_adapter_message adds a file of a message that nobody has seen.
LEMMA EnqueueKeeps ==
  ASSUME OutboxInv, NEW n \in Messages, Enqueue(n) PROVE OutboxInv'
  <1> USE Values
  <1>0. Types /\ Shapes /\ AtRest
    BY DEF OutboxInv
  <1>1. Types'
    BY <1>0 DEF Types, OutboxTypeOK, Enqueue, Put, Attempts, tasks
  <1>2. Shapes' /\ AtRest'
    BY <1>0 DEF Shapes, AtRest, Enqueue, tasks
  <1>3. ASSUME NEW m \in Messages PROVE Counted(m)' /\ Held(m)' /\ InOnePlace(m)'
    <2>1. /\ Counted(m) /\ Held(m) /\ InOnePlace(m)
          /\ (m = n => outbox[m] = Nothing /\ inflight[m] = Nothing /\ sent[m] = 0)
      BY Parts, <1>3 DEF Counted, Enqueue
    <2>2. /\ outbox'[m] = IF m = n THEN 0 ELSE outbox[m]
          /\ UNCHANGED <<inflight, loop, claim, batch, given, events, job, sent>>
          /\ queued' = queued \cup {n}
      BY <1>0, <1>3 DEF Types, OutboxTypeOK, Enqueue, Put, tasks
    <2>3. m = n => ~Settling(m)
      BY <1>0 DEF Shapes, Settling, Enqueue
    <2>4. Counted(m)'
      BY <2>1, <2>2 DEF Counted
    <2>5. Held(m)'
      BY <2>1, <2>2, <2>3 DEF Held, Answered, Answers, Settling
    <2>6. InOnePlace(m)'
      BY <2>1, <2>2 DEF InOnePlace, Answered, Answers, Settling
    <2> QED
      BY <2>4, <2>5, <2>6
  <1> QED
    BY <1>1, <1>2, <1>3 DEF OutboxInv

\* The loop starts, finds a file that an earlier one left, starts a worker, or ends.
LEMMA LoopKeeps ==
  ASSUME OutboxInv,
         \/ StartLoop \/ SpawnWorker \/ Stop
         \/ \E n \in Messages : RequeueNext(n)
  PROVE  OutboxInv'
  <1> USE Values
  <1>0. Types /\ Shapes /\ AtRest
    BY DEF OutboxInv
  <1>1. ASSUME StartLoop \/ SpawnWorker PROVE OutboxInv'
    <2>1. /\ UNCHANGED <<outbox, inflight, delivered, failed, seen, claim, batch, given, events,
                         job, queued, sent>>
          /\ loop # "up" /\ loop' \in {"requeue", "up"} /\ (loop' = "up" => job = Nothing)
      BY <1>1 DEF StartLoop, SpawnWorker, files, tasks, record
    <2>2. Types' /\ Shapes' /\ AtRest'
      BY <1>0, <2>1 DEF Types, OutboxTypeOK, Shapes, AtRest
    <2>3. ASSUME NEW m \in Messages PROVE Counted(m)' /\ Held(m)' /\ InOnePlace(m)'
      <3>1. Counted(m) /\ Held(m) /\ InOnePlace(m)
        BY <2>3, Parts
      <3> QED
        BY <2>1, <3>1 DEF Counted, Held, InOnePlace, Answered, Answers, Settling
    <2> QED
      BY <2>2, <2>3 DEF OutboxInv
  <1>2. ASSUME Stop PROVE OutboxInv'
    <2>1. /\ UNCHANGED <<outbox, inflight, delivered, failed, seen, queued, sent>>
          /\ loop' = "down" /\ claim' = Nothing /\ batch' = {} /\ given' = {}
          /\ events' = <<>> /\ job' = Nothing
      BY <1>2 DEF Stop, files
    <2>2. Types'
      BY <1>0, <2>1 DEF Types, OutboxTypeOK
    <2>3. Shapes' /\ AtRest'
      BY <2>1 DEF Shapes, AtRest
    <2>4. ASSUME NEW m \in Messages PROVE Counted(m)' /\ Held(m)' /\ InOnePlace(m)'
      <3>1. Counted(m)
        BY <2>4, Parts
      <3>2. Counted(m)'
        BY <2>1, <3>1 DEF Counted
      <3>3. ~Answered(m)' /\ ~Settling(m)'
        BY <2>1 DEF Answered, Settling
      <3>4. Held(m)'
        BY <2>1, <2>4, <3>3 DEF Held
      <3>5. InOnePlace(m)'
        BY <2>1, <3>3 DEF InOnePlace
      <3> QED
        BY <3>2, <3>4, <3>5
    <2> QED
      BY <2>2, <2>3, <2>4 DEF OutboxInv
  <1>3. ASSUME NEW n \in Messages, RequeueNext(n) PROVE OutboxInv'
    <2>1. /\ UNCHANGED <<outbox, inflight, delivered, failed, seen, loop, claim, batch, given,
                         events, queued, sent>>
          /\ loop = "requeue" /\ job' = Job("nack", n) /\ inflight[n] # Nothing
      BY <1>3 DEF RequeueNext, files, tasks, record
    <2>2. Job("nack", n) \in OutboxJob
      BY DEF Job, OutboxJob, Attempts
    <2>3. n \in queued
      BY <2>1, Parts DEF Counted
    <2>4. Types'
      BY <1>0, <2>1, <2>2 DEF Types, OutboxTypeOK
    <2>5. Shapes' /\ AtRest'
      BY <1>0, <2>1, <2>3 DEF Shapes, AtRest, Job
    <2>6. ASSUME NEW m \in Messages PROVE Counted(m)' /\ Held(m)' /\ InOnePlace(m)'
      <3>1. Counted(m) /\ Held(m)
        BY <2>6, Parts
      <3>2. Counted(m)'
        BY <2>1, <3>1 DEF Counted
      <3>3. ~Answered(m)' /\ batch' = {} /\ given' = {} /\ claim' = Nothing /\ loop' # "up"
            /\ events' = <<>> /\ job'.step = "read"
        BY <1>0, <2>1 DEF Answered, AtRest, Job
      <3>4. Held(m)'
        BY <2>6, <3>3 DEF Held
      <3>5. InOnePlace(m)'
        BY <3>3 DEF InOnePlace
      <3> QED
        BY <3>2, <3>4, <3>5
    <2> QED
      BY <2>4, <2>5, <2>6 DEF OutboxInv
  <1> QED
    BY <1>1, <1>2, <1>3

\* claim_outbound_messages writes the in-flight file before it removes the other.
LEMMA ClaimKeeps ==
  ASSUME OutboxInv, ClaimRemove \/ \E n \in Messages : ClaimWrite(n)
  PROVE  OutboxInv'
  <1> USE Values
  <1>0. Types /\ Shapes /\ AtRest
    BY DEF OutboxInv
  <1>1. ASSUME NEW n \in Messages, ClaimWrite(n) PROVE OutboxInv'
    <2>1. /\ UNCHANGED <<outbox, delivered, failed, seen, loop, batch, given, events, job,
                         queued, sent>>
          /\ loop = "up" /\ claim = Nothing /\ claim' = n /\ outbox[n] # Nothing
          /\ inflight' = [inflight EXCEPT ![n] = outbox[n] + 1]
      BY <1>1 DEF ClaimWrite, Put, record
    <2>2. outbox[n] \in Nat /\ outbox[n] < MaxAttempts /\ sent[n] <= outbox[n] /\ sent[n] \in Nat
          /\ n \in queued
      BY <2>1, Parts DEF Counted, Attempts
    <2>3. Types'
      BY <1>0, <2>1, <2>2 DEF Types, OutboxTypeOK, Attempts
    <2>4. Shapes' /\ AtRest'
      BY <1>0, <2>1 DEF Shapes, AtRest
    <2>5. ASSUME NEW m \in Messages PROVE Counted(m)' /\ Held(m)' /\ InOnePlace(m)'
      <3>1. Counted(m) /\ Held(m) /\ InOnePlace(m)
        BY <2>5, Parts
      <3>2. inflight'[m] = IF m = n THEN outbox[n] + 1 ELSE inflight[m]
        BY <1>0, <2>1 DEF Types, OutboxTypeOK
      <3>3. outbox[n] + 1 # Nothing
        BY <2>2 DEF Attempts
      <3>4. Counted(m)'
        BY <2>1, <2>2, <3>1, <3>2, <3>3 DEF Counted
      <3>5. Held(m)'
        BY <2>1, <2>2, <3>1, <3>2, <3>3 DEF Held, Answered, Answers, Settling
      <3>6. InOnePlace(m)'
        BY <2>1, <3>1 DEF InOnePlace, Answered, Answers, Settling
      <3> QED
        BY <3>4, <3>5, <3>6
    <2> QED
      BY <2>3, <2>4, <2>5 DEF OutboxInv
  <1>2. ASSUME ClaimRemove PROVE OutboxInv'
    <2>1. /\ UNCHANGED <<inflight, delivered, failed, seen, loop, given, events, job, queued,
                         sent>>
          /\ claim # Nothing /\ claim' = Nothing /\ batch' = batch \cup {claim}
          /\ outbox' = [outbox EXCEPT ![claim] = Nothing]
      BY <1>2 DEF ClaimRemove, Remove, record
    <2>2. claim \in Messages /\ loop = "up"
      BY <1>0, <2>1 DEF Types, OutboxTypeOK, AtRest
    <2>3. Types'
      BY <1>0, <2>1, <2>2 DEF Types, OutboxTypeOK
    <2>4. Shapes' /\ AtRest'
      BY <1>0, <2>1, <2>2 DEF Shapes, AtRest
    <2>5. ASSUME NEW m \in Messages PROVE Counted(m)' /\ Held(m)' /\ InOnePlace(m)'
      <3>1. /\ Counted(m) /\ Held(m) /\ InOnePlace(m)
            /\ outbox[m] \in Attempts \cup {Nothing} /\ sent[m] \in Nat
        BY <2>5, Parts
      <3>2. outbox'[m] = IF m = claim THEN Nothing ELSE outbox[m]
        BY <1>0, <2>1, <2>2 DEF Types, OutboxTypeOK
      <3>3. m = claim => /\ outbox[m] \in Nat /\ inflight[m] = outbox[m] + 1
                         /\ sent[m] < inflight[m] /\ inflight[m] # Nothing
                         /\ m \notin given /\ ~Answered(m) /\ ~Settling(m)
        <4>1. m = claim => /\ outbox[m] # Nothing /\ sent[m] <= outbox[m]
                           /\ outbox[m] < MaxAttempts /\ inflight[m] = outbox[m] + 1
          BY <3>1 DEF Counted, Held
        <4>2. m = claim => outbox[m] + 1 \in Attempts
          BY <3>1, <4>1 DEF Attempts
        <4> QED
          BY <2>2, <3>1, <4>1, <4>2 DEF Held, Attempts
      <3>4. Counted(m)'
        BY <2>1, <3>1, <3>2 DEF Counted
      <3>5. Held(m)'
        BY <2>1, <2>5, <3>1, <3>2, <3>3 DEF Held, Answered, Answers, Settling
      <3>6. InOnePlace(m)'
        BY <2>1, <3>1, <3>3 DEF InOnePlace, Answered, Answers, Settling
      <3> QED
        BY <3>4, <3>5, <3>6
    <2> QED
      BY <2>3, <2>4, <2>5 DEF OutboxInv
  <1> QED
    BY <1>1, <1>2

\* A claimed batch is written to the worker command by command.
LEMMA SendKeeps ==
  ASSUME OutboxInv, ClaimDone \/ \E n \in Messages : SendCommand(n)
  PROVE  OutboxInv'
  <1> USE Values
  <1>0. Types /\ Shapes /\ AtRest
    BY DEF OutboxInv
  <1>1. /\ UNCHANGED <<outbox, inflight, delivered, failed, seen, loop, claim, events, job,
                       queued, sent>>
        /\ \/ UNCHANGED <<batch, given>>
           \/ \E n \in batch : given' = given \cup {n} /\ batch' = batch \ {n}
    BY DEF ClaimDone, SendCommand, files, record
  <1>2. Types' /\ Shapes' /\ AtRest'
    BY <1>0, <1>1 DEF Types, OutboxTypeOK, Shapes, AtRest
  <1>3. ASSUME NEW m \in Messages PROVE Counted(m)' /\ Held(m)' /\ InOnePlace(m)'
    <2>1. Counted(m) /\ Held(m) /\ InOnePlace(m)
      BY <1>3, Parts
    <2>2. Counted(m)'
      BY <1>1, <2>1 DEF Counted
    <2>3. Held(m)'
      BY <1>1, <2>1 DEF Held, Answered, Answers, Settling
    <2>4. InOnePlace(m)'
      BY <1>1, <2>1 DEF InOnePlace, Answered, Answers, Settling
    <2> QED
      BY <2>2, <2>3, <2>4
  <1> QED
    BY <1>2, <1>3 DEF OutboxInv

\* The worker answers a command, and the provider has got the message or not.
LEMMA AnswerKeeps ==
  ASSUME OutboxInv, NEW n \in Messages, Deliver(n) \/ Reject(n)
  PROVE  OutboxInv'
  <1> USE Values
  <1>0. Types /\ Shapes /\ AtRest
    BY DEF OutboxInv
  <1>1. PICK kind \in {"ack", "nack"} :
          /\ events' = Append(events, [kind |-> kind, id |-> n])
          /\ sent' \in {sent, [sent EXCEPT ![n] = @ + 1]}
          /\ n \in given /\ given' = given \ {n}
          /\ UNCHANGED <<outbox, inflight, delivered, failed, seen, loop, claim, batch, job,
                         queued>>
    BY DEF Deliver, Reject, files, tasks
  <1> DEFINE e == [kind |-> kind, id |-> n]
  <1>2. e \in OutboxEvent /\ e.kind = kind /\ e.id = n
    BY DEF OutboxEvent
  <1>e. events' = Append(events, e)
    BY <1>1
  <1> HIDE DEF e
  <1>3. /\ events' \in Seq(OutboxEvent) /\ Len(events) \in Nat
        /\ DOMAIN events' = 1 .. Len(events) + 1 /\ DOMAIN events = 1 .. Len(events)
        /\ \A k \in DOMAIN events : events'[k] = events[k]
        /\ events'[Len(events) + 1] = e
    BY <1>0, <1>2, <1>e, AppendEvent DEF Types, OutboxTypeOK
  <1>4. /\ n \in queued /\ loop = "up" /\ inflight[n] # Nothing /\ outbox[n] = Nothing
        /\ sent[n] < inflight[n] /\ inflight[n] <= MaxAttempts /\ inflight[n] \in Nat
        /\ sent[n] \in Nat
    BY <1>0, <1>1, Parts DEF AtRest, Held, Counted, Attempts
  <1>5. Types'
    <2>1. sent' \in [Messages -> Nat]
      BY <1>0, <1>1 DEF Types
    <2> QED
      BY <1>0, <1>1, <1>3, <2>1 DEF Types, OutboxTypeOK
  <1>6. AtRest' /\ Shapes'
    <2>1. \A k \in DOMAIN events' : k \in DOMAIN events \/ k = Len(events) + 1
      BY <1>3
    <2> QED
      BY <1>0, <1>1, <1>2, <1>3, <1>4, <2>1 DEF AtRest, Shapes
  <1>7. ASSUME NEW m \in Messages PROVE Counted(m)' /\ Held(m)' /\ InOnePlace(m)'
    <2>1. Counted(m) /\ Held(m) /\ InOnePlace(m) /\ sent[m] \in Nat
      BY <1>7, Parts
    <2>2. sent'[m] = sent[m] \/ (m = n /\ sent'[m] = sent[m] + 1)
      BY <1>0, <1>1 DEF Types
    <2>3. Answered(m)' <=> Answered(m) \/ m = n
      <3>0. PICK l \in Nat : l = Len(events) + 1
        BY <1>3
      <3>1. \A k \in DOMAIN events : k \in DOMAIN events' /\ (Answers(k, m)' <=> Answers(k, m))
        BY <1>3 DEF Answers
      <3>2. l \in DOMAIN events' /\ (Answers(l, m)' <=> m = n)
        BY <1>1, <1>2, <1>3, <3>0 DEF Answers
      <3>3. \A k \in DOMAIN events' : k \in DOMAIN events \/ k = l
        BY <1>3, <3>0
      <3> QED
        BY <3>1, <3>2, <3>3 DEF Answered
    <2>4. Counted(m)'
      BY <1>1, <1>4, <2>1, <2>2 DEF Counted
    <2>5. Held(m)'
      <3>1. m \in batch \cup given' => m # n
        BY <1>1, <2>1 DEF InOnePlace
      <3>2. Settling(m)' => m # n
        BY <1>1, <2>1 DEF InOnePlace, Settling
      <3> QED
        BY <1>1, <1>4, <2>1, <2>2, <2>3, <3>1, <3>2 DEF Held, Settling
    <2>6. InOnePlace(m)'
      <3>1. /\ (m \in batch' => m \notin given' /\ ~Answered(m)' /\ ~Settling(m)')
            /\ (m \in given' => ~Answered(m)' /\ ~Settling(m)')
            /\ (Answered(m)' => ~Settling(m)')
        BY <1>1, <2>1, <2>3 DEF InOnePlace, Settling
      <3>2. ASSUME NEW j \in DOMAIN events', NEW k \in DOMAIN events', Answers(j, m)',
                   Answers(k, m)'
            PROVE  j = k
        <4>1. m = n => ~Answered(m)
          BY <1>1, <2>1 DEF InOnePlace
        <4>2. ASSUME NEW i \in DOMAIN events', Answers(i, m)'
              PROVE  \/ i \in DOMAIN events /\ Answers(i, m)
                     \/ i = Len(events) + 1 /\ m = n
          BY <1>2, <1>3, <4>2 DEF Answers
        <4> QED
          BY <2>1, <3>2, <4>1, <4>2 DEF InOnePlace, Answered
      <3> QED
        BY <3>1, <3>2 DEF InOnePlace
    <2> QED
      BY <2>4, <2>5, <2>6
  <1> QED
    BY <1>5, <1>6, <1>7 DEF OutboxInv

\* An inbound message is no answer.
LEMMA ArriveKeeps ==
  ASSUME OutboxInv, NEW i \in Inbound, Arrive(i)
  PROVE  OutboxInv'
  <1> USE Values
  <1>0. Types /\ Shapes /\ AtRest
    BY DEF OutboxInv
  <1> DEFINE e == [kind |-> "message", id |-> i]
  <1>1. /\ events' = Append(events, e) /\ loop = "up"
        /\ UNCHANGED <<outbox, inflight, delivered, failed, seen, loop, claim, batch, given, job,
                       queued, sent>>
    BY DEF Arrive, files, tasks, record
  <1>2. e \in OutboxEvent /\ e.kind = "message" /\ e.id = i
    BY DEF OutboxEvent
  <1> HIDE DEF e
  <1>3. /\ events' \in Seq(OutboxEvent) /\ Len(events) \in Nat
        /\ DOMAIN events' = 1 .. Len(events) + 1 /\ DOMAIN events = 1 .. Len(events)
        /\ \A k \in DOMAIN events : events'[k] = events[k]
        /\ events'[Len(events) + 1] = e
    BY <1>0, <1>1, <1>2, AppendEvent DEF Types, OutboxTypeOK
  <1>4. Types' /\ AtRest'
    BY <1>0, <1>1, <1>3 DEF Types, OutboxTypeOK, AtRest
  <1>5. \A k \in DOMAIN events' : k \in DOMAIN events \/ k = Len(events) + 1
    BY <1>3
  <1>6. Shapes'
    BY <1>0, <1>1, <1>2, <1>3, <1>5 DEF Shapes
  <1>7. ASSUME NEW m \in Messages PROVE Counted(m)' /\ Held(m)' /\ InOnePlace(m)'
    <2>1. Counted(m) /\ Held(m) /\ InOnePlace(m)
      BY <1>7, Parts
    <2>2. ASSUME NEW k \in DOMAIN events', Answers(k, m)'
          PROVE  k \in DOMAIN events /\ Answers(k, m)
      BY <1>2, <1>3, <1>5, <2>2 DEF Answers
    <2>3. Answered(m)' => Answered(m)
      BY <2>2 DEF Answered
    <2>4. Counted(m)'
      BY <1>1, <2>1 DEF Counted
    <2>5. Held(m)'
      BY <1>1, <2>1, <2>3 DEF Held, Settling
    <2>6. InOnePlace(m)'
      BY <1>1, <2>1, <2>2, <2>3 DEF InOnePlace, Settling
    <2> QED
      BY <2>4, <2>5, <2>6
  <1> QED
    BY <1>4, <1>6, <1>7 DEF OutboxInv

\* The event task takes the first event: its message is now being settled.
LEMMA TakeKeeps ==
  ASSUME OutboxInv, TakeEvent
  PROVE  OutboxInv'
  <1> USE Values
  <1>0. Types /\ Shapes /\ AtRest
    BY DEF OutboxInv
  <1>1. /\ events # <<>> /\ events' = Tail(events) /\ loop = "up"
        /\ job' = Job(Head(events).kind, Head(events).id)
        /\ UNCHANGED <<outbox, inflight, delivered, failed, seen, loop, claim, batch, given,
                       queued, sent>>
    BY DEF TakeEvent, files, tasks, record
  <1>2. /\ events' \in Seq(OutboxEvent) /\ Head(events) = events[1] /\ 1 \in DOMAIN events
        /\ events[1] \in OutboxEvent /\ Len(events) \in Nat
        /\ DOMAIN events' = 1 .. Len(events) - 1 /\ DOMAIN events = 1 .. Len(events)
        /\ \A k \in DOMAIN events' : events'[k] = events[k + 1] /\ k + 1 \in DOMAIN events
    BY <1>0, <1>1, TakeFirst DEF Types, OutboxTypeOK
  <1>3. /\ job' \in OutboxJob /\ job' # Nothing /\ job'.step = "read"
        /\ job'.kind = events[1].kind /\ job'.id = events[1].id
    BY <1>1, <1>2 DEF Job, OutboxJob, OutboxEvent, Attempts
  <1>4. Types' /\ AtRest'
    BY <1>0, <1>1, <1>2, <1>3 DEF Types, OutboxTypeOK, AtRest
  <1>5. Shapes'
    BY <1>0, <1>1, <1>2, <1>3 DEF Shapes
  <1>6. ASSUME NEW m \in Messages PROVE Counted(m)' /\ Held(m)' /\ InOnePlace(m)'
    <2>1. Counted(m) /\ Held(m) /\ InOnePlace(m)
      BY <1>6, Parts
    <2>2. ASSUME NEW k \in DOMAIN events', Answers(k, m)'
          PROVE  k + 1 \in DOMAIN events /\ Answers(k + 1, m) /\ k + 1 # 1
      BY <1>2, <2>2 DEF Answers
    <2>3. Answered(m)' => Answered(m)
      BY <2>2 DEF Answered
    <2>4. Settling(m)' <=> Answers(1, m)
      BY <1>3 DEF Settling, Answers
    <2>5. Settling(m)' => Answered(m) /\ ~Answered(m)'
      <3>1. Answers(1, m) => Answered(m)
        BY <1>2 DEF Answered
      <3>2. Answers(1, m) => ~Answered(m)'
        BY <1>2, <2>1, <2>2 DEF Answered, InOnePlace
      <3> QED
        BY <2>4, <3>1, <3>2
    <2>6. Counted(m)'
      BY <1>1, <2>1 DEF Counted
    <2>7. Held(m)'
      BY <1>1, <1>3, <2>1, <2>3, <2>5 DEF Held
    <2>8. InOnePlace(m)'
      <3>1. \A j, k \in DOMAIN events' : Answers(j, m)' /\ Answers(k, m)' => j = k
        <4>1. \A k \in DOMAIN events' : k \in Nat
          BY <1>2
        <4>2. \A j, k \in DOMAIN events' : Answers(j, m)' /\ Answers(k, m)' => j + 1 = k + 1
          BY <2>1, <2>2 DEF InOnePlace
        <4> QED
          BY <4>1, <4>2
      <3> QED
        BY <1>1, <2>1, <2>3, <2>5, <3>1 DEF InOnePlace
    <2> QED
      BY <2>6, <2>7, <2>8
  <1> QED
    BY <1>4, <1>5, <1>6 DEF OutboxInv

\* What a step of a job has to leave true, if it touches no place of a message but
\* its own job, and only the files of the message that the job is about.
LEMMA JobKeeps ==
  ASSUME OutboxInv, job # Nothing,
         UNCHANGED <<loop, claim, batch, given, events, queued, sent>>,
         outbox' \in [Messages -> Attempts \cup {Nothing}],
         inflight' \in [Messages -> (Attempts \ {0}) \cup {Nothing}],
         delivered' \subseteq queued, failed' \subseteq queued, seen' \subseteq Inbound,
         job' \in OutboxJob \cup {Nothing},
         job' # Nothing => job'.kind = job.kind /\ job'.id = job.id,
         \A m \in Messages : ~Settling(m) => outbox'[m] = outbox[m] /\ inflight'[m] = inflight[m],
         \A m \in Messages : Settling(m) =>
           /\ (inflight'[m] # Nothing => inflight'[m] = inflight[m])
           /\ outbox'[m] = outbox[m] \/ outbox'[m] = Nothing
              \/ (job' = Nothing /\ outbox'[m] < MaxAttempts /\ sent[m] <= outbox'[m])
           /\ (job' # Nothing /\ job'.step # "read" =>
                 sent[m] <= job'.attempt)
  PROVE  OutboxInv'
  <1> USE Values
  <1>0. Types /\ Shapes /\ AtRest
    BY DEF OutboxInv
  <1>1. Types'
    BY <1>0 DEF Types, OutboxTypeOK
  <1>2. Shapes' /\ AtRest'
    BY <1>0 DEF Shapes, AtRest
  <1>3. ASSUME NEW m \in Messages PROVE Counted(m)' /\ Held(m)' /\ InOnePlace(m)'
    <2>1. /\ Counted(m) /\ Held(m) /\ InOnePlace(m) /\ sent[m] \in Nat
          /\ (Settling(m) => m \in queued)
      BY <1>0, <1>3, Parts DEF Shapes, Settling
    <2>2. /\ (Answered(m)' <=> Answered(m))
          /\ \A k \in DOMAIN events : Answers(k, m)' <=> Answers(k, m)
      BY DEF Answered, Answers
    <2>3. Settling(m)' => Settling(m) /\ job' # Nothing
      BY DEF Settling
    <2>4. CASE ~Settling(m)
      <3>1. ~Settling(m)' /\ outbox'[m] = outbox[m] /\ inflight'[m] = inflight[m]
        BY <2>3, <2>4
      <3>2. Counted(m)'
        BY <2>1, <3>1 DEF Counted
      <3>3. Held(m)'
        BY <2>1, <2>2, <3>1 DEF Held
      <3>4. InOnePlace(m)'
        BY <2>1, <2>2, <3>1 DEF InOnePlace
      <3> QED
        BY <3>2, <3>3, <3>4
    <2>5. CASE Settling(m)
      <3>1. /\ (inflight'[m] # Nothing => inflight'[m] = inflight[m])
            /\ outbox'[m] = outbox[m] \/ outbox'[m] = Nothing
               \/ (job' = Nothing /\ outbox'[m] < MaxAttempts /\ sent[m] <= outbox'[m])
            /\ (job' # Nothing /\ job'.step # "read" =>
                  sent[m] <= job'.attempt)
        BY <1>3, <2>5
      <3>2. Counted(m)'
        BY <2>1, <2>5, <3>1 DEF Counted
      <3>3. m \notin batch \cup given /\ ~Answered(m) /\ claim # m
        <4>1. m \notin batch \cup given /\ ~Answered(m)
          BY <2>1, <2>5 DEF InOnePlace
        <4>2. claim = m => loop = "up" /\ outbox[m] # Nothing
          BY <1>0, <1>3, <2>1 DEF AtRest, Held
        <4>3. loop = "up" => outbox[m] = Nothing
          BY <2>1, <2>5 DEF Held
        <4> QED
          BY <4>1, <4>2, <4>3
      <3>4. Held(m)'
        <4>1. Settling(m)' /\ loop' = "up" => outbox'[m] = Nothing
          BY <2>1, <2>3, <2>5, <3>1 DEF Held
        <4> QED
          BY <2>2, <2>3, <3>1, <3>3, <4>1 DEF Held
      <3>5. InOnePlace(m)'
        BY <2>1, <2>2, <3>3 DEF InOnePlace
      <3> QED
        BY <3>2, <3>4, <3>5
    <2> QED
      BY <2>4, <2>5
  <1> QED
    BY <1>1, <1>2, <1>3 DEF OutboxInv

\* ack_outbound_message, nack_outbound_message and record_inbound_message_once,
\* file by file.
LEMMA SettleKeeps == ASSUME OutboxInv, JobStep PROVE OutboxInv'
  <1> USE Values
  <1>0. /\ Types /\ Shapes /\ AtRest
        /\ outbox \in [Messages -> Attempts \cup {Nothing}]
        /\ inflight \in [Messages -> (Attempts \ {0}) \cup {Nothing}]
        /\ delivered \subseteq queued /\ failed \subseteq queued /\ seen \subseteq Inbound
        /\ job \in OutboxJob \cup {Nothing}
    BY DEF OutboxInv, Types, OutboxTypeOK
  <1>1. job # Nothing /\ job \in OutboxJob /\ job.attempt \in Attempts
    <2>1. job # Nothing
      BY DEF JobStep, ReadPending, PutDelivered, RemoveInflight, RemoveOutbox, PutBack,
             MarkInbound, Wake, WakeFails, Doing
    <2> QED
      BY <1>0, <2>1 DEF OutboxJob
  <1>2. /\ (job.kind # "message" => job.id \in queued /\ job.id \in Messages)
        /\ (job.kind = "message" => job.id \in Inbound)
        /\ \A m \in Messages : Settling(m) <=> job.kind # "message" /\ m = job.id
    BY <1>0, <1>1 DEF Shapes, Types, Settling
  <1>3. \A m \in Messages : Settling(m) /\ job.step # "read" =>
                              sent[m] <= job.attempt
    BY Parts DEF Held
  <1>4. ASSUME ReadPending PROVE OutboxInv'
    <2>1. /\ UNCHANGED <<outbox, inflight, delivered, failed, seen, loop, claim, batch, given,
                         events, queued, sent>>
          /\ job.kind # "message"
      BY <1>4 DEF ReadPending, Doing, files, tasks, record
    <2>2. CASE ~Pending(job.id)
      <3>1. job' = Nothing
        BY <1>4, <2>2 DEF ReadPending
      <3> QED
        BY <1>0, <1>1, <2>1, <3>1, JobKeeps
    <2>3. CASE Pending(job.id)
      <3>0. ReadAttempt(job.id) \in Attempts /\ sent[job.id] <= ReadAttempt(job.id)
        BY <1>0, <1>2, <2>1, <2>3, Parts DEF ReadAttempt, Pending, Counted
      <3>1. PICK a \in Attempts, s \in {"putDelivered", "rmInflight"} :
              job' = [job EXCEPT !.attempt = a, !.step = s] /\ sent[job.id] <= a
        BY <1>4, <2>3, <3>0 DEF ReadPending
      <3>2. /\ job' \in OutboxJob /\ job'.kind = job.kind /\ job'.id = job.id
            /\ job'.attempt = a
        BY <1>1, <3>1 DEF OutboxJob
      <3>3. \A m \in Messages : Settling(m) => sent[m] <= job'.attempt
        BY <1>2, <3>1, <3>2
      <3> QED
        BY <1>0, <1>1, <2>1, <3>2, <3>3, JobKeeps
    <2> QED
      BY <2>2, <2>3
  <1>5. ASSUME PutDelivered PROVE OutboxInv'
    <2>1. /\ UNCHANGED <<outbox, inflight, failed, seen, loop, claim, batch, given, events,
                         queued, sent>>
          /\ job.kind # "message" /\ job.step = "putDelivered"
          /\ delivered' = delivered \cup {job.id}
          /\ job' = [job EXCEPT !.step = "rmInflight"]
      BY <1>5 DEF PutDelivered, Step, Doing, tasks, record
    <2>2. /\ job' \in OutboxJob /\ job'.kind = job.kind /\ job'.id = job.id
          /\ job'.attempt = job.attempt
      BY <1>1, <2>1 DEF OutboxJob
    <2>3. \A m \in Messages : Settling(m) => sent[m] <= job'.attempt
      BY <1>2, <2>1, <2>2, <1>3
    <2> QED
      BY <1>0, <1>1, <1>2, <2>1, <2>2, <2>3, JobKeeps
  <1>6. ASSUME RemoveInflight PROVE OutboxInv'
    <2>1. /\ UNCHANGED <<outbox, delivered, failed, seen, loop, claim, batch, given, events,
                         queued, sent>>
          /\ job.kind # "message" /\ job.step # "read"
          /\ inflight' = [inflight EXCEPT ![job.id] = Nothing]
          /\ job' = [job EXCEPT !.step = "rmOutbox"]
      BY <1>6 DEF RemoveInflight, Remove, Step, Doing, tasks, record
    <2>2. /\ job' \in OutboxJob /\ job'.kind = job.kind /\ job'.id = job.id
          /\ job'.attempt = job.attempt
      BY <1>1, <2>1 DEF OutboxJob
    <2>3. \A m \in Messages : Settling(m) => sent[m] <= job'.attempt
      BY <1>2, <1>3, <2>1, <2>2
    <2>4. /\ inflight' \in [Messages -> (Attempts \ {0}) \cup {Nothing}]
          /\ \A m \in Messages :
               inflight'[m] = IF Settling(m) THEN Nothing ELSE inflight[m]
      BY <1>0, <1>2, <2>1
    <2> QED
      BY <1>0, <1>1, <2>1, <2>2, <2>3, <2>4, JobKeeps
  <1>7. ASSUME RemoveOutbox PROVE OutboxInv'
    <2>1. /\ UNCHANGED <<inflight, delivered, failed, seen, loop, claim, batch, given, events,
                         queued, sent>>
          /\ job.kind # "message" /\ job.step # "read"
          /\ outbox' = [outbox EXCEPT ![job.id] = Nothing]
          /\ job' = Nothing \/ job' = [job EXCEPT !.step = "write"]
      BY <1>7 DEF RemoveOutbox, Remove, Doing, tasks, record
    <2>2. \/ job' = Nothing
          \/ /\ job' \in OutboxJob /\ job'.kind = job.kind /\ job'.id = job.id
             /\ job'.attempt = job.attempt
      BY <1>1, <2>1 DEF OutboxJob
    <2>3. job' # Nothing => \A m \in Messages : Settling(m) => sent[m] <= job'.attempt
      BY <1>2, <1>3, <2>1, <2>2
    <2>4. /\ outbox' \in [Messages -> Attempts \cup {Nothing}]
          /\ \A m \in Messages : outbox'[m] = IF Settling(m) THEN Nothing ELSE outbox[m]
      BY <1>0, <1>2, <2>1
    <2> QED
      BY <1>0, <1>1, <2>1, <2>2, <2>3, <2>4, JobKeeps
  <1>8. ASSUME PutBack PROVE OutboxInv'
    <2>1. /\ UNCHANGED <<inflight, delivered, seen, loop, claim, batch, given, events, queued,
                         sent>>
          /\ job.kind # "message" /\ job.step # "read" /\ job' = Nothing
          /\ \/ failed' = failed \cup {job.id} /\ outbox' = outbox
             \/ /\ failed' = failed /\ ~(job.attempt >= MaxAttempts)
                /\ outbox' = [outbox EXCEPT ![job.id] = job.attempt]
      BY <1>8 DEF PutBack, Put, Doing, tasks, record
    <2>2. CASE outbox' = outbox
      <3>1. failed' \subseteq queued
        BY <1>0, <1>2, <2>1
      <3> QED
        BY <1>0, <1>1, <2>1, <2>2, <3>1, JobKeeps
    <2>3. CASE outbox' # outbox
      <3>1. /\ failed' = failed /\ job.attempt < MaxAttempts
            /\ outbox' = [outbox EXCEPT ![job.id] = job.attempt]
        BY <1>1, <2>1, <2>3 DEF Attempts
      <3>2. /\ outbox' \in [Messages -> Attempts \cup {Nothing}]
            /\ \A m \in Messages :
                 outbox'[m] = IF Settling(m) THEN job.attempt ELSE outbox[m]
        BY <1>0, <1>1, <1>2, <2>1, <3>1
      <3>3. \A m \in Messages : Settling(m) => sent[m] <= job.attempt
        BY <1>3, <2>1
      <3> QED
        BY <1>0, <1>1, <2>1, <3>1, <3>2, <3>3, JobKeeps
    <2> QED
      BY <2>2, <2>3
  <1>9. ASSUME MarkInbound PROVE OutboxInv'
    <2>1. /\ UNCHANGED <<outbox, inflight, delivered, failed, loop, claim, batch, given, events,
                         queued, sent>>
          /\ job.kind = "message"
          /\ \/ seen' = seen /\ job' = Nothing
             \/ seen' = seen \cup {job.id} /\ job' = [job EXCEPT !.step = "wake"]
      BY <1>9 DEF MarkInbound, Step, Doing, tasks, record
    <2>2. \/ job' = Nothing
          \/ job' \in OutboxJob /\ job'.kind = job.kind /\ job'.id = job.id
      BY <1>1, <2>1 DEF OutboxJob
    <2>3. seen' \subseteq Inbound /\ \A m \in Messages : ~Settling(m)
      BY <1>0, <1>2, <2>1
    <2> QED
      BY <1>0, <1>1, <2>1, <2>2, <2>3, JobKeeps
  <1>10. ASSUME Wake \/ WakeFails PROVE OutboxInv'
    <2>1. /\ UNCHANGED <<outbox, inflight, delivered, failed, seen, loop, claim, batch, given,
                         events, queued, sent>>
          /\ job' = Nothing
      BY <1>10 DEF Wake, WakeFails, files, tasks
    <2> QED
      BY <1>0, <1>1, <2>1, JobKeeps
  <1> QED
    BY <1>4, <1>5, <1>6, <1>7, <1>8, <1>9, <1>10 DEF JobStep

LEMMA OutboxStep == OutboxInv /\ [OutboxNext]_outboxVars => OutboxInv'
  <1> SUFFICES ASSUME OutboxInv, [OutboxNext]_outboxVars PROVE OutboxInv'
    OBVIOUS
  <1>1. CASE UNCHANGED outboxVars
    <2>1. UNCHANGED <<outbox, inflight, delivered, failed, seen, loop, claim, batch, given,
                      events, job, queued, sent>>
      BY <1>1 DEF outboxVars, files, tasks, record
    <2> QED
      BY <2>1 DEF OutboxInv, Types, OutboxTypeOK, Shapes, AtRest, Counted, Held, InOnePlace,
                  Answered, Answers, Settling
  <1>2. CASE LoopStep
    BY <1>2, LoopKeeps, TakeKeeps, SettleKeeps DEF LoopStep
  <1>3. CASE CommandStep
    BY <1>3, ClaimKeeps, SendKeeps DEF CommandStep
  <1>4. CASE WorkerStep
    BY <1>4, AnswerKeeps DEF WorkerStep
  <1>5. CASE Stop
    BY <1>5, LoopKeeps
  <1>6. CASE \E i \in Inbound : Arrive(i)
    BY <1>6, ArriveKeeps
  <1>7. CASE \E m \in Messages : Enqueue(m)
    BY <1>7, EnqueueKeeps
  <1> QED
    BY <1>1, <1>2, <1>3, <1>4, <1>5, <1>6, <1>7 DEF OutboxNext

LEMMA OutboxInvariance == OutboxSpec => []OutboxInv
  BY InitOutbox, OutboxStep, PTL DEF OutboxSpec

\* The provider gets a message at most MAX_DELIVERY_ATTEMPTS times, the files of a
\* pending one count every hand-over, and what the worker holds or has answered
\* is in flight on disk, wherever the claim, the answer or the requeue is cut off.
THEOREM HandoversCorrect == OutboxSpec => []HandoversCounted
  <1>1. OutboxInv => HandoversCounted
    <2> SUFFICES ASSUME OutboxInv PROVE HandoversCounted
      OBVIOUS
    <2>1. OutboxTypeOK
      BY DEF OutboxInv, Types
    <2>2. AttemptsCounted
      <3>1. ASSUME NEW m \in Messages
            PROVE  sent[m] <= MaxAttempts /\ (Pending(m) => sent[m] <= ReadAttempt(m))
        BY <3>1, Parts DEF Counted, Pending, ReadAttempt
      <3> QED
        BY <3>1 DEF AttemptsCounted
    <2>3. OnRecord
      <3>1. ASSUME NEW m \in Messages PROVE m \in given \/ Answered(m) => inflight[m] # Nothing
        BY <3>1, Parts DEF Held
      <3> QED
        BY <3>1 DEF OnRecord, Answered, Answers
    <2> QED
      BY <2>1, <2>2, <2>3 DEF HandoversCounted
  <1> QED
    BY <1>1, OutboxInvariance, PTL

-----------------------------------------------------------------------------
(* Inbound messages. *)

Waking(i) == Doing("message", "wake") /\ job.id = i

\* Before its marker an inbound message woke nothing, and while its turn is about
\* to be woken it has the marker and woke nothing yet.
Heard(i) ==
  /\ woken[i] <= 1
  /\ (i \notin seen => woken[i] = 0)
  /\ (i \in seen => woken[i] = 1 \/ Waking(i) \/ i \in unheard)
  /\ (Waking(i) => i \in seen /\ woken[i] = 0)

HeardInv == woken \in [Inbound -> Nat] /\ \A i \in Inbound : Heard(i)

LEMMA HeardStep ==
  OutboxInv /\ OutboxInv' /\ HeardInv /\ [OutboxNext]_outboxVars => HeardInv'
  <1> SUFFICES ASSUME OutboxInv, OutboxInv', HeardInv, [OutboxNext]_outboxVars PROVE HeardInv'
    OBVIOUS
  <1> USE Values
  <1>0. /\ woken \in [Inbound -> Nat] /\ \A i \in Inbound : Heard(i)
        /\ job \in OutboxJob \cup {Nothing} /\ seen \subseteq Inbound
        /\ (job # Nothing /\ job.kind = "message" => job.id \in Inbound)
    BY DEF HeardInv, OutboxInv, Types, OutboxTypeOK, Shapes
  <1>1. ASSUME UNCHANGED <<seen, woken, unheard>>, ~Doing("message", "wake"),
               ~Doing("message", "wake")'
        PROVE  HeardInv'
    BY <1>0, <1>1 DEF HeardInv, Heard, Waking
  <1>2. ASSUME UNCHANGED <<seen, woken, unheard, job>> PROVE HeardInv'
    BY <1>0, <1>2 DEF HeardInv, Heard, Waking, Doing
  <1>3. ASSUME \A i \in Inbound : Waking(i) <=> Doing("message", "wake") /\ i = job.id,
               Doing("message", "wake"), job.id \in Inbound, job' = Nothing, UNCHANGED seen,
               \/ woken' = [woken EXCEPT ![job.id] = @ + 1] /\ unheard \subseteq unheard'
               \/ woken' = woken /\ unheard' = unheard \cup {job.id}
        PROVE  HeardInv'
    <2>1. ASSUME NEW i \in Inbound PROVE Heard(i)'
      <3>1. Heard(i) /\ ~Waking(i)' /\ (Waking(i) <=> i = job.id)
        BY <1>0, <1>3 DEF Waking, Doing
      <3>2. \/ woken'[i] = (IF i = job.id THEN woken[i] + 1 ELSE woken[i])
               /\ unheard \subseteq unheard'
            \/ woken'[i] = woken[i] /\ unheard' = unheard \cup {job.id}
        BY <1>0, <1>3
      <3> QED
        BY <1>0, <1>3, <3>1, <3>2 DEF Heard
    <2>2. woken' \in [Inbound -> Nat]
      BY <1>0, <1>3
    <2> QED
      BY <2>1, <2>2 DEF HeardInv
  <1>waking. \A i \in Inbound : Waking(i) <=> Doing("message", "wake") /\ i = job.id
    BY DEF Waking
  <1>stop. ASSUME Stop PROVE HeardInv'
    <2>1. UNCHANGED seen /\ job' = Nothing /\ ~Doing("message", "wake")'
      BY <1>stop DEF Stop, files, Doing
    <2>2. CASE Doing("message", "wake")
      <3>1. /\ job.id \in Inbound /\ unheard' = unheard \cup {job.id}
            /\ woken' = woken \/ woken' = [woken EXCEPT ![job.id] = @ + 1]
        BY <1>0, <1>stop, <2>2 DEF Stop, Doing
      <3> QED
        BY <1>3, <1>waking, <2>1, <2>2, <3>1
    <2>3. CASE ~Doing("message", "wake")
      BY <1>1, <1>stop, <2>1, <2>3 DEF Stop
    <2> QED
      BY <2>2, <2>3
  <1>4. ASSUME MarkInbound PROVE HeardInv'
    <2>1. /\ job # Nothing /\ job \in OutboxJob /\ job.kind = "message" /\ job.step = "read"
          /\ job.id \in Inbound /\ UNCHANGED <<woken, unheard>>
          /\ ~Doing("message", "wake")
      BY <1>0, <1>4 DEF MarkInbound, Doing, record
    <2>2. CASE job.id \in seen
      <3>1. job' = Nothing /\ UNCHANGED seen
        BY <1>4, <2>2 DEF MarkInbound
      <3> QED
        BY <1>1, <2>1, <3>1 DEF Doing
    <2>3. CASE job.id \notin seen
      <3>1. seen' = seen \cup {job.id} /\ job' = [job EXCEPT !.step = "wake"]
        BY <1>4, <2>3 DEF MarkInbound, Step
      <3>2. /\ job' \in OutboxJob /\ job'.kind = "message" /\ job'.id = job.id
            /\ job'.step = "wake"
        BY <2>1, <3>1 DEF OutboxJob
      <3>3. ASSUME NEW i \in Inbound PROVE Heard(i)'
        <4>1. Heard(i) /\ ~Waking(i) /\ (Waking(i)' <=> i = job.id)
          BY <1>0, <2>1, <3>2 DEF Waking, Doing
        <4> QED
          BY <2>1, <2>3, <3>1, <4>1 DEF Heard
      <3> QED
        BY <1>0, <2>1, <3>3 DEF HeardInv
    <2> QED
      BY <2>2, <2>3
  <1>5. ASSUME Wake \/ WakeFails PROVE HeardInv'
    <2>1. /\ Doing("message", "wake") /\ job.id \in Inbound /\ job' = Nothing /\ UNCHANGED seen
          /\ \/ woken' = [woken EXCEPT ![job.id] = @ + 1] /\ unheard' = unheard
             \/ woken' = woken /\ unheard' = unheard \cup {job.id}
      BY <1>0, <1>5 DEF Wake, WakeFails, Doing, files
    <2> QED
      BY <1>3, <1>waking, <2>1
  <1>6. ASSUME \/ TakeEvent \/ ReadPending \/ PutDelivered \/ RemoveInflight \/ RemoveOutbox
               \/ PutBack \/ \E m \in Messages : RequeueNext(m)
        PROVE  HeardInv'
    <2>1. UNCHANGED <<seen, woken, unheard>>
      BY <1>6 DEF TakeEvent, ReadPending, PutDelivered, RemoveInflight, RemoveOutbox, PutBack,
                  RequeueNext, files, record
    <2>2. ~Doing("message", "wake")
      BY <1>6 DEF TakeEvent, ReadPending, PutDelivered, RemoveInflight, RemoveOutbox, PutBack,
                  RequeueNext, Doing
    <2>3. ~Doing("message", "wake")'
      <3>1. ASSUME TakeEvent \/ \E m \in Messages : RequeueNext(m) PROVE job'.step # "wake"
        BY <3>1 DEF TakeEvent, RequeueNext, Job
      <3>2. ASSUME ReadPending \/ PutDelivered \/ RemoveInflight \/ RemoveOutbox \/ PutBack
            PROVE  job' = Nothing \/ job'.step # "wake"
        <4>1. job \in OutboxJob
          BY <1>0, <3>2 DEF ReadPending, PutDelivered, RemoveInflight, RemoveOutbox, PutBack,
                            Doing
        <4>2. CASE ReadPending
          BY <4>1, <4>2 DEF ReadPending, OutboxJob
        <4>3. CASE PutDelivered \/ RemoveInflight
          BY <4>1, <4>3 DEF PutDelivered, RemoveInflight, Step, OutboxJob
        <4>4. CASE RemoveOutbox \/ PutBack
          BY <4>1, <4>4 DEF RemoveOutbox, PutBack, OutboxJob
        <4> QED
          BY <3>2, <4>2, <4>3, <4>4
      <3> QED
        BY <1>6, <3>1, <3>2 DEF Doing
    <2> QED
      BY <1>1, <2>1, <2>2, <2>3
  <1>7. ASSUME \/ UNCHANGED outboxVars \/ StartLoop \/ SpawnWorker \/ CommandStep \/ WorkerStep
               \/ (\E i \in Inbound : Arrive(i)) \/ (\E m \in Messages : Enqueue(m))
        PROVE  HeardInv'
    <2>1. UNCHANGED <<seen, woken, unheard, job>>
      BY <1>7 DEF outboxVars, StartLoop, SpawnWorker, CommandStep, ClaimRemove, ClaimDone,
                  ClaimWrite, SendCommand, WorkerStep, Deliver, Reject, Arrive, Enqueue, files,
                  record
    <2> QED
      BY <1>2, <2>1
  <1> QED
    BY <1>stop, <1>4, <1>5, <1>6, <1>7 DEF OutboxNext, LoopStep, JobStep

\* An inbound message wakes its conversation at most once, whatever the provider repeats
\* and however often the worker restarts, and none that is marked as seen is left unheard
\* but those whose wakeup failed or was cut off after the marker.
THEOREM HeardCorrect == OutboxSpec => []HeardOnce
  <1>1. OutboxInit => HeardInv
    BY Values DEF OutboxInit, HeardInv, Heard, Waking, Doing
  <1>2. OutboxInv /\ HeardInv => HeardOnce
    BY DEF HeardInv, Heard, Waking, HeardOnce, WokenOnce, MarkedIsWoken, OutboxInv, Types,
           OutboxTypeOK
  <1> QED
    BY <1>1, <1>2, OutboxInvariance, HeardStep, PTL DEF OutboxSpec
=============================================================================
