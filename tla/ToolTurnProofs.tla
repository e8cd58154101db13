---------------------------- MODULE ToolTurnProofs ----------------------------
(***************************************************************************)
(* Proofs about the turns of a session (ToolTurn): a tool call is executed *)
(* once at most and with the approval it needs, its response is unique and *)
(* seen, a suspension takes effect between rounds, and the types.          *)
(***************************************************************************)
EXTENDS ToolTurn, WellFoundedInduction, TLAPS

--------------------------------------------------------------------------------
\* Types

EventKinds == {"input", "round", "requested", "result", "approval", "response", "completed", "ended"}
Answers == {"approved", "always", "denied"}
Vals == 0..Limit \cup Tools \cup Answers
EventRecords ==
  [kind : EventKinds, turn : 1..MaxTurns, id : 0..MaxCalls, val : Vals, stored : BOOLEAN]

InCall == {"authorize", "watch", "wait", "execute", "result"}
NoCall == {"none", "restore", "load", "model", "answer", "return"}
ExecRecords ==
  [at : InCall \cup NoCall, round : 0..Limit + 1, todo : SUBSET Calls, resume : BOOLEAN,
   after : Nat]

JournalTypes ==
  /\ events \in Seq(EventRecords) /\ flight \in Seq(EventRecords)
  /\ late \subseteq DOMAIN events
  /\ turn \in 1..MaxTurns /\ issued \in 0..MaxCalls
  /\ answering \in [Users -> 0..MaxCalls]
  /\ ran \in [Calls -> Nat]

HarnessTypes ==
  /\ work \in {"accepted", "active", "stopping", "resting", "idle"}
  /\ outcome \in {"none", "completed", "failed", "cancelled", "interrupted", "suspended"}
  /\ stop \in {"none", "suspend", "cancel", "shutdown"} /\ suspending \in BOOLEAN
  /\ exec \in ExecRecords /\ exec.after <= Len(events)
  /\ pendingTools \subseteq Calls

\* The kinds of events and what they hold.
ValuesOK(log) ==
  \A i \in DOMAIN log :
    /\ log[i].kind \in {"round", "approval"} => log[i].val \in 0..Limit
    /\ log[i].kind = "response" => log[i].val \in Answers /\ log[i].stored
    /\ log[i].kind = "requested" => log[i].id \in Calls

--------------------------------------------------------------------------------
\* The journal

IsRequest(i, c) == i \in DOMAIN events /\ events[i].kind = "requested" /\ events[i].id = c
Asked(c) == \E i \in DOMAIN events : events[i].kind = "approval" /\ events[i].id = c
Answered(c) == \E i \in DOMAIN events : events[i].kind = "response" /\ events[i].id = c
Started(c) == ran[c] > 0 \/ Asked(c)

\* A user allowed this call, or its tool for the session.
Allowed(c) ==
  \E i \in DOMAIN events :
    /\ events[i].kind = "response"
    /\ events[i].val = "always" \/ (events[i].id = c /\ events[i].val = "approved")

\* A call is requested once, and what is said of it is said in its turn.
RequestsOK ==
  /\ \A i, j \in DOMAIN events :
       events[i].kind = "requested" /\ events[j].kind = "requested"
         /\ events[i].id = events[j].id => i = j
  /\ \A i \in DOMAIN events : events[i].kind \in {"result", "approval", "response"} =>
       \E j \in Where("requested", events[i].turn) : events[j].id = events[i].id
  /\ \A i \in DOMAIN events : events[i].id <= issued

\* A call begins when those before it have their results.
OrderOK ==
  \A i, j \in Stored :
    /\ events[i].kind = "requested" /\ events[j].kind = "requested"
    /\ events[i].turn = events[j].turn /\ events[i].id < events[j].id
    /\ Started(events[j].id)
    => Has("result", events[i].turn, events[i].id)

\* What was executed was requested, and allowed where that was asked for.
RanOK ==
  \A c \in Calls : ran[c] > 0 =>
    /\ ran[c] = 1
    /\ \E i \in Stored : IsRequest(i, c)
    /\ Asked(c) => Answered(c)
    /\ Guarded(c) => Allowed(c)

ResponsesOK ==
  /\ OneResponse
  /\ \A c \in Calls : Answered(c) => Asked(c)
  /\ \A u \in Users : answering[u] # 0 =>
       /\ ~Answered(answering[u])
       /\ \A v \in Users : answering[v] # 0 => v = u

\* Events belong to the turns up to now; what may still land belongs to an
\* earlier one, unless the turn was stopped.
TurnsOK ==
  /\ \A i \in DOMAIN events : /\ events[i].turn <= turn
                              /\ work = "accepted" => events[i].turn < turn
  /\ \A i \in late :
       /\ ~events[i].stored
       /\ \/ events[i].turn < turn \/ work = "idle"
          \/ work = "stopping" /\ outcome \in {"cancelled", "interrupted"}
       /\ events[i].kind = "requested" =>
            \A j \in DOMAIN events \ late :
              events[j].kind = "requested" /\ events[j].turn = events[i].turn
                => events[j].id < events[i].id

--------------------------------------------------------------------------------
\* The executor

AtOK ==
  /\ work # "active" =>
       exec = NoExec /\ flight = <<>> /\ pendingTools = {} /\ suspending = FALSE
  /\ work = "active" => exec.at # "none"
  /\ exec.at \in NoCall => exec.todo = {} /\ ~exec.resume
  /\ exec.at \in InCall => exec.todo # {} /\ exec.round <= Limit
  /\ exec.at = "answer" => exec.round <= Limit

\* The appends that the executor makes.
FlightOK ==
  /\ \A k \in DOMAIN flight : flight[k].turn = turn /\ flight[k].stored
  /\ \/ flight = <<>>
     \/ /\ exec.at = "authorize" /\ ~exec.resume
        /\ \A k \in DOMAIN flight :
             /\ flight[k].kind \in {"round", "requested"}
             /\ flight[k].kind = "round" => flight[k].id = 0
             /\ flight[k].kind = "requested" =>
                  /\ flight[k].id <= issued
                  /\ \A i \in DOMAIN events : events[i].id < flight[k].id
                  /\ \A l \in DOMAIN flight :
                       flight[l].kind = "requested" /\ flight[l].id = flight[k].id => l = k
     \/ exec.at = "return" /\ flight = <<Ev("completed", 0, 0)>>
     \/ /\ exec.at = "watch" /\ ~Started(Call)
        /\ flight = <<Ev("approval", Call, exec.round)>>
     \/ /\ exec.at \in {"authorize", "model"} /\ ~exec.resume
        /\ \E c \in pendingTools : flight = <<Ev("result", c, 0)>>

\* What is left of the round is what the journal and the append leave open.
PendingOK ==
  /\ exec.at = "restore" => pendingTools = {}
  /\ exec.at \in {"restore", "load"} => flight = <<>>
  /\ work = "active" /\ exec.at # "restore" => pendingTools = Unresolved(turn)
  /\ work = "active" /\ exec.at \notin {"restore", "load"} =>
       exec.todo = UpdatePendingTools(flight)

\* How far the call has come that is first, and that the others have not begun.
TodoAt(q) ==
  /\ \A c \in exec.todo : c # q => ~Started(c)
  /\ exec.at # "result" => ran[q] = 0
  /\ exec.at = "authorize" /\ ~exec.resume => ~Started(q)
  /\ exec.at = "execute" => /\ Asked(q) => Answered(q)
                            /\ Guarded(q) => Allowed(q)
  /\ exec.at \in {"watch", "wait"} => \A i \in Responses(q) : i > exec.after

TodoOK == exec.at \in InCall => \A q \in exec.todo : q = Call => TodoAt(q)

JournalInv == JournalTypes /\ ValuesOK(events) /\ ValuesOK(flight)
              /\ RequestsOK /\ OrderOK /\ RanOK /\ ResponsesOK /\ TurnsOK

ExecInv == HarnessTypes /\ AtOK /\ FlightOK /\ PendingOK /\ TodoOK

ToolInv == JournalInv /\ ExecInv

--------------------------------------------------------------------------------
\* Least elements, and what an append does to the journal

LEMMA HasLeast ==
  ASSUME NEW S, S \subseteq Nat, S # {}
  PROVE  \E x \in S : \A y \in S : x <= y
<1> DEFINE R == {ss \in Nat \X Nat : ss[1] < ss[2]}
<1>1. OpToRel(<, Nat) = R
  BY Zenon DEF OpToRel
<1>2. \E x \in S : \A y \in S : ~(<<y, x>> \in OpToRel(<, Nat))
  BY NatLessThanWellFounded, WFMin, Zenon
<1>3. PICK x \in S : \A y \in S : ~(<<y, x>> \in R)
  BY <1>1, <1>2, Zenon
<1>4. ASSUME NEW y \in S PROVE x <= y
  <2>1. x \in Nat /\ y \in Nat OBVIOUS
  <2>2. <<y, x>> \in Nat \X Nat BY <2>1
  <2>3. ~(y < x) BY <1>3, <2>2
  <2> QED BY <2>1, <2>3
<1> QED BY <1>4

LEMMA HasGreatest ==
  ASSUME NEW n \in Nat, NEW S, S \subseteq 0..n, S # {}
  PROVE  \E x \in S : \A y \in S : y <= x
<1> DEFINE T == {n - s : s \in S}
<1>1. T \subseteq Nat /\ T # {} OBVIOUS
<1>2. PICK x \in T : \A y \in T : x <= y BY <1>1, HasLeast, Zenon
<1>3. PICK s \in S : x = n - s OBVIOUS
<1>4. \A y \in S : y <= s BY <1>2, <1>3
<1> QED BY <1>4

LEMMA FirstIn ==
  ASSUME NEW S, S \subseteq Calls, S # {}
  PROVE  First(S) \in S /\ \A d \in S : First(S) <= d
<1>1. S \subseteq Nat BY ToolAssumption DEF Calls
<1>2. \E x \in S : \A y \in S : x <= y BY <1>1, HasLeast, Zenon
<1> QED BY <1>2, Zenon DEF First

\* The journal goes on with a batch.
Extends(b) ==
  /\ DOMAIN events \subseteq DOMAIN events'
  /\ \A i \in DOMAIN events : events'[i] = events[i]
  /\ \A i \in DOMAIN events' \ DOMAIN events :
       \E k \in DOMAIN b : i = Len(events) + k /\ events'[i] = b[k]
  /\ \A k \in DOMAIN b : /\ Len(events) + k \in DOMAIN events' \ DOMAIN events
                         /\ events'[Len(events) + k] = b[k]

LEMMA AppendExtends ==
  ASSUME events \in Seq(EventRecords), NEW b \in Seq(EventRecords), events' = events \o b
  PROVE  /\ events' \in Seq(EventRecords) /\ Extends(b)
         /\ Len(events') = Len(events) + Len(b)
<1>1. /\ events' \in Seq(EventRecords) /\ Len(events') = Len(events) + Len(b)
      /\ DOMAIN events = 1..Len(events) /\ DOMAIN b = 1..Len(b) /\ DOMAIN events' = 1..Len(events')
      /\ Len(events) \in Nat /\ Len(b) \in Nat
  OBVIOUS
<1>2. \A i \in 1..Len(events) : events'[i] = events[i]
  BY <1>1
<1>3. \A i \in 1..Len(b) : events'[Len(events) + i] = b[i]
  BY <1>1
<1>4. ASSUME NEW i \in DOMAIN events' \ DOMAIN events
      PROVE \E k \in DOMAIN b : i = Len(events) + k /\ events'[i] = b[k]
  <2>1. i - Len(events) \in DOMAIN b /\ i = Len(events) + (i - Len(events)) BY <1>1
  <2> QED BY <2>1, <1>3, <1>1
<1> QED BY <1>1, <1>2, <1>3, <1>4 DEF Extends

\* Events stay, and what was stored stays stored.
Keeps ==
  \A i \in DOMAIN events :
    /\ i \in DOMAIN events'
    /\ events'[i].kind = events[i].kind /\ events'[i].turn = events[i].turn
    /\ events'[i].id = events[i].id /\ events'[i].val = events[i].val
    /\ events[i].stored => events'[i].stored

LEMMA ExtendsKeeps ==
  ASSUME NEW b, Extends(b)
  PROVE  Keeps
BY DEF Extends, Keeps

LEMMA Monotone ==
  ASSUME Keeps
  PROVE  /\ Stored \subseteq Stored'
         /\ \A K, t : Where(K, t) \subseteq Where(K, t)'
         /\ \A K, t, c : Has(K, t, c) => Has(K, t, c)'
         /\ \A c : /\ Asked(c) => Asked(c)'
                   /\ Answered(c) => Answered(c)'
                   /\ Allowed(c) => Allowed(c)'
                   /\ Guarded(c) => Guarded(c)'
<1>1. Stored \subseteq Stored'
  BY DEF Keeps, Stored
<1>2. ASSUME NEW K, NEW t PROVE Where(K, t) \subseteq Where(K, t)'
  BY <1>1 DEF Keeps, Where, Stored
<1>3. ASSUME NEW K, NEW t, NEW c, Has(K, t, c) PROVE Has(K, t, c)'
  <2>1. PICK i \in Where(K, t) : events[i].id = c BY <1>3 DEF Has
  <2>2. i \in Where(K, t)' BY <1>2
  <2>3. events'[i].id = c BY <2>1 DEF Keeps, Where, Stored
  <2> QED BY <2>2, <2>3 DEF Has
<1>4. ASSUME NEW c
      PROVE /\ Asked(c) => Asked(c)'
            /\ Answered(c) => Answered(c)'
            /\ Allowed(c) => Allowed(c)'
            /\ Guarded(c) => Guarded(c)'
  BY DEF Keeps, Asked, Answered, Allowed, Guarded
<1> QED BY <1>1, <1>2, <1>3, <1>4

\* A batch that the journal may go on with.
AddOK(b) ==
  /\ ValuesOK(b)
  /\ \A k \in DOMAIN b :
       /\ b[k].id <= issued
       /\ b[k].kind = "requested" =>
            /\ \A i \in DOMAIN events : events[i].id < b[k].id
            /\ \A l \in DOMAIN b : b[l].kind = "requested" /\ b[l].id = b[k].id => l = k
       /\ b[k].kind \in {"result", "approval", "response"} =>
            \E j \in Where("requested", b[k].turn) : events[j].id = b[k].id
       /\ b[k].kind = "approval" =>
            /\ ran[b[k].id] = 0
            /\ \A i \in Where("requested", b[k].turn) :
                 events[i].id < b[k].id => Has("result", b[k].turn, events[i].id)
       /\ b[k].kind = "response" =>
            /\ Asked(b[k].id) /\ ~Answered(b[k].id)
            /\ \A l \in DOMAIN b : b[l].kind = "response" => l = k

LEMMA AddedRequests ==
  ASSUME JournalInv, NEW b \in Seq(EventRecords), AddOK(b), Extends(b), issued' = issued
  PROVE  RequestsOK' /\ ValuesOK(events)'
<1>1. ValuesOK(events)'
  BY DEF AddOK, ValuesOK, Extends, JournalInv
<1>2. ASSUME NEW i \in DOMAIN events', NEW j \in DOMAIN events',
             events'[i].kind = "requested", events'[j].kind = "requested",
             events'[i].id = events'[j].id
      PROVE i = j
  <2>0. /\ \A n \in DOMAIN events : events[n].id \in Nat
        /\ \A n \in DOMAIN b : b[n].id \in Nat
    <3>1. /\ \A n \in DOMAIN events : events[n] \in EventRecords
          /\ \A n \in DOMAIN b : b[n] \in EventRecords
      BY DEF JournalInv, JournalTypes
    <3> QED BY <3>1 DEF EventRecords
  <2>1. CASE i \in DOMAIN events /\ j \in DOMAIN events
    BY <1>2, <2>1 DEF Extends, JournalInv, RequestsOK
  <2>2. CASE i \notin DOMAIN events /\ j \notin DOMAIN events
    <3>1. PICK k \in DOMAIN b : i = Len(events) + k /\ events'[i] = b[k] BY <2>2 DEF Extends
    <3>2. PICK l \in DOMAIN b : j = Len(events) + l /\ events'[j] = b[l] BY <2>2 DEF Extends
    <3>3. k = l BY <1>2, <3>1, <3>2 DEF AddOK
    <3> QED BY <3>1, <3>2, <3>3
  <2>3. CASE i \in DOMAIN events /\ j \notin DOMAIN events
    <3>2. PICK l \in DOMAIN b : j = Len(events) + l /\ events'[j] = b[l] BY <2>3 DEF Extends
    <3>3. events[i].id < b[l].id BY <1>2, <3>2, <2>3 DEF AddOK
    <3>4. events[i].id = b[l].id BY <1>2, <3>2, <2>3 DEF Extends
    <3> QED BY <3>3, <3>4, <2>0, <2>3
  <2>4. CASE i \notin DOMAIN events /\ j \in DOMAIN events
    <3>2. PICK l \in DOMAIN b : i = Len(events) + l /\ events'[i] = b[l] BY <2>4 DEF Extends
    <3>3. events[j].id < b[l].id BY <1>2, <3>2, <2>4 DEF AddOK
    <3>4. events[j].id = b[l].id BY <1>2, <3>2, <2>4 DEF Extends
    <3> QED BY <3>3, <3>4, <2>0, <2>4
  <2> QED BY <2>1, <2>2, <2>3, <2>4
<1>3. ASSUME NEW i \in DOMAIN events', events'[i].kind \in {"result", "approval", "response"},
             NEW t, t = events'[i].turn
      PROVE \E j \in Where("requested", t)' : events'[j].id = events'[i].id
  <2>0. Where("requested", t) \subseteq Where("requested", t)'
    BY ExtendsKeeps, Monotone
  <2>1. \E j \in Where("requested", t) : events[j].id = events'[i].id
    <3>1. CASE i \in DOMAIN events
      BY <3>1, <1>3 DEF JournalInv, RequestsOK, Extends
    <3>2. CASE i \notin DOMAIN events
      <4>1. PICK k \in DOMAIN b : events'[i] = b[k] BY <3>2 DEF Extends
      <4> QED BY <4>1, <1>3 DEF AddOK
    <3> QED BY <3>1, <3>2
  <2>2. PICK j \in Where("requested", t) : events[j].id = events'[i].id
    BY <2>1
  <2>3. events'[j] = events[j] BY DEF Extends, Where, Stored
  <2> QED BY <2>0, <2>2, <2>3
<1>4. ASSUME NEW i \in DOMAIN events' PROVE events'[i].id <= issued
  BY DEF Extends, AddOK, JournalInv, RequestsOK
<1> QED BY <1>1, <1>2, <1>3, <1>4 DEF RequestsOK

\* The numbers of the events.
LEMMA EventTypes ==
  ASSUME NEW log \in Seq(EventRecords)
  PROVE  \A i \in DOMAIN log : /\ log[i] \in EventRecords
                               /\ log[i].id \in 0..MaxCalls /\ log[i].id \in Nat
                               /\ log[i].turn \in 1..MaxTurns /\ log[i].turn \in Nat
                               /\ log[i].stored \in BOOLEAN
<1>1. \A i \in DOMAIN log : log[i] \in EventRecords OBVIOUS
<1> QED BY <1>1, ToolAssumption DEF EventRecords

LEMMA AddedOrder ==
  ASSUME JournalInv, NEW b \in Seq(EventRecords), AddOK(b), Extends(b), ran' = ran
  PROVE  OrderOK'
<1> SUFFICES ASSUME NEW i \in Stored', NEW j \in Stored', NEW t, NEW c, NEW d,
                    events'[i].kind = "requested", events'[j].kind = "requested",
                    t = events'[i].turn, t = events'[j].turn,
                    c = events'[i].id, d = events'[j].id, c < d, Started(d)'
             PROVE  Has("result", t, c)'
  BY DEF OrderOK
<1>1. \A n \in DOMAIN events : events[n].id \in Nat
  BY EventTypes DEF JournalInv, JournalTypes
<1>2. \A n \in DOMAIN b : b[n].id \in Nat
  BY EventTypes
<1>3. i \in DOMAIN events' /\ j \in DOMAIN events' BY DEF Stored
<1>4. d \in Calls
  <2>1. CASE j \in DOMAIN events BY <2>1 DEF Extends, JournalInv, ValuesOK
  <2>2. CASE j \notin DOMAIN events
    <3>1. PICK k \in DOMAIN b : events'[j] = b[k] BY <1>3, <2>2 DEF Extends
    <3> QED BY <3>1 DEF AddOK, ValuesOK
  <2> QED BY <2>1, <2>2
<1>5. j \in DOMAIN events
  <2>1. SUFFICES ASSUME j \notin DOMAIN events PROVE FALSE OBVIOUS
  <2>2. PICK l \in DOMAIN b : events'[j] = b[l] BY <1>3, <2>1 DEF Extends
  <2>3. \A n \in DOMAIN events : events[n].id < d BY <2>2 DEF AddOK
  <2>4. \A n \in DOMAIN events : events[n].id # d BY <2>3, <1>1, <1>4, ToolAssumption DEF Calls
  <2>5. ~(ran[d] > 0)
    BY <2>4, <1>4 DEF JournalInv, RanOK, IsRequest, Stored
  <2>6. Asked(d)' BY <2>5 DEF Started
  <2>7. PICK n \in DOMAIN events' : events'[n].kind = "approval" /\ events'[n].id = d
    BY <2>6 DEF Asked
  <2>8. n \notin DOMAIN events BY <2>4, <2>7 DEF Extends
  <2>9. PICK k \in DOMAIN b : events'[n] = b[k] BY <2>7, <2>8 DEF Extends
  <2>10. \E m \in Where("requested", b[k].turn) : events[m].id = d
    BY <2>7, <2>9 DEF AddOK
  <2> QED BY <2>4, <2>10 DEF Where, Stored
<1>6. i \in DOMAIN events
  <2>1. SUFFICES ASSUME i \notin DOMAIN events PROVE FALSE OBVIOUS
  <2>2. PICK l \in DOMAIN b : events'[i] = b[l] BY <1>3, <2>1 DEF Extends
  <2>3. events[j].id < b[l].id BY <2>2, <1>5 DEF AddOK
  <2>4. events[j].id = d /\ b[l].id = c BY <2>2, <1>5 DEF Extends
  <2> QED BY <2>3, <2>4, <1>1, <1>2, <1>5
<1>7. events'[i] = events[i] /\ events'[j] = events[j] /\ i \in Stored /\ j \in Stored
  BY <1>5, <1>6 DEF Extends, Stored
<1>8. i \in Where("requested", t) /\ j \in Where("requested", t)
  BY <1>7 DEF Where
<1>9. Has("result", t, c)
  <2>1. CASE Started(d)
    BY <2>1, <1>7 DEF JournalInv, OrderOK
  <2>2. CASE ~Started(d)
    <3>1. Asked(d)' /\ ~Asked(d) BY <2>2 DEF Started
    <3>2. PICK n \in DOMAIN events' : events'[n].kind = "approval" /\ events'[n].id = d
      BY <3>1 DEF Asked
    <3>3. n \notin DOMAIN events BY <3>1, <3>2 DEF Asked, Extends
    <3>4. PICK k \in DOMAIN b : events'[n] = b[k] BY <3>2, <3>3 DEF Extends
    <3>5. PICK m \in Where("requested", b[k].turn) : events[m].id = d
      BY <3>2, <3>4 DEF AddOK
    <3>6. m = j BY <3>5, <1>7, <1>8, <1>5 DEF Where, Stored, JournalInv, RequestsOK
    <3>7. b[k].turn = t BY <3>5, <3>6, <1>7 DEF Where
    <3>8. b[k].kind = "approval" /\ b[k].id = d BY <3>2, <3>4
    <3>9. events[i].id < b[k].id => Has("result", b[k].turn, events[i].id)
      BY <3>8, <3>7, <1>8 DEF AddOK
    <3> QED BY <3>9, <3>7, <3>8, <1>7
  <2> QED BY <2>1, <2>2
<1> QED BY <1>9, ExtendsKeeps, Monotone

LEMMA AddedRan ==
  ASSUME JournalInv, NEW b \in Seq(EventRecords), AddOK(b), Extends(b), ran' = ran
  PROVE  RanOK'
<1> SUFFICES ASSUME NEW c \in Calls, ran[c] > 0
             PROVE  /\ ran[c] = 1
                    /\ \E i \in Stored' : IsRequest(i, c)'
                    /\ Asked(c)' => Answered(c)'
                    /\ Guarded(c)' => Allowed(c)'
  BY DEF RanOK
<1>1. ran[c] = 1 BY DEF JournalInv, RanOK
<1>2. PICK i \in Stored : IsRequest(i, c) BY DEF JournalInv, RanOK
<1>3. i \in Stored' /\ IsRequest(i, c)'
  BY <1>2 DEF Extends, Stored, IsRequest
<1>4. ASSUME Asked(c)' PROVE Answered(c)'
  <2>1. Asked(c)
    BY <1>4, <1>1 DEF Asked, Extends, AddOK
  <2>2. Answered(c) BY <2>1 DEF JournalInv, RanOK
  <2> QED BY <2>2, ExtendsKeeps, Monotone
<1>5. ASSUME Guarded(c)' PROVE Allowed(c)'
  <2>0. c \in Nat BY ToolAssumption DEF Calls
  <2>1. PICK j \in DOMAIN events' :
          events'[j].kind = "requested" /\ events'[j].id = c /\ events'[j].val = "guarded"
    BY <1>5 DEF Guarded
  <2>2. j \in DOMAIN events
    <3>1. SUFFICES ASSUME j \notin DOMAIN events PROVE FALSE OBVIOUS
    <3>2. PICK l \in DOMAIN b : events'[j] = b[l] BY <3>1 DEF Extends
    <3>3. events[i].id < c BY <3>2, <2>1, <1>2 DEF AddOK, IsRequest
    <3> QED BY <3>3, <1>2, <2>0 DEF IsRequest
  <2>3. Guarded(c) BY <2>1, <2>2 DEF Guarded, Extends
  <2>4. Allowed(c) BY <2>3 DEF JournalInv, RanOK
  <2> QED BY <2>4, ExtendsKeeps, Monotone
<1> QED BY <1>1, <1>3, <1>4, <1>5

LEMMA AddedResponses ==
  ASSUME JournalInv, NEW b \in Seq(EventRecords), AddOK(b), Extends(b),
         \A u \in Users : answering'[u] # 0 =>
           /\ answering'[u] = answering[u]
           /\ \A k \in DOMAIN b : b[k].kind = "response" => b[k].id # answering[u]
  PROVE  ResponsesOK'
<1>1. OneResponse'
  <2> SUFFICES ASSUME NEW i \in DOMAIN events', NEW j \in DOMAIN events',
                      events'[i].kind = "response", events'[j].kind = "response",
                      events'[i].id = events'[j].id
               PROVE  i = j
    BY DEF OneResponse
  <2>1. CASE i \in DOMAIN events /\ j \in DOMAIN events
    BY <2>1 DEF Extends, JournalInv, ResponsesOK, OneResponse
  <2>2. CASE i \notin DOMAIN events /\ j \notin DOMAIN events
    BY <2>2 DEF Extends, AddOK
  <2>3. CASE i \in DOMAIN events /\ j \notin DOMAIN events
    BY <2>3 DEF Extends, AddOK, Answered
  <2>4. CASE i \notin DOMAIN events /\ j \in DOMAIN events
    BY <2>4 DEF Extends, AddOK, Answered
  <2> QED BY <2>1, <2>2, <2>3, <2>4
<1>2. ASSUME NEW c \in Calls, Answered(c)' PROVE Asked(c)'
  <2>1. Asked(c)
    BY <1>2 DEF Answered, Extends, AddOK, JournalInv, ResponsesOK
  <2> QED BY <2>1, ExtendsKeeps, Monotone
<1>3. ASSUME NEW u \in Users, answering'[u] # 0
      PROVE  /\ ~Answered(answering[u])'
             /\ \A v \in Users : answering'[v] # 0 => v = u
  <2>1. ~Answered(answering[u]) /\ \A v \in Users : answering[v] # 0 => v = u
    BY <1>3 DEF JournalInv, ResponsesOK
  <2>2. \A v \in Users : answering'[v] # 0 => v = u
    BY <2>1
  <2>3. ~Answered(answering[u])'
    BY <2>1, <1>3 DEF Answered, Extends
  <2> QED BY <2>2, <2>3
<1> QED BY <1>1, <1>2, <1>3 DEF ResponsesOK

LEMMA JournalGrows ==
  ASSUME JournalInv, NEW b \in Seq(EventRecords), AddOK(b), events' = events \o b,
         ran' = ran, issued' = issued,
         answering' \in [Users -> 0..MaxCalls],
         \A u \in Users : answering'[u] # 0 =>
           /\ answering'[u] = answering[u]
           /\ \A k \in DOMAIN b : b[k].kind = "response" => b[k].id # answering[u],
         late' \subseteq DOMAIN events', turn' \in 1..MaxTurns,
         flight' \in Seq(EventRecords), ValuesOK(flight'), TurnsOK'
  PROVE  JournalInv'
<1>1. events' \in Seq(EventRecords) /\ Extends(b)
  BY AppendExtends DEF JournalInv, JournalTypes
<1>2. JournalTypes'
  BY <1>1 DEF JournalInv, JournalTypes
<1>3. RequestsOK' /\ ValuesOK(events)' BY <1>1, AddedRequests
<1>4. OrderOK' BY <1>1, AddedOrder
<1>5. RanOK' BY <1>1, AddedRan
<1>6. ResponsesOK' BY <1>1, AddedResponses
<1> QED BY <1>2, <1>3, <1>4, <1>5, <1>6 DEF JournalInv

LEMMA JournalKept ==
  ASSUME JournalInv, events' = events, late' \subseteq late, turn' = turn, answering' = answering,
         ran' = ran, issued' \in issued .. MaxCalls,
         flight' \in Seq(EventRecords), ValuesOK(flight'), TurnsOK'
  PROVE  JournalInv'
<1>1. JournalTypes'
  BY ToolAssumption DEF JournalInv, JournalTypes
<1>2. RequestsOK'
  <2>1. \A i \in DOMAIN events : events[i].id \in Nat
    BY EventTypes DEF JournalInv, JournalTypes
  <2>2. issued \in Nat /\ issued' \in Nat /\ issued <= issued'
    BY ToolAssumption DEF JournalInv, JournalTypes
  <2>3. \A i \in DOMAIN events : events[i].id <= issued'
    BY <2>1, <2>2 DEF JournalInv, RequestsOK
  <2> QED BY <2>3 DEF JournalInv, RequestsOK, Where, Stored
<1>3. OrderOK'
  BY DEF JournalInv, OrderOK, Has, Where, Stored, Started, Asked
<1>4. RanOK'
  BY DEF JournalInv, RanOK, IsRequest, Stored, Asked, Answered, Guarded, Allowed
<1>5. ResponsesOK'
  BY DEF JournalInv, ResponsesOK, OneResponse, Asked, Answered
<1>6. ValuesOK(events)'
  BY DEF JournalInv, ValuesOK
<1> QED BY <1>1, <1>2, <1>3, <1>4, <1>5, <1>6 DEF JournalInv

LEMMA TurnsKept ==
  ASSUME TurnsOK, events' = events, late' = late \/ late' = {}, turn' = turn,
         work \notin {"stopping", "idle"}, work' # "accepted"
  PROVE  TurnsOK'
<1>1. \A i \in late : events[i].turn < turn BY DEF TurnsOK
<1> QED BY <1>1 DEF TurnsOK

LEMMA EmptyFlight ==
  ASSUME flight' = <<>>
  PROVE  flight' \in Seq(EventRecords) /\ ValuesOK(flight')
<1>1. DOMAIN flight' = {} OBVIOUS
<1> QED BY <1>1 DEF ValuesOK

\* Nothing is executed.
LEMMA AtRest ==
  ASSUME events' \in Seq(EventRecords), exec' = NoExec, flight' = <<>>, pendingTools' = {},
         suspending' = FALSE, work' \in {"accepted", "stopping", "resting", "idle"},
         outcome' \in {"none", "completed", "failed", "cancelled", "interrupted", "suspended"},
         stop' \in {"none", "suspend", "cancel", "shutdown"}
  PROVE  ExecInv'
<1>0. NoExec \in ExecRecords /\ NoExec.at = "none" /\ NoExec.after = 0 /\ NoExec.todo = {}
      /\ NoExec.resume = FALSE
  BY ToolAssumption DEF NoExec, ExecRecords, NoCall
<1>1. HarnessTypes'
  <2>1. Len(events') \in Nat OBVIOUS
  <2>2. exec' \in ExecRecords /\ exec'.after <= Len(events') BY <1>0, <2>1
  <2>3. work' \in {"accepted", "active", "stopping", "resting", "idle"} OBVIOUS
  <2> QED BY <2>2, <2>3 DEF HarnessTypes
<1>2. AtOK' BY <1>0 DEF AtOK, InCall, NoCall
<1>3. FlightOK' BY DEF FlightOK
<1>4. PendingOK' BY <1>0 DEF PendingOK
<1>5. TodoOK' BY <1>0 DEF TodoOK, InCall
<1> QED BY <1>1, <1>2, <1>3, <1>4, <1>5 DEF ExecInv

LEMMA ReturnStep ==
  ASSUME ToolInv, work = "active", NEW o, Return(o),
         o \in {"completed", "failed", "cancelled", "interrupted", "suspended"},
         UNCHANGED <<journal, turn, stop, answering, ran, issued>>
  PROVE  ToolInv'
<1>1. ExecInv'
  <2>1. events' \in Seq(EventRecords) BY DEF ToolInv, JournalInv, JournalTypes, journal
  <2> QED BY <2>1, AtRest DEF Return, ToolInv, ExecInv, HarnessTypes
<1>2. JournalInv'
  <2>1. TurnsOK' BY TurnsKept DEF ToolInv, JournalInv, Return, journal
  <2>2. issued' \in issued .. MaxCalls
    BY ToolAssumption DEF ToolInv, JournalInv, JournalTypes
  <2> QED BY <2>1, <2>2, EmptyFlight, JournalKept DEF ToolInv, Return, journal
<1> QED BY <1>1, <1>2 DEF ToolInv

LEMMA SameQueries ==
  ASSUME events' = events
  PROVE  /\ \A t : Unresolved(t)' = Unresolved(t)
         /\ \A c : /\ Asked(c)' <=> Asked(c)
                   /\ Answered(c)' <=> Answered(c)
                   /\ Guarded(c)' <=> Guarded(c)
                   /\ Allowed(c)' <=> Allowed(c)
         /\ ran' = ran => \A c : Started(c)' <=> Started(c)
         /\ turn' = turn => \A c : Responses(c)' = Responses(c)
BY DEF Unresolved, Has, Where, Stored, Asked, Answered, Guarded, Allowed, Started, Responses

\* An append without requests and results leaves open what was open.
LEMMA UnresolvedKept ==
  ASSUME NEW b, Extends(b), NEW t,
         \A k \in DOMAIN b : b[k].kind \notin {"requested", "result"}
  PROVE  Unresolved(t)' = Unresolved(t)
<1>1. Where("requested", t)' = Where("requested", t)
  BY DEF Extends, Where, Stored
<1>2. Where("result", t)' = Where("result", t)
  BY DEF Extends, Where, Stored
<1>3. \A i \in Where("requested", t) \cup Where("result", t) : events'[i] = events[i]
  BY DEF Extends, Where, Stored
<1>4. \A c : Has("result", t, c)' <=> Has("result", t, c)
  BY <1>2, <1>3 DEF Has
<1> QED BY <1>1, <1>3, <1>4 DEF Unresolved

\* What update_pending_tools computes is what the journal says.
LEMMA UnresolvedLanded ==
  ASSUME JournalInv, NEW b \in Seq(EventRecords), AddOK(b), Extends(b), NEW t,
         \A k \in DOMAIN b : b[k].turn = t /\ b[k].stored
  PROVE  Unresolved(t)' = (Unresolved(t) \cup IdsOf(b, "requested")) \ IdsOf(b, "result")
<1>0. \A n \in DOMAIN events : events[n].id \in Nat
  BY EventTypes DEF JournalInv, JournalTypes
<1>1. ASSUME NEW K, NEW c
      PROVE  Has(K, t, c)' <=> Has(K, t, c) \/ c \in IdsOf(b, K)
  <2>1. ASSUME Has(K, t, c) PROVE Has(K, t, c)'
    BY <2>1, ExtendsKeeps, Monotone
  <2>2. ASSUME c \in IdsOf(b, K) PROVE Has(K, t, c)'
    <3>1. PICK k \in DOMAIN b : b[k].kind = K /\ b[k].id = c BY <2>2 DEF IdsOf
    <3>2. /\ Len(events) + k \in DOMAIN events' /\ events'[Len(events) + k] = b[k]
      BY DEF Extends
    <3>3. Len(events) + k \in Where(K, t)' BY <3>1, <3>2 DEF Where, Stored
    <3> QED BY <3>1, <3>2, <3>3 DEF Has
  <2>3. ASSUME Has(K, t, c)', ~Has(K, t, c) PROVE c \in IdsOf(b, K)
    <3>1. PICK i \in Where(K, t)' : events'[i].id = c BY <2>3 DEF Has
    <3>2. i \in DOMAIN events' /\ events'[i].kind = K /\ events'[i].turn = t /\ events'[i].stored
      BY DEF Where, Stored
    <3>3. i \notin DOMAIN events
      BY <2>3, <3>1, <3>2 DEF Extends, Has, Where, Stored
    <3>4. PICK k \in DOMAIN b : events'[i] = b[k] BY <3>2, <3>3 DEF Extends
    <3> QED BY <3>1, <3>2, <3>4 DEF IdsOf
  <2> QED BY <2>1, <2>2, <2>3
<1>2. ASSUME NEW c
      PROVE  c \in Unresolved(t) <=> Has("requested", t, c) /\ ~Has("result", t, c)
  BY DEF Unresolved, Has
<1>3. ASSUME NEW c
      PROVE  c \in Unresolved(t)' <=> Has("requested", t, c)' /\ ~Has("result", t, c)'
  BY DEF Unresolved, Has
<1>4. ASSUME NEW c \in IdsOf(b, "requested") PROVE ~Has("result", t, c)
  <2>1. PICK k \in DOMAIN b : b[k].kind = "requested" /\ b[k].id = c BY DEF IdsOf
  <2>2. \A i \in DOMAIN events : events[i].id < c BY <2>1 DEF AddOK
  <2>3. b[k].id \in Nat BY EventTypes
  <2>4. \A i \in DOMAIN events : events[i].id # c BY <2>1, <2>2, <2>3, <1>0
  <2> QED BY <2>4 DEF Has, Where, Stored
<1>5. ASSUME NEW c
      PROVE  c \in Unresolved(t)'
               <=> c \in (Unresolved(t) \cup IdsOf(b, "requested")) \ IdsOf(b, "result")
  BY <1>1, <1>2, <1>3, <1>4
<1> QED BY <1>5

LEMMA IdsOfOne ==
  ASSUME NEW K, NEW e
  PROVE  IdsOf(<<e>>, K) = IF e.kind = K THEN {e.id} ELSE {}
<1>1. DOMAIN <<e>> = {1} /\ <<e>>[1] = e OBVIOUS
<1>2. {j \in DOMAIN <<e>> : <<e>>[j].kind = K} = IF e.kind = K THEN {1} ELSE {}
  BY <1>1
<1> QED BY <1>1, <1>2 DEF IdsOf

LEMMA IdsOfNone ==
  ASSUME NEW K
  PROVE  IdsOf(<<>>, K) = {}
<1>1. DOMAIN <<>> = {} OBVIOUS
<1> QED BY <1>1 DEF IdsOf

LEMMA EvTyped ==
  ASSUME turn \in 1..MaxTurns, NEW K \in EventKinds, NEW c \in 0..MaxCalls, NEW v \in Vals
  PROVE  /\ Ev(K, c, v) \in EventRecords
         /\ Ev(K, c, v).kind = K /\ Ev(K, c, v).turn = turn /\ Ev(K, c, v).id = c
         /\ Ev(K, c, v).val = v /\ Ev(K, c, v).stored = TRUE
BY DEF Ev, EventRecords

\* An open call of the turn has its request in the journal.
LEMMA UnresolvedIs ==
  ASSUME NEW t, NEW c
  PROVE  c \in Unresolved(t) <=> Has("requested", t, c) /\ ~Has("result", t, c)
BY DEF Unresolved, Has

\* The calls of the round are open: those before the first have their results.
LEMMA CallOpen ==
  ASSUME ToolInv, work = "active", exec.at \in InCall,
         \A K \in {"requested", "result"} : IdsOf(flight, K) = {}
  PROVE  /\ Call \in exec.todo /\ Call \in Calls
         /\ exec.todo = Unresolved(turn) /\ exec.todo = pendingTools
         /\ \E j \in Where("requested", turn) : events[j].id = Call
         /\ \A i \in Where("requested", turn) :
              events[i].id < Call => Has("result", turn, events[i].id)
<1>1. exec.todo = pendingTools /\ exec.todo = Unresolved(turn)
  BY DEF ToolInv, ExecInv, PendingOK, UpdatePendingTools, InCall
<1>2. exec.todo \subseteq Calls /\ exec.todo # {}
  BY DEF ToolInv, ExecInv, HarnessTypes, AtOK, ExecRecords
<1>3. Call \in exec.todo /\ \A d \in exec.todo : Call <= d
  BY <1>2, FirstIn DEF Call
<1>4. \E j \in Where("requested", turn) : events[j].id = Call
  BY <1>1, <1>3, UnresolvedIs DEF Has
<1>5. ASSUME NEW i \in Where("requested", turn), events[i].id < Call
      PROVE  Has("result", turn, events[i].id)
  <2>1. SUFFICES ASSUME ~Has("result", turn, events[i].id) PROVE FALSE OBVIOUS
  <2>2. events[i].id \in exec.todo BY <2>1, <1>1 DEF Unresolved
  <2>3. Call <= events[i].id BY <2>2, <1>3
  <2>4. Call \in Nat /\ events[i].id \in Nat BY <1>2, <1>3, <2>2, ToolAssumption DEF Calls
  <2> QED BY <1>5, <2>3, <2>4
<1> QED BY <1>1, <1>2, <1>3, <1>4, <1>5

\* A batch like the append in flight.
SameEvents(b) ==
  /\ DOMAIN b = DOMAIN flight
  /\ \A k \in DOMAIN b : /\ b[k].kind = flight[k].kind /\ b[k].turn = flight[k].turn
                         /\ b[k].id = flight[k].id /\ b[k].val = flight[k].val

\* The executor appends no response, and an approval only before it watches for one.
LEMMA FlightKinds ==
  ASSUME FlightOK
  PROVE  \A k \in DOMAIN flight :
           /\ flight[k].kind # "response"
           /\ flight[k].kind = "approval" =>
                exec.at = "watch" /\ flight[k].id = Call /\ ~Started(Call)
<1> SUFFICES ASSUME NEW k \in DOMAIN flight
             PROVE  /\ flight[k].kind # "response"
                    /\ flight[k].kind = "approval" =>
                         exec.at = "watch" /\ flight[k].id = Call /\ ~Started(Call)
  OBVIOUS
<1>1. ASSUME NEW K, NEW c, NEW v, flight = <<Ev(K, c, v)>>
      PROVE flight[k].kind = K /\ flight[k].id = c
  <2>1. DOMAIN flight = {1} /\ flight[1] = Ev(K, c, v) BY <1>1
  <2> QED BY <2>1 DEF Ev
<1>2. CASE flight = <<>> BY <1>2
<1>3. CASE flight = <<Ev("completed", 0, 0)>> BY <1>1, <1>3
<1>4. CASE exec.at = "watch" /\ ~Started(Call) /\ flight = <<Ev("approval", Call, exec.round)>>
  BY <1>1, <1>4
<1>5. CASE \E c \in pendingTools : flight = <<Ev("result", c, 0)>> BY <1>1, <1>5
<1>6. CASE flight[k].kind \in {"round", "requested"} BY <1>6
<1> QED BY <1>2, <1>3, <1>4, <1>5, <1>6 DEF FlightOK

LEMMA FlightAdds ==
  ASSUME ToolInv, work = "active", NEW b \in Seq(EventRecords), SameEvents(b)
  PROVE  AddOK(b)
<1>0. /\ FlightOK /\ JournalTypes /\ HarnessTypes /\ RequestsOK /\ ValuesOK(flight)
      /\ turn \in 1..MaxTurns /\ 0 \in 0..MaxCalls /\ 0 \in Vals /\ issued \in Nat
  BY ToolAssumption DEF ToolInv, ExecInv, JournalInv, JournalTypes, Vals
<1>1. \A k \in DOMAIN flight : flight[k].kind # "response"
  BY FlightKinds DEF ToolInv, ExecInv
<1>2. ValuesOK(b) BY <1>0, <1>1 DEF ValuesOK, SameEvents
<1>3. CASE flight = <<>>
  BY <1>2, <1>3 DEF AddOK, SameEvents
<1>4. CASE /\ exec.at = "authorize"
           /\ \A k \in DOMAIN flight :
                /\ flight[k].kind \in {"round", "requested"}
                /\ flight[k].kind = "round" => flight[k].id = 0
                /\ flight[k].kind = "requested" =>
                     /\ flight[k].id <= issued
                     /\ \A i \in DOMAIN events : events[i].id < flight[k].id
                     /\ \A l \in DOMAIN flight :
                          flight[l].kind = "requested" /\ flight[l].id = flight[k].id => l = k
  BY <1>0, <1>2, <1>4 DEF AddOK, SameEvents
<1>5. ASSUME NEW K \in EventKinds, NEW c \in 0..MaxCalls, NEW v \in Vals, flight = <<Ev(K, c, v)>>
      PROVE  DOMAIN b = {1} /\ b[1].kind = K /\ b[1].id = c /\ b[1].turn = turn
  <2>1. DOMAIN flight = {1} /\ flight[1] = Ev(K, c, v) BY <1>5
  <2>2. flight[1].kind = K /\ flight[1].id = c /\ flight[1].turn = turn BY <2>1 DEF Ev
  <2> QED BY <2>1, <2>2 DEF SameEvents
<1>6. CASE flight = <<Ev("completed", 0, 0)>>
  <2>1. DOMAIN b = {1} /\ b[1].kind = "completed" /\ b[1].id = 0
    BY <1>0, <1>5, <1>6 DEF EventKinds
  <2> QED BY <2>1, <1>0, <1>2 DEF AddOK
<1>7. CASE exec.at = "watch" /\ ~Started(Call) /\ flight = <<Ev("approval", Call, exec.round)>>
  <2>1. \A K \in {"requested", "result"} : IdsOf(flight, K) = {}
    BY <1>7, IdsOfOne DEF Ev
  <2>2. /\ Call \in Calls
        /\ \E j \in Where("requested", turn) : events[j].id = Call
        /\ \A i \in Where("requested", turn) :
             events[i].id < Call => Has("result", turn, events[i].id)
    BY <2>1, <1>7, CallOpen DEF InCall
  <2>3. exec.round \in Vals /\ Call \in 0..MaxCalls
    BY <1>7, <2>2, ToolAssumption
       DEF ToolInv, ExecInv, HarnessTypes, AtOK, InCall, ExecRecords, Vals, Calls
  <2>4. DOMAIN b = {1} /\ b[1].kind = "approval" /\ b[1].id = Call /\ b[1].turn = turn
    BY <1>5, <1>7, <2>3 DEF EventKinds
  <2>5. ran[Call] = 0 BY <1>7, <1>0, <2>2 DEF Started, JournalTypes
  <2>6. Call <= issued BY <2>2, <1>0 DEF RequestsOK, Where, Stored
  <2> QED BY <2>2, <2>4, <2>5, <2>6, <1>2 DEF AddOK
<1>8. ASSUME NEW c \in pendingTools, flight = <<Ev("result", c, 0)>>, exec.at # "restore"
      PROVE  AddOK(b)
  <2>1. c \in Unresolved(turn) /\ c \in 0..MaxCalls
    BY <1>8, ToolAssumption DEF ToolInv, ExecInv, PendingOK, HarnessTypes, Calls
  <2>2. \E j \in Where("requested", turn) : events[j].id = c
    BY <2>1, UnresolvedIs DEF Has
  <2>3. DOMAIN b = {1} /\ b[1].kind = "result" /\ b[1].id = c /\ b[1].turn = turn
    BY <1>0, <1>5, <1>8, <2>1 DEF EventKinds
  <2>4. c <= issued BY <2>2, <1>0 DEF RequestsOK, Where, Stored
  <2> QED BY <2>2, <2>3, <2>4, <1>2 DEF AddOK
<1> QED BY <1>0, <1>3, <1>4, <1>6, <1>7, <1>8 DEF FlightOK

--------------------------------------------------------------------------------
\* The steps

LEMMA LandedStep ==
  ASSUME ToolInv, Landed
  PROVE  ToolInv'
<1>0. /\ JournalInv /\ JournalTypes /\ ExecInv /\ HarnessTypes /\ FlightOK /\ PendingOK /\ AtOK
      /\ TodoOK /\ work = "active" /\ flight # <<>>
      /\ UNCHANGED <<late, turn, work, outcome, stop, suspending, answering, ran, issued>>
  BY DEF ToolInv, JournalInv, ExecInv, Landed, harness, toolBounds
<1>1. flight \in Seq(EventRecords) /\ events' = events \o flight
  BY <1>0 DEF JournalTypes, Landed
<1>2. AddOK(flight) BY <1>0, <1>1, FlightAdds DEF SameEvents
<1>3. /\ events' \in Seq(EventRecords) /\ Extends(flight)
      /\ Len(events) \in Nat /\ Len(events') \in Nat /\ Len(events') >= Len(events)
  <2>1. Len(flight) \in Nat /\ Len(events) \in Nat BY <1>0, <1>1 DEF JournalTypes
  <2>2. /\ events' \in Seq(EventRecords) /\ Extends(flight)
        /\ Len(events') = Len(events) + Len(flight)
    BY <1>0, <1>1, AppendExtends DEF JournalTypes
  <2> QED BY <2>1, <2>2
<1>4. TurnsOK'
  <2>1. TurnsOK /\ \A i \in late : events[i].turn < turn BY <1>0 DEF JournalInv, TurnsOK
  <2>2. \A k \in DOMAIN flight : flight[k].turn = turn BY <1>0 DEF FlightOK
  <2>3. late \subseteq DOMAIN events /\ turn \in Nat BY <1>0, ToolAssumption DEF JournalTypes
  <2>4. \A i \in DOMAIN events' : events'[i].turn <= turn
    BY <2>1, <2>2, <2>3, <1>3 DEF TurnsOK, Extends
  <2>5. \A i \in late : events'[i] = events[i] BY <2>3, <1>3 DEF Extends
  <2>6. ASSUME NEW i \in late, events'[i].kind = "requested", NEW j \in DOMAIN events' \ late,
               events'[j].kind = "requested", events'[j].turn = events'[i].turn
        PROVE events'[j].id < events'[i].id
    <3>1. j \in DOMAIN events
      BY <2>1, <2>2, <2>3, <2>5, <2>6, <1>3 DEF Extends
    <3> QED BY <3>1, <2>1, <2>5, <2>6, <1>3 DEF Extends, TurnsOK
  <2> QED BY <1>0, <2>1, <2>4, <2>5, <2>6 DEF TurnsOK
<1>5. JournalInv'
  <2>1. late' \subseteq DOMAIN events' BY <1>0, <1>3 DEF JournalTypes, Extends
  <2>2. flight' \in Seq(EventRecords) /\ ValuesOK(flight') BY EmptyFlight DEF Landed
  <2>3. \A k \in DOMAIN flight : flight[k].kind # "response" BY <1>0, FlightKinds
  <2> QED BY <1>0, <1>1, <1>2, <1>4, <2>1, <2>2, <2>3, JournalGrows DEF JournalTypes
<1>6. /\ exec' \in ExecRecords /\ exec'.after <= Len(events')
      /\ exec'.at = exec.at /\ exec'.todo = exec.todo /\ exec'.resume = exec.resume
      /\ exec'.round = exec.round
  <2>1. /\ exec \in ExecRecords /\ exec.after \in Nat /\ exec.after <= Len(events)
        /\ exec' = IF exec.at = "watch" THEN [exec EXCEPT !.after = Len(events')] ELSE exec
    BY <1>0 DEF Landed, HarnessTypes, ExecRecords
  <2>2. CASE exec.at = "watch" BY <2>1, <2>2, <1>3 DEF ExecRecords
  <2>3. CASE exec.at # "watch" BY <2>1, <2>3, <1>3
  <2> QED BY <2>2, <2>3
<1>7. /\ exec.at \in {"authorize", "return", "watch", "model"}
      /\ flight' = <<>> /\ pendingTools' = UpdatePendingTools(flight)
      /\ pendingTools' = exec.todo
  BY <1>0 DEF FlightOK, PendingOK, Landed
<1>8. Unresolved(turn)' = pendingTools'
  <2>1. \A t : t = turn => \A k \in DOMAIN flight : flight[k].turn = t /\ flight[k].stored
    BY <1>0 DEF FlightOK
  <2>2. \A t : t = turn =>
          Unresolved(t)' = (Unresolved(t) \cup IdsOf(flight, "requested")) \ IdsOf(flight, "result")
    BY <2>1, <1>0, <1>1, <1>2, <1>3, UnresolvedLanded
  <2>3. PICK t : t = turn OBVIOUS
  <2>4. Unresolved(t)' = Unresolved(turn)' BY <2>3, <1>0 DEF Unresolved, Where, Has
  <2>5. pendingTools = Unresolved(turn) BY <1>0, <1>7 DEF PendingOK
  <2> QED BY <2>2, <2>3, <2>4, <2>5, <1>7 DEF UpdatePendingTools
<1>9. HarnessTypes'
  <2>1. exec.todo \subseteq Calls BY <1>0 DEF HarnessTypes, ExecRecords
  <2> QED BY <1>0, <1>6, <1>7, <2>1 DEF HarnessTypes
<1>10. AtOK' BY <1>0, <1>6 DEF AtOK
<1>11. FlightOK' BY <1>7 DEF FlightOK
<1>12. PendingOK'
  <2>1. UpdatePendingTools(flight)' = pendingTools'
    BY <1>7, IdsOfNone DEF UpdatePendingTools
  <2> QED BY <2>1, <1>0, <1>6, <1>7, <1>8 DEF PendingOK
<1>13. TodoOK'
  <2> SUFFICES ASSUME NEW q \in exec'.todo, exec'.at \in InCall, q = Call'
               PROVE  TodoAt(q)'
    BY DEF TodoOK
  <2>0. q = Call /\ q \in exec.todo /\ exec.at \in {"authorize", "watch"} /\ TodoAt(q)
    BY <1>0, <1>6, <1>7 DEF TodoOK, Call, InCall
  <2>1. ASSUME NEW c, Started(c)', ~Started(c) PROVE exec.at = "watch" /\ c = q
    <3>1. Asked(c)' /\ ~Asked(c) BY <2>1, <1>0 DEF Started
    <3>2. PICK n \in DOMAIN events' : events'[n].kind = "approval" /\ events'[n].id = c
      BY <3>1 DEF Asked
    <3>3. n \notin DOMAIN events BY <3>1, <3>2, <1>3 DEF Asked, Extends
    <3>4. PICK k \in DOMAIN flight : events'[n] = flight[k] BY <3>2, <3>3, <1>3 DEF Extends
    <3> QED BY <2>0, <3>2, <3>4, <1>0, FlightKinds
  <2>2. ASSUME exec.at = "watch" PROVE Responses(q)' = {}
    <3>1. ~Asked(q) BY <2>0, <2>2, <1>0 DEF FlightOK, Started
    <3>2. q \in Calls BY <1>0, <2>0 DEF HarnessTypes, ExecRecords
    <3>3. ~Answered(q) BY <1>0, <3>1, <3>2 DEF JournalInv, ResponsesOK
    <3>4. \A k \in DOMAIN flight : flight[k].kind # "response" BY <1>0, FlightKinds
    <3>5. ~Answered(q)' BY <3>3, <3>4, <1>3 DEF Answered, Extends
    <3> QED BY <3>5 DEF Answered, Responses, Where, Stored
  <2> QED BY <2>0, <2>1, <2>2, <1>0, <1>6 DEF TodoAt
<1> QED BY <1>5, <1>9, <1>10, <1>11, <1>12, <1>13 DEF ToolInv, ExecInv

\* The journal while the executor goes on without it.
LEMMA JournalActive ==
  ASSUME ToolInv, work = "active", work' # "accepted",
         UNCHANGED <<journal, turn, answering, ran>>, issued' \in issued .. MaxCalls,
         flight' \in Seq(EventRecords), ValuesOK(flight')
  PROVE  JournalInv'
<1>1. TurnsOK' BY TurnsKept DEF ToolInv, JournalInv, journal
<1> QED BY <1>1, JournalKept DEF ToolInv, journal

LEMMA IssuedSame ==
  ASSUME ToolInv, issued' = issued
  PROVE  issued' \in issued .. MaxCalls
BY ToolAssumption DEF ToolInv, JournalInv, JournalTypes

LEMMA OneFlight ==
  ASSUME turn \in 1..MaxTurns, NEW K \in {"completed", "result", "approval"},
         NEW c \in 0..MaxCalls, NEW v \in 0..Limit, flight' = <<Ev(K, c, v)>>
  PROVE  flight' \in Seq(EventRecords) /\ ValuesOK(flight')
<1>1. /\ Ev(K, c, v) \in EventRecords /\ Ev(K, c, v).kind = K /\ Ev(K, c, v).val = v
  BY DEF Ev, EventRecords, EventKinds, Vals
<1>2. DOMAIN flight' = {1} /\ flight'[1] = Ev(K, c, v) OBVIOUS
<1>3. flight' \in Seq(EventRecords) BY <1>1
<1>4. ValuesOK(flight') BY <1>1, <1>2 DEF ValuesOK
<1> QED BY <1>3, <1>4

LEMMA Polls ==
  ASSUME ToolInv, NEW at, Polled(at)
  PROVE  /\ work = "active" /\ exec.at = at /\ flight = <<>>
         /\ exec \in ExecRecords /\ exec.after \in Nat /\ exec.after <= Len(events)
         /\ exec.todo \subseteq Calls /\ exec.round \in 0..Limit + 1 /\ exec.resume \in BOOLEAN
         /\ at # "restore" => pendingTools = Unresolved(turn)
         /\ at \notin {"restore", "load"} => exec.todo = pendingTools
<1>1. work = "active" /\ exec.at = at /\ flight = <<>> BY DEF Polled
<1>2. UpdatePendingTools(flight) = pendingTools BY <1>1, IdsOfNone DEF UpdatePendingTools
<1> QED BY <1>1, <1>2 DEF ToolInv, ExecInv, PendingOK, HarnessTypes, ExecRecords

LEMMA AppendErrorStep ==
  ASSUME ToolInv, AppendError
  PROVE  ToolInv'
<1>0. work = "active" /\ flight # <<>> /\ UNCHANGED <<journal, turn, stop, answering, ran, issued>>
  BY DEF AppendError
<1>1. CASE exec.at # "watch" /\ Return("failed") BY <1>0, <1>1, ReturnStep
<1>2. CASE /\ exec.at = "watch" /\ flight' = <<>> /\ exec' = [exec EXCEPT !.at = "result"]
           /\ UNCHANGED <<work, outcome, pendingTools, suspending>>
  <2>1. JournalInv' BY <1>0, <1>2, EmptyFlight, IssuedSame, JournalActive
  <2>2. /\ exec \in ExecRecords /\ exec' \in ExecRecords /\ exec'.at = "result"
        /\ exec'.after = exec.after /\ exec'.todo = exec.todo /\ exec'.round = exec.round
        /\ exec'.resume = exec.resume
    BY <1>2 DEF ToolInv, ExecInv, HarnessTypes, ExecRecords, InCall
  <2>3. HarnessTypes' BY <1>0, <1>2, <2>2 DEF ToolInv, ExecInv, HarnessTypes, journal
  <2>4. AtOK' BY <1>0, <1>2, <2>2 DEF ToolInv, ExecInv, AtOK, InCall, NoCall
  <2>5. FlightOK' BY <1>2 DEF FlightOK
  <2>6. PendingOK'
    <3>1. flight = <<Ev("approval", Call, exec.round)>>
      BY <1>0, <1>2 DEF ToolInv, ExecInv, FlightOK
    <3>2. UpdatePendingTools(flight) = pendingTools
      BY <3>1, IdsOfOne DEF UpdatePendingTools, Ev
    <3>3. UpdatePendingTools(flight)' = pendingTools
      BY <1>2, IdsOfNone DEF UpdatePendingTools
    <3>4. Unresolved(turn)' = Unresolved(turn)
      BY <1>0 DEF journal, Unresolved, Where, Has, Stored
    <3> QED BY <1>0, <1>2, <2>2, <3>2, <3>3, <3>4 DEF ToolInv, ExecInv, PendingOK
  <2>7. TodoOK'
    <3> SUFFICES ASSUME NEW q \in exec'.todo, q = Call' PROVE TodoAt(q)' BY DEF TodoOK
    <3>1. TodoAt(q) BY <1>2, <2>2 DEF ToolInv, ExecInv, TodoOK, Call, InCall
    <3>2. \A c : Started(c)' <=> Started(c) BY <1>0, SameQueries DEF journal
    <3> QED BY <2>2, <3>1, <3>2 DEF TodoAt
  <2> QED BY <2>1, <2>3, <2>4, <2>5, <2>6, <2>7 DEF ToolInv, ExecInv
<1> QED BY <1>1, <1>2 DEF AppendError

LEMMA UnresolvedTyped ==
  ASSUME JournalInv, NEW t
  PROVE  Unresolved(t) \subseteq Calls
BY DEF JournalInv, ValuesOK, Unresolved, Where, Stored

LEMMA RestoreStep ==
  ASSUME ToolInv, RestoreRecoveryTools
  PROVE  ToolInv'
<1>0. Polled("restore") /\ UNCHANGED <<journal, turn, stop, answering, ran, issued>>
  BY DEF RestoreRecoveryTools, toolBounds
<1>1. CASE Return("failed") BY <1>0, <1>1, ReturnStep DEF Polled
<1>2. CASE /\ pendingTools' = Restored(turn) /\ exec' = [exec EXCEPT !.at = "load"]
           /\ UNCHANGED <<flight, suspending, work, outcome>>
  <2>0. /\ work = "active" /\ exec.at = "restore" /\ flight' = <<>> /\ exec \in ExecRecords
        /\ events' = events /\ turn' = turn
    BY <1>0, <1>2, Polls DEF journal
  <2>1. JournalInv' BY <1>0, <1>2, <2>0, EmptyFlight, IssuedSame, JournalActive
  <2>2. /\ exec' \in ExecRecords /\ exec'.at = "load"
        /\ exec'.after = exec.after /\ exec'.todo = exec.todo /\ exec'.resume = exec.resume
    BY <1>2, <2>0 DEF ExecRecords, NoCall
  <2>3. pendingTools' = Unresolved(turn)' /\ pendingTools' \subseteq Calls
    <3>1. Unresolved(turn)' = Unresolved(turn)
      BY <2>0 DEF Unresolved, Where, Has, Stored
    <3> QED BY <1>2, <3>1, UnresolvedTyped DEF Restored, ToolInv
  <2>4. HarnessTypes' BY <1>0, <1>2, <2>0, <2>2, <2>3 DEF ToolInv, ExecInv, HarnessTypes
  <2>5. AtOK' BY <1>2, <2>0, <2>2 DEF ToolInv, ExecInv, AtOK, InCall, NoCall
  <2>6. FlightOK' BY <2>0 DEF FlightOK
  <2>7. PendingOK' BY <2>0, <2>2, <2>3 DEF PendingOK
  <2>8. TodoOK' BY <2>2 DEF TodoOK, InCall
  <2> QED BY <2>1, <2>4, <2>5, <2>6, <2>7, <2>8 DEF ToolInv, ExecInv
<1> QED BY <1>1, <1>2 DEF RestoreRecoveryTools

\* The executor goes on and appends nothing.
LEMMA ExecMoves ==
  ASSUME ToolInv, work = "active", flight = <<>>, exec.at # "restore",
         UNCHANGED <<journal, turn, work, outcome, stop, suspending, pendingTools, flight,
                     answering, ran, issued>>,
         exec' \in ExecRecords, exec'.after <= Len(events), exec'.todo = pendingTools,
         exec'.at \notin {"none", "restore", "load"},
         exec'.at \in NoCall => exec'.todo = {} /\ ~exec'.resume,
         exec'.at \in InCall => exec'.todo # {},
         exec'.at \in InCall \cup {"answer"} => exec'.round <= Limit,
         \A q \in exec'.todo : exec'.at \in InCall /\ q = Call' => TodoAt(q)'
  PROVE  ToolInv'
<1>1. JournalInv' BY EmptyFlight, IssuedSame, JournalActive
<1>2. HarnessTypes' BY DEF ToolInv, ExecInv, HarnessTypes, journal
<1>3. AtOK' BY DEF AtOK, InCall, NoCall
<1>4. FlightOK' BY DEF FlightOK
<1>5. PendingOK'
  <2>1. UpdatePendingTools(flight)' = pendingTools BY IdsOfNone DEF UpdatePendingTools
  <2>2. Unresolved(turn)' = Unresolved(turn)
    BY DEF journal, Unresolved, Where, Has, Stored
  <2> QED BY <2>1, <2>2 DEF ToolInv, ExecInv, PendingOK
<1>6. TodoOK' BY DEF TodoOK
<1> QED BY <1>1, <1>2, <1>3, <1>4, <1>5, <1>6 DEF ToolInv, ExecInv

LEMMA LastRoundIs ==
  ASSUME JournalInv, NEW t, SavedRounds(t) # {}
  PROVE  LastRound(t) \in 0..Limit
<1>1. SavedRounds(t) \subseteq 0..Limit
  BY DEF JournalInv, ValuesOK, SavedRounds, Where, Stored
<1>2. \E r \in SavedRounds(t) : \A q \in SavedRounds(t) : q <= r
  BY <1>1, HasGreatest, ToolAssumption, Zenon
<1>3. LastRound(t) \in SavedRounds(t) BY <1>2, Zenon DEF LastRound
<1> QED BY <1>1, <1>3

\* Where the first open call waits for its approval, none of the open calls was executed.
LEMMA NotBegun ==
  ASSUME JournalInv, Unresolved(turn) # {}, Resumable(turn, First(Unresolved(turn)))
  PROVE  /\ ran[First(Unresolved(turn))] = 0
         /\ \A c \in Unresolved(turn) : c # First(Unresolved(turn)) => ~Started(c)
         /\ LastRound(turn) \in 0..Limit
<1> DEFINE f == First(Unresolved(turn))
<1>1. f \in Unresolved(turn) /\ f \in Calls /\ \A d \in Unresolved(turn) : f <= d
  BY UnresolvedTyped, FirstIn
<1>2. Unresolved(turn) \subseteq Calls BY UnresolvedTyped
<1>3. PICK i \in Where("approval", turn) : events[i].id = f /\ events[i].val = LastRound(turn)
  BY DEF Resumable
<1>4. LastRound(turn) \in 0..Limit
  BY <1>3 DEF JournalInv, ValuesOK, Where, Stored
<1>5. Asked(f) BY <1>3 DEF Asked, Where, Stored
<1>6. PICK j \in Where("requested", turn) : events[j].id = f
  BY <1>1, UnresolvedIs DEF Has
<1>7. ~Answered(f)
  <2>1. SUFFICES ASSUME Answered(f) PROVE FALSE OBVIOUS
  <2>2. PICK n \in DOMAIN events : events[n].kind = "response" /\ events[n].id = f
    BY <2>1 DEF Answered
  <2>3. PICK m \in Where("requested", events[n].turn) : events[m].id = f
    BY <2>2 DEF JournalInv, RequestsOK
  <2>4. m = j BY <2>3, <1>6 DEF Where, Stored, JournalInv, RequestsOK
  <2>5. events[n].turn = turn BY <2>3, <2>4, <1>6 DEF Where
  <2>6. n \in Where("response", turn)
    BY <2>2, <2>5 DEF Where, Stored, JournalInv, ValuesOK
  <2>7. f \notin PendingApprovals(turn) BY <2>2, <2>6 DEF PendingApprovals
  <2> QED BY <2>7 DEF Resumable
<1>8. ran[f] = 0
  <2>1. ran[f] \in Nat BY <1>1 DEF JournalInv, JournalTypes
  <2>2. ~(ran[f] > 0) BY <1>1, <1>5, <1>7 DEF JournalInv, RanOK
  <2> QED BY <2>1, <2>2
<1>9. ASSUME NEW c \in Unresolved(turn), c # f, Started(c) PROVE FALSE
  <2>1. PICK k \in Where("requested", turn) : events[k].id = c
    BY UnresolvedIs DEF Has
  <2>2. f < c BY <1>1, <1>2, <1>9, ToolAssumption DEF Calls
  <2>3. Has("result", turn, f)
    BY <2>1, <2>2, <1>6, <1>9 DEF JournalInv, OrderOK, Where
  <2> QED BY <2>3, <1>1, UnresolvedIs
<1> QED BY <1>4, <1>8, <1>9

LEMMA LoadStep ==
  ASSUME ToolInv, LoadTurnProgress
  PROVE  ToolInv'
<1>0. /\ Polled("load") /\ UNCHANGED <<journal, turn, stop, answering, ran, issued>>
      /\ JournalInv
  BY DEF LoadTurnProgress, toolBounds, ToolInv
<1>1. CASE Return("failed") BY <1>0, <1>1, ReturnStep DEF Polled
<1>p. /\ work = "active" /\ exec.at = "load" /\ flight = <<>> /\ exec \in ExecRecords
      /\ exec.after <= Len(events) /\ pendingTools = Unresolved(turn)
      /\ exec.todo = {} /\ ~exec.resume
  BY <1>0, Polls DEF ToolInv, ExecInv, AtOK, NoCall
<1>2. CASE /\ ToFinish(turn) = {}
           /\ exec' = [exec EXCEPT !.at = "model",
                                   !.round = IF SavedRounds(turn) = {} THEN 0
                                             ELSE LastRound(turn) + 1]
           /\ UNCHANGED <<flight, pendingTools, suspending, work, outcome>>
  <2>1. PICK r : r = IF SavedRounds(turn) = {} THEN 0 ELSE LastRound(turn) + 1 OBVIOUS
  <2>2. r \in 0..Limit + 1 BY <2>1, <1>0, LastRoundIs, ToolAssumption
  <2>3. exec' = [exec EXCEPT !.at = "model", !.round = r] BY <1>2, <2>1
  <2>4. /\ exec' \in ExecRecords /\ exec'.at = "model" /\ exec'.after = exec.after
        /\ exec'.todo = {} /\ ~exec'.resume
    BY <2>2, <2>3, <1>p DEF ExecRecords, NoCall
  <2>5. pendingTools = {} BY <1>2, <1>p DEF ToFinish
  <2> QED BY <1>0, <1>2, <1>p, <2>4, <2>5, ExecMoves DEF InCall, NoCall
<1>3. CASE /\ ToFinish(turn) # {} /\ Resumable(turn, First(ToFinish(turn)))
           /\ exec' = [exec EXCEPT !.at = "authorize", !.round = LastRound(turn),
                                   !.todo = ToFinish(turn), !.resume = TRUE]
           /\ UNCHANGED <<flight, pendingTools, suspending, work, outcome>>
  <2>1. /\ ran[First(Unresolved(turn))] = 0
        /\ \A c \in Unresolved(turn) : c # First(Unresolved(turn)) => ~Started(c)
        /\ LastRound(turn) \in 0..Limit
    BY <1>0, <1>3, NotBegun DEF ToFinish
  <2>2. Unresolved(turn) \subseteq Calls BY <1>0, UnresolvedTyped
  <2>3. PICK r, S : r = LastRound(turn) /\ S = Unresolved(turn) OBVIOUS
  <2>4. exec' = [exec EXCEPT !.at = "authorize", !.round = r, !.todo = S, !.resume = TRUE]
    BY <1>3, <2>3 DEF ToFinish
  <2>5. /\ exec' \in ExecRecords /\ exec'.at = "authorize" /\ exec'.after = exec.after
        /\ exec'.todo = S /\ exec'.resume /\ exec'.round = r /\ r \in 0..Limit
    <3>1. r \in 0..Limit /\ r \in 0..Limit + 1 /\ S \in SUBSET Calls
      BY <2>1, <2>2, <2>3, ToolAssumption
    <3> QED BY <3>1, <2>4, <1>p DEF ExecRecords, InCall
  <2>6. ASSUME NEW q \in exec'.todo, q = Call' PROVE TodoAt(q)'
    <3>1. q = First(Unresolved(turn)) BY <2>3, <2>5, <2>6 DEF Call
    <3>2. \A c : Started(c)' <=> Started(c) BY <1>0, SameQueries DEF journal
    <3> QED BY <3>1, <3>2, <2>1, <2>3, <2>5, <1>0 DEF TodoAt
  <2> QED BY <1>0, <1>3, <1>p, <2>3, <2>5, <2>6, ExecMoves DEF InCall, NoCall, ToFinish
<1> QED BY <1>1, <1>2, <1>3 DEF LoadTurnProgress

LEMMA ModelRoundStep ==
  ASSUME ToolInv, ModelRound
  PROVE  ToolInv'
<1>0. Polled("model") /\ UNCHANGED <<journal, turn, stop, answering, ran, issued>>
  BY DEF ModelRound, toolBounds
<1>1. CASE Return("completed") BY <1>0, <1>1, ReturnStep DEF Polled
<1>2. CASE /\ ~OverLimit(exec.round) /\ exec' = [exec EXCEPT !.at = "answer"]
           /\ UNCHANGED <<flight, pendingTools, suspending, work, outcome>>
  <2>1. /\ work = "active" /\ exec.at = "model" /\ flight = <<>> /\ exec \in ExecRecords
        /\ exec.after <= Len(events) /\ exec.todo = pendingTools
        /\ exec.todo = {} /\ ~exec.resume /\ exec.round \in 0..Limit + 1
    <3>1. /\ work = "active" /\ exec.at = "model" /\ flight = <<>> /\ exec \in ExecRecords
          /\ exec.after <= Len(events) /\ exec.todo = pendingTools /\ exec.round \in 0..Limit + 1
      BY <1>0, Polls
    <3> QED BY <3>1 DEF ToolInv, ExecInv, AtOK, NoCall
  <2>2. exec.round <= Limit BY <1>2, <2>1, ToolAssumption DEF OverLimit
  <2>3. /\ exec' \in ExecRecords /\ exec'.at = "answer" /\ exec'.after = exec.after
        /\ exec'.todo = {} /\ ~exec'.resume /\ exec'.round = exec.round
    BY <1>2, <2>1 DEF ExecRecords, NoCall
  <2> QED BY <1>0, <1>2, <2>1, <2>2, <2>3, ExecMoves DEF InCall, NoCall
<1> QED BY <1>1, <1>2 DEF ModelRound

\* The batch of a round: its marker and its requests.
RoundEvents(n, tools) ==
  <<Ev("round", 0, exec.round)>> \o [i \in 1..n |-> Ev("requested", issued + i, tools[i])]

IsRound(n, b) ==
  /\ b \in Seq(EventRecords) /\ b # <<>> /\ ValuesOK(b)
  /\ \A k \in DOMAIN b :
       /\ b[k].turn = turn /\ b[k].stored
       /\ b[k].kind \in {"round", "requested"}
       /\ b[k].kind = "round" => b[k].id = 0
       /\ b[k].kind = "requested" => b[k].id = issued + (k - 1)
  /\ IdsOf(b, "requested") = issued + 1 .. issued + n /\ IdsOf(b, "result") = {}

LEMMA RoundBatch ==
  ASSUME ToolInv, NEW n \in 1..2, NEW tools \in [1..n -> Tools], issued + n <= MaxCalls,
         exec.round \in 0..Limit, NEW b, b = RoundEvents(n, tools)
  PROVE  IsRound(n, b)
<1> DEFINE h == Ev("round", 0, exec.round)
           r == [i \in 1..n |-> Ev("requested", issued + i, tools[i])]
<1>0. turn \in 1..MaxTurns /\ issued \in 0..MaxCalls /\ n \in Nat /\ issued \in Nat
  BY ToolAssumption DEF ToolInv, JournalInv, JournalTypes
<1>1. /\ h \in EventRecords /\ h.kind = "round" /\ h.id = 0 /\ h.turn = turn /\ h.stored
      /\ h.val = exec.round
  BY <1>0, ToolAssumption DEF Ev, EventRecords, EventKinds, Vals
<1>2. ASSUME NEW i \in 1..n
      PROVE /\ r[i] \in EventRecords /\ r[i].kind = "requested" /\ r[i].id = issued + i
            /\ r[i].turn = turn /\ r[i].stored /\ issued + i \in Calls
  <2>1. issued + i \in 0..MaxCalls /\ issued + i \in Calls BY <1>0, ToolAssumption DEF Calls
  <2>2. tools[i] \in Vals BY DEF Vals
  <2>3. r[i] = Ev("requested", issued + i, tools[i]) OBVIOUS
  <2> QED BY <1>0, <2>1, <2>2, <2>3 DEF Ev, EventRecords, EventKinds
<1>3. r \in Seq(EventRecords) /\ Len(r) = n /\ DOMAIN r = 1..n
  <2>1. r \in [1..n -> EventRecords] BY <1>2
  <2> QED BY <2>1, <1>0
<1>4. <<h>> \in Seq(EventRecords) /\ Len(<<h>>) = 1 /\ <<h>>[1] = h BY <1>1
<1>5. b = <<h>> \o r BY DEF RoundEvents
<1> HIDE DEF h, r
<1>6. b \in Seq(EventRecords) /\ Len(b) = n + 1 /\ DOMAIN b = 1..n + 1
  BY <1>0, <1>3, <1>4, <1>5
<1>7. b[1] = h BY <1>0, <1>3, <1>4, <1>5
<1>8. ASSUME NEW k \in DOMAIN b, k # 1 PROVE k - 1 \in 1..n /\ b[k] = r[k - 1]
  BY <1>0, <1>3, <1>4, <1>5, <1>6, <1>8
<1>9. \A k \in DOMAIN b :
        /\ b[k].turn = turn /\ b[k].stored
        /\ b[k].kind \in {"round", "requested"}
        /\ b[k].kind = "round" => b[k].id = 0
        /\ b[k].kind = "requested" => b[k].id = issued + (k - 1) /\ b[k].id \in Calls
        /\ b[k].kind = "round" => b[k].val = exec.round
  <2> SUFFICES ASSUME NEW k \in DOMAIN b
               PROVE  /\ b[k].turn = turn /\ b[k].stored
                      /\ b[k].kind \in {"round", "requested"}
                      /\ b[k].kind = "round" => b[k].id = 0
                      /\ b[k].kind = "requested" =>
                           b[k].id = issued + (k - 1) /\ b[k].id \in Calls
                      /\ b[k].kind = "round" => b[k].val = exec.round
    OBVIOUS
  <2>1. CASE k = 1 BY <2>1, <1>1, <1>7
  <2>2. CASE k # 1
    <3>1. PICK i \in 1..n : i = k - 1 /\ b[k] = r[i] BY <2>2, <1>8
    <3> QED BY <3>1, <1>2
  <2> QED BY <2>1, <2>2
<1>10. ValuesOK(b)
  BY <1>9 DEF ValuesOK
<1>11. IdsOf(b, "requested") = issued + 1 .. issued + n
  <2>1. ASSUME NEW c \in IdsOf(b, "requested") PROVE c \in issued + 1 .. issued + n
    <3>1. PICK k \in DOMAIN b : b[k].kind = "requested" /\ c = b[k].id BY DEF IdsOf
    <3>2. k # 1 BY <3>1, <1>1, <1>7
    <3>3. k - 1 \in 1..n BY <1>8, <3>2
    <3>4. PICK i \in 1..n : i = k - 1 BY <3>3
    <3>5. c = issued + i BY <3>1, <3>4, <1>9
    <3> QED BY <3>4, <3>5, <1>0
  <2>2. ASSUME NEW c \in issued + 1 .. issued + n PROVE c \in IdsOf(b, "requested")
    <3>1. c - issued + 1 \in DOMAIN b /\ c - issued + 1 # 1 BY <1>0, <1>6
    <3>2. PICK k \in DOMAIN b : k = c - issued + 1 /\ k # 1 BY <3>1
    <3>3. b[k] = r[k - 1] /\ k - 1 \in 1..n BY <3>2, <1>8
    <3>4. b[k].kind = "requested" /\ b[k].id = issued + (k - 1) BY <3>3, <1>2
    <3>5. b[k].id = c BY <3>2, <3>4, <1>0
    <3> QED BY <3>4, <3>5 DEF IdsOf
  <2> QED BY <2>1, <2>2
<1>12. IdsOf(b, "result") = {} BY <1>9 DEF IdsOf
<1>13. b # <<>> BY <1>6, <1>0
<1> QED BY <1>6, <1>9, <1>10, <1>11, <1>12, <1>13 DEF IsRound

\* A call that is not requested yet has not begun.
LEMMA NewCalls ==
  ASSUME JournalInv, NEW c \in Calls, c > issued
  PROVE  ~Started(c)
<1>1. issued \in Nat /\ c \in Nat BY ToolAssumption DEF JournalInv, JournalTypes, Calls
<1>2. \A i \in DOMAIN events : events[i].id # c
  BY <1>1 DEF JournalInv, RequestsOK
<1>3. ~(ran[c] > 0) BY <1>2 DEF JournalInv, RanOK, IsRequest
<1> QED BY <1>2, <1>3 DEF Started, Asked

LEMMA ModelAsksStep ==
  ASSUME ToolInv, ModelAsksForTools
  PROVE  ToolInv'
<1>0. /\ Polled("answer") /\ JournalInv
      /\ UNCHANGED <<journal, turn, work, outcome, stop, suspending, pendingTools, answering, ran>>
  BY DEF ModelAsksForTools, harness, ToolInv
<1>1. /\ work = "active" /\ exec.at = "answer" /\ flight = <<>> /\ exec \in ExecRecords
      /\ exec.after <= Len(events) /\ exec.todo = pendingTools /\ pendingTools = Unresolved(turn)
  BY <1>0, Polls
<1>2. exec.todo = {} /\ ~exec.resume /\ exec.round <= Limit /\ exec.round \in 0..Limit
  BY <1>1, ToolAssumption DEF ToolInv, ExecInv, AtOK, NoCall, ExecRecords
<1>3. PICK n \in 1..2 : \E tools \in [1..n -> Tools] :
        /\ issued + n <= MaxCalls
        /\ AddEvents(<<Ev("round", 0, exec.round)>>
                       \o [i \in 1..n |-> Ev("requested", issued + i, tools[i])],
                     [exec EXCEPT !.at = "authorize", !.todo = issued + 1 .. issued + n])
        /\ issued' = issued + n
  BY DEF ModelAsksForTools
<1>4. PICK tools \in [1..n -> Tools] :
        /\ issued + n <= MaxCalls
        /\ AddEvents(<<Ev("round", 0, exec.round)>>
                       \o [i \in 1..n |-> Ev("requested", issued + i, tools[i])],
                     [exec EXCEPT !.at = "authorize", !.todo = issued + 1 .. issued + n])
        /\ issued' = issued + n
  BY <1>3
<1>5. PICK b : b = RoundEvents(n, tools) OBVIOUS
<1>6. IsRound(n, b)
  <2>1. n \in 1..2 /\ tools \in [1..n -> Tools] /\ issued + n <= MaxCalls BY <1>3, <1>4
  <2> QED BY <2>1, <1>2, <1>5, RoundBatch
<1>7. /\ flight' = b
      /\ exec' = [exec EXCEPT !.at = "authorize", !.todo = issued + 1 .. issued + n]
      /\ issued' = issued + n /\ issued + n <= MaxCalls
  BY <1>4, <1>5 DEF AddEvents, RoundEvents
<1>8. /\ issued \in Nat /\ n \in Nat /\ n > 0 /\ issued' \in issued .. MaxCalls
      /\ issued + 1 .. issued + n \in SUBSET Calls /\ issued + 1 \in issued + 1 .. issued + n
  BY <1>7, <1>0, ToolAssumption DEF JournalInv, JournalTypes, Calls
<1>9. /\ exec' \in ExecRecords /\ exec'.at = "authorize" /\ exec'.after = exec.after
      /\ exec'.todo = issued + 1 .. issued + n /\ ~exec'.resume /\ exec'.round = exec.round
  BY <1>1, <1>2, <1>7, <1>8 DEF ExecRecords, InCall
<1>10. JournalInv' BY <1>0, <1>1, <1>6, <1>7, <1>8, JournalActive DEF IsRound
<1>11. HarnessTypes' BY <1>0, <1>1, <1>9 DEF ToolInv, ExecInv, HarnessTypes, journal
<1>12. AtOK' BY <1>0, <1>1, <1>2, <1>8, <1>9 DEF AtOK, InCall, NoCall
<1>13. FlightOK'
  <2>1. \A i \in DOMAIN events : events[i].id <= issued /\ events[i].id \in Nat
    BY <1>0, EventTypes DEF JournalInv, RequestsOK, JournalTypes
  <2>2. DOMAIN b \subseteq Nat BY <1>6 DEF IsRound
  <2>3. \A k \in DOMAIN b : b[k].kind = "requested" =>
          b[k].id \in issued + 1 .. issued + n
    BY <1>6 DEF IdsOf, IsRound
  <2>4. \A k \in DOMAIN flight' :
          /\ flight'[k].kind \in {"round", "requested"}
          /\ flight'[k].kind = "round" => flight'[k].id = 0
          /\ flight'[k].kind = "requested" =>
               /\ flight'[k].id <= issued'
               /\ \A i \in DOMAIN events' : events'[i].id < flight'[k].id
               /\ \A l \in DOMAIN flight' :
                    flight'[l].kind = "requested" /\ flight'[l].id = flight'[k].id => l = k
    BY <1>0, <1>6, <1>7, <1>8, <2>1, <2>2, <2>3 DEF journal, IsRound
  <2> QED BY <1>0, <1>6, <1>7, <1>9, <2>4 DEF FlightOK, IsRound
<1>14. PendingOK'
  <2>1. UpdatePendingTools(flight)' = issued + 1 .. issued + n
    BY <1>0, <1>1, <1>2, <1>6, <1>7 DEF UpdatePendingTools, IsRound
  <2>2. Unresolved(turn)' = Unresolved(turn)
    BY <1>0 DEF journal, Unresolved, Where, Has, Stored
  <2> QED BY <1>0, <1>1, <1>9, <2>1, <2>2 DEF PendingOK
<1>15. TodoOK'
  <2> SUFFICES ASSUME NEW q \in exec'.todo, q = Call' PROVE TodoAt(q)' BY DEF TodoOK
  <2>1. \A c \in exec'.todo : c \in Calls /\ c > issued BY <1>8, <1>9
  <2>2. \A c \in exec'.todo : ~Started(c) BY <1>0, <2>1, NewCalls
  <2>3. \A c : Started(c)' <=> Started(c) BY <1>0, SameQueries DEF journal
  <2>4. ran[q] = 0 BY <1>0, <2>1, <2>2 DEF Started, JournalInv, JournalTypes
  <2> QED BY <1>0, <1>9, <2>2, <2>3, <2>4 DEF TodoAt
<1> QED BY <1>10, <1>11, <1>12, <1>13, <1>14, <1>15 DEF ToolInv, ExecInv

\* The executor begins an append of one event.
LEMMA ExecAppends ==
  ASSUME ToolInv, work = "active", flight = <<>>, exec.at # "restore",
         UNCHANGED <<journal, turn, work, outcome, stop, suspending, pendingTools,
                     answering, ran, issued>>,
         NEW K \in {"completed", "result", "approval"}, NEW c \in 0..MaxCalls, NEW v \in 0..Limit,
         flight' = <<Ev(K, c, v)>>, FlightOK',
         exec' \in ExecRecords, exec'.after <= Len(events),
         exec'.todo = IF K = "result" THEN pendingTools \ {c} ELSE pendingTools,
         exec'.at \notin {"none", "restore", "load"},
         exec'.at \in NoCall => exec'.todo = {} /\ ~exec'.resume,
         exec'.at \in InCall => exec'.todo # {},
         exec'.at \in InCall \cup {"answer"} => exec'.round <= Limit,
         \A q \in exec'.todo : exec'.at \in InCall /\ q = Call' => TodoAt(q)'
  PROVE  ToolInv'
<1>1. JournalInv'
  <2>1. turn \in 1..MaxTurns BY DEF ToolInv, JournalInv, JournalTypes
  <2> QED BY <2>1, OneFlight, IssuedSame, JournalActive
<1>2. HarnessTypes' BY DEF ToolInv, ExecInv, HarnessTypes, journal
<1>3. AtOK' BY DEF AtOK, InCall, NoCall
<1>5. PendingOK'
  <2>1. IdsOf(flight', "requested") = {} /\ IdsOf(flight', "result") = IF K = "result" THEN {c} ELSE {}
    BY IdsOfOne DEF Ev
  <2>2. UpdatePendingTools(flight)' = exec'.todo BY <2>1 DEF UpdatePendingTools
  <2>3. Unresolved(turn)' = Unresolved(turn)
    BY DEF journal, Unresolved, Where, Has, Stored
  <2> QED BY <2>2, <2>3 DEF ToolInv, ExecInv, PendingOK
<1>6. TodoOK' BY DEF TodoOK
<1> QED BY <1>1, <1>2, <1>3, <1>5, <1>6 DEF ToolInv, ExecInv

LEMMA ModelAnswersStep ==
  ASSUME ToolInv, ModelAnswers
  PROVE  ToolInv'
<1>0. /\ Polled("answer")
      /\ UNCHANGED <<journal, turn, work, outcome, stop, suspending, pendingTools, answering, ran,
                     issued>>
      /\ flight' = <<Ev("completed", 0, 0)>> /\ exec' = [exec EXCEPT !.at = "return"]
  BY DEF ModelAnswers, harness, toolBounds, AddEvents
<1>1. /\ work = "active" /\ exec.at = "answer" /\ flight = <<>> /\ exec \in ExecRecords
      /\ exec.after <= Len(events) /\ exec.todo = pendingTools
  BY <1>0, Polls
<1>2. exec.todo = {} /\ ~exec.resume
  BY <1>1 DEF ToolInv, ExecInv, AtOK, NoCall
<1>3. /\ exec' \in ExecRecords /\ exec'.at = "return" /\ exec'.after = exec.after
      /\ exec'.todo = {} /\ ~exec'.resume
  BY <1>0, <1>1, <1>2 DEF ExecRecords, NoCall
<1>4. FlightOK'
  <2>1. Ev("completed", 0, 0)' = Ev("completed", 0, 0) BY <1>0 DEF Ev
  <2>2. DOMAIN flight' = {1} /\ flight'[1] = Ev("completed", 0, 0) BY <1>0
  <2>3. flight'[1].turn = turn /\ flight'[1].stored BY <2>2 DEF Ev
  <2> QED BY <1>0, <1>3, <2>1, <2>2, <2>3 DEF FlightOK
<1>5. 0 \in 0..MaxCalls /\ 0 \in 0..Limit BY ToolAssumption
<1> QED BY <1>0, <1>1, <1>2, <1>3, <1>4, <1>5, ExecAppends DEF InCall, NoCall

LEMMA ModelFailsStep ==
  ASSUME ToolInv, ModelFails \/ TurnReturns
  PROVE  ToolInv'
BY ReturnStep DEF ModelFails, TurnReturns, Polled, toolBounds

\* What is known of the call in hand when the executor is polled.
LEMMA CallPolled ==
  ASSUME ToolInv, NEW at \in InCall, Polled(at)
  PROVE  /\ work = "active" /\ exec.at = at /\ flight = <<>> /\ exec \in ExecRecords
         /\ exec.after \in Nat /\ exec.after <= Len(events)
         /\ exec.todo = pendingTools /\ exec.todo # {} /\ exec.todo \subseteq Calls
         /\ exec.round \in 0..Limit /\ exec.round <= Limit
         /\ Call \in exec.todo /\ Call \in Calls /\ Call \in 0..MaxCalls
         /\ \A q : q = Call => TodoAt(q)
<1>1. /\ work = "active" /\ exec.at = at /\ flight = <<>> /\ exec \in ExecRecords
      /\ exec.after \in Nat /\ exec.after <= Len(events) /\ exec.todo \subseteq Calls
      /\ exec.round \in 0..Limit + 1
      /\ at \notin {"restore", "load"} => exec.todo = pendingTools
  BY Polls
<1>2. exec.todo # {} /\ exec.round <= Limit BY <1>1 DEF ToolInv, ExecInv, AtOK
<1>3. at \notin {"restore", "load"} BY DEF InCall
<1>4. Call \in exec.todo BY <1>1, <1>2, FirstIn DEF Call
<1>5. \A q : q = Call => TodoAt(q) BY <1>1, <1>4 DEF ToolInv, ExecInv, TodoOK
<1>6. Call \in 0..MaxCalls /\ exec.round \in 0..Limit
  BY <1>1, <1>2, <1>4, ToolAssumption DEF Calls
<1> QED BY <1>1, <1>2, <1>3, <1>4, <1>5, <1>6

LEMMA WatchEventsStep ==
  ASSUME ToolInv, WatchEvents
  PROVE  ToolInv'
<1>0. /\ Polled("watch")
      /\ UNCHANGED <<journal, turn, work, outcome, stop, suspending, pendingTools, flight,
                     answering, ran, issued>>
      /\ exec' = [exec EXCEPT !.at = "wait", !.after = exec.after]
  BY DEF WatchEvents, harness, toolBounds, WatchFrom
<1>1. /\ work = "active" /\ exec.at = "watch" /\ flight = <<>> /\ exec \in ExecRecords
      /\ exec.after \in Nat /\ exec.after <= Len(events)
      /\ exec.todo = pendingTools /\ exec.todo # {} /\ exec.round <= Limit
      /\ Call \in exec.todo /\ \A q : q = Call => TodoAt(q)
  BY <1>0, CallPolled DEF InCall
<1>2. /\ exec' \in ExecRecords /\ exec'.at = "wait" /\ exec'.after = exec.after
      /\ exec'.todo = exec.todo /\ exec'.resume = exec.resume /\ exec'.round = exec.round
  BY <1>0, <1>1 DEF ExecRecords, InCall
<1>3. ASSUME NEW q \in exec'.todo, q = Call' PROVE TodoAt(q)'
  <2>1. TodoAt(q) BY <1>1, <1>2, <1>3 DEF Call
  <2>2. \A c : (Started(c)' <=> Started(c)) /\ Responses(c)' = Responses(c)
    BY <1>0, SameQueries DEF journal
  <2> QED BY <1>0, <1>1, <1>2, <2>1, <2>2 DEF TodoAt
<1> QED BY <1>0, <1>1, <1>2, <1>3, ExecMoves DEF InCall, NoCall

LEMMA WaitStep ==
  ASSUME ToolInv, WaitForResponse
  PROVE  ToolInv'
<1>0. /\ Polled("wait") /\ JournalInv
      /\ UNCHANGED <<journal, turn, work, outcome, stop, suspending, pendingTools, flight,
                     answering, ran, issued>>
  BY DEF WaitForResponse, harness, toolBounds, ToolInv
<1>1. /\ work = "active" /\ exec.at = "wait" /\ flight = <<>> /\ exec \in ExecRecords
      /\ exec.after \in Nat /\ exec.after <= Len(events)
      /\ exec.todo = pendingTools /\ exec.todo # {} /\ exec.round <= Limit
      /\ Call \in exec.todo /\ \A q : q = Call => TodoAt(q)
  BY <1>0, CallPolled DEF InCall
<1>2. PICK i \in Responses(Call) :
        exec' = [exec EXCEPT !.at = IF events[i].val = "denied" THEN "result" ELSE "execute",
                             !.after = 0]
  BY DEF WaitForResponse
<1>3. PICK a \in {"result", "execute"} :
        a = IF events[i].val = "denied" THEN "result" ELSE "execute"
  OBVIOUS
<1>4. /\ exec' \in ExecRecords /\ exec'.at = a /\ exec'.after = 0
      /\ exec'.todo = exec.todo /\ exec'.resume = exec.resume /\ exec'.round = exec.round
  BY <1>1, <1>2, <1>3 DEF ExecRecords, InCall
<1>5. ASSUME NEW q \in exec'.todo, q = Call' PROVE TodoAt(q)'
  <2>1. q = Call /\ TodoAt(q) BY <1>1, <1>4, <1>5 DEF Call
  <2>2. \A c : /\ Started(c)' <=> Started(c)
               /\ Asked(c)' <=> Asked(c)
               /\ Answered(c)' <=> Answered(c)
               /\ Guarded(c)' <=> Guarded(c)
               /\ Allowed(c)' <=> Allowed(c)
    BY <1>0, SameQueries DEF journal
  <2>3. ASSUME a = "execute" PROVE Answered(q) /\ Allowed(q)
    <3>1. i \in DOMAIN events /\ events[i].kind = "response" /\ events[i].id = q
      BY <1>2, <2>1 DEF Responses, Where, Stored
    <3>2. events[i].val \in Answers /\ events[i].val # "denied"
      BY <3>1, <2>3, <1>3, <1>0 DEF JournalInv, ValuesOK
    <3> QED BY <3>1, <3>2 DEF Answered, Allowed, Answers
  <2> QED BY <1>0, <1>1, <1>3, <1>4, <2>1, <2>2, <2>3 DEF TodoAt
<1>6. 0 <= Len(events) BY <1>1
<1>7. exec'.at \in InCall /\ exec'.at \notin NoCall /\ exec'.at \notin {"none", "restore", "load"}
  BY <1>4 DEF InCall, NoCall
<1> QED BY <1>0, <1>1, <1>4, <1>5, <1>6, <1>7, ExecMoves

LEMMA AuthorizeStep ==
  ASSUME ToolInv, Authorize
  PROVE  ToolInv'
<1>0. /\ Polled("authorize") /\ JournalInv
      /\ UNCHANGED <<journal, turn, work, outcome, stop, suspending, pendingTools, answering, ran,
                     issued>>
  BY DEF Authorize, harness, toolBounds, ToolInv
<1>1. /\ work = "active" /\ exec.at = "authorize" /\ flight = <<>> /\ exec \in ExecRecords
      /\ exec.after \in Nat /\ exec.after <= Len(events)
      /\ exec.todo = pendingTools /\ exec.todo # {} /\ exec.round <= Limit /\ exec.round \in 0..Limit
      /\ Call \in exec.todo /\ Call \in Calls /\ Call \in 0..MaxCalls
      /\ \A q : q = Call => TodoAt(q)
  BY <1>0, CallPolled DEF InCall
<1>2. \A c : /\ Started(c)' <=> Started(c)
             /\ Asked(c)' <=> Asked(c)
             /\ Answered(c)' <=> Answered(c)
             /\ Guarded(c)' <=> Guarded(c)
             /\ Allowed(c)' <=> Allowed(c)
             /\ Responses(c)' = Responses(c)
  BY <1>0, SameQueries DEF journal
\* The call goes on to "execute" or "result".
<1>3. ASSUME NEW a \in {"execute", "result"}, GoesTo(a),
             a = "execute" => /\ Asked(Call) => Answered(Call)
                              /\ Guarded(Call) => Allowed(Call)
      PROVE  ToolInv'
  <2>1. flight' = flight /\ exec' = [exec EXCEPT !.at = a] BY <1>3 DEF GoesTo
  <2>2. /\ exec' \in ExecRecords /\ exec'.at = a /\ exec'.after = exec.after
        /\ exec'.todo = exec.todo /\ exec'.resume = exec.resume /\ exec'.round = exec.round
    BY <1>1, <2>1 DEF ExecRecords, InCall
  <2>3. ASSUME NEW q \in exec'.todo, q = Call' PROVE TodoAt(q)'
    <3>1. q = Call /\ TodoAt(q) BY <1>1, <2>2, <2>3 DEF Call
    <3>2. a = "execute" => (Asked(q) => Answered(q)) /\ (Guarded(q) => Allowed(q))
      BY <1>3, <3>1
    <3> QED BY <1>0, <1>1, <1>2, <2>2, <3>1, <3>2 DEF TodoAt
  <2>4. exec'.at \in InCall /\ exec'.at \notin NoCall /\ exec'.at \notin {"none", "restore", "load"}
    BY <2>2 DEF InCall, NoCall
  <2> QED BY <1>0, <1>1, <2>1, <2>2, <2>3, <2>4, ExecMoves
<1>4. CASE ~exec.resume /\ (~Guarded(Call) \/ AllowedForTool) /\ GoesTo("execute")
  <2>1. ~Asked(Call) BY <1>1, <1>4 DEF TodoAt, Started
  <2>2. AllowedForTool => Allowed(Call) BY DEF AllowedForTool, Allowed, Stored
  <2> QED BY <1>3, <1>4, <2>1, <2>2
<1>5. CASE /\ ~exec.resume
           /\ AddEvents(<<Ev("approval", Call, exec.round)>>, [exec EXCEPT !.at = "watch"])
  <2>1. flight' = <<Ev("approval", Call, exec.round)>> /\ exec' = [exec EXCEPT !.at = "watch"]
    BY <1>5 DEF AddEvents
  <2>2. /\ exec' \in ExecRecords /\ exec'.at = "watch" /\ exec'.after = exec.after
        /\ exec'.todo = exec.todo /\ exec'.resume = exec.resume /\ exec'.round = exec.round
    BY <1>1, <2>1 DEF ExecRecords, InCall
  <2>3. ~Started(Call) BY <1>1, <1>5 DEF TodoAt
  <2>4. Responses(Call) = {}
    <3>1. ~Answered(Call)
      BY <1>0, <1>1, <2>3 DEF Started, JournalInv, ResponsesOK
    <3> QED BY <3>1 DEF Answered, Responses, Where, Stored
  <2>5. ASSUME NEW q \in exec'.todo, q = Call' PROVE TodoAt(q)'
    <3>1. q = Call /\ TodoAt(q) BY <1>1, <2>2, <2>5 DEF Call
    <3> QED BY <1>0, <1>1, <1>2, <2>2, <2>4, <3>1 DEF TodoAt
  <2>6. FlightOK'
    <3>1. Call' = Call BY <2>2 DEF Call
    <3>2. Ev("approval", Call, exec.round)' = Ev("approval", Call, exec.round)
      BY <1>0, <2>2, <3>1 DEF Ev
    <3>3. DOMAIN flight' = {1} /\ flight'[1] = Ev("approval", Call, exec.round) BY <2>1
    <3>4. flight'[1].turn = turn /\ flight'[1].stored BY <3>3 DEF Ev
    <3>5. ~Started(Call)' BY <1>0, <2>3, <3>1 DEF Started, Asked, journal
    <3> QED BY <1>0, <2>1, <2>2, <3>1, <3>2, <3>3, <3>4, <3>5 DEF FlightOK
  <2>7. exec'.at \in InCall /\ exec'.at \notin NoCall /\ exec'.at \notin {"none", "restore", "load"}
    BY <2>2 DEF InCall, NoCall
  <2> QED BY <1>0, <1>1, <2>1, <2>2, <2>5, <2>6, <2>7, ExecAppends
<1>6. CASE /\ exec.resume /\ (AskedFor(Call) = {} \/ Responses(Call) # {})
           /\ GoesTo(IF AskedFor(Call) # {} /\ \A i \in Responses(Call) : Approved(i)
                     THEN "execute" ELSE "result")
  <2>1. PICK a \in {"execute", "result"} :
          a = IF AskedFor(Call) # {} /\ \A i \in Responses(Call) : Approved(i)
              THEN "execute" ELSE "result"
    OBVIOUS
  <2>2. ASSUME a = "execute" PROVE Answered(Call) /\ Allowed(Call)
    <3>1. PICK i \in Responses(Call) : Approved(i) BY <1>6, <2>1, <2>2
    <3>2. i \in DOMAIN events /\ events[i].kind = "response" /\ events[i].id = Call
      BY <3>1 DEF Responses, Where, Stored
    <3>3. events[i].val \in Answers /\ events[i].val # "denied"
      BY <3>1, <3>2, <1>0 DEF JournalInv, ValuesOK, Approved
    <3> QED BY <3>2, <3>3 DEF Answered, Allowed, Answers
  <2>3. GoesTo(a) BY <1>6, <2>1
  <2> QED BY <1>3, <2>1, <2>2, <2>3
<1>7. ASSUME exec.resume, AskedFor(Call) # {}, Responses(Call) = {}, flight' = flight,
             LET turnEvents == Where("approval", turn) \cup Where("response", turn) IN
             exec' = [exec EXCEPT !.at = "watch",
                                  !.after = CHOOSE i \in turnEvents : \A j \in turnEvents : j <= i]
      PROVE  ToolInv'
  <2> DEFINE T == Where("approval", turn) \cup Where("response", turn)
  <2>1. PICK m : m = CHOOSE i \in T : \A j \in T : j <= i OBVIOUS
  <2>2. exec' = [exec EXCEPT !.at = "watch", !.after = m] BY <1>7, <2>1
  <2>3. Len(events) \in Nat /\ DOMAIN events = 1..Len(events)
    BY <1>0 DEF JournalInv, JournalTypes
  <2>4. T \subseteq 0..Len(events) /\ T # {}
    BY <1>7, <2>3 DEF AskedFor, Where, Stored
  <2>5. \E i \in T : \A j \in T : j <= i
    <3> HIDE DEF T
    <3> QED BY <2>3, <2>4, HasGreatest, Zenon
  <2>6. m \in T BY <2>1, <2>5, Zenon
  <2>7. m \in Nat /\ m <= Len(events) BY <2>3, <2>4, <2>6
  <2>8. /\ exec' \in ExecRecords /\ exec'.at = "watch" /\ exec'.after = m
        /\ exec'.todo = exec.todo /\ exec'.resume = exec.resume /\ exec'.round = exec.round
    BY <1>1, <2>2, <2>7 DEF ExecRecords, InCall
  <2>9. ASSUME NEW q \in exec'.todo, q = Call' PROVE TodoAt(q)'
    <3>1. q = Call /\ TodoAt(q) /\ Responses(q) = {} BY <1>1, <1>7, <2>8, <2>9 DEF Call
    <3> QED BY <1>0, <1>1, <1>2, <2>8, <3>1 DEF TodoAt
  <2>10. exec'.at \in InCall /\ exec'.at \notin NoCall /\ exec'.at \notin {"none", "restore", "load"}
    BY <2>8 DEF InCall, NoCall
  <2> QED BY <1>0, <1>1, <1>7, <2>7, <2>8, <2>9, <2>10, ExecMoves
<1> QED BY <1>4, <1>5, <1>6, <1>7 DEF Authorize

LEMMA ToolResultStep ==
  ASSUME ToolInv, ToolResult
  PROVE  ToolInv'
<1>0. /\ Polled("result") /\ JournalInv
      /\ UNCHANGED <<journal, turn, work, outcome, stop, suspending, pendingTools, answering, ran,
                     issued>>
      /\ flight' = <<Ev("result", Call, 0)>>
  BY DEF ToolResult, harness, toolBounds, ToolInv, AddEvents
<1>1. /\ work = "active" /\ exec.at = "result" /\ flight = <<>> /\ exec \in ExecRecords
      /\ exec.after \in Nat /\ exec.after <= Len(events)
      /\ exec.todo = pendingTools /\ exec.todo # {} /\ exec.round <= Limit /\ exec.round \in 0..Limit
      /\ exec.todo \subseteq Calls
      /\ Call \in exec.todo /\ Call \in Calls /\ Call \in 0..MaxCalls
      /\ \A q : q = Call => TodoAt(q)
  BY <1>0, CallPolled DEF InCall
<1>2. PICK d : d = Call OBVIOUS
<1>3. exec' = IF exec.todo # {d}
              THEN [exec EXCEPT !.at = "authorize", !.todo = exec.todo \ {d}, !.resume = FALSE,
                                !.after = 0]
              ELSE [exec EXCEPT !.at = "model", !.todo = {}, !.resume = FALSE, !.after = 0,
                                !.round = exec.round + 1]
  BY <1>1, <1>2 DEF ToolResult, AddEvents, ExecRecords
<1>4. /\ exec' \in ExecRecords /\ exec'.after = 0 /\ exec'.resume = FALSE
      /\ exec'.todo = exec.todo \ {d}
      /\ exec'.at = (IF exec.todo # {d} THEN "authorize" ELSE "model")
      /\ exec.todo # {d} => exec'.round = exec.round
  <2>1. CASE exec.todo # {d}
    <3>1. exec.todo \ {d} \in SUBSET Calls BY <1>1
    <3> QED BY <1>1, <1>3, <2>1, <3>1 DEF ExecRecords, InCall
  <2>2. CASE exec.todo = {d}
    <3>1. exec.round + 1 \in 0..Limit + 1 BY <1>1, ToolAssumption
    <3> QED BY <1>1, <1>3, <2>2, <3>1 DEF ExecRecords, NoCall
  <2> QED BY <2>1, <2>2
<1>5. FlightOK'
  <2>1. \E c \in pendingTools' : flight' = <<Ev("result", c, 0)>>'
    <3>1. Ev("result", d, 0)' = Ev("result", d, 0) BY <1>0 DEF Ev
    <3> QED BY <1>0, <1>1, <1>2, <3>1
  <2>2. DOMAIN flight' = {1} /\ flight'[1] = Ev("result", Call, 0) BY <1>0
  <2>3. flight'[1].turn = turn /\ flight'[1].stored BY <2>2 DEF Ev
  <2>4. exec'.at \in {"authorize", "model"} /\ ~exec'.resume BY <1>4
  <2> QED BY <1>0, <2>1, <2>2, <2>3, <2>4 DEF FlightOK
<1>6. ASSUME NEW q \in exec'.todo PROVE TodoAt(q)'
  <2>1. \A c : Started(c)' <=> Started(c) BY <1>0, SameQueries DEF journal
  <2>2. \A c \in exec.todo : c # d => ~Started(c) BY <1>1, <1>2 DEF TodoAt
  <2>3. \A c \in exec'.todo : ~Started(c)' BY <1>4, <2>1, <2>2
  <2>4. ran'[q] = 0
    <3>1. q \in Calls /\ ~Started(q) BY <1>1, <1>4, <2>2
    <3>2. ran[q] \in Nat BY <1>0, <3>1 DEF JournalInv, JournalTypes
    <3> QED BY <1>0, <3>1, <3>2 DEF Started
  <2>5. exec'.at \in {"authorize", "model"} BY <1>4
  <2> QED BY <2>3, <2>4, <2>5 DEF TodoAt
<1>7. /\ exec'.at \notin {"none", "restore", "load"} /\ 0 <= Len(events)
      /\ exec'.at \in NoCall => exec'.todo = {} /\ ~exec'.resume
      /\ exec'.at \in InCall => exec'.todo # {}
      /\ exec'.at \in InCall \cup {"answer"} => exec'.round <= Limit
  BY <1>1, <1>2, <1>4 DEF InCall, NoCall
<1>8. 0 \in 0..Limit BY ToolAssumption
<1>9. d \in 0..MaxCalls /\ flight' = <<Ev("result", d, 0)>> BY <1>0, <1>1, <1>2
<1> QED BY <1>0, <1>1, <1>4, <1>5, <1>6, <1>7, <1>8, <1>9, ExecAppends

LEMMA ExecuteStep ==
  ASSUME ToolInv, ExecuteTool
  PROVE  ToolInv'
<1>0. /\ Polled("execute") /\ JournalInv
      /\ UNCHANGED <<events, late, turn, work, outcome, stop, suspending, pendingTools, flight,
                     answering, issued>>
      /\ exec' = [exec EXCEPT !.at = "result", !.after = 0]
      /\ ran' = [ran EXCEPT ![Call] = @ + 1]
  BY DEF ExecuteTool, harness, toolBounds, ToolInv, journal
<1>1. /\ work = "active" /\ exec.at = "execute" /\ flight = <<>> /\ exec \in ExecRecords
      /\ exec.after \in Nat /\ exec.after <= Len(events)
      /\ exec.todo = pendingTools /\ exec.todo # {} /\ exec.round <= Limit
      /\ exec.todo \subseteq Calls /\ Call \in exec.todo /\ Call \in Calls
      /\ \A q : q = Call => TodoAt(q)
  BY <1>0, CallPolled DEF InCall
<1>2. PICK d : d = Call OBVIOUS
<1>3. /\ d \in Calls /\ ran \in [Calls -> Nat] /\ ran' = [ran EXCEPT ![d] = ran[d] + 1]
      /\ ran[d] = 0 /\ ran' \in [Calls -> Nat] /\ ran'[d] = 1
      /\ \A c \in Calls : c # d => ran'[c] = ran[c]
      /\ Asked(d) => Answered(d)
      /\ Guarded(d) => Allowed(d)
  <2>1. /\ d \in Calls /\ ran \in [Calls -> Nat] /\ ran' = [ran EXCEPT ![d] = ran[d] + 1]
    BY <1>0, <1>1, <1>2 DEF JournalInv, JournalTypes
  <2>2. TodoAt(d) BY <1>1, <1>2
  <2> QED BY <2>1, <2>2, <1>1 DEF TodoAt
<1>4. /\ exec' \in ExecRecords /\ exec'.at = "result" /\ exec'.after = 0
      /\ exec'.todo = exec.todo /\ exec'.resume = exec.resume /\ exec'.round = exec.round
  BY <1>0, <1>1 DEF ExecRecords, InCall
<1>5. /\ \E j \in Where("requested", turn) : events[j].id = d
      /\ \A i \in Where("requested", turn) :
           events[i].id < d => Has("result", turn, events[i].id)
  <2>1. \A K \in {"requested", "result"} : IdsOf(flight, K) = {} BY <1>1, IdsOfNone
  <2> QED BY <1>1, <1>2, <2>1, CallOpen DEF InCall
<1>6. PICK j \in Where("requested", turn) : events[j].id = d BY <1>5
<1>q. \A c : /\ Asked(c)' <=> Asked(c)
             /\ Answered(c)' <=> Answered(c)
             /\ Guarded(c)' <=> Guarded(c)
             /\ Allowed(c)' <=> Allowed(c)
             /\ \A K, t : Has(K, t, c)' <=> Has(K, t, c)
             /\ c # d /\ c \in Calls => (Started(c)' <=> Started(c))
  <2>1. \A c : /\ Asked(c)' <=> Asked(c)
               /\ Answered(c)' <=> Answered(c)
               /\ Guarded(c)' <=> Guarded(c)
               /\ Allowed(c)' <=> Allowed(c)
    BY <1>0, SameQueries
  <2>2. \A c, K, t : Has(K, t, c)' <=> Has(K, t, c)
    BY <1>0 DEF Has, Where, Stored
  <2> QED BY <2>1, <2>2, <1>3 DEF Started
<1>7. JournalInv'
  <2>1. JournalTypes' BY <1>0, <1>3 DEF JournalInv, JournalTypes
  <2>2. ValuesOK(events)' /\ ValuesOK(flight)' BY <1>0 DEF JournalInv
  <2>3. RequestsOK' BY <1>0 DEF JournalInv, RequestsOK, Where, Stored
  <2>4. OrderOK'
    <3> SUFFICES ASSUME NEW i \in Stored, NEW k \in Stored, NEW t, NEW c, NEW e,
                        events[i].kind = "requested", events[k].kind = "requested",
                        t = events[i].turn, t = events[k].turn,
                        c = events[i].id, e = events[k].id, c < e, Started(e)'
                 PROVE  Has("result", t, c)'
      BY <1>0 DEF OrderOK, Stored
    <3>1. CASE e # d
      <4>1. e \in Calls BY <1>0 DEF JournalInv, ValuesOK, Stored
      <4>2. Started(e) BY <3>1, <4>1, <1>q
      <4>3. Has("result", t, c) BY <4>2, <1>0 DEF JournalInv, OrderOK
      <4> QED BY <4>3, <1>q
    <3>2. CASE e = d
      <4>0. /\ j \in DOMAIN events /\ k \in DOMAIN events /\ events[j].kind = "requested"
            /\ events[k].id = events[j].id
        BY <3>2, <1>6 DEF Where, Stored
      <4>1. k = j BY <4>0, <1>0 DEF JournalInv, RequestsOK
      <4>2. t = turn /\ i \in Where("requested", turn) BY <4>1, <1>6 DEF Where
      <4>3. Has("result", t, c) BY <4>2, <3>2, <1>5
      <4> QED BY <4>3, <1>q
    <3> QED BY <3>1, <3>2
  <2>5. RanOK'
    <3> SUFFICES ASSUME NEW c \in Calls, ran'[c] > 0
                 PROVE  /\ ran'[c] = 1
                        /\ \E i \in Stored : IsRequest(i, c)
                        /\ Asked(c) => Answered(c)
                        /\ Guarded(c) => Allowed(c)
      BY <1>0, <1>q DEF RanOK, Stored, IsRequest
    <3>1. CASE c = d BY <3>1, <1>3, <1>6 DEF Where, IsRequest, Stored
    <3>2. CASE c # d BY <3>2, <1>3, <1>0 DEF JournalInv, RanOK
    <3> QED BY <3>1, <3>2
  <2>6. ResponsesOK' BY <1>0 DEF JournalInv, ResponsesOK, OneResponse, Asked, Answered
  <2>7. TurnsOK' BY <1>0, <1>1, TurnsKept DEF JournalInv
  <2> QED BY <2>1, <2>2, <2>3, <2>4, <2>5, <2>6, <2>7 DEF JournalInv
<1>8. HarnessTypes'
  <2>1. 0 <= Len(events) BY <1>1
  <2> QED BY <1>0, <1>4, <2>1 DEF ToolInv, ExecInv, HarnessTypes
<1>9. AtOK' BY <1>0, <1>1, <1>4 DEF AtOK, InCall, NoCall
<1>10. FlightOK' BY <1>0, <1>1 DEF FlightOK
<1>11. PendingOK'
  <2>1. UpdatePendingTools(flight)' = pendingTools BY <1>0, <1>1, IdsOfNone DEF UpdatePendingTools
  <2>2. Unresolved(turn)' = Unresolved(turn) BY <1>0 DEF Unresolved, Where, Has, Stored
  <2> QED BY <1>0, <1>1, <1>4, <2>1, <2>2 DEF ToolInv, ExecInv, PendingOK
<1>12. TodoOK'
  <2> SUFFICES ASSUME NEW q \in exec'.todo, q = Call' PROVE TodoAt(q)' BY DEF TodoOK
  <2>1. q = d /\ TodoAt(q) BY <1>1, <1>2, <1>4 DEF Call
  <2>2. \A c \in exec.todo : c # q => ~Started(c)' BY <1>1, <1>q, <2>1 DEF TodoAt
  <2> QED BY <1>4, <2>2 DEF TodoAt
<1> QED BY <1>7, <1>8, <1>9, <1>10, <1>11, <1>12 DEF ToolInv, ExecInv

\* What the executor finds in the journal stays, but for a response that is new.
Undisturbed ==
  /\ events' \in Seq(EventRecords) /\ Len(events') >= Len(events)
  /\ work = "active" => Unresolved(turn)' = Unresolved(turn)
  /\ \A c : /\ Asked(c)' <=> Asked(c)
            /\ Answered(c) => Answered(c)'
            /\ Guarded(c)' <=> Guarded(c)
            /\ Allowed(c) => Allowed(c)'
            /\ \A i \in Responses(c)' : i \in Responses(c) \/ i > Len(events)
  /\ \A i \in DOMAIN events' : \E j \in DOMAIN events : events'[i].id = events[j].id

\* The executor while others change the journal.
LEMMA ExecSame ==
  ASSUME ToolInv, UNCHANGED <<exec, flight, pendingTools, turn, work, outcome, ran, issued>>,
         stop' \in {"none", "suspend", "cancel", "shutdown"}, suspending' \in BOOLEAN,
         work # "active" => suspending' = FALSE,
         Undisturbed
  PROVE  ExecInv'
<1>0. /\ HarnessTypes /\ AtOK /\ FlightOK /\ PendingOK /\ TodoOK
      /\ Len(events) \in Nat /\ Len(events') \in Nat /\ exec.after \in Nat
      /\ exec.after <= Len(events)
  BY DEF ToolInv, ExecInv, JournalInv, JournalTypes, HarnessTypes, ExecRecords, Undisturbed
<1>1. HarnessTypes' BY <1>0 DEF HarnessTypes, Undisturbed
<1>2. AtOK' BY <1>0 DEF AtOK
<1>3. Call' = Call /\ \A c : Started(c)' <=> Started(c) BY DEF Call, Started, Undisturbed
<1>4. FlightOK'
  <2>1. ~Started(Call) => ~Started(Call)'
    <3>1. PICK q : q = Call OBVIOUS
    <3>2. Started(Call)' <=> Started(q)' BY <1>3, <3>1 DEF Started, Asked
    <3> QED BY <1>3, <3>1, <3>2
  <2>2. \A c : Ev("result", c, 0)' = Ev("result", c, 0) BY DEF Ev
  <2>3. /\ Ev("completed", 0, 0)' = Ev("completed", 0, 0)
        /\ Ev("approval", Call, exec.round)' = Ev("approval", Call, exec.round)
    BY <1>3 DEF Ev
  <2>4. \A k \in DOMAIN flight' : flight'[k].turn = turn' /\ flight'[k].stored
    BY <1>0 DEF FlightOK
  <2>5. CASE flight = <<>> BY <2>4, <2>5 DEF FlightOK
  <2>6. CASE exec.at = "return" /\ flight = <<Ev("completed", 0, 0)>>
    BY <2>3, <2>4, <2>6 DEF FlightOK
  <2>7. CASE exec.at = "watch" /\ ~Started(Call) /\ flight = <<Ev("approval", Call, exec.round)>>
    BY <2>1, <2>3, <2>4, <2>7 DEF FlightOK
  <2>8. CASE /\ exec.at \in {"authorize", "model"} /\ ~exec.resume
             /\ \E c \in pendingTools : flight = <<Ev("result", c, 0)>>
    <3>1. PICK c \in pendingTools : flight = <<Ev("result", c, 0)>> BY <2>8
    <3>2. \E e \in pendingTools' : flight' = <<Ev("result", e, 0)>>'
      <4>1. flight' = <<Ev("result", c, 0)>>' BY <3>1, <2>2
      <4> QED BY <3>1, <4>1
    <3> QED BY <2>4, <2>8, <3>2 DEF FlightOK
  <2>9. CASE /\ exec.at = "authorize" /\ ~exec.resume
             /\ \A k \in DOMAIN flight :
                  /\ flight[k].kind \in {"round", "requested"}
                  /\ flight[k].kind = "round" => flight[k].id = 0
                  /\ flight[k].kind = "requested" =>
                       /\ flight[k].id <= issued
                       /\ \A i \in DOMAIN events : events[i].id < flight[k].id
                       /\ \A l \in DOMAIN flight :
                            flight[l].kind = "requested" /\ flight[l].id = flight[k].id => l = k
    <3>1. \A k \in DOMAIN flight' : flight'[k].kind = "requested" =>
            \A i \in DOMAIN events' : events'[i].id < flight'[k].id
      BY <2>9 DEF Undisturbed
    <3> QED BY <2>4, <2>9, <3>1 DEF FlightOK
  <2> QED BY <1>0, <2>5, <2>6, <2>7, <2>8, <2>9 DEF FlightOK
<1>5. PendingOK'
  <2>1. UpdatePendingTools(flight)' = UpdatePendingTools(flight) BY DEF UpdatePendingTools, IdsOf
  <2> QED BY <1>0, <2>1 DEF PendingOK, Undisturbed
<1>6. TodoOK'
  <2> SUFFICES ASSUME NEW q \in exec'.todo, q = Call', exec'.at \in InCall PROVE TodoAt(q)'
    BY DEF TodoOK
  <2>1. TodoAt(q) BY <1>0, <1>3 DEF TodoOK
  <2>2. exec.at \in {"watch", "wait"} => \A i \in Responses(q)' : i > exec.after
    <3>1. ASSUME exec.at \in {"watch", "wait"}, NEW i \in Responses(q)' PROVE i > exec.after
      <4>1. i \in DOMAIN events' BY DEF Responses, Where, Stored
      <4>2. i \in Nat BY <4>1 DEF Undisturbed
      <4>3. i \in Responses(q) \/ i > Len(events) BY DEF Undisturbed
      <4> QED BY <1>0, <2>1, <3>1, <4>2, <4>3 DEF TodoAt
    <3> QED BY <3>1
  <2> QED BY <1>3, <2>1, <2>2 DEF TodoAt, Undisturbed
<1> QED BY <1>1, <1>2, <1>4, <1>5, <1>6 DEF ExecInv

LEMMA StopStep ==
  ASSUME ToolInv,
         \/ \E c \in {"none", "suspend", "cancel", "shutdown"} : Control(c)
         \/ NoticeSuspend
  PROVE  ToolInv'
<1>1. /\ work = "active"
      /\ UNCHANGED <<journal, turn, work, exec, outcome, pendingTools, flight, answering, ran,
                     issued>>
      /\ stop' \in {"none", "suspend", "cancel", "shutdown"} /\ suspending' \in BOOLEAN
  BY DEF Control, NoticeSuspend, toolBounds, ToolInv, ExecInv, HarnessTypes
<1>2. JournalInv'
  <2>1. flight' \in Seq(EventRecords) /\ ValuesOK(flight')
    BY <1>1 DEF ToolInv, JournalInv, JournalTypes
  <2> QED BY <1>1, <2>1, IssuedSame, JournalActive
<1>3. ExecInv'
  <2>1. events' = events /\ events \in Seq(EventRecords) /\ Len(events) \in Nat
    BY <1>1 DEF journal, ToolInv, JournalInv, JournalTypes
  <2>2. Unresolved(turn)' = Unresolved(turn) BY <1>1, <2>1 DEF Unresolved, Where, Has, Stored
  <2>3. \A c : /\ Asked(c)' <=> Asked(c)
               /\ Answered(c) => Answered(c)'
               /\ Guarded(c)' <=> Guarded(c)
               /\ Allowed(c) => Allowed(c)'
               /\ \A i \in Responses(c)' : i \in Responses(c) \/ i > Len(events)
    BY <1>1, <2>1, SameQueries
  <2>4. Undisturbed BY <2>1, <2>2, <2>3 DEF Undisturbed
  <2> QED BY <1>1, <2>4, ExecSame
<1> QED BY <1>2, <1>3 DEF ToolInv

LEMMA FindPendingStep ==
  ASSUME ToolInv, NEW u \in Users, FindPending(u)
  PROVE  ToolInv'
<1>0. /\ \A v \in Users : answering[v] = 0 /\ JournalInv
      /\ UNCHANGED <<events, late, turn, work, exec, outcome, stop, suspending, pendingTools,
                     flight, ran, issued>>
  BY DEF FindPending, MayAnswer, journal, harness, toolBounds, ToolInv
<1>1. PICK c \in PendingApprovals(turn) : answering' = [answering EXCEPT ![u] = c]
  BY DEF FindPending
<1>2. PICK i \in Where("approval", turn) : events[i].id = c
  BY DEF PendingApprovals
<1>3. i \in DOMAIN events /\ events[i].kind = "approval" /\ events[i].turn = turn
  BY DEF Where, Stored
<1>4. c \in 0..MaxCalls
  BY <1>0, <1>2, <1>3, EventTypes DEF JournalInv, JournalTypes
<1>5. ~Answered(c)
  <2>1. SUFFICES ASSUME Answered(c) PROVE FALSE OBVIOUS
  <2>2. PICK n \in DOMAIN events : events[n].kind = "response" /\ events[n].id = c
    BY <2>1 DEF Answered
  <2>3. PICK m \in Where("requested", events[n].turn) : events[m].id = c
    BY <1>0, <2>2 DEF JournalInv, RequestsOK
  <2>4. PICK l \in Where("requested", turn) : events[l].id = c
    BY <1>0, <1>2, <1>3 DEF JournalInv, RequestsOK
  <2>5. m = l BY <1>0, <2>3, <2>4 DEF Where, Stored, JournalInv, RequestsOK
  <2>6. events[n].turn = turn BY <2>3, <2>4, <2>5 DEF Where
  <2>7. n \in Where("response", turn)
    BY <1>0, <2>2, <2>6 DEF Where, Stored, JournalInv, ValuesOK
  <2> QED BY <2>2, <2>7 DEF PendingApprovals
<1>6. answering \in [Users -> 0..MaxCalls] BY <1>0 DEF JournalInv, JournalTypes
<1>7. /\ answering' \in [Users -> 0..MaxCalls] /\ answering'[u] = c
      /\ \A v \in Users : v # u => answering'[v] = 0
  BY <1>0, <1>1, <1>4, <1>6
<1>8. JournalInv'
  <2>1. JournalTypes' BY <1>0, <1>7 DEF JournalInv, JournalTypes
  <2>2. ValuesOK(events)' /\ ValuesOK(flight)' BY <1>0 DEF JournalInv
  <2>3. RequestsOK' BY <1>0 DEF JournalInv, RequestsOK, Where, Stored
  <2>4. OrderOK' BY <1>0 DEF JournalInv, OrderOK, Has, Where, Stored, Started, Asked
  <2>5. RanOK' BY <1>0 DEF JournalInv, RanOK, IsRequest, Stored, Asked, Answered, Guarded, Allowed
  <2>6. ResponsesOK'
    <3>1. OneResponse' BY <1>0 DEF JournalInv, ResponsesOK, OneResponse
    <3>2. \A d \in Calls : Answered(d)' => Asked(d)'
      BY <1>0 DEF JournalInv, ResponsesOK, Asked, Answered
    <3>3. ASSUME NEW v \in Users, answering'[v] # 0
          PROVE  ~Answered(answering[v])' /\ \A w \in Users : answering'[w] # 0 => w = v
      BY <1>0, <1>5, <1>7, <3>3 DEF Answered
    <3> QED BY <3>1, <3>2, <3>3 DEF ResponsesOK
  <2>7. TurnsOK' BY <1>0 DEF JournalInv, TurnsOK
  <2> QED BY <2>1, <2>2, <2>3, <2>4, <2>5, <2>6, <2>7 DEF JournalInv
<1>9. ExecInv'
  <2>1. events \in Seq(EventRecords) /\ Len(events) \in Nat
    BY <1>0 DEF JournalInv, JournalTypes
  <2>2. Unresolved(turn)' = Unresolved(turn) BY <1>0 DEF Unresolved, Where, Has, Stored
  <2>3. \A d : /\ Asked(d)' <=> Asked(d)
               /\ Answered(d) => Answered(d)'
               /\ Guarded(d)' <=> Guarded(d)
               /\ Allowed(d) => Allowed(d)'
               /\ \A n \in Responses(d)' : n \in Responses(d) \/ n > Len(events)
    BY <1>0, SameQueries
  <2>4. /\ stop' \in {"none", "suspend", "cancel", "shutdown"} /\ suspending' \in BOOLEAN
        /\ work # "active" => suspending' = FALSE
    BY <1>0 DEF ToolInv, ExecInv, HarnessTypes, AtOK
  <2>5. Undisturbed BY <1>0, <2>1, <2>2, <2>3 DEF Undisturbed
  <2> QED BY <1>0, <2>4, <2>5, ExecSame
<1> QED BY <1>8, <1>9 DEF ToolInv

LEMMA RespondStep ==
  ASSUME ToolInv, NEW u \in Users, Respond(u)
  PROVE  ToolInv'
<1>0. /\ JournalInv /\ answering[u] # 0 /\ answering' = [answering EXCEPT ![u] = 0]
      /\ UNCHANGED <<late, turn, work, exec, outcome, stop, suspending, pendingTools,
                     flight, ran, issued>>
  BY DEF Respond, journal, harness, toolBounds, ToolInv
<1>1. PICK v \in Answers, i \in Stored :
        /\ events[i].kind = "approval" /\ events[i].id = answering[u]
        /\ events' = Append(events, [events[i] EXCEPT !.kind = "response", !.val = v])
  BY DEF Respond, Answers
<1>2. PICK e : e = [events[i] EXCEPT !.kind = "response", !.val = v] OBVIOUS
<1>3. /\ i \in DOMAIN events /\ events[i].stored /\ events \in Seq(EventRecords)
      /\ events[i] \in EventRecords
  BY <1>0, <1>1, EventTypes DEF Stored, JournalInv, JournalTypes
<1>4. /\ e \in EventRecords /\ e.kind = "response" /\ e.val = v /\ v \in Answers
      /\ e.id = events[i].id /\ e.id = answering[u]
      /\ e.turn = events[i].turn /\ e.stored
  BY <1>1, <1>2, <1>3 DEF EventRecords, EventKinds, Vals
<1>5. PICK b \in Seq(EventRecords) : b = <<e>>
  <2>1. <<e>> \in Seq(EventRecords) BY <1>4
  <2> QED BY <2>1
<1>6. DOMAIN b = {1} /\ b[1] = e /\ Len(b) = 1 BY <1>5
<1>7. events' = events \o b BY <1>1, <1>2, <1>3, <1>5
<1>8. /\ events' \in Seq(EventRecords) /\ Extends(b) /\ Len(events') = Len(events) + 1
      /\ Len(events) \in Nat
  <2>1. Len(events) \in Nat BY <1>3
  <2> QED BY <1>3, <1>6, <1>7, <2>1, AppendExtends
<1>9. AddOK(b)
  <2>1. ValuesOK(b) BY <1>4, <1>6 DEF ValuesOK
  <2>2. e.id <= issued BY <1>0, <1>3, <1>4 DEF JournalInv, RequestsOK
  <2>3. \E j \in Where("requested", e.turn) : events[j].id = e.id
    BY <1>0, <1>1, <1>3, <1>4 DEF JournalInv, RequestsOK
  <2>4. Asked(e.id) BY <1>1, <1>3, <1>4 DEF Asked
  <2>5. ~Answered(e.id) BY <1>0, <1>4 DEF JournalInv, ResponsesOK
  <2> QED BY <1>4, <1>6, <2>1, <2>2, <2>3, <2>4, <2>5 DEF AddOK
<1>10. /\ answering' \in [Users -> 0..MaxCalls]
       /\ \A w \in Users : answering'[w] # 0 =>
            /\ answering'[w] = answering[w]
            /\ \A k \in DOMAIN b : b[k].kind = "response" => b[k].id # answering[w]
  <2>1. answering \in [Users -> 0..MaxCalls] /\ 0 \in 0..MaxCalls
    BY <1>0, ToolAssumption DEF JournalInv, JournalTypes
  <2>2. answering'[u] = 0 /\ \A w \in Users : w # u => answering'[w] = answering[w]
    BY <1>0, <2>1
  <2>3. \A w \in Users : answering[w] # 0 => w = u
    BY <1>0 DEF JournalInv, ResponsesOK
  <2> QED BY <1>0, <2>1, <2>2, <2>3
<1>11. TurnsOK'
  <2>1. TurnsOK /\ late \subseteq DOMAIN events BY <1>0 DEF JournalInv, JournalTypes
  <2>2. \A n \in DOMAIN events' : n \in DOMAIN events \/ events'[n] = e
    BY <1>6, <1>8 DEF Extends
  <2>3. \A n \in DOMAIN events : events'[n] = events[n] BY <1>8 DEF Extends
  <2> QED BY <1>0, <1>3, <1>4, <2>1, <2>2, <2>3 DEF TurnsOK
<1>12. JournalInv'
  <2>1. late' \subseteq DOMAIN events' /\ turn' \in 1..MaxTurns
        /\ flight' \in Seq(EventRecords) /\ ValuesOK(flight')
    BY <1>0, <1>8 DEF JournalInv, JournalTypes, Extends
  <2> QED BY <1>0, <1>7, <1>9, <1>10, <1>11, <2>1, JournalGrows
<1>13. ExecInv'
  <2>1. \A n \in DOMAIN events' : (n \in DOMAIN events /\ events'[n] = events[n]) \/ events'[n] = e
    BY <1>6, <1>8 DEF Extends
  <2>2. Unresolved(turn)' = Unresolved(turn)
    <3>1. \A t : Unresolved(t)' = Unresolved(t) BY <1>4, <1>6, <1>8, UnresolvedKept
    <3>2. PICK t : t = turn OBVIOUS
    <3>3. Unresolved(turn)' = Unresolved(t)' BY <1>0, <3>2 DEF Unresolved, Where, Has
    <3> QED BY <3>1, <3>2, <3>3
  <2>3. ASSUME NEW d
        PROVE  /\ Asked(d)' <=> Asked(d)
               /\ Answered(d) => Answered(d)'
               /\ Guarded(d)' <=> Guarded(d)
               /\ Allowed(d) => Allowed(d)'
    <3>1. /\ Asked(d) => Asked(d)'
          /\ Answered(d) => Answered(d)'
          /\ Guarded(d) => Guarded(d)'
          /\ Allowed(d) => Allowed(d)'
      BY <1>8, ExtendsKeeps, Monotone
    <3>2. Asked(d)' => Asked(d) BY <1>4, <2>1 DEF Asked
    <3>3. Guarded(d)' => Guarded(d) BY <1>4, <2>1 DEF Guarded
    <3> QED BY <3>1, <3>2, <3>3
  <2>4. ASSUME NEW d, NEW n \in Responses(d)' PROVE n \in Responses(d) \/ n > Len(events)
    <3>1. n \in DOMAIN events' /\ DOMAIN events' = 1..Len(events) + 1
      BY <1>8 DEF Responses, Where, Stored
    <3>2. DOMAIN events = 1..Len(events) BY <1>3
    <3>3. CASE n \in DOMAIN events
      BY <1>0, <1>8, <3>3 DEF Responses, Where, Stored, Extends
    <3>4. CASE n \notin DOMAIN events BY <1>8, <3>1, <3>2, <3>4
    <3> QED BY <3>3, <3>4
  <2>5. /\ stop' \in {"none", "suspend", "cancel", "shutdown"} /\ suspending' \in BOOLEAN
        /\ work # "active" => suspending' = FALSE
    BY <1>0 DEF ToolInv, ExecInv, HarnessTypes, AtOK
  <2>6. \A n \in DOMAIN events' : \E j \in DOMAIN events : events'[n].id = events[j].id
    BY <1>3, <1>4, <2>1
  <2>7. Undisturbed BY <1>8, <2>2, <2>3, <2>4, <2>6 DEF Undisturbed
  <2> QED BY <1>0, <2>5, <2>7, ExecSame
<1> QED BY <1>12, <1>13 DEF ToolInv

LEMMA Begins ==
  ASSUME NEW a \in {"model", "restore"}, exec' = [NoExec EXCEPT !.at = a]
  PROVE  /\ exec' \in ExecRecords /\ exec'.at = a /\ exec'.after = 0 /\ exec'.todo = {}
         /\ exec'.resume = FALSE
<1>1. NoExec \in ExecRecords BY ToolAssumption DEF NoExec, ExecRecords, NoCall
<1>2. a \in InCall \cup NoCall BY DEF NoCall
<1>3. exec' \in ExecRecords BY <1>1, <1>2 DEF ExecRecords
<1>4. exec'.at = a /\ exec'.after = 0 /\ exec'.todo = {} /\ exec'.resume = FALSE
  BY DEF NoExec
<1> QED BY <1>3, <1>4

LEMMA StartStep ==
  ASSUME ToolInv, StartTurn
  PROVE  ToolInv'
<1>0. /\ JournalInv /\ work = "accepted" /\ work' = "active" /\ stop' = "none"
      /\ events' = Append(events, Ev("input", 0, 0)) /\ exec' = [NoExec EXCEPT !.at = "model"]
      /\ UNCHANGED <<late, turn, outcome, pendingTools, flight, suspending, answering, ran, issued>>
  BY DEF StartTurn, toolBounds, ToolInv
<1>1. /\ flight = <<>> /\ pendingTools = {} /\ suspending = FALSE
      /\ events \in Seq(EventRecords) /\ turn \in 1..MaxTurns
  BY <1>0 DEF ToolInv, ExecInv, AtOK, JournalInv, JournalTypes
<1>2. PICK e \in EventRecords : /\ e = Ev("input", 0, 0) /\ e.kind = "input" /\ e.id = 0
                                /\ e.turn = turn
  <2>1. /\ Ev("input", 0, 0) \in EventRecords /\ Ev("input", 0, 0).kind = "input"
        /\ Ev("input", 0, 0).id = 0 /\ Ev("input", 0, 0).turn = turn
    BY <1>1, ToolAssumption DEF Ev, EventRecords, EventKinds, Vals
  <2> QED BY <2>1
<1>3. PICK b \in Seq(EventRecords) : b = <<e>>
  <2>1. <<e>> \in Seq(EventRecords) BY <1>2
  <2> QED BY <2>1
<1>4. DOMAIN b = {1} /\ b[1] = e /\ Len(b) = 1 /\ events' = events \o b BY <1>0, <1>1, <1>2, <1>3
<1>5. events' \in Seq(EventRecords) /\ Extends(b) BY <1>1, <1>4, AppendExtends
<1>6. AddOK(b)
  <2>1. ValuesOK(b) BY <1>2, <1>4 DEF ValuesOK
  <2>2. 0 <= issued BY <1>0, ToolAssumption DEF JournalInv, JournalTypes
  <2> QED BY <1>2, <1>4, <2>1, <2>2 DEF AddOK
<1>7. TurnsOK'
  <2>1. TurnsOK /\ late \subseteq DOMAIN events /\ turn \in Nat
    BY <1>0, <1>1, ToolAssumption DEF JournalInv, JournalTypes
  <2>2. \A n \in DOMAIN events' : n \in DOMAIN events \/ events'[n] = e
    BY <1>4, <1>5 DEF Extends
  <2>3. \A n \in DOMAIN events : events'[n] = events[n] BY <1>5 DEF Extends
  <2>4. \A n \in DOMAIN events : events[n].turn \in Nat BY <1>1, EventTypes
  <2> QED BY <1>0, <1>2, <2>1, <2>2, <2>3, <2>4 DEF TurnsOK
<1>8. JournalInv'
  <2>1. late' \subseteq DOMAIN events' /\ turn' \in 1..MaxTurns
        /\ flight' \in Seq(EventRecords) /\ ValuesOK(flight')
        /\ answering' \in [Users -> 0..MaxCalls]
    BY <1>0, <1>5 DEF JournalInv, JournalTypes, Extends
  <2>2. \A k \in DOMAIN b : b[k].kind # "response" BY <1>2, <1>4
  <2> QED BY <1>0, <1>4, <1>6, <1>7, <2>1, <2>2, JournalGrows
<1>9. ExecInv'
  <2>1. /\ exec' \in ExecRecords /\ exec'.at = "model" /\ exec'.after = 0 /\ exec'.todo = {}
        /\ exec'.resume = FALSE
    BY <1>0, Begins
  <2>2. 0 <= Len(events') BY <1>5
  <2>3. HarnessTypes' BY <1>0, <1>1, <2>1, <2>2 DEF ToolInv, ExecInv, HarnessTypes
  <2>4. AtOK' BY <1>0, <2>1 DEF AtOK, InCall, NoCall
  <2>5. FlightOK' BY <1>0, <1>1 DEF FlightOK
  <2>6. Unresolved(turn)' = {}
    <3>1. \A i \in DOMAIN events' : events'[i].turn = turn => events'[i].kind = "input"
      <4>1. \A n \in DOMAIN events : events[n].turn < turn BY <1>0 DEF JournalInv, TurnsOK
      <4>2. \A n \in DOMAIN events : events[n].turn \in Nat BY <1>1, EventTypes
      <4>3. turn \in Nat BY <1>1
      <4> QED BY <1>2, <1>4, <1>5, <4>1, <4>2, <4>3 DEF Extends
    <3>2. Where("requested", turn)' = {} BY <1>0, <3>1 DEF Where, Stored
    <3> QED BY <3>2 DEF Unresolved
  <2>7. UpdatePendingTools(flight)' = {} BY <1>0, <1>1, IdsOfNone DEF UpdatePendingTools
  <2>8. PendingOK' BY <1>0, <1>1, <2>1, <2>6, <2>7 DEF PendingOK
  <2>9. TodoOK' BY <2>1 DEF TodoOK, InCall
  <2> QED BY <2>3, <2>4, <2>5, <2>8, <2>9 DEF ExecInv
<1> QED BY <1>8, <1>9 DEF ToolInv

LEMMA RecoverStep ==
  ASSUME ToolInv, Recover
  PROVE  ToolInv'
<1>0. /\ JournalInv /\ work = "resting"
      /\ UNCHANGED <<events, late, turn, pendingTools, flight, suspending, answering, ran, issued>>
      /\ exec = NoExec /\ flight = <<>> /\ pendingTools = {} /\ suspending = FALSE
      /\ events \in Seq(EventRecords) /\ Len(events) \in Nat
  BY DEF Recover, journal, toolBounds, ToolInv, ExecInv, AtOK, JournalInv, JournalTypes
<1>1. ASSUME work' \in {"stopping", "active"} PROVE JournalInv'
  <2>1. TurnsOK' BY <1>0, <1>1, TurnsKept DEF JournalInv
  <2> QED BY <1>0, <2>1, EmptyFlight, IssuedSame, JournalKept
<1>2. CASE work' = "stopping" /\ outcome' = "completed" /\ UNCHANGED <<exec, stop>>
  <2>1. ExecInv' BY <1>0, <1>2, AtRest DEF ToolInv, ExecInv, HarnessTypes
  <2> QED BY <1>1, <1>2, <2>1 DEF ToolInv
<1>3. CASE /\ work' = "active" /\ stop' = "none" /\ exec' = [NoExec EXCEPT !.at = "restore"]
           /\ UNCHANGED outcome
  <2>1. /\ exec' \in ExecRecords /\ exec'.at = "restore" /\ exec'.after = 0 /\ exec'.todo = {}
        /\ exec'.resume = FALSE
    BY <1>3, Begins
  <2>2. 0 <= Len(events) BY <1>0
  <2>3. HarnessTypes' BY <1>0, <1>3, <2>1, <2>2 DEF ToolInv, ExecInv, HarnessTypes
  <2>4. AtOK' BY <1>3, <2>1 DEF AtOK, InCall, NoCall
  <2>5. FlightOK' BY <1>0 DEF FlightOK
  <2>6. PendingOK' BY <1>0, <2>1 DEF PendingOK
  <2>7. TodoOK' BY <2>1 DEF TodoOK, InCall
  <2> QED BY <1>1, <1>3, <2>3, <2>4, <2>5, <2>6, <2>7 DEF ToolInv, ExecInv
<1> QED BY <1>2, <1>3 DEF Recover

\* A step that keeps the journal, may forget what could land and who answers.
LEMMA JournalForgets ==
  ASSUME ToolInv, events' = events, late' = {}, turn' = turn, ran' = ran, issued' = issued,
         answering' = answering \/ answering' = [u \in Users |-> 0],
         flight' \in Seq(EventRecords), ValuesOK(flight'), work' = "accepted" => work = "accepted"
  PROVE  JournalInv'
<1>1. /\ JournalInv /\ <<>> \in Seq(EventRecords) /\ DOMAIN <<>> = {} /\ events' = events \o <<>>
  BY DEF ToolInv, JournalInv, JournalTypes
<1>2. AddOK(<<>>) BY <1>1 DEF AddOK, ValuesOK
<1>3. TurnsOK' BY <1>1 DEF JournalInv, TurnsOK
<1>4. /\ answering' \in [Users -> 0..MaxCalls]
      /\ \A u \in Users : answering'[u] # 0 => answering'[u] = answering[u]
  BY <1>1, ToolAssumption DEF JournalInv, JournalTypes
<1>5. late' \subseteq DOMAIN events' /\ turn' \in 1..MaxTurns
  BY <1>1 DEF JournalInv, JournalTypes
<1> QED BY <1>1, <1>2, <1>3, <1>4, <1>5, JournalGrows

LEMMA CrashStep ==
  ASSUME ToolInv, TurnCrash
  PROVE  ToolInv'
<1>1. JournalInv' BY EmptyFlight, JournalForgets DEF TurnCrash
<1>2. ExecInv'
  <2>1. events' \in Seq(EventRecords) BY DEF TurnCrash, ToolInv, JournalInv, JournalTypes
  <2> QED BY <2>1, AtRest DEF TurnCrash
<1> QED BY <1>1, <1>2 DEF ToolInv

\* What a dropped append left may become stored, and nothing else changes.
Flips ==
  /\ DOMAIN events' = DOMAIN events
  /\ \A i \in DOMAIN events :
       /\ events'[i].kind = events[i].kind /\ events'[i].turn = events[i].turn
       /\ events'[i].id = events[i].id /\ events'[i].val = events[i].val
       /\ events'[i].stored <=> events[i].stored \/ i \in late

LEMMA PutFlips ==
  ASSUME ToolInv,
         events' = [i \in DOMAIN events |-> IF i \in late THEN [events[i] EXCEPT !.stored = TRUE]
                                            ELSE events[i]]
  PROVE  events' \in Seq(EventRecords) /\ Len(events') = Len(events) /\ Flips
<1>1. events \in Seq(EventRecords) BY DEF ToolInv, JournalInv, JournalTypes
<1>2. DOMAIN events = 1..Len(events) /\ Len(events) \in Nat BY <1>1
<1>3. ASSUME NEW i \in DOMAIN events
      PROVE  /\ events'[i] \in EventRecords
             /\ events'[i].kind = events[i].kind /\ events'[i].turn = events[i].turn
             /\ events'[i].id = events[i].id /\ events'[i].val = events[i].val
             /\ events'[i].stored <=> events[i].stored \/ i \in late
  <2>1. events[i] \in EventRecords BY <1>1, EventTypes
  <2>2. CASE i \in late
    <3>1. events'[i] = [events[i] EXCEPT !.stored = TRUE] BY <2>2
    <3> QED BY <2>1, <2>2, <3>1 DEF EventRecords
  <2>3. CASE i \notin late
    <3>1. events'[i] = events[i] BY <2>3
    <3> QED BY <2>1, <2>3, <3>1
  <2> QED BY <2>2, <2>3
<1>4. events' = [i \in 1..Len(events) |-> events'[i]] BY <1>2
<1>5. \A i \in 1..Len(events) : events'[i] \in EventRecords BY <1>2, <1>3
<1>6. events' \in Seq(EventRecords) /\ Len(events') = Len(events) BY <1>2, <1>4, <1>5
<1>7. DOMAIN events' = DOMAIN events OBVIOUS
<1> QED BY <1>3, <1>6, <1>7 DEF Flips

\* A call that began was requested, by a request that is stored.
LEMMA StartedStored ==
  ASSUME JournalInv, NEW j \in DOMAIN events, events[j].kind = "requested", Started(events[j].id)
  PROVE  j \in Stored
<1>1. events[j].id \in Calls BY DEF JournalInv, ValuesOK
<1>2. PICK k \in Stored : IsRequest(k, events[j].id)
  <2>1. CASE ran[events[j].id] > 0 BY <1>1, <2>1 DEF JournalInv, RanOK
  <2>2. CASE Asked(events[j].id)
    <3>1. PICK i \in DOMAIN events : events[i].kind = "approval" /\ events[i].id = events[j].id
      BY <2>2 DEF Asked
    <3>2. PICK k \in Where("requested", events[i].turn) : events[k].id = events[i].id
      BY <3>1 DEF JournalInv, RequestsOK
    <3> QED BY <3>1, <3>2 DEF Where, Stored, IsRequest
  <2> QED BY <2>1, <2>2 DEF Started
<1>3. k = j BY <1>2 DEF JournalInv, RequestsOK, IsRequest
<1> QED BY <1>2, <1>3

LEMMA FlipsQueries ==
  ASSUME Flips
  PROVE  \A c : /\ Asked(c)' <=> Asked(c)
                /\ Answered(c)' <=> Answered(c)
                /\ Guarded(c)' <=> Guarded(c)
                /\ Allowed(c)' <=> Allowed(c)
BY DEF Flips, Asked, Answered, Guarded, Allowed

LEMMA JournalFlips ==
  ASSUME ToolInv, Flips, events' \in Seq(EventRecords), late' = {},
         UNCHANGED <<turn, work, outcome, flight, answering, ran, issued>>
  PROVE  JournalInv'
<1>0. JournalInv /\ events \in Seq(EventRecords) /\ late \subseteq DOMAIN events /\ TurnsOK
  BY DEF ToolInv, JournalInv, JournalTypes
<1>1. Keeps BY DEF Flips, Keeps
<1>2. JournalTypes' BY <1>0 DEF JournalInv, JournalTypes
<1>3. ValuesOK(events)' BY <1>0 DEF JournalInv, ValuesOK, Flips
<1>4. ValuesOK(flight)' BY <1>0 DEF JournalInv, ValuesOK
<1>5. RequestsOK'
  <2>1. ASSUME NEW i \in DOMAIN events', events'[i].kind \in {"result", "approval", "response"},
               NEW t, t = events'[i].turn
        PROVE  \E j \in Where("requested", t)' : events'[j].id = events'[i].id
    <3>1. PICK j \in Where("requested", t) : events[j].id = events[i].id
      BY <1>0, <2>1 DEF JournalInv, RequestsOK, Flips
    <3>2. j \in Where("requested", t)' BY <1>1, <3>1, Monotone
    <3>3. events'[j].id = events'[i].id BY <2>1, <3>1 DEF Flips, Where, Stored
    <3> QED BY <3>2, <3>3
  <2>2. ASSUME NEW i \in DOMAIN events', events'[i].kind \in {"result", "approval", "response"}
        PROVE  (\E j \in Where("requested", events[i].turn) : events[j].id = events[i].id)'
    <3>1. PICK t : t = events'[i].turn OBVIOUS
    <3>2. \E j \in Where("requested", t)' : events'[j].id = events'[i].id BY <2>1, <2>2, <3>1
    <3> QED BY <3>1, <3>2 DEF Where
  <2>3. \A i \in DOMAIN events' : events'[i].id <= issued' BY <1>0 DEF JournalInv, RequestsOK, Flips
  <2>4. \A i, j \in DOMAIN events' :
          events'[i].kind = "requested" /\ events'[j].kind = "requested"
            /\ events'[i].id = events'[j].id => i = j
    BY <1>0 DEF JournalInv, RequestsOK, Flips
  <2> QED BY <2>2, <2>3, <2>4 DEF RequestsOK
<1>6. OrderOK'
  <2> SUFFICES ASSUME NEW i \in Stored', NEW j \in Stored',
                      events'[i].kind = "requested", events'[j].kind = "requested",
                      events'[i].turn = events'[j].turn, events'[i].id < events'[j].id,
                      Started(events[j].id)'
               PROVE  Has("result", events[i].turn, events[i].id)'
    BY DEF OrderOK
  <2>1. /\ i \in DOMAIN events /\ j \in DOMAIN events
        /\ events[i].kind = "requested" /\ events[j].kind = "requested"
        /\ events[i].turn = events[j].turn /\ events[i].id < events[j].id
        /\ events'[i].turn = events[i].turn /\ events'[i].id = events[i].id
        /\ events'[j].id = events[j].id
    BY DEF Flips, Stored
  <2>2. Started(events[j].id)
    <3>1. PICK c : c = events[j].id OBVIOUS
    <3>2. Started(c)' BY <2>1, <3>1 DEF Started, Asked
    <3> QED BY <3>1, <3>2, FlipsQueries DEF Started
  <2>3. j \in Stored BY <1>0, <2>1, <2>2, StartedStored
  <2>4. j \notin late BY <1>0, <2>3 DEF TurnsOK, Stored
  <2>5. i \notin late
    <3>1. ASSUME i \in late PROVE FALSE
      <4>1. events[j].id < events[i].id BY <1>0, <2>1, <2>4, <3>1 DEF TurnsOK
      <4>2. events[i].id \in Nat /\ events[j].id \in Nat BY <1>0, <2>1, EventTypes
      <4> QED BY <2>1, <4>1, <4>2
    <3> QED BY <3>1
  <2>6. i \in Stored BY <2>1, <2>5 DEF Flips, Stored
  <2>7. PICK t, c : t = events[i].turn /\ c = events[i].id OBVIOUS
  <2>8. Has("result", t, c) BY <1>0, <2>1, <2>2, <2>3, <2>6, <2>7 DEF JournalInv, OrderOK
  <2>9. Has("result", t, c)' BY <1>1, <2>8, Monotone
  <2> QED BY <2>1, <2>7, <2>9 DEF Has, Where
<1>7. RanOK'
  <2>1. Stored \subseteq Stored' BY <1>1, Monotone
  <2>2. \A n, c : IsRequest(n, c) => IsRequest(n, c)' BY DEF IsRequest, Flips
  <2> QED BY <1>0, <2>1, <2>2, FlipsQueries DEF JournalInv, RanOK
<1>8. ResponsesOK'
  <2>1. OneResponse' BY <1>0 DEF JournalInv, ResponsesOK, OneResponse, Flips
  <2>2. \A c \in Calls : Answered(c)' => Asked(c)' BY <1>0, FlipsQueries DEF JournalInv, ResponsesOK
  <2>3. ASSUME NEW u \in Users, answering'[u] # 0
        PROVE  /\ ~Answered(answering[u])'
               /\ \A v \in Users : answering'[v] # 0 => v = u
    <3>1. PICK c : c = answering[u] OBVIOUS
    <3>2. ~Answered(c)' BY <1>0, <2>3, <3>1, FlipsQueries DEF JournalInv, ResponsesOK
    <3>3. ~Answered(answering[u])' BY <3>1, <3>2 DEF Answered
    <3> QED BY <1>0, <2>3, <3>3 DEF JournalInv, ResponsesOK
  <2> QED BY <2>1, <2>2, <2>3 DEF ResponsesOK
<1>9. TurnsOK' BY <1>0 DEF TurnsOK, Flips
<1> QED BY <1>2, <1>3, <1>4, <1>5, <1>6, <1>7, <1>8, <1>9 DEF JournalInv

LEMMA PutLandsStep ==
  ASSUME ToolInv, AppendLands
  PROVE  ToolInv'
<1>0. /\ late' = {} /\ JournalInv /\ events \in Seq(EventRecords) /\ Len(events) \in Nat
      /\ UNCHANGED <<turn, work, outcome, stop, suspending, exec, pendingTools, flight, answering,
                     ran, issued>>
  BY DEF AppendLands, harness, toolBounds, ToolInv, JournalInv, JournalTypes
<1>1. /\ stop' \in {"none", "suspend", "cancel", "shutdown"} /\ suspending' \in BOOLEAN
      /\ work # "active" => suspending' = FALSE
  BY <1>0 DEF ToolInv, ExecInv, HarnessTypes, AtOK
<1>2. CASE events' = events
  <2>1. JournalInv'
    <3>1. flight' \in Seq(EventRecords) /\ ValuesOK(flight')
      BY <1>0 DEF JournalInv, JournalTypes
    <3> QED BY <1>0, <1>2, <3>1, JournalForgets
  <2>2. Unresolved(turn)' = Unresolved(turn) BY <1>0, <1>2 DEF Unresolved, Where, Has, Stored
  <2>3. \A c : /\ Asked(c)' <=> Asked(c)
               /\ Answered(c) => Answered(c)'
               /\ Guarded(c)' <=> Guarded(c)
               /\ Allowed(c) => Allowed(c)'
               /\ \A i \in Responses(c)' : i \in Responses(c) \/ i > Len(events)
    BY <1>0, <1>2, SameQueries
  <2>4. Undisturbed BY <1>0, <1>2, <2>2, <2>3 DEF Undisturbed
  <2> QED BY <1>0, <1>1, <2>1, <2>4, ExecSame DEF ToolInv
<1>3. CASE events' = [i \in DOMAIN events |->
                        IF i \in late THEN [events[i] EXCEPT !.stored = TRUE] ELSE events[i]]
  <2>1. events' \in Seq(EventRecords) /\ Len(events') = Len(events) /\ Flips BY <1>3, PutFlips
  <2>2. JournalInv' BY <1>0, <2>1, JournalFlips
  <2>3. work = "active" => Unresolved(turn)' = Unresolved(turn)
    <3> SUFFICES ASSUME work = "active" PROVE Unresolved(turn)' = Unresolved(turn) OBVIOUS
    <3>1. \A i \in late : events[i].turn # turn
      <4>1. \A i \in late : i \in DOMAIN events /\ events[i].turn < turn
        BY <1>0 DEF JournalInv, JournalTypes, TurnsOK
      <4>2. turn \in Nat BY <1>0, ToolAssumption DEF JournalInv, JournalTypes
      <4>3. \A i \in DOMAIN events : events[i].turn \in Nat BY <1>0, EventTypes
      <4> QED BY <4>1, <4>2, <4>3
    <3>2. ASSUME NEW K PROVE Where(K, turn)' = Where(K, turn)
      BY <1>0, <2>1, <3>1 DEF Where, Stored, Flips
    <3>3. \A K : \A i \in Where(K, turn) : events'[i].id = events[i].id
      BY <2>1 DEF Where, Stored, Flips
    <3>4. \A i \in Where("requested", turn) :
            Has("result", turn, events[i].id)' <=> Has("result", turn, events[i].id)
      BY <3>2, <3>3 DEF Has
    <3> QED BY <3>2, <3>3, <3>4 DEF Unresolved
  <2>4. ASSUME NEW c PROVE \A i \in Responses(c)' : i \in Responses(c)
    BY <1>0, <2>1 DEF Responses, Where, Stored, Flips, JournalInv, ValuesOK
  <2>5. \A i \in DOMAIN events' : \E j \in DOMAIN events : events'[i].id = events[j].id
    BY <2>1 DEF Flips
  <2>6. Undisturbed BY <1>0, <2>1, <2>3, <2>4, <2>5, FlipsQueries DEF Undisturbed
  <2> QED BY <1>0, <1>1, <2>2, <2>6, ExecSame DEF ToolInv
<1> QED BY <1>2, <1>3 DEF AppendLands

\* The append of an execution that is stopped: nothing of it is stored yet.
Dropped == [i \in DOMAIN flight |-> [flight[i] EXCEPT !.stored = FALSE]]

LEMMA DroppedIs ==
  ASSUME ToolInv
  PROVE  /\ Dropped \in Seq(EventRecords) /\ SameEvents(Dropped)
         /\ \A k \in DOMAIN Dropped : Dropped[k].stored = FALSE
<1>1. flight \in Seq(EventRecords) /\ DOMAIN flight = 1..Len(flight) /\ Len(flight) \in Nat
  BY DEF ToolInv, JournalInv, JournalTypes
<1>2. ASSUME NEW k \in DOMAIN flight
      PROVE  /\ Dropped[k] \in EventRecords /\ Dropped[k].stored = FALSE
             /\ Dropped[k].kind = flight[k].kind /\ Dropped[k].turn = flight[k].turn
             /\ Dropped[k].id = flight[k].id /\ Dropped[k].val = flight[k].val
  <2>1. flight[k] \in EventRecords BY <1>1, EventTypes
  <2>2. Dropped[k] = [flight[k] EXCEPT !.stored = FALSE] BY DEF Dropped
  <2> QED BY <2>1, <2>2 DEF EventRecords
<1>3. DOMAIN Dropped = DOMAIN flight BY DEF Dropped
<1>4. PICK d : d = Dropped OBVIOUS
<1>5. Dropped \in Seq(EventRecords)
  <2>1. d = [i \in 1..Len(flight) |-> d[i]] BY <1>1, <1>4 DEF Dropped
  <2>2. \A i \in 1..Len(flight) : d[i] \in EventRecords BY <1>1, <1>2, <1>4
  <2>3. d \in Seq(EventRecords) BY <1>1, <2>1, <2>2
  <2> QED BY <1>4, <2>3
<1> QED BY <1>2, <1>3, <1>5 DEF SameEvents

LEMMA NoticeStopStep ==
  ASSUME ToolInv, NoticeStop
  PROVE  ToolInv'
<1>0. PICK o \in {"cancelled", "interrupted"} : Return(o)
  BY DEF NoticeStop
<1>1. work = "active" /\ UNCHANGED <<turn, stop, answering, ran, issued>>
  BY DEF NoticeStop, toolBounds
<1>2. CASE UNCHANGED journal BY <1>0, <1>1, <1>2, ReturnStep
<1>3. CASE events' = events \o Dropped /\ late' = Len(events) + 1 .. Len(events')
  <2>0. JournalInv /\ events \in Seq(EventRecords) /\ Len(events) \in Nat /\ TurnsOK
        /\ late \subseteq DOMAIN events /\ FlightOK /\ turn \in Nat
    BY ToolAssumption DEF ToolInv, ExecInv, JournalInv, JournalTypes
  <2>1. PICK b \in Seq(EventRecords) : b = Dropped BY DroppedIs
  <2>2. SameEvents(b) /\ \A k \in DOMAIN b : b[k].stored = FALSE BY <2>1, DroppedIs
  <2>3. AddOK(b) BY <1>1, <2>2, FlightAdds
  <2>4. events' = events \o b BY <1>3, <2>1
  <2>5. events' \in Seq(EventRecords) /\ Extends(b) /\ Len(events') \in Nat
    BY <2>0, <2>4, AppendExtends
  <2>6. DOMAIN events' \ DOMAIN events = late'
    BY <1>3, <2>0, <2>5
  <2>7. ASSUME NEW i \in late'
        PROVE  \E k \in DOMAIN b : events'[i] = b[k] /\ ~events'[i].stored /\ events'[i].turn = turn
    <3>1. PICK k \in DOMAIN b : events'[i] = b[k] BY <2>5, <2>6 DEF Extends
    <3>2. k \in DOMAIN flight /\ b[k].turn = flight[k].turn /\ flight[k].turn = turn
      BY <2>0, <2>2 DEF SameEvents, FlightOK
    <3> QED BY <2>2, <3>1, <3>2
  <2>8. \A i \in DOMAIN events : i \in DOMAIN events' /\ i \notin late' /\ events'[i] = events[i]
    BY <2>5, <2>6 DEF Extends
  <2>9. \A i \in DOMAIN events' \ late' : i \in DOMAIN events BY <2>6
  <2>10. TurnsOK'
    <3>1. ASSUME NEW i \in DOMAIN events'
          PROVE  events'[i].turn <= turn' /\ work' # "accepted"
      <4>1. CASE i \in DOMAIN events BY <1>0, <1>1, <2>0, <2>8, <4>1 DEF TurnsOK, Return
      <4>2. CASE i \in late' BY <1>0, <1>1, <2>0, <2>7, <4>2 DEF Return
      <4> QED BY <2>6, <4>1, <4>2
    <3>2. ASSUME NEW i \in late', events'[i].kind = "requested", NEW j \in DOMAIN events' \ late'
          PROVE  events'[j].id < events'[i].id
      <4>1. PICK k \in DOMAIN b : events'[i] = b[k] BY <2>7
      <4>2. events[j].id < b[k].id BY <2>3, <2>9, <3>2, <4>1 DEF AddOK
      <4> QED BY <2>8, <2>9, <4>1, <4>2
    <3>3. \A i \in late' : ~events'[i].stored BY <2>7
    <3>4. work' = "stopping" /\ outcome' \in {"cancelled", "interrupted"} BY <1>0 DEF Return
    <3> QED BY <3>1, <3>2, <3>3, <3>4 DEF TurnsOK
  <2>11. JournalInv'
    <3>1. late' \subseteq DOMAIN events' BY <2>6
    <3>2. turn' \in 1..MaxTurns /\ answering' \in [Users -> 0..MaxCalls]
      BY <1>1, <2>0 DEF JournalInv, JournalTypes
    <3>3. flight' \in Seq(EventRecords) /\ ValuesOK(flight') BY <1>0, EmptyFlight DEF Return
    <3>4. \A k \in DOMAIN b : b[k].kind # "response"
      BY <2>0, <2>2, FlightKinds DEF SameEvents
    <3> QED BY <1>1, <2>0, <2>3, <2>4, <2>10, <3>1, <3>2, <3>3, <3>4, JournalGrows
  <2>12. ExecInv'
    <3>1. stop' \in {"none", "suspend", "cancel", "shutdown"}
      BY <1>1 DEF ToolInv, ExecInv, HarnessTypes
    <3> QED BY <1>0, <2>5, <3>1, AtRest DEF Return
  <2> QED BY <2>11, <2>12 DEF ToolInv
<1> QED BY <1>2, <1>3 DEF NoticeStop, Dropped

LEMMA BoundaryStep ==
  ASSUME ToolInv, SuspensionBoundary
  PROVE  ToolInv'
<1>1. /\ work = "active" /\ Return("suspended")
      /\ UNCHANGED <<journal, turn, stop, answering, ran, issued>>
  BY DEF SuspensionBoundary, toolBounds
<1> QED BY <1>1, ReturnStep

\* What the finalizer appends.
Ending == (IF outcome = "completed" /\ Where("completed", turn) = {}
           THEN <<Ev("completed", 0, 0)>> ELSE <<>>) \o <<Ev("ended", 0, 0)>>

LEMMA EndingIs ==
  ASSUME ToolInv
  PROVE  /\ Ending \in Seq(EventRecords)
         /\ \A k \in DOMAIN Ending : /\ Ending[k].kind \in {"completed", "ended"}
                                     /\ Ending[k].id = 0 /\ Ending[k].turn = turn
<1>1. PICK c, e : c = Ev("completed", 0, 0) /\ e = Ev("ended", 0, 0) OBVIOUS
<1>2. turn \in 1..MaxTurns /\ 0 \in 0..MaxCalls /\ 0 \in Vals
  BY ToolAssumption DEF ToolInv, JournalInv, JournalTypes, Vals
<1>3. /\ c \in EventRecords /\ c.kind = "completed" /\ c.id = 0 /\ c.turn = turn
      /\ e \in EventRecords /\ e.kind = "ended" /\ e.id = 0 /\ e.turn = turn
  BY <1>1, <1>2 DEF Ev, EventRecords, EventKinds
<1>4. Ending = <<c>> \o <<e>> \/ Ending = <<>> \o <<e>>
  BY <1>1 DEF Ending
<1>5. PICK x \in Seq(EventRecords), y \in Seq(EventRecords) : x = <<c>> /\ y = <<e>>
  <2>1. <<c>> \in Seq(EventRecords) /\ <<e>> \in Seq(EventRecords) BY <1>3
  <2> QED BY <2>1
<1>6. CASE Ending = x \o y
  <2>1. Len(x) = 1 /\ Len(y) = 1 /\ x[1] = c /\ y[1] = e BY <1>5
  <2>2. Ending \in Seq(EventRecords) /\ Len(Ending) = 2 BY <1>5, <1>6, <2>1
  <2>3. Ending[1] = c /\ Ending[2] = e BY <1>5, <1>6, <2>1
  <2>4. DOMAIN Ending = 1..2 BY <2>2
  <2> QED BY <1>3, <2>2, <2>3, <2>4
<1>7. CASE Ending = <<e>>
  <2>1. <<e>> \in Seq(EventRecords) BY <1>3
  <2>2. DOMAIN <<e>> = {1} OBVIOUS
  <2> QED BY <1>3, <1>7, <2>1, <2>2
<1>8. <<>> \o <<e>> = <<e>> BY <1>5
<1> QED BY <1>4, <1>5, <1>6, <1>7, <1>8

LEMMA FinalizeStep ==
  ASSUME ToolInv, Finalize
  PROVE  ToolInv'
<1>0. /\ JournalInv /\ events \in Seq(EventRecords) /\ TurnsOK /\ late \subseteq DOMAIN events
      /\ turn \in 1..MaxTurns /\ turn \in Nat /\ MaxTurns \in Nat /\ work = "stopping"
      /\ exec = NoExec /\ flight = <<>> /\ pendingTools = {} /\ suspending = FALSE
      /\ outcome' = "none" /\ stop' = "none"
      /\ UNCHANGED <<late, exec, pendingTools, flight, suspending, answering, ran, issued>>
  BY ToolAssumption
     DEF Finalize, toolBounds, ToolInv, ExecInv, AtOK, JournalInv, JournalTypes
<1>1. flight' \in Seq(EventRecords) /\ ValuesOK(flight') BY <1>0, EmptyFlight
<1>2. CASE /\ outcome \in {"suspended", "interrupted"} /\ work' = "resting"
           /\ outcome = "interrupted" => late = {}
           /\ UNCHANGED <<events, turn>>
  <2>1. \A i \in late : events[i].turn < turn BY <1>0, <1>2 DEF TurnsOK
  <2>2. TurnsOK' BY <1>0, <1>2, <2>1 DEF TurnsOK
  <2>3. JournalInv' BY <1>0, <1>1, <1>2, <2>2, IssuedSame, JournalKept
  <2>4. ExecInv' BY <1>0, <1>2, AtRest
  <2> QED BY <2>3, <2>4 DEF ToolInv
<1>3. CASE /\ events' = events \o Ending
           /\ work' = IF turn = MaxTurns THEN "idle" ELSE "accepted"
           /\ turn' = IF turn = MaxTurns THEN turn ELSE turn + 1
  <2>1. PICK b \in Seq(EventRecords) : b = Ending BY EndingIs
  <2>2. \A k \in DOMAIN b : b[k].kind \in {"completed", "ended"} /\ b[k].id = 0 /\ b[k].turn = turn
    BY <2>1, EndingIs
  <2>3. events' \in Seq(EventRecords) /\ Extends(b) BY <1>0, <1>3, <2>1, AppendExtends
  <2>4. AddOK(b)
    <3>1. ValuesOK(b) BY <2>2 DEF ValuesOK
    <3>2. 0 <= issued BY <1>0, ToolAssumption DEF JournalInv, JournalTypes
    <3> QED BY <2>2, <3>1, <3>2 DEF AddOK
  <2>5. \A i \in DOMAIN events : events'[i] = events[i] BY <2>3 DEF Extends
  <2>6. ASSUME NEW i \in DOMAIN events', i \notin DOMAIN events
        PROVE  events'[i].turn = turn /\ events'[i].kind # "requested"
    <3>1. PICK k \in DOMAIN b : events'[i] = b[k] BY <2>3, <2>6 DEF Extends
    <3> QED BY <2>2, <3>1
  <2>7. TurnsOK'
    <3>1. \A i \in DOMAIN events' : events'[i].turn <= turn
      BY <1>0, <2>5, <2>6 DEF TurnsOK
    <3>2. \A i \in DOMAIN events' : events'[i].turn \in Nat BY <2>3, EventTypes
    <3>3. turn' \in Nat /\ turn <= turn' /\ (work' # "idle" => turn < turn')
          /\ work' \in {"idle", "accepted"}
      BY <1>0, <1>3
    <3>4. \A i \in DOMAIN events' : /\ events'[i].turn <= turn'
                                    /\ work' = "accepted" => events'[i].turn < turn'
      BY <1>0, <3>1, <3>2, <3>3
    <3>5. ASSUME NEW i \in late
          PROVE  /\ ~events'[i].stored
                 /\ events'[i].turn < turn' \/ work' = "idle"
                 /\ events'[i].kind = "requested" =>
                      \A j \in DOMAIN events' \ late :
                        events'[j].kind = "requested" /\ events'[j].turn = events'[i].turn
                          => events'[j].id < events'[i].id
      <4>1. i \in DOMAIN events /\ events'[i] = events[i] BY <1>0, <2>5
      <4>2. i \in DOMAIN events' BY <2>3, <4>1 DEF Extends
      <4>3. ~events'[i].stored BY <1>0, <4>1 DEF TurnsOK
      <4>4. events'[i].turn < turn' \/ work' = "idle" BY <3>3, <3>4, <4>2
      <4>5. ASSUME NEW j \in DOMAIN events' \ late, events'[i].kind = "requested",
                   events'[j].kind = "requested", events'[j].turn = events'[i].turn
            PROVE  events'[j].id < events'[i].id
        <5>1. j \in DOMAIN events \ late /\ events'[j] = events[j] BY <2>5, <2>6, <4>5
        <5> QED BY <1>0, <4>1, <4>5, <5>1 DEF TurnsOK
      <4> QED BY <4>3, <4>4, <4>5
    <3> QED BY <1>0, <3>4, <3>5 DEF TurnsOK
  <2>8. JournalInv'
    <3>1. late' \subseteq DOMAIN events' BY <1>0, <2>3 DEF Extends
    <3>2. turn' \in 1..MaxTurns BY <1>0, <1>3
    <3>3. answering' \in [Users -> 0..MaxCalls] BY <1>0 DEF JournalInv, JournalTypes
    <3>4. \A k \in DOMAIN b : b[k].kind # "response" BY <2>2
    <3> QED BY <1>0, <1>1, <1>3, <2>1, <2>4, <2>7, <3>1, <3>2, <3>3, <3>4, JournalGrows
  <2>9. ExecInv' BY <1>0, <1>3, <2>3, AtRest
  <2> QED BY <2>8, <2>9 DEF ToolInv
<1> QED
  <2>1. events' = events \o (IF outcome = "completed" /\ Where("completed", turn) = {}
                              THEN <<Ev("completed", 0, 0)>> ELSE <<>>) \o <<Ev("ended", 0, 0)>>
        => events' = events \o Ending
    <3>1. PICK c, e : c = Ev("completed", 0, 0) /\ e = Ev("ended", 0, 0) OBVIOUS
    <3>2. c \in EventRecords /\ e \in EventRecords
      BY <1>0, <3>1, ToolAssumption DEF Ev, EventRecords, EventKinds, Vals
    <3>3. (events \o <<c>>) \o <<e>> = events \o (<<c>> \o <<e>>) BY <1>0, <3>2
    <3>4. (events \o <<>>) \o <<e>> = events \o (<<>> \o <<e>>) BY <1>0, <3>2
    <3> QED BY <3>1, <3>3, <3>4 DEF Ending
  <2> QED BY <1>2, <1>3, <2>1 DEF Finalize

--------------------------------------------------------------------------------
\* The invariant

LEMMA ToolInitInv == ToolInit => ToolInv
<1> SUFFICES ASSUME ToolInit PROVE ToolInv OBVIOUS
<1>0. /\ events = <<>> /\ late = {} /\ flight = <<>> /\ turn = 1 /\ work = "accepted"
      /\ outcome = "none" /\ exec = NoExec /\ pendingTools = {} /\ stop = "none"
      /\ suspending = FALSE /\ answering = [u \in Users |-> 0] /\ ran = [c \in Calls |-> 0]
      /\ issued = 0
  BY DEF ToolInit
<1>1. events \in Seq(EventRecords) /\ DOMAIN events = {} /\ Len(events) = 0 /\ DOMAIN flight = {}
  BY <1>0
<1>2. JournalTypes
  <2>1. 1 \in 1..MaxTurns /\ 0 \in 0..MaxCalls /\ 0 \in Nat BY ToolAssumption
  <2>2. answering \in [Users -> 0..MaxCalls] /\ ran \in [Calls -> Nat] BY <1>0, <2>1
  <2> QED BY <1>0, <1>1, <2>1, <2>2 DEF JournalTypes
<1>3. ValuesOK(events) /\ ValuesOK(flight) BY <1>1 DEF ValuesOK
<1>4. RequestsOK /\ OrderOK BY <1>1 DEF RequestsOK, OrderOK, Stored
<1>5. RanOK BY <1>0 DEF RanOK
<1>6. ResponsesOK BY <1>0, <1>1 DEF ResponsesOK, OneResponse, Answered
<1>7. TurnsOK BY <1>0, <1>1 DEF TurnsOK
<1>8. NoExec \in ExecRecords BY ToolAssumption DEF NoExec, ExecRecords, NoCall
<1>9. NoExec.at = "none" /\ NoExec.after = 0 /\ NoExec.todo = {} /\ NoExec.resume = FALSE
  BY DEF NoExec
<1>10. HarnessTypes
  <2>1. exec \in ExecRecords BY <1>0, <1>8
  <2>2. exec.after <= Len(events) BY <1>0, <1>1, <1>9
  <2> QED BY <1>0, <2>1, <2>2 DEF HarnessTypes
<1>11. AtOK BY <1>0, <1>9 DEF AtOK, InCall, NoCall
<1>12. FlightOK BY <1>0, <1>1 DEF FlightOK
<1>13. PendingOK BY <1>0, <1>9 DEF PendingOK
<1>14. TodoOK BY <1>0, <1>9 DEF TodoOK, InCall
<1> QED BY <1>2, <1>3, <1>4, <1>5, <1>6, <1>7, <1>10, <1>11, <1>12, <1>13, <1>14
        DEF ToolInv, JournalInv, ExecInv

LEMMA Stutters ==
  ASSUME ToolInv, UNCHANGED toolVars
  PROVE  ToolInv'
<1>0. UNCHANGED <<events, late, turn, work, exec, outcome, pendingTools, flight, stop, suspending,
                  answering, ran, issued>>
  BY DEF toolVars
<1>1. TurnsOK' BY <1>0 DEF ToolInv, JournalInv, TurnsOK
<1>2. flight' \in Seq(EventRecords) /\ ValuesOK(flight')
  BY <1>0 DEF ToolInv, JournalInv, JournalTypes
<1>3. JournalInv' BY <1>0, <1>1, <1>2, IssuedSame, JournalKept DEF ToolInv
<1>4. events \in Seq(EventRecords) /\ Len(events) \in Nat
  BY DEF ToolInv, JournalInv, JournalTypes
<1>5. Unresolved(turn)' = Unresolved(turn) BY <1>0 DEF Unresolved, Where, Has, Stored
<1>6. \A c : /\ Asked(c)' <=> Asked(c)
             /\ Answered(c) => Answered(c)'
             /\ Guarded(c)' <=> Guarded(c)
             /\ Allowed(c) => Allowed(c)'
             /\ \A i \in Responses(c)' : i \in Responses(c) \/ i > Len(events)
  BY <1>0, SameQueries
<1>7. Undisturbed BY <1>0, <1>4, <1>5, <1>6 DEF Undisturbed
<1>8. ExecInv' BY <1>0, <1>7, ExecSame DEF ToolInv, ExecInv, HarnessTypes, AtOK
<1> QED BY <1>3, <1>8 DEF ToolInv

LEMMA ToolStep == ToolInv /\ [ToolNext]_toolVars => ToolInv'
<1> SUFFICES ASSUME ToolInv, [ToolNext]_toolVars PROVE ToolInv' OBVIOUS
<1>1. CASE Executes
  BY <1>1, LandedStep, RestoreStep, LoadStep, ModelRoundStep, ModelAsksStep, ModelAnswersStep,
     ModelFailsStep, AuthorizeStep, WatchEventsStep, WaitStep, ExecuteStep, ToolResultStep DEF Executes
<1>2. CASE Listens
  BY <1>2, StopStep, NoticeStopStep, BoundaryStep, FinalizeStep DEF Listens
<1>3. CASE AppendError BY <1>3, AppendErrorStep
<1>4. CASE \E u \in Users : FindPending(u) \/ Respond(u) BY <1>4, FindPendingStep, RespondStep
<1>5. CASE \E c \in {"none", "suspend", "cancel", "shutdown"} : Control(c) BY <1>5, StopStep
<1>6. CASE StartTurn \/ Recover \/ AppendLands \/ TurnCrash
  BY <1>6, StartStep, RecoverStep, PutLandsStep, CrashStep
<1>7. CASE UNCHANGED toolVars BY <1>7, Stutters
<1> QED BY <1>1, <1>2, <1>3, <1>4, <1>5, <1>6, <1>7 DEF ToolNext

LEMMA ToolInvAlways == ToolSpec => []ToolInv
BY ToolInitInv, ToolStep, PTL DEF ToolSpec

--------------------------------------------------------------------------------
\* What it says

\* Between rounds nothing is open: what the model is called with has its results.
LEMMA NothingOpen ==
  ASSUME ToolInv, work = "active", exec.at \in {"model", "answer"}, flight = <<>>
  PROVE  pendingTools = {} /\ Unresolved(turn) = {}
<1>1. exec.todo = {} BY DEF ToolInv, ExecInv, AtOK, NoCall
<1>2. exec.todo = UpdatePendingTools(flight) /\ pendingTools = Unresolved(turn)
  BY DEF ToolInv, ExecInv, PendingOK
<1>3. UpdatePendingTools(flight) = pendingTools BY IdsOfNone DEF UpdatePendingTools
<1> QED BY <1>1, <1>2, <1>3

\* The journal, the executor and the harness keep their types, and a turn calls
\* the model at most Limit + 1 times, across crashes, suspensions and recoveries.
THEOREM ToolTypesCorrect == ToolSpec => []ToolTypeOK
<1>1. ToolInv => ToolTypeOK
  <2> SUFFICES ASSUME ToolInv PROVE ToolTypeOK OBVIOUS
  <2>0. JournalTypes /\ HarnessTypes /\ AtOK BY DEF ToolInv, JournalInv, ExecInv
  <2>1. \A i \in DOMAIN events :
          /\ events[i].kind \in EventKinds /\ events[i].turn \in 1..MaxTurns
          /\ events[i].id \in 0..MaxCalls /\ events[i].stored \in BOOLEAN
    <3>1. \A i \in DOMAIN events : events[i] \in EventRecords BY <2>0, EventTypes DEF JournalTypes
    <3> QED BY <3>1 DEF EventRecords
  <2>2. /\ exec.at \in InCall \cup NoCall /\ exec.round \in 0..Limit + 1 /\ exec.todo \subseteq Calls
        /\ exec.after \in Nat /\ exec.after <= Len(events)
    BY <2>0 DEF HarnessTypes, ExecRecords
  <2>3. Len(events) \in Nat BY <2>0 DEF JournalTypes
  <2>4. exec.after \in 0..Len(events) BY <2>2, <2>3
  <2>5. exec.at = "answer" => exec.round <= Limit BY <2>0 DEF AtOK
  <2> QED BY <2>0, <2>1, <2>2, <2>4, <2>5
          DEF ToolTypeOK, EventKinds, InCall, NoCall, JournalTypes, HarnessTypes
<1> QED BY <1>1, ToolInvAlways, PTL

\* A tool call is executed once at most, and a guarded one only after a user
\* allowed it, whatever crashes, suspensions, dropped appends and recoveries come
\* between, for any number of turns, calls and users.
THEOREM ToolsRunOnceCorrect == ToolSpec => []ToolsRunOnce
<1>1. ToolInv => ToolsRunOnce
  <2> SUFFICES ASSUME ToolInv PROVE ToolsRunOnce OBVIOUS
  <2>1. RanOK /\ ran \in [Calls -> Nat] BY DEF ToolInv, JournalInv, JournalTypes
  <2>2. RunOnce
    <3>1. \A c \in Calls : ran[c] \in Nat /\ (ran[c] > 0 => ran[c] = 1) BY <2>1 DEF RanOK
    <3> QED BY <3>1 DEF RunOnce
  <2>3. ApprovedOnly BY <2>1 DEF RanOK, Allowed, ApprovedOnly
  <2> QED BY <2>2, <2>3 DEF ToolsRunOnce
<1> QED BY <1>1, ToolInvAlways, PTL

\* An approval gets one response although several users answer, and the call
\* that waits for it finds it after the place where its watch began.
THEOREM ResponseCountsCorrect == ToolSpec => []ResponseCounts
<1>1. ToolInv => ResponseCounts
  <2> SUFFICES ASSUME ToolInv PROVE ResponseCounts OBVIOUS
  <2>1. OneResponse BY DEF ToolInv, JournalInv, ResponsesOK
  <2>2. ResponseSeen
    <3> SUFFICES ASSUME exec.at = "wait" PROVE \A i \in Responses(Call) : i > exec.after
      BY DEF ResponseSeen
    <3>1. exec.todo # {} /\ exec.todo \subseteq Calls
      BY DEF ToolInv, ExecInv, AtOK, InCall, HarnessTypes, ExecRecords
    <3>2. PICK q \in exec.todo : q = Call BY <3>1, FirstIn DEF Call
    <3>3. TodoAt(q) BY <3>2 DEF ToolInv, ExecInv, TodoOK, InCall
    <3> QED BY <3>2, <3>3 DEF TodoAt
  <2> QED BY <2>1, <2>2 DEF ResponseCounts
<1> QED BY <1>1, ToolInvAlways, PTL

\* When the model is called, every tool call that the turn has saved has its
\* result, whether its round was run in one piece or recovered.
THEOREM ModelSeesResultsCorrect == ToolSpec => []ModelSeesResults
<1>1. ToolInv => ModelSeesResults
  <2> SUFFICES ASSUME ToolInv, exec.at = "answer" PROVE Unresolved(turn) = {}
    BY DEF ModelSeesResults
  <2>1. work = "active" BY DEF ToolInv, ExecInv, AtOK, NoExec
  <2>2. flight = <<>> BY DEF ToolInv, ExecInv, FlightOK
  <2> QED BY <2>1, <2>2, NothingOpen
<1> QED BY <1>1, ToolInvAlways, PTL

\* The steps that call the model, and those that suspend the turn.
LEMMA CallsModel ==
  ASSUME ToolInv, [ToolNext]_toolVars, exec.at # "answer", exec'.at = "answer"
  PROVE  Polled("model")
<1>0. exec \in ExecRecords BY DEF ToolInv, ExecInv, HarnessTypes
<1>1. \A a : [exec EXCEPT !.at = a].at = a BY <1>0 DEF ExecRecords
<1>2. exec' # exec /\ exec' # NoExec BY DEF NoExec
<1>3. ASSUME NEW o, Return(o) PROVE FALSE BY <1>2, <1>3 DEF Return
<1>4. ASSUME Executes PROVE Polled("model")
  <2>1. ~Landed BY <1>0, <1>2 DEF Landed, ExecRecords
  <2>2. ~RestoreRecoveryTools BY <1>0, <1>3 DEF RestoreRecoveryTools, ExecRecords
  <2>3. ~LoadTurnProgress BY <1>0, <1>3 DEF LoadTurnProgress, ExecRecords
  <2>4. ~ModelAsksForTools BY <1>0 DEF ModelAsksForTools, AddEvents, ExecRecords
  <2>5. ~ModelAnswers BY <1>0 DEF ModelAnswers, AddEvents, ExecRecords
  <2>6. ~ModelFails /\ ~TurnReturns BY <1>3 DEF ModelFails, TurnReturns
  <2>7. ~Authorize BY <1>0 DEF Authorize, AddEvents, GoesTo, ExecRecords
  <2>8. ~WatchEvents /\ ~WaitForResponse BY <1>0 DEF WatchEvents, WaitForResponse, ExecRecords
  <2>9. ~ExecuteTool BY <1>0 DEF ExecuteTool, ExecRecords
  <2>10. ~ToolResult BY <1>0 DEF ToolResult, AddEvents, ExecRecords
  <2> QED BY <1>4, <2>1, <2>2, <2>3, <2>4, <2>5, <2>6, <2>7, <2>8, <2>9, <2>10
          DEF Executes, ModelRound
<1>5. ~Listens BY <1>2, <1>3 DEF Listens, NoticeSuspend, NoticeStop, SuspensionBoundary, Finalize
<1>6. ~AppendError BY <1>0, <1>3 DEF AppendError, ExecRecords
<1>7. ~\E u \in Users : FindPending(u) \/ Respond(u) BY <1>2 DEF FindPending, Respond
<1>8. ~\E c \in {"none", "suspend", "cancel", "shutdown"} : Control(c) BY <1>2 DEF Control
<1>9. ~(StartTurn \/ Recover \/ AppendLands \/ TurnCrash)
  BY <1>2 DEF StartTurn, Recover, AppendLands, TurnCrash, NoExec
<1>10. ~UNCHANGED toolVars BY <1>2 DEF toolVars
<1> QED BY <1>4, <1>5, <1>6, <1>7, <1>8, <1>9, <1>10 DEF ToolNext

LEMMA Suspends ==
  ASSUME ToolInv, [ToolNext]_toolVars, outcome' = "suspended", outcome # "suspended"
  PROVE  SuspensionBoundary
<1>1. outcome' # outcome OBVIOUS
<1>2. ASSUME NEW o, Return(o) PROVE o = "suspended" BY <1>2 DEF Return
<1>3. ~Executes
  BY <1>1, <1>2 DEF Executes, Landed, RestoreRecoveryTools, LoadTurnProgress, ModelRound,
     ModelAsksForTools, ModelAnswers, ModelFails, TurnReturns, Authorize, WatchEvents,
     WaitForResponse, ExecuteTool, ToolResult, harness
<1>4. ASSUME Listens PROVE SuspensionBoundary
  <2>1. ~NoticeSuspend /\ ~Finalize BY <1>1 DEF NoticeSuspend, Finalize
  <2>2. ~NoticeStop BY <1>2 DEF NoticeStop
  <2> QED BY <1>4, <2>1, <2>2 DEF Listens
<1>5. ~AppendError BY <1>1, <1>2 DEF AppendError
<1>6. ~\E u \in Users : FindPending(u) \/ Respond(u) BY <1>1 DEF FindPending, Respond, harness
<1>7. ~\E c \in {"none", "suspend", "cancel", "shutdown"} : Control(c) BY <1>1 DEF Control
<1>8. ~(StartTurn \/ Recover \/ AppendLands \/ TurnCrash)
  BY <1>1 DEF StartTurn, Recover, AppendLands, TurnCrash, harness
<1>9. ~UNCHANGED toolVars BY <1>1 DEF toolVars
<1> QED BY <1>3, <1>4, <1>5, <1>6, <1>7, <1>8, <1>9 DEF ToolNext

\* A suspension takes effect between rounds: once the select loop has seen it
\* the model is not called again, and what is suspended has no tool call open that
\* recovery could not take up.
THEOREM SuspendsCorrect == ToolSpec => SuspendsAtBoundary
<1>1. ASSUME ToolInv, [ToolNext]_toolVars
      PROVE  suspending /\ suspending' /\ exec.at # "answer" => exec'.at # "answer"
  <2> SUFFICES ASSUME suspending, exec.at # "answer", exec'.at = "answer" PROVE FALSE OBVIOUS
  <2>1. Polled("model") BY <1>1, CallsModel
  <2>2. pendingTools = {} BY <1>1, <2>1, NothingOpen DEF Polled
  <2> QED BY <2>1, <2>2 DEF Polled, AtBoundary
<1>2. ASSUME ToolInv, [ToolNext]_toolVars
      PROVE  outcome' = "suspended" /\ outcome # "suspended" /\ exec.at # "restore"
               => Unresolved(turn) = {}
  <2> SUFFICES ASSUME outcome' = "suspended", outcome # "suspended", exec.at # "restore"
               PROVE  Unresolved(turn) = {}
    OBVIOUS
  <2>1. work = "active" /\ pendingTools = {}
    BY <1>2, Suspends DEF SuspensionBoundary, AtBoundary
  <2> QED BY <1>2, <2>1 DEF ToolInv, ExecInv, PendingOK
<1>3. ToolSpec => SuspendEndsRound
  BY <1>1, ToolInvAlways, PTL DEF ToolSpec, SuspendEndsRound
<1>4. ToolSpec => SuspendsClean
  BY <1>2, ToolInvAlways, PTL DEF ToolSpec, SuspendsClean
<1> QED BY <1>3, <1>4 DEF SuspendsAtBoundary
================================================================================
