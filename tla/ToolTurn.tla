------------------------------- MODULE ToolTurn -------------------------------
(***************************************************************************)
(* The turns of one session as the basic executor runs them: rounds of a   *)
(* model call and its tool calls (crates/executor/src/basic.rs), approval  *)
(* of a tool call by a user (permissions.rs, provider.rs), the journal     *)
(* handle that counts unfinished tool calls (harness_events.rs), the task  *)
(* that can be suspended, cancelled, shut down or killed at any await      *)
(* (harness_adapter.rs), and recovery of the turn from its events.         *)
(***************************************************************************)
EXTENDS Naturals, Sequences, FiniteSets

Seqs == INSTANCE SequencesExt

CONSTANTS Limit,        \* max_tool_round_trips
          Users,        \* approval_response requests under way at once
          MaxTurns,     \* bound: turns of the session
          MaxCalls,     \* bound: tool calls that the model asks for
          MaxDisturbances \* bound: controls, crashes and failed appends

ASSUME ToolAssumption == /\ Limit \in Nat /\ MaxTurns \in Nat \ {0} /\ MaxCalls \in Nat
                         /\ MaxDisturbances \in Nat

VARIABLES events,       \* the journal, in the order of event ids
          late,         \* places of dropped appends whose put may still land
          turn,         \* the turn at the head of the queue
          work,         \* what the queue and the harness do with it
          exec,         \* where the executor's future is
          outcome,      \* HarnessTurnOutcome
          pendingTools, \* HarnessTurn.pending_tools
          flight,       \* the append that holds the lock of pending_tools
          stop,         \* the watch channel of the turn: its StopReason
          suspending,   \* what the select loop has seen of it
          historyCache,      \* history_cache: messages and cursor
          answering,    \* approval_response: the approval that was found pending
          ran,          \* how often each tool call was executed
          issued, disturbed

toolVars == <<events, late, turn, work, exec, outcome, pendingTools, flight, stop, suspending,
              historyCache, answering, ran, issued, disturbed>>

journal == <<events, late>>
harness == <<turn, work, outcome, stop, suspending>>
toolBounds == <<issued, disturbed>>

Calls == 1..MaxCalls
Tools == {"free", "guarded"}   \* always_allow and always_ask
NoHistory == [messages |-> <<>>, cursor |-> 0]
\* todo: the calls of the round without a result; ids follow the order of the requests.
NoExec == [at |-> "none", round |-> 0, todo |-> {}, resume |-> FALSE, after |-> 0]

ToolInit ==
  /\ events = <<>> /\ late = {}
  /\ turn = 1 /\ work = "accepted" /\ outcome = "none"
  /\ exec = NoExec /\ pendingTools = {} /\ flight = <<>>
  /\ stop = "none" /\ suspending = FALSE
  /\ historyCache = NoHistory
  /\ answering = [u \in Users |-> 0]
  /\ ran = [c \in Calls |-> 0]
  /\ issued = 0 /\ disturbed = 0

--------------------------------------------------------------------------------
\* Queries of the journal

Ev(kind, id, val) == [kind |-> kind, turn |-> turn, id |-> id, val |-> val, stored |-> TRUE]

Stored == {i \in DOMAIN events : events[i].stored}
Where(kind, t) == {i \in Stored : events[i].kind = kind /\ events[i].turn = t}
Has(kind, t, id) == \E i \in Where(kind, t) : events[i].id = id
Guarded(c) ==
  \E i \in DOMAIN events :
    events[i].kind = "requested" /\ events[i].id = c /\ events[i].val = "guarded"

\* The requests of the turn that have no result, and the first of some.
Unresolved(t) ==
  {events[i].id : i \in {j \in Where("requested", t) : ~Has("result", t, events[j].id)}}
First(S) == CHOOSE c \in S : \A d \in S : c <= d

SavedRounds(t) == {events[i].val : i \in Where("round", t)}
LastRound(t) == CHOOSE r \in SavedRounds(t) : \A q \in SavedRounds(t) : q <= r

\* pending_from_events
PendingApprovals(t) ==
  IF Where("ended", t) # {} THEN {}
  ELSE {events[i].id : i \in Where("approval", t)}
         \ {events[i].id : i \in Where("response", t)}

\* Mutant: an approval that was answered is taken for one that waits.
MutResumable(t, c) ==
  \E i \in Where("approval", t) : events[i].id = c /\ events[i].val = LastRound(t)

\* The unresolved call waits for a user: it has not begun.
Resumable(t, c) ==
  /\ c \in PendingApprovals(t)
  /\ \E i \in Where("approval", t) : events[i].id = c /\ events[i].val = LastRound(t)

--------------------------------------------------------------------------------
\* message_history.rs

Dangling(s) ==
  [messages |-> s.messages \o [i \in DOMAIN s.open |-> <<"result", s.open[i]>>], open |-> <<>>]

\* Mutant: a message leaves open calls open.
MutExtend(s, e) ==
  CASE e.kind \in {"input", "round", "completed"} ->
         [s EXCEPT !.messages = Append(@, <<"message", 0>>)]
    [] e.kind = "requested" ->
         [messages |-> Append(s.messages, <<"call", e.id>>), open |-> Append(s.open, e.id)]
    [] e.kind = "result" /\ Seqs!Contains(s.open, e.id) ->
         [messages |-> Append(s.messages, <<"result", e.id>>), open |-> Seqs!Remove(s.open, e.id)]
    [] OTHER -> s

Extend(s, e) ==
  CASE e.kind \in {"input", "round", "completed"} ->
         [Dangling(s) EXCEPT !.messages = Append(@, <<"message", 0>>)]
    [] e.kind = "requested" ->
         [messages |-> Append(s.messages, <<"call", e.id>>), open |-> Append(s.open, e.id)]
    [] e.kind = "result" /\ Seqs!Contains(s.open, e.id) ->
         [messages |-> Append(s.messages, <<"result", e.id>>), open |-> Seqs!Remove(s.open, e.id)]
    [] OTHER -> s

\* materialize_prompt_history: the events after the cursor of the cache.
Materialized(upTo) ==
  LET new == SelectSeq(SubSeq(events, historyCache.cursor + 1, upTo), LAMBDA e : e.stored)
      cached == [messages |-> historyCache.messages, open |-> <<>>]
  IN [messages |-> Dangling(Seqs!FoldLeft(Extend, cached, new)).messages, cursor |-> upTo]

LastStored == IF Stored = {} THEN 0 ELSE CHOOSE i \in Stored : \A j \in Stored : j <= i

--------------------------------------------------------------------------------
\* HarnessTurn

IdsOf(batch, kind) == {batch[i].id : i \in {j \in DOMAIN batch : batch[j].kind = kind}}

UpdatePendingTools(batch) ==
  (pendingTools \cup IdsOf(batch, "requested")) \ IdsOf(batch, "result")

AtBoundary == suspending /\ pendingTools = {} /\ flight = <<>>

\* The select polls the boundary before the execution.
Polled(at) == work = "active" /\ exec.at = at /\ flight = <<>> /\ ~AtBoundary

\* add_events takes the lock of pending_tools and holds it until the ack.
AddEvents(batch, next) == flight' = batch /\ exec' = next

Disturbs == disturbed < MaxDisturbances /\ disturbed' = disturbed + 1

\* The execution future returns.
Return(o) ==
  /\ exec' = NoExec /\ flight' = <<>> /\ pendingTools' = {} /\ suspending' = FALSE
  /\ work' = "stopping" /\ outcome' = o

Landed ==
  /\ work = "active" /\ flight # <<>>
  /\ events' = events \o flight
  /\ pendingTools' = UpdatePendingTools(flight)
  /\ flight' = <<>>
  /\ exec' = IF exec.at = "watch" THEN [exec EXCEPT !.after = Len(events')] ELSE exec
  /\ UNCHANGED <<late, harness, historyCache, answering, ran, toolBounds>>

\* An error of the append fails the turn; in authorize it fails the call.
AppendError ==
  /\ work = "active" /\ flight # <<>>
  /\ Disturbs
  /\ \/ /\ exec.at = "watch"
        /\ flight' = <<>> /\ exec' = [exec EXCEPT !.at = "result"]
        /\ UNCHANGED <<work, outcome, pendingTools, suspending>>
     \/ exec.at # "watch" /\ Return("failed")
  /\ UNCHANGED <<journal, turn, stop, historyCache, answering, ran, issued>>

--------------------------------------------------------------------------------
\* Recovery

\* Mutant: restore_pending_tools is left out.
MutRestored(t) == {}

Restored(t) == Unresolved(t)

\* restore_recovery_tools
RestoreRecoveryTools ==
  /\ Polled("restore")
  /\ \/ /\ Unresolved(turn) # {} => Resumable(turn, First(Unresolved(turn)))
        /\ pendingTools' = Restored(turn)
        /\ exec' = [exec EXCEPT !.at = "load"]
        /\ UNCHANGED <<flight, suspending, work, outcome>>
     \/ /\ Unresolved(turn) # {} /\ ~Resumable(turn, First(Unresolved(turn)))
        /\ Return("failed")
  /\ UNCHANGED <<journal, turn, stop, historyCache, answering, ran, toolBounds>>

\* The calls of the saved round that recovery has to finish.
ToFinish(t) == Unresolved(t)

LoadTurnProgress ==
  LET rest == ToFinish(turn) IN
  /\ Polled("load")
  /\ \/ /\ rest = {}
        /\ exec' = [exec EXCEPT !.at = "model",
                                !.round = IF SavedRounds(turn) = {} THEN 0
                                          ELSE LastRound(turn) + 1]
        /\ UNCHANGED <<flight, pendingTools, suspending, work, outcome>>
     \/ /\ rest # {} /\ Resumable(turn, First(rest))
        /\ exec' = [exec EXCEPT !.at = "authorize", !.round = LastRound(turn),
                                !.todo = rest, !.resume = TRUE]
        /\ UNCHANGED <<flight, pendingTools, suspending, work, outcome>>
     \/ /\ rest # {} /\ ~Resumable(turn, First(rest))
        /\ Return("failed")
  /\ UNCHANGED <<journal, turn, stop, historyCache, answering, ran, toolBounds>>

--------------------------------------------------------------------------------
\* run_turn_loop

OverLimit(r) == r > Limit

\* The limit, or the history and the request to the model.
ModelRound ==
  /\ Polled("model")
  /\ \/ OverLimit(exec.round) /\ Return("completed") /\ UNCHANGED historyCache
     \/ /\ ~OverLimit(exec.round)
        /\ historyCache' = Materialized(LastStored)
        /\ exec' = [exec EXCEPT !.at = "answer"]
        /\ UNCHANGED <<flight, pendingTools, suspending, work, outcome>>
  /\ UNCHANGED <<journal, turn, stop, answering, ran, toolBounds>>

\* The round marker and the requests are one append.
ModelAsksForTools ==
  /\ Polled("answer")
  /\ \E n \in 1..2 : \E tools \in [1..n -> Tools] :
       /\ issued + n <= MaxCalls
       /\ AddEvents(<<Ev("round", 0, exec.round)>>
                      \o [i \in 1..n |-> Ev("requested", issued + i, tools[i])],
                    [exec EXCEPT !.at = "authorize", !.todo = issued + 1 .. issued + n])
       /\ issued' = issued + n
  /\ UNCHANGED <<journal, harness, pendingTools, historyCache, answering, ran, disturbed>>

\* The final answer and the completion marker are one append.
ModelAnswers ==
  /\ Polled("answer")
  /\ AddEvents(<<Ev("completed", 0, 0)>>, [exec EXCEPT !.at = "return"])
  /\ UNCHANGED <<journal, harness, pendingTools, historyCache, answering, ran, toolBounds>>

ModelFails ==
  /\ Polled("answer") /\ Return("failed")
  /\ UNCHANGED <<journal, turn, stop, historyCache, answering, ran, toolBounds>>

TurnReturns ==
  /\ Polled("return") /\ Return("completed")
  /\ UNCHANGED <<journal, turn, stop, historyCache, answering, ran, toolBounds>>

--------------------------------------------------------------------------------
\* authorize and execute_tool_round

Call == First(exec.todo)
AskedFor(c) == {i \in Where("approval", turn) : events[i].id = c /\ events[i].val = exec.round}
Responses(c) == {i \in Where("response", turn) : events[i].id = c}

\* An answer that holds for the rest of the session.
AllowedForTool == \E i \in Stored : events[i].kind = "response" /\ events[i].val = "always"

Approved(i) == events[i].val # "denied"

GoesTo(at) == exec' = [exec EXCEPT !.at = at] /\ UNCHANGED flight

\* The approval is asked for, found in the journal or not needed.
Authorize ==
  LET c == Call
      saved == Responses(c)
      turnEvents == Where("approval", turn) \cup Where("response", turn)
  IN
  /\ Polled("authorize")
  /\ \/ ~exec.resume /\ (~Guarded(c) \/ AllowedForTool) /\ GoesTo("execute")
     \/ /\ ~exec.resume /\ Guarded(c) /\ ~AllowedForTool
        /\ AddEvents(<<Ev("approval", c, exec.round)>>, [exec EXCEPT !.at = "watch"])
     \/ /\ exec.resume /\ (AskedFor(c) = {} \/ saved # {})
        /\ GoesTo(IF AskedFor(c) # {} /\ \A i \in saved : Approved(i)
                  THEN "execute" ELSE "result")
     \/ /\ exec.resume /\ AskedFor(c) # {} /\ saved = {}
        /\ exec' = [exec EXCEPT !.at = "watch",
                                !.after = CHOOSE i \in turnEvents : \A j \in turnEvents : j <= i]
        /\ UNCHANGED flight
  /\ UNCHANGED <<journal, harness, pendingTools, historyCache, answering, ran, toolBounds>>

\* Mutant: the watch starts at the end of the journal.
MutWatchFrom == Len(events)

WatchFrom == exec.after

WatchEvents ==
  /\ Polled("watch")
  /\ exec' = [exec EXCEPT !.at = "wait", !.after = WatchFrom]
  /\ UNCHANGED <<journal, harness, pendingTools, flight, historyCache, answering, ran, toolBounds>>

WaitForResponse ==
  /\ Polled("wait")
  /\ \E i \in Responses(Call) :
       /\ i > exec.after
       /\ exec' = [exec EXCEPT !.at = IF events[i].val = "denied" THEN "result" ELSE "execute",
                               !.after = 0]
  /\ UNCHANGED <<journal, harness, pendingTools, flight, historyCache, answering, ran, toolBounds>>

\* tools.execute: what it does outside happens once it is called.
ExecuteTool ==
  /\ Polled("execute")
  /\ ran' = [ran EXCEPT ![Call] = @ + 1]
  /\ exec' = [exec EXCEPT !.at = "result", !.after = 0]
  /\ UNCHANGED <<journal, harness, pendingTools, flight, historyCache, answering, toolBounds>>

\* The response or the error of the call.
ToolResult ==
  /\ Polled("result")
  /\ AddEvents(<<Ev("result", Call, 0)>>,
               IF exec.todo # {Call}
               THEN [exec EXCEPT !.at = "authorize", !.todo = @ \ {Call}, !.resume = FALSE,
                                 !.after = 0]
               ELSE [exec EXCEPT !.at = "model", !.todo = {}, !.resume = FALSE, !.after = 0,
                                 !.round = @ + 1])
  /\ UNCHANGED <<journal, harness, pendingTools, historyCache, answering, ran, toolBounds>>

--------------------------------------------------------------------------------
\* approval_response

IsActive == work \in {"active", "stopping"} /\ stop \in {"none", "suspend"}

\* approval_responses.lock
MayAnswer(u) == \A v \in Users : answering[v] = 0

FindPending(u) ==
  /\ answering[u] = 0 /\ MayAnswer(u) /\ IsActive
  /\ \E c \in PendingApprovals(turn) : answering' = [answering EXCEPT ![u] = c]
  /\ UNCHANGED <<journal, harness, exec, pendingTools, flight, historyCache, ran, toolBounds>>

\* The answer, whose append is one step here: what an append may leave half done is
\* Journal's.
Respond(u) ==
  /\ answering[u] # 0
  /\ \E v \in {"approved", "always", "denied"}, i \in Stored :
       /\ events[i].kind = "approval" /\ events[i].id = answering[u]
       /\ events' = Append(events, [events[i] EXCEPT !.kind = "response", !.val = v])
  /\ answering' = [answering EXCEPT ![u] = 0]
  /\ UNCHANGED <<late, harness, exec, pendingTools, flight, historyCache, ran, toolBounds>>

--------------------------------------------------------------------------------
\* ExecutorHarness

\* A new turn: begin_turn and the spawned task.
StartTurn ==
  /\ work = "accepted"
  /\ events' = Append(events, Ev("input", 0, 0))
  /\ work' = "active" /\ stop' = "none"
  /\ exec' = [NoExec EXCEPT !.at = "model"]
  /\ UNCHANGED <<late, turn, outcome, pendingTools, flight, suspending, historyCache, answering, ran,
                 toolBounds>>

\* A turn that was suspended, interrupted or killed; a completed one is ended.
Recover ==
  /\ work = "resting"
  /\ IF Where("completed", turn) # {}
     THEN work' = "stopping" /\ outcome' = "completed" /\ UNCHANGED <<exec, stop>>
     ELSE /\ work' = "active" /\ stop' = "none" /\ exec' = [NoExec EXCEPT !.at = "restore"]
          /\ UNCHANGED outcome
  /\ UNCHANGED <<journal, turn, pendingTools, flight, suspending, historyCache, answering, ran,
                 toolBounds>>

\* SuspendTurn, ResumeTurn, CancelTurn and shutdown.
Control(c) ==
  /\ work = "active"
  /\ stop \notin (IF c = "shutdown" THEN {"cancel", "shutdown"} ELSE {"cancel", "shutdown", c})
  /\ stop' = c /\ Disturbs
  /\ UNCHANGED <<journal, turn, work, exec, outcome, pendingTools, flight, suspending, historyCache,
                 answering, ran, issued>>

\* cancelled.changed: suspending is only noted.
NoticeSuspend ==
  /\ work = "active" /\ stop \in {"none", "suspend"} /\ suspending # (stop = "suspend")
  /\ suspending' = (stop = "suspend")
  /\ UNCHANGED <<journal, turn, work, exec, outcome, pendingTools, flight, stop, historyCache,
                 answering, ran, toolBounds>>

\* An append that is dropped was not made, or its put is not cancelled with it.
NoticeStop ==
  /\ work = "active" /\ stop \in {"cancel", "shutdown"}
  /\ Return(IF stop = "cancel" THEN "cancelled" ELSE "interrupted")
  /\ \/ UNCHANGED <<journal>>
     \/ /\ flight # <<>>
        /\ events' = events \o [i \in DOMAIN flight |-> [flight[i] EXCEPT !.stored = FALSE]]
        /\ late' = Len(events) + 1 .. Len(events')
  /\ UNCHANGED <<turn, stop, historyCache, answering, ran, toolBounds>>

AppendLands ==
  /\ late # {} /\ late' = {}
  /\ \/ events' = [i \in DOMAIN events |-> IF i \in late THEN [events[i] EXCEPT !.stored = TRUE]
                                           ELSE events[i]]
     \/ UNCHANGED events
  /\ UNCHANGED <<harness, exec, pendingTools, flight, historyCache, answering, ran, toolBounds>>

\* suspension_boundary, with the lock until the execution is dropped.
SuspensionBoundary ==
  /\ work = "active" /\ AtBoundary /\ Return("suspended")
  /\ UNCHANGED <<journal, turn, stop, historyCache, answering, ran, toolBounds>>

\* TurnFinished and ExecutionStopped; the finalizer ends the turn or leaves it.
\* A process that shuts down waits for its blocking threads.
Finalize ==
  /\ work = "stopping"
  /\ \/ /\ outcome \in {"suspended", "interrupted"}
        /\ outcome = "interrupted" => late = {}
        /\ work' = "resting"
        /\ historyCache' = IF outcome = "interrupted" THEN NoHistory ELSE historyCache
        /\ UNCHANGED <<events, turn>>
     \/ /\ outcome \in {"completed", "failed", "cancelled"}
        /\ events' = events
             \o (IF outcome = "completed" /\ Where("completed", turn) = {}
                 THEN <<Ev("completed", 0, 0)>> ELSE <<>>)
             \o <<Ev("ended", 0, 0)>>
        /\ work' = IF turn = MaxTurns THEN "idle" ELSE "accepted"
        /\ turn' = IF turn = MaxTurns THEN turn ELSE turn + 1
        /\ UNCHANGED historyCache
  /\ outcome' = "none" /\ stop' = "none"
  /\ UNCHANGED <<late, exec, pendingTools, flight, suspending, answering, ran, toolBounds>>

\* The process is killed: an append in flight is lost, or was made before.
TurnCrash ==
  /\ work \in {"active", "stopping"} /\ Disturbs
  /\ work' = "resting" /\ outcome' = "none" /\ stop' = "none" /\ suspending' = FALSE
  /\ exec' = NoExec /\ pendingTools' = {} /\ flight' = <<>> /\ late' = {}
  /\ historyCache' = NoHistory
  /\ answering' = [u \in Users |-> 0]
  /\ UNCHANGED <<events, turn, ran, issued>>

--------------------------------------------------------------------------------

\* The executor's future is polled until it returns.
Executes ==
  \/ Landed \/ RestoreRecoveryTools \/ LoadTurnProgress
  \/ ModelRound \/ ModelAsksForTools \/ ModelAnswers \/ ModelFails \/ TurnReturns
  \/ Authorize \/ WatchEvents \/ WaitForResponse \/ ExecuteTool \/ ToolResult

Listens == NoticeSuspend \/ NoticeStop \/ SuspensionBoundary \/ Finalize

ToolNext ==
  \/ Executes \/ AppendError \/ Listens
  \/ \E u \in Users : FindPending(u) \/ Respond(u)
  \/ \E c \in {"none", "suspend", "cancel", "shutdown"} : Control(c)
  \/ StartTurn \/ Recover \/ AppendLands \/ TurnCrash

ToolSpec == ToolInit /\ [][ToolNext]_toolVars

--------------------------------------------------------------------------------

\* Types; the model is called at most Limit + 1 times in a turn.
ToolTypeOK ==
  /\ \A i \in DOMAIN events :
       /\ events[i].kind \in {"input", "round", "requested", "result", "approval", "response",
                              "completed", "ended"}
       /\ events[i].turn \in 1..MaxTurns /\ events[i].id \in 0..MaxCalls
       /\ events[i].stored \in BOOLEAN
  /\ late \subseteq DOMAIN events
  /\ turn \in 1..MaxTurns
  /\ work \in {"accepted", "active", "stopping", "resting", "idle"}
  /\ exec.at \in {"none", "restore", "load", "model", "answer", "authorize", "watch", "wait",
                  "execute", "result", "return"}
  /\ exec.round \in 0..Limit + 1 /\ (exec.at = "answer" => exec.round <= Limit)
  /\ exec.after \in 0..Len(events)
  /\ pendingTools \subseteq Calls /\ exec.todo \subseteq Calls
  /\ outcome \in {"none", "completed", "failed", "cancelled", "interrupted", "suspended"}
  /\ stop \in {"none", "suspend", "cancel", "shutdown"} /\ suspending \in BOOLEAN
  /\ answering \in [Users -> 0..MaxCalls]
  /\ ran \in [Calls -> Nat]

\* No tool call is executed twice, although recovery takes up the calls of a
\* saved round: restore_recovery_tools and load_turn_progress go on only where the
\* first of them still waits for its approval.
RunOnce == \A c \in Calls : ran[c] <= 1

\* A guarded tool is executed only after a user allowed this call, or the tool
\* for the session: a response that comes while the turn is recovered counts as
\* what it says.
ApprovedOnly ==
  \A c \in Calls : ran[c] > 0 /\ Guarded(c) =>
    \E i \in DOMAIN events :
      /\ events[i].kind = "response"
      /\ events[i].val = "always" \/ (events[i].id = c /\ events[i].val = "approved")

\* A tool call has its effect once at most and only with the approval it needs,
\* across crashes and recoveries.
ToolsRunOnce == RunOnce /\ ApprovedOnly

\* When the model is called, every tool call that the turn has saved has its
\* result, whether the round was run or recovered.
ModelSeesResults == exec.at = "answer" => Unresolved(turn) = {}

\* What the model is sent has exactly one result for every call, after it and
\* before any other message, also for calls that a cancelled or failed turn left open.
HistoryPaired ==
  LET m == historyCache.messages IN
  \A i \in DOMAIN m : m[i][1] = "call" =>
    \E j \in DOMAIN m :
      /\ m[j] = <<"result", m[i][2]>> /\ i < j
      /\ \A k \in DOMAIN m : /\ m[k] = m[j] => k = j
                             /\ k \in i..j => m[k][1] # "message"

\* The model never sees a tool call without its result, in this turn or an earlier one.
HistoryComplete == ModelSeesResults /\ HistoryPaired

\* An approval has one response: two users cannot both answer it.
OneResponse ==
  \A i, j \in DOMAIN events :
    events[i].kind = "response" /\ events[j].kind = "response" /\ events[i].id = events[j].id
      => i = j

\* Once the select loop has seen a suspension the model is not called again: it
\* takes effect at the end of the round, however many approvals that needs.
SuspendEndsRound ==
  [][suspending /\ suspending' /\ exec.at # "answer" => exec'.at # "answer"]_toolVars

\* A turn is suspended with no tool call open, as what recovery could not take
\* up again.  The boundary cannot know of them until a recovered turn has read them.
SuspendsClean ==
  [][outcome' = "suspended" /\ outcome # "suspended" /\ exec.at # "restore"
       => Unresolved(turn) = {}]_toolVars

\* A suspension takes effect between rounds and nowhere else.
SuspendsAtBoundary == SuspendEndsRound /\ SuspendsClean

\* A call that waits for its response gets it: none is missed between the append
\* of the approval and the watch, or while the turn was down.
ResponseSeen == exec.at = "wait" => \A i \in Responses(Call) : i > exec.after

\* An approval gets one response, and the call that waits for it sees it.
ResponseCounts == OneResponse /\ ResponseSeen
===============================================================================
