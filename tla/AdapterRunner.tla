----------------------------- MODULE AdapterRunner -----------------------------
(***************************************************************************)
(* The adapter runner of crates/executor/src/native/adapter for one        *)
(* adapter: run_adapters_watch and supervise_adapter of runtime.rs, the    *)
(* worker loop of worker.rs with its latched stop, and the adapter record  *)
(* of store.rs, which the tools of a turn and the tasks of the runner read *)
(* and write back without a lock.  Messages, their markers and the outbox  *)
(* are in AdapterOutbox; files that cannot be read or written are left out.*)
(***************************************************************************)
EXTENDS Naturals, Sequences, FiniteSets

CONSTANTS Targets,   \* conversations that can be made for a target, in order
          MaxTools,  \* bound: enable, disable and delete calls
          MaxTaken,  \* bound: worker events
          MaxFails,  \* bound: workers that die, runners that crash or drain
          Gone       \* no record, no conversation, no call

ASSUME RunnerAssumption == MaxTools \in Nat /\ MaxTaken \in Nat /\ MaxFails \in Nat

VARIABLES rec,       \* the adapter record: enabled or not, or Gone
          calls,     \* per actor, the record it has read and what it will write
          wanted,    \* history: what the last tool call asked for
          stale,     \* history: a record that had changed was written back
          runner,    \* "down", "up" or "draining"
          drain,     \* the drain token
          marker,    \* the drain marker file
          sup,       \* the supervisor of the adapter
          worker,    \* the worker process runs
          stopping,  \* the latch of run_worker_loop
          inbox,     \* events accepted and not yet taken, in order
          pend,      \* pending_events
          doing,     \* the event in hand: its kind and its step
          cut,       \* history: what has ended a turn halfway
          mapping,   \* the target conversation on record
          alive,     \* conversations that exist
          used,      \* history: conversations that messages went to
          tools, taken, fails

runnerVars == <<rec, calls, wanted, stale, runner, drain, marker, sup, worker, stopping, inbox,
                pend, doing, cut, mapping, alive, used, tools, taken, fails>>

Actors == {"tool", "events", "supervisor"}
NoEvent == [kind |-> "none", step |-> "none", to |-> Gone]
recVars == <<rec, calls, wanted, stale>>
loopVars == <<worker, stopping, inbox, pend, doing, cut>>
procVars == <<runner, drain, marker>>
threadVars == <<mapping, alive, used>>
bounds == <<tools, taken, fails>>

RunnerInit ==
  /\ rec = "on" /\ calls = [a \in Actors |-> Gone] /\ wanted = "on" /\ stale = FALSE
  /\ runner = "down" /\ drain = FALSE /\ marker = FALSE /\ sup = "none"
  /\ worker = FALSE /\ stopping = FALSE /\ inbox = <<>> /\ pend = 0 /\ doing = NoEvent
  /\ cut = {} /\ mapping = Gone /\ alive = {} /\ used = {}
  /\ tools = 0 /\ taken = 0 /\ fails = 0

--------------------------------------------------------------------------------
\* The adapter record: get_adapter, then put_adapter or the removal of the file.

Reading(a, kind) ==
  calls' = [calls EXCEPT ![a] = IF rec = Gone THEN Gone ELSE [kind |-> kind, copy |-> rec]]

\* disable_adapter, enable_adapter and delete_adapter; mark_connected, mark_error
\* and record_event ("touch") leave the flag as they read it.
PutRecord(call) ==
  CASE call.kind = "disable" -> "off"
    [] call.kind = "enable"  -> "on"
    [] call.kind = "delete"  -> Gone
    [] OTHER -> call.copy

Writing(a) ==
  /\ calls[a] # Gone
  /\ rec' = PutRecord(calls[a])
  /\ stale' = (stale \/ calls[a].copy # rec)
  /\ wanted' = IF a = "tool" /\ calls[a].kind # "touch" THEN PutRecord(calls[a]) ELSE wanted
  /\ calls' = [calls EXCEPT ![a] = Gone]

\* execute_enable_adapter_tool, execute_disable_adapter_tool and
\* execute_delete_adapter_tool; execute_send_adapter_message_tool only touches.
ToolRead(kind) ==
  /\ tools < MaxTools /\ tools' = tools + 1
  /\ calls["tool"] = Gone /\ rec # Gone
  /\ Reading("tool", kind)
  /\ UNCHANGED <<rec, wanted, stale, procVars, sup, loopVars, threadVars, taken, fails>>

\* delete_adapter removes the mappings of the targets too.
ToolWrite ==
  /\ Writing("tool")
  /\ mapping' = IF rec' = Gone THEN Gone ELSE mapping
  /\ UNCHANGED <<procVars, sup, loopVars, alive, used, bounds>>

--------------------------------------------------------------------------------
\* run_adapters_watch

RunnerStart ==
  /\ runner = "down" /\ runner' = "up" /\ drain' = FALSE
  /\ UNCHANGED <<recVars, marker, sup, loopVars, threadVars, bounds>>

\* The guardian asks for a restart.
DrainAsked ==
  /\ ~marker /\ fails < MaxFails /\ fails' = fails + 1 /\ marker' = TRUE
  /\ UNCHANGED <<recVars, runner, drain, sup, loopVars, threadVars, tools, taken>>

\* claim_drain_marker: the file is removed, the token cancelled.
DrainClaimed ==
  /\ runner = "up" /\ marker
  /\ marker' = FALSE /\ drain' = TRUE /\ runner' = "draining"
  /\ UNCHANGED <<recVars, sup, loopVars, threadVars, bounds>>

\* An enabled adapter that has no supervisor gets one.
Scan ==
  /\ runner = "up" /\ ~marker /\ rec = "on" /\ sup = "none"
  /\ sup' = "check"
  /\ UNCHANGED <<recVars, procVars, loopVars, threadVars, bounds>>

RunnerExit ==
  /\ runner = "draining" /\ sup = "none" /\ runner' = "down"
  /\ UNCHANGED <<recVars, drain, marker, sup, loopVars, threadVars, bounds>>

\* Mutant: terminate_worker_process_group is left out, the worker stays.
MutLoopEnds(reason) ==
  /\ stopping' = FALSE /\ inbox' = <<>> /\ pend' = 0 /\ doing' = NoEvent
  /\ cut' = IF doing.step = "turn" THEN cut \cup {reason} ELSE cut
  /\ UNCHANGED worker

\* The tasks of the worker loop are aborted and its process group killed.
LoopEnds(reason) ==
  /\ worker' = FALSE /\ stopping' = FALSE /\ inbox' = <<>> /\ pend' = 0 /\ doing' = NoEvent
  /\ cut' = IF doing.step = "turn" THEN cut \cup {reason} ELSE cut

RunnerCrash ==
  /\ runner # "down" /\ fails < MaxFails /\ fails' = fails + 1
  /\ runner' = "down" /\ drain' = FALSE /\ sup' = "none"
  /\ calls' = [calls EXCEPT !["events"] = Gone, !["supervisor"] = Gone]
  /\ LoopEnds("crash")
  /\ UNCHANGED <<rec, wanted, stale, marker, threadVars, tools, taken>>

--------------------------------------------------------------------------------
\* supervise_adapter

SupCheck ==
  /\ sup = "check"
  /\ sup' = IF drain \/ rec = Gone THEN "none" ELSE IF rec = "on" THEN "start" ELSE "check"
  /\ UNCHANGED <<recVars, procVars, loopVars, threadVars, bounds>>

\* run_adapter_loop up to the spawn of the worker.
SupStart ==
  /\ sup = "start" /\ sup' = "run" /\ worker' = TRUE
  /\ UNCHANGED <<recVars, procVars, stopping, inbox, pend, doing, cut, threadVars, bounds>>

\* It is not started, it exits, its output ends or cannot be parsed, or a task fails.
WorkerFails ==
  /\ sup \in {"start", "run"} /\ fails < MaxFails /\ fails' = fails + 1
  /\ sup' = "mark"
  /\ LoopEnds("worker")
  /\ calls' = [calls EXCEPT !["events"] = Gone]
  /\ UNCHANGED <<rec, wanted, stale, procVars, threadVars, tools, taken>>

\* mark_error, then record_event.
SupRead ==
  /\ sup \in {"mark", "note"} /\ calls["supervisor"] = Gone
  /\ Reading("supervisor", "touch")
  /\ sup' = IF rec # Gone THEN sup ELSE IF sup = "mark" THEN "note" ELSE "delay"
  /\ UNCHANGED <<rec, wanted, stale, procVars, loopVars, threadVars, bounds>>

SupWrite ==
  /\ sup \in {"mark", "note"} /\ Writing("supervisor")
  /\ sup' = IF sup = "mark" THEN "note" ELSE "delay"
  /\ UNCHANGED <<procVars, loopVars, threadVars, bounds>>

\* The restart delay, cut short by the token.
SupDelay ==
  /\ sup = "delay" /\ sup' = IF drain THEN "none" ELSE "check"
  /\ UNCHANGED <<recVars, procVars, loopVars, threadVars, bounds>>

--------------------------------------------------------------------------------
\* run_worker_loop and handle_worker_event

Kinds == {"connected", "message"}

\* A line of the worker is parsed, counted and queued.
WorkerEvent(k) ==
  /\ sup = "run" /\ ~stopping /\ taken < MaxTaken /\ taken' = taken + 1
  /\ inbox' = Append(inbox, k) /\ pend' = pend + 1
  /\ UNCHANGED <<recVars, procVars, sup, worker, stopping, doing, cut, threadVars, tools,
                 fails>>

\* The stop request is latched.
StopSeen ==
  /\ sup = "run" /\ ~stopping /\ (drain \/ rec # "on")
  /\ stopping' = TRUE
  /\ UNCHANGED <<recVars, procVars, sup, worker, inbox, pend, doing, cut, threadVars,
                 bounds>>

StopNow ==
  /\ sup = "run" /\ stopping /\ pend = 0
  /\ sup' = "delay" /\ LoopEnds("stop")
  /\ calls' = [calls EXCEPT !["events"] = Gone]
  /\ UNCHANGED <<rec, wanted, stale, procVars, threadVars, bounds>>

Take ==
  /\ sup = "run" /\ doing = NoEvent /\ inbox # <<>>
  /\ doing' = [kind |-> Head(inbox),
               step |-> IF Head(inbox) = "message" THEN "resolve" ELSE "mark",
               to |-> Gone]
  /\ inbox' = Tail(inbox)
  /\ UNCHANGED <<recVars, procVars, sup, worker, stopping, pend, cut, threadVars, bounds>>

\* mark_connected or mark_error, then record_event; record_event before the turn
\* of a message.
After(step) == CASE step = "mark" -> "note" [] step = "log" -> "turn" [] OTHER -> "done"

EventRead ==
  /\ doing.step \in {"mark", "note", "log"} /\ calls["events"] = Gone
  /\ Reading("events", "touch")
  /\ doing' = IF rec # Gone THEN doing ELSE [doing EXCEPT !.step = After(@)]
  /\ UNCHANGED <<rec, wanted, stale, procVars, sup, worker, stopping, inbox, pend, cut,
                 threadVars, bounds>>

EventWrite ==
  /\ doing.step \in {"mark", "note", "log"} /\ Writing("events")
  /\ doing' = [doing EXCEPT !.step = After(@)]
  /\ UNCHANGED <<procVars, sup, worker, stopping, inbox, pend, cut, threadVars, bounds>>

Unused == Targets \ (alive \cup used)

\* Mutant: the conversation is made under a name of its own.
MutResolve ==
  /\ doing.step = "resolve"
  /\ IF mapping \in alive
     THEN doing' = [doing EXCEPT !.step = "log", !.to = mapping] /\ UNCHANGED alive
     ELSE \E t \in Unused : /\ alive' = alive \cup {t}
                            /\ doing' = [doing EXCEPT !.step = "map", !.to = t]
  /\ UNCHANGED <<recVars, procVars, sup, worker, stopping, inbox, pend, cut, mapping, used,
                 bounds>>

\* resolve_message_conversation: the one on record, or a new one under the slug
\* of the target; where the slug is taken, the one that has it.
Resolve ==
  /\ doing.step = "resolve"
  /\ \/ /\ mapping \in alive
        /\ doing' = [doing EXCEPT !.step = "log", !.to = mapping] /\ UNCHANGED alive
     \/ /\ mapping \notin alive /\ alive = {}
        /\ \E t \in Unused : /\ alive' = {t}
                             /\ doing' = [doing EXCEPT !.step = "map", !.to = t]
     \/ /\ mapping \notin alive /\ alive # {}
        /\ \E t \in alive : doing' = [doing EXCEPT !.step = "map", !.to = t]
        /\ UNCHANGED alive
  /\ UNCHANGED <<recVars, procVars, sup, worker, stopping, inbox, pend, cut, mapping, used,
                 bounds>>

\* put_target_conversation
Map ==
  /\ doing.step = "map" /\ mapping' = doing.to /\ doing' = [doing EXCEPT !.step = "log"]
  /\ UNCHANGED <<recVars, procVars, sup, worker, stopping, inbox, pend, cut, alive, used,
                 bounds>>

\* The wakeup turn.  When it fails the worker stays up: mark_error, record_event.
TurnEnds ==
  /\ doing.step = "turn" /\ used' = used \cup {doing.to}
  /\ \E next \in {"done", "mark"} : doing' = [doing EXCEPT !.step = next]
  /\ UNCHANGED <<recVars, procVars, sup, worker, stopping, inbox, pend, cut, mapping, alive,
                 bounds>>

Handled ==
  /\ doing.step = "done" /\ doing' = NoEvent /\ pend' = IF pend > 0 THEN pend - 1 ELSE 0
  /\ UNCHANGED <<recVars, procVars, sup, worker, stopping, inbox, cut, threadVars, bounds>>

\* Somebody deletes the conversation of the target.
ThreadDeleted ==
  /\ fails < MaxFails /\ fails' = fails + 1
  /\ \E t \in alive : alive' = alive \ {t}
  /\ UNCHANGED <<recVars, procVars, sup, loopVars, mapping, used, tools, taken>>

--------------------------------------------------------------------------------

WatchStep == RunnerStart \/ DrainClaimed \/ Scan \/ RunnerExit
SupStep == SupCheck \/ SupStart \/ SupRead \/ SupWrite \/ SupDelay \/ StopSeen \/ StopNow
EventStep == Take \/ EventRead \/ EventWrite \/ Resolve \/ Map \/ TurnEnds \/ Handled

RunnerNext ==
  \/ \E kind \in {"enable", "disable", "delete", "touch"} : ToolRead(kind)
  \/ ToolWrite \/ WatchStep \/ DrainAsked \/ RunnerCrash \/ SupStep \/ WorkerFails
  \/ \E k \in Kinds : WorkerEvent(k)
  \/ EventStep \/ ThreadDeleted

RunnerSpec == RunnerInit /\ [][RunnerNext]_runnerVars

\* The runner is restarted, its tasks are polled and a turn ends.
RunnerFairness ==
  /\ WF_runnerVars(WatchStep) /\ WF_runnerVars(SupStep)
  /\ WF_runnerVars(EventStep)

FairRunnerSpec == RunnerSpec /\ RunnerFairness

--------------------------------------------------------------------------------

\* Types; a worker lives only in the loop of its supervisor, and that in a runner.
RunnerTypeOK ==
  /\ rec \in {"on", "off", Gone} /\ wanted \in {"on", "off", Gone} /\ stale \in BOOLEAN
  /\ runner \in {"down", "up", "draining"} /\ drain \in BOOLEAN /\ marker \in BOOLEAN
  /\ sup \in {"none", "check", "start", "run", "mark", "note", "delay"}
  /\ worker \in BOOLEAN /\ stopping \in BOOLEAN
  /\ inbox \in Seq(Kinds) /\ pend \in 0..MaxTaken
  /\ doing.step \in {"none", "resolve", "map", "mark", "note", "log", "turn", "done"}
  /\ mapping \in Targets \cup {Gone} /\ alive \subseteq Targets /\ used \subseteq Targets
  /\ (worker => sup = "run") /\ (runner = "down" => sup = "none")

\* What the last enable, disable or delete asked for is what the record says, as
\* long as no call of another task or process was between its read and its write.
LastCallHolds == ~stale => rec = wanted

\* A stop - a disabled adapter, a deleted one, a drain - waits for the turn in
\* hand; only a worker or a runner that dies cuts one off.
StopCutsNoTurn == "stop" \notin cut

\* A target has one conversation at most, also when the runner died between the
\* making of a conversation and the writing of its mapping.
OneThread == Cardinality(alive) <= 1

\* What users of an adapter rely on: their last call holds, their turn is not cut
\* off by a stop, and a target keeps to one conversation.
AdapterKept == LastCallHolds /\ StopCutsNoTurn /\ OneThread

\* A drain ends in the end, however many events the worker has.
DrainEnds == []<>(~drain \/ runner = "down")

\* An adapter that stays disabled or deleted loses its worker.
DisabledStops == <>[](rec # "on") => <>[]~worker
================================================================================
