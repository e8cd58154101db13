----------------------------- MODULE AcceptedWork -----------------------------
(***************************************************************************)
(* What TurnAdmission and TurnQueue (turn_coordinator.rs) promise about    *)
(* accepted work, without leases, receipts, watches or restarts: a turn    *)
(* is accepted once, at the end of the queue; the head alone completes;    *)
(* a cancellation is never withdrawn.  TurnCoordinator implements it.      *)
(***************************************************************************)
EXTENDS Sequences

CONSTANT Turns

VARIABLES queue,      \* accepted turns that are not complete, in order
          done,       \* complete turns
          cancelled   \* turns of the queue that must not run on

vars == <<queue, done, cancelled>>

Queued == {queue[i] : i \in DOMAIN queue}

Init == queue = <<>> /\ done = {} /\ cancelled = {}

\* Append a new turn; interrupted is empty, or the head that it cancels.
Accept(t, interrupted) ==
  /\ t \notin Queued \cup done
  /\ queue' = Append(queue, t)
  /\ cancelled' = cancelled \cup interrupted
  /\ UNCHANGED done

Cancel(t) ==
  /\ t \in Queued
  /\ cancelled' = cancelled \cup {t}
  /\ UNCHANGED <<queue, done>>

Complete ==
  /\ queue # <<>>
  /\ queue' = Tail(queue)
  /\ done' = done \cup {queue[1]}
  /\ cancelled' = cancelled \ {queue[1]}

Next ==
  \/ \E t \in Turns : Accept(t, {})
  \/ queue # <<>> /\ \E t \in Turns : Accept(t, {queue[1]})
  \/ \E t \in Turns : Cancel(t)
  \/ Complete

Spec == Init /\ [][Next]_vars
=============================================================================
