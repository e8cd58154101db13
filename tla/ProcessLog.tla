------------------------------ MODULE ProcessLog ------------------------------
(***************************************************************************)
(* What a managed sandbox process promises its readers: a log to which     *)
(* output is appended while the process runs, and which the one event      *)
(* that ends it closes for good.                                           *)
(***************************************************************************)
EXTENDS Sequences

CONSTANTS Output,   \* output events
          Ends      \* how a process may end: its last event and its status

VARIABLES log, status

Init == log = <<>> /\ status = "running"

Emit == status = "running" /\ \E e \in Output : log' = Append(log, e) /\ UNCHANGED status

Close == status = "running" /\ \E e \in Ends : log' = Append(log, e) /\ status' = e

Spec == Init /\ [][Emit \/ Close]_<<log, status>>
================================================================================
