--------------------------- MODULE MCLocalSessions ---------------------------
(* One process with two tasks: the smallest instance in which a fork and a    *)
(* deletion meet.                                                             *)
EXTENDS LocalSessions

MCHostOf == <<3, 3>>
=============================================================================
