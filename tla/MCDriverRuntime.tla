--------------------------- MODULE MCDriverRuntime ---------------------------
(***************************************************************************)
(* DriverRuntime for TLC: two processes, so that one replaces, stops or    *)
(* waits for the service of the other, and two runs in all, each of either *)
(* process.  The first captures and may be interrupted, the second makes   *)
(* dry runs and may be killed.  A driver may be running that an earlier    *)
(* process has left, so that both find it, and each keeps its record alive *)
(* for the other.  With one process and one run the violations of the two  *)
(* documented claims are as short as they can be.                          *)
(***************************************************************************)
EXTENDS DriverRuntime, TLC

CONSTANTS p1, p2

MCProcess == {p1, p2}
MCAlone   == {p1}
MCOther   == {p2}
MCNobody  == {}

MCAbandoned == {[image |-> 0, state |-> "running", marked |-> FALSE]}
=============================================================================
