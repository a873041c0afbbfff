--------------------------- MODULE EvidenceBundle ---------------------------
(***************************************************************************)
(* The bundle a completed RAW acquisition is published as, judged by the   *)
(* offline verifier: Acquire composed with WriteMapJson (cli/map.cpp), the *)
(* file RawWriter leaves, and Verifier.  How the three files reach their   *)
(* final names is EvidenceTransaction's matter.                            *)
(***************************************************************************)
EXTENDS Acquire

V == INSTANCE Verifier

StatusFromSpansOnly ==
  IF unreadableBytes # 0 THEN "incomplete" ELSE "complete"

(* WriteMapJson's terminal status. *)
MapStatus ==
  IF unreadableBytes # 0 \/ topologyChanged THEN "incomplete" ELSE "complete"

(* The fields WriteMapJson prints that the verifier looks at. *)
MapJson ==
  [status |-> MapStatus, logicalSize |-> LogicalSize,
   physicalBytes |-> PhysicalBytes, acquiredBytes |-> acquiredBytes,
   unreadableBytes |-> unreadableBytes, topologyChanged |-> topologyChanged,
   sha256 |-> hashed, ranges |-> runs, unreadable |-> unreadable]

(* RawWriter sets the end of a sparse file first, so what was never written *)
(* reads as zeros.                                                          *)
RawFile ==
  [size |-> LogicalSize,
   at |-> [a \in 0 .. LogicalSize - 1 |-> RawByte(a)]]

(* What the engine completes is what the verifier, which trusts nothing of *)
(* it, accepts: geometry, sums, status, zero-backed spans and the hash of  *)
(* the file.  Its only possible objection is a span joined across two runs *)
(* (see SpansWithinOneRun), and that it never has unless two runs touch.   *)
OnlyContainmentIsRefused ==
  LET accepted == V!VerifyBundle(MapJson, RawFile, hashed) IN
  pc = "completed" =>
    /\ SpansWithinOneRun <=> accepted
    /\ ~Touching(runs) => accepted
=============================================================================
