--------------------------- MODULE MCDeviceClient ---------------------------
(***************************************************************************)
(* Every array of at most two entries over words of three bits, and some   *)
(* of three.                                                               *)
(***************************************************************************)
EXTENDS DeviceClient

MCEntry(b, n) == [base |-> b, length |-> n]

MCThrees ==
  { <<MCEntry(2, 1), MCEntry(0, 1), MCEntry(1, 1)>>,
    <<MCEntry(1, 1), MCEntry(2, 1), MCEntry(0, 1)>>,
    <<MCEntry(2, 1), MCEntry(0, 0), MCEntry(0, 1)>> }

MCReported == MCThrees \cup UNION {[1..n -> Entry] : n \in 0..2}

MCLater ==
  { <<MCEntry(0, 2)>>, <<MCEntry(2, 1), MCEntry(0, 1)>> }
=============================================================================
