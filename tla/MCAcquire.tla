----------------------------- MODULE MCAcquire -----------------------------
(***************************************************************************)
(* Small instances of Acquire: pages of 2 bytes, transfers of 4, images of *)
(* at most 8 bytes.                                                        *)
(***************************************************************************)
EXTENDS EvidenceBundle

MCRun(k, b, n) == [driverIndex |-> k, base |-> b, length |-> n]

(* Runs that start and end inside a page, with a hole before and between   *)
(* them, reported by the driver in another order than that of addresses.   *)
Apart == <<MCRun(1, 1, 4), MCRun(0, 6, 1)>>

(* Two runs that touch inside a page, the first longer than a transfer.    *)
TouchingRuns == <<MCRun(0, 0, 5), MCRun(1, 5, 2)>>

MCLayouts == {Apart, TouchingRuns}

MCBefore ==
  [rs \in MCLayouts |->
    [i \in 1 .. Len(rs) + 1 |->
       IF i = 1 THEN 0
       ELSE IF i = 2 THEN rs[1].length ELSE rs[1].length + rs[2].length]]
=============================================================================
