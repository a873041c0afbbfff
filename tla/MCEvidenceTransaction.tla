----------------------- MODULE MCEvidenceTransaction -----------------------
(***************************************************************************)
(* Small instances of EvidenceTransaction: two captures to one path.       *)
(***************************************************************************)
EXTENDS EvidenceTransaction
=============================================================================
