----------------------------- MODULE Provenance -----------------------------
(***************************************************************************)
(* What an acquisition promises, without saying how memory is read: every  *)
(* byte of the frozen physical memory ends up either with the value that   *)
(* was observed for it or with the NTSTATUS that says why it was not, never *)
(* both, and what is known about a byte is never rewritten.  Completion is *)
(* possible only when no physical byte is unknown, and the digest published*)
(* then is that of the flat image, in which unreadable bytes and the holes *)
(* between runs are zeros.                                                 *)
(***************************************************************************)
EXTENDS Integers, Sequences

CONSTANTS
  Address,  \* the logical addresses of the image
  Byte,     \* the values a byte may have
  Zero,     \* the value that stands for what was not observed
  Status,   \* the NTSTATUS codes of a failed copy
  Unknown   \* nothing is known about the byte

VARIABLES
  phys,     \* the physical addresses frozen when the session began
  bytes,    \* address -> its value, the NTSTATUS of its failure, or Unknown
  outcome,  \* "running", "completed" or "failed"
  digest    \* the stream that was hashed, once it is final

provenanceVars == <<phys, bytes, outcome, digest>>

Known(a) == bytes[a] # Unknown

(* The flat RAW byte of an address. *)
Flat(a) == IF bytes[a] \in Byte THEN bytes[a] ELSE Zero

Init ==
  /\ phys = {}
  /\ bytes = [a \in Address |-> Unknown]
  /\ outcome = "running"
  /\ digest = <<>>

Freeze ==
  /\ outcome = "running" /\ phys = {}
  /\ phys' # {} /\ phys' \subseteq Address
  /\ UNCHANGED <<bytes, outcome, digest>>

(* Some bytes become known; what was known stays as it was. *)
Learn ==
  /\ bytes' \in [Address -> Byte \cup Status \cup {Unknown}]
  /\ \A a \in Address : Known(a) => bytes'[a] = bytes[a]
  /\ \A a \in Address : bytes'[a] # Unknown => a \in phys

Classify ==
  /\ outcome = "running" /\ Learn
  /\ UNCHANGED <<phys, outcome, digest>>

Complete ==
  /\ outcome = "running" /\ phys # {}
  /\ \A a \in phys : Known(a)
  /\ outcome' = "completed"
  /\ \A a \in phys : a < Len(digest')
  /\ Len(digest') - 1 \in phys
  /\ digest' = [i \in 1..Len(digest') |-> Flat(i - 1)]
  /\ UNCHANGED <<phys, bytes>>

(* A failing write may leave a part of the last transfer behind. *)
Abort ==
  /\ outcome = "running" /\ Learn
  /\ outcome' = "failed"
  /\ UNCHANGED <<phys, digest>>

Next == Freeze \/ Classify \/ Complete \/ Abort

Spec == Init /\ [][Next]_provenanceVars
=============================================================================
