------------------------- MODULE AtomicPublication -------------------------
(***************************************************************************)
(* What an evidence transaction promises about the canonical name of its   *)
(* image: a bundle appears there in one step, with all its parts from one  *)
(* and the same capture and durable, and what the capture then answers     *)
(* agrees with it.  How the parts get there is left open.                  *)
(***************************************************************************)
EXTENDS Naturals

CONSTANTS NoBundle

VARIABLES
  capture,  \* the number of captures begun so far
  busy,     \* one of them is going on
  bundle,   \* the bundle under the canonical name
  answer    \* what the last capture ended with

publicationVars == <<capture, busy, bundle, answer>>

Whole(s, d) == [session |-> s, durable |-> TRUE, degraded |-> d]

Published == bundle # NoBundle /\ bundle.image.session = capture

Init == capture = 0 /\ ~busy /\ bundle = NoBundle /\ answer = "none"

Begin ==
  /\ ~busy /\ busy' = TRUE
  /\ capture' = capture + 1
  /\ UNCHANGED <<bundle, answer>>

(* The commit point. *)
Publish ==
  /\ busy /\ bundle = NoBundle
  /\ \E d \in BOOLEAN :
       bundle' = [image |-> Whole(capture, d), map |-> Whole(capture, d),
                  hash |-> Whole(capture, d)]
  /\ UNCHANGED <<capture, busy, answer>>

Answer ==
  /\ busy /\ busy' = FALSE
  /\ answer' \in IF ~Published THEN {"failed", "cancelled"}
                 ELSE IF bundle.image.degraded THEN {"incomplete"}
                 ELSE {"complete"}
  /\ UNCHANGED <<capture, bundle>>

Crash ==
  /\ busy /\ busy' = FALSE /\ answer' = "crashed"
  /\ UNCHANGED <<capture, bundle>>

(* The operator moves the evidence away. *)
Collect ==
  /\ ~busy /\ bundle' = NoBundle
  /\ UNCHANGED <<capture, busy, answer>>

Next == Begin \/ Publish \/ Answer \/ Crash \/ Collect

Spec == Init /\ [][Next]_publicationVars
=============================================================================
