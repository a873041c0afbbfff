----------------------------- MODULE MemoryWalk -----------------------------
(***************************************************************************)
(* How a capture goes through physical memory, seen from the output: the   *)
(* runs in order, every byte of them passed once, either handed over in    *)
(* pieces of at most one transfer or skipped inside one page, and nothing  *)
(* sealed before the last run is behind.  Acquire takes no other steps;    *)
(* ImageWriters has the same ones written out as the calls it receives.    *)
(***************************************************************************)
EXTENDS Naturals, Sequences

CONSTANTS
  PageSize,     \* PHYLA_PAGE_SIZE
  MaxTransfer   \* PHYLA_MAX_TRANSFER

VARIABLES
  stage,   \* "before", "walking", "sealed" or "failed"
  runs,    \* the runs of the session, known once the walk begins
  run,     \* the run the walk is in; one past the last at the end
  offset,  \* and the place in it
  given    \* the addresses handed over

walkVars == <<stage, runs, run, offset, given>>

AtEnd == run > Len(runs)
Rest == runs[run].length - offset
Address == runs[run].base + offset
Least(a, b) == IF a < b THEN a ELSE b

(* The pieces that may be handed over, and their addresses. *)
Pieces == 1 .. Least(MaxTransfer, Rest)
Piece(n) == {Address + i : i \in 0 .. n - 1}

Advance(n) ==
  IF n = Rest THEN run' = run + 1 /\ offset' = 0
              ELSE run' = run /\ offset' = offset + n

Init == stage = "before" /\ run = 1 /\ offset = 0 /\ given = {}

Begin ==
  /\ stage = "before" /\ stage' = "walking"
  /\ runs' # <<>>
  /\ UNCHANGED <<run, offset, given>>

HandOver ==
  /\ stage = "walking" /\ ~AtEnd
  /\ \E n \in Pieces : given' = given \cup Piece(n) /\ Advance(n)
  /\ UNCHANGED <<stage, runs>>

(* What cannot be read, inside one page. *)
SkipPage ==
  /\ stage = "walking" /\ ~AtEnd
  /\ \E n \in 1 .. Least(PageSize - (Address % PageSize), Rest) : Advance(n)
  /\ UNCHANGED <<stage, runs, given>>

Seal ==
  /\ stage = "walking" /\ AtEnd /\ stage' = "sealed"
  /\ UNCHANGED <<runs, run, offset, given>>

(* A write that fails may have put a part of its piece on disk. *)
Abort ==
  /\ stage' = "failed" /\ UNCHANGED <<run, offset>>
  /\ \/ stage = "before" /\ UNCHANGED given
     \/ /\ stage = "walking" /\ UNCHANGED runs
        /\ \/ UNCHANGED given
           \/ ~AtEnd /\ \E n \in Pieces : given' = given \cup Piece(n)

Next == Begin \/ HandOver \/ SkipPage \/ Seal \/ Abort

Spec == Init /\ [][Next]_walkVars
=============================================================================
