--------------------------- MODULE MCImageWriters ---------------------------
(***************************************************************************)
(* ImageWriters for TLC, in units of half a page.  The layouts have a gap, *)
(* touching runs, more runs than a header holds (two), a last chunk that   *)
(* is padded (four), a third chunk whose offset wraps (ten) and a gap      *)
(* larger than the headroom.  The volumes have exactly what a preflight    *)
(* asks for, or less, or much more, and one of them cannot hold a file of  *)
(* the larger logical sizes.                                               *)
(***************************************************************************)
EXTENDS ImageWriters

Run(b, n) == [base |-> b, length |-> n]
Volume(s, f, n) == [sparse |-> s, fat |-> f, free |-> n]

MCLayouts == {
  <<Run(0, 4), Run(6, 6)>>,
  <<Run(2, 4), Run(6, 2), Run(10, 2)>>,
  <<Run(0, 2), Run(30, 2)>>,
  <<Run(0, 2)>>}

MCVolumes == {
  Volume(TRUE, FALSE, 30), Volume(TRUE, FALSE, 15),
  Volume(FALSE, FALSE, 32), Volume(FALSE, FALSE, 26), Volume(FALSE, TRUE, 60),
  Volume(FALSE, FALSE, 60)}
=============================================================================
