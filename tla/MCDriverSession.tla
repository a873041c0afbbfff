-------------------------- MODULE MCDriverSession --------------------------
(***************************************************************************)
(* A small instance of DriverSession: addresses of three bits, machines    *)
(* with one run or two.                                                    *)
(***************************************************************************)
EXTENDS DriverSession

MCTables ==
  { <<[base |-> 1, length |-> 3]>>,
    <<[base |-> 1, length |-> 3], [base |-> 6, length |-> 1]>> }
=============================================================================
