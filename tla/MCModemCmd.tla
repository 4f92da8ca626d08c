------------------------------ MODULE MCModemCmd ------------------------------
(***************************************************************************)
(* ModemCmd on small instances. Threads are interchangeable, so safety     *)
(* runs use symmetry; the liveness runs do not.                            *)
(***************************************************************************)
EXTENDS ModemCmd, TLC

ThreadSymmetry == Permutations(Thread)
=============================================================================
