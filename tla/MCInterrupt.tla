----------------------------- MODULE MCInterrupt -----------------------------
(* The model of Interrupt that TLC checks.                                  *)
EXTENDS Interrupt, TLC

PoolSymmetry == Permutations(Worker) \cup Permutations(Command)
=============================================================================
