----------------------------- MODULE MCRetention -----------------------------
(* The models of Retention that TLC checks.                                 *)
EXTENDS Retention, TLC

KeeperSymmetry == Permutations(Keeper)
=============================================================================
