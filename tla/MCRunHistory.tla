----------------------------- MODULE MCRunHistory -----------------------------
(***************************************************************************)
(* RunHistory for TLC: submissions are interchangeable.                    *)
(***************************************************************************)
EXTENDS RunHistory, TLC

WriterSymmetry == Permutations(Writer)
=============================================================================
