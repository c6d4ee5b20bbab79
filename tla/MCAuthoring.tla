----------------------------- MODULE MCAuthoring -----------------------------
(***************************************************************************)
(* Small sets of operations for TLC to author with.                        *)
(***************************************************************************)
EXTENDS Authoring

One(kind) == InputContract(kind, FALSE)
Many(kind) == InputContract(kind, TRUE)

\* What each is there for: gather has a collection and an edited body, round's
\* results are identified by content, probe is executed at each submission,
\* solve has a configuration and, in one run, a second version.
Gather(body) == OperationDefinition("gather", 1, body, [of |-> Many("file")], {}, "file", {})
Round == OperationDefinition("round", 1, 1, [of |-> One("file")], {}, "file", {"lossy"})
Probe == OperationDefinition("probe", 1, 1, <<>>, {}, "file", {"fresh"})
Solve(version, body) == OperationDefinition("solve", version, body, <<>>, {"x"}, "file", {})

Edited == {Gather(1), Gather(2), Round, Probe}
Versions == {Solve(1, 1), Solve(2, 2)}

Named == [base |-> "k", mark |-> "", n |-> 0]
Keys == {Named}
NoKeys == {}
TwoPoints == <<1, 2>>
NoPoints == <<>>
ThreeThenOne == <<3, 1>>
JustTwo == <<2>>
=============================================================================
