---------------------------- MODULE MCController ----------------------------
(* Instances of the controller: one shared invocation, or a chain of two. *)
EXTENDS Controller, TLC

\* One pooled invocation that every Run of the instance submits.
SingleKeyOf == [i \in Items |-> "k"]
SingleAfter == [i \in Items |-> {}]
\* Two invocations, the second after the first.
ChainKeyOf == [i \in Items |-> i]
ChainAfter == [i \in Items |-> IF i = "second" THEN {"first"} ELSE {}]
WholePlan == [r \in Runs |-> Items]
\* One Run submits both invocations of the chain, any other only the first.
CONSTANT LongRun
ChainPlan == [r \in Runs |-> IF r = LongRun THEN Items ELSE {"first"}]
OnePlace == [k \in Keys |-> "place"]
TwoSlots == [p \in Places |-> 2]
OneSlot == [p \in Places |-> 1]
RunSymmetry == Permutations(Runs)
=============================================================================
