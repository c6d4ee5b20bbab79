-------------------------------- MODULE Plan --------------------------------
(***************************************************************************)
(* hedloom_flow.model: the normalized Plan and what Plan.validate accepts, *)
(* as pure operators over a plan record.  Text, address and literal        *)
(* syntax is abstracted: names, kinds and values are opaque.  A generated  *)
(* ID is represented by exactly what its digest is taken of, so it is      *)
(* injective as SHA-256 is taken to be.                                    *)
(***************************************************************************)
EXTENDS Integers, Sequences, FiniteSets, SequencesExt

\* The root scope, an absent authored key, an absent member position.
Root == <<>>
NoKey == [base |-> "", mark |-> "none", n |-> 0]
NoMember == 0

-----------------------------------------------------------------------------
(* References, bindings and identities.                                    *)

\* ArtifactSourceReference and OutputReference.
SourceReference(id) == [source |-> id, producer |-> Root, output |-> ""]
OutputReference(id, name) == [source |-> 0, producer |-> id, output |-> name]
IsOutput(reference) == reference.producer # Root

\* InputBinding and CollectionInputBinding: a scalar has one reference.
Scalar(reference) == [many |-> FALSE, refs |-> <<reference>>]
Collection(references) == [many |-> TRUE, refs |-> references]

\* _keyed_plan_id: the containing scope and the authored key.
KeyedPlanId(scope, key) == Append(scope, key)

\* _stable_edge_id: both ends of the edge and the member position.
StableEdgeId(source, target, input, member) ==
    [number |-> 0, of |-> <<source, target, input, member>>]
NumberedEdgeId(n) == [number |-> n, of |-> <<>>]

\* The records a plan is made of.
InvocationRecord(id, operation, inputs, config, scope, key) ==
    [id |-> id, operation |-> operation, inputs |-> inputs, config |-> config,
     boundary |-> scope, key |-> key]
DependencyEdge(id, end, kind) ==
    [id |-> id, source |-> end.source, target |-> end.target, input |-> end.input,
     member |-> end.member, kind |-> kind]
NamedOutput(reference) == [name |-> "output", ref |-> reference]
FlowBoundary(id, flow, parent, outputs, key) ==
    [id |-> id, flow |-> flow, parent |-> parent, outputs |-> outputs, key |-> key]

\* The member positions a binding is indexed by: scalars have none.
Members(binding) == IF binding.many THEN DOMAIN binding.refs ELSE {NoMember}
MemberRef(binding, member) == binding.refs[IF member = NoMember THEN 1 ELSE member]

-----------------------------------------------------------------------------
(* Looking a part of the plan up by its identity.                          *)

Definition(p, identity) ==
    {d \in ToSet(p.operations) : d.identity = identity}
Invocation(p, id) == {v \in ToSet(p.invocations) : v.id = id}
Boundary(p, id) == {b \in ToSet(p.boundaries) : b.id = id}
Source(p, id) == {s \in ToSet(p.sources) : s.id = id}

\* _unique_index, _check_named_uniqueness: no two parts bear one name.
AllDistinct(names) == IsInjective(names)

\* _reference_kind: the kinds a reference may denote, none when it dangles.
ReferenceKind(p, reference) ==
    IF IsOutput(reference)
    THEN LET owners == UNION {Definition(p, v.operation) :
                                 v \in Invocation(p, reference.producer)}
         IN {d.outputs[reference.output] :
                d \in {o \in owners : reference.output \in DOMAIN o.outputs}}
    ELSE {s.kind : s \in Source(p, reference.source)}

-----------------------------------------------------------------------------
(* Plan.validate, one predicate per family of issues.                      *)

IdsAreUnique(p) ==
    /\ AllDistinct([i \in DOMAIN p.operations |-> p.operations[i].identity])
    /\ AllDistinct(p.flows)
    /\ AllDistinct([i \in DOMAIN p.sources |-> p.sources[i].id])
    /\ AllDistinct([i \in DOMAIN p.invocations |-> p.invocations[i].id])
    /\ AllDistinct([i \in DOMAIN p.edges |-> p.edges[i].id])
    /\ AllDistinct([i \in DOMAIN p.boundaries |-> p.boundaries[i].id])
    /\ AllDistinct([i \in DOMAIN p.outputs |-> p.outputs[i].name])

\* check_authored_key: keys are unique in their scope, over invocations and
\* boundaries together, and the IDs are derived from them.
Owners(p) ==
    {[is |-> "invoke", id |-> v.id, scope |-> v.boundary, key |-> v.key] : v \in ToSet(p.invocations)}
    \cup {[is |-> "flow", id |-> b.id, scope |-> b.parent, key |-> b.key] : b \in ToSet(p.boundaries)}

KeysNameTheirOwners(p) ==
    \A o \in {o \in Owners(p) : o.key # NoKey} :
        /\ o.id = KeyedPlanId(o.scope, o.key)
        /\ \A q \in Owners(p) : q.scope = o.scope /\ q.key = o.key => q = o

\* An operation may not use one name for an input and a configuration value.
ContractsAreDisjoint(p) ==
    \A d \in ToSet(p.operations) : DOMAIN d.inputs \cap d.config = {}

\* _check_boundary_cycles: no boundaries whose parents are all among them.
ParentsAreAcyclic(p) ==
    \A S \in SUBSET {b.id : b \in ToSet(p.boundaries)} :
        S # {} => \E b \in ToSet(p.boundaries) : b.id \in S /\ b.parent \notin S

BoundariesNest(p) ==
    /\ \A b \in ToSet(p.boundaries) :
          /\ b.flow \in ToSet(p.flows)
          /\ b.parent # Root => Boundary(p, b.parent) # {}
          /\ b.parent # b.id
          /\ AllDistinct([i \in DOMAIN b.outputs |-> b.outputs[i].name])
    /\ ParentsAreAcyclic(p)

\* One declared input: bound, with the declared cardinality and kind.
BoundInput(p, d, v, name) ==
    /\ name \in DOMAIN v.inputs
    /\ v.inputs[name].many = d.inputs[name].many
    /\ \A r \in ToSet(v.inputs[name].refs) : ReferenceKind(p, r) = {d.inputs[name].kind}

InvocationsBind(p) ==
    \A v \in ToSet(p.invocations) :
        /\ Definition(p, v.operation) # {}
        /\ v.boundary # Root => Boundary(p, v.boundary) # {}
        /\ \A d \in Definition(p, v.operation) :
              /\ DOMAIN v.inputs = DOMAIN d.inputs
              /\ \A name \in DOMAIN d.inputs : BoundInput(p, d, v, name)
              /\ DOMAIN v.config = d.config

\* expected_edges: every member of a collection and every scalar that is
\* produced needs an edge; a scalar source needs none.
ExpectedEdgesOf(v) ==
    UNION {{[source |-> MemberRef(v.inputs[name], m), target |-> v.id,
             input |-> name, member |-> m] :
                m \in {n \in Members(v.inputs[name]) :
                          v.inputs[name].many \/ IsOutput(MemberRef(v.inputs[name], n))}}
           : name \in DOMAIN v.inputs}

ExpectedEdges(p) == UNION {ExpectedEdgesOf(v) : v \in ToSet(p.invocations)}

EdgeOf(e) == [source |-> e.source, target |-> e.target, input |-> e.input, member |-> e.member]

\* The edge says the kind both its ends say, and is named after them when
\* both invocations have authored keys.
EdgeAgrees(p, e) ==
    /\ ReferenceKind(p, e.source) = {e.kind}
    /\ \A v \in Invocation(p, e.target) : \A d \in Definition(p, v.operation) :
          e.input \in DOMAIN d.inputs /\ d.inputs[e.input].kind = e.kind
    /\ \A v \in Invocation(p, e.target) : \A u \in Invocation(p, e.source.producer) :
          v.key # NoKey /\ u.key # NoKey =>
              e.id = StableEdgeId(e.source, e.target, e.input, e.member)

EdgesMatchBindings(p) ==
    /\ {EdgeOf(e) : e \in ToSet(p.edges)} = ExpectedEdges(p)
    /\ AllDistinct([i \in DOMAIN p.edges |->
          <<p.edges[i].target, p.edges[i].input, p.edges[i].member>>])
    /\ \A e \in ToSet(p.edges) : EdgeAgrees(p, e)

\* The invocations whose outputs the edges bring to this one.
Producers(p, id) ==
    {e.source.producer : e \in {e \in ToSet(p.edges) : e.target = id /\ IsOutput(e.source)}}

\* Mutant: only an invocation that feeds itself is a cycle.
CircularMutant(p, S) == \E id \in S : id \in Producers(p, id)

\* What _has_dependency_cycle finds by following edges: invocations that all
\* wait for one another.
Circular(p, S) == S # {} /\ \A id \in S : Producers(p, id) \cap S # {}

Acyclic(p) == \A S \in SUBSET {v.id : v \in ToSet(p.invocations)} : ~ Circular(p, S)

\* _is_boundary_descendant, which follows parents: whatever holds the candidate
\* and, with a boundary, its parent, holds the ancestor.
IsBoundaryDescendant(p, candidate, ancestor) ==
    \A S \in SUBSET ({candidate} \cup {b.parent : b \in ToSet(p.boundaries)}) :
        candidate \in S /\ (\A b \in ToSet(p.boundaries) : b.id \in S => b.parent \in S)
            => ancestor \in S

OutputsAreOwned(p) ==
    /\ \A b \in ToSet(p.boundaries) : \A o \in ToSet(b.outputs) :
          /\ ReferenceKind(p, o.ref) # {}
          /\ \A v \in Invocation(p, o.ref.producer) :
                IsBoundaryDescendant(p, v.boundary, b.id)
    /\ \A o \in ToSet(p.outputs) : ReferenceKind(p, o.ref) # {}

Valid(p) ==
    /\ IdsAreUnique(p)
    /\ KeysNameTheirOwners(p)
    /\ ContractsAreDisjoint(p)
    /\ BoundariesNest(p)
    /\ InvocationsBind(p)
    /\ EdgesMatchBindings(p)
    /\ Acyclic(p)
    /\ OutputsAreOwned(p)
=============================================================================
