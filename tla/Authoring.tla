------------------------------ MODULE Authoring ------------------------------
(***************************************************************************)
(* hedloom_flow.authoring: a PlanDraft as the author's Python drives it,   *)
(* one action per call, sweep step, flow entry, return or failure; then    *)
(* the finished Plan is derived and run against the records that earlier   *)
(* drafts left behind.                                                     *)
(*                                                                         *)
(* A call that the draft refuses restores its checkpoint before it raises  *)
(* and changes nothing, so a refused call is a stutter; what an exception  *)
(* does to a flow it escapes from is FlowFails.  Every handle carries, as  *)
(* history, the value of the computation its author wrote (`meaning').     *)
(***************************************************************************)
EXTENDS Planned

CONSTANTS
    Definitions,  \* the operations the author may call
    FlowNames,    \* the flows, by function name
    Addresses,    \* the external artifacts
    Contents,     \* what may be found at an address
    Values,       \* configuration values
    ExplicitKeys, \* keys passed to named(...)
    Points,       \* the points of every sweep, in order
    MaxCalls,     \* bound: calls and loops in each draft, as many as it lists
    MaxDepth,     \* bound: nested flows, and nested loops
    Escapes       \* the author keeps handles of a flow that failed

ASSUME BoundsAssumption ==
    MaxCalls \in Seq(Nat) /\ MaxDepth \in Nat

\* The parameters of a Python function have names of their own, finitely many:
\* what is an input, one artifact or a collection, is no configuration value.
ASSUME ParametersAssumption ==
    \A d \in Definitions :
        /\ IsFiniteSet(DOMAIN d.inputs) /\ DOMAIN d.inputs \cap d.config = {}
        /\ \A name \in DOMAIN d.inputs : d.inputs[name].many \in BOOLEAN

VARIABLES
    phase,    \* "new", "open" (inside with), "left", "finished"
    draft,    \* the number of the draft, its identity
    graph,    \* what _checkpoint copies: everything authored so far
    stack,    \* _boundary_stack, with the checkpoint of each open flow
    held,     \* handles the author holds
    calls,    \* calls made in this draft
    sweeping, \* _SWEEP_KEY
    loops,    \* the suspended sweeps, innermost last: position and token
    plan,     \* the finished plan
    content,  \* what is at each address
    records,  \* published results: identity and value
    report    \* the results of the last run, by the reference they are read for

authored == <<phase, draft, graph, stack, held, calls>>
sweeps == <<sweeping, loops>>
executed == <<content, records, report>>
vars == <<authored, sweeps, plan, executed>>

Empty == [operations |-> <<>>, flows |-> <<>>, sources |-> <<>>, invocations |-> <<>>,
          edges |-> <<>>, boundaries |-> <<>>, parents |-> {}, names |-> {},
          keys |-> {}, nextEdge |-> 1]

NoPoint == 0
NoPlan == [Empty EXCEPT !.nextEdge = 0]

Init ==
    /\ phase = "new" /\ draft = 0 /\ graph = Empty /\ stack = <<>>
    /\ held = {} /\ calls = 0
    /\ sweeping = NoPoint /\ loops = <<>>
    /\ plan = NoPlan
    /\ content \in [Addresses -> Contents]
    /\ records = {} /\ report = {}

-----------------------------------------------------------------------------
(* Scopes, keys and handles.                                               *)

Scope == IF stack = <<>> THEN Root ELSE Last(stack).boundary

AutomaticKey(base, n) == [base |-> base, mark |-> ".", n |-> n]
SweepKey(point, base) == [base |-> base, mark |-> ":", n |-> point]

\* _automatic_names: how many automatic keys a name has had in a scope, and
\* the definition that owns the name there.
Slot(scope, base) == {s \in graph.names : s.scope = scope /\ s.base = base}
Count(scope, base) == IF Slot(scope, base) = {} THEN 0
                      ELSE (CHOOSE s \in Slot(scope, base) : TRUE).count
NameIsFree(scope, base, owner) == \A s \in Slot(scope, base) : s.owner = owner

\* _automatic_key: the counter moves with the key it hands out.
WithAutomaticName(g, scope, base, owner) ==
    [g EXCEPT !.names = (@ \ Slot(scope, base)) \cup
        {[scope |-> scope, base |-> base, owner |-> owner, count |-> Count(scope, base) + 1]}]

\* Mutant: a key that was reserved may be reserved again.
MayReserveMutant(scope, key) == TRUE

\* _reserve_key.
MayReserve(scope, key) == <<scope, key>> \notin graph.keys

\* The key of a call: the author's, the sweep point's, or the next number.
ChosenKey(base, named, point) ==
    CASE named # NoKey -> named
      [] named = NoKey /\ point # NoPoint -> SweepKey(point, base)
      [] OTHER -> AutomaticKey(base, Count(Scope, base) + 1)

\* The graph with the key of a call taken.
Keyed(base, owner, named, point) ==
    LET counted == IF named = NoKey /\ point = NoPoint
                   THEN WithAutomaticName(graph, Scope, base, owner) ELSE graph
    IN [counted EXCEPT !.keys = @ \cup {<<Scope, ChosenKey(base, named, point)>>}]

KeyIsGranted(base, owner, named, point) ==
    /\ named = NoKey /\ point = NoPoint => NameIsFree(Scope, base, owner)
    /\ MayReserve(Scope, ChosenKey(base, named, point))

\* _require_owned.
Owned(h) == h.draft = draft
Usable == {h \in held : Owned(h)}

\* ArtifactValue: the reference, its kind, the boundary it was made in.
Handle(reference, kind, boundary, meaning) ==
    [ref |-> reference, kind |-> kind, boundary |-> boundary, draft |-> draft,
     meaning |-> meaning, live |-> TRUE]

Active == phase = "open"
MayCall == Active /\ calls < MaxCalls[draft]

\* @operation: what the declarations say, and the body that is decorated.
InputContract(kind, many) == [kind |-> kind, many |-> many]
OperationDefinition(name, version, body, inputs, config, output, flags) ==
    [identity |-> <<name, version>>, name |-> name, body |-> body, inputs |-> inputs,
     config |-> config, outputs |-> [r |-> output],
     lossy |-> "lossy" \in flags, fresh |-> "fresh" \in flags, content |-> "lossy" \in flags]

\* _register_operation.
Registers(definition) ==
    \A d \in ToSet(graph.operations) : d.identity = definition.identity => d = definition
Registered(parts, part) == IF part \in ToSet(parts) THEN parts ELSE Append(parts, part)

\* What an operation computes from everything it is given; a lossy one gives
\* the same answer whatever it is given, a fresh one observes the submission.
Compute(d, config, inputs, submission) ==
    IF d.lossy THEN [body |-> d.body]
    ELSE [body |-> d.body, config |-> config, inputs |-> inputs,
          submission |-> IF d.fresh THEN submission ELSE 0]

\* What a body that is given a source reads.
FileAt(address) == [file |-> content[address]]

-----------------------------------------------------------------------------
(* The draft's context, and sources.                                       *)

\* PlanDraft.__enter__: one draft is active at a time; plan() makes a new one.
Enter ==
    /\ phase = "new" /\ draft < Len(MaxCalls)
    /\ phase' = "open" /\ draft' = draft + 1
    /\ UNCHANGED <<graph, stack, held, calls, sweeps, plan, executed>>

\* __exit__ at the end of the with block.
Leave ==
    /\ Active /\ stack = <<>> /\ loops = <<>>
    /\ phase' = "left"
    /\ UNCHANGED <<draft, graph, stack, held, calls, sweeps, plan, executed>>

\* An exception leaves the with block.  The draft can no longer be finished,
\* so nothing it holds matters any more; the loops it leaves are closed on the
\* way, the innermost first.
Abandon ==
    /\ Active
    /\ phase' = "new" /\ graph' = Empty /\ stack' = <<>> /\ held' = {} /\ calls' = 0
    /\ sweeping' = (IF loops = <<>> THEN sweeping ELSE Head(loops).old)
    /\ loops' = <<>>
    /\ UNCHANGED <<draft, plan, executed>>

\* _input_artifact: one handle per declaration, however often it is declared.
InputArtifact(address, kind) ==
    /\ Active
    /\ \A s \in ToSet(graph.sources) : s.address # address \/ s.kind # kind
    /\ LET id == Len(graph.sources) + 1
       IN /\ graph' = [graph EXCEPT !.sources =
                Append(@, [id |-> id, address |-> address, kind |-> kind])]
          /\ held' = held \cup {Handle(SourceReference(id), kind, Root, FileAt(address))}
    /\ UNCHANGED <<phase, draft, stack, calls, sweeps, plan, executed>>

-----------------------------------------------------------------------------
(* Calling an operation.                                                   *)

\* The handles an author may pass for each declared input: one, or a sequence.
Arguments(d) ==
    LET Fits(name) == {h \in Usable : h.kind = d.inputs[name].kind}
        MayPass(name) == {<<h>> : h \in Fits(name)} \cup
            (IF d.inputs[name].many
             THEN {<<pair[1], pair[2]>> : pair \in Fits(name) \X Fits(name)} ELSE {})
    IN {f \in [DOMAIN d.inputs -> UNION {MayPass(name) : name \in DOMAIN d.inputs}] :
            \A name \in DOMAIN d.inputs : f[name] \in MayPass(name)}

Bindings(d, args) ==
    [name \in DOMAIN args |->
        IF d.inputs[name].many THEN Collection([i \in DOMAIN args[name] |-> args[name][i].ref])
        ELSE Scalar(args[name][1].ref)]

\* The edges a call adds: one for every member of a collection, and one for a
\* scalar that is produced.  An edge from a source is numbered, any other is
\* named after its ends.
FromSources(v) == {e \in ExpectedEdgesOf(v) : ~IsOutput(e.source)}
FromOutputs(v) == {e \in ExpectedEdgesOf(v) : IsOutput(e.source)}

NewEdges(d, v, first) ==
    LET sourced == SetToSeq(FromSources(v))
        produced == SetToSeq(FromOutputs(v))
        Edge(e, id) == DependencyEdge(id, e, d.inputs[e.input].kind)
    IN [i \in DOMAIN sourced |-> Edge(sourced[i], NumberedEdgeId(first + i - 1))]
       \o [i \in DOMAIN produced |-> Edge(produced[i],
              StableEdgeId(produced[i].source, v.id, produced[i].input, produced[i].member))]

\* _call_operation, when nothing refuses it.
CallOperation(d, args, config, named) ==
    LET key == ChosenKey(d.name, named, sweeping)
        invocation == InvocationRecord(KeyedPlanId(Scope, key), d.identity,
                                       Bindings(d, args), config, Scope, key)
        edges == NewEdges(d, invocation, graph.nextEdge)
        meaning == Compute(d, config, [name \in DOMAIN args |->
                       [i \in DOMAIN args[name] |-> args[name][i].meaning]], draft)
    IN /\ MayCall
       /\ KeyIsGranted(d.name, d.identity, named, sweeping)
       /\ Registers(d)
       /\ graph' = [Keyed(d.name, d.identity, named, sweeping) EXCEPT
             !.operations = Registered(@, d),
             !.invocations = Append(@, invocation),
             !.edges = @ \o edges,
             !.nextEdge = @ + Cardinality(FromSources(invocation))]
       /\ held' = held \cup
             {Handle(OutputReference(invocation.id, output), d.outputs[output], Scope, meaning) :
                 output \in DOMAIN d.outputs}
       /\ calls' = calls + 1
       /\ UNCHANGED <<phase, draft, stack, sweeps, plan, executed>>

CallSome ==
    \E d \in Definitions : \E args \in Arguments(d) : \E config \in [d.config -> Values] :
        \E named \in ExplicitKeys \cup {NoKey} : CallOperation(d, args, config, named)

-----------------------------------------------------------------------------
(* Flows: a scope of their own, and all or nothing.                        *)

\* _call_flow up to the strategy's body.  A flow takes no sweep key.
EnterFlow(name, named) ==
    LET key == ChosenKey(name, named, NoPoint)
        id == KeyedPlanId(Scope, key)
    IN /\ MayCall /\ Len(stack) < MaxDepth
       /\ KeyIsGranted(name, name, named, NoPoint)
       /\ stack' = Append(stack, [boundary |-> id, flow |-> name, key |-> key,
                                  saved |-> graph, kept |-> held, loops |-> Len(loops)])
       /\ graph' = [Keyed(name, name, named, NoPoint) EXCEPT
             !.flows = Registered(@, name),
             !.parents = @ \cup {id}]
       /\ calls' = calls + 1
       /\ UNCHANGED <<phase, draft, held, sweeps, plan, executed>>

EnterSome ==
    \E name \in FlowNames : \E named \in ExplicitKeys \cup {NoKey} : EnterFlow(name, named)

\* _boundary_contains: parent links the draft has recorded, from the handle's
\* boundary up; a boundary that was rolled back has none.
BoundaryContains(ancestor, candidate) ==
    \/ candidate = ancestor
    \/ /\ IsStrictPrefix(ancestor, candidate)
       /\ \A n \in Len(ancestor) + 1 .. Len(candidate) : SubSeq(candidate, 1, n) \in graph.parents

\* The strategy returns nothing, or handles produced within the flow.
FlowReturns ==
    /\ Active /\ stack # <<>> /\ Len(loops) = Last(stack).loops
    /\ LET flow == Last(stack)
           Inside == {h \in Usable : IsOutput(h.ref) /\ BoundaryContains(flow.boundary, h.boundary)}
       IN \E outputs \in {<<>>} \cup {<<NamedOutput(h.ref)>> : h \in Inside} :
             graph' = [graph EXCEPT !.boundaries = Append(@,
                FlowBoundary(flow.boundary, flow.flow, Front(flow.boundary), outputs, flow.key))]
    /\ stack' = Front(stack)
    /\ UNCHANGED <<phase, draft, held, calls, sweeps, plan, executed>>

\* Mutant: the automatic names are left out of the checkpoint.
RestoredMutant(checkpoint) == [checkpoint EXCEPT !.names = graph.names]

\* _restore.
Restored(checkpoint) == checkpoint

\* The strategy raises, or what it returns is refused: the checkpoint comes
\* back, and the author, who may catch the exception, may still hold handles
\* that were made inside.
FlowFails ==
    /\ Active /\ stack # <<>> /\ Len(loops) = Last(stack).loops
    /\ graph' = Restored(Last(stack).saved)
    /\ stack' = Front(stack)
    /\ held' = Last(stack).kept \cup
          (IF Escapes THEN {[h EXCEPT !.live = FALSE] : h \in held \ Last(stack).kept} ELSE {})
    /\ UNCHANGED <<phase, draft, calls, sweeps, plan, executed>>

-----------------------------------------------------------------------------
(* sweep: a generator that sets the key around each point it yields.       *)

\* A loop starts: its first point is set, what was set before is remembered.
SweepStarts ==
    /\ Points # <<>>
    /\ Len(loops) < MaxDepth /\ MayCall
    /\ loops' = Append(loops, [at |-> 1, old |-> sweeping])
    /\ sweeping' = Points[1]
    /\ calls' = calls + 1
    /\ UNCHANGED <<phase, draft, graph, stack, held, plan, executed>>

\* Only a loop of the function that is running advances.
Advances == loops # <<>> /\ Active /\ (stack # <<>> => Len(loops) > Last(stack).loops)

\* What reset(token) leaves when the generator resumes after its yield.
Resumed(loop) == loop.old

SweepNext ==
    /\ Advances /\ Last(loops).at < Len(Points)
    /\ loops' = Append(Front(loops), [at |-> Last(loops).at + 1, old |-> Resumed(Last(loops))])
    /\ sweeping' = Points[Last(loops).at + 1]
    /\ UNCHANGED <<authored, plan, executed>>

\* The generator is exhausted, or closed by a break.
SweepEnds ==
    /\ Advances
    /\ sweeping' = Resumed(Last(loops))
    /\ loops' = Front(loops)
    /\ UNCHANGED <<authored, plan, executed>>

-----------------------------------------------------------------------------
(* finish, and running what was finished.                                  *)

PlanOf(outputs) ==
    [operations |-> graph.operations, flows |-> graph.flows, sources |-> graph.sources,
     invocations |-> graph.invocations, edges |-> graph.edges,
     boundaries |-> graph.boundaries, outputs |-> outputs]

OutputCandidates ==
    {<<>>} \cup {<<NamedOutput(h.ref)>> : h \in {h \in Usable : IsOutput(h.ref)}}

\* PlanDraft._finish: an invalid plan raises and leaves the draft unfinished.
Finish ==
    /\ phase = "left"
    /\ \E outputs \in OutputCandidates :
          Valid(PlanOf(outputs)) /\ plan' = PlanOf(outputs)
    /\ phase' = "finished"
    /\ UNCHANGED <<draft, graph, stack, held, calls, sweeps, executed>>

\* The artifacts of one settled invocation, by output: content identity is the
\* value itself, producer identity the digest it was produced under.
Artifacts(d, identity, value) ==
    [output \in DOMAIN d.outputs |->
        IF d.content THEN [content |-> value, output |-> output]
        ELSE [producer |-> identity, output |-> output]]

With(f, key, value) == [k \in DOMAIN f \cup {key} |-> IF k = key THEN value ELSE f[k]]

\* One invocation on its turn: reuse the record under its identity, or run it.
Settle(done, v) ==
    LET d == Described(plan, v.operation)
        identity == BundleIdentity(d, v, InputIdentities(plan, v, content, done.artifacts), draft)
        Input(r) == IF IsOutput(r) THEN done.values[r.producer]
                    ELSE FileAt((CHOOSE s \in Source(plan, r.source) : TRUE).address)
        inputs == [name \in DOMAIN v.inputs |->
                      [i \in DOMAIN v.inputs[name].refs |-> Input(v.inputs[name].refs[i])]]
        known == {r \in done.records : r.identity = identity}
        value == IF known # {} THEN (CHOOSE r \in known : TRUE).value
                 ELSE Compute(Implementation(plan, v.operation), v.config, inputs, draft)
    IN [values |-> With(done.values, v.id, value),
        artifacts |-> With(done.artifacts, v.id, Artifacts(d, identity, value)),
        records |-> done.records \cup {[identity |-> identity, value |-> value]}]

\* One submission of the finished plan; the document lists the invocations in
\* the order of their IDs, which is any order.
Submit ==
    /\ phase = "finished" /\ report = {} /\ plan.invocations # <<>>
    /\ \E order \in SetToSeqs(ToSet(plan.invocations)) :
          LET start == [values |-> <<>>, artifacts |-> <<>>, records |-> records]
              done == FoldLeft(Settle, start, Ordered(order))
          IN /\ records' = done.records
             /\ report' = {[of |-> id, value |-> done.values[id]] : id \in DOMAIN done.values}
    /\ UNCHANGED <<authored, sweeps, plan, content>>

\* Somebody edits an input in place between two drafts.
EditSource(address) ==
    /\ phase = "new"
    /\ \E c \in Contents \ {content[address]} : content' = [content EXCEPT ![address] = c]
    /\ UNCHANGED <<authored, sweeps, plan, records, report>>

\* The author lets a finished or submitted draft go.
LetGo ==
    /\ phase \in {"left", "finished"}
    /\ phase' = "new" /\ graph' = Empty /\ held' = {} /\ calls' = 0 /\ plan' = NoPlan /\ report' = {}
    /\ UNCHANGED <<draft, stack, sweeps, content, records>>

Next ==
    \/ Enter \/ Leave \/ Abandon \/ Finish \/ Submit \/ LetGo
    \/ \E address \in Addresses : InputArtifact(address, "file") \/ EditSource(address)
    \/ CallSome \/ EnterSome \/ FlowReturns \/ FlowFails
    \/ SweepStarts \/ SweepNext \/ SweepEnds

Spec == Init /\ [][Next]_vars

-----------------------------------------------------------------------------
(* Properties.                                                             *)

\* What authoring let through, finish accepts: once the with block is left,
\* Plan.validate raises for no output the author can still name, whatever was
\* called, swept, nested, failed and rolled back inside.
DraftsValidate ==
    phase = "left" => \A outputs \in OutputCandidates : Valid(PlanOf(outputs))

\* Failed work leaves no gap: a key is taken exactly when an invocation, a
\* boundary or an open flow bears it, and the automatic keys of a name in a
\* scope are numbered from 1 to its counter, so a later draft that leaves the
\* failed call out gets the same keys and the same IDs.  Only the author can
\* take an automatic key out of turn, by naming it.
KeysAreConsecutive ==
    /\ graph.keys = {<<v.boundary, v.key>> : v \in ToSet(graph.invocations)}
                     \cup {<<b.parent, b.key>> : b \in ToSet(graph.boundaries)}
                     \cup {<<Front(f.boundary), f.key>> : f \in ToSet(stack)}
    /\ \A s \in graph.names : \A n \in 1 .. s.count :
          <<s.scope, AutomaticKey(s.base, n)>> \in graph.keys
    /\ \A k \in graph.keys : k[2].mark = "." /\ k[2] \notin ExplicitKeys =>
          k[2].n \in 1 .. Count(k[1], k[2].base)

\* End to end: what a run reports under a handle's reference is the value of
\* the computation the author wrote with that handle, with the sources as they
\* are now - across reuse, renumbering, edited bodies and edited inputs.
ResultsMeanWhatWasAuthored ==
    \A h \in Usable : \A r \in report :
        h.ref.producer = r.of => r.value = h.meaning

\* The finished plan as a document somebody changed: one binding and the edges
\* that follow from it.
Rewired(v, name, reference) ==
    LET w == [v EXCEPT !.inputs[name].refs[1] = reference]
        d == CHOOSE d \in Definition(plan, v.operation) : TRUE
    IN [plan EXCEPT
           !.invocations = [i \in DOMAIN @ |-> IF @[i] = v THEN w ELSE @[i]],
           !.edges = SelectSeq(@, LAMBDA e : e.target # v.id) \o NewEdges(d, w, graph.nextEdge)]

\* Two programs decide what a plan is: flow refuses a cycle by following edges,
\* exec derives an order by following bindings.  However one input of a
\* finished plan is rewired, a plan that validates has an order from every
\* document, so nothing accepted fails at submission.
AcceptedPlansCanRun ==
    phase = "finished" =>
        \A v \in ToSet(plan.invocations) : \A u \in ToSet(plan.invocations) :
            \A name \in DOMAIN v.inputs :
                LET output == CHOOSE o \in DOMAIN Described(plan, u.operation).outputs : TRUE
                    rewired == Rewired(v, name, OutputReference(u.id, output))
                IN Valid(rewired) =>
                      \A order \in SetToSeqs(ToSet(rewired.invocations)) : Derivable(order)
=============================================================================
