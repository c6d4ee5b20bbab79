------------------------------- MODULE Planned -------------------------------
(***************************************************************************)
(* hedloom_exec.planned: from the Plan document to the order and the       *)
(* identity under which each invocation is executed or reused.  A digest   *)
(* is represented by what it is taken of.                                  *)
(***************************************************************************)
EXTENDS Plan

\* _dependencies: the producers an invocation's inputs name.
Dependencies(v) ==
    {r.producer : r \in {r \in UNION {ToSet(v.inputs[name].refs) : name \in DOMAIN v.inputs} :
                            IsOutput(r)}}

\* _ordered: passes over the document until a pass emits nothing new; what is
\* still missing then is a cycle or a dangling reference, and is refused.
OnePass(emitted, document) ==
    LET Emit(acc, v) ==
            IF v \notin ToSet(acc) /\ Dependencies(v) \subseteq {u.id : u \in ToSet(acc)}
            THEN Append(acc, v) ELSE acc
    IN FoldLeft(Emit, emitted, document)

Ordered(document) == FoldLeft(LAMBDA acc, v : OnePass(acc, document), <<>>, document)
Derivable(document) == Len(Ordered(document)) = Len(document)

\* prepare_invocations looks a definition up by the operation's name; the
\* document lists them by name and version, and the last of a name wins.
Described(p, operation) ==
    CHOOSE d \in ToSet(p.operations) : d.identity[1] = operation[1] /\
        \A c \in ToSet(p.operations) : c.identity[1] = operation[1] => c.identity[2] <= d.identity[2]

\* _implementations_for: bodies go by name too, and the last one authored wins.
Implementation(p, operation) ==
    Last(SelectSeq(p.operations, LAMBDA d : d.identity[1] = operation[1]))

\* Mutant: a source is identified by its declaration alone.
SourceIdentityMutant(s, fingerprint) == [address |-> s.address, kind |-> s.kind]

\* _source_identity: the declaration and the fingerprint of what is there now.
SourceIdentity(s, fingerprint) ==
    [address |-> s.address, kind |-> s.kind, fingerprint |-> fingerprint[s.address]]

\* What finalize_invocation puts in place of each reference: the identity of
\* the source, or of the artifact its producer selected.
InputIdentities(p, v, fingerprint, artifacts) ==
    LET Identity(r) ==
            IF IsOutput(r) THEN artifacts[r.producer][r.output]
            ELSE SourceIdentity(CHOOSE s \in Source(p, r.source) : TRUE, fingerprint)
    IN [name \in DOMAIN v.inputs |->
            [many |-> v.inputs[name].many,
             refs |-> [i \in DOMAIN v.inputs[name].refs |-> Identity(v.inputs[name].refs[i])]]]

\* input_digest over the identity-bearing keys of the bundle: never the
\* authored key, the scope or the placement.
BundleIdentity(d, v, inputs, observation) ==
    [operation |-> v.operation, implementation |-> d.body, arguments |-> v.config,
     inputs |-> inputs, observation |-> IF d.fresh THEN observation ELSE 0]
=============================================================================
