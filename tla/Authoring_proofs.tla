--------------------------- MODULE Authoring_proofs ---------------------------
(***************************************************************************)
(* Keys, automatic names and what Plan.validate asks, for any operations,  *)
(* flows, explicit keys and sweeps, however deep flows nest, fail and are  *)
(* rolled back.                                                            *)
(***************************************************************************)
EXTENDS Authoring, SequenceTheorems, FiniteSetTheorems, WellFoundedInduction, TLAPS

IsSeq(s) == s \in Seq(ToSet(s))

LEMMA AppendIsSeq ==
  ASSUME NEW s, IsSeq(s), NEW x
  PROVE  LET t == Append(s, x)
         IN  /\ IsSeq(t) /\ ToSet(t) = ToSet(s) \cup {x}
             /\ Len(t) = Len(s) + 1 /\ t[Len(s) + 1] = x /\ Len(s) \in Nat
             /\ \A k \in 1 .. Len(s) : t[k] = s[k]
             /\ Front(t) = s
  <1> DEFINE S == ToSet(s) \cup {x}
             t == Append(s, x)
  <1>1. s \in Seq(S)
    <2>1. ToSet(s) \subseteq S
      OBVIOUS
    <2>2. s \in Seq(ToSet(s))
      BY DEF IsSeq
    <2> HIDE DEF S
    <2> QED
      BY <2>1, <2>2
  <1>2. /\ t \in Seq(S) /\ Len(t) = Len(s) + 1 /\ t[Len(s) + 1] = x /\ Len(s) \in Nat
        /\ \A k \in 1 .. Len(s) : t[k] = s[k]
    BY <1>1
  <1>3. ToSet(t) = S
    <2>1. DOMAIN t = 1 .. Len(s) + 1 /\ DOMAIN s = 1 .. Len(s)
      BY <1>1, <1>2
    <2> HIDE DEF t
    <2> QED
      BY <1>2, <2>1 DEF ToSet
  <1> HIDE DEF S
  <1>4. Front(t) = s
    <2>1. PICK q \in Nat : q = Len(s)
      BY <1>2
    <2> HIDE DEF t
    <2>2. /\ SubSeq(t, 1, q) \in Seq(S)
          /\ Len(SubSeq(t, 1, q)) = IF 1 <= q THEN q - 1 + 1 ELSE 0
          /\ \A k \in 1 .. q - 1 + 1 : SubSeq(t, 1, q)[k] = t[1 + k - 1]
      <3>1. \A k \in 1 .. q : t[k] \in S
        BY <1>2, <2>1
      <3> QED
        BY <3>1, SubSeqProperties
    <2>3. SubSeq(t, 1, q) = s
      <3>1. /\ Len(SubSeq(t, 1, q)) = Len(s)
            /\ \A k \in 1 .. Len(s) : SubSeq(t, 1, q)[k] = s[k]
        BY <1>2, <2>1, <2>2
      <3> QED
        BY <1>1, <2>2, <3>1, SeqEqual
    <2> QED
      BY <1>2, <2>1, <2>3 DEF Front
  <1>5. IsSeq(t)
    <2> HIDE DEF t
    <2> QED
      BY <1>2, <1>3 DEF IsSeq
  <1> QED
    BY <1>2, <1>3, <1>4, <1>5 DEF S

\* The sequence of open flows, up to one of them.
LEMMA PrefixIsSeq ==
  ASSUME NEW s, IsSeq(s), NEW q \in 0 .. Len(s)
  PROVE  LET t == SubSeq(s, 1, q)
         IN  /\ IsSeq(t) /\ Len(t) = q /\ \A k \in 1 .. q : t[k] = s[k]
             /\ ToSet(t) = {s[k] : k \in 1 .. q}
  <1> DEFINE t == SubSeq(s, 1, q)
             S == {s[k] : k \in 1 .. q}
  <1>1. /\ t \in Seq(S) /\ Len(t) = IF 1 <= q THEN q - 1 + 1 ELSE 0
        /\ \A k \in 1 .. q - 1 + 1 : t[k] = s[1 + k - 1]
    <2>1. \A k \in 1 .. q : s[k] \in S
      OBVIOUS
    <2> HIDE DEF S
    <2> QED
      BY <2>1, SubSeqProperties
  <1>2. q \in Nat /\ Len(t) = q /\ \A k \in 1 .. q : t[k] = s[k]
    <2> HIDE DEF t, S
    <2>1. q \in Nat
      OBVIOUS
    <2> QED
      BY <1>1, <2>1
  <1>3. ToSet(t) = S
    <2>1. DOMAIN t = 1 .. q
      BY <1>1, <1>2
    <2> HIDE DEF t
    <2> QED
      BY <1>2, <2>1 DEF ToSet
  <1> QED
    BY <1>1, <1>2, <1>3 DEF IsSeq

-----------------------------------------------------------------------------
(* What the induction carries.                                             *)

\* The keys that a graph's records and the open flows st bear.
Borne(g, st) ==
    {<<v.boundary, v.key>> : v \in ToSet(g.invocations)}
    \cup {<<b.parent, b.key>> : b \in ToSet(g.boundaries)}
    \cup {<<Front(f.boundary), f.key>> : f \in ToSet(st)}

\* A graph has the fields of Empty and no other.
WholeGraph(g) ==
    g = [operations |-> g.operations, flows |-> g.flows, sources |-> g.sources,
         invocations |-> g.invocations, edges |-> g.edges, boundaries |-> g.boundaries,
         parents |-> g.parents, names |-> g.names, keys |-> g.keys, nextEdge |-> g.nextEdge]

\* The automatic names against the keys: one slot for a name in a scope, its
\* counter behind as many keys, and no automatic key beyond it.
Numbered(names, keys) ==
    /\ \A s \in names : s.count \in Nat
    /\ \A s, t \in names : s.scope = t.scope /\ s.base = t.base => s = t
    /\ \A s \in names : \A n \in 1 .. s.count : <<s.scope, AutomaticKey(s.base, n)>> \in keys
    /\ \A k \in keys : k[2].mark = "." /\ k[2] \notin ExplicitKeys =>
          \E s \in names : s.scope = k[1] /\ s.base = k[2].base /\ k[2].n \in 1 .. s.count

\* A graph is in order under the flows st that are open in it.
InOrder(g, st) ==
    /\ WholeGraph(g)
    /\ IsSeq(g.invocations) /\ IsSeq(g.boundaries)
    /\ g.keys = Borne(g, st)
    /\ Numbered(g.names, g.keys)

\* So is what each open flow would fall back to, under the flows around it.
Saved(st, i) ==
    /\ IsSeq(st[i].boundary)
    /\ InOrder(st[i].saved, SubSeq(st, 1, i - 1))

KeysInv ==
    /\ IsSeq(stack)
    /\ InOrder(graph, stack)
    /\ \A i \in 1 .. Len(stack) : Saved(stack, i)
    /\ phase # "open" => stack = <<>>

-----------------------------------------------------------------------------
(* The counter and the keys.                                               *)

\* The slot of a name, of which there is at most one.
LEMMA TheSlot ==
  ASSUME Numbered(graph.names, graph.keys), NEW scope, NEW base
  PROVE  /\ Count(scope, base) \in Nat
         /\ \A s \in graph.names : s.scope = scope /\ s.base = base => s.count = Count(scope, base)
         /\ \A n \in 1 .. Count(scope, base) : <<scope, AutomaticKey(base, n)>> \in graph.keys
  <1>1. CASE Slot(scope, base) = {}
    BY <1>1 DEF Count, Slot
  <1>2. CASE Slot(scope, base) # {}
    <2>1. PICK s \in graph.names : s = (CHOOSE c \in Slot(scope, base) : TRUE)
                                   /\ s.scope = scope /\ s.base = base
      BY <1>2 DEF Slot
    <2>2. Count(scope, base) = s.count
      BY <1>2, <2>1 DEF Count
    <2> QED
      BY <2>1, <2>2 DEF Numbered
  <1> QED
    BY <1>1, <1>2

\* _automatic_key: the next number of a name keeps counters and keys together.
LEMMA NextNumber ==
  ASSUME Numbered(graph.names, graph.keys), NEW scope, NEW base, NEW owner
  PROVE  Numbered((graph.names \ Slot(scope, base)) \cup
                      {[scope |-> scope, base |-> base, owner |-> owner,
                        count |-> Count(scope, base) + 1]},
                  graph.keys \cup {<<scope, AutomaticKey(base, Count(scope, base) + 1)>>})
  <1> DEFINE c == Count(scope, base)
             slot == [scope |-> scope, base |-> base, owner |-> owner, count |-> c + 1]
             names == (graph.names \ Slot(scope, base)) \cup {slot}
             key == AutomaticKey(base, c + 1)
             keys == graph.keys \cup {<<scope, key>>}
  <1>1. /\ c \in Nat
        /\ \A s \in graph.names : s.scope = scope /\ s.base = base => s.count = c
        /\ \A n \in 1 .. c : <<scope, AutomaticKey(base, n)>> \in graph.keys
    BY TheSlot
  <1>2. /\ slot.scope = scope /\ slot.base = base /\ slot.count = c + 1
        /\ key.mark = "." /\ key.base = base /\ key.n = c + 1
    BY DEF AutomaticKey
  <1>3. \A s \in names : s = slot \/ (s \in graph.names /\ (s.scope # scope \/ s.base # base))
    BY DEF Slot
  <1>4. slot \in names /\ \A s \in graph.names : s.scope # scope \/ s.base # base => s \in names
    BY DEF Slot
  <1> HIDE DEF c, slot, names
  <1>5. \A s \in names : s.count \in Nat
    BY <1>1, <1>2, <1>3 DEF Numbered
  <1>6. \A s, t \in names : s.scope = t.scope /\ s.base = t.base => s = t
    BY <1>2, <1>3 DEF Numbered
  <1>7. ASSUME NEW s \in names, NEW n \in 1 .. s.count
        PROVE  <<s.scope, AutomaticKey(s.base, n)>> \in keys
    <2>1. CASE s = slot
      <3>1. n \in 1 .. c \/ n = c + 1
        BY <1>1, <1>2, <2>1
      <3> QED
        BY <1>1, <1>2, <2>1, <3>1
    <2>2. CASE s \in graph.names
      BY <2>2 DEF Numbered
    <2> QED
      BY <1>3, <2>1, <2>2
  <1>8. ASSUME NEW k \in keys, k[2].mark = ".", k[2] \notin ExplicitKeys
        PROVE  \E s \in names : s.scope = k[1] /\ s.base = k[2].base /\ k[2].n \in 1 .. s.count
    <2>1. CASE k = <<scope, key>>
      <3>1. k[1] = scope /\ k[2].base = base /\ k[2].n = c + 1
        <4>1. k[1] = scope /\ k[2] = key
          BY <2>1
        <4> QED
          BY <1>2, <4>1
      <3>2. c + 1 \in 1 .. c + 1
        BY <1>1
      <3> QED
        BY <1>2, <1>4, <3>1, <3>2
    <2>2. CASE k \in graph.keys
      <3>1. PICK s \in graph.names : s.scope = k[1] /\ s.base = k[2].base /\ k[2].n \in 1 .. s.count
        BY <1>8, <2>2 DEF Numbered
      <3>2. CASE s.scope = scope /\ s.base = base
        <4>1. s.count = c /\ k[2].n \in 1 .. c + 1
          BY <1>1, <3>1, <3>2
        <4> QED
          BY <1>2, <1>4, <3>1, <3>2, <4>1
      <3>3. CASE s.scope # scope \/ s.base # base
        BY <1>4, <3>1, <3>3
      <3> QED
        BY <3>2, <3>3
    <2> QED
      BY <2>1, <2>2
  <1>9. Numbered(names, keys)
    BY <1>5, <1>6, <1>7, <1>8 DEF Numbered
  <1> QED
    BY <1>9 DEF c, slot, names

\* A key that is no automatic one changes no number.
LEMMA OtherKey ==
  ASSUME Numbered(graph.names, graph.keys), NEW scope, NEW key,
         key \in ExplicitKeys \/ key.mark # "."
  PROVE  Numbered(graph.names, graph.keys \cup {<<scope, key>>})
  <1>1. <<scope, key>>[2] = key
    OBVIOUS
  <1> QED
    BY <1>1 DEF Numbered

\* A call's key, whoever chose it, is taken and nothing else is authored.
LEMMA KeyedGraph ==
  ASSUME WholeGraph(graph), Numbered(graph.names, graph.keys),
         NEW base, NEW owner, NEW named \in ExplicitKeys \cup {NoKey}, NEW point
  PROVE  LET g == Keyed(base, owner, named, point)
         IN  /\ g = [graph EXCEPT !.names = g.names, !.keys = g.keys]
             /\ g.keys = graph.keys \cup {<<Scope, ChosenKey(base, named, point)>>}
             /\ Numbered(g.names, g.keys)
  <1> DEFINE g == Keyed(base, owner, named, point)
             key == ChosenKey(base, named, point)
             keys == graph.keys \cup {<<Scope, key>>}
             automatic == named = NoKey /\ point = NoPoint
             names == (graph.names \ Slot(Scope, base)) \cup
                          {[scope |-> Scope, base |-> base, owner |-> owner,
                            count |-> Count(Scope, base) + 1]}
  <1>1. CASE automatic
    <2>1. key = AutomaticKey(base, Count(Scope, base) + 1)
      BY <1>1 DEF ChosenKey
    <2>2. Numbered(names, keys)
      <3> HIDE DEF key
      <3> QED
        BY <2>1, NextNumber
    <2>3. g = [[graph EXCEPT !.names = names] EXCEPT !.keys = @ \cup {<<Scope, key>>}]
      BY <1>1 DEF Keyed, WithAutomaticName
    <2> HIDE DEF g, key, names
    <2>4. g = [graph EXCEPT !.names = g.names, !.keys = g.keys] /\ g.names = names /\ g.keys = keys
      BY <2>3 DEF WholeGraph
    <2> QED
      BY <2>2, <2>4 DEF g, key
  <1>2. CASE ~automatic
    <2>1. key \in ExplicitKeys \/ key.mark # "."
      BY <1>2 DEF ChosenKey, SweepKey
    <2>2. Numbered(graph.names, keys)
      <3> HIDE DEF key
      <3> QED
        BY <2>1, OtherKey
    <2>3. g = [graph EXCEPT !.keys = @ \cup {<<Scope, key>>}]
      BY <1>2 DEF Keyed
    <2> HIDE DEF g, key, names
    <2>4. g = [graph EXCEPT !.names = g.names, !.keys = g.keys] /\ g.names = graph.names /\ g.keys = keys
      BY <2>3 DEF WholeGraph
    <2> QED
      BY <2>2, <2>4 DEF g, key
  <1> QED
    BY <1>1, <1>2

-----------------------------------------------------------------------------
(* The open flows.                                                         *)

\* The scope is a sequence, so the scope of a key within it is found again.
LEMMA ScopeIsSeq ==
  ASSUME KeysInv
  PROVE  IsSeq(Scope)
  <1>1. CASE stack = <<>>
    BY <1>1 DEF Scope, Root, IsSeq, ToSet
  <1>2. CASE stack # <<>>
    <2>1. Len(stack) \in 1 .. Len(stack)
      BY <1>2 DEF KeysInv, IsSeq
    <2> QED
      BY <1>2, <2>1 DEF Scope, Last, KeysInv, Saved
  <1> QED
    BY <1>1, <1>2

\* Two sequences that agree up to a position have the same prefix before it.
LEMMA PrefixAgrees ==
  ASSUME NEW st, NEW up, IsSeq(st), IsSeq(up), NEW i \in 1 .. Len(st), i <= Len(up),
         \A k \in 1 .. i : up[k] = st[k]
  PROVE  SubSeq(up, 1, i - 1) = SubSeq(st, 1, i - 1)
  <1>1. i - 1 \in 0 .. Len(st) /\ i - 1 \in 0 .. Len(up)
    BY DEF IsSeq
  <1>2. /\ IsSeq(SubSeq(st, 1, i - 1)) /\ Len(SubSeq(st, 1, i - 1)) = i - 1
        /\ \A k \in 1 .. i - 1 : SubSeq(st, 1, i - 1)[k] = st[k]
    BY <1>1, PrefixIsSeq
  <1>3. /\ IsSeq(SubSeq(up, 1, i - 1)) /\ Len(SubSeq(up, 1, i - 1)) = i - 1
        /\ \A k \in 1 .. i - 1 : SubSeq(up, 1, i - 1)[k] = up[k]
    BY <1>1, PrefixIsSeq
  <1> DEFINE a == SubSeq(st, 1, i - 1)
             b == SubSeq(up, 1, i - 1)
             S == ToSet(a) \cup ToSet(b)
  <1>4. ToSet(a) \subseteq S /\ ToSet(b) \subseteq S
    OBVIOUS
  <1>5. \A k \in 1 .. i - 1 : b[k] = a[k]
    BY <1>2, <1>3
  <1> HIDE DEF a, b, S
  <1>6. a \in Seq(S) /\ b \in Seq(S)
    BY <1>2, <1>3, <1>4 DEF IsSeq, a, b
  <1>7. a = b
    BY <1>2, <1>3, <1>5, <1>6, SeqEqual DEF a, b
  <1> QED
    BY <1>7 DEF a, b

\* What an open flow would fall back to does not depend on the flows above it.
LEMMA SavedBelow ==
  ASSUME NEW st, NEW up, IsSeq(st), IsSeq(up), NEW i \in 1 .. Len(st), i <= Len(up),
         \A k \in 1 .. i : up[k] = st[k], Saved(st, i)
  PROVE  Saved(up, i)
  <1>1. SubSeq(up, 1, i - 1) = SubSeq(st, 1, i - 1)
    BY PrefixAgrees
  <1>2. up[i] = st[i]
    OBVIOUS
  <1> QED
    BY <1>1, <1>2 DEF Saved

\* Leaving the innermost flow: the flows around it, and the one that is left.
LEMMA Leaving ==
  ASSUME KeysInv, stack # <<>>
  PROVE  /\ IsSeq(Front(stack)) /\ Len(stack) \in 1 .. Len(stack)
         /\ \A i \in 1 .. Len(Front(stack)) : Saved(Front(stack), i)
         /\ ToSet(stack) = ToSet(Front(stack)) \cup {Last(stack)}
         /\ InOrder(Last(stack).saved, Front(stack))
         /\ IsSeq(Last(stack).boundary)
  <1> DEFINE n == Len(stack)
             st == SubSeq(stack, 1, n - 1)
  <1>1. n \in 1 .. n /\ n - 1 \in 0 .. n /\ Front(stack) = st
    BY DEF KeysInv, IsSeq, Front
  <1>2. /\ IsSeq(st) /\ Len(st) = n - 1 /\ \A k \in 1 .. n - 1 : st[k] = stack[k]
        /\ ToSet(st) = {stack[k] : k \in 1 .. n - 1}
    <2>1. IsSeq(stack) /\ n - 1 \in 0 .. Len(stack)
      BY <1>1 DEF KeysInv
    <2> QED
      BY <2>1, PrefixIsSeq
  <1>3. IsSeq(stack) /\ \A i \in 1 .. n : Saved(stack, i)
    BY DEF KeysInv
  <1>4. Saved(stack, n) /\ Last(stack) = stack[n]
    BY <1>1, <1>3 DEF Last
  <1>5. ToSet(stack) = ToSet(st) \cup {stack[n]}
    <2>1. DOMAIN stack = 1 .. n
      BY <1>3 DEF IsSeq
    <2>2. 1 .. n = (1 .. n - 1) \cup {n}
      BY <1>1
    <2> HIDE DEF st, n
    <2> QED
      BY <1>2, <2>1, <2>2 DEF ToSet
  <1>6. ASSUME NEW i \in 1 .. Len(st)
        PROVE  Saved(st, i)
    <2> HIDE DEF st, n
    <2>1. i \in 1 .. n - 1 /\ i \in 1 .. n /\ 1 .. i \subseteq 1 .. n - 1
      BY <1>1, <1>2
    <2>2. i \in 1 .. Len(stack) /\ i <= Len(st) /\ Saved(stack, i) /\ \A k \in 1 .. i : st[k] = stack[k]
      BY <1>2, <1>3, <2>1 DEF n
    <2> QED
      BY <1>2, <1>3, <2>2, SavedBelow
  <1> QED
    BY <1>1, <1>2, <1>3, <1>4, <1>5, <1>6 DEF Saved

-----------------------------------------------------------------------------
(* One step for each action.                                               *)

\* _call_operation: the key is taken and the invocation bears it.
LEMMA CallKeeps ==
  ASSUME KeysInv, CallSome
  PROVE  KeysInv'
  <1>1. PICK d \in Definitions : \E args \in Arguments(d) : \E config \in [d.config -> Values] :
            \E named \in ExplicitKeys \cup {NoKey} : CallOperation(d, args, config, named)
    BY DEF CallSome
  <1>2. PICK args \in Arguments(d) : \E config \in [d.config -> Values] :
            \E named \in ExplicitKeys \cup {NoKey} : CallOperation(d, args, config, named)
    BY <1>1
  <1>3. PICK config \in [d.config -> Values] : \E named \in ExplicitKeys \cup {NoKey} :
            CallOperation(d, args, config, named)
    BY <1>2
  <1>4. PICK named \in ExplicitKeys \cup {NoKey} : CallOperation(d, args, config, named)
    BY <1>3
  <1> DEFINE key == ChosenKey(d.name, named, sweeping)
             v == InvocationRecord(KeyedPlanId(Scope, key), d.identity, Bindings(d, args),
                                   config, Scope, key)
             edges == NewEdges(d, v, graph.nextEdge)
             more == Cardinality(FromSources(v))
             g == Keyed(d.name, d.identity, named, sweeping)
  <1>5. /\ graph' = [g EXCEPT !.operations = Registered(@, d), !.invocations = Append(@, v),
                              !.edges = @ \o edges, !.nextEdge = @ + more]
        /\ phase = "open" /\ phase' = phase /\ stack' = stack
    BY <1>4 DEF CallOperation, MayCall, Active
  <1>6. v.boundary = Scope /\ v.key = key
    BY DEF InvocationRecord
  <1>7. InOrder(graph, stack)
    BY DEF KeysInv
  <1>8. /\ g = [graph EXCEPT !.names = g.names, !.keys = g.keys]
        /\ g.keys = graph.keys \cup {<<Scope, key>>}
        /\ Numbered(g.names, g.keys)
    BY <1>7, KeyedGraph DEF InOrder
  <1> HIDE DEF key, v, edges, more, g
  <1>9. /\ WholeGraph(graph') /\ graph'.invocations = Append(graph.invocations, v)
        /\ graph'.boundaries = graph.boundaries
        /\ graph'.names = g.names /\ graph'.keys = g.keys
    BY <1>5, <1>7, <1>8 DEF InOrder, WholeGraph
  <1>10. /\ IsSeq(graph'.invocations)
         /\ ToSet(graph'.invocations) = ToSet(graph.invocations) \cup {v}
    BY <1>7, <1>9, AppendIsSeq DEF InOrder
  <1>11. graph'.keys = Borne(graph', stack)
    BY <1>6, <1>7, <1>8, <1>9, <1>10 DEF InOrder, Borne
  <1>12. InOrder(graph', stack)
    BY <1>7, <1>8, <1>9, <1>10, <1>11 DEF InOrder
  <1> QED
    BY <1>5, <1>12 DEF KeysInv, Saved

\* _call_flow up to the body: the key is taken, the open flow bears it, and the
\* graph as it was is what the flow would fall back to.
LEMMA EnterKeeps ==
  ASSUME KeysInv, EnterSome
  PROVE  KeysInv'
  <1>1. PICK name \in FlowNames : \E named \in ExplicitKeys \cup {NoKey} : EnterFlow(name, named)
    BY DEF EnterSome
  <1>2. PICK named \in ExplicitKeys \cup {NoKey} : EnterFlow(name, named)
    BY <1>1
  <1> DEFINE key == ChosenKey(name, named, NoPoint)
             id == KeyedPlanId(Scope, key)
             frame == [boundary |-> id, flow |-> name, key |-> key,
                       saved |-> graph, kept |-> held, loops |-> Len(loops)]
             g == Keyed(name, name, named, NoPoint)
  <1>3. /\ graph' = [g EXCEPT !.flows = Registered(@, name), !.parents = @ \cup {id}]
        /\ stack' = Append(stack, frame) /\ phase = "open" /\ phase' = phase
    BY <1>2 DEF EnterFlow, MayCall, Active
  <1>4. frame.boundary = id /\ frame.key = key /\ frame.saved = graph
    OBVIOUS
  <1>5. InOrder(graph, stack) /\ IsSeq(stack) /\ \A i \in 1 .. Len(stack) : Saved(stack, i)
    BY DEF KeysInv
  <1>6. /\ g = [graph EXCEPT !.names = g.names, !.keys = g.keys]
        /\ g.keys = graph.keys \cup {<<Scope, key>>}
        /\ Numbered(g.names, g.keys)
    BY <1>5, KeyedGraph DEF InOrder
  <1>7. IsSeq(id) /\ Front(id) = Scope
    <2>1. IsSeq(Scope)
      BY ScopeIsSeq
    <2> HIDE DEF key
    <2> QED
      BY <2>1, AppendIsSeq DEF KeyedPlanId
  <1> HIDE DEF key, id, frame, g
  <1>8. /\ WholeGraph(graph') /\ graph'.invocations = graph.invocations
        /\ graph'.boundaries = graph.boundaries
        /\ graph'.names = g.names /\ graph'.keys = g.keys
    BY <1>3, <1>5, <1>6 DEF InOrder, WholeGraph
  <1>9. /\ IsSeq(stack') /\ ToSet(stack') = ToSet(stack) \cup {frame}
        /\ Len(stack') = Len(stack) + 1 /\ stack'[Len(stack) + 1] = frame /\ Len(stack) \in Nat
        /\ \A k \in 1 .. Len(stack) : stack'[k] = stack[k]
        /\ Front(stack') = stack
    BY <1>3, <1>5, AppendIsSeq
  <1>10. graph'.keys = Borne(graph', stack')
    BY <1>4, <1>5, <1>6, <1>7, <1>8, <1>9 DEF InOrder, Borne
  <1>11. InOrder(graph', stack')
    BY <1>5, <1>6, <1>8, <1>10 DEF InOrder
  <1>12. ASSUME NEW i \in 1 .. Len(stack')
         PROVE  Saved(stack', i)
    <2>1. CASE i \in 1 .. Len(stack)
      <3>1. i <= Len(stack') /\ 1 .. i \subseteq 1 .. Len(stack) /\ Saved(stack, i)
        BY <1>5, <1>9, <2>1
      <3>2. \A k \in 1 .. i : stack'[k] = stack[k]
        BY <1>9, <3>1
      <3> QED
        BY <1>5, <1>9, <2>1, <3>1, <3>2, SavedBelow
    <2>2. CASE i = Len(stack) + 1
      <3>1. stack'[i] = frame /\ SubSeq(stack', 1, i - 1) = stack
        BY <1>9, <2>2 DEF Front
      <3> QED
        BY <1>4, <1>5, <1>7, <3>1 DEF Saved
    <2> QED
      BY <1>9, <2>1, <2>2
  <1> QED
    BY <1>3, <1>9, <1>11, <1>12 DEF KeysInv

\* A flow returns: its boundary bears the key that the open flow bore.
LEMMA ReturnKeeps ==
  ASSUME KeysInv, FlowReturns
  PROVE  KeysInv'
  <1> DEFINE flow == Last(stack)
  <1>1. /\ stack # <<>> /\ stack' = Front(stack) /\ phase = "open" /\ phase' = phase
    BY DEF FlowReturns, Active
  <1>2. PICK outputs : graph' = [graph EXCEPT !.boundaries = Append(@,
            FlowBoundary(flow.boundary, flow.flow, Front(flow.boundary), outputs, flow.key))]
    BY DEF FlowReturns
  <1> DEFINE b == FlowBoundary(flow.boundary, flow.flow, Front(flow.boundary), outputs, flow.key)
  <1>3. b.parent = Front(flow.boundary) /\ b.key = flow.key
    BY DEF FlowBoundary
  <1>4. InOrder(graph, stack)
    BY DEF KeysInv
  <1>5. /\ IsSeq(Front(stack))
        /\ \A i \in 1 .. Len(Front(stack)) : Saved(Front(stack), i)
        /\ ToSet(stack) = ToSet(Front(stack)) \cup {flow}
    BY <1>1, Leaving
  <1> HIDE DEF flow, b
  <1>6. /\ WholeGraph(graph') /\ graph'.invocations = graph.invocations
        /\ graph'.boundaries = Append(graph.boundaries, b)
        /\ graph'.names = graph.names /\ graph'.keys = graph.keys
    BY <1>2, <1>4 DEF InOrder, WholeGraph, b
  <1>7. IsSeq(graph'.boundaries) /\ ToSet(graph'.boundaries) = ToSet(graph.boundaries) \cup {b}
    BY <1>4, <1>6, AppendIsSeq DEF InOrder
  <1>8. graph'.keys = Borne(graph', stack')
    BY <1>1, <1>3, <1>4, <1>5, <1>6, <1>7 DEF InOrder, Borne
  <1>9. InOrder(graph', stack')
    BY <1>4, <1>6, <1>7, <1>8 DEF InOrder
  <1> QED
    BY <1>1, <1>5, <1>9 DEF KeysInv

\* A flow fails: its checkpoint comes back under the flows around it.
LEMMA FailureKeeps ==
  ASSUME KeysInv, FlowFails
  PROVE  KeysInv'
  <1>1. /\ stack # <<>> /\ stack' = Front(stack) /\ phase = "open" /\ phase' = phase
        /\ graph' = Last(stack).saved
    BY DEF FlowFails, Active, Restored
  <1>2. /\ IsSeq(Front(stack))
        /\ \A i \in 1 .. Len(Front(stack)) : Saved(Front(stack), i)
        /\ InOrder(Last(stack).saved, Front(stack))
    BY <1>1, Leaving
  <1> QED
    BY <1>1, <1>2 DEF KeysInv

\* A source is declared: no key is taken.
LEMMA SourceKeeps ==
  ASSUME KeysInv, NEW address, NEW kind, InputArtifact(address, kind)
  PROVE  KeysInv'
  <1>1. /\ stack' = stack /\ phase' = phase /\ phase = "open" /\ InOrder(graph, stack)
    BY DEF InputArtifact, Active, KeysInv
  <1>2. /\ WholeGraph(graph') /\ graph'.invocations = graph.invocations
        /\ graph'.boundaries = graph.boundaries
        /\ graph'.names = graph.names /\ graph'.keys = graph.keys
    BY <1>1 DEF InputArtifact, InOrder, WholeGraph
  <1>3. InOrder(graph', stack)
    BY <1>1, <1>2 DEF InOrder, Borne
  <1> QED
    BY <1>1, <1>3 DEF KeysInv, Saved

\* A draft without anything authored.
LEMMA NothingAuthored ==
  InOrder(Empty, <<>>) /\ IsSeq(<<>>) /\ 1 .. Len(<<>>) = {}
  <1>1. IsSeq(<<>>) /\ ToSet(<<>>) = {} /\ 1 .. Len(<<>>) = {}
    BY DEF IsSeq, ToSet
  <1>2. /\ WholeGraph(Empty) /\ Empty.invocations = <<>> /\ Empty.boundaries = <<>>
        /\ Empty.names = {} /\ Empty.keys = {}
    BY DEF Empty, WholeGraph
  <1>3. Empty.keys = Borne(Empty, <<>>) /\ Numbered(Empty.names, Empty.keys)
    BY <1>1, <1>2 DEF Borne, Numbered
  <1> QED
    BY <1>1, <1>2, <1>3 DEF InOrder

-----------------------------------------------------------------------------
(* The theorem on keys.                                                    *)

LEMMA KeysBegin ==
  Init => KeysInv
  BY NothingAuthored DEF Init, KeysInv

LEMMA KeysPreserved ==
  ASSUME KeysInv, [Next]_vars
  PROVE  KeysInv'
  <1>1. CASE Abandon \/ LetGo
    <2>1. graph' = Empty /\ stack' = <<>>
      BY <1>1 DEF Abandon, LetGo, KeysInv
    <2> QED
      BY <2>1, NothingAuthored DEF KeysInv
  <1>2. CASE Enter \/ Leave \/ Finish \/ Submit \/ SweepStarts \/ SweepNext \/ SweepEnds
             \/ (\E address \in Addresses : EditSource(address)) \/ UNCHANGED vars
    <2>1. graph' = graph /\ stack' = stack
      BY <1>2 DEF Enter, Leave, Finish, Submit, SweepStarts, SweepNext, SweepEnds, EditSource,
                  vars, authored
    <2>2. phase' # "open" => stack = <<>>
      BY <1>2 DEF Enter, Leave, Finish, Submit, SweepStarts, SweepNext, SweepEnds, EditSource,
                  vars, authored, KeysInv, Active, MayCall
    <2> QED
      BY <2>1, <2>2 DEF KeysInv, Saved
  <1>3. CASE \E address \in Addresses : InputArtifact(address, "file")
    BY <1>3, SourceKeeps
  <1>4. CASE CallSome
    BY <1>4, CallKeeps
  <1>5. CASE EnterSome
    BY <1>5, EnterKeeps
  <1>6. CASE FlowReturns
    BY <1>6, ReturnKeeps
  <1>7. CASE FlowFails
    BY <1>7, FailureKeeps
  <1> QED
    BY <1>1, <1>2, <1>3, <1>4, <1>5, <1>6, <1>7 DEF Next

LEMMA KeysShown ==
  KeysInv => KeysAreConsecutive
  <1> SUFFICES ASSUME KeysInv
               PROVE  KeysAreConsecutive
    OBVIOUS
  <1>1. graph.keys = Borne(graph, stack) /\ Numbered(graph.names, graph.keys)
    BY DEF KeysInv, InOrder
  <1>2. ASSUME NEW k \in graph.keys, k[2].mark = ".", k[2] \notin ExplicitKeys
        PROVE  k[2].n \in 1 .. Count(k[1], k[2].base)
    <2>1. PICK s \in graph.names : s.scope = k[1] /\ s.base = k[2].base /\ k[2].n \in 1 .. s.count
      BY <1>1, <1>2 DEF Numbered
    <2>2. s.count = Count(k[1], k[2].base)
      BY <1>1, <2>1, TheSlot
    <2> QED
      BY <2>1, <2>2
  <1>3. \A s \in graph.names : \A n \in 1 .. s.count :
            <<s.scope, AutomaticKey(s.base, n)>> \in graph.keys
    BY <1>1 DEF Numbered
  <1> QED
    BY <1>1, <1>2, <1>3 DEF KeysAreConsecutive, Borne

\* Whatever an author calls, names, sweeps, nests and lets fail, the keys that
\* are taken are those of what is still there, and automatic keys are numbered
\* without a gap (_automatic_key, _reserve_key, _checkpoint and _restore).
THEOREM KeysHaveNoGaps ==
  Spec => []KeysAreConsecutive
  <1>1. Init => KeysInv
    BY KeysBegin
  <1>2. KeysInv /\ [Next]_vars => KeysInv'
    BY KeysPreserved
  <1>3. KeysInv => KeysAreConsecutive
    BY KeysShown
  <1> QED
    BY <1>1, <1>2, <1>3, PTL DEF Spec

-----------------------------------------------------------------------------
(* What is authored is sound, all the time.                                *)

Ids(parts) == {x.id : x \in ToSet(parts)}
Opened(st) == {f.boundary : f \in ToSet(st)}

\* The scope of what is authored next under the open flows st, and every
\* scope there is.
Within(st) == IF st = <<>> THEN Root ELSE Last(st).boundary
Places(g, st) == {Root} \cup Ids(g.boundaries) \cup Opened(st)

\* Operations, flows and sources are there once.
Declared(g) ==
    /\ IsSeq(g.operations) /\ ToSet(g.operations) \subseteq Definitions
    /\ AllDistinct([i \in DOMAIN g.operations |-> g.operations[i].identity])
    /\ IsSeq(g.flows) /\ AllDistinct(g.flows)
    /\ IsSeq(g.sources) /\ \A i \in DOMAIN g.sources : g.sources[i].id = i

\* Whatever bears a key is named after it and its scope, which is there.
NamedAfter(scope, key, id) == IsSeq(scope) /\ id = KeyedPlanId(scope, key)
Identified(g, st) ==
    /\ \A v \in ToSet(g.invocations) :
          NamedAfter(v.boundary, v.key, v.id) /\ v.boundary \in Places(g, st)
    /\ \A b \in ToSet(g.boundaries) :
          NamedAfter(b.parent, b.key, b.id) /\ b.parent \in Places(g, st) /\ b.flow \in ToSet(g.flows)
    /\ \A i \in 1 .. Len(st) :
          NamedAfter(Within(SubSeq(st, 1, i - 1)), st[i].key, st[i].boundary) /\ st[i].flow \in ToSet(g.flows)

\* No two of them have one ID.
Apart(g, st) ==
    /\ AllDistinct([i \in DOMAIN g.invocations |-> g.invocations[i].id])
    /\ AllDistinct([i \in DOMAIN g.boundaries |-> g.boundaries[i].id])
    /\ AllDistinct([i \in DOMAIN st |-> st[i].boundary])
    /\ Ids(g.invocations) \cap (Ids(g.boundaries) \cup Opened(st)) = {}
    /\ Ids(g.boundaries) \cap Opened(st) = {}
    /\ g.parents = Ids(g.boundaries) \cup Opened(st)

\* An invocation is bound as its operation declares.
Binds(g, v, d) ==
    /\ d.identity = v.operation
    /\ DOMAIN v.inputs = DOMAIN d.inputs /\ DOMAIN v.config = d.config
    /\ \A name \in DOMAIN d.inputs :
          /\ BoundInput(g, d, v, name)
          /\ IsSeq(v.inputs[name].refs) /\ 1 \in DOMAIN v.inputs[name].refs

References(v) == UNION {ToSet(v.inputs[name].refs) : name \in DOMAIN v.inputs}

\* It uses what was called before it.
Bound(g) ==
    /\ \A v \in ToSet(g.invocations) : \E d \in ToSet(g.operations) : Binds(g, v, d)
    /\ \A j \in DOMAIN g.invocations : \A r \in References(g.invocations[j]) :
          IsOutput(r) => \E i \in 1 .. j - 1 : g.invocations[i].id = r.producer

\* An edge says the kind of the input it leads to, and is named after its ends
\* or numbered.
Connects(g, e) ==
    /\ \E v \in ToSet(g.invocations), d \in ToSet(g.operations) :
          v.id = e.target /\ v.operation = d.identity /\ e.input \in DOMAIN d.inputs
          /\ e.kind = d.inputs[e.input].kind
    /\ IF IsOutput(e.source) THEN e.id = StableEdgeId(e.source, e.target, e.input, e.member)
       ELSE \E n \in 1 .. g.nextEdge - 1 : e.id = NumberedEdgeId(n)

Wired(g) ==
    /\ IsSeq(g.edges) /\ g.nextEdge \in Nat \ {0}
    /\ {EdgeOf(e) : e \in ToSet(g.edges)} = ExpectedEdges(g)
    /\ AllDistinct([i \in DOMAIN g.edges |->
          <<g.edges[i].target, g.edges[i].input, g.edges[i].member>>])
    /\ AllDistinct([i \in DOMAIN g.edges |-> g.edges[i].id])
    /\ \A e \in ToSet(g.edges) : Connects(g, e)

\* A flow returned something that was produced inside it.
Inside(parents, ancestor, candidate) ==
    \/ candidate = ancestor
    \/ /\ IsStrictPrefix(ancestor, candidate)
       /\ \A n \in Len(ancestor) + 1 .. Len(candidate) : SubSeq(candidate, 1, n) \in parents

Returns(g, b) ==
    \/ b.outputs = <<>>
    \/ \E r : /\ b.outputs = <<NamedOutput(r)>> /\ IsOutput(r) /\ ReferenceKind(g, r) # {}
              /\ \A v \in Invocation(g, r.producer) : Inside(g.parents, b.id, v.boundary)

\* A handle denotes an artifact of its kind, made where the handle says.
Denotes(g, h) ==
    /\ ReferenceKind(g, h.ref) = {h.kind}
    /\ IsOutput(h.ref) => \A v \in Invocation(g, h.ref.producer) : v.boundary = h.boundary

Sound(g, st, hs) ==
    /\ Declared(g) /\ Identified(g, st) /\ Apart(g, st) /\ Bound(g) /\ Wired(g)
    /\ \A b \in ToSet(g.boundaries) : Returns(g, b)
    /\ \A h \in hs : Denotes(g, h)

DraftInv ==
    /\ KeysInv
    /\ Sound(graph, stack, held)
    /\ \A i \in 1 .. Len(stack) : Sound(stack[i].saved, SubSeq(stack, 1, i - 1), stack[i].kept)

-----------------------------------------------------------------------------
(* Names that are borne once.                                              *)

LEMMA SeqDomain ==
  ASSUME NEW s, IsSeq(s)
  PROVE  /\ Len(s) \in Nat /\ DOMAIN s = 1 .. Len(s)
         /\ \A i \in 1 .. Len(s) : s[i] \in ToSet(s)
         /\ \A x \in ToSet(s) : \E i \in 1 .. Len(s) : x = s[i]
  <1>1. Len(s) \in Nat /\ DOMAIN s = 1 .. Len(s)
    BY DEF IsSeq
  <1> QED
    BY <1>1 DEF ToSet

\* One more name, which is new.
LEMMA OneMore ==
  ASSUME NEW n \in Nat, NEW f, DOMAIN f = 1 .. n, AllDistinct(f),
         NEW h, DOMAIN h = 1 .. n + 1, \A i \in 1 .. n : h[i] = f[i] /\ f[i] # h[n + 1]
  PROVE  AllDistinct(h)
  <1> SUFFICES ASSUME NEW i \in 1 .. n + 1, NEW j \in 1 .. n + 1, h[i] = h[j]
               PROVE  i = j
    BY DEF AllDistinct, IsInjective
  <1>1. (i \in 1 .. n \/ i = n + 1) /\ (j \in 1 .. n \/ j = n + 1)
    OBVIOUS
  <1> QED
    BY <1>1 DEF AllDistinct, IsInjective

LEMMA IdsOneMore ==
  ASSUME NEW s, IsSeq(s), NEW x, AllDistinct([i \in DOMAIN s |-> s[i].id]), x.id \notin Ids(s)
  PROVE  /\ AllDistinct([i \in DOMAIN Append(s, x) |-> Append(s, x)[i].id])
         /\ Ids(Append(s, x)) = Ids(s) \cup {x.id}
  <1> DEFINE t == Append(s, x)
  <1>1. /\ IsSeq(t) /\ ToSet(t) = ToSet(s) \cup {x}
        /\ Len(t) = Len(s) + 1 /\ t[Len(s) + 1] = x /\ Len(s) \in Nat
        /\ \A k \in 1 .. Len(s) : t[k] = s[k]
    BY AppendIsSeq
  <1>2. DOMAIN s = 1 .. Len(s) /\ \A i \in 1 .. Len(s) : s[i] \in ToSet(s)
    BY SeqDomain
  <1> HIDE DEF t
  <1>3. DOMAIN t = 1 .. Len(s) + 1
    BY <1>1, SeqDomain
  <1> DEFINE n == Len(s)
             f == [i \in DOMAIN s |-> s[i].id]
             h == [i \in DOMAIN t |-> t[i].id]
  <1>4. /\ n \in Nat /\ DOMAIN f = 1 .. n /\ DOMAIN h = 1 .. n + 1
        /\ \A i \in 1 .. n : h[i] = f[i] /\ f[i] # h[n + 1]
    BY <1>1, <1>2, <1>3 DEF Ids
  <1>5. AllDistinct(f)
    OBVIOUS
  <1>6. AllDistinct(h)
    <2> HIDE DEF n, f, h
    <2> QED
      BY <1>4, <1>5, OneMore
  <1>7. Ids(t) = Ids(s) \cup {x.id}
    BY <1>1 DEF Ids
  <1> QED
    BY <1>6, <1>7 DEF t

LEMMA BoundariesOneMore ==
  ASSUME NEW s, IsSeq(s), NEW x, AllDistinct([i \in DOMAIN s |-> s[i].boundary]), x.boundary \notin Opened(s)
  PROVE  /\ AllDistinct([i \in DOMAIN Append(s, x) |-> Append(s, x)[i].boundary])
         /\ Opened(Append(s, x)) = Opened(s) \cup {x.boundary}
  <1> DEFINE t == Append(s, x)
  <1>1. /\ IsSeq(t) /\ ToSet(t) = ToSet(s) \cup {x}
        /\ Len(t) = Len(s) + 1 /\ t[Len(s) + 1] = x /\ Len(s) \in Nat
        /\ \A k \in 1 .. Len(s) : t[k] = s[k]
    BY AppendIsSeq
  <1>2. DOMAIN s = 1 .. Len(s) /\ \A i \in 1 .. Len(s) : s[i] \in ToSet(s)
    BY SeqDomain
  <1> HIDE DEF t
  <1>3. DOMAIN t = 1 .. Len(s) + 1
    BY <1>1, SeqDomain
  <1> DEFINE n == Len(s)
             f == [i \in DOMAIN s |-> s[i].boundary]
             h == [i \in DOMAIN t |-> t[i].boundary]
  <1>4. /\ n \in Nat /\ DOMAIN f = 1 .. n /\ DOMAIN h = 1 .. n + 1
        /\ \A i \in 1 .. n : h[i] = f[i] /\ f[i] # h[n + 1]
    BY <1>1, <1>2, <1>3 DEF Opened
  <1>5. AllDistinct(f)
    OBVIOUS
  <1>6. AllDistinct(h)
    <2> HIDE DEF n, f, h
    <2> QED
      BY <1>4, <1>5, OneMore
  <1>7. Opened(t) = Opened(s) \cup {x.boundary}
    BY <1>1 DEF Opened
  <1> QED
    BY <1>6, <1>7 DEF t

\* A part that is registered is there, and is there once.
LEMMA RegisteredOnce ==
  ASSUME NEW s, IsSeq(s), NEW x
  PROVE  /\ IsSeq(Registered(s, x)) /\ ToSet(Registered(s, x)) = ToSet(s) \cup {x}
         /\ AllDistinct(s) => AllDistinct(Registered(s, x))
         /\ (/\ AllDistinct([i \in DOMAIN s |-> s[i].identity])
             /\ \A y \in ToSet(s) : y.identity = x.identity => y = x)
              => AllDistinct([i \in DOMAIN Registered(s, x) |-> Registered(s, x)[i].identity])
  <1>1. CASE x \in ToSet(s)
    <2>1. Registered(s, x) = s
      BY <1>1 DEF Registered
    <2> QED
      BY <1>1, <2>1
  <1>2. CASE x \notin ToSet(s)
    <2> DEFINE t == Append(s, x)
    <2>1. Registered(s, x) = t
      BY <1>2 DEF Registered
    <2>2. /\ IsSeq(t) /\ ToSet(t) = ToSet(s) \cup {x}
          /\ Len(t) = Len(s) + 1 /\ t[Len(s) + 1] = x /\ Len(s) \in Nat
          /\ \A k \in 1 .. Len(s) : t[k] = s[k]
      BY AppendIsSeq
    <2>3. DOMAIN s = 1 .. Len(s) /\ \A i \in 1 .. Len(s) : s[i] \in ToSet(s)
      BY SeqDomain
    <2> HIDE DEF t
    <2>4. DOMAIN t = 1 .. Len(s) + 1
      BY <2>2, SeqDomain
    <2> DEFINE n == Len(s)
    <2>5. AllDistinct(s) => AllDistinct(t)
      <3>1. \A i \in 1 .. n : s[i] # t[n + 1]
        BY <1>2, <2>2, <2>3
      <3> QED
        BY <2>2, <2>3, <2>4, <3>1, OneMore
    <2> DEFINE f == [i \in DOMAIN s |-> s[i].identity]
               h == [i \in DOMAIN t |-> t[i].identity]
    <2>6. ASSUME AllDistinct(f), \A y \in ToSet(s) : y.identity = x.identity => y = x
          PROVE  AllDistinct(h)
      <3>1. /\ n \in Nat /\ DOMAIN f = 1 .. n /\ DOMAIN h = 1 .. n + 1
            /\ \A i \in 1 .. n : h[i] = f[i] /\ f[i] # h[n + 1]
        BY <1>2, <2>2, <2>3, <2>4, <2>6
      <3> HIDE DEF n, f, h
      <3> QED
        BY <2>6, <3>1, OneMore
    <2> QED
      BY <2>1, <2>2, <2>5, <2>6
  <1> QED
    BY <1>1, <1>2

-----------------------------------------------------------------------------
(* A graph that only grows keeps what it says.                             *)

Once(parts) == \A x, y \in parts : x.id = y.id => x = y
Grows(g, g2) ==
    /\ ToSet(g.operations) \subseteq ToSet(g2.operations)
    /\ \A d, e \in ToSet(g2.operations) : d.identity = e.identity => d = e
    /\ ToSet(g.sources) \subseteq ToSet(g2.sources) /\ Once(ToSet(g2.sources))
    /\ ToSet(g.invocations) \subseteq ToSet(g2.invocations) /\ Once(ToSet(g2.invocations))

LEMMA DistinctIds ==
  ASSUME NEW s, IsSeq(s), AllDistinct([i \in DOMAIN s |-> s[i].id])
  PROVE  Once(ToSet(s))
  <1>1. \A i, j \in DOMAIN s : s[i].id = s[j].id => i = j
    BY DEF AllDistinct, IsInjective
  <1> QED
    BY <1>1 DEF ToSet, Once

LEMMA DistinctOperations ==
  ASSUME NEW g, Declared(g)
  PROVE  \A d, e \in ToSet(g.operations) : d.identity = e.identity => d = e
  <1>1. \A i, j \in DOMAIN g.operations : g.operations[i].identity = g.operations[j].identity => i = j
    BY DEF Declared, AllDistinct, IsInjective
  <1> QED
    BY <1>1 DEF ToSet

LEMMA DistinctSources ==
  ASSUME NEW g, Declared(g)
  PROVE  Once(ToSet(g.sources))
  BY DEF Declared, ToSet, Once

\* A graph with these parts, all of them found in the other one.
LEMMA FoundAgain ==
  ASSUME NEW g, NEW g2, Grows(g, g2)
  PROVE  /\ \A v \in ToSet(g.invocations) : Invocation(g2, v.id) = {v} /\ Invocation(g, v.id) = {v}
         /\ \A d \in ToSet(g.operations) : Definition(g2, d.identity) = {d} /\ Definition(g, d.identity) = {d}
         /\ \A s \in ToSet(g.sources) : Source(g2, s.id) = {s} /\ Source(g, s.id) = {s}
  <1>1. \A v \in ToSet(g.invocations) : Invocation(g2, v.id) = {v} /\ Invocation(g, v.id) = {v}
    BY DEF Grows, Once, Invocation
  <1>2. \A d \in ToSet(g.operations) : Definition(g2, d.identity) = {d} /\ Definition(g, d.identity) = {d}
    BY DEF Grows, Definition
  <1>3. \A s \in ToSet(g.sources) : Source(g2, s.id) = {s} /\ Source(g, s.id) = {s}
    BY DEF Grows, Once, Source
  <1> QED
    BY <1>1, <1>2, <1>3

\* What a reference denotes, it goes on to denote.
LEMMA KindStays ==
  ASSUME NEW g, NEW g2, Grows(g, g2), NEW r, ReferenceKind(g, r) # {}
  PROVE  /\ ReferenceKind(g2, r) = ReferenceKind(g, r)
         /\ IsOutput(r) => \E v \in ToSet(g.invocations) :
               /\ v.id = r.producer /\ Invocation(g, r.producer) = {v} /\ Invocation(g2, r.producer) = {v}
  <1>1. CASE IsOutput(r)
    <2> DEFINE Kinds(owners) == {d.outputs[r.output] : d \in {o \in owners : r.output \in DOMAIN o.outputs}}
               Owner(p) == UNION {Definition(p, v.operation) : v \in Invocation(p, r.producer)}
    <2>1. ReferenceKind(g, r) = Kinds(Owner(g)) /\ ReferenceKind(g2, r) = Kinds(Owner(g2))
      BY <1>1 DEF ReferenceKind
    <2>2. Owner(g) # {}
      BY <2>1
    <2>3. PICK v \in Invocation(g, r.producer) : Definition(g, v.operation) # {}
      BY <2>2
    <2>4. v \in ToSet(g.invocations) /\ v.id = r.producer
      BY <2>3 DEF Invocation
    <2>5. Invocation(g, r.producer) = {v} /\ Invocation(g2, r.producer) = {v}
      BY <2>4, FoundAgain
    <2>6. PICK d \in ToSet(g.operations) : d.identity = v.operation
      BY <2>3 DEF Definition
    <2>7. Definition(g, v.operation) = {d} /\ Definition(g2, v.operation) = {d}
      BY <2>6, FoundAgain
    <2>8. Owner(g) = Owner(g2)
      BY <2>5, <2>7
    <2> QED
      BY <2>1, <2>4, <2>5, <2>8
  <1>2. CASE ~ IsOutput(r)
    <2>1. ReferenceKind(g, r) = {s.kind : s \in Source(g, r.source)} /\
          ReferenceKind(g2, r) = {s.kind : s \in Source(g2, r.source)}
      BY <1>2 DEF ReferenceKind
    <2>2. PICK s \in Source(g, r.source) : TRUE
      BY <2>1
    <2>3. s \in ToSet(g.sources) /\ s.id = r.source
      BY <2>2 DEF Source
    <2>4. Source(g, r.source) = Source(g2, r.source)
      BY <2>3, FoundAgain
    <2> QED
      BY <1>2, <2>1, <2>4
  <1> QED
    BY <1>1, <1>2

LEMMA BindingStays ==
  ASSUME NEW g, NEW g2, Grows(g, g2), NEW v, NEW d \in ToSet(g.operations), Binds(g, v, d)
  PROVE  d \in ToSet(g2.operations) /\ Binds(g2, v, d)
  <1>1. d \in ToSet(g2.operations)
    BY DEF Grows
  <1>2. ASSUME NEW name \in DOMAIN d.inputs
        PROVE  BoundInput(g2, d, v, name)
    <2>1. BoundInput(g, d, v, name)
      BY DEF Binds
    <2>2. ASSUME NEW r \in ToSet(v.inputs[name].refs)
          PROVE  ReferenceKind(g2, r) = {d.inputs[name].kind}
      <3>1. ReferenceKind(g, r) = {d.inputs[name].kind}
        BY <2>1 DEF BoundInput
      <3>2. ReferenceKind(g, r) # {}
        BY <3>1
      <3> QED
        BY <3>1, <3>2, KindStays
    <2> QED
      BY <2>1, <2>2 DEF BoundInput
  <1> QED
    BY <1>1, <1>2 DEF Binds

LEMMA ReturnStays ==
  ASSUME NEW g, NEW g2, Grows(g, g2), g.parents \subseteq g2.parents, NEW b, Returns(g, b)
  PROVE  Returns(g2, b)
  <1>1. CASE b.outputs = <<>>
    BY <1>1 DEF Returns
  <1>2. CASE b.outputs # <<>>
    <2>1. PICK r : /\ b.outputs = <<NamedOutput(r)>> /\ IsOutput(r) /\ ReferenceKind(g, r) # {}
                   /\ \A v \in Invocation(g, r.producer) : Inside(g.parents, b.id, v.boundary)
      BY <1>2 DEF Returns
    <2>2. PICK v \in ToSet(g.invocations) :
             v.id = r.producer /\ Invocation(g, r.producer) = {v} /\ Invocation(g2, r.producer) = {v}
      BY <2>1, KindStays
    <2>3. Inside(g2.parents, b.id, v.boundary)
      BY <2>1, <2>2 DEF Inside
    <2>4. ReferenceKind(g2, r) # {}
      BY <2>1, KindStays
    <2> QED
      BY <2>1, <2>2, <2>3, <2>4 DEF Returns
  <1> QED
    BY <1>1, <1>2

LEMMA DenotingStays ==
  ASSUME NEW g, NEW g2, Grows(g, g2), NEW h, Denotes(g, h)
  PROVE  Denotes(g2, h)
  <1>1. ReferenceKind(g, h.ref) # {}
    BY DEF Denotes
  <1>2. ReferenceKind(g2, h.ref) = ReferenceKind(g, h.ref)
    BY <1>1, KindStays
  <1>3. ASSUME IsOutput(h.ref)
        PROVE  Invocation(g, h.ref.producer) = Invocation(g2, h.ref.producer)
    <2> DEFINE r == h.ref
    <2> HIDE DEF r
    <2>1. PICK v \in ToSet(g.invocations) :
             v.id = r.producer /\ Invocation(g, r.producer) = {v} /\ Invocation(g2, r.producer) = {v}
      BY <1>1, <1>3, KindStays DEF r
    <2> QED
      BY <2>1 DEF r
  <1> QED
    BY <1>2, <1>3 DEF Denotes

\* So everything that was bound, returned or handed out goes on to mean what it
\* meant.
LEMMA GrowingKeeps ==
  ASSUME NEW g, NEW g2, NEW st, NEW hs, Sound(g, st, hs), Grows(g, g2), g.parents \subseteq g2.parents
  PROVE  /\ \A v \in ToSet(g.invocations) : \E d \in ToSet(g2.operations) : Binds(g2, v, d)
         /\ \A b \in ToSet(g.boundaries) : Returns(g2, b)
         /\ \A h \in hs : Denotes(g2, h)
  <1>1. ASSUME NEW v \in ToSet(g.invocations)
        PROVE  \E d \in ToSet(g2.operations) : Binds(g2, v, d)
    BY BindingStays DEF Sound, Bound
  <1> QED
    BY <1>1, ReturnStays, DenotingStays DEF Sound

\* Growing by parts with new names.
LEMMA GrowsBy ==
  ASSUME NEW g, Declared(g), NEW st, Apart(g, st), IsSeq(g.invocations),
         NEW g2, Declared(g2), IsSeq(g2.invocations), AllDistinct([i \in DOMAIN g2.invocations |-> g2.invocations[i].id]),
         ToSet(g.operations) \subseteq ToSet(g2.operations),
         ToSet(g.sources) \subseteq ToSet(g2.sources),
         ToSet(g.invocations) \subseteq ToSet(g2.invocations)
  PROVE  Grows(g, g2)
  BY DistinctIds, DistinctOperations, DistinctSources DEF Grows

-----------------------------------------------------------------------------
(* Scopes and the IDs that are named after them.                           *)

LEMMA NameOf ==
  ASSUME NEW scope, NEW key, NEW id, NamedAfter(scope, key, id)
  PROVE  /\ IsSeq(id) /\ Front(id) = scope /\ Len(id) = Len(scope) + 1 /\ Len(scope) \in Nat
         /\ id[Len(id)] = key /\ id # Root /\ id # scope
  <1>1. IsSeq(scope) /\ id = Append(scope, key)
    BY DEF NamedAfter, KeyedPlanId
  <1>2. /\ IsSeq(id) /\ Len(id) = Len(scope) + 1 /\ id[Len(scope) + 1] = key /\ Len(scope) \in Nat
        /\ Front(id) = scope
    BY <1>1, AppendIsSeq
  <1>3. id # Root
    BY <1>2 DEF Root
  <1>4. id # scope
    BY <1>2
  <1> QED
    BY <1>2, <1>3, <1>4

\* A name says its scope and its key.
LEMMA NamesSay ==
  ASSUME NEW s1, NEW k1, NEW s2, NEW k2, NEW id, NamedAfter(s1, k1, id), NamedAfter(s2, k2, id)
  PROVE  s1 = s2 /\ k1 = k2
  BY NameOf

LEMMA PlaceOfScope ==
  ASSUME NEW g, NEW st, IsSeq(st)
  PROVE  Within(st) \in Places(g, st)
  <1>1. CASE st = <<>>
    BY <1>1 DEF Within, Places
  <1>2. CASE st # <<>>
    <2>1. Len(st) \in 1 .. Len(st)
      BY <1>2 DEF IsSeq
    <2>2. st[Len(st)] \in ToSet(st)
      BY <2>1, SeqDomain
    <2> QED
      BY <1>2, <2>2 DEF Within, Places, Opened, Last
  <1> QED
    BY <1>1, <1>2

\* What is open in a graph has the key it was entered with.
LEMMA OpenedIs ==
  ASSUME NEW g, NEW st, IsSeq(st), Identified(g, st), NEW f \in ToSet(st)
  PROVE  NamedAfter(Front(f.boundary), f.key, f.boundary) /\ f.flow \in ToSet(g.flows)
  <1>1. PICK i \in 1 .. Len(st) : f = st[i]
    BY SeqDomain
  <1>2. NamedAfter(Within(SubSeq(st, 1, i - 1)), f.key, f.boundary) /\ f.flow \in ToSet(g.flows)
    BY <1>1 DEF Identified
  <1> QED
    BY <1>2, NameOf

\* A key that is free gives an ID that nothing has.
LEMMA FreshId ==
  ASSUME NEW g, NEW st, IsSeq(st), Identified(g, st), g.keys = Borne(g, st),
         NEW scope, IsSeq(scope), NEW key, <<scope, key>> \notin g.keys
  PROVE  KeyedPlanId(scope, key) \notin Ids(g.invocations) \cup Ids(g.boundaries) \cup Opened(st)
  <1> DEFINE id == KeyedPlanId(scope, key)
  <1>1. NamedAfter(scope, key, id)
    BY DEF NamedAfter
  <1> HIDE DEF id
  <1>2. ASSUME NEW v \in ToSet(g.invocations), v.id = id
        PROVE  FALSE
    <2>1. v.boundary = scope /\ v.key = key
      BY <1>1, <1>2, NamesSay DEF Identified
    <2> QED
      BY <2>1 DEF Borne
  <1>3. ASSUME NEW b \in ToSet(g.boundaries), b.id = id
        PROVE  FALSE
    <2>1. b.parent = scope /\ b.key = key
      BY <1>1, <1>3, NamesSay DEF Identified
    <2> QED
      BY <2>1 DEF Borne
  <1>4. ASSUME NEW f \in ToSet(st), f.boundary = id
        PROVE  FALSE
    <2>1. Front(f.boundary) = scope /\ f.key = key
      BY <1>1, <1>4, NamesSay, OpenedIs
    <2> QED
      BY <2>1 DEF Borne
  <1>5. id \notin Ids(g.invocations) \cup Ids(g.boundaries) \cup Opened(st)
    BY <1>2, <1>3, <1>4 DEF Ids, Opened
  <1> QED
    BY <1>5 DEF id

-----------------------------------------------------------------------------
(* Soundness, one step for each action.                                    *)

\* Sources are declared.
LEMMA DeclaringKeepsSound ==
  ASSUME DraftInv, NEW address, NEW kind, InputArtifact(address, kind)
  PROVE  Sound(graph', stack, held')
  <1> DEFINE n == Len(graph.sources)
             s == [id |-> n + 1, address |-> address, kind |-> kind]
             h == Handle(SourceReference(n + 1), kind, Root, FileAt(address))
  <1>1. graph' = [graph EXCEPT !.sources = Append(@, s)] /\ held' = held \cup {h}
    BY DEF InputArtifact
  <1>2. h.ref = SourceReference(n + 1) /\ h.kind = kind
    BY DEF Handle
  <1>3. Sound(graph, stack, held) /\ InOrder(graph, stack)
    BY DEF DraftInv, KeysInv
  <1>4. s.id = n + 1 /\ s.kind = kind
    OBVIOUS
  <1> HIDE DEF s, h
  <1>5. /\ graph'.operations = graph.operations /\ graph'.flows = graph.flows
        /\ graph'.sources = Append(graph.sources, s)
        /\ graph'.invocations = graph.invocations /\ graph'.edges = graph.edges
        /\ graph'.boundaries = graph.boundaries /\ graph'.parents = graph.parents
        /\ graph'.nextEdge = graph.nextEdge
    BY <1>1, <1>3 DEF InOrder, WholeGraph
  <1>6. Declared(graph')
    <2>1. /\ IsSeq(graph'.sources) /\ ToSet(graph'.sources) = ToSet(graph.sources) \cup {s}
          /\ Len(graph'.sources) = n + 1 /\ graph'.sources[n + 1] = s /\ n \in Nat
          /\ \A k \in 1 .. n : graph'.sources[k] = graph.sources[k]
      BY <1>3, <1>5, AppendIsSeq DEF Sound, Declared
    <2>2. DOMAIN graph'.sources = 1 .. n + 1 /\ DOMAIN graph.sources = 1 .. n
      BY <1>3, <2>1, SeqDomain DEF Sound, Declared
    <2>3. ASSUME NEW i \in 1 .. n + 1
          PROVE  graph'.sources[i].id = i
      <3>1. i \in 1 .. n \/ i = n + 1
        BY <2>1
      <3> QED
        BY <1>3, <1>4, <2>1, <2>2, <3>1 DEF Sound, Declared
    <2> QED
      BY <1>3, <1>5, <2>1, <2>2, <2>3 DEF Sound, Declared
  <1>7. ToSet(graph.sources) \subseteq ToSet(graph'.sources) /\ s \in ToSet(graph'.sources)
    BY <1>3, <1>5, AppendIsSeq DEF Sound, Declared
  <1>8. Grows(graph, graph')
    BY <1>3, <1>5, <1>6, <1>7, GrowsBy DEF Sound, Apart, InOrder
  <1>9. /\ \A v \in ToSet(graph'.invocations) : \E d \in ToSet(graph'.operations) : Binds(graph', v, d)
        /\ \A b \in ToSet(graph'.boundaries) : Returns(graph', b)
        /\ \A x \in held : Denotes(graph', x)
    BY <1>3, <1>5, <1>8, GrowingKeeps
  <1>10. Denotes(graph', h)
    <2> DEFINE r == SourceReference(n + 1)
    <2>a. r.producer = Root /\ r.source = n + 1
      BY DEF SourceReference
    <2>1. ~ IsOutput(h.ref) /\ h.ref.source = n + 1
      BY <1>2, <2>a DEF IsOutput
    <2>2. Once(ToSet(graph'.sources))
      BY <1>6, DistinctSources
    <2>3. Source(graph', n + 1) = {s}
      BY <1>4, <1>7, <2>2 DEF Source, Once
    <2> QED
      BY <1>2, <1>4, <2>1, <2>3 DEF Denotes, ReferenceKind
  <1>11. Identified(graph', stack) /\ Apart(graph', stack)
    BY <1>3, <1>5 DEF Sound, Identified, Apart, Places
  <1>12. Bound(graph')
    BY <1>3, <1>5, <1>9 DEF Sound, Bound
  <1>13. Wired(graph')
    <2>1. \A e : Connects(graph, e) => Connects(graph', e)
      BY <1>5 DEF Connects
    <2>2. ExpectedEdges(graph') = ExpectedEdges(graph)
      BY <1>5 DEF ExpectedEdges
    <2> QED
      BY <1>3, <1>5, <2>1, <2>2 DEF Sound, Wired
  <1> QED
    BY <1>1, <1>6, <1>9, <1>10, <1>11, <1>12, <1>13 DEF Sound

LEMMA RegisteredFlow ==
  ASSUME NEW s, IsSeq(s), AllDistinct(s), NEW x
  PROVE  /\ IsSeq(Registered(s, x)) /\ AllDistinct(Registered(s, x))
         /\ ToSet(Registered(s, x)) = ToSet(s) \cup {x}
  BY RegisteredOnce

LEMMA ScopeIsWithin == Scope = Within(stack)
  BY DEF Scope, Within

\* A flow is entered.
LEMMA EnteringKeepsSound ==
  ASSUME DraftInv, NEW name, NEW named \in ExplicitKeys \cup {NoKey}, EnterFlow(name, named)
  PROVE  /\ Sound(graph', stack', held')
         /\ \A i \in 1 .. Len(stack') : Sound(stack'[i].saved, SubSeq(stack', 1, i - 1), stack'[i].kept)
  <1> DEFINE key == ChosenKey(name, named, NoPoint)
             id == KeyedPlanId(Scope, key)
             frame == [boundary |-> id, flow |-> name, key |-> key,
                       saved |-> graph, kept |-> held, loops |-> Len(loops)]
             g == Keyed(name, name, named, NoPoint)
  <1>1. /\ graph' = [g EXCEPT !.flows = Registered(@, name), !.parents = @ \cup {id}]
        /\ stack' = Append(stack, frame) /\ held' = held /\ <<Scope, key>> \notin graph.keys
    BY DEF EnterFlow, KeyIsGranted, MayReserve
  <1>2. /\ frame.boundary = id /\ frame.key = key /\ frame.saved = graph /\ frame.kept = held
        /\ frame.flow = name
    OBVIOUS
  <1>3. /\ Sound(graph, stack, held) /\ InOrder(graph, stack) /\ IsSeq(stack) /\ IsSeq(Scope)
        /\ \A i \in 1 .. Len(stack) : Sound(stack[i].saved, SubSeq(stack, 1, i - 1), stack[i].kept)
    BY ScopeIsSeq DEF DraftInv, KeysInv
  <1>4. /\ g = [graph EXCEPT !.names = g.names, !.keys = g.keys]
        /\ g.keys = graph.keys \cup {<<Scope, key>>}
        /\ Numbered(g.names, g.keys)
    BY <1>3, KeyedGraph DEF InOrder
  <1>5. NamedAfter(Scope, key, id)
    BY <1>3 DEF NamedAfter
  <1>6. id \notin Ids(graph.invocations) \cup Ids(graph.boundaries) \cup Opened(stack)
    BY <1>1, <1>3, FreshId DEF Sound, InOrder
  <1> HIDE DEF key, id, frame, g
  <1>7. /\ graph'.operations = graph.operations /\ graph'.flows = Registered(graph.flows, name)
        /\ graph'.sources = graph.sources /\ graph'.invocations = graph.invocations
        /\ graph'.edges = graph.edges /\ graph'.boundaries = graph.boundaries
        /\ graph'.parents = graph.parents \cup {id} /\ graph'.nextEdge = graph.nextEdge
    BY <1>1, <1>3, <1>4 DEF InOrder, WholeGraph
  <1>8. /\ IsSeq(stack') /\ ToSet(stack') = ToSet(stack) \cup {frame}
        /\ Len(stack') = Len(stack) + 1 /\ stack'[Len(stack) + 1] = frame /\ Len(stack) \in Nat
        /\ \A k \in 1 .. Len(stack) : stack'[k] = stack[k]
        /\ Front(stack') = stack
    BY <1>1, <1>3, AppendIsSeq
  <1>9. /\ IsSeq(graph'.flows) /\ ToSet(graph'.flows) = ToSet(graph.flows) \cup {name}
        /\ AllDistinct(graph'.flows)
    <2>1. IsSeq(graph.flows) /\ AllDistinct(graph.flows)
      BY <1>3 DEF Sound, Declared
    <2>2. /\ IsSeq(Registered(graph.flows, name)) /\ AllDistinct(Registered(graph.flows, name))
          /\ ToSet(Registered(graph.flows, name)) = ToSet(graph.flows) \cup {name}
      BY <2>1, RegisteredFlow
    <2> QED
      BY <1>7, <2>2
  <1>10. Declared(graph')
    BY <1>3, <1>7, <1>9 DEF Sound, Declared
  <1>11. Grows(graph, graph')
    BY <1>3, <1>7, <1>10, GrowsBy DEF Sound, Apart, InOrder
  <1>12. /\ \A v \in ToSet(graph'.invocations) : \E d \in ToSet(graph'.operations) : Binds(graph', v, d)
         /\ \A b \in ToSet(graph'.boundaries) : Returns(graph', b)
         /\ \A x \in held' : Denotes(graph', x)
    BY <1>1, <1>3, <1>7, <1>11, GrowingKeeps
  <1>13. \A i \in 1 .. Len(stack) : SubSeq(stack', 1, i - 1) = SubSeq(stack, 1, i - 1)
    <2> SUFFICES ASSUME NEW i \in 1 .. Len(stack)
                 PROVE  SubSeq(stack', 1, i - 1) = SubSeq(stack, 1, i - 1)
      OBVIOUS
    <2>1. i <= Len(stack') /\ \A k \in 1 .. i : stack'[k] = stack[k]
      BY <1>8
    <2> QED
      BY <1>3, <1>8, <2>1, PrefixAgrees
  <1>14. SubSeq(stack', 1, Len(stack) + 1 - 1) = stack
    BY <1>8 DEF Front
  <1>15. \A i \in 1 .. Len(stack') : i \in 1 .. Len(stack) \/ i = Len(stack) + 1
    BY <1>8
  <1>16. Opened(stack') = Opened(stack) \cup {id}
    BY <1>2, <1>8 DEF Opened
  <1>17. Places(graph, stack) \subseteq Places(graph', stack')
    BY <1>7, <1>16 DEF Places
  <1>18. Identified(graph', stack')
    <2>1. ASSUME NEW i \in 1 .. Len(stack')
          PROVE  /\ NamedAfter(Within(SubSeq(stack', 1, i - 1)), stack'[i].key, stack'[i].boundary)
                 /\ stack'[i].flow \in ToSet(graph'.flows)
      <3>1. CASE i \in 1 .. Len(stack)
        BY <1>3, <1>8, <1>9, <1>13, <3>1 DEF Sound, Identified
      <3>2. CASE i = Len(stack) + 1
        <4>1. Within(SubSeq(stack', 1, i - 1)) = Scope
          <5>1. SubSeq(stack', 1, i - 1) = stack
            BY <1>14, <3>2
          <5> QED
            BY <5>1, ScopeIsWithin
        <4> QED
          BY <1>2, <1>5, <1>8, <1>9, <3>2, <4>1
      <3> QED
        BY <1>15, <3>1, <3>2
    <2> QED
      BY <1>3, <1>7, <1>9, <1>17, <2>1 DEF Sound, Identified
  <1>19. AllDistinct([i \in DOMAIN stack' |-> stack'[i].boundary])
    <2>1. AllDistinct([i \in DOMAIN stack |-> stack[i].boundary]) /\ frame.boundary \notin Opened(stack)
      BY <1>2, <1>3, <1>6 DEF Sound, Apart
    <2>2. AllDistinct([i \in DOMAIN Append(stack, frame) |-> Append(stack, frame)[i].boundary])
      BY <1>3, <2>1, BoundariesOneMore
    <2> QED
      BY <1>1, <2>2
  <1>20. Apart(graph', stack')
    BY <1>3, <1>6, <1>7, <1>16, <1>19 DEF Sound, Apart
  <1>21. Bound(graph')
    BY <1>3, <1>7, <1>12 DEF Sound, Bound
  <1>22. Wired(graph')
    <2>1. \A e : Connects(graph, e) => Connects(graph', e)
      BY <1>7 DEF Connects
    <2>2. ExpectedEdges(graph') = ExpectedEdges(graph)
      BY <1>7 DEF ExpectedEdges
    <2> QED
      BY <1>3, <1>7, <2>1, <2>2 DEF Sound, Wired
  <1>23. ASSUME NEW i \in 1 .. Len(stack')
         PROVE  Sound(stack'[i].saved, SubSeq(stack', 1, i - 1), stack'[i].kept)
    <2>1. CASE i \in 1 .. Len(stack)
      BY <1>3, <1>8, <1>13, <2>1
    <2>2. CASE i = Len(stack) + 1
      <3>1. stack'[i] = frame /\ SubSeq(stack', 1, i - 1) = stack
        BY <1>8, <1>14, <2>2
      <3> QED
        BY <1>2, <1>3, <3>1
    <2> QED
      BY <1>15, <2>1, <2>2
  <1> QED
    BY <1>10, <1>12, <1>18, <1>20, <1>21, <1>22, <1>23 DEF Sound

\* The flows around the innermost one.
LEMMA FlowsAround ==
  ASSUME DraftInv, stack # <<>>
  PROVE  /\ IsSeq(Front(stack)) /\ ToSet(stack) = ToSet(Front(stack)) \cup {Last(stack)}
         /\ Len(stack) \in 1 .. Len(stack) /\ Len(Front(stack)) = Len(stack) - 1
         /\ \A i \in 1 .. Len(Front(stack)) :
               /\ i \in 1 .. Len(stack) /\ Front(stack)[i] = stack[i]
               /\ SubSeq(Front(stack), 1, i - 1) = SubSeq(stack, 1, i - 1)
         /\ \A i \in 1 .. Len(Front(stack)) :
               Sound(Front(stack)[i].saved, SubSeq(Front(stack), 1, i - 1), Front(stack)[i].kept)
         /\ Sound(Last(stack).saved, Front(stack), Last(stack).kept)
         /\ NamedAfter(Within(Front(stack)), Last(stack).key, Last(stack).boundary)
         /\ Last(stack).flow \in ToSet(graph.flows)
  <1> DEFINE n == Len(stack)
             st == SubSeq(stack, 1, n - 1)
  <1>1. /\ IsSeq(Front(stack)) /\ n \in 1 .. n
        /\ ToSet(stack) = ToSet(Front(stack)) \cup {Last(stack)}
    BY Leaving DEF DraftInv
  <1>2. Front(stack) = st /\ Last(stack) = stack[n] /\ n - 1 \in 0 .. n
    BY <1>1 DEF Front, Last
  <1>3. IsSeq(stack)
    BY DEF DraftInv, KeysInv
  <1>4. Len(st) = n - 1 /\ \A k \in 1 .. n - 1 : st[k] = stack[k]
    BY <1>2, <1>3, PrefixIsSeq
  <1> HIDE DEF st
  <1>5. ASSUME NEW i \in 1 .. Len(st)
        PROVE  /\ i \in 1 .. n /\ st[i] = stack[i]
               /\ SubSeq(st, 1, i - 1) = SubSeq(stack, 1, i - 1)
    <2>1. i \in 1 .. n /\ i <= Len(st) /\ 1 .. i \subseteq 1 .. n - 1
      BY <1>1, <1>4
    <2>2. i \in 1 .. Len(stack) /\ \A k \in 1 .. i : st[k] = stack[k]
      BY <1>4, <2>1
    <2>3. SubSeq(st, 1, i - 1) = SubSeq(stack, 1, i - 1)
      <3> HIDE DEF n
      <3> QED
        BY <1>1, <1>2, <1>3, <2>1, <2>2, PrefixAgrees
    <2> QED
      BY <2>1, <2>2, <2>3
  <1>6. ASSUME NEW i \in 1 .. Len(st)
        PROVE  Sound(st[i].saved, SubSeq(st, 1, i - 1), st[i].kept)
    BY <1>5 DEF DraftInv
  <1>7. Sound(stack[n].saved, st, stack[n].kept)
    BY <1>1 DEF DraftInv, st
  <1>8. NamedAfter(Within(st), stack[n].key, stack[n].boundary) /\ stack[n].flow \in ToSet(graph.flows)
    BY <1>1 DEF DraftInv, Sound, Identified, st
  <1> QED
    BY <1>1, <1>2, <1>4, <1>5, <1>6, <1>7, <1>8

\* A flow returns.
LEMMA ReturningKeepsSound ==
  ASSUME DraftInv, FlowReturns
  PROVE  /\ Sound(graph', stack', held')
         /\ \A i \in 1 .. Len(stack') : Sound(stack'[i].saved, SubSeq(stack', 1, i - 1), stack'[i].kept)
  <1> DEFINE flow == Last(stack)
             Offered == {h \in Usable : IsOutput(h.ref) /\ BoundaryContains(flow.boundary, h.boundary)}
  <1>1. stack # <<>> /\ stack' = Front(stack) /\ held' = held
    BY DEF FlowReturns
  <1>2. PICK outputs \in {<<>>} \cup {<<NamedOutput(h.ref)>> : h \in Offered} :
            graph' = [graph EXCEPT !.boundaries = Append(@,
                FlowBoundary(flow.boundary, flow.flow, Front(flow.boundary), outputs, flow.key))]
    BY DEF FlowReturns
  <1> DEFINE b == FlowBoundary(flow.boundary, flow.flow, Front(flow.boundary), outputs, flow.key)
  <1>3. /\ b.id = flow.boundary /\ b.flow = flow.flow /\ b.parent = Front(flow.boundary)
        /\ b.outputs = outputs /\ b.key = flow.key
    BY DEF FlowBoundary
  <1>4. Sound(graph, stack, held) /\ InOrder(graph, stack)
    BY DEF DraftInv, KeysInv
  <1>5. /\ IsSeq(Front(stack)) /\ ToSet(stack) = ToSet(Front(stack)) \cup {flow}
        /\ Len(stack) \in 1 .. Len(stack) /\ Len(Front(stack)) = Len(stack) - 1
        /\ \A i \in 1 .. Len(Front(stack)) :
              /\ i \in 1 .. Len(stack) /\ Front(stack)[i] = stack[i]
              /\ SubSeq(Front(stack), 1, i - 1) = SubSeq(stack, 1, i - 1)
        /\ \A i \in 1 .. Len(Front(stack)) :
              Sound(Front(stack)[i].saved, SubSeq(Front(stack), 1, i - 1), Front(stack)[i].kept)
        /\ NamedAfter(Within(Front(stack)), flow.key, flow.boundary)
        /\ flow.flow \in ToSet(graph.flows)
    BY <1>1, FlowsAround
  <1>6. IsSeq(stack) /\ flow = stack[Len(stack)]
    BY DEF DraftInv, KeysInv, Last
  <1> HIDE DEF flow, b
  <1>7. /\ graph'.operations = graph.operations /\ graph'.flows = graph.flows
        /\ graph'.sources = graph.sources /\ graph'.invocations = graph.invocations
        /\ graph'.edges = graph.edges /\ graph'.boundaries = Append(graph.boundaries, b)
        /\ graph'.parents = graph.parents /\ graph'.nextEdge = graph.nextEdge
    BY <1>2, <1>4 DEF InOrder, WholeGraph, b
  <1>8. /\ IsSeq(graph'.boundaries) /\ ToSet(graph'.boundaries) = ToSet(graph.boundaries) \cup {b}
    BY <1>4, <1>7, AppendIsSeq DEF InOrder
  <1>9. Opened(stack) = Opened(stack') \cup {b.id}
    BY <1>1, <1>3, <1>5 DEF Opened
  <1>10. Ids(graph'.boundaries) = Ids(graph.boundaries) \cup {b.id}
    BY <1>8 DEF Ids
  <1>11. Places(graph', stack') = Places(graph, stack)
    BY <1>9, <1>10 DEF Places
  <1>12. b.id \notin Ids(graph.boundaries) /\ b.id \notin Ids(graph.invocations)
    BY <1>4, <1>9 DEF Sound, Apart
  <1>13. b.id \notin Opened(stack')
    <2> SUFFICES ASSUME NEW f \in ToSet(Front(stack)), f.boundary = flow.boundary
                 PROVE  FALSE
      BY <1>1, <1>3 DEF Opened
    <2>1. PICK i \in 1 .. Len(Front(stack)) : f = Front(stack)[i]
      BY <1>5, SeqDomain
    <2>2. f = stack[i] /\ i \in 1 .. Len(stack) /\ i # Len(stack)
      BY <1>5, <2>1
    <2>3. DOMAIN stack = 1 .. Len(stack)
      BY <1>6, SeqDomain
    <2>4. \A k, l \in DOMAIN stack : stack[k].boundary = stack[l].boundary => k = l
      BY <1>4 DEF Sound, Apart, AllDistinct, IsInjective
    <2> QED
      BY <1>5, <1>6, <2>2, <2>3, <2>4
  <1>14. Declared(graph') /\ Bound(graph')
    <2>1. \A r : ReferenceKind(graph', r) = ReferenceKind(graph, r)
      BY <1>7 DEF ReferenceKind, Definition, Invocation, Source
    <2>2. \A v, d : Binds(graph, v, d) => Binds(graph', v, d)
      BY <2>1 DEF Binds, BoundInput
    <2> QED
      BY <1>4, <1>7, <2>2 DEF Sound, Declared, Bound
  <1>15. Identified(graph', stack')
    <2>1. Front(b.id) = Within(Front(stack)) /\ NamedAfter(b.parent, b.key, b.id)
      BY <1>3, <1>5, NameOf
    <2>2. b.parent \in Places(graph', stack')
      BY <1>1, <1>3, <1>5, <2>1, PlaceOfScope
    <2>3. b.flow \in ToSet(graph'.flows)
      BY <1>3, <1>5, <1>7
    <2>4. ASSUME NEW x \in ToSet(graph'.boundaries)
          PROVE  NamedAfter(x.parent, x.key, x.id) /\ x.parent \in Places(graph', stack') /\ x.flow \in ToSet(graph'.flows)
      <3>1. CASE x = b
        BY <2>1, <2>2, <2>3, <3>1
      <3>2. CASE x \in ToSet(graph.boundaries)
        BY <1>4, <1>7, <1>11, <3>2 DEF Sound, Identified
      <3> QED
        BY <1>8, <3>1, <3>2
    <2>5. ASSUME NEW i \in 1 .. Len(stack')
          PROVE  NamedAfter(Within(SubSeq(stack', 1, i - 1)), stack'[i].key, stack'[i].boundary)
                 /\ stack'[i].flow \in ToSet(graph'.flows)
      BY <1>1, <1>4, <1>5, <1>7 DEF Sound, Identified
    <2> QED
      BY <1>4, <1>7, <1>11, <2>4, <2>5 DEF Sound, Identified
  <1>16. Apart(graph', stack')
    <2>1. AllDistinct([i \in DOMAIN graph'.boundaries |-> graph'.boundaries[i].id])
      <3>1. AllDistinct([i \in DOMAIN graph.boundaries |-> graph.boundaries[i].id]) /\ IsSeq(graph.boundaries)
        BY <1>4 DEF Sound, Apart, InOrder
      <3> QED
        BY <1>7, <1>12, <3>1, IdsOneMore
    <2>2. AllDistinct([i \in DOMAIN stack' |-> stack'[i].boundary])
      <3>1. DOMAIN stack' = 1 .. Len(Front(stack)) /\ DOMAIN stack = 1 .. Len(stack)
        BY <1>1, <1>5, <1>6, SeqDomain
      <3>2. \A k, l \in DOMAIN stack : stack[k].boundary = stack[l].boundary => k = l
        BY <1>4 DEF Sound, Apart, AllDistinct, IsInjective
      <3>3. \A k \in DOMAIN stack' : k \in DOMAIN stack /\ stack'[k] = stack[k]
        BY <1>1, <1>5, <3>1
      <3> QED
        BY <3>2, <3>3 DEF AllDistinct, IsInjective
    <2>3. graph'.parents = Ids(graph'.boundaries) \cup Opened(stack')
      BY <1>4, <1>7, <1>9, <1>10 DEF Sound, Apart
    <2>4. /\ Ids(graph'.invocations) \cap (Ids(graph'.boundaries) \cup Opened(stack')) = {}
          /\ Ids(graph'.boundaries) \cap Opened(stack') = {}
      BY <1>4, <1>7, <1>9, <1>10, <1>12, <1>13 DEF Sound, Apart
    <2> QED
      BY <1>4, <1>7, <2>1, <2>2, <2>3, <2>4 DEF Sound, Apart
  <1>17. Wired(graph')
    <2>1. \A e : Connects(graph, e) => Connects(graph', e)
      BY <1>7 DEF Connects
    <2>2. ExpectedEdges(graph') = ExpectedEdges(graph)
      BY <1>7 DEF ExpectedEdges
    <2> QED
      BY <1>4, <1>7, <2>1, <2>2 DEF Sound, Wired
  <1>18. /\ \A r : ReferenceKind(graph', r) = ReferenceKind(graph, r)
         /\ \A id : Invocation(graph', id) = Invocation(graph, id)
    BY <1>7 DEF ReferenceKind, Definition, Invocation, Source
  <1>19. Returns(graph', b)
    <2>1. CASE outputs = <<>>
      BY <1>3, <2>1 DEF Returns
    <2>2. CASE outputs # <<>>
      <3>1. PICK h \in Offered : outputs = <<NamedOutput(h.ref)>>
        BY <1>2, <2>2
      <3>2. h \in held /\ IsOutput(h.ref) /\ BoundaryContains(flow.boundary, h.boundary)
        BY <3>1 DEF Usable
      <3>3. Denotes(graph, h)
        BY <1>4, <3>2 DEF Sound
      <3>4. ReferenceKind(graph', h.ref) # {}
        BY <1>18, <3>3 DEF Denotes
      <3>5. \A v \in Invocation(graph', h.ref.producer) : Inside(graph'.parents, b.id, v.boundary)
        BY <1>3, <1>7, <1>18, <3>2, <3>3 DEF Denotes, Inside, BoundaryContains
      <3> QED
        BY <1>3, <3>1, <3>2, <3>4, <3>5 DEF Returns
    <2> QED
      BY <2>1, <2>2
  <1>20. /\ \A x \in ToSet(graph'.boundaries) : Returns(graph', x)
         /\ \A h \in held' : Denotes(graph', h)
    <2>1. ASSUME NEW x \in ToSet(graph.boundaries)
          PROVE  Returns(graph', x)
      <3>1. Returns(graph, x)
        BY <1>4 DEF Sound
      <3> QED
        BY <1>7, <1>18, <3>1 DEF Returns
    <2>2. \A h \in held : Denotes(graph', h)
      BY <1>4, <1>18 DEF Sound, Denotes
    <2> QED
      BY <1>1, <1>8, <1>19, <2>1, <2>2
  <1> QED
    BY <1>1, <1>5, <1>14, <1>15, <1>16, <1>17, <1>20 DEF Sound

\* A flow fails, and nothing of it is kept.
LEMMA FailingKeepsSound ==
  ASSUME DraftInv, ~ Escapes, FlowFails
  PROVE  /\ Sound(graph', stack', held')
         /\ \A i \in 1 .. Len(stack') : Sound(stack'[i].saved, SubSeq(stack', 1, i - 1), stack'[i].kept)
  <1>1. /\ stack # <<>> /\ stack' = Front(stack) /\ held' = Last(stack).kept
        /\ graph' = Last(stack).saved
    BY DEF FlowFails, Restored
  <1>2. /\ \A i \in 1 .. Len(Front(stack)) :
              Sound(Front(stack)[i].saved, SubSeq(Front(stack), 1, i - 1), Front(stack)[i].kept)
        /\ Sound(Last(stack).saved, Front(stack), Last(stack).kept)
    BY <1>1, FlowsAround
  <1> QED
    BY <1>1, <1>2

\* Nothing authored is sound.
LEMMA NothingIsSound ==
  Sound(Empty, <<>>, {})
  <1> DEFINE none == <<>>
  <1>1. IsSeq(none) /\ ToSet(none) = {} /\ DOMAIN none = {} /\ 1 .. Len(none) = {}
    BY DEF IsSeq, ToSet
  <1>2. /\ Empty.operations = none /\ Empty.flows = none /\ Empty.sources = none
        /\ Empty.invocations = none /\ Empty.edges = none /\ Empty.boundaries = none
        /\ Empty.parents = {} /\ Empty.nextEdge = 1
    BY DEF Empty
  <1> HIDE DEF none
  <1>3. \A f : DOMAIN f = {} => AllDistinct(f)
    BY DEF AllDistinct, IsInjective
  <1>4. Ids(none) = {} /\ Opened(none) = {}
    BY <1>1 DEF Ids, Opened
  <1>5. Declared(Empty)
    BY <1>1, <1>2, <1>3 DEF Declared
  <1>6. Identified(Empty, none) /\ Bound(Empty)
    BY <1>1, <1>2 DEF Identified, Bound
  <1>7. Apart(Empty, none)
    BY <1>1, <1>2, <1>3, <1>4 DEF Apart
  <1>8. Wired(Empty)
    <2>1. ExpectedEdges(Empty) = {}
      BY <1>1, <1>2 DEF ExpectedEdges
    <2>2. {EdgeOf(e) : e \in ToSet(none)} = {}
      BY <1>1
    <2> QED
      BY <1>1, <1>2, <1>3, <2>1, <2>2 DEF Wired
  <1>9. Sound(Empty, none, {})
    BY <1>1, <1>2, <1>5, <1>6, <1>7, <1>8 DEF Sound
  <1> QED
    BY <1>9 DEF none

-----------------------------------------------------------------------------
(* The edges of a call.                                                    *)

LEMMA FunctionIsSeq ==
  ASSUME NEW n \in Nat, NEW f, f = [i \in 1 .. n |-> f[i]]
  PROVE  IsSeq(f) /\ Len(f) = n
  <1>1. DOMAIN f = 1 .. n
    <2>1. DOMAIN [i \in 1 .. n |-> f[i]] = 1 .. n
      OBVIOUS
    <2> QED
      BY <2>1
  <1>2. f \in [1 .. n -> ToSet(f)]
    BY <1>1 DEF ToSet
  <1> DEFINE S == ToSet(f)
  <1> HIDE DEF S
  <1>3. f \in Seq(S)
    <2>1. f \in [1 .. n -> S]
      BY <1>2 DEF S
    <2> QED
      BY <2>1, SeqDef
  <1>4. IsSeq(f)
    BY <1>3 DEF S, IsSeq
  <1>5. Len(f) \in Nat /\ 1 .. Len(f) = 1 .. n
    BY <1>1, <1>4, SeqDomain
  <1> QED
    BY <1>4, <1>5

\* A set in some order.
LEMMA OrderedSet ==
  ASSUME NEW S, IsFiniteSet(S)
  PROVE  LET s == SetToSeq(S)
         IN  /\ IsSeq(s) /\ ToSet(s) = S /\ AllDistinct(s)
             /\ Len(s) = Cardinality(S) /\ Cardinality(S) \in Nat
  <1> DEFINE s == SetToSeq(S)
             n == Cardinality(S)
  <1>1. n \in Nat /\ ExistsBijection(1 .. n, S)
    BY FS_CardinalityType
  <1>2. PICK f \in [1 .. n -> S] : IsInjective(f)
    BY <1>1 DEF ExistsBijection, Bijection, Injection
  <1>3. s \in [1 .. n -> S] /\ IsInjective(s)
    BY <1>2 DEF SetToSeq
  <1> HIDE DEF s, n
  <1>4. s \in Injection(1 .. n, S)
    BY <1>3 DEF Injection
  <1>5. IsFiniteSet(1 .. n) /\ Cardinality(1 .. n) = n
    BY <1>1, FS_Interval
  <1>6. s \in Surjection(1 .. n, S)
    <2>1. Cardinality(1 .. n) = Cardinality(S)
      BY <1>5 DEF n
    <2> QED
      BY <1>4, <2>1, FS_Injection
  <1>7. IsSeq(s) /\ Len(s) = n
    BY <1>1, <1>3, FunctionIsSeq
  <1>8. ToSet(s) = S
    <2>1. DOMAIN s = 1 .. n
      BY <1>3
    <2> QED
      BY <1>3, <1>6, <2>1 DEF ToSet, Surjection
  <1> QED
    BY <1>1, <1>3, <1>7, <1>8 DEF s, n, AllDistinct

\* One sequence after another.
LEMMA Concatenated ==
  ASSUME NEW s, IsSeq(s), NEW t, IsSeq(t)
  PROVE  LET u == s \o t
         IN  /\ IsSeq(u) /\ ToSet(u) = ToSet(s) \cup ToSet(t)
             /\ Len(s) \in Nat /\ Len(t) \in Nat
             /\ DOMAIN u = 1 .. Len(s) + Len(t)
             /\ DOMAIN s = 1 .. Len(s) /\ DOMAIN t = 1 .. Len(t)
             /\ \A i \in 1 .. Len(s) : u[i] = s[i]
             /\ \A i \in 1 .. Len(t) : u[Len(s) + i] = t[i]
  <1> DEFINE S == ToSet(s) \cup ToSet(t)
             u == s \o t
  <1>1. /\ Len(s) \in Nat /\ Len(t) \in Nat /\ DOMAIN s = 1 .. Len(s) /\ DOMAIN t = 1 .. Len(t)
    BY SeqDomain
  <1>2. s \in Seq(S) /\ t \in Seq(S)
    <2>1. ToSet(s) \subseteq S /\ ToSet(t) \subseteq S
      OBVIOUS
    <2> HIDE DEF S
    <2> QED
      BY <2>1 DEF IsSeq
  <1> HIDE DEF S
  <1>3. /\ u \in Seq(S) /\ Len(u) = Len(s) + Len(t)
        /\ \A i \in 1 .. Len(s) + Len(t) : u[i] = IF i <= Len(s) THEN s[i] ELSE t[i - Len(s)]
    BY <1>2, ConcatProperties
  <1> HIDE DEF u
  <1>4. DOMAIN u = 1 .. Len(s) + Len(t)
    BY <1>3
  <1>5. \A i \in 1 .. Len(s) : u[i] = s[i]
    BY <1>1, <1>3
  <1>6. ASSUME NEW i \in 1 .. Len(t)
        PROVE  u[Len(s) + i] = t[i]
    <2>1. Len(s) + i \in 1 .. Len(s) + Len(t) /\ ~ (Len(s) + i <= Len(s)) /\ Len(s) + i - Len(s) = i
      BY <1>1
    <2> QED
      BY <1>3, <2>1
  <1>7. \A i \in 1 .. Len(s) + Len(t) : i \in 1 .. Len(s) \/ (\E j \in 1 .. Len(t) : i = Len(s) + j)
    <2> SUFFICES ASSUME NEW i \in 1 .. Len(s) + Len(t), i \notin 1 .. Len(s)
                 PROVE  \E j \in 1 .. Len(t) : i = Len(s) + j
      OBVIOUS
    <2>1. i - Len(s) \in 1 .. Len(t) /\ i = Len(s) + (i - Len(s))
      BY <1>1
    <2> QED
      BY <2>1
  <1>8. ToSet(u) = S
    <2>1. \A i \in 1 .. Len(s) + Len(t) : u[i] \in S
      BY <1>1, <1>5, <1>6, <1>7 DEF S, ToSet
    <2>2. \A i \in 1 .. Len(s) : i \in 1 .. Len(s) + Len(t)
      BY <1>1
    <2>3. \A i \in 1 .. Len(t) : Len(s) + i \in 1 .. Len(s) + Len(t)
      BY <1>1
    <2>4. \A x \in S : \E i \in 1 .. Len(s) + Len(t) : u[i] = x
      <3>1. ASSUME NEW x \in ToSet(s)
            PROVE  \E i \in 1 .. Len(s) + Len(t) : u[i] = x
        <4>1. PICK k \in 1 .. Len(s) : x = s[k]
          BY SeqDomain
        <4> QED
          BY <1>5, <2>2, <4>1
      <3>2. ASSUME NEW x \in ToSet(t)
            PROVE  \E i \in 1 .. Len(s) + Len(t) : u[i] = x
        <4>1. PICK k \in 1 .. Len(t) : x = t[k]
          BY SeqDomain
        <4> QED
          BY <1>6, <2>3, <4>1
      <3> QED
        BY <3>1, <3>2 DEF S
    <2> QED
      BY <1>4, <2>1, <2>4 DEF ToSet
  <1>9. IsSeq(u)
    BY <1>3, <1>8 DEF IsSeq
  <1> QED
    BY <1>1, <1>4, <1>5, <1>6, <1>8, <1>9 DEF u, S

\* The names h are f, n of them, and then g.
Joins(h, f, n, g, m) ==
    /\ n \in Nat /\ m \in Nat
    /\ DOMAIN f = 1 .. n /\ DOMAIN g = 1 .. m /\ DOMAIN h = 1 .. n + m
    /\ \A i \in 1 .. n : h[i] = f[i]
    /\ \A i \in 1 .. m : h[n + i] = g[i]

LEMMA BothDistinct ==
  ASSUME NEW h, NEW f, NEW n, NEW g, NEW m, Joins(h, f, n, g, m), AllDistinct(f), AllDistinct(g),
         \A i \in 1 .. n : \A j \in 1 .. m : f[i] # g[j]
  PROVE  AllDistinct(h)
  <1>0. /\ n \in Nat /\ m \in Nat
        /\ DOMAIN f = 1 .. n /\ DOMAIN g = 1 .. m /\ DOMAIN h = 1 .. n + m
        /\ \A i \in 1 .. n : h[i] = f[i]
        /\ \A i \in 1 .. m : h[n + i] = g[i]
    BY DEF Joins
  <1>1. \A i \in 1 .. n + m : i \in 1 .. n \/ (i - n \in 1 .. m /\ i = n + (i - n))
    BY <1>0
  <1>2. \A i, j \in 1 .. n : f[i] = f[j] => i = j
    BY <1>0 DEF AllDistinct, IsInjective
  <1>3. \A i, j \in 1 .. m : g[i] = g[j] => i = j
    BY <1>0 DEF AllDistinct, IsInjective
  <1>4. ASSUME NEW i \in 1 .. n + m, NEW j \in 1 .. n + m, h[i] = h[j]
        PROVE  i = j
    <2>1. CASE i \in 1 .. n /\ j \in 1 .. n
      BY <1>0, <1>2, <1>4, <2>1
    <2>2. CASE i \in 1 .. n /\ j \notin 1 .. n
      <3>1. PICK l \in 1 .. m : j = n + l
        BY <1>1, <2>2
      <3>2. h[i] = f[i] /\ h[j] = g[l]
        BY <1>0, <2>2, <3>1
      <3> QED
        BY <1>4, <2>2, <3>2
    <2>3. CASE i \notin 1 .. n /\ j \in 1 .. n
      <3>1. PICK l \in 1 .. m : i = n + l
        BY <1>1, <2>3
      <3>2. h[j] = f[j] /\ h[i] = g[l]
        BY <1>0, <2>3, <3>1
      <3> QED
        BY <1>4, <2>3, <3>2
    <2>4. CASE i \notin 1 .. n /\ j \notin 1 .. n
      <3>1. PICK k \in 1 .. m : i = n + k
        BY <1>1, <2>4
      <3>2. PICK l \in 1 .. m : j = n + l
        BY <1>1, <2>4
      <3>3. h[i] = g[k] /\ h[j] = g[l]
        BY <1>0, <3>1, <3>2
      <3> QED
        BY <1>3, <1>4, <3>1, <3>2, <3>3
    <2> QED
      BY <2>1, <2>2, <2>3, <2>4
  <1> QED
    BY <1>0, <1>4 DEF AllDistinct, IsInjective

\* What an author passes is what the operation declares: one reference, or as
\* many as were passed, each to a handle of the kind.
Passed(d, inputs) ==
    /\ DOMAIN inputs = DOMAIN d.inputs
    /\ \A name \in DOMAIN d.inputs :
          /\ inputs[name].many = d.inputs[name].many
          /\ IsSeq(inputs[name].refs) /\ 1 \in DOMAIN inputs[name].refs
          /\ DOMAIN inputs[name].refs \subseteq 1 .. 2

LEMMA ArgumentsArePassed ==
  ASSUME NEW d \in Definitions, NEW args \in Arguments(d)
  PROVE  /\ Passed(d, Bindings(d, args))
         /\ \A name \in DOMAIN d.inputs : \A r \in ToSet(Bindings(d, args)[name].refs) :
               \E h \in held : h.ref = r /\ h.kind = d.inputs[name].kind
  <1> DEFINE inputs == Bindings(d, args)
  <1>1. DOMAIN args = DOMAIN d.inputs
    BY DEF Arguments
  <1>2. DOMAIN inputs = DOMAIN d.inputs
    BY <1>1 DEF Bindings
  <1>3. ASSUME NEW name \in DOMAIN d.inputs
        PROVE  /\ inputs[name].many = d.inputs[name].many
               /\ IsSeq(inputs[name].refs) /\ 1 \in DOMAIN inputs[name].refs
               /\ DOMAIN inputs[name].refs \subseteq 1 .. 2
               /\ \A r \in ToSet(inputs[name].refs) :
                     \E h \in held : h.ref = r /\ h.kind = d.inputs[name].kind
    <2> DEFINE Fits == {h \in Usable : h.kind = d.inputs[name].kind}
               a == args[name]
               refs == [i \in DOMAIN a |-> a[i].ref]
    <2>1. \/ \E h \in Fits : a = <<h>>
          \/ d.inputs[name].many /\ \E pair \in Fits \X Fits : a = <<pair[1], pair[2]>>
      <3>1. a \in {<<h>> : h \in Fits} \cup
                (IF d.inputs[name].many
                 THEN {<<pair[1], pair[2]>> : pair \in Fits \X Fits} ELSE {})
        BY DEF Arguments
      <3> HIDE DEF a, Fits
      <3> QED
        BY <3>1
    <2>2. \E n \in {1, 2} : DOMAIN a = 1 .. n /\ (\A i \in 1 .. n : a[i] \in Fits)
      <3>1. CASE \E h \in Fits : a = <<h>>
        <4>1. PICK h \in Fits : a = <<h>>
          BY <3>1
        <4> HIDE DEF a, Fits
        <4>2. DOMAIN a = 1 .. 1 /\ a[1] \in Fits
          BY <4>1
        <4> QED
          BY <4>2
      <3>2. CASE \E pair \in Fits \X Fits : a = <<pair[1], pair[2]>>
        <4>1. PICK pair \in Fits \X Fits : a = <<pair[1], pair[2]>>
          BY <3>2
        <4> HIDE DEF a, Fits
        <4>2. DOMAIN a = 1 .. 2 /\ a[1] \in Fits /\ a[2] \in Fits
          BY <4>1
        <4> QED
          BY <4>2
      <3> QED
        BY <2>1, <3>1, <3>2
    <2>3. inputs[name] = IF d.inputs[name].many THEN Collection(refs) ELSE Scalar(a[1].ref)
      BY <1>1 DEF Bindings
    <2>4. d.inputs[name].many \in BOOLEAN
      BY ParametersAssumption
    <2>5. Fits \subseteq held /\ \A h \in Fits : h.kind = d.inputs[name].kind
      BY DEF Usable
    <2> HIDE DEF a, Fits, inputs
    <2>6. CASE d.inputs[name].many
      <3>1. inputs[name].many = TRUE /\ inputs[name].refs = refs
        BY <2>3, <2>6 DEF Collection
      <3>2. PICK n \in {1, 2} : DOMAIN a = 1 .. n /\ (\A i \in 1 .. n : a[i] \in Fits)
        BY <2>2
      <3>3. DOMAIN refs = 1 .. n /\ \A i \in 1 .. n : refs[i] = a[i].ref
        BY <3>2
      <3>4. n \in Nat /\ refs = [i \in 1 .. n |-> refs[i]]
        BY <3>2
      <3> HIDE DEF refs
      <3>5. IsSeq(refs)
        BY <3>4, FunctionIsSeq
      <3>6. 1 \in 1 .. n /\ 1 .. n \subseteq 1 .. 2
        BY <3>2
      <3>7. \A r \in ToSet(refs) : \E h \in held : h.ref = r /\ h.kind = d.inputs[name].kind
        BY <2>5, <3>2, <3>3 DEF ToSet
      <3> QED
        BY <2>4, <2>6, <3>1, <3>3, <3>5, <3>6, <3>7
    <2>7. CASE ~ d.inputs[name].many
      <3> DEFINE one == <<a[1].ref>>
      <3>1. inputs[name].many = FALSE /\ inputs[name].refs = one
        BY <2>3, <2>7 DEF Scalar
      <3>2. a[1] \in Fits
        <4>1. PICK n \in {1, 2} : DOMAIN a = 1 .. n /\ (\A i \in 1 .. n : a[i] \in Fits)
          BY <2>2
        <4>2. 1 \in 1 .. n
          BY <4>1
        <4> QED
          BY <4>1, <4>2
      <3>3. DOMAIN one = 1 .. 1 /\ one[1] = a[1].ref /\ one = [i \in 1 .. 1 |-> one[i]]
        OBVIOUS
      <3> HIDE DEF one
      <3>4. IsSeq(one)
        BY <3>3, FunctionIsSeq
      <3>5. \A r \in ToSet(one) : r = a[1].ref
        BY <3>3 DEF ToSet
      <3>6. 1 \in 1 .. 1 /\ 1 .. 1 \subseteq 1 .. 2
        OBVIOUS
      <3> QED
        BY <2>4, <2>5, <2>7, <3>1, <3>2, <3>3, <3>4, <3>5, <3>6
    <2> QED
      BY <2>6, <2>7
  <1> QED
    BY <1>2, <1>3 DEF Passed

\* What an edge is expected for says everything else about it.
LEMMA ExpectedEnd ==
  ASSUME NEW v, NEW e \in ExpectedEdgesOf(v)
  PROVE  /\ e.target = v.id /\ e.input \in DOMAIN v.inputs
         /\ e.member \in Members(v.inputs[e.input])
         /\ e.source = MemberRef(v.inputs[e.input], e.member)
         /\ v.inputs[e.input].many \/ IsOutput(e.source)
         /\ EdgeOf(e) = e
  <1>1. PICK name \in DOMAIN v.inputs : \E m \in Members(v.inputs[name]) :
           /\ v.inputs[name].many \/ IsOutput(MemberRef(v.inputs[name], m))
           /\ e = [source |-> MemberRef(v.inputs[name], m), target |-> v.id,
                   input |-> name, member |-> m]
    BY DEF ExpectedEdgesOf
  <1> QED
    BY <1>1 DEF EdgeOf

LEMMA FinitelyMany ==
  ASSUME NEW v, NEW d \in Definitions, Passed(d, v.inputs)
  PROVE  IsFiniteSet(ExpectedEdgesOf(v)) /\ IsFiniteSet(FromSources(v)) /\ IsFiniteSet(FromOutputs(v))
  <1> DEFINE E == ExpectedEdgesOf(v)
             P == (DOMAIN d.inputs) \X (0 .. 2)
             f == [e \in E |-> <<e.input, e.member>>]
  <1>1. IsFiniteSet(P)
    <2>1. IsFiniteSet(DOMAIN d.inputs)
      BY ParametersAssumption
    <2>2. 0 \in Int /\ 2 \in Int
      OBVIOUS
    <2>3. IsFiniteSet(0 .. 2)
      BY <2>2, FS_Interval
    <2> QED
      BY <2>1, <2>3, FS_Product
  <1>2. ASSUME NEW e \in E
        PROVE  <<e.input, e.member>> \in P
    <2>1. e.input \in DOMAIN v.inputs /\ e.member \in Members(v.inputs[e.input])
      BY ExpectedEnd
    <2>2. e.member \in 0 .. 2
      <3>1. DOMAIN v.inputs[e.input].refs \subseteq 1 .. 2
        BY <2>1 DEF Passed
      <3> QED
        BY <2>1, <3>1 DEF Members, NoMember
    <2> QED
      BY <2>1, <2>2 DEF Passed
  <1>3. ASSUME NEW e \in E, NEW c \in E, <<e.input, e.member>> = <<c.input, c.member>>
        PROVE  e = c
    <2>1. e.input = c.input /\ e.member = c.member
      BY <1>3
    <2>2. e = EdgeOf(e) /\ c = EdgeOf(c) /\ e.source = c.source /\ e.target = c.target
      BY <2>1, ExpectedEnd
    <2>3. EdgeOf(e) = EdgeOf(c)
      BY <2>1, <2>2 DEF EdgeOf
    <2> QED
      BY <2>2, <2>3
  <1>4. f \in Injection(E, P)
    <2> HIDE DEF E, P
    <2> QED
      BY <1>2, <1>3 DEF Injection, IsInjective
  <1>5. IsFiniteSet(E)
    <2> HIDE DEF E, P, f
    <2> QED
      BY <1>1, <1>4, FS_Injection
  <1> QED
    BY <1>5, FS_Subset DEF FromSources, FromOutputs

\* The edges a call adds are those that are expected of it, each once, each with
\* an ID of its own.
Told(e) == <<e.target, e.input, e.member>>

LEMMA EdgesOfCall ==
  ASSUME NEW v, NEW d \in Definitions, Passed(d, v.inputs), NEW first \in Nat \ {0}
  PROVE  LET new == NewEdges(d, v, first)
             c == Cardinality(FromSources(v))
         IN  /\ c \in Nat /\ IsSeq(new)
             /\ {EdgeOf(e) : e \in ToSet(new)} = ExpectedEdgesOf(v)
             /\ \A e \in ToSet(new) :
                   /\ EdgeOf(e) \in ExpectedEdgesOf(v) /\ e.kind = d.inputs[e.input].kind
                   /\ IF IsOutput(e.source)
                      THEN e.id = StableEdgeId(e.source, e.target, e.input, e.member)
                      ELSE \E n \in first .. first + c - 1 : e.id = NumberedEdgeId(n)
             /\ AllDistinct([i \in DOMAIN new |-> Told(new[i])])
             /\ AllDistinct([i \in DOMAIN new |-> new[i].id])
  <1> DEFINE A == FromSources(v)
             B == FromOutputs(v)
             a == SetToSeq(A)
             b == SetToSeq(B)
             c == Cardinality(A)
             Edge(e, id) == DependencyEdge(id, e, d.inputs[e.input].kind)
             s == [i \in DOMAIN a |-> Edge(a[i], NumberedEdgeId(first + i - 1))]
             t == [i \in DOMAIN b |-> Edge(b[i],
                      StableEdgeId(b[i].source, v.id, b[i].input, b[i].member))]
             new == NewEdges(d, v, first)
  <1>1. new = s \o t
    BY DEF NewEdges
  <1>2. /\ IsSeq(a) /\ ToSet(a) = A /\ AllDistinct(a) /\ Len(a) = c /\ c \in Nat
        /\ IsSeq(b) /\ ToSet(b) = B /\ AllDistinct(b)
    BY FinitelyMany, OrderedSet
  <1> DEFINE m == Len(b)
  <1>3. /\ DOMAIN a = 1 .. c /\ DOMAIN b = 1 .. m /\ m \in Nat
        /\ \A i \in 1 .. c : a[i] \in A
        /\ \A i \in 1 .. m : b[i] \in B
        /\ \A x \in A : \E i \in 1 .. c : x = a[i]
        /\ \A x \in B : \E i \in 1 .. m : x = b[i]
    BY <1>2, SeqDomain
  <1>4. \A e, id : /\ EdgeOf(Edge(e, id)) = EdgeOf(e) /\ Edge(e, id).id = id
                   /\ Edge(e, id).source = e.source /\ Edge(e, id).target = e.target
                   /\ Edge(e, id).input = e.input /\ Edge(e, id).member = e.member
                   /\ Edge(e, id).kind = d.inputs[e.input].kind
    BY DEF DependencyEdge, EdgeOf
  <1>5. \A e \in ExpectedEdgesOf(v) : EdgeOf(e) = e /\ e.target = v.id
    BY ExpectedEnd
  <1>6. \A e, f \in ExpectedEdgesOf(v) : e.input = f.input /\ e.member = f.member => e = f
    <2> SUFFICES ASSUME NEW e \in ExpectedEdgesOf(v), NEW f \in ExpectedEdgesOf(v),
                        e.input = f.input, e.member = f.member
                 PROVE  e = f
      OBVIOUS
    <2>1. e.source = f.source /\ e.target = f.target /\ EdgeOf(e) = e /\ EdgeOf(f) = f
      BY ExpectedEnd
    <2>2. EdgeOf(e) = EdgeOf(f)
      BY <2>1 DEF EdgeOf
    <2> QED
      BY <2>1, <2>2
  <1>7. /\ A \cup B = ExpectedEdgesOf(v)
        /\ \A e \in A : ~ IsOutput(e.source)
        /\ \A e \in B : IsOutput(e.source)
    BY DEF FromSources, FromOutputs
  <1>8. /\ \A i, j \in 1 .. c : a[i] = a[j] => i = j
        /\ \A i, j \in 1 .. m : b[i] = b[j] => i = j
    BY <1>2, <1>3 DEF AllDistinct, IsInjective
  <1>9. /\ DOMAIN s = 1 .. c /\ DOMAIN t = 1 .. m
        /\ \A i \in 1 .. c : s[i] = Edge(a[i], NumberedEdgeId(first + i - 1))
        /\ \A i \in 1 .. m : t[i] = Edge(b[i], StableEdgeId(b[i].source, v.id, b[i].input, b[i].member))
    BY <1>3
  <1>10. s = [i \in 1 .. c |-> s[i]] /\ t = [i \in 1 .. m |-> t[i]]
    BY <1>3
  <1> HIDE DEF A, B, a, b, c, m, s, t, new, Edge
  <1>11. IsSeq(s) /\ Len(s) = c /\ IsSeq(t) /\ Len(t) = m
    BY <1>2, <1>3, <1>10, FunctionIsSeq
  <1>12. /\ IsSeq(new) /\ ToSet(new) = ToSet(s) \cup ToSet(t)
         /\ DOMAIN new = 1 .. c + m
         /\ \A i \in 1 .. c : new[i] = s[i]
         /\ \A i \in 1 .. m : new[c + i] = t[i]
    <2>1. /\ IsSeq(s \o t) /\ ToSet(s \o t) = ToSet(s) \cup ToSet(t)
          /\ DOMAIN (s \o t) = 1 .. Len(s) + Len(t)
          /\ \A i \in 1 .. Len(s) : (s \o t)[i] = s[i]
          /\ \A i \in 1 .. Len(t) : (s \o t)[Len(s) + i] = t[i]
      BY <1>11, Concatenated
    <2> QED
      BY <1>1, <1>11, <2>1
  <1>13. \A i \in 1 .. c : /\ EdgeOf(s[i]) = a[i] /\ a[i] \in ExpectedEdgesOf(v)
                           /\ ~ IsOutput(s[i].source)
                           /\ s[i].id = NumberedEdgeId(first + i - 1)
                           /\ s[i].kind = d.inputs[s[i].input].kind
                           /\ s[i].target = v.id /\ s[i].input = a[i].input /\ s[i].member = a[i].member
    BY <1>3, <1>4, <1>5, <1>7, <1>9
  <1>14. \A i \in 1 .. m : /\ EdgeOf(t[i]) = b[i] /\ b[i] \in ExpectedEdgesOf(v)
                           /\ IsOutput(t[i].source)
                           /\ t[i].id = StableEdgeId(t[i].source, t[i].target, t[i].input, t[i].member)
                           /\ t[i].kind = d.inputs[t[i].input].kind
                           /\ t[i].target = v.id /\ t[i].input = b[i].input /\ t[i].member = b[i].member
    BY <1>3, <1>4, <1>5, <1>7, <1>9
  <1>15. \A e \in ToSet(new) : (\E i \in 1 .. c : e = s[i]) \/ (\E i \in 1 .. m : e = t[i])
    BY <1>9, <1>12 DEF ToSet
  <1>16. /\ \A i \in 1 .. c : s[i] \in ToSet(new)
         /\ \A i \in 1 .. m : t[i] \in ToSet(new)
    BY <1>9, <1>12 DEF ToSet
  <1>17. {EdgeOf(e) : e \in ToSet(new)} = ExpectedEdgesOf(v)
    <2>1. \A e \in ToSet(new) : EdgeOf(e) \in ExpectedEdgesOf(v)
      BY <1>13, <1>14, <1>15
    <2>2. \A x \in ExpectedEdgesOf(v) : \E e \in ToSet(new) : EdgeOf(e) = x
      BY <1>3, <1>7, <1>13, <1>14, <1>16
    <2> QED
      BY <2>1, <2>2
  <1>18. ASSUME NEW e \in ToSet(new)
         PROVE  /\ EdgeOf(e) \in ExpectedEdgesOf(v) /\ e.kind = d.inputs[e.input].kind
                /\ IF IsOutput(e.source)
                   THEN e.id = StableEdgeId(e.source, e.target, e.input, e.member)
                   ELSE \E n \in first .. first + c - 1 : e.id = NumberedEdgeId(n)
    <2>1. CASE \E i \in 1 .. c : e = s[i]
      <3>1. PICK i \in 1 .. c : e = s[i]
        BY <2>1
      <3>2. first + i - 1 \in first .. first + c - 1
        BY <1>2
      <3> QED
        BY <1>13, <3>1, <3>2
    <2>2. CASE \E i \in 1 .. m : e = t[i]
      BY <1>14, <2>2
    <2> QED
      BY <1>15, <2>1, <2>2
  <1>19. /\ \A i, j \in 1 .. c : Told(s[i]) = Told(s[j]) => i = j
         /\ \A i, j \in 1 .. m : Told(t[i]) = Told(t[j]) => i = j
         /\ \A i \in 1 .. c : \A j \in 1 .. m : Told(s[i]) # Told(t[j])
    <2>1. \A e, f : Told(e) = Told(f) => e.input = f.input /\ e.member = f.member
      BY DEF Told
    <2>2. /\ \A i, j \in 1 .. c : Told(s[i]) = Told(s[j]) => a[i] = a[j]
          /\ \A i, j \in 1 .. m : Told(t[i]) = Told(t[j]) => b[i] = b[j]
          /\ \A i \in 1 .. c : \A j \in 1 .. m : Told(s[i]) = Told(t[j]) => a[i] = b[j]
      BY <1>6, <1>13, <1>14, <2>1
    <2>3. \A i \in 1 .. c : \A j \in 1 .. m : a[i] # b[j]
      BY <1>3, <1>7
    <2> QED
      BY <1>8, <2>2, <2>3
  <1>20. /\ \A i, j \in 1 .. c : s[i].id = s[j].id => i = j
         /\ \A i, j \in 1 .. m : t[i].id = t[j].id => i = j
         /\ \A i \in 1 .. c : \A j \in 1 .. m : s[i].id # t[j].id
    <2>1. \A i, j \in Int : NumberedEdgeId(first + i - 1) = NumberedEdgeId(first + j - 1) => i = j
      <3>1. \A k : NumberedEdgeId(k).number = k
        BY DEF NumberedEdgeId
      <3>2. \A i, j \in Int : first + i - 1 = first + j - 1 => i = j
        OBVIOUS
      <3> QED
        BY <3>1, <3>2
    <2>2. ASSUME NEW i \in 1 .. c, NEW j \in 1 .. m
          PROVE  s[i].id # t[j].id
      <3>1. first + i - 1 # 0
        BY <1>2
      <3>2. \A k : NumberedEdgeId(k).number = k
        BY DEF NumberedEdgeId
      <3>3. \A x, y, z, w : StableEdgeId(x, y, z, w).number = 0
        BY DEF StableEdgeId
      <3> QED
        BY <1>13, <1>14, <3>1, <3>2, <3>3
    <2>3. ASSUME NEW i \in 1 .. m, NEW j \in 1 .. m, t[i].id = t[j].id
          PROVE  i = j
      <3>1. \A e : StableEdgeId(e.source, e.target, e.input, e.member).of
                     = <<e.source, e.target, e.input, e.member>>
        BY DEF StableEdgeId
      <3>2. <<t[i].source, t[i].target, t[i].input, t[i].member>>
               = <<t[j].source, t[j].target, t[j].input, t[j].member>>
        BY <1>14, <2>3, <3>1
      <3>3. Told(t[i]) = Told(t[j])
        BY <3>2 DEF Told
      <3> QED
        BY <1>19, <3>3
    <2>4. \A i, j \in 1 .. c : s[i].id = s[j].id => i = j
      BY <1>2, <1>13, <2>1
    <2> QED
      BY <2>2, <2>3, <2>4
  <1>21. AllDistinct([i \in DOMAIN new |-> Told(new[i])])
    <2> DEFINE f == [i \in 1 .. c |-> Told(s[i])]
               g == [i \in 1 .. m |-> Told(t[i])]
               h == [i \in DOMAIN new |-> Told(new[i])]
    <2>1. /\ DOMAIN f = 1 .. c /\ DOMAIN g = 1 .. m /\ DOMAIN h = 1 .. c + m
          /\ AllDistinct(f) /\ AllDistinct(g)
          /\ \A i \in 1 .. c : \A j \in 1 .. m : f[i] # g[j]
      BY <1>12, <1>19 DEF AllDistinct, IsInjective
    <2>2. \A i \in 1 .. c : i \in 1 .. c + m /\ \A j \in 1 .. m : c + j \in 1 .. c + m
      BY <1>2, <1>3
    <2>3. (\A i \in 1 .. c : h[i] = f[i]) /\ (\A i \in 1 .. m : h[c + i] = g[i])
      <3>1. \A i \in 1 .. m : c + i \in 1 .. c + m
        BY <1>2, <1>3
      <3> QED
        BY <1>12, <2>2, <3>1
    <2> HIDE DEF f, g, h
    <2>4. c \in Nat /\ m \in Nat
      BY <1>2, <1>3
    <2>5. Joins(h, f, c, g, m)
      BY <2>1, <2>3, <2>4 DEF Joins
    <2>6. AllDistinct(h)
      BY <2>1, <2>5, BothDistinct
    <2> QED
      BY <2>6 DEF h
  <1>22. AllDistinct([i \in DOMAIN new |-> new[i].id])
    <2> DEFINE f == [i \in 1 .. c |-> s[i].id]
               g == [i \in 1 .. m |-> t[i].id]
               h == [i \in DOMAIN new |-> new[i].id]
    <2>1. /\ DOMAIN f = 1 .. c /\ DOMAIN g = 1 .. m /\ DOMAIN h = 1 .. c + m
          /\ AllDistinct(f) /\ AllDistinct(g)
          /\ \A i \in 1 .. c : \A j \in 1 .. m : f[i] # g[j]
      BY <1>12, <1>20 DEF AllDistinct, IsInjective
    <2>2. (\A i \in 1 .. c : i \in 1 .. c + m) /\ (\A i \in 1 .. m : c + i \in 1 .. c + m)
      BY <1>2, <1>3
    <2>3. (\A i \in 1 .. c : h[i] = f[i]) /\ (\A i \in 1 .. m : h[c + i] = g[i])
      BY <1>12, <2>2
    <2> HIDE DEF f, g, h
    <2>4. c \in Nat /\ m \in Nat
      BY <1>2, <1>3
    <2>5. Joins(h, f, c, g, m)
      BY <2>1, <2>3, <2>4 DEF Joins
    <2>6. AllDistinct(h)
      BY <2>1, <2>5, BothDistinct
    <2> QED
      BY <2>6 DEF h
  <1> QED
    BY <1>2, <1>12, <1>17, <1>18, <1>21, <1>22 DEF c, A, new

LEMMA RegisteredOperation ==
  ASSUME NEW s, IsSeq(s), NEW x, AllDistinct([i \in DOMAIN s |-> s[i].identity]),
         \A y \in ToSet(s) : y.identity = x.identity => y = x
  PROVE  /\ IsSeq(Registered(s, x)) /\ ToSet(Registered(s, x)) = ToSet(s) \cup {x}
         /\ AllDistinct([i \in DOMAIN Registered(s, x) |-> Registered(s, x)[i].identity])
  BY RegisteredOnce

\* The edges of all calls, with those of one more.
LEMMA EdgesOneMore ==
  ASSUME NEW g, Wired(g), NEW st, Apart(g, st), NEW v, v.id \notin Ids(g.invocations),
         NEW d \in Definitions, v.operation = d.identity, Passed(d, v.inputs),
         NEW g2, ToSet(g2.invocations) = ToSet(g.invocations) \cup {v},
         ToSet(g2.operations) = ToSet(g.operations) \cup {d},
         g2.edges = g.edges \o NewEdges(d, v, g.nextEdge),
         g2.nextEdge = g.nextEdge + Cardinality(FromSources(v))
  PROVE  Wired(g2)
  <1> DEFINE first == g.nextEdge
             new == NewEdges(d, v, first)
             c == Cardinality(FromSources(v))
             old == g.edges
  <1>1. /\ IsSeq(old) /\ first \in Nat \ {0}
        /\ {EdgeOf(e) : e \in ToSet(old)} = ExpectedEdges(g)
        /\ AllDistinct([i \in DOMAIN old |-> Told(old[i])])
        /\ AllDistinct([i \in DOMAIN old |-> old[i].id])
        /\ \A e \in ToSet(old) : Connects(g, e)
    BY DEF Wired, Told
  <1>2. /\ c \in Nat /\ IsSeq(new)
        /\ {EdgeOf(e) : e \in ToSet(new)} = ExpectedEdgesOf(v)
        /\ \A e \in ToSet(new) :
              /\ EdgeOf(e) \in ExpectedEdgesOf(v) /\ e.kind = d.inputs[e.input].kind
              /\ IF IsOutput(e.source)
                 THEN e.id = StableEdgeId(e.source, e.target, e.input, e.member)
                 ELSE \E n \in first .. first + c - 1 : e.id = NumberedEdgeId(n)
        /\ AllDistinct([i \in DOMAIN new |-> Told(new[i])])
        /\ AllDistinct([i \in DOMAIN new |-> new[i].id])
    BY <1>1, EdgesOfCall
  <1>3. g2.edges = old \o new /\ g2.nextEdge = first + c
    OBVIOUS
  <1> HIDE DEF old, new, first, c
  <1> DEFINE n == Len(old)
             m == Len(new)
             both == g2.edges
  <1>4. /\ IsSeq(both) /\ ToSet(both) = ToSet(old) \cup ToSet(new)
        /\ n \in Nat /\ m \in Nat /\ DOMAIN both = 1 .. n + m
        /\ DOMAIN old = 1 .. n /\ DOMAIN new = 1 .. m
        /\ \A i \in 1 .. n : both[i] = old[i]
        /\ \A i \in 1 .. m : both[n + i] = new[i]
    <2>1. /\ IsSeq(old \o new) /\ ToSet(old \o new) = ToSet(old) \cup ToSet(new)
          /\ n \in Nat /\ m \in Nat /\ DOMAIN (old \o new) = 1 .. n + m
          /\ DOMAIN old = 1 .. n /\ DOMAIN new = 1 .. m
          /\ \A i \in 1 .. n : (old \o new)[i] = old[i]
          /\ \A i \in 1 .. m : (old \o new)[n + i] = new[i]
      <3>1. IsSeq(old) /\ IsSeq(new)
        BY <1>1, <1>2
      <3> QED
        BY ONLY <3>1, Concatenated
    <2> QED
      BY <1>3, <2>1
  <1>5. \A i \in 1 .. n : old[i] \in ToSet(old)
    BY <1>4 DEF ToSet
  <1>6. \A i \in 1 .. m : new[i] \in ToSet(new)
    BY <1>4 DEF ToSet
  <1>7. ASSUME NEW e \in ToSet(new)
        PROVE  e.target = v.id /\ e.input \in DOMAIN d.inputs
    <2>1. EdgeOf(e).target = v.id /\ EdgeOf(e).input \in DOMAIN v.inputs
      BY <1>2, ExpectedEnd
    <2> QED
      BY <2>1 DEF EdgeOf, Passed
  <1>8. \A e \in ToSet(old) : e.target # v.id
    BY <1>1 DEF Connects, Ids
  <1>9. \A e \in ToSet(old), f \in ToSet(new) : Told(e) # Told(f)
    <2>1. \A e, f : Told(e) = Told(f) => e.target = f.target
      BY DEF Told
    <2> QED
      BY <1>7, <1>8, <2>1
  <1>10. ASSUME NEW e \in ToSet(old), NEW f \in ToSet(new), e.id = f.id
         PROVE  FALSE
    <2>1. IF IsOutput(e.source) THEN e.id = StableEdgeId(e.source, e.target, e.input, e.member)
          ELSE \E k \in 1 .. first - 1 : e.id = NumberedEdgeId(k)
      BY <1>1 DEF Connects, first
    <2>2. IF IsOutput(f.source) THEN f.id = StableEdgeId(f.source, f.target, f.input, f.member)
          ELSE \E k \in first .. first + c - 1 : f.id = NumberedEdgeId(k)
      BY <1>2
    <2>3. \A k : NumberedEdgeId(k).number = k
      BY DEF NumberedEdgeId
    <2>4. \A x, y, z, w : StableEdgeId(x, y, z, w).number = 0 /\ StableEdgeId(x, y, z, w).of = <<x, y, z, w>>
      BY DEF StableEdgeId
    <2>5. CASE IsOutput(e.source) /\ IsOutput(f.source)
      <3>1. <<e.source, e.target, e.input, e.member>> = <<f.source, f.target, f.input, f.member>>
        BY <1>10, <2>1, <2>2, <2>4, <2>5
      <3>2. e.target = f.target
        BY <3>1
      <3> QED
        BY <1>7, <1>8, <3>2
    <2>6. CASE IsOutput(e.source) /\ ~ IsOutput(f.source)
      <3>1. PICK k \in first .. first + c - 1 : f.id = NumberedEdgeId(k)
        BY <2>2, <2>6
      <3>2. k # 0
        BY <1>1, <1>2
      <3> QED
        BY <1>10, <2>1, <2>3, <2>4, <2>6, <3>1, <3>2
    <2>7. CASE ~ IsOutput(e.source) /\ IsOutput(f.source)
      <3>1. PICK k \in 1 .. first - 1 : e.id = NumberedEdgeId(k)
        BY <2>1, <2>7
      <3>2. k # 0
        BY <1>1
      <3> QED
        BY <1>10, <2>2, <2>3, <2>4, <2>7, <3>1, <3>2
    <2>8. CASE ~ IsOutput(e.source) /\ ~ IsOutput(f.source)
      <3>1. PICK k \in 1 .. first - 1 : e.id = NumberedEdgeId(k)
        BY <2>1, <2>8
      <3>2. PICK l \in first .. first + c - 1 : f.id = NumberedEdgeId(l)
        BY <2>2, <2>8
      <3>3. k # l
        BY <1>1, <1>2
      <3>4. e.id.number = k /\ f.id.number = l
        BY <2>3, <3>1, <3>2
      <3> QED
        BY <1>10, <3>3, <3>4
    <2> QED
      BY <2>5, <2>6, <2>7, <2>8
  <1>11. AllDistinct([i \in DOMAIN both |-> Told(both[i])])
    <2> DEFINE f == [i \in DOMAIN old |-> Told(old[i])]
               k == [i \in DOMAIN new |-> Told(new[i])]
               h == [i \in DOMAIN both |-> Told(both[i])]
    <2>1. DOMAIN f = 1 .. n /\ DOMAIN k = 1 .. m /\ DOMAIN h = 1 .. n + m
      BY <1>4
    <2>2. (\A i \in 1 .. n : i \in 1 .. n + m) /\ (\A i \in 1 .. m : n + i \in 1 .. n + m)
      BY <1>4
    <2>3. (\A i \in 1 .. n : h[i] = f[i]) /\ (\A i \in 1 .. m : h[n + i] = k[i])
      BY <1>4, <2>2
    <2>4. \A i \in 1 .. n : \A j \in 1 .. m : f[i] # k[j]
      BY <1>4, <1>5, <1>6, <1>9
    <2>5. AllDistinct(f) /\ AllDistinct(k)
      BY <1>1, <1>2
    <2> HIDE DEF f, k, h, n, m, both
    <2>6. Joins(h, f, n, k, m)
      BY <1>4, <2>1, <2>3 DEF Joins
    <2>7. AllDistinct(h)
      BY <2>4, <2>5, <2>6, BothDistinct
    <2> QED
      BY <2>7 DEF h
  <1>12. AllDistinct([i \in DOMAIN both |-> both[i].id])
    <2> DEFINE f == [i \in DOMAIN old |-> old[i].id]
               k == [i \in DOMAIN new |-> new[i].id]
               h == [i \in DOMAIN both |-> both[i].id]
    <2>1. DOMAIN f = 1 .. n /\ DOMAIN k = 1 .. m /\ DOMAIN h = 1 .. n + m
      BY <1>4
    <2>2. (\A i \in 1 .. n : i \in 1 .. n + m) /\ (\A i \in 1 .. m : n + i \in 1 .. n + m)
      BY <1>4
    <2>3. (\A i \in 1 .. n : h[i] = f[i]) /\ (\A i \in 1 .. m : h[n + i] = k[i])
      BY <1>4, <2>2
    <2>4. \A i \in 1 .. n : \A j \in 1 .. m : f[i] # k[j]
      BY <1>4, <1>5, <1>6, <1>10
    <2>5. AllDistinct(f) /\ AllDistinct(k)
      BY <1>1, <1>2
    <2> HIDE DEF f, k, h, n, m, both
    <2>6. Joins(h, f, n, k, m)
      BY <1>4, <2>1, <2>3 DEF Joins
    <2>7. AllDistinct(h)
      BY <2>4, <2>5, <2>6, BothDistinct
    <2> QED
      BY <2>7 DEF h
  <1>13. ExpectedEdges(g2) = ExpectedEdges(g) \cup ExpectedEdgesOf(v)
    BY DEF ExpectedEdges
  <1>14. {EdgeOf(e) : e \in ToSet(both)} = ExpectedEdges(g2)
    BY <1>1, <1>2, <1>4, <1>13
  <1>15. ASSUME NEW e \in ToSet(both)
         PROVE  Connects(g2, e)
    <2>1. CASE e \in ToSet(old)
      <3>1. Connects(g, e)
        BY <1>1, <2>1
      <3>2. 1 .. g.nextEdge - 1 \subseteq 1 .. g2.nextEdge - 1
        BY <1>1, <1>2, <1>3 DEF first
      <3> QED
        BY <3>1, <3>2 DEF Connects
    <2>2. CASE e \in ToSet(new)
      <3>1. /\ e.target = v.id /\ e.input \in DOMAIN d.inputs /\ e.kind = d.inputs[e.input].kind
            /\ v \in ToSet(g2.invocations) /\ d \in ToSet(g2.operations)
        BY <1>2, <1>7, <2>2
      <3>2. first .. first + c - 1 \subseteq 1 .. g2.nextEdge - 1
        BY <1>1, <1>2, <1>3
      <3>3. IF IsOutput(e.source) THEN e.id = StableEdgeId(e.source, e.target, e.input, e.member)
            ELSE \E k \in 1 .. g2.nextEdge - 1 : e.id = NumberedEdgeId(k)
        BY <1>2, <2>2, <3>2
      <3> QED
        BY <3>1, <3>3 DEF Connects
    <2> QED
      BY <1>4, <2>1, <2>2
  <1>16. g2.nextEdge \in Nat \ {0}
    BY <1>1, <1>2, <1>3
  <1> QED
    BY <1>4, <1>11, <1>12, <1>14, <1>15, <1>16 DEF Wired, Told

\* An operation is called.
LEMMA CallingKeepsSound ==
  ASSUME DraftInv, CallSome
  PROVE  Sound(graph', stack, held')
  <1>1. PICK d \in Definitions : \E args \in Arguments(d) : \E config \in [d.config -> Values] :
            \E named \in ExplicitKeys \cup {NoKey} : CallOperation(d, args, config, named)
    BY DEF CallSome
  <1>2. PICK args \in Arguments(d) : \E config \in [d.config -> Values] :
            \E named \in ExplicitKeys \cup {NoKey} : CallOperation(d, args, config, named)
    BY <1>1
  <1>3. PICK config \in [d.config -> Values] : \E named \in ExplicitKeys \cup {NoKey} :
            CallOperation(d, args, config, named)
    BY <1>2
  <1>4. PICK named \in ExplicitKeys \cup {NoKey} : CallOperation(d, args, config, named)
    BY <1>3
  <1> DEFINE key == ChosenKey(d.name, named, sweeping)
             v == InvocationRecord(KeyedPlanId(Scope, key), d.identity, Bindings(d, args),
                                   config, Scope, key)
             new == NewEdges(d, v, graph.nextEdge)
             c == Cardinality(FromSources(v))
             g == Keyed(d.name, d.identity, named, sweeping)
             meaning == Compute(d, config, [name \in DOMAIN args |->
                            [i \in DOMAIN args[name] |-> args[name][i].meaning]], draft)
             made == {Handle(OutputReference(v.id, output), d.outputs[output], Scope, meaning) :
                         output \in DOMAIN d.outputs}
  <1>5. /\ graph' = [g EXCEPT !.operations = Registered(@, d), !.invocations = Append(@, v),
                              !.edges = @ \o new, !.nextEdge = @ + c]
        /\ held' = held \cup made /\ Registers(d)
        /\ <<Scope, key>> \notin graph.keys
    BY <1>4 DEF CallOperation, KeyIsGranted, MayReserve
  <1>6. /\ v.id = KeyedPlanId(Scope, key) /\ v.operation = d.identity /\ v.inputs = Bindings(d, args)
        /\ v.config = config /\ v.boundary = Scope /\ v.key = key
    BY DEF InvocationRecord
  <1>7. ASSUME NEW h \in made
        PROVE  \E output \in DOMAIN d.outputs :
                  h.ref = OutputReference(v.id, output) /\ h.kind = d.outputs[output] /\ h.boundary = Scope
    <2>1. PICK output \in DOMAIN d.outputs :
             h = Handle(OutputReference(v.id, output), d.outputs[output], Scope, meaning)
      OBVIOUS
    <2> HIDE DEF v, meaning, made
    <2> QED
      BY <2>1 DEF Handle
  <1>8. /\ Sound(graph, stack, held) /\ InOrder(graph, stack) /\ IsSeq(stack) /\ IsSeq(Scope)
    BY ScopeIsSeq DEF DraftInv, KeysInv
  <1>9. /\ g = [graph EXCEPT !.names = g.names, !.keys = g.keys]
        /\ g.keys = graph.keys \cup {<<Scope, key>>}
        /\ Numbered(g.names, g.keys)
    BY <1>8, KeyedGraph DEF InOrder
  <1>10. NamedAfter(v.boundary, v.key, v.id)
    BY <1>6, <1>8 DEF NamedAfter
  <1>11. v.id \notin Ids(graph.invocations) \cup Ids(graph.boundaries) \cup Opened(stack)
    BY <1>5, <1>6, <1>8, FreshId DEF Sound, InOrder
  <1> HIDE DEF key, v, new, c, g, meaning, made
  <1>12. /\ graph'.operations = Registered(graph.operations, d) /\ graph'.flows = graph.flows
         /\ graph'.sources = graph.sources /\ graph'.invocations = Append(graph.invocations, v)
         /\ graph'.edges = graph.edges \o new /\ graph'.boundaries = graph.boundaries
         /\ graph'.parents = graph.parents /\ graph'.nextEdge = graph.nextEdge + c
    BY <1>5, <1>8, <1>9 DEF InOrder, WholeGraph
  <1>13. /\ IsSeq(graph'.operations) /\ ToSet(graph'.operations) = ToSet(graph.operations) \cup {d}
         /\ AllDistinct([i \in DOMAIN graph'.operations |-> graph'.operations[i].identity])
    <2>1. /\ IsSeq(graph.operations)
          /\ AllDistinct([i \in DOMAIN graph.operations |-> graph.operations[i].identity])
          /\ \A y \in ToSet(graph.operations) : y.identity = d.identity => y = d
      BY <1>5, <1>8 DEF Sound, Declared, Registers
    <2>2. /\ IsSeq(Registered(graph.operations, d))
          /\ ToSet(Registered(graph.operations, d)) = ToSet(graph.operations) \cup {d}
          /\ AllDistinct([i \in DOMAIN Registered(graph.operations, d) |->
                             Registered(graph.operations, d)[i].identity])
      BY <2>1, RegisteredOperation
    <2> QED
      BY <1>12, <2>2
  <1>14. Declared(graph')
    BY <1>8, <1>12, <1>13 DEF Sound, Declared
  <1> DEFINE n == Len(graph.invocations)
  <1>15. /\ IsSeq(graph'.invocations) /\ ToSet(graph'.invocations) = ToSet(graph.invocations) \cup {v}
         /\ n \in Nat /\ Len(graph'.invocations) = n + 1 /\ graph'.invocations[n + 1] = v
         /\ \A k \in 1 .. n : graph'.invocations[k] = graph.invocations[k]
    BY <1>8, <1>12, AppendIsSeq DEF InOrder
  <1>16. DOMAIN graph'.invocations = 1 .. n + 1 /\ DOMAIN graph.invocations = 1 .. n
    BY <1>8, <1>15, SeqDomain DEF InOrder
  <1>17. /\ AllDistinct([i \in DOMAIN graph'.invocations |-> graph'.invocations[i].id])
         /\ Ids(graph'.invocations) = Ids(graph.invocations) \cup {v.id}
    <2>1. /\ AllDistinct([i \in DOMAIN graph.invocations |-> graph.invocations[i].id])
          /\ IsSeq(graph.invocations) /\ v.id \notin Ids(graph.invocations)
      BY <1>8, <1>11 DEF Sound, Apart, InOrder
    <2> QED
      BY <1>12, <2>1, IdsOneMore
  <1>18. Grows(graph, graph')
    BY <1>8, <1>12, <1>13, <1>14, <1>15, <1>17, GrowsBy DEF Sound, Apart, InOrder
  <1>19. /\ \A x \in ToSet(graph.invocations) : \E e \in ToSet(graph'.operations) : Binds(graph', x, e)
         /\ \A b \in ToSet(graph'.boundaries) : Returns(graph', b)
         /\ \A x \in held : Denotes(graph', x)
    BY <1>8, <1>12, <1>18, GrowingKeeps
  <1>20. Identified(graph', stack)
    <2>1. Places(graph', stack) = Places(graph, stack)
      BY <1>12 DEF Places
    <2>2. v.boundary \in Places(graph, stack)
      BY <1>6, <1>8, PlaceOfScope, ScopeIsWithin
    <2> QED
      BY <1>8, <1>10, <1>12, <1>15, <2>1, <2>2 DEF Sound, Identified
  <1>21. Apart(graph', stack)
    BY <1>8, <1>11, <1>12, <1>17 DEF Sound, Apart
  <1>22. /\ Passed(d, v.inputs)
         /\ \A name \in DOMAIN d.inputs : \A r \in ToSet(v.inputs[name].refs) :
               \E h \in held : h.ref = r /\ h.kind = d.inputs[name].kind
    BY <1>6, ArgumentsArePassed
  <1>23. Binds(graph', v, d)
    <2>1. ASSUME NEW name \in DOMAIN d.inputs, NEW r \in ToSet(v.inputs[name].refs)
          PROVE  ReferenceKind(graph', r) = {d.inputs[name].kind}
      <3>1. PICK h \in held : h.ref = r /\ h.kind = d.inputs[name].kind
        BY <1>22
      <3> QED
        BY <1>19, <3>1 DEF Denotes
    <2>2. DOMAIN v.config = d.config
      BY <1>3, <1>6
    <2> QED
      BY <1>6, <1>22, <2>1, <2>2 DEF Binds, BoundInput, Passed
  <1>24. ASSUME NEW r \in References(v), IsOutput(r)
         PROVE  \E i \in 1 .. n : graph'.invocations[i].id = r.producer
    <2>1. PICK name \in DOMAIN d.inputs : r \in ToSet(v.inputs[name].refs)
      BY <1>22 DEF References, Passed
    <2>2. PICK h \in held : h.ref = r
      BY <1>22, <2>1
    <2>3. ReferenceKind(graph, r) # {}
      BY <1>8, <2>2 DEF Sound, Denotes
    <2>4. PICK u \in ToSet(graph.invocations) :
             u.id = r.producer /\ Invocation(graph, r.producer) = {u} /\ Invocation(graph', r.producer) = {u}
      BY <1>18, <1>24, <2>3, KindStays
    <2>5. PICK i \in 1 .. n : u = graph.invocations[i]
      BY <1>16 DEF ToSet
    <2> QED
      BY <1>15, <2>4, <2>5
  <1>25. Bound(graph')
    <2>1. \A x \in ToSet(graph'.invocations) : \E e \in ToSet(graph'.operations) : Binds(graph', x, e)
      BY <1>13, <1>15, <1>19, <1>23
    <2>2. ASSUME NEW j \in DOMAIN graph'.invocations, NEW r \in References(graph'.invocations[j]), IsOutput(r)
          PROVE  \E i \in 1 .. j - 1 : graph'.invocations[i].id = r.producer
      <3>1. CASE j \in 1 .. n
        <4>1. graph'.invocations[j] = graph.invocations[j] /\ j \in DOMAIN graph.invocations
          BY <1>15, <1>16, <3>1
        <4>2. PICK i \in 1 .. j - 1 : graph.invocations[i].id = r.producer
          BY <1>8, <2>2, <4>1 DEF Sound, Bound
        <4>3. i \in 1 .. n
          BY <1>15, <3>1
        <4> QED
          BY <1>15, <4>2, <4>3
      <3>2. CASE j = n + 1
        <4>1. graph'.invocations[j] = v /\ j - 1 = n
          BY <1>15, <3>2
        <4> QED
          BY <1>24, <2>2, <4>1
      <3> QED
        BY <1>15, <1>16, <3>1, <3>2
    <2> QED
      BY <2>1, <2>2 DEF Bound
  <1>26. Wired(graph')
    <2>1. Wired(graph) /\ Apart(graph, stack) /\ v.id \notin Ids(graph.invocations)
      BY <1>8, <1>11 DEF Sound
    <2>2. /\ graph'.edges = graph.edges \o NewEdges(d, v, graph.nextEdge)
          /\ graph'.nextEdge = graph.nextEdge + Cardinality(FromSources(v))
      BY <1>12 DEF new, c
    <2>3. /\ v.operation = d.identity /\ Passed(d, v.inputs)
          /\ ToSet(graph'.invocations) = ToSet(graph.invocations) \cup {v}
          /\ ToSet(graph'.operations) = ToSet(graph.operations) \cup {d}
      BY <1>6, <1>13, <1>15, <1>22
    <2> DEFINE h == graph'
    <2> HIDE DEF h, n
    <2>4. Wired(h)
      BY <2>1, <2>2, <2>3, EdgesOneMore DEF h
    <2> QED
      BY <2>4 DEF h
  <1>27. ASSUME NEW h \in made
         PROVE  Denotes(graph', h)
    <2>1. PICK output \in DOMAIN d.outputs :
             h.ref = OutputReference(v.id, output) /\ h.kind = d.outputs[output] /\ h.boundary = Scope
      BY <1>7 DEF made
    <2>2. h.ref.producer = v.id /\ h.ref.output = output
      BY <2>1 DEF OutputReference
    <2>3. IsOutput(h.ref)
      BY <1>10, <2>2, NameOf DEF IsOutput
    <2>4. Invocation(graph', v.id) = {v} /\ Definition(graph', d.identity) = {d}
      <3>1. Once(ToSet(graph'.invocations)) /\ \A x, y \in ToSet(graph'.operations) : x.identity = y.identity => x = y
        BY <1>18 DEF Grows
      <3> QED
        BY <1>13, <1>15, <3>1 DEF Invocation, Definition, Once
    <2>5. ReferenceKind(graph', h.ref) = {d.outputs[output]}
      <3>1. UNION {Definition(graph', x.operation) : x \in Invocation(graph', h.ref.producer)} = {d}
        BY <1>6, <2>2, <2>4
      <3> QED
        BY <2>2, <2>3, <3>1 DEF ReferenceKind
    <2> QED
      BY <1>6, <2>1, <2>2, <2>4, <2>5 DEF Denotes
  <1>28. \A h \in held' : Denotes(graph', h)
    BY <1>5, <1>19, <1>27
  <1> QED
    BY <1>14, <1>19, <1>20, <1>21, <1>25, <1>26, <1>28 DEF Sound

-----------------------------------------------------------------------------
(* Everything together.                                                    *)

LEMMA DraftBegins ==
  Init => DraftInv
  BY KeysBegin, NothingAuthored, NothingIsSound DEF Init, DraftInv

\* A step that leaves what is authored alone, or lets all of it go.
LEMMA DraftStays ==
  ASSUME DraftInv, KeysInv', graph' = graph, stack' = stack, held' = held
  PROVE  DraftInv'
  BY DEF DraftInv

LEMMA DraftPreserved ==
  ASSUME ~ Escapes, DraftInv, [Next]_vars
  PROVE  DraftInv'
  <1>1. KeysInv'
    BY KeysPreserved DEF DraftInv
  <1>2. CASE Abandon \/ LetGo
    <2>1. graph' = Empty /\ stack' = <<>> /\ held' = {}
      BY <1>2 DEF Abandon, LetGo, DraftInv, KeysInv
    <2> QED
      BY <1>1, <2>1, NothingAuthored, NothingIsSound DEF DraftInv
  <1>3. CASE Enter \/ Leave \/ Finish \/ Submit \/ SweepStarts \/ SweepNext \/ SweepEnds
             \/ (\E address \in Addresses : EditSource(address)) \/ UNCHANGED vars
    <2>1. graph' = graph /\ stack' = stack /\ held' = held
      BY <1>3 DEF Enter, Leave, Finish, Submit, SweepStarts, SweepNext, SweepEnds, EditSource,
                  vars, authored
    <2> QED
      BY <1>1, <2>1, DraftStays
  <1>4. ASSUME NEW address \in Addresses, InputArtifact(address, "file")
        PROVE  DraftInv'
    <2>1. Sound(graph', stack, held') /\ stack' = stack
      BY <1>4, DeclaringKeepsSound DEF InputArtifact
    <2> QED
      BY <1>1, <2>1 DEF DraftInv
  <1>5. CASE CallSome
    <2>1. Sound(graph', stack, held') /\ stack' = stack
      <3>1. Sound(graph', stack, held')
        BY <1>5, CallingKeepsSound
      <3>2. stack' = stack
        BY <1>5 DEF CallSome, CallOperation
      <3> QED
        BY <3>1, <3>2
    <2> QED
      BY <1>1, <2>1 DEF DraftInv
  <1>6. CASE EnterSome
    <2>1. PICK name \in FlowNames : \E named \in ExplicitKeys \cup {NoKey} : EnterFlow(name, named)
      BY <1>6 DEF EnterSome
    <2>2. PICK named \in ExplicitKeys \cup {NoKey} : EnterFlow(name, named)
      BY <2>1
    <2>3. /\ Sound(graph', stack', held')
          /\ \A i \in 1 .. Len(stack') : Sound(stack'[i].saved, SubSeq(stack', 1, i - 1), stack'[i].kept)
      BY <2>2, EnteringKeepsSound
    <2> QED
      BY <1>1, <2>3 DEF DraftInv
  <1>7. CASE FlowReturns
    BY <1>1, <1>7, ReturningKeepsSound DEF DraftInv
  <1>8. CASE FlowFails
    BY <1>1, <1>8, FailingKeepsSound DEF DraftInv
  <1> QED
    BY <1>2, <1>3, <1>4, <1>5, <1>6, <1>7, <1>8 DEF Next

-----------------------------------------------------------------------------
(* A sound draft with no flow open validates.                              *)

LEMMA LeastOf ==
  ASSUME NEW S, S \subseteq Nat, S # {}
  PROVE  \E n \in S : \A m \in S : n <= m
  <1> DEFINE Below == {ss \in Nat \X Nat : ss[1] < ss[2]}
  <1>1. IsWellFoundedOn(Below, Nat)
    BY NatLessThanWellFounded DEF OpToRel
  <1>2. PICK n \in S : \A m \in S : ~ (<<m, n>> \in Below)
    <2> HIDE DEF Below
    <2> QED
      BY <1>1, WFMin
  <1>3. ASSUME NEW m \in S
        PROVE  n <= m
    <2>1. m \in Nat /\ n \in Nat
      OBVIOUS
    <2>2. ~ (m < n)
      BY <1>2, <2>1
    <2> QED
      BY <2>1, <2>2
  <1> QED
    BY <1>3

\* What of a sound graph with no flow open the parts of Plan.validate rest on.
LEMMA SoundParts ==
  ASSUME NEW g, NEW hs, Sound(g, <<>>, hs), IsSeq(g.invocations), IsSeq(g.boundaries)
  PROVE  /\ Places(g, <<>>) = {Root} \cup Ids(g.boundaries)
         /\ g.parents = Ids(g.boundaries)
         /\ Once(ToSet(g.invocations)) /\ Once(ToSet(g.boundaries))
         /\ Ids(g.invocations) \cap Ids(g.boundaries) = {}
         /\ \A d, e \in ToSet(g.operations) : d.identity = e.identity => d = e
         /\ \A v \in ToSet(g.invocations) :
               NamedAfter(v.boundary, v.key, v.id) /\ v.boundary \in {Root} \cup Ids(g.boundaries)
         /\ \A b \in ToSet(g.boundaries) :
               /\ NamedAfter(b.parent, b.key, b.id) /\ b.parent \in {Root} \cup Ids(g.boundaries)
               /\ b.flow \in ToSet(g.flows)
  <1> DEFINE none == <<>>
  <1>1. ToSet(none) = {}
    BY DEF ToSet
  <1>2. Opened(none) = {}
    BY <1>1 DEF Opened
  <1>3. Places(g, none) = {Root} \cup Ids(g.boundaries)
    BY <1>2 DEF Places
  <1>4. Identified(g, none) /\ Apart(g, none) /\ Declared(g)
    BY DEF Sound
  <1> HIDE DEF none
  <1>5. Once(ToSet(g.invocations)) /\ Once(ToSet(g.boundaries))
    BY <1>4, DistinctIds DEF Apart
  <1>6. \A d, e \in ToSet(g.operations) : d.identity = e.identity => d = e
    BY <1>4, DistinctOperations
  <1> QED
    BY <1>2, <1>3, <1>4, <1>5, <1>6 DEF Identified, Apart, none

\* The plan of a graph, whatever its outputs.
Shows(p, g) ==
    /\ p.operations = g.operations /\ p.flows = g.flows /\ p.sources = g.sources
    /\ p.invocations = g.invocations /\ p.edges = g.edges /\ p.boundaries = g.boundaries

LEMMA SameKinds ==
  ASSUME NEW p, NEW g, Shows(p, g)
  PROVE  \A r : ReferenceKind(p, r) = ReferenceKind(g, r)
  BY DEF Shows, ReferenceKind, Definition, Invocation, Source

LEMMA FewNames ==
  ASSUME NEW outputs, outputs = <<>> \/ \E r : outputs = <<NamedOutput(r)>>
  PROVE  AllDistinct([i \in DOMAIN outputs |-> outputs[i].name])
  <1>1. \A i, j \in DOMAIN outputs : i = j
    OBVIOUS
  <1> QED
    BY <1>1 DEF AllDistinct, IsInjective

LEMMA SoundIdsAreUnique ==
  ASSUME NEW g, NEW hs, Sound(g, <<>>, hs), NEW p, Shows(p, g),
         p.outputs = <<>> \/ \E r : p.outputs = <<NamedOutput(r)>>
  PROVE  IdsAreUnique(p)
  <1>1. AllDistinct([i \in DOMAIN g.sources |-> g.sources[i].id])
    <2>1. \A i \in DOMAIN g.sources : g.sources[i].id = i
      BY DEF Sound, Declared
    <2> QED
      BY <2>1 DEF AllDistinct, IsInjective
  <1>2. /\ AllDistinct([i \in DOMAIN g.operations |-> g.operations[i].identity])
        /\ AllDistinct(g.flows)
        /\ AllDistinct([i \in DOMAIN g.invocations |-> g.invocations[i].id])
        /\ AllDistinct([i \in DOMAIN g.edges |-> g.edges[i].id])
        /\ AllDistinct([i \in DOMAIN g.boundaries |-> g.boundaries[i].id])
    BY DEF Sound, Declared, Apart, Wired
  <1>3. AllDistinct([i \in DOMAIN p.outputs |-> p.outputs[i].name])
    BY FewNames
  <1> QED
    BY <1>1, <1>2, <1>3 DEF IdsAreUnique, Shows

LEMMA SoundKeysName ==
  ASSUME NEW g, NEW hs, Sound(g, <<>>, hs), IsSeq(g.invocations), IsSeq(g.boundaries), NEW p, Shows(p, g)
  PROVE  KeysNameTheirOwners(p)
  <1>1. ASSUME NEW o \in Owners(p)
        PROVE  /\ NamedAfter(o.scope, o.key, o.id)
               /\ \/ o.is = "invoke" /\ o.id \in Ids(g.invocations)
                  \/ o.is = "flow" /\ o.id \in Ids(g.boundaries)
    BY SoundParts DEF Owners, Shows, Ids
  <1>2. ASSUME NEW o \in Owners(p), NEW q \in Owners(p), q.scope = o.scope, q.key = o.key
        PROVE  q = o
    <2>1. q.id = o.id
      BY <1>1, <1>2 DEF NamedAfter
    <2>2. o.is = q.is
      BY <1>1, <2>1, SoundParts
    <2>3. /\ o = [is |-> o.is, id |-> o.id, scope |-> o.scope, key |-> o.key]
          /\ q = [is |-> q.is, id |-> q.id, scope |-> q.scope, key |-> q.key]
      BY DEF Owners
    <2> QED
      BY <1>2, <2>1, <2>2, <2>3
  <1>3. \A o \in Owners(p) : o.id = KeyedPlanId(o.scope, o.key)
    BY <1>1 DEF NamedAfter
  <1> QED
    BY <1>2, <1>3 DEF KeysNameTheirOwners

LEMMA SoundBoundariesNest ==
  ASSUME NEW g, NEW hs, Sound(g, <<>>, hs), IsSeq(g.invocations), IsSeq(g.boundaries), NEW p, Shows(p, g)
  PROVE  BoundariesNest(p)
  <1>1. ASSUME NEW b \in ToSet(p.boundaries)
        PROVE  /\ b.flow \in ToSet(p.flows)
               /\ b.parent # Root => Boundary(p, b.parent) # {}
               /\ b.parent # b.id
               /\ AllDistinct([i \in DOMAIN b.outputs |-> b.outputs[i].name])
    <2>1. /\ b.flow \in ToSet(p.flows) /\ NamedAfter(b.parent, b.key, b.id)
          /\ b.parent \in {Root} \cup Ids(g.boundaries)
      BY SoundParts DEF Shows
    <2>2. b.parent # b.id
      BY <2>1, NameOf
    <2>3. b.parent # Root => Boundary(p, b.parent) # {}
      BY <2>1 DEF Shows, Ids, Boundary
    <2>4. b.outputs = <<>> \/ \E r : b.outputs = <<NamedOutput(r)>>
      BY DEF Sound, Returns, Shows
    <2>5. AllDistinct([i \in DOMAIN b.outputs |-> b.outputs[i].name])
      BY <2>4, FewNames
    <2> QED
      BY <2>1, <2>2, <2>3, <2>5
  <1>2. ASSUME NEW S \in SUBSET {b.id : b \in ToSet(p.boundaries)}, S # {}
        PROVE  \E b \in ToSet(p.boundaries) : b.id \in S /\ b.parent \notin S
    <2> DEFINE lengths == {Len(id) : id \in S}
    <2>1. \A id \in S : \E b \in ToSet(p.boundaries) :
             b.id = id /\ Len(b.id) = Len(b.parent) + 1 /\ Len(b.parent) \in Nat
      BY SoundParts, NameOf DEF Shows
    <2>2. lengths \subseteq Nat /\ lengths # {}
      <3>1. \A id \in S : Len(id) \in Nat
        BY <2>1
      <3>2. PICK id \in S : TRUE
        BY <1>2
      <3>3. Len(id) \in lengths
        OBVIOUS
      <3> QED
        BY <3>1, <3>3
    <2>3. PICK n \in lengths : \A m \in lengths : n <= m
      <3> HIDE DEF lengths
      <3> QED
        BY <2>2, LeastOf
    <2>4. PICK id \in S : Len(id) = n
      OBVIOUS
    <2>5. PICK b \in ToSet(p.boundaries) : b.id = id /\ Len(b.id) = Len(b.parent) + 1 /\ Len(b.parent) \in Nat
      BY <2>1
    <2>6. b.parent \notin S
      <3>1. ~ (n <= Len(b.parent))
        BY <2>4, <2>5
      <3> QED
        BY <2>3, <3>1
    <2> QED
      BY <2>5, <2>6
  <1> QED
    BY <1>1, <1>2 DEF BoundariesNest, ParentsAreAcyclic

LEMMA SoundInvocationsBind ==
  ASSUME NEW g, NEW hs, Sound(g, <<>>, hs), IsSeq(g.invocations), IsSeq(g.boundaries), NEW p, Shows(p, g)
  PROVE  InvocationsBind(p)
  <1> SUFFICES ASSUME NEW v \in ToSet(g.invocations)
               PROVE  /\ Definition(p, v.operation) # {}
                      /\ v.boundary # Root => Boundary(p, v.boundary) # {}
                      /\ \A d \in Definition(p, v.operation) :
                            /\ DOMAIN v.inputs = DOMAIN d.inputs
                            /\ \A name \in DOMAIN d.inputs : BoundInput(p, d, v, name)
                            /\ DOMAIN v.config = d.config
    BY DEF InvocationsBind, Shows
  <1>1. PICK d \in ToSet(g.operations) : Binds(g, v, d)
    BY DEF Sound, Bound
  <1>2. Definition(p, v.operation) = {d}
    BY <1>1, SoundParts DEF Shows, Definition, Binds
  <1>3. v.boundary # Root => Boundary(p, v.boundary) # {}
    BY SoundParts DEF Shows, Ids, Boundary
  <1>4. ASSUME NEW name \in DOMAIN d.inputs
        PROVE  BoundInput(p, d, v, name)
    BY <1>1, SameKinds DEF Binds, BoundInput
  <1>5. DOMAIN v.inputs = DOMAIN d.inputs /\ DOMAIN v.config = d.config
    BY <1>1 DEF Binds
  <1> QED
    BY <1>2, <1>3, <1>4, <1>5

\* An edge of a sound graph brings an input what it is bound to.
LEMMA EdgeBrings ==
  ASSUME NEW g, NEW hs, Sound(g, <<>>, hs), IsSeq(g.invocations), IsSeq(g.boundaries),
         NEW e \in ToSet(g.edges)
  PROVE  \E v \in ToSet(g.invocations) : \E d \in ToSet(g.operations) :
            /\ v.id = e.target /\ Binds(g, v, d) /\ e.input \in DOMAIN d.inputs
            /\ e.kind = d.inputs[e.input].kind
            /\ e.source \in ToSet(v.inputs[e.input].refs) /\ e.source \in References(v)
  <1>1. Connects(g, e) /\ EdgeOf(e) \in ExpectedEdges(g)
    BY DEF Sound, Wired
  <1>2. PICK v \in ToSet(g.invocations) : EdgeOf(e) \in ExpectedEdgesOf(v)
    BY <1>1 DEF ExpectedEdges
  <1>3. /\ EdgeOf(e).target = e.target /\ EdgeOf(e).input = e.input
        /\ EdgeOf(e).member = e.member /\ EdgeOf(e).source = e.source
    BY DEF EdgeOf
  <1>4. /\ e.target = v.id /\ e.input \in DOMAIN v.inputs
        /\ e.member \in Members(v.inputs[e.input])
        /\ e.source = MemberRef(v.inputs[e.input], e.member)
    BY <1>2, <1>3, ExpectedEnd
  <1>5. PICK u \in ToSet(g.invocations), d \in ToSet(g.operations) :
           u.id = e.target /\ u.operation = d.identity /\ e.input \in DOMAIN d.inputs
           /\ e.kind = d.inputs[e.input].kind
    BY <1>1 DEF Connects
  <1>6. u = v
    BY <1>4, <1>5, SoundParts DEF Once
  <1>7. PICK c \in ToSet(g.operations) : Binds(g, v, c)
    BY DEF Sound, Bound
  <1>8. c = d
    BY <1>5, <1>6, <1>7, SoundParts DEF Binds
  <1>9. IsSeq(v.inputs[e.input].refs) /\ 1 \in DOMAIN v.inputs[e.input].refs
    BY <1>5, <1>7, <1>8 DEF Binds
  <1>10. e.source \in ToSet(v.inputs[e.input].refs)
    <2> DEFINE refs == v.inputs[e.input].refs
    <2>1. e.source = refs[IF e.member = NoMember THEN 1 ELSE e.member]
      BY <1>4 DEF MemberRef
    <2>2. e.member \in DOMAIN refs \/ e.member = NoMember
      BY <1>4 DEF Members
    <2>3. DOMAIN refs = 1 .. Len(refs)
      BY <1>9, SeqDomain
    <2>4. \E i \in DOMAIN refs : e.source = refs[i]
      BY <1>9, <2>1, <2>2
    <2> QED
      BY <2>4 DEF ToSet
  <1> QED
    BY <1>4, <1>5, <1>7, <1>8, <1>10 DEF References

LEMMA SoundEdgesMatch ==
  ASSUME NEW g, NEW hs, Sound(g, <<>>, hs), IsSeq(g.invocations), IsSeq(g.boundaries), NEW p, Shows(p, g)
  PROVE  EdgesMatchBindings(p)
  <1>1. /\ {EdgeOf(e) : e \in ToSet(p.edges)} = ExpectedEdges(p)
        /\ AllDistinct([i \in DOMAIN p.edges |->
              <<p.edges[i].target, p.edges[i].input, p.edges[i].member>>])
    <2>1. ExpectedEdges(p) = ExpectedEdges(g) /\ p.edges = g.edges
      BY DEF Shows, ExpectedEdges
    <2> QED
      BY <2>1 DEF Sound, Wired
  <1>2. ASSUME NEW e \in ToSet(g.edges)
        PROVE  EdgeAgrees(p, e)
    <2>1. PICK v \in ToSet(g.invocations) : \E d \in ToSet(g.operations) :
             /\ v.id = e.target /\ Binds(g, v, d) /\ e.input \in DOMAIN d.inputs
             /\ e.kind = d.inputs[e.input].kind
             /\ e.source \in ToSet(v.inputs[e.input].refs) /\ e.source \in References(v)
      BY EdgeBrings
    <2>2. PICK d \in ToSet(g.operations) :
             /\ v.id = e.target /\ Binds(g, v, d) /\ e.input \in DOMAIN d.inputs
             /\ e.kind = d.inputs[e.input].kind
             /\ e.source \in ToSet(v.inputs[e.input].refs)
      BY <2>1
    <2>3. ReferenceKind(p, e.source) = {e.kind}
      <3>1. ReferenceKind(g, e.source) = {e.kind}
        BY <2>2 DEF Binds, BoundInput
      <3> QED
        BY <3>1, SameKinds
    <2>4. Invocation(p, e.target) = {v} /\ Definition(p, v.operation) = {d}
      <3>1. Once(ToSet(g.invocations)) /\ \A x, y \in ToSet(g.operations) : x.identity = y.identity => x = y
        BY SoundParts
      <3>2. d.identity = v.operation
        BY <2>2 DEF Binds
      <3>3. p.invocations = g.invocations /\ p.operations = g.operations
        BY DEF Shows
      <3>4. Invocation(p, e.target) = {v}
        BY <2>2, <3>1, <3>3 DEF Invocation, Once
      <3>5. Definition(p, v.operation) = {d}
        BY <3>1, <3>2, <3>3 DEF Definition
      <3> QED
        BY <3>4, <3>5
    <2>5. ASSUME NEW u \in Invocation(p, e.source.producer)
          PROVE  e.id = StableEdgeId(e.source, e.target, e.input, e.member)
      <3>1. u \in ToSet(g.invocations) /\ u.id = e.source.producer
        BY DEF Invocation, Shows
      <3>2. IsOutput(e.source)
        BY <3>1, SoundParts, NameOf DEF IsOutput
      <3> QED
        BY <3>2 DEF Sound, Wired, Connects
    <2> QED
      BY <2>2, <2>3, <2>4, <2>5 DEF EdgeAgrees
  <1>3. p.edges = g.edges
    BY DEF Shows
  <1> QED
    BY <1>1, <1>2, <1>3 DEF EdgesMatchBindings

\* Of invocations that all waited for one another, the first one called would
\* wait for one called before it.
LEMMA SoundIsAcyclic ==
  ASSUME NEW g, NEW hs, Sound(g, <<>>, hs), IsSeq(g.invocations), IsSeq(g.boundaries), NEW p, Shows(p, g)
  PROVE  Acyclic(p)
  <1> SUFFICES ASSUME NEW S \in SUBSET {v.id : v \in ToSet(g.invocations)}, S # {},
                      \A id \in S : Producers(p, id) \cap S # {}
               PROVE  FALSE
    BY DEF Acyclic, Circular, Shows
  <1> DEFINE at == {i \in 1 .. Len(g.invocations) : g.invocations[i].id \in S}
  <1>1. /\ Len(g.invocations) \in Nat /\ DOMAIN g.invocations = 1 .. Len(g.invocations)
        /\ \A v \in ToSet(g.invocations) : \E i \in 1 .. Len(g.invocations) : v = g.invocations[i]
        /\ \A i \in 1 .. Len(g.invocations) : g.invocations[i] \in ToSet(g.invocations)
    BY SeqDomain
  <1>2. at \subseteq Nat /\ at # {}
    <2>1. PICK id \in S : TRUE
      OBVIOUS
    <2>2. PICK i \in 1 .. Len(g.invocations) : g.invocations[i].id = id
      BY <1>1, <2>1
    <2>3. i \in at
      BY <2>1, <2>2
    <2>4. 1 .. Len(g.invocations) \subseteq Nat
      BY <1>1
    <2>5. at \subseteq 1 .. Len(g.invocations)
      OBVIOUS
    <2> HIDE DEF at
    <2> QED
      BY <2>3, <2>4, <2>5
  <1>3. PICK j \in at : \A i \in at : j <= i
    <2> HIDE DEF at
    <2> QED
      BY <1>2, LeastOf
  <1> DEFINE v == g.invocations[j]
  <1>4. v \in ToSet(g.invocations) /\ v.id \in S /\ j \in DOMAIN g.invocations
    BY <1>1, <1>3
  <1>5. PICK e \in ToSet(g.edges) : e.target = v.id /\ IsOutput(e.source) /\ e.source.producer \in S
    BY <1>4 DEF Producers, Shows
  <1>6. PICK u \in ToSet(g.invocations) : u.id = e.target /\ e.source \in References(u)
    BY EdgeBrings
  <1>7. u = v
    BY <1>4, <1>5, <1>6, SoundParts DEF Once
  <1>8. PICK i \in 1 .. j - 1 : g.invocations[i].id = e.source.producer
    BY <1>4, <1>5, <1>6, <1>7 DEF Sound, Bound
  <1>9. i \in at /\ ~ (j <= i)
    <2>1. j \in 1 .. Len(g.invocations)
      OBVIOUS
    <2>2. i \in 1 .. Len(g.invocations) /\ ~ (j <= i)
      BY <1>1, <1>8, <2>1
    <2>3. g.invocations[i].id \in S
      BY <1>5, <1>8
    <2> QED
      BY <2>2, <2>3
  <1> QED
    BY <1>3, <1>9

\* Whatever is made inside a boundary descends from it.
LEMMA InsideDescends ==
  ASSUME NEW g, NEW hs, Sound(g, <<>>, hs), IsSeq(g.invocations), IsSeq(g.boundaries), NEW p, Shows(p, g),
         NEW ancestor, IsSeq(ancestor), NEW candidate, IsSeq(candidate),
         Inside(g.parents, ancestor, candidate)
  PROVE  IsBoundaryDescendant(p, candidate, ancestor)
  <1> SUFFICES ASSUME NEW S, candidate \in S, candidate # ancestor,
                      \A b \in ToSet(g.boundaries) : b.id \in S => b.parent \in S
               PROVE  ancestor \in S
    BY DEF IsBoundaryDescendant, Shows
  <1> DEFINE lo == Len(ancestor)
             hi == Len(candidate)
             at == {n \in lo .. hi : SubSeq(candidate, 1, n) \in S}
  <1>1. /\ lo \in Nat /\ hi \in Nat /\ lo <= hi
        /\ SubSeq(ancestor, 1, lo) = SubSeq(candidate, 1, lo)
        /\ \A n \in lo + 1 .. hi : SubSeq(candidate, 1, n) \in Ids(g.boundaries)
    BY SeqDomain, SoundParts DEF Inside, IsStrictPrefix, IsPrefix
  <1>2. ASSUME NEW s, IsSeq(s)
        PROVE  SubSeq(s, 1, Len(s)) = s
    <2>1. Len(s) \in 0 .. Len(s)
      BY <1>2, SeqDomain
    <2> DEFINE t == SubSeq(s, 1, Len(s))
               T == ToSet(s) \cup ToSet(t)
    <2>2. IsSeq(t) /\ Len(t) = Len(s) /\ \A k \in 1 .. Len(s) : t[k] = s[k]
      BY <1>2, <2>1, PrefixIsSeq
    <2>3. ToSet(s) \subseteq T /\ ToSet(t) \subseteq T
      OBVIOUS
    <2> HIDE DEF t, T
    <2>4. s \in Seq(T) /\ t \in Seq(T)
      BY <1>2, <2>2, <2>3 DEF IsSeq
    <2>5. t = s
      BY <2>2, <2>4, SeqEqual
    <2> QED
      BY <2>5 DEF t
  <1>3. at \subseteq Nat /\ hi \in at
    <2>1. hi \in lo .. hi /\ lo .. hi \subseteq Nat
      BY <1>1
    <2>2. SubSeq(candidate, 1, hi) = candidate
      BY <1>2
    <2> QED
      BY <2>1, <2>2
  <1>4. PICK n \in at : \A m \in at : n <= m
    <2>1. at # {}
      BY <1>3
    <2> HIDE DEF at
    <2> QED
      BY <1>3, <2>1, LeastOf
  <1>5. n \in lo .. hi /\ SubSeq(candidate, 1, n) \in S
    OBVIOUS
  <1>6. CASE n = lo
    <2>1. SubSeq(candidate, 1, lo) = ancestor
      BY <1>1, <1>2
    <2> QED
      BY <1>5, <1>6, <2>1
  <1>7. CASE n # lo
    <2>1. n \in lo + 1 .. hi /\ n - 1 \in lo .. hi /\ n \in 0 .. hi /\ n \in Nat
      BY <1>1, <1>5, <1>7
    <2> DEFINE x == SubSeq(candidate, 1, n)
    <2>2. PICK b \in ToSet(g.boundaries) : b.id = x
      BY <1>1, <2>1 DEF Ids
    <2>3. b.parent \in S /\ b.parent = Front(x)
      <3>1. NamedAfter(b.parent, b.key, b.id)
        BY SoundParts
      <3>2. Front(b.id) = b.parent
        BY <3>1, NameOf
      <3> QED
        BY <1>5, <2>2, <3>2
    <2>4. IsSeq(x) /\ Len(x) = n /\ \A k \in 1 .. n : x[k] = candidate[k]
      BY <2>1, PrefixIsSeq
    <2>5. Front(x) = SubSeq(candidate, 1, n - 1)
      <3> HIDE DEF x
      <3>1. n \in 1 .. Len(x) /\ n <= Len(candidate) /\ Front(x) = SubSeq(x, 1, n - 1)
        BY <1>1, <2>1, <2>4 DEF Front
      <3> HIDE DEF lo, hi
      <3>2. SubSeq(candidate, 1, n - 1) = SubSeq(x, 1, n - 1)
        BY <2>4, <3>1, PrefixAgrees
      <3> QED
        BY <3>1, <3>2
    <2>6. n - 1 \in at /\ ~ (n <= n - 1)
      <3>1. SubSeq(candidate, 1, n - 1) \in S
        BY <2>3, <2>5
      <3>2. n - 1 \in lo .. hi /\ ~ (n <= n - 1)
        BY <2>1
      <3> HIDE DEF lo, hi
      <3> QED
        BY <3>1, <3>2
    <2> QED
      BY <1>4, <2>6
  <1> QED
    BY <1>6, <1>7

LEMMA SoundOutputsAreOwned ==
  ASSUME NEW g, NEW hs, Sound(g, <<>>, hs), IsSeq(g.invocations), IsSeq(g.boundaries), NEW p, Shows(p, g),
         p.outputs = <<>> \/ \E h \in hs : p.outputs = <<NamedOutput(h.ref)>>
  PROVE  OutputsAreOwned(p)
  <1>1. \A r : /\ \A o \in ToSet(<<NamedOutput(r)>>) : o.ref = r
               /\ ToSet(<<>>) = {}
    BY DEF NamedOutput, ToSet
  <1>2. ASSUME NEW b \in ToSet(g.boundaries), NEW o \in ToSet(b.outputs)
        PROVE  /\ ReferenceKind(p, o.ref) # {}
               /\ \A v \in Invocation(p, o.ref.producer) : IsBoundaryDescendant(p, v.boundary, b.id)
    <2>1. b.outputs # <<>> /\ Returns(g, b)
      BY <1>1, <1>2 DEF Sound
    <2>2. PICK r : /\ b.outputs = <<NamedOutput(r)>> /\ IsOutput(r) /\ ReferenceKind(g, r) # {}
                   /\ \A v \in Invocation(g, r.producer) : Inside(g.parents, b.id, v.boundary)
      BY <2>1 DEF Returns
    <2>3. o.ref = r
      BY <1>1, <1>2, <2>2
    <2>4. ASSUME NEW v \in Invocation(p, r.producer)
          PROVE  IsBoundaryDescendant(p, v.boundary, b.id)
      <3>1. v \in ToSet(g.invocations) /\ v \in Invocation(g, r.producer)
        BY DEF Invocation, Shows
      <3>2. NamedAfter(v.boundary, v.key, v.id) /\ NamedAfter(b.parent, b.key, b.id)
        BY <3>1, SoundParts
      <3>3. IsSeq(v.boundary) /\ IsSeq(b.id)
        BY <3>2, NameOf DEF NamedAfter
      <3> QED
        BY <2>2, <3>1, <3>3, InsideDescends
    <2> QED
      BY <2>2, <2>3, <2>4, SameKinds
  <1>3. ASSUME NEW o \in ToSet(p.outputs)
        PROVE  ReferenceKind(p, o.ref) # {}
    <2>1. PICK h \in hs : p.outputs = <<NamedOutput(h.ref)>>
      BY <1>1, <1>3
    <2>2. o.ref = h.ref
      BY <1>1, <1>3, <2>1
    <2>3. ReferenceKind(g, h.ref) # {}
      BY DEF Sound, Denotes
    <2> QED
      BY <2>2, <2>3, SameKinds
  <1>4. p.boundaries = g.boundaries
    BY DEF Shows
  <1> QED
    BY <1>2, <1>3, <1>4 DEF OutputsAreOwned

LEMMA DraftShown ==
  DraftInv => DraftsValidate
  <1> SUFFICES ASSUME DraftInv, phase = "left", NEW outputs \in OutputCandidates
               PROVE  Valid(PlanOf(outputs))
    BY DEF DraftsValidate
  <1> DEFINE p == PlanOf(outputs)
  <1>1. stack = <<>> /\ Sound(graph, stack, held) /\ InOrder(graph, stack)
    BY DEF DraftInv, KeysInv
  <1>2. Sound(graph, <<>>, held) /\ IsSeq(graph.invocations) /\ IsSeq(graph.boundaries)
    BY <1>1 DEF InOrder
  <1>3. Shows(p, graph) /\ p.outputs = outputs
    BY DEF Shows, PlanOf
  <1>4. outputs = <<>> \/ \E h \in held : outputs = <<NamedOutput(h.ref)>>
    BY DEF OutputCandidates, Usable
  <1> HIDE DEF p
  <1>5. p.outputs = <<>> \/ \E h \in held : p.outputs = <<NamedOutput(h.ref)>>
    BY <1>3, <1>4
  <1>6. ContractsAreDisjoint(p)
    <2>1. ToSet(p.operations) \subseteq Definitions
      BY <1>2, <1>3 DEF Sound, Declared, Shows
    <2> QED
      BY <2>1, ParametersAssumption DEF ContractsAreDisjoint
  <1>7. IdsAreUnique(p)
    <2>1. p.outputs = <<>> \/ \E r : p.outputs = <<NamedOutput(r)>>
      BY <1>5
    <2> QED
      BY <1>2, <1>3, <2>1, SoundIdsAreUnique
  <1>8. KeysNameTheirOwners(p)
    BY <1>2, <1>3, SoundKeysName
  <1>9. BoundariesNest(p)
    BY <1>2, <1>3, SoundBoundariesNest
  <1>10. InvocationsBind(p)
    BY <1>2, <1>3, SoundInvocationsBind
  <1>11. EdgesMatchBindings(p)
    BY <1>2, <1>3, SoundEdgesMatch
  <1>12. Acyclic(p)
    BY <1>2, <1>3, SoundIsAcyclic
  <1>13. OutputsAreOwned(p)
    BY <1>2, <1>3, <1>5, SoundOutputsAreOwned
  <1>14. Valid(p)
    BY <1>6, <1>7, <1>8, <1>9, <1>10, <1>11, <1>12, <1>13 DEF Valid
  <1> QED
    BY <1>14 DEF p

\* What is authored stays sound, inside every open flow and in everything a
\* failing flow would fall back to (_call_operation, _call_flow, _checkpoint and
\* _restore), as long as no handle outlives the flow that failed.
THEOREM AuthoringStaysSound ==
  ASSUME ~ Escapes
  PROVE  Spec => []DraftInv
  <1>1. Init => DraftInv
    BY DraftBegins
  <1>2. DraftInv /\ [Next]_vars => DraftInv'
    BY DraftPreserved
  <1> QED
    BY <1>1, <1>2, PTL DEF Spec

\* Plan.validate accepts whatever the draft let its author call, sweep, nest,
\* let fail and roll back, for every output the author can still name
\* (PlanDraft._finish never raises on a draft that was left).
THEOREM DraftsAreValid ==
  ASSUME ~ Escapes
  PROVE  Spec => []DraftsValidate
  <1>1. Spec => []DraftInv
    BY AuthoringStaysSound
  <1>2. DraftInv => DraftsValidate
    BY DraftShown
  <1> QED
    BY <1>1, <1>2, PTL
=============================================================================
