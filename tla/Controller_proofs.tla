-------------------------- MODULE Controller_proofs --------------------------
(***************************************************************************)
(* What the controller keeps, for any Runs, any Plans, any capacity and    *)
(* any failures: who owns an execution and who may stop it, what its       *)
(* placements hold (ControlInv), what becomes of a stop (StopInv), that no *)
(* occurrence is reported twice (OnceInv), that what is reported of it is  *)
(* what happened (PromiseInv), and that what is needed is handed on        *)
(* (HandedInv).  The controller implements Study.                          *)
(***************************************************************************)
EXTENDS Controller, FiniteSetTheorems, TLAPS

Ends == {"succeeded", "failed", "cancelled", "blocked"}
RunType == [state : {"new", "open", "done"}, stopped : BOOLEAN, force : BOOLEAN]
EntryType == [consumers : SUBSET Consumers, bindings : SUBSET Consumers,
              task : {"none", "running", "done"}, abandoned : BOOLEAN, closing : BOOLEAN,
              settled : BOOLEAN, step : {"none"} \cup Ends]
WithdrawType == [at : {"no", "start", "gate", "resume", "interrupt"},
                 entry : Consumers \cup {None}, cancelled : BOOLEAN]
Before == {"start", "wait", "again"}

Types ==
    /\ runs \in [Runs -> RunType]
    /\ remaining \subseteq Consumers /\ blocking \subseteq Consumers
    /\ prep \in [Consumers -> Before \cup {"no", "bind", "cancel", "undo"}]
    /\ target \in [Consumers -> Consumers \cup {None}]
    /\ active \in [Consumers -> Consumers \cup {None}]
    /\ linked \in [Consumers -> Consumers \cup {None}]
    /\ wd \in [Consumers -> WithdrawType]
    /\ draining \subseteq Consumers /\ delivered \subseteq Consumers
    /\ saves \subseteq [who : Consumers, out : Ends,
                        by : {"prepare", "failure", "refusal", "wait", "loop", "withdraw"},
                        at : {"record", "deliver", "announce"}]
    /\ outcome \in [Consumers -> {"none"} \cup Ends]
    /\ entry \in [Consumers -> EntryType]
    /\ table \in [Keys -> Consumers \cup {None}]
    /\ gate \in [Consumers -> {"none", "failed", "ready", "entered", "cancelled", "finished"}]
    /\ interrupts \subseteq Consumers
    /\ result \in [Consumers -> {"none", "lost"} \cup Ends]
    /\ outstanding \in [Places -> Nat]

\* A save goes on, and nothing raises but the delivery of its outputs.
Carried(s) == SaveRecords(s) \/ SaveDelivers(s) \/ SaveUndelivered(s) \/ SaveAnnounced(s)

\* A consumer that has not come to an entry yet has none of its own either.
Waiting(o) == runs[o[1]].state = "new" \/ o \in remaining
Unstarted(o) == Waiting(o) \/ prep[o] \in Before
Placed(o) ==
    /\ Waiting(o) => prep[o] = "no" /\ target[o] = None
    /\ o \in remaining => runs[o[1]].state # "new"
    /\ Unstarted(o) => gate[o] = "none"
    /\ Unstarted(o) \/ prep[o] = "bind" => linked[o] = None /\ active[o] = None
    /\ prep[o] \in {"wait", "bind", "cancel", "undo"} => target[o] # None
    /\ prep[o] = "bind" => o \in entry[target[o]].bindings
    /\ prep[o] \in {"cancel", "undo"} => entry[target[o]].abandoned
    /\ target[o] # None => gate[target[o]] # "none" /\ Key(target[o]) = Key(o)
    /\ active[o] # None => /\ o \in entry[active[o]].consumers
                           /\ linked[o] = active[o]

\* What a withdrawal knows of the entry it withdraws from, at each of its steps.
Withdraws(o) ==
    LET e == wd[o].entry IN
    wd[o].at # "no" =>
        /\ e # None /\ Stopped(o)
        /\ gate[e] # "none"
        /\ wd[o].at # "start" => /\ entry[e].closing
                                 /\ active[o] = e \/ entry[e].task = "done"
        /\ wd[o].at = "resume" =>
              IF wd[o].cancelled THEN gate[e] = "cancelled" ELSE gate[e] \notin {"ready", "cancelled"}
        /\ wd[o].at = "interrupt" => runs[o[1]].force /\ Key(e) \in Pooled

\* Who owns an entry.
Owned(e) ==
    /\ \A o \in entry[e].bindings : prep[o] = "bind" /\ target[o] = e
    /\ \A o \in entry[e].consumers : active[o] = e
    /\ gate[e] = "none" => entry[e] = NoEntry /\ result[e] = "none"
    /\ entry[e].task = "done" <=> entry[e].step # "none"
    /\ entry[e].task = "done" => entry[e].consumers = {}
    /\ Owners(e) # {} /\ entry[e].step = "none" => table[Key(e)] = e
    /\ entry[e].task # "none" => \E o \in Consumers : linked[o] = e
    /\ gate[e] \in {"entered", "finished"} => entry[e].task # "none"

\* When an entry is sealed: nobody may join it any more.
Sealed(e) ==
    /\ entry[e].abandoned => Owners(e) = {}
    /\ entry[e].closing =>
          /\ entry[e].bindings = {}
          /\ \A o \in entry[e].consumers : entry[e].consumers = {o} /\ Stopped(o)
    /\ gate[e] = "cancelled" => entry[e].closing \/ entry[e].abandoned
    /\ e \in interrupts => /\ entry[e].closing /\ Key(e) \in Pooled /\ gate[e] # "none"
                           /\ \A o \in entry[e].consumers : runs[o[1]].force

Listed(k) == table[k] # None => gate[table[k]] # "none" /\ Key(table[k]) = k
Counted(p) == outstanding[p] = Cardinality(At(p, Running)) /\ outstanding[p] <= Capacity[p]

Shape ==
    /\ \A o \in Consumers : Placed(o) /\ Withdraws(o) /\ Owned(o) /\ Sealed(o)
    /\ \A k \in Keys : Listed(k)
ControlInv == Types /\ Shape /\ \A p \in Places : Counted(p)

-----------------------------------------------------------------------------
(* Small facts.                                                            *)

LEMMA ConsumersAre ==
  ASSUME NEW o \in Consumers
  PROVE  o[1] \in Runs /\ o[2] \in Items /\ Key(o) \in Keys /\ Place(o) \in Places
  BY CapacityAssumption DEF Consumers, Key, Keys, Place

LEMMA ConsumersFinite ==
  /\ IsFiniteSet(Consumers)
  /\ \A S \in SUBSET Consumers : IsFiniteSet(S) /\ Cardinality(S) \in Nat
  <1>1. IsFiniteSet(Runs \X Items) /\ Consumers \in SUBSET (Runs \X Items)
    BY FiniteAssumption, FS_Product DEF Consumers
  <1>2. IsFiniteSet(Consumers)
    BY <1>1, FS_Subset
  <1>3. ASSUME NEW S \in SUBSET Consumers PROVE IsFiniteSet(S) /\ Cardinality(S) \in Nat
    <2>1. IsFiniteSet(S)
      BY <1>2, FS_Subset
    <2> QED
      BY <2>1, FS_CardinalityType
  <1> QED
    BY <1>2, <1>3

\* The owner found alone really is alone.
LEMMA Alone ==
  ASSUME Types, NEW e \in Consumers
  PROVE  SoleOwner(e) <=> \/ entry[e].bindings = {} /\ \E o \in Consumers : entry[e].consumers = {o}
                          \/ entry[e].consumers = {} /\ \E o \in Consumers : entry[e].bindings = {o}
  <1> DEFINE c == entry[e].consumers  b == entry[e].bindings
  <1>1. c \in SUBSET Consumers /\ b \in SUBSET Consumers
    BY DEF Types, EntryType
  <1> HIDE DEF c, b
  <1>2. /\ Cardinality(c) \in Nat /\ (Cardinality(c) = 0 <=> c = {})
        /\ (Cardinality(c) = 1 <=> \E o : c = {o})
    BY <1>1, ConsumersFinite, FS_EmptySet, FS_Singleton
  <1>3. /\ Cardinality(b) \in Nat /\ (Cardinality(b) = 0 <=> b = {})
        /\ (Cardinality(b) = 1 <=> \E o : b = {o})
    BY <1>1, ConsumersFinite, FS_EmptySet, FS_Singleton
  <1>4. /\ (\E o : c = {o}) <=> \E o \in Consumers : c = {o}
        /\ (\E o : b = {o}) <=> \E o \in Consumers : b = {o}
    BY <1>1
  <1>5. SoleOwner(e) <=> Cardinality(c) + Cardinality(b) = 1
    BY DEF SoleOwner, c, b
  <1>6. Cardinality(c) + Cardinality(b) = 1 <=>
           (Cardinality(b) = 0 /\ Cardinality(c) = 1) \/ (Cardinality(c) = 0 /\ Cardinality(b) = 1)
    BY <1>2, <1>3
  <1>7. SoleOwner(e) <=> \/ b = {} /\ \E o \in Consumers : c = {o}
                         \/ c = {} /\ \E o \in Consumers : b = {o}
    BY <1>2, <1>3, <1>4, <1>5, <1>6
  <1> QED
    BY <1>7 DEF c, b

\* A consumer that holds its entry alone is all there is.
LEMMA HeldAlone ==
  ASSUME Types, NEW o \in Consumers, NEW e \in Consumers, o \in entry[e].consumers
  PROVE  SoleOwner(e) <=> entry[e].consumers = {o} /\ entry[e].bindings = {}
  BY Alone DEF Types, EntryType

LEMMA PlacedNow ==
  ASSUME ControlInv, NEW q \in Consumers
  PROVE  /\ Placed(q)
         /\ target[q] \in Consumers \cup {None} /\ active[q] \in Consumers \cup {None}
  BY DEF ControlInv, Types, Shape

LEMMA WithdrawsNow ==
  ASSUME ControlInv, NEW q \in Consumers
  PROVE  Withdraws(q) /\ wd[q].entry \in Consumers \cup {None} /\ wd[q].cancelled \in BOOLEAN
  BY DEF ControlInv, Types, WithdrawType, Shape

LEMMA OwnedNow ==
  ASSUME ControlInv, NEW q \in Consumers
  PROVE  Owned(q) /\ entry[q].bindings \subseteq Consumers /\ entry[q].consumers \subseteq Consumers
  BY DEF ControlInv, Types, EntryType, Shape

LEMMA SealedNow ==
  ASSUME ControlInv, NEW q \in Consumers
  PROVE  Sealed(q) /\ entry[q].bindings \subseteq Consumers /\ entry[q].consumers \subseteq Consumers
  BY DEF ControlInv, Types, EntryType, Shape

LEMMA ListedNow ==
  ASSUME ControlInv, NEW k \in Keys
  PROVE  Listed(k) /\ table[k] \in Consumers \cup {None}
  BY DEF ControlInv, Types, Shape

Grown ==
    \A r \in Runs : /\ runs[r].stopped => runs'[r].stopped
                    /\ runs[r].force => runs'[r].force
                    /\ runs'[r].state = "new" => runs[r].state = "new"

LEMMA StopOfGrows ==
  ASSUME runs \in [Runs -> RunType], NEW rs, runs' = StopOf(rs)
  PROVE  runs' \in [Runs -> RunType] /\ Grown
  BY DEF StopOf, Grown, RunType

LEMMA InvStarts == Init => ControlInv
  <1> SUFFICES ASSUME Init PROVE ControlInv
    OBVIOUS
  <1> USE NoneAssumption
  <1>1. Types
    BY DEF Init, Types, RunType, EntryType, WithdrawType, NoEntry, NoWithdraw, Before, Ends
  <1>2. ASSUME NEW o \in Consumers PROVE Placed(o) /\ Withdraws(o) /\ Owned(o) /\ Sealed(o)
    BY ConsumersAre DEF Init, Placed, Unstarted, Waiting, Withdraws, Owned, Owners, Sealed, NoEntry, NoWithdraw, Before
  <1>3. \A k \in Keys : Listed(k)
    BY DEF Init, Listed
  <1>4. ASSUME NEW p \in Places PROVE Counted(p)
    <2>1. At(p, Running) = {}
      BY DEF At, Running, Init, NoEntry
    <2> QED
      BY <2>1, FS_EmptySet, CapacityAssumption DEF Counted, Init
  <1> QED
    BY <1>1, <1>2, <1>3, <1>4 DEF ControlInv, Shape

-----------------------------------------------------------------------------
(* Steps that leave every entry and every task where it is.                *)

tasks == <<prep, target, active, linked, wd, entry, table, gate, interrupts>>

LEMMA CalmKeeps ==
  ASSUME ControlInv, Grown, UNCHANGED tasks,
         \A o \in remaining' : \/ o \in remaining
                                \/ (runs[o[1]].state = "new" /\ runs'[o[1]].state # "new"),
         \A e \in Consumers : gate[e] = "none" => result'[e] = result[e]
  PROVE  Shape'
  <1> USE ConsumersAre DEF tasks
  <1>1. ASSUME NEW o \in Consumers PROVE Placed(o)'
    BY PlacedNow DEF Placed, Unstarted, Waiting, Grown
  <1>2. ASSUME NEW o \in Consumers PROVE Withdraws(o)'
    BY WithdrawsNow DEF Withdraws, Stopped, Grown
  <1>3. ASSUME NEW e \in Consumers PROVE Owned(e)'
    BY OwnedNow DEF Owned, Owners
  <1>4. ASSUME NEW e \in Consumers PROVE Sealed(e)'
    BY SealedNow DEF Sealed, Owners, Stopped, Grown
  <1>5. ASSUME NEW k \in Keys PROVE Listed(k)'
    BY ListedNow DEF Listed
  <1> QED
    BY <1>1, <1>2, <1>3, <1>4, <1>5 DEF Shape

LEMMA NothingStarts ==
  ASSUME ControlInv, \A e \in Consumers : entry'[e].task = entry[e].task, outstanding' = outstanding
  PROVE  \A p \in Places : Counted(p)'
  <1>1. Running' = Running
    BY DEF Running
  <1> QED
    BY <1>1 DEF ControlInv, Counted, At

-----------------------------------------------------------------------------
(* Preparation.                                                            *)

\* A preparation that holds no binding moves on, or waits for an entry.
LEMMA PrepareMoves ==
  ASSUME ControlInv, NEW o \in Consumers, NEW p, NEW t \in Consumers \cup {None},
         prep' = [prep EXCEPT ![o] = p], target' = [target EXCEPT ![o] = t],
         p \in {"no", "wait", "again"}, p \in Before => prep[o] \in Before, prep[o] \notin {"no", "bind"},
         p = "wait" => t # None, t # None => gate[t] # "none" /\ Key(t) = Key(o),
         UNCHANGED <<runs, remaining, active, linked, wd, entry, table, gate, interrupts, result>>
  PROVE  Shape'
  <1>1. /\ prep'[o] = p /\ \A q \in Consumers : q # o => prep'[q] = prep[q]
        /\ target'[o] = t /\ \A q \in Consumers : q # o => target'[q] = target[q]
    BY DEF ControlInv, Types
  <1>2. ASSUME NEW q \in Consumers PROVE Placed(q)'
    BY <1>1, PlacedNow DEF Placed, Unstarted, Waiting, Before
  <1>3. ASSUME NEW q \in Consumers PROVE Withdraws(q)'
    BY WithdrawsNow DEF Withdraws, Stopped
  <1>4. ASSUME NEW q \in Consumers PROVE Owned(q)' /\ Sealed(q)'
    BY <1>1 DEF ControlInv, Shape, Owned, Sealed, Owners, Stopped
  <1>5. ASSUME NEW k \in Keys PROVE Listed(k)'
    BY ListedNow DEF Listed
  <1> QED
    BY <1>2, <1>3, <1>4, <1>5 DEF Shape

LEMMA JoinKeeps == ASSUME ControlInv, NEW o \in Consumers, Join(o) PROVE Shape'
  <1> DEFINE e == table[Key(o)]
  <1>1. /\ e \in Consumers /\ Key(e) = Key(o) /\ gate[e] # "none" /\ prep[o] \in {"start", "again"}
        /\ ~entry[e].abandoned /\ ~entry[e].closing /\ entry[e].task # "done"
        /\ table[Key(e)] = e /\ e # None
    BY ConsumersAre DEF ControlInv, Types, Shape, Listed, Join, MayAttach, Joinable, Closing
  <1>2. /\ entry' = [entry EXCEPT ![e] = [entry[e] EXCEPT !.bindings = entry[e].bindings \cup {o}]]
        /\ prep' = [prep EXCEPT ![o] = "bind"] /\ target' = [target EXCEPT ![o] = e]
        /\ UNCHANGED <<runs, remaining, active, linked, wd, table, gate, interrupts, result>>
    BY <1>1 DEF ControlInv, Types, Join, Attached, runVars, planVars, wdVars
  <1> HIDE DEF e
  <1>3. /\ \A q \in Consumers : q # e => entry'[q] = entry[q]
        /\ entry'[e].bindings = entry[e].bindings \cup {o} /\ entry'[e].consumers = entry[e].consumers
        /\ entry'[e].task = entry[e].task /\ entry'[e].step = entry[e].step
        /\ entry'[e].abandoned = entry[e].abandoned /\ entry'[e].closing = entry[e].closing
    BY <1>1, <1>2 DEF ControlInv, Types, EntryType
  <1>4. /\ prep'[o] = "bind" /\ \A q \in Consumers : q # o => prep'[q] = prep[q]
        /\ target'[o] = e /\ \A q \in Consumers : q # o => target'[q] = target[q]
    BY <1>1, <1>2 DEF ControlInv, Types
  <1>5. Unstarted(o) /\ prep[o] # "bind"
    BY <1>1 DEF Unstarted, Waiting, Before
  <1>6. ASSUME NEW q \in Consumers PROVE Placed(q)'
    BY <1>1, <1>2, <1>3, <1>4, <1>5, PlacedNow DEF Placed, Unstarted, Waiting, Before
  <1>7. ASSUME NEW q \in Consumers PROVE Withdraws(q)'
    BY <1>2, <1>3, WithdrawsNow DEF Withdraws, Stopped
  <1>8. ASSUME NEW q \in Consumers PROVE Owned(q)'
    BY <1>1, <1>2, <1>3, <1>4, <1>5, OwnedNow DEF Owned, Owners
  <1>9. ASSUME NEW q \in Consumers PROVE Sealed(q)'
    BY <1>1, <1>2, <1>3, SealedNow DEF Sealed, Owners, Stopped
  <1>10. ASSUME NEW k \in Keys PROVE Listed(k)'
    BY <1>2, ListedNow DEF Listed
  <1> QED
    BY <1>6, <1>7, <1>8, <1>9, <1>10 DEF Shape

LEMMA AcquireKeeps == ASSUME ControlInv, NEW o \in Consumers, Acquire(o) PROVE Shape'
  <1> DEFINE e == table[Key(o)]
  <1>1. /\ prep[o] \in {"start", "again"} /\ Unstarted(o) /\ Key(o) \in Keys
        /\ gate[o] = "none" /\ entry[o] = NoEntry /\ result[o] = "none" /\ o \notin interrupts
        /\ linked[o] = None /\ active[o] = None
    BY ConsumersAre DEF ControlInv, Shape, Placed, Owned, Sealed, Acquire, MayAttach, Unstarted, Waiting, Before, NoEntry
  <1>2. /\ e # None => e \in Consumers /\ (entry[e].abandoned \/ entry[e].task = "done")
        /\ e # None => ~entry[e].closing
    BY <1>1 DEF ControlInv, Types, Acquire, Joinable, Closing
  <1>3. /\ entry' = [entry EXCEPT ![o] = [entry[o] EXCEPT !.bindings = {o}]]
        /\ prep' = [prep EXCEPT ![o] = "bind"] /\ target' = [target EXCEPT ![o] = o]
        /\ table' = [table EXCEPT ![Key(o)] = o]
        /\ UNCHANGED <<runs, remaining, active, linked, wd, interrupts, result>>
    BY <1>1 DEF ControlInv, Types, Acquire, Attached, runVars, planVars, wdVars
  <1>4. /\ gate'[o] \in {"ready", "failed"} /\ \A q \in Consumers : q # o => gate'[q] = gate[q]
    BY DEF ControlInv, Types, Acquire
  <1>5. \A k \in Keys : table'[k] = IF k = Key(o) THEN o ELSE table[k]
    BY <1>3 DEF ControlInv, Types
  <1>6. /\ \A q \in Consumers : q # o => entry'[q] = entry[q]
        /\ entry'[o].bindings = {o} /\ entry'[o].consumers = {} /\ entry'[o].task = "none"
        /\ entry'[o].step = "none" /\ ~entry'[o].abandoned /\ ~entry'[o].closing
    BY <1>1, <1>3 DEF ControlInv, Types, NoEntry
  <1>7. /\ prep'[o] = "bind" /\ \A q \in Consumers : q # o => prep'[q] = prep[q]
        /\ target'[o] = o /\ \A q \in Consumers : q # o => target'[q] = target[q]
    BY <1>3 DEF ControlInv, Types
  <1>8. \A q \in Consumers : Owners(q) # {} /\ entry[q].step = "none" /\ q # o => Key(q) # Key(o)
    BY <1>1, <1>2, NoneAssumption DEF ControlInv, Shape, Owned, Sealed
  <1> HIDE DEF e
  <1>9. ASSUME NEW q \in Consumers PROVE Placed(q)'
    BY <1>1, <1>3, <1>4, <1>6, <1>7, NoneAssumption, PlacedNow
       DEF Placed, Unstarted, Waiting, Before
  <1>10. ASSUME NEW q \in Consumers PROVE Withdraws(q)'
    BY <1>1, <1>3, <1>4, <1>6, NoneAssumption, WithdrawsNow DEF Withdraws, Stopped
  <1>11. ASSUME NEW q \in Consumers PROVE Owned(q)'
    BY <1>1, <1>3, <1>4, <1>5, <1>6, <1>7, <1>8, ConsumersAre, OwnedNow DEF Owned, Owners
  <1>12. ASSUME NEW q \in Consumers PROVE Sealed(q)'
    BY <1>1, <1>3, <1>4, <1>6, SealedNow DEF Sealed, Owners, Stopped
  <1>13. ASSUME NEW k \in Keys PROVE Listed(k)'
    BY <1>1, <1>4, <1>5, NoneAssumption, ListedNow DEF Listed
  <1> QED
    BY <1>9, <1>10, <1>11, <1>12, <1>13 DEF Shape

LEMMA AwaitSettledKeeps == ASSUME ControlInv, NEW o \in Consumers, AwaitSettled(o) PROVE Shape'
  <1> DEFINE e == table[Key(o)]
  <1>1. e \in Consumers /\ Key(e) = Key(o) /\ gate[e] # "none" /\ prep[o] \in {"start", "again"} /\ e # None
    BY ConsumersAre DEF ControlInv, Types, Shape, Listed, AwaitSettled, MayAttach, Closing
  <1>2. /\ prep' = [prep EXCEPT ![o] = "wait"] /\ target' = [target EXCEPT ![o] = e]
        /\ UNCHANGED <<runs, remaining, active, linked, wd, entry, table, gate, interrupts, result>>
    BY DEF AwaitSettled, Attached, runVars, planVars, wdVars
  <1> HIDE DEF e
  <1> QED
    BY <1>1, <1>2, PrepareMoves DEF Before

LEMMA StopWaitingKeeps == ASSUME ControlInv, NEW o \in Consumers, StopWaiting(o) PROVE Shape'
  <1>1. /\ prep[o] = "wait"
        /\ UNCHANGED <<runs, remaining, active, linked, wd, entry, table, gate, interrupts, result>>
    BY DEF StopWaiting, runVars, planVars, wdVars, gateVars
  <1>2. target' = [target EXCEPT ![o] = target[o]] \/ target' = [target EXCEPT ![o] = None]
    BY DEF ControlInv, Types, StopWaiting
  <1>3. /\ target[o] \in Consumers \cup {None}
        /\ target[o] # None => gate[target[o]] # "none" /\ Key(target[o]) = Key(o)
    BY DEF ControlInv, Types, Shape, Placed
  <1>4. prep' = [prep EXCEPT ![o] = "no"] \/ prep' = [prep EXCEPT ![o] = "again"]
    BY DEF StopWaiting
  <1>5. PICK t \in Consumers \cup {None}, p \in {"no", "again"} :
           /\ prep' = [prep EXCEPT ![o] = p] /\ target' = [target EXCEPT ![o] = t]
           /\ t # None => gate[t] # "none" /\ Key(t) = Key(o)
    BY <1>2, <1>3, <1>4
  <1> QED
    BY <1>1, <1>5, PrepareMoves DEF Before

LEMMA PrepareFailsKeeps == ASSUME ControlInv, NEW o \in Consumers, PrepareFails(o) PROVE Shape'
  <1>1. /\ prep[o] = "start" /\ prep' = [prep EXCEPT ![o] = "no"]
        /\ target' = [target EXCEPT ![o] = target[o]]
        /\ UNCHANGED <<runs, remaining, active, linked, wd, entry, table, gate, interrupts, result>>
    BY DEF ControlInv, Types, PrepareFails, runVars, planVars, wdVars, gateVars
  <1>2. /\ target[o] \in Consumers \cup {None}
        /\ target[o] # None => gate[target[o]] # "none" /\ Key(target[o]) = Key(o)
    BY DEF ControlInv, Types, Shape, Placed
  <1> QED
    BY <1>1, <1>2, PrepareMoves DEF Before

-----------------------------------------------------------------------------
(* Binding: a reservation becomes a consumer, or is given up.              *)

\* A preparation that binds is one of its entry's bindings.
LEMMA Binds ==
  ASSUME ControlInv, NEW o \in Consumers, prep[o] \in {"bind", "cancel", "undo"}
  PROVE  /\ target[o] \in Consumers /\ target[o] # None
         /\ gate[target[o]] # "none" /\ Key(target[o]) = Key(o) /\ ~Unstarted(o)
         /\ prep[o] = "bind" => /\ o \in entry[target[o]].bindings
                                /\ ~entry[target[o]].abandoned /\ ~entry[target[o]].closing
                                /\ linked[o] = None /\ active[o] = None
         /\ prep[o] # "bind" => entry[target[o]].abandoned /\ Owners(target[o]) = {}
  <1>1. /\ target[o] \in Consumers \cup {None} /\ target[o] # None
        /\ gate[target[o]] # "none" /\ Key(target[o]) = Key(o) /\ ~Unstarted(o)
        /\ prep[o] = "bind" => o \in entry[target[o]].bindings /\ linked[o] = None /\ active[o] = None
        /\ prep[o] # "bind" => entry[target[o]].abandoned
    BY DEF ControlInv, Types, Shape, Placed, Unstarted, Waiting, Before
  <1>2. Sealed(target[o])
    BY <1>1 DEF ControlInv, Shape
  <1> QED
    BY <1>1, <1>2 DEF Sealed, Owners

LEMMA BindDoneKeeps == ASSUME ControlInv, NEW o \in Consumers, BindDone(o) PROVE Shape'
  <1> DEFINE e == target[o]
  <1>1. /\ prep[o] = "bind" /\ e \in Consumers /\ e # None /\ gate[e] # "none" /\ Key(e) = Key(o)
        /\ o \in entry[e].bindings /\ ~entry[e].abandoned /\ ~entry[e].closing
        /\ linked[o] = None /\ active[o] = None /\ ~Unstarted(o)
    BY Binds DEF BindDone
  <1>2. PICK p \in {"no", "cancel"}, a \in BOOLEAN, C \in {entry[e].consumers, entry[e].consumers \cup {o}} :
          /\ entry' = [entry EXCEPT ![e] = [entry[e] EXCEPT !.bindings = entry[e].bindings \ {o},
                                                            !.abandoned = a, !.consumers = C]]
          /\ a => C = entry[e].consumers /\ Owners(e) = {o} /\ active' = active
          /\ p = "cancel" <=> a
          /\ prep' = [prep EXCEPT ![o] = p]
          /\ IF C = entry[e].consumers THEN active' = active
                ELSE C = entry[e].consumers \cup {o} /\ entry[e].step = "none" /\ active' = [active EXCEPT ![o] = e]
    <2> DEFINE Result(p, a, C) ==
          /\ entry' = [entry EXCEPT ![e] = [entry[e] EXCEPT !.bindings = entry[e].bindings \ {o},
                                                            !.abandoned = a, !.consumers = C]]
          /\ a => C = entry[e].consumers /\ Owners(e) = {o} /\ active' = active
          /\ p = "cancel" <=> a
          /\ prep' = [prep EXCEPT ![o] = p]
          /\ IF C = entry[e].consumers THEN active' = active
                ELSE C = entry[e].consumers \cup {o} /\ entry[e].step = "none" /\ active' = [active EXCEPT ![o] = e]
    <2>1. CASE /\ Owners(e) = {o} /\ prep' = [prep EXCEPT ![o] = "cancel"] /\ UNCHANGED active
               /\ entry' = [[entry EXCEPT ![e].bindings = @ \ {o}] EXCEPT ![e].abandoned = TRUE]
      <3>1. Result("cancel", TRUE, entry[e].consumers)
        BY <1>1, <2>1 DEF ControlInv, Types, EntryType
      <3> QED
        BY <3>1
    <2>2. CASE /\ prep' = [prep EXCEPT ![o] = "no"] /\ UNCHANGED active
               /\ entry' = [entry EXCEPT ![e].bindings = @ \ {o}]
      <3>1. Result("no", FALSE, entry[e].consumers)
        BY <1>1, <2>2, ZenonT(40) DEF ControlInv, Types, EntryType
      <3> QED
        BY <3>1
    <2>3. CASE /\ entry[e].step = "none" /\ prep' = [prep EXCEPT ![o] = "no"]
               /\ active' = [active EXCEPT ![o] = e]
               /\ entry' = [[entry EXCEPT ![e].bindings = @ \ {o}] EXCEPT ![e].consumers = @ \cup {o}]
      <3>1. o \notin entry[e].consumers
        BY <1>1 DEF ControlInv, Shape, Owned
      <3>2. entry[e] \in EntryType /\ entry \in [Consumers -> EntryType]
        BY <1>1 DEF ControlInv, Types
      <3>3. entry' = [entry EXCEPT ![e] = [entry[e] EXCEPT !.bindings = entry[e].bindings \ {o},
                                !.abandoned = FALSE, !.consumers = entry[e].consumers \cup {o}]]
        BY <1>1, <2>3, <3>2 DEF EntryType
      <3>4. Result("no", FALSE, entry[e].consumers \cup {o})
        BY <2>3, <3>1, <3>3
      <3> QED
        BY <3>4
    <2> QED
      BY <2>1, <2>2, <2>3 DEF BindDone
  <1>3. /\ linked' = [linked EXCEPT ![o] = e]
        /\ UNCHANGED <<runs, remaining, target, wd, table, gate, interrupts, result>>
    BY DEF BindDone, runVars, planVars, wdVars, gateVars
  <1> HIDE DEF e
  <1>4. /\ \A q \in Consumers : q # e => entry'[q] = entry[q]
        /\ entry'[e].bindings = entry[e].bindings \ {o} /\ entry'[e].consumers = C
        /\ entry'[e].task = entry[e].task /\ entry'[e].step = entry[e].step
        /\ entry'[e].abandoned = a /\ entry'[e].closing = entry[e].closing
    BY <1>1, <1>2 DEF ControlInv, Types, EntryType
  <1>5. /\ prep'[o] = p /\ \A q \in Consumers : q # o => prep'[q] = prep[q]
        /\ linked'[o] = e /\ \A q \in Consumers : q # o => linked'[q] = linked[q]
        /\ active'[o] = (IF C = entry[e].consumers THEN None ELSE e)
        /\ \A q \in Consumers : q # o => active'[q] = active[q]
    BY <1>1, <1>2, <1>3 DEF ControlInv, Types
  <1>6. Owned(e) /\ Sealed(e) /\ target[o] = e /\ o \notin entry[e].consumers
    BY <1>1 DEF ControlInv, Shape, Owned, e
  <1>7. ASSUME NEW q \in Consumers PROVE Placed(q)'
    BY <1>1, <1>2, <1>3, <1>4, <1>5, <1>6, PlacedNow DEF Placed, Unstarted, Waiting, Before
  <1>8. ASSUME NEW q \in Consumers PROVE Withdraws(q)'
    BY <1>1, <1>3, <1>4, <1>5, WithdrawsNow DEF Withdraws, Stopped
  <1>9. ASSUME NEW q \in Consumers, q # e PROVE Owned(q)'
    <2>1. entry'[q] = entry[q] /\ Owned(q) /\ q # None
      BY <1>4, <1>9, OwnedNow, NoneAssumption
    <2>2. \A x \in entry[q].bindings : prep'[x] = "bind" /\ target'[x] = q
      BY <1>3, <1>5, <1>6, <1>9, <2>1, OwnedNow DEF Owned
    <2>3. \A x \in entry[q].consumers : active'[x] = q
      BY <1>1, <1>5, <2>1, OwnedNow DEF Owned
    <2>4. ASSUME entry[q].task # "none" PROVE \E x \in Consumers : linked'[x] = q
      <3>1. PICK x \in Consumers : linked[x] = q
        BY <2>1, <2>4 DEF Owned
      <3> QED
        BY <1>1, <1>5, <2>1, <3>1
    <2> QED
      BY <1>3, <2>1, <2>2, <2>3, <2>4 DEF Owned, Owners
  <1>10. ASSUME NEW q \in Consumers, q = e PROVE Owned(q)'
    <2>1. \A x \in entry'[e].bindings : prep'[x] = "bind" /\ target'[x] = e
      BY <1>3, <1>4, <1>5, <1>6, OwnedNow, <1>1 DEF Owned
    <2>2. \A x \in entry'[e].consumers : active'[x] = e
      BY <1>1, <1>2, <1>4, <1>5, <1>6, OwnedNow DEF Owned
    <2>3. /\ entry'[e].task = "done" <=> entry'[e].step # "none"
          /\ entry'[e].task = "done" => entry'[e].consumers = {}
          /\ entry'[e].task # "none" => \E x \in Consumers : linked'[x] = e
          /\ gate'[e] \in {"entered", "finished"} => entry'[e].task # "none"
      BY <1>1, <1>2, <1>3, <1>4, <1>5, <1>6 DEF Owned
    <2>4. (entry'[e].bindings # {} \/ entry'[e].consumers # {}) /\ entry'[e].step = "none" => table'[Key(e)] = e
      BY <1>1, <1>3, <1>4, <1>6 DEF Owned, Owners
    <2> QED
      BY <1>1, <1>3, <1>10, <2>1, <2>2, <2>3, <2>4 DEF Owned, Owners
  <1>11. ASSUME NEW q \in Consumers PROVE Sealed(q)'
    BY <1>1, <1>2, <1>3, <1>4, <1>6, SealedNow DEF Sealed, Owners, Stopped
  <1>12. ASSUME NEW k \in Keys PROVE Listed(k)'
    BY <1>3, ListedNow DEF Listed
  <1>13. ASSUME NEW q \in Consumers PROVE Owned(q)'
    BY <1>9, <1>10
  <1> QED
    BY <1>7, <1>8, <1>11, <1>12, <1>13 DEF Shape

LEMMA BindFailsKeeps == ASSUME ControlInv, NEW o \in Consumers, BindFails(o) PROVE Shape'
  <1> DEFINE e == target[o]  sole == Owners(e) \subseteq {o}  a == entry[e].abandoned \/ sole
  <1>1. /\ prep[o] \in {"bind", "cancel"} /\ e \in Consumers /\ e # None
        /\ gate[e] # "none" /\ Key(e) = Key(o) /\ ~Unstarted(o)
    BY Binds DEF BindFails
  <1>2. a \in BOOLEAN /\ (sole <=> a)
    BY <1>1, Binds DEF ControlInv, Types, EntryType
  <1>3. entry' = [entry EXCEPT ![e].bindings = @ \ {o}, ![e].abandoned = a]
    BY DEF BindFails
  <1>4. /\ prep' = [prep EXCEPT ![o] = IF sole THEN "undo" ELSE "no"]
        /\ UNCHANGED <<runs, remaining, target, linked, active, wd, table, gate, interrupts, result>>
    BY DEF BindFails, runVars, planVars, wdVars, gateVars
  <1>5. a => Owners(e) \subseteq {o}
    BY <1>2
  <1>6. prep'[o] = (IF a THEN "undo" ELSE "no") /\ \A q \in Consumers : q # o => prep'[q] = prep[q]
    BY <1>2, <1>4 DEF ControlInv, Types
  <1>7. target[o] = e /\ o \notin entry[e].consumers /\ (prep[o] = "cancel" => o \notin entry[e].bindings)
        /\ (entry[e].abandoned => a)
    BY <1>1, Binds DEF ControlInv, Shape, Owned, Owners
  <1> HIDE DEF a, sole, e
  <1>8. /\ \A q \in Consumers : q # e => entry'[q] = entry[q]
        /\ entry'[e].bindings = entry[e].bindings \ {o} /\ entry'[e].consumers = entry[e].consumers
        /\ entry'[e].task = entry[e].task /\ entry'[e].step = entry[e].step
        /\ entry'[e].abandoned = a /\ entry'[e].closing = entry[e].closing
    BY <1>1, <1>3 DEF ControlInv, Types, EntryType
  <1>9. ASSUME NEW q \in Consumers PROVE Placed(q)'
    BY <1>1, <1>4, <1>6, <1>7, <1>8, PlacedNow DEF Placed, Unstarted, Waiting, Before
  <1>10. ASSUME NEW q \in Consumers PROVE Withdraws(q)'
    BY <1>1, <1>4, <1>8, WithdrawsNow DEF Withdraws, Stopped
  <1>11. ASSUME NEW q \in Consumers PROVE Owned(q)'
    BY <1>1, <1>4, <1>6, <1>7, <1>8, OwnedNow DEF Owned, Owners
  <1>12. ASSUME NEW q \in Consumers PROVE Sealed(q)'
    BY <1>1, <1>4, <1>5, <1>7, <1>8, SealedNow DEF Sealed, Owners, Stopped
  <1>13. ASSUME NEW k \in Keys PROVE Listed(k)'
    BY <1>4, ListedNow DEF Listed
  <1> QED
    BY <1>9, <1>10, <1>11, <1>12, <1>13 DEF Shape

\* The gate of an abandoned entry closes; nobody owns it.
LEMMA DiscardKeeps ==
  ASSUME ControlInv, NEW o \in Consumers, prep[o] \in {"cancel", "undo"}, NEW out, NEW by,
         Discard(o, out, by),
         UNCHANGED <<runs, remaining, target, linked, active, wd, interrupts, result>>
  PROVE  Shape'
  <1> DEFINE e == target[o]
  <1>1. /\ e \in Consumers /\ e # None /\ gate[e] # "none" /\ ~Unstarted(o)
        /\ entry[e].abandoned /\ Owners(e) = {}
    BY Binds
  <1>2. /\ gate' = Closed(e) /\ prep' = [prep EXCEPT ![o] = "no"]
        /\ table' = table \/ table' = [table EXCEPT ![Key(e)] = None]
        /\ entry' = entry \/ entry' = [entry EXCEPT ![e].settled = TRUE]
        /\ table' # table => table[Key(e)] = e
    BY DEF Discard, Undispatched
  <1> HIDE DEF e
  <1>3. /\ \A q \in Consumers : q # e => gate'[q] = gate[q]
        /\ gate'[e] = IF gate[e] = "ready" THEN "cancelled" ELSE gate[e]
    BY <1>1, <1>2 DEF Closed, ControlInv, Types
  <1>4. \A q \in Consumers :
        /\ q # e => entry'[q] = entry[q]
        /\ entry'[q].bindings = entry[q].bindings /\ entry'[q].consumers = entry[q].consumers
        /\ entry'[q].task = entry[q].task /\ entry'[q].step = entry[q].step
        /\ entry'[q].abandoned = entry[q].abandoned /\ entry'[q].closing = entry[q].closing
    BY <1>1, <1>2 DEF ControlInv, Types, EntryType
  <1>5. prep'[o] = "no" /\ \A q \in Consumers : q # o => prep'[q] = prep[q]
    BY <1>2 DEF ControlInv, Types
  <1>6. \A k \in Keys : table'[k] \in {table[k], None} /\ (table'[k] # table[k] => table[k] = e)
    BY <1>1, <1>2, ConsumersAre DEF ControlInv, Types
  <1>7. ASSUME NEW q \in Consumers PROVE Placed(q)'
    BY <1>1, <1>3, <1>4, <1>5, PlacedNow DEF Placed, Unstarted, Waiting, Before
  <1>8. ASSUME NEW q \in Consumers PROVE Withdraws(q)'
    BY <1>1, <1>3, <1>4, WithdrawsNow DEF Withdraws, Stopped
  <1>9. ASSUME NEW q \in Consumers PROVE Owned(q)'
    BY <1>1, <1>3, <1>4, <1>5, <1>6, ConsumersAre, OwnedNow DEF Owned, Owners
  <1>10. ASSUME NEW q \in Consumers PROVE Sealed(q)'
    BY <1>1, <1>3, <1>4, SealedNow DEF Sealed, Owners, Stopped
  <1>11. ASSUME NEW k \in Keys PROVE Listed(k)'
    BY <1>1, <1>3, <1>6, ListedNow DEF Listed
  <1> QED
    BY <1>7, <1>8, <1>9, <1>10, <1>11 DEF Shape

LEMMA CancelUnownedKeeps == ASSUME ControlInv, NEW o \in Consumers, CancelUnowned(o) PROVE Shape'
  BY DiscardKeeps DEF CancelUnowned, runVars, planVars, wdVars

LEMMA UndoKeeps == ASSUME ControlInv, NEW o \in Consumers, Undo(o) PROVE Shape'
  <1>1. /\ prep[o] = "undo"
        /\ UNCHANGED <<runs, remaining, target, linked, active, wd, interrupts, result>>
    BY DEF Undo, runVars, planVars, wdVars
  <1>2. CASE Discard(o, "failed", "failure")
    BY <1>1, <1>2, DiscardKeeps
  <1>3. CASE prep' = [prep EXCEPT ![o] = "no"] /\ UNCHANGED <<gate, table, entry>>
    <2>1. /\ target' = [target EXCEPT ![o] = target[o]] /\ target[o] \in Consumers \cup {None}
          /\ target[o] # None => gate[target[o]] # "none" /\ Key(target[o]) = Key(o)
      BY <1>1, Binds DEF ControlInv, Types
    <2> QED
      BY <1>1, <1>3, <2>1, PrepareMoves DEF Before
  <1> QED
    BY <1>2, <1>3 DEF Undo

\* A save that nobody hears may abandon the entry of a preparation.
LEMMA UnheardKeeps == ASSUME ControlInv, NEW s \in saves, SaveUnheard(s) PROVE Shape'
  <1> DEFINE o == s.who  e == target[o]
             orphan == s.by = "prepare" /\ e # None /\ Owners(e) = {}
  <1>1. o \in Consumers /\ runs \in [Runs -> RunType]
    BY DEF ControlInv, Types
  <1>2. runs' = runs \/ runs' = StopOf({o[1]})
    BY DEF SaveUnheard
  <1>3. Grown
    BY <1>1, <1>2, StopOfGrows DEF Grown
  <1>4. UNCHANGED <<remaining, target, linked, active, wd, table, gate, interrupts, result>>
    BY DEF SaveUnheard, Saving, Proceeds, planVars, wdVars, gateVars
  <1>5. CASE orphan
    <2>1. e \in Consumers /\ e # None /\ gate[e] # "none" /\ Owners(e) = {} /\ target[o] = e
      BY <1>1, <1>5 DEF ControlInv, Types, Shape, Placed
    <2>2. prep[o] # "bind" /\ ~Waiting(o)
      BY <1>1, <2>1 DEF ControlInv, Shape, Placed, Owners
    <2>3. /\ prep' = [prep EXCEPT ![o] = "undo"]
          /\ entry' = [entry EXCEPT ![e].abandoned = TRUE]
      BY <1>5 DEF SaveUnheard
    <2> HIDE DEF e, o, orphan
    <2>4. prep'[o] = "undo" /\ \A q \in Consumers : q # o => prep'[q] = prep[q]
      BY <1>1, <2>3 DEF ControlInv, Types
    <2>5. /\ \A q \in Consumers : q # e => entry'[q] = entry[q]
          /\ entry'[e].bindings = entry[e].bindings /\ entry'[e].consumers = entry[e].consumers
          /\ entry'[e].task = entry[e].task /\ entry'[e].step = entry[e].step
          /\ entry'[e].abandoned /\ entry'[e].closing = entry[e].closing
      BY <2>1, <2>3 DEF ControlInv, Types, EntryType
    <2>6. ASSUME NEW q \in Consumers PROVE Placed(q)'
      BY <1>1, <1>3, <1>4, <2>1, <2>2, <2>4, <2>5, ConsumersAre, PlacedNow
         DEF Placed, Unstarted, Waiting, Before, Grown
    <2>7. ASSUME NEW q \in Consumers PROVE Withdraws(q)'
      BY <1>3, <1>4, <2>5, ConsumersAre, WithdrawsNow DEF Withdraws, Stopped, Grown
    <2>8. ASSUME NEW q \in Consumers PROVE Owned(q)'
      BY <1>1, <1>4, <2>1, <2>2, <2>4, <2>5, OwnedNow DEF Owned, Owners
    <2>9. ASSUME NEW q \in Consumers PROVE Sealed(q)'
      BY <1>3, <1>4, <2>1, <2>5, ConsumersAre, SealedNow DEF Sealed, Owners, Stopped, Grown
    <2>10. ASSUME NEW k \in Keys PROVE Listed(k)'
      BY <1>4, ListedNow DEF Listed
    <2> QED
      BY <2>6, <2>7, <2>8, <2>9, <2>10 DEF Shape
  <1>6. CASE ~orphan
    <2>1. UNCHANGED <<prep, entry>>
      BY <1>6 DEF SaveUnheard
    <2> QED
      BY <1>3, <1>4, <2>1, CalmKeeps DEF tasks
  <1> QED
    BY <1>5, <1>6

-----------------------------------------------------------------------------
(* Withdrawal.                                                             *)

\* One withdrawal moves; what it may then rely on is true.
LEMMA WithdrawMoves ==
  ASSUME ControlInv, NEW o \in Consumers, NEW w \in WithdrawType, wd' = [wd EXCEPT ![o] = w],
         UNCHANGED <<runs, remaining, prep, target, active, linked, entry, table, gate, interrupts,
                     result>>,
         w.at # "no" => Withdraws(o)'
  PROVE  Shape'
  <1>1. wd'[o] = w /\ \A q \in Consumers : q # o => wd'[q] = wd[q]
    BY DEF ControlInv, Types
  <1>2. ASSUME NEW q \in Consumers PROVE Placed(q)'
    BY PlacedNow DEF Placed, Unstarted, Waiting
  <1>3. ASSUME NEW q \in Consumers PROVE Withdraws(q)'
    BY <1>1, WithdrawsNow DEF Withdraws, Stopped
  <1>4. ASSUME NEW q \in Consumers PROVE Owned(q)' /\ Sealed(q)'
    BY OwnedNow, SealedNow DEF Owned, Sealed, Owners, Stopped
  <1>5. ASSUME NEW k \in Keys PROVE Listed(k)'
    BY ListedNow DEF Listed
  <1> QED
    BY <1>2, <1>3, <1>4, <1>5 DEF Shape

NoneLeft == NoWithdraw \in WithdrawType /\ NoWithdraw.at = "no"
LEMMA WithdrawEnds == NoneLeft
  BY DEF NoneLeft, NoWithdraw, WithdrawType

\* A withdrawal under way, and what its entry is to it while it is held.
LEMMA UnderWithdrawal ==
  ASSUME ControlInv, NEW o \in Consumers, wd[o].at # "no"
  PROVE  /\ wd[o].entry \in Consumers /\ wd[o].entry # None /\ Withdraws(o)
         /\ gate[wd[o].entry] # "none" /\ runs[o[1]].stopped /\ wd[o] \in WithdrawType
         /\ StillHeld(o) => /\ o \in entry[wd[o].entry].consumers /\ active[o] = wd[o].entry
                            /\ entry[wd[o].entry].task # "done" /\ linked[o] = wd[o].entry
                            /\ ~entry[wd[o].entry].abandoned
         /\ StillHeld(o) /\ wd[o].at # "start" =>
               SoleOwner(wd[o].entry) /\ entry[wd[o].entry].closing
  <1>1. /\ wd[o].entry \in Consumers \cup {None} /\ Withdraws(o) /\ wd[o] \in WithdrawType
        /\ wd[o].entry # None /\ gate[wd[o].entry] # "none" /\ runs[o[1]].stopped
    BY WithdrawsNow DEF Withdraws, Stopped, ControlInv, Types
  <1>2. Owned(wd[o].entry) /\ Sealed(wd[o].entry) /\ Placed(o)
    BY <1>1, OwnedNow, SealedNow, PlacedNow
  <1>3. StillHeld(o) => /\ o \in entry[wd[o].entry].consumers /\ active[o] = wd[o].entry
                        /\ entry[wd[o].entry].task # "done" /\ linked[o] = wd[o].entry
                        /\ ~entry[wd[o].entry].abandoned
    BY <1>1, <1>2 DEF StillHeld, Placed, Owned, Sealed, Owners
  <1>4. ASSUME StillHeld(o), wd[o].at # "start"
        PROVE  SoleOwner(wd[o].entry) /\ entry[wd[o].entry].closing
    <2>1. /\ entry[wd[o].entry].closing /\ entry[wd[o].entry].bindings = {}
          /\ entry[wd[o].entry].consumers = {o}
      BY <1>1, <1>2, <1>3, <1>4 DEF Withdraws, Sealed
    <2> QED
      BY <1>1, <2>1, Alone DEF ControlInv
  <1> QED
    BY <1>1, <1>3, <1>4

\* A consumer leaves an execution that others share.
LEMMA LeavesShared ==
  ASSUME ControlInv, NEW o \in Consumers, wd[o].at = "start", StillHeld(o),
         ~SoleOwner(wd[o].entry),
         entry' = [entry EXCEPT ![wd[o].entry].consumers = @ \ {o}],
         LeaveShared(o, wd[o].entry),
         UNCHANGED <<runs, remaining, prep, target, linked, gate, interrupts, result>>
  PROVE  Shape'
  <1> DEFINE e == wd[o].entry
  <1>1. /\ e \in Consumers /\ e # None /\ gate[e] # "none" /\ o \in entry[e].consumers
        /\ active[o] = e /\ entry[e].task # "done" /\ linked[o] = e
    BY UnderWithdrawal
  <1>2. /\ active' = [active EXCEPT ![o] = None] /\ table' = table
        /\ wd' = [wd EXCEPT ![o] = NoWithdraw]
    BY DEF LeaveShared, Withdrawn
  <1>3. ~entry[e].closing
    <2>1. entry[e].closing => entry[e].bindings = {} /\ entry[e].consumers = {o}
      BY <1>1, SealedNow DEF Sealed
    <2> QED
      BY <1>1, <2>1, Alone DEF ControlInv
  <1>5. entry' = [entry EXCEPT ![e] = [entry[e] EXCEPT !.consumers = entry[e].consumers \ {o}]]
    BY <1>1 DEF ControlInv, Types, EntryType
  <1> HIDE DEF e
  <1>6. /\ \A q \in Consumers : q # e => entry'[q] = entry[q]
        /\ entry'[e].bindings = entry[e].bindings /\ entry'[e].consumers = entry[e].consumers \ {o}
        /\ entry'[e].task = entry[e].task /\ entry'[e].step = entry[e].step
        /\ entry'[e].abandoned = entry[e].abandoned /\ entry'[e].closing = entry[e].closing
    BY <1>1, <1>5 DEF ControlInv, Types, EntryType
  <1>7. /\ active'[o] = None /\ \A q \in Consumers : q # o => active'[q] = active[q]
        /\ wd'[o].at = "no" /\ \A q \in Consumers : q # o => wd'[q] = wd[q]
    BY <1>2 DEF ControlInv, Types, NoWithdraw
  <1>8. ASSUME NEW q \in Consumers PROVE Placed(q)'
    BY <1>1, <1>6, <1>7, PlacedNow, SMTT(30) DEF Placed, Unstarted, Waiting
  <1>9. ASSUME NEW q \in Consumers PROVE Withdraws(q)'
    BY <1>1, <1>3, <1>6, <1>7, WithdrawsNow, SMTT(60) DEF Withdraws, Stopped
  <1>10. ASSUME NEW q \in Consumers PROVE Owned(q)'
    BY <1>1, <1>2, <1>6, <1>7, OwnedNow, SMTT(60) DEF Owned, Owners
  <1>11. ASSUME NEW q \in Consumers PROVE Sealed(q)'
    BY <1>1, <1>3, <1>6, SealedNow, SMTT(60) DEF Sealed, Owners, Stopped
  <1>12. ASSUME NEW k \in Keys PROVE Listed(k)'
    BY <1>2, ListedNow DEF Listed
  <1> QED
    BY <1>8, <1>9, <1>10, <1>11, <1>12 DEF Shape

\* A sole owner seals its execution, or opens it again.
LEMMA SealMoves ==
  ASSUME ControlInv, NEW o \in Consumers, wd[o].at # "no", StillHeld(o),
         NEW e, e = wd[o].entry, SoleOwner(e), NEW b \in BOOLEAN, NEW s \in BOOLEAN, NEW w \in WithdrawType,
         entry' = [entry EXCEPT ![e] = [entry[e] EXCEPT !.closing = b, !.settled = s]],
         wd' = [wd EXCEPT ![o] = w], w.at \in {"no", "gate"}, w.at # "no" => w.entry = e,
         w.at = "gate" => b, ~b => e \notin interrupts /\ gate[e] # "cancelled",
         UNCHANGED <<runs, remaining, prep, target, active, linked, table, gate, interrupts, result>>
  PROVE  Shape'
  <1>1. /\ e \in Consumers /\ e # None /\ gate[e] # "none" /\ o \in entry[e].consumers
        /\ active[o] = e /\ entry[e].task # "done" /\ runs[o[1]].stopped
    BY UnderWithdrawal
  <1>2. entry[e].consumers = {o} /\ entry[e].bindings = {}
    BY <1>1, HeldAlone DEF ControlInv
  <1>6. /\ \A q \in Consumers : q # e => entry'[q] = entry[q]
        /\ entry'[e].bindings = {} /\ entry'[e].consumers = {o}
        /\ entry'[e].task = entry[e].task /\ entry'[e].step = entry[e].step
        /\ entry'[e].abandoned = entry[e].abandoned /\ entry'[e].closing = b
    BY <1>1, <1>2 DEF ControlInv, Types, EntryType
  <1>7. wd'[o] = w /\ \A q \in Consumers : q # o => wd'[q] = wd[q]
    BY DEF ControlInv, Types
  <1>8. ASSUME NEW q \in Consumers PROVE Placed(q)'
    BY <1>1, <1>2, <1>6, PlacedNow DEF Placed, Unstarted, Waiting
  <1>9. ASSUME NEW q \in Consumers PROVE Withdraws(q)'
    <2>1. wd[q].at # "no" /\ wd[q].entry = e /\ wd[q].at # "start" => q = o
      BY <1>1, <1>2, WithdrawsNow, PlacedNow DEF Withdraws, Placed
    <2> QED
      BY <1>1, <1>6, <1>7, <2>1, WithdrawsNow DEF Withdraws, Stopped
  <1>10. ASSUME NEW q \in Consumers PROVE Owned(q)'
    BY <1>1, <1>2, <1>6, OwnedNow, SMTT(30) DEF Owned, Owners
  <1>11. ASSUME NEW q \in Consumers PROVE Sealed(q)'
    BY <1>1, <1>2, <1>6, SealedNow, SMTT(30) DEF Sealed, Owners, Stopped
  <1>12. ASSUME NEW k \in Keys PROVE Listed(k)'
    BY ListedNow DEF Listed
  <1> QED
    BY <1>8, <1>9, <1>10, <1>11, <1>12 DEF Shape

LEMMA WithdrawStartKeeps == ASSUME ControlInv, NEW o \in Consumers, WithdrawStart(o) PROVE Shape'
  <1> DEFINE e == wd[o].entry
  <1>1. /\ wd[o].at = "start" /\ wd[o] \in WithdrawType
        /\ UNCHANGED <<runs, remaining, prep, target, linked, gate, interrupts, result>>
    BY DEF WithdrawStart, runVars, planVars, prepVars, gateVars, ControlInv, Types
  <1>2. CASE ~StillHeld(o)
    <2>1. wd' = [wd EXCEPT ![o] = NoWithdraw] /\ UNCHANGED <<active, entry, table>>
      BY <1>2 DEF WithdrawStart
    <2> QED
      BY <1>1, <2>1, WithdrawMoves, WithdrawEnds DEF NoneLeft
  <1>3. CASE StillHeld(o) /\ ~SoleOwner(e)
    BY <1>1, <1>3, LeavesShared DEF WithdrawStart
  <1>4. CASE StillHeld(o) /\ SoleOwner(e)
    <2> DEFINE w == [wd[o] EXCEPT !.at = "gate"]
    <2>1. w \in WithdrawType /\ w.at = "gate" /\ w.entry = e
      BY <1>1 DEF WithdrawType
    <2>2. wd' = [wd EXCEPT ![o] = w]
      BY <1>1, <1>4 DEF WithdrawStart, ControlInv, Types, WithdrawType
    <2>3. /\ entry' = [entry EXCEPT ![e].closing = TRUE, ![e].settled = FALSE]
          /\ UNCHANGED <<active, table>>
      BY <1>4 DEF WithdrawStart
    <2>4. entry' = [entry EXCEPT ![e] = [entry[e] EXCEPT !.closing = TRUE, !.settled = FALSE]]
      BY <1>1, <2>3, UnderWithdrawal DEF ControlInv, Types, EntryType
    <2> HIDE DEF w, e
    <2>5. e = wd[o].entry
      BY DEF e
    <2> QED
      BY <1>1, <1>4, <2>1, <2>2, <2>3, <2>4, <2>5, SealMoves
  <1> QED
    BY <1>2, <1>3, <1>4

\* The gate of a sealed entry may close under a withdrawal.
LEMMA GateCloses ==
  ASSUME ControlInv, NEW o \in Consumers, wd[o].at = "gate", NEW w \in WithdrawType,
         wd' = [wd EXCEPT ![o] = w], gate' \in {gate, Closed(wd[o].entry)},
         \/ w.at = "no"
         \/ /\ w.at = "resume" /\ w.entry = wd[o].entry /\ gate' = Closed(wd[o].entry)
            /\ w.cancelled <=> gate[wd[o].entry] \in {"ready", "cancelled"},
         UNCHANGED <<runs, remaining, prep, target, active, linked, entry, table, interrupts, result>>
  PROVE  Shape'
  <1> DEFINE e == wd[o].entry
  <1>1. /\ e \in Consumers /\ e # None /\ gate[e] # "none" /\ entry[e].closing
        /\ active[o] = e \/ entry[e].task = "done"
        /\ runs[o[1]].stopped
    BY UnderWithdrawal DEF Withdraws
  <1>2. \/ w.at = "no"
        \/ /\ w.at = "resume" /\ w.entry = e /\ gate' = Closed(e)
           /\ w.cancelled <=> gate[e] \in {"ready", "cancelled"}
    OBVIOUS
  <1>3. gate' \in {gate, Closed(e)}
    OBVIOUS
  <1> HIDE DEF e
  <1>4. /\ \A q \in Consumers : q # e => gate'[q] = gate[q]
        /\ gate'[e] = gate[e] \/ (gate[e] = "ready" /\ gate'[e] = "cancelled")
        /\ gate' = Closed(e) => gate'[e] = IF gate[e] = "ready" THEN "cancelled" ELSE gate[e]
    BY <1>1, <1>3 DEF Closed, ControlInv, Types
  <1>5. wd'[o] = w /\ \A q \in Consumers : q # o => wd'[q] = wd[q]
    BY DEF ControlInv, Types
  <1>6. ASSUME NEW q \in Consumers PROVE Placed(q)'
    BY <1>1, <1>4, PlacedNow DEF Placed, Unstarted, Waiting
  <1>7. ASSUME NEW q \in Consumers, q # o PROVE Withdraws(q)'
    BY <1>1, <1>4, <1>5, <1>7, WithdrawsNow DEF Withdraws, Stopped
  <1>8. Withdraws(o)'
    BY <1>1, <1>2, <1>4, <1>5 DEF Withdraws, Stopped
  <1>9. ASSUME NEW q \in Consumers PROVE Owned(q)'
    BY <1>1, <1>4, OwnedNow DEF Owned, Owners
  <1>10. ASSUME NEW q \in Consumers PROVE Sealed(q)'
    BY <1>1, <1>4, SealedNow DEF Sealed, Owners, Stopped
  <1>11. ASSUME NEW k \in Keys PROVE Listed(k)'
    BY <1>1, <1>4, ListedNow DEF Listed
  <1>12. ASSUME NEW q \in Consumers PROVE Withdraws(q)'
    BY <1>7, <1>8
  <1> QED
    BY <1>6, <1>9, <1>10, <1>11, <1>12 DEF Shape

LEMMA WithdrawGateKeeps == ASSUME ControlInv, NEW o \in Consumers, WithdrawGate(o) PROVE Shape'
  <1> DEFINE e == wd[o].entry
  <1>1. /\ wd[o].at = "gate" /\ wd[o] \in WithdrawType
        /\ UNCHANGED <<runs, remaining, prep, target, active, linked, entry, table, interrupts, result>>
    BY DEF WithdrawGate, runVars, planVars, prepVars, ControlInv, Types
  <1>2. CASE wd' = [wd EXCEPT ![o] = NoWithdraw] /\ gate' \in {gate, Closed(e)}
    BY <1>1, <1>2, GateCloses, WithdrawEnds DEF NoneLeft
  <1>3. CASE /\ gate' = Closed(e)
             /\ wd' = [wd EXCEPT ![o].at = "resume", ![o].cancelled = gate[e] \in {"ready", "cancelled"}]
    <2> DEFINE c == gate[e] \in {"ready", "cancelled"}
               w == [wd[o] EXCEPT !.at = "resume", !.cancelled = c]
    <2>1. c \in BOOLEAN
      OBVIOUS
    <2>2. wd' = [wd EXCEPT ![o].at = "resume", ![o].cancelled = c]
      BY <1>3
    <2>3. c <=> gate[e] \in {"ready", "cancelled"}
      OBVIOUS
    <2> HIDE DEF c
    <2>4. w \in WithdrawType /\ w.at = "resume" /\ w.entry = e /\ w.cancelled = c
      BY <1>1, <2>1 DEF WithdrawType
    <2>5. wd' = [wd EXCEPT ![o] = w]
      BY <1>1, <2>1, <2>2 DEF ControlInv, Types, WithdrawType
    <2> HIDE DEF w
    <2>6. w.cancelled <=> gate[e] \in {"ready", "cancelled"}
      BY <2>3, <2>4
    <2> QED
      BY <1>1, <1>3, <2>4, <2>5, <2>6, GateCloses
  <1> QED
    BY <1>2, <1>3 DEF WithdrawGate

\* Nothing was started: the last owner leaves an entry that never will.
LEMMA LeavesClosed ==
  ASSUME ControlInv, NEW o \in Consumers, wd[o].at = "resume", StillHeld(o),
         wd[o].cancelled, NEW e, e = wd[o].entry, SoleOwner(e), NEW s \in BOOLEAN,
         entry' = [entry EXCEPT ![e] = [entry[e] EXCEPT !.consumers = {}, !.abandoned = TRUE,
                                                        !.settled = s]],
         table' \in {table, [table EXCEPT ![Key(e)] = None]},
         wd' = [wd EXCEPT ![o] = NoWithdraw], active' = [active EXCEPT ![o] = None],
         UNCHANGED <<runs, remaining, prep, target, linked, gate, interrupts, result>>
  PROVE  Shape'
  <1>1. /\ e \in Consumers /\ e # None /\ gate[e] # "none" /\ o \in entry[e].consumers
        /\ active[o] = e /\ entry[e].task # "done" /\ linked[o] = e
    BY UnderWithdrawal
  <1>2. entry[e].consumers = {o} /\ entry[e].bindings = {}
    BY <1>1, HeldAlone DEF ControlInv
  <1>5. /\ \A q \in Consumers : q # e => entry'[q] = entry[q]
        /\ entry'[e].bindings = {} /\ entry'[e].consumers = {}
        /\ entry'[e].task = entry[e].task /\ entry'[e].step = entry[e].step
        /\ entry'[e].abandoned /\ entry'[e].closing = entry[e].closing
    BY <1>1, <1>2 DEF ControlInv, Types, EntryType
  <1>6. /\ active'[o] = None /\ \A q \in Consumers : q # o => active'[q] = active[q]
        /\ wd'[o].at = "no" /\ \A q \in Consumers : q # o => wd'[q] = wd[q]
    BY DEF ControlInv, Types, NoWithdraw
  <1>7. \A k \in Keys : table'[k] = table[k] \/ (k = Key(e) /\ table'[k] = None)
    BY <1>1, ConsumersAre DEF ControlInv, Types
  <1>8. \A q \in Consumers : q # e /\ Owners(q) # {} /\ entry[q].step = "none" => Key(q) # Key(e)
    <2>1. table[Key(e)] = e
      BY <1>1, <1>2, OwnedNow DEF Owned, Owners
    <2> QED
      BY <2>1, OwnedNow DEF Owned
  <1>9. ASSUME NEW q \in Consumers PROVE Placed(q)'
    BY <1>1, <1>2, <1>5, <1>6, PlacedNow DEF Placed, Unstarted, Waiting
  <1>10. ASSUME NEW q \in Consumers PROVE Withdraws(q)'
    BY <1>1, <1>2, <1>5, <1>6, WithdrawsNow DEF Withdraws, Stopped
  <1>11. ASSUME NEW q \in Consumers PROVE Owned(q)'
    BY <1>1, <1>2, <1>5, <1>6, <1>7, <1>8, OwnedNow, ConsumersAre DEF Owned, Owners
  <1>12. ASSUME NEW q \in Consumers PROVE Sealed(q)'
    BY <1>1, <1>2, <1>5, SealedNow DEF Sealed, Owners, Stopped
  <1>13. ASSUME NEW k \in Keys PROVE Listed(k)'
    BY <1>7, ListedNow DEF Listed
  <1> QED
    BY <1>9, <1>10, <1>11, <1>12, <1>13 DEF Shape

LEMMA WithdrawResumeKeeps == ASSUME ControlInv, NEW o \in Consumers, WithdrawResume(o) PROVE Shape'
  <1> DEFINE e == wd[o].entry
  <1>1. /\ wd[o].at = "resume" /\ wd[o] \in WithdrawType
        /\ UNCHANGED <<runs, remaining, prep, target, linked, gate, interrupts, result>>
    BY DEF WithdrawResume, runVars, planVars, prepVars, gateVars, ControlInv, Types
  <1>2. CASE ~StillHeld(o)
    <2>1. wd' = [wd EXCEPT ![o] = NoWithdraw] /\ UNCHANGED <<active, entry, table>>
      BY <1>2 DEF WithdrawResume
    <2> QED
      BY <1>1, <2>1, WithdrawMoves, WithdrawEnds DEF NoneLeft
  <1>3. StillHeld(o) => SoleOwner(e)
    BY <1>1, UnderWithdrawal
  <1>4. CASE StillHeld(o) /\ SoleOwner(e) /\ ~wd[o].cancelled
    <2>1. gate[e] # "cancelled" /\ runs[o[1]].stopped /\ e \in Consumers /\ entry[e].closing
      BY <1>1, <1>4, UnderWithdrawal DEF Withdraws
    <2>2. UNCHANGED <<active, table>>
      BY <1>4 DEF WithdrawResume
    <2>3. CASE runs[o[1]].force /\ Key(e) \in Pooled
      <3> DEFINE w == [wd[o] EXCEPT !.at = "interrupt"]
      <3>1. w \in WithdrawType /\ w.at = "interrupt" /\ w.entry = e
        BY <1>1 DEF WithdrawType
      <3>2. wd' = [wd EXCEPT ![o] = w] /\ UNCHANGED entry
        BY <1>1, <1>4, <2>3 DEF WithdrawResume, ControlInv, Types, WithdrawType
      <3> HIDE DEF w
      <3>3. wd'[o] = w /\ Withdraws(o)
        BY <3>2, WithdrawsNow DEF ControlInv, Types
      <3>4. Withdraws(o)'
        BY <1>1, <2>1, <2>2, <2>3, <3>1, <3>2, <3>3 DEF Withdraws, Stopped
      <3> QED
        BY <1>1, <2>2, <3>1, <3>2, <3>4, WithdrawMoves
    <2>4. CASE ~(runs[o[1]].force /\ Key(e) \in Pooled)
      <3>1. /\ entry' = [entry EXCEPT ![e].closing = FALSE, ![e].settled = TRUE]
            /\ wd' = [wd EXCEPT ![o] = NoWithdraw]
        BY <1>4, <2>4 DEF WithdrawResume
      <3>3. entry' = [entry EXCEPT ![e] = [entry[e] EXCEPT !.closing = FALSE, !.settled = TRUE]]
        BY <2>1, <3>1 DEF ControlInv, Types, EntryType
      <3>2. e \notin interrupts
        BY <1>1, <1>4, <2>1, <2>4, UnderWithdrawal, SealedNow DEF Sealed
      <3> HIDE DEF e
      <3>4. e = wd[o].entry
        BY DEF e
      <3> QED
        BY <1>1, <1>4, <2>1, <2>2, <3>1, <3>2, <3>3, <3>4, SealMoves, WithdrawEnds DEF NoneLeft
    <2> QED
      BY <2>3, <2>4
  <1>5. CASE StillHeld(o) /\ SoleOwner(e) /\ wd[o].cancelled
    <2> DEFINE s == entry[e].settled \/ Undispatched(e)
    <2>1. /\ entry' = [entry EXCEPT ![e].consumers = {}, ![e].abandoned = TRUE, ![e].settled = s]
          /\ table' \in {table, [table EXCEPT ![Key(e)] = None]}
          /\ wd' = [wd EXCEPT ![o] = NoWithdraw] /\ active' = [active EXCEPT ![o] = None]
      BY <1>5 DEF WithdrawResume, Withdrawn
    <2>2. s \in BOOLEAN
      BY <1>1, UnderWithdrawal DEF ControlInv, Types, EntryType, Undispatched
    <2> HIDE DEF s
    <2>3. entry' = [entry EXCEPT ![e] = [entry[e] EXCEPT !.consumers = {}, !.abandoned = TRUE,
                                                         !.settled = s]]
      BY <1>1, <2>1, UnderWithdrawal DEF ControlInv, Types, EntryType
    <2> HIDE DEF e
    <2>4. e = wd[o].entry
      BY DEF e
    <2> QED
      BY <1>1, <1>5, <2>1, <2>2, <2>3, <2>4, LeavesClosed
  <1> QED
    BY <1>2, <1>3, <1>4, <1>5

LEMMA WithdrawInterruptKeeps == ASSUME ControlInv, NEW o \in Consumers, WithdrawInterrupt(o) PROVE Shape'
  <1> DEFINE e == wd[o].entry
  <1>1. /\ wd[o].at = "interrupt" /\ wd' = [wd EXCEPT ![o] = NoWithdraw]
        /\ interrupts' \in {interrupts, interrupts \cup {e}}
        /\ UNCHANGED <<runs, remaining, prep, target, active, linked, entry, table, gate, result>>
    BY DEF WithdrawInterrupt, runVars, planVars, prepVars
  <1>2. /\ e \in Consumers /\ entry[e].closing /\ gate[e] # "none" /\ Key(e) \in Pooled
        /\ runs[o[1]].force
        /\ active[o] = e \/ entry[e].task = "done"
    BY <1>1, UnderWithdrawal DEF Withdraws
  <1>3. \A x \in entry[e].consumers : x = o
    BY <1>2, SealedNow, OwnedNow, PlacedNow, NoneAssumption DEF Sealed, Owned, Placed
  <1>4. wd'[o].at = "no" /\ \A q \in Consumers : q # o => wd'[q] = wd[q]
    BY <1>1 DEF ControlInv, Types, NoWithdraw
  <1> HIDE DEF e
  <1>5. ASSUME NEW q \in Consumers PROVE Placed(q)'
    BY <1>1, PlacedNow DEF Placed, Unstarted, Waiting
  <1>6. ASSUME NEW q \in Consumers PROVE Withdraws(q)'
    BY <1>1, <1>4, WithdrawsNow DEF Withdraws, Stopped
  <1>7. ASSUME NEW q \in Consumers PROVE Owned(q)'
    BY <1>1, <1>2, OwnedNow DEF Owned, Owners
  <1>8. ASSUME NEW q \in Consumers PROVE Sealed(q)'
    BY <1>1, <1>2, <1>3, SealedNow DEF Sealed, Owners, Stopped
  <1>9. ASSUME NEW k \in Keys PROVE Listed(k)'
    BY <1>1, ListedNow DEF Listed
  <1> QED
    BY <1>5, <1>6, <1>7, <1>8, <1>9 DEF Shape

-----------------------------------------------------------------------------
(* A dispatched execution, and the driver.                                 *)

\* The worker moves the gate of a running execution.
LEMMA GateMoves ==
  ASSUME ControlInv, NEW e \in Consumers, entry[e].task = "running", gate[e] \in {"ready", "entered"},
         NEW g \in {"entered", "finished"}, gate' = [gate EXCEPT ![e] = g],
         \A q \in Consumers : q # e => result'[q] = result[q],
         UNCHANGED <<runs, remaining, prep, target, active, linked, wd, entry, table, interrupts>>
  PROVE  Shape'
  <1>1. gate'[e] = g /\ \A q \in Consumers : q # e => gate'[q] = gate[q]
    BY DEF ControlInv, Types
  <1>2. linked[e] # None \/ ~Unstarted(e)
    BY PlacedNow DEF Placed
  <1>3. ASSUME NEW q \in Consumers PROVE Placed(q)'
    BY <1>1, <1>2, PlacedNow DEF Placed, Unstarted, Waiting
  <1>4. ASSUME NEW q \in Consumers PROVE Withdraws(q)'
    BY <1>1, WithdrawsNow DEF Withdraws, Stopped
  <1>5. ASSUME NEW q \in Consumers PROVE Owned(q)'
    BY <1>1, OwnedNow DEF Owned, Owners
  <1>6. ASSUME NEW q \in Consumers PROVE Sealed(q)'
    BY <1>1, SealedNow DEF Sealed, Owners, Stopped
  <1>7. ASSUME NEW k \in Keys PROVE Listed(k)'
    BY <1>1, ListedNow DEF Listed
  <1> QED
    BY <1>3, <1>4, <1>5, <1>6, <1>7 DEF Shape

LEMMA EnterKeeps == ASSUME ControlInv, NEW e \in Consumers, Enter(e) PROVE Shape'
  <1>1. /\ entry[e].task = "running" /\ gate[e] = "ready" /\ gate' = [gate EXCEPT ![e] = "entered"]
        /\ result' = [result EXCEPT ![e] = "none"]
        /\ UNCHANGED <<runs, remaining, prep, target, active, linked, wd, entry, table, interrupts>>
    BY DEF Enter, AtWorker, Answered, runVars, planVars, prepVars, wdVars
  <1>2. \A q \in Consumers : q # e => result'[q] = result[q]
    BY <1>1 DEF ControlInv, Types
  <1> QED
    BY <1>1, <1>2, GateMoves

LEMMA FinishKeeps == ASSUME ControlInv, NEW e \in Consumers, Finish(e) PROVE Shape'
  <1>1. /\ entry[e].task = "running" /\ gate[e] = "entered" /\ gate' = [gate EXCEPT ![e] = "finished"]
        /\ \E answer : result' = [result EXCEPT ![e] = answer]
        /\ UNCHANGED <<runs, remaining, prep, target, active, linked, wd, entry, table, interrupts>>
    BY DEF Finish, AtWorker, Answered, runVars, planVars, prepVars, wdVars
  <1>2. \A q \in Consumers : q # e => result'[q] = result[q]
    BY <1>1 DEF ControlInv, Types
  <1> QED
    BY <1>1, <1>2, GateMoves

\* The worker answers for a running execution and leaves its gate.
LEMMA AnswersKeep ==
  ASSUME ControlInv, NEW e \in Consumers, Refuse(e) \/ TaskFails(e) PROVE Shape'
  <1>1. /\ entry[e].task = "running" /\ gate' = gate
        /\ \E answer : result' = [result EXCEPT ![e] = answer]
        /\ UNCHANGED <<runs, remaining, prep, target, active, linked, wd, entry, table, interrupts>>
    BY DEF Refuse, TaskFails, AtWorker, Answered, runVars, planVars, prepVars, wdVars
  <1>2. \A q \in Consumers : q # e => result'[q] = result[q]
    BY <1>1 DEF ControlInv, Types
  <1>3. gate[e] # "none"
    BY <1>1, OwnedNow DEF Owned, NoEntry
  <1> QED
    BY <1>1, <1>2, <1>3, CalmKeeps DEF tasks, Grown

LEMMA SettleKeeps == ASSUME ControlInv, NEW e \in Consumers, Settle(e) PROVE Shape'
  <1> DEFINE step == IF result[e] = "lost" THEN "failed" ELSE result[e]
  <1>1. /\ entry[e].task = "running" /\ result[e] # "none" /\ step # "none" /\ gate[e] # "none"
        /\ e # None
    BY OwnedNow, NoneAssumption DEF Settle, Owned, NoEntry
  <1>2. /\ entry' = [entry EXCEPT ![e] = [entry[e] EXCEPT !.step = step, !.task = "done", !.consumers = {},
                                                          !.settled = TRUE]]
        /\ active' = [o \in Consumers |-> IF o \in entry[e].consumers THEN None ELSE active[o]]
        /\ runs' = runs \/ runs' = StopOf({o[1] : o \in entry[e].consumers})
        /\ table' = (IF table[Key(e)] = e THEN [table EXCEPT ![Key(e)] = None] ELSE table)
        /\ UNCHANGED <<remaining, prep, target, linked, wd, gate, interrupts, result>>
    BY DEF Settle, ControlInv, Types, EntryType, planVars, prepVars, wdVars, gateVars
  <1>3. Grown
    <2>1. runs \in [Runs -> RunType]
      BY DEF ControlInv, Types
    <2> QED
      BY <1>2, <2>1, StopOfGrows DEF Grown
  <1> HIDE DEF step
  <1>4. /\ \A q \in Consumers : q # e => entry'[q] = entry[q]
        /\ entry'[e].bindings = entry[e].bindings /\ entry'[e].consumers = {}
        /\ entry'[e].task = "done" /\ entry'[e].step = step
        /\ entry'[e].abandoned = entry[e].abandoned /\ entry'[e].closing = entry[e].closing
    BY <1>2 DEF ControlInv, Types, EntryType
  <1>5. \A q \in Consumers : active'[q] = IF active[q] = e THEN None ELSE active[q]
    BY <1>1, <1>2, OwnedNow, PlacedNow DEF Owned, Placed
  <1>6. \A k \in Keys : table'[k] = IF table[k] = e THEN None ELSE table[k]
    BY <1>1, <1>2, ListedNow, ConsumersAre DEF ControlInv, Types, Listed
  <1>7. ASSUME NEW q \in Consumers PROVE Placed(q)'
    BY <1>2, <1>3, <1>4, <1>5, PlacedNow, ConsumersAre DEF Placed, Unstarted, Waiting, Grown
  <1>8. ASSUME NEW q \in Consumers PROVE Withdraws(q)'
    BY <1>2, <1>3, <1>4, <1>5, WithdrawsNow, ConsumersAre DEF Withdraws, Stopped, Grown
  <1>9. ASSUME NEW q \in Consumers PROVE Owned(q)'
    BY <1>1, <1>2, <1>4, <1>5, <1>6, OwnedNow, ConsumersAre DEF Owned, Owners
  <1>10. ASSUME NEW q \in Consumers PROVE Sealed(q)'
    BY <1>2, <1>3, <1>4, SealedNow, ConsumersAre DEF Sealed, Owners, Stopped, Grown
  <1>11. ASSUME NEW k \in Keys PROVE Listed(k)'
    BY <1>2, <1>6, ListedNow DEF Listed
  <1> QED
    BY <1>7, <1>8, <1>9, <1>10, <1>11 DEF Shape

\* Every withdrawal the driver starts is one of a stopped Run.
LEMMA WithdrawalsStart ==
  ASSUME ControlInv, wd' = Withdrawing(ToWithdraw), NEW q \in Consumers
  PROVE  /\ \/ wd'[q] = wd[q]
            \/ /\ wd'[q].at = "start" /\ wd'[q].entry = active[q] /\ active[q] # None
               /\ gate[active[q]] # "none" /\ Stopped(q) /\ wd[q].at = "no"
         /\ q \in ToWithdraw => wd'[q].at = "start"
  <1>1. active[q] # None => gate[active[q]] # "none"
    <2>1. active[q] # None => active[q] \in Consumers /\ q \in entry[active[q]].consumers
      BY PlacedNow DEF Placed
    <2> QED
      BY <2>1, OwnedNow DEF Owned, NoEntry
  <1> DEFINE S == ToWithdraw
  <1>2. q \in S => active[q] # None /\ Stopped(q) /\ wd[q].at = "no"
    BY DEF ToWithdraw
  <1>3. wd' = Withdrawing(S)
    OBVIOUS
  <1> HIDE DEF S
  <1>4. wd'[q] = IF q \in S THEN [NoWithdraw EXCEPT !.at = "start", !.entry = active[q]] ELSE wd[q]
    BY <1>3, Zenon DEF Withdrawing
  <1>5. q \in S => wd'[q].at = "start" /\ wd'[q].entry = active[q]
    BY <1>4 DEF NoWithdraw
  <1> QED
    BY <1>1, <1>2, <1>4, <1>5 DEF S

LEMMA DriveKeeps == ASSUME ControlInv, Drive PROVE Shape'
  <1>1. PICK P \in Nominations, D \in Dispatches :
          /\ remaining' = remaining \ (ToBlock \cup P)
          /\ prep' = [o \in Consumers |-> IF o \in P /\ Satisfied(o) THEN "start" ELSE prep[o]]
          /\ entry' = [e \in Consumers |-> IF e \in D THEN [entry[e] EXCEPT !.task = "running"]
                                                      ELSE entry[e]]
    BY DEF Drive
  <1>2. /\ wd' = Withdrawing(ToWithdraw)
        /\ runs' = [r \in Runs |-> IF Finished(r) THEN [runs[r] EXCEPT !.state = "done"] ELSE runs[r]]
        /\ UNCHANGED <<target, linked, active, table, gate, interrupts, result>>
    BY DEF Drive, gateVars
  <1>3. P \subseteq remaining /\ \A o \in P : o \in remaining /\ runs[o[1]].state # "new"
    <2>1. P \subseteq remaining
      BY DEF Nominations, Ready
    <2> QED
      BY <2>1, PlacedNow DEF Placed, ControlInv, Types
  <1>4. \A e \in D : /\ e \in Consumers /\ entry[e].task = "none" /\ entry[e].consumers # {}
                     /\ \E o \in Consumers : linked[o] = e
    <2>1. \A e \in D : e \in Consumers /\ entry[e].task = "none" /\ entry[e].consumers # {}
      BY DEF Dispatches, Candidates
    <2>2. ASSUME NEW e \in D PROVE \E o \in Consumers : linked[o] = e
      <3>1. PICK o \in entry[e].consumers : o \in Consumers
        BY <2>1, OwnedNow
      <3> QED
        BY <2>1, <3>1, OwnedNow, PlacedNow, NoneAssumption DEF Owned, Placed
    <2> QED
      BY <2>1, <2>2
  <1>5. /\ Grown
        /\ \A r \in Runs : runs'[r].stopped = runs[r].stopped /\ runs'[r].force = runs[r].force
    BY <1>2 DEF Grown, ControlInv, Types, RunType
  <1>6. \A q \in Consumers :
          /\ prep'[q] = prep[q] \/ (q \in P /\ prep'[q] = "start")
          /\ entry'[q].bindings = entry[q].bindings /\ entry'[q].consumers = entry[q].consumers
          /\ entry'[q].task = IF q \in D THEN "running" ELSE entry[q].task
          /\ entry'[q].step = entry[q].step
          /\ entry'[q].abandoned = entry[q].abandoned /\ entry'[q].closing = entry[q].closing
          /\ q \notin D => entry'[q] = entry[q]
    BY <1>1 DEF ControlInv, Types, EntryType
  <1>7. \A q \in P : prep[q] = "no" /\ linked[q] = None /\ active[q] = None /\ target[q] = None
    BY <1>3, PlacedNow DEF Placed, Unstarted, Waiting, ControlInv, Types
  <1>8. ASSUME NEW q \in Consumers PROVE Placed(q)'
    BY <1>1, <1>2, <1>3, <1>5, <1>6, <1>7, PlacedNow, ConsumersAre
       DEF Placed, Unstarted, Waiting, Before, Grown
  <1>9. ASSUME NEW q \in Consumers PROVE Withdraws(q)'
    BY <1>2, <1>4, <1>5, <1>6, WithdrawsNow, WithdrawalsStart, ConsumersAre, NoneAssumption
       DEF Withdraws, Stopped
  <1>10. ASSUME NEW q \in Consumers PROVE Owned(q)'
    BY <1>2, <1>4, <1>6, <1>7, OwnedNow DEF Owned, Owners, NoEntry
  <1>11. ASSUME NEW q \in Consumers PROVE Sealed(q)'
    BY <1>2, <1>5, <1>6, SealedNow, ConsumersAre DEF Sealed, Owners, Stopped
  <1>12. ASSUME NEW k \in Keys PROVE Listed(k)'
    BY <1>2, ListedNow DEF Listed
  <1> QED
    BY <1>8, <1>9, <1>10, <1>11, <1>12 DEF Shape

LEMMA DrainKeeps == ASSUME ControlInv, Drain PROVE Shape'
  <1>1. /\ wd' = wd \/ wd' = Withdrawing(ToWithdraw)
        /\ runs' = runs \/ runs' = [r \in Runs |-> IF runs[r].state = "open"
                                       THEN [runs[r] EXCEPT !.state = "done"] ELSE runs[r]]
        /\ UNCHANGED <<remaining, prep, target, linked, active, entry, table, gate, interrupts, result>>
    BY DEF Drain, planVars, prepVars, gateVars
  <1>2. \A r \in Runs : /\ runs'[r].stopped = runs[r].stopped /\ runs'[r].force = runs[r].force
                        /\ runs'[r].state = "new" <=> runs[r].state = "new"
    BY <1>1 DEF ControlInv, Types, RunType
  <1>3. ASSUME NEW q \in Consumers PROVE Placed(q)'
    BY <1>1, <1>2, PlacedNow, ConsumersAre DEF Placed, Unstarted, Waiting
  <1>4. ASSUME NEW q \in Consumers PROVE Withdraws(q)'
    BY <1>1, <1>2, WithdrawsNow, WithdrawalsStart, PlacedNow, ConsumersAre DEF Withdraws, Stopped
  <1>5. ASSUME NEW q \in Consumers PROVE Owned(q)' 
    BY <1>1, OwnedNow DEF Owned, Owners
  <1>6. ASSUME NEW q \in Consumers PROVE Sealed(q)'
    BY <1>1, <1>2, SealedNow, ConsumersAre DEF Sealed, Owners, Stopped
  <1>7. ASSUME NEW k \in Keys PROVE Listed(k)'
    BY <1>1, ListedNow DEF Listed
  <1> QED
    BY <1>3, <1>4, <1>5, <1>6, <1>7 DEF Shape

-----------------------------------------------------------------------------
(* Callers, and what is reported of an occurrence.                         *)

LEMMA CallersKeep ==
  ASSUME ControlInv,
         \/ \E r \in Runs : Submit(r) \/ \E force \in BOOLEAN : Stop(r, force)
         \/ Close \/ DriveFails
  PROVE  Shape'
  <1>1. runs \in [Runs -> RunType] /\ remaining \subseteq Consumers
    BY DEF ControlInv, Types
  <1>2. CASE \E r \in Runs : Submit(r)
    <2>1. PICK r \in Runs : Submit(r)
      BY <1>2
    <2>2. /\ Grown /\ runs'[r].state # "new" /\ runs[r].state = "new"
          /\ remaining' = remaining \cup Of(r, Consumers)
          /\ UNCHANGED <<tasks, result>>
      BY <1>1, <2>1 DEF Submit, Grown, RunType, tasks, prepVars, wdVars, gateVars
    <2> QED
      BY <2>2, CalmKeeps DEF Of
  <1>3. CASE \E r \in Runs, force \in BOOLEAN : Stop(r, force)
    <2>1. PICK r \in Runs, force \in BOOLEAN : Stop(r, force)
      BY <1>3
    <2> DEFINE f == runs[r].force \/ force
    <2>2. f \in BOOLEAN /\ (runs[r].force => f)
      BY <1>1, <2>1 DEF RunType
    <2>3. runs' = [runs EXCEPT ![r].stopped = TRUE, ![r].force = f]
      BY <2>1 DEF Stop
    <2> HIDE DEF f
    <2>4. Grown
      BY <1>1, <2>2, <2>3 DEF Grown, RunType
    <2>5. UNCHANGED <<remaining, tasks, result>>
      BY <2>1 DEF Stop, tasks, planVars, prepVars, gateVars
    <2> QED
      BY <2>4, <2>5, CalmKeeps
  <1>4. CASE Close \/ DriveFails
    <2>1. /\ runs' = StopOf({r \in Runs : runs[r].state = "open"})
          /\ remaining' \subseteq remaining /\ UNCHANGED <<tasks, result>>
      BY <1>4 DEF Close, DriveFails, tasks, planVars, prepVars, wdVars, gateVars
    <2> QED
      BY <1>1, <2>1, StopOfGrows, CalmKeeps
  <1> QED
    BY <1>2, <1>3, <1>4

LEMMA ReportsKeep ==
  ASSUME ControlInv,
         \/ \E s \in saves : Carried(s)
         \/ \E o \in Consumers : BlockItem(o)
  PROVE  Shape'
  <1>1. runs \in [Runs -> RunType]
    BY DEF ControlInv, Types
  <1>2. runs' = runs \/ \E rs : runs' = StopOf(rs)
    BY DEF Carried, SaveRecords, SaveDelivers, SaveUndelivered, SaveAnnounced, BlockItem, runVars
  <1>3. Grown
    BY <1>1, <1>2, StopOfGrows DEF Grown
  <1>4. UNCHANGED <<remaining, tasks, result>>
    BY DEF Carried, SaveRecords, SaveDelivers, SaveUndelivered, SaveAnnounced, Saving, Proceeds, BlockItem, tasks, planVars, prepVars, wdVars, gateVars
  <1> QED
    BY <1>3, <1>4, CalmKeeps

LEMMA ShapeKeeps == ASSUME ControlInv, [Next]_vars PROVE Shape'
  <1>1. CASE Environment
    BY <1>1, CallersKeep, ReportsKeep, UnheardKeeps, PrepareFailsKeeps, AnswersKeep DEF Environment, Carried
  <1>2. CASE LoopStep
    BY <1>2, ReportsKeep, JoinKeeps, AcquireKeeps, AwaitSettledKeeps, StopWaitingKeeps, BindDoneKeeps,
       CancelUnownedKeeps, BindFailsKeeps, UndoKeeps, WithdrawStartKeeps, WithdrawGateKeeps,
       WithdrawResumeKeeps, WithdrawInterruptKeeps, EnterKeeps, AnswersKeep, FinishKeeps, SettleKeeps,
       DriveKeeps, DrainKeeps DEF LoopStep, Carried
  <1>3. CASE UNCHANGED vars
    <2>1. UNCHANGED <<runs, remaining, tasks, result>>
      BY <1>3 DEF vars, runVars, planVars, prepVars, wdVars, gateVars, tasks
    <2> QED
      BY <2>1, CalmKeeps DEF Grown
  <1> QED
    BY <1>1, <1>2, <1>3 DEF Next

-----------------------------------------------------------------------------
(* Types.                                                                  *)

SaveType == [who : Consumers, out : Ends,
             by : {"prepare", "failure", "refusal", "wait", "loop", "withdraw"},
             at : {"record", "deliver", "announce"}]
Moved(s, at) == [who |-> s.who, out |-> s.out, by |-> s.by, at |-> at]

LEMMA Saved ==
  ASSUME NEW o \in Consumers, NEW out \in Ends,
         NEW by \in {"prepare", "failure", "refusal", "wait", "loop", "withdraw"}
  PROVE  Save(o, out, by) \in SaveType
  BY DEF Save, SaveType

LEMMA SavesAre == Types => saves \subseteq SaveType
  BY DEF Types, SaveType

\* What a save does at one of its steps, whichever that is.
LEMMA SaveGoesOn ==
  ASSUME Types, NEW s \in saves, Carried(s)
  PROVE  /\ s \in SaveType /\ s.who \in Consumers /\ s.out \in Ends
         /\ \/ s.at = "announce" /\ saves' = saves \ {s}
            \/ \E at \in {"deliver", "announce"} :
                  /\ saves' = (saves \ {s}) \cup {Moved(s, at)}
                  /\ Moved(s, at) \in SaveType
         /\ \/ s.at = "record" /\ outcome' = [outcome EXCEPT ![s.who] = s.out]
            \/ s.at # "record" /\ outcome' = outcome
         /\ delivered \subseteq delivered' /\ delivered' \subseteq delivered \cup {s.who}
         /\ \/ wake' /\ runs' = StopOf({s.who[1]})
            \/ UNCHANGED runs /\ (wake' \/ UNCHANGED wake)
  <1>1. s \in SaveType
    BY SavesAre
  <1>2. s.who \in Consumers /\ s.out \in Ends
    BY <1>1 DEF SaveType
  <1>3. ASSUME NEW at \in {"deliver", "announce"}
        PROVE  [s EXCEPT !.at = at] = Moved(s, at) /\ Moved(s, at) \in SaveType
    BY <1>1 DEF SaveType, Moved
  <1>4. CASE SaveRecords(s)
    BY <1>1, <1>2, <1>3, <1>4 DEF SaveRecords, Saving, Proceeds
  <1>5. CASE SaveDelivers(s)
    BY <1>1, <1>2, <1>3, <1>5 DEF SaveDelivers, Saving, Proceeds
  <1>6. CASE SaveUndelivered(s)
    BY <1>1, <1>2, <1>3, <1>6 DEF SaveUndelivered, Saving, Proceeds
  <1>7. CASE SaveAnnounced(s)
    BY <1>1, <1>2, <1>7 DEF SaveAnnounced, Saving
  <1> QED
    BY <1>4, <1>5, <1>6, <1>7 DEF Carried

\* An entry keeps its type when its owners or its marks change.
LEMMA EntryChanges ==
  ASSUME Types, NEW e \in Consumers, NEW C \in SUBSET Consumers, NEW B \in SUBSET Consumers,
         NEW a \in BOOLEAN, NEW c \in BOOLEAN, NEW s \in BOOLEAN,
         entry' = [entry EXCEPT ![e] = [entry[e] EXCEPT !.consumers = C, !.bindings = B, !.abandoned = a,
                                                        !.closing = c, !.settled = s]]
  PROVE  entry' \in [Consumers -> EntryType]
  <1>1. entry \in [Consumers -> EntryType] /\ entry[e] \in EntryType
    BY DEF Types
  <1>2. [entry[e] EXCEPT !.consumers = C, !.bindings = B, !.abandoned = a, !.closing = c, !.settled = s]
           \in EntryType
    BY <1>1 DEF EntryType
  <1> QED
    BY <1>1, <1>2

\* What an entry has, by name.
LEMMA EntryHas ==
  ASSUME Types, NEW e \in Consumers
  PROVE  /\ entry[e] \in EntryType /\ entry \in [Consumers -> EntryType]
         /\ entry[e].consumers \in SUBSET Consumers /\ entry[e].bindings \in SUBSET Consumers
         /\ entry[e].abandoned \in BOOLEAN /\ entry[e].closing \in BOOLEAN
         /\ entry[e].settled \in BOOLEAN
  BY DEF Types, EntryType

LEMMA EntryBecomes ==
  ASSUME Types, NEW e \in Consumers, NEW x \in EntryType, entry' = [entry EXCEPT ![e] = x]
  PROVE  entry' \in [Consumers -> EntryType]
  BY DEF Types

LEMMA CallersType ==
  ASSUME Types, \/ \E r \in Runs : Submit(r) \/ \E force \in BOOLEAN : Stop(r, force)
                \/ Close \/ DriveFails
  PROVE  Types'
  <1>1. /\ UNCHANGED <<prepVars, active, wd, saveVars, entry, table, gateVars, outstanding>>
        /\ draining' \subseteq draining
        /\ remaining' \subseteq remaining \cup Consumers
        /\ blocking' \subseteq blocking \cup remaining
    BY DEF Submit, Stop, Escalated, Close, DriveFails, execVars, planVars, wdVars, Of
  <1>2. runs' \in [Runs -> RunType]
    <2>1. ASSUME NEW r \in Runs, NEW force \in BOOLEAN, Stop(r, force) PROVE runs' \in [Runs -> RunType]
      <3> DEFINE f == runs[r].force \/ force
      <3>1. f \in BOOLEAN
        BY DEF Types, RunType
      <3>2. runs' = [runs EXCEPT ![r].stopped = TRUE, ![r].force = f]
        BY <2>1 DEF Stop
      <3>3. runs \in [Runs -> RunType]
        BY DEF Types
      <3> HIDE DEF f
      <3>4. [runs[r] EXCEPT !.stopped = TRUE, !.force = f] \in RunType
        BY <3>1, <3>3 DEF RunType
      <3>5. runs' = [runs EXCEPT ![r] = [runs[r] EXCEPT !.stopped = TRUE, !.force = f]]
        BY <3>2, <3>3
      <3> QED
        BY <3>3, <3>4, <3>5
    <2> QED
      BY <2>1, StopOfGrows DEF Submit, Close, DriveFails, Types, RunType
  <1> QED
    BY <1>1, <1>2 DEF Types, prepVars, saveVars, gateVars

LEMMA ReportsType ==
  ASSUME Types, \/ \E s \in saves : Carried(s)
                \/ \E o \in Consumers : BlockItem(o)
  PROVE  Types'
  <1>1. /\ UNCHANGED <<remaining, prepVars, active, wdVars, entry, table, gateVars, outstanding>>
        /\ blocking' \subseteq blocking
    BY DEF Carried, SaveRecords, SaveDelivers, SaveUndelivered, SaveAnnounced, Saving, BlockItem, planVars, execVars
  <1>2. /\ runs' \in [Runs -> RunType] /\ saves' \subseteq SaveType
        /\ outcome' \in [Consumers -> {"none"} \cup Ends] /\ delivered' \subseteq Consumers
    <2>1. ASSUME NEW s \in saves, Carried(s)
          PROVE  /\ runs' \in [Runs -> RunType] /\ saves' \subseteq SaveType
                 /\ outcome' \in [Consumers -> {"none"} \cup Ends] /\ delivered' \subseteq Consumers
      <3>1. runs' \in [Runs -> RunType]
        BY <2>1, SaveGoesOn, StopOfGrows DEF Types
      <3>2. saves' \subseteq SaveType
        BY <2>1, SaveGoesOn, SavesAre
      <3>3. outcome' \in [Consumers -> {"none"} \cup Ends] /\ delivered' \subseteq Consumers
        BY <2>1, SaveGoesOn DEF Types
      <3> QED
        BY <3>1, <3>2, <3>3
    <2>2. CASE \E o \in Consumers : BlockItem(o)
      BY <2>2, SavesAre DEF BlockItem, Types, Ends, runVars
    <2> QED
      BY <2>1, <2>2
  <1> QED
    BY <1>1, <1>2 DEF Types, SaveType, prepVars, wdVars, gateVars

LEMMA UnheardType == ASSUME Types, NEW s \in saves, SaveUnheard(s) PROVE Types'
  <1>1. s \in SaveType /\ s.who \in Consumers /\ s.out \in Ends
    BY SavesAre DEF SaveType
  <1>2. /\ UNCHANGED <<remaining, blocking, target, linked, active, wdVars, table, gateVars, outstanding,
                        outcome, delivered>>
        /\ saves' \subseteq saves \cup {Save(s.who, "failed", "failure"), Save(s.who, "failed", "loop")}
        /\ prep' = prep \/ prep' = [prep EXCEPT ![s.who] = "undo"]
        /\ runs' = runs \/ runs' = StopOf({s.who[1]})
    BY DEF SaveUnheard, Saving, Proceeds, planVars, execVars
  <1>3. runs' \in [Runs -> RunType]
    BY <1>2, StopOfGrows DEF Types
  <1>4. entry' \in [Consumers -> EntryType]
    <2> DEFINE e == target[s.who]
    <2>1. CASE entry' = entry
      BY <2>1 DEF Types
    <2>2. CASE e # None /\ entry' = [entry EXCEPT ![e].abandoned = TRUE]
      <3>1. e \in Consumers
        BY <1>1, <2>2 DEF Types
      <3>2. entry' = [entry EXCEPT ![e] = [entry[e] EXCEPT
                 !.consumers = entry[e].consumers, !.bindings = entry[e].bindings,
                 !.abandoned = TRUE, !.closing = entry[e].closing, !.settled = entry[e].settled]]
        BY <2>2, <3>1, EntryHas DEF EntryType
      <3> QED
        BY <3>1, <3>2, EntryHas, EntryChanges
    <2> QED
      BY <2>1, <2>2 DEF SaveUnheard
  <1>5. saves' \subseteq SaveType
    BY <1>1, <1>2, Saved, SavesAre DEF Ends
  <1> QED
    BY <1>1, <1>2, <1>3, <1>4, <1>5 DEF Types, SaveType, wdVars, gateVars

LEMMA PreparationType ==
  ASSUME ControlInv, NEW o \in Consumers,
         \/ Join(o) \/ Acquire(o) \/ AwaitSettled(o) \/ StopWaiting(o) \/ BindDone(o)
         \/ CancelUnowned(o) \/ BindFails(o) \/ Undo(o) \/ PrepareFails(o)
  PROVE  Types'
  <1> Types
    BY DEF ControlInv
  <1>1. UNCHANGED <<runs, remaining, blocking, wd, draining, outcome, delivered, interrupts, result, outstanding>>
    BY DEF Join, Acquire, AwaitSettled, Attached, StopWaiting, BindDone, CancelUnowned, BindFails, Undo,
       PrepareFails, runVars, planVars, prepVars, wdVars, saveVars, gateVars, execVars
  <1>2. prep' \in [Consumers -> Before \cup {"no", "bind", "cancel", "undo"}]
    BY DEF Join, Acquire, AwaitSettled, Attached, StopWaiting, BindDone, CancelUnowned, BindFails, Undo,
       PrepareFails, Discard, Types, Before
  <1>3. /\ target' \in [Consumers -> Consumers \cup {None}]
        /\ linked' \in [Consumers -> Consumers \cup {None}]
        /\ active' \in [Consumers -> Consumers \cup {None}]
    <2>1. CASE Join(o) \/ Acquire(o) \/ AwaitSettled(o)
      BY <2>1, ListedNow, ConsumersAre DEF Join, Acquire, AwaitSettled, Attached, Types
    <2>2. CASE StopWaiting(o) \/ CancelUnowned(o) \/ BindFails(o) \/ Undo(o) \/ PrepareFails(o)
      BY <2>2 DEF StopWaiting, CancelUnowned, BindFails, Undo, PrepareFails, Types
    <2>3. CASE BindDone(o)
      BY <2>3, Binds DEF BindDone, Types
    <2> QED
      BY <2>1, <2>2, <2>3
  <1>4. saves' \subseteq SaveType
    <2>1. saves' = saves \/ \E out \in Ends, by \in {"prepare", "failure", "refusal", "wait"} :
                               saves' = saves \cup {Save(o, out, by)}
      <3>1. CASE BindDone(o)
        <4>1. entry[target[o]].step \in {"none"} \cup Ends
          BY <3>1, Binds DEF BindDone, Types, EntryType
        <4> QED
          BY <3>1, <4>1 DEF BindDone, Ends
      <3>2. CASE ~BindDone(o)
        BY <3>2 DEF Join, Acquire, AwaitSettled, Attached, StopWaiting, CancelUnowned, BindFails, Undo,
           PrepareFails, Discard, saveVars, Ends
      <3> QED
        BY <3>1, <3>2
    <2> QED
      BY <2>1, Saved, SavesAre
  <1>5. table' \in [Keys -> Consumers \cup {None}]
    <2>1. UNCHANGED table \/ \E k \in Keys, e \in Consumers \cup {None} : table' = [table EXCEPT ![k] = e]
      BY ConsumersAre DEF Join, Acquire, AwaitSettled, Attached, StopWaiting, BindDone, CancelUnowned, BindFails,
         Undo, PrepareFails, Discard, Types
    <2> QED
      BY <2>1 DEF Types
  <1>6. gate' \in [Consumers -> {"none", "failed", "ready", "entered", "cancelled", "finished"}]
    BY DEF Join, Acquire, AwaitSettled, Attached, StopWaiting, BindDone, CancelUnowned, BindFails,
       Undo, PrepareFails, Discard, Closed, gateVars, Types
  <1>7. entry' \in [Consumers -> EntryType]
    <2>1. ASSUME NEW e \in Consumers, NEW B \in SUBSET Consumers, entry' = [entry EXCEPT ![e].bindings = B]
          PROVE  entry' \in [Consumers -> EntryType]
      <3>1. entry' = [entry EXCEPT ![e] = [entry[e] EXCEPT
                 !.consumers = entry[e].consumers, !.bindings = B,
                 !.abandoned = entry[e].abandoned, !.closing = entry[e].closing, !.settled = entry[e].settled]]
        BY <2>1, EntryHas DEF EntryType
      <3> QED
        BY <3>1, EntryHas, EntryChanges
    <2>6. CASE Join(o)
      <3> DEFINE e == table[Key(o)]
      <3>1. e \in Consumers /\ entry' = [entry EXCEPT ![e].bindings = entry[e].bindings \cup {o}]
        BY <2>6, ListedNow, ConsumersAre DEF Join, Joinable
      <3>2. entry[e].bindings \cup {o} \in SUBSET Consumers
        BY <3>1, EntryHas
      <3> QED
        BY <2>1, <3>1, <3>2
    <2>7. CASE Acquire(o)
      <3>1. {o} \in SUBSET Consumers /\ entry' = [entry EXCEPT ![o].bindings = {o}]
        BY <2>7 DEF Acquire
      <3> QED
        BY <2>1, <3>1
    <2>2. CASE AwaitSettled(o) \/ StopWaiting(o) \/ PrepareFails(o)
      BY <2>2 DEF AwaitSettled, StopWaiting, PrepareFails, Types
    <2>3. CASE BindDone(o)
      <3> DEFINE e == target[o]
      <3>1. e \in Consumers
        BY <2>3, Binds DEF BindDone
      <3>2. CASE entry' = [[entry EXCEPT ![e].bindings = @ \ {o}] EXCEPT ![e].abandoned = TRUE]
        <4>1. entry' = [entry EXCEPT ![e] = [entry[e] EXCEPT
                   !.consumers = entry[e].consumers, !.bindings = entry[e].bindings \ {o},
                   !.abandoned = TRUE, !.closing = entry[e].closing, !.settled = entry[e].settled]]
          BY <3>1, <3>2, EntryHas DEF EntryType
        <4> QED
          BY <3>1, <4>1, EntryHas, EntryChanges, ZenonT(40)
      <3>3. CASE entry' = [entry EXCEPT ![e].bindings = @ \ {o}]
        <4>1. entry[e].bindings \ {o} \in SUBSET Consumers
          BY <3>1, EntryHas
        <4> QED
          BY <2>1, <3>1, <3>3, <4>1
      <3>4. CASE entry' = [[entry EXCEPT ![e].bindings = @ \ {o}] EXCEPT ![e].consumers = @ \cup {o}]
        <4> DEFINE y == [entry[e] EXCEPT !.bindings = entry[e].bindings \ {o}]
                   C == entry[e].consumers \cup {o}
                   x == [y EXCEPT !.consumers = C]
        <4>1. y \in EntryType /\ C \in SUBSET Consumers
          BY <3>1, EntryHas DEF EntryType
        <4>2. entry' = [entry EXCEPT ![e] = x]
          BY <3>1, <3>4, EntryHas DEF EntryType
        <4> HIDE DEF y, C
        <4>3. x \in EntryType
          BY <4>1 DEF EntryType
        <4> QED
          BY <3>1, <4>2, <4>3, EntryBecomes
      <3> QED
        BY <2>3, <3>2, <3>3, <3>4 DEF BindDone
    <2>4. CASE CancelUnowned(o) \/ Undo(o)
      <3> DEFINE e == target[o]
      <3>1. e \in Consumers
        BY <2>4, Binds DEF CancelUnowned, Undo
      <3>2. CASE entry' = [entry EXCEPT ![e].settled = TRUE]
        <4>1. entry' = [entry EXCEPT ![e] = [entry[e] EXCEPT
                   !.consumers = entry[e].consumers, !.bindings = entry[e].bindings,
                   !.abandoned = entry[e].abandoned, !.closing = entry[e].closing, !.settled = TRUE]]
          BY <3>1, <3>2, EntryHas DEF EntryType
        <4> QED
          BY <3>1, <4>1, EntryHas, EntryChanges
      <3>3. CASE entry' = entry
        BY <3>3 DEF Types
      <3> QED
        BY <2>4, <3>2, <3>3 DEF CancelUnowned, Undo, Discard
    <2>5. CASE BindFails(o)
      <3> DEFINE e == target[o]  a == entry[e].abandoned \/ Owners(e) \subseteq {o}
      <3>1. e \in Consumers /\ a \in BOOLEAN
        BY <2>5, Binds DEF BindFails, Types, EntryType
      <3>2. entry' = [entry EXCEPT ![e].bindings = @ \ {o}, ![e].abandoned = a]
        BY <2>5 DEF BindFails
      <3> HIDE DEF a
      <3>3. entry' = [entry EXCEPT ![e] = [entry[e] EXCEPT
                 !.consumers = entry[e].consumers, !.bindings = entry[e].bindings \ {o},
                 !.abandoned = a, !.closing = entry[e].closing, !.settled = entry[e].settled]]
        BY <3>1, <3>2, EntryHas DEF EntryType
      <3> QED
        BY <3>1, <3>3, EntryHas, EntryChanges, ZenonT(40)
    <2> QED
      BY <2>2, <2>3, <2>4, <2>5, <2>6, <2>7
  <1> QED
    BY <1>1, <1>2, <1>3, <1>4, <1>5, <1>6, <1>7 DEF Types, SaveType

LEMMA WithdrawalType ==
  ASSUME ControlInv, NEW o \in Consumers,
         WithdrawStart(o) \/ WithdrawGate(o) \/ WithdrawResume(o) \/ WithdrawInterrupt(o)
  PROVE  Types'
  <1> Types
    BY DEF ControlInv
  <1> DEFINE e == wd[o].entry
  <1>1. e \in Consumers /\ wd[o] \in WithdrawType
    BY UnderWithdrawal DEF WithdrawStart, WithdrawGate, WithdrawResume, WithdrawInterrupt
  <1>2. UNCHANGED <<runs, remaining, blocking, prep, target, linked, outcome, delivered, result, outstanding>>
    BY DEF WithdrawStart, WithdrawGate, WithdrawResume, WithdrawInterrupt, LeaveShared, Withdrawn, runVars,
       planVars, prepVars, saveVars, gateVars, execVars
  <1>3. wd' \in [Consumers -> WithdrawType]
    <2>1. CASE WithdrawGate(o)
      <3> DEFINE c == gate[e] \in {"ready", "cancelled"}
      <3>1. c \in BOOLEAN
        OBVIOUS
      <3>2. \/ wd' = [wd EXCEPT ![o] = NoWithdraw]
            \/ wd' = [wd EXCEPT ![o].at = "resume", ![o].cancelled = c]
        BY <2>1 DEF WithdrawGate
      <3> HIDE DEF c
      <3> QED
        BY <3>1, <3>2, WithdrawEnds DEF NoneLeft, Types, WithdrawType
    <2>2. CASE ~WithdrawGate(o)
      <3>1. \/ wd' = [wd EXCEPT ![o] = NoWithdraw] \/ wd' = [wd EXCEPT ![o].at = "gate"]
            \/ wd' = [wd EXCEPT ![o].at = "interrupt"]
        BY <2>2 DEF WithdrawStart, WithdrawResume, WithdrawInterrupt, LeaveShared, Withdrawn
      <3> QED
        BY <3>1, WithdrawEnds DEF NoneLeft, Types, WithdrawType
    <2> QED
      BY <2>1, <2>2
  <1>4. active' \in [Consumers -> Consumers \cup {None}] /\ draining' \subseteq Consumers
    BY DEF WithdrawStart, WithdrawGate, WithdrawResume, WithdrawInterrupt, LeaveShared, Withdrawn, Types
  <1>5. saves' \subseteq SaveType
    <2>1. saves' = saves \/ \E out \in Ends : saves' = saves \cup {Save(o, out, "withdraw")}
      BY DEF WithdrawStart, WithdrawGate, WithdrawResume, WithdrawInterrupt, LeaveShared, Withdrawn, saveVars,
         Ends
    <2> QED
      BY <2>1, Saved, SavesAre
  <1>6. table' \in [Keys -> Consumers \cup {None}]
    BY DEF WithdrawStart, WithdrawGate, WithdrawResume, WithdrawInterrupt, LeaveShared, Withdrawn, Types
  <1>7. gate' \in [Consumers -> {"none", "failed", "ready", "entered", "cancelled", "finished"}]
        /\ interrupts' \subseteq Consumers
    BY <1>1, SMTT(60) DEF WithdrawStart, WithdrawGate, WithdrawResume, WithdrawInterrupt, Closed, gateVars, Types
  <1>8. entry' \in [Consumers -> EntryType]
    <2>1. CASE WithdrawResume(o)
      <3> DEFINE s == entry[e].settled \/ Undispatched(e)
      <3>1. s \in BOOLEAN
        BY <1>1 DEF Types, EntryType, Undispatched
      <3>2. \/ entry' = entry
            \/ entry' = [entry EXCEPT ![e].closing = FALSE, ![e].settled = TRUE]
            \/ entry' = [entry EXCEPT ![e].consumers = {}, ![e].abandoned = TRUE, ![e].settled = s]
        BY <2>1, UnderWithdrawal DEF WithdrawResume
      <3> HIDE DEF s
      <3>4. CASE entry' = [entry EXCEPT ![e].closing = FALSE, ![e].settled = TRUE]
        <4> DEFINE x == [entry[e] EXCEPT !.closing = FALSE, !.settled = TRUE]
        <4>1. x \in EntryType
          BY <1>1, EntryHas DEF EntryType
        <4>2. entry' = [entry EXCEPT ![e] = x]
          BY <1>1, <3>4, EntryHas DEF EntryType
        <4> QED
          BY <1>1, <4>1, <4>2, EntryBecomes
      <3>5. CASE entry' = [entry EXCEPT ![e].consumers = {}, ![e].abandoned = TRUE, ![e].settled = s]
        <4> DEFINE x == [entry[e] EXCEPT !.consumers = {}, !.abandoned = TRUE, !.settled = s]
        <4>1. x \in EntryType
          BY <1>1, <3>1, EntryHas DEF EntryType
        <4>2. entry' = [entry EXCEPT ![e] = x]
          BY <1>1, <3>5, EntryHas DEF EntryType
        <4> QED
          BY <1>1, <4>1, <4>2, EntryBecomes
      <3> QED
        BY <3>2, <3>4, <3>5 DEF Types
    <2>2. CASE WithdrawStart(o)
      <3>1. \/ entry' = entry
            \/ entry' = [entry EXCEPT ![e].consumers = @ \ {o}]
            \/ entry' = [entry EXCEPT ![e].closing = TRUE, ![e].settled = FALSE]
        BY <2>2 DEF WithdrawStart
      <3>2. CASE entry' = [entry EXCEPT ![e].consumers = @ \ {o}]
        <4> DEFINE x == [entry[e] EXCEPT !.consumers = entry[e].consumers \ {o}]
        <4>1. x \in EntryType
          BY <1>1, EntryHas DEF EntryType
        <4>2. entry' = [entry EXCEPT ![e] = x]
          BY <1>1, <3>2, EntryHas DEF EntryType
        <4> QED
          BY <1>1, <4>1, <4>2, EntryBecomes
      <3>3. CASE entry' = [entry EXCEPT ![e].closing = TRUE, ![e].settled = FALSE]
        <4> DEFINE x == [entry[e] EXCEPT !.closing = TRUE, !.settled = FALSE]
        <4>1. x \in EntryType
          BY <1>1, EntryHas DEF EntryType
        <4>2. entry' = [entry EXCEPT ![e] = x]
          BY <1>1, <3>3, EntryHas DEF EntryType
        <4> QED
          BY <1>1, <4>1, <4>2, EntryBecomes
      <3> QED
        BY <3>1, <3>2, <3>3 DEF Types
    <2>3. CASE WithdrawGate(o) \/ WithdrawInterrupt(o)
      BY <2>3 DEF WithdrawGate, WithdrawInterrupt, Types
    <2> QED
      BY <2>1, <2>2, <2>3
  <1> QED
    BY <1>2, <1>3, <1>4, <1>5, <1>6, <1>7, <1>8 DEF Types, SaveType

LEMMA WorkerType ==
  ASSUME Types, NEW e \in Consumers, Enter(e) \/ Refuse(e) \/ Finish(e) \/ TaskFails(e)
  PROVE  Types'
  <1>1. /\ UNCHANGED <<runVars, planVars, prepVars, active, wdVars, saveVars, entry, table, interrupts, execVars>>
        /\ gate' = gate \/ gate' = [gate EXCEPT ![e] = "entered"] \/ gate' = [gate EXCEPT ![e] = "finished"]
        /\ \E answer \in {"none", "lost"} \cup Ends : result' = [result EXCEPT ![e] = answer]
    BY AnswersAssumption DEF Enter, Refuse, Finish, TaskFails, Answered, Ends
  <1> QED
    BY <1>1 DEF Types, runVars, planVars, prepVars, wdVars, saveVars, execVars

LEMMA SettleType == ASSUME Types, NEW e \in Consumers, Settle(e), outstanding' \in [Places -> Nat] PROVE Types'
  <1> DEFINE step == IF result[e] = "lost" THEN "failed" ELSE result[e]
  <1>1. step \in Ends /\ entry[e] \in EntryType
    BY DEF Settle, Types, Ends
  <1>2. /\ entry' = [entry EXCEPT ![e].step = step, ![e].task = "done", ![e].consumers = {},
                                  ![e].settled = TRUE]
        /\ saves' = saves \cup {Save(o, step, "loop") : o \in entry[e].consumers}
    BY DEF Settle
  <1>3. /\ active' = [o \in Consumers |-> IF o \in entry[e].consumers THEN None ELSE active[o]]
        /\ runs' = runs \/ runs' = StopOf({o[1] : o \in entry[e].consumers})
        /\ table' = (IF table[Key(e)] = e THEN [table EXCEPT ![Key(e)] = None] ELSE table)
        /\ UNCHANGED <<planVars, prepVars, wdVars, outcome, delivered, gateVars>>
    BY DEF Settle
  <1> HIDE DEF step
  <1>4. entry' \in [Consumers -> EntryType]
    BY <1>1, <1>2 DEF Types, EntryType
  <1>5. saves' \subseteq SaveType
    <2>1. \A o \in entry[e].consumers : o \in Consumers
      BY EntryHas
    <2>2. \A o \in entry[e].consumers : Save(o, step, "loop") \in SaveType
      BY <1>1, <2>1, Saved
    <2> QED
      BY <1>2, <2>2, SavesAre
  <1>6. runs' \in [Runs -> RunType]
    BY <1>3, StopOfGrows DEF Types
  <1> QED
    BY <1>3, <1>4, <1>5, <1>6 DEF Types, SaveType, planVars, prepVars, wdVars, gateVars

LEMMA DriverType ==
  ASSUME Types, Drive \/ Drain, outstanding' \in [Places -> Nat]
  PROVE  Types'
  <1>1. ToBlock \subseteq Consumers /\ \A P \in Nominations : P \subseteq Consumers
    BY DEF Types, ToBlock, Nominations, Ready
  <1>2. wd' \in [Consumers -> WithdrawType]
    <2>1. wd' = wd \/ wd' = Withdrawing(ToWithdraw)
      BY DEF Drive, Drain
    <2>2. ASSUME NEW o \in Consumers PROVE Withdrawing(ToWithdraw)[o] \in WithdrawType
      <3>1. active[o] \in Consumers \cup {None} /\ wd[o] \in WithdrawType
        BY DEF Types
      <3>2. [NoWithdraw EXCEPT !.at = "start", !.entry = active[o]] \in WithdrawType
        BY <3>1 DEF NoWithdraw, WithdrawType
      <3> QED
        BY <3>1, <3>2 DEF Withdrawing
    <2>3. Withdrawing(ToWithdraw) = [o \in Consumers |-> Withdrawing(ToWithdraw)[o]]
      BY DEF Withdrawing
    <2> QED
      BY <2>1, <2>2, <2>3 DEF Types
  <1>3. runs' \in [Runs -> RunType]
    BY DEF Drive, Drain, Types, RunType
  <1>4. entry' \in [Consumers -> EntryType]
    <2>1. CASE Drive
      <3>1. PICK D : entry' = [e \in Consumers |-> IF e \in D THEN [entry[e] EXCEPT !.task = "running"]
                                                              ELSE entry[e]]
        BY <2>1 DEF Drive
      <3>2. ASSUME NEW e \in Consumers PROVE [entry[e] EXCEPT !.task = "running"] \in EntryType
        BY EntryHas DEF EntryType
      <3> QED
        BY <3>1, <3>2, EntryHas
    <2>2. CASE Drain
      BY <2>2 DEF Drain, Types
    <2> QED
      BY <2>1, <2>2
  <1>5. saves' \subseteq SaveType
    <2>1. CASE Drive
      <3>1. PICK P \in Nominations :
               saves' = saves \cup {Save(o, "blocked", "loop") : o \in {q \in P : ~Satisfied(q)}}
        BY <2>1 DEF Drive
      <3>2. \A o \in P : Save(o, "blocked", "loop") \in SaveType
        BY <1>1, Saved DEF Ends
      <3> QED
        BY <3>1, <3>2, SavesAre
    <2>2. CASE Drain
      BY <2>2, SavesAre DEF Drain
    <2> QED
      BY <2>1, <2>2
  <1>6. /\ remaining' \subseteq Consumers /\ blocking' \subseteq Consumers
        /\ prep' \in [Consumers -> Before \cup {"no", "bind", "cancel", "undo"}]
    BY <1>1 DEF Drive, Drain, planVars, prepVars, Types, Before
  <1>7. outcome' \in [Consumers -> {"none"} \cup Ends]
    BY DEF Drive, Drain, Types, Ends
  <1>8. UNCHANGED <<target, linked, active, draining, delivered, table, gateVars>>
    BY DEF Drive, Drain, prepVars
  <1> QED
    BY <1>2, <1>3, <1>4, <1>5, <1>6, <1>7, <1>8 DEF Types, SaveType, gateVars

-----------------------------------------------------------------------------
(* Capacity: what is in flight at a placement.                             *)

LEMMA MinOfTwo == ASSUME NEW a \in Nat, NEW b \in Nat PROVE Min({a, b}) <= a /\ Min({a, b}) \in {a, b}
  <1>1. \E x \in {a, b} : \A y \in {a, b} : x =< y
    BY DEF Min
  <1>2. Min({a, b}) \in {a, b} /\ \A y \in {a, b} : Min({a, b}) =< y
    BY <1>1 DEF Min
  <1> QED
    BY <1>2

LEMMA SettleCounts ==
  ASSUME ControlInv, NEW e \in Consumers, Settle(e)
  PROVE  outstanding' \in [Places -> Nat] /\ \A p \in Places : Counted(p)'
  <1>1. /\ Place(e) \in Places /\ entry[e].task = "running" /\ e \in Running
        /\ Running \subseteq Consumers
        /\ outstanding' = [outstanding EXCEPT ![Place(e)] = @ - 1]
        /\ outstanding \in [Places -> Nat] /\ Capacity \in [Places -> Nat \ {0}]
    BY ConsumersAre, CapacityAssumption DEF Settle, Running, ControlInv, Types
  <1>2. Running' = Running \ {e}
    BY DEF Settle, Running, ControlInv, Types, EntryType
  <1>3. ASSUME NEW p \in Places PROVE outstanding'[p] \in Nat /\ Counted(p)'
    <2>1. At(p, Running') = At(p, Running) \ {e} /\ (e \in At(p, Running) <=> Place(e) = p)
      BY <1>1, <1>2 DEF At
    <2>2. IsFiniteSet(At(p, Running)) /\ Cardinality(At(p, Running)) \in Nat
      BY <1>1, ConsumersFinite DEF At
    <2>3. Cardinality(At(p, Running'))
             = IF Place(e) = p THEN Cardinality(At(p, Running)) - 1 ELSE Cardinality(At(p, Running))
      BY <2>1, <2>2, FS_RemoveElement, ZenonT(40)
    <2>4. Cardinality(At(p, Running')) \in Nat
      BY <1>1, <1>2, ConsumersFinite DEF At
    <2>5. outstanding[p] = Cardinality(At(p, Running)) /\ outstanding[p] <= Capacity[p]
      BY DEF ControlInv, Counted
    <2>6. outstanding'[p] = IF Place(e) = p THEN outstanding[p] - 1 ELSE outstanding[p]
      BY <1>1
    <2>7. outstanding'[p] = Cardinality(At(p, Running')) /\ outstanding'[p] <= Capacity[p]
      BY <1>1, <2>2, <2>3, <2>5, <2>6
    <2>8. At(p, Running)' = At(p, Running')
      BY DEF At, Place, Key
    <2> QED
      BY <2>4, <2>7, <2>8 DEF Counted
  <1>4. outstanding' = [p \in Places |-> outstanding'[p]]
    BY <1>1
  <1> QED
    BY <1>3, <1>4

LEMMA DriveCounts ==
  ASSUME ControlInv, Drive
  PROVE  outstanding' \in [Places -> Nat] /\ \A p \in Places : Counted(p)'
  <1>1. PICK D \in Dispatches :
           /\ entry' = [e \in Consumers |-> IF e \in D THEN [entry[e] EXCEPT !.task = "running"]
                                                        ELSE entry[e]]
           /\ outstanding' = [p \in Places |-> outstanding[p] + Cardinality(At(p, D))]
    BY DEF Drive
  <1>2. /\ D \subseteq Candidates /\ Candidates \subseteq Consumers
        /\ Running \subseteq Consumers /\ D \cap Running = {}
    BY DEF Dispatches, Candidates, Running
  <1>3. Running' = Running \cup D
    BY <1>1, <1>2 DEF Running, ControlInv, Types, EntryType
  <1>4. ASSUME NEW p \in Places PROVE outstanding'[p] \in Nat /\ Counted(p)'
    <2>1. At(p, Running') = At(p, Running) \cup At(p, D) /\ At(p, Running) \cap At(p, D) = {}
      BY <1>2, <1>3 DEF At
    <2>2. /\ IsFiniteSet(At(p, Running)) /\ Cardinality(At(p, Running)) \in Nat
          /\ IsFiniteSet(At(p, D)) /\ Cardinality(At(p, D)) \in Nat
          /\ Cardinality(At(p, Candidates)) \in Nat
      BY <1>2, ConsumersFinite DEF At
    <2>3. Cardinality(At(p, Running')) = Cardinality(At(p, Running)) + Cardinality(At(p, D))
      BY <2>1, <2>2, FS_Union, FS_EmptySet
    <2>4. outstanding[p] = Cardinality(At(p, Running)) /\ outstanding[p] <= Capacity[p]
          /\ Capacity[p] \in Nat
      BY CapacityAssumption DEF ControlInv, Counted
    <2> DEFINE room == IF outstanding[p] < Capacity[p] THEN Capacity[p] - outstanding[p] ELSE 0
    <2>5. room \in Nat /\ outstanding[p] + room <= Capacity[p]
      BY <2>2, <2>4
    <2>6. Cardinality(At(p, D)) = Min({room, Cardinality(At(p, Candidates))})
      BY DEF Dispatches
    <2> HIDE DEF room
    <2>7. Cardinality(At(p, D)) <= room
      BY <2>2, <2>5, <2>6, MinOfTwo
    <2>8. outstanding'[p] = outstanding[p] + Cardinality(At(p, D))
      BY <1>1
    <2>9. /\ outstanding'[p] = Cardinality(At(p, Running')) /\ outstanding'[p] <= Capacity[p]
          /\ outstanding'[p] \in Nat
      BY <2>2, <2>3, <2>4, <2>5, <2>7, <2>8
    <2>10. At(p, Running)' = At(p, Running')
      BY DEF At, Place, Key
    <2> QED
      BY <2>9, <2>10 DEF Counted
  <1>5. outstanding' = [p \in Places |-> outstanding'[p]]
    BY <1>1
  <1> QED
    BY <1>4, <1>5

\* No other step starts or ends a task.
LEMMA OthersCount ==
  ASSUME ControlInv, [Next]_vars, ~Drive, \A e \in Consumers : ~Settle(e)
  PROVE  /\ outstanding' = outstanding
         /\ \A q \in Consumers : entry'[q].task = entry[q].task /\ entry'[q].step = entry[q].step
  <1> DEFINE Still == /\ outstanding' = outstanding
                      /\ \A q \in Consumers : /\ entry'[q].task = entry[q].task
                                               /\ entry'[q].step = entry[q].step
  <1> SUFFICES Still
    OBVIOUS
  <1>1. entry \in [Consumers -> EntryType] /\ \A q \in Consumers : target[q] # None => target[q] \in Consumers
    BY DEF ControlInv, Types
  <1>2. ASSUME NEW s \in saves, Carried(s) PROVE Still
    BY <1>2 DEF Carried, SaveRecords, SaveDelivers, SaveUndelivered, SaveAnnounced, Saving, execVars
  <1>4. ASSUME NEW s \in saves, SaveUnheard(s) PROVE Still
    BY <1>1, <1>4 DEF SaveUnheard, Saving, Proceeds, execVars, EntryType
  <1>5. ASSUME NEW o \in Consumers, Join(o) PROVE Still
    BY <1>1, <1>5 DEF Join, Attached, execVars, EntryType
  <1>6. ASSUME NEW o \in Consumers, Acquire(o) PROVE Still
    BY <1>1, <1>6 DEF Acquire, Attached, execVars, EntryType
  <1>7. ASSUME NEW o \in Consumers, AwaitSettled(o) PROVE Still
    BY <1>1, <1>7 DEF AwaitSettled, Attached, execVars, EntryType
  <1>8. ASSUME NEW o \in Consumers, StopWaiting(o) PROVE Still
    BY <1>1, <1>8 DEF StopWaiting, execVars, EntryType
  <1>9. ASSUME NEW o \in Consumers, BindDone(o) PROVE Still
    BY <1>1, <1>9 DEF BindDone, execVars, EntryType
  <1>10. ASSUME NEW o \in Consumers, CancelUnowned(o) PROVE Still
    BY <1>1, <1>10 DEF CancelUnowned, Discard, execVars, EntryType
  <1>11. ASSUME NEW o \in Consumers, BindFails(o) PROVE Still
    BY <1>1, <1>11 DEF BindFails, execVars, EntryType
  <1>12. ASSUME NEW o \in Consumers, Undo(o) PROVE Still
    BY <1>1, <1>12 DEF Undo, Discard, execVars, EntryType
  <1>13. ASSUME NEW o \in Consumers, PrepareFails(o) PROVE Still
    BY <1>1, <1>13 DEF PrepareFails, execVars, EntryType
  <1>14. ASSUME NEW o \in Consumers, BlockItem(o) PROVE Still
    BY <1>1, <1>14 DEF BlockItem, execVars, EntryType
  <1>15. ASSUME NEW o \in Consumers, WithdrawStart(o) PROVE Still
    BY <1>1, <1>15 DEF WithdrawStart, execVars, EntryType
  <1>16. ASSUME NEW o \in Consumers, WithdrawGate(o) PROVE Still
    BY <1>1, <1>16 DEF WithdrawGate, execVars, EntryType
  <1>17. ASSUME NEW o \in Consumers, WithdrawResume(o) PROVE Still
    BY <1>1, <1>17, SMTT(60) DEF WithdrawResume, execVars, EntryType
  <1>18. ASSUME NEW o \in Consumers, WithdrawInterrupt(o) PROVE Still
    BY <1>1, <1>18 DEF WithdrawInterrupt, execVars, EntryType
  <1>19. ASSUME NEW e \in Consumers, Enter(e) \/ Refuse(e) \/ Finish(e) \/ TaskFails(e) PROVE Still
    BY <1>19 DEF Enter, Refuse, Finish, TaskFails, Answered, execVars
  <1>20. CASE \/ \E r \in Runs : Submit(r) \/ \E force \in BOOLEAN : Stop(r, force)
             \/ Close \/ DriveFails \/ Drain \/ UNCHANGED vars
    BY <1>20 DEF Submit, Stop, Close, DriveFails, Drain, vars, execVars
  <1> HIDE DEF Still
  <1>21. CASE Environment
    BY <1>21, <1>2, <1>4, <1>13, <1>19, <1>20 DEF Environment, Carried
  <1>22. CASE LoopStep
    BY <1>22, <1>2, <1>5, <1>6, <1>7, <1>8, <1>9, <1>10, <1>11, <1>12, <1>14, <1>15, <1>16, <1>17, <1>18, <1>19, <1>20 DEF LoopStep, Carried
  <1> QED
    BY <1>20, <1>21, <1>22 DEF Next

-----------------------------------------------------------------------------
(* The invariant.                                                          *)

LEMMA TypesKeep == ASSUME ControlInv, [Next]_vars PROVE Types'
  <1>1. Types
    BY DEF ControlInv
  <1>2. CASE Drive
    BY <1>1, <1>2, DriveCounts, DriverType
  <1>3. CASE Drain
    BY <1>1, <1>3, DriverType DEF Drain, Types
  <1>4. CASE \E e \in Consumers : Settle(e)
    BY <1>1, <1>4, SettleCounts, SettleType
  <1>5. CASE UNCHANGED vars
    BY <1>1, <1>5 DEF vars, runVars, planVars, prepVars, wdVars, saveVars, gateVars, execVars, Types
  <1>6. CASE Environment
    BY <1>1, <1>6, CallersType, ReportsType, UnheardType, PreparationType, WorkerType DEF Environment, Carried
  <1> QED
    BY <1>1, <1>2, <1>3, <1>4, <1>5, <1>6, ReportsType, PreparationType, WithdrawalType, WorkerType
       DEF Next, LoopStep, Carried

LEMMA CountsKeep == ASSUME ControlInv, [Next]_vars PROVE \A p \in Places : Counted(p)'
  <1>1. CASE Drive
    BY <1>1, DriveCounts
  <1>2. CASE \E e \in Consumers : Settle(e)
    BY <1>2, SettleCounts
  <1>3. CASE ~Drive /\ \A e \in Consumers : ~Settle(e)
    BY <1>3, OthersCount, NothingStarts
  <1> QED
    BY <1>1, <1>2, <1>3

\* The inductive invariant of the controller: who owns an execution, who may
\* still join it, what a withdrawal relies on after each await, and what is in
\* flight at each placement.
THEOREM ControlInductive == Spec => []ControlInv
  <1>1. ControlInv /\ [Next]_vars => ControlInv'
    BY TypesKeep, ShapeKeeps, CountsKeep DEF ControlInv
  <1> QED
    BY InvStarts, <1>1, PTL DEF Spec

-----------------------------------------------------------------------------
(* What follows.                                                           *)

\* Executions in flight are counted exactly and stay within their capacity.
THEOREM CapacityHolds == Spec => []CapacityIsKept
  <1>1. ControlInv => CapacityIsKept
    BY DEF ControlInv, Counted, CapacityIsKept
  <1> QED
    BY <1>1, ControlInductive, PTL

\* Unfinished work of one key that somebody owns is one execution, shared.
THEOREM WorkIsShared == Spec => []OwnedWorkIsShared
  <1>1. ControlInv => OwnedWorkIsShared
    BY OwnedNow DEF Owned, OwnedWorkIsShared
  <1> QED
    BY <1>1, ControlInductive, PTL

\* A gate closes, or an interruption is asked for, only when every owner of the
\* execution is stopped, or forced.
THEOREM OwnersStopTheirWork == Spec => []OnlyOwnersStopWork
  <1>1. ControlInv => OnlyOwnersStopWork
    BY SealedNow DEF Sealed, Owners, Stopped, OnlyOwnersStopWork
  <1> QED
    BY <1>1, ControlInductive, PTL

\* Nothing starts that is not linked, durably, to an occurrence.
THEOREM StartsAreLinked == Spec => []StartedWorkIsLinked
  <1>1. ControlInv => StartedWorkIsLinked
    BY OwnedNow DEF Owned, StartedWorkIsLinked
  <1> QED
    BY <1>1, ControlInductive, PTL

\* Every variable has its type.
THEOREM ControllerTyped == Spec => []TypeOK
  <1>1. ControlInv => TypeOK
    BY DEF ControlInv, Types, RunType, WithdrawType, Before, Ends, TypeOK
  <1> QED
    BY <1>1, ControlInductive, PTL

\* Only the driver starts a preparation.
LEMMA OthersPrepareNone ==
  ASSUME Types, [Next]_vars, ~Drive, NEW o \in Consumers, prep'[o] \notin {"no", "undo"}
  PROVE  prep[o] \notin {"no", "undo"}
  <1>1. prep \in [Consumers -> Before \cup {"no", "bind", "cancel", "undo"}]
    BY DEF Types
  <1>2. ASSUME NEW s \in saves, SaveUnheard(s) PROVE prep[o] \notin {"no", "undo"}
    BY <1>1, <1>2 DEF SaveUnheard
  <1>3. ASSUME NEW q \in Consumers, Join(q) \/ Acquire(q) \/ AwaitSettled(q) PROVE prep[o] \notin {"no", "undo"}
    BY <1>1, <1>3 DEF Join, Acquire, AwaitSettled, Attached, MayAttach
  <1>4. ASSUME NEW q \in Consumers,
               StopWaiting(q) \/ BindDone(q) \/ CancelUnowned(q) \/ BindFails(q) \/ Undo(q) \/ PrepareFails(q)
        PROVE  prep[o] \notin {"no", "undo"}
    BY <1>1, <1>4 DEF StopWaiting, BindDone, CancelUnowned, BindFails, Undo, PrepareFails, Discard
  <1>5. CASE UNCHANGED prep
    BY <1>5
  <1>6. ASSUME \/ \E r \in Runs : Submit(r) \/ \E force \in BOOLEAN : Stop(r, force)
               \/ Close \/ DriveFails \/ Drain
        PROVE  UNCHANGED prep
    <2>1. ASSUME NEW r \in Runs, Submit(r) PROVE UNCHANGED prep
      BY <2>1 DEF Submit, prepVars
    <2>2. ASSUME NEW r \in Runs, NEW force \in BOOLEAN, Stop(r, force) PROVE UNCHANGED prep
      BY <2>2 DEF Stop, prepVars
    <2>3. CASE Close \/ DriveFails \/ Drain
      BY <2>3 DEF Close, DriveFails, Drain, prepVars
    <2> QED
      BY <1>6, <2>1, <2>2, <2>3
  <1>7. ASSUME NEW s \in saves, Carried(s) PROVE UNCHANGED prep
    BY <1>7 DEF Carried, SaveRecords, SaveDelivers, SaveUndelivered, SaveAnnounced, prepVars
  <1>8. ASSUME NEW q \in Consumers,
               \/ BlockItem(q) \/ WithdrawStart(q) \/ WithdrawGate(q) \/ WithdrawResume(q)
               \/ WithdrawInterrupt(q) \/ Settle(q)
        PROVE  UNCHANGED prep
    <2>1. CASE BlockItem(q) \/ WithdrawStart(q) \/ WithdrawGate(q)
      BY <2>1 DEF BlockItem, WithdrawStart, WithdrawGate, prepVars
    <2>2. CASE WithdrawResume(q)
      BY <2>2 DEF WithdrawResume, prepVars
    <2>3. CASE WithdrawInterrupt(q) \/ Settle(q)
      BY <2>3 DEF WithdrawInterrupt, Settle, prepVars
    <2> QED
      BY <1>8, <2>1, <2>2, <2>3
  <1>9. ASSUME NEW q \in Consumers, Enter(q) \/ Refuse(q) \/ Finish(q) \/ TaskFails(q) PROVE UNCHANGED prep
    BY <1>9 DEF Enter, Refuse, Finish, TaskFails, Answered, prepVars
  <1>10. CASE Environment
    BY <1>2, <1>4, <1>5, <1>6, <1>7, <1>9, <1>10 DEF Environment, Carried
  <1>11. CASE LoopStep
    BY <1>3, <1>4, <1>5, <1>6, <1>7, <1>8, <1>9, <1>11 DEF LoopStep, Carried
  <1>12. CASE UNCHANGED vars
    BY <1>5, <1>12 DEF vars, prepVars
  <1> QED
    BY <1>10, <1>11, <1>12 DEF Next

\* Only a withdrawal that found the gate closed reports its work blocked.
LEMMA OnlyWithdrawalsBlock ==
  ASSUME Types, [Next]_vars, NEW o \in Consumers, Save(o, "blocked", "withdraw") \in saves',
         Save(o, "blocked", "withdraw") \notin saves
  PROVE  WithdrawResume(o) /\ StillHeld(o) /\ wd[o].cancelled
  <1> DEFINE Goal == WithdrawResume(o) /\ StillHeld(o) /\ wd[o].cancelled
  <1> SUFFICES Goal
    OBVIOUS
  <1>1. CASE saves' \subseteq saves
    BY <1>1
  <1>2. ASSUME NEW s \in saves, Carried(s) PROVE Goal
    <2>1. \/ saves' = saves \ {s}
          \/ \E at \in {"deliver", "announce"} : saves' = (saves \ {s}) \cup {Moved(s, at)}
      BY <1>2, SaveGoesOn
    <2>2. ASSUME NEW at \in {"deliver", "announce"} PROVE Moved(s, at) # Save(o, "blocked", "withdraw")
      <3>1. Moved(s, at).at = at /\ Save(o, "blocked", "withdraw").at = "record"
        BY DEF Moved, Save
      <3> QED
        BY <3>1
    <2> QED
      BY <2>1, <2>2
  <1>12. ASSUME NEW s \in saves, SaveUnheard(s) PROVE Goal
    BY <1>12 DEF SaveUnheard, Save
  <1>3. ASSUME NEW q \in Consumers,
               StopWaiting(q) \/ BindDone(q) \/ CancelUnowned(q) \/ BindFails(q) \/ Undo(q) \/ PrepareFails(q)
        PROVE  Goal
    BY <1>3 DEF StopWaiting, BindDone, CancelUnowned, BindFails, Undo, PrepareFails, Discard, Save
  <1>4. ASSUME NEW q \in Consumers, WithdrawStart(q) PROVE Goal
    BY <1>4 DEF WithdrawStart, LeaveShared, Withdrawn, Save
  <1>5. ASSUME NEW q \in Consumers, WithdrawResume(q) PROVE Goal
    <2>1. CASE saves' = saves
      BY <2>1
    <2>2. CASE saves' # saves
      <3>1. \/ ~StillHeld(q) /\ saves' = saves
            \/ saves' = saves \cup {Save(q, "cancelled", "withdraw")}
            \/ saves' = saves
            \/ StillHeld(q) /\ wd[q].cancelled /\ saves' = saves \cup {Save(q, "blocked", "withdraw")}
        BY <1>5 DEF WithdrawResume, LeaveShared, Withdrawn
      <3> QED
        BY <1>5, <2>2, <3>1 DEF Save
    <2> QED
      BY <2>1, <2>2
  <1>6. ASSUME NEW q \in Consumers, Settle(q) PROVE Goal
    BY <1>6 DEF Settle, Save
  <1>7. CASE Drive
    BY <1>7 DEF Drive, Save
  <1> HIDE DEF Goal
  <1>8. CASE Environment
    BY <1>1, <1>2, <1>12, <1>3, <1>8 DEF Environment, Carried, Submit, Stop, Close, DriveFails, TaskFails, Answered, saveVars
  <1>9. CASE LoopStep
    BY <1>1, <1>2, <1>3, <1>4, <1>5, <1>6, <1>7, <1>9 DEF LoopStep, Carried, BlockItem, Join, Acquire, AwaitSettled,
       Attached, WithdrawGate, WithdrawInterrupt, Enter, Refuse, Finish, Answered, Drain, saveVars
  <1> QED
    BY <1>1, <1>8, <1>9 DEF Next, vars, saveVars

\* Work that is reported blocked by a withdrawal never starts.
THEOREM BlockedNeverStarts == Spec => BlockedWorkNeverStarts
  <1>1. ASSUME ControlInv, [Next]_vars, NEW o \in Consumers, active[o] # None,
               Save(o, "blocked", "withdraw") \in saves' \ saves
        PROVE  gate'[active[o]] = "cancelled"
    <2>1. WithdrawResume(o) /\ StillHeld(o) /\ wd[o].cancelled
      BY <1>1, OnlyWithdrawalsBlock DEF ControlInv
    <2>2. wd[o].at = "resume" /\ active[o] = wd[o].entry /\ gate' = gate
      BY <2>1 DEF WithdrawResume, StillHeld, gateVars
    <2> QED
      BY <1>1, <2>1, <2>2, WithdrawsNow DEF Withdraws
  <1>2. ControlInv /\ [Next]_vars =>
          \A o \in Consumers :
             (active[o] # None /\ Save(o, "blocked", "withdraw") \in saves' \ saves) =>
                gate'[active[o]] = "cancelled"
    BY <1>1
  <1> QED
    BY <1>2, ControlInductive, PTL DEF Spec, BlockedWorkNeverStarts

-----------------------------------------------------------------------------
(* Stops reach everything.                                                 *)

\* A stopped Run that the sleeping loop would still have to act on is none.
Heard(o) == driver = "on" /\ ~wake => (o \in remaining => ~Stopped(o)) /\ o \notin ToWithdraw

\* An occurrence comes to an entry once, and its withdrawal is from that entry.
Once(o) ==
    /\ o \in draining \/ wd[o].at # "no" => ~Unstarted(o) /\ prep[o] # "bind"
    /\ wd[o].at # "no" /\ active[o] # None => active[o] = wd[o].entry

\* A consumer left to drain is at entered work, and its force has been heard.
Drains(o) ==
    LET e == active[o] IN
    o \in draining /\ e # None /\ result[e] = "none" =>
        /\ gate[e] = "entered"
        /\ runs[o[1]].force /\ Key(e) \in Pooled =>
              e \in interrupts \/ wd[o].at = "interrupt" \/ faults > 0
Gated(o) ==
    /\ active[o] # None => gate[active[o]] # "failed"
    /\ gate[o] = "finished" => result[o] # "none"

StopInv == faults \in Nat /\ \A o \in Consumers : Heard(o) /\ Once(o) /\ Drains(o) /\ Gated(o)


\* What any step may do to an occurrence, and to its entry.
Moves(o) ==
    /\ Unstarted(o)' \/ prep'[o] = "bind" => Unstarted(o) \/ prep[o] = "bind"
    /\ \/ active'[o] \in {active[o], None}
       \/ prep[o] = "bind" /\ gate[active'[o]] # "failed" /\ gate' = gate
    /\ \/ wd'[o].at = "no"
       \/ wd[o].at # "no" /\ wd'[o].entry = wd[o].entry
       \/ wd'[o].entry = active[o] /\ active[o] # None /\ active'[o] = active[o]
    /\ wd[o].at = "interrupt" => \/ wd'[o].at = "interrupt"
                                 \/ faults' > faults
                                 \/ gate[wd[o].entry] = "entered" => wd[o].entry \in interrupts'
    /\ o \in draining' => \/ o \in draining
                          \/ /\ wd[o].at = "resume" /\ StillHeld(o) /\ ~wd[o].cancelled
                             /\ runs[o[1]].force /\ Key(wd[o].entry) \in Pooled => wd'[o].at = "interrupt"
                             /\ UNCHANGED <<gate, result, active>>
    /\ runs'[o[1]].force => runs[o[1]].force \/ o \notin draining'
GateStep(e) ==
    /\ result'[e] = "none" => result[e] = "none"
    /\ gate[e] = "entered" => gate'[e] = "entered" \/ result'[e] # "none"
    /\ gate'[e] = "failed" => gate[e] \in {"none", "failed"}
    /\ gate'[e] = "finished" => gate[e] = "finished" \/ result'[e] # "none"
Onward == /\ \A o \in Consumers : Moves(o) /\ GateStep(o)
          /\ interrupts \subseteq interrupts' /\ faults' \in {faults, faults + 1}

\* Steps that leave every withdrawal and only let go of what they held.
LEMMA QuietOn ==
  ASSUME ControlInv, UNCHANGED wd, \A o \in Consumers : active'[o] \in {active[o], None},
         interrupts \subseteq interrupts', \A e \in Consumers : GateStep(e),
         faults' \in {faults, faults + 1}, draining' \subseteq draining,
         \A o \in Consumers : Unstarted(o)' \/ prep'[o] = "bind" => Unstarted(o) \/ prep[o] = "bind",
         \A o \in Consumers : runs'[o[1]].force => runs[o[1]].force \/ o \notin draining'
  PROVE  Onward
  <1>1. ASSUME NEW o \in Consumers PROVE Moves(o)
    BY DEF Moves
  <1> QED
    BY <1>1 DEF Onward

LEMMA GatesStay ==
  ASSUME UNCHANGED <<gate, result>>, NEW e \in Consumers PROVE GateStep(e)
  BY DEF GateStep

LEMMA StateOnly ==
  ASSUME ControlInv, NEW rs, runs' = runs \/ runs' = StopOf(rs), NEW o \in Consumers
  PROVE  /\ runs'[o[1]].force <=> runs[o[1]].force
         /\ runs'[o[1]].state = runs[o[1]].state
  <1>1. runs \in [Runs -> RunType] /\ o[1] \in Runs
    BY ConsumersAre DEF ControlInv, Types
  <1>2. CASE runs' = StopOf(rs)
    <2>1. runs'[o[1]] \in {runs[o[1]], [runs[o[1]] EXCEPT !.stopped = TRUE]}
      BY <1>1, <1>2 DEF StopOf
    <2> QED
      BY <1>1, <2>1 DEF RunType
  <1> QED
    BY <1>2

LEMMA CallersOn ==
  ASSUME ControlInv,
         \/ \E r \in Runs : Submit(r) \/ \E force \in BOOLEAN : Stop(r, force)
         \/ Close \/ DriveFails
  PROVE  Onward
  <1>1. runs \in [Runs -> RunType] /\ draining \subseteq Consumers
    BY DEF ControlInv, Types
  <1>2. ASSUME NEW r \in Runs, Submit(r) PROVE Onward
    <2>1. /\ UNCHANGED <<prep, active, wd, gate, result, interrupts, draining, faults>>
          /\ runs[r].state = "new" /\ runs' = [runs EXCEPT ![r].state = "open"]
          /\ remaining' = remaining \cup Of(r, Consumers)
      BY <1>2 DEF Submit, prepVars, wdVars, gateVars
    <2>2. \A o \in Consumers : Unstarted(o)' => Unstarted(o)
      BY <1>1, <2>1, ConsumersAre DEF Unstarted, Waiting, Of, RunType
    <2>3. \A o \in Consumers : runs'[o[1]].force => runs[o[1]].force
      BY <1>1, <2>1, ConsumersAre DEF RunType
    <2> QED
      BY <2>1, <2>2, <2>3, GatesStay, QuietOn
  <1>3. ASSUME NEW r \in Runs, NEW force \in BOOLEAN, Stop(r, force) PROVE Onward
    <2> DEFINE f == runs[r].force \/ force
    <2>1. /\ UNCHANGED <<remaining, prep, active, wd, gate, result, interrupts, faults>>
          /\ runs' = [runs EXCEPT ![r].stopped = TRUE, ![r].force = f]
          /\ draining' = Escalated(r, force)
      BY <1>3 DEF Stop, planVars, prepVars, gateVars
    <2>2. f \in BOOLEAN /\ (f /\ ~runs[r].force => force)
      BY <1>1 DEF RunType
    <2>3. draining' \subseteq draining
      BY <2>1 DEF Escalated
    <2>4. ASSUME NEW o \in Consumers, f, ~runs[r].force, o[1] = r PROVE o \notin draining'
      BY <2>1, <2>2, <2>4 DEF Escalated, Of
    <2> HIDE DEF f
    <2>5. \A o \in Consumers : /\ runs'[o[1]].state = runs[o[1]].state
                               /\ runs'[o[1]].force => runs[o[1]].force \/ (o[1] = r /\ f)
      BY <1>1, <2>1, <2>2, ConsumersAre DEF RunType
    <2>6. \A o \in Consumers : runs'[o[1]].force => runs[o[1]].force \/ o \notin draining'
      BY <2>4, <2>5
    <2>7. \A o \in Consumers : Unstarted(o)' => Unstarted(o)
      BY <2>1, <2>5 DEF Unstarted, Waiting
    <2> QED
      BY <2>1, <2>3, <2>6, <2>7, GatesStay, QuietOn
  <1>4. CASE Close \/ DriveFails
    <2>1. /\ UNCHANGED <<prep, active, wd, gate, result, interrupts, draining>>
          /\ runs' = StopOf({r \in Runs : runs[r].state = "open"})
          /\ remaining' \subseteq remaining /\ faults' \in {faults, faults + 1}
      BY <1>4 DEF Close, DriveFails, Fault, planVars, prepVars, wdVars, gateVars
    <2>2. \A o \in Consumers : /\ runs'[o[1]].force <=> runs[o[1]].force
                               /\ runs'[o[1]].state = runs[o[1]].state
      BY <2>1, StateOnly
    <2>3. \A o \in Consumers : Unstarted(o)' => Unstarted(o)
      BY <2>1, <2>2 DEF Unstarted, Waiting
    <2> QED
      BY <2>1, <2>2, <2>3, GatesStay, QuietOn
  <1> QED
    BY <1>2, <1>3, <1>4

\* What a report leaves alone.
LEMMA Reporting ==
  ASSUME \/ \E s \in saves : Carried(s) \/ SaveUnheard(s)
         \/ \E o \in Consumers : BlockItem(o)
  PROVE  /\ UNCHANGED <<remaining, active, wd, gate, result, interrupts, draining>>
         /\ faults' \in {faults, faults + 1}
         /\ \E rs : runs' = runs \/ runs' = StopOf(rs)
  <1>1. ASSUME NEW s \in saves, Carried(s)
        PROVE  /\ UNCHANGED <<remaining, active, wd, gate, result, interrupts, draining>>
               /\ faults' \in {faults, faults + 1}
               /\ \E rs : runs' = runs \/ runs' = StopOf(rs)
    BY <1>1 DEF Carried, SaveRecords, SaveDelivers, SaveUndelivered, SaveAnnounced, Saving, Fault, planVars, wdVars, gateVars
  <1>2. ASSUME NEW s \in saves, SaveUnheard(s)
        PROVE  /\ UNCHANGED <<remaining, active, wd, gate, result, interrupts, draining>>
               /\ faults' = faults + 1
               /\ \E rs : runs' = runs \/ runs' = StopOf(rs)
    BY <1>2 DEF SaveUnheard, Saving, Fault, planVars, wdVars, gateVars
  <1>3. ASSUME NEW o \in Consumers, BlockItem(o)
        PROVE  UNCHANGED <<remaining, active, wd, gate, result, interrupts, draining, faults, runs>>
    BY <1>3 DEF BlockItem, runVars, wdVars, gateVars
  <1> QED
    BY <1>1, <1>2, <1>3

LEMMA ReportsOn ==
  ASSUME ControlInv,
         \/ \E s \in saves : Carried(s) \/ SaveUnheard(s)
         \/ \E o \in Consumers : BlockItem(o)
  PROVE  Onward
  <1>1. \A o \in Consumers : /\ runs'[o[1]].force <=> runs[o[1]].force
                             /\ runs'[o[1]].state = runs[o[1]].state
    BY Reporting, StateOnly
  <1>2. \A q \in Consumers : prep'[q] \in {prep[q], "undo"}
    <2>1. ASSUME NEW s \in saves, Carried(s) PROVE prep' = prep
      BY <2>1 DEF Carried, SaveRecords, SaveDelivers, SaveUndelivered, SaveAnnounced, prepVars
    <2>2. ASSUME NEW o \in Consumers, BlockItem(o) PROVE prep' = prep
      BY <2>2 DEF BlockItem, prepVars
    <2>3. ASSUME NEW s \in saves, SaveUnheard(s) PROVE \A q \in Consumers : prep'[q] \in {prep[q], "undo"}
      BY <2>3 DEF SaveUnheard, ControlInv, Types
    <2> QED
      BY <2>1, <2>2, <2>3
  <1>3. \A o \in Consumers : Unstarted(o)' \/ prep'[o] = "bind" => Unstarted(o) \/ prep[o] = "bind"
    BY <1>1, <1>2, Reporting DEF Unstarted, Waiting, Before
  <1> QED
    BY <1>1, <1>3, Reporting, GatesStay, QuietOn

\* A gate that is closed before it is entered, or made, is none of a running body.
LEMMA GateCloseStep ==
  ASSUME ControlInv, NEW x \in Consumers, gate' \in {gate, Closed(x)}, UNCHANGED result, NEW e \in Consumers
  PROVE  GateStep(e)
  BY DEF Closed, GateStep, ControlInv, Types

LEMMA PreparationOn ==
  ASSUME ControlInv, NEW o \in Consumers,
         \/ Join(o) \/ Acquire(o) \/ AwaitSettled(o) \/ StopWaiting(o)
         \/ CancelUnowned(o) \/ BindFails(o) \/ Undo(o) \/ PrepareFails(o)
  PROVE  Onward
  <1>1. /\ UNCHANGED <<runs, remaining, active, wd, draining, interrupts, result>>
        /\ faults' \in {faults, faults + 1}
    <2>1. CASE Join(o) \/ Acquire(o) \/ AwaitSettled(o)
      BY <2>1 DEF Join, Acquire, AwaitSettled, Attached, Fault, runVars, planVars, wdVars
    <2>2. CASE StopWaiting(o) \/ BindFails(o) \/ PrepareFails(o)
      BY <2>2 DEF StopWaiting, BindFails, PrepareFails, Fault, runVars, planVars, wdVars, gateVars
    <2>3. CASE CancelUnowned(o) \/ Undo(o)
      BY <2>3 DEF CancelUnowned, Undo, runVars, planVars, wdVars
    <2> QED
      BY <2>1, <2>2, <2>3
  <1>2. \A q \in Consumers : \/ prep'[q] = prep[q]
                             \/ q = o /\ (prep'[q] \in Before \cup {"bind"} => prep[q] \in Before \cup {"bind"})
    <2>1. CASE Join(o) \/ Acquire(o) \/ AwaitSettled(o)
      BY <2>1 DEF Join, Acquire, AwaitSettled, Attached, MayAttach, Before, ControlInv, Types
    <2>2. CASE StopWaiting(o) \/ BindFails(o) \/ PrepareFails(o)
      BY <2>2 DEF StopWaiting, BindFails, PrepareFails, Before, ControlInv, Types
    <2>3. CASE CancelUnowned(o) \/ Undo(o)
      BY <2>3 DEF CancelUnowned, Undo, Discard, Before, ControlInv, Types
    <2> QED
      BY <2>1, <2>2, <2>3
  <1>3. \A q \in Consumers : Unstarted(q)' \/ prep'[q] = "bind" => Unstarted(q) \/ prep[q] = "bind"
    BY <1>1, <1>2 DEF Unstarted, Waiting, Before
  <1>4. \A e \in Consumers : GateStep(e)
    <2>1. CASE Join(o) \/ AwaitSettled(o) \/ StopWaiting(o) \/ BindFails(o) \/ PrepareFails(o)
      <3>1. gate' = gate
        BY <2>1 DEF Join, AwaitSettled, StopWaiting, BindFails, PrepareFails, gateVars
      <3> QED
        BY <1>1, <3>1, GatesStay
    <2>2. CASE Acquire(o)
      <3>1. gate[o] = "none" /\ \E g \in {"ready", "failed"} : gate' = [gate EXCEPT ![o] = g]
        BY <2>2, PlacedNow DEF Acquire, MayAttach, Placed, Unstarted, Before
      <3> QED
        BY <1>1, <3>1 DEF GateStep, ControlInv, Types
    <2>3. CASE CancelUnowned(o) \/ Undo(o)
      <3>1. target[o] \in Consumers /\ gate' \in {gate, Closed(target[o])}
        BY <2>3, Binds DEF CancelUnowned, Undo, Discard
      <3> QED
        BY <1>1, <3>1, GateCloseStep
    <2> QED
      BY <2>1, <2>2, <2>3
  <1> QED
    BY <1>1, <1>3, <1>4, QuietOn

LEMMA BindDoneOn == ASSUME ControlInv, NEW o \in Consumers, BindDone(o) PROVE Onward
  <1>1. /\ UNCHANGED <<runs, remaining, wd, draining, interrupts, result, gate, faults>>
        /\ prep[o] = "bind" /\ gate[target[o]] # "failed"
        /\ active' = active \/ active' = [active EXCEPT ![o] = target[o]]
        /\ prep' = [prep EXCEPT ![o] = "no"] \/ prep' = [prep EXCEPT ![o] = "cancel"]
    BY DEF BindDone, runVars, planVars, wdVars, gateVars
  <1>2. \A q \in Consumers : \/ active'[q] = active[q]
                             \/ q = o /\ active'[q] = target[o]
    BY <1>1 DEF ControlInv, Types
  <1>3. \A q \in Consumers : prep'[q] = prep[q] \/ prep'[q] \notin Before \cup {"bind"}
    BY <1>1 DEF ControlInv, Types, Before
  <1>4. ASSUME NEW q \in Consumers PROVE Moves(q)
    BY <1>1, <1>2, <1>3 DEF Moves, Unstarted, Waiting
  <1> QED
    BY <1>1, <1>4, GatesStay DEF Onward

LEMMA WorkerOn == ASSUME ControlInv, NEW e \in Consumers, Enter(e) \/ Refuse(e) \/ Finish(e) \/ TaskFails(e) PROVE Onward
  <1>1. /\ UNCHANGED <<runs, remaining, prep, active, wd, draining, interrupts>>
        /\ faults' \in {faults, faults + 1}
    BY DEF Enter, Refuse, Finish, TaskFails, Answered, Fault, runVars, planVars, prepVars, wdVars
  <1>2. \/ gate' = [gate EXCEPT ![e] = "entered"] /\ gate[e] = "ready" /\ result' = [result EXCEPT ![e] = "none"]
        \/ /\ gate' = gate \/ gate' = [gate EXCEPT ![e] = "finished"]
           /\ \E answer \in {"lost"} \cup Ends : result' = [result EXCEPT ![e] = answer]
    BY AnswersAssumption DEF Enter, Refuse, Finish, TaskFails, Answered, Ends
  <1>3. result[e] = "none"
    BY DEF Enter, Refuse, Finish, TaskFails, AtWorker
  <1>4. \A q \in Consumers : GateStep(q)
    BY <1>2, <1>3 DEF GateStep, ControlInv, Types, Ends
  <1>5. \A q \in Consumers : Unstarted(q)' \/ prep'[q] = "bind" => Unstarted(q) \/ prep[q] = "bind"
    BY <1>1 DEF Unstarted, Waiting
  <1> QED
    BY <1>1, <1>4, <1>5, QuietOn

LEMMA SettleOn == ASSUME ControlInv, NEW e \in Consumers, Settle(e) PROVE Onward
  <1>1. /\ UNCHANGED <<remaining, prep, wd, draining, interrupts, gate, result, faults>>
        /\ \E rs : runs' = runs \/ runs' = StopOf(rs)
        /\ active' = [o \in Consumers |-> IF o \in entry[e].consumers THEN None ELSE active[o]]
    BY DEF Settle, planVars, prepVars, wdVars, gateVars
  <1>2. \A q \in Consumers : /\ runs'[q[1]].force <=> runs[q[1]].force
                             /\ runs'[q[1]].state = runs[q[1]].state
    BY <1>1, StateOnly
  <1>3. \A q \in Consumers : Unstarted(q)' \/ prep'[q] = "bind" => Unstarted(q) \/ prep[q] = "bind"
    BY <1>1, <1>2 DEF Unstarted, Waiting
  <1> QED
    BY <1>1, <1>2, <1>3, GatesStay, QuietOn

\* The driver starts withdrawals, preparations and executions.
LEMMA DriverOn == ASSUME ControlInv, Drive \/ Drain PROVE Onward
  <1>1. /\ UNCHANGED <<active, draining, gate, interrupts, result, faults>>
        /\ remaining' \subseteq remaining
        /\ wd' = wd \/ wd' = Withdrawing(ToWithdraw)
        /\ \E S : runs' = [r \in Runs |-> IF r \in S THEN [runs[r] EXCEPT !.state = "done"] ELSE runs[r]]
    <2>1. CASE Drive
      <3>1. runs' = [r \in Runs |-> IF r \in {x \in Runs : Finished(x)} THEN [runs[r] EXCEPT !.state = "done"]
                                                                        ELSE runs[r]]
        BY <2>1 DEF Drive
      <3> QED
        BY <2>1, <3>1 DEF Drive, gateVars
    <2>2. CASE Drain
      <3>1. \/ runs' = runs
            \/ runs' = [r \in Runs |-> IF r \in {x \in Runs : runs[x].state = "open"}
                                         THEN [runs[r] EXCEPT !.state = "done"] ELSE runs[r]]
        BY <2>2 DEF Drain
      <3>2. runs = [r \in Runs |-> IF r \in {} THEN [runs[r] EXCEPT !.state = "done"] ELSE runs[r]]
        BY DEF ControlInv, Types
      <3>3. \E S \in {{}, {x \in Runs : runs[x].state = "open"}} :
               runs' = [r \in Runs |-> IF r \in S THEN [runs[r] EXCEPT !.state = "done"] ELSE runs[r]]
        <4>1. CASE runs' = runs
          BY <3>2, <4>1
        <4>2. CASE runs' # runs
          BY <3>1, <4>2
        <4> QED
          BY <4>1, <4>2
      <3> QED
        BY <2>2, <3>3 DEF Drain, planVars, gateVars
    <2> QED
      BY <2>1, <2>2
  <1>2. \A q \in Consumers : /\ runs'[q[1]].force <=> runs[q[1]].force
                             /\ runs'[q[1]].state = "new" => runs[q[1]].state = "new"
    BY <1>1, ConsumersAre DEF ControlInv, Types, RunType
  <1>3. \A q \in Consumers : prep'[q] = prep[q] \/ q \in remaining
    <2>1. CASE Drive
      <3>1. PICK P \in Nominations : prep' = [o \in Consumers |-> IF o \in P /\ Satisfied(o) THEN "start"
                                                                                             ELSE prep[o]]
        BY <2>1 DEF Drive
      <3> QED
        BY <3>1 DEF Nominations, Ready
    <2>2. CASE Drain
      BY <2>2 DEF Drain, prepVars
    <2> QED
      BY <2>1, <2>2
  <1>4. \A q \in Consumers : Unstarted(q)' \/ prep'[q] = "bind" => Unstarted(q) \/ prep[q] = "bind"
    BY <1>1, <1>2, <1>3 DEF Unstarted, Waiting
  <1>5. CASE wd' = wd
    BY <1>1, <1>2, <1>4, <1>5, GatesStay, QuietOn
  <1>6. CASE wd' = Withdrawing(ToWithdraw)
    <2>1. ASSUME NEW q \in Consumers PROVE Moves(q)
      <3>1. wd'[q] = wd[q] \/ (wd[q].at = "no" /\ wd'[q].entry = active[q] /\ active[q] # None)
        BY <1>6, WithdrawalsStart
      <3> QED
        BY <1>1, <1>2, <1>4, <3>1 DEF Moves
    <2> QED
      BY <1>1, <2>1, GatesStay DEF Onward
  <1> QED
    BY <1>1, <1>5, <1>6

LEMMA Resumes ==
  ASSUME ControlInv, NEW o \in Consumers, WithdrawResume(o)
  PROVE  /\ UNCHANGED <<runs, remaining, prep, result, gate, interrupts, faults>> /\ wd[o].at = "resume"
         /\ active' = active \/ active' = [active EXCEPT ![o] = None]
  <1> DEFINE e == wd[o].entry
  <1>1. UNCHANGED <<runs, remaining, prep, result, gate, interrupts, faults>> /\ wd[o].at = "resume"
    BY DEF WithdrawResume, runVars, planVars, prepVars, gateVars, ControlInv, Types
  <1>2. StillHeld(o) => SoleOwner(e)
    BY <1>1, UnderWithdrawal
  <1>3. CASE ~StillHeld(o)
    <2>1. UNCHANGED active
      BY <1>3 DEF WithdrawResume
    <2> QED
      BY <1>1, <2>1
  <1>4. CASE StillHeld(o) /\ SoleOwner(e) /\ ~wd[o].cancelled
    <2>1. UNCHANGED active
      BY <1>4 DEF WithdrawResume
    <2> QED
      BY <1>1, <2>1
  <1>5. CASE StillHeld(o) /\ SoleOwner(e) /\ wd[o].cancelled
    <2>1. active' = [active EXCEPT ![o] = None]
      BY <1>5 DEF WithdrawResume, Withdrawn
    <2> QED
      BY <1>1, <2>1
  <1> QED
    BY <1>2, <1>3, <1>4, <1>5

\* What a step of a withdrawal leaves alone.
LEMMA Withdrawals ==
  ASSUME ControlInv, NEW o \in Consumers,
         WithdrawStart(o) \/ WithdrawGate(o) \/ WithdrawResume(o) \/ WithdrawInterrupt(o)
  PROVE  /\ UNCHANGED <<runs, remaining, prep, result>> /\ wd[o].at # "no"
         /\ faults' \in {faults, faults + 1}
         /\ active' = active \/ active' = [active EXCEPT ![o] = None]
         /\ gate' \in {gate, Closed(wd[o].entry)}
         /\ interrupts \subseteq interrupts'
         /\ wd[o].at = "interrupt" => \/ faults' = faults + 1
                                      \/ gate[wd[o].entry] = "entered" => wd[o].entry \in interrupts'
  <1>1. CASE WithdrawStart(o)
    <2>1. UNCHANGED <<runs, remaining, prep, result, gate, interrupts, faults>> /\ wd[o].at = "start"
      BY <1>1 DEF WithdrawStart, runVars, planVars, prepVars, gateVars
    <2>2. active' = active \/ active' = [active EXCEPT ![o] = None]
      BY <1>1 DEF WithdrawStart, LeaveShared, Withdrawn
    <2> QED
      BY <2>1, <2>2
  <1>2. CASE WithdrawGate(o)
    BY <1>2 DEF WithdrawGate, Fault, runVars, planVars, prepVars
  <1>3. CASE WithdrawResume(o)
    BY <1>3, Resumes
  <1>4. CASE WithdrawInterrupt(o)
    BY <1>4 DEF WithdrawInterrupt, Fault, runVars, planVars, prepVars
  <1> QED
    BY <1>1, <1>2, <1>3, <1>4

LEMMA WithdrawalOn ==
  ASSUME ControlInv, faults \in Nat, NEW o \in Consumers,
         WithdrawStart(o) \/ WithdrawGate(o) \/ WithdrawResume(o) \/ WithdrawInterrupt(o)
  PROVE  Onward
  <1> DEFINE e == wd[o].entry
  <1>1. /\ UNCHANGED <<runs, remaining, prep, result>> /\ wd[o].at # "no"
        /\ faults' \in {faults, faults + 1}
    BY Withdrawals
  <1>2. e \in Consumers /\ wd \in [Consumers -> WithdrawType] /\ wd[o] \in WithdrawType
    BY <1>1, UnderWithdrawal DEF ControlInv, Types
  <1>3. active' = active \/ active' = [active EXCEPT ![o] = None]
    BY Withdrawals
  <1>4. \A q \in Consumers : active'[q] \in {active[q], None}
    BY <1>3 DEF ControlInv, Types
  <1>5. /\ \A q \in Consumers : q # o => wd'[q] = wd[q]
        /\ wd'[o].at = "no" \/ wd'[o].entry = wd[o].entry
    <2>1. CASE WithdrawStart(o)
      BY <1>2, <2>1 DEF WithdrawStart, LeaveShared, Withdrawn, NoWithdraw, WithdrawType
    <2>2. CASE WithdrawGate(o)
      BY <1>2, <2>2 DEF WithdrawGate, NoWithdraw, WithdrawType
    <2>3. CASE WithdrawResume(o)
      BY <1>2, <2>3, SMTT(30) DEF WithdrawResume, LeaveShared, Withdrawn, NoWithdraw, WithdrawType
    <2>4. CASE WithdrawInterrupt(o)
      BY <1>2, <2>4 DEF WithdrawInterrupt, NoWithdraw
    <2> QED
      BY <2>1, <2>2, <2>3, <2>4
  <1>6. \A q \in Consumers : GateStep(q)
    <2>1. gate' \in {gate, Closed(e)}
      BY Withdrawals
    <2> QED
      BY <1>1, <1>2, <2>1, GateCloseStep
  <1>7. /\ interrupts \subseteq interrupts'
        /\ wd[o].at = "interrupt" => \/ faults' = faults + 1
                                     \/ gate[e] = "entered" => e \in interrupts'
    BY Withdrawals
  <1>8. \A q \in Consumers : q \in draining' =>
           \/ q \in draining
           \/ /\ q = o /\ wd[o].at = "resume" /\ StillHeld(o) /\ ~wd[o].cancelled
              /\ runs[o[1]].force /\ Key(e) \in Pooled => wd'[o].at = "interrupt"
              /\ UNCHANGED <<gate, result, active>>
    <2>1. CASE WithdrawResume(o)
      BY <1>2, <2>1, SMTT(30) DEF WithdrawResume, LeaveShared, WithdrawType, gateVars
    <2>2. CASE ~WithdrawResume(o)
      BY <2>2 DEF WithdrawStart, WithdrawGate, WithdrawInterrupt, LeaveShared
    <2> QED
      BY <2>1, <2>2
  <1>9. ASSUME NEW q \in Consumers PROVE Moves(q)
    <2>1. Unstarted(q)' \/ prep'[q] = "bind" => Unstarted(q) \/ prep[q] = "bind"
      BY <1>1 DEF Unstarted, Waiting
    <2> QED
      BY <1>1, <1>4, <1>5, <1>7, <1>8, <2>1 DEF Moves
  <1> QED
    BY <1>1, <1>6, <1>7, <1>9 DEF Onward

LEMMA StepsOn == ASSUME ControlInv, faults \in Nat, [Next]_vars PROVE Onward
  <1>1. CASE Environment
    BY <1>1, CallersOn, ReportsOn, PreparationOn, WorkerOn DEF Environment, Carried
  <1>2. CASE LoopStep
    BY <1>2, ReportsOn, PreparationOn, BindDoneOn, WithdrawalOn, WorkerOn, SettleOn, DriverOn DEF LoopStep, Carried
  <1>3. CASE UNCHANGED vars
    <2>1. UNCHANGED <<runs, remaining, prep, active, wd, draining, interrupts, gate, result, faults>>
      BY <1>3 DEF vars, runVars, planVars, prepVars, wdVars, gateVars
    <2>2. \A q \in Consumers : Unstarted(q)' \/ prep'[q] = "bind" => Unstarted(q) \/ prep[q] = "bind"
      BY <2>1 DEF Unstarted, Waiting
    <2> QED
      BY <2>1, <2>2, GatesStay, QuietOn
  <1> QED
    BY <1>1, <1>2, <1>3 DEF Next

\* Whatever does not wake the loop leaves it nothing to act on.
LEMMA NothingNew ==
  ASSUME \A o \in Consumers : Heard(o), UNCHANGED <<runs, driver, wake>>,
         remaining' \subseteq remaining,
         \A o \in Consumers : active'[o] \in {active[o], None},
         \A o \in Consumers : wd'[o].at # "no" \/ o \in draining' \/ active'[o] = None \/ wd'[o] = wd[o],
         draining \subseteq draining',
         NEW o \in Consumers
  PROVE  Heard(o)'
  BY DEF Heard, ToWithdraw, Stopped

LEMMA HeardKeeps ==
  ASSUME ControlInv, StopInv, [Next]_vars
  PROVE  \A o \in Consumers : Heard(o)'
  <1> DEFINE Goal == \A o \in Consumers : Heard(o)'
  <1> SUFFICES Goal
    OBVIOUS
  <1>1. \A o \in Consumers : Heard(o)
    BY DEF StopInv
  <1>2. CASE wake' \/ driver' # "on"
    BY <1>2 DEF Heard
  <1>3. CASE UNCHANGED <<runs, remaining, active, wd, draining, driver, wake>>
    BY <1>1, <1>3, NothingNew
  <1> HIDE DEF Goal
  <1>4. ASSUME NEW o \in Consumers,
               \/ Join(o) \/ Acquire(o) \/ AwaitSettled(o) \/ StopWaiting(o) \/ BindDone(o)
               \/ CancelUnowned(o) \/ BindFails(o) \/ Undo(o) \/ PrepareFails(o)
        PROVE  Goal
    <2>1. CASE Join(o) \/ Acquire(o) \/ AwaitSettled(o)
      BY <1>2, <1>3, <2>1 DEF Join, Acquire, AwaitSettled, Attached, runVars, planVars, wdVars, execVars
    <2>2. CASE StopWaiting(o) \/ BindFails(o) \/ PrepareFails(o)
      BY <1>3, <2>2 DEF StopWaiting, BindFails, PrepareFails, runVars, planVars, wdVars, execVars
    <2>3. CASE CancelUnowned(o) \/ Undo(o)
      BY <1>3, <2>3 DEF CancelUnowned, Undo, runVars, planVars, wdVars, execVars
    <2>4. CASE BindDone(o)
      BY <1>2, <2>4 DEF BindDone
    <2> QED
      BY <1>4, <2>1, <2>2, <2>3, <2>4
  <1>5. ASSUME NEW o \in Consumers, Enter(o) \/ Refuse(o) \/ Finish(o) \/ TaskFails(o) PROVE Goal
    BY <1>3, <1>5 DEF Enter, Refuse, Finish, TaskFails, Answered, runVars, planVars, wdVars, execVars
  <1>6. ASSUME NEW o \in Consumers, Settle(o) PROVE Goal
    BY <1>2, <1>6 DEF Settle
  <1>7. ASSUME NEW s \in saves, Carried(s) \/ SaveUnheard(s) PROVE Goal
    <2>1. UNCHANGED <<remaining, active, wd, draining, driver>>
      BY <1>7 DEF Carried, SaveRecords, SaveDelivers, SaveUndelivered, SaveAnnounced, SaveUnheard, Saving, planVars, wdVars, execVars
    <2>2. wake' \/ UNCHANGED <<runs, wake>>
      BY <1>7, SaveGoesOn DEF SaveUnheard, ControlInv
    <2> QED
      BY <1>2, <1>3, <2>1, <2>2
  <1>8. ASSUME NEW o \in Consumers, BlockItem(o) PROVE Goal
    BY <1>2, <1>8 DEF BlockItem
  <1>9. CASE \/ \E r \in Runs : Submit(r) \/ \E force \in BOOLEAN : Stop(r, force)
             \/ Close \/ DriveFails
    <2>1. ASSUME NEW r \in Runs, Submit(r) PROVE wake'
      BY <2>1 DEF Submit
    <2>2. ASSUME NEW r \in Runs, NEW force \in BOOLEAN, Stop(r, force) PROVE wake'
      BY <2>2 DEF Stop
    <2>3. ASSUME Close \/ DriveFails PROVE wake' \/ driver' # "on"
      BY <2>3 DEF Close, DriveFails
    <2> QED
      BY <1>2, <1>9, <2>1, <2>2, <2>3
  <1>10. CASE Drain
    BY <1>2, <1>10 DEF Drain
  <1>11. CASE Drive
    <2>1. /\ UNCHANGED <<active, draining>> /\ wd' = Withdrawing(ToWithdraw) /\ remaining' \subseteq remaining \ ToBlock
          /\ runs' = [r \in Runs |-> IF Finished(r) THEN [runs[r] EXCEPT !.state = "done"] ELSE runs[r]]
      BY <1>11 DEF Drive
    <2>2. \A o \in Consumers : Stopped(o)' <=> Stopped(o)
      BY <2>1, ConsumersAre DEF Stopped, ControlInv, Types, RunType
    <2>3. ASSUME NEW o \in Consumers PROVE o \notin ToWithdraw'
      <3>1. o \in ToWithdraw' => active[o] # None /\ Stopped(o) /\ o \notin draining /\ wd'[o].at = "no"
        BY <2>1, <2>2 DEF ToWithdraw
      <3>2. (wd'[o] = wd[o] \/ wd'[o].at = "start") /\ (o \in ToWithdraw => wd'[o].at = "start")
        BY <2>1, WithdrawalsStart
      <3> QED
        BY <3>1, <3>2 DEF ToWithdraw
    <2> QED
      BY <2>1, <2>2, <2>3 DEF Goal, Heard, ToBlock
  <1>12. ASSUME NEW o \in Consumers,
                WithdrawStart(o) \/ WithdrawGate(o) \/ WithdrawResume(o) \/ WithdrawInterrupt(o)
         PROVE  Goal
    <2>1. /\ UNCHANGED runs /\ remaining' \subseteq remaining
          /\ \A q \in Consumers : active'[q] \in {active[q], None}
      BY <1>12, Withdrawals DEF ControlInv, Types
    <2>2. wd \in [Consumers -> WithdrawType]
      BY DEF ControlInv, Types
    <2>3. wake' \/ (/\ UNCHANGED <<driver, wake>> /\ draining \subseteq draining'
                    /\ \A q \in Consumers : q # o => wd'[q] = wd[q]
                    /\ wd'[o].at # "no" \/ o \in draining' \/ active'[o] = None)
      <3>1. CASE WithdrawStart(o)
        BY <2>2, <3>1 DEF WithdrawStart, LeaveShared, Withdrawn, WithdrawType, execVars, ControlInv, Types
      <3>2. CASE WithdrawGate(o)
        BY <2>2, <3>2 DEF WithdrawGate, WithdrawType, execVars
      <3>3. CASE WithdrawResume(o)
        <4>1. CASE StillHeld(o) /\ SoleOwner(wd[o].entry) /\ wd[o].cancelled
          BY <2>2, <3>3, <4>1 DEF WithdrawResume, Withdrawn, execVars, ControlInv, Types
        <4>2. CASE StillHeld(o) /\ SoleOwner(wd[o].entry) /\ ~wd[o].cancelled
          BY <2>2, <3>3, <4>2 DEF WithdrawResume, WithdrawType, execVars
        <4>3. CASE ~StillHeld(o)
          BY <3>3, <4>3 DEF WithdrawResume
        <4> QED
          BY <3>3, <4>1, <4>2, <4>3, UnderWithdrawal, Resumes
      <3>4. CASE WithdrawInterrupt(o)
        BY <3>4 DEF WithdrawInterrupt
      <3> QED
        BY <1>12, <3>1, <3>2, <3>3, <3>4
    <2>4. CASE wake'
      BY <1>2, <2>4
    <2>5. CASE ~wake'
      <3>1. \A q \in Consumers : Heard(q)'
        BY <1>1, <2>1, <2>3, <2>5, NothingNew
      <3> QED
        BY <3>1 DEF Goal
    <2> QED
      BY <2>4, <2>5
  <1>13. CASE Environment
    BY <1>4, <1>5, <1>7, <1>9, <1>13 DEF Environment, Carried
  <1>14. CASE LoopStep
    BY <1>4, <1>5, <1>6, <1>7, <1>8, <1>10, <1>11, <1>12, <1>14 DEF LoopStep, Carried
  <1>15. CASE UNCHANGED vars
    BY <1>3, <1>15 DEF vars, runVars, planVars, wdVars, execVars
  <1> QED
    BY <1>13, <1>14, <1>15 DEF Next

\* What a step does keeps what is known of a withdrawal and of its entry.
LEMMA StopKeeps == ASSUME ControlInv, ControlInv', StopInv, [Next]_vars PROVE StopInv'
  <1>1. /\ Onward /\ faults \in Nat
        /\ \A o \in Consumers : Once(o) /\ Drains(o) /\ Gated(o)
    BY StepsOn DEF StopInv
  <1>2. faults' \in Nat /\ faults' >= faults
    BY <1>1 DEF Onward
  <1>3. ASSUME NEW o \in Consumers PROVE Once(o)'
    <2>1. Moves(o) /\ Once(o)
      BY <1>1 DEF Onward
    <2>2. prep[o] = "bind" \/ Unstarted(o) => active[o] = None
      BY PlacedNow DEF Placed
    <2>3. wd[o].at # "no" => wd[o].entry # None
      BY WithdrawsNow DEF Withdraws
    <2> QED
      BY <2>1, <2>2, <2>3, UnderWithdrawal DEF Moves, Once, StillHeld
  <1>4. ASSUME NEW o \in Consumers PROVE Drains(o)'
    <2> DEFINE e == active'[o]
    <2> SUFFICES ASSUME o \in draining', e # None, result'[e] = "none"
                 PROVE  /\ gate'[e] = "entered"
                        /\ runs'[o[1]].force /\ Key(e) \in Pooled =>
                              e \in interrupts' \/ wd'[o].at = "interrupt" \/ faults' > 0
      BY DEF Drains
    <2>1. Moves(o) /\ Once(o) /\ Drains(o) /\ interrupts \subseteq interrupts'
      BY <1>1 DEF Onward
    <2>2. prep[o] = "bind" \/ Unstarted(o) => active[o] = None
      BY PlacedNow DEF Placed
    <2>3. e = active[o]
      BY <2>1, <2>2, UnderWithdrawal DEF Moves, Once, StillHeld
    <2>4. e \in Consumers /\ o \in entry[e].consumers
      BY <2>3, PlacedNow DEF Placed
    <2>5. GateStep(e) /\ Gated(e) /\ Gated(o)
      BY <1>1, <2>4 DEF Onward
    <2>6. result[e] = "none"
      BY <2>5 DEF GateStep
    <2>7. CASE o \in draining
      <3>1. /\ gate[e] = "entered"
            /\ runs[o[1]].force /\ Key(e) \in Pooled => e \in interrupts \/ wd[o].at = "interrupt" \/ faults > 0
        BY <2>1, <2>3, <2>6, <2>7 DEF Drains
      <3>2. wd[o].at = "interrupt" => wd[o].entry = e
        BY <2>1, <2>3 DEF Once
      <3>3. gate'[e] = "entered"
        BY <2>5, <3>1 DEF GateStep
      <3>4. runs'[o[1]].force => runs[o[1]].force
        BY <2>1 DEF Moves
      <3>5. wd[o].at = "interrupt" => wd'[o].at = "interrupt" \/ faults' > faults \/ e \in interrupts'
        BY <2>1, <3>1, <3>2 DEF Moves
      <3> QED
        BY <1>1, <1>2, <2>1, <3>1, <3>3, <3>4, <3>5
    <2>8. CASE o \notin draining
      <3>1. /\ wd[o].at = "resume" /\ StillHeld(o) /\ ~wd[o].cancelled
            /\ runs[o[1]].force /\ Key(wd[o].entry) \in Pooled => wd'[o].at = "interrupt"
            /\ gate' = gate
        BY <2>1, <2>8 DEF Moves
      <3>2. wd[o].entry = e
        BY <2>3, <3>1 DEF StillHeld
      <3>3. gate[e] \notin {"ready", "cancelled"} /\ gate[e] # "none"
        BY <3>1, <3>2, WithdrawsNow DEF Withdraws
      <3>4. gate[e] # "failed" /\ gate[e] # "finished"
        BY <2>3, <2>5, <2>6 DEF Gated
      <3>5. gate[e] = "entered"
        BY <2>4, <3>3, <3>4 DEF ControlInv, Types
      <3>6. runs'[o[1]].force => runs[o[1]].force
        BY <2>1 DEF Moves
      <3> QED
        BY <3>1, <3>2, <3>5, <3>6
    <2> QED
      BY <2>7, <2>8
  <1>5. ASSUME NEW o \in Consumers PROVE Gated(o)'
    <2>1. Moves(o) /\ GateStep(o) /\ Gated(o) /\ \A e \in Consumers : GateStep(e)
      BY <1>1 DEF Onward
    <2>2. active[o] # None => active[o] \in Consumers /\ gate[active[o]] # "none"
      BY PlacedNow, OwnedNow DEF Placed, Owned, NoEntry
    <2>3. active'[o] # None => gate'[active'[o]] # "failed"
      BY <2>1, <2>2 DEF Moves, GateStep, Gated
    <2>4. gate'[o] = "finished" => result'[o] # "none"
      BY <2>1 DEF GateStep, Gated
    <2> QED
      BY <2>3, <2>4 DEF Gated
  <1> QED
    BY <1>2, <1>3, <1>4, <1>5, HeardKeeps DEF StopInv

LEMMA StopStarts == Init => StopInv
  <1> USE NoneAssumption
  <1> SUFFICES ASSUME Init PROVE StopInv
    OBVIOUS
  <1>1. ASSUME NEW o \in Consumers PROVE Heard(o) /\ Once(o) /\ Drains(o) /\ Gated(o)
    BY DEF Init, Heard, ToWithdraw, Once, Drains, Gated, NoWithdraw
  <1> QED
    BY <1>1 DEF Init, StopInv

\* What is known of a stop on its way, at every step of it.
THEOREM StopInductive == Spec => []StopInv
  <1>1. Init => StopInv
    BY StopStarts
  <1>2. StopInv /\ ControlInv /\ ControlInv' /\ [Next]_vars => StopInv'
    BY StopKeeps
  <1> QED
    BY <1>1, <1>2, ControlInductive, PTL DEF Spec

LEMMA PairFinite == ASSUME NEW a, NEW b PROVE IsFiniteSet({a, b})
  <1>1. {a, b} = {a} \cup {b} /\ IsFiniteSet({a}) /\ IsFiniteSet({b})
    BY FS_Singleton
  <1> QED
    BY <1>1, FS_Union

LEMMA SavesFinite == Types => IsFiniteSet(saves)
  <1> DEFINE Bys == {"prepare", "failure", "refusal", "wait", "loop", "withdraw"}
             Ats == {"record", "deliver"} \cup {"announce"}
             D == Consumers \X (Ends \X (Bys \X Ats))
             f == [t \in D |-> [who |-> t[1], out |-> t[2][1], by |-> t[2][2][1], at |-> t[2][2][2]]]
  <1>1. IsFiniteSet(Ends)
    <2>1. Ends = {"succeeded", "failed"} \cup {"cancelled", "blocked"}
      BY DEF Ends
    <2> QED
      BY <2>1, PairFinite, FS_Union
  <1>2. IsFiniteSet(Bys)
    <2> DEFINE H == {"prepare", "failure"} \cup {"refusal", "wait"}
    <2>1. IsFiniteSet(H)
      BY PairFinite, FS_Union
    <2>2. Bys = H \cup {"loop", "withdraw"}
      OBVIOUS
    <2> HIDE DEF H, Bys
    <2>3. IsFiniteSet({"loop", "withdraw"})
      BY PairFinite
    <2> QED
      BY <2>1, <2>2, <2>3, FS_Union
  <1>3. IsFiniteSet(D)
    <2>1. IsFiniteSet(Ats)
      BY PairFinite, FS_Singleton, FS_Union
    <2> HIDE DEF Bys, Ats
    <2>2. IsFiniteSet(Bys \X Ats)
      BY <1>2, <2>1, FS_Product
    <2>3. IsFiniteSet(Ends \X (Bys \X Ats))
      BY <1>1, <2>2, FS_Product
    <2> QED
      BY <2>3, ConsumersFinite, FS_Product
  <1>4. f \in Surjection(D, SaveType)
    <2>1. f \in [D -> SaveType]
      BY DEF SaveType
    <2>2. ASSUME NEW s \in SaveType PROVE \E t \in D : f[t] = s
      <3>1. s.who \in Consumers /\ s.out \in Ends /\ s.by \in Bys /\ s.at \in Ats
        BY DEF SaveType
      <3>2. <<s.who, <<s.out, <<s.by, s.at>>>>>> \in D
        BY <3>1
      <3>3. f[<<s.who, <<s.out, <<s.by, s.at>>>>>>] = s
        BY <3>2 DEF SaveType
      <3> QED
        BY <3>2, <3>3
    <2> HIDE DEF f, D
    <2> QED
      BY <2>1, <2>2 DEF Surjection
  <1> HIDE DEF f, D
  <1>5. IsFiniteSet(SaveType)
    BY <1>3, <1>4, FS_Surjection
  <1> QED
    BY <1>5, SavesAre, FS_Subset

\* A Run with no task under way withdraws nothing.
LEMMA NothingPending ==
  ASSUME Types, NEW o \in Consumers, Pending(o[1]) = 0
  PROVE  prep[o] = "no" /\ wd[o].at = "no" /\ o \notin blocking /\ {s \in saves : s.who = o} = {}
  <1> DEFINE r == o[1]
             A == {q \in Of(r, Consumers) : prep[q] # "no"}
             B == {q \in Of(r, Consumers) : wd[q].at # "no"}
             S == {s \in saves : s.who[1] = r}
             X == IF Of(r, blocking) = {} THEN 0 ELSE 1
  <1>1. A \in SUBSET Consumers /\ B \in SUBSET Consumers /\ S \in SUBSET saves
    BY DEF Of
  <1>2. /\ IsFiniteSet(A) /\ Cardinality(A) \in Nat /\ (Cardinality(A) = 0 <=> A = {})
        /\ IsFiniteSet(B) /\ Cardinality(B) \in Nat /\ (Cardinality(B) = 0 <=> B = {})
    BY <1>1, ConsumersFinite, FS_EmptySet
  <1>3. IsFiniteSet(S) /\ Cardinality(S) \in Nat /\ (Cardinality(S) = 0 <=> S = {})
    BY <1>1, SavesFinite, FS_Subset, FS_CardinalityType, FS_EmptySet
  <1>4. X \in Nat /\ (X = 0 => Of(r, blocking) = {})
    OBVIOUS
  <1>5. Cardinality(A) + Cardinality(B) + Cardinality(S) + X = 0
    BY DEF Pending
  <1> HIDE DEF A, B, S, X
  <1>6. A = {} /\ B = {} /\ S = {} /\ Of(r, blocking) = {}
    <2> DEFINE a == Cardinality(A)  b == Cardinality(B)  c == Cardinality(S)
    <2>1. a \in Nat /\ b \in Nat /\ c \in Nat /\ X \in Nat /\ a + b + c + X = 0
      BY <1>2, <1>3, <1>4, <1>5
    <2>2. (a = 0 <=> A = {}) /\ (b = 0 <=> B = {}) /\ (c = 0 <=> S = {})
      BY <1>2, <1>3
    <2> HIDE DEF a, b, c
    <2>3. a = 0 /\ b = 0 /\ c = 0 /\ X = 0
      BY <2>1
    <2> QED
      BY <1>4, <2>2, <2>3
  <1> QED
    BY <1>6 DEF A, B, S, Of, Types

\* A stop reaches everything: what a stopped Run still holds once the loop
\* rests is entered work, and a forced one has asked to interrupt it.
THEOREM StopsReach == Spec => []StopReachesEverything
  <1>1. ControlInv /\ StopInv => StopReachesEverything
    <2> SUFFICES ASSUME ControlInv, StopInv, NEW o \in Consumers, runs[o[1]].stopped, Resting(o[1])
                 PROVE  /\ o \notin remaining
                        /\ (active[o] # None /\ result[active[o]] = "none") =>
                             /\ gate[active[o]] = "entered"
                             /\ (runs[o[1]].force /\ Key(active[o]) \in Pooled) =>
                                   active[o] \in interrupts \/ faults > 0
      BY DEF StopReachesEverything
    <2>1. Heard(o) /\ Drains(o)
      BY DEF StopInv
    <2>2. wd[o].at = "no"
      BY NothingPending DEF ControlInv, Resting
    <2> QED
      BY <2>1, <2>2 DEF Heard, Drains, Resting, ToWithdraw, Stopped
  <1> QED
    BY <1>1, ControlInductive, StopInductive, PTL

-----------------------------------------------------------------------------
(* Every occurrence is somebody's, and one's only.                         *)

\* Nothing happens any more.
Over ==
    /\ driver = "off" /\ closed /\ Running = {} /\ saves = {}
    /\ \A q \in Consumers : prep[q] = "no" /\ wd[q].at = "no"
SavesOf(o) == {s \in saves : s.who = o}
Free(o) == o \notin blocking /\ SavesOf(o) = {}
Undecided(o) == Free(o) /\ outcome[o] = "none"

\* An occurrence waits, is prepared, is attached to an execution, is being
\* reported, or has an outcome; never two of these at once, except that one
\* whose report a listener refused is reported again, as failed.
Decided(o) ==
    /\ Waiting(o) \/ prep[o] \notin {"no", "undo"} => Undecided(o)
    /\ prep[o] = "undo" => Free(o)
    /\ prep[o] # "no" => active[o] = None
    /\ active[o] # None => Undecided(o) \/ Over
    /\ o \in blocking => SavesOf(o) = {} /\ outcome[o] = "none"
    /\ \A s, t \in SavesOf(o) : s = t
    /\ \A s \in SavesOf(o) : s.at # "record" => outcome[o] = s.out
    /\ outcome[o] # "none" /\ (prep[o] = "undo" \/ \E s \in SavesOf(o) : s.at = "record") =>
          "event" \in Faults /\ \A s \in SavesOf(o) : s.out = "failed"
OnceInv ==
    /\ driver # "on" => closed
    /\ driver = "failed" => remaining = {} /\ Faults # {}
    /\ \A o \in Consumers : Decided(o)

\* A preparation goes on, or begins.
Prepares(q) == \/ prep'[q] = prep[q]
               \/ prep[q] \notin {"no", "undo"}
               \/ Waiting(q) /\ prep'[q] = "start"

LEMMA Kept ==
  ASSUME NEW q \in Consumers, Decided(q), Placed(q), Over => Over',
         SavesOf(q)' = SavesOf(q), outcome'[q] = outcome[q], q \in blocking' <=> q \in blocking,
         Waiting(q)' => Waiting(q), Prepares(q),
         \/ active'[q] \in {active[q], None}
         \/ prep[q] \notin {"no", "undo"} /\ prep'[q] = "no"
  PROVE  Decided(q)'
  BY DEF Decided, Undecided, Free, Prepares, Placed, Unstarted

\* What happens to an occurrence that is being reported from now on.
LEMMA Reports ==
  ASSUME NEW q \in Consumers, Free(q), NEW x, SavesOf(q)' = SavesOf(q) \cup {x}, x.at = "record",
         outcome[q] # "none" => "event" \in Faults /\ x.out = "failed",
         outcome'[q] = outcome[q], q \notin blocking', ~Waiting(q)', prep'[q] = "no", active'[q] = None
  PROVE  Decided(q)'
  BY DEF Decided, Undecided, Free

\* What happens to one whose outcome is recorded, while its save goes on ...
LEMMA Proceeding ==
  ASSUME NEW q \in Consumers, NEW x, SavesOf(q)' = {x}, x.at # "record", outcome'[q] = x.out,
         q \notin blocking', ~Waiting(q)', prep'[q] = "no", active'[q] = None
  PROVE  Decided(q)'
  BY DEF Decided, Undecided, Free

\* ... and when that is over.
LEMMA Concludes ==
  ASSUME NEW q \in Consumers, SavesOf(q)' = {}, q \notin blocking', ~Waiting(q)', prep'[q] = "no",
         active'[q] # None => Over'
  PROVE  Decided(q)'
  BY DEF Decided, Undecided, Free

LEMMA SaveAdded ==
  ASSUME NEW o, NEW out, NEW by, saves' = saves \cup {Save(o, out, by)}
  PROVE  /\ SavesOf(o)' = SavesOf(o) \cup {Save(o, out, by)} /\ Save(o, out, by).at = "record"
         /\ \A q : q # o => SavesOf(q)' = SavesOf(q)
  BY DEF SavesOf, Save

LEMMA SaveRemoved ==
  ASSUME NEW s \in saves, Decided(s.who), saves' = saves \ {s}
  PROVE  SavesOf(s.who)' = {}
  BY DEF SavesOf, Decided

LEMMA SaveMoved ==
  ASSUME NEW s \in saves, Decided(s.who), NEW at, saves' = (saves \ {s}) \cup {Moved(s, at)}
  PROVE  SavesOf(s.who)' = {Moved(s, at)}
  BY DEF SavesOf, Decided, Moved

LEMMA SavesSame == ASSUME saves' = saves, NEW q PROVE SavesOf(q)' = SavesOf(q)
  BY DEF SavesOf

\* When all is over it stays over.
LEMMA OverStays == ASSUME ControlInv, Over, [Next]_vars PROVE Over'
  <1> DEFINE Goal == Over'
  <1> SUFFICES Goal
    OBVIOUS
  <1>1. /\ driver = "off" /\ closed /\ saves = {}
        /\ \A q \in Consumers : prep[q] = "no" /\ wd[q].at = "no" /\ entry[q].task # "running"
    BY DEF Over, Running
  <1>2. CASE UNCHANGED <<driver, closed, prep, wd, entry, saves>>
    BY <1>2 DEF Over, Running
  <1> HIDE DEF Goal
  <1>3. ASSUME NEW r \in Runs, Submit(r) PROVE Goal
    BY <1>1, <1>3 DEF Submit
  <1>4. ASSUME NEW r \in Runs, NEW force \in BOOLEAN, Stop(r, force) PROVE Goal
    BY <1>2, <1>4 DEF Stop, prepVars, saveVars, execVars
  <1>5. CASE Close \/ DriveFails
    BY <1>1, <1>5 DEF Close, DriveFails
  <1>6. ASSUME NEW s \in saves PROVE FALSE
    BY <1>1
  <1>8. ASSUME NEW o \in Consumers, BlockItem(o) PROVE Goal
    BY <1>2, <1>8 DEF BlockItem, runVars, prepVars, wdVars, execVars
  <1>9. ASSUME NEW o \in Consumers,
               \/ Join(o) \/ Acquire(o) \/ AwaitSettled(o) \/ StopWaiting(o) \/ BindDone(o)
               \/ CancelUnowned(o) \/ BindFails(o) \/ Undo(o) \/ PrepareFails(o)
        PROVE  Goal
    BY <1>1, <1>9 DEF Join, Acquire, AwaitSettled, MayAttach, StopWaiting, BindDone, CancelUnowned,
       BindFails, Undo, PrepareFails
  <1>10. ASSUME NEW o \in Consumers,
                WithdrawStart(o) \/ WithdrawGate(o) \/ WithdrawResume(o) \/ WithdrawInterrupt(o)
         PROVE  Goal
    BY <1>1, <1>10, Withdrawals
  <1>11. ASSUME NEW o \in Consumers, Enter(o) \/ Refuse(o) \/ Finish(o) \/ TaskFails(o) \/ Settle(o) PROVE Goal
    BY <1>1, <1>11 DEF Enter, Refuse, Finish, TaskFails, AtWorker, Settle
  <1>12. CASE Drive \/ Drain
    BY <1>1, <1>12 DEF Drive, Drain
  <1>13. CASE Environment
    BY <1>3, <1>4, <1>5, <1>6, <1>9, <1>11, <1>13 DEF Environment, Carried
  <1>14. CASE LoopStep
    BY <1>6, <1>8, <1>9, <1>10, <1>11, <1>12, <1>14 DEF LoopStep, Carried
  <1>15. CASE UNCHANGED vars
    BY <1>2, <1>15 DEF vars, runVars, prepVars, wdVars, saveVars, execVars
  <1> QED
    BY <1>13, <1>14, <1>15 DEF Next

LEMMA OnceNow ==
  ASSUME ControlInv, OnceInv, NEW q \in Consumers
  PROVE  Decided(q) /\ Placed(q) /\ active[q] \in Consumers \cup {None}
  BY PlacedNow DEF OnceInv

\* What happens to an occurrence that the driver leaves to be blocked.
LEMMA Blocks ==
  ASSUME ControlInv, OnceInv, NEW q \in Consumers, q \in remaining, q \notin remaining',
         runs'[q[1]].state # "new", UNCHANGED <<outcome, prep, active>>, SavesOf(q)' = SavesOf(q)
  PROVE  Decided(q)'
  BY OnceNow DEF Decided, Undecided, Free, Placed, Unstarted, Waiting

\* Steps that report nothing and only move along.
LEMMA QuietOnce ==
  ASSUME ControlInv, OnceInv, Over => Over', UNCHANGED <<saves, outcome, blocking, active, prep>>,
         \A q \in Consumers : Waiting(q)' => Waiting(q)
  PROVE  \A q \in Consumers : Decided(q)'
  BY OnceNow, Kept, SavesSame DEF Prepares

LEMMA StateSame ==
  ASSUME ControlInv, UNCHANGED remaining, NEW rs, runs' = runs \/ runs' = StopOf(rs), NEW q \in Consumers
  PROVE  Waiting(q)' <=> Waiting(q)
  BY StateOnly DEF Waiting

LEMMA CallersOnce ==
  ASSUME ControlInv, OnceInv, Over => Over',
         \/ \E r \in Runs : Submit(r) \/ \E force \in BOOLEAN : Stop(r, force)
         \/ Close \/ DriveFails
  PROVE  \A q \in Consumers : Decided(q)'
  <1>1. runs \in [Runs -> RunType]
    BY DEF ControlInv, Types
  <1>2. ASSUME NEW r \in Runs, Submit(r) PROVE \A q \in Consumers : Decided(q)'
    <2>1. UNCHANGED <<saves, outcome, blocking, active, prep>>
      BY <1>2 DEF Submit, saveVars, prepVars
    <2>2. \A q \in Consumers : Waiting(q)' => Waiting(q)
      BY <1>1, <1>2, ConsumersAre DEF Submit, Waiting, Of, RunType
    <2> QED
      BY <2>1, <2>2, QuietOnce
  <1>3. ASSUME NEW r \in Runs, NEW force \in BOOLEAN, Stop(r, force) PROVE \A q \in Consumers : Decided(q)'
    <2>1. UNCHANGED <<saves, outcome, blocking, remaining, active, prep>>
      BY <1>3 DEF Stop, planVars, saveVars, prepVars
    <2>2. \A q \in Consumers : runs'[q[1]].state = runs[q[1]].state
      <3> DEFINE f == runs[r].force \/ force
      <3>1. f \in BOOLEAN /\ runs' = [runs EXCEPT ![r].stopped = TRUE, ![r].force = f]
        BY <1>1, <1>3 DEF Stop, RunType
      <3> HIDE DEF f
      <3> QED
        BY <1>1, <3>1, ConsumersAre DEF RunType
    <2> QED
      BY <2>1, <2>2, QuietOnce DEF Waiting
  <1>4. CASE Close
    <2>1. /\ UNCHANGED <<saves, outcome, blocking, remaining, active, prep>>
          /\ \E rs : runs' = StopOf(rs)
      BY <1>4 DEF Close, planVars, saveVars, prepVars
    <2> QED
      BY <2>1, StateSame, QuietOnce
  <1>5. CASE DriveFails
    <2>1. /\ UNCHANGED <<saves, outcome, active, prep>> /\ remaining' = {}
          /\ blocking' = blocking \cup remaining
          /\ \E rs : runs' = StopOf(rs)
      BY <1>5 DEF DriveFails, saveVars, prepVars
    <2>2. \A q \in Consumers : runs'[q[1]].state = runs[q[1]].state
      BY <2>1, StateOnly
    <2>3. ASSUME NEW q \in Consumers PROVE Decided(q)'
      <3>1. CASE q \in remaining
        <4>1. runs[q[1]].state # "new"
          BY <3>1, OnceNow DEF Placed
        <4> QED
          BY <2>1, <2>2, <3>1, <4>1, SavesSame, Blocks
      <3>2. CASE q \notin remaining
        BY <2>1, <2>2, <3>2, OnceNow, Kept, SavesSame DEF Waiting, Prepares
      <3> QED
        BY <3>1, <3>2
    <2> QED
      BY <2>3
  <1> QED
    BY <1>2, <1>3, <1>4, <1>5

LEMMA ReportsOnce ==
  ASSUME ControlInv, OnceInv, Over => Over',
         \/ \E s \in saves : Carried(s)
         \/ \E o \in Consumers : BlockItem(o)
  PROVE  \A q \in Consumers : Decided(q)'
  <1>1. \A q \in Consumers : Waiting(q)' <=> Waiting(q)
    BY Reporting, StateSame
  <1>2. UNCHANGED <<active, prep>>
    BY Reporting DEF Carried, SaveRecords, SaveDelivers, SaveUndelivered, SaveAnnounced, BlockItem, prepVars
  <1>3. outcome \in [Consumers -> {"none"} \cup Ends]
    BY DEF ControlInv, Types
  <1>4. ASSUME NEW s \in saves, Carried(s) PROVE \A q \in Consumers : Decided(q)'
    <2>1. s.who \in Consumers /\ s \in SavesOf(s.who)
      BY SavesAre DEF SavesOf, SaveType, ControlInv
    <2>2. Decided(s.who)
      BY <2>1, OnceNow
    <2>3. UNCHANGED blocking
      BY <1>4 DEF Carried, SaveRecords, SaveDelivers, SaveUndelivered, SaveAnnounced, Saving, planVars
    <2>4. /\ s.who \notin blocking' /\ ~Waiting(s.who)' /\ prep'[s.who] = "no"
          /\ active'[s.who] # None => Over
      BY <1>1, <1>2, <2>1, <2>2, <2>3 DEF Decided, Undecided, Free
    <2>5. active'[s.who] = None
      BY <2>4 DEF Over
    <2>6. /\ \/ saves' = saves \ {s}
             \/ \E at \in {"deliver", "announce"} : saves' = (saves \ {s}) \cup {Moved(s, at)}
          /\ \/ outcome' = [outcome EXCEPT ![s.who] = s.out]
             \/ s.at # "record" /\ outcome' = outcome
      BY <1>4, SaveGoesOn DEF ControlInv
    <2>7. s.at # "record" => outcome[s.who] = s.out
      BY <2>1, <2>2 DEF Decided
    <2>8. outcome'[s.who] = s.out
      BY <1>3, <2>1, <2>6, <2>7
    <2>9. ASSUME NEW q, q # s.who PROVE SavesOf(q)' = SavesOf(q)
      <3>1. CASE saves' = saves \ {s}
        BY <2>9, <3>1 DEF SavesOf
      <3>2. ASSUME NEW at, saves' = (saves \ {s}) \cup {Moved(s, at)} PROVE SavesOf(q)' = SavesOf(q)
        BY <2>9, <3>2 DEF SavesOf, Moved
      <3> QED
        BY <2>6, <3>1, <3>2
    <2>10. ASSUME saves' = saves \ {s} PROVE Decided(s.who)'
      <3>1. SavesOf(s.who)' = {}
        BY <2>2, <2>10, SaveRemoved
      <3> QED
        BY <2>1, <2>4, <2>5, <3>1, Concludes
    <2>11. ASSUME NEW at \in {"deliver", "announce"}, saves' = (saves \ {s}) \cup {Moved(s, at)}
          PROVE  Decided(s.who)'
      <3>1. SavesOf(s.who)' = {Moved(s, at)} /\ Moved(s, at).at # "record" /\ Moved(s, at).out = s.out
        BY <2>2, <2>11, SaveMoved DEF Moved
      <3> QED
        BY <2>1, <2>4, <2>5, <2>8, <3>1, Proceeding
    <2>12. Decided(s.who)'
      BY <2>6, <2>10, <2>11
    <2>13. ASSUME NEW q \in Consumers, q # s.who PROVE Decided(q)'
      <3>1. outcome'[q] = outcome[q]
        BY <1>3, <2>6, <2>13
      <3> QED
        BY <1>1, <1>2, <2>3, <2>9, <2>13, <3>1, OnceNow, Kept DEF Prepares
    <2> QED
      BY <2>12, <2>13
  <1>5. ASSUME NEW o \in Consumers, BlockItem(o) PROVE \A q \in Consumers : Decided(q)'
    <2>1. /\ o \in blocking /\ blocking' = blocking \ {o} /\ UNCHANGED saves
          /\ outcome' = [outcome EXCEPT ![o] = "blocked"]
      BY <1>5 DEF BlockItem
    <2>2. Decided(o)
      BY OnceNow
    <2>3. /\ SavesOf(o)' = {} /\ o \notin blocking' /\ ~Waiting(o)' /\ prep'[o] = "no"
          /\ active'[o] # None => Over'
      BY <1>1, <1>2, <2>1, <2>2, SavesSame DEF Decided, Undecided, Free
    <2>4. Decided(o)'
      BY <2>3, Concludes
    <2>5. ASSUME NEW q \in Consumers, q # o PROVE Decided(q)'
      BY <1>1, <1>2, <1>3, <2>1, <2>5, SavesSame, OnceNow, Kept DEF Prepares
    <2> QED
      BY <2>4, <2>5
  <1> QED
    BY <1>4, <1>5

\* A listener raises: what is recorded stays, and a preparation is reported
\* again, at once or when its entry is given up.
LEMMA UnheardOnce ==
  ASSUME ControlInv, OnceInv, Over => Over', NEW s \in saves, SaveUnheard(s)
  PROVE  \A q \in Consumers : Decided(q)'
  <1> DEFINE o == s.who
  <1>1. o \in Consumers /\ s \in SavesOf(o)
    BY SavesAre DEF SavesOf, SaveType, ControlInv
  <1>2. /\ prep[o] = "no" /\ ~Waiting(o) /\ active[o] = None /\ o \notin blocking
        /\ SavesOf(o) = {s}
    BY <1>1, OnceNow DEF Decided, Undecided, Free, Over
  <1>3. \A q \in Consumers : Waiting(q)' <=> Waiting(q)
    BY Reporting, StateSame
  <1>4. "event" \in Faults /\ UNCHANGED <<active, blocking, outcome>>
    BY Reporting DEF SaveUnheard, Saving, Fault, planVars
  <1>5. \/ prep' = prep /\ saves' = (saves \ {s}) \cup {Save(o, "failed", "failure")}
        \/ prep' = prep /\ saves' = (saves \ {s}) \cup {Save(o, "failed", "loop")}
        \/ prep' = prep /\ saves' = saves \ {s}
        \/ prep' = [prep EXCEPT ![o] = "undo"] /\ saves' = saves \ {s}
    BY DEF SaveUnheard
  <1>6. /\ \A x \in SavesOf(o)' : x.out = "failed" /\ x.at = "record"
        /\ \A x, y \in SavesOf(o)' : x = y
        /\ prep'[o] # "no" => SavesOf(o)' = {} /\ prep'[o] = "undo"
    <2>1. saves' = saves \ {s} => SavesOf(o)' = {}
      BY <1>2 DEF SavesOf
    <2>2. ASSUME NEW by, saves' = (saves \ {s}) \cup {Save(o, "failed", by)}
          PROVE  SavesOf(o)' = {Save(o, "failed", by)}
      BY <1>2, <2>2 DEF SavesOf, Save
    <2>3. CASE prep' = prep
      <3>1. \/ SavesOf(o)' = {} \/ SavesOf(o)' = {Save(o, "failed", "failure")}
            \/ SavesOf(o)' = {Save(o, "failed", "loop")}
        BY <1>5, <2>1, <2>2
      <3> QED
        BY <1>2, <2>3, <3>1 DEF Save
    <2>4. CASE prep' = [prep EXCEPT ![o] = "undo"] /\ saves' = saves \ {s}
      BY <1>1, <2>1, <2>4 DEF ControlInv, Types
    <2> QED
      BY <1>5, <2>3, <2>4
  <1>7. Decided(o)'
    BY <1>1, <1>2, <1>3, <1>4, <1>6 DEF Decided, Undecided, Free
  <1>8. ASSUME NEW q \in Consumers, q # o PROVE Decided(q)'
    <2>1. SavesOf(q)' = SavesOf(q)
      BY <1>5, <1>8 DEF SavesOf, Save
    <2>2. prep'[q] = prep[q] /\ outcome'[q] = outcome[q]
      BY <1>1, <1>4, <1>5, <1>8 DEF ControlInv, Types
    <2> QED
      BY <1>3, <1>4, <2>1, <2>2, OnceNow, Kept DEF Prepares
  <1> QED
    BY <1>7, <1>8

LEMMA PreparationOnce ==
  ASSUME ControlInv, OnceInv, Over => Over', NEW o \in Consumers,
         \/ Join(o) \/ Acquire(o) \/ AwaitSettled(o) \/ StopWaiting(o) \/ BindDone(o)
         \/ CancelUnowned(o) \/ BindFails(o) \/ Undo(o) \/ PrepareFails(o)
  PROVE  \A q \in Consumers : Decided(q)'
  <1>1. /\ UNCHANGED <<runs, remaining, blocking, outcome>> /\ prep[o] # "no"
        /\ \A q \in Consumers : q # o => prep'[q] = prep[q] /\ active'[q] = active[q]
    <2>1. CASE Join(o) \/ Acquire(o) \/ AwaitSettled(o)
      BY <2>1 DEF Join, Acquire, AwaitSettled, Attached, MayAttach, runVars, planVars, saveVars, ControlInv, Types
    <2>2. CASE StopWaiting(o) \/ BindFails(o) \/ PrepareFails(o)
      BY <2>2 DEF StopWaiting, BindFails, PrepareFails, runVars, planVars, ControlInv, Types
    <2>3. CASE CancelUnowned(o) \/ Undo(o)
      BY <2>3 DEF CancelUnowned, Undo, Discard, runVars, planVars, ControlInv, Types
    <2>4. CASE BindDone(o)
      BY <2>4 DEF BindDone, runVars, planVars, ControlInv, Types
    <2> QED
      BY <2>1, <2>2, <2>3, <2>4
  <1>2. \/ /\ UNCHANGED saves /\ prep[o] # "undo"
           /\ UNCHANGED active \/ prep'[o] = "no"
        \/ /\ \E out, by : /\ saves' = saves \cup {Save(o, out, by)}
                           /\ prep[o] = "undo" => out = "failed"
           /\ UNCHANGED active /\ prep'[o] = "no"
    <2>1. CASE Join(o) \/ Acquire(o) \/ AwaitSettled(o)
      BY <2>1 DEF Join, Acquire, AwaitSettled, Attached, MayAttach, saveVars, ControlInv, Types
    <2>2. CASE StopWaiting(o)
      BY <2>2 DEF StopWaiting, ControlInv, Types
    <2>3. CASE BindFails(o) \/ PrepareFails(o)
      BY <2>3 DEF BindFails, PrepareFails, ControlInv, Types
    <2>4. CASE CancelUnowned(o) \/ Undo(o)
      BY <2>4 DEF CancelUnowned, Undo, Discard, ControlInv, Types
    <2>5. CASE BindDone(o)
      BY <2>5 DEF BindDone, ControlInv, Types
    <2> QED
      BY <2>1, <2>2, <2>3, <2>4, <2>5
  <1>3. /\ Free(o) /\ ~Waiting(o) /\ active[o] = None
        /\ outcome[o] # "none" => prep[o] = "undo" /\ "event" \in Faults
    BY <1>1, OnceNow DEF Decided, Undecided, Placed
  <1>4. \A q \in Consumers : Waiting(q)' <=> Waiting(q)
    BY <1>1 DEF Waiting
  <1>5. \A q \in Consumers : q # o => SavesOf(q)' = SavesOf(q)
    <2>1. CASE UNCHANGED saves
      BY <2>1, SavesSame
    <2>2. ASSUME NEW out, NEW by, saves' = saves \cup {Save(o, out, by)}
          PROVE  \A q \in Consumers : q # o => SavesOf(q)' = SavesOf(q)
      BY <2>2, SaveAdded
    <2> QED
      BY <1>2, <2>1, <2>2
  <1>6. ASSUME NEW q \in Consumers, q # o PROVE Decided(q)'
    BY <1>1, <1>4, <1>5, <1>6, OnceNow, Kept DEF Prepares
  <1>7. Decided(o)'
    <2>1. CASE UNCHANGED saves /\ prep[o] # "undo" /\ (UNCHANGED active \/ prep'[o] = "no")
      BY <1>1, <1>4, <2>1, SavesSame, OnceNow, Kept DEF Prepares
    <2>2. ASSUME NEW out, NEW by, saves' = saves \cup {Save(o, out, by)}, prep[o] = "undo" => out = "failed",
                 UNCHANGED active, prep'[o] = "no"
          PROVE  Decided(o)'
      <3>1. SavesOf(o)' = SavesOf(o) \cup {Save(o, out, by)} /\ Save(o, out, by).out = out
        BY <2>2, SaveAdded DEF Save
      <3> QED
        BY <1>1, <1>3, <1>4, <2>2, <3>1, SaveAdded, Reports DEF Free
    <2> QED
      BY <1>2, <2>1, <2>2
  <1> QED
    BY <1>6, <1>7

LEMMA ResumeReports ==
  ASSUME ControlInv, NEW o \in Consumers, WithdrawResume(o)
  PROVE  /\ UNCHANGED <<blocking, outcome>>
         /\ \/ UNCHANGED <<saves, active>>
            \/ /\ \E by : \E out \in {"cancelled", "blocked"} : saves' = saves \cup {Save(o, out, by)}
               /\ active' = [active EXCEPT ![o] = None] /\ StillHeld(o)
  <1>1. UNCHANGED <<blocking, outcome>>
    BY DEF WithdrawResume, planVars
  <1>2. StillHeld(o) => SoleOwner(wd[o].entry)
    BY Resumes, UnderWithdrawal
  <1>3. CASE ~StillHeld(o)
    <2>1. UNCHANGED saves
      BY <1>3 DEF WithdrawResume
    <2>2. UNCHANGED active
      BY <1>3 DEF WithdrawResume
    <2> QED
      BY <1>1, <2>1, <2>2
  <1>4. CASE StillHeld(o) /\ SoleOwner(wd[o].entry) /\ ~wd[o].cancelled
    <2>1. UNCHANGED saves
      BY <1>4 DEF WithdrawResume
    <2>2. UNCHANGED active
      BY <1>4 DEF WithdrawResume
    <2> QED
      BY <1>1, <2>1, <2>2
  <1>5. CASE StillHeld(o) /\ SoleOwner(wd[o].entry) /\ wd[o].cancelled
    <2>1. saves' = saves \cup {Save(o, "blocked", "withdraw")} /\ active' = [active EXCEPT ![o] = None]
      BY <1>5 DEF WithdrawResume, Withdrawn
    <2> QED
      BY <1>1, <1>5, <2>1
  <1> QED
    BY <1>2, <1>3, <1>4, <1>5

\* A withdrawal reports only an occurrence it still holds, of a Run that stopped.
LEMMA WithdrawalReports ==
  ASSUME ControlInv, NEW o \in Consumers,
         WithdrawStart(o) \/ WithdrawGate(o) \/ WithdrawResume(o) \/ WithdrawInterrupt(o)
  PROVE  /\ UNCHANGED <<runs, remaining, prep, blocking, outcome, delivered, linked, result>>
         /\ wd[o].at # "no" /\ Stopped(o)
         /\ \/ UNCHANGED <<saves, active>>
            \/ /\ \E by : \E out \in {"cancelled", "blocked"} : saves' = saves \cup {Save(o, out, by)}
               /\ active' = [active EXCEPT ![o] = None] /\ StillHeld(o) /\ active[o] # None
  <1>1. /\ UNCHANGED <<runs, remaining, prep, result>> /\ wd[o].at # "no" /\ Stopped(o)
        /\ StillHeld(o) => active[o] # None
    BY Withdrawals, UnderWithdrawal DEF Stopped
  <1>2. UNCHANGED <<closed, blocking, outcome, delivered, linked>>
    <2>1. CASE WithdrawStart(o) \/ WithdrawGate(o)
      BY <2>1 DEF WithdrawStart, WithdrawGate, runVars, planVars, prepVars, saveVars
    <2>2. CASE WithdrawResume(o)
      BY <2>2 DEF WithdrawResume, runVars, planVars, prepVars
    <2>3. CASE WithdrawInterrupt(o)
      BY <2>3 DEF WithdrawInterrupt, runVars, planVars, prepVars, saveVars
    <2> QED
      BY <2>1, <2>2, <2>3
  <1>3. \/ UNCHANGED <<saves, active>>
        \/ /\ \E by : \E out \in {"cancelled", "blocked"} : saves' = saves \cup {Save(o, out, by)}
           /\ active' = [active EXCEPT ![o] = None] /\ StillHeld(o)
    <2>1. CASE WithdrawStart(o)
      BY <2>1 DEF WithdrawStart, LeaveShared, Withdrawn
    <2>2. CASE WithdrawGate(o) \/ WithdrawInterrupt(o)
      BY <2>2 DEF WithdrawGate, WithdrawInterrupt, saveVars
    <2>3. CASE WithdrawResume(o)
      BY <2>3, ResumeReports
    <2> QED
      BY <2>1, <2>2, <2>3
  <1> QED
    BY <1>1, <1>2, <1>3

LEMMA WithdrawalOnce ==
  ASSUME ControlInv, OnceInv, Over => Over', NEW o \in Consumers,
         WithdrawStart(o) \/ WithdrawGate(o) \/ WithdrawResume(o) \/ WithdrawInterrupt(o)
  PROVE  \A q \in Consumers : Decided(q)'
  <1>1. UNCHANGED <<runs, remaining, prep, blocking, outcome>> /\ wd[o].at # "no"
    BY WithdrawalReports
  <1>2. \/ UNCHANGED <<saves, active>>
        \/ /\ \E out, by : saves' = saves \cup {Save(o, out, by)}
           /\ active' = [active EXCEPT ![o] = None] /\ active[o] # None
    BY WithdrawalReports
  <1>3. \A q \in Consumers : Waiting(q)' <=> Waiting(q)
    BY <1>1 DEF Waiting
  <1>4. CASE UNCHANGED <<saves, active>>
    BY <1>1, <1>3, <1>4, QuietOnce
  <1>5. ASSUME NEW out, NEW by, saves' = saves \cup {Save(o, out, by)},
               active' = [active EXCEPT ![o] = None], active[o] # None
        PROVE  \A q \in Consumers : Decided(q)'
    <2>1. active[o] # None
      BY <1>5
    <2>2. ~Over
      BY <1>1 DEF Over
    <2>3. Undecided(o) /\ ~Waiting(o) /\ prep[o] = "no"
      BY <2>1, <2>2, OnceNow DEF Decided, Placed, Unstarted
    <2>4. active'[o] = None /\ \A q \in Consumers : q # o => active'[q] = active[q]
      BY <1>5 DEF ControlInv, Types
    <2>5. Decided(o)'
      BY <1>1, <1>3, <1>5, <2>3, <2>4, SaveAdded, Reports DEF Undecided, Free
    <2>6. ASSUME NEW q \in Consumers, q # o PROVE Decided(q)'
      BY <1>1, <1>3, <1>5, <2>4, <2>6, SaveAdded, OnceNow, Kept DEF Prepares
    <2> QED
      BY <2>5, <2>6
  <1> QED
    BY <1>2, <1>4, <1>5

LEMMA WorkerOnce ==
  ASSUME ControlInv, OnceInv, Over => Over', NEW e \in Consumers,
         Enter(e) \/ Refuse(e) \/ Finish(e) \/ TaskFails(e)
  PROVE  \A q \in Consumers : Decided(q)'
  <1>1. UNCHANGED <<runs, remaining, prep, saves, outcome, blocking, active>>
    BY DEF Enter, Refuse, Finish, TaskFails, Answered, runVars, planVars, prepVars, saveVars
  <1> QED
    BY <1>1, QuietOnce DEF Waiting

LEMMA SettleOnce ==
  ASSUME ControlInv, OnceInv, Over => Over', NEW e \in Consumers, Settle(e)
  PROVE  \A q \in Consumers : Decided(q)'
  <1> DEFINE step == IF result[e] = "lost" THEN "failed" ELSE result[e]
             ours == entry[e].consumers
  <1>1. /\ UNCHANGED <<remaining, prep, outcome, blocking>> /\ entry[e].task = "running"
        /\ \E rs : runs' = runs \/ runs' = StopOf(rs)
        /\ active' = [o \in Consumers |-> IF o \in ours THEN None ELSE active[o]]
        /\ saves' = saves \cup {Save(o, step, "loop") : o \in ours}
    BY DEF Settle, planVars, prepVars
  <1>2. \A q \in Consumers : Waiting(q)' <=> Waiting(q)
    BY <1>1, StateSame
  <1>3. ~Over
    BY <1>1 DEF Over, Running
  <1> HIDE DEF step
  <1>4. ASSUME NEW q \in Consumers, q \in ours PROVE Decided(q)'
    <2>1. active[q] = e /\ active[q] # None
      BY <1>4, OwnedNow, NoneAssumption DEF Owned
    <2>2. Undecided(q) /\ ~Waiting(q) /\ prep[q] = "no"
      BY <1>3, <2>1, OnceNow DEF Decided, Placed, Unstarted
    <2>3. SavesOf(q)' = SavesOf(q) \cup {Save(q, step, "loop")} /\ Save(q, step, "loop").at = "record"
      BY <1>1, <1>4 DEF SavesOf, Save
    <2>4. active'[q] = None
      BY <1>1, <1>4
    <2> QED
      BY <1>1, <1>2, <2>2, <2>3, <2>4, Reports DEF Undecided, Free
  <1>5. ASSUME NEW q \in Consumers, q \notin ours PROVE Decided(q)'
    <2>1. SavesOf(q)' = SavesOf(q)
      BY <1>1, <1>5 DEF SavesOf, Save
    <2>2. active'[q] = active[q]
      BY <1>1, <1>5
    <2> QED
      BY <1>1, <1>2, <2>1, <2>2, OnceNow, Kept DEF Prepares
  <1> QED
    BY <1>4, <1>5

LEMMA DriveOnce ==
  ASSUME ControlInv, OnceInv, Over => Over', Drive
  PROVE  \A q \in Consumers : Decided(q)'
  <1>1. PICK P \in Nominations :
          /\ remaining' = remaining \ (ToBlock \cup P)
          /\ prep' = [o \in Consumers |-> IF o \in P /\ Satisfied(o) THEN "start" ELSE prep[o]]
          /\ saves' = saves \cup {Save(o, "blocked", "loop") : o \in {q \in P : ~Satisfied(q)}}
    BY DEF Drive
  <1>2. /\ UNCHANGED <<outcome, active>> /\ blocking' = blocking \cup ToBlock
        /\ runs' = [r \in Runs |-> IF Finished(r) THEN [runs[r] EXCEPT !.state = "done"] ELSE runs[r]]
    BY DEF Drive
  <1>3. P \subseteq Ready
    BY DEF Nominations
  <1>4. \A q \in Consumers : runs'[q[1]].state = "new" => runs[q[1]].state = "new"
    BY <1>2, ConsumersAre DEF ControlInv, Types, RunType
  <1>5. \A q \in Consumers : Waiting(q)' => Waiting(q)
    BY <1>1, <1>4 DEF Waiting
  <1>6. \A q \in remaining : /\ q \in Consumers /\ runs[q[1]].state # "new" /\ Undecided(q)
                             /\ prep[q] = "no" /\ active[q] = None
    BY OnceNow DEF Decided, Placed, Unstarted, Waiting, ControlInv, Types
  <1>7. ASSUME NEW q \in Consumers PROVE Decided(q)'
    <2>1. q \in P => q \in remaining /\ q \notin ToBlock
      BY <1>3 DEF Ready, ToBlock
    <2>2. CASE q \in P /\ ~Satisfied(q)
      <3>1. /\ SavesOf(q)' = SavesOf(q) \cup {Save(q, "blocked", "loop")}
            /\ Save(q, "blocked", "loop").at = "record"
        BY <1>1, <2>2 DEF SavesOf, Save
      <3>2. prep'[q] = "no" /\ q \notin remaining' /\ q \notin blocking' /\ active'[q] = None
        BY <1>1, <1>2, <1>6, <2>1, <2>2 DEF Undecided, Free
      <3>3. Undecided(q) /\ ~Waiting(q)'
        BY <1>4, <1>6, <2>1, <2>2, <3>2 DEF Waiting
      <3> QED
        BY <1>2, <3>1, <3>2, <3>3, Reports DEF Undecided
    <2>3. CASE ~(q \in P /\ ~Satisfied(q))
      <3>1. SavesOf(q)' = SavesOf(q)
        BY <1>1, <2>3 DEF SavesOf, Save
      <3>2. CASE q \in ToBlock
        <4>1. q \in remaining /\ q \notin P /\ q \notin remaining'
          BY <1>1, <2>1, <3>2 DEF ToBlock
        <4>2. prep'[q] = prep[q] /\ runs'[q[1]].state # "new"
          BY <1>1, <1>4, <1>6, <4>1
        <4> QED
          BY <1>2, <1>6, <3>1, <3>2, <4>1, <4>2, OnceNow DEF Decided, Undecided, Free, Waiting
      <3>3. CASE q \notin ToBlock
        <4>1. Prepares(q)
          BY <1>1, <2>1 DEF Waiting, Prepares
        <4> QED
          BY <1>2, <1>5, <3>1, <3>3, <4>1, OnceNow, Kept
      <3> QED
        BY <3>2, <3>3
    <2> QED
      BY <2>2, <2>3
  <1> QED
    BY <1>7

\* The end of a drained driver blocks what nobody has reported, and nothing moves any more.
LEMMA DrainEnds ==
  ASSUME ControlInv, OnceInv, Drain, ~UNCHANGED <<runs, outcome>>
  PROVE  /\ Running = {}
         /\ outcome' = [o \in Consumers |->
               IF runs[o[1]].state = "open" /\ outcome[o] = "none" THEN "blocked" ELSE outcome[o]]
         /\ runs' = [r \in Runs |-> IF runs[r].state = "open"
                                      THEN [runs[r] EXCEPT !.state = "done"] ELSE runs[r]]
         /\ \A q \in Consumers : prep[q] = "no" /\ q \notin blocking /\ SavesOf(q) = {}
         /\ Over'
  <1>1. /\ UNCHANGED <<closed, prep, wd, saves, entry>> /\ driver' = "off"
        /\ Running = {} /\ \A r \in Runs : Pending(r) = 0
        /\ outcome' = [o \in Consumers |->
              IF runs[o[1]].state = "open" /\ outcome[o] = "none" THEN "blocked" ELSE outcome[o]]
        /\ runs' = [r \in Runs |-> IF runs[r].state = "open"
                                     THEN [runs[r] EXCEPT !.state = "done"] ELSE runs[r]]
    BY DEF Drain, prepVars
  <1>2. closed
    BY DEF Drain, OnceInv
  <1>3. \A q \in Consumers : prep[q] = "no" /\ wd[q].at = "no" /\ q \notin blocking /\ SavesOf(q) = {}
    BY <1>1, ConsumersAre, NothingPending DEF ControlInv, SavesOf
  <1>4. saves = {}
    BY <1>3, SavesAre DEF SavesOf, SaveType, ControlInv
  <1>5. Running' = {}
    BY <1>1 DEF Running
  <1>6. \A q \in Consumers : prep'[q] = "no" /\ wd'[q].at = "no"
    BY <1>1, <1>3
  <1>7. Over'
    BY <1>1, <1>2, <1>4, <1>5, <1>6 DEF Over
  <1> QED
    BY <1>1, <1>3, <1>7

LEMMA DrainOnce ==
  ASSUME ControlInv, OnceInv, Over => Over', Drain
  PROVE  \A q \in Consumers : Decided(q)'
  <1>1. UNCHANGED <<closed, remaining, blocking, prep, active, saves, entry>> /\ driver = "failed"
    BY DEF Drain, planVars, prepVars
  <1>2. remaining = {}
    BY <1>1 DEF OnceInv
  <1>3. CASE UNCHANGED <<runs, outcome>>
    BY <1>1, <1>3, QuietOnce DEF Waiting
  <1>4. CASE ~UNCHANGED <<runs, outcome>>
    <2>1. /\ outcome' = [o \in Consumers |->
                IF runs[o[1]].state = "open" /\ outcome[o] = "none" THEN "blocked" ELSE outcome[o]]
          /\ runs' = [r \in Runs |-> IF runs[r].state = "open"
                                       THEN [runs[r] EXCEPT !.state = "done"] ELSE runs[r]]
          /\ \A q \in Consumers : prep[q] = "no" /\ q \notin blocking /\ SavesOf(q) = {}
          /\ Over'
      BY <1>4, DrainEnds
    <2>2. ASSUME NEW q \in Consumers PROVE Decided(q)'
      <3>1. SavesOf(q)' = {} /\ q \notin blocking' /\ prep'[q] = "no"
        BY <1>1, <2>1, SavesSame
      <3>2. runs'[q[1]].state = "new" => runs[q[1]].state = "new"
        BY <2>1, ConsumersAre DEF ControlInv, Types, RunType
      <3>3. Waiting(q)' => Waiting(q) /\ outcome'[q] = outcome[q]
        BY <1>1, <1>2, <2>1, <3>2 DEF Waiting
      <3> QED
        BY <2>1, <3>1, <3>3, OnceNow DEF Decided, Undecided, Free
    <2> QED
      BY <2>2
  <1> QED
    BY <1>3, <1>4

\* An outcome, once there, is never replaced: what a step records was missing,
\* or says of an occurrence whose report a listener refused that it failed.
LEMMA OutcomeStays ==
  ASSUME ControlInv, OnceInv, [Next]_vars, NEW q \in Consumers, outcome[q] # "none"
  PROVE  outcome'[q] = outcome[q] \/ ("event" \in Faults /\ outcome'[q] = "failed")
  <1> DEFINE Goal == outcome'[q] = outcome[q] \/ ("event" \in Faults /\ outcome'[q] = "failed")
  <1> SUFFICES Goal
    OBVIOUS
  <1>1. Decided(q) /\ outcome \in [Consumers -> {"none"} \cup Ends]
    BY OnceNow DEF ControlInv, Types
  <1>2. CASE UNCHANGED outcome
    BY <1>2
  <1>3. ASSUME NEW s \in saves, Carried(s) \/ SaveUnheard(s) PROVE Goal
    <2>1. s.who = q /\ s.at = "record" => "event" \in Faults /\ s.out = "failed"
      BY <1>1 DEF Decided, SavesOf
    <2>2. UNCHANGED outcome \/ (s.at = "record" /\ outcome' = [outcome EXCEPT ![s.who] = s.out])
      BY <1>3, SaveGoesOn DEF SaveUnheard, ControlInv
    <2> QED
      BY <1>1, <2>1, <2>2
  <1>4. ASSUME NEW o \in Consumers, BlockItem(o) PROVE Goal
    <2>1. o # q
      BY <1>1, <1>4 DEF Decided, BlockItem
    <2> QED
      BY <1>1, <1>4, <2>1 DEF BlockItem
  <1>5. CASE Drain
    BY <1>1, <1>5 DEF Drain
  <1>6. CASE Drive
    BY <1>6 DEF Drive
  <1> HIDE DEF Goal
  <1>7. ASSUME \/ \E r \in Runs : Submit(r) \/ \E force \in BOOLEAN : Stop(r, force)
               \/ Close \/ DriveFails
        PROVE  UNCHANGED outcome
    BY <1>7 DEF Submit, Stop, Close, DriveFails, saveVars
  <1>8. ASSUME NEW o \in Consumers,
               \/ Join(o) \/ Acquire(o) \/ AwaitSettled(o) \/ StopWaiting(o) \/ BindDone(o)
               \/ CancelUnowned(o) \/ BindFails(o) \/ Undo(o) \/ PrepareFails(o)
        PROVE  UNCHANGED outcome
    BY <1>8 DEF Join, Acquire, AwaitSettled, Attached, StopWaiting, BindDone, CancelUnowned,
       BindFails, Undo, PrepareFails, saveVars
  <1>9. ASSUME NEW o \in Consumers,
                WithdrawStart(o) \/ WithdrawGate(o) \/ WithdrawResume(o) \/ WithdrawInterrupt(o)
         PROVE  UNCHANGED outcome
    <2>1. CASE WithdrawStart(o) \/ WithdrawGate(o)
      BY <2>1 DEF WithdrawStart, WithdrawGate, saveVars
    <2>2. CASE WithdrawResume(o)
      BY <2>2 DEF WithdrawResume
    <2>3. CASE WithdrawInterrupt(o)
      BY <2>3 DEF WithdrawInterrupt, saveVars
    <2> QED
      BY <1>9, <2>1, <2>2, <2>3
  <1>10. ASSUME NEW o \in Consumers, Enter(o) \/ Refuse(o) \/ Finish(o) \/ TaskFails(o) \/ Settle(o)
         PROVE  UNCHANGED outcome
    BY <1>10 DEF Enter, Refuse, Finish, TaskFails, Answered, Settle, saveVars
  <1>11. CASE Environment
    BY <1>2, <1>3, <1>7, <1>8, <1>10, <1>11 DEF Environment, Carried
  <1>12. CASE LoopStep
    BY <1>2, <1>3, <1>4, <1>5, <1>6, <1>8, <1>9, <1>10, <1>12 DEF LoopStep, Carried
  <1> QED
    BY <1>2, <1>11, <1>12 DEF Next, vars, saveVars

\* The loop is never brought back, and a broken one admits nothing.
LEMMA DriverOnce ==
  ASSUME OnceInv, [Next]_vars
  PROVE  (driver' # "on" => closed') /\ (driver' = "failed" => remaining' = {} /\ Faults # {})
  <1> DEFINE Goal == (driver' # "on" => closed') /\ (driver' = "failed" => remaining' = {} /\ Faults # {})
  <1> SUFFICES Goal
    OBVIOUS
  <1>1. (driver # "on" => closed) /\ (driver = "failed" => remaining = {} /\ Faults # {})
    BY DEF OnceInv
  <1>2. CASE UNCHANGED <<driver, closed, remaining>>
    BY <1>1, <1>2
  <1>3. CASE \E r \in Runs : Submit(r)
    BY <1>1, <1>3 DEF Submit, execVars
  <1>4. CASE Close \/ DriveFails
    BY <1>1, <1>4 DEF Close, DriveFails, Fault, planVars, execVars
  <1>5. CASE Drive
    BY <1>1, <1>5 DEF Drive
  <1>6. CASE Drain
    BY <1>1, <1>6 DEF Drain, planVars
  <1> HIDE DEF Goal
  <1>7. ASSUME NEW r \in Runs, NEW force \in BOOLEAN, Stop(r, force) PROVE UNCHANGED <<driver, closed, remaining>>
    BY <1>7 DEF Stop, planVars, execVars
  <1>8. ASSUME NEW s \in saves, Carried(s) \/ SaveUnheard(s)
        PROVE  UNCHANGED <<driver, closed, remaining>>
    BY <1>8 DEF Carried, SaveRecords, SaveDelivers, SaveUndelivered, SaveAnnounced, SaveUnheard, Saving, Proceeds, planVars, execVars
  <1>9. ASSUME NEW o \in Consumers,
               \/ BlockItem(o) \/ Join(o) \/ Acquire(o) \/ AwaitSettled(o) \/ StopWaiting(o) \/ BindDone(o)
               \/ CancelUnowned(o) \/ BindFails(o) \/ Undo(o) \/ PrepareFails(o)
        PROVE  UNCHANGED <<driver, closed, remaining>>
    BY <1>9 DEF BlockItem, Join, Acquire, AwaitSettled, Attached, StopWaiting, BindDone, CancelUnowned,
       BindFails, Undo, PrepareFails, runVars, planVars, execVars
  <1>10. ASSUME NEW o \in Consumers,
                WithdrawStart(o) \/ WithdrawGate(o) \/ WithdrawResume(o) \/ WithdrawInterrupt(o)
         PROVE  UNCHANGED <<driver, closed, remaining>>
    <2>1. CASE WithdrawStart(o) \/ WithdrawGate(o)
      BY <2>1 DEF WithdrawStart, WithdrawGate, runVars, planVars, execVars
    <2>2. CASE WithdrawResume(o)
      BY <2>2 DEF WithdrawResume, runVars, planVars, execVars
    <2>3. CASE WithdrawInterrupt(o)
      BY <2>3 DEF WithdrawInterrupt, runVars, planVars, execVars
    <2> QED
      BY <1>10, <2>1, <2>2, <2>3
  <1>11. ASSUME NEW o \in Consumers, Enter(o) \/ Refuse(o) \/ Finish(o) \/ TaskFails(o) \/ Settle(o)
         PROVE  UNCHANGED <<driver, closed, remaining>>
    BY <1>11 DEF Enter, Refuse, Finish, TaskFails, Answered, Settle, runVars, planVars, execVars
  <1>12. CASE Environment
    BY <1>2, <1>3, <1>4, <1>7, <1>8, <1>9, <1>11, <1>12 DEF Environment, Carried
  <1>13. CASE LoopStep
    BY <1>2, <1>5, <1>6, <1>8, <1>9, <1>10, <1>11, <1>13 DEF LoopStep, Carried
  <1> QED
    BY <1>2, <1>12, <1>13 DEF Next, vars, runVars, planVars, execVars

LEMMA OnceKeeps == ASSUME ControlInv, OnceInv, [Next]_vars PROVE OnceInv'
  <1>1. Over => Over'
    BY OverStays
  <1> DEFINE Goal == \A q \in Consumers : Decided(q)'
  <1>2. Goal
    <2>1. CASE Environment
      BY <1>1, <2>1, CallersOnce, ReportsOnce, UnheardOnce, PreparationOnce, WorkerOnce DEF Environment, Carried
    <2>2. CASE LoopStep
      BY <1>1, <2>2, ReportsOnce, PreparationOnce, WithdrawalOnce, WorkerOnce, SettleOnce, DriveOnce,
         DrainOnce DEF LoopStep, Carried
    <2>3. CASE UNCHANGED vars
      BY <1>1, <2>3, QuietOnce DEF vars, runVars, planVars, prepVars, saveVars, Waiting
    <2> QED
      BY <2>1, <2>2, <2>3 DEF Next
  <1> QED
    BY <1>2, DriverOnce DEF OnceInv

LEMMA OnceStarts == Init => OnceInv
  <1> SUFFICES ASSUME Init PROVE OnceInv
    OBVIOUS
  <1>1. ASSUME NEW o \in Consumers PROVE Decided(o)
    BY DEF Init, Decided, Undecided, Free, SavesOf
  <1> QED
    BY <1>1 DEF Init, OnceInv

\* Somebody has each occurrence in hand, one task at a time, and its outcome is
\* recorded once; only when a listener of the events raises is it reported once
\* more, as failed: _prepare takes what it raised for a failure of its own.
THEOREM OnceInductive == Spec => []OnceInv
  <1>1. Init => OnceInv
    BY OnceStarts
  <1>2. OnceInv /\ ControlInv /\ [Next]_vars => OnceInv'
    BY OnceKeeps
  <1> QED
    BY <1>1, <1>2, ControlInductive, PTL DEF Spec

\* What a Run reports of an occurrence is decided once: a completion and a
\* withdrawal that race never both report.
THEOREM OutcomesAreFinal == ASSUME "event" \notin Faults PROVE Spec => OutcomeIsFinal
  <1>1. ControlInv /\ OnceInv /\ [Next]_vars =>
          \A o \in Consumers : outcome[o] # "none" => outcome'[o] = outcome[o]
    BY OutcomeStays
  <1> QED
    BY <1>1, ControlInductive, OnceInductive, PTL DEF Spec, OutcomeIsFinal

-----------------------------------------------------------------------------
(* What the callers are promised: the controller implements Study.         *)

\* The work of an occurrence succeeded, or that of all it depends on.
Produced(o) == linked[o] # None /\ result[linked[o]] = "succeeded"
Founded(o) == \A d \in Needs(o) : d \in Consumers /\ Produced(d)
\* What happened to an occurrence of which this may be reported.
Grounds(o, out) ==
    /\ out = "succeeded" => Produced(o)
    /\ out = "failed" => Faults # {} \/ (linked[o] # None /\ result[linked[o]] = "failed")
    /\ out = "cancelled" => Stopped(o)
    /\ out = "blocked" => \/ Stopped(o)
                          \/ \E d \in Needs(o) : d \in Consumers /\ outcome[d] \notin {"none", "succeeded"}

Busy(o) == o \in remaining \/ o \in blocking \/ prep[o] # "no" \/ SavesOf(o) # {}
Engaged(o) == active[o] # None /\ ~Over
Open(o) == runs[o[1]].state = "open"

\* Nobody works for a Run that is not open, and while it is open somebody has
\* each of its occurrences in hand.
Tended(o) ==
    /\ Busy(o) \/ Engaged(o) => Open(o)
    /\ runs[o[1]].state # "new" => Busy(o) \/ active[o] # None \/ outcome[o] # "none"
    /\ o \in delivered => outcome[o] # "none"
    /\ o \in blocking \/ prep[o] = "cancel" => Stopped(o)
    /\ prep[o] = "undo" => Faults # {}

\* What is reported of an occurrence is what happened, to work that was begun
\* after all it depends on and is left only by a Run that stopped.
Grounded(o) ==
    /\ prep[o] \notin {"no", "undo"} \/ linked[o] # None => Founded(o)
    /\ \A s \in SavesOf(o) : Grounds(o, s.out)
    /\ outcome[o] = "succeeded" => Produced(o)
    /\ linked[o] # None /\ result[linked[o]] = "none" /\ ~Stopped(o) => active[o] = linked[o]

\* What the loop takes for the end of an execution is what its Future brought.
StepOf(e) == IF result[e] = "lost" THEN "failed" ELSE result[e]
Ran(e) ==
    /\ entry[e].task = "done" => result[e] # "none" /\ entry[e].step = StepOf(e)
    /\ gate[e] = "finished" <=> result[e] \in {"succeeded", "failed", "cancelled"}
    /\ result[e] = "cancelled" => e \in interrupts
    /\ result[e] = "blocked" => gate[e] = "cancelled"
    /\ result[e] = "lost" \/ gate[e] = "failed" => Faults # {}

\* A closed controller has stopped every Run that is not reported yet.
Shut == closed => \A r \in Runs : runs[r].state = "open" => runs[r].stopped

PromiseInv == Shut /\ \A o \in Consumers : Tended(o) /\ Grounded(o) /\ Ran(o)

\* Other steps than a caller's or the driver's may only stop Runs.
RunsOnly == UNCHANGED closed /\ \E rs : runs' = runs \/ runs' = StopOf(rs)

LEMMA OthersOnlyStop ==
  ASSUME ControlInv, [Next]_vars, ~Drive, ~Drain, ~Close, ~DriveFails,
         \A r \in Runs : ~Submit(r) /\ \A force \in BOOLEAN : ~Stop(r, force)
  PROVE  RunsOnly
  <1>1. UNCHANGED runVars => RunsOnly
    BY DEF RunsOnly, runVars
  <1>2. ASSUME NEW s \in saves, Carried(s) \/ SaveUnheard(s) PROVE RunsOnly
    <2>1. UNCHANGED closed
      BY <1>2 DEF Carried, SaveRecords, SaveDelivers, SaveUndelivered, SaveAnnounced, SaveUnheard, Saving, Proceeds
    <2> QED
      BY <1>2, <2>1, Reporting DEF RunsOnly
  <1>3. ASSUME NEW o \in Consumers,
               \/ BlockItem(o) \/ Join(o) \/ Acquire(o) \/ AwaitSettled(o) \/ StopWaiting(o)
               \/ BindDone(o) \/ CancelUnowned(o) \/ BindFails(o) \/ Undo(o) \/ PrepareFails(o)
         PROVE  RunsOnly
    BY <1>1, <1>3 DEF BlockItem, Join, Acquire, AwaitSettled, Attached, StopWaiting, BindDone,
       CancelUnowned, BindFails, Undo, PrepareFails
  <1>4. ASSUME NEW o \in Consumers,
               WithdrawStart(o) \/ WithdrawGate(o) \/ WithdrawResume(o) \/ WithdrawInterrupt(o)
        PROVE  RunsOnly
    <2>1. CASE WithdrawStart(o) \/ WithdrawGate(o)
      BY <1>1, <2>1 DEF WithdrawStart, WithdrawGate
    <2>2. CASE WithdrawResume(o)
      BY <1>1, <2>2 DEF WithdrawResume
    <2>3. CASE WithdrawInterrupt(o)
      BY <1>1, <2>3 DEF WithdrawInterrupt
    <2> QED
      BY <1>4, <2>1, <2>2, <2>3
  <1>5. ASSUME NEW e \in Consumers, Enter(e) \/ Refuse(e) \/ Finish(e) \/ TaskFails(e) PROVE RunsOnly
    BY <1>1, <1>5 DEF Enter, Refuse, Finish, TaskFails, Answered
  <1>6. ASSUME NEW e \in Consumers, Settle(e) PROVE RunsOnly
    BY <1>6 DEF Settle, RunsOnly
  <1>7. CASE Environment
    BY <1>2, <1>3, <1>5, <1>7 DEF Environment, Carried
  <1>8. CASE LoopStep
    BY <1>2, <1>3, <1>4, <1>5, <1>6, <1>8 DEF LoopStep, Carried
  <1> QED
    BY <1>1, <1>7, <1>8 DEF Next, vars

LEMMA StopKeepsState ==
  ASSUME Types, NEW rs, runs' = runs \/ runs' = StopOf(rs), NEW r \in Runs
  PROVE  /\ runs'[r].state = runs[r].state /\ (runs[r].stopped => runs'[r].stopped)
         /\ runs'[r].stopped => runs[r].stopped \/ r \in rs
         /\ runs[r].stopped \/ (r \in rs /\ runs' = StopOf(rs)) => runs'[r].stopped
  <1>1. runs[r] \in RunType
    BY DEF Types
  <1>2. CASE runs' = StopOf(rs)
    <2>1. runs'[r] = IF r \in rs THEN [runs[r] EXCEPT !.stopped = TRUE] ELSE runs[r]
      BY <1>2 DEF StopOf
    <2> QED
      BY <1>1, <1>2, <2>1 DEF RunType
  <1>3. CASE runs' = runs /\ runs # StopOf(rs)
    BY <1>3
  <1> QED
    BY <1>2, <1>3

\* The Runs that callers submitted and stopped only become more.
LEMMA RunsGrow == ASSUME ControlInv, [Next]_vars PROVE Grown
  <1>1. runs \in [Runs -> RunType]
    BY DEF ControlInv, Types
  <1>2. ASSUME NEW rs, runs' = runs \/ runs' = StopOf(rs) PROVE Grown
    BY <1>1, <1>2, StopOfGrows DEF Grown
  <1>3. ASSUME NEW r \in Runs, Submit(r) PROVE Grown
    BY <1>1, <1>3 DEF Submit, Grown, RunType
  <1>4. ASSUME NEW r \in Runs, NEW force \in BOOLEAN, Stop(r, force) PROVE Grown
    <2> DEFINE f == runs[r].force \/ force
    <2>1. /\ f \in BOOLEAN /\ (runs[r].force => f)
          /\ runs' = [runs EXCEPT ![r].stopped = TRUE, ![r].force = f]
      BY <1>1, <1>4 DEF RunType, Stop
    <2> HIDE DEF f
    <2> QED
      BY <1>1, <2>1 DEF Grown, RunType
  <1>5. CASE Close \/ DriveFails
    BY <1>2, <1>5 DEF Close, DriveFails
  <1>6. CASE Drive
    BY <1>1, <1>6 DEF Drive, Grown, RunType
  <1>7. CASE Drain
    BY <1>1, <1>7 DEF Drain, Grown, RunType
  <1> QED
    BY <1>2, <1>3, <1>4, <1>5, <1>6, <1>7, OthersOnlyStop DEF RunsOnly

LEMMA ShutKeeps == ASSUME ControlInv, Shut, [Next]_vars PROVE Shut'
  <1>1. Types /\ runs \in [Runs -> RunType]
    BY DEF ControlInv, Types
  <1>2. ASSUME RunsOnly PROVE Shut'
    BY <1>1, <1>2, StopKeepsState DEF RunsOnly, Shut
  <1>3. ASSUME NEW r \in Runs, Submit(r) PROVE Shut'
    BY <1>3 DEF Submit, Shut
  <1>4. ASSUME NEW r \in Runs, NEW force \in BOOLEAN, Stop(r, force) PROVE Shut'
    <2>1. \A q \in Runs : runs'[q].state = runs[q].state
      BY <1>1, <1>4 DEF Stop, RunType
    <2>2. UNCHANGED closed
      BY <1>4 DEF Stop
    <2> QED
      BY <2>1, <2>2, RunsGrow DEF Grown, Shut
  <1>5. CASE Close \/ DriveFails
    BY <1>1, <1>5, StopKeepsState DEF Close, DriveFails, Shut
  <1>6. CASE Drive \/ Drain
    <2>1. UNCHANGED closed
      BY <1>6 DEF Drive, Drain
    <2>2. \A r \in Runs : runs'[r].state = "open" => runs[r].state = "open"
      <3>1. CASE Drive
        BY <1>1, <3>1 DEF Drive, RunType
      <3>2. CASE Drain
        BY <1>1, <3>2 DEF Drain, RunType
      <3> QED
        BY <1>6, <3>1, <3>2
    <2> QED
      BY <2>1, <2>2, RunsGrow DEF Grown, Shut
  <1> QED
    BY <1>2, <1>3, <1>4, <1>5, <1>6, OthersOnlyStop

\* Steps that link no occurrence and end no execution.
Unlinking == UNCHANGED <<linked, result>>

LEMMA OthersUnlink ==
  ASSUME ControlInv, [Next]_vars, \A o \in Consumers : ~BindDone(o),
         \A e \in Consumers : ~Enter(e) /\ ~Refuse(e) /\ ~Finish(e) /\ ~TaskFails(e)
  PROVE  Unlinking
  <1> USE DEF Unlinking
  <1>1. ASSUME \/ \E r \in Runs : Submit(r) \/ \E force \in BOOLEAN : Stop(r, force)
               \/ Close \/ DriveFails
        PROVE  Unlinking
    BY <1>1 DEF Submit, Stop, Close, DriveFails, prepVars, gateVars
  <1>2. ASSUME NEW s \in saves, Carried(s) \/ SaveUnheard(s) PROVE Unlinking
    BY <1>2 DEF Carried, SaveRecords, SaveDelivers, SaveUndelivered, SaveAnnounced, SaveUnheard, Saving, Proceeds, prepVars, gateVars
  <1>3. ASSUME NEW o \in Consumers,
               \/ BlockItem(o) \/ Join(o) \/ Acquire(o) \/ AwaitSettled(o) \/ StopWaiting(o)
               \/ CancelUnowned(o) \/ BindFails(o) \/ Undo(o) \/ PrepareFails(o)
        PROVE  Unlinking
    BY <1>3 DEF BlockItem, Join, Acquire, AwaitSettled, Attached, StopWaiting, CancelUnowned,
       BindFails, Undo, PrepareFails, prepVars, gateVars
  <1>4. ASSUME NEW o \in Consumers,
                WithdrawStart(o) \/ WithdrawGate(o) \/ WithdrawResume(o) \/ WithdrawInterrupt(o)
         PROVE  Unlinking
    <2>1. CASE WithdrawStart(o) \/ WithdrawGate(o)
      BY <2>1 DEF WithdrawStart, WithdrawGate, prepVars, gateVars
    <2>2. CASE WithdrawResume(o)
      BY <2>2 DEF WithdrawResume, prepVars, gateVars
    <2>3. CASE WithdrawInterrupt(o)
      BY <2>3 DEF WithdrawInterrupt, prepVars
    <2> QED
      BY <1>4, <2>1, <2>2, <2>3
  <1>5. ASSUME NEW e \in Consumers, Settle(e) PROVE Unlinking
    BY <1>5 DEF Settle, prepVars, gateVars
  <1>6. CASE Drive \/ Drain
    BY <1>6 DEF Drive, Drain, prepVars, gateVars
  <1> HIDE DEF Unlinking
  <1>7. CASE Environment
    BY <1>1, <1>2, <1>3, <1>7 DEF Environment, Carried
  <1>8. CASE LoopStep
    BY <1>2, <1>3, <1>4, <1>5, <1>6, <1>8 DEF LoopStep, Carried
  <1>9. CASE UNCHANGED vars
    BY <1>9 DEF Unlinking, vars, prepVars, gateVars
  <1> QED
    BY <1>7, <1>8, <1>9 DEF Next

\* What has come about stays.
Lasting ==
    /\ \A q \in Consumers : /\ Stopped(q) => Stopped(q)'
                            /\ linked[q] # None => linked'[q] = linked[q]
                            /\ result[q] # "none" => result'[q] = result[q]
    /\ \A q \in Consumers : outcome[q] # "none" => \/ outcome'[q] = outcome[q]
                                                   \/ "event" \in Faults /\ outcome'[q] = "failed"

LEMMA AllLasts == ASSUME ControlInv, OnceInv, [Next]_vars PROVE Lasting
  <1>1. \A q \in Consumers : Stopped(q) => Stopped(q)'
    BY RunsGrow, ConsumersAre DEF Grown, Stopped
  <1>2. \A q \in Consumers : outcome[q] # "none" => \/ outcome'[q] = outcome[q]
                                                    \/ "event" \in Faults /\ outcome'[q] = "failed"
    BY OutcomeStays
  <1> DEFINE Goal == \A q \in Consumers : /\ linked[q] # None => linked'[q] = linked[q]
                                          /\ result[q] # "none" => result'[q] = result[q]
  <1>3. Goal
    <2>1. ASSUME NEW o \in Consumers, BindDone(o) PROVE Goal
      <3>1. linked[o] = None
        BY <2>1, PlacedNow DEF BindDone, Placed
      <3> QED
        BY <2>1, <3>1 DEF BindDone, gateVars, ControlInv, Types
    <2>2. ASSUME NEW e \in Consumers, Enter(e) \/ Refuse(e) \/ Finish(e) \/ TaskFails(e) PROVE Goal
      BY <2>2 DEF Enter, Refuse, Finish, TaskFails, Answered, AtWorker, prepVars, ControlInv, Types
    <2>3. CASE Unlinking
      BY <2>3 DEF Unlinking
    <2> QED
      BY <2>1, <2>2, <2>3, OthersUnlink
  <1> QED
    BY <1>1, <1>2, <1>3 DEF Lasting

LEMMA ProducedLasts ==
  ASSUME Types, Lasting, NEW q \in Consumers, Produced(q) PROVE Produced(q)'
  BY NoneAssumption DEF Lasting, Produced, Types

LEMMA FoundedLasts ==
  ASSUME Types, Lasting, NEW q \in Consumers, Founded(q) PROVE Founded(q)'
  BY ProducedLasts DEF Founded

LEMMA GroundsLast ==
  ASSUME Types, Lasting, NEW q \in Consumers, NEW out, Grounds(q, out) PROVE Grounds(q, out)'
  <1>1. Produced(q) => Produced(q)'
    BY ProducedLasts
  <1>2. linked[q] # None /\ result[linked[q]] = "failed" => linked'[q] # None /\ result'[linked'[q]] = "failed"
    BY NoneAssumption DEF Lasting, Types
  <1>3. \A d \in Consumers : outcome[d] \notin {"none", "succeeded"} => outcome'[d] \notin {"none", "succeeded"}
    BY DEF Lasting
  <1>4. Stopped(q) => Stopped(q)'
    BY DEF Lasting
  <1> QED
    BY <1>1, <1>2, <1>3, <1>4 DEF Grounds

-----------------------------------------------------------------------------
(* What becomes of an execution.                                           *)

\* What any other step than those of its worker may do to a gate.
GateShifts(e) ==
    \/ gate'[e] = gate[e]
    \/ /\ gate[e] \in {"none", "ready"} /\ gate'[e] \in {"ready", "failed", "cancelled"}
       /\ gate'[e] = "failed" => Faults # {}
       /\ gate'[e] = "cancelled" => gate[e] = "ready"
GatesShift == interrupts \subseteq interrupts' /\ \A e \in Consumers : GateShifts(e)

LEMMA ClosedShifts ==
  ASSUME Types, NEW x \in Consumers, gate' \in {gate, Closed(x)}, interrupts \subseteq interrupts'
  PROVE  GatesShift
  BY DEF Closed, GatesShift, GateShifts, Types

LEMMA OthersShiftGates ==
  ASSUME ControlInv, [Next]_vars, \A e \in Consumers : ~Enter(e) /\ ~Refuse(e) /\ ~Finish(e) /\ ~TaskFails(e)
  PROVE  GatesShift
  <1>1. UNCHANGED <<gate, interrupts>> => GatesShift
    BY DEF GatesShift, GateShifts
  <1>2. ASSUME \/ \E r \in Runs : Submit(r) \/ \E force \in BOOLEAN : Stop(r, force)
               \/ Close \/ DriveFails
        PROVE  GatesShift
    BY <1>1, <1>2 DEF Submit, Stop, Close, DriveFails, gateVars
  <1>3. ASSUME \/ \E s \in saves : Carried(s) \/ SaveUnheard(s)
               \/ \E o \in Consumers : BlockItem(o)
        PROVE  GatesShift
    BY <1>1, <1>3, Reporting
  <1>4. ASSUME NEW o \in Consumers,
               Join(o) \/ AwaitSettled(o) \/ StopWaiting(o) \/ BindDone(o) \/ BindFails(o) \/ PrepareFails(o)
        PROVE  GatesShift
    BY <1>1, <1>4 DEF Join, AwaitSettled, Attached, StopWaiting, BindDone, BindFails, PrepareFails, gateVars
  <1>5. ASSUME NEW o \in Consumers, Acquire(o) PROVE GatesShift
    <2>1. gate[o] = "none" /\ interrupts' = interrupts
      BY <1>5, PlacedNow DEF Acquire, Attached, MayAttach, Placed, Unstarted, Before
    <2>2. \/ gate' = [gate EXCEPT ![o] = "ready"]
          \/ gate' = [gate EXCEPT ![o] = "failed"] /\ Faults # {}
      BY <1>5 DEF Acquire, Fault
    <2> QED
      BY <2>1, <2>2 DEF GatesShift, GateShifts, ControlInv, Types
  <1>6. ASSUME NEW o \in Consumers, CancelUnowned(o) \/ Undo(o) PROVE GatesShift
    <2>1. gate' \in {gate, Closed(target[o])} /\ interrupts' = interrupts /\ prep[o] \in {"cancel", "undo"}
      BY <1>6 DEF CancelUnowned, Undo, Discard
    <2> QED
      BY <2>1, Binds, ClosedShifts DEF ControlInv
  <1>7. ASSUME NEW o \in Consumers,
               WithdrawStart(o) \/ WithdrawGate(o) \/ WithdrawResume(o) \/ WithdrawInterrupt(o)
        PROVE  GatesShift
    BY <1>7, Withdrawals, UnderWithdrawal, ClosedShifts DEF ControlInv
  <1>8. ASSUME NEW e \in Consumers, Settle(e) PROVE GatesShift
    BY <1>1, <1>8 DEF Settle, gateVars
  <1>9. CASE Drive \/ Drain
    BY <1>1, <1>9 DEF Drive, Drain, gateVars
  <1>10. CASE Environment
    BY <1>2, <1>3, <1>4, <1>10 DEF Environment, Carried
  <1>11. CASE LoopStep
    BY <1>3, <1>4, <1>5, <1>6, <1>7, <1>8, <1>9, <1>11 DEF LoopStep, Carried
  <1> QED
    BY <1>1, <1>10, <1>11 DEF Next, vars, gateVars

\* An answer of a worker: the gate it found, and the answer it leaves.
LEMMA WorkerAnswers ==
  ASSUME ControlInv, NEW e \in Consumers, Enter(e) \/ Refuse(e) \/ Finish(e) \/ TaskFails(e)
  PROVE  /\ UNCHANGED <<entry, interrupts, linked, active>> /\ result[e] = "none" /\ entry[e].task = "running"
         /\ \E g \in {gate[e], "entered", "finished"}, a \in {"none", "lost"} \cup Ends :
               /\ gate' = [gate EXCEPT ![e] = g] /\ result' = [result EXCEPT ![e] = a]
               /\ \/ gate[e] = "ready" /\ g = "entered" /\ a = "none"
                  \/ gate[e] = "cancelled" /\ g = gate[e] /\ a = "blocked"
                  \/ gate[e] = "entered" /\ g = "finished" /\ a \in {"succeeded", "failed"}
                  \/ gate[e] = "entered" /\ g = "finished" /\ a = "cancelled" /\ e \in interrupts
                  \/ g = gate[e] /\ a = "lost" /\ Faults # {}
  <1>1. /\ UNCHANGED <<entry, interrupts, linked, active>> /\ result[e] = "none" /\ entry[e].task = "running"
    BY DEF Enter, Refuse, Finish, TaskFails, Answered, AtWorker, prepVars
  <1>2. gate = [gate EXCEPT ![e] = gate[e]]
    BY DEF ControlInv, Types
  <1>3. CASE Enter(e)
    BY <1>1, <1>3 DEF Enter, Answered
  <1>4. CASE Refuse(e)
    BY <1>1, <1>2, <1>4 DEF Refuse, Answered, Ends
  <1>5. CASE Finish(e)
    <2>1. PICK a \in Answers \cup (IF e \in interrupts THEN {"cancelled"} ELSE {}) : Answered(e, a)
      BY <1>5 DEF Finish
    <2>2. a \in {"succeeded", "failed"} \/ (a = "cancelled" /\ e \in interrupts)
      BY AnswersAssumption
    <2> QED
      BY <1>1, <1>5, <2>1, <2>2 DEF Finish, Answered, Ends
  <1>6. CASE TaskFails(e)
    BY <1>1, <1>2, <1>6 DEF TaskFails, Answered, Fault
  <1> QED
    BY <1>3, <1>4, <1>5, <1>6

LEMMA RanKeeps == ASSUME ControlInv, PromiseInv, [Next]_vars PROVE \A e \in Consumers : Ran(e)'
  <1>1. ASSUME GatesShift, UNCHANGED result, NEW q \in Consumers,
               \/ entry'[q].task = entry[q].task /\ entry'[q].step = entry[q].step
               \/ entry'[q].task = "running"
               \/ result[q] # "none" /\ entry'[q].step = StepOf(q)
        PROVE  Ran(q)'
    BY <1>1 DEF PromiseInv, Ran, StepOf, GatesShift, GateShifts
  <1>2. ASSUME NEW e \in Consumers, Enter(e) \/ Refuse(e) \/ Finish(e) \/ TaskFails(e)
        PROVE  \A q \in Consumers : Ran(q)'
    <2>1. PICK g \in {gate[e], "entered", "finished"}, a \in {"none", "lost"} \cup Ends :
               /\ gate' = [gate EXCEPT ![e] = g] /\ result' = [result EXCEPT ![e] = a]
               /\ \/ gate[e] = "ready" /\ g = "entered" /\ a = "none"
                  \/ gate[e] = "cancelled" /\ g = gate[e] /\ a = "blocked"
                  \/ gate[e] = "entered" /\ g = "finished" /\ a \in {"succeeded", "failed"}
                  \/ gate[e] = "entered" /\ g = "finished" /\ a = "cancelled" /\ e \in interrupts
                  \/ g = gate[e] /\ a = "lost" /\ Faults # {}
      BY <1>2, WorkerAnswers
    <2>2. UNCHANGED <<entry, interrupts>> /\ result[e] = "none" /\ entry[e].task = "running"
      BY <1>2, WorkerAnswers
    <2>3. Ran(e)'
      <3>1. gate'[e] = g /\ result'[e] = a /\ Ran(e)
        BY <2>1 DEF ControlInv, Types, PromiseInv
      <3> QED
        BY <2>1, <2>2, <3>1 DEF Ran, StepOf
    <2>4. ASSUME NEW q \in Consumers, q # e PROVE Ran(q)'
      <3>1. gate'[q] = gate[q] /\ result'[q] = result[q] /\ Ran(q)
        BY <2>1, <2>4 DEF ControlInv, Types, PromiseInv
      <3> QED
        BY <2>2, <3>1 DEF Ran, StepOf
    <2> QED
      BY <2>3, <2>4
  <1>3. CASE \A e \in Consumers : ~Enter(e) /\ ~Refuse(e) /\ ~Finish(e) /\ ~TaskFails(e)
    <2>1. GatesShift
      BY <1>3, OthersShiftGates
    <2>2. CASE Drive
      <3>1. UNCHANGED result
        BY <2>2 DEF Drive, gateVars
      <3>2. \A q \in Consumers : entry'[q] = entry[q] \/ entry'[q].task = "running"
        BY <2>2 DEF Drive, ControlInv, Types, EntryType
      <3> QED
        BY <1>1, <2>1, <3>1, <3>2
    <2>3. ASSUME NEW e \in Consumers, Settle(e) PROVE \A q \in Consumers : Ran(q)'
      <3>1. UNCHANGED result /\ result[e] # "none"
        BY <2>3 DEF Settle, gateVars
      <3>2. entry'[e].step = StepOf(e) /\ \A q \in Consumers : q # e => entry'[q] = entry[q]
        BY <2>3 DEF Settle, StepOf, ControlInv, Types, EntryType
      <3> QED
        BY <1>1, <2>1, <3>1, <3>2
    <2>4. CASE ~Drive /\ \A e \in Consumers : ~Settle(e)
      <3>1. \A q \in Consumers : entry'[q].task = entry[q].task /\ entry'[q].step = entry[q].step
        BY <2>4, OthersCount
      <3>2. UNCHANGED result
        <4>1. ASSUME NEW o \in Consumers, BindDone(o) PROVE UNCHANGED result
          BY <4>1 DEF BindDone, gateVars
        <4> QED
          BY <1>3, <4>1, OthersUnlink DEF Unlinking
      <3> QED
        BY <1>1, <2>1, <3>1, <3>2
    <2> QED
      BY <2>2, <2>3, <2>4
  <1> QED
    BY <1>2, <1>3

-----------------------------------------------------------------------------
(* Who has an occurrence in hand, and on what grounds it is reported.      *)

\* Nothing happens to an occurrence.
Spared(q) ==
    /\ q \in remaining' <=> q \in remaining
    /\ q \in blocking' <=> q \in blocking
    /\ q \in delivered' <=> q \in delivered
    /\ SavesOf(q)' = SavesOf(q)
    /\ prep'[q] = prep[q] /\ active'[q] = active[q] /\ outcome'[q] = outcome[q]
SameRun(q) ==
    /\ runs'[q[1]].state = runs[q[1]].state
    /\ Stopped(q) => Stopped(q)'

LEMMA SparedTended ==
  ASSUME NEW q \in Consumers, Tended(q), Spared(q), SameRun(q), Over => Over'
  PROVE  Tended(q)'
  BY DEF Tended, Spared, SameRun, Busy, Engaged, Open

\* Something happens to one that somebody has in hand.
LEMMA HandledTended ==
  ASSUME NEW q \in Consumers, Tended(q), Busy(q) \/ Engaged(q), SameRun(q),
         Busy(q)' \/ active'[q] # None \/ outcome'[q] # "none",
         q \in delivered' => outcome'[q] # "none",
         q \in blocking' \/ prep'[q] = "cancel" => Stopped(q)',
         prep'[q] = "undo" => Faults # {}
  PROVE  Tended(q)'
  BY DEF Tended, SameRun, Busy, Engaged, Open

LEMMA GroundedStays ==
  ASSUME Types, Lasting, NEW q \in Consumers, Grounded(q), UNCHANGED linked,
         prep'[q] \notin {"no", "undo"} => prep[q] \notin {"no", "undo"} \/ Founded(q),
         \A s \in SavesOf(q)' : s \in SavesOf(q) \/ Grounds(q, s.out),
         outcome'[q] = "succeeded" => outcome[q] = "succeeded" \/ Grounds(q, "succeeded"),
         active'[q] = active[q] \/ Stopped(q) \/ result[active[q]] # "none"
  PROVE  Grounded(q)'
  <1>1. prep'[q] \notin {"no", "undo"} \/ linked'[q] # None => Founded(q)'
    BY FoundedLasts DEF Grounded
  <1>2. ASSUME NEW s \in SavesOf(q)' PROVE Grounds(q, s.out)'
    BY <1>2, GroundsLast DEF Grounded
  <1>3. outcome'[q] = "succeeded" => Produced(q)'
    BY ProducedLasts DEF Grounded, Grounds
  <1>4. ASSUME linked'[q] # None, result'[linked'[q]] = "none", ~Stopped(q)'
        PROVE  active'[q] = linked'[q]
    <2>1. result[linked[q]] = "none" /\ ~Stopped(q) /\ linked[q] # None
      BY <1>4, NoneAssumption DEF Lasting, Types
    <2> QED
      BY <2>1 DEF Grounded
  <1> QED
    BY <1>1, <1>2, <1>3, <1>4 DEF Grounded

LEMMA PromiseNow ==
  ASSUME ControlInv, OnceInv, PromiseInv, NEW q \in Consumers
  PROVE  /\ Types /\ Decided(q) /\ Placed(q) /\ Tended(q) /\ Grounded(q) /\ Ran(q)
         /\ active[q] \in Consumers \cup {None} /\ linked[q] \in Consumers \cup {None}
  BY OnceNow DEF PromiseInv, ControlInv, Types

LEMMA SparedKept ==
  ASSUME ControlInv, OnceInv, PromiseInv, Lasting, NEW q \in Consumers, Spared(q), SameRun(q),
         Over => Over', UNCHANGED linked
  PROVE  Tended(q)' /\ Grounded(q)'
  BY PromiseNow, SparedTended, GroundedStays DEF Spared

LEMMA SameRuns ==
  ASSUME ControlInv, [Next]_vars, NEW rs, runs' = runs \/ runs' = StopOf(rs), NEW q \in Consumers
  PROVE  SameRun(q)
  BY StateOnly, RunsGrow, ConsumersAre DEF SameRun, Grown, Stopped

LEMMA Basics ==
  ASSUME ControlInv, OnceInv, [Next]_vars
  PROVE  Types /\ Lasting /\ (Over => Over') /\ Grown
  BY AllLasts, OverStays, RunsGrow DEF ControlInv

LEMMA PreparationKept ==
  ASSUME ControlInv, OnceInv, PromiseInv, [Next]_vars, NEW o \in Consumers,
         \/ Join(o) \/ Acquire(o) \/ AwaitSettled(o) \/ StopWaiting(o)
         \/ CancelUnowned(o) \/ BindFails(o) \/ Undo(o) \/ PrepareFails(o)
  PROVE  \A q \in Consumers : Tended(q)' /\ Grounded(q)'
  <1> USE Basics
  <1>1. /\ UNCHANGED <<runs, remaining, blocking, outcome, delivered, linked, active>>
        /\ \A q \in Consumers : q # o => prep'[q] = prep[q]
    <2>1. CASE Join(o) \/ Acquire(o) \/ AwaitSettled(o)
      BY <2>1 DEF Join, Acquire, AwaitSettled, Attached, runVars, planVars, saveVars, Types
    <2>2. CASE StopWaiting(o) \/ BindFails(o) \/ PrepareFails(o)
      BY <2>2 DEF StopWaiting, BindFails, PrepareFails, runVars, planVars, Types
    <2>3. CASE CancelUnowned(o) \/ Undo(o)
      BY <2>3 DEF CancelUnowned, Undo, Discard, runVars, planVars, Types
    <2> QED
      BY <2>1, <2>2, <2>3
  <1>2. /\ prep[o] # "no" /\ prep'[o] # "cancel"
        /\ prep'[o] \notin {"no", "undo"} => prep[o] \notin {"no", "undo"}
        /\ prep'[o] = "undo" => Faults # {}
        /\ \/ UNCHANGED saves /\ prep'[o] # "no"
           \/ \E out, by : saves' = saves \cup {Save(o, out, by)} /\ Grounds(o, out)
    <2>0. prep \in [Consumers -> Before \cup {"no", "bind", "cancel", "undo"}] /\ Tended(o)
      BY PromiseNow DEF Types
    <2>1. CASE Join(o) \/ Acquire(o) \/ AwaitSettled(o)
      BY <2>0, <2>1 DEF Join, Acquire, AwaitSettled, Attached, MayAttach, saveVars
    <2>2. CASE StopWaiting(o)
      <3>1. Stopped(o) => Grounds(o, "blocked")
        BY DEF Grounds
      <3> QED
        BY <2>0, <2>2, <3>1 DEF StopWaiting
    <2>3. CASE CancelUnowned(o)
      <3>1. Grounds(o, "blocked")
        BY <2>0, <2>3 DEF Grounds, Tended, CancelUnowned
      <3> QED
        BY <2>0, <2>3, <3>1 DEF CancelUnowned, Discard
    <2>4. Faults # {} => Grounds(o, "failed")
      BY DEF Grounds
    <2>5. CASE BindFails(o)
      <3>1. prep[o] \in {"bind", "cancel"} /\ Faults # {}
        <4>1. CASE gate[target[o]] = "failed"
          BY <2>5, <4>1, Binds, PromiseNow DEF BindFails, Ran
        <4>2. CASE gate[target[o]] # "failed"
          BY <2>5, <4>2 DEF BindFails, Fault
        <4> QED
          BY <2>5, <4>1, <4>2 DEF BindFails
      <3> QED
        BY <2>0, <2>4, <2>5, <3>1 DEF BindFails
    <2>6. CASE Undo(o)
      <3>1. prep[o] = "undo" /\ Faults # {}
        BY <2>0, <2>6 DEF Undo, Tended
      <3> QED
        BY <2>0, <2>4, <2>6, <3>1 DEF Undo, Discard
    <2>7. CASE PrepareFails(o)
      <3>1. prep[o] = "start" /\ Faults # {}
        BY <2>7 DEF PrepareFails, Fault
      <3> QED
        BY <2>0, <2>4, <2>7, <3>1 DEF PrepareFails
    <2> QED
      BY <2>1, <2>2, <2>3, <2>5, <2>6, <2>7
  <1>3. \A q \in Consumers : SameRun(q)
    BY <1>1, SameRuns
  <1>4. /\ \A q : q # o => SavesOf(q)' = SavesOf(q)
        /\ \A s \in SavesOf(o)' : s \in SavesOf(o) \/ Grounds(o, s.out)
        /\ prep'[o] = "no" => SavesOf(o)' # {}
    <2>1. CASE UNCHANGED saves /\ prep'[o] # "no"
      BY <2>1, SavesSame
    <2>2. ASSUME NEW out, NEW by, saves' = saves \cup {Save(o, out, by)}, Grounds(o, out)
          PROVE  /\ \A q : q # o => SavesOf(q)' = SavesOf(q)
                 /\ \A s \in SavesOf(o)' : s \in SavesOf(o) \/ Grounds(o, s.out)
                 /\ SavesOf(o)' # {}
      <3>1. SavesOf(o)' = SavesOf(o) \cup {Save(o, out, by)} /\ Save(o, out, by).out = out
        BY <2>2, SaveAdded DEF Save
      <3> QED
        BY <2>2, <3>1, SaveAdded
    <2> QED
      BY <1>2, <2>1, <2>2
  <1>5. Tended(o)' /\ Grounded(o)'
    <2>1. Tended(o)'
      BY <1>1, <1>2, <1>3, <1>4, PromiseNow, HandledTended DEF Busy, Tended, SameRun
    <2>2. Grounded(o)'
      BY <1>1, <1>2, <1>4, PromiseNow, GroundedStays
    <2> QED
      BY <2>1, <2>2
  <1>6. ASSUME NEW q \in Consumers, q # o PROVE Tended(q)' /\ Grounded(q)'
    BY <1>1, <1>3, <1>4, <1>6, SparedKept DEF Spared
  <1> QED
    BY <1>5, <1>6

LEMMA CallersKept ==
  ASSUME ControlInv, OnceInv, PromiseInv, [Next]_vars,
         \/ \E r \in Runs : Submit(r) \/ \E force \in BOOLEAN : Stop(r, force)
         \/ Close \/ DriveFails
  PROVE  \A q \in Consumers : Tended(q)' /\ Grounded(q)'
  <1> USE Basics
  <1>1. runs \in [Runs -> RunType] /\ remaining \subseteq Consumers
    BY DEF Types
  <1>2. \A q \in Consumers : Stopped(q) => Stopped(q)'
    BY DEF Lasting
  <1>3. ASSUME NEW r \in Runs, Submit(r) PROVE \A q \in Consumers : Tended(q)' /\ Grounded(q)'
    <2>1. /\ UNCHANGED <<blocking, prep, linked, active, saves, outcome, delivered>>
          /\ runs[r].state = "new" /\ runs' = [runs EXCEPT ![r].state = "open"]
          /\ remaining' = remaining \cup Of(r, Consumers)
      BY <1>3 DEF Submit, prepVars, saveVars
    <2>2. \A q \in Consumers : IF q[1] = r THEN runs'[q[1]].state = "open" ELSE runs'[q[1]].state = runs[q[1]].state
      BY <1>1, <2>1, ConsumersAre DEF RunType
    <2>3. ASSUME NEW q \in Consumers, q[1] = r PROVE Tended(q)' /\ Grounded(q)'
      <3>1. Undecided(q) /\ prep[q] = "no" /\ Tended(q)
        BY <2>1, <2>3, PromiseNow DEF Decided, Placed, Waiting
      <3>2. Tended(q)'
        BY <2>1, <2>2, <2>3, <3>1 DEF Tended, Busy, Open, Of, Undecided, Free
      <3>3. Grounded(q)'
        BY <2>1, SavesSame, PromiseNow, GroundedStays
      <3> QED
        BY <3>2, <3>3
    <2>4. ASSUME NEW q \in Consumers, q[1] # r PROVE Tended(q)' /\ Grounded(q)'
      <3>1. Spared(q)
        BY <2>1, <2>4, SavesSame DEF Spared, Of
      <3>2. SameRun(q)
        BY <1>2, <2>1, <2>2, <2>4 DEF SameRun
      <3> QED
        BY <2>1, <3>1, <3>2, SparedKept
    <2> QED
      BY <2>3, <2>4
  <1>4. ASSUME NEW r \in Runs, NEW force \in BOOLEAN, Stop(r, force)
        PROVE  \A q \in Consumers : Tended(q)' /\ Grounded(q)'
    <2> DEFINE f == runs[r].force \/ force
    <2>1. /\ UNCHANGED <<remaining, blocking, prep, linked, active, saves, outcome, delivered>>
          /\ f \in BOOLEAN /\ runs' = [runs EXCEPT ![r].stopped = TRUE, ![r].force = f]
      BY <1>1, <1>4 DEF Stop, planVars, prepVars, saveVars, RunType
    <2> HIDE DEF f
    <2>2. \A q \in Consumers : runs'[q[1]].state = runs[q[1]].state
      BY <1>1, <2>1, ConsumersAre DEF RunType
    <2>3. ASSUME NEW q \in Consumers PROVE Spared(q) /\ SameRun(q)
      BY <1>2, <2>1, <2>2, SavesSame DEF Spared, SameRun
    <2> QED
      BY <2>1, <2>3, SparedKept
  <1>5. ASSUME runs' = StopOf({r \in Runs : runs[r].state = "open"}), NEW q \in Consumers
        PROVE  /\ runs'[q[1]].state = runs[q[1]].state
               /\ Open(q) => Stopped(q)'
    <2>1. q[1] \in Runs
      BY ConsumersAre
    <2>2. runs[q[1]].state = "open" => runs'[q[1]] = [runs[q[1]] EXCEPT !.stopped = TRUE]
      BY <1>5, <2>1 DEF StopOf
    <2> QED
      BY <1>1, <1>5, <2>1, <2>2, StateOnly DEF Open, Stopped, RunType
  <1>6. CASE Close
    <2>1. /\ UNCHANGED <<remaining, blocking, prep, linked, active, saves, outcome, delivered>>
          /\ runs' = StopOf({r \in Runs : runs[r].state = "open"})
      BY <1>6 DEF Close, planVars, prepVars, saveVars
    <2>2. ASSUME NEW q \in Consumers PROVE Spared(q) /\ SameRun(q)
      BY <1>2, <1>5, <2>1, SavesSame DEF Spared, SameRun
    <2> QED
      BY <2>1, <2>2, SparedKept
  <1>7. CASE DriveFails
    <2>1. /\ UNCHANGED <<prep, linked, active, saves, outcome, delivered>> /\ driver = "on"
          /\ remaining' = {} /\ blocking' = blocking \cup remaining
          /\ runs' = StopOf({r \in Runs : runs[r].state = "open"})
      BY <1>7 DEF DriveFails, prepVars, saveVars
    <2>2. ASSUME NEW q \in Consumers PROVE Tended(q)'
      <3>1. Tended(q) /\ SavesOf(q)' = SavesOf(q)
        BY <2>1, PromiseNow, SavesSame
      <3>2. /\ runs'[q[1]].state = runs[q[1]].state /\ (Open(q) => Stopped(q)') /\ ~Over
            /\ Stopped(q) => Stopped(q)'
        BY <1>2, <1>5, <2>1 DEF Over
      <3> QED
        BY <2>1, <3>1, <3>2 DEF Tended, Busy, Engaged, Open
    <2>3. ASSUME NEW q \in Consumers PROVE Grounded(q)'
      BY <2>1, SavesSame, PromiseNow, GroundedStays
    <2> QED
      BY <2>2, <2>3
  <1> QED
    BY <1>3, <1>4, <1>6, <1>7

LEMMA ReportsKept ==
  ASSUME ControlInv, OnceInv, PromiseInv, [Next]_vars,
         \/ \E s \in saves : Carried(s) \/ SaveUnheard(s)
         \/ \E o \in Consumers : BlockItem(o)
  PROVE  \A q \in Consumers : Tended(q)' /\ Grounded(q)'
  <1> USE Basics
  <1>1. outcome \in [Consumers -> {"none"} \cup Ends] /\ prep \in [Consumers -> Before \cup {"no", "bind", "cancel", "undo"}]
    BY DEF Types
  <1>2. /\ UNCHANGED <<remaining, active>>
        /\ \E rs : runs' = runs \/ runs' = StopOf(rs)
    BY Reporting
  <1>3. UNCHANGED linked
    BY DEF Carried, SaveRecords, SaveDelivers, SaveUndelivered, SaveAnnounced, SaveUnheard, Saving, Proceeds, BlockItem, prepVars
  <1>4. \A q \in Consumers : SameRun(q)
    BY <1>2, SameRuns
  <1>5. ASSUME NEW s \in saves, Carried(s) \/ SaveUnheard(s)
        PROVE  \A q \in Consumers : Tended(q)' /\ Grounded(q)'
    <2> DEFINE o == s.who
    <2>1. o \in Consumers /\ s \in SavesOf(o) /\ s.out \in Ends
      BY SavesAre DEF SavesOf, SaveType
    <2>2. /\ outcome' = outcome \/ outcome' = [outcome EXCEPT ![o] = s.out]
          /\ outcome'[o] = s.out /\ UNCHANGED blocking
          /\ delivered \subseteq delivered' /\ delivered' \subseteq delivered \cup {o}
      <3>1. s.at # "record" => outcome[o] = s.out
        BY <2>1, PromiseNow DEF Decided
      <3>2. UNCHANGED blocking
        BY <1>5 DEF Carried, SaveRecords, SaveDelivers, SaveUndelivered, SaveAnnounced, SaveUnheard, Saving, planVars
      <3>3. CASE Carried(s)
        BY <1>1, <2>1, <3>1, <3>2, <3>3, SaveGoesOn
      <3>4. CASE SaveUnheard(s)
        BY <3>1, <3>2, <3>4 DEF SaveUnheard, Saving
      <3> QED
        BY <1>5, <3>3, <3>4
    <2>3. /\ prep' = prep \/ (prep' = [prep EXCEPT ![o] = "undo"] /\ Faults # {})
          /\ \A x \in saves' : x \in saves \/ (x.who = o /\ (x.out = s.out \/ (x.out = "failed" /\ Faults # {})))
          /\ \A x \in saves : x # s => x \in saves'
      <3>1. CASE Carried(s)
        <4>1. UNCHANGED prep
          BY <3>1 DEF Carried, SaveRecords, SaveDelivers, SaveUndelivered, SaveAnnounced, prepVars
        <4>2. saves' = saves \ {s} \/ \E at \in {"deliver", "announce"} : saves' = (saves \ {s}) \cup {Moved(s, at)}
          BY <3>1, SaveGoesOn
        <4> QED
          BY <4>1, <4>2 DEF Moved
      <3>2. CASE SaveUnheard(s)
        BY <3>2 DEF SaveUnheard, Fault, Save
      <3> QED
        BY <1>5, <3>1, <3>2
    <2>4. outcome'[o] # "none" /\ \A q \in Consumers : q # o => outcome'[q] = outcome[q] /\ prep'[q] = prep[q]
      BY <1>1, <2>1, <2>2, <2>3 DEF Ends
    <2>5. prep'[o] = prep[o] \/ (prep'[o] = "undo" /\ Faults # {})
      BY <1>1, <2>1, <2>3
    <2>6. Tended(o) /\ Grounded(o) /\ Busy(o) /\ prep[o] = "no" /\ o \notin blocking
      BY <2>1, PromiseNow DEF Busy, Decided, Undecided, Free
    <2>7. Tended(o)'
      BY <1>4, <2>1, <2>2, <2>4, <2>5, <2>6, HandledTended DEF Tended
    <2>8. Grounded(o)'
      <3>1. outcome'[o] = s.out /\ Grounds(o, s.out)
        BY <2>1, <2>2, <2>6 DEF Grounded
      <3>2. \A x \in SavesOf(o)' : x \in SavesOf(o) \/ Grounds(o, x.out)
        BY <2>3, <3>1 DEF SavesOf, Grounds
      <3> HIDE DEF o
      <3> QED
        BY <1>2, <1>3, <2>1, <2>5, <2>6, <3>1, <3>2, GroundedStays
    <2>9. ASSUME NEW q \in Consumers, q # o PROVE Tended(q)' /\ Grounded(q)'
      <3>1. SavesOf(q)' = SavesOf(q)
        BY <2>3, <2>9 DEF SavesOf
      <3>2. Spared(q)
        BY <1>2, <2>2, <2>4, <2>9, <3>1 DEF Spared
      <3> QED
        BY <1>3, <1>4, <3>2, SparedKept
    <2> QED
      BY <2>7, <2>8, <2>9
  <1>6. ASSUME NEW o \in Consumers, BlockItem(o) PROVE \A q \in Consumers : Tended(q)' /\ Grounded(q)'
    <2>1. /\ o \in blocking /\ blocking' = blocking \ {o} /\ delivered' = delivered \cup {o}
          /\ outcome' = [outcome EXCEPT ![o] = "blocked"] /\ UNCHANGED <<saves, prep>>
      BY <1>6 DEF BlockItem, prepVars
    <2>2. Tended(o) /\ Grounded(o) /\ Busy(o)
      BY <2>1, PromiseNow DEF Busy
    <2>3. outcome'[o] = "blocked"
      BY <1>1, <2>1
    <2>4. Tended(o)'
      BY <1>4, <2>1, <2>2, <2>3, HandledTended DEF Tended, SameRun
    <2>5. Grounded(o)'
      BY <1>2, <1>3, <2>1, <2>2, <2>3, SavesSame, GroundedStays
    <2>6. ASSUME NEW q \in Consumers, q # o PROVE Spared(q)
      BY <1>1, <1>2, <2>1, <2>6, SavesSame DEF Spared
    <2> QED
      BY <1>3, <1>4, <2>4, <2>5, <2>6, SparedKept
  <1> QED
    BY <1>5, <1>6

LEMMA BindDoneKept ==
  ASSUME ControlInv, OnceInv, PromiseInv, [Next]_vars, NEW o \in Consumers, BindDone(o)
  PROVE  \A q \in Consumers : Tended(q)' /\ Grounded(q)'
  <1> DEFINE e == target[o]
             step == entry[e].step
  <1> USE Basics
  <1>1. /\ UNCHANGED <<runs, remaining, blocking, outcome, delivered, result>> /\ prep[o] = "bind"
        /\ linked' = [linked EXCEPT ![o] = e] /\ gate[e] # "failed"
    BY DEF BindDone, runVars, planVars, gateVars
  <1>2. /\ e \in Consumers /\ e # None /\ ~entry[e].abandoned /\ ~entry[e].closing
        /\ linked[o] = None /\ active[o] = None
    BY <1>1, Binds
  <1>3. \/ Stopped(o) /\ prep' = [prep EXCEPT ![o] = "cancel"] /\ UNCHANGED <<active, saves>>
        \/ /\ prep' = [prep EXCEPT ![o] = "no"] /\ UNCHANGED active
           /\ \/ Stopped(o) /\ saves' = saves \cup {Save(o, "blocked", "prepare")}
              \/ ~Stopped(o) /\ step # "none" /\ saves' = saves \cup {Save(o, step, "prepare")}
        \/ /\ prep' = [prep EXCEPT ![o] = "no"] /\ UNCHANGED saves
           /\ active' = [active EXCEPT ![o] = e]
    BY DEF BindDone
  <1>4. step # "none" => result[e] # "none" /\ step = StepOf(e) /\ Ran(e)
    BY <1>2, OwnedNow, PromiseNow DEF Owned, Ran
  <1>5. linked'[o] = e /\ (\A q \in Consumers : q # o => linked'[q] = linked[q]) /\ Stopped(o)' = Stopped(o)
    BY <1>1, <1>2 DEF Types, Stopped
  <1>6. ASSUME NEW out, out = step, step # "none" PROVE Grounds(o, out)'
    <2>1. Sealed(e)
      BY <1>2, SealedNow
    <2>2. Grounds(o, out)'
      <3>1. /\ result[e] \in {"succeeded", "failed", "lost"} /\ step = StepOf(e)
            /\ result[e] = "lost" => Faults # {}
        BY <1>2, <1>4, <1>6, <2>1 DEF Ran, Sealed, Types, Ends
      <3>2. linked'[o] # None /\ result'[linked'[o]] = result[e]
        BY <1>1, <1>2, <1>5
      <3> HIDE DEF e, step
      <3>3. CASE out = "succeeded" /\ result[e] = "succeeded"
        BY <3>2, <3>3 DEF Grounds, Produced
      <3>4. CASE out = "failed" /\ (Faults # {} \/ result[e] = "failed")
        BY <3>2, <3>4 DEF Grounds
      <3> QED
        BY <1>6, <3>1, <3>3, <3>4 DEF StepOf
    <2> QED
      BY <2>2
  <1> HIDE DEF e, step
  <1>7. Stopped(o) => Grounds(o, "blocked")'
    BY <1>5 DEF Grounds
  <1>8. /\ \A q : q # o => SavesOf(q)' = SavesOf(q)
        /\ \/ SavesOf(o)' = SavesOf(o)
           \/ \E out, by : SavesOf(o)' = SavesOf(o) \cup {Save(o, out, by)} /\ Grounds(o, out)'
        /\ UNCHANGED saves \/ SavesOf(o)' # {}
    <2>1. CASE UNCHANGED saves
      BY <2>1, SavesSame
    <2>2. ASSUME NEW out, NEW by, saves' = saves \cup {Save(o, out, by)}, Grounds(o, out)'
          PROVE  /\ \A q : q # o => SavesOf(q)' = SavesOf(q)
                 /\ SavesOf(o)' = SavesOf(o) \cup {Save(o, out, by)}
      BY <2>2, SaveAdded
    <2>3. CASE Stopped(o) /\ saves' = saves \cup {Save(o, "blocked", "prepare")}
      BY <1>7, <2>2, <2>3
    <2>4. CASE step # "none" /\ saves' = saves \cup {Save(o, step, "prepare")}
      BY <1>6, <2>2, <2>4
    <2> QED
      BY <1>3, <2>1, <2>3, <2>4
  <1>9. /\ Tended(o) /\ Grounded(o) /\ Busy(o) /\ Decided(o)
    BY <1>1, PromiseNow DEF Busy
  <1>10. /\ prep'[o] \in {"no", "cancel"} /\ (prep'[o] = "cancel" => Stopped(o))
         /\ prep'[o] # "no" \/ SavesOf(o)' # {} \/ active'[o] = e
    <2>1. \/ Stopped(o) /\ prep'[o] = "cancel"
          \/ prep'[o] = "no" /\ saves' # saves
          \/ prep'[o] = "no" /\ active'[o] = e
          \/ prep'[o] = "no" /\ Save(o, "blocked", "prepare") \in saves'
          \/ prep'[o] = "no" /\ Save(o, step, "prepare") \in saves'
      BY <1>3 DEF Types
    <2>2. \A out, by : Save(o, out, by) \in saves' => SavesOf(o)' # {}
      BY DEF Save, SavesOf
    <2> QED
      BY <1>8, <2>1, <2>2
  <1>11. Tended(o)'
    <2>1. SameRun(o)
      BY <1>1, SameRuns
    <2>2. Busy(o)' \/ active'[o] # None \/ outcome'[o] # "none"
      BY <1>2, <1>10 DEF Busy
    <2> QED
      BY <1>1, <1>5, <1>9, <1>10, <2>1, <2>2, HandledTended DEF Tended
  <1>12. Grounded(o)'
    <2>1. Founded(o)'
      BY <1>1, <1>9, FoundedLasts DEF Grounded
    <2>2. ASSUME NEW s \in SavesOf(o)' PROVE Grounds(o, s.out)'
      <3>1. s \in SavesOf(o) => Grounds(o, s.out)'
        BY <1>9, GroundsLast DEF Grounded
      <3>2. ASSUME NEW out, NEW by, s = Save(o, out, by), Grounds(o, out)' PROVE Grounds(o, s.out)'
        BY <3>2 DEF Save
      <3> QED
        BY <1>8, <2>2, <3>1, <3>2
    <2>3. outcome'[o] = "succeeded" => Produced(o)'
      BY <1>1, <1>9, ProducedLasts DEF Grounded
    <2>4. result'[e] = "none" /\ ~Stopped(o)' => active'[o] = e
      BY <1>1, <1>2, <1>3, <1>4, <1>5 DEF Types
    <2> QED
      BY <1>5, <2>1, <2>2, <2>3, <2>4 DEF Grounded
  <1>13. ASSUME NEW q \in Consumers, q # o PROVE Tended(q)' /\ Grounded(q)'
    <2>1. prep'[q] = prep[q] /\ active'[q] = active[q]
      BY <1>2, <1>3, <1>13 DEF Types
    <2>2. Spared(q) /\ SameRun(q)
      BY <1>1, <1>8, <1>13, <2>1, SameRuns DEF Spared
    <2>3. Tended(q)'
      BY <2>2, PromiseNow, SparedTended
    <2>4. Founded(q) => Founded(q)'
      BY FoundedLasts
    <2>5. Produced(q) => Produced(q)'
      BY ProducedLasts
    <2>6. \A s \in SavesOf(q)' : Grounds(q, s.out)'
      BY <2>2, PromiseNow, GroundsLast DEF Spared, Grounded
    <2>7. Stopped(q) <=> Stopped(q)'
      BY <1>1 DEF Stopped
    <2>8. Grounded(q)'
      BY <1>1, <1>5, <1>13, <2>2, <2>4, <2>5, <2>6, <2>7, PromiseNow DEF Spared, Grounded
    <2> QED
      BY <2>3, <2>8
  <1> QED
    BY <1>11, <1>12, <1>13

LEMMA WithdrawalKept ==
  ASSUME ControlInv, OnceInv, PromiseInv, [Next]_vars, NEW o \in Consumers,
         WithdrawStart(o) \/ WithdrawGate(o) \/ WithdrawResume(o) \/ WithdrawInterrupt(o)
  PROVE  \A q \in Consumers : Tended(q)' /\ Grounded(q)'
  <1> USE Basics
  <1>1. /\ UNCHANGED <<runs, remaining, prep, blocking, outcome, delivered, linked>>
        /\ wd[o].at # "no" /\ Stopped(o)
        /\ \/ UNCHANGED <<saves, active>>
           \/ /\ \E by : \E out \in {"cancelled", "blocked"} : saves' = saves \cup {Save(o, out, by)}
              /\ active' = [active EXCEPT ![o] = None] /\ active[o] # None
    BY WithdrawalReports
  <1>2. \A q \in Consumers : SameRun(q)
    BY <1>1, SameRuns
  <1>3. CASE UNCHANGED <<saves, active>>
    <2>1. \A q \in Consumers : Spared(q)
      BY <1>1, <1>3, SavesSame DEF Spared
    <2> QED
      BY <1>1, <1>2, <2>1, SparedKept
  <1>4. ASSUME NEW out \in {"cancelled", "blocked"}, NEW by, saves' = saves \cup {Save(o, out, by)},
               active' = [active EXCEPT ![o] = None], active[o] # None
        PROVE  \A q \in Consumers : Tended(q)' /\ Grounded(q)'
    <2>1. Tended(o) /\ Grounded(o) /\ Engaged(o)
      BY <1>1, <1>4, PromiseNow DEF Engaged, Over
    <2>2. SavesOf(o)' = SavesOf(o) \cup {Save(o, out, by)} /\ \A q : q # o => SavesOf(q)' = SavesOf(q)
      BY <1>4, SaveAdded
    <2>3. Grounds(o, out) /\ Save(o, out, by).out = out
      BY <1>1, <1>4 DEF Grounds, Save
    <2>4. Tended(o)'
      BY <1>1, <1>2, <2>1, <2>2, HandledTended DEF Tended, Busy, SameRun
    <2>5. Grounded(o)'
      BY <1>1, <2>1, <2>2, <2>3, GroundedStays
    <2>6. ASSUME NEW q \in Consumers, q # o PROVE Spared(q)
      BY <1>1, <1>4, <2>2, <2>6 DEF Spared, Types
    <2> QED
      BY <1>1, <1>2, <2>4, <2>5, <2>6, SparedKept
  <1> QED
    BY <1>1, <1>3, <1>4

LEMMA WorkerKept ==
  ASSUME ControlInv, OnceInv, PromiseInv, [Next]_vars, NEW e \in Consumers,
         Enter(e) \/ Refuse(e) \/ Finish(e) \/ TaskFails(e)
  PROVE  \A q \in Consumers : Tended(q)' /\ Grounded(q)'
  <1> USE Basics
  <1>1. UNCHANGED <<runs, remaining, prep, blocking, outcome, delivered, linked, saves, active>>
    BY DEF Enter, Refuse, Finish, TaskFails, Answered, runVars, planVars, prepVars, saveVars
  <1>2. \A q \in Consumers : SameRun(q) /\ Spared(q)
    BY <1>1, SameRuns, SavesSame DEF Spared
  <1> QED
    BY <1>1, <1>2, SparedKept

LEMMA SettleKept ==
  ASSUME ControlInv, OnceInv, PromiseInv, [Next]_vars, NEW e \in Consumers, Settle(e)
  PROVE  \A q \in Consumers : Tended(q)' /\ Grounded(q)'
  <1> DEFINE ours == entry[e].consumers
  <1> USE Basics
  <1>1. /\ UNCHANGED <<remaining, prep, outcome, blocking, delivered, linked>>
        /\ entry[e].task = "running" /\ result[e] # "none"
        /\ \E rs : runs' = runs \/ runs' = StopOf(rs)
        /\ active' = [o \in Consumers |-> IF o \in ours THEN None ELSE active[o]]
    BY DEF Settle, planVars, prepVars
  <1>2. PICK step : step = StepOf(e) /\ saves' = saves \cup {Save(o, step, "loop") : o \in ours}
    BY DEF Settle, StepOf
  <1>3. ~Over
    BY <1>1 DEF Over, Running
  <1>4. \A q \in Consumers : SameRun(q)
    BY <1>1, SameRuns
  <1>5. Ran(e) /\ Sealed(e) /\ Owned(e) /\ result[e] \in {"lost"} \cup Ends
    BY <1>1, PromiseNow, SealedNow, OwnedNow DEF Types
  <1>6. ASSUME NEW q \in Consumers, q \in ours PROVE Tended(q)' /\ Grounded(q)'
    <2>1. active[q] = e /\ linked[q] = e /\ e # None
      BY <1>5, <1>6, PromiseNow, NoneAssumption DEF Owned, Placed
    <2>2. entry[e].closing => Stopped(q)
      BY <1>5, <1>6 DEF Sealed
    <2>3. ~entry[e].abandoned
      BY <1>5, <1>6 DEF Sealed, Owners
    <2>4. Grounds(q, step)
      <3>1. CASE result[e] \in {"cancelled", "blocked"}
        <4>1. Stopped(q)
          BY <1>5, <2>2, <2>3, <3>1 DEF Ran, Sealed
        <4> QED
          BY <1>2, <3>1, <4>1 DEF Grounds, StepOf
      <3>2. CASE result[e] \in {"succeeded", "failed"}
        BY <1>2, <2>1, <3>2 DEF Grounds, StepOf, Produced
      <3>3. CASE result[e] = "lost"
        BY <1>2, <1>5, <3>3 DEF Grounds, StepOf, Ran
      <3> QED
        BY <1>5, <3>1, <3>2, <3>3 DEF Ends
    <2>5. SavesOf(q)' = SavesOf(q) \cup {Save(q, step, "loop")} /\ Save(q, step, "loop").out = step
      BY <1>2, <1>6 DEF SavesOf, Save
    <2>6. Tended(q) /\ Grounded(q) /\ Engaged(q)
      BY <1>3, <2>1, PromiseNow DEF Engaged
    <2>7. Tended(q)'
      BY <1>1, <1>4, <2>5, <2>6, HandledTended DEF Tended, Busy, SameRun
    <2>8. Grounded(q)'
      BY <1>1, <2>1, <2>4, <2>5, <2>6, GroundedStays
    <2> QED
      BY <2>7, <2>8
  <1>7. ASSUME NEW q \in Consumers, q \notin ours PROVE Tended(q)' /\ Grounded(q)'
    <2>1. SavesOf(q)' = SavesOf(q)
      BY <1>2, <1>7 DEF SavesOf, Save
    <2>2. Spared(q)
      BY <1>1, <1>7, <2>1 DEF Spared
    <2> QED
      BY <1>1, <1>4, <2>2, SparedKept
  <1> QED
    BY <1>6, <1>7

\* A Run that is reported has nothing left in hand.
LEMMA FinishedIdle ==
  ASSUME Types, NEW q \in Consumers, Finished(q[1])
  PROVE  ~Busy(q) /\ active[q] = None /\ Open(q)
  <1>1. /\ Open(q) /\ Of(q[1], remaining) = {} /\ Active(q[1]) = {} /\ Pending(q[1]) = 0
    BY DEF Finished, Open
  <1>2. q \notin remaining /\ active[q] = None
    BY <1>1 DEF Of, Active
  <1>3. prep[q] = "no" /\ q \notin blocking /\ SavesOf(q) = {}
    BY <1>1, NothingPending DEF SavesOf
  <1> QED
    BY <1>1, <1>2, <1>3 DEF Busy

LEMMA DriveKept ==
  ASSUME ControlInv, OnceInv, PromiseInv, [Next]_vars, Drive
  PROVE  \A q \in Consumers : Tended(q)' /\ Grounded(q)'
  <1> USE Basics
  <1>1. PICK P \in Nominations :
          /\ remaining' = remaining \ (ToBlock \cup P)
          /\ prep' = [o \in Consumers |-> IF o \in P /\ Satisfied(o) THEN "start" ELSE prep[o]]
          /\ saves' = saves \cup {Save(o, "blocked", "loop") : o \in {q \in P : ~Satisfied(q)}}
    BY DEF Drive
  <1>2. /\ UNCHANGED <<outcome, active, linked, delivered>> /\ blocking' = blocking \cup ToBlock
        /\ runs' = [r \in Runs |-> IF Finished(r) THEN [runs[r] EXCEPT !.state = "done"] ELSE runs[r]]
    BY DEF Drive
  <1>3. P \subseteq Ready
    BY DEF Nominations
  <1>4. ASSUME NEW q \in Consumers
        PROVE  /\ Stopped(q)' = Stopped(q)
               /\ runs'[q[1]].state = IF Finished(q[1]) THEN "done" ELSE runs[q[1]].state
    BY <1>2, ConsumersAre DEF Stopped, Types, RunType
  <1>5. \A q \in P : /\ q \in Consumers /\ q \in remaining /\ q \notin ToBlock /\ prep[q] = "no"
                     /\ Needs(q) \subseteq delivered /\ SavesOf(q) = {} /\ q \notin blocking
    <2>1. ASSUME NEW q \in P
          PROVE  /\ q \in Consumers /\ q \in remaining /\ q \notin ToBlock
                 /\ Needs(q) \subseteq delivered
      BY <1>3 DEF Ready, ToBlock, Types
    <2>2. ASSUME NEW q \in P PROVE Undecided(q) /\ prep[q] = "no"
      BY <2>1, PromiseNow DEF Decided, Placed, Waiting
    <2> QED
      BY <2>1, <2>2 DEF Undecided, Free
  <1>6. ASSUME NEW q \in Consumers, q \in P \/ q \in ToBlock PROVE SameRun(q) /\ Tended(q) /\ Grounded(q) /\ Busy(q)
    <2>1. Busy(q)
      BY <1>5, <1>6 DEF Busy, ToBlock
    <2> QED
      BY <1>2, <1>4, <2>1, FinishedIdle, PromiseNow DEF SameRun
  <1>7. ASSUME NEW q \in P, Satisfied(q) PROVE Tended(q)' /\ Grounded(q)'
    <2>1. \A d \in Needs(q) : d \in Consumers /\ outcome[d] = "succeeded" /\ Grounded(d)
      BY <1>5, <1>7, PromiseNow DEF Satisfied, Types
    <2>2. Founded(q)
      BY <2>1 DEF Founded, Grounded
    <2>3. prep'[q] = "start" /\ SavesOf(q)' = SavesOf(q) /\ q \notin blocking'
      BY <1>1, <1>2, <1>5, <1>7 DEF SavesOf, Save
    <2>4. Tended(q)'
      BY <1>2, <1>5, <1>6, <2>3, HandledTended DEF Tended, Busy
    <2>5. Grounded(q)'
      BY <1>2, <1>5, <1>6, <2>2, <2>3, GroundedStays
    <2> QED
      BY <2>4, <2>5
  <1>8. ASSUME NEW q \in P, ~Satisfied(q) PROVE Tended(q)' /\ Grounded(q)'
    <2>1. PICK d \in Needs(q) : outcome[d] # "succeeded"
      BY <1>8 DEF Satisfied
    <2>2. d \in Consumers /\ outcome[d] # "none"
      BY <1>5, <2>1, PromiseNow DEF Tended, Types
    <2>3. Grounds(q, "blocked")
      BY <2>1, <2>2 DEF Grounds
    <2>4. prep'[q] = prep[q] /\ q \notin blocking'
      BY <1>1, <1>2, <1>5, <1>8
    <2>5. SavesOf(q)' = SavesOf(q) \cup {Save(q, "blocked", "loop")} /\ Save(q, "blocked", "loop").out = "blocked"
      BY <1>1, <1>8 DEF SavesOf, Save
    <2>6. Tended(q)'
      BY <1>2, <1>5, <1>6, <2>4, <2>5, HandledTended DEF Tended, Busy
    <2>7. Grounded(q)'
      BY <1>2, <1>5, <1>6, <2>3, <2>4, <2>5, GroundedStays
    <2> QED
      BY <2>6, <2>7
  <1>9. ASSUME NEW q \in Consumers, q \notin P
        PROVE  /\ prep'[q] = prep[q] /\ SavesOf(q)' = SavesOf(q)
               /\ q \in remaining' <=> q \in remaining /\ q \notin ToBlock
    BY <1>1, <1>9 DEF SavesOf, Save
  <1>10. ASSUME NEW q \in Consumers, q \notin P, q \in ToBlock PROVE Tended(q)' /\ Grounded(q)'
    <2>1. q \in blocking' /\ Stopped(q)'
      BY <1>2, <1>4, <1>10 DEF ToBlock
    <2>2. Tended(q)'
      BY <1>2, <1>6, <1>9, <1>10, <2>1, HandledTended DEF Tended, Busy
    <2>3. Grounded(q)'
      BY <1>2, <1>6, <1>9, <1>10, GroundedStays
    <2> QED
      BY <2>2, <2>3
  <1>11. ASSUME NEW q \in Consumers, q \notin P, q \notin ToBlock PROVE Tended(q)' /\ Grounded(q)'
    <2>1. Spared(q)
      BY <1>2, <1>9, <1>11 DEF Spared
    <2>2. CASE Finished(q[1])
      <3>1. ~Busy(q) /\ active[q] = None /\ Open(q) /\ Tended(q) /\ Grounded(q)
        BY <2>2, FinishedIdle, PromiseNow
      <3>2. ~Busy(q)' /\ active'[q] = None /\ ~Open(q)'
        BY <1>4, <2>1, <2>2, <3>1 DEF Spared, Busy, Open
      <3>3. Tended(q)'
        BY <1>4, <2>1, <3>1, <3>2 DEF Tended, Engaged, Open, Spared, Busy
      <3>4. Grounded(q)'
        BY <1>2, <2>1, <3>1, GroundedStays DEF Spared
      <3> QED
        BY <3>3, <3>4
    <2>3. CASE ~Finished(q[1])
      <3>1. SameRun(q)
        BY <1>2, <1>4, <2>3 DEF SameRun
      <3> QED
        BY <1>2, <2>1, <3>1, SparedKept
    <2> QED
      BY <2>2, <2>3
  <1> QED
    BY <1>7, <1>8, <1>10, <1>11

LEMMA DrainKept ==
  ASSUME ControlInv, OnceInv, PromiseInv, [Next]_vars, Drain
  PROVE  \A q \in Consumers : Tended(q)' /\ Grounded(q)'
  <1> USE Basics
  <1>1. UNCHANGED <<remaining, blocking, prep, active, saves, linked, delivered>> /\ driver = "failed"
    BY DEF Drain, planVars, prepVars
  <1>2. remaining = {} /\ ~Over
    BY <1>1 DEF OnceInv, Over
  <1>3. CASE UNCHANGED <<runs, outcome>>
    <2>1. \A q \in Consumers : Spared(q) /\ SameRun(q)
      BY <1>1, <1>3, SavesSame, SameRuns DEF Spared
    <2> QED
      BY <1>1, <2>1, SparedKept
  <1>4. CASE ~UNCHANGED <<runs, outcome>>
    <2>1. /\ outcome' = [o \in Consumers |->
                IF runs[o[1]].state = "open" /\ outcome[o] = "none" THEN "blocked" ELSE outcome[o]]
          /\ runs' = [r \in Runs |-> IF runs[r].state = "open"
                                       THEN [runs[r] EXCEPT !.state = "done"] ELSE runs[r]]
          /\ \A q \in Consumers : prep[q] = "no" /\ q \notin blocking /\ SavesOf(q) = {}
          /\ Over'
      BY <1>4, DrainEnds
    <2>2. ASSUME NEW q \in Consumers PROVE Tended(q)' /\ Grounded(q)'
      <3>1. ~Busy(q)' /\ ~Engaged(q)' /\ ~Busy(q) /\ Tended(q) /\ Grounded(q)
        BY <1>1, <1>2, <2>1, SavesSame, PromiseNow DEF Busy, Engaged
      <3>2. runs'[q[1]].state = (IF Open(q) THEN "done" ELSE runs[q[1]].state)
        BY <2>1, ConsumersAre DEF Types, RunType, Open
      <3>3. outcome'[q] = (IF Open(q) /\ outcome[q] = "none" THEN "blocked" ELSE outcome[q])
        BY <2>1 DEF Open
      <3>4. active[q] # None => Open(q)
        BY <1>2, <3>1 DEF Tended, Engaged
      <3>5. Tended(q)'
        BY <1>1, <3>1, <3>2, <3>3, <3>4 DEF Tended, Busy, Open
      <3>6. Grounded(q)'
        BY <1>1, <3>1, <3>3, SavesSame, GroundedStays
      <3> QED
        BY <3>5, <3>6
    <2> QED
      BY <2>2
  <1> QED
    BY <1>3, <1>4

LEMMA PromiseKeeps == ASSUME ControlInv, OnceInv, PromiseInv, [Next]_vars PROVE PromiseInv'
  <1> DEFINE Goal == \A q \in Consumers : Tended(q)' /\ Grounded(q)'
  <1>1. Goal
    <2>1. CASE Environment
      BY <2>1, CallersKept, ReportsKept, PreparationKept, WorkerKept DEF Environment, Carried
    <2>2. CASE LoopStep
      BY <2>2, ReportsKept, PreparationKept, BindDoneKept, WithdrawalKept, WorkerKept, SettleKept,
         DriveKept, DrainKept DEF LoopStep, Carried
    <2>3. CASE UNCHANGED vars
      <3>1. UNCHANGED <<runs, remaining, prep, blocking, outcome, delivered, linked, saves, active>>
        BY <2>3 DEF vars, runVars, planVars, prepVars, saveVars
      <3>2. \A q \in Consumers : SameRun(q) /\ Spared(q)
        BY <3>1, SameRuns, SavesSame DEF Spared
      <3> QED
        BY <3>1, <3>2, SparedKept, Basics
    <2> QED
      BY <2>1, <2>2, <2>3 DEF Next
  <1> QED
    BY <1>1, RanKeeps, ShutKeeps DEF PromiseInv

LEMMA PromiseStarts == Init => PromiseInv
  <1> SUFFICES ASSUME Init, NEW o \in Consumers PROVE Tended(o) /\ Grounded(o) /\ Ran(o)
    BY DEF PromiseInv, Init, Shut
  <1>1. runs[o[1]].state = "new" /\ SavesOf(o) = {}
    BY ConsumersAre DEF Init, SavesOf
  <1> QED
    BY <1>1 DEF Init, Tended, Grounded, Ran, Busy, Engaged, Open, NoEntry

\* While a Run is open somebody has each of its occurrences in hand, and what
\* is reported of an occurrence is what happened to it: a success was produced
\* by an execution linked to it, begun after all it depends on had succeeded.
THEOREM PromiseInductive == Spec => []PromiseInv
  <1>1. ControlInv /\ OnceInv /\ PromiseInv /\ [Next]_vars => PromiseInv'
    BY PromiseKeeps
  <1> QED
    BY <1>1, PromiseStarts, ControlInductive, OnceInductive, PTL DEF Spec

-----------------------------------------------------------------------------
(* What an occurrence needs is handed on before it gets an execution.      *)

\* What is decided of an occurrence is delivered, or is about to be, unless its
\* Run is stopped; and it is begun, or its Run ends, upon what was delivered.
Handed(o) ==
    /\ outcome[o] # "none" /\ o \notin delivered =>
          Stopped(o) \/ \E s \in SavesOf(o) : s.at = "deliver"
    /\ runs[o[1]].state = "done" /\ ~Stopped(o) => o \in delivered
    /\ prep[o] \notin {"no", "undo"} \/ linked[o] # None => Needs(o) \subseteq delivered
HandedInv == \A o \in Consumers : Handed(o)

LEMMA OthersReportNothing ==
  ASSUME [Next]_vars, ~Drain, \A s \in saves : ~Carried(s) /\ ~SaveUnheard(s),
         \A o \in Consumers : ~BlockItem(o)
  PROVE  saves \subseteq saves' /\ UNCHANGED <<outcome, delivered>>
  <1> DEFINE Goal == saves \subseteq saves' /\ UNCHANGED <<outcome, delivered>>
  <1> SUFFICES Goal
    OBVIOUS
  <1>1. CASE UNCHANGED saveVars
    BY <1>1 DEF saveVars
  <1>2. CASE Drive
    BY <1>2 DEF Drive
  <1>3. ASSUME NEW o \in Consumers, StopWaiting(o) \/ BindDone(o) \/ Settle(o) PROVE Goal
    BY <1>3 DEF StopWaiting, BindDone, Settle
  <1>4. ASSUME NEW o \in Consumers, CancelUnowned(o) \/ BindFails(o) \/ Undo(o) \/ PrepareFails(o) PROVE Goal
    BY <1>4 DEF CancelUnowned, BindFails, Undo, PrepareFails, Discard
  <1>5. ASSUME NEW o \in Consumers,
                WithdrawStart(o) \/ WithdrawGate(o) \/ WithdrawResume(o) \/ WithdrawInterrupt(o)
         PROVE  Goal
    <2>1. CASE WithdrawStart(o) \/ WithdrawGate(o)
      BY <2>1 DEF WithdrawStart, WithdrawGate, LeaveShared, Withdrawn, saveVars
    <2>2. CASE WithdrawResume(o)
      BY <2>2 DEF WithdrawResume, LeaveShared, Withdrawn
    <2>3. CASE WithdrawInterrupt(o)
      BY <2>3 DEF WithdrawInterrupt, saveVars
    <2> QED
      BY <1>5, <2>1, <2>2, <2>3
  <1> HIDE DEF Goal
  <1>6. ASSUME \/ \E r \in Runs : Submit(r) \/ \E force \in BOOLEAN : Stop(r, force)
               \/ Close \/ DriveFails
        PROVE  Goal
    BY <1>1, <1>6 DEF Submit, Stop, Close, DriveFails
  <1>7. ASSUME NEW o \in Consumers,
               \/ Join(o) \/ Acquire(o) \/ AwaitSettled(o)
               \/ Enter(o) \/ Refuse(o) \/ Finish(o) \/ TaskFails(o)
        PROVE  Goal
    BY <1>1, <1>7 DEF Join, Acquire, AwaitSettled, Attached, Enter, Refuse, Finish, TaskFails, Answered
  <1>8. CASE Environment
    BY <1>4, <1>6, <1>7, <1>8 DEF Environment, Carried
  <1>9. CASE LoopStep
    BY <1>2, <1>3, <1>4, <1>5, <1>7, <1>9 DEF LoopStep, Carried
  <1> QED
    BY <1>1, <1>8, <1>9 DEF Next, vars

\* A save delivers what it recorded, or stops the Run.
LEMMA SaveHandsOn ==
  ASSUME ControlInv, OnceInv, HandedInv, Lasting, NEW s \in saves, Carried(s) \/ SaveUnheard(s)
  PROVE  /\ delivered \subseteq delivered'
         /\ \A q \in Consumers : outcome'[q] # "none" /\ q \notin delivered' =>
               Stopped(q)' \/ \E x \in SavesOf(q)' : x.at = "deliver"
  <1> DEFINE o == s.who
  <1>1. /\ Types /\ s \in SaveType /\ o \in Consumers /\ s \in SavesOf(o) /\ s.out \in Ends
        /\ o[1] \in Runs /\ outcome \in [Consumers -> {"none"} \cup Ends]
    BY SavesAre, ConsumersAre DEF ControlInv, Types, SaveType, SavesOf
  <1>2. Decided(o) /\ Handed(o)
    BY <1>1, OnceNow DEF HandedInv
  <1>3. delivered \subseteq delivered' /\ delivered' \subseteq delivered \cup {o}
    BY <1>1, SaveGoesOn DEF SaveUnheard
  <1>4. outcome' = outcome \/ outcome' = [outcome EXCEPT ![o] = s.out]
    BY <1>1, SaveGoesOn DEF SaveUnheard
  <1>5. \A x \in saves : x # s => x \in saves'
    <2>1. CASE Carried(s)
      BY <1>1, <2>1, SaveGoesOn
    <2>2. CASE SaveUnheard(s)
      BY <2>2 DEF SaveUnheard
    <2> QED
      BY <2>1, <2>2
  <1>6. ASSUME NEW q \in Consumers, q # o, outcome'[q] # "none", q \notin delivered'
        PROVE  Stopped(q)' \/ \E x \in SavesOf(q)' : x.at = "deliver"
    <2>1. outcome[q] # "none" /\ q \notin delivered /\ Handed(q)
      BY <1>1, <1>3, <1>4, <1>6 DEF HandedInv
    <2>2. SavesOf(q) \subseteq SavesOf(q)'
      BY <1>5, <1>6 DEF SavesOf
    <2> QED
      BY <2>1, <2>2 DEF Handed, Lasting
  <1>7. CASE o \in delivered'
    BY <1>3, <1>6, <1>7
  <1>8. CASE \E at \in {"deliver"} : Moved(s, at) \in saves'
    <2>1. Moved(s, "deliver") \in SavesOf(o)' /\ Moved(s, "deliver").at = "deliver"
      BY <1>8 DEF SavesOf, Moved
    <2> QED
      BY <1>3, <1>6, <2>1
  <1>9. CASE Stopped(o)'
    BY <1>3, <1>6, <1>9
  <1>10. CASE s.at = "announce"
    <2>1. outcome[o] # "none" /\ \A x \in SavesOf(o) : x.at # "deliver"
      BY <1>1, <1>2, <1>10 DEF Decided, Ends
    <2>2. o \in delivered \/ Stopped(o)
      BY <1>2, <2>1 DEF Handed
    <2> QED
      BY <1>1, <1>3, <1>7, <1>9, <2>2 DEF Lasting
  <1>11. CASE SaveRecords(s)
    <2>1. CASE s.out = "succeeded"
      <3>1. [s EXCEPT !.at = "deliver"] \in saves' /\ [s EXCEPT !.at = "deliver"] = Moved(s, "deliver")
        BY <1>1, <1>11, <2>1 DEF SaveRecords, Proceeds, SaveType, Moved
      <3> QED
        BY <1>8, <3>1
    <2>2. CASE s.out # "succeeded"
      BY <1>7, <1>11, <2>2 DEF SaveRecords
    <2> QED
      BY <2>1, <2>2
  <1>12. CASE SaveDelivers(s)
    BY <1>7, <1>12 DEF SaveDelivers
  <1>13. CASE SaveUndelivered(s)
    <2>1. runs' = StopOf({o[1]})
      BY <1>13 DEF SaveUndelivered
    <2>2. runs'[o[1]].stopped
      BY <1>1, <2>1, StopKeepsState
    <2> QED
      BY <1>9, <2>2 DEF Stopped
  <1>14. CASE SaveAnnounced(s) \/ SaveUnheard(s)
    BY <1>10, <1>14 DEF SaveAnnounced, SaveUnheard, Saving
  <1> QED
    BY <1>11, <1>12, <1>13, <1>14 DEF Carried

\* Delivered outputs stay delivered, and an outcome finds its delivery.
LEMMA DeliveryKept ==
  ASSUME ControlInv, OnceInv, PromiseInv, HandedInv, [Next]_vars
  PROVE  /\ delivered \subseteq delivered'
         /\ \A q \in Consumers : outcome'[q] # "none" /\ q \notin delivered' =>
               Stopped(q)' \/ \E x \in SavesOf(q)' : x.at = "deliver"
  <1> USE Basics
  <1>1. CASE saves \subseteq saves' /\ UNCHANGED <<outcome, delivered>>
    BY <1>1 DEF HandedInv, Handed, SavesOf, Lasting
  <1>2. ASSUME NEW s \in saves, Carried(s) \/ SaveUnheard(s)
        PROVE  /\ delivered \subseteq delivered'
               /\ \A q \in Consumers : outcome'[q] # "none" /\ q \notin delivered' =>
                     Stopped(q)' \/ \E x \in SavesOf(q)' : x.at = "deliver"
    BY <1>2, SaveHandsOn
  <1>3. ASSUME NEW o \in Consumers, BlockItem(o)
        PROVE  /\ delivered \subseteq delivered'
               /\ \A q \in Consumers : outcome'[q] # "none" /\ q \notin delivered' =>
                     Stopped(q)' \/ \E x \in SavesOf(q)' : x.at = "deliver"
    <2>1. /\ delivered' = delivered \cup {o} /\ UNCHANGED saves
          /\ outcome' = [outcome EXCEPT ![o] = "blocked"]
      BY <1>3 DEF BlockItem
    <2>2. \A q \in Consumers : SavesOf(q)' = SavesOf(q)
      BY <2>1, SavesSame
    <2> QED
      BY <2>1, <2>2 DEF HandedInv, Handed, Lasting, Types
  <1>4. CASE Drain
    <2>1. driver = "failed" /\ UNCHANGED <<saves, delivered>>
      BY <1>4 DEF Drain
    <2>2. \A q \in Consumers : Open(q) => Stopped(q)
      BY <2>1, ConsumersAre DEF OnceInv, PromiseInv, Shut, Open, Stopped
    <2>3. \A q \in Consumers : outcome'[q] = outcome[q] \/ Open(q)
      BY <1>4 DEF Drain, Open
    <2>4. \A q \in Consumers : SavesOf(q)' = SavesOf(q)
      BY <2>1, SavesSame
    <2> QED
      BY <2>1, <2>2, <2>3, <2>4 DEF HandedInv, Handed, Lasting
  <1> QED
    BY <1>1, <1>2, <1>3, <1>4, OthersReportNothing

\* A Run that nothing stopped ends with everything delivered.
LEMMA EndsDelivered ==
  ASSUME ControlInv, OnceInv, PromiseInv, HandedInv, [Next]_vars,
         NEW q \in Consumers, runs'[q[1]].state = "done", ~Stopped(q)'
  PROVE  q \in delivered'
  <1> USE Basics, ConsumersAre
  <1>1. ~Stopped(q) /\ Handed(q) /\ Tended(q) /\ delivered \subseteq delivered' /\ runs \in [Runs -> RunType]
    BY DeliveryKept, PromiseNow DEF HandedInv, Lasting, Types
  <1>2. CASE runs[q[1]].state = "done"
    BY <1>1, <1>2 DEF Handed
  <1>3. CASE RunsOnly
    BY <1>2, <1>3, StopKeepsState DEF RunsOnly
  <1>4. ASSUME NEW r \in Runs, Submit(r) PROVE q \in delivered'
    BY <1>1, <1>2, <1>4 DEF Submit, RunType
  <1>5. ASSUME NEW r \in Runs, NEW force \in BOOLEAN, Stop(r, force) PROVE q \in delivered'
    BY <1>1, <1>2, <1>5 DEF Stop, RunType
  <1>6. CASE Close \/ DriveFails
    BY <1>2, <1>6, StopKeepsState DEF Close, DriveFails
  <1>7. CASE Drive
    <2>1. runs[q[1]].state = "done" \/ Finished(q[1])
      BY <1>1, <1>7 DEF Drive
    <2>2. CASE Finished(q[1])
      <3>1. ~Busy(q) /\ active[q] = None /\ Open(q)
        BY <2>2, FinishedIdle
      <3>2. outcome[q] # "none" /\ SavesOf(q) = {}
        BY <1>1, <3>1 DEF Tended, Open, Busy
      <3> QED
        BY <1>1, <3>2 DEF Handed
    <2> QED
      BY <1>2, <2>1, <2>2
  <1>8. CASE Drain
    <2>1. Open(q) => Stopped(q)
      BY <1>8 DEF Drain, OnceInv, PromiseInv, Shut, Open, Stopped
    <2>2. runs[q[1]].state = "done" \/ Open(q)
      BY <1>1, <1>8 DEF Drain, Open
    <2> QED
      BY <1>1, <1>2, <2>1, <2>2
  <1> QED
    BY <1>3, <1>4, <1>5, <1>6, <1>7, <1>8, OthersOnlyStop

\* Only an occurrence with all it needs is nominated, and only a nominated one
\* is linked.
LEMMA BegunUponDelivery ==
  ASSUME ControlInv, OnceInv, PromiseInv, HandedInv, [Next]_vars, NEW q \in Consumers,
         prep'[q] \notin {"no", "undo"} \/ linked'[q] # None
  PROVE  Needs(q) \subseteq delivered'
  <1> USE Basics
  <1>1. Handed(q) /\ delivered \subseteq delivered'
    BY DeliveryKept DEF HandedInv
  <1>2. CASE prep[q] \notin {"no", "undo"} \/ linked[q] # None
    BY <1>1, <1>2 DEF Handed
  <1>3. CASE Drive
    <2>1. PICK P \in Nominations :
            prep' = [o \in Consumers |-> IF o \in P /\ Satisfied(o) THEN "start" ELSE prep[o]]
      BY <1>3 DEF Drive
    <2>2. linked' = linked
      BY <1>3 DEF Drive
    <2>3. CASE q \in P
      <3>1. q \in Ready
        BY <2>3 DEF Nominations
      <3> QED
        BY <1>1, <3>1 DEF Ready
    <2> QED
      BY <1>2, <2>1, <2>2, <2>3
  <1>4. CASE ~Drive /\ prep'[q] \notin {"no", "undo"}
    BY <1>2, <1>4, OthersPrepareNone
  <1>5. CASE linked'[q] # None
    <2>1. ASSUME NEW o \in Consumers, BindDone(o) PROVE linked[q] # None \/ prep[q] = "bind"
      BY <1>5, <2>1 DEF BindDone, Types
    <2>2. ASSUME NEW e \in Consumers, Enter(e) \/ Refuse(e) \/ Finish(e) \/ TaskFails(e)
          PROVE  linked' = linked
      BY <2>2, WorkerAnswers
    <2> QED
      BY <1>2, <1>5, <2>1, <2>2, OthersUnlink DEF Unlinking
  <1> QED
    BY <1>3, <1>4, <1>5

LEMMA HandedKeeps == ASSUME ControlInv, OnceInv, PromiseInv, HandedInv, [Next]_vars PROVE HandedInv'
  <1> SUFFICES ASSUME NEW q \in Consumers PROVE Handed(q)'
    BY DEF HandedInv
  <1> QED
    BY DeliveryKept, EndsDelivered, BegunUponDelivery DEF Handed

LEMMA HandedStarts == Init => HandedInv
  BY ConsumersAre DEF Init, HandedInv, Handed

\* Nothing gets an execution before the work of everything it needs succeeded
\* and its outputs were handed on, and a Run that nothing stopped ends with all
\* of its outputs handed on: the separate steps of _save, their failures and the
\* driver's nominations, for any Runs, Plans, capacities and failures.
THEOREM OutputsHandedOn == Spec => []OutputsAreHandedOn
  <1>1. ControlInv /\ OnceInv /\ PromiseInv /\ HandedInv /\ [Next]_vars => HandedInv'
    BY HandedKeeps
  <1>2. ControlInv /\ OnceInv /\ PromiseInv /\ HandedInv => OutputsAreHandedOn
    <2> SUFFICES ASSUME ControlInv, OnceInv, PromiseInv, HandedInv PROVE OutputsAreHandedOn
      OBVIOUS
    <2>1. ASSUME NEW o \in Consumers, linked[o] # None, NEW d \in Needs(o)
          PROVE  d \in delivered /\ linked[d] # None /\ result[linked[d]] = "succeeded"
      <3>1. Handed(o) /\ Founded(o)
        BY <2>1, PromiseNow DEF HandedInv, Grounded
      <3> QED
        BY <2>1, <3>1 DEF Handed, Founded, Produced
    <2>2. ASSUME NEW r \in Runs, runs[r].state = "done", ~runs[r].stopped
          PROVE  Of(r, Consumers) \subseteq delivered
      BY <2>2 DEF Of, HandedInv, Handed, Stopped
    <2> QED
      BY <2>1, <2>2 DEF OutputsAreHandedOn
  <1> QED
    BY <1>1, <1>2, HandedStarts, ControlInductive, OnceInductive, PromiseInductive, PTL DEF Spec

-----------------------------------------------------------------------------
(* The controller implements Study: every step is one of the promise, or   *)
(* changes nothing that it speaks about.                                   *)

SameStates == \A r \in Runs : runs'[r].state = runs[r].state
SameWork == \A e \in Consumers : WorkOf(e)' = WorkOf(e)

\* At most Runs are stopped.
LEMMA QuietStep ==
  ASSUME SameStates, Grown, SameWork, UNCHANGED <<linked, outcome>>
  PROVE  Promised!Next
  <1>1. Promised!Stop
    BY DEF Promised!Stop, SameStates, SameWork, Grown
  <1> QED
    BY <1>1 DEF Promised!Next

\* What happened to an occurrence is what may be said of it.
LEMMA GroundsJustify ==
  ASSUME Types, NEW o \in Consumers, NEW out \in Ends, Grounds(o, out)
  PROVE  Promised!Justified(o, out)
  <1>1. linked[o] \in Consumers \cup {None} /\ o[1] \in Runs
    BY ConsumersAre DEF Types
  <1>2. \A e \in Consumers : result[e] \notin {"none", "blocked"} => WorkOf(e) = result[e]
    BY DEF WorkOf
  <1>3. \A a \in {"succeeded", "failed"} : linked[o] # None /\ result[linked[o]] = a => Promised!Came(o, a)
    BY <1>1, <1>2 DEF Promised!Came
  <1>4. CASE out = "succeeded"
    BY <1>3, <1>4 DEF Grounds, Produced, Promised!Justified
  <1>5. CASE out = "failed"
    BY <1>3, <1>5 DEF Grounds, Promised!Justified
  <1>6. CASE out = "cancelled"
    BY <1>1, <1>6 DEF Grounds, Stopped, Promised!Justified
  <1>7. CASE out = "blocked"
    BY <1>1, <1>7 DEF Grounds, Stopped, Promised!Justified
  <1> QED
    BY <1>4, <1>5, <1>6, <1>7 DEF Ends

LEMMA ReportStep ==
  ASSUME Types, NEW o \in Consumers, NEW out \in Ends, Open(o), outcome' = [outcome EXCEPT ![o] = out],
         runs' = runs \/ runs' = StopOf({o[1]}), SameWork, UNCHANGED linked,
         \/ outcome[o] = "none" /\ Grounds(o, out)
         \/ outcome[o] # "none" /\ "event" \in Faults /\ out = "failed"
  PROVE  Promised!Next
  <1>1. SameStates
    BY StopKeepsState DEF SameStates
  <1>2. {r \in Runs : runs'[r].stopped} \in {{r \in Runs : runs[r].stopped}, {r \in Runs : runs[r].stopped} \cup {o[1]}}
    BY StopKeepsState, ConsumersAre
  <1>3. Promised!Report(o, out)
    BY <1>1, <1>2, ConsumersAre DEF SameStates, SameWork, Open, Promised!Report, Promised!Open
  <1>4. CASE outcome[o] = "none" /\ Grounds(o, out)
    BY <1>3, <1>4, GroundsJustify DEF Promised!Decide, Promised!Next, Ends
  <1>5. CASE outcome[o] # "none" /\ "event" \in Faults /\ out = "failed"
    BY <1>3, <1>5 DEF Promised!Revise, Promised!Next
  <1> QED
    BY <1>4, <1>5

LEMMA SameGates == ASSUME UNCHANGED <<gate, result>> PROVE SameWork
  BY DEF SameWork, WorkOf

LEMMA StatesStay == ASSUME Types, RunsOnly PROVE SameStates
  BY StopKeepsState DEF RunsOnly, SameStates

\* What callers do, and what becomes of a broken driver.
LEMMA CallersPromise ==
  ASSUME ControlInv, [Next]_vars,
         \/ \E r \in Runs : Submit(r) \/ \E force \in BOOLEAN : Stop(r, force)
         \/ Close \/ DriveFails
  PROVE  Promised!Next
  <1>1. /\ UNCHANGED <<gate, result, linked, outcome>> /\ Types /\ Grown
        /\ runs \in [Runs -> RunType]
    BY RunsGrow DEF Submit, Stop, Close, DriveFails, gateVars, prepVars, saveVars, ControlInv, Types
  <1>2. SameWork
    BY <1>1, SameGates
  <1>3. ASSUME NEW r \in Runs, Submit(r) PROVE Promised!Next
    <2>1. \A q \in Runs : /\ runs'[q].state = (IF q = r THEN "open" ELSE runs[q].state)
                          /\ runs'[q].stopped = runs[q].stopped
      BY <1>1, <1>3 DEF Submit, RunType
    <2>2. runs[r].state = "new"
      BY <1>3 DEF Submit
    <2>3. Promised!Submit(r)
      BY <1>1, <1>2, <2>1, <2>2 DEF Promised!Submit, SameWork
    <2> QED
      BY <2>3 DEF Promised!Next
  <1>4. ASSUME NEW r \in Runs, NEW force \in BOOLEAN, Stop(r, force) PROVE Promised!Next
    <2>1. SameStates
      BY <1>1, <1>4 DEF Stop, SameStates, RunType
    <2> QED
      BY <1>1, <1>2, <2>1, QuietStep
  <1>5. CASE Close \/ DriveFails
    <2>1. SameStates
      BY <1>1, <1>5, StopKeepsState DEF Close, DriveFails, SameStates
    <2> QED
      BY <1>1, <1>2, <2>1, QuietStep
  <1> QED
    BY <1>3, <1>4, <1>5

\* What is reported of an occurrence is what happened to it, and decided once.
LEMMA ReportsPromise ==
  ASSUME ControlInv, OnceInv, PromiseInv,
         \/ \E s \in saves : Carried(s) \/ SaveUnheard(s)
         \/ \E o \in Consumers : BlockItem(o)
  PROVE  Promised!Next
  <1>1. UNCHANGED <<gate, result>> /\ Types
    BY Reporting DEF ControlInv
  <1>2. SameWork
    BY <1>1, SameGates
  <1>3. UNCHANGED linked
    BY DEF Carried, SaveRecords, SaveDelivers, SaveUndelivered, SaveAnnounced, SaveUnheard, Saving, Proceeds, BlockItem, prepVars
  <1>4. ASSUME NEW s \in saves, Carried(s) \/ SaveUnheard(s) PROVE Promised!Next
    <2>1. s.who \in Consumers /\ s \in SavesOf(s.who) /\ s.out \in Ends
      BY <1>1, SavesAre DEF SavesOf, SaveType
    <2>2. \/ UNCHANGED outcome
          \/ s.at = "record" /\ outcome' = [outcome EXCEPT ![s.who] = s.out]
      BY <1>1, <1>4, SaveGoesOn DEF SaveUnheard
    <2>3. runs' = runs \/ runs' = StopOf({s.who[1]})
      BY <1>1, <1>4, SaveGoesOn DEF SaveUnheard
    <2>4. CASE UNCHANGED outcome
      <3>1. UNCHANGED closed
        BY <1>4 DEF Carried, SaveRecords, SaveDelivers, SaveUndelivered, SaveAnnounced, SaveUnheard, Saving
      <3>2. SameStates
        BY <1>1, <2>3, <3>1, StatesStay DEF RunsOnly
      <3>3. Grown
        BY <1>1, <2>3, StopOfGrows DEF Grown, Types
      <3> QED
        BY <1>2, <1>3, <2>4, <3>2, <3>3, QuietStep
    <2>5. CASE s.at = "record" /\ outcome' = [outcome EXCEPT ![s.who] = s.out]
      <3>1. Open(s.who) /\ Grounds(s.who, s.out) /\ Decided(s.who)
        BY <2>1, PromiseNow DEF Tended, Busy, Grounded
      <3>2. outcome[s.who] # "none" => "event" \in Faults /\ s.out = "failed"
        BY <2>1, <2>5, <3>1 DEF Decided
      <3> QED
        BY <1>1, <1>2, <1>3, <2>1, <2>3, <2>5, <3>1, <3>2, ReportStep
    <2> QED
      BY <2>2, <2>4, <2>5
  <1>5. ASSUME NEW o \in Consumers, BlockItem(o) PROVE Promised!Next
    <2>1. o \in blocking /\ outcome' = [outcome EXCEPT ![o] = "blocked"] /\ runs' = runs
      BY <1>5 DEF BlockItem, runVars
    <2>2. Open(o) /\ Stopped(o) /\ outcome[o] = "none"
      BY <2>1, PromiseNow DEF Tended, Busy, Decided
    <2>3. Grounds(o, "blocked")
      BY <2>2 DEF Grounds
    <2> QED
      BY <1>1, <1>2, <1>3, <2>1, <2>2, <2>3, ReportStep DEF Ends
  <1> QED
    BY <1>4, <1>5

\* A preparation links its occurrence to an execution somebody may join.
LEMMA BindingPromise ==
  ASSUME ControlInv, OnceInv, PromiseInv, NEW o \in Consumers, BindDone(o)
  PROVE  Promised!Next
  <1> DEFINE e == target[o]
  <1>1. /\ UNCHANGED <<runs, outcome, gate, result>> /\ prep[o] = "bind" /\ linked' = [linked EXCEPT ![o] = e]
    BY DEF BindDone, runVars, gateVars
  <1>2. /\ e \in Consumers /\ ~entry[e].abandoned /\ ~entry[e].closing /\ Key(e) = Key(o)
        /\ linked[o] = None
    BY <1>1, Binds
  <1>3. Types /\ Sealed(e) /\ Ran(e) /\ Tended(o) /\ Grounded(o) /\ Decided(o)
    BY <1>2, SealedNow, PromiseNow
  <1>4. Open(o) /\ Founded(o) /\ outcome[o] = "none"
    BY <1>1, <1>3 DEF Tended, Busy, Grounded, Decided, Undecided
  <1>5. WorkOf(e) \notin {"closed", "cancelled"}
    <2>1. gate[e] # "cancelled" /\ result[e] # "cancelled"
      BY <1>2, <1>3 DEF Sealed, Ran
    <2>2. result[e] # "closed"
      BY <1>2, <1>3 DEF Types, Ends
    <2> QED
      BY <2>1, <2>2 DEF WorkOf
  <1>6. \A d \in Needs(o) : Promised!Came(d, "succeeded")
    BY <1>3, <1>4 DEF Founded, Produced, Promised!Came, WorkOf, Types
  <1>7. SameWork
    BY <1>1, SameGates
  <1> HIDE DEF e
  <1>8. Promised!Link(o, e)
    <2>1. Promised!Open(o) /\ o[1] \in Runs
      BY <1>4, ConsumersAre DEF Promised!Open, Open
    <2>2. [x \in Consumers |-> WorkOf(x)][e] \notin {"closed", "cancelled"}
      BY <1>2, <1>5
    <2>3. [x \in Consumers |-> WorkOf(x)]' = [x \in Consumers |-> WorkOf(x)]
      BY <1>7 DEF SameWork
    <2>4. \A d \in [x \in Consumers |-> Needs(x)][o] : Promised!Came(d, "succeeded")
      BY <1>6
    <2>5. [x \in Consumers |-> Key(x)][o] = [x \in Consumers |-> Key(x)][e]
      BY <1>2
    <2> QED
      BY <1>1, <1>2, <1>4, <2>1, <2>2, <2>3, <2>4, <2>5 DEF Promised!Link
  <1> QED
    BY <1>2, <1>8 DEF Promised!Next

\* Nobody who still wants it is linked to an execution that is being closed.
LEMMA ClosingUnwanted ==
  ASSUME ControlInv, OnceInv, PromiseInv, NEW e \in Consumers, result[e] = "none",
         entry[e].abandoned \/ entry[e].closing
  PROVE  Promised!Unwanted(e)
  <1>1. Sealed(e)
    BY SealedNow
  <1>2. ASSUME NEW o \in Consumers, linked[o] = e PROVE o[1] \in Runs /\ Stopped(o)
    <2>1. Grounded(o) /\ Placed(o) /\ o[1] \in Runs /\ e # None
      BY PromiseNow, ConsumersAre, NoneAssumption
    <2>2. ~Stopped(o) => o \in entry[e].consumers
      BY <1>2, <2>1 DEF Grounded, Placed
    <2> QED
      BY <1>1, <2>1, <2>2 DEF Sealed, Owners
  <1> QED
    BY <1>2 DEF Promised!Unwanted, Stopped

\* A gate that is found ready is closed for good.
LEMMA ClosingPromise ==
  ASSUME ControlInv, OnceInv, PromiseInv, UNCHANGED <<runs, result, linked, outcome>>,
         NEW e \in Consumers, gate' \in {gate, Closed(e)}, entry[e].abandoned \/ entry[e].closing
  PROVE  Promised!Next
  <1>1. Types /\ Ran(e)
    BY PromiseNow
  <1>2. SameStates /\ Grown
    BY DEF SameStates, Grown
  <1>3. CASE gate' = gate
    BY <1>2, <1>3, SameGates, QuietStep
  <1>4. CASE gate' # gate
    <2>1. /\ gate[e] = "ready" /\ gate'[e] = "cancelled" /\ result[e] # "blocked"
          /\ \A x \in Consumers : x # e => WorkOf(x)' = WorkOf(x)
      BY <1>1, <1>4 DEF Closed, Types, WorkOf, Ran
    <2>2. CASE result[e] # "none"
      <3>1. SameWork
        BY <2>1, <2>2 DEF SameWork, WorkOf
      <3> QED
        BY <1>2, <3>1, QuietStep
    <2>3. CASE result[e] = "none"
      <3>1. WorkOf(e) = "idle" /\ WorkOf(e)' = "closed"
        BY <2>1, <2>3 DEF WorkOf
      <3>2. Promised!CloseOff(e)
        BY <2>1, <2>3, <3>1, ClosingUnwanted DEF Promised!CloseOff, Promised!Becomes
      <3> QED
        BY <3>2 DEF Promised!Next
    <2> QED
      BY <2>2, <2>3
  <1> QED
    BY <1>3, <1>4

\* The other steps of a preparation or of a withdrawal are nobody else's affair.
LEMMA PreparationPromise ==
  ASSUME ControlInv, OnceInv, PromiseInv, NEW o \in Consumers,
         \/ Join(o) \/ Acquire(o) \/ AwaitSettled(o) \/ StopWaiting(o)
         \/ CancelUnowned(o) \/ BindFails(o) \/ Undo(o) \/ PrepareFails(o)
  PROVE  Promised!Next
  <1>1. UNCHANGED <<runs, result, linked, outcome>>
    BY DEF Join, Acquire, AwaitSettled, Attached, StopWaiting, CancelUnowned, BindFails, Undo,
       PrepareFails, runVars, saveVars, gateVars
  <1>2. SameStates /\ Grown
    BY <1>1 DEF SameStates, Grown
  <1>3. CASE Join(o) \/ AwaitSettled(o) \/ StopWaiting(o) \/ BindFails(o) \/ PrepareFails(o)
    <2>1. UNCHANGED gate
      BY <1>3 DEF Join, AwaitSettled, StopWaiting, BindFails, PrepareFails, gateVars
    <2> QED
      BY <1>1, <1>2, <2>1, SameGates, QuietStep
  <1>4. CASE Acquire(o)
    <2>1. gate[o] = "none" /\ Owned(o) /\ Types
      BY <1>4, PromiseNow, OwnedNow DEF Acquire, MayAttach, Placed, Unstarted, Before
    <2>2. gate' \in {[gate EXCEPT ![o] = "ready"], [gate EXCEPT ![o] = "failed"]}
      BY <1>4 DEF Acquire
    <2>3. SameWork
      BY <1>1, <2>1, <2>2 DEF SameWork, WorkOf, Types
    <2> QED
      BY <1>1, <1>2, <2>3, QuietStep
  <1>5. CASE CancelUnowned(o) \/ Undo(o)
    <2>1. prep[o] \in {"cancel", "undo"} /\ gate' \in {gate, Closed(target[o])}
      BY <1>5 DEF CancelUnowned, Undo, Discard
    <2> QED
      BY <1>1, <2>1, Binds, ClosingPromise
  <1> QED
    BY <1>3, <1>4, <1>5

LEMMA WithdrawalPromise ==
  ASSUME ControlInv, OnceInv, PromiseInv, NEW o \in Consumers,
         WithdrawStart(o) \/ WithdrawGate(o) \/ WithdrawResume(o) \/ WithdrawInterrupt(o)
  PROVE  Promised!Next
  <1>1. UNCHANGED <<runs, result, linked, outcome>>
    BY WithdrawalReports
  <1>2. SameStates /\ Grown
    BY <1>1 DEF SameStates, Grown
  <1>3. CASE WithdrawStart(o) \/ WithdrawResume(o) \/ WithdrawInterrupt(o)
    <2>1. UNCHANGED gate
      BY <1>3, Resumes DEF WithdrawStart, WithdrawInterrupt, gateVars
    <2> QED
      BY <1>1, <1>2, <2>1, SameGates, QuietStep
  <1>4. CASE WithdrawGate(o)
    <2>1. wd[o].at = "gate" /\ gate' \in {gate, Closed(wd[o].entry)}
      BY <1>4, Withdrawals DEF WithdrawGate
    <2>2. wd[o].entry \in Consumers /\ entry[wd[o].entry].closing
      BY <2>1, UnderWithdrawal DEF Withdraws
    <2> QED
      BY <1>1, <2>1, <2>2, ClosingPromise
  <1> QED
    BY <1>3, <1>4

\* What the worker of an execution does.
LEMMA WorkerPromise ==
  ASSUME ControlInv, OnceInv, PromiseInv, NEW e \in Consumers,
         Enter(e) \/ Refuse(e) \/ Finish(e) \/ TaskFails(e)
  PROVE  Promised!Next
  <1>1. PICK g \in {gate[e], "entered", "finished"}, a \in {"none", "lost"} \cup Ends :
             /\ gate' = [gate EXCEPT ![e] = g] /\ result' = [result EXCEPT ![e] = a]
             /\ \/ gate[e] = "ready" /\ g = "entered" /\ a = "none"
                \/ gate[e] = "cancelled" /\ g = gate[e] /\ a = "blocked"
                \/ gate[e] = "entered" /\ g = "finished" /\ a \in {"succeeded", "failed"}
                \/ gate[e] = "entered" /\ g = "finished" /\ a = "cancelled" /\ e \in interrupts
                \/ g = gate[e] /\ a = "lost" /\ Faults # {}
    BY WorkerAnswers
  <1>2. /\ UNCHANGED <<runs, outcome, linked>> /\ result[e] = "none" /\ entry[e].task = "running"
    BY WorkerAnswers DEF Enter, Refuse, Finish, TaskFails, Answered, runVars, saveVars
  <1>3. Types /\ Owned(e) /\ Sealed(e)
    BY PromiseNow, OwnedNow, SealedNow
  <1>4. gate'[e] = g /\ result'[e] = a /\ \A x \in Consumers : x # e => WorkOf(x)' = WorkOf(x)
    BY <1>1, <1>3 DEF Types, WorkOf
  <1>5. \E o \in Consumers : linked[o] = e
    BY <1>2, <1>3 DEF Owned
  <1>6. ASSUME NEW to, WorkOf(e)' = to PROVE Promised!Becomes(e, to)
    BY <1>2, <1>4, <1>6 DEF Promised!Becomes
  <1>7. CASE gate[e] = "ready" /\ g = "entered" /\ a = "none"
    <2>1. WorkOf(e) = "idle" /\ WorkOf(e)' = "running"
      BY <1>2, <1>4, <1>7 DEF WorkOf
    <2>2. Promised!Start(e)
      BY <1>5, <1>6, <2>1 DEF Promised!Start
    <2> QED
      BY <2>2 DEF Promised!Next
  <1>8. CASE gate[e] = "cancelled" /\ g = gate[e] /\ a = "blocked"
    <2>1. WorkOf(e)' = WorkOf(e)
      BY <1>2, <1>4, <1>8 DEF WorkOf
    <2>2. SameWork /\ SameStates /\ Grown
      BY <1>2, <1>4, <2>1 DEF SameWork, SameStates, Grown
    <2> QED
      BY <1>2, <2>2, QuietStep
  <1>9. CASE gate[e] = "entered" /\ g = "finished" /\ a \in {"succeeded", "failed"}
    <2>1. WorkOf(e) = "running" /\ WorkOf(e)' = a
      BY <1>2, <1>4, <1>9 DEF WorkOf
    <2>2. Promised!End(e)
      BY <1>6, <1>9, <2>1 DEF Promised!End
    <2> QED
      BY <2>2 DEF Promised!Next
  <1>10. CASE gate[e] = "entered" /\ g = "finished" /\ a = "cancelled" /\ e \in interrupts
    <2>1. WorkOf(e) = "running" /\ WorkOf(e)' = "cancelled"
      BY <1>2, <1>4, <1>10 DEF WorkOf
    <2>2. Promised!Unwanted(e)
      BY <1>2, <1>3, <1>10, ClosingUnwanted DEF Sealed
    <2>3. Promised!End(e)
      BY <1>6, <2>1, <2>2 DEF Promised!End
    <2> QED
      BY <2>3 DEF Promised!Next
  <1>11. CASE g = gate[e] /\ a = "lost" /\ Faults # {}
    <2>1. WorkOf(e) \in {"idle", "running", "closed"} /\ WorkOf(e)' = "lost"
      BY <1>2, <1>4, <1>11 DEF WorkOf
    <2>2. Promised!Lose(e)
      BY <1>5, <1>6, <1>11, <2>1 DEF Promised!Lose
    <2> QED
      BY <2>2 DEF Promised!Next
  <1> QED
    BY <1>1, <1>7, <1>8, <1>9, <1>10, <1>11

\* A Run is reported when all its occurrences are.
LEMMA DrivePromise ==
  ASSUME ControlInv, OnceInv, PromiseInv, Drive PROVE Promised!Next
  <1>1. PICK R \in SUBSET Runs : R = {r \in Runs : Finished(r)}
    OBVIOUS
  <1>2. /\ UNCHANGED <<gate, result, linked, outcome>>
        /\ runs' = [r \in Runs |-> IF Finished(r) THEN [runs[r] EXCEPT !.state = "done"] ELSE runs[r]]
    BY DEF Drive, gateVars
  <1>3. \A r \in Runs : /\ runs'[r].state = (IF r \in R THEN "done" ELSE runs[r].state)
                        /\ runs'[r].stopped = runs[r].stopped
    BY <1>1, <1>2 DEF ControlInv, Types, RunType
  <1>4. ASSUME NEW o \in Consumers, o[1] \in R PROVE outcome[o] # "none"
    BY <1>1, <1>4, FinishedIdle, PromiseNow DEF Tended, Open
  <1>5. \A r \in R : runs[r].state = "open"
    BY <1>1 DEF Finished
  <1>6. SameWork
    BY <1>2, SameGates
  <1>7. Promised!Conclude(R)
    BY <1>2, <1>3, <1>4, <1>5, <1>6 DEF Promised!Conclude, SameWork
  <1> QED
    BY <1>7 DEF Promised!Next

\* A driver that broke leaves when its Runs have stopped and nothing runs.
LEMMA DrainPromise ==
  ASSUME ControlInv, OnceInv, PromiseInv, Drain PROVE Promised!Next
  <1>1. UNCHANGED <<gate, result, linked>> /\ driver = "failed" /\ Types
    BY DEF Drain, gateVars, prepVars, ControlInv
  <1>2. SameWork
    BY <1>1, SameGates
  <1>3. CASE UNCHANGED <<runs, outcome>>
    BY <1>1, <1>2, <1>3, QuietStep DEF SameStates, Grown
  <1>4. CASE ~UNCHANGED <<runs, outcome>>
    <2>1. /\ Running = {}
          /\ outcome' = [o \in Consumers |->
                IF runs[o[1]].state = "open" /\ outcome[o] = "none" THEN "blocked" ELSE outcome[o]]
          /\ runs' = [r \in Runs |-> IF runs[r].state = "open"
                                       THEN [runs[r] EXCEPT !.state = "done"] ELSE runs[r]]
      BY <1>4, DrainEnds
    <2>2. Faults # {} /\ \A r \in Runs : runs[r].state = "open" => runs[r].stopped
      BY <1>1 DEF OnceInv, PromiseInv, Shut
    <2>3. \A r \in Runs : /\ runs'[r].state = (IF runs[r].state = "open" THEN "done" ELSE runs[r].state)
                          /\ runs'[r].stopped = runs[r].stopped
      BY <1>1, <2>1 DEF Types, RunType
    <2>4. ASSUME NEW e \in Consumers PROVE WorkOf(e) # "running"
      <3>1. Owned(e) /\ Ran(e) /\ entry[e].task \in {"none", "done"}
        BY <2>1, OwnedNow, PromiseNow DEF Running, Types, EntryType
      <3>2. gate[e] = "entered" => result[e] \notin {"none", "blocked"}
        BY <3>1 DEF Owned, Ran
      <3>3. result[e] # "running"
        BY <1>1 DEF Types, Ends
      <3> QED
        BY <3>2, <3>3 DEF WorkOf
    <2>5. \A o \in Consumers : o[1] \in Runs
      BY ConsumersAre
    <2>6. outcome' = [o \in Consumers |->
              IF Promised!Open(o) /\ outcome[o] = "none" THEN "blocked" ELSE outcome[o]]
      BY <2>1, <2>5 DEF Promised!Open
    <2>7. Promised!GiveUp
      BY <1>1, <1>2, <2>2, <2>3, <2>4, <2>6 DEF Promised!GiveUp, SameWork
    <2> QED
      BY <2>7 DEF Promised!Next
  <1> QED
    BY <1>3, <1>4

LEMMA SettlePromise ==
  ASSUME ControlInv, [Next]_vars, NEW e \in Consumers, Settle(e) PROVE Promised!Next
  <1>1. /\ UNCHANGED <<gate, result, linked, outcome, closed>> /\ Types /\ Grown
        /\ \E rs : runs' = runs \/ runs' = StopOf(rs)
    BY RunsGrow DEF Settle, gateVars, prepVars, ControlInv
  <1>2. SameStates /\ SameWork
    BY <1>1, StatesStay, SameGates DEF RunsOnly
  <1> QED
    BY <1>1, <1>2, QuietStep

LEMMA StepsKeepThePromise ==
  ASSUME ControlInv, OnceInv, PromiseInv, [Next]_vars
  PROVE  [Promised!Next]_(Promised!vars)
  <1>1. CASE Environment
    BY <1>1, CallersPromise, ReportsPromise, PreparationPromise, WorkerPromise DEF Environment, Carried
  <1>2. CASE LoopStep
    BY <1>2, ReportsPromise, BindingPromise, PreparationPromise, WithdrawalPromise, WorkerPromise,
       SettlePromise, DrivePromise, DrainPromise DEF LoopStep, Carried
  <1>3. CASE UNCHANGED vars
    <2>1. UNCHANGED <<runs, gate, result, linked, outcome>>
      BY <1>3 DEF vars, runVars, gateVars, prepVars, saveVars
    <2>2. SameWork
      BY <2>1, SameGates
    <2> QED
      BY <2>1, <2>2 DEF Promised!vars, SameWork
  <1> QED
    BY <1>1, <1>2, <1>3 DEF Next

LEMMA PromiseBegins == Init => Promised!Init
  <1> SUFFICES ASSUME Init PROVE Promised!Init
    OBVIOUS
  <1>1. \A e \in Consumers : WorkOf(e) = "idle"
    BY DEF Init, WorkOf
  <1> QED
    BY <1>1 DEF Init, Promised!Init

\* However many callers share their work, stop, fail or break the driver, the
\* controller keeps what Study promises each of them.
THEOREM ControllerKeepsItsPromise == Spec => ImplementsStudy
  <1>1. ControlInv /\ OnceInv /\ PromiseInv /\ [Next]_vars => [Promised!Next]_(Promised!vars)
    BY StepsKeepThePromise
  <1> QED
    BY <1>1, PromiseBegins, ControlInductive, OnceInductive, PromiseInductive, PTL
       DEF Spec, ImplementsStudy, Promised!Spec
=============================================================================
