----------------------------- MODULE Controller -----------------------------
(***************************************************************************)
(* The controller of hedloom_run (controller.py): one asyncio loop that    *)
(* prepares the occurrences of every submitted Run, lets occurrences of    *)
(* the same execution key share one execution, dispatches executions       *)
(* within a placement's capacity and withdraws the occurrences of a        *)
(* stopped Run.  A loop step runs from one await to the next; the gate of  *)
(* an ExecutionHandle (execution.py) is shared with the worker that enters *)
(* it and is only touched by atomic, file-locked steps.                    *)
(*                                                                         *)
(* A consumer is an occurrence <<run, item>>.  An entry is named by the    *)
(* consumer whose preparation created it.  Priorities and rotation are a   *)
(* free choice among what is ready.                                        *)
(***************************************************************************)
EXTENDS Naturals, FiniteSets, FiniteSetsExt

CONSTANTS
    Runs,           \* the Runs that may be submitted
    Items,          \* the invocations of their Plans
    PlanOf,         \* [Runs -> SUBSET Items]: the invocations a Run submits
    KeyOf,          \* [Items -> keys]: the execution contract of an invocation
    After,          \* [Items -> SUBSET Items]: depends_on
    Places,         \* the placements of the site
    PlaceOf,        \* [keys -> Places]
    Capacity,       \* [Places -> Nat \ {0}]
    Pooled,         \* the keys whose transport is lsf-pooled
    StopOnFailure,  \* the Runs submitted with stop_on_failure
    Requests,       \* the requests callers make: "stop", "force", "close"
    Answers,        \* what a body may come to: "succeeded", "failed"
    Faults,         \* the kinds of failure that may occur
    MaxStopped,     \* bound: how many Runs requests stop in one behaviour
    MaxForced,      \* bound: how many of them are forced
    MaxFaults,      \* bound: how many failures occur in one behaviour
    None

Keys == {KeyOf[i] : i \in Items}
Consumers == {o \in Runs \X Items : o[2] \in PlanOf[o[1]]}
Key(e) == KeyOf[e[2]]
Place(e) == PlaceOf[Key(e)]
Needs(o) == {o[1]} \X After[o[2]]

ASSUME CapacityAssumption == PlaceOf \in [Keys -> Places] /\ Capacity \in [Places -> Nat \ {0}]
ASSUME FiniteAssumption == IsFiniteSet(Runs) /\ IsFiniteSet(Items) /\ IsFiniteSet(Places)
ASSUME NoneAssumption == None \notin Consumers
ASSUME AnswersAssumption == Answers \subseteq {"succeeded", "failed"}

PreparationSlots == 2

VARIABLES
    runs,        \* [Runs -> state, stopped, force]
    remaining,   \* consumers not yet nominated
    blocking,    \* consumers a _block_remaining task still has to project
    prep,        \* where the _prepare task of a consumer is
    target,      \* the entry that preparation binds to, or waits for
    active,      \* run.active: the entry an attached consumer belongs to
    wd,          \* where the _withdraw task of a consumer is
    draining,    \* run.draining
    saves,       \* the _save calls under way
    outcome,     \* run.completed
    delivered,   \* run.delivered
    linked,      \* the durable link of a consumer to an execution
    entry,       \* the loop's view of an entry
    table,       \* Controller.entries
    gate,        \* state.json of an entry's ExecutionHandle
    interrupts,  \* the entries whose interrupt.json exists
    result,      \* what the dispatched Future resolves to
    outstanding, \* Controller.outstanding
    wake, closed, driver, faults

runVars == <<runs, closed>>
planVars == <<remaining, blocking>>
prepVars == <<prep, target, linked>>
wdVars == <<wd, draining>>
saveVars == <<saves, outcome, delivered>>
gateVars == <<gate, interrupts, result>>
execVars == <<outstanding, driver>>
vars == <<runVars, planVars, prepVars, active, wdVars, saveVars, entry, table,
          gateVars, execVars, wake, faults>>

NoEntry == [consumers |-> {}, bindings |-> {}, task |-> "none",
            abandoned |-> FALSE, closing |-> FALSE, settled |-> FALSE, step |-> "none"]
NoWithdraw == [at |-> "no", entry |-> None, cancelled |-> FALSE]
Save(o, out, by) == [who |-> o, out |-> out, by |-> by, at |-> "record"]

Init ==
    /\ runs = [r \in Runs |-> [state |-> "new", stopped |-> FALSE, force |-> FALSE]]
    /\ remaining = {} /\ blocking = {}
    /\ prep = [o \in Consumers |-> "no"]
    /\ target = [o \in Consumers |-> None]
    /\ active = [o \in Consumers |-> None]
    /\ linked = [o \in Consumers |-> None]
    /\ wd = [o \in Consumers |-> NoWithdraw]
    /\ draining = {} /\ saves = {} /\ delivered = {} /\ interrupts = {}
    /\ outcome = [o \in Consumers |-> "none"]
    /\ entry = [e \in Consumers |-> NoEntry]
    /\ table = [k \in Keys |-> None]
    /\ gate = [e \in Consumers |-> "none"]
    /\ result = [e \in Consumers |-> "none"]
    /\ outstanding = [p \in Places |-> 0]
    /\ wake = FALSE /\ closed = FALSE /\ driver = "on" /\ faults = 0

-----------------------------------------------------------------------------
(* What the code asks of its state. *)

Stopped(o) == runs[o[1]].stopped
Owners(e) == entry[e].consumers \cup entry[e].bindings
SoleOwner(e) == Cardinality(entry[e].consumers) + Cardinality(entry[e].bindings) = 1
StopOf(rs) == [r \in Runs |-> IF r \in rs THEN [runs[r] EXCEPT !.stopped = TRUE] ELSE runs[r]]
Of(r, S) == {o \in S : o[1] = r}

Fault(kind) == kind \in Faults /\ faults < MaxFaults /\ faults' = faults + 1

\* The holders of _preparation_slots, and what _preparing counts.
SlotHolders ==
    {o \in Consumers : prep[o] \in {"bind", "cancel", "undo"}}
        \cup {s.who : s \in {x \in saves : x.by \in {"prepare", "failure", "refusal"}}}
Preparing == SlotHolders \cup {o \in Consumers : prep[o] = "start"}
SlotFree == Cardinality(SlotHolders) < PreparationSlots

\* run.pending: the tasks a Run has under way.
Pending(r) ==
    Cardinality({o \in Of(r, Consumers) : prep[o] # "no"})
        + Cardinality({o \in Of(r, Consumers) : wd[o].at # "no"})
        + Cardinality({s \in saves : s.who[1] = r})
        + (IF Of(r, blocking) = {} THEN 0 ELSE 1)
Active(r) == {o \in Of(r, Consumers) : active[o] # None}
Running == {e \in Consumers : entry[e].task = "running"}

\* Removing an entry that was never dispatched, when it is still the current
\* one of its key.
Undispatched(e) == entry[e].task = "none" /\ table[Key(e)] = e

-----------------------------------------------------------------------------
(* Submission, stop and close. *)

Submit(r) ==
    /\ runs[r].state = "new" /\ ~closed
    /\ runs' = [runs EXCEPT ![r].state = "open"]
    /\ remaining' = remaining \cup Of(r, Consumers)
    /\ wake' = TRUE
    /\ UNCHANGED <<closed, blocking, prepVars, active, wdVars, saveVars, entry, table,
                   gateVars, execVars, faults>>

\* ControlRun.stop: forcing reopens the executions an ordinary stop drains.
EscalatedMutant(r, force) == draining
Escalated(r, force) ==
    IF force /\ ~runs[r].force THEN draining \ Of(r, Consumers) ELSE draining
Stop(r, force) ==
    /\ runs[r].state = "open" /\ (IF force THEN "force" ELSE "stop") \in Requests
    /\ ~runs[r].stopped \/ (force /\ ~runs[r].force)
    /\ ~runs[r].stopped => Cardinality({q \in Runs : runs[q].stopped}) < MaxStopped
    /\ force => Cardinality({q \in Runs : runs[q].force}) < MaxForced
    /\ runs' = [runs EXCEPT ![r].stopped = TRUE, ![r].force = @ \/ force]
    /\ draining' = Escalated(r, force)
    /\ wake' = TRUE
    /\ UNCHANGED <<closed, planVars, prepVars, active, wd, saveVars, entry, table,
                   gateVars, execVars, faults>>

Close ==
    /\ ~closed /\ "close" \in Requests
    /\ Cardinality({r \in Runs : runs[r].stopped \/ runs[r].state = "open"}) <= MaxStopped
    /\ closed' = TRUE
    /\ runs' = StopOf({r \in Runs : runs[r].state = "open"})
    /\ wake' = TRUE
    /\ UNCHANGED <<planVars, prepVars, active, wdVars, saveVars, entry, table,
                   gateVars, execVars, faults>>

-----------------------------------------------------------------------------
(* _save: the outcome is recorded, its outputs are delivered off the loop, *)
(* and it is announced; the loop may do anything else in between.          *)

Saving(s, at) ==
    /\ s \in saves /\ s.at = at
    /\ UNCHANGED <<closed, planVars, active, wdVars, table, gateVars, execVars>>
Proceeds(s, at) == saves' = (saves \ {s}) \cup {[s EXCEPT !.at = at]}

\* What came of it is kept whatever follows.  Only a success has outputs to
\* deliver; anything else is delivered at once, and may stop the Run.
SaveRecords(s) ==
    LET o == s.who
        stops == s.out # "succeeded" /\ o[1] \in StopOnFailure
    IN  /\ Saving(s, "record")
        /\ outcome' = [outcome EXCEPT ![o] = s.out]
        /\ IF s.out = "succeeded" THEN Proceeds(s, "deliver") /\ UNCHANGED delivered
           ELSE Proceeds(s, "announce") /\ delivered' = delivered \cup {o}
        /\ IF stops THEN runs' = StopOf({o[1]}) /\ wake' = TRUE ELSE UNCHANGED <<runs, wake>>
        /\ UNCHANGED <<prepVars, entry, faults>>

\* produced_by is back with the outputs.
SaveDelivers(s) ==
    /\ Saving(s, "deliver")
    /\ Proceeds(s, "announce")
    /\ delivered' = delivered \cup {s.who}
    /\ UNCHANGED <<runs, outcome, wake, prepVars, entry, faults>>

\* produced_by raises: the outcome stands, its outputs are not delivered.
SaveUndelivered(s) ==
    /\ Fault("deliver") /\ Saving(s, "deliver")
    /\ Proceeds(s, "announce")
    /\ runs' = StopOf({s.who[1]})
    /\ wake' = TRUE
    /\ UNCHANGED <<outcome, delivered, prepVars, entry>>

\* on_event is back; a preparation that raised then stops its Run.
SaveAnnounced(s) ==
    /\ Saving(s, "announce")
    /\ saves' = saves \ {s}
    /\ runs' = IF s.by = "failure" THEN StopOf({s.who[1]}) ELSE runs
    /\ wake' = TRUE
    /\ UNCHANGED <<outcome, delivered, prepVars, entry, faults>>

\* on_event raises.  Inside _prepare the exception reaches the handler that
\* abandons the entry and reports the consumer as failed.
SaveUnheard(s) ==
    LET o == s.who
        e == target[o]
        orphan == s.by = "prepare" /\ e # None /\ Owners(e) = {}
    IN  /\ Fault("event")
        /\ Saving(s, "announce")
        /\ saves' = (saves \ {s}) \cup
             (IF s.by = "prepare" /\ ~orphan THEN {Save(o, "failed", "failure")}
              ELSE IF s.by = "wait" THEN {Save(o, "failed", "loop")} ELSE {})
        /\ prep' = IF orphan THEN [prep EXCEPT ![o] = "undo"] ELSE prep
        /\ entry' = IF orphan THEN [entry EXCEPT ![e].abandoned = TRUE] ELSE entry
        /\ IF s.by \in {"prepare", "wait"} THEN UNCHANGED <<runs, wake>>
           ELSE runs' = StopOf({o[1]}) /\ wake' = TRUE
        /\ UNCHANGED <<outcome, delivered, target, linked>>

\* _block_remaining projects the consumers of a stopped Run one by one.
BlockItem(o) ==
    /\ o \in blocking
    /\ blocking' = blocking \ {o}
    /\ outcome' = [outcome EXCEPT ![o] = "blocked"]
    /\ delivered' = delivered \cup {o}
    /\ wake' = TRUE
    /\ UNCHANGED <<runVars, remaining, prepVars, active, wdVars, saves, entry, table,
                   gateVars, execVars, faults>>

-----------------------------------------------------------------------------
(* _prepare: from a nomination to an attached, durably linked consumer. *)

\* A preparation with a slot finalizes its item off the loop, which nobody
\* sees, and is back on the loop to look at the entries.
MayAttach(o) == prep[o] \in {"start", "again"} /\ SlotFree
Attached(o, e, at) ==
    /\ target' = [target EXCEPT ![o] = e]
    /\ prep' = [prep EXCEPT ![o] = at]
    /\ UNCHANGED <<runVars, planVars, linked, active, wdVars, saveVars, interrupts, result,
                   execVars>>

ClosingMutant(e) == FALSE
Closing(e) == e # None /\ entry[e].closing
JoinableMutant(e) == e # None /\ ~entry[e].abandoned /\ entry[e].task = "none"
Joinable(e) == e # None /\ ~entry[e].abandoned /\ entry[e].task # "done"

Join(o) ==
    LET e == table[Key(o)] IN
    /\ MayAttach(o)
    /\ ~Closing(e) /\ Joinable(e)
    /\ entry' = [entry EXCEPT ![e].bindings = @ \cup {o}]
    /\ Attached(o, e, "bind")
    /\ UNCHANGED <<table, gate, wake, faults>>

\* A new entry; its handle is created off the loop, where only the bindings of
\* the entry wait for it, or cannot be created.
Acquire(o) ==
    LET e == table[Key(o)] IN
    /\ MayAttach(o)
    /\ ~Closing(e) /\ ~Joinable(e)
    /\ entry' = [entry EXCEPT ![o].bindings = {o}]
    /\ table' = [table EXCEPT ![Key(o)] = o]
    /\ \/ gate' = [gate EXCEPT ![o] = "ready"] /\ UNCHANGED faults
       \/ gate' = [gate EXCEPT ![o] = "failed"] /\ Fault("handle")
    /\ Attached(o, o, "bind")
    /\ UNCHANGED wake

\* A closing entry is neither joined nor replaced; the slot is given back.
AwaitSettled(o) ==
    LET e == table[Key(o)] IN
    /\ MayAttach(o)
    /\ Closing(e)
    /\ wake' = TRUE
    /\ Attached(o, e, "wait")
    /\ UNCHANGED <<entry, table, gate, faults>>

StopWaiting(o) ==
    /\ prep[o] = "wait" /\ (entry[target[o]].settled \/ Stopped(o))
    /\ IF Stopped(o)
         THEN /\ prep' = [prep EXCEPT ![o] = "no"]
              /\ target' = [target EXCEPT ![o] = None]
              /\ saves' = saves \cup {Save(o, "blocked", "wait")}
         ELSE prep' = [prep EXCEPT ![o] = "again"] /\ UNCHANGED <<target, saves>>
    /\ UNCHANGED <<runVars, planVars, linked, active, wdVars, outcome, delivered, entry, table,
                   gateVars, execVars, wake, faults>>

\* The link is durable, and this consumer may now give dispatch authority,
\* unless its Run stopped or the execution ended meanwhile.
BindDone(o) ==
    LET e == target[o]
        unbound == [entry EXCEPT ![e].bindings = @ \ {o}]
        sole == Owners(e) = {o}
    IN  /\ prep[o] = "bind" /\ gate[e] # "failed"
        /\ linked' = [linked EXCEPT ![o] = e]
        /\ \/ /\ Stopped(o) /\ sole
              /\ entry' = [unbound EXCEPT ![e].abandoned = TRUE]
              /\ prep' = [prep EXCEPT ![o] = "cancel"]
              /\ UNCHANGED <<active, saves>>
           \/ /\ (Stopped(o) /\ ~sole) \/ (~Stopped(o) /\ entry[e].step # "none")
              /\ entry' = unbound
              /\ prep' = [prep EXCEPT ![o] = "no"]
              /\ saves' = saves \cup
                   {Save(o, IF Stopped(o) THEN "blocked" ELSE entry[e].step, "prepare")}
              /\ UNCHANGED active
           \/ /\ ~Stopped(o) /\ entry[e].step = "none"
              /\ entry' = [unbound EXCEPT ![e].consumers = @ \cup {o}]
              /\ active' = [active EXCEPT ![o] = e]
              /\ prep' = [prep EXCEPT ![o] = "no"]
              /\ UNCHANGED saves
        /\ wake' = TRUE
        /\ UNCHANGED <<runVars, planVars, target, wdVars, outcome, delivered, table, gateVars,
                       execVars, faults>>

\* An entry nobody owns any more: its gate is closed, if it is not entered
\* yet, and the consumer that abandoned it is reported.
ClosedMutant(e) == gate
Closed(e) == IF gate[e] = "ready" THEN [gate EXCEPT ![e] = "cancelled"] ELSE gate
Discard(o, out, by) ==
    LET e == target[o] IN
    /\ gate' = Closed(e)
    /\ table' = IF Undispatched(e) THEN [table EXCEPT ![Key(e)] = None] ELSE table
    /\ entry' = IF Undispatched(e) THEN [entry EXCEPT ![e].settled = TRUE] ELSE entry
    /\ prep' = [prep EXCEPT ![o] = "no"]
    /\ saves' = saves \cup {Save(o, out, by)}

CancelUnowned(o) ==
    /\ prep[o] = "cancel"
    /\ Discard(o, "blocked", "prepare")
    /\ UNCHANGED <<runVars, planVars, target, linked, active, wdVars, outcome, delivered,
                   interrupts, result, execVars, wake, faults>>

\* _prepare_item refuses the placement or raises: there is no entry yet.
PrepareFails(o) ==
    /\ prep[o] = "start" /\ SlotFree /\ Fault("item")
    /\ prep' = [prep EXCEPT ![o] = "no"]
    /\ \E by \in {"failure", "refusal"} : saves' = saves \cup {Save(o, "failed", by)}
    /\ UNCHANGED <<runVars, planVars, target, linked, active, wdVars, outcome, delivered, entry,
                   table, gateVars, execVars, wake>>

\* The handle could not be created, the link could not be written, or the gate
\* could not be closed: the reservation is given up.
BindFails(o) ==
    LET e == target[o]
        sole == Owners(e) \subseteq {o}
    IN  /\ \/ prep[o] = "bind" /\ gate[e] = "failed" /\ UNCHANGED faults
           \/ prep[o] = "bind" /\ gate[e] # "failed" /\ Fault("bind")
           \/ prep[o] = "cancel" /\ Fault("gate")
        /\ entry' = [entry EXCEPT ![e].bindings = @ \ {o}, ![e].abandoned = @ \/ sole]
        /\ prep' = [prep EXCEPT ![o] = IF sole THEN "undo" ELSE "no"]
        /\ saves' = IF sole THEN saves ELSE saves \cup {Save(o, "failed", "failure")}
        /\ UNCHANGED <<runVars, planVars, target, linked, active, wdVars, outcome, delivered,
                       table, gateVars, execVars, wake>>

\* The handler's own attempt to close the gate; a failure of it is swallowed.
Undo(o) ==
    /\ prep[o] = "undo"
    /\ \/ gate[target[o]] # "failed" /\ Discard(o, "failed", "failure")
       \/ /\ gate[target[o]] = "failed" \/ "gate" \in Faults
          /\ prep' = [prep EXCEPT ![o] = "no"]
          /\ saves' = saves \cup {Save(o, "failed", "failure")}
          /\ UNCHANGED <<gate, table, entry>>
    /\ UNCHANGED <<runVars, planVars, target, linked, active, wdVars, outcome, delivered,
                   interrupts, result, execVars, wake, faults>>

-----------------------------------------------------------------------------
(* _withdraw: leave a shared execution, or close the gate of a sole one. *)

\* The recheck after every await: run.active still holds this entry.
StillHeldMutant(o) == TRUE
StillHeld(o) == active[o] = wd[o].entry

Withdrawn(o, e, out) ==
    /\ active' = [active EXCEPT ![o] = None]
    /\ saves' = saves \cup {Save(o, out, "withdraw")}
    /\ wd' = [wd EXCEPT ![o] = NoWithdraw]

LeaveShared(o, e) ==
    /\ Withdrawn(o, e, "cancelled")
    /\ UNCHANGED <<draining, table>>

WithdrawStart(o) ==
    LET e == wd[o].entry IN
    /\ wd[o].at = "start"
    /\ \/ /\ ~StillHeld(o)
          /\ wd' = [wd EXCEPT ![o] = NoWithdraw] /\ wake' = TRUE
          /\ UNCHANGED <<active, saves, entry, table, draining>>
       \/ /\ StillHeld(o) /\ ~SoleOwner(e)
          /\ entry' = [entry EXCEPT ![e].consumers = @ \ {o}]
          /\ LeaveShared(o, e)
          /\ UNCHANGED wake
       \/ /\ StillHeld(o) /\ SoleOwner(e)
          /\ entry' = [entry EXCEPT ![e].closing = TRUE, ![e].settled = FALSE]
          /\ wd' = [wd EXCEPT ![o].at = "gate"]
          /\ UNCHANGED <<active, saves, table, draining, wake>>
    /\ UNCHANGED <<runVars, planVars, prepVars, outcome, delivered, gateVars, execVars, faults>>

\* cancel_before_start in the offload lane.  A failure may come before or after
\* the state was replaced; the withdrawal then ends and the driver repeats it.
WithdrawGate(o) ==
    LET e == wd[o].entry IN
    /\ wd[o].at = "gate"
    /\ \/ /\ gate' = Closed(e)
          /\ wd' = [wd EXCEPT ![o].at = "resume", ![o].cancelled = gate[e] \in {"ready", "cancelled"}]
          /\ UNCHANGED <<faults, wake>>
       \/ /\ Fault("gate")
          /\ gate' \in {gate, Closed(e)}
          /\ wd' = [wd EXCEPT ![o] = NoWithdraw] /\ wake' = TRUE
    /\ UNCHANGED <<runVars, planVars, prepVars, active, draining, saveVars, entry, table,
                   interrupts, result, execVars>>

\* Back on the loop: the execution may have settled, or gained an owner.
WithdrawResume(o) ==
    LET e == wd[o].entry
        reopened == [entry EXCEPT ![e].closing = FALSE, ![e].settled = TRUE]
    IN  /\ wd[o].at = "resume"
        /\ \/ /\ ~StillHeld(o)
              /\ wd' = [wd EXCEPT ![o] = NoWithdraw] /\ wake' = TRUE
              /\ UNCHANGED <<active, saves, entry, table, draining>>
           \/ /\ StillHeld(o) /\ ~SoleOwner(e)
              /\ entry' = [reopened EXCEPT ![e].consumers = @ \ {o}]
              /\ LeaveShared(o, e)
              /\ UNCHANGED wake
           \/ /\ StillHeld(o) /\ SoleOwner(e) /\ ~wd[o].cancelled
              /\ draining' = draining \cup {o}
              /\ IF runs[o[1]].force /\ Key(e) \in Pooled
                   THEN wd' = [wd EXCEPT ![o].at = "interrupt"] /\ UNCHANGED <<entry, wake>>
                   ELSE /\ entry' = reopened
                        /\ wd' = [wd EXCEPT ![o] = NoWithdraw] /\ wake' = TRUE
              /\ UNCHANGED <<active, saves, table>>
           \/ /\ StillHeld(o) /\ SoleOwner(e) /\ wd[o].cancelled
              /\ entry' = [entry EXCEPT ![e].consumers = {}, ![e].abandoned = TRUE,
                                        ![e].settled = @ \/ Undispatched(e)]
              /\ table' = IF Undispatched(e) THEN [table EXCEPT ![Key(e)] = None] ELSE table
              /\ Withdrawn(o, e, "blocked")
              /\ UNCHANGED <<draining, wake>>
        /\ UNCHANGED <<runVars, planVars, prepVars, outcome, delivered, gateVars, execVars, faults>>

\* request_interrupt writes the intent only while the gate is entered.
WithdrawInterrupt(o) ==
    LET e == wd[o].entry IN
    /\ wd[o].at = "interrupt"
    /\ \/ /\ interrupts' = IF gate[e] = "entered" THEN interrupts \cup {e} ELSE interrupts
          /\ UNCHANGED faults
       \/ Fault("intent") /\ UNCHANGED interrupts
    /\ wd' = [wd EXCEPT ![o] = NoWithdraw] /\ wake' = TRUE
    /\ UNCHANGED <<runVars, planVars, prepVars, active, draining, saveVars, entry, table,
                   gate, result, execVars>>

-----------------------------------------------------------------------------
(* A dispatched execution: _run_handle at the worker, _execute on the loop. *)

AtWorker(e) == entry[e].task = "running" /\ result[e] = "none"
Answered(e, answer) ==
    /\ result' = [result EXCEPT ![e] = answer]
    /\ UNCHANGED <<runVars, planVars, prepVars, active, wdVars, saveVars, entry, table,
                   interrupts, execVars, wake>>

Enter(e) ==
    /\ AtWorker(e) /\ gate[e] = "ready"
    /\ gate' = [gate EXCEPT ![e] = "entered"]
    /\ Answered(e, "none")
    /\ UNCHANGED faults

Refuse(e) ==
    /\ AtWorker(e) /\ gate[e] = "cancelled"
    /\ Answered(e, "blocked")
    /\ UNCHANGED <<gate, faults>>

Finish(e) ==
    /\ AtWorker(e) /\ gate[e] = "entered"
    /\ gate' = [gate EXCEPT ![e] = "finished"]
    /\ \E answer \in Answers \cup (IF e \in interrupts THEN {"cancelled"} ELSE {}) :
          Answered(e, answer)
    /\ UNCHANGED faults

\* The submission or the Future raises: a dead worker, a refused replay.
TaskFails(e) ==
    /\ AtWorker(e) /\ Fault("future")
    /\ Answered(e, "lost")
    /\ UNCHANGED gate

Settle(e) ==
    LET step == IF result[e] = "lost" THEN "failed" ELSE result[e]
        current == table[Key(e)] = e
    IN  /\ entry[e].task = "running" /\ result[e] # "none"
        /\ outstanding' = [outstanding EXCEPT ![Place(e)] = @ - 1]
        /\ entry' = [entry EXCEPT ![e].step = step, ![e].task = "done", ![e].consumers = {},
                                  ![e].settled = TRUE]
        /\ active' = [o \in Consumers |-> IF o \in entry[e].consumers THEN None ELSE active[o]]
        /\ saves' = saves \cup {Save(o, step, "loop") : o \in entry[e].consumers}
        /\ runs' = IF result[e] = "lost" THEN StopOf({o[1] : o \in entry[e].consumers}) ELSE runs
        /\ table' = IF current THEN [table EXCEPT ![Key(e)] = None] ELSE table
        /\ wake' = TRUE
        /\ UNCHANGED <<closed, planVars, prepVars, wdVars, outcome, delivered, gateVars, driver,
                       faults>>

-----------------------------------------------------------------------------
(* One iteration of _drive. *)

ToBlock == {o \in remaining : Stopped(o)}
ToWithdraw == {o \in Consumers : active[o] # None /\ Stopped(o) /\ o \notin draining
                                    /\ wd[o].at = "no"}
Withdrawing(S) ==
    [o \in Consumers |-> IF o \in S THEN [NoWithdraw EXCEPT !.at = "start", !.entry = active[o]]
                                    ELSE wd[o]]

\* A Run nominates only within one placement-window of its own work, and only
\* what had all its inputs delivered.
Window == MapThenSumSet(LAMBDA p : Capacity[p], Places)
ReadyMutant == {o \in remaining : /\ ~Stopped(o) /\ \A d \in Needs(o) : outcome[d] # "none"
                                  /\ Cardinality(Active(o[1])) + Pending(o[1]) < Window}
Ready == {o \in remaining : /\ ~Stopped(o) /\ Needs(o) \subseteq delivered
                            /\ Cardinality(Active(o[1])) + Pending(o[1]) < Window}
Nominations ==
    IF Cardinality(Preparing) >= PreparationSlots \/ Ready = {} THEN {{}} ELSE {{o} : o \in Ready}
SatisfiedMutant(o) == TRUE
Satisfied(o) == \A d \in Needs(o) : outcome[d] = "succeeded"

CandidatesMutant == {e \in Consumers : /\ table[Key(e)] = e /\ Owners(e) # {}
                                       /\ entry[e].task = "none"
                                       /\ ~entry[e].abandoned /\ ~entry[e].closing}
Candidates == {e \in Consumers : /\ table[Key(e)] = e /\ entry[e].consumers # {}
                                 /\ entry[e].task = "none"
                                 /\ ~entry[e].abandoned /\ ~entry[e].closing}
At(p, S) == {e \in S : Place(e) = p}
DispatchesMutant == {Candidates}
\* As many candidates as each placement still has room for.
Dispatches ==
    {D \in SUBSET Candidates : \A p \in Places :
        LET room == IF outstanding[p] < Capacity[p] THEN Capacity[p] - outstanding[p] ELSE 0
        IN  Cardinality(At(p, D)) = Min({room, Cardinality(At(p, Candidates))})}

FinishedMutant(r) == /\ runs[r].state = "open" /\ Of(r, remaining) = {} /\ Active(r) = {}
                     /\ Pending(r) = 0 /\ Of(r, Consumers) \subseteq delivered
Finished(r) == /\ runs[r].state = "open" /\ Of(r, remaining) = {} /\ Active(r) = {}
               /\ Pending(r) = 0

Drive ==
    /\ driver = "on" /\ wake
    /\ \E P \in Nominations, D \in Dispatches :
         /\ remaining' = remaining \ (ToBlock \cup P)
         /\ prep' = [o \in Consumers |-> IF o \in P /\ Satisfied(o) THEN "start" ELSE prep[o]]
         /\ saves' = saves \cup {Save(o, "blocked", "loop") : o \in {q \in P : ~Satisfied(q)}}
         /\ entry' = [e \in Consumers |-> IF e \in D THEN [entry[e] EXCEPT !.task = "running"]
                                                     ELSE entry[e]]
         /\ outstanding' = [p \in Places |-> outstanding[p] + Cardinality(At(p, D))]
         /\ wake' = (P # {})
         /\ driver' = IF closed /\ Running \cup D = {}
                           /\ \A r \in Runs : runs[r].state = "open" => Finished(r)
                        THEN "off" ELSE "on"
    /\ blocking' = blocking \cup ToBlock
    /\ wd' = Withdrawing(ToWithdraw)
    /\ runs' = [r \in Runs |-> IF Finished(r) THEN [runs[r] EXCEPT !.state = "done"] ELSE runs[r]]
    /\ UNCHANGED <<closed, target, linked, active, draining, outcome, delivered, table,
                   gateVars, faults>>

\* The engine breaks: nothing is admitted any more, everything is withdrawn.
DriveFails ==
    /\ driver = "on" /\ wake /\ Fault("driver")
    /\ driver' = "failed" /\ closed' = TRUE
    /\ runs' = StopOf({r \in Runs : runs[r].state = "open"})
    /\ remaining' = {} /\ blocking' = blocking \cup remaining
    /\ UNCHANGED <<prepVars, active, wdVars, saveVars, entry, table, gateVars, outstanding, wake>>

Drain ==
    /\ driver = "failed"
    /\ \/ /\ ToWithdraw # {}
          /\ wd' = Withdrawing(ToWithdraw)
          /\ UNCHANGED <<runs, outcome, driver>>
       \/ /\ ToWithdraw = {} /\ Running = {} /\ \A r \in Runs : Pending(r) = 0
          /\ driver' = "off"
          /\ outcome' = [o \in Consumers |->
                IF runs[o[1]].state = "open" /\ outcome[o] = "none" THEN "blocked" ELSE outcome[o]]
          /\ runs' = [r \in Runs |-> IF runs[r].state = "open"
                                       THEN [runs[r] EXCEPT !.state = "done"] ELSE runs[r]]
          /\ UNCHANGED wd
    /\ UNCHANGED <<closed, planVars, prepVars, active, draining, saves, delivered, entry, table,
                   gateVars, outstanding, wake, faults>>

-----------------------------------------------------------------------------
\* What callers and failures may do, and what the controller does by itself.
Environment ==
    \/ \E r \in Runs : Submit(r) \/ \E force \in BOOLEAN : Stop(r, force)
    \/ Close \/ DriveFails
    \/ \E s \in saves : SaveUndelivered(s) \/ SaveUnheard(s)
    \/ \E o \in Consumers : PrepareFails(o) \/ TaskFails(o)

LoopStep ==
    \/ \E s \in saves : SaveRecords(s) \/ SaveDelivers(s) \/ SaveAnnounced(s)
    \/ \E o \in Consumers :
          \/ BlockItem(o) \/ Join(o) \/ Acquire(o) \/ AwaitSettled(o)
          \/ StopWaiting(o) \/ BindDone(o) \/ CancelUnowned(o)
          \/ BindFails(o) \/ Undo(o)
          \/ WithdrawStart(o) \/ WithdrawGate(o) \/ WithdrawResume(o) \/ WithdrawInterrupt(o)
          \/ Enter(o) \/ Refuse(o) \/ Finish(o) \/ Settle(o)
    \/ Drive \/ Drain

Next == Environment \/ LoopStep

Spec == Init /\ [][Next]_vars
\* The loop and its offload lane keep running, and every body ends.
FairSpec == Spec /\ WF_vars(LoopStep)

-----------------------------------------------------------------------------
\* Every variable stays within the values the code gives it.
TypeOK ==
    /\ runs \in [Runs -> [state : {"new", "open", "done"}, stopped : BOOLEAN, force : BOOLEAN]]
    /\ remaining \subseteq Consumers /\ blocking \subseteq Consumers
    /\ prep \in [Consumers -> {"no", "start", "wait", "again", "bind", "cancel", "undo"}]
    /\ target \in [Consumers -> Consumers \cup {None}]
    /\ active \in [Consumers -> Consumers \cup {None}]
    /\ linked \in [Consumers -> Consumers \cup {None}]
    /\ \A o \in Consumers : wd[o].at \in {"no", "start", "gate", "resume", "interrupt"}
    /\ draining \subseteq Consumers /\ delivered \subseteq Consumers
    /\ outcome \in [Consumers -> {"none", "succeeded", "failed", "cancelled", "blocked"}]
    /\ gate \in [Consumers -> {"none", "failed", "ready", "entered", "cancelled", "finished"}]
    /\ table \in [Keys -> Consumers \cup {None}]
    /\ outstanding \in [Places -> Nat]

\* Consumers of one key that own unfinished work own the same execution: an
\* entry is replaced only once nobody owns it (_prepare, the closing wait and
\* the reuse test).
OwnedWorkIsShared ==
    \A e, f \in Consumers : (e # f /\ Key(e) = Key(f)) =>
        ~ (/\ Owners(e) # {} /\ entry[e].step = "none"
           /\ Owners(f) # {} /\ entry[f].step = "none")

\* No Run's work is taken away by another Run: a gate is closed, or an
\* interruption requested, only when every owner, attached or still binding,
\* belongs to a stopped (a forced) Run.
OnlyOwnersStopWork ==
    \A e \in Consumers :
        /\ gate[e] = "cancelled" => \A o \in Owners(e) : runs[o[1]].stopped
        /\ e \in interrupts => \A o \in Owners(e) : runs[o[1]].force

\* Executions in flight are counted exactly and stay within the capacity of
\* their placement.
CapacityIsKept ==
    \A p \in Places : /\ outstanding[p] = Cardinality(At(p, Running))
                      /\ outstanding[p] <= Capacity[p]

\* Whatever was started was linked first, durably, to the occurrence of a Run.
StartedWorkIsLinked ==
    \A e \in Consumers : gate[e] \in {"entered", "finished"} =>
        \E o \in Consumers : linked[o] = e

\* A success counts only once its outputs were handed on: an occurrence gets an
\* execution only after the work of everything it needs succeeded and was
\* delivered, and a Run that nothing stopped ends with all it asked for
\* delivered, although _save records, delivers and announces in separate steps
\* any of which may fail.
OutputsAreHandedOn ==
    /\ \A o \in Consumers : linked[o] # None =>
          \A d \in Needs(o) : /\ d \in delivered /\ linked[d] # None
                             /\ result[linked[d]] = "succeeded"
    /\ \A r \in Runs : runs[r].state = "done" /\ ~runs[r].stopped =>
          Of(r, Consumers) \subseteq delivered

\* A stop is never forgotten: once the loop rests and a stopped Run has no
\* task, what it still holds is entered work that drains, and a forced Run has
\* asked to interrupt it where that is possible (the escalation of stop), unless
\* the request itself failed.
Resting(r) == driver = "on" /\ ~wake /\ Pending(r) = 0
StopReachesEverything ==
    \A o \in Consumers :
        LET e == active[o] IN
        (runs[o[1]].stopped /\ Resting(o[1])) =>
            /\ o \notin remaining
            /\ (e # None /\ result[e] = "none") =>
                 /\ gate[e] = "entered"
                 /\ (runs[o[1]].force /\ Key(e) \in Pooled) => e \in interrupts \/ faults > 0

\* A consumer whose withdrawal reports its work blocked before it started has
\* closed the gate: that execution never starts.
BlockedWorkNeverStarts ==
    [][\A o \in Consumers :
        (active[o] # None /\ Save(o, "blocked", "withdraw") \in saves' \ saves) =>
            gate'[active[o]] = "cancelled"]_vars

\* What a Run reports of an occurrence is decided once: a completion and a
\* withdrawal that race never both report (the rechecks in _withdraw).
OutcomeIsFinal ==
    [][\A o \in Consumers : outcome[o] # "none" => outcome'[o] = outcome[o]]_vars

\* Two executions of one key are never both inside Exec: a replacement is not
\* dispatched against a still-active claim (the comment in _prepare).
OneExecutionPerKey ==
    \A e, f \in Consumers : (e # f /\ Key(e) = Key(f)) =>
        ~ (/\ AtWorker(e) /\ gate[e] = "entered"
           /\ AtWorker(f) /\ gate[f] = "entered")

\* Every submitted Run is eventually reported, whatever is stopped, shared,
\* withdrawn or broken meanwhile: a Run is submitted once, so the time comes
\* when none is open.
EveryRunSettles ==
    (\E r \in Runs : runs[r].state = "open") ~> (\A r \in Runs : runs[r].state # "open")

\* What became of an execution, as those who asked for it see it.
WorkOf(e) ==
    IF result[e] \notin {"none", "blocked"} THEN result[e]
    ELSE IF gate[e] = "entered" THEN "running"
    ELSE IF gate[e] = "cancelled" THEN "closed" ELSE "idle"

Promised == INSTANCE Study WITH
    Run <- Runs, Occurrence <- Consumers, Execution <- Consumers,
    Contract <- [o \in Consumers |-> Key(o)], Offer <- [e \in Consumers |-> Key(e)],
    Requires <- [o \in Consumers |-> Needs(o)],
    Faulty <- Faults # {}, Unheard <- "event" \in Faults,
    run <- [r \in Runs |-> runs[r].state],
    stopped <- {r \in Runs : runs[r].stopped},
    work <- [e \in Consumers |-> WorkOf(e)],
    link <- linked

\* What callers are promised whoever shares, stops or fails (Study).
ImplementsStudy == Promised!Spec
=============================================================================
