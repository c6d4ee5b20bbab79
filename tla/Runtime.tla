------------------------------- MODULE Runtime -------------------------------
(***************************************************************************)
(* hedloom.runtime and hedloom.run: one Runtime, the loop thread that owns *)
(* it, and the caller threads that submit, stop and close.  A caller's     *)
(* step ends where it leaves a lock; a step of the loop ends at an await   *)
(* or where it hands something to the callers.  What the loop is given by  *)
(* call_soon_threadsafe waits in calls.  The controller's own behaviour is *)
(* module Controller: here a Run's control ends by itself.                 *)
(***************************************************************************)
CONSTANTS
    Sub,    \* submissions
    Forced  \* those whose caller may ask for a forced stop

ASSUME ForcedAssumption == Forced \subseteq Sub

VARIABLES
    loop,     \* "none", "running", "stopped"
    ready,    \* _ready
    closing,  \* _closing
    records,  \* _records
    calls,    \* callbacks posted to the loop and not run yet
    posting,  \* stops that are marked and not yet posted to the loop
    receipt,  \* receipt[s]: the Run the caller holds
    entry,    \* entry[s]: its _run task and its control
    closer,   \* _close_task: its step
    draining  \* the entries _close waits for

shared == <<loop, ready, closing, records>>
rtvars == <<shared, calls, posting, receipt, entry, closer, draining>>

Ends == {"SUCCEEDED", "FAILED", "STOPPED", "REJECTED"}
States == {"none", "REGISTERED", "ACCEPTING", "PREPARING", "RUNNING", "STOPPING"} \cup Ends

NoReceipt == [state |-> "none", stop |-> FALSE, force |-> FALSE,
              accepted |-> "pending", result |-> "none"]
NoEntry == [at |-> "none", control |-> "none", writer |-> FALSE,
            outcome |-> "none"]

RTInit ==
    /\ loop = "none" /\ ready = "pending" /\ closing = FALSE /\ records = {}
    /\ calls = {} /\ posting = {}
    /\ receipt = [s \in Sub |-> NoReceipt]
    /\ entry = [s \in Sub |-> NoEntry]
    /\ closer = "none" /\ draining = {}

Launching(s) == <<"launch", s>>
Stopping(s) == <<"stop", s>>
Closing == <<"close", "all">>

-----------------------------------------------------------------------------
(* The callers' threads.                                                   *)

\* Mutant: the loop's presence is looked at before the record is registered.
SubmitMutant(s) ==
    /\ receipt[s].state = "none" /\ ~closing
    /\ records' = records \cup {s}
    /\ calls' = calls
    /\ receipt' = [receipt EXCEPT ![s].state = "REGISTERED"]
    /\ UNCHANGED <<loop, ready, closing, posting, entry, closer, draining>>

\* submit: registered and handed to the loop under one lock, if the loop is
\* there; a closing runtime refuses.
Submit(s) ==
    /\ receipt[s].state = "none" /\ ~closing
    /\ records' = records \cup {s}
    /\ calls' = IF loop = "none" THEN calls ELSE calls \cup {Launching(s)}
    /\ receipt' = [receipt EXCEPT ![s].state = "REGISTERED"]
    /\ UNCHANGED <<loop, ready, closing, posting, entry, closer, draining>>

Settled(s) == receipt[s].state \in Ends \/ receipt[s].result # "none"

\* Run.stop under the receipt's lock; an ordinary stop may be escalated.
MarkStop(s, force) ==
    /\ receipt[s].state # "none" /\ ~Settled(s)
    /\ ~receipt[s].stop \/ (force /\ ~receipt[s].force)
    /\ force => s \in Forced
    /\ receipt' = [receipt EXCEPT ![s].stop = TRUE, ![s].state = "STOPPING",
                                  ![s].force = @ \/ force]
    /\ posting' = posting \cup {s}
    /\ UNCHANGED <<shared, calls, entry, closer, draining>>

\* _request_stop: the loop is told, if the Run is still owned and there is one.
PostStop(s) ==
    /\ s \in posting
    /\ posting' = posting \ {s}
    /\ calls' = IF s \in records /\ loop = "running" THEN calls \cup {Stopping(s)} ELSE calls
    /\ UNCHANGED <<shared, receipt, entry, closer, draining>>

\* close: no more submissions; the loop drains when it is there.  A second
\* call, or one after a startup that failed, only waits for the same drain.
Close ==
    /\ ~closing
    /\ closing' = TRUE
    /\ calls' = IF loop = "none" THEN calls ELSE calls \cup {Closing}
    /\ UNCHANGED <<loop, ready, records, posting, receipt, entry, closer, draining>>

-----------------------------------------------------------------------------
(* The loop thread.                                                        *)

\* _serve: the loop is published, and what was registered before is launched.
Serve ==
    /\ loop = "none" /\ loop' = "running"
    /\ calls' = calls \cup {Launching(s) : s \in records}
                      \cup (IF closing THEN {Closing} ELSE {})
    /\ UNCHANGED <<ready, closing, records, posting, receipt, entry, closer, draining>>

Owned == <<records, closing>>

\* _initialize: the cluster, the pools and the controller are there ...
BecomesReady ==
    /\ loop = "running" /\ ready = "pending"
    /\ ready' = "ok"
    /\ UNCHANGED <<loop, Owned, calls, posting, receipt, entry, closer, draining>>

\* ... or not: whoever waits is told, then the runtime closes itself.
StartupFails ==
    /\ loop = "running" /\ ready = "pending"
    /\ ready' = "failed"
    /\ UNCHANGED <<loop, Owned, calls, posting, receipt, entry, closer, draining>>

StartupCloses ==
    /\ loop = "running" /\ ready = "failed" /\ ~(closing /\ closer # "none")
    /\ closing' = TRUE
    /\ closer' = IF closer = "none" THEN "ready" ELSE closer
    /\ UNCHANGED <<loop, ready, records, calls, posting, receipt, entry, draining>>

In(s, step) == loop = "running" /\ entry[s].at = step
Enter(s, e) == entry' = [entry EXCEPT ![s] = e]
Goto(s, step) == Enter(s, [entry[s] EXCEPT !.at = step])
Concludes(s, outcome, step) ==
    Enter(s, [entry[s] EXCEPT !.outcome = outcome, !.at = step])

\* _update: an in-progress phase does not hide a pending withdrawal.
Phase(s, state) ==
    receipt' = [receipt EXCEPT ![s].state = IF receipt[s].stop THEN "STOPPING" ELSE state]

\* _launch starts the task once, whoever asks first.
Launch(s) ==
    /\ loop = "running" /\ Launching(s) \in calls
    /\ calls' = calls \ {Launching(s)}
    /\ IF entry[s].at = "none" THEN Goto(s, "ready") ELSE UNCHANGED entry
    /\ UNCHANGED <<shared, posting, receipt, closer, draining>>

Stops(s, force) ==
    IF force THEN "forced" ELSE IF entry[s].control = "forced" THEN "forced" ELSE "stopped"

\* The stop callback: without a control there is nothing to stop yet.
HearStop(s) ==
    /\ loop = "running" /\ Stopping(s) \in calls
    /\ calls' = calls \ {Stopping(s)}
    /\ IF entry[s].control = "none" THEN UNCHANGED entry
       ELSE Enter(s, [entry[s] EXCEPT !.control = Stops(s, receipt[s].force)])
    /\ UNCHANGED <<shared, posting, receipt, closer, draining>>

\* _run: startup has been waited for.
Begins(s) ==
    /\ In(s, "ready") /\ ready # "pending"
    /\ IF ready = "failed" THEN Concludes(s, "REJECTED", "settle") /\ UNCHANGED receipt
       ELSE IF receipt[s].stop THEN Concludes(s, "STOPPED", "settle") /\ UNCHANGED receipt
       ELSE Goto(s, "writer") /\ Phase(s, "ACCEPTING")
    /\ UNCHANGED <<shared, calls, posting, closer, draining>>

\* The HistoryWriter has published run.json: the submission is accepted, and
\* prepared unless it has been withdrawn by now.
Accepts(s) ==
    /\ In(s, "writer")
    /\ Enter(s, [entry[s] EXCEPT !.writer = TRUE,
                    !.at = IF receipt[s].stop THEN "save" ELSE "prepare",
                    !.outcome = IF receipt[s].stop THEN "STOPPED" ELSE @])
    /\ receipt' = [receipt EXCEPT ![s].accepted = "accepted",
                      ![s].state = IF receipt[s].stop THEN "STOPPING" ELSE "PREPARING"]
    /\ UNCHANGED <<shared, calls, posting, closer, draining>>

\* Mutant: a stop that came before there was a control is not looked for.
SubmitsControlMutant(s) ==
    /\ In(s, "prepare")
    /\ Enter(s, [entry[s] EXCEPT !.at = "wait", !.control = "live"])
    /\ Phase(s, "RUNNING")
    /\ UNCHANGED <<shared, calls, posting, closer, draining>>

\* Everything prepared: the controller takes the Run.  The receipt is looked
\* at again, now that there is a control to stop.
SubmitsControl(s) ==
    /\ In(s, "prepare")
    /\ Enter(s, [entry[s] EXCEPT !.at = "wait",
                    !.control = IF receipt[s].stop THEN Stops(s, receipt[s].force) ELSE "live"])
    /\ Phase(s, "RUNNING")
    /\ UNCHANGED <<shared, calls, posting, closer, draining>>

\* control.wait returns its report.
Reports(s, succeeded) ==
    /\ In(s, "wait")
    /\ Concludes(s, IF receipt[s].stop THEN "STOPPED"
                    ELSE IF succeeded THEN "SUCCEEDED" ELSE "FAILED", "save")
    /\ UNCHANGED <<shared, calls, posting, receipt, closer, draining>>

\* Acceptance, preparation or the engine raises.
Raises(s) ==
    /\ entry[s].at \in {"writer", "prepare", "wait"} /\ loop = "running"
    /\ IF entry[s].writer THEN Concludes(s, "FAILED", "save")
       ELSE Concludes(s, "REJECTED", "settle")
    /\ UNCHANGED <<shared, calls, posting, receipt, closer, draining>>

\* The final event is written, in the storage lane.  When writing it raises, the
\* Run has failed, whatever it came to; a second failure is only noted.
Saves(s) ==
    /\ In(s, "save")
    /\ Goto(s, "settle") \/ Concludes(s, "FAILED", "settle")
    /\ UNCHANGED <<shared, calls, posting, receipt, closer, draining>>

\* Mutant: the receipt completes and its acceptance is left open.
SettlesMutant(s) ==
    /\ In(s, "settle")
    /\ receipt' = [receipt EXCEPT ![s].state = entry[s].outcome]
    /\ Goto(s, "complete")
    /\ UNCHANGED <<shared, calls, posting, closer, draining>>

\* _finish: the snapshot, then the acceptance, then the completion.
Settles(s) ==
    /\ In(s, "settle")
    /\ receipt' = [receipt EXCEPT ![s].state = entry[s].outcome,
                      ![s].accepted = IF @ = "pending" THEN "refused" ELSE @]
    /\ Goto(s, "complete")
    /\ UNCHANGED <<shared, calls, posting, closer, draining>>

Completes(s) ==
    /\ In(s, "complete")
    /\ receipt' = [receipt EXCEPT ![s].result = entry[s].outcome]
    /\ Goto(s, "retain")
    /\ UNCHANGED <<shared, calls, posting, closer, draining>>

\* Automatic retention, then the Runtime lets go of the entry.
Retires(s) ==
    /\ In(s, "retain")
    /\ records' = records \ {s}
    /\ Enter(s, [NoEntry EXCEPT !.at = "over", !.writer = entry[s].writer])
    /\ UNCHANGED <<loop, ready, closing, calls, posting, receipt, closer, draining>>

-----------------------------------------------------------------------------
(* _close.                                                                 *)

EnsureClose ==
    /\ loop = "running" /\ Closing \in calls
    /\ calls' = calls \ {Closing}
    /\ closer' = IF closer = "none" THEN "ready" ELSE closer
    /\ UNCHANGED <<shared, posting, receipt, entry, draining>>

\* Mutant: what is registered is taken for launched.
DrainsMutant ==
    /\ loop = "running" /\ closer = "ready" /\ ready # "pending"
    /\ draining' = {s \in records : entry[s].at # "none"}
    /\ closer' = "drain"
    /\ UNCHANGED <<shared, calls, posting, receipt, entry>>

\* Every record is launched, if it was not, and waited for.
Drains ==
    /\ loop = "running" /\ closer = "ready" /\ ready # "pending"
    /\ draining' = records
    /\ entry' = [s \in Sub |-> IF s \in records /\ entry[s].at = "none"
                               THEN [entry[s] EXCEPT !.at = "ready"] ELSE entry[s]]
    /\ closer' = "drain"
    /\ UNCHANGED <<shared, calls, posting, receipt>>

\* The controller, the client, the cluster, the pools and the lanes close.
Reclaims ==
    /\ loop = "running" /\ closer = "drain"
    /\ \A s \in draining : entry[s].at = "over"
    /\ closer' = "closed"
    /\ UNCHANGED <<shared, calls, posting, receipt, entry, draining>>

LoopEnds ==
    /\ loop = "running" /\ closer = "closed"
    /\ loop' = "stopped"
    /\ UNCHANGED <<ready, closing, records, calls, posting, receipt, entry, closer, draining>>

Advances(s) ==
    \/ Begins(s) \/ Accepts(s) \/ SubmitsControl(s)
    \/ \E succeeded \in BOOLEAN : Reports(s, succeeded)
    \/ Raises(s) \/ Saves(s) \/ Settles(s) \/ Completes(s) \/ Retires(s)

Starts == Serve \/ BecomesReady \/ StartupFails \/ StartupCloses

Finishes == EnsureClose \/ Drains \/ Reclaims \/ LoopEnds

RTNext ==
    \/ \E s \in Sub : \/ Submit(s) \/ PostStop(s) \/ Launch(s) \/ HearStop(s) \/ Advances(s)
                      \/ \E force \in BOOLEAN : MarkStop(s, force)
    \/ Close \/ Starts \/ Finishes

RTSpec == RTInit /\ [][RTNext]_rtvars

\* The loop thread runs in turn all that is posted to it, and what its tasks
\* await ends: startup, the lanes, and the controller's Run (module Controller).
LoopFairness ==
    /\ WF_rtvars(Starts) /\ WF_rtvars(Finishes)
    /\ \A s \in Sub : WF_rtvars(Launch(s) \/ Advances(s))

RTFairSpec == RTSpec /\ LoopFairness

-----------------------------------------------------------------------------
(* Properties.                                                             *)

RTTypeOK ==
    /\ loop \in {"none", "running", "stopped"} /\ ready \in {"pending", "ok", "failed"}
    /\ closing \in BOOLEAN /\ records \subseteq Sub /\ posting \subseteq Sub
    /\ draining \subseteq Sub /\ closer \in {"none", "ready", "drain", "closed"}
    /\ calls \subseteq {Launching(s) : s \in Sub} \cup {Stopping(s) : s \in Sub} \cup {Closing}
    /\ receipt \in [Sub -> [state: States, stop: BOOLEAN, force: BOOLEAN,
                            accepted: {"pending", "accepted", "refused"},
                            result: Ends \cup {"none"}]]
    /\ entry \in [Sub -> [at: {"none", "ready", "writer", "prepare", "wait",
                               "save", "settle", "complete", "retain", "over"},
                          control: {"none", "live", "stopped", "forced"}, writer: BOOLEAN,
                          outcome: Ends \cup {"none"}]]

\* A stop is never lost between the caller's thread and the loop: once it has
\* been delivered, a Run that is waited for has been stopped as it was asked.
StopsAreDelivered ==
    \A s \in Sub :
        entry[s].at = "wait" /\ receipt[s].stop
        /\ s \notin posting /\ Stopping(s) \notin calls
        => entry[s].control = IF receipt[s].force THEN "forced" ELSE "stopped"

\* A completed receipt leaves nobody waiting for its acceptance: it was
\* accepted exactly when it has a history, it is rejected only without one, and
\* neither a late stop nor a late phase changes what it says.
ReceiptsAreTrue ==
    \A s \in Sub : receipt[s].result # "none" =>
        /\ receipt[s].accepted = IF entry[s].writer THEN "accepted" ELSE "refused"
        /\ receipt[s].result = "REJECTED" => ~entry[s].writer
        /\ receipt[s].state = receipt[s].result

\* Nothing is forgotten when a Runtime closes, however submission, startup and
\* close interleave: every receipt it gave out is complete.
ClosedIsDrained ==
    closer = "closed" => \A s \in Sub : receipt[s].state # "none" => receipt[s].result # "none"

\* A receipt completes: when startup fails, when the Runtime closes, and when
\* it was registered before there was a loop to run it.
EveryReceiptCompletes ==
    \A s \in Sub : receipt[s].state # "none" ~> receipt[s].result # "none"
=============================================================================
