-------------------------------- MODULE Study --------------------------------
(***************************************************************************)
(* What the controller promises the callers who submit Runs, however many  *)
(* share their work, stop or fail: an execution starts only for an         *)
(* occurrence that is linked to it, and an occurrence is linked only once  *)
(* the work it depends on succeeded; work is taken away only when every    *)
(* Run that is linked to it has stopped; what is reported of an occurrence *)
(* is what happened to it, is decided once, and is complete when its Run   *)
(* is reported.  Controller implements this specification.                 *)
(***************************************************************************)
CONSTANTS
    Run,            \* whoever may ask for work
    Occurrence,     \* what they ask for: pairs <<run, item>>
    Execution,      \* the executions there may be
    Contract,       \* [Occurrence -> contracts]: the computation asked for
    Offer,          \* [Execution -> contracts]: the computation carried out
    Requires,          \* [Occurrence -> SUBSET Occurrence]
    Faulty,         \* something of the environment may fail
    Unheard,        \* in particular, a listener of events may raise
    None

VARIABLES
    run,            \* [Run -> "new", "open" or "done"]
    stopped,        \* the Runs that asked for no more work
    work,           \* the state of an execution
    link,           \* the execution that serves an occurrence
    outcome         \* what is reported of an occurrence, "none" until then

vars == <<run, stopped, work, link, outcome>>

Init ==
    /\ run = [r \in Run |-> "new"]
    /\ stopped = {}
    /\ work = [e \in Execution |-> "idle"]
    /\ link = [o \in Occurrence |-> None]
    /\ outcome = [o \in Occurrence |-> "none"]

Open(o) == run[o[1]] = "open"
\* The execution of an occurrence has come to this.
Came(o, to) == link[o] # None /\ work[link[o]] = to
\* Nobody who still wants this execution is linked to it.
Unwanted(e) == \A o \in Occurrence : link[o] = e => o[1] \in stopped

Submit(r) ==
    /\ run[r] = "new"
    /\ run' = [run EXCEPT ![r] = "open"]
    /\ UNCHANGED <<stopped, work, link, outcome>>

\* Any Runs may be stopped; none is ever resumed.
Stop ==
    /\ UNCHANGED <<run, work, link, outcome>>
    /\ stopped \subseteq stopped' /\ stopped' \subseteq Run

\* An occurrence gets the execution that will serve it.
Link(o, e) ==
    /\ Open(o) /\ link[o] = None /\ outcome[o] = "none"
    /\ Contract[o] = Offer[e]
    /\ \A d \in Requires[o] : Came(d, "succeeded")
    /\ work[e] \in {"closed", "cancelled"} => o[1] \in stopped
    /\ link' = [link EXCEPT ![o] = e]
    /\ UNCHANGED <<run, stopped, work, outcome>>

Becomes(e, to) ==
    /\ work' = [work EXCEPT ![e] = to]
    /\ UNCHANGED <<run, stopped, link, outcome>>

Start(e) ==
    /\ work[e] = "idle" /\ \E o \in Occurrence : link[o] = e
    /\ Becomes(e, "running")

\* Work that never started never will.
CloseOff(e) == work[e] = "idle" /\ Unwanted(e) /\ Becomes(e, "closed")

End(e) ==
    /\ work[e] = "running"
    /\ \/ \E answer \in {"succeeded", "failed"} : Becomes(e, answer)
       \/ Unwanted(e) /\ Becomes(e, "cancelled")

\* Nobody will learn what became of an execution.
Lose(e) ==
    /\ Faulty /\ work[e] \in {"idle", "running", "closed"}
    /\ \E o \in Occurrence : link[o] = e
    /\ Becomes(e, "lost")

\* What may be reported of an occurrence.
Justified(o, out) ==
    \/ out = "succeeded" /\ Came(o, "succeeded")
    \/ out = "failed" /\ (Came(o, "failed") \/ Faulty)
    \/ out \in {"cancelled", "blocked"} /\ o[1] \in stopped
    \/ out = "blocked" /\ \E d \in Requires[o] : outcome[d] \notin {"none", "succeeded"}

\* A report may stop the rest of its Run.
Report(o, out) ==
    /\ Open(o)
    /\ outcome' = [outcome EXCEPT ![o] = out]
    /\ stopped' \in {stopped, stopped \cup {o[1]}}
    /\ UNCHANGED <<run, work, link>>

Decide(o, out) == outcome[o] = "none" /\ Justified(o, out) /\ Report(o, out)

\* Only a listener that raises has an occurrence reported again, as failed.
Revise(o) == Unheard /\ outcome[o] # "none" /\ Report(o, "failed")

\* Runs are reported when all that was asked of them is decided, for good.
Conclude(R) ==
    /\ \A r \in R : run[r] = "open"
    /\ \A o \in Occurrence : o[1] \in R => outcome[o] # "none"
    /\ run' = [r \in Run |-> IF r \in R THEN "done" ELSE run[r]]
    /\ UNCHANGED <<stopped, work, link, outcome>>

\* An engine that broke ends its Runs, once they stopped and no work runs.
GiveUp ==
    /\ Faulty
    /\ \A r \in Run : run[r] = "open" => r \in stopped
    /\ \A e \in Execution : work[e] # "running"
    /\ outcome' = [o \in Occurrence |->
          IF Open(o) /\ outcome[o] = "none" THEN "blocked" ELSE outcome[o]]
    /\ run' = [r \in Run |-> IF run[r] = "open" THEN "done" ELSE run[r]]
    /\ UNCHANGED <<stopped, work, link>>

Next ==
    \/ Stop
    \/ \E r \in Run : Submit(r)
    \/ \E R \in SUBSET Run : Conclude(R)
    \/ \E o \in Occurrence, e \in Execution : Link(o, e)
    \/ \E e \in Execution : Start(e) \/ CloseOff(e) \/ End(e) \/ Lose(e)
    \/ \E o \in Occurrence : Revise(o)
    \/ \E o \in Occurrence, out \in {"succeeded", "failed", "cancelled", "blocked"} : Decide(o, out)
    \/ GiveUp

Spec == Init /\ [][Next]_vars
=============================================================================
