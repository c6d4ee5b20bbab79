------------------------------ MODULE Interrupt ------------------------------
(***************************************************************************)
(* Forced stop of pooled commands: _interrupt_command of hedloom_run.pooled*)
(* with the pool's scheduler (OwnedPoolScheduler) and its workers.  Every  *)
(* forced command has one waiter, the thread that submitted it.  Each RPC  *)
(* of a waiter is a step; messages between scheduler and workers travel on *)
(* their own, so that what a waiter read may be stale when it acts.        *)
(* Restart tokens and identities are the waiter and the worker themselves: *)
(* a restarted worker is another member of Worker.  A command does not move *)
(* from one worker to another while both live (Dask's work stealing).      *)
(***************************************************************************)
EXTENDS Sequences

CONSTANTS
    Command,    \* pooled commands, one Dask task each
    NoCommand,
    Worker,     \* every worker process the allocation ever has (a bound)
    NoWorker,
    Forced      \* the commands that are asked to stop

ASSUME NamesAssumption ==
    NoCommand \notin Command /\ NoWorker \notin Worker /\ Forced \subseteq Command

VARIABLES
    task,   \* task[k]: the scheduler's task and where it is processing
    hold,   \* commands whose admission a waiter holds (ADMISSION)
    loss,   \* loss[k]: assignment losses of the task (LOSS)
    seat,   \* seat[w]: the scheduler's worker state (FENCE, RESTART)
    body,   \* body[w]: the worker process
    told,   \* told[w]: status messages on their way to the scheduler
    waiter  \* waiter[k]: the interruption of k

pool == <<task, hold, loss, seat>>
ivars == <<pool, body, told, waiter>>

Place == Worker \cup {NoWorker}
Key == Command \cup {NoCommand}

Absent == [here |-> FALSE, status |-> "running", fence |-> NoCommand, restart |-> NoCommand]
Unborn == [life |-> "new", gate |-> NoCommand, inside |-> NoCommand,
           mail |-> {}, has |-> {}, ended |-> {}]
NotAsked == [at |-> "idle", worker |-> NoWorker, entered |-> FALSE, evidence |-> {},
             restarted |-> FALSE, lost |-> FALSE, outcome |-> "none"]

IInit ==
    /\ task = [k \in Command |-> [at |-> "unsent", on |-> NoWorker]]
    /\ hold = {}
    /\ loss = [k \in Command |-> [unknown |-> FALSE, pending |-> NoWorker]]
    /\ seat = [w \in Worker |-> Absent]
    /\ body = [w \in Worker |-> Unborn]
    /\ told = [w \in Worker |-> <<>>]
    /\ waiter = [k \in Command |-> NotAsked]

Placed(k, w) == task[k].on = w
Up(w) == body[w].life = "up"
Task(k, at, w) == task' = [task EXCEPT ![k] = [at |-> at, on |-> w]]
Seat(w, s) == seat' = [seat EXCEPT ![w] = s]
Body(w, b) == body' = [body EXCEPT ![w] = b]
Tell(w, status) == told' = [told EXCEPT ![w] = Append(@, status)]

-----------------------------------------------------------------------------
(* The pool: Dask as the code uses it.                                     *)

Join(w) ==
    /\ body[w].life = "new"
    /\ Body(w, [Unborn EXCEPT !.life = "up"])
    /\ Seat(w, [Absent EXCEPT !.here = TRUE])
    /\ UNCHANGED <<task, hold, loss, told, waiter>>

\* submit reaches the scheduler on an asynchronous stream.
Register(k) ==
    /\ task[k].at = "unsent"
    /\ Task(k, "queued", NoWorker)
    /\ UNCHANGED <<hold, loss, seat, body, told, waiter>>

\* OwnedPoolScheduler.valid_workers: nothing while a restart is unconfirmed or
\* a waiter is withdrawing the command.
Runnable(k) == loss[k].pending = NoWorker /\ k \notin hold

\* Assignment is not entry: a busy worker is assigned commands too.
Assign(k, w) ==
    /\ task[k].at = "queued" /\ Runnable(k)
    /\ seat[w].here /\ seat[w].status = "running"
    /\ Task(k, "placed", w)
    /\ Body(w, [body[w] EXCEPT !.mail = @ \cup {k}])
    /\ UNCHANGED <<hold, loss, seat, told, waiter>>

Receive(k, w) ==
    /\ Up(w) /\ k \in body[w].mail
    /\ Body(w, [body[w] EXCEPT !.mail = @ \ {k}, !.has = @ \cup {k}])
    /\ UNCHANGED <<pool, told, waiter>>

\* COMMAND_RESOURCE: one command at a time, whatever cores are allocated.
Enter(k, w) ==
    /\ Up(w) /\ body[w].gate = NoCommand /\ body[w].inside = NoCommand
    /\ k \in body[w].has \ body[w].ended
    /\ Body(w, [body[w] EXCEPT !.inside = k])
    /\ UNCHANGED <<pool, told, waiter>>

Finish(w) ==
    /\ Up(w) /\ body[w].inside # NoCommand
    /\ Body(w, [body[w] EXCEPT !.inside = NoCommand, !.ended = @ \cup {body[w].inside}])
    /\ UNCHANGED <<pool, told, waiter>>

\* The worker's report, then the scheduler's release, arrive.
Report(k, w) ==
    /\ Up(w) /\ k \in body[w].ended
    /\ Body(w, [body[w] EXCEPT !.has = @ \ {k}, !.ended = @ \ {k}])
    /\ IF Placed(k, w) THEN Task(k, "over", NoWorker) ELSE UNCHANGED task
    /\ UNCHANGED <<hold, loss, seat, told, waiter>>

\* free-keys: a command that is no longer wanted and has not been entered.
Forget(k, w) ==
    /\ Up(w) /\ k \in body[w].has \ body[w].ended
    /\ body[w].inside # k /\ ~Placed(k, w)
    /\ Body(w, [body[w] EXCEPT !.has = @ \ {k}])
    /\ UNCHANGED <<pool, told, waiter>>

\* handle_worker_status_change: running is not believed of a fenced worker.
Heard(w, status) == ~(status = "running" /\ seat[w].fence # NoCommand)

HearStatus(w) ==
    /\ told[w] # <<>>
    /\ told' = [told EXCEPT ![w] = Tail(@)]
    /\ IF seat[w].here /\ Heard(w, Head(told[w]))
       THEN Seat(w, [seat[w] EXCEPT !.status = Head(told[w])])
       ELSE UNCHANGED seat
    /\ UNCHANGED <<task, hold, loss, body, waiter>>

\* The process goes, and its command with it (parent-death binding).
Dead == [Unborn EXCEPT !.life = "dead"]
Die(w) ==
    /\ Up(w) /\ Body(w, Dead) /\ told' = [told EXCEPT ![w] = <<>>]
    /\ UNCHANGED <<pool, waiter>>

\* Mutant: an expected removal is not recorded as a loss.
LossMutant(k, w) == loss[k]

\* assignment_loss, before Dask clears the assignment.
Loss(k, w) ==
    IF seat[w].restart = NoCommand \/ loss[k].pending # NoWorker
    THEN [loss[k] EXCEPT !.unknown = TRUE]
    ELSE [loss[k] EXCEPT !.pending = w]

\* remove_worker: the connection is lost; the process may live on.
Remove(w) ==
    /\ seat[w].here
    /\ loss' = [k \in Command |-> IF Placed(k, w) THEN Loss(k, w) ELSE loss[k]]
    /\ task' = [k \in Command |-> IF Placed(k, w) THEN [at |-> "queued", on |-> NoWorker]
                                  ELSE task[k]]
    /\ Seat(w, Absent) /\ told' = [told EXCEPT ![w] = <<>>]
    /\ UNCHANGED <<hold, body, waiter>>

Pool ==
    \/ \E k \in Command : Register(k)
    \/ \E w \in Worker : Join(w) \/ Finish(w) \/ HearStatus(w) \/ Die(w) \/ Remove(w)
    \/ \E k \in Command, w \in Worker :
          Assign(k, w) \/ Receive(k, w) \/ Enter(k, w) \/ Report(k, w) \/ Forget(k, w)

-----------------------------------------------------------------------------
(* One interruption.                                                       *)

In(k, step) == waiter[k].at = step
Its(k) == waiter[k].worker
Wait(k, r) == waiter' = [waiter EXCEPT ![k] = r]
Goto(k, step) == Wait(k, [waiter[k] EXCEPT !.at = step])
Settle(k, outcome) ==
    Wait(k, [waiter[k] EXCEPT !.at = "unhold", !.outcome = outcome,
                              !.entered = FALSE, !.evidence = {}])

\* The waiter reads interrupt_requested while its future is not done.
Request(k) ==
    /\ k \in Forced /\ In(k, "idle")
    /\ Goto(k, "locate")
    /\ UNCHANGED <<pool, body, told>>

\* _locate_interrupt.  An unregistered command is waited for.
Locate(k) ==
    /\ In(k, "locate") /\ task[k].at # "unsent"
    /\ IF task[k].at = "over" THEN Settle(k, "none") /\ UNCHANGED hold
       ELSE IF loss[k].unknown THEN Settle(k, "failed") /\ UNCHANGED hold
       ELSE /\ hold' = hold \cup {k}
            /\ loss[k].pending = NoWorker
            /\ Wait(k, [waiter[k] EXCEPT !.worker = task[k].on, !.entered = FALSE,
                           !.at = IF task[k].on = NoWorker THEN "prepare" ELSE "pause"])
    /\ UNCHANGED <<task, loss, seat, body, told>>

\* A restart somebody else began is unconfirmed: hold, and look again.
LocatePending(k) ==
    /\ In(k, "locate") /\ task[k].at = "queued"
    /\ loss[k].pending # NoWorker /\ ~loss[k].unknown
    /\ hold' = hold \cup {k}
    /\ UNCHANGED <<task, loss, seat, body, told, waiter>>

Gated(k, w) == Up(w) /\ k \in body[w].has \ body[w].ended /\ body[w].gate = NoCommand
SetsGate(k, w) == Body(w, [body[w] EXCEPT !.gate = k]) /\ Tell(w, "paused")

\* Mutant: an assigned command is taken for an entered one.
EnteredMutant(k) == TRUE

\* What the paused worker is actually executing.
Entered(k) == body[Its(k)].inside = k

\* _pause_command: admission is frozen before queued is told from entered.
Pause(k) ==
    /\ In(k, "pause") /\ Gated(k, Its(k))
    /\ SetsGate(k, Its(k))
    /\ Wait(k, [waiter[k] EXCEPT !.at = "prepare", !.entered = Entered(k)])
    /\ UNCHANGED pool

\* Not there (any more), finished there, or somebody else's fence.
PauseRefused(k) ==
    /\ In(k, "pause") /\ Up(Its(k)) /\ ~Gated(k, Its(k))
    /\ IF k \in body[Its(k)].ended THEN Settle(k, "none") ELSE Goto(k, "locate")
    /\ UNCHANGED <<pool, body, told>>

\* CommClosedError: the worker is gone, or the reply of what it did is lost.
PauseLost(k) ==
    /\ In(k, "pause")
    /\ IF Gated(k, Its(k)) THEN SetsGate(k, Its(k)) ELSE UNCHANGED <<body, told>>
    /\ Goto(k, "relocate")
    /\ UNCHANGED pool

\* Mutant: the worker is forgotten although our fence may be on it.
RelocateMutant(k) ==
    /\ In(k, "relocate")
    /\ Wait(k, [waiter[k] EXCEPT !.at = "locate", !.worker = NoWorker])
    /\ UNCHANGED <<pool, body, told>>

\* A worker the scheduler no longer knows is forgotten; of a present one the
\* address is kept, as its fence may be ours.
Relocate(k) ==
    /\ In(k, "relocate")
    /\ IF seat[Its(k)].here \/ loss[k].unknown THEN Settle(k, "failed")
       ELSE Wait(k, [waiter[k] EXCEPT !.at = "locate", !.worker = NoWorker])
    /\ UNCHANGED <<pool, body, told>>

\* Assigned between the location and the withdrawal: no worker was paused.
Moved(k) == task[k].on # NoWorker /\ Its(k) = NoWorker

Refused(k) ==
    \/ loss[k].unknown
    \/ task[k].on # NoWorker /\ Its(k) # NoWorker
       /\ (task[k].on # Its(k) \/ seat[task[k].on].fence \notin {NoCommand, k})

\* _prepare_interrupt: what sends the waiter back or ends it.
PrepareRefused(k) ==
    /\ In(k, "prepare")
    /\ CASE task[k].at = "over" -> Settle(k, "none")
         [] task[k].at # "over" /\ Refused(k) -> Settle(k, "failed")
         [] task[k].at # "over" /\ ~Refused(k) /\ loss[k].pending # NoWorker -> Goto(k, "locate")
         [] OTHER -> Moved(k) /\ Goto(k, "locate")
    /\ UNCHANGED <<pool, body, told>>

Ready(k) ==
    /\ task[k].at \in {"queued", "placed"} /\ ~Refused(k) /\ ~Moved(k)
    /\ loss[k].pending = NoWorker

\* One scheduler turn: the worker is fenced, then the command withdrawn.
Withdraw(k) ==
    /\ IF task[k].on = NoWorker THEN UNCHANGED seat
       ELSE Seat(task[k].on, [seat[task[k].on] EXCEPT !.fence = k, !.status = "paused"])
    /\ Task(k, "gone", NoWorker)

Prepare(k) ==
    /\ In(k, "prepare") /\ Ready(k) /\ Withdraw(k)
    /\ Wait(k, [waiter[k] EXCEPT !.at = "ack", !.worker = task[k].on])
    /\ UNCHANGED <<hold, loss, body, told>>

\* The withdrawal is done and its reply is lost.
PrepareLost(k) ==
    /\ In(k, "prepare") /\ Ready(k) /\ Withdraw(k)
    /\ Settle(k, "failed")
    /\ UNCHANGED <<hold, loss, body, told>>

Ungates(k, w) ==
    IF Up(w) /\ body[w].gate = k
    THEN Body(w, [body[w] EXCEPT !.gate = NoCommand]) /\ Tell(w, "running")
    ELSE UNCHANGED <<body, told>>

Owned(k) == seat[Its(k)].here /\ seat[Its(k)].status = "paused" /\ seat[Its(k)].fence = k

\* client.cancel and _interrupt_ack: the command is gone and the worker ours.
Acknowledge(k) ==
    /\ In(k, "ack")
    /\ IF Its(k) = NoWorker THEN Settle(k, "confirmed")
       ELSE IF ~Owned(k) THEN Settle(k, "failed")
       ELSE Goto(k, IF waiter[k].entered THEN "begin" ELSE "release")
    /\ UNCHANGED <<pool, body, told>>

\* Mutant: the waiter does not wait for the worker's free-key message.
WorkerReleasedMutant(k) ==
    /\ In(k, "release")
    /\ Settle(k, "confirmed")
    /\ UNCHANGED <<pool, body, told>>

\* Admission stays frozen until the worker has let go of the queued command.
WorkerReleased(k) ==
    /\ In(k, "release") /\ Up(Its(k)) /\ k \notin body[Its(k)].has
    /\ Settle(k, "confirmed")
    /\ UNCHANGED <<pool, body, told>>

\* _begin_owned_restart: the losses to come are announced.
BeginRestart(k) ==
    /\ In(k, "begin")
    /\ IF Owned(k)
       THEN /\ Seat(Its(k), [seat[Its(k)] EXCEPT !.restart = k])
            /\ Wait(k, [waiter[k] EXCEPT !.at = "restart", !.restarted = TRUE,
                           !.evidence = {j \in Command : Placed(j, Its(k))}])
       ELSE Settle(k, "failed") /\ UNCHANGED seat
    /\ UNCHANGED <<task, hold, loss, body, told>>

\* restart_workers: the nanny kills the process and starts another one.
Kill(k) ==
    /\ In(k, "restart") /\ Up(Its(k))
    /\ Body(Its(k), Dead) /\ told' = [told EXCEPT ![Its(k)] = <<>>]
    /\ UNCHANGED <<pool, waiter>>

\* "OK": the old process is dead and the scheduler has noticed.
Restarted(k) == body[Its(k)].life = "dead" /\ ~seat[Its(k)].here

\* Mutant: only the command the restart was for is certified.
CertifyMutant(k) ==
    /\ In(k, "restart") /\ Restarted(k)
    /\ Settle(k, "confirmed")
    /\ UNCHANGED <<pool, body, told>>

\* _certify_owned_restart, of exactly the losses this restart caused.
Certify(k) ==
    /\ In(k, "restart") /\ Restarted(k)
    /\ loss' = [j \in Command |->
                  IF j \in waiter[k].evidence /\ loss[j].pending = Its(k)
                  THEN [loss[j] EXCEPT !.pending = NoWorker] ELSE loss[j]]
    /\ Settle(k, "confirmed")
    /\ UNCHANGED <<task, hold, seat, body, told>>

\* An RPC raises, or the time is over.
Fails(k) ==
    /\ waiter[k].at \in {"locate", "pause", "relocate", "prepare", "ack",
                         "release", "begin", "restart"}
    /\ Settle(k, "failed")
    /\ UNCHANGED <<pool, body, told>>

Interrupts(k) ==
    \/ Locate(k) \/ LocatePending(k) \/ Pause(k) \/ PauseRefused(k) \/ PauseLost(k)
    \/ Relocate(k) \/ PrepareRefused(k) \/ Prepare(k) \/ PrepareLost(k)
    \/ Acknowledge(k) \/ WorkerReleased(k) \/ BeginRestart(k) \/ Kill(k) \/ Certify(k)
    \/ Fails(k)

-----------------------------------------------------------------------------
(* What the finally clause gives back.                                     *)

\* The admission hold, if the task is still the one it was taken on.
ReleaseHold(k) ==
    /\ In(k, "unhold")
    /\ hold' = hold \ {k}
    /\ Goto(k, IF Its(k) # NoWorker /\ ~waiter[k].restarted THEN "resume" ELSE "end")
    /\ UNCHANGED <<task, loss, seat, body, told>>

\* The scheduler's fence goes first, if it is ours ...
ResumeWorker(k) ==
    /\ In(k, "resume")
    /\ IF seat[Its(k)].here /\ seat[Its(k)].fence = k
       THEN Seat(Its(k), [seat[Its(k)] EXCEPT !.fence = NoCommand, !.status = "running"])
       ELSE UNCHANGED seat
    /\ Goto(k, "ungate")
    /\ UNCHANGED <<task, hold, loss, body, told>>

\* ... then the worker's own.
Ungate(k) ==
    /\ In(k, "ungate")
    /\ Ungates(k, Its(k))
    /\ Wait(k, [waiter[k] EXCEPT !.at = "end", !.worker = NoWorker])
    /\ UNCHANGED pool

\* A cleanup RPC fails, which is only logged.
CleanupFails(k) ==
    /\ waiter[k].at \in {"unhold", "resume", "ungate"}
    /\ Wait(k, [waiter[k] EXCEPT !.lost = TRUE,
                   !.at = IF In(k, "unhold") /\ Its(k) # NoWorker /\ ~waiter[k].restarted
                          THEN "resume" ELSE "end"])
    /\ UNCHANGED <<pool, body, told>>

\* submit raised: its future is dropped and the scheduler releases the task.
Drop(k) ==
    /\ In(k, "end") /\ waiter[k].outcome = "failed" /\ task[k].at \in {"queued", "placed"}
    /\ Task(k, "gone", NoWorker)
    /\ UNCHANGED <<hold, loss, seat, body, told, waiter>>

Cleans(k) == ReleaseHold(k) \/ ResumeWorker(k) \/ Ungate(k) \/ CleanupFails(k) \/ Drop(k)

INext == Pool \/ \E k \in Command : Request(k) \/ Interrupts(k) \/ Cleans(k)

ISpec == IInit /\ [][INext]_ivars

-----------------------------------------------------------------------------
(* Properties.                                                             *)

ITypeOK ==
    /\ task \in [Command -> [at: {"unsent", "queued", "placed", "over", "gone"}, on: Place]]
    /\ hold \subseteq Command
    /\ loss \in [Command -> [unknown: BOOLEAN, pending: Place]]
    /\ seat \in [Worker -> [here: BOOLEAN, status: {"running", "paused"}, fence: Key, restart: Key]]
    /\ body \in [Worker -> [life: {"new", "up", "dead"}, gate: Key, inside: Key,
                            mail: SUBSET Command, has: SUBSET Command, ended: SUBSET Command]]
    /\ \A w \in Worker : told[w] \in Seq({"running", "paused"})
    /\ waiter \in [Command ->
          [at: {"idle", "locate", "pause", "relocate", "prepare", "ack", "release",
                "begin", "restart", "unhold", "resume", "ungate", "end"},
           worker: Place, entered: BOOLEAN, evidence: SUBSET Command, restarted: BOOLEAN,
           lost: BOOLEAN, outcome: {"none", "confirmed", "failed"}]]

RunsOn(k, w) == Up(w) /\ body[w].inside = k
MayRunOn(k, w) == Up(w) /\ k \in body[w].mail \cup (body[w].has \ body[w].ended)

\* A cancellation is only ever reported of a command that runs nowhere and can
\* run nowhere any more, whatever was lost, delayed or restarted: the
\* record that says "cancelled" is not followed by the command's effects.
ConfirmedIsStopped ==
    \A k \in Command : waiter[k].outcome = "confirmed" =>
        task[k].at = "gone" /\ \A w \in Worker : ~RunsOn(k, w) /\ ~MayRunOn(k, w)

\* A forced restart never kills another command than the one it is for.
OnlyItsOwnDies ==
    [][ \A w \in Worker : Up(w) /\ body'[w].life = "dead" /\ seat[w].restart # NoCommand =>
          body[w].inside \in {seat[w].restart, NoCommand} ]_ivars

\* A second copy of a command starts only after a loss nobody caused, and then
\* that is on record: an owned restart, confirmed or not, never starts one.
CopiesAreOnRecord ==
    \A k \in Command, w, v \in Worker :
        RunsOn(k, w) /\ RunsOn(k, v) /\ w # v => loss[k].unknown \/ task[k].at = "gone"

\* Capacity comes back: unless its restart was begun or its cleanup failed, a
\* finished interruption leaves no fence on a worker of the pool, and no
\* command is withheld from the workers for its sake.
NothingStaysFenced ==
    \A k \in Command : In(k, "end") /\ ~waiter[k].lost =>
        /\ k \notin hold
        /\ waiter[k].restarted \/ \A w \in Worker :
              seat[w].here => seat[w].fence # k /\ (Up(w) => body[w].gate # k)

\* A confirmed restart certifies every loss it caused: no command it displaced
\* is left waiting for a confirmation that will not come.
NobodyIsStranded ==
    \A k, j \in Command : waiter[k].outcome = "confirmed" /\ waiter[k].restarted =>
        ~(loss[j].pending = Its(k) /\ task[j].at = "queued")
=============================================================================
