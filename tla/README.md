# A TLA+ model of Hedloom

Hedloom (`src/`) records a study as a Plan and runs the Plan's invocations in process, through LSF
(`bsub -I`) or on a pool of workers. It promises that one computation runs once, that its result
stays on disk, and that everybody who asks for the same computation is served that result. These
modules model the parts of the code where that promise could fail: the durable attempt record and
its event log, the controller that shares and withdraws executions, the forced stop of pooled
commands, retention, the authoring of Plans and the identities they are reused by, the Runtime's
threads, and the saved histories. TLC checks them on small instances. TLAPS proves their safety for
every value of the constants: all of it for the record, retention, the controller, the
interruption, the Runtime and the histories, each under the hypotheses section 5 names; and of
authoring that failed work leaves no gap in the keys and that the plan it leaves validates.

Paths below are relative to the repository. `exec` stands for `exec/src/hedloom_exec`, `run` for
`run/src/hedloom_run`, `flow` for `flow/src/hedloom_flow`, and `facade` for `src/hedloom`. The
repository also keeps TLA+ of its own (`docs/internals/attempt-claim`,
`docs/internals/stop-admitting`, `design/formal/async-interruption`). Those modules describe designs
and were not used as a source. A README.md or ONTOLOME.md is named by its
place in the repository. Every definition here is read from the Python code.

## 1. Inventory

| Component | State it keeps | Operations | Talks to |
|---|---|---|---|
| Attempt protocol (`exec/attempt.py`, `journal.py`, `durability.py`) | the record directory of one computation: event log, `manifest/<n>.json`, `standing.json`, `claim.lock` | `launch_or_attach`, `reconcile`, `request_cancel`, `accept_for_reuse`, alternated by `execute` | transports; retention through the claim |
| Event log (`exec/journal.py`) | `events.jsonl`; `_next_seq` of each `AttemptJournal` object | `append`, `events`/`fold`, `snapshot` | everything that reads records |
| Transports (`exec/transport.py`, `lsf.py`, `run/pooled.py`) | jobs at the substrate; receipts | `submit`, `discover`, `poll`, `cancel` | LSF, Dask workers |
| Run controller (`run/controller.py`) | Runs, entries by execution key, per-placement counters, preparation slots | `submit`, `stop`, `close`; coroutines `_prepare`, `_execute`, `_withdraw`, `_save`, `_drive` | handles, Dask, the Runtime's callbacks |
| Execution handles (`run/execution.py`, `run/graph.py`) | `state.json` (ready, entered, cancelled, finished), `interrupt.json`, the selection | `create`, `enter`, `cancel_before_start`, `finish`, `request_interrupt` | controller on one side, worker on the other, under one file lock |
| Pooled interruption (`run/pooled.py`, `_pool_scheduler.py`, `_pool_security.py`) | admission hold, worker fence, loss records of tasks | `_interrupt_command` and its scheduler and worker callbacks | Dask scheduler and workers by RPC |
| Retention (`exec/prune.py`, `pins.py`) | `workspace_removed`, `pinned`, `unpinned` events; workspaces and their modes | `survey`, `apply`, `pin`, `unpin` | the record, under its claim |
| Watching (`exec/watch.py`) | advisory observation log | `observe`, `status_of` | `bjobs` |
| Planned identity, artifacts (`exec/planned.py`, `identity.py`, `artifacts.py`) | none | ordering a Plan, naming a computation, capturing outputs | pure functions and file reads |
| Flow authoring and Plan model (`flow/authoring.py`, `model.py`) | a Plan under construction: counters, keys, scopes, checkpoints | calls, flows, sweeps, `finish`, `Plan.validate` | the author's Python; Planned identity |
| Binding, site, cluster (`run`, `facade/binding.py`) | configuration | selecting a transport, building bundles, starting workers | controller (`_prepare_item`) |
| Runtime, Run receipt, offload (`facade/runtime.py`, `run.py`, `_offload.py`) | submissions; two futures per receipt; worker threads | `submit`, `stop`, `close` | controller, history |
| History and discovery (`facade/history.py`, `discovery.py`) | run numbers, run events, execution bindings | reserving, appending, reading | Runtime |
| Study facade, CLI, reports (`facade`) | none | user interface | all of the above |

### What is hard, and what makes each part correct

* **Attempt protocol.** Several processes, on several machines, act on one record. Any of them may
  die between any two writes. The scheduler may have accepted a job whose receipt was never stored,
  and it may forget a job. The record is correct when at most one job of a computation lives, the log
  always names that job, a decision has its evidence and is never revised, a success was earned, and
  nobody submits again what may still run.
* **Event log.** A write may be torn, and `AttemptJournal` objects outlive their claims. The log is
  correct when what operations accept observers can read, and when nobody acts on a log that silently
  lacks an acknowledged event.
* **Controller.** It is a single thread, but every `await` lets the others in, while the gate of a
  handle is also touched by a worker. It is correct when no Run's work is stopped by another Run,
  work reported as blocked never starts, an outcome is reported once, a stop reaches everything,
  capacity holds, dependencies come first, and every Run is reported.
* **Pooled interruption.** Locations go stale between RPCs, replies get lost, and a restart may stay
  unconfirmed. It is correct when only the named command is interrupted, no fence is forgotten, and no
  replacement overlaps surviving work.
* **Retention.** A proposal is old when it is applied. It is correct when no pinned or standing
  workspace is removed and every removal is recorded first.
* **Runtime and history.** These span threads and processes. They are correct when every receipt is
  accepted or refused and then completed, a stop is not lost while the control is created, run
  numbers are unique, close drains, and a reader of a history that is still being written is told
  nothing false.
* **Authoring and identity.** An author's exceptions, nested flows and loops drive a draft that
  several programs read later. It is correct when everything authored validates, what validates can
  be ordered, a failed call leaves no gap, and a reused result is the value of what was written.

`PROJECT.json` lists every hazard at its line, with the properties that cover it.

## 2. The modules and the code

### `AttemptRecord` and `Computation`

| Model | Code |
|---|---|
| `lock` | `flock` on `claim.lock` |
| `tries`, `current` | what `_fold_events` derives from the log, for each try |
| `manifest`, `standing` | the files of the same names |
| `farm`, `accepted` | jobs at the substrate, in the order they were accepted |
| `pc`, `verdict` | how far the claim holder's operation has come |

A step ends at each durable write and at each call of the transport, so a `Crash` can fall between
any two of them. `Crash` also stands for any exception that unwinds the claim. `Claim` is disabled
while the lock is taken, which is the code's `ConcurrentClaim`. `Launch` follows
`_launch_or_attach_locked` branch by branch:

1. Serve what stands.
2. Repair a publication.
3. Serve or replace a terminal try.
4. Refuse.
5. Attach to a submitted or discovered job.
6. Record it as lost.
7. Begin a try, write the intent and submit.

`Reconcile` polls and publishes in the code's order: manifest, standing, terminal.

The transport is three Booleans: `Authoritative` (a negative discovery proves there is no job),
`OwnerBound` (accepted work always dies with its client), and `Receipts` (the handle carries the
result).

| Kind of transport | `Authoritative` | `OwnerBound` | `Receipts` |
|---|---|---|---|
| LSF | TRUE | FALSE | TRUE |
| in process | TRUE | TRUE | FALSE |
| pooled | FALSE | FALSE | TRUE |

For LSF, `OwnerBound` is FALSE because a client killed between fork and bind leaves work behind.

Abstracted: input digests and `StaleIdentity` (they refuse a launch and change nothing), workspaces,
borrowed artifacts, placement and observation events, and the published selection. `JobForgotten`
lets the substrate forget any finished job, more than `bjobs` does. `GiveUpAtBound` is only the bound
`MaxTries`. A submission that is reported as failed and accepted later is excluded for authoritative
transports: that is what the flag asserts. `flock` is taken to exclude; `journal.py:327-418` explains
what NFS needs for that.

`Computation` is the abstract promise. The work runs at most once at a time, its result is decided
once and only while nothing runs, and nothing runs after that. `ImplementsComputation` maps
`executing` to "some job of the record is live" and `result` to the standing outcome.

### `JournalLog`

`log` is `events.jsonl`, and each line has the form a failed write may have left. A `cut` line stops
inside its JSON; a `bare` line lost only its newline; what is appended next is written onto either of
them (`Extended`). The two readers are `StrictlyReadable` (`events` and `fold`, which every operation
uses) and `SnapshotReadable` (`snapshot`, for observers). Each line bears the `event` it acknowledges, or
0 if its append raised, so that `Seen` is what a reader has learned. `nextSeq` is the cached
`_next_seq`. `Reused` says whether one object serves several claims.

The strict reader does refuse a log after a torn write: after a `cut` at once, after a `bare` line
once the next event is glued onto it. So `AcknowledgedIsSeen` does not say that an acknowledged event can be
read for ever. It says that a reader which accepts the log has seen every one of them.

### `Controller` and `Study`

A consumer is an occurrence `<<run, item>>`. An entry is named by the consumer whose preparation
created it, so entries need no bound. A step runs from one `await` to the next:

* `_prepare`: `Join`, `Acquire` and `AwaitSettled` look at the table, `StopWaiting` leaves the closing
  wait, `BindDone` attaches, abandons or reports, `CancelUnowned` closes the gate. `PrepareFails`,
  `BindFails` and `Undo` are its exception handler.
* `_withdraw`: `WithdrawStart`, `WithdrawGate` (in the offload lane), `WithdrawResume` (the rechecks)
  and `WithdrawInterrupt`.
* `_execute` and the worker: `Enter`, `Refuse`, `Finish`, `TaskFails`, `Settle`.
* `_save`, in its three parts with an `await` after the first two (`at` says which is next):
  `SaveRecords` (the outcome, `completed`), `SaveDelivers` (what `produced_by` returned) or
  `SaveUndelivered` (it raises: the outcome stands and the Run stops), `SaveAnnounced` (`on_event`
  is back) or `SaveUnheard` (it raises, and where that exception goes).
* `_drive`: one `Drive` step is one iteration, `DriveFails` its exception, `Drain` the loop after it.

`ToBlock`, `ToWithdraw`, `Nominations`, `Candidates`, `Dispatches` and `Finished` are the parts of an
iteration, in the code's order. Merged or abstracted:

* Taking the preparation slot and `_prepare_item` are one step with the attachment, because nothing
  another coroutine sees changes in between. The creation of a handle is one step with `Acquire`.
* The durable link is one step with the resumption of `_prepare`.
* One item is nominated in each iteration; an iteration that nominates wakes the next.
* Priority and rotation are a free choice among what is ready.
* `each_submission` invocations are left out: their handle is their own and they never share.
* After a Future failed, the model's worker does not enter the gate any more.
* `Drain` may spawn a withdrawal again before the gathered tasks have all ended, which allows more
  behaviours than the code has.
* `DriveFails` is taken at the start of an iteration.

`MaxStopped` and `MaxForced` bound how many Runs are stopped by request, and how many forced, in one
behaviour. `Window` is how much work a Run may hold at a time, the capacities of all placements together: an
instance with a second placement lets a Run prepare one item while the outcome of another is being
saved.

`WithdrawResume` keeps the code's second test for shared ownership. TLC finds no state of the two
passing instances in which that test succeeds: the entry is sealed before the gate is read, and a
sealed entry is not joined. `Withdraws` and `Sealed` (section 5) imply that there is none for any
values of the constants.

`Study` is the abstract promise to those who submit Runs, without entries, gates, bindings,
withdrawals or a driver. Each occurrence has at most one `link` to an execution of its computation,
made once all it requires has succeeded. An execution starts only if an occurrence is linked to it,
and is closed or cancelled only when every Run linked to it has stopped. What is reported of an
occurrence is justified by what its execution came to, is decided once, and is there for every
occurrence when the Run is reported. `ImplementsStudy` maps `link` to `linked`, the state of the
Runs to `runs`, `outcome` to itself, and `work` to `WorkOf`, which reads the gate and what the worker
answered. Two Booleans say how far the environment may fail. `Faulty` allows work to be lost, a
report of failure without one, and a broken engine that ends its Runs. `Unheard` (`on_event` may raise)
allows the one thing a listener does to the promise: an outcome may be revised to failed
(section 4).

### `Retention`

It extends `AttemptRecord`, so a step is a step of the record (`RecordStep`) or of a keeper.

| Model | Code |
|---|---|
| `Surveys`, `Candidate` | `survey`, read without the claim |
| `SkipsContended`, `SkipsChanged`, `RecordsRemoval` | `apply`: the claim without waiting, the second survey, the append |
| `RemovesSome`, `RemovesRest`, `RemovalFails` | `_remove_workspace`, which may stop halfway or meet frozen files |
| `Pins`, `Freezes`, `AppendsPinned` | `pin`: inventory, modes, event |
| `Unpins`, `Restores` | `unpin`: event, modes |

A keeper may crash at any of these steps. Every try is old and large enough for any policy: what a
rule then decides is by outcome and `keep_latest`. `resolve_selector` and `verify` only read.

### `Interrupt`

`_interrupt_command` (`run/pooled.py`) with the state it acts on in the scheduler and the workers. A
`waiter` is the thread that submitted a command. Its steps are the RPCs of the code: `Locate`,
`Pause`, `Relocate`, `Prepare`, `Acknowledge`, `WorkerReleased`, `BeginRestart`, `Kill`, `Certify`
and the clean-up of the `finally` clause (`ReleaseHold`, `ResumeWorker`, `Ungate`). Variants named
`...Lost` take effect and lose the reply. `Pool` is Dask as the code uses it (external in the map),
with the two overrides of `OwnedPoolScheduler`: `Runnable` and `Heard`.

| Model | Code |
|---|---|
| `hold`, `loss` | the attributes `ADMISSION` and `LOSS` of a task |
| `seat[w].fence`, `.restart` | the attributes `FENCE` and `RESTART` of a worker state |
| `body[w].gate` | the fence installed in the worker itself |
| `told` | status messages on their way from a worker to the scheduler |

A restarted worker is another member of `Worker`. Restart tokens are the command the restart is for.

### `Plan`, `Planned` and `Authoring`

`Plan` is `flow/model.py` as operators: identities, references and `Valid`, the conjunction of what
`Plan.validate` refuses. Where the code follows edges or parents until it meets a node again, the
predicate is about sets: a cycle is a set of invocations that all wait for one another, boundaries
are acyclic when no set of them has all its parents inside, and a boundary descends from another
when every set that has it, and with each boundary its parent, has the other.

`Planned` is `exec/planned.py`: the order, and the identity of a computation. A digest is represented
by what it is taken of, so that equal digests are equal inputs.

`Authoring` drives a `PlanDraft` one call at a time. `graph` is what `_checkpoint` copies; `stack`,
`sweeping` and `loops` are the context variables; `held` are the handles the author's Python still
has. `FlowFails` is an exception that leaves a strategy and is caught outside. A finished plan is
submitted (`Submit`): each invocation in its order, reused when a record has its identity. Then the
draft is let go, and the author edits a source or an operation and authors again. Each handle carries
`meaning`, the value of the computation the author wrote. It is history, no code has it, and
`ResultsMeanWhatWasAuthored` compares it with what the run reports.

A call that the draft refuses restores its checkpoint before it raises and is a stutter here. A
key the author writes may look like an automatic one (the pattern in `flow/model.py` admits dots), so
`KeysAreConsecutive` allows a gap only where such a key fills it. Left out: the syntax of names and literals, named output mappings, sweeps zipped with each other, and the
local runner.

### `Runtime`

Caller threads (`Submit`, `MarkStop` and `PostStop`, `Close`) and the loop thread. A caller's step
ends where it leaves a lock, a loop step at an `await` or where it hands something to callers.
`calls` is what `call_soon_threadsafe` has posted. `entry[s].at` follows `_run` from its wait for
startup to the release of the record, and `closer` follows `_close`. The control of a Run is reduced
to whether it exists and how it was stopped: `Controller` models the rest. Failures of the history
are in `RunHistory`: here acceptance either raises (`Raises`) or not, and the last write of the
history (`Saves`) either raises, which turns the outcome into a failure, or not.

### `RunHistory`

Writers (`HistoryWriter`), the workers that publish a selection (`ExecutionHandle`), somebody who
removes old run directories (`Deletes`), and a reader (`RunHistory.read_run` and
`reproducibility`). Each step is one durable write or one file read, so a reader sees a directory
while it changes. A torn append leaves the lines of `Remains`. `stuck` is `append_failed`.
`number` is the occurrence a writer tries; `Left` tells a writer that had a run from one that died
before it. `Finishing` leaves a preparation at any point before `run_prepared`, also when the
evidence is published and `bindings.json` is not. The reader's answer is `"refused"` wherever the
code raises `HistoryError`, whatever the message, and `question` is what it was asked. `slipped` is
history that no code has: the append of the writer's `run_prepared` failed.

## 3. Runs

| Run | Instance | Checks |
|---|---|---|
| `record_lsf` | 2 callers, 2 tries, 2 jobs, LSF transport, fairness | all safety of the record, `ImplementsComputation`, claims are given back |
| `journal_single` | 3 objects, 8 lines, writes that stop inside the JSON or before the newline, one object for each operation | the two readers agree, no reader misses an acknowledged event |
| `controller_shared` | 3 Runs (symmetric) with one pooled invocation, stop, force and close, two may be stopped and one forced, capacity 2, one failing intent | sharing, withdrawal, escalation, gate, `ImplementsStudy` |
| `controller_chain` | 2 Runs, one with two dependent invocations, close, one may be stopped by it, both answers, any two faults including the engine, capacity 1, two placements, fairness | capacity, outputs are handed on, `ImplementsStudy`, every Run is reported |
| `controller_orphan` | 3 Runs, stop | finding: two executions of one key |
| `retention_keepers` | 1 caller, 2 keepers (symmetric), 2 tries, pooled transport, crashes | pinned and standing workspaces, removals on record, the record undisturbed |
| `interrupt_force` | 2 commands, both forced, 2 workers (symmetric), lost replies, deaths | confirmed means stopped, only its own command dies, nothing stays fenced or stranded |
| `authoring_drafts` | 2 drafts of 3 and 1 calls, 4 operations, nested flow and sweeps, an edited body and source | drafts validate, keys, order, the meaning of results |
| `authoring_versions` | 1 draft, 2 versions of one operation | finding: the body of another version runs |
| `runtime_close` | 2 submissions, one may be forced, stop, close, startup that may fail, fairness | stops are delivered, receipts, close drains, every receipt completes |
| `history_reads` | 2 writers (symmetric), 2 numbers of which one directory is foreign, 1 invocation, the appends of `run_prepared` and of outcomes may fail, removal | numbering, why a history is refused, what "complete" means |
| `history_append` | 1 writer whose `run_prepared` append may fail | finding: a history nobody can read |

**Why these bounds.**

* *Record.* Two callers make every race for the claim, and a crashed caller may come back as a third.
  Two tries are the smallest history with an earlier and a current try; two jobs allow an accepted job
  that was lost and its repetition. The theorems drop these bounds, and hold for the pooled and the
  in-process transport too.
* *Log.* Eight lines leave room for a damaged line, repairs and repeated numbers by three objects.
* *Controller.* Three Runs on one key are an owner that leaves, one that is binding, and a newcomer
  waiting for a sealed entry. `controller_chain` uses the smallest Plan with a dependency, and two
  Runs so that half of it is shared. Nothing runs at its second placement: it only widens the window.
  `MaxFaults` is 2 there, so that failures are also tried in pairs, at each place they may occur. In
  `controller_shared` `MaxStopped` is 2, which leaves an owner that goes on, and `MaxForced` is 1: the
  forced Run meets Runs that stop ordinarily or go on, and may itself be escalated from an ordinary
  stop. `Requests`, `Answers` and
  `Faults` select what an instance tries, to keep both instances small.
* *Retention.* Two keepers are a stale survey and a pin, or a pin and an unpin, and each comes back
  after a crash. The theorems drop these bounds.
* *Interrupt.* Two commands are a target and its neighbour on the same worker, and both are forced
  at once. Two workers are an old one and the one the command goes to; one may be the other's
  replacement.
* *Authoring.* Three calls are a producer, a consumer and something between them that may fail;
  `ThreeThenOne` lets the second draft reuse what the first left behind. One level of flow inside a
  sweep, or of sweep inside a flow, and two points. The theorems drop these bounds.
* *Runtime.* Submissions meet only in startup and close, so that two are one before and one after.
* *History.* Two writers race for a number and share an execution. One foreign directory makes a
  writer give its reservation back. Of the appends that may fail, `run_prepared` is the one without a
  guard and an outcome is one that more follows; the final event, which nothing follows, may only be torn
  by a death. The theorems drop the bounds and hold whatever fails.

**Symmetry** is used only in runs without liveness.

**Fairness.**

* *Record.* A caller that holds the claim keeps taking steps (it is running code), and jobs end (LSF
  enforces its walltime). Nothing is assumed about who gets the claim.
* *Controller.* The loop and its offload lanes keep running and every body ends:
  `WF_vars(LoopStep)`. Requests and failures get no fairness.
* *Runtime.* The loop runs in turn what is posted to it and what its tasks await ends
  (`LoopFairness`). That a Run ends is what `EveryRunSettles` shows of the controller. Callers get no
  fairness: a stop may stay between its mark and its post for ever.

**Deadlock** is checked in the record and log runs. It is switched off elsewhere: the controller and
the Runtime rest once every Run is done, keepers and authors need not go on.

Each property has a mutant in the module of the code it is about: a dropped guard, a missing recheck,
a swapped order, under which TLC finds the property violated. The mutants stand just before the
definitions they replace and nothing else uses them.

## 4. Findings

Three runs show code that does something else than its documentation says.

1. The controller abandons an entered execution when its last binding Run stops. A later Run then
   dispatches a replacement beside it, and Exec refuses that with `ConcurrentClaim`
   (`controller_orphan`).
2. A Plan may call two versions of one operation. `_implementations_for` and `prepare_invocations`
   bind bodies by name, so both calls run the body that was registered last
   (`authoring_versions`).
3. `HistoryWriter.prepared` appends without the guard that other events have. When that append
   fails, the run's final event is written behind what is left of it, with the same sequence number
   or onto the torn line, and the whole history is refused as corrupt (`history_append`).

All three were reproduced by calling the Python code.

Other disagreements were met while modelling. They have no run of their own here; each is a line of
the code that a reader of the documentation would not expect.

* `publish_terminal` replaces `standing.json` before it appends the terminal event
  (`exec/journal.py:748`), while `docs/internals/attempt-claim-protocol.md:91-93` lists the reverse.
  The code repairs the half-way state.
* A cancellation recorded before a receipt blocks its record for good (`exec/attempt.py:316`), while
  `exec/ONTOLOME.md:151` says it blocks only its try.
* An `AttemptJournal` that is used for a second claim after another process appended repeats a
  sequence number (`exec/journal.py:488`), and `snapshot` refuses the log from then on. The README of
  `exec` shows this use. (`JournalLog` with `Reused = TRUE` violates `ObserversCanRead`.)
* A line that lost only its newline is accepted, and the next acknowledged event is glued to it
  (`exec/journal.py:501`). From then on `events` and `snapshot` both refuse the log, so that the record
  needs an operator. (`journal_single` has such lines. `AcknowledgedIsSeen` allows the refusal and
  excludes only a reader that goes on without the event.)
* A result saved inside `_prepare` is replaced by a failure when the event callback raises
  (`run/controller.py:261`). (`OutcomeIsFinal` assumes that no listener raises and is false
  otherwise. `controller_chain` lets one raise, and `Study` has `Revise` for it.)
* An author who catches the failure of a flow and keeps a handle made inside it can go on calling
  with that handle (`flow/authoring.py:974`, `1072-1087`), although `flow/ONTOLOME.md:53-54` promises
  that counters and ownership roll back: only `finish` then refuses the Plan.
  (`Escapes = TRUE` violates `DraftsValidate`.)
* With `keep_latest` 0 a failed try may lose its workspace and then be accepted for reuse
  (`exec/attempt.py:131` does not look at the workspace), against `docs/guide/results.md:321-322`.
  (`KeepLatest = 0` violates `StandingKeepsItsWorkspace`.)
* A removal that met frozen files is on record and cannot be completed, as the try cannot be pinned
  and thawed again, against `exec/README.md:49-51`.
* `reproducibility` looks for the evidence and then reads the events (`facade/discovery.py:95-98`).
  A writer that publishes both in between makes it raise `HistoryError` for missing evidence, which
  `docs/guide/discovery.md:179` explains as corruption, where lines 175-180 promise "pending". (The
  configuration of `history_append` with no failing append and `Questions = {"reproducibility"}`
  violates `HistoryStaysReadable`. `RefusalsAreExplained` names this refusal as one of its two
  reasons, so that `history_reads` shows it to be the only one beside finding 3.)

## 5. Proofs

Eight modules hold the theorems, each named after the module it is about: `AttemptRecord_proofs`,
`JournalLog_proofs`, `Retention_proofs`, `Controller_proofs`, `Interrupt_proofs`, `Runtime_proofs`,
`RunHistory_proofs` and `Authoring_proofs`. Every leaf is checked by `tlapm`.

**Assumptions.** `CallerAssumption` (nobody is called `NoCaller`), `BoundAssumption` (the bounds are
positive), and `TransportAssumption` (the three flags are Booleans). So the theorems hold for any set
of callers, any bounds and every kind of transport. For retention, `KeeperAssumption` (keepers are no
callers) and `PolicyAssumption` (a rule keeps a natural number of tries and names outcomes). For the
log: `JournalAssumption`, `LogAssumption`, and for `ReadersAgree` the hypothesis it states. For the
controller: `CapacityAssumption` (a placement admits at least one execution), `FiniteAssumption`
(Runs and items are finitely many, so that executions can be counted), `NoneAssumption` (no
occurrence is called `None`) and `AnswersAssumption` (work that answers succeeded or failed). For
the interruption `NamesAssumption` and for the Runtime `ForcedAssumption`, which only say that names
are what they seem. For the histories: `NumberAssumption` and `QuestionAssumption` (there are two
questions). For authoring: `ParametersAssumption` (the
parameters of an operation are finitely many, an input is one artifact or a collection, and none is a
configuration value too), which Python's rules for a function's parameters give.

**The record.** None of the safety invariants is inductive alone. That at most one job lives, for
example, needs to know that the step about to submit follows a discovery that found nothing, and that
a discovery which finds nothing implies no live job. `IInv` adds:

* `ClaimInv`: only the claim holder is inside an operation.
* `TriesInv`: what log and manifests say of each try.
* `FarmInv`: jobs are accepted in order, and only the last can be live or listed under the current
  name.
* `StandingInv`: the standing result is the current try's manifest.
* `StepInv`: what the holder has established when it reaches each step.

The proof has one lemma for each action, over lemmas about the shared helpers (`AppendEvent`, the
fold updates, giving back the claim, moving on). `Inductive` is `Spec => []IInv`. The invariants
follow from it, the action properties from it and a lemma on which steps change a manifest or accept
a job, and `RecordKeepsItsPromise` maps every step to a step of `Computation` or a stutter.
`TypeCorrect`, `EvidenceBacksTheJournal` and `TriesAreSettledInOrder` are proved and not listed in a
run.

**The log.** Both theorems go by one case distinction. As long as nothing was written onto a bare
line (`NoneGlued`), `NumberingInv` says that every line is numbered by its place and every cached count
is the count of now, and `SurvivalInv` that each acknowledged event is a whole line of its own. Once
a line is glued, it stays in the log and neither reader accepts the log any more. `ReadersAgree` is
proved where no object serves two claims (`Reused = FALSE`) and is false without that (section 4).
`AcknowledgedEventsAreSeen` has no hypothesis: it holds for every cut and for reused objects.

**Retention.** A keeper holds the same lock as a caller. `RetentionDisturbsNothing` therefore hides
it: with the claim read as free while a keeper has it, a keeper's step is a stutter of
`AttemptRecord` and a caller's step is the same step. The record's invariant carries over through an
instance of its proof module under that substitution (`RecordInvariantHolds`), and with it what
retention reads of the record. `RInv` is the invariant of the keepers:

* `HolderInv`: the keeper inside a protected step is the lock's holder, so there is one.
* `KeepInv`: what that holder has established (`Knows`). A try being removed is recorded as removed
  and unpinned; a try being pinned is whole; a workspace that lost something belongs to a try whose
  removal is on record.

`PinsAreKept` needs both: a pin is refused where a removal is on record, and a removal is refused
where a pin is, and each of the two looks under the claim the other needs. `RemovalsAreOnRecord` is
the action property. The record's `TerminalStays` (a terminal try stays terminal) is the lemma it
rests on.

`StandingIsKept` needs one thing more, `CurrentIsWhole`: only tries before the current one were ever
removed. The newest decided try is never a candidate of a rule that keeps one, and a try that is not
decided is no candidate either. That makes `KeepLatest # 0` a hypothesis; without it the statement is
false (section 4).

**The controller.** The difficulty is that each coroutine acts on what it read before its last
`await`. Three invariants say what still holds after it, and two more what has been true of the work
all along.

* `ControlInv`, for sharing, withdrawal and capacity. `Placed` says where an occurrence may be on its
  way to an entry, `Withdraws` what a withdrawal still knows of its entry at each of its steps,
  `Owned` that the consumers and bindings of an entry are those the occurrences themselves name, and
  that an owned entry is the one the table lists. `Sealed` says when an entry may no longer be joined:
  from the moment it is closing it has one consumer at most, which is stopped. `Counted` says that
  `outstanding` is the number of executions between dispatch and the `finally` of `_execute`.
  From it follow `CapacityHolds`, `WorkIsShared`, `OwnersStopTheirWork`, `StartsAreLinked` and
  `BlockedNeverStarts`.
* `StopInv`, for `StopsReach`. `Heard` says that when the loop sleeps, nothing a stopped Run has is
  left for the driver to act on; so every step that creates such work also sets the wake event.
  `Drains` says that what drains is entered, and that a force has been heard. This is where the reset
  of `draining` on escalation (`run/controller.py:81`) is needed.
* `OnceInv`, for `OutcomesAreFinal`. An occurrence is waiting, prepared, attached, being reported, or
  decided, and never two of these; what breaks this is a listener of the events that raises, as
  `_prepare` takes that exception for a failure of the preparation and reports again (section 4).
  `OnceInv` says what is left then: only a report of failure follows a decision. It holds for any
  faults. `OutcomesAreFinal` itself assumes `"event" \notin Faults`.
* `PromiseInv`, for `ControllerKeepsItsPromise`. `Tended` says that an occurrence of an open Run
  always has somebody who has it in hand or is decided, and that nobody works for a Run that is not
  open. `Grounded` says that a coroutine which still has to report something has grounds for it, that
  a preparation is under way only where all it depends on succeeded, and that a linked consumer loses
  unfinished work only if its Run stopped. `Ran` ties what the loop recorded of an execution to what the worker
  did. `Shut` says that a closed controller has stopped its Runs.
* `HandedInv`, for `OutputsHandedOn`. What is decided of an occurrence is delivered or is about to be,
  unless its Run is stopped; an occurrence is begun only upon what was delivered; and a Run that was
  not stopped ends only with everything delivered. `PromiseInv` then says of what was delivered and
  succeeded that it was linked to an execution whose work succeeded.

`ControllerKeepsItsPromise` is the refinement, for any Runs, Plans, sharing, capacity, requests and
faults. Every step of `Controller` is one step of `Study`. The steps that move only its own
bookkeeping, and those that only stop Runs, are `Stop`. The others are one each of `Link`
(`BindDone`), `Start` and `End` (the worker), `CloseOff` (whoever cancels a gate), `Lose` (a Future that
failed), `Decide` or `Revise` (`_save`), `Conclude` (`Drive`) and `GiveUp` (`Drain`). `ControlInv` gives that work is
taken away only from stopped Runs, `OnceInv` that a report is the first, and `PromiseInv` that it is
justified. `StartedWorkIsLinked` and `OutcomeIsFinal` are consequences that are easier to read. They
are proved from the invariants directly (`StartsAreLinked`, `OutcomesAreFinal`), and the runs check
them as part of `ImplementsStudy`.

**The interruption.** `ForceInv` has two sides. `BodyInv`, `SeatInv` and `TaskInv` describe the pool:
what a worker holds, that a restart is begun only behind a fence and a gate that let nobody in, and
that a command lives where the scheduler does not place it only after a loss on record. `PhaseInv`,
`GripInv`, `TrailInv`, `EvidenceInv` and `OutcomeInv` describe each waiter: what its step says, what
its pause guarantees while it decides, what it has left in the pool and still has to take down, that
the evidence of a restart covers every command the restart may displace, and what is true once it
has confirmed. The three lemmas most actions go through are `OwnStep` (a waiter that changes
only itself and its hold), `GivingUp` and `Confirming`.

**The Runtime.** `RTInv` ties the step of each `_run` task to its receipt (`Told`), to what the
runtime still owns (`Known`) and to its control (`Controlled`: a stop that was posted is applied by
the callback, by the owner's recheck or not yet), and `Drained` says that a closing runtime takes
nothing new and closes only when all it listed is over.

**The histories.** `NumbersAreUnique` follows from `NumberInv`: a writer that has a run holds the
reservation of its number, and no two do. A reservation is undone only by the writer that made it and
only before it has a run. The proof is what separated a writer that died before it had a run
(`"gone"`) from one that left it behind. The two theorems about readers add invariants of their own, over
what every append may leave (a whole, a torn or a glued line) and what every removal may take.

* `StoryInv`, for `CompletenessIsTrue`: `WholeStory` of each number (a reference said to be
  live can be found, and a final "complete" stands in no log with a late one), `Written` of each writer
  (it has concluded nothing yet and remembers a late reference), `Chosen`, and `Attended` of the
  reader. It holds whatever fails.
* `ReadableInv`, for `RefusalsHaveReasons`, of every history whose `run_prepared` could be appended:
  `ReadableStory` (lines stand at the position they bear; a final line has every outcome before it) and
  `WrittenReadably` (until an append fails, the writer knows its position and has told what it
  remembers). `EvidenceInv` says that a log with a `run_prepared` has its evidence on disk.
  `Explained` follows from both at the step that refuses. No append is assumed to succeed: where
  that of `run_prepared` failed, which is outside the guard that stops a writer (finding 3), the
  history is `Slipped` and the refusal has its reason.

**Authoring.** `KeysHaveNoGaps` rests on `KeysInv`: a graph is `InOrder` under the open flows when its
keys are those that its records and the open flows bear (`Borne`) and its counters agree with its
keys (`Numbered`); and the checkpoint of each open flow is in order under the flows around it
(`Saved`), which is what makes a rollback restore the property at any depth.

`DraftsAreValid` says that `Plan.validate` never refuses what a draft let its author do, for any
operations, flows, keys, sweeps and depth. Validity is not inductive, because the graph inside an
open flow is not a valid plan: what was called there names a boundary that is not recorded yet.
`DraftInv` is what holds all the time: the graph is `Sound` under the open flows, with the handles
the author holds, and the checkpoint of each open flow is `Sound` under the flows around it, with the
handles that were held then. `Sound` has one part for each thing validation asks:

* `Declared`: operations, flows and sources are listed once.
* `Identified` and `Apart`: each record and each open flow is named after its scope and key, its scope
  is recorded or open, and no two have one ID. This rests on `KeysInv`: a key that may be reserved is
  borne by nobody.
* `Bound`: an invocation is bound as its operation declares, and uses only what was called before it.
* `Wired`: the edges are those the bindings expect, each named after its ends or by a number below
  `nextEdge`, and none twice.
* `Returns` and `Denotes`: what a boundary returns was made inside it, and a handle denotes an artifact
  of its kind that was made where it says.

Every action but a failure only adds to the graph, and `GrowingKeeps` says that adding disturbs no
binding, no returned output and no handle. `EdgesOfCall` and `EdgesOneMore` are about the edges of a
call, which the model lists by a sequence of a set. Three parts of validity are about paths and follow
without a fold: of invocations that all wait for one another the one called first waits for an
earlier one, which is none of them (`SoundIsAcyclic`); of boundaries whose parents are all among them
one has the shortest ID, and its parent's is shorter (`SoundBoundariesNest`); and a set that is closed
under parents has every prefix of an ID in it down to the ancestor (`InsideDescends`).

`AuthoringStaysSound` and `DraftsAreValid` assume `~Escapes`. A handle of a failed flow that the author
keeps denotes nothing after the rollback, so that without this hypothesis both are false (section 4).
`KeysHaveNoGaps` does not need it.

**Only model-checked.**

* Liveness: `ClaimIsReleased`, `EveryRunSettles` and `EveryReceiptCompletes`. Liveness under fairness
  is out of the prover's reach.
* `AcceptedPlansCanRun` and `ResultsMeanWhatWasAuthored`. The order of a plan (`Ordered`) and the
  settling of its invocations (`Submit`) are folds over sequences, and what a fold computes for every
  input needs induction over data, which the provers do not do.
* The three runs that expect a violation, which are counterexamples and need no proof.

## 6. Not modelled

* *Work stealing.* A command does not move from one worker to another while both live. Dask can do
  this, and the code guards against it in `_prepare_interrupt` and `DropFence`
  (`run/pooled.py:392-399`), which cannot be reached without it. An exploratory version of
  `Interrupt` with such moves suggests that a paused worker may be forgotten when its command moved
  and the new worker was restarted (`worker = decision["worker"]`, `run/pooled.py:406`). It is not
  part of the module because how Dask orders its messages then is not visible in this code.
* *A lost reply of `_begin_owned_restart`.* The mark of a restart then stays on a worker that is
  resumed (`run/pooled.py:421-423`). `Interrupt` lets that RPC fail before it takes effect only.
* *Pools.* Start-up, TLS and credentials, and the worker handshake of a history.
* *Watching* (`exec/watch.py`). Its log is advisory and duplicates in it harm nothing.
* *Offload.* Lanes are awaited work in the models that use them; their threads, queues and the lane
  that captures an environment are not.
* *Small parts.* `HistoryWriter.interrupted`, which nothing calls; automatic retention after a run,
  which is `Retention` started by the Runtime; creation of the record directory and the descriptor
  cache of the claim.
* *Left out for good.* Parsing of configuration and command output, rendering, the CLI and reports,
  fingerprints and digests, capture of outputs, and start-up of clusters. They are pure functions or
  I/O around the protocols, and their failures appear as failing steps.

## 7. Plan

Done, in this order: `AttemptRecord` with `Computation` and its proofs, `JournalLog` with its proofs,
`Controller`, `Retention` with its proofs, `Interrupt`, `Plan` with `Planned` and `Authoring`,
`Runtime`, `RunHistory`, then the proofs of `Interrupt`, `Runtime`, `Controller`, `RunHistory` and of
the keys of `Authoring`, `Study` with the proof that `Controller` implements it, and the proof that
drafts are valid.

Next, by importance:

1. The record as a component of `Controller`: an entered execution as the `execute` of a record, so
   that the orphan of finding 1 meets the claim it is refused by.
2. **`Interrupt` with work stealing**, once the messages of a move are established from Dask's source.
