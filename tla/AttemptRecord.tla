---------------------------- MODULE AttemptRecord ----------------------------
(***************************************************************************)
(* One durable record of hedloom_exec: the claim, the numbered tries, the  *)
(* manifests, the standing result, and the substrate that runs the work.   *)
(*                                                                         *)
(* Every caller is a thread or a process that performs one of the four     *)
(* claimed operations (launch/execute, reconcile, request_cancel,          *)
(* accept_for_reuse).  Each durable write is a step of its own, so that a  *)
(* crash, or an exception that unwinds the claim, may fall between any two *)
(* of them.  `tries' is what _fold_events derives from the journal; events *)
(* that leave TryState's control alone (created, placement, inputs_bound,  *)
(* observed) are folded away.                                              *)
(***************************************************************************)
EXTENDS Integers

CONSTANTS
    Caller,         \* threads and processes that claim this record
    NoCaller,       \* the claim is free
    MaxTries,       \* bound: tries the record may hold (unbounded in the code)
    MaxRuns,        \* bound: submissions the substrate ever accepts
    Authoritative,  \* transport.discovery_is_authoritative
    OwnerBound,     \* accepted work always dies with the caller that waits for it
    Receipts        \* the handle submit returns carries the job's result

ASSUME CallerAssumption == NoCaller \notin Caller
ASSUME BoundAssumption == MaxTries \in Nat \ {0} /\ MaxRuns \in Nat \ {0}
ASSUME TransportAssumption ==
    Authoritative \in BOOLEAN /\ OwnerBound \in BOOLEAN /\ Receipts \in BOOLEAN

VARIABLES
    lock,      \* flock on claim.lock
    pc,        \* pc[c]: the next step of c's operation
    verdict,   \* verdict[c]: the outcome c is publishing
    tries,     \* the journal, folded per try
    current,   \* AttemptState.current_try
    manifest,  \* manifest[n]: the outcome in manifest/<n>.json
    standing,  \* standing.json, a copy of one manifest
    farm,      \* farm[r]: the r-th job the substrate accepted
    accepted   \* how many jobs the substrate has accepted

record == <<tries, current, manifest, standing>>
vars == <<lock, pc, verdict, tries, current, manifest, standing, farm, accepted>>

Try == 0 .. MaxTries - 1
Run == 1 .. MaxRuns
NoTry == -1

Observed == {"succeeded", "failed", "cancelled"}
Outcome == Observed \cup {"unreconciled"}
Phase == {"absent", "unsubmitted", "intended", "submitted", "terminal"}
Handle == {"none", "live"} \cup Observed

TryState == [phase: Phase, handle: Handle, outcome: Outcome \cup {"none"},
             cancelled: BOOLEAN, reusable: BOOLEAN]
Standing == [try: Try \cup {NoTry}, outcome: Outcome \cup {"none"}]
Job == [try: Try \cup {NoTry}, state: {"unused", "live"} \cup Observed, listed: BOOLEAN]

Operation == {"launch", "reconcile", "cancel", "accept"}
Step == {"begin", "intend", "submit", "running", "publish", "stand", "terminal",
         "kill", "restand"}

NotStarted == [phase |-> "absent", handle |-> "none", outcome |-> "none",
               cancelled |-> FALSE, reusable |-> FALSE]
NoStanding == [try |-> NoTry, outcome |-> "none"]
NoJob == [try |-> NoTry, state |-> "unused", listed |-> FALSE]

Init ==
    /\ lock = NoCaller
    /\ pc = [c \in Caller |-> "idle"]
    /\ verdict = [c \in Caller |-> "none"]
    /\ tries = [n \in Try |-> NotStarted]
    /\ current = NoTry
    /\ manifest = [n \in Try |-> "none"]
    /\ standing = NoStanding
    /\ farm = [r \in Run |-> NoJob]
    /\ accepted = 0

-----------------------------------------------------------------------------
(* How one journal event changes the folded state of its try.              *)

Started        == [NotStarted EXCEPT !.phase = "unsubmitted"]
Intended(t)    == [t EXCEPT !.phase = "intended"]
Received(t, h) == [t EXCEPT !.phase = "submitted", !.handle = h]
Withdrawn(t)   == [t EXCEPT !.phase = "unsubmitted", !.handle = "none"]
Cancelling(t)  == [t EXCEPT !.cancelled = TRUE]
Accepting(t)   == [t EXCEPT !.reusable = TRUE]
Ended(t, o)    == [t EXCEPT !.phase = "terminal", !.outcome = o]

AppendEvent(n, t) == tries' = [tries EXCEPT ![n] = t]

-----------------------------------------------------------------------------
(* Control inside one claimed operation.                                   *)

At(c, step) == pc[c] = step
Goto(c, step) == pc' = [pc EXCEPT ![c] = step] /\ UNCHANGED lock
Release(c) == pc' = [pc EXCEPT ![c] = "idle"] /\ lock' = NoCaller

HasCurrent == current # NoTry
HasStanding == standing.try # NoTry
Terminal(n) == tries[n].phase = "terminal"
Published(n) == manifest[n] # "none"
Reusable(n, outcome) == tries[n].reusable \/ outcome = "succeeded"
Stand(n) == standing' = [try |-> n, outcome |-> manifest[n]]

\* Mutant: the lock is taken without looking whether it is held.
ClaimMutant(c, op) ==
    /\ At(c, "idle")
    /\ lock' = c
    /\ pc' = [pc EXCEPT ![c] = op]
    /\ UNCHANGED <<verdict, record, farm, accepted>>

\* AttemptJournal.claim: the record is created if need be, the lock is taken
\* without waiting; a caller that finds it held is refused and writes nothing.
Claim(c, op) ==
    /\ At(c, "idle")
    /\ lock = NoCaller
    /\ lock' = c
    /\ pc' = [pc EXCEPT ![c] = op]
    /\ UNCHANGED <<verdict, record, farm, accepted>>

-----------------------------------------------------------------------------
(* launch_or_attach: what the record already says.                         *)

\* A standing result completes the call; one that names an unknown try, or
\* one that may not be reused, raises.  Neither writes anything.
ServeStanding(c) ==
    /\ At(c, "launch") /\ HasStanding
    /\ tries[standing.try].phase \in {"absent", "terminal"}
    /\ Release(c)
    /\ UNCHANGED <<verdict, record, farm, accepted>>

\* The crash between standing.json and the terminal event is repaired.
RepairStanding(c) ==
    /\ At(c, "launch") /\ HasStanding
    /\ tries[standing.try].phase \notin {"absent", "terminal"}
    /\ AppendEvent(standing.try, Ended(tries[standing.try], standing.outcome))
    /\ UNCHANGED <<lock, pc, verdict, current, manifest, standing, farm, accepted>>

\* The crash between manifest/<n>.json and the terminal event is repaired.
RepairCurrent(c) ==
    /\ At(c, "launch") /\ ~HasStanding /\ HasCurrent
    /\ Published(current) /\ ~Terminal(current)
    /\ AppendEvent(current, Ended(tries[current], manifest[current]))
    /\ UNCHANGED <<lock, pc, verdict, current, manifest, standing, farm, accepted>>

\* Mutant: any published current try is served.
ServeCurrentMutant(c) ==
    /\ At(c, "launch") /\ ~HasStanding /\ HasCurrent
    /\ Published(current) /\ Terminal(current)
    /\ Stand(current)
    /\ Release(c)
    /\ UNCHANGED <<verdict, tries, current, manifest, farm, accepted>>

\* Reusable evidence that does not stand yet is made standing and served.
ServeCurrent(c) ==
    /\ At(c, "launch") /\ ~HasStanding /\ HasCurrent
    /\ Published(current) /\ Terminal(current)
    /\ Reusable(current, manifest[current])
    /\ Stand(current)
    /\ Release(c)
    /\ UNCHANGED <<verdict, tries, current, manifest, farm, accepted>>

\* The current try has no manifest: what launch does depends on its phase.
Undecided(c) ==
    At(c, "launch") /\ ~HasStanding /\ HasCurrent /\ ~Published(current)

\* What the substrate lists under the try's own job name.
Listed(n) == {r \in Run : farm[r].try = n /\ farm[r].listed}
Discoverable(n) == Authoritative /\ Listed(n) # {}

\* ReconciliationError, AttemptCancelled or UnrecoverableAttempt: the call
\* raises and the record is as it was.
RefuseLaunch(c) ==
    /\ Undecided(c)
    /\ \/ Terminal(current)
       \/ tries[current].cancelled
       \/ tries[current].phase = "intended" /\ ~Authoritative
    /\ Release(c)
    /\ UNCHANGED <<verdict, record, farm, accepted>>

AttachSubmitted(c) ==
    /\ Undecided(c)
    /\ ~tries[current].cancelled /\ tries[current].phase = "submitted"
    /\ Goto(c, "reconcile")
    /\ UNCHANGED <<verdict, record, farm, accepted>>

\* A lost receipt is recovered by discovering the exact try name.
AttachDiscovered(c) ==
    /\ Undecided(c)
    /\ ~tries[current].cancelled /\ tries[current].phase = "intended"
    /\ Discoverable(current)
    /\ AppendEvent(current, Received(tries[current], "live"))
    /\ Goto(c, "reconcile")
    /\ UNCHANGED <<verdict, current, manifest, standing, farm, accepted>>

\* Mutant: an intended try is declared lost without an authoritative answer.
RecordLostMutant(c) ==
    /\ Undecided(c)
    /\ ~tries[current].cancelled /\ tries[current].phase = "intended"
    /\ AppendEvent(current, Withdrawn(tries[current]))
    /\ Goto(c, "begin")
    /\ UNCHANGED <<verdict, current, manifest, standing, farm, accepted>>

\* An authoritative "no such job" frees the try for another submission.
RecordLost(c) ==
    /\ Undecided(c)
    /\ ~tries[current].cancelled /\ tries[current].phase = "intended"
    /\ Authoritative /\ ~Discoverable(current)
    /\ AppendEvent(current, Withdrawn(tries[current]))
    /\ Goto(c, "begin")
    /\ UNCHANGED <<verdict, current, manifest, standing, farm, accepted>>

-----------------------------------------------------------------------------
(* launch_or_attach: a try is allocated and submitted.                     *)

\* Mutant: a settled current try is always followed by a new one.
WantsTryMutant(c) ==
    \/ At(c, "begin")
    \/ At(c, "launch") /\ ~HasCurrent
    \/ At(c, "launch") /\ HasCurrent /\ Published(current) /\ Terminal(current)

\* Nothing stands, and the current try is absent, spent or not yet submitted.
WantsTry(c) ==
    \/ At(c, "begin")
    \/ At(c, "launch") /\ ~HasStanding /\ ~HasCurrent
    \/ /\ At(c, "launch") /\ ~HasStanding /\ HasCurrent
       /\ Published(current) /\ Terminal(current)
       /\ ~Reusable(current, manifest[current])
    \/ /\ Undecided(c)
       /\ ~tries[current].cancelled /\ tries[current].phase = "unsubmitted"

Resumable == HasCurrent /\ tries[current].phase = "unsubmitted"

\* begin_try: an allocated try with no submission is resumed, else the next
\* number is reserved and made durable.
BeginTry(c) ==
    /\ WantsTry(c)
    /\ \/ Resumable /\ UNCHANGED <<tries, current>>
       \/ /\ ~Resumable /\ current + 1 \in Try
          /\ current' = current + 1
          /\ AppendEvent(current + 1, Started)
    /\ Goto(c, "intend")
    /\ UNCHANGED <<verdict, manifest, standing, farm, accepted>>

\* The bound on tries: the caller gives up where the code would go on.
GiveUpAtBound(c) ==
    /\ WantsTry(c) /\ ~Resumable /\ current + 1 \notin Try
    /\ Release(c)
    /\ UNCHANGED <<verdict, record, farm, accepted>>

\* Mutant: the intent is not made durable before the submission.
SubmitIntentMutant(c) ==
    /\ At(c, "intend")
    /\ Goto(c, "submit")
    /\ UNCHANGED <<verdict, record, farm, accepted>>

SubmitIntent(c) ==
    /\ At(c, "intend")
    /\ AppendEvent(current, Intended(tries[current]))
    /\ Goto(c, "submit")
    /\ UNCHANGED <<verdict, current, manifest, standing, farm, accepted>>

\* SubmissionRefused is the one failure that proves nothing was accepted.
SubmitRefused(c) ==
    /\ At(c, "submit")
    /\ AppendEvent(current, Withdrawn(tries[current]))
    /\ Release(c)
    /\ UNCHANGED <<verdict, current, manifest, standing, farm, accepted>>

\* The substrate accepts a job under the try's name; submit blocks until it ends.
SubmitAccepted(c) ==
    /\ At(c, "submit") /\ accepted + 1 \in Run
    /\ farm' = [farm EXCEPT ![accepted + 1] =
                   [try |-> current, state |-> "live", listed |-> TRUE]]
    /\ accepted' = accepted + 1
    /\ Goto(c, "running")
    /\ UNCHANGED <<verdict, record>>

\* submit returns; whether the handle tells how the job ended or has to be
\* looked up again depends on the transport.
SubmitReturns(c) ==
    /\ At(c, "running") /\ farm[accepted].state \in Observed
    /\ AppendEvent(current, Received(tries[current],
                                IF Receipts THEN farm[accepted].state ELSE "live"))
    /\ Goto(c, "reconcile")
    /\ UNCHANGED <<verdict, current, manifest, standing, farm, accepted>>

\* The job whose client is gone dies if it is bound to it, else it may go on.
Kill(r) == farm' = [farm EXCEPT ![r].state = "failed"]
ClientGone(c) ==
    IF At(c, "running") /\ farm[accepted].state = "live"
    THEN Kill(accepted) \/ (~OwnerBound /\ UNCHANGED farm)
    ELSE UNCHANGED farm

\* Any other submission failure (a client timeout) leaves the try intended.
SubmitIndeterminate(c) ==
    /\ At(c, "submit") \/ At(c, "running")
    /\ ClientGone(c)
    /\ AppendEvent(current, Intended(tries[current]))
    /\ Release(c)
    /\ UNCHANGED <<verdict, current, manifest, standing, accepted>>

-----------------------------------------------------------------------------
(* reconcile and publish_terminal.                                         *)

\* The crash between manifest/<n>.json and the terminal event, found here.
RepairVerdict(c) ==
    /\ At(c, "reconcile") /\ HasCurrent
    /\ Published(current) /\ ~Terminal(current)
    /\ AppendEvent(current, Ended(tries[current], manifest[current]))
    /\ IF manifest[current] = "succeeded" THEN Goto(c, "restand") ELSE Release(c)
    /\ UNCHANGED <<verdict, current, manifest, standing, farm, accepted>>

\* Mutant: a try that was never submitted is waited for.
NothingToReconcileMutant(c) ==
    /\ At(c, "reconcile")
    /\ HasCurrent => Published(current) /\ Terminal(current)
    /\ Release(c)
    /\ UNCHANGED <<verdict, record, farm, accepted>>

\* No try, a try that is already decided, or one that was never submitted.
NothingToReconcile(c) ==
    /\ At(c, "reconcile")
    /\ HasCurrent => IF Published(current) THEN Terminal(current)
                     ELSE tries[current].phase # "submitted"
    /\ Release(c)
    /\ UNCHANGED <<verdict, record, farm, accepted>>

\* Mutant: a lookup that fails is reported as an absent job.
ObservationsMutant ==
    {"absent"} \cup {farm[r].state : r \in Listed(current)}

\* What a poll of the current try's handle may report.
Observations ==
    IF tries[current].handle # "live" THEN {tries[current].handle}
    ELSE IF Listed(current) = {} THEN {"absent"}
    ELSE {farm[r].state : r \in Listed(current)}

\* Mutant: a recorded cancellation is not looked at.
VerdictsMutant(observed) ==
    CASE observed = "absent" -> {"unreconciled"}
      [] observed = "succeeded" -> {"succeeded", "failed"}
      [] OTHER -> {observed}

\* Mutant: work the substrate no longer knows is taken to have succeeded.
VerdictsForgottenMutant(observed) ==
    IF observed = "absent" THEN {"succeeded"} ELSE {observed}

\* How _reconcile_locked turns an observation into a terminal outcome; a
\* success whose declared outputs are missing is a failure.
Verdicts(observed) ==
    CASE observed = "absent" -> {"unreconciled"}
      [] observed = "succeeded" /\ tries[current].cancelled -> {"unreconciled"}
      [] observed = "succeeded" /\ ~tries[current].cancelled -> {"succeeded", "failed"}
      [] OTHER -> {observed}

Poll(c) ==
    /\ At(c, "reconcile") /\ HasCurrent
    /\ ~Published(current) /\ tries[current].phase = "submitted"
    /\ \E observed \in Observations :
          IF observed = "live"
          THEN Release(c) /\ UNCHANGED verdict
          ELSE /\ \E o \in Verdicts(observed) : verdict' = [verdict EXCEPT ![c] = o]
               /\ Goto(c, "publish")
    /\ UNCHANGED <<record, farm, accepted>>

\* publish_terminal: the manifest, then a success stands, then the event.
PublishManifest(c) ==
    /\ At(c, "publish") /\ ~Published(current)
    /\ manifest' = [manifest EXCEPT ![current] = verdict[c]]
    /\ Goto(c, IF verdict[c] = "succeeded" THEN "stand" ELSE "terminal")
    /\ UNCHANGED <<verdict, tries, current, standing, farm, accepted>>

PublishStanding(c) ==
    /\ At(c, "stand")
    /\ Stand(current)
    /\ Goto(c, "terminal")
    /\ UNCHANGED <<verdict, tries, current, manifest, farm, accepted>>

AppendTerminal(c) ==
    /\ At(c, "terminal")
    /\ AppendEvent(current, Ended(tries[current], verdict[c]))
    /\ verdict' = [verdict EXCEPT ![c] = "none"]
    /\ Release(c)
    /\ UNCHANGED <<current, manifest, standing, farm, accepted>>

-----------------------------------------------------------------------------
(* request_cancel, accept_for_reuse.                                       *)

\* The intent is durable before the substrate is asked to stop anything.
RequestCancel(c) ==
    /\ At(c, "cancel") /\ HasCurrent
    /\ AppendEvent(current, Cancelling(tries[current]))
    /\ IF tries[current].phase = "submitted" /\ tries[current].handle # "none"
       THEN Goto(c, "kill") ELSE Release(c)
    /\ UNCHANGED <<verdict, current, manifest, standing, farm, accepted>>

NothingToCancel(c) ==
    /\ At(c, "cancel") /\ ~HasCurrent
    /\ Release(c)
    /\ UNCHANGED <<verdict, record, farm, accepted>>

\* bkill on the try's job name; delivery is not guaranteed.
CancelJob(c) ==
    /\ At(c, "kill")
    /\ \/ UNCHANGED farm
       \/ \E r \in Listed(current) : farm[r].state = "live" /\ Kill(r)
    /\ Release(c)
    /\ UNCHANGED <<verdict, record, accepted>>

MayAccept == HasCurrent /\ Terminal(current) /\ Published(current)

AcceptForReuse(c) ==
    /\ At(c, "accept") /\ MayAccept
    /\ AppendEvent(current, Accepting(tries[current]))
    /\ Goto(c, "restand")
    /\ UNCHANGED <<verdict, current, manifest, standing, farm, accepted>>

NothingToAccept(c) ==
    /\ At(c, "accept") /\ ~MayAccept
    /\ Release(c)
    /\ UNCHANGED <<verdict, record, farm, accepted>>

\* make_standing, after accept_for_reuse or a repaired success.
MakeStanding(c) ==
    /\ At(c, "restand")
    /\ Stand(current)
    /\ Release(c)
    /\ UNCHANGED <<verdict, tries, current, manifest, farm, accepted>>

-----------------------------------------------------------------------------
(* The substrate, and failures.                                            *)

JobEnds(r) ==
    /\ farm[r].state = "live"
    /\ \E o \in Observed : farm' = [farm EXCEPT ![r].state = o]
    /\ UNCHANGED <<lock, pc, verdict, record, accepted>>

\* A finished job drops out of the listing (bjobs), or its result is lost with
\* the process that held it (InProcessTransport).
JobForgotten(r) ==
    /\ farm[r].state \in Observed /\ farm[r].listed
    /\ farm' = [farm EXCEPT ![r].listed = FALSE]
    /\ UNCHANGED <<lock, pc, verdict, record, accepted>>

\* The caller dies, or an exception outside the handlers unwinds the claim:
\* the lock goes with the open file, everything durable stays.
Crash(c) ==
    /\ ~At(c, "idle")
    /\ ClientGone(c)
    /\ verdict' = [verdict EXCEPT ![c] = "none"]
    /\ Release(c)
    /\ UNCHANGED <<record, accepted>>

Launch(c) ==
    \/ ServeStanding(c) \/ RepairStanding(c) \/ RepairCurrent(c) \/ ServeCurrent(c)
    \/ RefuseLaunch(c) \/ AttachSubmitted(c) \/ AttachDiscovered(c) \/ RecordLost(c)
    \/ BeginTry(c) \/ GiveUpAtBound(c) \/ SubmitIntent(c) \/ SubmitRefused(c)
    \/ SubmitAccepted(c) \/ SubmitReturns(c) \/ SubmitIndeterminate(c)

Reconcile(c) ==
    \/ RepairVerdict(c) \/ NothingToReconcile(c) \/ Poll(c)
    \/ PublishManifest(c) \/ PublishStanding(c) \/ AppendTerminal(c)

Decide(c) ==
    \/ RequestCancel(c) \/ NothingToCancel(c) \/ CancelJob(c)
    \/ AcceptForReuse(c) \/ NothingToAccept(c) \/ MakeStanding(c)

Proceed(c) == Launch(c) \/ Reconcile(c) \/ Decide(c)

Next ==
    \/ \E c \in Caller :
          \/ \E op \in Operation : Claim(c, op)
          \/ Proceed(c)
          \/ Crash(c)
    \/ \E r \in Run : JobEnds(r) \/ JobForgotten(r)

Spec == Init /\ [][Next]_vars

\* A caller that holds the claim keeps executing, and every job ends (-W
\* bounds it on the farm, the pool's worker or the body itself elsewhere).
Fairness ==
    /\ \A c \in Caller : WF_vars(Proceed(c))
    /\ \A r \in Run : WF_vars(JobEnds(r))

FairSpec == Spec /\ Fairness

-----------------------------------------------------------------------------
(* Properties.                                                             *)

TypeOK ==
    /\ lock \in Caller \cup {NoCaller}
    /\ pc \in [Caller -> {"idle"} \cup Operation \cup Step]
    /\ verdict \in [Caller -> Outcome \cup {"none"}]
    /\ tries \in [Try -> TryState]
    /\ current \in Try \cup {NoTry}
    /\ manifest \in [Try -> Outcome \cup {"none"}]
    /\ standing \in Standing
    /\ farm \in [Run -> Job]
    /\ accepted \in 0 .. MaxRuns

\* Two equivalent callers, whatever crashes, never have the same computation
\* running twice at once: the duplicate submission the claim exists to prevent.
AtMostOneLiveJob ==
    \A r, q \in Run : farm[r].state = "live" /\ farm[q].state = "live" => r = q

\* No job runs that the journal cannot name: the try of a live job is the
\* current one and its submission intent is durable, so a restarted caller
\* looks for it under the right name.
LiveJobIsRecorded ==
    \A r \in Run : farm[r].state = "live" =>
        /\ farm[r].try = current
        /\ tries[current].phase \in {"intended", "submitted"}

\* A terminal claim in the journal always has readable evidence that agrees
\* with it, through every crash between the publications and every repair.
TerminalHasEvidence ==
    \A n \in Try : Terminal(n) => Published(n) /\ tries[n].outcome = manifest[n]

\* What stands is a published try that may be reused: a success, or a result a
\* person accepted.  It is the current try, so nothing runs past it.
StandingIsReusable ==
    HasStanding => /\ standing.try = current
                   /\ standing.outcome = manifest[current]
                   /\ Reusable(current, standing.outcome)

\* A published success was earned by a job that ran under that try's name.
SuccessIsEarned ==
    \A n \in Try : manifest[n] = "succeeded" =>
        \E r \in Run : farm[r].try = n /\ farm[r].state = "succeeded"

\* A new try is only ever started over settled ones: a try below the current
\* one is terminal.
EarlierTriesAreTerminal ==
    \A n \in Try : n < current => Terminal(n)

\* Evidence is immutable and a decided record stays decided: a manifest is
\* never rewritten and the standing result is never replaced.
EvidenceIsFinal ==
    [][ /\ \A n \in Try : Published(n) => manifest'[n] = manifest[n]
        /\ HasStanding => standing' = standing ]_record

\* Work the substrate may still report on is never submitted again, under the
\* same try name or a later one; a cancelled try is never submitted at all.
NoDuplicateSubmission ==
    [][ accepted' # accepted =>
          /\ \A r \in Run : farm[r].try = current => ~farm[r].listed
          /\ \A r \in Run : farm[r].state # "live"
          /\ ~tries[current].cancelled
          /\ ~HasStanding ]_vars

\* A success observed after cancellation was requested is never published as a
\* plain success.
CancellationIsNotNormalised ==
    [][ \A n \in Try : ~Published(n) /\ manifest'[n] = "succeeded"
                          => ~tries[n].cancelled ]_record

\* Every caller that takes the claim gives it back: no branch of launch,
\* repair or publication leaves the record locked for good.
ClaimIsReleased == \A c \in Caller : lock = c ~> lock # c
-----------------------------------------------------------------------------
(* The inductive invariant, in parts.                                      *)

\* Exactly the holder of the claim is inside an operation, and only a
\* publication carries a verdict.
ClaimInv ==
    \A c \in Caller :
        /\ ~At(c, "idle") <=> lock = c
        /\ verdict[c] # "none" <=> pc[c] \in {"publish", "stand", "terminal"}

\* What the journal and the manifests say of each try.
TriesInv ==
    /\ \A n \in Try : n > current => tries[n] = NotStarted
    /\ \A n \in Try : n <= current => tries[n].phase # "absent"
    /\ EarlierTriesAreTerminal
    /\ TerminalHasEvidence
    /\ \A n \in Try :
          /\ Published(n) => tries[n].phase \in {"submitted", "terminal"}
          /\ tries[n].phase = "submitted" => tries[n].handle # "none"
          /\ tries[n].phase \in {"unsubmitted", "intended"} => tries[n].handle = "none"
          /\ tries[n].handle \in Observed =>
                \E r \in Run : farm[r].try = n /\ farm[r].state = tries[n].handle
          /\ tries[n].reusable => Terminal(n)
    /\ SuccessIsEarned

\* Jobs are accepted in order, for tries that exist; only the last one can be
\* live or listed under the current name.
FarmInv ==
    /\ \A r \in Run : r > accepted => farm[r] = NoJob
    /\ \A r \in Run : r <= accepted =>
          farm[r].state # "unused" /\ farm[r].try \in 0 .. current
    /\ \A r \in Run : farm[r].state = "live" =>
          farm[r].listed /\ r = accepted /\ ~Published(current)
    /\ LiveJobIsRecorded
    /\ \A r \in Listed(current) : r = accepted /\ tries[current].phase # "unsubmitted"
    /\ HasCurrent /\ tries[current].handle \in Observed =>
          \A r \in Run : farm[r].state # "live"

StandingInv ==
    /\ StandingIsReusable
    /\ HasStanding => Published(current)
    /\ ~HasStanding => standing = NoStanding

\* What the holder has established when it reaches each step.
Established(c) ==
    /\ pc[c] \in {"begin", "intend", "submit", "running"} =>
          HasCurrent /\ ~HasStanding /\ ~Published(current) /\ ~tries[current].cancelled
    /\ pc[c] \in {"begin", "intend"} => tries[current].phase = "unsubmitted"
    /\ pc[c] \in {"submit", "running"} => tries[current].phase = "intended"
    /\ pc[c] = "submit" => Listed(current) = {}
    /\ pc[c] = "running" => accepted \in Run /\ farm[accepted].try = current
    /\ pc[c] \in {"publish", "stand", "terminal"} =>
          HasCurrent /\ tries[current].phase = "submitted"
    /\ pc[c] = "publish" =>
          /\ ~HasStanding /\ ~Published(current)
          /\ \A r \in Run : farm[r].state # "live"
          /\ verdict[c] = "succeeded" =>
                /\ ~tries[current].cancelled
                /\ \E r \in Run : farm[r].try = current /\ farm[r].state = "succeeded"
    /\ pc[c] = "stand" => ~HasStanding /\ verdict[c] = "succeeded"
    /\ pc[c] \in {"stand", "terminal"} => manifest[current] = verdict[c]
    /\ pc[c] = "kill" => HasCurrent
    /\ pc[c] = "restand" =>
          /\ HasCurrent /\ Terminal(current) /\ Published(current)
          /\ Reusable(current, manifest[current])

StepInv == \A c \in Caller : Established(c)

IInv == TypeOK /\ ClaimInv /\ TriesInv /\ FarmInv /\ StandingInv /\ StepInv

\* The record implements what a computation promises: it executes when one of
\* its jobs is live, and its result is the standing outcome.
Promise == INSTANCE Computation WITH
    Result <- Outcome,
    executing <- (\E r \in Run : farm[r].state = "live"),
    result <- standing.outcome

ImplementsComputation == Promise!Spec
=============================================================================
