------------------------ MODULE AttemptRecord_proofs ------------------------
(***************************************************************************)
(* The safety of the record protocol, for any number of callers, tries and *)
(* jobs and for every kind of transport.                                   *)
(***************************************************************************)
EXTENDS AttemptRecord, TLAPS

-----------------------------------------------------------------------------
(* What one journal event does to the fields of a try.                     *)

LEMMA StartedFacts ==
  /\ Started \in TryState
  /\ Started.phase = "unsubmitted" /\ Started.handle = "none"
  /\ Started.outcome = "none"
  /\ Started.cancelled = FALSE /\ Started.reusable = FALSE
  BY DEF Started, NotStarted, TryState, Phase, Handle

LEMMA IntendedFacts ==
  ASSUME NEW t \in TryState
  PROVE  /\ Intended(t) \in TryState
         /\ Intended(t).phase = "intended" /\ Intended(t).handle = t.handle
         /\ Intended(t).outcome = t.outcome
         /\ Intended(t).cancelled = t.cancelled /\ Intended(t).reusable = t.reusable
  BY DEF Intended, TryState, Phase

LEMMA ReceivedFacts ==
  ASSUME NEW t \in TryState, NEW h \in Handle
  PROVE  /\ Received(t, h) \in TryState
         /\ Received(t, h).phase = "submitted" /\ Received(t, h).handle = h
         /\ Received(t, h).outcome = t.outcome
         /\ Received(t, h).cancelled = t.cancelled
         /\ Received(t, h).reusable = t.reusable
  BY DEF Received, TryState, Phase

LEMMA WithdrawnFacts ==
  ASSUME NEW t \in TryState
  PROVE  /\ Withdrawn(t) \in TryState
         /\ Withdrawn(t).phase = "unsubmitted" /\ Withdrawn(t).handle = "none"
         /\ Withdrawn(t).outcome = t.outcome
         /\ Withdrawn(t).cancelled = t.cancelled /\ Withdrawn(t).reusable = t.reusable
  BY DEF Withdrawn, TryState, Phase, Handle

LEMMA CancellingFacts ==
  ASSUME NEW t \in TryState
  PROVE  /\ Cancelling(t) \in TryState
         /\ Cancelling(t).phase = t.phase /\ Cancelling(t).handle = t.handle
         /\ Cancelling(t).outcome = t.outcome
         /\ Cancelling(t).cancelled = TRUE /\ Cancelling(t).reusable = t.reusable
  BY DEF Cancelling, TryState

LEMMA AcceptingFacts ==
  ASSUME NEW t \in TryState
  PROVE  /\ Accepting(t) \in TryState
         /\ Accepting(t).phase = t.phase /\ Accepting(t).handle = t.handle
         /\ Accepting(t).outcome = t.outcome
         /\ Accepting(t).cancelled = t.cancelled /\ Accepting(t).reusable = TRUE
  BY DEF Accepting, TryState

LEMMA EndedFacts ==
  ASSUME NEW t \in TryState, NEW o \in Outcome \cup {"none"}
  PROVE  /\ Ended(t, o) \in TryState
         /\ Ended(t, o).phase = "terminal" /\ Ended(t, o).handle = t.handle
         /\ Ended(t, o).outcome = o
         /\ Ended(t, o).cancelled = t.cancelled /\ Ended(t, o).reusable = t.reusable
  BY DEF Ended, TryState, Phase

LEMMA AppendFacts ==
  ASSUME tries \in [Try -> TryState], NEW n \in Try, NEW t \in TryState, AppendEvent(n, t)
  PROVE  /\ tries' \in [Try -> TryState]
         /\ tries'[n] = t
         /\ \A m \in Try : m # n => tries'[m] = tries[m]
  BY DEF AppendEvent

\* Making a job fail touches nothing else.
LEMMA KillFacts ==
  ASSUME farm \in [Run -> Job], NEW r \in Run, Kill(r)
  PROVE  /\ farm' \in [Run -> Job]
         /\ farm'[r].state = "failed" /\ farm'[r].try = farm[r].try
         /\ farm'[r].listed = farm[r].listed
         /\ \A q \in Run : q # r => farm'[q] = farm[q]
  BY DEF Kill, Job, Observed

-----------------------------------------------------------------------------
(* Control: only the holder of the claim is inside an operation.           *)

Inside == Operation \cup Step
Publishing == {"publish", "stand", "terminal"}

LEMMA HolderIsAlone ==
  ASSUME ClaimInv, TypeOK, NEW c \in Caller, pc[c] # "idle"
  PROVE  /\ lock = c
         /\ \A d \in Caller : d # c => pc[d] = "idle" /\ verdict[d] = "none"
  BY DEF ClaimInv, At

\* What remains to be shown of a step that moves the holder to another step.
LEMMA AfterGoto ==
  ASSUME ClaimInv, TypeOK, NEW c \in Caller, pc[c] # "idle",
         NEW s \in Inside, Goto(c, s),
         NEW v \in Outcome \cup {"none"}, verdict' = [verdict EXCEPT ![c] = v],
         v # "none" <=> s \in Publishing,
         Established(c)'
  PROVE  /\ ClaimInv' /\ StepInv'
         /\ lock' \in Caller \cup {NoCaller}
         /\ pc' \in [Caller -> {"idle"} \cup Operation \cup Step]
         /\ verdict' \in [Caller -> Outcome \cup {"none"}]
  <1>1. lock = c /\ \A d \in Caller : d # c => pc[d] = "idle" /\ verdict[d] = "none"
    BY HolderIsAlone
  <1>2. /\ pc'[c] = s /\ verdict'[c] = v
        /\ \A d \in Caller : d # c => pc'[d] = "idle" /\ verdict'[d] = "none"
    BY <1>1 DEF Goto, TypeOK
  <1>3. s # "idle"
    BY DEF Inside, Operation, Step
  <1>4. ClaimInv'
    BY <1>1, <1>2, <1>3 DEF ClaimInv, At, Goto, Publishing
  <1>5. StepInv'
    BY <1>2 DEF StepInv, Established
  <1> QED
    BY <1>4, <1>5 DEF Goto, TypeOK, Inside

\* What remains of a step that gives the claim back: everything but the record.
LEMMA AfterRelease ==
  ASSUME ClaimInv, TypeOK, NEW c \in Caller, pc[c] # "idle", Release(c),
         verdict' = [verdict EXCEPT ![c] = "none"]
  PROVE  /\ ClaimInv' /\ StepInv'
         /\ lock' \in Caller \cup {NoCaller}
         /\ pc' \in [Caller -> {"idle"} \cup Operation \cup Step]
         /\ verdict' \in [Caller -> Outcome \cup {"none"}]
  <1>1. \A d \in Caller : d # c => pc[d] = "idle" /\ verdict[d] = "none"
    BY HolderIsAlone
  <1>2. \A d \in Caller : pc'[d] = "idle" /\ verdict'[d] = "none"
    BY <1>1 DEF Release, TypeOK
  <1>3. ClaimInv'
    BY <1>2, CallerAssumption DEF ClaimInv, At, Release
  <1>4. StepInv'
    BY <1>2 DEF StepInv, Established
  <1> QED
    BY <1>3, <1>4 DEF Release, TypeOK

\* A caller that is not publishing keeps its empty verdict.
LEMMA NoVerdict ==
  ASSUME ClaimInv, TypeOK, NEW c \in Caller, pc[c] \notin Publishing, UNCHANGED verdict
  PROVE  verdict' = [verdict EXCEPT ![c] = "none"]
  BY DEF ClaimInv, TypeOK, Publishing

\* The parts of the invariant that are about the record and the substrate.
RecordInv ==
  /\ tries \in [Try -> TryState]
  /\ current \in Try \cup {NoTry}
  /\ manifest \in [Try -> Outcome \cup {"none"}]
  /\ standing \in Standing
  /\ farm \in [Run -> Job]
  /\ accepted \in 0 .. MaxRuns
  /\ TriesInv /\ FarmInv /\ StandingInv

LEMMA RecordFrame ==
  ASSUME RecordInv, UNCHANGED <<record, farm, accepted>>
  PROVE  RecordInv'
  BY DEF RecordInv, record, TriesInv, FarmInv, StandingInv, EarlierTriesAreTerminal,
         TerminalHasEvidence, SuccessIsEarned, LiveJobIsRecorded, StandingIsReusable,
         Terminal, Published, Listed, HasCurrent, HasStanding, Reusable

-----------------------------------------------------------------------------
(* How each kind of durable write, and the substrate, preserve RecordInv.  *)

\* An event of the current try, under what RecordInv asks of its new state.
LEMMA AppendRecord ==
  ASSUME RecordInv, current \in Try, NEW t \in TryState, AppendEvent(current, t),
         UNCHANGED <<current, manifest, standing, farm, accepted>>,
         t.phase # "absent",
         t.phase = "terminal" => Published(current) /\ t.outcome = manifest[current],
         Published(current) => t.phase \in {"submitted", "terminal"},
         t.phase = "submitted" => t.handle # "none",
         t.phase \in {"unsubmitted", "intended"} => t.handle = "none",
         t.handle \in Observed =>
            /\ \E r \in Run : farm[r].try = current /\ farm[r].state = t.handle
            /\ \A r \in Run : farm[r].state # "live",
         t.reusable => t.phase = "terminal",
         t.phase \in {"intended", "submitted"} \/ \A r \in Run : farm[r].state # "live",
         t.phase # "unsubmitted" \/ Listed(current) = {},
         HasStanding => t.reusable \/ standing.outcome = "succeeded"
  PROVE  RecordInv'
  <1>1. /\ tries' \in [Try -> TryState] /\ tries'[current] = t
        /\ \A m \in Try : m # current => tries'[m] = tries[m]
    BY AppendFacts DEF RecordInv
  <1>2. TriesInv'
    <2>1. \A n \in Try : n > current => tries'[n] = NotStarted
      BY <1>1 DEF RecordInv, TriesInv, Try
    <2>2. \A n \in Try : n <= current => tries'[n].phase # "absent"
      BY <1>1 DEF RecordInv, TriesInv, Try
    <2>3. EarlierTriesAreTerminal'
      BY <1>1 DEF RecordInv, TriesInv, EarlierTriesAreTerminal, Terminal, Try
    <2>4. TerminalHasEvidence'
      BY <1>1 DEF RecordInv, TriesInv, TerminalHasEvidence, Terminal, Published
    <2>5. SuccessIsEarned'
      BY DEF RecordInv, TriesInv, SuccessIsEarned
    <2> QED
      BY <1>1, <2>1, <2>2, <2>3, <2>4, <2>5 DEF RecordInv, TriesInv, Terminal, Published
  <1>3. FarmInv'
    BY <1>1 DEF RecordInv, FarmInv, LiveJobIsRecorded, Listed, Published, HasCurrent
  <1>4. StandingInv'
    BY <1>1 DEF RecordInv, StandingInv, StandingIsReusable, HasStanding, Reusable, Published
  <1> QED
    BY <1>1, <1>2, <1>3, <1>4 DEF RecordInv

\* Jobs end, are killed or forgotten; they never change try or come back.
LEMMA FarmRecord ==
  ASSUME RecordInv, farm' \in [Run -> Job], UNCHANGED <<record, accepted>>,
         \A r \in Run :
            /\ farm'[r].try = farm[r].try
            /\ farm'[r].listed => farm[r].listed
            /\ \/ farm'[r].state = farm[r].state
               \/ farm[r].state = "live" /\ farm'[r].state \in Observed
            /\ farm'[r].state = "live" => farm'[r] = farm[r]
            /\ farm[r].state = "unused" => farm'[r] = farm[r]
  PROVE  RecordInv'
  <1> USE DEF record
  <1>0. \A r \in Run : farm[r].state \in Observed => farm'[r].state = farm[r].state
    BY DEF Observed
  <1>1. TriesInv'
    BY <1>0 DEF RecordInv, TriesInv, EarlierTriesAreTerminal, TerminalHasEvidence,
       SuccessIsEarned, Terminal, Published, Observed
  <1>2. FarmInv'
    <2>1. \A r \in Run : r > accepted => farm'[r] = NoJob
      BY DEF RecordInv, FarmInv, NoJob
    <2>2. \A r \in Run : r <= accepted =>
              farm'[r].state # "unused" /\ farm'[r].try \in 0 .. current
      BY DEF RecordInv, FarmInv, Observed
    <2>3. LiveJobIsRecorded'
      BY DEF RecordInv, FarmInv, LiveJobIsRecorded
    <2>4. \A r \in Run : farm'[r].state = "live" =>
              farm'[r].listed /\ r = accepted /\ ~Published(current)
      BY DEF RecordInv, FarmInv
    <2>5. \A r \in Run : farm'[r].try = current /\ farm'[r].listed =>
              r = accepted /\ tries[current].phase # "unsubmitted"
      BY DEF RecordInv, FarmInv, Listed
    <2>6. HasCurrent /\ tries[current].handle \in Observed =>
              \A r \in Run : farm'[r].state # "live"
      BY DEF RecordInv, FarmInv
    <2> QED
      BY <2>1, <2>2, <2>3, <2>4, <2>5, <2>6 DEF FarmInv, Listed, Published, HasCurrent
  <1>3. StandingInv'
    BY DEF RecordInv, StandingInv, StandingIsReusable, HasStanding, Reusable, Published
  <1> QED
    BY <1>1, <1>2, <1>3 DEF RecordInv

LEMMA StandRecord ==
  ASSUME RecordInv, HasCurrent, Published(current), Stand(current),
         Reusable(current, manifest[current]),
         UNCHANGED <<tries, current, manifest, farm, accepted>>
  PROVE  RecordInv'
  <1>1. standing' \in Standing
    BY DEF RecordInv, Stand, Standing, HasCurrent
  <1>2. TriesInv'
    BY DEF RecordInv, TriesInv, EarlierTriesAreTerminal, TerminalHasEvidence,
       SuccessIsEarned, Terminal, Published
  <1>3. FarmInv'
    BY DEF RecordInv, FarmInv, LiveJobIsRecorded, Listed, Published, HasCurrent
  <1>4. StandingInv'
    BY DEF RecordInv, StandingInv, StandingIsReusable, HasStanding, HasCurrent,
       Reusable, Published, Stand
  <1> QED
    BY <1>1, <1>2, <1>3, <1>4 DEF RecordInv

LEMMA ManifestRecord ==
  ASSUME RecordInv, current \in Try, NEW o \in Outcome,
         manifest' = [manifest EXCEPT ![current] = o],
         ~Published(current), ~HasStanding, tries[current].phase = "submitted",
         \A r \in Run : farm[r].state # "live",
         o = "succeeded" =>
            \E r \in Run : farm[r].try = current /\ farm[r].state = "succeeded",
         UNCHANGED <<tries, current, standing, farm, accepted>>
  PROVE  RecordInv'
  <1>1. /\ manifest' \in [Try -> Outcome \cup {"none"}]
        /\ manifest'[current] = o /\ o # "none"
        /\ \A n \in Try : n # current => manifest'[n] = manifest[n]
    BY DEF RecordInv, Outcome, Observed
  <1>2. TriesInv'
    <2>1. TerminalHasEvidence'
      BY <1>1 DEF RecordInv, TriesInv, TerminalHasEvidence, Terminal, Published
    <2>2. SuccessIsEarned'
      BY <1>1 DEF RecordInv, TriesInv, SuccessIsEarned
    <2>3. EarlierTriesAreTerminal'
      BY DEF RecordInv, TriesInv, EarlierTriesAreTerminal, Terminal
    <2> QED
      BY <1>1, <2>1, <2>2, <2>3 DEF RecordInv, TriesInv, Terminal, Published
  <1>3. FarmInv'
    BY DEF RecordInv, FarmInv, LiveJobIsRecorded, Listed, HasCurrent
  <1>4. StandingInv'
    BY DEF RecordInv, StandingInv, StandingIsReusable, HasStanding
  <1> QED
    BY <1>1, <1>2, <1>3, <1>4 DEF RecordInv

\* A new try is started over a settled current one.
LEMMA StartRecord ==
  ASSUME RecordInv, ~HasStanding, current + 1 \in Try,
         current # NoTry => Terminal(current),
         current' = current + 1, AppendEvent(current + 1, Started),
         \A r \in Run : farm[r].state # "live",
         UNCHANGED <<manifest, standing, farm, accepted>>
  PROVE  RecordInv'
  <1>1. /\ tries' \in [Try -> TryState] /\ tries'[current + 1] = Started
        /\ \A m \in Try : m # current + 1 => tries'[m] = tries[m]
    BY AppendFacts, StartedFacts DEF RecordInv
  <1>2. /\ tries[current + 1] = NotStarted /\ current \in Int
        /\ manifest[current + 1] = "none"
    <2>1. current \in Int /\ current + 1 > current
      BY DEF RecordInv, Try, NoTry
    <2>2. tries[current + 1] = NotStarted
      BY <2>1 DEF RecordInv, TriesInv
    <2>3. NotStarted.phase = "absent"
      BY DEF NotStarted
    <2> QED
      BY <2>1, <2>2, <2>3 DEF RecordInv, TriesInv, Published
  <1>3. \A r \in Run : farm[r].try # current + 1
    BY <1>2 DEF RecordInv, FarmInv, Run, NoJob, NoTry, Try
  <1>4. TriesInv'
    <2>1. \A n \in Try : n > current' => tries'[n] = NotStarted
      BY <1>1, <1>2 DEF RecordInv, TriesInv, Try
    <2>2. \A n \in Try : n <= current' => tries'[n].phase # "absent"
      BY <1>1, <1>2, StartedFacts DEF RecordInv, TriesInv, Try
    <2>3. EarlierTriesAreTerminal'
      BY <1>1, <1>2 DEF RecordInv, TriesInv, EarlierTriesAreTerminal, Terminal, Try, NoTry
    <2>4. TerminalHasEvidence'
      BY <1>1, StartedFacts DEF RecordInv, TriesInv, TerminalHasEvidence, Terminal, Published
    <2>5. SuccessIsEarned'
      BY DEF RecordInv, TriesInv, SuccessIsEarned
    <2> QED
      BY <1>1, <1>2, <2>1, <2>2, <2>3, <2>4, <2>5, StartedFacts
      DEF RecordInv, TriesInv, Terminal, Published, Observed
  <1>5. FarmInv'
    <2>1. \A r \in Run : r <= accepted => farm[r].state # "unused" /\ farm[r].try \in 0 .. current'
      BY <1>2 DEF RecordInv, FarmInv
    <2>2. Listed(current)' = {}
      BY <1>3 DEF Listed
    <2> QED
      BY <1>1, <2>1, <2>2, StartedFacts
      DEF RecordInv, FarmInv, LiveJobIsRecorded, HasCurrent, Observed
  <1>6. StandingInv'
    BY DEF RecordInv, StandingInv, StandingIsReusable, HasStanding, NoStanding
  <1> QED
    BY <1>1, <1>4, <1>5, <1>6 DEF RecordInv

\* The substrate accepts a job for a current try it lists nothing under.
LEMMA AcceptRecord ==
  ASSUME RecordInv, current \in Try, accepted + 1 \in Run,
         tries[current].phase = "intended", Listed(current) = {}, ~Published(current),
         farm' = [farm EXCEPT ![accepted + 1] =
                     [try |-> current, state |-> "live", listed |-> TRUE]],
         accepted' = accepted + 1,
         UNCHANGED record
  PROVE  RecordInv'
  <1> USE DEF record
  <1>0. accepted \in Int /\ accepted + 1 \in 0 .. MaxRuns
    BY BoundAssumption DEF RecordInv, Run
  <1>1. /\ farm' \in [Run -> Job]
        /\ farm'[accepted + 1] = [try |-> current, state |-> "live", listed |-> TRUE]
        /\ \A r \in Run : r # accepted + 1 => farm'[r] = farm[r]
        /\ farm[accepted + 1] = NoJob
    <2>1. [try |-> current, state |-> "live", listed |-> TRUE] \in Job
      BY DEF Job
    <2> QED
      BY <2>1, <1>0 DEF RecordInv, FarmInv, Run
  <1>2. \A r \in Run : farm[r].state # "live"
    BY DEF RecordInv, FarmInv, LiveJobIsRecorded, Listed
  <1>3. tries[current].handle \notin Observed
    BY DEF RecordInv, TriesInv, Observed
  <1>4. TriesInv'
    <2>1. SuccessIsEarned'
      BY <1>1, <1>2 DEF RecordInv, TriesInv, SuccessIsEarned, NoJob
    <2>2. ASSUME NEW n \in Try, tries[n].handle \in Observed
          PROVE  \E r \in Run : farm'[r].try = n /\ farm'[r].state = tries[n].handle
      <3>1. PICK r \in Run : farm[r].try = n /\ farm[r].state = tries[n].handle
        BY <2>2 DEF RecordInv, TriesInv
      <3>2. r # accepted + 1
        BY <3>1, <2>2, <1>1 DEF NoJob, Observed
      <3> QED
        BY <3>1, <3>2, <1>1
    <2>3. EarlierTriesAreTerminal' /\ TerminalHasEvidence'
      BY DEF RecordInv, TriesInv, EarlierTriesAreTerminal, TerminalHasEvidence,
         Terminal, Published
    <2> QED
      BY <2>1, <2>2, <2>3 DEF RecordInv, TriesInv, Terminal, Published
  <1>5. FarmInv'
    <2>1. \A r \in Run : r > accepted + 1 => farm'[r] = NoJob
      BY <1>0, <1>1 DEF RecordInv, FarmInv, Run
    <2>2. \A r \in Run : r <= accepted + 1 =>
              farm'[r].state # "unused" /\ farm'[r].try \in 0 .. current
      BY <1>0, <1>1 DEF RecordInv, FarmInv, Run, Try
    <2>3. \A r \in Run : farm'[r].state = "live" => r = accepted + 1
      BY <1>1, <1>2
    <2>4. \A r \in Run : farm'[r].try = current /\ farm'[r].listed => r = accepted + 1
      BY <1>1 DEF Listed
    <2> QED
      BY <1>1, <1>3, <2>1, <2>2, <2>3, <2>4
      DEF FarmInv, LiveJobIsRecorded, Listed, Published
  <1>6. StandingInv'
    BY DEF RecordInv, StandingInv, StandingIsReusable, HasStanding, Reusable, Published
  <1> QED
    BY <1>0, <1>1, <1>4, <1>5, <1>6 DEF RecordInv

-----------------------------------------------------------------------------
(* Each action preserves the inductive invariant.                          *)

\* A caller gives the claim back; what it did to the record is justified.
LEMMA Released ==
  ASSUME IInv, NEW c \in Caller, pc[c] # "idle", Release(c), RecordInv',
         verdict' = [verdict EXCEPT ![c] = "none"]
  PROVE  IInv'
  BY AfterRelease DEF IInv, RecordInv, TypeOK

LEMMA Moved ==
  ASSUME IInv, NEW c \in Caller, pc[c] # "idle", RecordInv',
         NEW s \in Inside, Goto(c, s),
         NEW v \in Outcome \cup {"none"}, verdict' = [verdict EXCEPT ![c] = v],
         v # "none" <=> s \in Publishing,
         Established(c)'
  PROVE  IInv'
  BY AfterGoto DEF IInv, RecordInv, TypeOK

\* The steps that only give the claim back.
LEMMA QuietRelease ==
  ASSUME IInv, NEW c \in Caller, pc[c] # "idle", pc[c] \notin Publishing, Release(c),
         UNCHANGED <<verdict, record, farm, accepted>>
  PROVE  IInv'
  <1>1. RecordInv'
    BY RecordFrame DEF IInv, RecordInv, TypeOK
  <1> QED
    BY <1>1, Released, NoVerdict DEF IInv

LEMMA ClaimPreserves ==
  ASSUME IInv, NEW c \in Caller, NEW op \in Operation, Claim(c, op)
  PROVE  IInv'
  <1> USE DEF Claim, At
  <1>1. RecordInv'
    BY RecordFrame DEF IInv, RecordInv, TypeOK
  <1>2. op # "idle" /\ op \notin Step
    BY DEF Operation, Step
  <1>3. \A d \in Caller : pc[d] = "idle" /\ verdict[d] = "none"
    BY CallerAssumption DEF IInv, ClaimInv
  <1>4. pc'[c] = op /\ \A d \in Caller : d # c => pc'[d] = "idle"
    BY <1>3 DEF IInv, TypeOK
  <1>5. ClaimInv'
    BY <1>2, <1>3, <1>4, CallerAssumption DEF ClaimInv, Step
  <1>6. StepInv'
    BY <1>2, <1>4 DEF StepInv, Established, Step
  <1>7. /\ lock' \in Caller \cup {NoCaller}
        /\ pc' \in [Caller -> {"idle"} \cup Operation \cup Step]
        /\ verdict' \in [Caller -> Outcome \cup {"none"}]
    BY DEF IInv, TypeOK
  <1> QED
    BY <1>1, <1>5, <1>6, <1>7 DEF IInv, RecordInv, TypeOK

LEMMA QuietPreserves ==
  ASSUME IInv, NEW c \in Caller,
         ServeStanding(c) \/ RefuseLaunch(c) \/ GiveUpAtBound(c)
         \/ NothingToReconcile(c) \/ NothingToCancel(c) \/ NothingToAccept(c)
  PROVE  IInv'
  <1>1. pc[c] \in {"launch", "begin", "reconcile", "cancel", "accept"}
    BY DEF ServeStanding, RefuseLaunch, GiveUpAtBound, NothingToReconcile, NothingToCancel,
       NothingToAccept, WantsTry, Undecided, At
  <1>2. Release(c) /\ UNCHANGED <<verdict, record, farm, accepted>>
    BY DEF ServeStanding, RefuseLaunch, GiveUpAtBound, NothingToReconcile, NothingToCancel,
       NothingToAccept
  <1> QED
    BY <1>1, <1>2, QuietRelease DEF Publishing

\* Facts about the current try that every step on it needs.
LEMMA CurrentFacts ==
  ASSUME IInv, HasCurrent
  PROVE  /\ current \in Try
         /\ tries[current] \in TryState
         /\ tries[current].phase # "absent"
         /\ manifest[current] \in Outcome \cup {"none"}
         /\ tries[current].phase \in {"unsubmitted", "intended"} => tries[current].handle = "none"
         /\ tries[current].phase \notin {"intended", "submitted"} =>
               \A r \in Run : farm[r].state # "live"
         /\ Published(current) => \A r \in Run : farm[r].state # "live"
         /\ tries[current].phase = "unsubmitted" => Listed(current) = {}
         /\ HasStanding => standing.try = current
  <1>1. current \in Try
    BY DEF IInv, TypeOK, HasCurrent
  <1>2. current \in Int /\ current <= current
    BY <1>1 DEF Try
  <1>3. tries[current].phase \in Phase
    BY <1>1 DEF IInv, TypeOK, TryState
  <1> QED
    BY <1>1, <1>2, <1>3 DEF IInv, TypeOK, TriesInv, FarmInv, LiveJobIsRecorded, Listed,
       StandingInv, StandingIsReusable, Phase

LEMMA IInvRecord ==
  ASSUME IInv
  PROVE  RecordInv /\ TypeOK /\ ClaimInv /\ StepInv
  BY DEF IInv, RecordInv, TypeOK

\* The three repairs append the terminal event the manifest proves.
LEMMA RepairRecord ==
  ASSUME IInv, HasCurrent, Published(current), ~Terminal(current),
         NEW o, o = manifest[current],
         AppendEvent(current, Ended(tries[current], o)),
         UNCHANGED <<current, manifest, standing, farm, accepted>>
  PROVE  RecordInv'
  <1> DEFINE t == Ended(tries[current], o)
  <1>1. /\ t \in TryState /\ t.phase = "terminal" /\ t.outcome = o
        /\ t.handle = tries[current].handle /\ t.reusable = tries[current].reusable
    BY CurrentFacts, EndedFacts
  <1>2. /\ RecordInv /\ current \in Try
        /\ \A r \in Run : farm[r].state # "live"
    BY CurrentFacts, IInvRecord
  <1>3. t.handle \in Observed =>
            \E r \in Run : farm[r].try = current /\ farm[r].state = t.handle
    BY <1>1, <1>2 DEF RecordInv, TriesInv
  <1>4. HasStanding => t.reusable \/ standing.outcome = "succeeded"
    BY <1>1, <1>2 DEF RecordInv, StandingInv, StandingIsReusable, Reusable
  <1> HIDE DEF t
  <1>5. AppendEvent(current, t)
    BY DEF t
  <1> QED
    BY <1>1, <1>2, <1>3, <1>4, <1>5, AppendRecord

LEMMA RepairPreserves ==
  ASSUME IInv, NEW c \in Caller, RepairStanding(c) \/ RepairCurrent(c)
  PROVE  IInv'
  <1>1. /\ HasCurrent /\ Published(current) /\ ~Terminal(current)
        /\ \E o \in {manifest[current]} : AppendEvent(current, Ended(tries[current], o))
        /\ pc[c] = "launch"
        /\ UNCHANGED <<lock, pc, verdict, current, manifest, standing, farm, accepted>>
    BY DEF RepairStanding, RepairCurrent, IInv, StandingInv, StandingIsReusable, HasStanding,
       HasCurrent, Terminal, At
  <1>2. RecordInv'
    BY <1>1, RepairRecord
  <1>3. lock = c /\ \A d \in Caller : d # c => pc[d] = "idle"
    BY <1>1, HolderIsAlone DEF IInv
  <1>4. StepInv'
    BY <1>1, <1>3 DEF StepInv, Established
  <1>5. ClaimInv'
    BY <1>1 DEF IInv, ClaimInv, At
  <1> QED
    BY <1>1, <1>2, <1>4, <1>5 DEF IInv, RecordInv, TypeOK

-----------------------------------------------------------------------------
(* launch_or_attach preserves the invariant.                               *)

\* reconcile starts from nothing but what the record says.
LEMMA MovedToReconcile ==
  ASSUME IInv, NEW c \in Caller, pc[c] # "idle", pc[c] \notin Publishing, RecordInv',
         Goto(c, "reconcile"), UNCHANGED verdict
  PROVE  IInv'
  <1>1. Established(c)'
    <2>1. pc'[c] = "reconcile"
      BY DEF Goto, IInv, TypeOK
    <2> QED
      BY <2>1 DEF Established
  <1>2. verdict' = [verdict EXCEPT ![c] = "none"]
    BY NoVerdict DEF IInv
  <1>3. "reconcile" \in Inside /\ "reconcile" \notin Publishing
    BY DEF Inside, Operation, Publishing
  <1> QED
    BY <1>1, <1>2, <1>3, Moved

\* A step that keeps the caller's empty verdict and moves inside the operation.
LEMMA MovedOn ==
  ASSUME IInv, NEW c \in Caller, pc[c] # "idle", pc[c] \notin Publishing, RecordInv',
         NEW s \in Inside, s \notin Publishing, Goto(c, s), UNCHANGED verdict,
         Established(c)'
  PROVE  IInv'
  BY NoVerdict, Moved DEF IInv

\* The same for a step that gives the claim back.
LEMMA Returned ==
  ASSUME IInv, NEW c \in Caller, pc[c] # "idle", pc[c] \notin Publishing, RecordInv',
         Release(c), UNCHANGED verdict
  PROVE  IInv'
  BY NoVerdict, Released DEF IInv

LEMMA ServeCurrentPreserves ==
  ASSUME IInv, NEW c \in Caller, ServeCurrent(c)
  PROVE  IInv'
  <1> USE DEF ServeCurrent, At
  <1>1. RecordInv'
    BY StandRecord, IInvRecord
  <1> QED
    BY <1>1, Returned DEF Publishing

LEMMA AttachSubmittedPreserves ==
  ASSUME IInv, NEW c \in Caller, AttachSubmitted(c)
  PROVE  IInv'
  <1> USE DEF AttachSubmitted, Undecided, At
  <1>1. RecordInv'
    BY RecordFrame, IInvRecord
  <1> QED
    BY <1>1, MovedToReconcile DEF Publishing

\* A receipt is appended for the current, intended try.
LEMMA ReceivedRecord ==
  ASSUME IInv, HasCurrent, ~HasStanding, tries[current].phase = "intended",
         NEW h \in Handle, h # "none",
         h \in Observed =>
            /\ \E r \in Run : farm[r].try = current /\ farm[r].state = h
            /\ \A r \in Run : farm[r].state # "live",
         AppendEvent(current, Received(tries[current], h)),
         UNCHANGED <<current, manifest, standing, farm, accepted>>
  PROVE  RecordInv'
  <1> DEFINE t == Received(tries[current], h)
  <1>1. /\ t \in TryState /\ t.phase = "submitted" /\ t.handle = h
        /\ t.reusable = tries[current].reusable
    BY CurrentFacts, ReceivedFacts
  <1>2. RecordInv /\ current \in Try
    BY CurrentFacts, IInvRecord
  <1>3. ~Published(current) /\ ~t.reusable
    BY <1>1, <1>2 DEF RecordInv, TriesInv, Terminal, TryState
  <1> HIDE DEF t
  <1>4. AppendEvent(current, t)
    BY DEF t
  <1> QED
    BY <1>1, <1>2, <1>3, <1>4, AppendRecord

LEMMA AttachDiscoveredPreserves ==
  ASSUME IInv, NEW c \in Caller, AttachDiscovered(c)
  PROVE  IInv'
  <1> USE DEF AttachDiscovered, Undecided, At
  <1>1. "live" \in Handle /\ "live" \notin Observed /\ "live" # "none"
    BY DEF Handle, Observed
  <1>2. RecordInv'
    BY <1>1, ReceivedRecord
  <1> QED
    BY <1>2, MovedToReconcile DEF Publishing

\* An intended, unpublished try becomes unsubmitted again.
LEMMA WithdrawnRecord ==
  ASSUME IInv, HasCurrent, ~HasStanding, tries[current].phase = "intended",
         Listed(current) = {},
         AppendEvent(current, Withdrawn(tries[current])),
         UNCHANGED <<current, manifest, standing, farm, accepted>>
  PROVE  RecordInv' /\ tries'[current].phase = "unsubmitted"
         /\ tries'[current].cancelled = tries[current].cancelled
  <1> DEFINE t == Withdrawn(tries[current])
  <1>1. /\ t \in TryState /\ t.phase = "unsubmitted" /\ t.handle = "none"
        /\ t.reusable = tries[current].reusable
        /\ t.cancelled = tries[current].cancelled
    BY CurrentFacts, WithdrawnFacts
  <1>2. RecordInv /\ current \in Try
    BY CurrentFacts, IInvRecord
  <1>3. ~Published(current) /\ ~t.reusable
    BY <1>1, <1>2 DEF RecordInv, TriesInv, Terminal, TryState
  <1>4. \A r \in Run : farm[r].state # "live"
    BY <1>2 DEF RecordInv, FarmInv, LiveJobIsRecorded, Listed
  <1>5. "none" \notin Observed
    BY DEF Observed
  <1> HIDE DEF t
  <1>6. AppendEvent(current, t)
    BY DEF t
  <1>7. tries'[current] = t
    BY <1>1, <1>2, <1>6, AppendFacts DEF RecordInv
  <1> QED
    BY <1>1, <1>2, <1>3, <1>4, <1>5, <1>6, <1>7, AppendRecord

LEMMA RecordLostPreserves ==
  ASSUME IInv, NEW c \in Caller, RecordLost(c)
  PROVE  IInv'
  <1> USE DEF RecordLost, Undecided, At
  <1>1. Listed(current) = {}
    BY DEF Discoverable
  <1>2. /\ RecordInv' /\ tries'[current].phase = "unsubmitted"
        /\ tries'[current].cancelled = tries[current].cancelled
    BY <1>1, WithdrawnRecord
  <1>3. Established(c)'
    <2>1. pc'[c] = "begin"
      BY DEF Goto, IInv, TypeOK
    <2> QED
      BY <1>2, <2>1 DEF Established, HasCurrent, HasStanding, Published
  <1>4. "begin" \in Inside /\ "begin" \notin Publishing
    BY DEF Inside, Step, Publishing
  <1> QED
    BY <1>2, <1>3, <1>4, MovedOn DEF Publishing

LEMMA BeginTryPreserves ==
  ASSUME IInv, NEW c \in Caller, BeginTry(c)
  PROVE  IInv'
  <1> USE DEF BeginTry, At
  <1>1. pc[c] \in {"begin", "launch"} /\ ~HasStanding
    BY DEF WantsTry, Undecided, IInv, StepInv, Established
  <1>2. pc'[c] = "intend"
    BY DEF Goto, IInv, TypeOK
  <1>3. "intend" \in Inside /\ "intend" \notin Publishing
    BY DEF Inside, Step, Publishing
  <1>4. CASE Resumable /\ UNCHANGED <<tries, current>>
    <2>1. RecordInv'
      BY <1>4, RecordFrame, IInvRecord DEF record
    <2>2. /\ HasCurrent /\ ~Published(current) /\ ~tries[current].cancelled
          /\ tries[current].phase = "unsubmitted"
      BY <1>1, <1>4 DEF WantsTry, Undecided, Resumable, IInv, StepInv, Established, Terminal
    <2>3. Established(c)'
      BY <1>1, <1>2, <1>4, <2>2 DEF Established, HasCurrent, HasStanding, Published
    <2> QED
      BY <1>1, <1>3, <2>1, <2>3, MovedOn DEF Publishing
  <1>5. CASE /\ ~Resumable /\ current + 1 \in Try
             /\ current' = current + 1 /\ AppendEvent(current + 1, Started)
    <2>1. current # NoTry => Terminal(current)
      BY <1>5 DEF WantsTry, Undecided, Resumable, IInv, StepInv, Established, HasCurrent
    <2>2. \A r \in Run : farm[r].state # "live"
      <3>1. CASE HasCurrent
        BY <2>1, <3>1, CurrentFacts DEF HasCurrent, Terminal
      <3>2. CASE ~HasCurrent
        BY <3>2 DEF IInv, TypeOK, FarmInv, HasCurrent, NoTry, LiveJobIsRecorded, Run, Try
      <3> QED
        BY <3>1, <3>2
    <2>3. RecordInv'
      BY <1>1, <1>5, <2>1, <2>2, StartRecord, IInvRecord
    <2>4. tries'[current'] = Started
      BY <1>5, AppendFacts, StartedFacts DEF IInv, TypeOK
    <2>5. ~Published(current)' /\ HasCurrent'
      <3>1. current \in Int /\ current + 1 > current /\ current + 1 # NoTry
        BY <1>5 DEF IInv, TypeOK, Try, NoTry
      <3>2. tries[current + 1] = NotStarted
        BY <1>5, <3>1 DEF IInv, TriesInv
      <3>3. NotStarted.phase = "absent"
        BY DEF NotStarted
      <3> QED
        BY <1>5, <3>1, <3>2, <3>3 DEF IInv, TriesInv, Published, HasCurrent
    <2>6. Established(c)'
      BY <1>1, <1>2, <2>4, <2>5, StartedFacts DEF Established, HasStanding
    <2> QED
      BY <1>1, <1>3, <2>3, <2>6, MovedOn DEF Publishing
  <1> QED
    BY <1>4, <1>5

\* What the steps from the intent to the end of submit rely on.
LEMMA SubmittingFacts ==
  ASSUME IInv, NEW c \in Caller, pc[c] \in {"begin", "intend", "submit", "running"}
  PROVE  /\ HasCurrent /\ ~HasStanding /\ ~Published(current) /\ ~tries[current].cancelled
         /\ pc[c] \in {"begin", "intend"} => tries[current].phase = "unsubmitted"
         /\ pc[c] \in {"submit", "running"} => tries[current].phase = "intended"
         /\ pc[c] = "submit" => Listed(current) = {}
         /\ pc[c] = "running" => accepted \in Run /\ farm[accepted].try = current
  BY DEF IInv, StepInv, Established

\* The intent, recorded once or again, of an unpublished try.
LEMMA IntendedRecord ==
  ASSUME IInv, HasCurrent, ~HasStanding, ~Published(current),
         tries[current].phase \in {"unsubmitted", "intended"},
         AppendEvent(current, Intended(tries[current])),
         UNCHANGED <<current, manifest, standing, farm, accepted>>
  PROVE  RecordInv' /\ tries'[current].phase = "intended"
         /\ tries'[current].cancelled = tries[current].cancelled
  <1> DEFINE t == Intended(tries[current])
  <1>1. /\ t \in TryState /\ t.phase = "intended" /\ t.handle = tries[current].handle
        /\ t.reusable = tries[current].reusable
        /\ t.cancelled = tries[current].cancelled
    BY CurrentFacts, IntendedFacts
  <1>2. RecordInv /\ current \in Try /\ t.handle = "none"
    BY <1>1, CurrentFacts, IInvRecord
  <1>3. ~t.reusable
    BY <1>1, <1>2 DEF RecordInv, TriesInv, Terminal, TryState
  <1>5. "none" \notin Observed
    BY DEF Observed
  <1> HIDE DEF t
  <1>6. AppendEvent(current, t)
    BY DEF t
  <1>7. tries'[current] = t
    BY <1>1, <1>2, <1>6, AppendFacts DEF RecordInv
  <1> QED
    BY <1>1, <1>2, <1>3, <1>5, <1>6, <1>7, AppendRecord

LEMMA SubmitIntentPreserves ==
  ASSUME IInv, NEW c \in Caller, SubmitIntent(c)
  PROVE  IInv'
  <1> USE DEF SubmitIntent, At
  <1>1. /\ HasCurrent /\ ~HasStanding /\ ~Published(current) /\ ~tries[current].cancelled
        /\ tries[current].phase = "unsubmitted" /\ Listed(current) = {}
    BY SubmittingFacts, CurrentFacts
  <1>2. /\ RecordInv' /\ tries'[current].phase = "intended"
        /\ tries'[current].cancelled = tries[current].cancelled
    BY <1>1, IntendedRecord
  <1>3. pc'[c] = "submit"
    BY DEF Goto, IInv, TypeOK
  <1>4. Established(c)'
    BY <1>1, <1>2, <1>3 DEF Established, HasCurrent, HasStanding, Published, Listed
  <1>5. "submit" \in Inside /\ "submit" \notin Publishing
    BY DEF Inside, Step, Publishing
  <1> QED
    BY <1>2, <1>4, <1>5, MovedOn DEF Publishing

LEMMA SubmitRefusedPreserves ==
  ASSUME IInv, NEW c \in Caller, SubmitRefused(c)
  PROVE  IInv'
  <1> USE DEF SubmitRefused, At
  <1>1. /\ HasCurrent /\ ~HasStanding /\ tries[current].phase = "intended"
        /\ Listed(current) = {}
    BY SubmittingFacts
  <1>2. RecordInv'
    BY <1>1, WithdrawnRecord
  <1> QED
    BY <1>2, Returned DEF Publishing

LEMMA SubmitAcceptedPreserves ==
  ASSUME IInv, NEW c \in Caller, SubmitAccepted(c)
  PROVE  IInv'
  <1> USE DEF SubmitAccepted, At
  <1>1. /\ HasCurrent /\ ~HasStanding /\ ~Published(current) /\ ~tries[current].cancelled
        /\ tries[current].phase = "intended" /\ Listed(current) = {}
    BY SubmittingFacts
  <1>2. RecordInv'
    BY <1>1, AcceptRecord, CurrentFacts, IInvRecord
  <1>3. pc'[c] = "running"
    BY DEF Goto, IInv, TypeOK
  <1>4. farm'[accepted'].try = current
    BY DEF IInv, TypeOK
  <1>5. Established(c)'
    BY <1>1, <1>3, <1>4
    DEF Established, record, HasCurrent, HasStanding, Published, Run
  <1>6. "running" \in Inside /\ "running" \notin Publishing
    BY DEF Inside, Step, Publishing
  <1> QED
    BY <1>2, <1>5, <1>6, MovedOn DEF Publishing

LEMMA SubmitReturnsPreserves ==
  ASSUME IInv, NEW c \in Caller, SubmitReturns(c)
  PROVE  IInv'
  <1> USE DEF SubmitReturns, At
  <1>1. /\ HasCurrent /\ ~HasStanding /\ tries[current].phase = "intended"
        /\ accepted \in Run /\ farm[accepted].try = current
    BY SubmittingFacts
  <1>2. PICK h \in Handle :
            /\ h = IF Receipts THEN farm[accepted].state ELSE "live"
            /\ h # "none"
            /\ h \in Observed => h = farm[accepted].state
    BY <1>1 DEF Handle, Observed
  <1>3. \A r \in Run : farm[r].state # "live"
    BY DEF IInv, FarmInv, Observed
  <1>4. RecordInv'
    BY <1>1, <1>2, <1>3, ReceivedRecord
  <1> QED
    BY <1>4, MovedToReconcile DEF Publishing

\* The substrate after a client is gone: at most one live job died.
LEMMA ClientGoneFacts ==
  ASSUME IInv, NEW c \in Caller, ClientGone(c)
  PROVE  /\ farm' \in [Run -> Job]
         /\ \A r \in Run :
               /\ farm'[r].try = farm[r].try /\ farm'[r].listed = farm[r].listed
               /\ \/ farm'[r] = farm[r]
                  \/ farm[r].state = "live" /\ farm'[r].state = "failed"
  <1>1. CASE UNCHANGED farm
    BY <1>1 DEF IInv, TypeOK
  <1>2. CASE pc[c] = "running" /\ farm[accepted].state = "live" /\ Kill(accepted)
    <2>1. accepted \in Run
      BY <1>2, SubmittingFacts
    <2> QED
      BY <1>2, <2>1, KillFacts DEF IInv, TypeOK
  <1> QED
    BY <1>1, <1>2 DEF ClientGone, At

\* The substrate moves under a record that the same step then appends to: the
\* two lemmas are joined by doing one after the other.
LEMMA IntendedAndGone ==
  ASSUME IInv, NEW c \in Caller, SubmitIndeterminate(c)
  PROVE  RecordInv'
  <1> USE DEF SubmitIndeterminate, At
  <1>1. /\ HasCurrent /\ ~HasStanding /\ ~Published(current)
        /\ tries[current].phase = "intended" /\ tries[current] \in TryState
        /\ current \in Try
    BY SubmittingFacts, CurrentFacts
  <1>2. Intended(tries[current]) = tries[current]
    BY <1>1 DEF Intended, TryState
  <1>3. UNCHANGED tries
    BY <1>1, <1>2 DEF AppendEvent, IInv, TypeOK
  <1>4. \A r \in Run :
            /\ farm'[r].try = farm[r].try
            /\ farm'[r].listed => farm[r].listed
            /\ \/ farm'[r].state = farm[r].state
               \/ farm[r].state = "live" /\ farm'[r].state \in Observed
            /\ farm'[r].state = "live" => farm'[r] = farm[r]
            /\ farm[r].state = "unused" => farm'[r] = farm[r]
    BY ClientGoneFacts DEF Observed
  <1> QED
    BY <1>3, <1>4, ClientGoneFacts, FarmRecord, IInvRecord DEF record

LEMMA SubmitIndeterminatePreserves ==
  ASSUME IInv, NEW c \in Caller, SubmitIndeterminate(c)
  PROVE  IInv'
  BY IntendedAndGone, Returned DEF SubmitIndeterminate, At, Publishing

LEMMA CrashPreserves ==
  ASSUME IInv, NEW c \in Caller, Crash(c)
  PROVE  IInv'
  <1> USE DEF Crash, At
  <1>1. \A r \in Run :
            /\ farm'[r].try = farm[r].try
            /\ farm'[r].listed => farm[r].listed
            /\ \/ farm'[r].state = farm[r].state
               \/ farm[r].state = "live" /\ farm'[r].state \in Observed
            /\ farm'[r].state = "live" => farm'[r] = farm[r]
            /\ farm[r].state = "unused" => farm'[r] = farm[r]
    BY ClientGoneFacts DEF Observed
  <1>2. RecordInv'
    BY <1>1, ClientGoneFacts, FarmRecord, IInvRecord
  <1> QED
    BY <1>2, Released

-----------------------------------------------------------------------------
(* reconcile, publication, cancellation and acceptance.                    *)

\* A settled, reusable current try may be made standing.
LEMMA MovedToRestand ==
  ASSUME IInv, NEW c \in Caller, pc[c] # "idle", pc[c] \notin Publishing, RecordInv',
         Goto(c, "restand"), UNCHANGED verdict,
         HasCurrent', Terminal(current)', Published(current)',
         Reusable(current, manifest[current])'
  PROVE  IInv'
  <1>1. pc'[c] = "restand"
    BY DEF Goto, IInv, TypeOK
  <1>2. Established(c)'
    BY <1>1 DEF Established
  <1>3. "restand" \in Inside /\ "restand" \notin Publishing
    BY DEF Inside, Step, Publishing
  <1> QED
    BY <1>2, <1>3, MovedOn

LEMMA RepairVerdictPreserves ==
  ASSUME IInv, NEW c \in Caller, RepairVerdict(c)
  PROVE  IInv'
  <1> USE DEF RepairVerdict, At
  <1>1. RecordInv'
    BY RepairRecord
  <1>2. CASE manifest[current] = "succeeded"
    <2>1. tries'[current].phase = "terminal"
      BY AppendFacts, EndedFacts, CurrentFacts DEF IInv, TypeOK
    <2>2. HasCurrent' /\ Terminal(current)' /\ Published(current)'
          /\ Reusable(current, manifest[current])'
      BY <1>2, <2>1 DEF HasCurrent, Terminal, Published, Reusable
    <2> QED
      BY <1>1, <1>2, <2>2, MovedToRestand DEF Publishing
  <1>3. CASE manifest[current] # "succeeded"
    BY <1>1, <1>3, Returned DEF Publishing
  <1> QED
    BY <1>2, <1>3

LEMMA PollPreserves ==
  ASSUME IInv, NEW c \in Caller, Poll(c)
  PROVE  IInv'
  <1> USE DEF Poll, At
  <1>1. RecordInv'
    BY RecordFrame, IInvRecord
  <1>2. PICK observed \in Observations :
            IF observed = "live"
            THEN Release(c) /\ UNCHANGED verdict
            ELSE /\ \E o \in Verdicts(observed) : verdict' = [verdict EXCEPT ![c] = o]
                 /\ Goto(c, "publish")
    OBVIOUS
  <1>3. CASE observed = "live"
    BY <1>1, <1>2, <1>3, Returned DEF Publishing
  <1>4. CASE observed # "live"
    <2>1. PICK o \in Verdicts(observed) : verdict' = [verdict EXCEPT ![c] = o]
      BY <1>2, <1>4
    <2>2. current \in Try /\ tries[current].handle \in Handle /\ tries[current].handle # "none"
      BY CurrentFacts DEF IInv, TriesInv, TryState
    <2>3. ~HasStanding
      BY DEF IInv, StandingInv
    <2>4. \A r \in Run : farm[r].state # "live"
      <3>1. CASE tries[current].handle \in Observed
        BY <3>1 DEF IInv, FarmInv
      <3>2. CASE tries[current].handle = "live"
        <4>1. CASE Listed(current) = {}
          BY <4>1 DEF IInv, FarmInv, LiveJobIsRecorded, Listed
        <4>2. CASE Listed(current) # {}
          <5>1. PICK r \in Listed(current) : observed = farm[r].state
            BY <3>2, <4>2 DEF Observations
          <5>2. r = accepted /\ farm[r].state # "live"
            BY <1>4, <5>1 DEF IInv, FarmInv
          <5> QED
            BY <5>2 DEF IInv, FarmInv
        <4> QED
          BY <4>1, <4>2
      <3> QED
        BY <2>2, <3>1, <3>2 DEF Handle
    <2>5. observed \in Observed \cup {"absent"}
      <3>1. CASE tries[current].handle # "live"
        BY <2>2, <3>1 DEF Observations, Handle
      <3>2. CASE tries[current].handle = "live" /\ Listed(current) # {}
        <4>1. PICK r \in Listed(current) : observed = farm[r].state
          BY <3>2 DEF Observations
        <4>2. r \in Run /\ farm[r].state # "live" /\ farm[r].state # "unused"
          BY <1>4, <4>1, <2>2 DEF IInv, TypeOK, FarmInv, Listed, Try, Run
        <4> QED
          BY <4>1, <4>2 DEF IInv, TypeOK, Job
      <3> QED
        BY <3>1, <3>2 DEF Observations
    <2>6. o \in Outcome /\ o # "none"
      BY <2>1, <2>5 DEF Verdicts, Outcome, Observed
    <2>7. o = "succeeded" =>
             /\ ~tries[current].cancelled
             /\ \E r \in Run : farm[r].try = current /\ farm[r].state = "succeeded"
      <3>1. SUFFICES ASSUME o = "succeeded"
                     PROVE  /\ ~tries[current].cancelled
                            /\ \E r \in Run : farm[r].try = current
                                              /\ farm[r].state = "succeeded"
        OBVIOUS
      <3>2. observed = "succeeded" /\ ~tries[current].cancelled
        BY <2>1, <2>5, <3>1 DEF Verdicts, Observed
      <3>3. CASE tries[current].handle # "live"
        BY <2>2, <3>2, <3>3 DEF Observations, IInv, TriesInv, Observed
      <3>4. CASE tries[current].handle = "live"
        BY <3>2, <3>4 DEF Observations, Listed
      <3> QED
        BY <3>2, <3>3, <3>4
    <2>8. pc'[c] = "publish" /\ verdict'[c] = o
      BY <1>2, <1>4, <2>1 DEF Goto, IInv, TypeOK
    <2>9. Established(c)'
      BY <2>3, <2>4, <2>7, <2>8
      DEF Established, record, HasCurrent, HasStanding, Published
    <2>10. "publish" \in Inside /\ "publish" \in Publishing
      BY DEF Inside, Step, Publishing
    <2> QED
      BY <1>1, <1>2, <1>4, <2>1, <2>6, <2>9, <2>10, Moved
  <1> QED
    BY <1>3, <1>4

LEMMA PublishingFacts ==
  ASSUME IInv, NEW c \in Caller, pc[c] \in Publishing
  PROVE  /\ HasCurrent /\ current \in Try /\ tries[current].phase = "submitted"
         /\ tries[current] \in TryState
         /\ verdict[c] \in Outcome /\ verdict[c] # "none"
         /\ verdict' = [verdict EXCEPT ![c] = verdict[c]] <=> UNCHANGED verdict
  <1>1. HasCurrent /\ tries[current].phase = "submitted"
    BY DEF IInv, StepInv, Established, Publishing
  <1>2. verdict[c] \in Outcome \cup {"none"} /\ verdict[c] # "none"
    BY DEF IInv, TypeOK, ClaimInv, Publishing
  <1> QED
    BY <1>1, <1>2, CurrentFacts DEF IInv, TypeOK

LEMMA PublishManifestPreserves ==
  ASSUME IInv, NEW c \in Caller, PublishManifest(c)
  PROVE  IInv'
  <1> USE DEF PublishManifest, At
  <1>1. pc[c] \in Publishing
    BY DEF Publishing
  <1>2. /\ ~HasStanding /\ ~Published(current)
        /\ \A r \in Run : farm[r].state # "live"
        /\ verdict[c] = "succeeded" =>
              \E r \in Run : farm[r].try = current /\ farm[r].state = "succeeded"
    BY DEF IInv, StepInv, Established
  <1>3. RecordInv'
    BY <1>1, <1>2, PublishingFacts, ManifestRecord, IInvRecord
  <1> DEFINE s == IF verdict[c] = "succeeded" THEN "stand" ELSE "terminal"
  <1>4. s \in Inside /\ s \in Publishing /\ s \in {"stand", "terminal"}
    BY DEF Inside, Step, Publishing
  <1>5. pc'[c] = s
    BY DEF Goto, IInv, TypeOK
  <1>6. manifest'[current] = verdict[c]
    BY <1>1, PublishingFacts DEF IInv, TypeOK
  <1>7. Established(c)'
    BY <1>1, <1>2, <1>5, <1>6, PublishingFacts DEF Established, HasCurrent, HasStanding
  <1>8. Goto(c, s)
    OBVIOUS
  <1> HIDE DEF s
  <1> QED
    BY <1>1, <1>3, <1>4, <1>7, <1>8, PublishingFacts, Moved

LEMMA PublishStandingPreserves ==
  ASSUME IInv, NEW c \in Caller, PublishStanding(c)
  PROVE  IInv'
  <1> USE DEF PublishStanding, At
  <1>1. pc[c] \in Publishing
    BY DEF Publishing
  <1>2. manifest[current] = verdict[c] /\ verdict[c] = "succeeded"
    BY DEF IInv, StepInv, Established
  <1>3. Published(current) /\ Reusable(current, manifest[current])
    BY <1>2 DEF Published, Reusable
  <1>4. RecordInv'
    BY <1>1, <1>3, PublishingFacts, StandRecord, IInvRecord
  <1>5. pc'[c] = "terminal"
    BY DEF Goto, IInv, TypeOK
  <1>6. Established(c)'
    BY <1>1, <1>2, <1>5, PublishingFacts DEF Established, HasCurrent
  <1>7. "terminal" \in Inside /\ "terminal" \in Publishing
    BY DEF Inside, Step, Publishing
  <1> QED
    BY <1>1, <1>4, <1>6, <1>7, PublishingFacts, Moved

LEMMA AppendTerminalPreserves ==
  ASSUME IInv, NEW c \in Caller, AppendTerminal(c)
  PROVE  IInv'
  <1> USE DEF AppendTerminal, At
  <1>1. pc[c] \in Publishing
    BY DEF Publishing
  <1>2. manifest[current] = verdict[c]
    BY DEF IInv, StepInv, Established
  <1>3. Published(current) /\ ~Terminal(current) /\ HasCurrent
    BY <1>1, <1>2, PublishingFacts DEF Published, Terminal
  <1>4. RecordInv'
    BY <1>2, <1>3, RepairRecord
  <1> QED
    BY <1>4, Released

LEMMA RequestCancelPreserves ==
  ASSUME IInv, NEW c \in Caller, RequestCancel(c)
  PROVE  IInv'
  <1> USE DEF RequestCancel, At
  <1> DEFINE t == Cancelling(tries[current])
  <1>1. /\ t \in TryState /\ t.phase = tries[current].phase
        /\ t.handle = tries[current].handle /\ t.outcome = tries[current].outcome
        /\ t.reusable = tries[current].reusable
    BY CurrentFacts, CancellingFacts
  <1>2. RecordInv /\ current \in Try
    BY CurrentFacts, IInvRecord
  <1>3. /\ t.phase # "absent"
        /\ t.phase = "terminal" => Published(current) /\ t.outcome = manifest[current]
        /\ Published(current) => t.phase \in {"submitted", "terminal"}
        /\ t.phase = "submitted" => t.handle # "none"
        /\ t.phase \in {"unsubmitted", "intended"} => t.handle = "none"
        /\ t.reusable => t.phase = "terminal"
    BY <1>1, <1>2, CurrentFacts DEF RecordInv, TriesInv, TerminalHasEvidence, Terminal
  <1>4. t.handle \in Observed =>
           /\ \E r \in Run : farm[r].try = current /\ farm[r].state = t.handle
           /\ \A r \in Run : farm[r].state # "live"
    BY <1>1, <1>2 DEF RecordInv, TriesInv, FarmInv
  <1>5. /\ t.phase \in {"intended", "submitted"} \/ \A r \in Run : farm[r].state # "live"
        /\ t.phase # "unsubmitted" \/ Listed(current) = {}
    BY <1>1, CurrentFacts
  <1>6. HasStanding => t.reusable \/ standing.outcome = "succeeded"
    BY <1>1, <1>2 DEF RecordInv, StandingInv, StandingIsReusable, Reusable
  <1>7. AppendEvent(current, t)
    OBVIOUS
  <1> HIDE DEF t
  <1>8. RecordInv'
    BY <1>1, <1>2, <1>3, <1>4, <1>5, <1>6, <1>7, AppendRecord
  <1>9. CASE Goto(c, "kill")
    <2>1. pc'[c] = "kill"
      BY <1>9 DEF Goto, IInv, TypeOK
    <2>2. Established(c)'
      BY <2>1 DEF Established, HasCurrent
    <2>3. "kill" \in Inside /\ "kill" \notin Publishing
      BY DEF Inside, Step, Publishing
    <2> QED
      BY <1>8, <1>9, <2>2, <2>3, MovedOn DEF Publishing
  <1>10. CASE Release(c)
    BY <1>8, <1>10, Returned DEF Publishing
  <1> QED
    BY <1>9, <1>10

LEMMA CancelJobPreserves ==
  ASSUME IInv, NEW c \in Caller, CancelJob(c)
  PROVE  IInv'
  <1> USE DEF CancelJob, At
  <1>1. /\ farm' \in [Run -> Job]
        /\ \A r \in Run :
              /\ farm'[r].try = farm[r].try
              /\ farm'[r].listed => farm[r].listed
              /\ \/ farm'[r].state = farm[r].state
                 \/ farm[r].state = "live" /\ farm'[r].state \in Observed
              /\ farm'[r].state = "live" => farm'[r] = farm[r]
              /\ farm[r].state = "unused" => farm'[r] = farm[r]
    <2>1. CASE UNCHANGED farm
      BY <2>1 DEF IInv, TypeOK
    <2>2. CASE \E r \in Listed(current) : farm[r].state = "live" /\ Kill(r)
      <3>1. PICK r \in Run : farm[r].state = "live" /\ Kill(r)
        BY <2>2 DEF Listed
      <3> QED
        BY <3>1, KillFacts DEF IInv, TypeOK, Observed
    <2> QED
      BY <2>1, <2>2
  <1>2. RecordInv'
    BY <1>1, FarmRecord, IInvRecord
  <1> QED
    BY <1>2, Returned DEF Publishing

LEMMA AcceptForReusePreserves ==
  ASSUME IInv, NEW c \in Caller, AcceptForReuse(c)
  PROVE  IInv'
  <1> USE DEF AcceptForReuse, MayAccept, At
  <1> DEFINE t == Accepting(tries[current])
  <1>1. /\ t \in TryState /\ t.phase = "terminal"
        /\ t.handle = tries[current].handle /\ t.outcome = tries[current].outcome
        /\ t.reusable = TRUE
    BY CurrentFacts, AcceptingFacts DEF Terminal
  <1>2. RecordInv /\ current \in Try
    BY CurrentFacts, IInvRecord
  <1>3. t.outcome = manifest[current]
    BY <1>1, <1>2 DEF RecordInv, TriesInv, TerminalHasEvidence
  <1>4. t.handle \in Observed =>
           /\ \E r \in Run : farm[r].try = current /\ farm[r].state = t.handle
           /\ \A r \in Run : farm[r].state # "live"
    BY <1>1, <1>2 DEF RecordInv, TriesInv, FarmInv
  <1>5. \A r \in Run : farm[r].state # "live"
    BY CurrentFacts
  <1>6. AppendEvent(current, t)
    OBVIOUS
  <1> HIDE DEF t
  <1>7. RecordInv'
    BY <1>1, <1>2, <1>3, <1>4, <1>5, <1>6, AppendRecord
  <1>8. tries'[current] = t
    BY <1>1, <1>2, <1>6, AppendFacts DEF RecordInv
  <1>9. HasCurrent' /\ Terminal(current)' /\ Published(current)'
        /\ Reusable(current, manifest[current])'
    BY <1>1, <1>8 DEF HasCurrent, Terminal, Published, Reusable
  <1> QED
    BY <1>7, <1>9, MovedToRestand DEF Publishing

LEMMA MakeStandingPreserves ==
  ASSUME IInv, NEW c \in Caller, MakeStanding(c)
  PROVE  IInv'
  <1> USE DEF MakeStanding, At
  <1>1. HasCurrent /\ Published(current) /\ Reusable(current, manifest[current])
    BY DEF IInv, StepInv, Established
  <1>2. RecordInv'
    BY <1>1, StandRecord, IInvRecord
  <1> QED
    BY <1>2, Returned DEF Publishing

-----------------------------------------------------------------------------
(* The substrate by itself, the initial state, and the invariant.          *)

\* What a job that ends or is forgotten does to the substrate.
LEMMA JobFacts ==
  ASSUME IInv, NEW r \in Run, JobEnds(r) \/ JobForgotten(r)
  PROVE  /\ farm' \in [Run -> Job]
         /\ \A q \in Run :
               /\ farm'[q].try = farm[q].try
               /\ farm'[q].listed => farm[q].listed
               /\ \/ farm'[q].state = farm[q].state
                  \/ farm[q].state = "live" /\ farm'[q].state \in Observed
               /\ farm'[q].state = "live" => farm'[q] = farm[q]
               /\ farm[q].state = "unused" => farm'[q] = farm[q]
         /\ UNCHANGED <<lock, pc, verdict, record, accepted>>
  <1>0. farm \in [Run -> Job]
    BY DEF IInv, TypeOK
  <1>1. CASE JobEnds(r)
    BY <1>0, <1>1 DEF JobEnds, Job, Observed
  <1>2. CASE JobForgotten(r)
    BY <1>0, <1>2 DEF JobForgotten, Job, Observed
  <1> QED
    BY <1>1, <1>2

LEMMA JobPreserves ==
  ASSUME IInv, NEW r \in Run, JobEnds(r) \/ JobForgotten(r)
  PROVE  IInv'
  <1>1. RecordInv'
    BY JobFacts, FarmRecord, IInvRecord
  <1>2. ASSUME NEW c \in Caller
        PROVE  Established(c)'
    <2>1. Established(c)
      BY DEF IInv, StepInv
    <2>2. \A q \in Run : farm[q].state \in Observed => farm'[q].state = farm[q].state
      BY JobFacts DEF Observed
    <2>3. (\A q \in Run : farm[q].state # "live") =>
             \A q \in Run : farm'[q].state # "live"
      BY JobFacts DEF Observed
    <2>4. (\E q \in Run : farm[q].try = current /\ farm[q].state = "succeeded") =>
             \E q \in Run : farm'[q].try = current /\ farm'[q].state = "succeeded"
      BY <2>2, JobFacts DEF Observed
    <2>5. Listed(current) = {} => Listed(current)' = {}
      BY JobFacts DEF Listed, record
    <2>6. pc[c] = "running" => accepted \in Run /\ farm'[accepted].try = current
      BY <2>1, JobFacts DEF Established
    <2> QED
      BY <2>1, <2>3, <2>4, <2>5, <2>6, JobFacts
      DEF Established, record, HasCurrent, HasStanding, Published, Terminal, Reusable
  <1>3. ClaimInv'
    BY JobFacts DEF IInv, ClaimInv, At
  <1> QED
    BY <1>1, <1>2, <1>3, JobFacts DEF IInv, RecordInv, TypeOK, StepInv

LEMMA StutterPreserves ==
  ASSUME IInv, UNCHANGED vars
  PROVE  IInv'
  <1> USE DEF vars
  <1>1. RecordInv'
    BY RecordFrame, IInvRecord DEF record
  <1>2. ClaimInv' /\ StepInv'
    BY DEF IInv, ClaimInv, StepInv, Established, At, record, HasCurrent, HasStanding,
       Published, Terminal, Reusable, Listed
  <1> QED
    BY <1>1, <1>2 DEF IInv, RecordInv, TypeOK

LEMMA InitInvariant == Init => IInv
  <1> SUFFICES ASSUME Init PROVE IInv
    OBVIOUS
  <1> USE DEF Init
  <1>0. /\ NotStarted \in TryState /\ NotStarted.phase = "absent"
        /\ NotStarted.handle = "none" /\ NotStarted.reusable = FALSE
        /\ NoStanding \in Standing /\ NoStanding.try = NoTry
        /\ NoJob \in Job /\ NoJob.state = "unused" /\ NoJob.try = NoTry
        /\ NoJob.listed = FALSE
    BY DEF NotStarted, TryState, Phase, Handle, NoStanding, Standing, NoJob, Job
  <1>1. TypeOK
    BY <1>0, BoundAssumption DEF TypeOK
  <1>2. ClaimInv
    BY CallerAssumption DEF ClaimInv, At
  <1>3. TriesInv
    BY <1>0 DEF TriesInv, EarlierTriesAreTerminal, TerminalHasEvidence, SuccessIsEarned,
       Terminal, Published, NoTry, Try, Observed
  <1>4. FarmInv
    BY <1>0 DEF FarmInv, LiveJobIsRecorded, Listed, HasCurrent, Run
  <1>5. StandingInv
    BY <1>0 DEF StandingInv, StandingIsReusable, HasStanding
  <1>6. StepInv
    BY DEF StepInv, Established
  <1> QED
    BY <1>1, <1>2, <1>3, <1>4, <1>5, <1>6 DEF IInv

LEMMA LaunchPreserves ==
  ASSUME IInv, NEW c \in Caller, Launch(c)
  PROVE  IInv'
  BY QuietPreserves, RepairPreserves, ServeCurrentPreserves, AttachSubmittedPreserves,
     AttachDiscoveredPreserves, RecordLostPreserves, BeginTryPreserves,
     SubmitIntentPreserves, SubmitRefusedPreserves, SubmitAcceptedPreserves,
     SubmitReturnsPreserves, SubmitIndeterminatePreserves DEF Launch

LEMMA ReconcilePreserves ==
  ASSUME IInv, NEW c \in Caller, Reconcile(c)
  PROVE  IInv'
  BY QuietPreserves, RepairVerdictPreserves, PollPreserves, PublishManifestPreserves,
     PublishStandingPreserves, AppendTerminalPreserves DEF Reconcile

LEMMA DecidePreserves ==
  ASSUME IInv, NEW c \in Caller, Decide(c)
  PROVE  IInv'
  BY QuietPreserves, RequestCancelPreserves, CancelJobPreserves, AcceptForReusePreserves,
     MakeStandingPreserves DEF Decide

LEMMA NextInvariant == IInv /\ [Next]_vars => IInv'
  <1> SUFFICES ASSUME IInv, [Next]_vars PROVE IInv'
    OBVIOUS
  <1>1. ASSUME NEW c \in Caller, NEW op \in Operation, Claim(c, op) PROVE IInv'
    BY <1>1, ClaimPreserves
  <1>2. ASSUME NEW c \in Caller, Proceed(c) PROVE IInv'
    BY <1>2, LaunchPreserves, ReconcilePreserves, DecidePreserves DEF Proceed
  <1>3. ASSUME NEW c \in Caller, Crash(c) PROVE IInv'
    BY <1>3, CrashPreserves
  <1>4. ASSUME NEW r \in Run, JobEnds(r) \/ JobForgotten(r) PROVE IInv'
    BY <1>4, JobPreserves
  <1>5. CASE UNCHANGED vars
    BY <1>5, StutterPreserves
  <1> QED
    BY <1>1, <1>2, <1>3, <1>4, <1>5 DEF Next

\* Every state the record and its callers reach satisfies the inductive
\* invariant, whatever the number of callers, tries and jobs.
THEOREM Inductive == Spec => []IInv
  BY InitInvariant, NextInvariant, PTL DEF Spec

-----------------------------------------------------------------------------
(* What follows for every state.                                           *)

\* The journal, the manifests, the standing result and the substrate keep
\* their types through every operation, crash and repair.
THEOREM TypeCorrect == Spec => []TypeOK
  <1>1. IInv => TypeOK
    BY DEF IInv
  <1> QED
    BY <1>1, Inductive, PTL

\* The claim and the numbered tries never let one computation run twice at
\* once, on any transport and after any crash.
THEOREM NoConcurrentExecution == Spec => []AtMostOneLiveJob
  <1>1. IInv => AtMostOneLiveJob
    BY DEF IInv, FarmInv, AtMostOneLiveJob
  <1> QED
    BY <1>1, Inductive, PTL

\* A job that runs is always named by a durable intent of the current try.
THEOREM LiveWorkIsNamed == Spec => []LiveJobIsRecorded
  <1>1. IInv => LiveJobIsRecorded
    BY DEF IInv, FarmInv
  <1> QED
    BY <1>1, Inductive, PTL

\* Terminal events and manifests agree through every crash and repair.
THEOREM EvidenceBacksTheJournal == Spec => []TerminalHasEvidence
  <1>1. IInv => TerminalHasEvidence
    BY DEF IInv, TriesInv
  <1> QED
    BY <1>1, Inductive, PTL

\* The standing result is the current try's published, reusable outcome.
THEOREM StandingIsJustified == Spec => []StandingIsReusable
  <1>1. IInv => StandingIsReusable
    BY DEF IInv, StandingInv
  <1> QED
    BY <1>1, Inductive, PTL

\* No success is published that no job of that try earned.
THEOREM NoUnearnedSuccess == Spec => []SuccessIsEarned
  <1>1. IInv => SuccessIsEarned
    BY DEF IInv, TriesInv
  <1> QED
    BY <1>1, Inductive, PTL

\* A new try is only started over terminal ones.
THEOREM TriesAreSettledInOrder == Spec => []EarlierTriesAreTerminal
  <1>1. IInv => EarlierTriesAreTerminal
    BY DEF IInv, TriesInv
  <1> QED
    BY <1>1, Inductive, PTL

-----------------------------------------------------------------------------
(* What no step does.                                                      *)

\* A manifest is only ever written by publish_terminal, over nothing.
LEMMA ManifestSteps ==
  ASSUME [Next]_vars
  PROVE  UNCHANGED manifest \/ \E c \in Caller : PublishManifest(c)
  BY DEF Next, vars, record, Proceed, Launch, Reconcile, Decide, Claim, Crash, JobEnds,
     JobForgotten, ServeStanding, RepairStanding, RepairCurrent, ServeCurrent, RefuseLaunch,
     AttachSubmitted, AttachDiscovered, RecordLost, BeginTry, GiveUpAtBound, SubmitIntent,
     SubmitRefused, SubmitAccepted, SubmitReturns, SubmitIndeterminate, RepairVerdict,
     NothingToReconcile, Poll, PublishStanding, AppendTerminal, RequestCancel,
     NothingToCancel, CancelJob, AcceptForReuse, NothingToAccept, MakeStanding

\* A standing result is only ever written by the three callers of make_standing.
LEMMA StandingSteps ==
  ASSUME [Next]_vars
  PROVE  \/ UNCHANGED standing
         \/ \E c \in Caller : ServeCurrent(c) \/ PublishStanding(c) \/ MakeStanding(c)
  BY DEF Next, vars, record, Proceed, Launch, Reconcile, Decide, Claim, Crash, JobEnds,
     JobForgotten, ServeStanding, RepairStanding, RepairCurrent, RefuseLaunch,
     AttachSubmitted, AttachDiscovered, RecordLost, BeginTry, GiveUpAtBound, SubmitIntent,
     SubmitRefused, SubmitAccepted, SubmitReturns, SubmitIndeterminate, RepairVerdict,
     NothingToReconcile, Poll, PublishManifest, AppendTerminal, RequestCancel,
     NothingToCancel, CancelJob, AcceptForReuse, NothingToAccept

\* The substrate accepts a job only from a caller that recorded its intent.
LEMMA AcceptingSteps ==
  ASSUME [Next]_vars
  PROVE  UNCHANGED accepted \/ \E c \in Caller : SubmitAccepted(c)
  BY DEF Next, vars, record, Proceed, Launch, Reconcile, Decide, Claim, Crash, JobEnds,
     JobForgotten, ServeStanding, RepairStanding, RepairCurrent, ServeCurrent, RefuseLaunch,
     AttachSubmitted, AttachDiscovered, RecordLost, BeginTry, GiveUpAtBound, SubmitIntent,
     SubmitRefused, SubmitReturns, SubmitIndeterminate, RepairVerdict,
     NothingToReconcile, Poll, PublishManifest, PublishStanding, AppendTerminal,
     RequestCancel, NothingToCancel, CancelJob, AcceptForReuse, NothingToAccept, MakeStanding

\* Otherwise the substrate changes by itself, by a lost client or by a kill.
LEMMA FarmSteps ==
  ASSUME [Next]_vars
  PROVE  \/ UNCHANGED farm
         \/ \E c \in Caller : SubmitAccepted(c) \/ CancelJob(c) \/ Crash(c)
                              \/ SubmitIndeterminate(c)
         \/ \E r \in Run : JobEnds(r) \/ JobForgotten(r)
  BY DEF Next, vars, record, Proceed, Launch, Reconcile, Decide, Claim,
     ServeStanding, RepairStanding, RepairCurrent, ServeCurrent, RefuseLaunch,
     AttachSubmitted, AttachDiscovered, RecordLost, BeginTry, GiveUpAtBound, SubmitIntent,
     SubmitRefused, SubmitReturns, RepairVerdict, NothingToReconcile, Poll,
     PublishManifest, PublishStanding, AppendTerminal, RequestCancel, NothingToCancel,
     AcceptForReuse, NothingToAccept, MakeStanding

\* Every step that appends does so for one try, and only of an undecided one
\* does it change the phase.
LEMMA JournalSteps ==
  ASSUME IInv, Next
  PROVE  \/ UNCHANGED tries
         \/ \E n \in Try, t \in TryState :
               AppendEvent(n, t) /\ (Terminal(n) => t.phase = "terminal")
  <1> DEFINE Safe == \E n \in Try, t \in TryState :
                        AppendEvent(n, t) /\ (Terminal(n) => t.phase = "terminal")
  <1>1. ASSUME NEW n \in Try, NEW t \in TryState, AppendEvent(n, t),
               tries[n].phase # "terminal" \/ t.phase = "terminal"
        PROVE  Safe
    BY <1>1 DEF Terminal
  <1> HIDE DEF Safe
  <1>2. \A n \in Try : tries[n] \in TryState /\ manifest[n] \in Outcome \cup {"none"}
    BY DEF IInv, TypeOK
  <1>3. HasCurrent => current \in Try
    BY DEF IInv, TypeOK, HasCurrent
  <1>4. HasStanding => standing.try = current /\ standing.outcome = manifest[current] /\ HasCurrent
    BY DEF IInv, TypeOK, StandingInv, StandingIsReusable, Published, Standing, HasStanding,
           HasCurrent
  <1>5. ASSUME NEW c \in Caller, RepairStanding(c) \/ RepairCurrent(c) \/ RepairVerdict(c)
        PROVE  Safe
    <2>1. HasCurrent /\ AppendEvent(current, Ended(tries[current], manifest[current]))
      BY <1>4, <1>5 DEF RepairStanding, RepairCurrent, RepairVerdict
    <2> QED
      BY <1>1, <1>2, <1>3, <2>1, EndedFacts
  <1>6. ASSUME NEW c \in Caller, AttachDiscovered(c) \/ RecordLost(c)
        PROVE  Safe
    <2>1. HasCurrent /\ tries[current].phase = "intended"
      BY <1>6 DEF AttachDiscovered, RecordLost, Undecided
    <2>2. "live" \in Handle
      BY DEF Handle
    <2> QED
      BY <1>1, <1>2, <1>3, <1>6, <2>1, <2>2, ReceivedFacts, WithdrawnFacts
      DEF AttachDiscovered, RecordLost
  <1>7. ASSUME NEW c \in Caller, BeginTry(c), ~UNCHANGED tries
        PROVE  Safe
    <2>1. current + 1 \in Try /\ AppendEvent(current + 1, Started)
      BY <1>7 DEF BeginTry
    <2>2. Started \in TryState /\ tries[current + 1].phase = "absent"
      BY <2>1, StartedFacts DEF IInv, TypeOK, TriesInv, NotStarted, Try, NoTry
    <2> QED
      BY <1>1, <2>1, <2>2
  <1>8. ASSUME NEW c \in Caller,
               \/ SubmitIntent(c) \/ SubmitRefused(c) \/ SubmitReturns(c) \/ SubmitIndeterminate(c)
        PROVE  Safe
    <2>1. pc[c] \in {"intend", "submit", "running"}
      BY <1>8 DEF SubmitIntent, SubmitRefused, SubmitReturns, SubmitIndeterminate, At
    <2>2. HasCurrent /\ tries[current].phase \in {"unsubmitted", "intended"}
      BY <2>1 DEF IInv, StepInv, Established
    <2>3. SubmitReturns(c) => farm[accepted].state \in Handle
      BY DEF SubmitReturns, Handle
    <2>4. "live" \in Handle
      BY DEF Handle
    <2> QED
      BY <1>1, <1>2, <1>3, <1>8, <2>2, <2>3, <2>4, IntendedFacts, WithdrawnFacts, ReceivedFacts
      DEF SubmitIntent, SubmitRefused, SubmitReturns, SubmitIndeterminate
  <1>9. ASSUME NEW c \in Caller, AppendTerminal(c)
        PROVE  Safe
    <2>1. HasCurrent /\ AppendEvent(current, Ended(tries[current], verdict[c]))
      BY <1>9 DEF AppendTerminal, At, IInv, StepInv, Established
    <2>2. verdict[c] \in Outcome \cup {"none"}
      BY DEF IInv, TypeOK
    <2> QED
      BY <1>1, <1>2, <1>3, <2>1, <2>2, EndedFacts
  <1>10. ASSUME NEW c \in Caller, RequestCancel(c) \/ AcceptForReuse(c)
         PROVE  Safe
    <2>1. HasCurrent
      BY <1>10 DEF RequestCancel, AcceptForReuse, MayAccept
    <2>2. \/ AppendEvent(current, Cancelling(tries[current]))
          \/ AppendEvent(current, Accepting(tries[current]))
      BY <1>10 DEF RequestCancel, AcceptForReuse
    <2>3. tries[current] \in TryState /\ current \in Try
      BY <1>2, <1>3, <2>1
    <2>4. \A t \in {Cancelling(tries[current]), Accepting(tries[current])} :
             t \in TryState /\ t.phase = tries[current].phase
      BY <2>3, CancellingFacts, AcceptingFacts
    <2>5. Terminal(current) <=> tries[current].phase = "terminal"
      BY DEF Terminal
    <2> QED
      BY <1>1, <2>2, <2>3, <2>4
  <1>11. \/ UNCHANGED tries
         \/ \E c \in Caller :
               \/ RepairStanding(c) \/ RepairCurrent(c) \/ RepairVerdict(c)
               \/ AttachDiscovered(c) \/ RecordLost(c) \/ (BeginTry(c) /\ ~UNCHANGED tries)
               \/ SubmitIntent(c) \/ SubmitRefused(c) \/ SubmitReturns(c)
               \/ SubmitIndeterminate(c) \/ AppendTerminal(c)
               \/ RequestCancel(c) \/ AcceptForReuse(c)
    BY DEF Next, record, Proceed, Launch, Reconcile, Decide, Claim, Crash, JobEnds,
       JobForgotten, ServeStanding, ServeCurrent, RefuseLaunch, AttachSubmitted, GiveUpAtBound,
       SubmitAccepted, NothingToReconcile, Poll, PublishManifest, PublishStanding,
       NothingToCancel, CancelJob, NothingToAccept, MakeStanding
  <1> QED
    BY <1>5, <1>6, <1>7, <1>8, <1>9, <1>10, <1>11 DEF Safe

\* A try that is decided in the journal stays decided.
LEMMA TerminalStays ==
  ASSUME IInv, Next, NEW n \in Try, Terminal(n)
  PROVE  Terminal(n)'
  <1>1. tries \in [Try -> TryState]
    BY DEF IInv, TypeOK
  <1>2. ASSUME NEW m \in Try, NEW t \in TryState, AppendEvent(m, t),
               Terminal(m) => t.phase = "terminal"
        PROVE  Terminal(n)'
    BY <1>1, <1>2, AppendFacts DEF Terminal
  <1> QED
    BY <1>2, JournalSteps DEF Terminal

\* The tries that were submitted, or are about to be.
Begun == {"intended", "submitted", "terminal"}

\* A current try begins where its intent is written; a new one has not begun.
LEMMA BeginningSteps ==
  ASSUME IInv, Next
  PROVE  \/ /\ current' = current
            /\ HasCurrent /\ tries'[current].phase \in Begun =>
                  \/ tries[current].phase \in Begun
                  \/ \E c \in Caller : pc[c] = "intend" /\ pc'[c] = "submit"
         \/ /\ current' = current + 1 /\ current' \in Try
            /\ tries'[current'].phase = "unsubmitted"
  <1> DEFINE Stays == /\ current' = current
                      /\ HasCurrent /\ tries'[current].phase \in Begun =>
                            \/ tries[current].phase \in Begun
                            \/ \E c \in Caller : pc[c] = "intend" /\ pc'[c] = "submit"
             Moves == /\ current' = current + 1 /\ current' \in Try
                      /\ tries'[current'].phase = "unsubmitted"
  <1>1. /\ tries \in [Try -> TryState] /\ pc \in [Caller -> {"idle"} \cup Operation \cup Step]
        /\ HasCurrent => current \in Try
    BY DEF IInv, TypeOK, HasCurrent
  <1>2. HasStanding => standing.try = current /\ HasCurrent /\ Published(current)
    BY DEF IInv, TypeOK, StandingInv, StandingIsReusable, Published, Standing, HasStanding, HasCurrent
  <1>3. \A n \in Try : Published(n) => tries[n].phase \in Begun
    BY DEF IInv, TriesInv, Begun
  <1>4. CASE UNCHANGED <<tries, current>>
    BY <1>4
  <1>5. CASE HasCurrent /\ current' = current /\ tries[current].phase \in Begun
    BY <1>5
  <1>6. ASSUME NEW t \in TryState, AppendEvent(current, t), HasCurrent, current' = current,
               t.phase \in Begun => tries[current].phase \in Begun
        PROVE  Stays
    BY <1>1, <1>6, AppendFacts
  <1> HIDE DEF Stays, Moves
  <1>7. ASSUME NEW c \in Caller, RepairStanding(c) \/ RepairCurrent(c) \/ RepairVerdict(c)
        PROVE  Stays
    <2>1. HasCurrent /\ Published(current) /\ current' = current
      BY <1>2, <1>7 DEF RepairStanding, RepairCurrent, RepairVerdict
    <2> QED
      BY <1>1, <1>3, <1>5, <2>1 DEF Stays
  <1>8. ASSUME NEW c \in Caller, AttachDiscovered(c) PROVE Stays
    BY <1>8 DEF AttachDiscovered, Undecided, Stays, Begun
  <1>9. ASSUME NEW c \in Caller, RecordLost(c) \/ SubmitRefused(c) PROVE Stays
    <2>1. HasCurrent /\ current' = current
      BY <1>9 DEF RecordLost, Undecided, SubmitRefused, At, IInv, StepInv, Established
    <2>2. Withdrawn(tries[current]) \in TryState /\ Withdrawn(tries[current]).phase \notin Begun
      BY <1>1, <2>1, WithdrawnFacts DEF Begun
    <2> QED
      BY <1>6, <1>9, <2>1, <2>2 DEF RecordLost, SubmitRefused
  <1>10. ASSUME NEW c \in Caller, BeginTry(c) PROVE Stays \/ Moves
    <2>1. CASE current + 1 \in Try /\ current' = current + 1 /\ AppendEvent(current + 1, Started)
      BY <1>1, <2>1, AppendFacts, StartedFacts DEF Moves
    <2> QED
      BY <1>4, <1>10, <2>1 DEF BeginTry, Stays
  <1>11. ASSUME NEW c \in Caller, SubmitIntent(c) PROVE Stays
    BY <1>1, <1>11 DEF SubmitIntent, At, Goto, Stays
  <1>12. ASSUME NEW c \in Caller, SubmitReturns(c) \/ SubmitIndeterminate(c) \/ AppendTerminal(c)
         PROVE  Stays
    <2>1. HasCurrent /\ current' = current /\ tries[current].phase \in {"intended", "submitted"}
      BY <1>12 DEF SubmitReturns, SubmitIndeterminate, AppendTerminal, At, IInv, StepInv, Established
    <2> QED
      BY <2>1 DEF Stays, Begun
  <1>13. ASSUME NEW c \in Caller, RequestCancel(c) PROVE Stays
    <2>1. /\ HasCurrent /\ current' = current /\ Cancelling(tries[current]) \in TryState
          /\ Cancelling(tries[current]).phase = tries[current].phase
      BY <1>1, <1>13, CancellingFacts DEF RequestCancel
    <2> QED
      BY <1>6, <1>13, <2>1 DEF RequestCancel
  <1>14. ASSUME NEW c \in Caller, AcceptForReuse(c) PROVE Stays
    BY <1>14 DEF AcceptForReuse, MayAccept, Terminal, Stays, Begun
  <1>15. ASSUME NEW c \in Caller,
                \/ \E op \in Operation : Claim(c, op)
                \/ ServeStanding(c) \/ ServeCurrent(c) \/ RefuseLaunch(c) \/ AttachSubmitted(c)
                \/ GiveUpAtBound(c) \/ SubmitAccepted(c)
                \/ NothingToReconcile(c) \/ Poll(c) \/ PublishManifest(c) \/ PublishStanding(c)
                \/ NothingToCancel(c) \/ CancelJob(c) \/ NothingToAccept(c) \/ MakeStanding(c)
                \/ Crash(c)
         PROVE  UNCHANGED <<tries, current>>
    BY <1>15 DEF Claim, ServeStanding, ServeCurrent, RefuseLaunch, AttachSubmitted, GiveUpAtBound,
       SubmitAccepted, NothingToReconcile, Poll, PublishManifest, PublishStanding, NothingToCancel,
       CancelJob, NothingToAccept, MakeStanding, Crash, record
  <1>16. ASSUME NEW r \in Run, JobEnds(r) \/ JobForgotten(r) PROVE UNCHANGED <<tries, current>>
    BY <1>16 DEF JobEnds, JobForgotten, record
  <1>17. UNCHANGED <<tries, current>> => Stays
    BY <1>4 DEF Stays
  <1>18. Stays \/ Moves
    BY <1>7, <1>8, <1>9, <1>10, <1>11, <1>12, <1>13, <1>14, <1>15, <1>16, <1>17
       DEF Next, Proceed, Launch, Reconcile, Decide
  <1> QED
    BY <1>18 DEF Stays, Moves

\* Every write of standing.json that changes it decides an undecided record.
LEMMA DecidingSteps ==
  ASSUME IInv, [Next]_vars, standing' # standing
  PROVE  /\ ~HasStanding /\ HasCurrent /\ Published(current) /\ Stand(current)
         /\ UNCHANGED <<farm, accepted>>
  <1>1. PICK c \in Caller : ServeCurrent(c) \/ PublishStanding(c) \/ MakeStanding(c)
    BY StandingSteps
  <1>2. CASE ServeCurrent(c)
    BY <1>2 DEF ServeCurrent
  <1>3. CASE PublishStanding(c)
    <2>1. pc[c] \in Publishing
      BY <1>3 DEF PublishStanding, At, Publishing
    <2>2. manifest[current] = verdict[c] /\ ~HasStanding
      BY <1>3 DEF PublishStanding, At, IInv, StepInv, Established
    <2> QED
      BY <1>3, <2>1, <2>2, PublishingFacts DEF PublishStanding, Published
  <1>4. CASE MakeStanding(c)
    <2>1. HasCurrent /\ Published(current) /\ Stand(current) /\ UNCHANGED <<farm, accepted>>
      BY <1>4 DEF MakeStanding, At, IInv, StepInv, Established
    <2>2. ~HasStanding
      BY <2>1 DEF IInv, TypeOK, Standing, StandingInv, StandingIsReusable, Stand
    <2> QED
      BY <2>1, <2>2
  <1> QED
    BY <1>1, <1>2, <1>3, <1>4

\* A manifest is never rewritten and a decided record keeps its decision,
\* whoever publishes, repairs or accepts.
THEOREM DecisionsAreFinal == Spec => EvidenceIsFinal
  <1>1. ASSUME IInv, [Next]_vars
        PROVE  [ /\ \A n \in Try : Published(n) => manifest'[n] = manifest[n]
                 /\ HasStanding => standing' = standing ]_record
    <2>1. ASSUME NEW n \in Try, Published(n) PROVE manifest'[n] = manifest[n]
      <3>1. CASE UNCHANGED manifest
        BY <3>1
      <3>2. ASSUME NEW c \in Caller, PublishManifest(c) PROVE manifest'[n] = manifest[n]
        BY <1>1, <2>1, <3>2 DEF PublishManifest, IInv, TypeOK, Published
      <3> QED
        BY <1>1, <3>1, <3>2, ManifestSteps
    <2>2. HasStanding => standing' = standing
      BY <1>1, DecidingSteps
    <2> QED
      BY <2>1, <2>2
  <1> QED
    BY <1>1, Inductive, PTL DEF Spec, EvidenceIsFinal

\* A job is only ever submitted when the substrate can no longer report on any
\* earlier job of that try, no job runs, no cancellation was asked for and no
\* result stands.
THEOREM SubmissionsAreSafe == Spec => NoDuplicateSubmission
  <1>1. ASSUME IInv, [Next]_vars
        PROVE  [ accepted' # accepted =>
                   /\ \A r \in Run : farm[r].try = current => ~farm[r].listed
                   /\ \A r \in Run : farm[r].state # "live"
                   /\ ~tries[current].cancelled
                   /\ ~HasStanding ]_vars
    <2>1. ASSUME NEW c \in Caller, SubmitAccepted(c)
          PROVE  /\ \A r \in Run : farm[r].try = current => ~farm[r].listed
                 /\ \A r \in Run : farm[r].state # "live"
                 /\ ~tries[current].cancelled
                 /\ ~HasStanding
      <3>1. /\ Listed(current) = {} /\ ~tries[current].cancelled /\ ~HasStanding
        BY <1>1, <2>1, SubmittingFacts DEF SubmitAccepted, At
      <3>2. \A r \in Run : farm[r].state # "live"
        BY <1>1, <3>1 DEF IInv, FarmInv, LiveJobIsRecorded, Listed
      <3> QED
        BY <3>1, <3>2 DEF Listed
    <2> QED
      BY <1>1, <2>1, AcceptingSteps
  <1> QED
    BY <1>1, Inductive, PTL DEF Spec, NoDuplicateSubmission

\* A success is never published for a try whose cancellation was recorded.
THEOREM CancelledIsNotSuccess == Spec => CancellationIsNotNormalised
  <1>1. ASSUME IInv, [Next]_vars
        PROVE  [ \A n \in Try : ~Published(n) /\ manifest'[n] = "succeeded"
                                   => ~tries[n].cancelled ]_record
    <2>1. ASSUME NEW n \in Try, ~Published(n), manifest'[n] = "succeeded"
          PROVE  ~tries[n].cancelled
      <3>1. PICK c \in Caller : PublishManifest(c)
        BY <1>1, <2>1, ManifestSteps DEF Published
      <3>2. n = current /\ verdict[c] = "succeeded"
        BY <1>1, <2>1, <3>1 DEF PublishManifest, IInv, TypeOK, Published
      <3> QED
        BY <1>1, <3>1, <3>2 DEF PublishManifest, At, IInv, StepInv, Established
    <2> QED
      BY <2>1
  <1> QED
    BY <1>1, Inductive, PTL DEF Spec, CancellationIsNotNormalised

-----------------------------------------------------------------------------
(* The record implements the promise of a computation.                     *)

Live == \E r \in Run : farm[r].state = "live"

\* Outside a submission the substrate never starts anything.
LEMMA OnlySubmissionStarts ==
  ASSUME IInv, [Next]_vars, \A c \in Caller : ~SubmitAccepted(c)
  PROVE  Live' => Live
  <1>1. CASE UNCHANGED farm
    BY <1>1 DEF Live
  <1>2. ASSUME NEW c \in Caller, Crash(c) \/ SubmitIndeterminate(c) PROVE Live' => Live
    BY <1>2, ClientGoneFacts DEF Crash, SubmitIndeterminate, Live
  <1>3. ASSUME NEW c \in Caller, CancelJob(c) PROVE Live' => Live
    <2>1. CASE UNCHANGED farm
      BY <2>1 DEF Live
    <2>2. CASE \E r \in Run : Kill(r)
      <3>1. PICK r \in Run : Kill(r)
        BY <2>2
      <3> QED
        BY <3>1, KillFacts DEF Live, IInv, TypeOK
    <2> QED
      BY <1>3, <2>1, <2>2 DEF CancelJob, Listed
  <1>4. ASSUME NEW r \in Run, JobEnds(r) \/ JobForgotten(r) PROVE Live' => Live
    BY <1>4, JobFacts DEF Live
  <1> QED
    BY <1>1, <1>2, <1>3, <1>4, FarmSteps

\* Every step of the record is a step of the promise, or changes nothing that
\* it speaks about.
LEMMA StepsKeepThePromise ==
  ASSUME IInv, [Next]_vars
  PROVE  [Promise!Next]_<<Live, standing.outcome>>
  <1>0. ~HasStanding => standing.outcome = "none"
    BY DEF IInv, StandingInv, NoStanding
  <1>1. CASE \E c \in Caller : SubmitAccepted(c)
    <2>1. PICK c \in Caller : SubmitAccepted(c)
      BY <1>1
    <2>2. Listed(current) = {} /\ ~HasStanding
      BY <2>1, SubmittingFacts DEF SubmitAccepted, At
    <2>3. ~Live
      BY <2>2 DEF IInv, FarmInv, LiveJobIsRecorded, Listed, Live
    <2>4. farm'[accepted + 1].state = "live" /\ accepted + 1 \in Run
      BY <2>1 DEF SubmitAccepted, IInv, TypeOK
    <2>5. Live' = TRUE /\ UNCHANGED standing
      BY <2>1, <2>4 DEF SubmitAccepted, record, Live
    <2> QED
      BY <1>0, <2>2, <2>3, <2>5 DEF Promise!Next, Promise!Execute, Live
  <1>2. CASE standing' # standing
    <2>1. /\ ~HasStanding /\ HasCurrent /\ Published(current) /\ Stand(current)
          /\ UNCHANGED farm
      BY <1>2, DecidingSteps
    <2>2. ~Live /\ Live' = Live
      BY <2>1, CurrentFacts DEF Live
    <2>3. standing'.outcome \in Outcome
      BY <2>1, CurrentFacts DEF Stand, Published
    <2> QED
      BY <1>0, <2>1, <2>2, <2>3 DEF Promise!Next, Promise!Stand, Live
  <1>3. CASE UNCHANGED standing /\ \A c \in Caller : ~SubmitAccepted(c)
    <2>1. Live' => Live
      BY <1>3, OnlySubmissionStarts
    <2>2. CASE Live /\ ~Live'
      BY <1>3, <2>2 DEF Promise!Next, Promise!End, Live
    <2>3. CASE Live' = Live
      BY <1>3, <2>3
    <2> QED
      BY <2>1, <2>2, <2>3 DEF Live
  <1> QED
    BY <1>1, <1>2, <1>3

\* A durable record keeps the promise of its computation: one execution at a
\* time, one decision, nothing executed after it.
THEOREM RecordKeepsItsPromise == Spec => ImplementsComputation
  <1>1. Init => Promise!Init
    BY DEF Init, Promise!Init, NoJob, NoStanding
  <1>2. IInv /\ [Next]_vars => [Promise!Next]_<<Live, standing.outcome>>
    BY StepsKeepThePromise
  <1> QED
    BY <1>1, <1>2, Inductive, PTL DEF Spec, ImplementsComputation, Promise!Spec, Live
=============================================================================
