------------------------------ MODULE RunHistory ------------------------------
(***************************************************************************)
(* hedloom.history and hedloom.discovery: the saved histories of one       *)
(* submission name.  Writers (HistoryWriter, one per submission, in any    *)
(* process) take an occurrence number each and publish its files; workers  *)
(* publish what an execution selected (ExecutionHandle); a reader          *)
(* (RunHistory) reads the files one after another while they change.  A    *)
(* step is one durable write, or one file read.                            *)
(***************************************************************************)
EXTENDS Integers, Sequences, SequencesExt

CONSTANTS
    Writer,         \* submissions under the name
    Inv,            \* the invocations of the Plan
    MaxNumber,      \* bound: occurrence numbers
    Foreign,        \* directories that were there before any reservation
    FailingAppends, \* the events whose append may fail
    Questions       \* what is asked: "read_run", "reproducibility"

ASSUME NumberAssumption == MaxNumber \in Nat \ {0} /\ Foreign \subseteq 1 .. MaxNumber
ASSUME QuestionAssumption == Questions \subseteq {"read_run", "reproducibility"}

Number == 1 .. MaxNumber
NoRun == 0
NoInv == "no invocation"

VARIABLES
    reserved, \* _meta/allocations/<name>/<number>
    files,    \* files[n]: what <name>.<n>/ holds, beside its events
    log,      \* log[n]: the lines of events.jsonl
    dispatch, \* dispatch[n][i]: the execution run n started for i
    writer,
    reader

disk == <<reserved, files, log>>
hvars == <<disk, dispatch, writer, reader>>

NoFiles == [made |-> FALSE, header |-> FALSE, evidence |-> FALSE, persistence |-> FALSE,
            link |-> [i \in Inv |-> NoRun]]
NotStarted == [at |-> "none", chosen |-> FALSE, selection |-> FALSE, workspace |-> FALSE]
\* slipped is history: the append of its run_prepared failed.
Unwritten == [at |-> "idle", number |-> 1, seq |-> 0, stuck |-> FALSE, failed |-> FALSE,
              outcome |-> [i \in Inv |-> "none"], slipped |-> FALSE]
\* A submission that left before it had a run is "gone".
HasRun(w) == writer[w].at \notin {"idle", "reserve", "locate", "gone"}
Left(w) == [Unwritten EXCEPT !.at = IF HasRun(w) THEN "over" ELSE "gone",
                             !.number = writer[w].number, !.slipped = writer[w].slipped]
Silent == [i \in Inv |-> "none"]
Resting == [at |-> "idle", run |-> NoRun, question |-> "none", notes |-> Silent, status |-> "incomplete",
            todo |-> {}, inv |-> NoInv, seen |-> FALSE, answer |-> "none"]

HInit ==
    /\ reserved = {}
    /\ files = [n \in Number |-> [NoFiles EXCEPT !.made = n \in Foreign]]
    /\ log = [n \in Number |-> <<>>]
    /\ dispatch = [n \in Number |-> [i \in Inv |-> NotStarted]]
    /\ writer = [w \in Writer |-> Unwritten]
    /\ reader = Resting

-----------------------------------------------------------------------------
(* The event log.                                                          *)

Line(kind, of, seq, note) == [kind |-> kind, of |-> of, seq |-> seq, note |-> note]
Torn == Line("torn", NoInv, 0, "none")
Garbled == Line("garbled", NoInv, 0, "none")
EndsTorn(lines) == lines # <<>> /\ Last(lines) = Torn
Whole(lines) == IF EndsTorn(lines) THEN Front(lines) ELSE lines

\* A line that follows a torn one is glued to it.
Extended(lines, line) ==
    IF EndsTorn(lines) THEN Append(Front(lines), IF line = Torn THEN Torn ELSE Garbled)
    ELSE Append(lines, line)

\* read_events: every whole line parses and bears its position.
Readable(lines) ==
    \A k \in DOMAIN Whole(lines) : lines[k] # Garbled /\ lines[k].seq = k

\* Write, flush and fsync: what is left when one of them raises.
Remains(lines, line) == {lines, Extended(lines, Torn), Extended(lines, line)}

-----------------------------------------------------------------------------
(* HistoryWriter.                                                          *)

At(w, step) == writer[w].at = step
Run(w) == writer[w].number
Goto(w, step) == writer' = [writer EXCEPT ![w].at = step]
Publishes(n, f) == files' = [files EXCEPT ![n] = f]

\* A submission begins; numbers are tried in order, each by an exclusive mkdir.
Reserves(w) ==
    /\ writer[w].at \in {"idle", "reserve"} /\ Run(w) \in Number
    /\ IF Run(w) \in reserved
       THEN /\ writer' = [writer EXCEPT ![w].at = "reserve", ![w].number = @ + 1]
            /\ UNCHANGED reserved
       ELSE reserved' = reserved \cup {Run(w)} /\ Goto(w, "locate")
    /\ UNCHANGED <<files, log, dispatch, reader>>

\* Mutant: the run's own directory is taken to guard the number from now on.
LocatesMutant(w) ==
    /\ At(w, "locate")
    /\ reserved' = reserved \ {Run(w)}
    /\ IF files[Run(w)].made
       THEN /\ writer' = [writer EXCEPT ![w].at = "reserve", ![w].number = @ + 1]
            /\ UNCHANGED files
       ELSE Publishes(Run(w), [NoFiles EXCEPT !.made = TRUE]) /\ Goto(w, "initial")
    /\ UNCHANGED <<log, dispatch, reader>>

\* The directory of the run; where one is already, the reservation is undone.
Locates(w) ==
    /\ At(w, "locate")
    /\ IF files[Run(w)].made
       THEN /\ reserved' = reserved \ {Run(w)}
            /\ writer' = [writer EXCEPT ![w].at = "reserve", ![w].number = @ + 1]
            /\ UNCHANGED files
       ELSE /\ Publishes(Run(w), [NoFiles EXCEPT !.made = TRUE]) /\ Goto(w, "initial")
            /\ UNCHANGED reserved
    /\ UNCHANGED <<log, dispatch, reader>>

\* Plan, addresses and the worker handshake; then run_started.
Starts(w) ==
    /\ At(w, "initial")
    /\ log' = [log EXCEPT ![Run(w)] = <<Line("run_started", NoInv, 1, "none")>>]
    /\ writer' = [writer EXCEPT ![w].at = "header", ![w].seq = 1]
    /\ UNCHANGED <<reserved, files, dispatch, reader>>

\* run.json last: from here on there is a run.
Heads(w) ==
    /\ At(w, "header")
    /\ Publishes(Run(w), [files[Run(w)] EXCEPT !.header = TRUE])
    /\ Goto(w, "evidence")
    /\ UNCHANGED <<reserved, log, dispatch, reader>>

\* prepared: the evidence is published before the event that says so.
PublishesEvidence(w) ==
    /\ At(w, "evidence")
    /\ Publishes(Run(w), [files[Run(w)] EXCEPT !.evidence = TRUE])
    /\ Goto(w, "prepared")
    /\ UNCHANGED <<reserved, log, dispatch, reader>>

Entry(w, kind, of, note) == Line(kind, of, writer[w].seq + 1, note)

AppendsPrepared(w) ==
    /\ At(w, "prepared")
    /\ LET line == Entry(w, "run_prepared", NoInv, "none") IN
       \/ /\ log' = [log EXCEPT ![Run(w)] = Extended(@, line)]
          /\ writer' = [writer EXCEPT ![w].at = "running", ![w].seq = @ + 1]
       \/ /\ "run_prepared" \in FailingAppends
          /\ \E rest \in Remains(log[Run(w)], line) : log' = [log EXCEPT ![Run(w)] = rest]
          /\ writer' = [writer EXCEPT ![w].at = "finish", ![w].slipped = TRUE]
    /\ UNCHANGED <<reserved, files, dispatch, reader>>

\* Stopped, or its preparation failed, bindings.json last: nothing will be
\* executed.
Finishing(w) ==
    /\ writer[w].at \in {"evidence", "prepared"}
    /\ Goto(w, "finish")
    /\ UNCHANGED <<disk, dispatch, reader>>

\* bind_execution, before there is any authority to dispatch: an execution of
\* this run's own, or one another run started and that has not settled.
Binds(w, i) ==
    /\ At(w, "running") /\ files[Run(w)].link[i] = NoRun /\ writer[w].outcome[i] = "none"
    /\ \E m \in Number :
          /\ Publishes(Run(w), [files[Run(w)] EXCEPT !.link[i] = m])
          /\ IF m = Run(w) THEN dispatch' = [dispatch EXCEPT ![m][i].at = "ready"]
             ELSE dispatch[m][i].at \in {"ready", "entered"} /\ UNCHANGED dispatch
    /\ UNCHANGED <<reserved, log, writer, reader>>

\* append: after one failure nothing more is written to the log.
Tries(w, line) ==
    IF writer[w].stuck THEN {[lines |-> log[Run(w)], failed |-> FALSE]}
    ELSE {[lines |-> Extended(log[Run(w)], line), failed |-> FALSE]} \cup
         (IF line.kind \in FailingAppends
          THEN {[lines |-> rest, failed |-> TRUE] : rest \in Remains(log[Run(w)], line)} ELSE {})

\* degrade: persistence.json is tried whenever there is something new to say.
Degrades(w, news) ==
    IF news THEN \E told \in BOOLEAN :
                    Publishes(Run(w), [files[Run(w)] EXCEPT !.persistence = @ \/ told])
    ELSE UNCHANGED files

\* Mutant: a reference that was never published live is not degraded.
DegradingMutant(note) == FALSE

Degrading(note) == note = "late"

Execution(n, i) == dispatch[files[n].link[i]][i]

\* The task's result names a try only when Exec chose one: not for what was
\* blocked, refused before that, or never executed.
NamesTry(w, i) ==
    /\ At(w, "running") /\ files[Run(w)].link[i] # NoRun
    /\ Execution(Run(w), i).at = "settled" /\ Execution(Run(w), i).chosen

\* Where the outcome's reference comes from: there is none, it was published
\* while the execution ran, or it is recovered from the result.
Notes(w, i) ==
    {"bare"} \cup
    (IF NamesTry(w, i) THEN {IF Execution(Run(w), i).selection THEN "live" ELSE "late"} ELSE {})

\* observe: while running, and in finish for what was not reported.
Observes(w, i) ==
    /\ writer[w].at \in {"running", "finish"} /\ writer[w].outcome[i] = "none"
    /\ \E note \in Notes(w, i) :
          \E t \in Tries(w, Entry(w, "invocation_outcome", i, note)) :
             LET news == t.failed \/ Degrading(note) IN
             /\ log' = [log EXCEPT ![Run(w)] = t.lines]
             /\ writer' = [writer EXCEPT ![w].outcome[i] = note, ![w].seq = @ + 1,
                                         ![w].stuck = @ \/ t.failed, ![w].failed = @ \/ news]
             /\ Degrades(w, news)
    /\ UNCHANGED <<reserved, dispatch, reader>>

Accounted(w) == \A i \in Inv : writer[w].outcome[i] # "none"

\* finish: the final event, with the state of the history so far.
Finishes(w) ==
    /\ writer[w].at \in {"running", "finish"} /\ Accounted(w)
    /\ \E t \in Tries(w, Entry(w, "run_finished", NoInv,
                             IF writer[w].failed THEN "degraded" ELSE "complete")) :
          log' = [log EXCEPT ![Run(w)] = t.lines] /\ Degrades(w, t.failed)
    /\ writer' = [writer EXCEPT ![w] = Left(w)]
    /\ UNCHANGED <<reserved, dispatch, reader>>

Over == {"idle", "over", "gone"}

\* The process dies, between two writes or within an append.
Dies(w) ==
    /\ writer[w].at \notin Over
    /\ writer' = [writer EXCEPT ![w] = Left(w)]
    /\ \/ UNCHANGED log
       \/ /\ writer[w].at \in {"prepared", "running", "finish"} /\ ~writer[w].stuck
          /\ log' = [log EXCEPT ![Run(w)] = Extended(@, Torn)]
    /\ UNCHANGED <<reserved, files, dispatch, reader>>

Writes(w) ==
    \/ Reserves(w) \/ Locates(w) \/ Starts(w) \/ Heads(w) \/ PublishesEvidence(w)
    \/ AppendsPrepared(w) \/ Finishing(w) \/ Finishes(w) \/ Dies(w)
    \/ \E i \in Inv : Binds(w, i) \/ Observes(w, i)

\* Somebody removes what a run that is over has left; reservations stay.
Deletes(n) ==
    /\ files[n].made /\ reader.run # n
    /\ \A w \in Writer : Run(w) = n /\ HasRun(w) => writer[w].at = "over"
    /\ Publishes(n, NoFiles) /\ log' = [log EXCEPT ![n] = <<>>]
    /\ UNCHANGED <<reserved, dispatch, writer, reader>>

-----------------------------------------------------------------------------
(* The worker of an execution.                                             *)

Works(n, i, e) ==
    /\ dispatch' = [dispatch EXCEPT ![n][i] = e]
    /\ UNCHANGED <<disk, writer, reader>>

Enters(n, i) ==
    dispatch[n][i].at = "ready" /\ Works(n, i, [dispatch[n][i] EXCEPT !.at = "entered"])

\* Exec has chosen a try; its publication may fail, which is only observed.
Chooses(n, i) ==
    /\ dispatch[n][i].at = "entered" /\ ~dispatch[n][i].chosen
    /\ \E told \in BOOLEAN :
          Works(n, i, [dispatch[n][i] EXCEPT !.chosen = TRUE, !.selection = told])

\* publish_selection with a known workspace: selection.json always first.
PublishesWorkspace(n, i) ==
    /\ dispatch[n][i].at = "entered" /\ dispatch[n][i].chosen /\ ~dispatch[n][i].workspace
    /\ Works(n, i, IF dispatch[n][i].selection THEN [dispatch[n][i] EXCEPT !.workspace = TRUE]
                   ELSE [dispatch[n][i] EXCEPT !.selection = TRUE])

\* Finished, or cancelled before it was entered.
SettlesExecution(n, i) ==
    /\ dispatch[n][i].at \in {"ready", "entered"}
    /\ Works(n, i, [dispatch[n][i] EXCEPT !.at = "settled"])

-----------------------------------------------------------------------------
(* RunHistory, the reader.                                                 *)

Reads(step, r) ==
    /\ reader.at = step /\ reader' = r
    /\ UNCHANGED <<disk, dispatch, writer>>

\* "refused" is HistoryError, whatever it says.
Answers(r, answer) == [r EXCEPT !.at = "answer", !.answer = answer]

\* Any run that list_runs finds: its run.json is there.
Asks(n, question) ==
    /\ files[n].header
    /\ Reads("idle", [Resting EXCEPT !.run = n, !.question = question,
                         !.at = IF question = "read_run" THEN "events" ELSE "captured"])

Outcomes(lines, i) ==
    {lines[k] : k \in {k \in DOMAIN lines : lines[k].kind = "invocation_outcome" /\ lines[k].of = i}}
Final(lines) == {line \in ToSet(lines) : line.kind = "run_finished"}

\* The fold over the events: what they say of each invocation, and at the end.
Told(lines) ==
    [i \in Inv |-> IF Outcomes(lines, i) = {} THEN "none"
                   ELSE (CHOOSE line \in Outcomes(lines, i) : TRUE).note]
Concluded(lines) ==
    IF Final(lines) = {} THEN "incomplete"
    ELSE IF EndsTorn(lines) \/ \E f \in Final(lines) : f.note = "degraded" THEN "degraded"
    ELSE "complete"

\* read_events and its fold; a final event accounts for every invocation.
ReadsEvents ==
    LET lines == log[reader.run]
        notes == Told(Whole(lines))
    IN Reads("events",
          IF ~Readable(lines) \/ (Final(lines) # {} /\ \E i \in Inv : notes[i] = "none")
          THEN Answers(reader, "refused")
          ELSE [reader EXCEPT !.notes = notes, !.status = Concluded(lines), !.at = "persistence"])

ReadsPersistence ==
    Reads("persistence",
        [reader EXCEPT !.at = "rows", !.todo = Inv,
             !.status = IF @ = "complete" /\ files[reader.run].persistence THEN "degraded" ELSE @])

\* selection_documents of one invocation: the link, the selection ...
ReadsSelection(i) ==
    /\ i \in reader.todo
    /\ Reads("rows",
          IF files[reader.run].link[i] = NoRun THEN [reader EXCEPT !.todo = @ \ {i}]
          ELSE [reader EXCEPT !.at = "workspace", !.inv = i,
                              !.seen = Execution(reader.run, i).selection])

\* Mutant: the selection is not read again behind a workspace.
SelectedMutant(i) == reader.seen

\* ... and again, when there is a workspace that it did not belong to yet.
Selected(i) ==
    reader.seen \/ (Execution(reader.run, i).workspace /\ Execution(reader.run, i).selection)

Reported(i) == reader.notes[i] \in {"live", "late"}

\* A workspace without any reference is a conflict.
ReadsWorkspace ==
    LET i == reader.inv
    IN Reads("workspace",
          IF Execution(reader.run, i).workspace /\ ~Selected(i) /\ ~Reported(i)
          THEN Answers(reader, "refused")
          ELSE [reader EXCEPT !.at = "rows", !.todo = @ \ {i}, !.inv = NoInv, !.seen = FALSE])

Concludes == reader.todo = {} /\ Reads("rows", Answers(reader, reader.status))

\* reproducibility: the file, or else what the events say of its absence.
LooksForEvidence ==
    Reads("captured", IF files[reader.run].evidence THEN Answers(reader, "captured")
                      ELSE [reader EXCEPT !.at = "excuse"])

ReadsExcuse ==
    LET lines == log[reader.run]
    IN Reads("excuse",
          Answers(reader,
              IF ~Readable(lines) \/ \E line \in ToSet(lines) : line.kind = "run_prepared"
              THEN "refused"
              ELSE IF Final(lines) = {} THEN "pending" ELSE "unavailable"))

Rests == Reads("answer", Resting)

Reader ==
    \/ \E n \in Number : \E q \in Questions : Asks(n, q)
    \/ ReadsEvents \/ ReadsPersistence \/ ReadsWorkspace \/ Concludes
    \/ \E i \in Inv : ReadsSelection(i)
    \/ LooksForEvidence \/ ReadsExcuse \/ Rests

HNext ==
    \/ \E w \in Writer : Writes(w)
    \/ \E n \in Number : Deletes(n)
    \/ \E n \in Number, i \in Inv :
          Enters(n, i) \/ Chooses(n, i) \/ PublishesWorkspace(n, i) \/ SettlesExecution(n, i)
    \/ Reader

HSpec == HInit /\ [][HNext]_hvars

-----------------------------------------------------------------------------
(* Properties.                                                             *)

HTypeOK ==
    /\ reserved \subseteq Number
    /\ files \in [Number -> [made: BOOLEAN, header: BOOLEAN, evidence: BOOLEAN,
                             persistence: BOOLEAN, link: [Inv -> Number \cup {NoRun}]]]
    /\ dispatch \in [Number -> [Inv ->
          [at: {"none", "ready", "entered", "settled"}, chosen: BOOLEAN,
           selection: BOOLEAN, workspace: BOOLEAN]]]

\* docs/guide/discovery.md:98 and 111: a torn append exposes what precedes it,
\* and a writer whose append failed writes no more, so what a writer left never
\* refuses to be read.
HistoryStaysReadable == reader.answer # "refused"

\* The append of run n's run_prepared failed.
Slipped(n) == \E w \in Writer : HasRun(w) /\ Run(w) = n /\ writer[w].slipped

\* Whatever dies, is torn, shared, removed or still being written while a history
\* is read file by file, a refusal to read it has one of two reasons: its
\* run_prepared could not be appended, which the log's own guard does not
\* notice, or the evidence was published between the look for it and the look
\* for what excuses it.
RefusalsAreExplained ==
    reader.answer = "refused" =>
        \/ Slipped(reader.run)
        \/ /\ reader.question = "reproducibility"
           /\ files[reader.run].evidence /\ Readable(log[reader.run])

\* "complete" is said only of a history in which every invocation is accounted
\* for, and each reference was published while the execution still ran.
CompleteIsWhole ==
    reader.answer = "complete" =>
        \A i \in Inv :
            /\ reader.notes[i] \in {"bare", "live"}
            /\ reader.notes[i] = "live" => Execution(reader.run, i).selection

\* docs/guide/discovery.md:31: a number is never given twice, although run
\* directories are removed and writers of all processes compete for it.
OccurrencesAreNeverReused ==
    \A v, w \in Writer : v # w /\ HasRun(v) /\ HasRun(w) => Run(v) # Run(w)
=============================================================================
