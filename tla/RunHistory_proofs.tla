-------------------------- MODULE RunHistory_proofs --------------------------
(***************************************************************************)
(* Saved histories, for any number of submissions, invocations and         *)
(* directories that were there before, whatever is deleted, dies or fails. *)
(* First the occurrence numbers (GivenInv); then what is said of a run and *)
(* where it points (StoryInv), when there is evidence (EvidenceInv), the   *)
(* positions of the lines where run_prepared was appended (ReadableInv),   *)
(* and why a reader refuses (Explained).                                   *)
(***************************************************************************)
EXTENDS RunHistory, SequenceTheorems, TLAPS

WriterStep == {"idle", "reserve", "locate", "initial", "header", "evidence", "prepared",
               "running", "finish", "over", "gone"}
Note == {"none", "bare", "live", "late"}
WriterState == [at: WriterStep, number: Nat, seq: Nat, stuck: BOOLEAN, failed: BOOLEAN,
                outcome: [Inv -> Note], slipped: BOOLEAN]
Writers == [Writer -> WriterState]

WriterTypeOK == writer \in Writers

\* Who has been given a number, with or without a directory yet.
HasNumber(w) == writer[w].at = "locate" \/ HasRun(w)

\* A number that was given is reserved, and was given to one writer only: the
\* reservation, not the run's directory, is what keeps the next one off.
NumberInv ==
    /\ \A w \in Writer : HasNumber(w) => Run(w) \in reserved
    /\ \A v, w \in Writer : v # w /\ HasNumber(v) /\ HasNumber(w) => Run(v) # Run(w)

GivenInv == WriterTypeOK /\ NumberInv

-----------------------------------------------------------------------------

\* What setting one field of one writer does.
SameOthers(f, g, w) == \A v \in Writer : v # w => g[v] = f[v]
SameNumber(f, g, w) == g[w].number = f[w].number /\ SameOthers(f, g, w)

LEMMA StepSet ==
  ASSUME NEW f \in Writers, NEW w \in Writer, NEW a \in WriterStep
  PROVE  LET g == [f EXCEPT ![w].at = a]
         IN  g \in Writers /\ g[w].at = a /\ SameNumber(f, g, w)
  <1>1. f[w] \in WriterState
    BY DEF Writers
  <1>2. [f[w] EXCEPT !.at = a] \in WriterState
    BY <1>1 DEF WriterState
  <1> QED
    BY <1>1, <1>2 DEF Writers, SameNumber, SameOthers, WriterState

LEMMA NumberSet ==
  ASSUME NEW f \in Writers, NEW w \in Writer, NEW n \in Nat
  PROVE  LET g == [f EXCEPT ![w].number = n]
         IN  g \in Writers /\ g[w].at = f[w].at /\ SameOthers(f, g, w)
  <1>1. f[w] \in WriterState
    BY DEF Writers
  <1>2. [f[w] EXCEPT !.number = n] \in WriterState
    BY <1>1 DEF WriterState
  <1> QED
    BY <1>1, <1>2 DEF Writers, WriterState, SameOthers

LEMMA SeqSet ==
  ASSUME NEW f \in Writers, NEW w \in Writer, NEW n \in Nat
  PROVE  LET g == [f EXCEPT ![w].seq = n]
         IN  g \in Writers /\ g[w].at = f[w].at /\ SameNumber(f, g, w)
  <1>1. f[w] \in WriterState
    BY DEF Writers
  <1>2. [f[w] EXCEPT !.seq = n] \in WriterState
    BY <1>1 DEF WriterState
  <1> QED
    BY <1>1, <1>2 DEF Writers, SameNumber, SameOthers, WriterState

LEMMA StuckSet ==
  ASSUME NEW f \in Writers, NEW w \in Writer, NEW b
  PROVE  LET g == [f EXCEPT ![w].stuck = @ \/ b]
         IN  g \in Writers /\ g[w].at = f[w].at /\ SameNumber(f, g, w)
  <1>1. f[w] \in WriterState /\ (f[w].stuck \/ b) \in BOOLEAN
    BY DEF Writers
  <1>2. [f[w] EXCEPT !.stuck = f[w].stuck \/ b] \in WriterState
    BY <1>1 DEF WriterState
  <1> QED
    BY <1>1, <1>2 DEF Writers, SameNumber, SameOthers, WriterState

LEMMA FailedSet ==
  ASSUME NEW f \in Writers, NEW w \in Writer, NEW b
  PROVE  LET g == [f EXCEPT ![w].failed = @ \/ b]
         IN  g \in Writers /\ g[w].at = f[w].at /\ SameNumber(f, g, w)
  <1>1. f[w] \in WriterState /\ (f[w].failed \/ b) \in BOOLEAN
    BY DEF Writers
  <1>2. [f[w] EXCEPT !.failed = f[w].failed \/ b] \in WriterState
    BY <1>1 DEF WriterState
  <1> QED
    BY <1>1, <1>2 DEF Writers, SameNumber, SameOthers, WriterState

LEMMA SlippedSet ==
  ASSUME NEW f \in Writers, NEW w \in Writer
  PROVE  LET g == [f EXCEPT ![w].slipped = TRUE]
         IN  g \in Writers /\ g[w].at = f[w].at /\ SameNumber(f, g, w)
  <1>1. f[w] \in WriterState
    BY DEF Writers
  <1>2. [f[w] EXCEPT !.slipped = TRUE] \in WriterState
    BY <1>1 DEF WriterState
  <1> QED
    BY <1>1, <1>2 DEF Writers, SameNumber, SameOthers, WriterState

LEMMA OutcomeSet ==
  ASSUME NEW f \in Writers, NEW w \in Writer, NEW i \in Inv, NEW o \in Note
  PROVE  LET g == [f EXCEPT ![w].outcome[i] = o]
         IN  g \in Writers /\ g[w].at = f[w].at /\ SameNumber(f, g, w)
  <1>1. f[w] \in WriterState /\ [f[w].outcome EXCEPT ![i] = o] \in [Inv -> Note]
    BY DEF Writers, WriterState
  <1>2. [f[w] EXCEPT !.outcome = [f[w].outcome EXCEPT ![i] = o]] \in WriterState
    BY <1>1 DEF WriterState
  <1> QED
    BY <1>1, <1>2 DEF Writers, SameNumber, SameOthers, WriterState

\* A step that moves one writer on, with the number it has, and that gives no
\* number and takes none back.
LEMMA KeepsItsNumber ==
  ASSUME GivenInv, NEW w \in Writer, UNCHANGED reserved,
         writer' \in Writers, SameNumber(writer, writer', w), HasNumber(w)' => HasNumber(w)
  PROVE  GivenInv'
  <1>1. \A v \in Writer : Run(v)' = Run(v) /\ (HasNumber(v)' => HasNumber(v))
    BY DEF Run, HasNumber, HasRun, SameNumber, SameOthers
  <1> QED
    BY <1>1 DEF GivenInv, WriterTypeOK, NumberInv

\* A writer without a number goes on to the next one; at most its own number is
\* free again.
LEMMA TriesNext ==
  ASSUME GivenInv, NEW w \in Writer, reserved \ {Run(w)} \subseteq reserved',
         ~HasNumber(w) => UNCHANGED reserved,
         writer' = [writer EXCEPT ![w].at = "reserve", ![w].number = @ + 1]
  PROVE  GivenInv'
  <1> DEFINE mid == [writer EXCEPT ![w].at = "reserve"]
  <1>1. mid \in Writers /\ mid[w].at = "reserve" /\ SameNumber(writer, mid, w)
    BY StepSet DEF WriterStep, GivenInv, WriterTypeOK
  <1> DEFINE n == writer[w].number + 1
  <1>2. writer' = [mid EXCEPT ![w].number = n] /\ n \in Nat
    BY DEF GivenInv, WriterTypeOK, Writers, WriterState
  <1> HIDE DEF mid, n
  <1>3. writer' \in Writers /\ writer'[w].at = mid[w].at /\ SameOthers(mid, writer', w)
    <2> DEFINE g == [mid EXCEPT ![w].number = n]
    <2>1. g \in Writers /\ g[w].at = mid[w].at /\ SameOthers(mid, g, w)
      BY <1>1, <1>2, NumberSet
    <2>2. writer' = g
      BY <1>2
    <2> HIDE DEF g
    <2> QED
      BY <2>1, <2>2
  <1>4. /\ ~HasNumber(w)'
        /\ \A v \in Writer : v # w => Run(v)' = Run(v) /\ (HasNumber(v)' <=> HasNumber(v))
    BY <1>1, <1>3 DEF HasNumber, HasRun, Run, SameNumber, SameOthers
  <1>5. ASSUME NEW v \in Writer, v # w, HasNumber(v)
        PROVE  Run(v) \in reserved'
    <2>1. Run(v) \in reserved /\ (HasNumber(w) => Run(v) # Run(w))
      BY <1>5 DEF GivenInv, NumberInv
    <2> QED
      BY <2>1
  <1> QED
    BY <1>3, <1>4, <1>5 DEF GivenInv, WriterTypeOK, NumberInv

\* A number is taken by exclusive creation: nobody has it yet.
LEMMA ReservesPreserves ==
  ASSUME GivenInv, NEW w \in Writer, Reserves(w)
  PROVE  GivenInv'
  <1>1. CASE Run(w) \in reserved
    BY <1>1, TriesNext DEF Reserves
  <1>2. CASE Run(w) \notin reserved
    <2>1. writer' = [writer EXCEPT ![w].at = "locate"] /\ reserved' = reserved \cup {Run(w)}
      BY <1>2 DEF Reserves, Goto
    <2>2. writer' \in Writers /\ SameNumber(writer, writer', w)
      BY <2>1, StepSet DEF GivenInv, WriterTypeOK, WriterStep
    <2>3. /\ Run(w)' = Run(w)
          /\ \A v \in Writer : v # w => Run(v)' = Run(v) /\ (HasNumber(v)' <=> HasNumber(v))
      BY <2>2 DEF HasNumber, HasRun, Run, SameNumber, SameOthers
    <2>4. \A v \in Writer : v # w /\ HasNumber(v) => Run(v) # Run(w)
      BY <1>2 DEF GivenInv, NumberInv
    <2> QED
      BY <2>1, <2>2, <2>3, <2>4 DEF GivenInv, WriterTypeOK, NumberInv
  <1> QED
    BY <1>1, <1>2

LEMMA GoesOn ==
  ASSUME GivenInv, NEW w \in Writer, HasNumber(w), UNCHANGED reserved,
         NEW step \in WriterStep, Goto(w, step)
  PROVE  GivenInv'
  <1>1. writer' \in Writers /\ SameNumber(writer, writer', w)
    BY StepSet DEF GivenInv, WriterTypeOK, Goto
  <1> QED
    BY <1>1, KeepsItsNumber

\* Only the writer that reserved a number gives it back.
LEMMA LocatesPreserves ==
  ASSUME GivenInv, NEW w \in Writer, Locates(w)
  PROVE  GivenInv'
  <1>1. HasNumber(w)
    BY DEF Locates, At, HasNumber
  <1>2. CASE files[Run(w)].made
    BY <1>1, <1>2, TriesNext DEF Locates
  <1>3. CASE ~files[Run(w)].made
    BY <1>1, <1>3, GoesOn DEF Locates, WriterStep
  <1> QED
    BY <1>2, <1>3

\* What follows is done by a writer that has a run.
LEMMA StartsPreserves ==
  ASSUME GivenInv, NEW w \in Writer, Starts(w)
  PROVE  GivenInv'
  <1> DEFINE mid == [writer EXCEPT ![w].at = "header"]
  <1>1. mid \in Writers /\ SameNumber(writer, mid, w)
    BY StepSet DEF WriterStep, GivenInv, WriterTypeOK
  <1>2. writer' = [mid EXCEPT ![w].seq = 1] /\ HasNumber(w) /\ UNCHANGED reserved
    BY DEF Starts, At, HasNumber, HasRun
  <1> HIDE DEF mid
  <1>3. writer' \in Writers /\ SameNumber(mid, writer', w)
    BY <1>1, <1>2, SeqSet
  <1> QED
    BY <1>1, <1>2, <1>3, KeepsItsNumber DEF SameNumber, SameOthers

LEMMA AppendsPreparedPreserves ==
  ASSUME GivenInv, NEW w \in Writer, AppendsPrepared(w)
  PROVE  GivenInv'
  <1>1. HasNumber(w) /\ UNCHANGED reserved
    BY DEF AppendsPrepared, At, HasNumber, HasRun
  <1>2. CASE writer' = [writer EXCEPT ![w].at = "finish", ![w].slipped = TRUE]
    <2> DEFINE mid == [writer EXCEPT ![w].at = "finish"]
    <2>1. mid \in Writers /\ SameNumber(writer, mid, w)
      BY StepSet DEF WriterStep, GivenInv, WriterTypeOK
    <2>2. writer' = [mid EXCEPT ![w].slipped = TRUE]
      BY <1>2
    <2> HIDE DEF mid
    <2>3. writer' \in Writers /\ SameNumber(mid, writer', w)
      BY <2>1, <2>2, SlippedSet
    <2> QED
      BY <1>1, <2>1, <2>3, KeepsItsNumber DEF SameNumber, SameOthers
  <1>3. CASE writer' = [writer EXCEPT ![w].at = "running", ![w].seq = @ + 1]
    <2> DEFINE mid == [writer EXCEPT ![w].at = "running"]
    <2>1. mid \in Writers /\ SameNumber(writer, mid, w)
      BY StepSet DEF WriterStep, GivenInv, WriterTypeOK
    <2>2. mid[w].seq + 1 \in Nat
      BY <2>1 DEF Writers, WriterState
    <2>3. writer' = [mid EXCEPT ![w].seq = mid[w].seq + 1]
      BY <1>3
    <2> HIDE DEF mid
    <2>4. writer' \in Writers /\ SameNumber(mid, writer', w)
      BY <2>1, <2>2, <2>3, SeqSet
    <2> QED
      BY <1>1, <2>1, <2>4, KeepsItsNumber DEF SameNumber, SameOthers
  <1> QED
    BY <1>2, <1>3 DEF AppendsPrepared

LEMMA LeavingPreserves ==
  ASSUME GivenInv, NEW w \in Writer, Finishes(w) \/ Dies(w)
  PROVE  GivenInv'
  <1>1. writer' = [writer EXCEPT ![w] = Left(w)] /\ UNCHANGED reserved
    BY DEF Finishes, Dies
  <1>2. writer \in Writers /\ writer[w] \in WriterState
    BY DEF GivenInv, WriterTypeOK, Writers
  <1>3. /\ Left(w) \in WriterState /\ Left(w).number = writer[w].number
        /\ Left(w).at = "gone" \/ HasRun(w)
    BY <1>2 DEF Left, Unwritten, WriterState, WriterStep, Note
  <1>4. writer' \in Writers /\ SameNumber(writer, writer', w) /\ writer'[w] = Left(w)
    BY <1>1, <1>2, <1>3 DEF Writers, SameNumber, SameOthers
  <1> QED
    BY <1>1, <1>3, <1>4, KeepsItsNumber DEF HasNumber, HasRun

LEMMA ObservesPreserves ==
  ASSUME GivenInv, NEW w \in Writer, NEW i \in Inv, Observes(w, i)
  PROVE  GivenInv'
  <1>1. HasNumber(w) /\ UNCHANGED reserved
    BY DEF Observes, HasNumber, HasRun
  <1>2. PICK note \in Notes(w, i) :
          \E t \in Tries(w, Entry(w, "invocation_outcome", i, note)) :
             writer' = [writer EXCEPT ![w].outcome[i] = note, ![w].seq = @ + 1,
                                      ![w].stuck = @ \/ t.failed,
                                      ![w].failed = @ \/ (t.failed \/ Degrading(note))]
    BY DEF Observes
  <1>3. PICK t : writer' = [writer EXCEPT ![w].outcome[i] = note, ![w].seq = @ + 1,
                                      ![w].stuck = @ \/ t.failed,
                                      ![w].failed = @ \/ (t.failed \/ Degrading(note))]
    BY <1>2
  <1>4. note \in Note
    BY DEF Notes, Note
  <1> DEFINE one == [writer EXCEPT ![w].outcome[i] = note]
             two == [one EXCEPT ![w].seq = @ + 1]
             three == [two EXCEPT ![w].stuck = @ \/ t.failed]
  <1>5. one \in Writers /\ SameNumber(writer, one, w)
    BY <1>4, OutcomeSet DEF GivenInv, WriterTypeOK
  <1>6. two \in Writers /\ SameNumber(one, two, w)
    <2> HIDE DEF one
    <2>1. one[w].seq + 1 \in Nat
      BY <1>5 DEF Writers, WriterState
    <2> QED
      BY <1>5, <2>1, SeqSet
  <1>7. three \in Writers /\ SameNumber(two, three, w)
    <2> HIDE DEF two
    <2> QED
      BY <1>6, StuckSet
  <1>8. writer' \in Writers /\ SameNumber(three, writer', w)
    <2>1. writer' = [three EXCEPT ![w].failed = @ \/ (t.failed \/ Degrading(note))]
      BY <1>3, ZenonT(40)
    <2> HIDE DEF three
    <2> QED
      BY <1>7, <2>1, FailedSet
  <1> HIDE DEF one, two, three
  <1> QED
    BY <1>1, <1>5, <1>6, <1>7, <1>8, KeepsItsNumber DEF SameNumber, SameOthers

LEMMA WritesPreserves ==
  ASSUME GivenInv, NEW w \in Writer, Writes(w)
  PROVE  GivenInv'
  <1>1. CASE Heads(w) \/ PublishesEvidence(w) \/ Finishing(w)
    BY <1>1, GoesOn
    DEF Heads, PublishesEvidence, Finishing, At, HasNumber, HasRun, WriterStep, disk
  <1>2. ASSUME NEW i \in Inv, Binds(w, i)
        PROVE  GivenInv'
    BY <1>2 DEF Binds, GivenInv, WriterTypeOK, NumberInv, HasNumber, HasRun, Run
  <1> QED
    BY <1>1, <1>2, ReservesPreserves, LocatesPreserves, StartsPreserves,
       AppendsPreparedPreserves, LeavingPreserves, ObservesPreserves DEF Writes

LEMMA NextKeepsNumbers == GivenInv /\ [HNext]_hvars => GivenInv'
  <1> SUFFICES ASSUME GivenInv, [HNext]_hvars PROVE GivenInv'
    OBVIOUS
  <1>1. ASSUME UNCHANGED <<reserved, writer>> PROVE GivenInv'
    BY <1>1 DEF GivenInv, WriterTypeOK, NumberInv, HasNumber, HasRun, Run
  <1>3. ASSUME NEW n \in Number, Deletes(n) PROVE UNCHANGED <<reserved, writer>>
    BY <1>3 DEF Deletes
  <1>4. ASSUME NEW n \in Number, NEW i \in Inv,
               Enters(n, i) \/ Chooses(n, i) \/ PublishesWorkspace(n, i) \/ SettlesExecution(n, i)
        PROVE  UNCHANGED <<reserved, writer>>
    BY <1>4 DEF Enters, Chooses, PublishesWorkspace, SettlesExecution, Works, disk
  <1>5. ASSUME Reader PROVE UNCHANGED <<reserved, writer>>
    BY <1>5 DEF Reader, Asks, ReadsEvents, ReadsPersistence, ReadsWorkspace, Concludes,
                ReadsSelection, LooksForEvidence, ReadsExcuse, Rests, Reads, disk
  <1>6. ASSUME UNCHANGED hvars PROVE UNCHANGED <<reserved, writer>>
    BY <1>6 DEF hvars, disk
  <1> QED
    BY <1>1, <1>3, <1>4, <1>5, <1>6, WritesPreserves DEF HNext

\* Whatever was there before, whoever dies and whatever is deleted, and however
\* many submissions compete, no two runs of a name have the same number.
THEOREM NumbersAreUnique == HSpec => []OccurrencesAreNeverReused
  <1>1. HInit => GivenInv
    BY DEF HInit, GivenInv, WriterTypeOK, Writers, WriterState, WriterStep, Note, NumberInv,
           HasNumber, HasRun, Unwritten
  <1>2. GivenInv => OccurrencesAreNeverReused
    BY DEF GivenInv, NumberInv, HasNumber, OccurrencesAreNeverReused
  <1> QED
    BY <1>1, <1>2, NextKeepsNumbers, PTL DEF HSpec

-----------------------------------------------------------------------------
(* What a log says, and what a reader made of it.                          *)

Kind == {"run_started", "run_prepared", "invocation_outcome", "run_finished", "torn", "garbled"}
Status == {"incomplete", "degraded", "complete"}
Answer == Status \cup {"none", "refused", "captured", "pending", "unavailable"}
ReaderStep == {"idle", "events", "persistence", "rows", "workspace", "captured", "excuse", "answer"}

LineRecord == [kind: Kind, of: Inv \cup {NoInv}, seq: Nat, note: Note \cup {"degraded", "complete"}]
FileRecord == [made: BOOLEAN, header: BOOLEAN, evidence: BOOLEAN, persistence: BOOLEAN,
               link: [Inv -> Number \cup {NoRun}]]
DispatchRecord == [at: {"none", "ready", "entered", "settled"}, chosen: BOOLEAN,
                   selection: BOOLEAN, workspace: BOOLEAN]
ReaderRecord == [at: ReaderStep, run: Number \cup {NoRun}, question: Questions \cup {"none"},
                 notes: [Inv -> Note], status: Status,
                 todo: SUBSET Inv, inv: Inv \cup {NoInv}, seen: BOOLEAN, answer: Answer]

DiskTypeOK ==
    /\ files \in [Number -> FileRecord]
    /\ log \in [Number -> Seq(LineRecord)]
    /\ dispatch \in [Number -> [Inv -> DispatchRecord]]

ReaderTypeOK == reader \in ReaderRecord

\* A submission that may still write, and one whose log has begun.
Live(w) == HasRun(w) /\ writer[w].at # "over"
Writing(w) == Live(w) /\ writer[w].at # "initial"

IsOutcome(line) == line.kind = "invocation_outcome"
IsFinal(line) == line.kind = "run_finished"

\* Run n is linked to an execution whose selection is published.
Linked(n, i) == files[n].link[i] \in Number /\ dispatch[files[n].link[i]][i].selection

\* A reference is said to have been published live only when it can be found,
\* and a history that says it is complete has no reference that came late.
WholeStory(n) ==
    /\ files[n].header => files[n].made
    /\ ~files[n].made => log[n] = <<>>
    /\ \A line \in ToSet(log[n]) :
          /\ IsOutcome(line) => line.note \in {"bare", "live", "late"}
          /\ IsFinal(line) => line.note \in {"degraded", "complete"}
          /\ IsOutcome(line) /\ line.note = "live" => line.of \in Inv /\ Linked(n, line.of)
          /\ IsFinal(line) /\ line.note = "complete" =>
                \A other \in ToSet(log[n]) : IsOutcome(other) => other.note # "late"

\* Only what Exec chose is published.
Chosen == \A n \in Number, i \in Inv : dispatch[n][i].selection => dispatch[n][i].chosen

\* Its writer has not concluded it, and knows what came late.
Written(w) ==
    /\ HasNumber(w) => Run(w) \in Number
    /\ Live(w) => files[Run(w)].made
    /\ Writing(w) => \A line \in ToSet(log[Run(w)]) :
          ~IsFinal(line) /\ (IsOutcome(line) /\ line.note = "late" => writer[w].failed)

WholeNotes ==
    \A i \in Inv : /\ reader.notes[i] \in {"bare", "live"}
                   /\ reader.notes[i] = "live" => Linked(reader.run, i)

\* What was read stays so: a run that is being read is not removed.
Attended ==
    /\ reader.at # "idle" => reader.run \in Number /\ files[reader.run].made
    /\ reader.at = "workspace" =>
          reader.inv \in Inv /\ files[reader.run].link[reader.inv] \in Number
    /\ reader.answer # "none" => reader.at = "answer"
    /\ reader.status = "complete" \/ reader.answer = "complete" =>
          reader.at # "idle" /\ WholeNotes

StoryInv ==
    /\ GivenInv /\ DiskTypeOK /\ ReaderTypeOK /\ Chosen
    /\ \A n \in Number : WholeStory(n)
    /\ \A w \in Writer : Written(w)
    /\ Attended

\* What an append may leave: what was there, and at most the new line, whole,
\* torn or glued to what was torn before.
Adds(new, old, line) ==
    new \in Seq(LineRecord) /\ ToSet(new) \subseteq ToSet(old) \cup {line, Torn, Garbled}

LEMMA ExtendedAdds ==
  ASSUME NEW old \in Seq(LineRecord), NEW line \in LineRecord
  PROVE  Adds(Extended(old, line), old, line)
  <1>1. Torn \in LineRecord /\ Garbled \in LineRecord
    BY DEF Torn, Garbled, Line, LineRecord, Kind, Note
  <1>2. CASE ~EndsTorn(old)
    BY <1>2 DEF Extended, Adds, ToSet
  <1>3. CASE EndsTorn(old)
    <2>1. Front(old) \in Seq(LineRecord) /\ Len(Front(old)) = Len(old) - 1 /\ old # <<>>
      <3>1. old # <<>>
        BY <1>3 DEF EndsTorn
      <3>2. Len(old) \in Nat /\ Len(old) >= 1
        BY <3>1
      <3> QED
        <4>1. PICK q \in Nat : q = Len(old) - 1
          BY <3>2
        <4>2. \A k \in 1 .. q : old[k] \in LineRecord
          BY <3>2, <4>1
        <4>3. /\ SubSeq(old, 1, q) \in Seq(LineRecord)
              /\ Len(SubSeq(old, 1, q)) = IF 1 <= q THEN q - 1 + 1 ELSE 0
          BY <4>2, SubSeqProperties
        <4> QED
          BY <3>1, <4>1, <4>3 DEF Front
    <2>2. \A k \in DOMAIN Front(old) : k \in DOMAIN old /\ Front(old)[k] = old[k]
      <3>1. Len(old) \in Nat /\ DOMAIN Front(old) = 1 .. Len(old) - 1
        BY <2>1
      <3> QED
        BY <3>1 DEF Front
    <2> DEFINE last == IF line = Torn THEN Torn ELSE Garbled
    <2>3. Extended(old, line) = Append(Front(old), last) /\ last \in LineRecord
      BY <1>1, <1>3 DEF Extended
    <2>4. last \in {line, Torn, Garbled}
      OBVIOUS
    <2> HIDE DEF last
    <2> QED
      BY <2>1, <2>2, <2>3, <2>4 DEF Adds, ToSet
  <1> QED
    BY <1>2, <1>3

LEMMA RemainsAdds ==
  ASSUME NEW old \in Seq(LineRecord), NEW line \in LineRecord, NEW new \in Remains(old, line)
  PROVE  Adds(new, old, line)
  <1>1. Torn \in LineRecord
    BY DEF Torn, Line, LineRecord, Kind, Note
  <1>2. Adds(Extended(old, line), old, line) /\ Adds(Extended(old, Torn), old, Torn)
    BY <1>1, ExtendedAdds
  <1> QED
    BY <1>2 DEF Remains, Adds

LEMMA TriesAdds ==
  ASSUME NEW w \in Writer, log[Run(w)] \in Seq(LineRecord), NEW line \in LineRecord,
         NEW t \in Tries(w, line)
  PROVE  Adds(t.lines, log[Run(w)], line)
  <1>1. Adds(log[Run(w)], log[Run(w)], line)
    BY DEF Adds
  <1> QED
    BY <1>1, ExtendedAdds, RemainsAdds DEF Tries

\* Links are never moved, directories of live runs stay, and what is published
\* stays published.
KeepsFiles ==
    \A n \in Number :
        /\ files'[n].made = files[n].made
        /\ files'[n].header => files[n].made
        /\ \A i \in Inv : files[n].link[i] \in Number => files'[n].link[i] = files[n].link[i]
KeepsSelections ==
    \A n \in Number, i \in Inv :
        /\ dispatch[n][i].selection => dispatch'[n][i].selection
        /\ dispatch'[n][i].selection => dispatch'[n][i].chosen

LEMMA LinkedStays ==
  ASSUME KeepsFiles, KeepsSelections, NEW n \in Number, NEW i \in Inv, Linked(n, i)
  PROVE  Linked(n, i)'
  BY DEF KeepsFiles, KeepsSelections, Linked

LEMMA AttendedStays ==
  ASSUME Attended, ReaderTypeOK, KeepsFiles, KeepsSelections, UNCHANGED reader
  PROVE  Attended'
  <1>1. ASSUME WholeNotes, reader.run \in Number PROVE WholeNotes'
    BY <1>1, LinkedStays DEF WholeNotes
  <1> QED
    BY <1>1 DEF Attended, KeepsFiles

LEMMA QuietStep ==
  ASSUME StoryInv, GivenInv', DiskTypeOK', KeepsFiles, KeepsSelections, UNCHANGED <<log, reader>>,
         \A w \in Writer : Written(w)'
  PROVE  StoryInv'
  <1>1. ASSUME NEW n \in Number PROVE WholeStory(n)'
    <2>1. WholeStory(n)
      BY DEF StoryInv
    <2>2. \A i \in Inv : Linked(n, i) => Linked(n, i)'
      BY LinkedStays DEF StoryInv
    <2> QED
      BY <2>1, <2>2 DEF WholeStory, KeepsFiles
  <1>2. Attended' /\ ReaderTypeOK' /\ Chosen'
    BY AttendedStays DEF StoryInv, ReaderTypeOK, KeepsSelections, Chosen
  <1> QED
    BY <1>1, <1>2 DEF StoryInv

\* A line is added to the log of a run, whole, torn or glued.
LEMMA AddingStep ==
  ASSUME StoryInv, GivenInv', DiskTypeOK', KeepsFiles, UNCHANGED <<dispatch, reader>>,
         NEW w \in Writer, Writing(w), NEW line \in LineRecord, NEW new,
         Adds(new, log[Run(w)], line), log' = [log EXCEPT ![Run(w)] = new],
         \A v \in Writer : v # w => writer'[v] = writer[v],
         writer'[w].number = writer[w].number,
         Writing(w)' /\ writer[w].failed => writer'[w].failed,
         IsOutcome(line) => /\ line.note \in {"bare", "live", "late"}
                            /\ line.note = "live" => line.of \in Inv /\ Linked(Run(w), line.of),
         IsFinal(line) => /\ line.note \in {"degraded", "complete"}
                          /\ line.note = "complete" => ~writer[w].failed,
         Writing(w)' => /\ ~IsFinal(line)
                        /\ IsOutcome(line) /\ line.note = "late" => writer'[w].failed
  PROVE  StoryInv'
  <1>1. PICK r \in Number : r = Run(w) /\ files[r].made /\ HasNumber(w)
    BY DEF StoryInv, Written, Writing, Live, HasNumber
  <1>2. KeepsSelections
    BY DEF KeepsSelections, StoryInv, Chosen
  <1>3. \A l \in {Torn, Garbled} : ~IsOutcome(l) /\ ~IsFinal(l)
    BY DEF Torn, Garbled, Line, IsOutcome, IsFinal
  <1>4. ~(IsOutcome(line) /\ IsFinal(line))
    BY DEF IsOutcome, IsFinal
  <1>5. log'[r] = new /\ \A n \in Number : n # r => log'[n] = log[n]
    BY <1>1 DEF StoryInv, DiskTypeOK
  <1>6. ASSUME NEW n \in Number, n # r PROVE WholeStory(n)'
    <2>1. WholeStory(n)
      BY DEF StoryInv
    <2>2. \A i \in Inv : Linked(n, i) => Linked(n, i)'
      BY <1>2, LinkedStays
    <2> QED
      BY <1>5, <1>6, <2>1, <2>2 DEF WholeStory, KeepsFiles
  <1>7. WholeStory(r)'
    <2>1. WholeStory(r)
      BY <1>1 DEF StoryInv
    <2>2. \A i \in Inv : Linked(r, i) => Linked(r, i)'
      BY <1>1, <1>2, LinkedStays
    <2>3. \A l \in ToSet(log[r]) : ~IsFinal(l) /\ (IsOutcome(l) /\ l.note = "late" => writer[w].failed)
      BY <1>1 DEF StoryInv, Written
    <2>4. \A l \in ToSet(new) : l \in ToSet(log[r]) \/ l = line \/ l \in {Torn, Garbled}
      BY <1>1 DEF Adds
    <2>5. (files[r].header => files[r].made)' /\ (~files[r].made => log[r] = <<>>)'
      BY <1>1 DEF KeepsFiles
    <2>6. \A l \in ToSet(new) :
            /\ IsOutcome(l) => l.note \in {"bare", "live", "late"}
            /\ IsFinal(l) => l.note \in {"degraded", "complete"}
      BY <1>3, <2>1, <2>4 DEF WholeStory
    <2>7. \A l \in ToSet(new) : IsOutcome(l) /\ l.note = "live" => l.of \in Inv /\ Linked(r, l.of)'
      BY <1>1, <1>3, <2>1, <2>2, <2>4 DEF WholeStory
    <2>8. \A l \in ToSet(new) : IsFinal(l) /\ l.note = "complete" =>
            \A m \in ToSet(new) : IsOutcome(m) => m.note # "late"
      BY <1>3, <1>4, <2>3, <2>4
    <2>9. log'[r] = new
      BY <1>5
    <2> QED
      BY <2>5, <2>6, <2>7, <2>8, <2>9 DEF WholeStory, IsOutcome, IsFinal
  <1>8. ASSUME NEW v \in Writer PROVE Written(v)'
    <2>1. CASE v = w
      <3>1. Writing(w)' => \A l \in ToSet(new) :
               ~IsFinal(l) /\ (IsOutcome(l) /\ l.note = "late" => writer'[w].failed)
        BY <1>1, <1>3 DEF Adds, StoryInv, Written
      <3>2. Run(w)' = r
        BY <1>1 DEF Run
      <3> QED
        BY <1>1, <1>5, <2>1, <3>1, <3>2 DEF Written, KeepsFiles, IsFinal, IsOutcome
    <2>2. CASE v # w
      <3>1. Written(v) /\ Run(v)' = Run(v) /\ (HasNumber(v)' <=> HasNumber(v))
            /\ (Live(v)' <=> Live(v)) /\ (Writing(v)' <=> Writing(v)) /\ writer'[v] = writer[v]
        BY <2>2 DEF StoryInv, Run, HasNumber, HasRun, Live, Writing
      <3>2. Live(v) => Run(v) # r /\ Run(v) \in Number
        BY <1>1, <2>2, <3>1 DEF StoryInv, GivenInv, NumberInv, HasNumber, Live, Written
      <3> QED
        BY <1>5, <3>1, <3>2 DEF Written, KeepsFiles, Writing
    <2> QED
      BY <2>1, <2>2
  <1>9. Attended' /\ ReaderTypeOK' /\ Chosen'
    BY <1>2, AttendedStays DEF StoryInv, ReaderTypeOK, KeepsSelections, Chosen
  <1> QED
    BY <1>6, <1>7, <1>8, <1>9 DEF StoryInv

\* The other writers have other runs.
LEMMA OthersWritten ==
  ASSUME StoryInv, NEW w \in Writer, NEW v \in Writer, v # w, writer'[v] = writer[v],
         HasNumber(v) => /\ files'[Run(v)].made = files[Run(v)].made
                         /\ log'[Run(v)] = log[Run(v)]
  PROVE  Written(v)'
  <1>1. Written(v) /\ Run(v)' = Run(v) /\ (HasNumber(v)' <=> HasNumber(v))
        /\ (Live(v)' <=> Live(v)) /\ (Writing(v)' <=> Writing(v))
    BY DEF StoryInv, Run, HasNumber, HasRun, Live, Writing
  <1>2. Live(v) => HasNumber(v)
    BY DEF Live, HasNumber
  <1> QED
    BY <1>1, <1>2 DEF Written, Writing

LEMMA OwnNumber ==
  ASSUME StoryInv, NEW w \in Writer, HasNumber(w)
  PROVE  /\ Run(w) \in Number
         /\ \A v \in Writer : v # w /\ HasNumber(v) => Run(v) # Run(w)
         /\ Live(w) => files[Run(w)].made
  BY DEF StoryInv, Written, GivenInv, NumberInv

LEMMA UnchangedDisk ==
  ASSUME StoryInv, UNCHANGED <<files, log, dispatch>>
  PROVE  KeepsFiles /\ KeepsSelections /\ DiskTypeOK'
  BY DEF StoryInv, DiskTypeOK, KeepsFiles, KeepsSelections, WholeStory, Chosen

\* A writer that goes on to the next number has none yet.
LEMMA PassingKeepsStory ==
  ASSUME StoryInv, GivenInv', NEW w \in Writer, UNCHANGED <<files, log, dispatch, reader>>,
         writer' = [writer EXCEPT ![w].at = "reserve", ![w].number = @ + 1]
  PROVE  StoryInv'
  <1>1. /\ writer'[w].at = "reserve"
        /\ \A v \in Writer : v # w => writer'[v] = writer[v]
    BY DEF StoryInv, GivenInv, WriterTypeOK, Writers, WriterState
  <1>2. Written(w)'
    BY <1>1 DEF Written, HasNumber, HasRun, Live, Writing
  <1>3. \A v \in Writer : v # w => Written(v)'
    BY <1>1, OthersWritten
  <1> QED
    BY <1>2, <1>3, QuietStep, UnchangedDisk

LEMMA ReservesKeepsStory ==
  ASSUME StoryInv, GivenInv', NEW w \in Writer, Reserves(w)
  PROVE  StoryInv'
  <1>1. CASE Run(w) \in reserved
    BY <1>1, PassingKeepsStory DEF Reserves
  <1>2. CASE Run(w) \notin reserved
    <2>1. /\ writer'[w].at = "locate" /\ Run(w)' = Run(w) /\ Run(w) \in Number
          /\ \A v \in Writer : v # w => writer'[v] = writer[v]
          /\ UNCHANGED <<files, log, dispatch, reader>>
      BY <1>2 DEF Reserves, Goto, Run, StoryInv, GivenInv, WriterTypeOK, Writers, WriterState
    <2>2. Written(w)'
      BY <2>1 DEF Written, HasRun, Live, Writing
    <2>3. \A v \in Writer : v # w => Written(v)'
      BY <2>1, OthersWritten
    <2> QED
      BY <2>1, <2>2, <2>3, QuietStep, UnchangedDisk
  <1> QED
    BY <1>1, <1>2

\* A directory is made where there was none, so where nothing was written.
LEMMA LocatesKeepsStory ==
  ASSUME StoryInv, GivenInv', NEW w \in Writer, Locates(w)
  PROVE  StoryInv'
  <1>1. CASE files[Run(w)].made
    BY <1>1, PassingKeepsStory DEF Locates
  <1>2. CASE ~files[Run(w)].made
    <2> DEFINE r == writer[w].number
               fresh == [NoFiles EXCEPT !.made = TRUE]
    <2>1. /\ HasNumber(w) /\ r \in Number /\ r = Run(w) /\ r # NoRun
          /\ \A v \in Writer : v # w /\ HasNumber(v) => Run(v) # r
      BY OwnNumber, NumberAssumption DEF Locates, At, HasNumber, Run, Number, NoRun
    <2>2. /\ writer'[w].at = "initial" /\ Run(w)' = r
          /\ \A v \in Writer : v # w => writer'[v] = writer[v]
      BY <1>2 DEF Locates, Goto, Run, StoryInv, GivenInv, WriterTypeOK, Writers, WriterState
    <2>3. /\ files' = [files EXCEPT ![r] = fresh] /\ UNCHANGED <<log, dispatch, reader>>
      BY <1>2 DEF Locates, Publishes, Run
    <2>4. fresh \in FileRecord /\ fresh.made /\ ~fresh.header
      BY DEF NoFiles, FileRecord
    <2>5. files'[r] = fresh /\ \A n \in Number : n # r => files'[n] = files[n]
      BY <2>1, <2>3 DEF StoryInv, DiskTypeOK
    <2>6. DiskTypeOK' /\ ReaderTypeOK' /\ Chosen'
      BY <2>3, <2>4 DEF StoryInv, DiskTypeOK, ReaderTypeOK, Chosen
    <2>7. ~files[r].made /\ log[r] = <<>>
      BY <1>2, <2>1 DEF StoryInv, WholeStory
    <2> HIDE DEF r, fresh
    <2>8. ASSUME NEW n \in Number PROVE WholeStory(n)'
      <3>1. CASE n = r
        BY <2>3, <2>4, <2>5, <2>7, <3>1 DEF WholeStory, ToSet
      <3>2. CASE n # r
        <4>1. WholeStory(n) /\ files'[n] = files[n] /\ log'[n] = log[n]
          BY <2>3, <2>5, <3>2 DEF StoryInv
        <4>2. \A i \in Inv : Linked(n, i)' <=> Linked(n, i)
          BY <2>3, <4>1 DEF Linked
        <4> QED
          BY <4>1, <4>2 DEF WholeStory
      <3> QED
        BY <3>1, <3>2
    <2>9. Written(w)'
      BY <2>1, <2>2, <2>4, <2>5 DEF Written, Writing
    <2>10. \A v \in Writer : v # w => Written(v)'
      <3> SUFFICES ASSUME NEW v \in Writer, v # w PROVE Written(v)'
        OBVIOUS
      <3>1. HasNumber(v) => Run(v) \in Number /\ Run(v) # r
        BY <2>1, OwnNumber
      <3> QED
        BY <2>2, <2>3, <2>5, <3>1, OthersWritten
    <2>11. Attended'
      <3>1. reader.at # "idle" => reader.run \in Number /\ reader.run # r
        BY <2>7 DEF StoryInv, Attended
      <3>2. reader.at # "idle" => files'[reader.run] = files[reader.run]
        BY <2>5, <3>1
      <3>3. WholeNotes /\ reader.at # "idle" => WholeNotes'
        BY <2>3, <3>2 DEF WholeNotes, Linked
      <3> QED
        BY <2>3, <3>1, <3>2, <3>3 DEF StoryInv, Attended
    <2> QED
      BY <2>6, <2>8, <2>9, <2>10, <2>11 DEF StoryInv
  <1> QED
    BY <1>1, <1>2

\* The first line of a log says nothing of any invocation.
LEMMA StartsKeepsStory ==
  ASSUME StoryInv, GivenInv', NEW w \in Writer, Starts(w)
  PROVE  StoryInv'
  <1> DEFINE r == writer[w].number
             line == Line("run_started", NoInv, 1, "none")
  <1>1. /\ HasNumber(w) /\ r \in Number /\ r = Run(w) /\ files[r].made
        /\ \A v \in Writer : v # w /\ HasNumber(v) => Run(v) # r
    BY OwnNumber DEF Starts, At, HasNumber, HasRun, Live, Run
  <1>2. /\ writer'[w].at = "header" /\ Run(w)' = r
        /\ \A v \in Writer : v # w => writer'[v] = writer[v]
    BY DEF Starts, Run, StoryInv, GivenInv, WriterTypeOK, Writers, WriterState
  <1>3. log' = [log EXCEPT ![r] = <<line>>] /\ UNCHANGED <<files, dispatch, reader>>
    BY DEF Starts, Run
  <1>4. line \in LineRecord /\ ~IsOutcome(line) /\ ~IsFinal(line)
    BY DEF Line, LineRecord, Kind, Note, IsOutcome, IsFinal
  <1>5. log'[r] = <<line>> /\ \A n \in Number : n # r => log'[n] = log[n]
    BY <1>1, <1>3 DEF StoryInv, DiskTypeOK
  <1> HIDE DEF line, r
  <1>6. DiskTypeOK' /\ ReaderTypeOK' /\ Chosen'
    <2>1. <<line>> \in Seq(LineRecord)
      BY <1>4
    <2>2. log' \in [Number -> Seq(LineRecord)]
      BY <1>3, <2>1 DEF StoryInv, DiskTypeOK
    <2> QED
      BY <1>3, <2>2 DEF StoryInv, DiskTypeOK, ReaderTypeOK, Chosen
  <1>7. ToSet(log'[r]) = {line}
    BY <1>5 DEF ToSet
  <1>8. ASSUME NEW n \in Number PROVE WholeStory(n)'
    <2>1. WholeStory(n) /\ files' = files /\ \A i \in Inv : Linked(n, i)' <=> Linked(n, i)
      BY <1>3 DEF StoryInv, Linked
    <2>2. CASE n = r
      BY <1>1, <1>4, <1>7, <2>1, <2>2 DEF WholeStory
    <2>3. CASE n # r
      BY <1>5, <2>1, <2>3 DEF WholeStory
    <2> QED
      BY <2>2, <2>3
  <1>9. Written(w)'
    BY <1>1, <1>2, <1>3, <1>4, <1>7 DEF Written
  <1>10. \A v \in Writer : v # w => Written(v)'
    <2> SUFFICES ASSUME NEW v \in Writer, v # w PROVE Written(v)'
      OBVIOUS
    <2>1. HasNumber(v) => Run(v) \in Number /\ Run(v) # r
      BY <1>1, OwnNumber
    <2> QED
      BY <1>2, <1>3, <1>5, <2>1, OthersWritten
  <1>11. Attended'
    BY <1>3 DEF StoryInv, Attended, WholeNotes, Linked
  <1> QED
    BY <1>6, <1>8, <1>9, <1>10, <1>11 DEF StoryInv

\* A document of one's own is published.
LEMMA PublishingKeepsFiles ==
  ASSUME StoryInv, NEW r \in Number, NEW f \in FileRecord, f.made = files[r].made,
         f.header => files[r].made,
         \A i \in Inv : files[r].link[i] \in Number => f.link[i] = files[r].link[i],
         files' = [files EXCEPT ![r] = f], UNCHANGED log
  PROVE  KeepsFiles /\ (dispatch' = dispatch => DiskTypeOK')
  <1>1. files'[r] = f /\ \A n \in Number : n # r => files'[n] = files[n]
    BY DEF StoryInv, DiskTypeOK
  <1>2. \A n \in Number : files[n].header => files[n].made
    BY DEF StoryInv, WholeStory
  <1>3. KeepsFiles
    BY <1>1, <1>2 DEF KeepsFiles
  <1>4. files' \in [Number -> FileRecord]
    BY DEF StoryInv, DiskTypeOK
  <1> QED
    BY <1>3, <1>4 DEF StoryInv, DiskTypeOK

\* One that has begun to write goes on, and says no more of itself.
LEMMA GoingOnWritten ==
  ASSUME StoryInv, KeepsFiles, UNCHANGED log, NEW w \in Writer, Writing(w),
         \A v \in Writer : v # w => writer'[v] = writer[v],
         writer'[w].number = writer[w].number, writer'[w].failed = writer[w].failed
  PROVE  \A v \in Writer : Written(v)'
  <1>1. HasNumber(w) /\ Live(w) /\ Run(w)' = Run(w)
    BY DEF Writing, Live, HasNumber, Run
  <1>2. Written(w)'
    BY <1>1, OwnNumber DEF StoryInv, Written, KeepsFiles
  <1>3. \A v \in Writer : v # w => Written(v)'
    BY OthersWritten, OwnNumber DEF KeepsFiles
  <1> QED
    BY <1>2, <1>3

LEMMA DocumentsKeepStory ==
  ASSUME StoryInv, GivenInv', NEW w \in Writer,
         Heads(w) \/ PublishesEvidence(w) \/ Finishing(w)
  PROVE  StoryInv'
  <1>1. Writing(w) /\ Live(w) /\ HasNumber(w) /\ UNCHANGED <<log, dispatch, reader>>
    BY DEF Heads, PublishesEvidence, Finishing, At, Writing, Live, HasRun, HasNumber, disk
  <1>2. PICK step : writer' = [writer EXCEPT ![w].at = step]
    BY DEF Heads, PublishesEvidence, Finishing, Goto
  <1>3. /\ \A v \in Writer : v # w => writer'[v] = writer[v]
        /\ writer'[w].number = writer[w].number /\ writer'[w].failed = writer[w].failed
    BY <1>2 DEF StoryInv, GivenInv, WriterTypeOK, Writers, WriterState
  <1>4. Run(w) \in Number /\ files[Run(w)].made /\ files[Run(w)] \in FileRecord
    BY <1>1, OwnNumber DEF StoryInv, DiskTypeOK
  <1>5. KeepsFiles /\ DiskTypeOK'
    <2>1. CASE Heads(w)
      <3> DEFINE f == [files[Run(w)] EXCEPT !.header = TRUE]
      <3>1. f \in FileRecord /\ f.made = files[Run(w)].made /\ f.link = files[Run(w)].link
        BY <1>4 DEF FileRecord
      <3>2. files' = [files EXCEPT ![Run(w)] = f]
        BY <2>1 DEF Heads, Publishes
      <3> HIDE DEF f
      <3> QED
        BY <1>1, <1>4, <3>1, <3>2, PublishingKeepsFiles
    <2>2. CASE PublishesEvidence(w)
      <3> DEFINE f == [files[Run(w)] EXCEPT !.evidence = TRUE]
      <3>1. f \in FileRecord /\ f.made = files[Run(w)].made /\ f.link = files[Run(w)].link
        BY <1>4 DEF FileRecord
      <3>2. files' = [files EXCEPT ![Run(w)] = f]
        BY <2>2 DEF PublishesEvidence, Publishes
      <3> HIDE DEF f
      <3> QED
        BY <1>1, <1>4, <3>1, <3>2, PublishingKeepsFiles
    <2>3. CASE Finishing(w)
      BY <2>3, UnchangedDisk DEF Finishing, disk
    <2> QED
      BY <2>1, <2>2, <2>3
  <1>6. KeepsSelections
    BY <1>1 DEF KeepsSelections, StoryInv, Chosen
  <1> QED
    BY <1>1, <1>3, <1>5, <1>6, GoingOnWritten, QuietStep

\* A link is made where there was none.
LEMMA BindsKeepsStory ==
  ASSUME StoryInv, GivenInv', NEW w \in Writer, NEW i \in Inv, Binds(w, i)
  PROVE  StoryInv'
  <1>1. Writing(w) /\ Live(w) /\ HasNumber(w) /\ UNCHANGED <<log, writer, reader>>
    BY DEF Binds, At, Writing, Live, HasRun, HasNumber
  <1>2. Run(w) \in Number /\ files[Run(w)].made /\ files[Run(w)] \in FileRecord
    BY <1>1, OwnNumber DEF StoryInv, DiskTypeOK
  <1>3. PICK m \in Number :
          /\ files' = [files EXCEPT ![Run(w)] = [files[Run(w)] EXCEPT !.link[i] = m]]
          /\ dispatch' = [dispatch EXCEPT ![m][i].at = "ready"] \/ UNCHANGED dispatch
    BY DEF Binds, Publishes
  <1> DEFINE f == [files[Run(w)] EXCEPT !.link[i] = m]
  <1>4. files[Run(w)].link[i] = NoRun /\ NoRun \notin Number
    BY NumberAssumption DEF Binds, NoRun, Number
  <1>5. f \in FileRecord /\ f.made = files[Run(w)].made /\ f.header = files[Run(w)].header
        /\ f.link = [files[Run(w)].link EXCEPT ![i] = m]
    BY <1>2 DEF FileRecord
  <1>6. files' = [files EXCEPT ![Run(w)] = f]
    BY <1>3
  <1>7. \A j \in Inv : files[Run(w)].link[j] \in Number => f.link[j] = files[Run(w)].link[j]
    BY <1>2, <1>4, <1>5 DEF FileRecord
  <1> HIDE DEF f
  <1>8. KeepsFiles
    BY <1>1, <1>2, <1>5, <1>6, <1>7, PublishingKeepsFiles
  <1>9. dispatch' \in [Number -> [Inv -> DispatchRecord]] /\ KeepsSelections
    <2>1. CASE dispatch' = [dispatch EXCEPT ![m][i].at = "ready"]
      <3> DEFINE e == [dispatch[m][i] EXCEPT !.at = "ready"]
      <3>1. /\ e \in DispatchRecord /\ e.selection = dispatch[m][i].selection
            /\ e.chosen = dispatch[m][i].chosen
        <4>1. dispatch[m][i] \in DispatchRecord
          BY DEF StoryInv, DiskTypeOK
        <4> QED
          BY <4>1 DEF DispatchRecord
      <3>2. dispatch' = [dispatch EXCEPT ![m] = [dispatch[m] EXCEPT ![i] = e]]
        BY <2>1
      <3> HIDE DEF e
      <3> QED
        BY <3>1, <3>2 DEF StoryInv, DiskTypeOK, KeepsSelections, Chosen
    <2>2. CASE UNCHANGED dispatch
      BY <2>2 DEF StoryInv, DiskTypeOK, KeepsSelections, Chosen
    <2> QED
      BY <1>3, <2>1, <2>2
  <1>10. DiskTypeOK'
    BY <1>1, <1>2, <1>5, <1>6, <1>9 DEF StoryInv, DiskTypeOK
  <1> QED
    BY <1>1, <1>8, <1>9, <1>10, GoingOnWritten, QuietStep

\* What an append changes on the disk.
LEMMA AppendedDisk ==
  ASSUME StoryInv, NEW r \in Number, NEW line, NEW new, Adds(new, log[r], line),
         log' = [log EXCEPT ![r] = new],
         UNCHANGED files \/ \E f \in FileRecord :
              /\ f.made = files[r].made /\ f.header = files[r].header /\ f.link = files[r].link
              /\ files' = [files EXCEPT ![r] = f],
         UNCHANGED dispatch
  PROVE  DiskTypeOK' /\ KeepsFiles
  <1>1. log' \in [Number -> Seq(LineRecord)]
    BY DEF StoryInv, DiskTypeOK, Adds
  <1>2. \A n \in Number : files[n].header => files[n].made
    BY DEF StoryInv, WholeStory
  <1>3. CASE UNCHANGED files
    BY <1>1, <1>2, <1>3 DEF StoryInv, DiskTypeOK, KeepsFiles
  <1>4. ASSUME NEW f \in FileRecord, f.made = files[r].made, f.header = files[r].header,
               f.link = files[r].link, files' = [files EXCEPT ![r] = f]
        PROVE  DiskTypeOK' /\ KeepsFiles
    <2>1. files'[r] = f /\ \A n \in Number : n # r => files'[n] = files[n]
      BY <1>4 DEF StoryInv, DiskTypeOK
    <2> QED
      BY <1>1, <1>2, <1>4, <2>1 DEF StoryInv, DiskTypeOK, KeepsFiles
  <1> QED
    BY <1>3, <1>4

LEMMA EntryIsLine ==
  ASSUME StoryInv, NEW w \in Writer, NEW kind \in Kind, NEW of \in Inv \cup {NoInv},
         NEW note \in Note \cup {"degraded", "complete"}
  PROVE  /\ Entry(w, kind, of, note) \in LineRecord
         /\ Entry(w, kind, of, note).kind = kind /\ Entry(w, kind, of, note).note = note
         /\ Entry(w, kind, of, note).of = of
  <1>1. writer[w].seq + 1 \in Nat
    BY DEF StoryInv, GivenInv, WriterTypeOK, Writers, WriterState
  <1> QED
    BY <1>1 DEF Entry, Line, LineRecord

LEMMA AppendsPreparedKeepsStory ==
  ASSUME StoryInv, GivenInv', NEW w \in Writer, AppendsPrepared(w)
  PROVE  StoryInv'
  <1> DEFINE line == Entry(w, "run_prepared", NoInv, "none")
  <1>1. Writing(w) /\ Live(w) /\ HasNumber(w) /\ UNCHANGED <<files, dispatch, reader>>
    BY DEF AppendsPrepared, At, Writing, Live, HasRun, HasNumber
  <1>2. Run(w) \in Number /\ log[Run(w)] \in Seq(LineRecord)
    BY <1>1, OwnNumber DEF StoryInv, DiskTypeOK
  <1>3. line \in LineRecord /\ ~IsOutcome(line) /\ ~IsFinal(line)
    BY EntryIsLine DEF Kind, Note, IsOutcome, IsFinal
  <1>4. /\ \A v \in Writer : v # w => writer'[v] = writer[v]
        /\ writer'[w].number = writer[w].number /\ writer'[w].failed = writer[w].failed
    BY DEF AppendsPrepared, Goto, StoryInv, GivenInv, WriterTypeOK, Writers, WriterState
  <1>5. PICK new : log' = [log EXCEPT ![Run(w)] = new] /\ Adds(new, log[Run(w)], line)
    <2> HIDE DEF line
    <2>1. Adds(Extended(log[Run(w)], line), log[Run(w)], line)
      BY <1>2, <1>3, ExtendedAdds
    <2>2. \A rest \in Remains(log[Run(w)], line) : Adds(rest, log[Run(w)], line)
      BY <1>2, <1>3, RemainsAdds
    <2>3. \/ log' = [log EXCEPT ![Run(w)] = Extended(log[Run(w)], line)]
          \/ \E rest \in Remains(log[Run(w)], line) : log' = [log EXCEPT ![Run(w)] = rest]
      BY DEF AppendsPrepared, line
    <2> QED
      BY <2>1, <2>2, <2>3
  <1> HIDE DEF line
  <1>6. DiskTypeOK' /\ KeepsFiles
    BY <1>1, <1>2, <1>5, AppendedDisk
  <1> QED
    BY <1>1, <1>3, <1>4, <1>5, <1>6, AddingStep

\* degrade writes persistence.json, or does not.
LEMMA DegradesOnly ==
  ASSUME StoryInv, NEW w \in Writer, Run(w) \in Number, NEW news, Degrades(w, news)
  PROVE  UNCHANGED files \/ \E f \in FileRecord :
             /\ f.made = files[Run(w)].made /\ f.header = files[Run(w)].header
             /\ f.link = files[Run(w)].link
             /\ files' = [files EXCEPT ![Run(w)] = f]
  <1>1. CASE news
    <2>1. PICK told \in BOOLEAN :
            files' = [files EXCEPT ![Run(w)] = [files[Run(w)] EXCEPT !.persistence = @ \/ told]]
      BY <1>1 DEF Degrades, Publishes
    <2> DEFINE f == [files[Run(w)] EXCEPT !.persistence = @ \/ told]
    <2>2. files[Run(w)] \in FileRecord
      BY DEF StoryInv, DiskTypeOK
    <2>3. /\ f \in FileRecord /\ f.made = files[Run(w)].made /\ f.header = files[Run(w)].header
          /\ f.link = files[Run(w)].link
      BY <2>2 DEF FileRecord
    <2> HIDE DEF f
    <2>4. files' = [files EXCEPT ![Run(w)] = f]
      BY <2>1 DEF f
    <2> QED
      BY <2>3, <2>4
  <1>2. CASE ~news
    BY <1>2 DEF Degrades
  <1> QED
    BY <1>1, <1>2

\* The fields of the writer that observes an outcome.
TakesNote(w, i, note, stuck, failed) ==
    writer' = [writer EXCEPT ![w].outcome[i] = note, ![w].seq = @ + 1,
                             ![w].stuck = @ \/ stuck, ![w].failed = @ \/ failed]

LEMMA ObservedWriter ==
  ASSUME WriterTypeOK, NEW w \in Writer, NEW i \in Inv, NEW note, NEW stuck, NEW failed,
         TakesNote(w, i, note, stuck, failed)
  PROVE  /\ \A v \in Writer : v # w => writer'[v] = writer[v]
         /\ writer'[w].at = writer[w].at /\ writer'[w].number = writer[w].number
         /\ writer'[w].seq = writer[w].seq + 1
         /\ writer'[w].stuck <=> writer[w].stuck \/ stuck
         /\ writer'[w].failed <=> writer[w].failed \/ failed
         /\ writer'[w].outcome = [writer[w].outcome EXCEPT ![i] = note]
         /\ writer'[w].slipped = writer[w].slipped
  BY DEF TakesNote, WriterTypeOK, Writers, WriterState

\* The line says a reference is live only when there is one to be found, and
\* the writer takes note of one that came late.
LEMMA ObservesKeepsStory ==
  ASSUME StoryInv, GivenInv', NEW w \in Writer, NEW i \in Inv, Observes(w, i)
  PROVE  StoryInv'
  <1>1. Writing(w) /\ Live(w) /\ HasNumber(w) /\ UNCHANGED <<dispatch, reader>>
    BY DEF Observes, Writing, Live, HasRun, HasNumber
  <1>2. Run(w) \in Number /\ log[Run(w)] \in Seq(LineRecord) /\ files[Run(w)] \in FileRecord
    BY <1>1, OwnNumber DEF StoryInv, DiskTypeOK
  <1>3. PICK note \in Notes(w, i) :
          \E t \in Tries(w, Entry(w, "invocation_outcome", i, note)) :
             /\ log' = [log EXCEPT ![Run(w)] = t.lines]
             /\ TakesNote(w, i, note, t.failed, t.failed \/ Degrading(note))
             /\ Degrades(w, t.failed \/ Degrading(note))
    BY DEF Observes, TakesNote
  <1> DEFINE line == Entry(w, "invocation_outcome", i, note)
  <1>4. PICK t \in Tries(w, line) :
             /\ log' = [log EXCEPT ![Run(w)] = t.lines]
             /\ TakesNote(w, i, note, t.failed, t.failed \/ Degrading(note))
             /\ Degrades(w, t.failed \/ Degrading(note))
    BY <1>3
  <1>5. note \in {"bare", "live", "late"} /\ (note = "live" => Linked(Run(w), i))
    <2>1. note = "live" => NamesTry(w, i) /\ Execution(Run(w), i).selection
      BY DEF Notes
    <2> QED
      BY <1>2, <2>1 DEF Notes, NamesTry, Execution, Linked, FileRecord
  <1>6. /\ line \in LineRecord /\ IsOutcome(line) /\ ~IsFinal(line)
        /\ line.note = note /\ line.of = i
    BY <1>5, EntryIsLine DEF Kind, Note, IsOutcome, IsFinal
  <1> HIDE DEF line
  <1>7. Adds(t.lines, log[Run(w)], line)
    BY <1>2, <1>6, TriesAdds
  <1>8. /\ \A v \in Writer : v # w => writer'[v] = writer[v]
        /\ writer'[w].number = writer[w].number
        /\ writer[w].failed => writer'[w].failed
        /\ note = "late" => writer'[w].failed
    BY <1>4, ObservedWriter DEF StoryInv, GivenInv, Degrading
  <1>9. DiskTypeOK' /\ KeepsFiles
    <2>1. UNCHANGED files \/ \E f \in FileRecord :
             /\ f.made = files[Run(w)].made /\ f.header = files[Run(w)].header
             /\ f.link = files[Run(w)].link
             /\ files' = [files EXCEPT ![Run(w)] = f]
      BY <1>2, <1>4, DegradesOnly
    <2> QED
      BY <1>1, <1>2, <1>4, <1>7, <2>1, AppendedDisk
  <1> QED
    BY <1>1, <1>4, <1>5, <1>6, <1>7, <1>8, <1>9, AddingStep

\* What becomes of a writer that leaves.
LEMMA LeftWriter ==
  ASSUME StoryInv, NEW w \in Writer, writer' = [writer EXCEPT ![w] = Left(w)]
  PROVE  /\ \A v \in Writer : v # w => writer'[v] = writer[v]
         /\ writer'[w] = Left(w) /\ writer'[w].number = writer[w].number
         /\ writer'[w].at = IF HasRun(w) THEN "over" ELSE "gone"
         /\ ~Live(w)' /\ ~Writing(w)'
  <1>1. Left(w).number = writer[w].number /\ Left(w).at = IF HasRun(w) THEN "over" ELSE "gone"
    BY DEF Left, Unwritten
  <1>2. writer'[w] = Left(w) /\ \A v \in Writer : v # w => writer'[v] = writer[v]
    BY DEF StoryInv, GivenInv, WriterTypeOK, Writers
  <1> QED
    BY <1>1, <1>2 DEF Live, Writing, HasRun

\* The final line says complete only when nothing failed.
LEMMA FinishesKeepsStory ==
  ASSUME StoryInv, GivenInv', NEW w \in Writer, Finishes(w)
  PROVE  StoryInv'
  <1> DEFINE note == IF writer[w].failed THEN "degraded" ELSE "complete"
             line == Entry(w, "run_finished", NoInv, note)
  <1>1. Writing(w) /\ Live(w) /\ HasNumber(w) /\ UNCHANGED <<dispatch, reader>>
    BY DEF Finishes, Writing, Live, HasRun, HasNumber
  <1>2. Run(w) \in Number /\ log[Run(w)] \in Seq(LineRecord)
    BY <1>1, OwnNumber DEF StoryInv, DiskTypeOK
  <1>3. /\ line \in LineRecord /\ IsFinal(line) /\ ~IsOutcome(line)
        /\ line.note \in {"degraded", "complete"} /\ (line.note = "complete" => ~writer[w].failed)
    <2>1. note \in {"degraded", "complete"} /\ (note = "complete" => ~writer[w].failed)
      OBVIOUS
    <2> HIDE DEF note
    <2> QED
      BY <2>1, EntryIsLine DEF Kind, IsFinal, IsOutcome
  <1>4. writer' = [writer EXCEPT ![w] = Left(w)]
    BY DEF Finishes
  <1>5. PICK t \in Tries(w, line) :
           log' = [log EXCEPT ![Run(w)] = t.lines] /\ Degrades(w, t.failed)
    BY DEF Finishes
  <1> HIDE DEF line
  <1>6. Adds(t.lines, log[Run(w)], line)
    BY <1>2, <1>3, TriesAdds
  <1>7. UNCHANGED files \/ \E f \in FileRecord :
             /\ f.made = files[Run(w)].made /\ f.header = files[Run(w)].header
             /\ f.link = files[Run(w)].link
             /\ files' = [files EXCEPT ![Run(w)] = f]
    BY <1>2, <1>5, DegradesOnly
  <1>8. DiskTypeOK' /\ KeepsFiles
    BY <1>1, <1>2, <1>5, <1>6, <1>7, AppendedDisk
  <1> QED
    BY <1>1, <1>3, <1>4, <1>5, <1>6, <1>8, LeftWriter, AddingStep

LEMMA DiesKeepsStory ==
  ASSUME StoryInv, GivenInv', NEW w \in Writer, Dies(w)
  PROVE  StoryInv'
  <1>1. writer' = [writer EXCEPT ![w] = Left(w)] /\ UNCHANGED <<files, dispatch, reader>>
    BY DEF Dies
  <1>2. CASE UNCHANGED log
    <2>1. Written(w)'
      <3>1. Run(w)' = Run(w) /\ (HasNumber(w)' => HasNumber(w)) /\ ~Live(w)' /\ ~Writing(w)'
        <4>1. /\ writer'[w].number = writer[w].number /\ ~Live(w)' /\ ~Writing(w)'
              /\ writer'[w].at = IF HasRun(w) THEN "over" ELSE "gone"
          BY <1>1, LeftWriter
        <4>2. Run(w)' = Run(w)
          BY <4>1 DEF Run
        <4>3. HasNumber(w)' => HasRun(w)
          BY <4>1 DEF HasNumber, HasRun
        <4> QED
          BY <4>1, <4>2, <4>3 DEF HasNumber
      <3> QED
        BY <3>1 DEF StoryInv, Written
    <2>2. \A v \in Writer : v # w => Written(v)'
      BY <1>1, <1>2, LeftWriter, OthersWritten
    <2> QED
      BY <1>1, <1>2, <2>1, <2>2, UnchangedDisk, QuietStep
  <1>3. CASE /\ writer[w].at \in {"prepared", "running", "finish"}
             /\ log' = [log EXCEPT ![Run(w)] = Extended(@, Torn)]
    <2>1. Writing(w) /\ Live(w) /\ HasNumber(w)
      BY <1>3 DEF Writing, Live, HasRun, HasNumber
    <2>2. Run(w) \in Number /\ log[Run(w)] \in Seq(LineRecord)
      BY <2>1, OwnNumber DEF StoryInv, DiskTypeOK
    <2>3. Torn \in LineRecord /\ ~IsOutcome(Torn) /\ ~IsFinal(Torn)
      BY DEF Torn, Line, LineRecord, Kind, Note, IsOutcome, IsFinal
    <2> DEFINE new == Extended(log[Run(w)], Torn)
    <2>4. Adds(new, log[Run(w)], Torn) /\ log' = [log EXCEPT ![Run(w)] = new]
      BY <1>3, <2>2, <2>3, ExtendedAdds
    <2> HIDE DEF new
    <2>5. DiskTypeOK' /\ KeepsFiles
      BY <1>1, <2>2, <2>4, AppendedDisk
    <2> QED
      BY <1>1, <2>1, <2>3, <2>4, <2>5, LeftWriter, AddingStep
  <1> QED
    BY <1>2, <1>3 DEF Dies

\* What is removed belongs to nobody who still writes or reads it.
LEMMA DeletesKeepsStory ==
  ASSUME StoryInv, GivenInv', NEW n \in Number, Deletes(n)
  PROVE  StoryInv'
  <1>1. /\ files' = [files EXCEPT ![n] = NoFiles] /\ log' = [log EXCEPT ![n] = <<>>]
        /\ UNCHANGED <<dispatch, writer, reader>>
    BY DEF Deletes, Publishes
  <1>2. NoFiles \in FileRecord /\ ~NoFiles.made /\ ~NoFiles.header
    BY DEF NoFiles, FileRecord
  <1>3. /\ files'[n] = NoFiles /\ log'[n] = <<>>
        /\ \A m \in Number : m # n => files'[m] = files[m] /\ log'[m] = log[m]
    BY <1>1 DEF StoryInv, DiskTypeOK
  <1>4. DiskTypeOK' /\ ReaderTypeOK' /\ Chosen'
    BY <1>1, <1>2 DEF StoryInv, DiskTypeOK, ReaderTypeOK, Chosen
  <1>5. ASSUME NEW m \in Number PROVE WholeStory(m)'
    <2>1. CASE m = n
      BY <1>2, <1>3, <2>1 DEF WholeStory, ToSet
    <2>2. CASE m # n
      <3>1. WholeStory(m) /\ \A i \in Inv : Linked(m, i)' <=> Linked(m, i)
        BY <1>1, <1>3, <2>2 DEF StoryInv, Linked
      <3> QED
        BY <1>3, <2>2, <3>1 DEF WholeStory
    <2> QED
      BY <2>1, <2>2
  <1>6. ASSUME NEW w \in Writer PROVE Written(w)'
    <2>1. Written(w) /\ (Live(w) => Run(w) # n /\ Run(w) \in Number)
      BY DEF StoryInv, Deletes, Live, Written, HasNumber
    <2>2. Run(w)' = Run(w) /\ (HasNumber(w)' <=> HasNumber(w)) /\ (Live(w)' <=> Live(w))
          /\ (Writing(w)' <=> Writing(w))
      BY <1>1 DEF Run, HasNumber, HasRun, Live, Writing
    <2> QED
      BY <1>1, <1>3, <2>1, <2>2 DEF Written, Writing
  <1>7. Attended'
    <2>1. reader.run # n
      BY DEF Deletes
    <2>2. reader.at # "idle" => files'[reader.run] = files[reader.run]
      BY <1>3, <2>1 DEF StoryInv, Attended
    <2> QED
      BY <1>1, <2>2 DEF StoryInv, Attended, WholeNotes, Linked
  <1> QED
    BY <1>4, <1>5, <1>6, <1>7 DEF StoryInv

\* Nothing that is published is taken back.
LEMMA WorkersKeepStory ==
  ASSUME StoryInv, GivenInv', NEW n \in Number, NEW i \in Inv,
         Enters(n, i) \/ Chooses(n, i) \/ PublishesWorkspace(n, i) \/ SettlesExecution(n, i)
  PROVE  StoryInv'
  <1>0. dispatch[n][i].selection => dispatch[n][i].chosen
    BY DEF StoryInv, Chosen
  <1>1. dispatch[n][i] \in DispatchRecord
    BY DEF StoryInv, DiskTypeOK
  <1>2. PICK e \in DispatchRecord :
          /\ Works(n, i, e) /\ (dispatch[n][i].selection => e.selection)
          /\ e.selection => e.chosen
    <2> DEFINE d == dispatch[n][i]
               Good(e) == e \in DispatchRecord /\ (d.selection => e.selection)
                              /\ (e.selection => e.chosen)
    <2>1. /\ Good([d EXCEPT !.at = "entered"]) /\ Good([d EXCEPT !.at = "settled"])
          /\ \A told \in BOOLEAN : ~d.chosen => Good([d EXCEPT !.chosen = TRUE, !.selection = told])
          /\ Good([d EXCEPT !.workspace = TRUE])
          /\ d.chosen => Good([d EXCEPT !.selection = TRUE])
      BY <1>0, <1>1 DEF DispatchRecord
    <2>2. \E e : Good(e) /\ Works(n, i, e)
      <3>1. CASE Enters(n, i)
        BY <2>1, <3>1 DEF Enters
      <3>2. CASE Chooses(n, i)
        BY <2>1, <3>2 DEF Chooses
      <3>3. CASE PublishesWorkspace(n, i)
        BY <2>1, <3>3 DEF PublishesWorkspace
      <3>4. CASE SettlesExecution(n, i)
        BY <2>1, <3>4 DEF SettlesExecution
      <3> QED
        BY <3>1, <3>2, <3>3, <3>4
    <2> QED
      BY <2>2
  <1>3. dispatch' = [dispatch EXCEPT ![n] = [dispatch[n] EXCEPT ![i] = e]]
        /\ UNCHANGED <<files, log, writer, reader>>
    BY <1>2 DEF Works, disk
  <1>4. dispatch' \in [Number -> [Inv -> DispatchRecord]] /\ KeepsSelections
    BY <1>2, <1>3 DEF StoryInv, DiskTypeOK, KeepsSelections, Chosen
  <1>5. DiskTypeOK' /\ KeepsFiles
    BY <1>3, <1>4 DEF StoryInv, DiskTypeOK, KeepsFiles, WholeStory
  <1>6. \A w \in Writer : Written(w)'
    BY <1>3 DEF StoryInv, Written, HasNumber, HasRun, Live, Writing, Run
  <1> QED
    BY <1>3, <1>4, <1>5, <1>6, QuietStep

\* What the fold over the events says comes from its lines.
LEMMA ToldComesFromLines ==
  ASSUME NEW lines \in Seq(LineRecord), NEW i \in Inv
  PROVE  LET note == Told(Whole(lines))[i]
         IN  note = "none" \/ \E line \in ToSet(lines) :
                IsOutcome(line) /\ line.of = i /\ line.note = note
  <1>1. /\ \A k \in DOMAIN Whole(lines) : k \in DOMAIN lines /\ Whole(lines)[k] = lines[k]
    BY DEF Whole, EndsTorn, Front
  <1>2. Told(Whole(lines))[i] = IF Outcomes(Whole(lines), i) = {} THEN "none"
                   ELSE (CHOOSE line \in Outcomes(Whole(lines), i) : TRUE).note
    BY DEF Told
  <1>3. CASE Outcomes(Whole(lines), i) = {}
    BY <1>2, <1>3
  <1>4. CASE Outcomes(Whole(lines), i) # {}
    <2> DEFINE line == CHOOSE line \in Outcomes(Whole(lines), i) : TRUE
    <2>1. line \in Outcomes(Whole(lines), i)
      BY <1>4
    <2> HIDE DEF line
    <2>2. line \in ToSet(lines) /\ IsOutcome(line) /\ line.of = i
      BY <1>1, <2>1 DEF Outcomes, ToSet, IsOutcome
    <2> QED
      BY <1>2, <1>4, <2>2 DEF line
  <1> QED
    BY <1>3, <1>4

LEMMA ReaderKeepsRest ==
  ASSUME StoryInv, GivenInv', UNCHANGED <<disk, dispatch, writer>>, ReaderTypeOK', Attended'
  PROVE  StoryInv'
  BY DEF StoryInv, DiskTypeOK, disk, WholeStory, Linked, Chosen, Written, HasNumber, HasRun, Live,
         Writing, Run

\* A history is called complete for what its events say when they are read;
\* the executions they refer to stay published from then on.
LEMMA ReadsEventsKeepsStory ==
  ASSUME StoryInv, ReadsEvents
  PROVE  ReaderTypeOK' /\ Attended'
  <1> DEFINE lines == log[reader.run]
             notes == Told(Whole(lines))
  <1>1. /\ reader.at = "events" /\ UNCHANGED <<files, dispatch>>
        /\ reader.run \in Number /\ files[reader.run].made /\ reader \in ReaderRecord
        /\ reader.answer = "none"
    BY DEF ReadsEvents, Reads, disk, StoryInv, Attended, ReaderTypeOK
  <1>2. lines \in Seq(LineRecord) /\ WholeStory(reader.run)
    BY <1>1 DEF StoryInv, DiskTypeOK
  <1>3. CASE reader' = Answers(reader, "refused")
    BY <1>1, <1>3 DEF Answers, ReaderRecord, ReaderTypeOK, ReaderStep, Answer, StoryInv,
                      Attended, WholeNotes, Linked
  <1>4. CASE /\ reader' = [reader EXCEPT !.notes = notes, !.status = Concluded(lines),
                                         !.at = "persistence"]
             /\ Final(lines) # {} => \A i \in Inv : notes[i] # "none"
    <2>1. \A i \in Inv : notes[i] = "none" \/ \E line \in ToSet(lines) :
              IsOutcome(line) /\ line.of = i /\ line.note = notes[i]
      BY <1>2, ToldComesFromLines
    <2>2. notes \in [Inv -> Note]
      <3>1. \A i \in Inv : notes[i] \in Note
        BY <1>2, <2>1 DEF WholeStory, Note
      <3> QED
        BY <3>1 DEF Told
    <2>3. Concluded(lines) \in Status
      BY DEF Concluded, Status
    <2>4. ASSUME Concluded(lines) = "complete", NEW i \in Inv
          PROVE  notes[i] \in {"bare", "live"} /\ (notes[i] = "live" => Linked(reader.run, i))
      <3>1. PICK final \in ToSet(lines) : IsFinal(final) /\ final.note # "degraded"
        BY <2>4 DEF Concluded, Final, IsFinal
      <3>2. final.note = "complete"
        BY <1>2, <3>1 DEF WholeStory
      <3>3. \A other \in ToSet(lines) : IsOutcome(other) => other.note # "late"
        BY <1>2, <3>1, <3>2 DEF WholeStory
      <3>4. Final(lines) # {}
        BY <3>1 DEF Final, IsFinal
      <3>5. PICK line \in ToSet(lines) : IsOutcome(line) /\ line.of = i /\ line.note = notes[i]
        BY <1>4, <2>1, <3>4
      <3> QED
        BY <1>2, <3>3, <3>5 DEF WholeStory
    <2> HIDE DEF notes, lines
    <2>5. /\ reader'.notes = notes /\ reader'.status = Concluded(lines) /\ reader'.at = "persistence"
          /\ reader'.run = reader.run /\ reader'.answer = reader.answer
      BY <1>1, <1>4 DEF ReaderRecord
    <2>6. ReaderTypeOK'
      BY <1>1, <1>4, <2>2, <2>3 DEF ReaderTypeOK, ReaderRecord, ReaderStep
    <2>7. reader'.status = "complete" => WholeNotes'
      BY <1>1, <2>4, <2>5 DEF WholeNotes, Linked
    <2> QED
      BY <1>1, <2>5, <2>6, <2>7 DEF Attended
  <1> QED
    BY <1>3, <1>4 DEF ReadsEvents, Reads

LEMMA ReaderKeepsStory ==
  ASSUME StoryInv, Reader
  PROVE  ReaderTypeOK' /\ Attended'
  <1>1. reader \in ReaderRecord /\ UNCHANGED <<files, dispatch>>
    BY DEF StoryInv, ReaderTypeOK, Reader, Asks, ReadsEvents, ReadsPersistence, ReadsWorkspace,
           Concludes, ReadsSelection, LooksForEvidence, ReadsExcuse, Rests, Reads, disk
  <1>3. ASSUME NEW n \in Number, NEW q \in Questions, Asks(n, q)
        PROVE  ReaderTypeOK' /\ Attended'
    <2>1. files[n].made
      BY <1>3 DEF Asks, StoryInv, WholeStory
    <2> QED
      BY <1>1, <1>3, <2>1
      DEF Asks, Reads, Resting, Silent, ReaderTypeOK, ReaderRecord, ReaderStep, Status, Answer,
          Note, Attended
  <1>4. CASE ReadsPersistence
    BY <1>1, <1>4
    DEF ReadsPersistence, Reads, ReaderTypeOK, ReaderRecord, ReaderStep, Status, StoryInv,
        Attended, WholeNotes, Linked
  <1>5. ASSUME NEW i \in Inv, ReadsSelection(i)
        PROVE  ReaderTypeOK' /\ Attended'
    <2>1. reader.at = "rows" /\ reader.run \in Number /\ files[reader.run] \in FileRecord
      BY <1>5 DEF ReadsSelection, Reads, StoryInv, Attended, DiskTypeOK
    <2>2. files[reader.run].link[i] \in Number \cup {NoRun}
      BY <2>1 DEF FileRecord
    <2>3. CASE files[reader.run].link[i] = NoRun
      BY <1>1, <1>5, <2>1, <2>3
      DEF ReadsSelection, Reads, ReaderTypeOK, ReaderRecord, StoryInv, Attended, WholeNotes, Linked
    <2>4. CASE files[reader.run].link[i] # NoRun
      <3>1. Execution(reader.run, i).selection \in BOOLEAN
        BY <2>1, <2>2, <2>4 DEF Execution, StoryInv, DiskTypeOK, DispatchRecord
      <3>2. reader' = [reader EXCEPT !.at = "workspace", !.inv = i,
                                     !.seen = Execution(reader.run, i).selection]
        BY <1>5, <2>4 DEF ReadsSelection, Reads
      <3> QED
        BY <1>1, <2>1, <2>2, <2>4, <3>1, <3>2
        DEF ReaderTypeOK, ReaderRecord, ReaderStep, StoryInv, Attended, WholeNotes, Linked
    <2> QED
      BY <2>3, <2>4
  <1>6. CASE ReadsWorkspace
    <2> DEFINE next == [reader EXCEPT !.at = "rows", !.todo = @ \ {reader.inv}, !.inv = NoInv,
                                      !.seen = FALSE]
    <2>1. reader.at = "workspace" /\ (reader' = Answers(reader, "refused") \/ reader' = next)
      BY <1>6 DEF ReadsWorkspace, Reads
    <2>2. CASE reader' = Answers(reader, "refused")
      BY <1>1, <2>1, <2>2
      DEF Answers, ReaderTypeOK, ReaderRecord, ReaderStep, Answer, StoryInv, Attended,
          WholeNotes, Linked
    <2>3. CASE reader' = next
      BY <1>1, <2>1, <2>3
      DEF ReaderTypeOK, ReaderRecord, ReaderStep, StoryInv, Attended, WholeNotes, Linked
    <2> QED
      BY <2>1, <2>2, <2>3
  <1>7. CASE Concludes
    BY <1>1, <1>7
    DEF Concludes, Reads, Answers, ReaderTypeOK, ReaderRecord, ReaderStep, Answer, Status,
        StoryInv, Attended, WholeNotes, Linked
  <1>8. CASE LooksForEvidence
    BY <1>1, <1>8
    DEF LooksForEvidence, Reads, Answers, ReaderTypeOK, ReaderRecord, ReaderStep, Answer,
        StoryInv, Attended, WholeNotes, Linked
  <1>9. CASE ReadsExcuse
    <2>1. PICK answer \in {"refused", "pending", "unavailable"} :
             reader.at = "excuse" /\ reader' = Answers(reader, answer)
      BY <1>9 DEF ReadsExcuse, Reads
    <2> QED
      BY <1>1, <2>1
      DEF Answers, ReaderTypeOK, ReaderRecord, ReaderStep, Answer, StoryInv, Attended,
          WholeNotes, Linked
  <1>10. CASE Rests
    BY <1>10 DEF Rests, Reads, Resting, Silent, ReaderTypeOK, ReaderRecord, ReaderStep, Status,
                 Answer, Note, Attended
  <1> QED
    BY <1>3, <1>4, <1>5, <1>6, <1>7, <1>8, <1>9, <1>10, ReadsEventsKeepsStory DEF Reader

LEMMA StoryIsKept == StoryInv /\ [HNext]_hvars => StoryInv'
  <1> SUFFICES ASSUME StoryInv, [HNext]_hvars PROVE StoryInv'
    OBVIOUS
  <1>1. GivenInv'
    BY NextKeepsNumbers DEF StoryInv
  <1>2. ASSUME NEW w \in Writer, Writes(w) PROVE StoryInv'
    BY <1>1, <1>2, ReservesKeepsStory, LocatesKeepsStory, StartsKeepsStory, DocumentsKeepStory,
       AppendsPreparedKeepsStory, FinishesKeepsStory, DiesKeepsStory, BindsKeepsStory,
       ObservesKeepsStory DEF Writes
  <1>3. CASE Reader
    <2>1. UNCHANGED <<disk, dispatch, writer>>
      BY <1>3 DEF Reader, Asks, ReadsEvents, ReadsPersistence, ReadsWorkspace, Concludes,
                  ReadsSelection, LooksForEvidence, ReadsExcuse, Rests, Reads
    <2> QED
      BY <1>1, <1>3, <2>1, ReaderKeepsStory, ReaderKeepsRest
  <1>4. CASE UNCHANGED hvars
    BY <1>1, <1>4 DEF hvars, disk, StoryInv, DiskTypeOK, WholeStory, Linked, Chosen, Written, HasNumber,
                      HasRun, Live, Writing, Run, ReaderTypeOK, Attended, WholeNotes
  <1> QED
    BY <1>1, <1>2, <1>3, <1>4, DeletesKeepsStory, WorkersKeepStory DEF HNext

LEMMA StoryBegins == HInit => StoryInv
  <1> SUFFICES ASSUME HInit PROVE StoryInv
    OBVIOUS
  <1>1. GivenInv
    BY DEF HInit, GivenInv, WriterTypeOK, Writers, WriterState, WriterStep, Note, NumberInv,
           HasNumber, HasRun, Unwritten
  <1>2. DiskTypeOK
    <2>1. ASSUME NEW n \in Number PROVE [NoFiles EXCEPT !.made = n \in Foreign] \in FileRecord
      <3>1. (n \in Foreign) \in BOOLEAN
        OBVIOUS
      <3> QED
        BY <3>1 DEF NoFiles, FileRecord
    <2>2. files \in [Number -> FileRecord]
      BY <2>1 DEF HInit
    <2>3. NotStarted \in DispatchRecord
      BY DEF NotStarted, DispatchRecord
    <2>4. dispatch \in [Number -> [Inv -> DispatchRecord]]
      BY <2>3 DEF HInit
    <2>5. log \in [Number -> Seq(LineRecord)]
      BY DEF HInit
    <2> QED
      BY <2>2, <2>4, <2>5 DEF DiskTypeOK
  <1>3. ReaderTypeOK /\ Attended /\ Chosen
    BY DEF HInit, Chosen, NotStarted, ReaderTypeOK, ReaderRecord, Resting, Silent, ReaderStep, Status, Answer, Note,
           Attended
  <1>4. \A n \in Number : WholeStory(n)
    BY DEF HInit, WholeStory, NoFiles, ToSet
  <1>5. \A w \in Writer : Written(w)
    BY DEF HInit, Written, HasNumber, HasRun, Live, Writing, Unwritten
  <1> QED
    BY <1>1, <1>2, <1>3, <1>4, <1>5 DEF StoryInv

LEMMA StoryHolds == HSpec => []StoryInv
  BY StoryBegins, StoryIsKept, PTL DEF HSpec

\* "complete" is never said of a history with an invocation that is not
\* accounted for, with a reference that came late, or with one that points to
\* nothing, whatever fails, dies or is removed while it is read.
THEOREM CompletenessIsTrue == HSpec => []CompleteIsWhole
  <1>1. StoryInv => CompleteIsWhole
    BY DEF StoryInv, Attended, WholeNotes, Linked, Execution, CompleteIsWhole
  <1> QED
    BY <1>1, StoryHolds, PTL

-----------------------------------------------------------------------------
(* What stays: that run_prepared could not be appended, and the evidence    *)
(* that is published before it.                                             *)

\* A run whose run_prepared failed is known as one for good.
LEMMA SlippedStays ==
  ASSUME StoryInv, [HNext]_hvars
  PROVE  \A n \in Number : Slipped(n) => Slipped(n)'
  <1>1. writer \in [Writer -> WriterState]
    BY DEF StoryInv, GivenInv, WriterTypeOK, Writers
  <1> DEFINE Stays(v) == HasRun(v) => HasRun(v)' /\ Run(v)' = Run(v)
                                      /\ (writer[v].slipped => writer'[v].slipped)
  <1>2. ASSUME NEW w \in Writer, Writes(w), NEW v \in Writer PROVE Stays(v)
    <2>0. writer[v] \in WriterState /\ writer[w] \in WriterState
      BY <1>1
    <2>1. CASE Reserves(w)
      BY <1>1, <2>0, <2>1 DEF Reserves, Goto, HasRun, Run, WriterState
    <2>2. CASE Locates(w)
      BY <1>1, <2>0, <2>2 DEF Locates, At, Goto, HasRun, Run, WriterState
    <2>3. CASE Starts(w)
      BY <1>1, <2>0, <2>3 DEF Starts, HasRun, Run, WriterState
    <2>4. CASE Heads(w) \/ PublishesEvidence(w) \/ Finishing(w)
      BY <1>1, <2>0, <2>4 DEF Heads, PublishesEvidence, Finishing, Goto, HasRun, Run, WriterState
    <2>5. CASE AppendsPrepared(w)
      <3>1. \/ writer' = [writer EXCEPT ![w].at = "running", ![w].seq = @ + 1]
            \/ writer' = [writer EXCEPT ![w].at = "finish", ![w].slipped = TRUE]
        BY <2>5 DEF AppendsPrepared
      <3>2. CASE writer' = [writer EXCEPT ![w].at = "running", ![w].seq = @ + 1]
        BY <1>1, <2>0, <3>2 DEF HasRun, Run, WriterState
      <3>3. CASE writer' = [writer EXCEPT ![w].at = "finish", ![w].slipped = TRUE]
        <4>1. writer'[v].slipped = (writer[v].slipped \/ v = w) /\ writer'[v].number = writer[v].number
          BY <1>1, <2>0, <3>3 DEF WriterState
        <4>2. writer'[v].at = IF v = w THEN "finish" ELSE writer[v].at
          BY <1>1, <2>0, <3>3 DEF WriterState
        <4> QED
          BY <4>1, <4>2 DEF HasRun, Run
      <3> QED
        BY <3>1, <3>2, <3>3
    <2>6. ASSUME NEW i \in Inv, Binds(w, i) PROVE Stays(v)
      BY <2>6 DEF Binds, HasRun, Run
    <2>7. ASSUME NEW i \in Inv, Observes(w, i) PROVE Stays(v)
      <3>1. \E note, t : writer' = [writer EXCEPT ![w].outcome[i] = note, ![w].seq = @ + 1,
                  ![w].stuck = @ \/ t.failed, ![w].failed = @ \/ (t.failed \/ Degrading(note))]
        BY <2>7 DEF Observes
      <3> QED
        BY <1>1, <2>0, <3>1 DEF HasRun, Run, WriterState
    <2>8. CASE Finishes(w) \/ Dies(w)
      <3>1. writer' = [writer EXCEPT ![w] = Left(w)]
        BY <2>8 DEF Finishes, Dies
      <3>2. /\ Left(w).number = writer[w].number /\ Left(w).slipped = writer[w].slipped
            /\ HasRun(w) => Left(w).at = "over"
        BY DEF Left, Unwritten
      <3> QED
        BY <1>1, <3>1, <3>2 DEF HasRun, Run
    <2> QED
      BY <1>2, <2>1, <2>2, <2>3, <2>4, <2>5, <2>6, <2>7, <2>8 DEF Writes
  <1>3. ASSUME UNCHANGED writer, NEW v \in Writer PROVE Stays(v)
    BY <1>3 DEF HasRun, Run
  <1>4. (\E w \in Writer : Writes(w)) \/ UNCHANGED writer
    <2>1. ASSUME NEW n \in Number, NEW i \in Inv,
                 Enters(n, i) \/ Chooses(n, i) \/ PublishesWorkspace(n, i) \/ SettlesExecution(n, i)
          PROVE  UNCHANGED writer
      BY <2>1 DEF Enters, Chooses, PublishesWorkspace, SettlesExecution, Works
    <2>2. CASE Reader
      BY <2>2 DEF Reader, Asks, ReadsEvents, ReadsPersistence, ReadsWorkspace, Concludes,
                  ReadsSelection, LooksForEvidence, ReadsExcuse, Rests, Reads
    <2> QED
      BY <2>1, <2>2 DEF HNext, Deletes, hvars
  <1>5. \A v \in Writer : Stays(v)
    BY <1>2, <1>3, <1>4
  <1> QED
    BY <1>5 DEF Slipped

IsPrepared(line) == line.kind = "run_prepared"

\* The event that says a run is prepared comes after its evidence, and only who
\* asks for the evidence looks for an excuse.
EvidenceInv ==
    /\ \A n \in Number : \A line \in ToSet(log[n]) : IsPrepared(line) => files[n].evidence
    /\ \A w \in Writer : writer[w].at = "prepared" => files[Run(w)].evidence
    /\ reader.at \in {"captured", "excuse"} => reader.question = "reproducibility"

\* No evidence is lost, and what is said to be prepared has it.
KeepsEvidence ==
    /\ \A n \in Number : files[n].evidence => files'[n].evidence
    /\ \A n \in Number : \A line \in ToSet(log'[n]) :
          IsPrepared(line) => line \in ToSet(log[n]) \/ files'[n].evidence
    /\ \A w \in Writer : writer'[w].at = "prepared" =>
          \/ files'[Run(w)'].evidence
          \/ writer[w].at = "prepared" /\ Run(w)' = Run(w)

LEMMA KeptEvidence ==
  ASSUME StoryInv, EvidenceInv, KeepsEvidence, UNCHANGED reader
  PROVE  EvidenceInv'
  <1>1. \A w \in Writer : writer[w].at = "prepared" => Run(w) \in Number
    BY OwnNumber DEF HasNumber, HasRun
  <1> QED
    BY <1>1 DEF EvidenceInv, KeepsEvidence

\* What an append adds to the log of a run that has its evidence, or does not
\* speak of any.
LEMMA AppendKeepsEvidence ==
  ASSUME StoryInv, NEW r \in Number, NEW line, NEW new, Adds(new, log[r], line),
         log' = [log EXCEPT ![r] = new], IsPrepared(line) => files'[r].evidence,
         \A n \in Number : files[n].evidence => files'[n].evidence,
         \A w \in Writer : writer'[w].at = "prepared" =>
            writer[w].at = "prepared" /\ Run(w)' = Run(w)
  PROVE  KeepsEvidence
  <1>1. log'[r] = new /\ \A n \in Number : n # r => log'[n] = log[n]
    BY DEF StoryInv, DiskTypeOK
  <1>2. ~IsPrepared(Torn) /\ ~IsPrepared(Garbled)
    BY DEF IsPrepared, Torn, Garbled, Line
  <1>3. \A n \in Number : \A l \in ToSet(log'[n]) :
          IsPrepared(l) => l \in ToSet(log[n]) \/ files'[n].evidence
    BY <1>1, <1>2 DEF Adds
  <1> QED
    BY <1>3 DEF KeepsEvidence

LEMMA DegradesKeepsEvidence ==
  ASSUME StoryInv, NEW w \in Writer, Run(w) \in Number, NEW news, Degrades(w, news)
  PROVE  \A n \in Number : files[n].evidence => files'[n].evidence
  <1>1. CASE news
    <2>1. PICK told \in BOOLEAN :
            files' = [files EXCEPT ![Run(w)] = [files[Run(w)] EXCEPT !.persistence = @ \/ told]]
      BY <1>1 DEF Degrades, Publishes
    <2> DEFINE f == [files[Run(w)] EXCEPT !.persistence = @ \/ told]
    <2>2. files[Run(w)] \in FileRecord
      BY DEF StoryInv, DiskTypeOK
    <2>3. f.evidence = files[Run(w)].evidence
      BY <2>2 DEF FileRecord
    <2> HIDE DEF f
    <2>4. files' = [files EXCEPT ![Run(w)] = f]
      BY <2>1 DEF f
    <2> QED
      BY <2>3, <2>4 DEF StoryInv, DiskTypeOK
  <1>2. CASE ~news
    BY <1>2 DEF Degrades
  <1> QED
    BY <1>1, <1>2

LEMMA WritersKeepEvidence ==
  ASSUME StoryInv, EvidenceInv, NEW w \in Writer, Writes(w), ~Locates(w)
  PROVE  KeepsEvidence
  <1>0. writer \in [Writer -> WriterState] /\ writer[w] \in WriterState
    BY DEF StoryInv, GivenInv, WriterTypeOK, Writers
  <1>1. CASE Reserves(w)
    <2>1. /\ writer'[w].at # "prepared" /\ \A v \in Writer : v # w => writer'[v] = writer[v]
          /\ UNCHANGED <<files, log>>
      BY <1>0, <1>1 DEF Reserves, Goto, WriterState
    <2> QED
      BY <2>1 DEF KeepsEvidence, Run
  <1>2. CASE Starts(w)
    <2>1. /\ writer'[w].at # "prepared" /\ \A v \in Writer : v # w => writer'[v] = writer[v]
          /\ UNCHANGED files
          /\ log' = [log EXCEPT ![Run(w)] = <<Line("run_started", NoInv, 1, "none")>>]
      BY <1>0, <1>2 DEF Starts, WriterState
    <2>2. \A n \in Number : \A l \in ToSet(log'[n]) : IsPrepared(l) => l \in ToSet(log[n])
      BY <2>1 DEF StoryInv, DiskTypeOK, IsPrepared, Line, ToSet
    <2> QED
      BY <2>1, <2>2 DEF KeepsEvidence, Run
  <1>3. CASE Heads(w) \/ PublishesEvidence(w)
    <2>1. PICK r \in Number : r = Run(w)
      BY <1>3, OwnNumber DEF Heads, PublishesEvidence, At, HasNumber, HasRun
    <2>2. files[r] \in FileRecord /\ UNCHANGED log
      BY <1>3 DEF Heads, PublishesEvidence, StoryInv, DiskTypeOK
    <2>3. PICK f \in FileRecord :
             /\ files' = [files EXCEPT ![r] = f]
             /\ files[r].evidence => f.evidence
             /\ writer'[w].at = "prepared" => f.evidence
      <3>1. CASE Heads(w)
        <4> DEFINE g == [files[r] EXCEPT !.header = TRUE]
        <4>1. g \in FileRecord /\ g.evidence = files[r].evidence
          BY <2>2 DEF FileRecord
        <4>2. files' = [files EXCEPT ![r] = g] /\ writer'[w].at # "prepared"
          BY <1>0, <2>1, <3>1 DEF Heads, Publishes, Goto, WriterState
        <4> HIDE DEF g
        <4> QED
          BY <4>1, <4>2
      <3>2. CASE PublishesEvidence(w)
        <4> DEFINE g == [files[r] EXCEPT !.evidence = TRUE]
        <4>1. g \in FileRecord /\ g.evidence
          BY <2>2 DEF FileRecord
        <4>2. files' = [files EXCEPT ![r] = g]
          BY <2>1, <3>2 DEF PublishesEvidence, Publishes
        <4> HIDE DEF g
        <4> QED
          BY <4>1, <4>2
      <3> QED
        BY <1>3, <3>1, <3>2
    <2>4. files'[r] = f /\ \A n \in Number : n # r => files'[n] = files[n]
      <3>1. files' = [files EXCEPT ![r] = f]
        BY <2>3
      <3> QED
        BY <3>1 DEF StoryInv, DiskTypeOK
    <2>5. /\ Run(w)' = r /\ \A v \in Writer : v # w => writer'[v] = writer[v]
      BY <1>0, <1>3, <2>1 DEF Heads, PublishesEvidence, Goto, WriterState, Run
    <2>6. (files[r].evidence => f.evidence) /\ (writer'[w].at = "prepared" => f.evidence)
      BY <2>3
    <2>7. \A n \in Number : files[n].evidence => files'[n].evidence
      BY <2>4, <2>6
    <2>8. \A v \in Writer : writer'[v].at = "prepared" =>
             \/ files'[Run(v)'].evidence
             \/ writer[v].at = "prepared" /\ Run(v)' = Run(v)
      BY <2>4, <2>5, <2>6 DEF Run
    <2> QED
      BY <2>2, <2>7, <2>8 DEF KeepsEvidence
  <1>4. CASE Finishing(w)
    <2>1. /\ writer'[w].at # "prepared" /\ \A v \in Writer : v # w => writer'[v] = writer[v]
          /\ UNCHANGED <<files, log>>
      BY <1>0, <1>4 DEF Finishing, Goto, disk, WriterState
    <2> QED
      BY <2>1 DEF KeepsEvidence, Run
  <1>5. CASE AppendsPrepared(w)
    <2> DEFINE line == Entry(w, "run_prepared", NoInv, "none")
    <2>1. PICK r \in Number : r = Run(w)
      BY <1>5, OwnNumber DEF AppendsPrepared, At, HasNumber, HasRun
    <2>2. log[r] \in Seq(LineRecord) /\ line \in LineRecord /\ files[r].evidence
      BY <1>5, <2>1, EntryIsLine DEF StoryInv, DiskTypeOK, Kind, Note, EvidenceInv, AppendsPrepared, At
    <2>3. \/ log' = [log EXCEPT ![r] = Extended(log[r], line)]
          \/ \E rest \in Remains(log[r], line) : log' = [log EXCEPT ![r] = rest]
      BY <1>5, <2>1 DEF AppendsPrepared
    <2> HIDE DEF line
    <2>4. PICK new : log' = [log EXCEPT ![r] = new] /\ Adds(new, log[r], line)
      BY <2>2, <2>3, ExtendedAdds, RemainsAdds
    <2>5. /\ writer'[w].at # "prepared" /\ \A v \in Writer : v # w => writer'[v] = writer[v]
          /\ UNCHANGED files
      BY <1>0, <1>5 DEF AppendsPrepared, WriterState
    <2> QED
      BY <2>2, <2>4, <2>5, AppendKeepsEvidence DEF Run
  <1>6. ASSUME NEW i \in Inv, Binds(w, i) PROVE KeepsEvidence
    <2>1. PICK r \in Number : r = Run(w)
      BY <1>6, OwnNumber DEF Binds, At, HasNumber, HasRun
    <2>2. PICK m \in Number : files' = [files EXCEPT ![r] = [files[r] EXCEPT !.link[i] = m]]
      BY <1>6, <2>1 DEF Binds, Publishes
    <2> DEFINE f == [files[r] EXCEPT !.link[i] = m]
    <2>3. f.evidence = files[r].evidence
      BY DEF StoryInv, DiskTypeOK, FileRecord
    <2>4. files' = [files EXCEPT ![r] = f] /\ UNCHANGED <<log, writer>>
      BY <1>6, <2>2 DEF Binds
    <2> HIDE DEF f
    <2>5. \A n \in Number : files[n].evidence => files'[n].evidence
      BY <2>3, <2>4 DEF StoryInv, DiskTypeOK
    <2> QED
      BY <2>4, <2>5 DEF KeepsEvidence, Run
  <1>7. ASSUME NEW i \in Inv, Observes(w, i) PROVE KeepsEvidence
    <2>1. PICK r \in Number : r = Run(w)
      BY <1>7, OwnNumber DEF Observes, HasNumber, HasRun
    <2>2. PICK note \in Notes(w, i) :
            \E t \in Tries(w, Entry(w, "invocation_outcome", i, note)) :
               /\ log' = [log EXCEPT ![Run(w)] = t.lines]
               /\ TakesNote(w, i, note, t.failed, t.failed \/ Degrading(note))
               /\ Degrades(w, t.failed \/ Degrading(note))
      BY <1>7 DEF Observes, TakesNote
    <2>8. note \in {"bare", "live", "late"}
      BY DEF Notes
    <2> DEFINE line == Entry(w, "invocation_outcome", i, note)
    <2>3. PICK t \in Tries(w, line) :
               /\ log' = [log EXCEPT ![r] = t.lines]
               /\ TakesNote(w, i, note, t.failed, t.failed \/ Degrading(note))
               /\ Degrades(w, t.failed \/ Degrading(note))
      BY <2>1, <2>2
    <2>4. line \in LineRecord /\ ~IsPrepared(line)
      BY <2>8, EntryIsLine DEF Kind, Note, IsPrepared
    <2> HIDE DEF line
    <2>5. Adds(t.lines, log[r], line)
      BY <2>1, <2>4, TriesAdds DEF StoryInv, DiskTypeOK
    <2>6. \A n \in Number : files[n].evidence => files'[n].evidence
      BY <2>1, <2>3, DegradesKeepsEvidence
    <2>7. \A v \in Writer : writer'[v].at = "prepared" => writer[v].at = "prepared" /\ Run(v)' = Run(v)
      BY <2>3, ObservedWriter DEF StoryInv, GivenInv, Run
    <2> QED
      BY <2>3, <2>4, <2>5, <2>6, <2>7, AppendKeepsEvidence
  <1>8. CASE Finishes(w)
    <2>1. PICK r \in Number : r = Run(w)
      BY <1>8, OwnNumber DEF Finishes, HasNumber, HasRun
    <2> DEFINE note == IF writer[w].failed THEN "degraded" ELSE "complete"
               line == Entry(w, "run_finished", NoInv, note)
    <2>2. PICK t \in Tries(w, line) : log' = [log EXCEPT ![r] = t.lines] /\ Degrades(w, t.failed)
      BY <1>8, <2>1 DEF Finishes
    <2>3. line \in LineRecord /\ ~IsPrepared(line)
      <3>1. note \in {"degraded", "complete"}
        OBVIOUS
      <3> HIDE DEF note
      <3> QED
        BY <3>1, EntryIsLine DEF Kind, IsPrepared
    <2> HIDE DEF line
    <2>4. Adds(t.lines, log[r], line)
      BY <2>1, <2>3, TriesAdds DEF StoryInv, DiskTypeOK
    <2>5. \A n \in Number : files[n].evidence => files'[n].evidence
      BY <2>1, <2>2, DegradesKeepsEvidence
    <2>6. \A v \in Writer : writer'[v].at = "prepared" => writer[v].at = "prepared" /\ Run(v)' = Run(v)
      <3>1. writer' = [writer EXCEPT ![w] = Left(w)]
        BY <1>8 DEF Finishes
      <3>2. /\ \A v \in Writer : v # w => writer'[v] = writer[v]
            /\ writer'[w].at \in {"over", "gone"}
        BY <3>1, LeftWriter
      <3> QED
        BY <3>2 DEF Run
    <2> QED
      BY <2>2, <2>3, <2>4, <2>5, <2>6, AppendKeepsEvidence
  <1>9. CASE Dies(w)
    <2>1. \A v \in Writer : writer'[v].at = "prepared" => writer[v].at = "prepared" /\ Run(v)' = Run(v)
      <3>1. writer' = [writer EXCEPT ![w] = Left(w)]
        BY <1>9 DEF Dies
      <3>2. /\ \A v \in Writer : v # w => writer'[v] = writer[v]
            /\ writer'[w].at \in {"over", "gone"}
        BY <3>1, LeftWriter
      <3> QED
        BY <3>2 DEF Run
    <2>2. UNCHANGED files
      BY <1>9 DEF Dies
    <2>3. CASE UNCHANGED log
      BY <2>1, <2>2, <2>3 DEF KeepsEvidence
    <2>4. CASE /\ writer[w].at \in {"prepared", "running", "finish"}
               /\ log' = [log EXCEPT ![Run(w)] = Extended(@, Torn)]
      <3>1. PICK r \in Number : r = Run(w)
        BY <2>4, OwnNumber DEF HasNumber, HasRun
      <3>2. Torn \in LineRecord /\ ~IsPrepared(Torn)
        BY DEF Torn, Line, LineRecord, Kind, Note, IsPrepared
      <3> DEFINE new == Extended(log[r], Torn)
      <3>3. Adds(new, log[r], Torn) /\ log' = [log EXCEPT ![r] = new]
        BY <2>4, <3>1, <3>2, ExtendedAdds DEF StoryInv, DiskTypeOK
      <3> HIDE DEF new
      <3> QED
        BY <2>1, <2>2, <3>2, <3>3, AppendKeepsEvidence
    <2> QED
      BY <1>9, <2>3, <2>4 DEF Dies
  <1> QED
    BY <1>1, <1>2, <1>3, <1>4, <1>5, <1>6, <1>7, <1>8, <1>9 DEF Writes

\* A run that is being read keeps its evidence.
LEMMA EvidenceIsKept ==
  ASSUME StoryInv, EvidenceInv, [HNext]_hvars
  PROVE  /\ EvidenceInv'
         /\ reader.run \in Number /\ reader.at # "idle" /\ files[reader.run].evidence =>
               files'[reader.run].evidence
  <1>1. ASSUME KeepsEvidence, UNCHANGED reader
        PROVE  /\ EvidenceInv'
               /\ \A n \in Number : files[n].evidence => files'[n].evidence
    BY <1>1, KeptEvidence DEF KeepsEvidence
  <1>2. ASSUME NEW w \in Writer, Writes(w), ~Locates(w)
        PROVE  KeepsEvidence /\ UNCHANGED reader
    BY <1>2, WritersKeepEvidence
    DEF Writes, Reserves, Starts, Heads, PublishesEvidence, AppendsPrepared, Finishing, Finishes,
        Dies, Binds, Observes
  <1>3. ASSUME NEW n \in Number, UNCHANGED reader, reader.at # "idle" => reader.run # n,
               log'[n] = <<>>,
               \A m \in Number : m # n => files'[m] = files[m] /\ log'[m] = log[m],
               \A v \in Writer : writer'[v].at = "prepared" =>
                  writer[v].at = "prepared" /\ Run(v)' = Run(v) /\ Run(v) # n
        PROVE  /\ EvidenceInv'
               /\ reader.run \in Number /\ reader.at # "idle" /\ files[reader.run].evidence =>
                     files'[reader.run].evidence
    <2>1. \A v \in Writer : writer[v].at = "prepared" => Run(v) \in Number
      BY OwnNumber DEF HasNumber, HasRun
    <2>2. \A m \in Number : \A line \in ToSet(log'[m]) :
             IsPrepared(line) => m # n /\ line \in ToSet(log[m])
      BY <1>3 DEF ToSet
    <2> QED
      BY <1>3, <2>1, <2>2 DEF EvidenceInv
  <1>4. ASSUME NEW w \in Writer, Locates(w)
        PROVE  /\ EvidenceInv'
               /\ reader.run \in Number /\ reader.at # "idle" /\ files[reader.run].evidence =>
                     files'[reader.run].evidence
    <2>0. writer \in [Writer -> WriterState] /\ writer[w] \in WriterState
      BY DEF StoryInv, GivenInv, WriterTypeOK, Writers
    <2>1. PICK r \in Number : r = Run(w)
      BY <1>4, OwnNumber DEF Locates, At, HasNumber
    <2>2. /\ writer'[w].at # "prepared" /\ \A v \in Writer : v # w => writer'[v] = writer[v]
          /\ UNCHANGED <<log, reader>>
      BY <1>4, <2>0 DEF Locates, Goto, WriterState
    <2>3. CASE files[r].made
      <3>1. UNCHANGED files
        BY <1>4, <2>1, <2>3 DEF Locates
      <3>2. KeepsEvidence
        BY <2>2, <3>1 DEF KeepsEvidence, Run
      <3> QED
        BY <1>1, <2>2, <3>2
    <2>4. CASE ~files[r].made
      <3>1. log[r] = <<>> /\ (reader.at # "idle" => reader.run # r)
        BY <2>4 DEF StoryInv, WholeStory, Attended
      <3>2. \A m \in Number : m # r => files'[m] = files[m]
        BY <1>4, <2>1, <2>4 DEF Locates, Publishes, StoryInv, DiskTypeOK
      <3>3. \A v \in Writer : writer'[v].at = "prepared" =>
              writer[v].at = "prepared" /\ Run(v)' = Run(v) /\ Run(v) # r
        BY <1>4, <2>1, <2>2, OwnNumber DEF Locates, At, HasNumber, HasRun, Run
      <3> QED
        BY <1>3, <2>2, <3>1, <3>2, <3>3
    <2> QED
      BY <2>3, <2>4
  <1>5. ASSUME NEW n \in Number, Deletes(n)
        PROVE  /\ EvidenceInv'
               /\ reader.run \in Number /\ reader.at # "idle" /\ files[reader.run].evidence =>
                     files'[reader.run].evidence
    <2>1. /\ reader.run # n /\ UNCHANGED <<writer, reader>>
          /\ files' = [files EXCEPT ![n] = NoFiles] /\ log' = [log EXCEPT ![n] = <<>>]
      BY <1>5 DEF Deletes, Publishes
    <2>2. \A v \in Writer : writer[v].at = "prepared" => Run(v) # n
      BY <1>5 DEF Deletes, HasRun
    <2>3. log'[n] = <<>> /\ \A m \in Number : m # n => files'[m] = files[m] /\ log'[m] = log[m]
      BY <2>1 DEF StoryInv, DiskTypeOK
    <2> QED
      BY <1>3, <2>1, <2>2, <2>3 DEF Run
  <1>6. ASSUME UNCHANGED <<files, log, writer>>,
               reader'.at \in {"captured", "excuse"} => reader'.question = "reproducibility"
        PROVE  EvidenceInv'
    BY <1>6 DEF EvidenceInv, Run
  <1>7. CASE Reader
    <2>1. UNCHANGED <<files, log, writer>>
      BY <1>7 DEF Reader, Asks, ReadsEvents, ReadsPersistence, ReadsWorkspace, Concludes,
                  ReadsSelection, LooksForEvidence, ReadsExcuse, Rests, Reads, disk
    <2>2. reader'.at \in {"captured", "excuse"} => reader'.question = "reproducibility"
      <3>0. reader \in ReaderRecord
        BY DEF StoryInv, ReaderTypeOK
      <3>1. ASSUME NEW n \in Number, NEW q \in Questions, Asks(n, q)
            PROVE  reader'.at \in {"captured", "excuse"} => reader'.question = "reproducibility"
        BY <3>1, QuestionAssumption DEF Asks, Reads, Resting
      <3>2. ASSUME ReadsEvents \/ ReadsPersistence \/ ReadsWorkspace \/ Concludes \/ ReadsExcuse
                   \/ Rests \/ \E i \in Inv : ReadsSelection(i)
            PROVE  reader'.at \notin {"captured", "excuse"}
        <4>1. CASE ReadsEvents
          BY <3>0, <4>1 DEF ReadsEvents, Reads, Answers, ReaderRecord
        <4>2. CASE Concludes
          BY <3>0, <4>2 DEF Concludes, Reads, Answers, ReaderRecord
        <4>7. CASE Rests
          BY <4>7 DEF Rests, Reads, Resting
        <4>6. CASE ReadsPersistence
          BY <3>0, <4>6 DEF ReadsPersistence, Reads, ReaderRecord
        <4>3. CASE ReadsWorkspace
          BY <3>0, <4>3 DEF ReadsWorkspace, Reads, Answers, ReaderRecord
        <4>4. CASE ReadsExcuse
          BY <3>0, <4>4 DEF ReadsExcuse, Reads, Answers, ReaderRecord
        <4>5. ASSUME NEW i \in Inv, ReadsSelection(i) PROVE reader'.at \notin {"captured", "excuse"}
          BY <3>0, <4>5 DEF ReadsSelection, Reads, ReaderRecord
        <4> QED
          BY <3>2, <4>1, <4>2, <4>3, <4>4, <4>5, <4>6, <4>7
      <3>3. CASE LooksForEvidence
        BY <3>0, <3>3 DEF LooksForEvidence, Reads, Answers, ReaderRecord, EvidenceInv
      <3> QED
        BY <1>7, <3>1, <3>2, <3>3 DEF Reader
    <2> QED
      BY <1>6, <2>1, <2>2
  <1>8. ASSUME NEW n \in Number, NEW i \in Inv,
               Enters(n, i) \/ Chooses(n, i) \/ PublishesWorkspace(n, i) \/ SettlesExecution(n, i)
        PROVE  UNCHANGED <<files, log, writer, reader>>
    BY <1>8 DEF Enters, Chooses, PublishesWorkspace, SettlesExecution, Works, disk
  <1>9. CASE UNCHANGED hvars
    BY <1>6, <1>9 DEF hvars, disk, EvidenceInv
  <1>10. ASSUME UNCHANGED <<files, log, writer, reader>> PROVE EvidenceInv'
    BY <1>6, <1>10 DEF EvidenceInv
  <1>11. CASE Reader \/ UNCHANGED hvars
    <2>1. UNCHANGED files
      BY <1>11 DEF Reader, Asks, ReadsEvents, ReadsPersistence, ReadsWorkspace, Concludes,
                  ReadsSelection, LooksForEvidence, ReadsExcuse, Rests, Reads, disk, hvars
    <2> QED
      BY <1>7, <1>9, <1>11, <2>1
  <1> QED
    BY <1>1, <1>2, <1>4, <1>5, <1>8, <1>10, <1>11 DEF HNext

-----------------------------------------------------------------------------
(* That the log of a run whose run_prepared was appended stays readable.    *)

Positioned(lines) == \A k \in DOMAIN lines : lines[k].seq = k
Tells(lines, i) == \E line \in ToSet(lines) : IsOutcome(line) /\ line.of = i

\* Every whole line bears its position, and a final line comes after the
\* outcome of every invocation; a workspace is not published before its try.
ReadableStory(n) ==
    /\ Positioned(Whole(log[n]))
    /\ (\E line \in ToSet(log[n]) : IsFinal(line)) => \A i \in Inv : Tells(log[n], i)

Placed == \A n \in Number, i \in Inv : dispatch[n][i].workspace => dispatch[n][i].selection

\* Until an append fails, the writer knows its position and what it has told.
WrittenReadably(w) ==
    /\ writer[w].at \notin {"running", "finish"} =>
          ~writer[w].stuck /\ \A i \in Inv : writer[w].outcome[i] = "none"
    /\ Writing(w) /\ ~writer[w].stuck /\ ~writer[w].slipped =>
          /\ Positioned(log[Run(w)]) /\ Len(log[Run(w)]) = writer[w].seq
          /\ \A i \in Inv : writer[w].outcome[i] # "none" => Tells(log[Run(w)], i)

\* Whoever refuses has one of the two reasons.
Explained ==
    reader.answer = "refused" =>
        Slipped(reader.run) \/ (reader.question = "reproducibility" /\ files[reader.run].evidence)

StaysSlipped == \A n \in Number : Slipped(n) => Slipped(n)'

ReadableInv ==
    /\ Placed
    /\ \A n \in Number : Slipped(n) \/ ReadableStory(n)
    /\ \A w \in Writer : WrittenReadably(w)

LEMMA FrontOfAppend ==
  ASSUME NEW S, NEW old \in Seq(S), NEW line \in S
  PROVE  Front(Append(old, line)) = old
  <1>1. PICK q \in Nat : q = Len(old)
    OBVIOUS
  <1> DEFINE long == Append(old, line)
  <1>2. long \in Seq(S) /\ Len(long) = q + 1 /\ \A k \in 1 .. q : long[k] = old[k]
    BY <1>1
  <1> HIDE DEF long
  <1>3. /\ SubSeq(long, 1, q) \in Seq(S)
        /\ Len(SubSeq(long, 1, q)) = IF 1 <= q THEN q - 1 + 1 ELSE 0
        /\ \A k \in 1 .. q - 1 + 1 : SubSeq(long, 1, q)[k] = long[1 + k - 1]
    <2>1. \A k \in 1 .. q : long[k] \in S
      BY <1>2
    <2> QED
      BY <2>1, SubSeqProperties
  <1>4. SubSeq(long, 1, q) = old
    <2>1. Len(SubSeq(long, 1, q)) = Len(old) /\ \A k \in 1 .. Len(old) : SubSeq(long, 1, q)[k] = old[k]
      BY <1>1, <1>2, <1>3
    <2> QED
      BY <1>3, <2>1, SeqEqual
  <1>5. Front(long) = SubSeq(long, 1, q)
    BY <1>1, <1>2 DEF Front
  <1> QED
    BY <1>4, <1>5 DEF long

LEMMA ExtendedReadably ==
  ASSUME NEW old \in Seq(LineRecord), Positioned(old), NEW line \in LineRecord,
         line.seq = Len(old) + 1
  PROVE  /\ Extended(old, line) = Append(old, line) /\ Extended(old, Torn) = Append(old, Torn)
         /\ Positioned(Append(old, line)) /\ Len(Append(old, line)) = Len(old) + 1
         /\ Positioned(Whole(old)) /\ Positioned(Whole(Append(old, line)))
         /\ Positioned(Whole(Append(old, Torn)))
         /\ ToSet(Append(old, line)) = ToSet(old) \cup {line}
         /\ ToSet(Append(old, Torn)) = ToSet(old) \cup {Torn}
  <1>1. Torn \in LineRecord /\ Torn.seq = 0
    BY DEF Torn, Line, LineRecord, Kind, Note
  <1>2. ~EndsTorn(old)
    <2> SUFFICES ASSUME old # <<>>, Last(old) = Torn PROVE FALSE
      BY DEF EndsTorn
    <2>1. Len(old) \in DOMAIN old /\ Len(old) # 0
      OBVIOUS
    <2> QED
      BY <1>1, <2>1 DEF Positioned, Last
  <1>3. /\ Append(old, line) \in Seq(LineRecord) /\ Len(Append(old, line)) = Len(old) + 1
        /\ Append(old, line)[Len(old) + 1] = line
        /\ \A k \in 1 .. Len(old) : Append(old, line)[k] = old[k]
    OBVIOUS
  <1>4. Positioned(Append(old, line))
    BY <1>3 DEF Positioned
  <1>5. ~EndsTorn(Append(old, line))
    <2>1. Last(Append(old, line)) = line
      BY <1>3 DEF Last
    <2>2. line # Torn
      BY <1>1
    <2> QED
      BY <2>1, <2>2 DEF EndsTorn
  <1>6. Whole(Append(old, Torn)) = old
    <2>1. /\ Append(old, Torn) \in Seq(LineRecord) /\ Len(Append(old, Torn)) = Len(old) + 1
          /\ Append(old, Torn)[Len(old) + 1] = Torn
          /\ \A k \in 1 .. Len(old) : Append(old, Torn)[k] = old[k]
      BY <1>1
    <2>2. EndsTorn(Append(old, Torn))
      BY <2>1 DEF EndsTorn, Last
    <2>3. Front(Append(old, Torn)) = old
      BY <1>1, FrontOfAppend
    <2> QED
      BY <2>2, <2>3 DEF Whole
  <1>7. ToSet(Append(old, line)) = ToSet(old) \cup {line}
    BY <1>3 DEF ToSet
  <1>8. ToSet(Append(old, Torn)) = ToSet(old) \cup {Torn}
    BY <1>1 DEF ToSet
  <1> QED
    BY <1>2, <1>3, <1>4, <1>5, <1>6, <1>7, <1>8 DEF Extended, Whole

LEMMA OthersReadably ==
  ASSUME ReadableInv, NEW v \in Writer, writer'[v] = writer[v],
         Live(v) => log'[Run(v)] = log[Run(v)]
  PROVE  WrittenReadably(v)'
  <1>1. WrittenReadably(v) /\ Run(v)' = Run(v) /\ (Writing(v)' <=> Writing(v))
    BY DEF ReadableInv, Run, Writing, Live, HasRun
  <1> QED
    BY <1>1 DEF WrittenReadably, Writing, Tells

\* Nothing is added to any log.
LEMMA ReadableQuietly ==
  ASSUME ReadableInv, UNCHANGED log, Placed', StaysSlipped,
         NEW w \in Writer, \A v \in Writer : v # w => writer'[v] = writer[v], WrittenReadably(w)'
  PROVE  ReadableInv'
  <1>1. \A n \in Number : (Slipped(n) \/ ReadableStory(n))'
    BY DEF ReadableInv, ReadableStory, Tells, StaysSlipped
  <1>2. \A v \in Writer : v # w => WrittenReadably(v)'
    BY OthersReadably
  <1> QED
    BY <1>1, <1>2 DEF ReadableInv

\* A line is added, whole or torn, or nothing of it, and it is a final one
\* only when everything else has been told.
LEMMA ReadableAppending ==
  ASSUME StoryInv, ReadableInv, NEW w \in Writer, Writing(w), ~writer[w].stuck,
         ~writer[w].slipped, NEW line \in LineRecord, line.seq = writer[w].seq + 1,
         IsFinal(line) => \A i \in Inv : Tells(log[Run(w)], i),
         NEW new \in Remains(log[Run(w)], line), log' = [log EXCEPT ![Run(w)] = new],
         Placed', StaysSlipped,
         \A v \in Writer : v # w => writer'[v] = writer[v], WrittenReadably(w)'
  PROVE  ReadableInv'
  <1>1. PICK r \in Number : r = Run(w)
    BY OwnNumber DEF Writing, Live, HasNumber
  <1>2. \A v \in Writer : v # w /\ Live(v) => Run(v) # r /\ Run(v) \in Number
    BY <1>1, OwnNumber DEF Writing, Live, HasNumber
  <1>3. log'[r] = new /\ \A n \in Number : n # r => log'[n] = log[n]
    BY <1>1 DEF StoryInv, DiskTypeOK
  <1>4. /\ log[r] \in Seq(LineRecord) /\ Positioned(log[r]) /\ line.seq = Len(log[r]) + 1
    BY <1>1 DEF StoryInv, DiskTypeOK, ReadableInv, WrittenReadably
  <1>5. ~IsFinal(Torn)
    BY DEF IsFinal, Torn, Line
  <1>6. Positioned(Whole(new)) /\ ToSet(log[r]) \subseteq ToSet(new)
        /\ ToSet(new) \subseteq ToSet(log[r]) \cup {line, Torn}
    <2>1. new = log[r] \/ new = Extended(log[r], Torn) \/ new = Extended(log[r], line)
      BY <1>1 DEF Remains
    <2>2. /\ Extended(log[r], line) = Append(log[r], line)
          /\ Extended(log[r], Torn) = Append(log[r], Torn)
          /\ Positioned(Whole(log[r])) /\ Positioned(Whole(Append(log[r], line)))
          /\ Positioned(Whole(Append(log[r], Torn)))
          /\ ToSet(Append(log[r], line)) = ToSet(log[r]) \cup {line}
          /\ ToSet(Append(log[r], Torn)) = ToSet(log[r]) \cup {Torn}
      BY <1>4, ExtendedReadably
    <2> QED
      BY <2>1, <2>2
  <1>7. \A l \in ToSet(log[r]) : ~IsFinal(l)
    BY <1>1 DEF StoryInv, Written
  <1>8. (\E l \in ToSet(new) : IsFinal(l)) => \A i \in Inv : Tells(new, i)
    BY <1>1, <1>5, <1>6, <1>7 DEF Tells
  <1>9. ReadableStory(r)'
    BY <1>3, <1>6, <1>8 DEF ReadableStory, Tells
  <1>10. \A n \in Number : n # r => (Slipped(n) \/ ReadableStory(n))'
    BY <1>3 DEF ReadableInv, ReadableStory, Tells, StaysSlipped
  <1>11. \A v \in Writer : v # w => WrittenReadably(v)'
    BY <1>2, <1>3, OthersReadably
  <1> QED
    BY <1>9, <1>10, <1>11 DEF ReadableInv

\* What is written where run_prepared could not be is nobody's position.
LEMMA SlippedAppending ==
  ASSUME StoryInv, ReadableInv, NEW w \in Writer, Writing(w), writer'[w].slipped,
         HasRun(w)', Run(w)' = Run(w), NEW new, log' = [log EXCEPT ![Run(w)] = new],
         Placed', StaysSlipped,
         \A v \in Writer : v # w => writer'[v] = writer[v], WrittenReadably(w)'
  PROVE  ReadableInv'
  <1>1. PICK r \in Number : r = Run(w)
    BY OwnNumber DEF Writing, Live, HasNumber
  <1>2. \A v \in Writer : v # w /\ Live(v) => Run(v) # r /\ Run(v) \in Number
    BY <1>1, OwnNumber DEF Writing, Live, HasNumber
  <1>3. \A n \in Number : n # r => log'[n] = log[n]
    BY <1>1 DEF StoryInv, DiskTypeOK
  <1>4. Slipped(r)'
    BY <1>1 DEF Slipped
  <1>5. \A n \in Number : (Slipped(n) \/ ReadableStory(n))'
    BY <1>3, <1>4 DEF ReadableInv, ReadableStory, Tells, StaysSlipped
  <1>6. \A v \in Writer : v # w => WrittenReadably(v)'
    BY <1>2, <1>3, OthersReadably
  <1> QED
    BY <1>5, <1>6 DEF ReadableInv

\* Until an append fails, what is observed is told.
LEMMA ObservesReadably ==
  ASSUME StoryInv, ReadableInv, StaysSlipped, NEW w \in Writer, NEW i \in Inv, Observes(w, i)
  PROVE  ReadableInv'
  <1>1. WriterTypeOK /\ WrittenReadably(w) /\ Placed
    BY DEF StoryInv, GivenInv, ReadableInv
  <1>2. UNCHANGED <<dispatch, reader>> /\ Writing(w) /\ writer[w].at \in {"running", "finish"}
    BY DEF Observes, Writing, Live, HasRun
  <1>3. Placed'
    BY <1>1, <1>2 DEF Placed
  <1>4. PICK note \in Notes(w, i) :
          \E t \in Tries(w, Entry(w, "invocation_outcome", i, note)) :
             /\ log' = [log EXCEPT ![Run(w)] = t.lines]
             /\ TakesNote(w, i, note, t.failed, t.failed \/ Degrading(note))
    BY DEF Observes, TakesNote
  <1> DEFINE line == Entry(w, "invocation_outcome", i, note)
  <1>5. PICK t \in Tries(w, line) :
             /\ log' = [log EXCEPT ![Run(w)] = t.lines]
             /\ TakesNote(w, i, note, t.failed, t.failed \/ Degrading(note))
    BY <1>4
  <1>6. /\ \A v \in Writer : v # w => writer'[v] = writer[v]
        /\ writer'[w].at = writer[w].at /\ writer'[w].number = writer[w].number
        /\ writer'[w].seq = writer[w].seq + 1
        /\ writer'[w].stuck <=> writer[w].stuck \/ t.failed
        /\ writer'[w].outcome = [writer[w].outcome EXCEPT ![i] = note]
        /\ writer'[w].slipped = writer[w].slipped
    BY <1>1, <1>5, ObservedWriter
  <1>7. Run(w)' = Run(w) /\ (Writing(w)' <=> Writing(w))
    BY <1>6 DEF Run, Writing, Live, HasRun
  <1>8. PICK r \in Number : r = Run(w)
    BY <1>2, OwnNumber DEF Writing, Live, HasNumber
  <1>9. CASE writer[w].stuck
    <2>1. t.lines = log[r]
      BY <1>8, <1>9 DEF Tries
    <2>2. UNCHANGED log
      BY <1>5, <1>8, <2>1 DEF StoryInv, DiskTypeOK
    <2>3. WrittenReadably(w)'
      BY <1>2, <1>6, <1>9 DEF WrittenReadably
    <2> QED
      BY <1>3, <1>6, <2>2, <2>3, ReadableQuietly
  <1>11. CASE writer[w].slipped
    <2>1. HasRun(w)' /\ WrittenReadably(w)'
      BY <1>2, <1>6, <1>11 DEF HasRun, WrittenReadably
    <2> QED
      BY <1>2, <1>3, <1>5, <1>6, <1>7, <1>11, <2>1, SlippedAppending
  <1>10. CASE ~writer[w].stuck /\ ~writer[w].slipped
    <2>1. note \in {"bare", "live", "late"}
      BY DEF Notes
    <2>2. /\ line \in LineRecord /\ IsOutcome(line) /\ ~IsFinal(line) /\ line.of = i
          /\ line.seq = writer[w].seq + 1
      BY <2>1, EntryIsLine DEF Kind, Note, IsFinal, IsOutcome, Entry, Line
    <2> HIDE DEF line
    <2>3. t.lines \in Remains(log[Run(w)], line) /\ (t.failed \/ t.lines = Extended(log[r], line))
      BY <1>8, <1>10 DEF Tries, Remains
    <2>4. Positioned(log[r]) /\ Len(log[r]) = writer[w].seq /\ log[r] \in Seq(LineRecord)
          /\ \A j \in Inv : writer[w].outcome[j] # "none" => Tells(log[r], j)
      BY <1>1, <1>2, <1>8, <1>10 DEF WrittenReadably, StoryInv, DiskTypeOK
    <2>5. log'[r] = t.lines
      BY <1>5, <1>8 DEF StoryInv, DiskTypeOK
    <2>6. ASSUME ~writer'[w].stuck
          PROVE  /\ Positioned(log'[r]) /\ Len(log'[r]) = writer'[w].seq
                 /\ \A j \in Inv : writer'[w].outcome[j] # "none" => Tells(log'[r], j)
      <3>1. log'[r] = Append(log[r], line) /\ Positioned(log'[r])
            /\ Len(log'[r]) = Len(log[r]) + 1 /\ ToSet(log'[r]) = ToSet(log[r]) \cup {line}
        <4>1. t.lines = Extended(log[r], line)
          BY <1>6, <2>3, <2>6
        <4>2. /\ Extended(log[r], line) = Append(log[r], line)
              /\ Positioned(Append(log[r], line)) /\ Len(Append(log[r], line)) = Len(log[r]) + 1
              /\ ToSet(Append(log[r], line)) = ToSet(log[r]) \cup {line}
          BY <2>2, <2>4, ExtendedReadably
        <4> QED
          BY <2>5, <4>1, <4>2
      <3>2. \A j \in Inv : j # i => writer'[w].outcome[j] = writer[w].outcome[j]
        BY <1>1, <1>6 DEF WriterTypeOK, Writers, WriterState
      <3> QED
        BY <1>6, <2>2, <2>4, <3>1, <3>2 DEF Tells
    <2>7. WrittenReadably(w)'
      BY <1>2, <1>6, <1>7, <1>8, <2>6 DEF WrittenReadably
    <2> QED
      BY <1>2, <1>3, <1>5, <1>6, <1>10, <2>2, <2>3, <2>7, ReadableAppending
  <1> QED
    BY <1>9, <1>10, <1>11

LEMMA LeavesReadably ==
  ASSUME StoryInv, ReadableInv, StaysSlipped, NEW w \in Writer, Finishes(w) \/ Dies(w)
  PROVE  ReadableInv'
  <1>1. WriterTypeOK /\ WrittenReadably(w) /\ Placed
    BY DEF StoryInv, GivenInv, ReadableInv
  <1>2. UNCHANGED <<dispatch, reader>> /\ writer' = [writer EXCEPT ![w] = Left(w)]
    BY DEF Finishes, Dies
  <1>3. Placed'
    BY <1>1, <1>2 DEF Placed
  <1>4. /\ \A v \in Writer : v # w => writer'[v] = writer[v]
        /\ writer'[w] = Left(w) /\ ~Writing(w)'
    BY <1>2, LeftWriter
  <1>5. WrittenReadably(w)'
    BY <1>4 DEF WrittenReadably, Left, Unwritten
  <1>6. CASE UNCHANGED log
    BY <1>3, <1>4, <1>5, <1>6, ReadableQuietly
  <1>10. ASSUME Writing(w), writer[w].slipped, NEW new, log' = [log EXCEPT ![Run(w)] = new]
        PROVE  ReadableInv'
    <2>1. HasRun(w)' /\ Run(w)' = Run(w) /\ writer'[w].slipped
      BY <1>4, <1>10 DEF Writing, Live, HasRun, Run, Left, Unwritten
    <2> QED
      BY <1>3, <1>4, <1>5, <1>10, <2>1, SlippedAppending
  <1>7. ASSUME Writing(w), ~writer[w].stuck, ~writer[w].slipped, NEW line \in LineRecord, line.seq = writer[w].seq + 1,
               IsFinal(line) => \A i \in Inv : Tells(log[Run(w)], i),
               NEW new \in Remains(log[Run(w)], line), log' = [log EXCEPT ![Run(w)] = new]
        PROVE  ReadableInv'
    BY <1>3, <1>4, <1>5, <1>7, ReadableAppending
  <1>8. CASE Finishes(w)
    <2> DEFINE note == IF writer[w].failed THEN "degraded" ELSE "complete"
               line == Entry(w, "run_finished", NoInv, note)
    <2>1. PICK t \in Tries(w, line) : log' = [log EXCEPT ![Run(w)] = t.lines]
      BY <1>8 DEF Finishes
    <2>2. Writing(w) /\ Accounted(w)
      BY <1>8 DEF Finishes, Writing, Live, HasRun
    <2>3. line \in LineRecord /\ line.seq = writer[w].seq + 1
      <3>1. note \in {"degraded", "complete"}
        OBVIOUS
      <3> HIDE DEF note
      <3> QED
        BY <3>1, EntryIsLine DEF Kind, Entry, Line
    <2> HIDE DEF line
    <2>4. CASE writer[w].stuck
      <3>1. t.lines = log[Run(w)]
        BY <2>1, <2>4 DEF Tries
      <3>2. UNCHANGED log
        BY <2>1, <3>1 DEF StoryInv, DiskTypeOK
      <3> QED
        BY <1>6, <3>2
    <2>6. CASE writer[w].slipped
      BY <1>10, <2>1, <2>2, <2>6
    <2>5. CASE ~writer[w].stuck /\ ~writer[w].slipped
      <3>1. t.lines \in Remains(log[Run(w)], line)
        BY <2>1, <2>5 DEF Tries, Remains
      <3>2. \A i \in Inv : Tells(log[Run(w)], i)
        BY <1>1, <2>2, <2>5 DEF WrittenReadably, Accounted
      <3> QED
        BY <1>7, <2>1, <2>2, <2>3, <2>5, <3>1, <3>2
    <2> QED
      BY <2>4, <2>5, <2>6
  <1>9. CASE Dies(w) /\ ~UNCHANGED log
    <2>1. /\ writer[w].at \in {"prepared", "running", "finish"} /\ ~writer[w].stuck
          /\ log' = [log EXCEPT ![Run(w)] = Extended(log[Run(w)], Torn)]
      BY <1>9 DEF Dies
    <2>2. Writing(w)
      BY <2>1 DEF Writing, Live, HasRun
    <2> DEFINE line == Entry(w, "run_started", NoInv, "none")
    <2>3. line \in LineRecord /\ line.seq = writer[w].seq + 1 /\ ~IsFinal(line)
      BY EntryIsLine DEF Kind, Note, Entry, Line, IsFinal
    <2>4. Extended(log[Run(w)], Torn) \in Remains(log[Run(w)], line)
      BY DEF Remains
    <2> HIDE DEF line
    <2> QED
      BY <1>7, <1>10, <2>1, <2>2, <2>3, <2>4
  <1> QED
    BY <1>6, <1>8, <1>9

\* Each writer keeps its own account.
LEMMA WritersStayReadable ==
  ASSUME StoryInv, ReadableInv, StaysSlipped, NEW w \in Writer, Writes(w)
  PROVE  ReadableInv'
  <1>1. WriterTypeOK /\ WrittenReadably(w) /\ Placed
    BY DEF StoryInv, GivenInv, ReadableInv
  <1>2. writer \in [Writer -> WriterState] /\ writer[w] \in WriterState
    BY <1>1 DEF WriterTypeOK, Writers
  <1>5. UNCHANGED dispatch => Placed'
    BY <1>1 DEF Placed
  <1>6. CASE /\ UNCHANGED <<log, dispatch>> /\ writer[w].at \notin {"running", "finish"}
             /\ \/ writer' = [writer EXCEPT ![w].at = "reserve", ![w].number = @ + 1]
                \/ writer' = [writer EXCEPT ![w].at = "locate"]
                \/ writer' = [writer EXCEPT ![w].at = "initial"]
    <2>1. /\ writer'[w].at \notin {"running", "finish"} /\ ~Writing(w)'
          /\ writer'[w].stuck = writer[w].stuck /\ writer'[w].outcome = writer[w].outcome
          /\ \A v \in Writer : v # w => writer'[v] = writer[v]
      BY <1>2, <1>6 DEF WriterState, Writing, Live, HasRun
    <2>2. WrittenReadably(w)'
      BY <1>1, <1>6, <2>1 DEF WrittenReadably
    <2> QED
      BY <1>5, <1>6, <2>1, <2>2, ReadableQuietly
  <1>7. CASE Starts(w)
    <2>1. PICK r \in Number : r = Run(w) /\ \A v \in Writer : v # w /\ HasNumber(v) => Run(v) # r
      BY <1>7, OwnNumber DEF Starts, At, HasNumber, HasRun
    <2> DEFINE line == Line("run_started", NoInv, 1, "none")
    <2>2. line.seq = 1 /\ ~IsFinal(line)
      BY DEF Line, IsFinal
    <2>3. /\ writer'[w].at = "header" /\ Run(w)' = r /\ writer'[w].seq = 1
          /\ writer'[w].stuck = writer[w].stuck /\ writer'[w].outcome = writer[w].outcome
          /\ \A v \in Writer : v # w => writer'[v] = writer[v]
          /\ writer[w].at = "initial"
      BY <1>2, <1>7, <2>1 DEF WriterState, Starts, At, Run
    <2>4. log' = [log EXCEPT ![r] = <<line>>] /\ UNCHANGED dispatch
      BY <1>7, <2>1 DEF Starts
    <2> HIDE DEF line
    <2>5. log'[r] = <<line>> /\ \A n \in Number : n # r => log'[n] = log[n]
      BY <2>4 DEF StoryInv, DiskTypeOK
    <2>6. Positioned(<<line>>) /\ Len(<<line>>) = 1 /\ ToSet(<<line>>) = {line}
      BY <2>2 DEF Positioned, ToSet
    <2>7. Positioned(Whole(<<line>>))
      <3>1. ~EndsTorn(<<line>>)
        BY <2>2 DEF EndsTorn, Last, Torn, Line
      <3> QED
        BY <2>6, <3>1 DEF Whole
    <2>8. WrittenReadably(w)'
      BY <1>1, <2>3, <2>5, <2>6 DEF WrittenReadably
    <2>9. ASSUME NEW v \in Writer, v # w PROVE WrittenReadably(v)'
      <3>1. Live(v) => Run(v) \in Number /\ Run(v) # r
        BY <2>1, <2>9, OwnNumber DEF Live, HasNumber
      <3> QED
        BY <2>3, <2>5, <2>9, <3>1, OthersReadably
    <2>10. ASSUME NEW n \in Number PROVE (Slipped(n) \/ ReadableStory(n))'
      <3>1. CASE n = r
        BY <2>2, <2>5, <2>6, <2>7, <3>1 DEF ReadableStory
      <3>2. CASE n # r
        BY <2>5, <3>2 DEF ReadableInv, ReadableStory, Tells, StaysSlipped
      <3> QED
        BY <3>1, <3>2
    <2> QED
      BY <1>5, <2>4, <2>8, <2>9, <2>10 DEF ReadableInv
  <1>8. CASE Heads(w) \/ PublishesEvidence(w) \/ Finishing(w)
    <2>1. PICK step \in {"evidence", "prepared", "finish"} :
            writer' = [writer EXCEPT ![w].at = step]
      BY <1>8 DEF Heads, PublishesEvidence, Finishing, Goto
    <2>2. /\ Writing(w) /\ UNCHANGED <<log, dispatch>>
          /\ writer[w].at \notin {"running", "finish"}
      BY <1>8 DEF Heads, PublishesEvidence, Finishing, At, Writing, Live, HasRun, disk
    <2>3. /\ Run(w)' = Run(w) /\ writer'[w].seq = writer[w].seq
          /\ writer'[w].stuck = writer[w].stuck /\ writer'[w].outcome = writer[w].outcome
          /\ writer'[w].slipped = writer[w].slipped
          /\ \A v \in Writer : v # w => writer'[v] = writer[v]
      BY <1>2, <2>1 DEF WriterState, Run
    <2>4. WrittenReadably(w)'
      BY <1>1, <2>2, <2>3 DEF WrittenReadably, Tells
    <2> QED
      BY <1>5, <2>2, <2>3, <2>4, ReadableQuietly
  <1>13. CASE AppendsPrepared(w) /\ writer' = [writer EXCEPT ![w].at = "finish", ![w].slipped = TRUE]
    <2>1. PICK new : log' = [log EXCEPT ![Run(w)] = new]
      BY <1>13 DEF AppendsPrepared
    <2>2. /\ Writing(w) /\ UNCHANGED dispatch
          /\ Run(w)' = Run(w) /\ HasRun(w)' /\ writer'[w].slipped /\ writer'[w].at = "finish"
          /\ \A v \in Writer : v # w => writer'[v] = writer[v]
      BY <1>2, <1>13 DEF AppendsPrepared, At, Writing, Live, HasRun, WriterState, Run
    <2>3. WrittenReadably(w)'
      BY <2>2 DEF WrittenReadably
    <2> QED
      BY <1>5, <2>1, <2>2, <2>3, SlippedAppending
  <1>14. CASE /\ AppendsPrepared(w) /\ writer[w].slipped
              /\ writer' = [writer EXCEPT ![w].at = "running", ![w].seq = @ + 1]
    <2>1. PICK new : log' = [log EXCEPT ![Run(w)] = new]
      BY <1>14 DEF AppendsPrepared
    <2>2. /\ Writing(w) /\ UNCHANGED dispatch
          /\ Run(w)' = Run(w) /\ HasRun(w)' /\ writer'[w].slipped /\ writer'[w].at = "running"
          /\ \A v \in Writer : v # w => writer'[v] = writer[v]
      BY <1>2, <1>14 DEF AppendsPrepared, At, Writing, Live, HasRun, WriterState, Run
    <2>3. WrittenReadably(w)'
      BY <2>2 DEF WrittenReadably
    <2> QED
      BY <1>5, <2>1, <2>2, <2>3, SlippedAppending
  <1>9. CASE /\ AppendsPrepared(w) /\ ~writer[w].slipped
             /\ writer' # [writer EXCEPT ![w].at = "finish", ![w].slipped = TRUE]
    <2> DEFINE line == Entry(w, "run_prepared", NoInv, "none")
    <2>1. /\ log' = [log EXCEPT ![Run(w)] = Extended(log[Run(w)], line)]
          /\ writer' = [writer EXCEPT ![w].at = "running", ![w].seq = @ + 1]
          /\ UNCHANGED dispatch /\ writer[w].at = "prepared" /\ Writing(w)
      BY <1>9 DEF AppendsPrepared, At, Writing, Live, HasRun
    <2>2. /\ Run(w)' = Run(w) /\ writer'[w].seq = writer[w].seq + 1
          /\ writer'[w].outcome = writer[w].outcome /\ writer'[w].at = "running"
          /\ \A v \in Writer : v # w => writer'[v] = writer[v]
      BY <1>2, <2>1 DEF WriterState, Run
    <2>3. line \in LineRecord /\ ~IsFinal(line) /\ line.seq = writer[w].seq + 1
      BY EntryIsLine DEF Kind, Note, IsFinal, Entry, Line
    <2>4. PICK r \in Number : r = Run(w)
      BY <2>1, OwnNumber DEF Writing, Live, HasNumber
    <2>5. ~writer[w].stuck /\ (\A i \in Inv : writer[w].outcome[i] = "none")
          /\ Positioned(log[r]) /\ Len(log[r]) = writer[w].seq /\ log[r] \in Seq(LineRecord)
      BY <1>1, <1>9, <2>1, <2>4 DEF WrittenReadably, StoryInv, DiskTypeOK
    <2> HIDE DEF line
    <2>6. log'[r] = Append(log[r], line)
      BY <2>1, <2>3, <2>4, <2>5, ExtendedReadably DEF StoryInv, DiskTypeOK
    <2>7. Positioned(Append(log[r], line)) /\ Len(Append(log[r], line)) = Len(log[r]) + 1
      BY <2>3, <2>5, ExtendedReadably
    <2>8. WrittenReadably(w)'
      BY <2>2, <2>4, <2>5, <2>6, <2>7 DEF WrittenReadably
    <2>9. Extended(log[Run(w)], line) \in Remains(log[Run(w)], line)
      BY DEF Remains
    <2> QED
      BY <1>5, <1>9, <2>1, <2>2, <2>3, <2>5, <2>8, <2>9, ReadableAppending
  <1>10. ASSUME NEW i \in Inv, Binds(w, i) PROVE ReadableInv'
    <2>1. UNCHANGED <<log, writer>>
      BY <1>10 DEF Binds
    <2>2. PICK m \in Number : dispatch' = [dispatch EXCEPT ![m][i].at = "ready"] \/ UNCHANGED dispatch
      BY <1>10 DEF Binds
    <2>3. Placed'
      <3> DEFINE e == [dispatch[m][i] EXCEPT !.at = "ready"]
      <3>1. dispatch[m][i] \in DispatchRecord
        BY DEF StoryInv, DiskTypeOK
      <3>2. e.workspace = dispatch[m][i].workspace /\ e.selection = dispatch[m][i].selection
        BY <3>1 DEF DispatchRecord
      <3>3. dispatch' = [dispatch EXCEPT ![m] = [dispatch[m] EXCEPT ![i] = e]] \/ UNCHANGED dispatch
        BY <2>2
      <3> HIDE DEF e
      <3> QED
        <4>1. \A n \in Number, j \in Inv :
                dispatch'[n][j] = dispatch[n][j] \/ (n = m /\ j = i /\ dispatch'[n][j] = e)
          BY <3>3 DEF StoryInv, DiskTypeOK
        <4> QED
          BY <1>1, <3>2, <4>1 DEF Placed
    <2> QED
      BY <2>1, <2>3 DEF ReadableInv, ReadableStory, Tells, WrittenReadably, Writing, Live,
                        HasRun, Run, Slipped
  <1>11. CASE Reserves(w)
    BY <1>2, <1>6, <1>11 DEF Reserves, Goto
  <1>12. CASE Locates(w)
    BY <1>2, <1>6, <1>12 DEF Locates, Goto, At
  <1> QED
    BY <1>7, <1>8, <1>9, <1>10, <1>11, <1>12, <1>13, <1>14, ObservesReadably, LeavesReadably
    DEF Writes, AppendsPrepared

\* What a reader finds in a log is in order, and says what became of everything
\* that a final event accounts for.
LEMMA LogsAreRead ==
  ASSUME StoryInv, ReadableInv, NEW n \in Number, ~Slipped(n)
  PROVE  /\ Readable(log[n])
         /\ Final(log[n]) # {} => \A i \in Inv : Told(Whole(log[n]))[i] # "none"
  <1>1. log[n] \in Seq(LineRecord) /\ ReadableStory(n) /\ WholeStory(n)
    BY DEF StoryInv, DiskTypeOK, ReadableInv
  <1>2. \A k \in DOMAIN Whole(log[n]) : k \in DOMAIN log[n] /\ Whole(log[n])[k] = log[n][k]
    BY <1>1 DEF Whole, EndsTorn, Front
  <1>3. Readable(log[n])
    <2> SUFFICES ASSUME NEW k \in DOMAIN Whole(log[n])
                 PROVE  log[n][k] # Garbled /\ log[n][k].seq = k
      BY DEF Readable
    <2>1. log[n][k].seq = k /\ k \in DOMAIN log[n]
      BY <1>1, <1>2 DEF ReadableStory, Positioned
    <2>2. k \in 1 .. Len(log[n])
      BY <1>1, <2>1
    <2> QED
      BY <2>1, <2>2 DEF Garbled, Line
  <1>4. ASSUME NEW i \in Inv, Tells(log[n], i)
        PROVE  Told(Whole(log[n]))[i] # "none"
    <2>1. PICK k \in DOMAIN log[n] : IsOutcome(log[n][k]) /\ log[n][k].of = i
      BY <1>4 DEF Tells, ToSet
    <2>2. k \in DOMAIN Whole(log[n])
      <3>1. CASE ~EndsTorn(log[n])
        BY <2>1, <3>1 DEF Whole
      <3>2. CASE EndsTorn(log[n])
        <4>1. k # Len(log[n])
          BY <2>1, <3>2 DEF EndsTorn, Last, IsOutcome, Torn, Line
        <4>2. k \in 1 .. Len(log[n]) - 1
          BY <1>1, <2>1, <4>1
        <4>3. DOMAIN Front(log[n]) = 1 .. Len(log[n]) - 1
          <5>0. Len(log[n]) \in Nat /\ Len(log[n]) - 1 \in Nat
            <6>1. Len(log[n]) \in Nat
              BY <1>1
            <6> QED
              BY <4>2, <6>1
          <5>1. PICK q \in Nat : q = Len(log[n]) - 1
            BY <5>0
          <5>2. \A j \in 1 .. q : log[n][j] \in LineRecord
            BY <1>1, <5>1
          <5>3. /\ SubSeq(log[n], 1, q) \in Seq(LineRecord)
                /\ Len(SubSeq(log[n], 1, q)) = IF 1 <= q THEN q - 1 + 1 ELSE 0
            BY <5>2, SubSeqProperties
          <5> QED
            BY <1>1, <5>1, <5>3 DEF Front
        <4> QED
          BY <3>2, <4>2, <4>3 DEF Whole
      <3> QED
        BY <3>1, <3>2
    <2>3. Outcomes(Whole(log[n]), i) # {}
      BY <1>2, <2>1, <2>2 DEF Outcomes, IsOutcome
    <2> DEFINE line == CHOOSE line \in Outcomes(Whole(log[n]), i) : TRUE
    <2>4. line \in Outcomes(Whole(log[n]), i) /\ Told(Whole(log[n]))[i] = line.note
      BY <2>3 DEF Told
    <2> HIDE DEF line
    <2>5. line \in ToSet(log[n]) /\ IsOutcome(line)
      BY <1>2, <2>4 DEF Outcomes, ToSet, IsOutcome
    <2> QED
      BY <1>1, <2>4, <2>5 DEF WholeStory
  <1>5. Final(log[n]) # {} => \A i \in Inv : Tells(log[n], i)
    BY <1>1 DEF Final, ReadableStory, IsFinal
  <1> QED
    BY <1>3, <1>4, <1>5

\* A reader refuses for one of the two reasons.
LEMMA ReadersAnswer ==
  ASSUME StoryInv, EvidenceInv, ReadableInv, Explained, Reader
  PROVE  Explained'
  <1>1. /\ reader \in ReaderRecord /\ reader.status # "refused"
        /\ reader.at # "idle" => reader.run \in Number
        /\ reader.answer # "none" => reader.at = "answer"
    BY DEF StoryInv, ReaderTypeOK, ReaderRecord, Status, Attended
  <1>2. reader.run \in Number /\ ~Slipped(reader.run) =>
          /\ Readable(log[reader.run])
          /\ Final(log[reader.run]) # {} =>
                \A i \in Inv : Told(Whole(log[reader.run]))[i] # "none"
    BY LogsAreRead
  <1>3. UNCHANGED <<disk, dispatch, writer>> /\ (\A n : Slipped(n)' <=> Slipped(n))
    BY DEF Reader, Asks, ReadsEvents, ReadsPersistence, ReadsWorkspace, Concludes,
           ReadsSelection, LooksForEvidence, ReadsExcuse, Rests, Reads, Slipped, HasRun, Run
  <1>4. ASSUME reader'.answer # "refused" PROVE Explained'
    BY <1>4 DEF Explained
  <1>5. ASSUME reader'.answer = "refused", reader'.run = reader.run, reader'.question = reader.question,
               Slipped(reader.run) \/ (reader.question = "reproducibility" /\ files[reader.run].evidence)
        PROVE  Explained'
    BY <1>3, <1>5 DEF Explained, disk
  <1>6. ASSUME NEW n \in Number, NEW q \in Questions, Asks(n, q) PROVE Explained'
    BY <1>4, <1>6 DEF Asks, Reads, Resting
  <1>7. CASE ReadsEvents
    <2>1. reader.at = "events" /\ reader.run \in Number
      BY <1>1, <1>7 DEF ReadsEvents, Reads
    <2>2. CASE Slipped(reader.run)
      <3>1. reader'.run = reader.run
        BY <1>1, <1>7 DEF ReadsEvents, Reads, Answers, ReaderRecord
      <3> QED
        BY <1>3, <2>2, <3>1 DEF Explained
    <2>3. CASE ~Slipped(reader.run)
      <3>1. reader' = [reader EXCEPT !.notes = Told(Whole(log[reader.run])),
                                     !.status = Concluded(log[reader.run]), !.at = "persistence"]
        BY <1>2, <1>7, <2>1, <2>3 DEF ReadsEvents, Reads
      <3> QED
        BY <1>1, <1>4, <2>1, <3>1 DEF ReaderRecord
    <2> QED
      BY <2>2, <2>3
  <1>8. CASE ReadsPersistence
    BY <1>1, <1>4, <1>8 DEF ReadsPersistence, Reads, ReaderRecord
  <1>9. ASSUME NEW i \in Inv, ReadsSelection(i) PROVE Explained'
    BY <1>1, <1>4, <1>9 DEF ReadsSelection, Reads, ReaderRecord
  <1>10. CASE ReadsWorkspace
    <2> DEFINE i == reader.inv
    <2>1. /\ reader.run \in Number /\ i \in Inv /\ files[reader.run].link[i] \in Number
          /\ reader.at = "workspace"
      BY <1>10 DEF ReadsWorkspace, Reads, StoryInv, Attended
    <2>2. Execution(reader.run, i).workspace => Execution(reader.run, i).selection
      BY <2>1 DEF ReadableInv, Placed, Execution
    <2>3. ~(Execution(reader.run, i).workspace /\ ~Selected(i) /\ ~Reported(i))
      BY <2>2 DEF Selected
    <2>4. reader' = [reader EXCEPT !.at = "rows", !.todo = @ \ {i}, !.inv = NoInv, !.seen = FALSE]
      BY <1>10, <2>3 DEF ReadsWorkspace, Reads
    <2> HIDE DEF i
    <2> QED
      BY <1>1, <1>4, <2>1, <2>4 DEF ReaderRecord
  <1>11. CASE Concludes
    BY <1>1, <1>4, <1>11 DEF Concludes, Reads, Answers, ReaderRecord
  <1>12. CASE LooksForEvidence
    BY <1>1, <1>4, <1>12 DEF LooksForEvidence, Reads, Answers, ReaderRecord
  <1>13. CASE ReadsExcuse
    <2>1. reader.at = "excuse" /\ reader.run \in Number /\ reader.question = "reproducibility"
      BY <1>1, <1>13 DEF ReadsExcuse, Reads, EvidenceInv
    <2>2. PICK answer \in {"refused", "pending", "unavailable"} :
            /\ reader' = Answers(reader, answer)
            /\ answer = "refused" =>
                  \/ ~Readable(log[reader.run])
                  \/ \E line \in ToSet(log[reader.run]) : IsPrepared(line)
      BY <1>13 DEF ReadsExcuse, Reads, IsPrepared
    <2>3. answer = "refused" => Slipped(reader.run) \/ files[reader.run].evidence
      BY <1>2, <2>1, <2>2 DEF EvidenceInv
    <2>4. /\ reader'.answer = answer /\ reader'.run = reader.run
          /\ reader'.question = reader.question
      BY <1>1, <2>2 DEF Answers, ReaderRecord
    <2> QED
      BY <1>4, <1>5, <2>1, <2>3, <2>4
  <1>14. CASE Rests
    BY <1>4, <1>14 DEF Rests, Reads, Resting
  <1> QED
    BY <1>6, <1>7, <1>8, <1>9, <1>10, <1>11, <1>12, <1>13, <1>14 DEF Reader

LEMMA ReadableIsKept == StoryInv /\ ReadableInv /\ [HNext]_hvars => ReadableInv'
  <1> SUFFICES ASSUME StoryInv, ReadableInv, [HNext]_hvars PROVE ReadableInv'
    OBVIOUS
  <1>0. StaysSlipped
    BY SlippedStays DEF StaysSlipped
  <1>1. ASSUME NEW w \in Writer, Writes(w) PROVE ReadableInv'
    BY <1>0, <1>1, WritersStayReadable
  <1>2. ASSUME UNCHANGED <<log, writer>>, Placed' PROVE ReadableInv'
    BY <1>2 DEF ReadableInv, ReadableStory, Tells, WrittenReadably, Writing, Live, HasRun, Run,
                Slipped
  <1>3. ASSUME NEW n \in Number, Deletes(n) PROVE ReadableInv'
    <2>1. log' = [log EXCEPT ![n] = <<>>] /\ UNCHANGED <<dispatch, writer, reader>>
      BY <1>3 DEF Deletes
    <2>2. log'[n] = <<>> /\ \A m \in Number : m # n => log'[m] = log[m]
      BY <2>1 DEF StoryInv, DiskTypeOK
    <2>3. ReadableStory(n)'
      BY <2>2 DEF ReadableStory, Whole, EndsTorn, Positioned, ToSet
    <2>4. \A m \in Number : m # n => (Slipped(m) \/ ReadableStory(m))'
      BY <1>0, <2>2 DEF ReadableInv, ReadableStory, Tells, StaysSlipped
    <2>5. ASSUME NEW w \in Writer PROVE WrittenReadably(w)'
      <3>1. Live(w) => Run(w) # n /\ Run(w) \in Number
        BY <1>3 DEF Deletes, Live, StoryInv, Written, HasNumber
      <3> QED
        BY <2>1, <2>2, <3>1, OthersReadably
    <2>6. Placed'
      BY <2>1 DEF ReadableInv, Placed
    <2> QED
      BY <2>3, <2>4, <2>5, <2>6 DEF ReadableInv
  <1>4. ASSUME NEW n \in Number, NEW i \in Inv,
               Enters(n, i) \/ Chooses(n, i) \/ PublishesWorkspace(n, i) \/ SettlesExecution(n, i)
        PROVE  ReadableInv'
    <2> DEFINE d == dispatch[n][i]
    <2>1. d \in DispatchRecord /\ (d.selection => d.chosen) /\ (d.workspace => d.selection)
      BY DEF StoryInv, DiskTypeOK, Chosen, ReadableInv, Placed
    <2>2. /\ ~d.chosen => \A told \in BOOLEAN :
                 [d EXCEPT !.chosen = TRUE, !.selection = told].workspace = FALSE
          /\ [d EXCEPT !.at = "entered"].workspace => [d EXCEPT !.at = "entered"].selection
          /\ [d EXCEPT !.at = "settled"].workspace => [d EXCEPT !.at = "settled"].selection
          /\ d.selection => [d EXCEPT !.workspace = TRUE].selection
          /\ [d EXCEPT !.selection = TRUE].selection
      BY <2>1 DEF DispatchRecord
    <2>3. \E e : Works(n, i, e) /\ (e.workspace => e.selection)
      <3>1. CASE Enters(n, i)
        BY <2>2, <3>1 DEF Enters
      <3>2. CASE Chooses(n, i)
        BY <2>2, <3>2 DEF Chooses
      <3>3. CASE PublishesWorkspace(n, i)
        BY <2>2, <3>3 DEF PublishesWorkspace
      <3>4. CASE SettlesExecution(n, i)
        BY <2>2, <3>4 DEF SettlesExecution
      <3> QED
        BY <1>4, <3>1, <3>2, <3>3, <3>4
    <2> HIDE DEF d
    <2>4. PICK e : Works(n, i, e) /\ (e.workspace => e.selection)
      BY <2>3
    <2>5. Placed'
      <3>1. dispatch' = [dispatch EXCEPT ![n] = [dispatch[n] EXCEPT ![i] = e]]
        BY <2>4 DEF Works
      <3>2. \A m \in Number, j \in Inv :
              dispatch'[m][j] = dispatch[m][j] \/ (m = n /\ j = i /\ dispatch'[m][j] = e)
        BY <3>1 DEF StoryInv, DiskTypeOK
      <3> QED
        BY <2>4, <3>2 DEF ReadableInv, Placed
    <2>6. UNCHANGED <<log, writer>>
      BY <2>4 DEF Works, disk
    <2> QED
      BY <1>2, <2>5, <2>6
  <1>5. CASE Reader
    <2>1. UNCHANGED <<disk, dispatch, writer>>
      BY <1>5 DEF Reader, Asks, ReadsEvents, ReadsPersistence, ReadsWorkspace, Concludes,
                  ReadsSelection, LooksForEvidence, ReadsExcuse, Rests, Reads
    <2>2. Placed' /\ UNCHANGED <<log, writer>>
      BY <2>1 DEF disk, ReadableInv, Placed
    <2> QED
      BY <1>2, <2>2
  <1>6. CASE UNCHANGED hvars
    <2>1. UNCHANGED <<log, writer>> /\ Placed'
      BY <1>6 DEF hvars, disk, ReadableInv, Placed
    <2> QED
      BY <1>2, <2>1
  <1> QED
    BY <1>1, <1>3, <1>4, <1>5, <1>6 DEF HNext

\* What was answered stays explained, whatever the others do.
LEMMA ExplainedIsKept ==
  StoryInv /\ EvidenceInv /\ ReadableInv /\ Explained /\ [HNext]_hvars => Explained'
  <1> SUFFICES ASSUME StoryInv, EvidenceInv, ReadableInv, Explained, [HNext]_hvars
               PROVE  Explained'
    OBVIOUS
  <1>1. CASE Reader
    BY <1>1, ReadersAnswer
  <1>2. CASE UNCHANGED reader
    <2>1. reader.answer = "refused" => reader.run \in Number /\ reader.at # "idle"
      BY DEF StoryInv, Attended
    <2> QED
      BY <1>2, <2>1, SlippedStays, EvidenceIsKept DEF Explained
  <1>3. Reader \/ UNCHANGED reader
    <2>1. ASSUME NEW w \in Writer, Writes(w) PROVE UNCHANGED reader
      BY <2>1 DEF Writes, Reserves, Locates, Starts, Heads, PublishesEvidence, AppendsPrepared,
                  Finishing, Finishes, Dies, Binds, Observes
    <2>2. ASSUME NEW n \in Number, NEW i \in Inv,
                 Enters(n, i) \/ Chooses(n, i) \/ PublishesWorkspace(n, i) \/ SettlesExecution(n, i)
          PROVE  UNCHANGED reader
      BY <2>2 DEF Enters, Chooses, PublishesWorkspace, SettlesExecution, Works
    <2> QED
      BY <2>1, <2>2 DEF HNext, Deletes, hvars
  <1> QED
    BY <1>1, <1>2, <1>3

\* Whatever append fails, whoever dies in the middle of one, and whatever is
\* removed, a reader refuses only a run whose run_prepared could not be appended,
\* or one whose evidence was published behind its back.
THEOREM RefusalsHaveReasons == HSpec => []RefusalsAreExplained
  <1>1. HInit => ReadableInv /\ EvidenceInv /\ Explained
    <2> SUFFICES ASSUME HInit PROVE ReadableInv /\ EvidenceInv /\ Explained
      OBVIOUS
    <2>1. Placed /\ Explained
      BY DEF HInit, Placed, Explained, NotStarted, Resting
    <2>2. \A n \in Number : ReadableStory(n)
      BY DEF HInit, ReadableStory, Whole, EndsTorn, Positioned, ToSet
    <2>3. \A w \in Writer : WrittenReadably(w)
      BY DEF HInit, WrittenReadably, Unwritten, Writing, Live, HasRun
    <2>4. EvidenceInv
      BY DEF HInit, EvidenceInv, Unwritten, Resting, ToSet
    <2> QED
      BY <2>1, <2>2, <2>3, <2>4 DEF ReadableInv
  <1>2. StoryInv /\ EvidenceInv /\ [HNext]_hvars => EvidenceInv'
    BY EvidenceIsKept
  <1>3. ASSUME StoryInv, ReadableInv, Explained PROVE RefusalsAreExplained
    <2>1. reader.answer = "refused" => reader.run \in Number
      BY <1>3 DEF StoryInv, Attended
    <2>2. reader.answer = "refused" /\ ~Slipped(reader.run) => Readable(log[reader.run])
      BY <1>3, <2>1, LogsAreRead
    <2> QED
      BY <1>3, <2>2 DEF Explained, RefusalsAreExplained
  <1> QED
    BY <1>1, <1>2, <1>3, ReadableIsKept, ExplainedIsKept, StoryHolds, PTL DEF HSpec

-----------------------------------------------------------------------------
\* Every reservation is one of the numbers, and the files keep their shape.
THEOREM HistoryTyped == HSpec => []HTypeOK
  <1>1. HInit => reserved \subseteq Number
    BY DEF HInit
  <1>2. reserved \subseteq Number /\ [HNext]_hvars => (reserved \subseteq Number)'
    <2> SUFFICES ASSUME reserved \subseteq Number, [HNext]_hvars
                 PROVE  reserved' \subseteq Number
      OBVIOUS
    <2>1. ASSUME NEW w \in Writer, Writes(w) PROVE reserved' \subseteq Number
      <3>1. CASE Reserves(w)
        BY <3>1 DEF Reserves
      <3>2. CASE Locates(w)
        BY <3>2 DEF Locates
      <3>3. CASE ~Reserves(w) /\ ~Locates(w)
        BY <2>1, <3>3 DEF Writes, Starts, Heads, PublishesEvidence, AppendsPrepared, Finishing,
           Finishes, Dies, Binds, Observes, disk
      <3> QED
        BY <3>1, <3>2, <3>3
    <2>2. ASSUME NEW n \in Number, NEW i \in Inv,
               Enters(n, i) \/ Chooses(n, i) \/ PublishesWorkspace(n, i) \/ SettlesExecution(n, i)
          PROVE  UNCHANGED reserved
      BY <2>2 DEF Enters, Chooses, PublishesWorkspace, SettlesExecution, Works, disk
    <2>3. ASSUME Reader PROVE UNCHANGED reserved
      BY <2>3 DEF Reader, Asks, ReadsEvents, ReadsPersistence, ReadsWorkspace, Concludes,
                  ReadsSelection, LooksForEvidence, ReadsExcuse, Rests, Reads, disk
    <2>4. ASSUME NEW n \in Number, Deletes(n) PROVE UNCHANGED reserved
      BY <2>4 DEF Deletes
    <2> QED
      BY <2>1, <2>2, <2>3, <2>4 DEF HNext, hvars, disk
  <1>3. reserved \subseteq Number /\ StoryInv => HTypeOK
    BY DEF StoryInv, DiskTypeOK, HTypeOK, FileRecord, DispatchRecord
  <1> QED
    BY <1>1, <1>2, <1>3, StoryHolds, PTL DEF HSpec
=============================================================================
