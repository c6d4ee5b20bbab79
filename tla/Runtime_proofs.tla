---------------------------- MODULE Runtime_proofs ----------------------------
(***************************************************************************)
(* The safety of a Runtime, for any number of submissions and whatever its *)
(* callers do.                                                             *)
(***************************************************************************)
EXTENDS Runtime, TLAPS

Underway == {"ready", "writer", "prepare", "wait", "save", "settle", "complete", "retain"}

\* What is owned was submitted; what was submitted is owned until it is over.
Known(s) ==
    /\ s \in records \/ s \in posting \/ Launching(s) \in calls \/ entry[s].at # "none"
          => receipt[s].state # "none"
    /\ receipt[s].state # "none" /\ entry[s].at # "over" => s \in records
    /\ entry[s].at \in Underway => loop = "running"

\* How far the receipt has come, by the step of its _run task.
Told(s) ==
    /\ entry[s].at \notin {"retain", "over"} => receipt[s].result = "none"
    /\ entry[s].at \in {"none", "ready", "writer"} =>
          ~entry[s].writer /\ receipt[s].accepted = "pending"
    /\ entry[s].at \in {"prepare", "wait", "save"} =>
          entry[s].writer /\ receipt[s].accepted = "accepted"
    /\ entry[s].at = "settle" =>
          receipt[s].accepted = IF entry[s].writer THEN "accepted" ELSE "pending"
    /\ entry[s].at \in {"complete", "retain", "over"} =>
          receipt[s].accepted = IF entry[s].writer THEN "accepted" ELSE "refused"
    /\ entry[s].at \in {"save", "settle", "complete", "retain"} =>
          entry[s].outcome \in Ends /\ (entry[s].outcome = "REJECTED" => ~entry[s].writer)
    /\ entry[s].at \in {"complete", "retain"} => receipt[s].state = entry[s].outcome
    /\ entry[s].at = "retain" => receipt[s].result = entry[s].outcome
    /\ entry[s].at = "over" =>
          /\ receipt[s].result \in Ends /\ receipt[s].state = receipt[s].result
          /\ receipt[s].result = "REJECTED" => ~entry[s].writer

Delivered(s) ==
    entry[s].at = "wait" /\ receipt[s].stop /\ s \notin posting /\ Stopping(s) \notin calls
        => entry[s].control = IF receipt[s].force THEN "forced" ELSE "stopped"

\* The control exists from its submission on, and is forced only on request.
Controlled(s) ==
    /\ entry[s].at \in {"none", "ready", "writer", "prepare"} => entry[s].control = "none"
    /\ entry[s].at = "wait" => entry[s].control # "none"
    /\ entry[s].control = "forced" => receipt[s].force
    /\ Delivered(s)

\* A runtime that drains takes no submission, and drains all it has.
Drained ==
    /\ closer # "none" \/ Closing \in calls => closing
    /\ closer \in {"drain", "closed"} => records \subseteq draining
    /\ closer = "closed" => \A s \in draining : entry[s].at = "over"

RTInv ==
    /\ RTTypeOK
    /\ \A s \in Sub : Known(s) /\ Told(s) /\ Controlled(s)
    /\ Drained

-----------------------------------------------------------------------------
(* Callbacks are told apart.                                               *)

LEMMA CallsDiffer ==
  ASSUME NEW s \in Sub, NEW t \in Sub
  PROVE  /\ Launching(s) # Stopping(t) /\ Launching(s) # Closing /\ Stopping(s) # Closing
         /\ Launching(s) = Launching(t) => s = t
         /\ Stopping(s) = Stopping(t) => s = t
  BY DEF Launching, Stopping, Closing

LEMMA InvStarts == RTInit => RTInv
  <1> SUFFICES ASSUME RTInit PROVE RTInv
    OBVIOUS
  <1>1. RTTypeOK
    BY DEF RTInit, RTTypeOK, NoReceipt, NoEntry, States, Ends
  <1>2. \A s \in Sub : Known(s) /\ Told(s) /\ Controlled(s)
    BY DEF RTInit, Known, Told, Controlled, Delivered, NoReceipt, NoEntry, Underway
  <1>3. Drained
    BY DEF RTInit, Drained
  <1> QED
    BY <1>1, <1>2, <1>3 DEF RTInv

LEMMA SubmitKeeps == ASSUME RTInv, NEW s \in Sub, Submit(s) PROVE RTInv'
  BY CallsDiffer DEF RTInv, RTTypeOK, Known, Told, Controlled, Delivered, Drained, Submit, shared,
     States, Ends, Underway

\* Everything but one receipt, or one entry, is as it was.
ReceiptType == [state: States, stop: BOOLEAN, force: BOOLEAN,
                accepted: {"pending", "accepted", "refused"}, result: Ends \cup {"none"}]
EntryType == [at: {"none", "ready", "writer", "prepare", "wait",
                   "save", "settle", "complete", "retain", "over"},
              control: {"none", "live", "stopped", "forced"}, writer: BOOLEAN,
              outcome: Ends \cup {"none"}]

LEMMA Marked ==
  ASSUME RTTypeOK, NEW s \in Sub, NEW force \in BOOLEAN, MarkStop(s, force)
  PROVE  /\ receipt' \in [Sub -> ReceiptType]
         /\ \A t \in Sub : t # s => receipt'[t] = receipt[t]
         /\ receipt'[s].stop /\ receipt'[s].state = "STOPPING"
         /\ receipt'[s].accepted = receipt[s].accepted /\ receipt'[s].result = receipt[s].result
         /\ receipt[s].force => receipt'[s].force
  <1>1. receipt \in [Sub -> ReceiptType]
    BY DEF RTTypeOK, ReceiptType
  <1>2. /\ receipt[s] \in ReceiptType
        /\ receipt[s].force \in BOOLEAN
    BY <1>1 DEF ReceiptType
  <1> DEFINE f == receipt[s].force \/ force
  <1>3. f \in BOOLEAN /\ (receipt[s].force => f)
    BY <1>2
  <1>4. receipt' = [receipt EXCEPT ![s].stop = TRUE, ![s].state = "STOPPING", ![s].force = f]
    BY DEF MarkStop
  <1> HIDE DEF f
  <1>5. receipt' = [receipt EXCEPT ![s] = [receipt[s] EXCEPT !.stop = TRUE, !.state = "STOPPING",
                                                             !.force = f]]
    BY <1>1, <1>4
  <1> QED
    BY <1>1, <1>2, <1>3, <1>5 DEF ReceiptType, States

LEMMA MarkStopKeeps ==
  ASSUME RTInv, NEW s \in Sub, NEW force \in BOOLEAN, MarkStop(s, force) PROVE RTInv'
  <1>1. /\ UNCHANGED <<shared, calls, entry, closer, draining>>
        /\ posting' = posting \cup {s}
        /\ receipt[s].state # "none" /\ ~Settled(s)
    BY DEF MarkStop
  <1>2. RTTypeOK'
    BY <1>1, Marked DEF RTInv, RTTypeOK, ReceiptType, shared
  <1>3. Drained'
    BY <1>1 DEF RTInv, Drained, shared
  <1>4. ASSUME NEW t \in Sub PROVE (Known(t) /\ Told(t) /\ Controlled(t))'
    <2>1. CASE t # s
      BY <1>1, <2>1, Marked DEF RTInv, Known, Told, Controlled, Delivered, shared
    <2>2. CASE t = s
      <3>1. Known(s)'
        BY <1>1, Marked DEF RTInv, Known, shared
      <3>2. Told(s)'
        BY <1>1, Marked DEF RTInv, Told, Settled, shared
      <3>3. Controlled(s)'
        BY <1>1, Marked DEF RTInv, Controlled, Delivered, shared
      <3> QED
        BY <2>2, <3>1, <3>2, <3>3
    <2> QED
      BY <2>1, <2>2
  <1> QED
    BY <1>2, <1>3, <1>4 DEF RTInv

LEMMA PostStopKeeps == ASSUME RTInv, NEW s \in Sub, PostStop(s) PROVE RTInv'
  BY CallsDiffer DEF RTInv, RTTypeOK, Known, Told, Controlled, Delivered, Drained,
     shared, States, Ends, Underway, PostStop

LEMMA CloseKeeps == ASSUME RTInv, Close PROVE RTInv'
  BY CallsDiffer DEF RTInv, RTTypeOK, Known, Told, Controlled, Delivered, Drained,
     shared, States, Ends, Underway, Close

LEMMA ServeKeeps == ASSUME RTInv, Serve PROVE RTInv'
  BY CallsDiffer DEF RTInv, RTTypeOK, Known, Told, Controlled, Delivered, Drained,
     shared, States, Ends, Underway, Serve

LEMMA BecomesReadyKeeps == ASSUME RTInv, BecomesReady PROVE RTInv'
  BY CallsDiffer DEF RTInv, RTTypeOK, Known, Told, Controlled, Delivered, Drained,
     shared, States, Ends, Underway, BecomesReady, Owned

LEMMA StartupFailsKeeps == ASSUME RTInv, StartupFails PROVE RTInv'
  BY CallsDiffer DEF RTInv, RTTypeOK, Known, Told, Controlled, Delivered, Drained,
     shared, States, Ends, Underway, StartupFails, Owned

LEMMA StartupClosesKeeps == ASSUME RTInv, StartupCloses PROVE RTInv'
  BY CallsDiffer DEF RTInv, RTTypeOK, Known, Told, Controlled, Delivered, Drained,
     shared, States, Ends, Underway, StartupCloses

LEMMA EnsureCloseKeeps == ASSUME RTInv, EnsureClose PROVE RTInv'
  BY CallsDiffer DEF RTInv, RTTypeOK, Known, Told, Controlled, Delivered, Drained,
     shared, States, Ends, Underway, EnsureClose

LEMMA DrainsKeeps == ASSUME RTInv, Drains PROVE RTInv'
  BY CallsDiffer DEF RTInv, RTTypeOK, Known, Told, Controlled, Delivered, Drained,
     shared, States, Ends, Underway, Drains

LEMMA ReclaimsKeeps == ASSUME RTInv, Reclaims PROVE RTInv'
  BY CallsDiffer DEF RTInv, RTTypeOK, Known, Told, Controlled, Delivered, Drained,
     shared, States, Ends, Underway, Reclaims

LEMMA LoopEndsKeeps == ASSUME RTInv, LoopEnds PROVE RTInv'
  BY CallsDiffer DEF RTInv, RTTypeOK, Known, Told, Controlled, Delivered, Drained,
     shared, States, Ends, Underway, LoopEnds

LEMMA LaunchKeeps == ASSUME RTInv, NEW s \in Sub, Launch(s) PROVE RTInv'
  BY CallsDiffer DEF RTInv, RTTypeOK, Known, Told, Controlled, Delivered, Drained,
     shared, States, Ends, Underway, In, Goto, Enter, Concludes, Launch

-----------------------------------------------------------------------------
(* One submission's task moves on, and nothing else.                       *)

Moving(s) ==
    /\ receipt' \in [Sub -> ReceiptType] /\ entry' \in [Sub -> EntryType]
    /\ \A t \in Sub : t # s => receipt'[t] = receipt[t] /\ entry'[t] = entry[t]
    /\ UNCHANGED <<shared, calls, posting, closer, draining>>
    /\ loop = "running" /\ entry[s].at \in Underway

LEMMA MovingKeeps ==
  ASSUME RTInv, NEW s \in Sub, Moving(s), (Known(s) /\ Told(s) /\ Controlled(s))'
  PROVE  RTInv'
  <1>1. RTTypeOK'
    BY DEF RTInv, RTTypeOK, Moving, ReceiptType, EntryType, shared
  <1>2. Drained'
    BY DEF RTInv, RTTypeOK, Drained, Moving, shared, Underway
  <1>3. ASSUME NEW t \in Sub, t # s PROVE (Known(t) /\ Told(t) /\ Controlled(t))'
    BY <1>3 DEF RTInv, Known, Told, Controlled, Delivered, Moving, shared
  <1> QED
    BY <1>1, <1>2, <1>3 DEF RTInv

LEMMA Typed == RTInv => receipt \in [Sub -> ReceiptType] /\ entry \in [Sub -> EntryType]
  BY DEF RTInv, RTTypeOK, ReceiptType, EntryType

LEMMA HearStopKeeps == ASSUME RTInv, NEW s \in Sub, HearStop(s) PROVE RTInv'
  <1>1. /\ loop = "running" /\ calls' = calls \ {Stopping(s)}
        /\ UNCHANGED <<records, closing, loop, ready, receipt, posting, closer, draining>>
    BY DEF HearStop, shared
  <1>2. /\ calls' \subseteq calls /\ (Closing \in calls' => Closing \in calls)
        /\ \A t \in Sub : Launching(t) \in calls' <=> Launching(t) \in calls
    BY <1>1, CallsDiffer
  <1> DEFINE c == IF entry[s].control = "none" THEN "none" ELSE Stops(s, receipt[s].force)
  <1>3. /\ c \in {"none", "stopped", "forced"} /\ (c = "none" <=> entry[s].control = "none")
        /\ entry[s].control # "none" => c = IF receipt[s].force THEN "forced" ELSE "stopped"
    BY DEF Stops, RTInv, Controlled
  <1>4. entry' = [entry EXCEPT ![s] = [entry[s] EXCEPT !.control = c]]
    BY Typed DEF HearStop, Enter, EntryType
  <1> HIDE DEF c
  <1>5. /\ entry' \in [Sub -> EntryType] /\ \A t \in Sub : t # s => entry'[t] = entry[t]
        /\ entry'[s].at = entry[s].at /\ entry'[s].control = c
        /\ entry'[s].writer = entry[s].writer /\ entry'[s].outcome = entry[s].outcome
    BY <1>3, <1>4, Typed DEF EntryType
  <1>6. RTTypeOK'
    BY <1>1, <1>2, <1>5 DEF RTInv, RTTypeOK, EntryType
  <1>7. ASSUME NEW t \in Sub PROVE (Known(t) /\ Told(t))'
    BY <1>1, <1>2, <1>5 DEF RTInv, Known, Told
  <1>8. Controlled(s)'
    BY <1>1, <1>3, <1>5 DEF RTInv, Controlled, Delivered
  <1>9. ASSUME NEW t \in Sub, t # s PROVE Controlled(t)'
    <2>1. entry'[t] = entry[t]
      BY <1>5, <1>9
    <2>2. receipt'[t] = receipt[t] /\ posting' = posting
      BY <1>1
    <2>3. Stopping(t) \notin calls' => Stopping(t) \notin calls
      <3>1. Stopping(t) # Stopping(s)
        BY <1>9, CallsDiffer
      <3> QED
        BY <1>1, <3>1
    <2>4. Controlled(t)
      BY DEF RTInv
    <2> QED
      BY <2>1, <2>2, <2>3, <2>4 DEF Controlled, Delivered
  <1>10. Drained'
    BY <1>1, <1>2, <1>5 DEF RTInv, RTTypeOK, Drained
  <1> QED
    BY <1>6, <1>7, <1>8, <1>9, <1>10 DEF RTInv

\* What Concludes and Goto do to the entry.
LEMMA Concluded ==
  ASSUME RTInv, NEW s \in Sub, NEW outcome \in Ends, NEW step \in Underway, Concludes(s, outcome, step)
  PROVE  /\ entry' \in [Sub -> EntryType]
         /\ \A t \in Sub : t # s => entry'[t] = entry[t]
         /\ entry'[s].at = step /\ entry'[s].outcome = outcome
         /\ entry'[s].control = entry[s].control /\ entry'[s].writer = entry[s].writer
  BY Typed DEF Concludes, Enter, EntryType, Underway, Ends

LEMMA Gone ==
  ASSUME RTInv, NEW s \in Sub, NEW step \in Underway, Goto(s, step)
  PROVE  /\ entry' \in [Sub -> EntryType]
         /\ \A t \in Sub : t # s => entry'[t] = entry[t]
         /\ entry'[s].at = step /\ entry'[s].outcome = entry[s].outcome
         /\ entry'[s].control = entry[s].control /\ entry'[s].writer = entry[s].writer
  BY Typed DEF Goto, Enter, EntryType, Underway

LEMMA Phased ==
  ASSUME RTInv, NEW s \in Sub, NEW state \in States \ {"none"}, Phase(s, state)
  PROVE  /\ receipt' \in [Sub -> ReceiptType]
         /\ \A t \in Sub : t # s => receipt'[t] = receipt[t]
         /\ receipt'[s].state \in States \ {"none"}
         /\ receipt'[s].stop = receipt[s].stop /\ receipt'[s].force = receipt[s].force
         /\ receipt'[s].accepted = receipt[s].accepted /\ receipt'[s].result = receipt[s].result
  <1>1. receipt \in [Sub -> ReceiptType]
    BY Typed
  <1> DEFINE new == IF receipt[s].stop THEN "STOPPING" ELSE state
  <1>2. new \in States \ {"none"}
    BY DEF States
  <1>3. receipt' = [receipt EXCEPT ![s].state = new]
    BY DEF Phase
  <1> HIDE DEF new
  <1> QED
    BY <1>1, <1>2, <1>3 DEF ReceiptType

LEMMA BeginsKeeps == ASSUME RTInv, NEW s \in Sub, Begins(s) PROVE RTInv'
  <1>1. /\ loop = "running" /\ entry[s].at = "ready"
        /\ UNCHANGED <<shared, calls, posting, closer, draining>>
    BY DEF Begins, In
  <1>2. ASSUME NEW outcome \in {"REJECTED", "STOPPED"}, Concludes(s, outcome, "settle"),
               UNCHANGED receipt
        PROVE RTInv'
    <2>1. Moving(s)
      BY <1>1, <1>2, Concluded, Typed DEF Moving, Underway, Ends
    <2>2. (Known(s) /\ Told(s) /\ Controlled(s))'
      BY <1>1, <1>2, Concluded DEF RTInv, Known, Told, Controlled, Delivered, Underway, Ends, shared
    <2> QED
      BY <2>1, <2>2, MovingKeeps
  <1>3. ASSUME Goto(s, "writer"), Phase(s, "ACCEPTING") PROVE RTInv'
    <2>1. Moving(s)
      BY <1>1, <1>3, Gone, Phased, Typed DEF Moving, Underway, States
    <2>2. (Known(s) /\ Told(s) /\ Controlled(s))'
      BY <1>1, <1>3, Gone, Phased DEF RTInv, Known, Told, Controlled, Delivered, Underway, States, shared
    <2> QED
      BY <2>1, <2>2, MovingKeeps
  <1> QED
    BY <1>2, <1>3 DEF Begins

LEMMA AcceptsKeeps == ASSUME RTInv, NEW s \in Sub, Accepts(s) PROVE RTInv'
  <1>1. /\ loop = "running" /\ entry[s].at = "writer"
        /\ UNCHANGED <<shared, calls, posting, closer, draining>>
    BY DEF Accepts, In
  <1> DEFINE step == IF receipt[s].stop THEN "save" ELSE "prepare"
             outcome == IF receipt[s].stop THEN "STOPPED" ELSE entry[s].outcome
             state == IF receipt[s].stop THEN "STOPPING" ELSE "PREPARING"
  <1>2. /\ step \in {"save", "prepare"} /\ outcome \in Ends \cup {"none"}
        /\ state \in {"STOPPING", "PREPARING"}
        /\ step = "save" => outcome = "STOPPED"
    BY Typed DEF EntryType, Ends
  <1>3. /\ entry' = [entry EXCEPT ![s] = [entry[s] EXCEPT !.writer = TRUE, !.at = step,
                                                          !.outcome = outcome]]
        /\ receipt' = [receipt EXCEPT ![s].accepted = "accepted", ![s].state = state]
    BY DEF Accepts, Enter
  <1> HIDE DEF step, outcome, state
  <1>4. /\ entry' \in [Sub -> EntryType] /\ \A t \in Sub : t # s => entry'[t] = entry[t]
        /\ entry'[s].at = step /\ entry'[s].writer /\ entry'[s].outcome = outcome
        /\ entry'[s].control = entry[s].control
    BY <1>2, <1>3, Typed, ZenonT(40) DEF EntryType
  <1>5. /\ receipt' \in [Sub -> ReceiptType] /\ \A t \in Sub : t # s => receipt'[t] = receipt[t]
        /\ receipt'[s].accepted = "accepted" /\ receipt'[s].state = state
        /\ receipt'[s].result = receipt[s].result /\ receipt'[s].force = receipt[s].force
    BY <1>2, <1>3, Typed DEF ReceiptType, States
  <1>6. Moving(s)
    BY <1>1, <1>4, <1>5 DEF Moving, Underway
  <1>7. (Known(s) /\ Told(s) /\ Controlled(s))'
    BY <1>1, <1>2, <1>4, <1>5 DEF RTInv, Known, Told, Controlled, Delivered, Underway, Ends, shared
  <1> QED
    BY <1>6, <1>7, MovingKeeps

LEMMA SubmitsControlKeeps == ASSUME RTInv, NEW s \in Sub, SubmitsControl(s) PROVE RTInv'
  <1>1. /\ loop = "running" /\ entry[s].at = "prepare" /\ Phase(s, "RUNNING")
        /\ UNCHANGED <<shared, calls, posting, closer, draining>>
    BY DEF SubmitsControl, In
  <1> DEFINE control == IF receipt[s].stop
                        THEN (IF receipt[s].force THEN "forced" ELSE "stopped") ELSE "live"
  <1>2. /\ control \in {"live", "stopped", "forced"}
        /\ receipt[s].stop => control = IF receipt[s].force THEN "forced" ELSE "stopped"
        /\ control = "forced" => receipt[s].force
    OBVIOUS
  <1>3. entry' = [entry EXCEPT ![s] = [entry[s] EXCEPT !.at = "wait", !.control = control]]
    BY <1>1 DEF SubmitsControl, Enter, Stops, RTInv, Controlled
  <1> HIDE DEF control
  <1>4. /\ entry' \in [Sub -> EntryType] /\ \A t \in Sub : t # s => entry'[t] = entry[t]
        /\ entry'[s].at = "wait" /\ entry'[s].writer = entry[s].writer
        /\ entry'[s].control = control
    BY <1>2, <1>3, Typed DEF EntryType
  <1>5. Moving(s)
    BY <1>1, <1>4, Phased DEF Moving, Underway, States, Ends
  <1>6. (Known(s) /\ Told(s) /\ Controlled(s))'
    BY <1>1, <1>2, <1>4, Phased DEF RTInv, Known, Told, Controlled, Delivered, Underway, States, Ends, shared
  <1> QED
    BY <1>5, <1>6, MovingKeeps

LEMMA ReportsKeeps ==
  ASSUME RTInv, NEW s \in Sub, NEW succeeded \in BOOLEAN, Reports(s, succeeded) PROVE RTInv'
  <1>1. /\ loop = "running" /\ entry[s].at = "wait"
        /\ UNCHANGED <<shared, calls, posting, receipt, closer, draining>>
        /\ \E outcome \in {"STOPPED", "SUCCEEDED", "FAILED"} : Concludes(s, outcome, "save")
    BY DEF Reports, In
  <1>2. PICK outcome \in {"STOPPED", "SUCCEEDED", "FAILED"} : Concludes(s, outcome, "save")
    BY <1>1
  <1>3. Moving(s)
    BY <1>1, <1>2, Concluded, Typed DEF Moving, Underway, Ends
  <1>4. (Known(s) /\ Told(s) /\ Controlled(s))'
    BY <1>1, <1>2, Concluded DEF RTInv, Known, Told, Controlled, Delivered, Underway, Ends, shared
  <1> QED
    BY <1>3, <1>4, MovingKeeps

LEMMA RaisesKeeps == ASSUME RTInv, NEW s \in Sub, Raises(s) PROVE RTInv'
  <1>1. /\ loop = "running" /\ entry[s].at \in {"writer", "prepare", "wait"}
        /\ UNCHANGED <<shared, calls, posting, receipt, closer, draining>>
    BY DEF Raises
  <1>2. CASE entry[s].writer
    <2>1. Concludes(s, "FAILED", "save")
      BY <1>2 DEF Raises
    <2>2. Moving(s)
      BY <1>1, <2>1, Concluded, Typed DEF Moving, Underway, Ends
    <2>3. (Known(s) /\ Told(s) /\ Controlled(s))'
      BY <1>1, <1>2, <2>1, Concluded DEF RTInv, Known, Told, Controlled, Delivered, Underway, Ends, shared
    <2> QED
      BY <2>2, <2>3, MovingKeeps
  <1>3. CASE ~entry[s].writer
    <2>1. Concludes(s, "REJECTED", "settle")
      BY <1>3 DEF Raises
    <2>2. Moving(s)
      BY <1>1, <2>1, Concluded, Typed DEF Moving, Underway, Ends
    <2>3. (Known(s) /\ Told(s) /\ Controlled(s))'
      BY <1>1, <1>3, <2>1, Concluded DEF RTInv, Known, Told, Controlled, Delivered, Underway, Ends, shared
    <2> QED
      BY <2>2, <2>3, MovingKeeps
  <1> QED
    BY <1>2, <1>3

LEMMA SavesKeeps == ASSUME RTInv, NEW s \in Sub, Saves(s) PROVE RTInv'
  <1>1. /\ loop = "running" /\ entry[s].at = "save"
        /\ Goto(s, "settle") \/ Concludes(s, "FAILED", "settle")
        /\ UNCHANGED <<shared, calls, posting, receipt, closer, draining>>
    BY DEF Saves, In
  <1>2. CASE Goto(s, "settle")
    <2>1. Moving(s)
      BY <1>1, <1>2, Gone, Typed DEF Moving, Underway
    <2>2. (Known(s) /\ Told(s) /\ Controlled(s))'
      BY <1>1, <1>2, Gone DEF RTInv, Known, Told, Controlled, Delivered, Underway, shared
    <2> QED
      BY <2>1, <2>2, MovingKeeps
  <1>3. CASE Concludes(s, "FAILED", "settle")
    <2>1. Moving(s)
      BY <1>1, <1>3, Concluded, Typed DEF Moving, Underway, Ends
    <2>2. (Known(s) /\ Told(s) /\ Controlled(s))'
      BY <1>1, <1>3, Concluded DEF RTInv, Known, Told, Controlled, Delivered, Underway, Ends, shared
    <2> QED
      BY <2>1, <2>2, MovingKeeps
  <1> QED
    BY <1>1, <1>2, <1>3

LEMMA SettlesKeeps == ASSUME RTInv, NEW s \in Sub, Settles(s) PROVE RTInv'
  <1>1. /\ loop = "running" /\ entry[s].at = "settle" /\ Goto(s, "complete")
        /\ UNCHANGED <<shared, calls, posting, closer, draining>>
    BY DEF Settles, In
  <1> DEFINE accepted == IF receipt[s].accepted = "pending" THEN "refused" ELSE receipt[s].accepted
  <1>2. /\ accepted = IF entry[s].writer THEN "accepted" ELSE "refused"
        /\ entry[s].outcome \in Ends
    BY <1>1 DEF RTInv, Told
  <1>3. receipt' = [receipt EXCEPT ![s].state = entry[s].outcome, ![s].accepted = accepted]
    BY DEF Settles
  <1> HIDE DEF accepted
  <1>4. /\ receipt' \in [Sub -> ReceiptType] /\ \A t \in Sub : t # s => receipt'[t] = receipt[t]
        /\ receipt'[s].state = entry[s].outcome /\ receipt'[s].accepted = accepted
        /\ receipt'[s].result = receipt[s].result /\ receipt'[s].force = receipt[s].force
    BY <1>2, <1>3, Typed, ZenonT(40) DEF ReceiptType, States
  <1>5. Moving(s)
    BY <1>1, <1>4, Gone DEF Moving, Underway
  <1>6. (Known(s) /\ Told(s) /\ Controlled(s))'
    BY <1>1, <1>2, <1>4, Gone DEF RTInv, Known, Told, Controlled, Delivered, Underway, Ends, shared
  <1> QED
    BY <1>5, <1>6, MovingKeeps

LEMMA CompletesKeeps == ASSUME RTInv, NEW s \in Sub, Completes(s) PROVE RTInv'
  <1>1. /\ loop = "running" /\ entry[s].at = "complete" /\ Goto(s, "retain")
        /\ UNCHANGED <<shared, calls, posting, closer, draining>>
        /\ receipt' = [receipt EXCEPT ![s].result = entry[s].outcome]
    BY DEF Completes, In
  <1>2. entry[s].outcome \in Ends
    BY <1>1 DEF RTInv, Told
  <1>3. /\ receipt' \in [Sub -> ReceiptType] /\ \A t \in Sub : t # s => receipt'[t] = receipt[t]
        /\ receipt'[s].state = receipt[s].state /\ receipt'[s].accepted = receipt[s].accepted
        /\ receipt'[s].result = entry[s].outcome /\ receipt'[s].force = receipt[s].force
    BY <1>1, <1>2, Typed DEF ReceiptType
  <1>4. Moving(s)
    BY <1>1, <1>3, Gone DEF Moving, Underway
  <1>5. (Known(s) /\ Told(s) /\ Controlled(s))'
    BY <1>1, <1>2, <1>3, Gone DEF RTInv, Known, Told, Controlled, Delivered, Underway, shared
  <1> QED
    BY <1>4, <1>5, MovingKeeps

LEMMA RetiresKeeps == ASSUME RTInv, NEW s \in Sub, Retires(s) PROVE RTInv'
  <1>1. /\ loop = "running" /\ entry[s].at = "retain" /\ records' = records \ {s}
        /\ entry' = [entry EXCEPT ![s] = [NoEntry EXCEPT !.at = "over", !.writer = entry[s].writer]]
        /\ UNCHANGED <<loop, ready, closing, calls, posting, receipt, closer, draining>>
    BY DEF Retires, In, Enter
  <1>2. /\ entry' \in [Sub -> EntryType] /\ \A t \in Sub : t # s => entry'[t] = entry[t]
        /\ entry'[s].at = "over" /\ entry'[s].writer = entry[s].writer
        /\ entry'[s].control = "none"
    BY <1>1, Typed DEF EntryType, NoEntry
  <1>3. RTTypeOK'
    BY <1>1, <1>2 DEF RTInv, RTTypeOK, EntryType
  <1>4. Drained'
    BY <1>1, <1>2 DEF RTInv, Drained
  <1>5. ASSUME NEW t \in Sub PROVE (Known(t) /\ Told(t) /\ Controlled(t))'
    <2>1. CASE t # s
      BY <1>1, <1>2, <2>1 DEF RTInv, Known, Told, Controlled, Delivered
    <2>2. (Known(s) /\ Told(s) /\ Controlled(s))'
      BY <1>1, <1>2 DEF RTInv, Known, Told, Controlled, Delivered, Underway
    <2> QED
      BY <2>1, <2>2
  <1> QED
    BY <1>3, <1>4, <1>5 DEF RTInv

LEMMA RestsKeeps == ASSUME RTInv, UNCHANGED rtvars PROVE RTInv'
  BY DEF RTInv, RTTypeOK, Known, Told, Controlled, Delivered, Drained, rtvars, shared

LEMMA AdvancesKeeps == ASSUME RTInv, NEW s \in Sub, Advances(s) PROVE RTInv'
  BY BeginsKeeps, AcceptsKeeps, SubmitsControlKeeps, ReportsKeeps, RaisesKeeps, SavesKeeps,
     SettlesKeeps, CompletesKeeps, RetiresKeeps DEF Advances

LEMMA StepKeeps == ASSUME RTInv, [RTNext]_rtvars PROVE RTInv'
  <1>1. ASSUME NEW s \in Sub,
               \/ Submit(s) \/ PostStop(s) \/ Launch(s) \/ HearStop(s) \/ Advances(s)
               \/ \E force \in BOOLEAN : MarkStop(s, force)
        PROVE RTInv'
    BY <1>1, SubmitKeeps, PostStopKeeps, LaunchKeeps, HearStopKeeps, AdvancesKeeps, MarkStopKeeps
  <1>2. ASSUME Starts PROVE RTInv'
    BY <1>2, ServeKeeps, BecomesReadyKeeps, StartupFailsKeeps, StartupClosesKeeps DEF Starts
  <1>3. ASSUME Finishes PROVE RTInv'
    BY <1>3, EnsureCloseKeeps, DrainsKeeps, ReclaimsKeeps, LoopEndsKeeps DEF Finishes
  <1> QED
    BY <1>1, <1>2, <1>3, CloseKeeps, RestsKeeps DEF RTNext

\* The inductive invariant: the step of each _run task says how far its receipt
\* has come, and a runtime that drains owns nothing it does not wait for.
THEOREM RuntimeInductive == RTSpec => []RTInv
  BY InvStarts, StepKeeps, PTL DEF RTSpec

-----------------------------------------------------------------------------
(* What callers rely on.                                                   *)

\* A stop that reached the loop reached the control, whatever it raced.
THEOREM StopsReachTheControl == RTSpec => []StopsAreDelivered
  <1>1. RTInv => StopsAreDelivered
    BY DEF RTInv, Controlled, Delivered, StopsAreDelivered
  <1> QED
    BY <1>1, RuntimeInductive, PTL

\* A completed receipt tells the truth about its acceptance and stays so.
THEOREM ReceiptsTellTheTruth == RTSpec => []ReceiptsAreTrue
  <1>1. RTInv => ReceiptsAreTrue
    <2> SUFFICES ASSUME RTInv, NEW s \in Sub, receipt[s].result # "none"
                 PROVE  /\ receipt[s].accepted = IF entry[s].writer THEN "accepted" ELSE "refused"
                        /\ receipt[s].result = "REJECTED" => ~entry[s].writer
                        /\ receipt[s].state = receipt[s].result
      BY DEF ReceiptsAreTrue
    <2>1. Told(s)
      BY DEF RTInv
    <2>2. entry[s].at \in {"retain", "over"}
      BY <2>1 DEF Told
    <2> QED
      BY <2>1, <2>2 DEF Told
  <1> QED
    BY <1>1, RuntimeInductive, PTL

\* A runtime that closed left no receipt incomplete.
THEOREM CloseDrains == RTSpec => []ClosedIsDrained
  <1>1. RTInv => ClosedIsDrained
    <2> SUFFICES ASSUME RTInv, closer = "closed", NEW s \in Sub, receipt[s].state # "none"
                 PROVE  receipt[s].result # "none"
      BY DEF ClosedIsDrained
    <2>1. Known(s) /\ Told(s)
      BY DEF RTInv
    <2>2. entry[s].at = "over"
      BY <2>1 DEF Known, RTInv, Drained
    <2> QED
      BY <2>1, <2>2 DEF Told, Ends
  <1> QED
    BY <1>1, RuntimeInductive, PTL
=============================================================================
