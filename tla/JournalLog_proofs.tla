-------------------------- MODULE JournalLog_proofs --------------------------
(* What holds of events.jsonl for any number of objects, lines and crashes. *)
EXTENDS JournalLog, TLAPS

\* What a write adds: a line of its own, or the end of an unterminated one.
LEMMA ExtendedFacts ==
  ASSUME log \in Seq(Line), NEW line \in Line
  PROVE  \/ /\ log = <<>> \/ Ended(log[Len(log)])
            /\ Extended(line) \in Seq(Line)
            /\ Len(Extended(line)) = Len(log) + 1
            /\ Extended(line)[Len(log) + 1] = line
            /\ \A k \in DOMAIN log : Extended(line)[k] = log[k]
         \/ /\ log # <<>> /\ ~Ended(log[Len(log)])
            /\ Extended(line) \in Seq(Line)
            /\ Len(Extended(line)) = Len(log)
            /\ Extended(line)[Len(log)].form = IF line.form = "whole" THEN "glued" ELSE "cut"
            /\ Extended(line)[Len(log)].seq = log[Len(log)].seq
            /\ \A k \in DOMAIN log : k # Len(log) => Extended(line)[k] = log[k]
  <1>1. CASE log = <<>> \/ Ended(log[Len(log)])
    <2>1. Extended(line) = Append(log, line)
      BY <1>1 DEF Extended
    <2> QED
      BY <1>1, <2>1
  <1>2. CASE log # <<>> /\ ~Ended(log[Len(log)])
    <2> DEFINE f == IF line.form = "whole" THEN "glued" ELSE "cut"
               last == [log[Len(log)] EXCEPT !.form = f]
    <2>1. Len(log) \in DOMAIN log /\ log[Len(log)] \in Line
      BY <1>2
    <2>2. last \in Line /\ last.form = f /\ last.seq = log[Len(log)].seq
      BY <2>1 DEF Line, Form
    <2>3. Extended(line) = [log EXCEPT ![Len(log)] = last]
      BY <1>2 DEF Extended
    <2> HIDE DEF last
    <2> QED
      BY <1>2, <2>1, <2>2, <2>3
  <1> QED
    BY <1>1, <1>2

\* Typing, of the log and of the counters, through every step.
LEMMA TypePreserved ==
  ASSUME TypeOK, [Next]_vars, \A j \in Journal : nextSeq[j] # Unread => nextSeq[j] \in Nat
  PROVE  TypeOK'
  <1>1. ASSUME NEW j \in Journal, NEW f \in Form, NEW e \in Nat
        PROVE  /\ Next_seq(j) \in Nat
               /\ Extended([seq |-> Next_seq(j), form |-> f, event |-> e]) \in Seq(Line)
    <2>1. Next_seq(j) \in Nat
      BY DEF Next_seq, TypeOK
    <2>2. [seq |-> Next_seq(j), form |-> f, event |-> e] \in Line
      BY <2>1 DEF Line
    <2> QED
      BY <2>1, <2>2, ExtendedFacts DEF TypeOK
  <1>2. ASSUME NEW j \in Journal, AppendEvent(j) PROVE TypeOK'
    <2>1. "whole" \in Form /\ acked + 1 \in Nat
      BY DEF Form, TypeOK
    <2>2. log' \in Seq(Line)
      BY <1>1, <1>2, <2>1 DEF AppendEvent
    <2>3. nextSeq' \in [Journal -> Nat \cup {Unread}]
      BY <1>1, <1>2, <2>1 DEF AppendEvent, TypeOK
    <2> QED
      BY <1>2, <2>2, <2>3 DEF AppendEvent, TypeOK
  <1>3. ASSUME NEW j \in Journal, TearEvent(j) PROVE TypeOK'
    <2>1. PICK cut \in {"cut", "bare"} :
              log' = Extended([seq |-> Next_seq(j), form |-> cut, event |-> 0])
      BY <1>3, LogAssumption DEF TearEvent
    <2> QED
      BY <1>1, <1>3, <2>1 DEF TearEvent, TypeOK, Form
  <1>4. ASSUME NEW j \in Journal, Claim(j) \/ Release(j) \/ Fold(j) \/ Crash(j)
        PROVE  TypeOK'
    BY <1>4 DEF Claim, Release, Fold, Crash, TypeOK
  <1>5. CASE UNCHANGED vars
    BY <1>5 DEF vars, TypeOK
  <1> QED
    BY <1>2, <1>3, <1>4, <1>5 DEF Next

LEMMA InitLog == Init => NumberingInv /\ SurvivalInv
  <1> SUFFICES ASSUME Init PROVE NumberingInv /\ SurvivalInv
    OBVIOUS
  <1>0. <<>> \in Seq(Line)
    OBVIOUS
  <1>1. TypeOK
    <2>1. nextSeq \in [Journal -> Nat \cup {Unread}]
      BY DEF Init
    <2> QED
      BY <1>0, <2>1 DEF Init, TypeOK
  <1>2. DOMAIN log = {} /\ Len(log) = 0
    BY DEF Init
  <1>3. \A j \in Journal : nextSeq[j] = Unread
    BY DEF Init
  <1>4. log = <<>> /\ folded = FALSE /\ acked = 0
    BY DEF Init
  <1>5. NumberingInv
    BY <1>1, <1>2, <1>3 DEF NumberingInv
  <1>6. SurvivalInv
    BY <1>1, <1>4 DEF SurvivalInv
  <1> QED
    BY <1>5, <1>6

-----------------------------------------------------------------------------
(* Numbering, when every operation has an object of its own.               *)

LEMMA NumberingPreserved ==
  ASSUME NumberingInv, [Next]_vars, Reused = FALSE
  PROVE  NumberingInv'
  <1>1. TypeOK' /\ TypeOK
    BY TypePreserved DEF NumberingInv, TypeOK
  <1>2. ASSUME NEW j \in Journal, AppendEvent(j) PROVE NumberingInv'
    <2> DEFINE line == [seq |-> Next_seq(j), form |-> "whole", event |-> acked + 1]
    <2>1. line \in Line /\ log' = Extended(line) /\ line.form = "whole"
          /\ line.seq = Next_seq(j)
      BY <1>1, <1>2 DEF AppendEvent, Line, Form, Next_seq, TypeOK
    <2> HIDE DEF line
    <2>2. /\ nextSeq'[j] = Next_seq(j) + 1 /\ holder' = j /\ holder = j
          /\ \A i \in Journal : i # j => nextSeq'[i] = nextSeq[i]
      BY <1>1, <1>2 DEF AppendEvent, TypeOK
    <2>3. \A i \in Journal : nextSeq'[i] # Unread => i = j
      BY <2>2 DEF NumberingInv
    <2>4. CASE log # <<>> /\ ~Ended(log[Len(log)])
      <3>1. Len(log) \in DOMAIN log' /\ log'[Len(log)].form = "glued"
        BY <1>1, <2>1, <2>4, ExtendedFacts DEF TypeOK
      <3> QED
        BY <1>1, <2>2, <2>3, <3>1 DEF NumberingInv, NoneGlued
    <2>5. CASE log = <<>> \/ Ended(log[Len(log)])
      <3>1. /\ Len(log') = Len(log) + 1 /\ log'[Len(log) + 1] = line
            /\ \A k \in DOMAIN log : log'[k] = log[k]
            /\ DOMAIN log = 1 .. Len(log) /\ DOMAIN log' = 1 .. Len(log')
            /\ Len(log) \in Nat
        BY <1>1, <2>1, <2>5, ExtendedFacts DEF TypeOK
      <3>2. NoneGlued' => NoneGlued
        BY <3>1 DEF NoneGlued
      <3>3. NoneGlued => Next_seq(j) = Len(log)
        BY DEF NumberingInv, Next_seq
      <3>4. NoneGlued' => \A k \in DOMAIN log' : log'[k].seq = k - 1
        BY <2>1, <3>1, <3>2, <3>3 DEF NumberingInv
      <3>5. NoneGlued' => nextSeq'[j] = Len(log')
        BY <2>2, <3>1, <3>2, <3>3
      <3> QED
        BY <1>1, <2>2, <2>3, <3>4, <3>5 DEF NumberingInv
    <2> QED
      BY <2>4, <2>5
  <1>3. ASSUME NEW j \in Journal, TearEvent(j) PROVE NumberingInv'
    <2>1. PICK cut \in {"cut", "bare"} :
              log' = Extended([seq |-> Next_seq(j), form |-> cut, event |-> 0])
      BY <1>3, LogAssumption DEF TearEvent
    <2> DEFINE line == [seq |-> Next_seq(j), form |-> cut, event |-> 0]
    <2>2. line \in Line /\ log' = Extended(line) /\ line.form # "whole"
          /\ line.seq = Next_seq(j)
      BY <1>1, <2>1 DEF Line, Form, Next_seq, TypeOK
    <2> HIDE DEF line
    <2>3. \A i \in Journal : nextSeq'[i] = Unread
      BY <1>1, <1>3 DEF TearEvent, NumberingInv, TypeOK
    <2>4. NoneGlued => Next_seq(j) = Len(log)
      BY DEF NumberingInv, Next_seq
    <2>5. DOMAIN log = 1 .. Len(log) /\ DOMAIN log' = 1 .. Len(log') /\ Len(log) \in Nat
      BY <1>1 DEF TypeOK
    <2>6. CASE log = <<>> \/ Ended(log[Len(log)])
      <3>1. /\ Len(log') = Len(log) + 1 /\ log'[Len(log) + 1] = line
            /\ \A k \in DOMAIN log : log'[k] = log[k]
        BY <1>1, <2>2, <2>6, ExtendedFacts DEF TypeOK
      <3> QED
        BY <1>1, <2>2, <2>3, <2>4, <2>5, <3>1 DEF NumberingInv, NoneGlued
    <2>7. CASE log # <<>> /\ ~Ended(log[Len(log)])
      <3>1. /\ Len(log') = Len(log) /\ log'[Len(log)].seq = log[Len(log)].seq
            /\ \A k \in DOMAIN log : k # Len(log) => log'[k] = log[k]
            /\ Len(log) \in DOMAIN log
        BY <1>1, <2>2, <2>7, ExtendedFacts DEF TypeOK
      <3>2. NoneGlued' => NoneGlued
        BY <2>5, <2>7, <3>1 DEF NoneGlued, Ended
      <3> QED
        BY <1>1, <2>3, <2>5, <3>1, <3>2 DEF NumberingInv
    <2> QED
      BY <2>6, <2>7
  <1>4. ASSUME NEW j \in Journal, Claim(j) \/ Release(j) \/ Fold(j) \/ Crash(j)
        PROVE  NumberingInv'
    <2>1. UNCHANGED log
      BY <1>4 DEF Claim, Release, Fold, Crash
    <2>2. \A i \in Journal : nextSeq'[i] # Unread =>
              nextSeq'[i] = nextSeq[i] /\ holder' = i
      BY <1>1, <1>4, JournalAssumption DEF Claim, Release, Fold, Crash, NumberingInv, TypeOK
    <2> QED
      BY <1>1, <2>1, <2>2 DEF NumberingInv, NoneGlued
  <1>5. CASE UNCHANGED vars
    BY <1>1, <1>5 DEF vars, NumberingInv, NoneGlued
  <1> QED
    BY <1>2, <1>3, <1>4, <1>5 DEF Next

\* When no object serves two operations, whatever the operations accept is what
\* observers can read, wherever writes were torn.
THEOREM ReadersAgree ==
  ASSUME Reused = FALSE
  PROVE  Spec => []ObserversCanRead
  <1>1. NumberingInv /\ [Next]_vars => NumberingInv'
    BY NumberingPreserved
  <1>2. NumberingInv => ObserversCanRead
    BY DEF NumberingInv, NoneGlued, ObserversCanRead, StrictlyReadable, SnapshotReadable,
       Shown, Parses
  <1> QED
    BY <1>1, <1>2, InitLog, PTL DEF Spec

-----------------------------------------------------------------------------
(* Survival, wherever writes stop and however objects are used.           *)

\* A whole line is never touched again, and no line is ever unglued.
LEMMA WholeLinesStay ==
  ASSUME TypeOK, TypeOK', [Next]_vars
  PROVE  /\ \A k \in DOMAIN log :
               log[k].form = "whole" => k \in DOMAIN log' /\ log'[k] = log[k]
         /\ NoneGlued' => NoneGlued
  <1>1. DOMAIN log = 1 .. Len(log) /\ DOMAIN log' = 1 .. Len(log') /\ Len(log) \in Nat
    BY DEF TypeOK
  <1>2. ASSUME NEW j \in Journal, AppendEvent(j) \/ TearEvent(j)
        PROVE  \E line \in Line : log' = Extended(line)
    <2>1. Next_seq(j) \in Nat /\ acked + 1 \in Nat
      BY DEF Next_seq, TypeOK
    <2>2. PICK form \in {"whole", "cut", "bare"}, event \in {acked + 1, 0} :
              log' = Extended([seq |-> Next_seq(j), form |-> form, event |-> event])
      BY <1>2, LogAssumption DEF AppendEvent, TearEvent
    <2>3. [seq |-> Next_seq(j), form |-> form, event |-> event] \in Line
      BY <2>1 DEF Line, Form
    <2> QED
      BY <2>2, <2>3
  <1>3. ASSUME NEW line \in Line, log' = Extended(line)
        PROVE  /\ \A k \in DOMAIN log :
                     log[k].form = "whole" => k \in DOMAIN log' /\ log'[k] = log[k]
               /\ NoneGlued' => NoneGlued
    <2>1. CASE log = <<>> \/ Ended(log[Len(log)])
      <3>1. Len(log') = Len(log) + 1 /\ \A k \in DOMAIN log : log'[k] = log[k]
        BY <1>3, <2>1, ExtendedFacts DEF TypeOK
      <3> QED
        BY <1>1, <3>1 DEF NoneGlued
    <2>2. CASE log # <<>> /\ ~Ended(log[Len(log)])
      <3>1. /\ Len(log') = Len(log)
            /\ \A k \in DOMAIN log : k # Len(log) => log'[k] = log[k]
        BY <1>3, <2>2, ExtendedFacts DEF TypeOK
      <3> QED
        BY <1>1, <2>2, <3>1 DEF NoneGlued, Ended
    <2> QED
      BY <2>1, <2>2
  <1>4. CASE UNCHANGED log
    BY <1>4 DEF NoneGlued
  <1>5. (\E j \in Journal : AppendEvent(j) \/ TearEvent(j)) \/ UNCHANGED log
    BY DEF Next, Claim, Release, Fold, Crash, vars
  <1> QED
    BY <1>2, <1>3, <1>4, <1>5

LEMMA SurvivalPreserved ==
  ASSUME SurvivalInv, [Next]_vars
  PROVE  SurvivalInv'
  <1>1. TypeOK' /\ TypeOK
    BY TypePreserved DEF SurvivalInv, TypeOK
  <1> DEFINE Kept(n) == \E k \in DOMAIN log : log[k].form = "whole" /\ log[k].event = n
  <1> SUFFICES ASSUME NoneGlued', NEW n \in 1 .. acked' PROVE Kept(n)'
    BY <1>1 DEF SurvivalInv
  <1>2. Kept(n) => Kept(n)'
    BY <1>1, WholeLinesStay
  <1>3. NoneGlued
    BY <1>1, WholeLinesStay
  <1>4. n \in 1 .. acked => Kept(n)
    BY <1>3 DEF SurvivalInv
  <1>5. ASSUME NEW j \in Journal, AppendEvent(j) PROVE Kept(n)'
    <2> DEFINE line == [seq |-> Next_seq(j), form |-> "whole", event |-> acked + 1]
    <2>1. line \in Line /\ log' = Extended(line) /\ line.form = "whole"
          /\ line.event = acked + 1
      BY <1>1, <1>5 DEF AppendEvent, Line, Form, Next_seq, TypeOK
    <2> HIDE DEF line
    <2>2. log = <<>> \/ Ended(log[Len(log)])
      <3> SUFFICES ASSUME log # <<>> /\ ~Ended(log[Len(log)]) PROVE FALSE
        OBVIOUS
      <3>1. Len(log) \in DOMAIN log' /\ log'[Len(log)].form = "glued"
        BY <1>1, <2>1, ExtendedFacts DEF TypeOK
      <3> QED
        BY <3>1 DEF NoneGlued
    <2>3. Len(log') = Len(log) + 1 /\ log'[Len(log) + 1] = line
      BY <1>1, <2>1, <2>2, ExtendedFacts DEF TypeOK
    <2>4. Len(log) + 1 \in DOMAIN log'
      BY <1>1, <2>3 DEF TypeOK
    <2>5. n \in 1 .. acked \/ n = acked + 1
      BY <1>1, <1>5 DEF AppendEvent, TypeOK
    <2> QED
      BY <1>2, <1>4, <2>1, <2>3, <2>4, <2>5
  <1>6. CASE UNCHANGED acked
    BY <1>2, <1>4, <1>6
  <1>7. (\E j \in Journal : AppendEvent(j)) \/ UNCHANGED acked
    BY DEF Next, Claim, Release, Fold, TearEvent, Crash, vars
  <1> QED
    BY <1>5, <1>6, <1>7

\* Wherever a write stops, however often objects are reused and whoever crashes,
\* no reader takes a log for whole that lacks an acknowledged event.
THEOREM AcknowledgedEventsAreSeen ==
  Spec => []AcknowledgedIsSeen
  <1>1. SurvivalInv /\ [Next]_vars => SurvivalInv'
    BY SurvivalPreserved
  <1>2. ASSUME SurvivalInv PROVE AcknowledgedIsSeen
    <2>1. CASE NoneGlued
      <3>1. \A n \in 1 .. acked : \E k \in DOMAIN log :
               log[k].form = "whole" /\ log[k].event = n
        BY <1>2, <2>1 DEF SurvivalInv
      <3>2. \A k \in DOMAIN log :
               log[k].form = "whole" => Parses(log[k]) /\ k \in Shown
        BY DEF Parses, Shown, Ended
      <3> QED
        BY <3>1, <3>2 DEF AcknowledgedIsSeen, Seen
    <2>2. CASE ~NoneGlued
      <3>1. \E k \in DOMAIN log : ~Parses(log[k]) /\ k \in Shown
        BY <2>2 DEF NoneGlued, Parses, Shown, Ended
      <3> QED
        BY <3>1 DEF AcknowledgedIsSeen, StrictlyReadable, SnapshotReadable
    <2> QED
      BY <2>1, <2>2
  <1> QED
    BY <1>1, <1>2, InitLog, PTL DEF Spec
=============================================================================
