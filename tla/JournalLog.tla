----------------------------- MODULE JournalLog ------------------------------
(***************************************************************************)
(* events.jsonl as bytes on a disk: AttemptJournal objects of several      *)
(* callers append numbered lines under the claim, and a write may stop     *)
(* half-way (a power cut, a full file system, an exceeded quota).  The     *)
(* strict reader (events, fold) runs before every append of an operation;  *)
(* the snapshot reader (attempts, runs, inspect) takes no claim and        *)
(* leaves an incomplete last line out.                                     *)
(***************************************************************************)
EXTENDS Integers, Sequences

CONSTANTS
    Journal,      \* AttemptJournal objects on this record
    NoJournal,    \* the claim is free
    Unread,       \* _next_seq before the first append
    MaxLines,     \* bound: lines the log may hold (unbounded in the code)
    Reused,       \* an object serves more than one claimed operation
    Cuts          \* where a write that fails may stop

ASSUME JournalAssumption == NoJournal \notin Journal /\ Unread \notin Nat
ASSUME LogAssumption ==
    MaxLines \in Nat /\ Reused \in BOOLEAN /\ Cuts \subseteq {"cut", "bare"}

VARIABLES
    log,      \* the lines of events.jsonl
    nextSeq,  \* nextSeq[j]: AttemptJournal._next_seq
    holder,   \* the object whose claim is held
    folded,   \* the holder has read the log strictly
    acked     \* appends that returned to their caller

vars == <<log, nextSeq, holder, folded, acked>>

\* whole: a line and its newline.  cut: it stops inside the JSON.  bare: only
\* the newline is missing.  glued: written onto the end of a bare line.
Form == {"whole", "cut", "bare", "glued"}
\* event: which of the acknowledged appends the line is (0: of none, the write
\* raised).
Line == [seq: Nat, form: Form, event: Nat]

Init ==
    /\ log = <<>>
    /\ nextSeq = [j \in Journal |-> Unread]
    /\ holder = NoJournal
    /\ folded = FALSE
    /\ acked = 0

-----------------------------------------------------------------------------
(* The two readers.                                                        *)

Ended(line) == line.form \in {"whole", "glued"}
Parses(line) == line.form \in {"whole", "bare"}

\* Mutant: the strict reader, too, forgives the line the log ends in.
StrictlyReadableMutant == \A k \in DOMAIN log : k < Len(log) => Parses(log[k])

\* events(): every line has to parse; numbering is not looked at.
StrictlyReadable == \A k \in DOMAIN log : Parses(log[k])

\* snapshot(): the ended lines, which have to parse and to be numbered.
Shown == {k \in DOMAIN log : k < Len(log) \/ Ended(log[k])}
SnapshotReadable == \A k \in Shown : Parses(log[k]) /\ log[k].seq = k - 1

-----------------------------------------------------------------------------
(* The writer.                                                             *)

\* open(..., "a"): what is written goes where the file ends, in its last line
\* if that one has no newline.
Extended(line) ==
    IF log # <<>> /\ ~Ended(log[Len(log)])
    THEN [log EXCEPT ![Len(log)].form = IF line.form = "whole" THEN "glued" ELSE "cut"]
    ELSE Append(log, line)

\* Counted once per object, then kept.
Next_seq(j) == IF nextSeq[j] = Unread THEN Len(log) ELSE nextSeq[j]

Claim(j) ==
    /\ holder = NoJournal
    /\ holder' = j
    /\ UNCHANGED <<log, nextSeq, folded, acked>>

\* Mutant: the count outlives the operation it was made for.
ReleaseMutant(j) ==
    /\ holder = j
    /\ holder' = NoJournal /\ folded' = FALSE
    /\ UNCHANGED <<log, nextSeq, acked>>

\* The claim is given back; the object may live on for another operation.
Release(j) ==
    /\ holder = j
    /\ holder' = NoJournal /\ folded' = FALSE
    /\ nextSeq' = IF Reused THEN nextSeq ELSE [nextSeq EXCEPT ![j] = Unread]
    /\ UNCHANGED <<log, acked>>

\* Every claimed operation folds before it appends; a log that does not parse
\* raises JournalError and nothing is written.
Fold(j) ==
    /\ holder = j /\ ~folded /\ StrictlyReadable
    /\ folded' = TRUE
    /\ UNCHANGED <<log, nextSeq, holder, acked>>

AppendEvent(j) ==
    /\ holder = j /\ folded /\ Len(log) < MaxLines
    /\ log' = Extended([seq |-> Next_seq(j), form |-> "whole", event |-> acked + 1])
    /\ nextSeq' = [nextSeq EXCEPT ![j] = Next_seq(j) + 1]
    /\ acked' = acked + 1
    /\ UNCHANGED <<holder, folded>>

\* The write stops half-way: the append raises and the claim unwinds.  The
\* sequence number was counted but is not advanced.
TearEvent(j) ==
    /\ holder = j /\ folded /\ Len(log) < MaxLines
    /\ \E cut \in Cuts :
          log' = Extended([seq |-> Next_seq(j), form |-> cut, event |-> 0])
    /\ nextSeq' = [nextSeq EXCEPT ![j] = IF Reused THEN Next_seq(j) ELSE Unread]
    /\ holder' = NoJournal /\ folded' = FALSE
    /\ UNCHANGED acked

\* The process of the holder dies between two appends.
Crash(j) ==
    /\ holder = j
    /\ holder' = NoJournal /\ folded' = FALSE
    /\ nextSeq' = [nextSeq EXCEPT ![j] = Unread]
    /\ UNCHANGED <<log, acked>>

Next ==
    \E j \in Journal :
        \/ Claim(j) \/ Release(j) \/ Fold(j)
        \/ AppendEvent(j) \/ TearEvent(j) \/ Crash(j)

Spec == Init /\ [][Next]_vars

-----------------------------------------------------------------------------
(* Properties.                                                             *)

TypeOK ==
    /\ log \in Seq(Line)
    /\ nextSeq \in [Journal -> Nat \cup {Unread}]
    /\ holder \in Journal \cup {NoJournal}
    /\ folded \in BOOLEAN
    /\ acked \in Nat

\* Whatever callers, crashes and torn writes there were, a log that the
\* operations of the record accept is one that observers can read: the two
\* readers of the same bytes never disagree about whether they are a journal.
ObserversCanRead == StrictlyReadable => SnapshotReadable

\* The events a reader of these lines has seen.
Seen(ks) == {log[k].event : k \in {i \in ks : Parses(log[i])}}

\* No reader acts on a log that silently lacks an event whose append returned:
\* wherever writes were torn and whatever was written after them, a restarted
\* caller and an observer each see every acknowledged event or refuse the log.
AcknowledgedIsSeen ==
    /\ StrictlyReadable => 1 .. acked \subseteq Seen(DOMAIN log)
    /\ SnapshotReadable => 1 .. acked \subseteq Seen(Shown)

-----------------------------------------------------------------------------
(* The inductive invariants.                                               *)

\* Nothing was ever written onto a bare line.
NoneGlued == \A k \in DOMAIN log : log[k].form # "glued"

\* For objects that serve one operation each: until a line is glued, every line
\* is numbered by its place, and an object that counted the lines holds the
\* claim and the count of now.
NumberingInv ==
    /\ TypeOK
    /\ \A j \in Journal : nextSeq[j] # Unread => holder = j
    /\ NoneGlued =>
          /\ \A k \in DOMAIN log : log[k].seq = k - 1
          /\ \A j \in Journal : nextSeq[j] # Unread => nextSeq[j] = Len(log)

\* Each acknowledged event is a whole line of its own, until one is glued.
SurvivalInv ==
    /\ TypeOK
    /\ NoneGlued =>
          \A n \in 1 .. acked :
              \E k \in DOMAIN log : log[k].form = "whole" /\ log[k].event = n
=============================================================================
