------------------------------ MODULE Retention ------------------------------
(***************************************************************************)
(* hedloom_exec.prune and pins on one record: keepers survey, apply, pin   *)
(* and unpin while the callers of AttemptRecord launch, reconcile, cancel  *)
(* and accept.  Keepers take the same claim.  A step ends at each durable  *)
(* write and at each change of the workspace, so that a crash may fall     *)
(* between any two of them.  Every try is taken to be older than the floor *)
(* and larger than any size: what a policy then selects is by outcome and  *)
(* keep_latest.                                                            *)
(***************************************************************************)
EXTENDS AttemptRecord, FiniteSets

CONSTANTS
    Keeper,      \* processes that prune, pin or unpin
    KeepLatest,  \* RetentionRule.keep_latest
    RuleOutcomes,\* RetentionRule.outcome
    KeepLogs,    \* RetentionRule.keep_logs
    Thaws        \* what unpin is asked for: the values of its thaw argument

ASSUME KeeperAssumption == Keeper \cap Caller = {} /\ NoCaller \notin Keeper
ASSUME PolicyAssumption ==
    /\ KeepLatest \in Nat /\ KeepLogs \in BOOLEAN /\ Thaws \subseteq BOOLEAN
    /\ RuleOutcomes \subseteq Observed

VARIABLES
    workspace, \* workspace[n]: "none", "whole", "part" (half removed), "logs"
    writable,  \* writable[n]: its write bits are set
    pinned,    \* pinned[n]: the modes its active pin recorded, or "no"
    removed,   \* the tries with a workspace_removed event
    keeping    \* keeping[k]: what keeper k is doing

kept == <<workspace, writable, pinned, removed, keeping>>
rvars == <<vars, kept>>

Idle == [at |-> "idle", try |-> NoTry, todo |-> {}, freeze |-> FALSE]

RInit ==
    /\ Init
    /\ workspace = [n \in Try |-> "none"]
    /\ writable = [n \in Try |-> TRUE]
    /\ pinned = [n \in Try |-> "no"]
    /\ removed = {}
    /\ keeping = [k \in Keeper |-> Idle]

Doing(k, step) == keeping[k].at = step
Inside(k) == keeping[k].at \in {"remove", "rest", "freeze", "append", "thaw"}
Become(k, doing) == keeping' = [keeping EXCEPT ![k] = doing]
\* Mutant: the claim is taken while somebody else holds it.
TakeMutant(k) == lock' = k

\* The record's own claim, without waiting: a held claim is an error.
Take(k) == lock = NoCaller /\ lock' = k
GiveBack == lock' = NoCaller
untouched == <<pc, verdict, tries, current, manifest, standing, farm, accepted>>

-----------------------------------------------------------------------------
(* The record's own steps: a try has a workspace before its intent.        *)

CreatesWorkspace(n) == n = current /\ \E c \in Caller : At(c, "intend") /\ pc'[c] = "submit"

RecordStep ==
    /\ Next
    /\ workspace' = [n \in Try |-> IF CreatesWorkspace(n) THEN "whole" ELSE workspace[n]]
    /\ UNCHANGED <<writable, pinned, removed, keeping>>

-----------------------------------------------------------------------------
(* survey and apply.                                                       *)

\* Mutant: the newest terminal tries are not kept.
RankMutant(n) == KeepLatest

\* The position of a terminal try, newest first.
Rank(n) == Cardinality({m \in Try : Terminal(m) /\ m > n})

\* survey, for one try: every exclusion, then the rule.
Candidate(n) ==
    /\ Terminal(n) /\ Published(n)
    /\ tries[n].outcome # "unreconciled"
    /\ n # standing.try
    /\ pinned[n] = "no"
    /\ workspace[n] # "none"
    /\ Rank(n) >= KeepLatest /\ tries[n].outcome \in RuleOutcomes

Candidates == {n \in Try : Candidate(n)}

\* A survey is read without the claim and may be old when it is applied.
Surveys(k) ==
    /\ Doing(k, "idle") /\ Candidates # {}
    /\ Become(k, [Idle EXCEPT !.at = "apply", !.todo = Candidates])
    /\ UNCHANGED <<lock, untouched, workspace, writable, pinned, removed>>

Following(k) == CHOOSE n \in keeping[k].todo : \A m \in keeping[k].todo : n <= m
Without(k, n) ==
    LET rest == keeping[k].todo \ {n}
    IN IF rest = {} THEN Idle ELSE [keeping[k] EXCEPT !.todo = rest]

\* The claim is held by somebody: this try is skipped.
SkipsContended(k) ==
    /\ Doing(k, "apply") /\ lock # NoCaller
    /\ Become(k, Without(k, Following(k)))
    /\ UNCHANGED <<lock, untouched, workspace, writable, pinned, removed>>

\* Mutant: the proposal is applied as it was surveyed.
StillCandidateMutant(n) == workspace[n] # "none"

\* apply surveys the record again under its claim.
StillCandidate(n) == Candidate(n)

SkipsChanged(k) ==
    /\ Doing(k, "apply") /\ lock = NoCaller /\ ~StillCandidate(Following(k))
    /\ Become(k, Without(k, Following(k)))
    /\ UNCHANGED <<lock, untouched, workspace, writable, pinned, removed>>

\* Mutant: the bytes go first.
RecordsRemovalMutant(k) ==
    /\ Doing(k, "apply") /\ Take(k) /\ StillCandidate(Following(k))
    /\ Become(k, [keeping[k] EXCEPT !.at = "remove", !.try = Following(k)])
    /\ UNCHANGED <<untouched, workspace, writable, pinned, removed>>

\* workspace_removed is appended once, before anything is removed.
RecordsRemoval(k) ==
    /\ Doing(k, "apply") /\ Take(k) /\ StillCandidate(Following(k))
    /\ removed' = removed \cup {Following(k)}
    /\ Become(k, [keeping[k] EXCEPT !.at = "remove", !.try = Following(k)])
    /\ UNCHANGED <<untouched, workspace, writable, pinned>>

HasPayload(n) == workspace[n] \in {"whole", "part"}

\* _remove_workspace, halfway: what it unlinks is gone.
RemovesSome(k) ==
    /\ Doing(k, "remove") /\ HasPayload(keeping[k].try) /\ writable[keeping[k].try]
    /\ workspace' = [workspace EXCEPT ![keeping[k].try] = "part"]
    /\ Become(k, [keeping[k] EXCEPT !.at = "rest"])
    /\ UNCHANGED <<lock, untouched, writable, pinned, removed>>

RemovesRest(k) ==
    /\ \/ Doing(k, "rest")
       \/ Doing(k, "remove") /\ ~HasPayload(keeping[k].try)
    /\ workspace' = [workspace EXCEPT ![keeping[k].try] = IF KeepLogs THEN "logs" ELSE "none"]
    /\ GiveBack
    /\ Become(k, IF keeping[k].todo = {keeping[k].try} THEN Idle
                 ELSE [keeping[k] EXCEPT !.at = "apply", !.try = NoTry,
                                         !.todo = @ \ {keeping[k].try}])
    /\ UNCHANGED <<untouched, writable, pinned, removed>>

\* A tree without write bits cannot be removed: the error ends the whole pass.
RemovalFails(k) ==
    /\ Doing(k, "remove") /\ HasPayload(keeping[k].try) /\ ~writable[keeping[k].try]
    /\ GiveBack /\ Become(k, Idle)
    /\ UNCHANGED <<untouched, workspace, writable, pinned, removed>>

-----------------------------------------------------------------------------
(* pin and unpin.                                                          *)

MayPin(n) ==
    /\ Terminal(n) /\ pinned[n] = "no" /\ n \notin removed /\ workspace[n] # "none"

\* The claim is taken, the tree is inventoried; it is then frozen if asked.
Pins(k, n, freeze) ==
    /\ Doing(k, "idle") /\ Take(k) /\ MayPin(n)
    /\ Become(k, [Idle EXCEPT !.at = IF freeze THEN "freeze" ELSE "append",
                              !.try = n, !.freeze = writable[n]])
    /\ UNCHANGED <<untouched, workspace, writable, pinned, removed>>

Freezes(k) ==
    /\ Doing(k, "freeze")
    /\ writable' = [writable EXCEPT ![keeping[k].try] = FALSE]
    /\ Become(k, [keeping[k] EXCEPT !.at = "append"])
    /\ UNCHANGED <<lock, untouched, workspace, pinned, removed>>

\* The pin becomes a promise here, with the modes as they were inventoried.
AppendsPinned(k) ==
    /\ Doing(k, "append")
    /\ pinned' = [pinned EXCEPT ![keeping[k].try] = IF keeping[k].freeze THEN "writable" ELSE "frozen"]
    /\ GiveBack /\ Become(k, Idle)
    /\ UNCHANGED <<untouched, workspace, writable, removed>>

\* The release is appended, then the recorded modes are restored if asked.
Unpins(k, n, thaw) ==
    /\ Doing(k, "idle") /\ pinned[n] # "no"
    /\ pinned' = [pinned EXCEPT ![n] = "no"]
    /\ IF thaw
       THEN Take(k) /\ Become(k, [Idle EXCEPT !.at = "thaw", !.try = n,
                                              !.freeze = pinned[n] = "writable"])
       ELSE lock = NoCaller /\ UNCHANGED <<lock, keeping>>
    /\ UNCHANGED <<untouched, workspace, writable, removed>>

Restores(k) ==
    /\ Doing(k, "thaw")
    /\ writable' = [writable EXCEPT ![keeping[k].try] = keeping[k].freeze]
    /\ GiveBack /\ Become(k, Idle)
    /\ UNCHANGED <<untouched, workspace, pinned, removed>>

\* A keeper dies, wherever it is; the claim goes with it.
KeeperCrashes(k) ==
    /\ ~Doing(k, "idle")
    /\ IF Inside(k) THEN GiveBack ELSE UNCHANGED lock
    /\ Become(k, Idle)
    /\ UNCHANGED <<untouched, workspace, writable, pinned, removed>>

Prunes(k) ==
    \/ SkipsContended(k) \/ SkipsChanged(k) \/ RecordsRemoval(k)
    \/ RemovesSome(k) \/ RemovesRest(k) \/ RemovalFails(k)

Works(k) == Prunes(k) \/ Freezes(k) \/ AppendsPinned(k) \/ Restores(k)

KeeperStep(k) ==
    \/ Surveys(k) \/ Works(k) \/ KeeperCrashes(k)
    \/ \E n \in Try : \/ \E freeze \in BOOLEAN : Pins(k, n, freeze)
                      \/ \E thaw \in Thaws : Unpins(k, n, thaw)

RNext == RecordStep \/ \E k \in Keeper : KeeperStep(k)

RSpec == RInit /\ [][RNext]_rvars

-----------------------------------------------------------------------------
(* Properties.                                                             *)

RTypeOK ==
    /\ lock \in Caller \cup Keeper \cup {NoCaller}
    /\ workspace \in [Try -> {"none", "whole", "part", "logs"}]
    /\ writable \in [Try -> BOOLEAN]
    /\ pinned \in [Try -> {"no", "writable", "frozen"}]
    /\ removed \subseteq Try
    /\ keeping \in [Keeper -> [at: {"idle", "apply", "remove", "rest", "freeze", "append", "thaw"},
                               try: Try \cup {NoTry}, todo: SUBSET Try, freeze: BOOLEAN]]

\* A pin is a refusal: while it is active the workspace it names is whole,
\* however old the survey is that proposed to remove it, whichever keeper
\* applies it and wherever keepers crash.
PinnedStaysWhole == \A n \in Try : pinned[n] # "no" => workspace[n] = "whole"

\* docs/guide/results.md:321: the standing evidence a later run would reuse is
\* never a candidate.  What stands still has what it stands for.
StandingKeepsItsWorkspace ==
    HasStanding => workspace[standing.try] = "whole"

\* Bytes go only after the removal is recorded, from a decided try, and never
\* from one a caller is working on.
RemovalIsRecorded ==
    [][ \A n \in Try : workspace'[n] # workspace[n] /\ workspace[n] # "none" =>
          /\ n \in removed /\ Terminal(n) /\ pinned[n] = "no"
          /\ \A c \in Caller : lock # c ]_rvars

\* Retention changes nothing the record promises: with the claim free whenever
\* a keeper holds it, every behaviour is one of AttemptRecord.
Record == INSTANCE AttemptRecord WITH
    lock <- (IF lock \in Keeper THEN NoCaller ELSE lock)

KeepersDisturbNothing == Record!Spec
=============================================================================
