--------------------------- MODULE Retention_proofs ---------------------------
(***************************************************************************)
(* Keepers and callers on one record, for any number of either, any policy *)
(* and every kind of transport.                                            *)
(***************************************************************************)
EXTENDS Retention, FiniteSetTheorems, WellFoundedInduction, TLAPS

-----------------------------------------------------------------------------
(* Who holds the claim.                                                    *)

ControlTypeOK == pc \in [Caller -> {"idle"} \cup Operation \cup Step]

CallerHolds == \A c \in Caller : pc[c] # "idle" => lock = c
KeeperHolds == \A k \in Keeper : Inside(k) => lock = k

HolderInv == ControlTypeOK /\ CallerHolds /\ KeeperHolds

\* A step of the record is a claim of a free lock, a move or a release of
\* somebody inside an operation, or nothing that concerns control.
LEMMA ControlSteps ==
  ASSUME Next
  PROVE  \/ \E c \in Caller, op \in Operation :
               lock = NoCaller /\ lock' = c /\ pc' = [pc EXCEPT ![c] = op]
         \/ \E c \in Caller : pc[c] # "idle" /\ \/ Release(c)
                                                \/ \E s \in Operation \cup Step : Goto(c, s)
         \/ UNCHANGED <<lock, pc>>
  <1> DEFINE Moves(c) == pc[c] # "idle" /\ (Release(c) \/ \E s \in Operation \cup Step : Goto(c, s))
  <1>1. ASSUME NEW c \in Caller, NEW op \in Operation, Claim(c, op)
        PROVE  lock = NoCaller /\ lock' = c /\ pc' = [pc EXCEPT ![c] = op]
    BY <1>1 DEF Claim
  <1>2. ASSUME NEW c \in Caller, Launch(c)
        PROVE  Moves(c) \/ UNCHANGED <<lock, pc>>
    BY <1>2 DEF Launch, ServeStanding, RepairStanding, RepairCurrent, ServeCurrent, RefuseLaunch,
       AttachSubmitted, AttachDiscovered, RecordLost, BeginTry, GiveUpAtBound, SubmitIntent,
       SubmitRefused, SubmitAccepted, SubmitReturns, SubmitIndeterminate, WantsTry, Undecided,
       At, Operation, Step
  <1>3. ASSUME NEW c \in Caller, Reconcile(c)
        PROVE  Moves(c)
    BY <1>3 DEF Reconcile, RepairVerdict, NothingToReconcile, Poll, PublishManifest,
       PublishStanding, AppendTerminal, At, Operation, Step
  <1>4. ASSUME NEW c \in Caller, Decide(c)
        PROVE  Moves(c)
    BY <1>4 DEF Decide, RequestCancel, NothingToCancel, CancelJob, AcceptForReuse,
       NothingToAccept, MakeStanding, At, Operation, Step
  <1>5. ASSUME NEW c \in Caller, Crash(c)
        PROVE  Moves(c)
    BY <1>5 DEF Crash, At
  <1>6. ASSUME NEW r \in Run, JobEnds(r) \/ JobForgotten(r)
        PROVE  UNCHANGED <<lock, pc>>
    BY <1>6 DEF JobEnds, JobForgotten
  <1> QED
    BY <1>1, <1>2, <1>3, <1>4, <1>5, <1>6 DEF Next, Proceed

LEMMA RecordKeepsHolders ==
  ASSUME HolderInv, RecordStep
  PROVE  HolderInv'
  <1>1. UNCHANGED keeping
    BY DEF RecordStep
  <1>2. \A k \in Keeper : Inside(k)' = Inside(k)
    BY <1>1 DEF Inside
  <1>3. ASSUME NEW c \in Caller, NEW op \in Operation,
               lock = NoCaller, lock' = c, pc' = [pc EXCEPT ![c] = op]
        PROVE  HolderInv'
    <2>1. /\ \A d \in Caller : pc[d] = "idle"
          /\ \A k \in Keeper : ~Inside(k)
      BY <1>3, CallerAssumption, KeeperAssumption DEF HolderInv, CallerHolds, KeeperHolds
    <2> QED
      BY <1>2, <1>3, <2>1 DEF HolderInv, ControlTypeOK, CallerHolds, KeeperHolds
  <1>4. ASSUME NEW c \in Caller, pc[c] # "idle",
               Release(c) \/ \E s \in Operation \cup Step : Goto(c, s)
        PROVE  HolderInv'
    <2>1. /\ \A d \in Caller : d # c => pc[d] = "idle"
          /\ \A k \in Keeper : ~Inside(k)
          /\ lock = c
      BY <1>4, KeeperAssumption DEF HolderInv, CallerHolds, KeeperHolds
    <2>2. CASE Release(c)
      BY <1>2, <2>1, <2>2 DEF Release, HolderInv, ControlTypeOK, CallerHolds, KeeperHolds
    <2>3. ASSUME NEW s \in Operation \cup Step, Goto(c, s)
          PROVE  HolderInv'
      BY <1>2, <2>1, <2>3 DEF Goto, HolderInv, ControlTypeOK, CallerHolds, KeeperHolds
    <2> QED
      BY <1>4, <2>2, <2>3
  <1>5. ASSUME UNCHANGED <<lock, pc>>
        PROVE  HolderInv'
    BY <1>2, <1>5 DEF HolderInv, ControlTypeOK, CallerHolds, KeeperHolds
  <1>6. Next
    BY DEF RecordStep
  <1> QED
    BY <1>3, <1>4, <1>5, <1>6, ControlSteps

-----------------------------------------------------------------------------
(* What keepers know.                                                      *)

KeeperState == [at: {"idle", "apply", "remove", "rest", "freeze", "append", "thaw"},
                try: Try \cup {NoTry}, todo: SUBSET Try, freeze: BOOLEAN]

KeepTypeOK ==
    /\ keeping \in [Keeper -> KeeperState]
    /\ workspace \in [Try -> {"none", "whole", "part", "logs"}]
    /\ writable \in [Try -> BOOLEAN]
    /\ pinned \in [Try -> {"no", "writable", "frozen"}]
    /\ removed \subseteq Try
    /\ \A k \in Keeper : Doing(k, "apply") => keeping[k].todo # {}

\* What is removed was recorded and is not pinned; what is about to be pinned
\* is whole, and so is everything whose removal was never recorded.
Knows(k) ==
    /\ keeping[k].at \in {"remove", "rest", "freeze", "append", "thaw"} => keeping[k].try \in Try
    /\ keeping[k].at \in {"remove", "rest"} =>
          /\ keeping[k].try \in removed \cap keeping[k].todo
          /\ pinned[keeping[k].try] = "no"
    /\ keeping[k].at \in {"freeze", "append"} => workspace[keeping[k].try] = "whole"

KeepInv ==
    /\ KeepTypeOK
    /\ \A k \in Keeper : Knows(k)
    /\ \A n \in Try : n \notin removed => workspace[n] \in {"none", "whole"}
    /\ PinnedStaysWhole

RInv == HolderInv /\ KeepInv

\* The next try of a survey is one of those surveyed.
LEMMA FollowingIsSurveyed ==
  ASSUME NEW k \in Keeper, keeping[k].todo \subseteq Try, keeping[k].todo # {}
  PROVE  Following(k) \in keeping[k].todo /\ Following(k) \in Try
  <1>1. Try \subseteq Nat
    BY BoundAssumption DEF Try
  <1> DEFINE Below == {ss \in Nat \X Nat : ss[1] < ss[2]}
  <1>2. IsWellFoundedOn(Below, Nat)
    BY NatLessThanWellFounded DEF OpToRel
  <1>3. PICK n \in keeping[k].todo : \A m \in keeping[k].todo : ~ (<<m, n>> \in Below)
    <2> HIDE DEF Below
    <2> QED
      BY <1>1, <1>2, WFMin
  <1>4. ASSUME NEW m \in keeping[k].todo
        PROVE  n <= m
    <2>1. m \in Nat /\ n \in Nat
      BY <1>1
    <2>2. ~ (m < n)
      BY <1>3, <2>1
    <2> QED
      BY <2>1, <2>2
  <1> QED
    BY <1>4 DEF Following

-----------------------------------------------------------------------------
(* One keeper's step.                                                      *)

LEMMA BecomeFacts ==
  ASSUME KeepTypeOK, NEW k \in Keeper, NEW doing \in KeeperState, Become(k, doing)
  PROVE  /\ keeping' \in [Keeper -> KeeperState]
         /\ keeping'[k] = doing
         /\ \A j \in Keeper : j # k => keeping'[j] = keeping[j]
  BY DEF Become, KeepTypeOK

LEMMA IdleState == Idle \in KeeperState /\ Idle.at = "idle"
  BY DEF Idle, KeeperState

\* Others are outside the claim while one is in it or takes it.
LEMMA OthersAreOutside ==
  ASSUME HolderInv, NEW k \in Keeper, Inside(k) \/ Take(k)
  PROVE  /\ \A j \in Keeper : j # k => ~Inside(j)
         /\ \A c \in Caller : pc[c] = "idle"
  BY KeeperAssumption, CallerAssumption DEF HolderInv, CallerHolds, KeeperHolds, Take

\* What is left to show of a keeper's step: who holds the claim.
LEMMA HoldersAfter ==
  ASSUME HolderInv, KeepTypeOK, NEW k \in Keeper, UNCHANGED pc,
         NEW doing \in KeeperState, Become(k, doing),
         \/ UNCHANGED lock /\ (Inside(k)' => Inside(k))
         \/ Inside(k) /\ GiveBack /\ ~Inside(k)'
         \/ Take(k)
  PROVE  HolderInv'
  <1>1. \A j \in Keeper : j # k => Inside(j)' = Inside(j)
    BY BecomeFacts DEF Inside
  <1>2. CASE UNCHANGED lock /\ (Inside(k)' => Inside(k))
    BY <1>1, <1>2 DEF HolderInv, ControlTypeOK, CallerHolds, KeeperHolds
  <1>3. CASE Inside(k) /\ GiveBack /\ ~Inside(k)'
    BY <1>1, <1>3, OthersAreOutside DEF HolderInv, ControlTypeOK, CallerHolds, KeeperHolds
  <1>4. CASE Take(k)
    BY <1>1, <1>4, OthersAreOutside DEF HolderInv, ControlTypeOK, CallerHolds, KeeperHolds, Take
  <1> QED
    BY <1>2, <1>3, <1>4

LEMMA SurveysPreserves ==
  ASSUME RInv, NEW k \in Keeper, Surveys(k)
  PROVE  RInv'
  <1> DEFINE doing == [Idle EXCEPT !.at = "apply", !.todo = Candidates]
  <1>1. doing \in KeeperState /\ doing.at = "apply" /\ doing.todo # {}
    BY DEF Surveys, Candidates, Idle, KeeperState
  <1>2. Become(k, doing) /\ UNCHANGED <<pc, lock, workspace, writable, pinned, removed>>
    BY DEF Surveys, untouched
  <1> HIDE DEF doing
  <1>3. keeping' \in [Keeper -> KeeperState] /\ keeping'[k] = doing
        /\ \A j \in Keeper : j # k => keeping'[j] = keeping[j]
    BY <1>1, <1>2, BecomeFacts DEF RInv, KeepInv
  <1>4. ~Inside(k)'
    BY <1>1, <1>3 DEF Inside
  <1>5. HolderInv'
    BY <1>1, <1>2, <1>4, HoldersAfter DEF RInv, KeepInv
  <1>6. KeepInv'
    BY <1>1, <1>2, <1>3 DEF RInv, KeepInv, KeepTypeOK, Knows, PinnedStaysWhole, Doing
  <1> QED
    BY <1>5, <1>6 DEF RInv

\* A keeper that goes outside and changes nothing else.
LEMMA LeavingPreserves ==
  ASSUME RInv, NEW k \in Keeper, NEW doing \in KeeperState, Become(k, doing),
         doing.at \in {"idle", "apply"}, doing.at = "apply" => doing.todo # {},
         UNCHANGED <<pc, workspace, writable, pinned, removed>>,
         (Inside(k) /\ GiveBack) \/ UNCHANGED lock
  PROVE  RInv'
  <1>1. keeping' \in [Keeper -> KeeperState] /\ keeping'[k] = doing
        /\ \A j \in Keeper : j # k => keeping'[j] = keeping[j]
    BY BecomeFacts DEF RInv, KeepInv
  <1>2. ~Inside(k)'
    BY <1>1 DEF Inside
  <1>3. HolderInv'
    BY <1>2, HoldersAfter DEF RInv, KeepInv
  <1>4. KeepInv'
    BY <1>1 DEF RInv, KeepInv, KeepTypeOK, Knows, PinnedStaysWhole, Doing
  <1> QED
    BY <1>3, <1>4 DEF RInv

LEMMA WithoutState ==
  ASSUME KeepTypeOK, NEW k \in Keeper, Doing(k, "apply"), NEW n \in Try
  PROVE  /\ Without(k, n) \in KeeperState
         /\ Without(k, n).at \in {"idle", "apply"}
         /\ Without(k, n).at = "apply" => Without(k, n).todo # {}
  <1> DEFINE rest == keeping[k].todo \ {n}
  <1>1. keeping[k] \in KeeperState /\ rest \in SUBSET Try
    BY DEF KeepTypeOK, KeeperState
  <1>2. /\ [keeping[k] EXCEPT !.todo = rest] \in KeeperState
        /\ [keeping[k] EXCEPT !.todo = rest].at = keeping[k].at
        /\ [keeping[k] EXCEPT !.todo = rest].todo = rest
    BY <1>1 DEF KeeperState
  <1>3. Without(k, n) = IF rest = {} THEN Idle ELSE [keeping[k] EXCEPT !.todo = rest]
    BY DEF Without
  <1> HIDE DEF rest
  <1> QED
    BY <1>2, <1>3, IdleState DEF Doing

LEMMA SurveyedTry ==
  ASSUME KeepTypeOK, NEW k \in Keeper, Doing(k, "apply")
  PROVE  Following(k) \in keeping[k].todo /\ Following(k) \in Try
  BY FollowingIsSurveyed DEF KeepTypeOK, KeeperState

LEMMA SkippingPreserves ==
  ASSUME RInv, NEW k \in Keeper, SkipsContended(k) \/ SkipsChanged(k)
  PROVE  RInv'
  <1>1. Doing(k, "apply") /\ Become(k, Without(k, Following(k)))
        /\ UNCHANGED <<pc, lock, workspace, writable, pinned, removed>>
    BY DEF SkipsContended, SkipsChanged, untouched
  <1> QED
    BY <1>1, WithoutState, SurveyedTry, LeavingPreserves DEF RInv, KeepInv

LEMMA RecordsRemovalPreserves ==
  ASSUME RInv, NEW k \in Keeper, RecordsRemoval(k)
  PROVE  RInv'
  <1> DEFINE n == Following(k)
             doing == [keeping[k] EXCEPT !.at = "remove", !.try = n]
  <1>1. n \in Try /\ n \in keeping[k].todo /\ pinned[n] = "no" /\ Take(k)
    BY SurveyedTry DEF RInv, KeepInv, RecordsRemoval, StillCandidate, Candidate
  <1>2. /\ doing \in KeeperState /\ doing.at = "remove" /\ doing.try = n
        /\ doing.todo = keeping[k].todo
    <2>1. keeping[k] \in KeeperState
      BY DEF RInv, KeepInv, KeepTypeOK
    <2> HIDE DEF n
    <2> QED
      BY <1>1, <2>1 DEF KeeperState
  <1>3. Become(k, doing) /\ removed' = removed \cup {n}
        /\ UNCHANGED <<pc, workspace, writable, pinned>>
    BY DEF RecordsRemoval, untouched
  <1> HIDE DEF doing, n
  <1>4. keeping' \in [Keeper -> KeeperState] /\ keeping'[k] = doing
        /\ \A j \in Keeper : j # k => keeping'[j] = keeping[j]
    BY <1>2, <1>3, BecomeFacts DEF RInv, KeepInv
  <1>5. HolderInv'
    BY <1>1, <1>2, <1>3, HoldersAfter DEF RInv, KeepInv
  <1>6. KeepInv'
    BY <1>1, <1>2, <1>3, <1>4 DEF RInv, KeepInv, KeepTypeOK, Knows, PinnedStaysWhole, Doing
  <1> QED
    BY <1>5, <1>6 DEF RInv

\* The workspace of the keeper's try changes, and of no other.
LEMMA RemovingPreserves ==
  ASSUME RInv, NEW k \in Keeper, NEW doing \in KeeperState, Become(k, doing),
         keeping[k].at \in {"remove", "rest"},
         NEW left \in {"none", "part", "logs"},
         workspace' = [workspace EXCEPT ![keeping[k].try] = left],
         UNCHANGED <<pc, writable, pinned, removed>>,
         doing.at = "apply" => doing.todo # {},
         \/ doing.at \in {"idle", "apply"} /\ GiveBack
         \/ /\ doing.at = "rest" /\ doing.try = keeping[k].try
            /\ doing.todo = keeping[k].todo /\ UNCHANGED lock
  PROVE  RInv'
  <1> DEFINE n == keeping[k].try
  <1>1. n \in Try /\ n \in removed \cap keeping[k].todo /\ pinned[n] = "no" /\ Inside(k)
    BY DEF RInv, KeepInv, Knows, Inside
  <1>2. keeping' \in [Keeper -> KeeperState] /\ keeping'[k] = doing
        /\ \A j \in Keeper : j # k => keeping'[j] = keeping[j]
    BY BecomeFacts DEF RInv, KeepInv
  <1>3. HolderInv'
    BY <1>1, <1>2, HoldersAfter DEF RInv, KeepInv, Inside
  <1>4. \A j \in Keeper : j # k => keeping[j].at \in {"idle", "apply"}
    <2>1. \A j \in Keeper : j # k => ~Inside(j)
      BY <1>1, OthersAreOutside DEF RInv
    <2> QED
      BY <2>1 DEF Inside, RInv, KeepInv, KeepTypeOK, KeeperState
  <1>5. /\ workspace' \in [Try -> {"none", "whole", "part", "logs"}]
        /\ \A m \in Try : m # n => workspace'[m] = workspace[m]
    BY <1>1 DEF RInv, KeepInv, KeepTypeOK
  <1>6. KeepTypeOK'
    BY <1>2, <1>5 DEF RInv, KeepInv, KeepTypeOK, Doing
  <1>7. \A j \in Keeper : Knows(j)'
    BY <1>1, <1>2, <1>4 DEF Knows
  <1>8. PinnedStaysWhole' /\ \A m \in Try : m \notin removed' => workspace'[m] \in {"none", "whole"}
    BY <1>1, <1>5 DEF RInv, KeepInv, PinnedStaysWhole
  <1> QED
    BY <1>3, <1>6, <1>7, <1>8 DEF RInv, KeepInv

LEMMA RemovesSomePreserves ==
  ASSUME RInv, NEW k \in Keeper, RemovesSome(k)
  PROVE  RInv'
  <1> DEFINE doing == [keeping[k] EXCEPT !.at = "rest"]
  <1>1. /\ doing \in KeeperState /\ doing.at = "rest" /\ doing.try = keeping[k].try
        /\ doing.todo = keeping[k].todo
    BY DEF RInv, KeepInv, KeepTypeOK, KeeperState
  <1>2. /\ Become(k, doing) /\ keeping[k].at \in {"remove", "rest"}
        /\ workspace' = [workspace EXCEPT ![keeping[k].try] = "part"]
        /\ UNCHANGED <<pc, lock, writable, pinned, removed>>
    BY DEF RemovesSome, Doing, untouched
  <1> HIDE DEF doing
  <1> QED
    BY <1>1, <1>2, RemovingPreserves

LEMMA RemovesRestPreserves ==
  ASSUME RInv, NEW k \in Keeper, RemovesRest(k)
  PROVE  RInv'
  <1> DEFINE rest == keeping[k].todo \ {keeping[k].try}
             onward == [keeping[k] EXCEPT !.at = "apply", !.try = NoTry, !.todo = rest]
             doing == IF keeping[k].todo = {keeping[k].try} THEN Idle ELSE onward
             left == IF KeepLogs THEN "logs" ELSE "none"
  <1>1. keeping[k] \in KeeperState /\ rest \in SUBSET Try
    BY DEF RInv, KeepInv, KeepTypeOK, KeeperState
  <1>2. onward \in KeeperState /\ onward.at = "apply" /\ onward.todo = rest
    <2> HIDE DEF rest
    <2> QED
      BY <1>1 DEF KeeperState
  <1>3. doing \in KeeperState /\ doing.at \in {"idle", "apply"}
    BY <1>2, IdleState
  <1>4. /\ Become(k, doing) /\ keeping[k].at \in {"remove", "rest"} /\ GiveBack
        /\ workspace' = [workspace EXCEPT ![keeping[k].try] = left]
        /\ UNCHANGED <<pc, writable, pinned, removed>>
    BY DEF RemovesRest, Doing, untouched
  <1>5. keeping[k].try \in keeping[k].todo
    BY <1>4 DEF RInv, KeepInv, Knows
  <1>6. doing.at = "apply" => doing.todo # {}
    BY <1>2, <1>5, IdleState
  <1>7. left \in {"none", "part", "logs"}
    OBVIOUS
  <1> HIDE DEF doing, left
  <1> QED
    BY <1>3, <1>4, <1>6, <1>7, RemovingPreserves

LEMMA RemovalFailsPreserves ==
  ASSUME RInv, NEW k \in Keeper, RemovalFails(k)
  PROVE  RInv'
  <1>1. Become(k, Idle) /\ Inside(k) /\ GiveBack
        /\ UNCHANGED <<pc, workspace, writable, pinned, removed>>
    BY DEF RemovalFails, Doing, Inside, untouched
  <1> QED
    BY <1>1, IdleState, LeavingPreserves

LEMMA PinsPreserves ==
  ASSUME RInv, NEW k \in Keeper, NEW n \in Try, NEW freeze \in BOOLEAN, Pins(k, n, freeze)
  PROVE  RInv'
  <1> DEFINE doing == [Idle EXCEPT !.at = IF freeze THEN "freeze" ELSE "append",
                                   !.try = n, !.freeze = writable[n]]
  <1>1. doing \in KeeperState /\ doing.at \in {"freeze", "append"} /\ doing.try = n
    BY DEF Idle, KeeperState, RInv, KeepInv, KeepTypeOK
  <1>2. Become(k, doing) /\ Take(k) /\ UNCHANGED <<pc, workspace, writable, pinned, removed>>
    BY DEF Pins, untouched
  <1>3. workspace[n] = "whole"
    BY DEF Pins, MayPin, RInv, KeepInv
  <1> HIDE DEF doing
  <1>4. keeping' \in [Keeper -> KeeperState] /\ keeping'[k] = doing
        /\ \A j \in Keeper : j # k => keeping'[j] = keeping[j]
    BY <1>1, <1>2, BecomeFacts DEF RInv, KeepInv
  <1>5. HolderInv'
    BY <1>1, <1>2, HoldersAfter DEF RInv, KeepInv
  <1>6. KeepInv'
    BY <1>1, <1>2, <1>3, <1>4 DEF RInv, KeepInv, KeepTypeOK, Knows, PinnedStaysWhole, Doing
  <1> QED
    BY <1>5, <1>6 DEF RInv

LEMMA FreezesPreserves ==
  ASSUME RInv, NEW k \in Keeper, Freezes(k)
  PROVE  RInv'
  <1> DEFINE doing == [keeping[k] EXCEPT !.at = "append"]
             n == keeping[k].try
  <1>1. keeping[k] \in KeeperState /\ keeping[k].at = "freeze"
    BY DEF Freezes, Doing, RInv, KeepInv, KeepTypeOK
  <1>2. doing \in KeeperState /\ doing.at = "append" /\ doing.try = n
    BY <1>1 DEF KeeperState
  <1>3. /\ Become(k, doing) /\ UNCHANGED <<pc, lock, workspace, pinned, removed>>
        /\ writable' = [writable EXCEPT ![n] = FALSE]
    BY DEF Freezes, untouched
  <1>4. n \in Try /\ workspace[n] = "whole"
    BY <1>1 DEF RInv, KeepInv, Knows
  <1> HIDE DEF doing, n
  <1>5. keeping' \in [Keeper -> KeeperState] /\ keeping'[k] = doing
        /\ \A j \in Keeper : j # k => keeping'[j] = keeping[j]
    BY <1>2, <1>3, BecomeFacts DEF RInv, KeepInv
  <1>6. HolderInv'
    BY <1>1, <1>2, <1>3, HoldersAfter DEF RInv, KeepInv, Inside
  <1>7. KeepInv'
    BY <1>2, <1>3, <1>4, <1>5 DEF RInv, KeepInv, KeepTypeOK, Knows, PinnedStaysWhole, Doing
  <1> QED
    BY <1>6, <1>7 DEF RInv

\* Nobody removes what is being pinned: the claim is held from the inventory on.
LEMMA AppendsPinnedPreserves ==
  ASSUME RInv, NEW k \in Keeper, AppendsPinned(k)
  PROVE  RInv'
  <1> DEFINE n == keeping[k].try
             modes == IF keeping[k].freeze THEN "writable" ELSE "frozen"
  <1>1. keeping[k].at = "append" /\ Inside(k)
    BY DEF AppendsPinned, Doing, Inside
  <1>2. /\ Become(k, Idle) /\ GiveBack /\ UNCHANGED <<pc, workspace, writable, removed>>
        /\ pinned' = [pinned EXCEPT ![n] = modes]
    BY DEF AppendsPinned, untouched
  <1>3. n \in Try /\ workspace[n] = "whole" /\ modes \in {"writable", "frozen"}
    BY <1>1 DEF RInv, KeepInv, Knows
  <1>4. keeping' \in [Keeper -> KeeperState] /\ keeping'[k] = Idle
        /\ \A j \in Keeper : j # k => keeping'[j] = keeping[j]
    BY <1>2, IdleState, BecomeFacts DEF RInv, KeepInv
  <1>5. HolderInv'
    BY <1>1, <1>2, <1>4, IdleState, HoldersAfter DEF RInv, KeepInv, Inside
  <1>6. \A j \in Keeper : j # k => keeping[j].at \notin {"remove", "rest"}
    BY <1>1, OthersAreOutside DEF RInv, Inside
  <1> HIDE DEF n, modes
  <1>7. KeepTypeOK'
    BY <1>2, <1>3, <1>4, IdleState DEF RInv, KeepInv, KeepTypeOK, Doing
  <1>8. \A j \in Keeper : Knows(j)'
    BY <1>2, <1>3, <1>4, <1>6, IdleState DEF RInv, KeepInv, Knows
  <1>9. PinnedStaysWhole'
    BY <1>2, <1>3 DEF RInv, KeepInv, KeepTypeOK, PinnedStaysWhole
  <1> QED
    BY <1>2, <1>5, <1>7, <1>8, <1>9 DEF RInv, KeepInv

\* What a release forgets was not needed: nothing relies on an active pin.
LEMMA UnpinsPreserves ==
  ASSUME RInv, NEW k \in Keeper, NEW n \in Try, NEW thaw \in BOOLEAN, Unpins(k, n, thaw)
  PROVE  RInv'
  <1> DEFINE doing == [Idle EXCEPT !.at = "thaw", !.try = n, !.freeze = pinned[n] = "writable"]
  <1>1. doing \in KeeperState /\ doing.at = "thaw" /\ doing.try = n
    BY DEF Idle, KeeperState
  <1>2. /\ pinned' = [pinned EXCEPT ![n] = "no"]
        /\ UNCHANGED <<pc, workspace, writable, removed>>
    BY DEF Unpins, untouched
  <1>3. /\ pinned' \in [Try -> {"no", "writable", "frozen"}]
        /\ \A m \in Try : pinned'[m] # "no" => pinned[m] # "no"
    BY <1>2 DEF RInv, KeepInv, KeepTypeOK
  <1>4. CASE UNCHANGED <<lock, keeping>>
    <2>1. HolderInv'
      BY <1>2, <1>4 DEF RInv, HolderInv, ControlTypeOK, CallerHolds, KeeperHolds, Inside
    <2>2. KeepInv'
      BY <1>2, <1>3, <1>4 DEF RInv, KeepInv, KeepTypeOK, Knows, PinnedStaysWhole, Doing
    <2> QED
      BY <2>1, <2>2 DEF RInv
  <1>5. CASE Take(k) /\ Become(k, doing)
    <2> HIDE DEF doing
    <2>1. keeping' \in [Keeper -> KeeperState] /\ keeping'[k] = doing
          /\ \A j \in Keeper : j # k => keeping'[j] = keeping[j]
      BY <1>1, <1>5, BecomeFacts DEF RInv, KeepInv
    <2>2. HolderInv'
      BY <1>1, <1>2, <1>5, HoldersAfter DEF RInv, KeepInv
    <2>3. KeepTypeOK'
      BY <1>1, <1>2, <1>3, <2>1 DEF RInv, KeepInv, KeepTypeOK, Doing
    <2>4. \A j \in Keeper : Knows(j)'
      BY <1>1, <1>2, <1>3, <2>1 DEF RInv, KeepInv, KeepTypeOK, Knows
    <2>5. PinnedStaysWhole'
      BY <1>2, <1>3 DEF RInv, KeepInv, PinnedStaysWhole
    <2> QED
      BY <1>2, <2>2, <2>3, <2>4, <2>5 DEF RInv, KeepInv
  <1> QED
    BY <1>4, <1>5 DEF Unpins

LEMMA RestoresPreserves ==
  ASSUME RInv, NEW k \in Keeper, Restores(k)
  PROVE  RInv'
  <1>1. /\ Become(k, Idle) /\ Inside(k) /\ GiveBack /\ UNCHANGED <<pc, workspace, pinned, removed>>
        /\ writable' = [writable EXCEPT ![keeping[k].try] = keeping[k].freeze]
        /\ keeping[k].at = "thaw"
    BY DEF Restores, Doing, Inside, untouched
  <1>2. keeping[k].try \in Try /\ keeping[k].freeze \in BOOLEAN
    BY <1>1 DEF RInv, KeepInv, Knows, KeepTypeOK, KeeperState
  <1>3. keeping' \in [Keeper -> KeeperState] /\ keeping'[k] = Idle
        /\ \A j \in Keeper : j # k => keeping'[j] = keeping[j]
    BY <1>1, IdleState, BecomeFacts DEF RInv, KeepInv
  <1>4. HolderInv'
    BY <1>1, <1>3, IdleState, HoldersAfter DEF RInv, KeepInv, Inside
  <1>5. writable' \in [Try -> BOOLEAN]
    BY <1>1, <1>2 DEF RInv, KeepInv, KeepTypeOK
  <1>6. KeepInv'
    BY <1>1, <1>3, <1>5, IdleState DEF RInv, KeepInv, KeepTypeOK, Knows, PinnedStaysWhole, Doing
  <1> QED
    BY <1>4, <1>6 DEF RInv

LEMMA KeeperCrashesPreserves ==
  ASSUME RInv, NEW k \in Keeper, KeeperCrashes(k)
  PROVE  RInv'
  <1>1. Become(k, Idle) /\ UNCHANGED <<pc, workspace, writable, pinned, removed>>
        /\ ((Inside(k) /\ GiveBack) \/ UNCHANGED lock)
    BY DEF KeeperCrashes, untouched
  <1> QED
    BY <1>1, IdleState, LeavingPreserves

LEMMA KeeperStepPreserves ==
  ASSUME RInv, NEW k \in Keeper, KeeperStep(k)
  PROVE  RInv'
  <1>1. CASE Works(k)
    BY <1>1, SkippingPreserves, RecordsRemovalPreserves, RemovesSomePreserves,
       RemovesRestPreserves, RemovalFailsPreserves, FreezesPreserves, AppendsPinnedPreserves,
       RestoresPreserves DEF Works, Prunes
  <1>2. ASSUME NEW n \in Try, NEW thaw \in Thaws, Unpins(k, n, thaw)
        PROVE  RInv'
    BY <1>2, PolicyAssumption, UnpinsPreserves
  <1> QED
    BY <1>1, <1>2, SurveysPreserves, KeeperCrashesPreserves, PinsPreserves DEF KeeperStep

\* The record's own steps create workspaces, whole, and touch no other.
LEMMA RecordStepPreserves ==
  ASSUME RInv, RecordStep
  PROVE  RInv'
  <1>1. /\ UNCHANGED <<writable, pinned, removed, keeping>>
        /\ workspace' = [n \in Try |-> IF CreatesWorkspace(n) THEN "whole" ELSE workspace[n]]
    BY DEF RecordStep
  <1>2. \A n \in Try : workspace'[n] \in {"whole", workspace[n]}
    BY <1>1
  <1>3. workspace' \in [Try -> {"none", "whole", "part", "logs"}]
    BY <1>1 DEF RInv, KeepInv, KeepTypeOK
  <1>4. KeepTypeOK'
    BY <1>1, <1>3 DEF RInv, KeepInv, KeepTypeOK, Doing
  <1>5. \A k \in Keeper : Knows(k)'
    BY <1>1, <1>2 DEF RInv, KeepInv, Knows
  <1>6. PinnedStaysWhole' /\ \A n \in Try : n \notin removed' => workspace'[n] \in {"none", "whole"}
    BY <1>1, <1>2 DEF RInv, KeepInv, PinnedStaysWhole
  <1> QED
    BY <1>4, <1>5, <1>6, RecordKeepsHolders DEF RInv, KeepInv

LEMMA RInvHolds == RSpec => []RInv
  <1>1. RInit => RInv
    <2> SUFFICES ASSUME RInit PROVE RInv
      OBVIOUS
    <2>1. HolderInv
      BY DEF RInit, Init, HolderInv, ControlTypeOK, CallerHolds, KeeperHolds, Inside, Idle
    <2>2. \A k \in Keeper : keeping[k] = Idle /\ Idle.at = "idle"
      BY DEF RInit, Idle
    <2>3. KeepTypeOK
      BY <2>2, IdleState DEF RInit, KeepTypeOK, Doing
    <2>4. \A k \in Keeper : Knows(k)
      BY <2>2 DEF Knows
    <2> QED
      BY <2>1, <2>3, <2>4 DEF RInit, RInv, KeepInv, PinnedStaysWhole
  <1>2. ASSUME RInv, [RNext]_rvars PROVE RInv'
    <2>1. CASE UNCHANGED rvars
      BY <1>2, <2>1 DEF rvars, vars, kept, RInv, HolderInv, ControlTypeOK, CallerHolds,
         KeeperHolds, Inside, KeepInv, KeepTypeOK, Knows, PinnedStaysWhole, Doing
    <2> QED
      BY <1>2, <2>1, RecordStepPreserves, KeeperStepPreserves DEF RNext
  <1> QED
    BY <1>1, <1>2, PTL DEF RSpec

\* An active pin is a refusal that holds through stale surveys, other keepers
\* and crashes anywhere: the workspace it names is never touched.
THEOREM PinsAreKept == RSpec => []PinnedStaysWhole
  <1>1. RInv => PinnedStaysWhole
    BY DEF RInv, KeepInv
  <1> QED
    BY <1>1, RInvHolds, PTL

-----------------------------------------------------------------------------
(* Every step is one of the record, or none.                               *)

Claimed == IF lock \in Keeper THEN NoCaller ELSE lock

\* Record! reads the same state: only the claim is seen through Claimed.
LEMMA SameConstants ==
  /\ Record!NoTry = NoTry /\ Record!Try = Try /\ Record!Run = Run
  /\ Record!Observed = Observed /\ Record!Operation = Operation
  /\ Record!NotStarted = NotStarted /\ Record!NoStanding = NoStanding /\ Record!NoJob = NoJob
  /\ Record!Started = Started
  BY DEF Record!NoTry, NoTry, Record!Try, Try, Record!Run, Run, Record!Observed, Observed,
         Record!Operation, Operation, Record!NotStarted, NotStarted, Record!NoStanding, NoStanding,
         Record!NoJob, NoJob, Record!Started, Started

LEMMA SameEvents ==
  /\ \A t : Record!Intended(t) = Intended(t) /\ Record!Withdrawn(t) = Withdrawn(t)
  /\ \A t : Record!Cancelling(t) = Cancelling(t) /\ Record!Accepting(t) = Accepting(t)
  /\ \A t, h : Record!Received(t, h) = Received(t, h) /\ Record!Ended(t, h) = Ended(t, h)
  /\ \A n, t : Record!AppendEvent(n, t) <=> AppendEvent(n, t)
  BY DEF Record!Intended, Intended, Record!Withdrawn, Withdrawn, Record!Cancelling, Cancelling,
         Record!Accepting, Accepting, Record!Received, Received, Record!Ended, Ended,
         Record!AppendEvent, AppendEvent

LEMMA SameState ==
  /\ Record!HasCurrent <=> HasCurrent
  /\ Record!HasStanding <=> HasStanding
  /\ Record!Resumable <=> Resumable
  /\ Record!MayAccept <=> MayAccept
  /\ \A c, s : Record!At(c, s) <=> At(c, s)
  /\ \A n : Record!Terminal(n) <=> Terminal(n)
  /\ \A n : Record!Published(n) <=> Published(n)
  /\ \A n, o : Record!Reusable(n, o) <=> Reusable(n, o)
  /\ \A n : Record!Stand(n) <=> Stand(n)
  /\ \A c : Record!Undecided(c) <=> Undecided(c)
  /\ \A c : Record!WantsTry(c) <=> WantsTry(c)
  BY SameConstants
  DEF Record!HasCurrent, HasCurrent, Record!HasStanding, HasStanding, Record!Resumable, Resumable,
      Record!MayAccept, MayAccept, Record!At, At, Record!Terminal, Terminal,
      Record!Published, Published, Record!Reusable, Reusable, Record!Stand, Stand,
      Record!Undecided, Undecided, Record!WantsTry, WantsTry

LEMMA SameFarm ==
  /\ \A n : Record!Listed(n) = Listed(n)
  /\ \A n : Record!Discoverable(n) <=> Discoverable(n)
  /\ \A r : Record!Kill(r) <=> Kill(r)
  /\ \A c : Record!ClientGone(c) <=> ClientGone(c)
  /\ Record!Observations = Observations
  /\ \A o : Record!Verdicts(o) = Verdicts(o)
  <1>1. \A n : Record!Listed(n) = Listed(n)
    BY SameConstants DEF Record!Listed, Listed
  <1>2. \A r : Record!Kill(r) <=> Kill(r)
    BY DEF Record!Kill, Kill
  <1>3. \A c : Record!ClientGone(c) <=> ClientGone(c)
    BY <1>2, SameState DEF Record!ClientGone, ClientGone
  <1>4. Record!Observations = Observations
    BY <1>1 DEF Record!Observations, Observations
  <1>5. \A o : Record!Verdicts(o) = Verdicts(o)
    BY DEF Record!Verdicts, Verdicts
  <1> QED
    BY <1>1, <1>2, <1>3, <1>4, <1>5 DEF Record!Discoverable, Discoverable

LEMMA SameControl ==
  ASSUME HolderInv, NEW c \in Caller, pc[c] # "idle"
  PROVE  /\ Release(c) => Record!Release(c)
         /\ \A s : Goto(c, s) => Record!Goto(c, s)
  <1>1. lock = c /\ c \notin Keeper /\ NoCaller \notin Keeper
    BY KeeperAssumption DEF HolderInv, CallerHolds
  <1> QED
    BY <1>1 DEF Release, Goto, Record!Release, Record!Goto

LEMMA SameRest ==
  /\ Record!record = record
  /\ UNCHANGED lock => UNCHANGED Claimed
  BY DEF Record!record, record, Claimed

LEMMA LaunchIsRecords ==
  ASSUME HolderInv, NEW c \in Caller, Launch(c)
  PROVE  Record!Launch(c)
  <1> USE SameConstants, SameEvents, SameState, SameFarm, SameControl, SameRest
      DEF At, Undecided, WantsTry, record, Record!record, Record!Launch
  <1>1. CASE ServeStanding(c)
    BY <1>1 DEF ServeStanding, Record!ServeStanding
  <1>2. CASE RepairStanding(c)
    BY <1>2 DEF RepairStanding, Record!RepairStanding
  <1>3. CASE RepairCurrent(c)
    BY <1>3 DEF RepairCurrent, Record!RepairCurrent
  <1>4. CASE ServeCurrent(c)
    BY <1>4 DEF ServeCurrent, Record!ServeCurrent
  <1>5. CASE RefuseLaunch(c)
    BY <1>5 DEF RefuseLaunch, Record!RefuseLaunch
  <1>6. CASE AttachSubmitted(c)
    BY <1>6 DEF AttachSubmitted, Record!AttachSubmitted
  <1>7. CASE AttachDiscovered(c)
    BY <1>7 DEF AttachDiscovered, Record!AttachDiscovered
  <1>8. CASE RecordLost(c)
    BY <1>8 DEF RecordLost, Record!RecordLost
  <1>9. CASE BeginTry(c)
    BY <1>9 DEF BeginTry, Record!BeginTry
  <1>10. CASE GiveUpAtBound(c)
    BY <1>10 DEF GiveUpAtBound, Record!GiveUpAtBound
  <1>11. CASE SubmitIntent(c)
    BY <1>11 DEF SubmitIntent, Record!SubmitIntent
  <1>12. CASE SubmitRefused(c)
    BY <1>12 DEF SubmitRefused, Record!SubmitRefused
  <1>13. CASE SubmitAccepted(c)
    BY <1>13 DEF SubmitAccepted, Record!SubmitAccepted
  <1>14. CASE SubmitReturns(c)
    BY <1>14 DEF SubmitReturns, Record!SubmitReturns
  <1>15. CASE SubmitIndeterminate(c)
    BY <1>15 DEF SubmitIndeterminate, Record!SubmitIndeterminate
  <1> QED
    BY <1>1, <1>2, <1>3, <1>4, <1>5, <1>6, <1>7, <1>8, <1>9, <1>10, <1>11,
       <1>12, <1>13, <1>14, <1>15 DEF Launch

LEMMA ReconcileIsRecords ==
  ASSUME HolderInv, NEW c \in Caller, Reconcile(c)
  PROVE  Record!Reconcile(c)
  <1> USE SameConstants, SameEvents, SameState, SameFarm, SameControl, SameRest
      DEF At, Undecided, WantsTry, record, Record!record, Record!Reconcile
  <1>1. CASE RepairVerdict(c)
    BY <1>1 DEF RepairVerdict, Record!RepairVerdict
  <1>2. CASE NothingToReconcile(c)
    BY <1>2 DEF NothingToReconcile, Record!NothingToReconcile
  <1>3. CASE Poll(c)
    BY <1>3 DEF Poll, Record!Poll
  <1>4. CASE PublishManifest(c)
    BY <1>4 DEF PublishManifest, Record!PublishManifest
  <1>5. CASE PublishStanding(c)
    BY <1>5 DEF PublishStanding, Record!PublishStanding
  <1>6. CASE AppendTerminal(c)
    BY <1>6 DEF AppendTerminal, Record!AppendTerminal
  <1> QED
    BY <1>1, <1>2, <1>3, <1>4, <1>5, <1>6 DEF Reconcile

LEMMA DecideIsRecords ==
  ASSUME HolderInv, NEW c \in Caller, Decide(c)
  PROVE  Record!Decide(c)
  <1> USE SameConstants, SameEvents, SameState, SameFarm, SameControl, SameRest
      DEF At, Undecided, WantsTry, record, Record!record, Record!Decide
  <1>1. CASE RequestCancel(c)
    BY <1>1 DEF RequestCancel, Record!RequestCancel
  <1>2. CASE NothingToCancel(c)
    BY <1>2 DEF NothingToCancel, Record!NothingToCancel
  <1>3. CASE CancelJob(c)
    BY <1>3 DEF CancelJob, Record!CancelJob
  <1>4. CASE AcceptForReuse(c)
    BY <1>4 DEF AcceptForReuse, Record!AcceptForReuse
  <1>5. CASE NothingToAccept(c)
    BY <1>5 DEF NothingToAccept, Record!NothingToAccept
  <1>6. CASE MakeStanding(c)
    BY <1>6 DEF MakeStanding, Record!MakeStanding
  <1> QED
    BY <1>1, <1>2, <1>3, <1>4, <1>5, <1>6 DEF Decide

LEMMA RecordStepIsRecords ==
  ASSUME HolderInv, Next
  PROVE  Record!Next
  <1> USE DEF record, Record!record
  <1>1. ASSUME NEW c \in Caller, NEW op \in Operation, Claim(c, op)
        PROVE  Record!Claim(c, op)
    <2>1. lock = NoCaller /\ NoCaller \notin Keeper /\ c \notin Keeper
      BY <1>1, KeeperAssumption DEF Claim
    <2> QED
      BY <1>1, <2>1 DEF Claim, Record!Claim, At, Record!At
  <1>2. ASSUME NEW c \in Caller, Proceed(c)
        PROVE  Record!Proceed(c)
    BY <1>2, LaunchIsRecords, ReconcileIsRecords, DecideIsRecords DEF Proceed, Record!Proceed
  <1>3. ASSUME NEW c \in Caller, Crash(c)
        PROVE  Record!Crash(c)
    BY <1>3, SameFarm, SameControl DEF Crash, Record!Crash, At, Record!At
  <1>4. ASSUME NEW r \in Run, JobEnds(r) \/ JobForgotten(r)
        PROVE  Record!JobEnds(r) \/ Record!JobForgotten(r)
    BY <1>4, SameConstants
    DEF JobEnds, JobForgotten, Record!JobEnds, Record!JobForgotten, Claimed
  <1> QED
    BY <1>1, <1>2, <1>3, <1>4, SameConstants DEF Next, Record!Next

\* A keeper's step is none of the record's: its claim is not seen.
LEMMA KeeperStepIsSilent ==
  ASSUME RInv, NEW k \in Keeper, KeeperStep(k)
  PROVE  UNCHANGED Record!vars
  <1>1. UNCHANGED untouched
    BY DEF KeeperStep, Surveys, Works, Prunes, SkipsContended, SkipsChanged, RecordsRemoval,
       RemovesSome, RemovesRest, RemovalFails, Freezes, AppendsPinned, Restores, KeeperCrashes,
       Pins, Unpins
  <1>2. UNCHANGED lock \/ Take(k) \/ (Inside(k) /\ GiveBack)
    BY DEF KeeperStep, Surveys, Works, Prunes, SkipsContended, SkipsChanged, RecordsRemoval,
       RemovesSome, RemovesRest, RemovalFails, Freezes, AppendsPinned, Restores, KeeperCrashes,
       Pins, Unpins, Inside, Doing
  <1>3. Inside(k) => lock = k
    BY DEF RInv, HolderInv, KeeperHolds
  <1>4. UNCHANGED Claimed
    BY <1>2, <1>3, KeeperAssumption DEF Take, GiveBack, Claimed
  <1> QED
    BY <1>1, <1>4 DEF untouched, Claimed, Record!vars

\* With the keepers' claims hidden, every behaviour is one of AttemptRecord: all
\* that is proved of the record holds while it is surveyed, pruned and pinned.
THEOREM RetentionDisturbsNothing == RSpec => KeepersDisturbNothing
  <1>1. RInit => Record!Init
    BY SameConstants, KeeperAssumption DEF RInit, Init, Record!Init
  <1>2. ASSUME RInv, [RNext]_rvars PROVE [Record!Next]_(Record!vars)
    <2>1. CASE UNCHANGED rvars
      BY <2>1 DEF rvars, vars, Record!vars
    <2>2. CASE RecordStep
      BY <1>2, <2>2, RecordStepIsRecords DEF RecordStep, RInv
    <2> QED
      BY <1>2, <2>1, <2>2, KeeperStepIsSilent DEF RNext
  <1> QED
    BY <1>1, <1>2, RInvHolds, PTL DEF RSpec, KeepersDisturbNothing, Record!Spec

-----------------------------------------------------------------------------
(* What is proved of the record holds of it here.                          *)

Proofs == INSTANCE AttemptRecord_proofs WITH
    lock <- (IF lock \in Keeper THEN NoCaller ELSE lock)

\* Both instances are the same record.
LEMMA SameRecord ==
  (Record!Init <=> Proofs!Init) /\ (Record!Next <=> Proofs!Next)
  BY DEF
        Record!record, Proofs!record, Record!vars, Proofs!vars, Record!Try, Proofs!Try,
        Record!Run, Proofs!Run, Record!NoTry, Proofs!NoTry, Record!Observed, Proofs!Observed,
        Record!Operation, Proofs!Operation, Record!NotStarted, Proofs!NotStarted,
        Record!NoStanding, Proofs!NoStanding, Record!NoJob, Proofs!NoJob, Record!Init,
        Proofs!Init, Record!Started, Proofs!Started, Record!Intended, Proofs!Intended,
        Record!Received, Proofs!Received, Record!Withdrawn, Proofs!Withdrawn, Record!Cancelling,
        Proofs!Cancelling, Record!Accepting, Proofs!Accepting, Record!Ended, Proofs!Ended,
        Record!AppendEvent, Proofs!AppendEvent, Record!At, Proofs!At, Record!Goto, Proofs!Goto,
        Record!Release, Proofs!Release, Record!HasCurrent, Proofs!HasCurrent,
        Record!HasStanding, Proofs!HasStanding, Record!Terminal, Proofs!Terminal,
        Record!Published, Proofs!Published, Record!Reusable, Proofs!Reusable, Record!Stand,
        Proofs!Stand, Record!Claim, Proofs!Claim, Record!ServeStanding, Proofs!ServeStanding,
        Record!RepairStanding, Proofs!RepairStanding, Record!RepairCurrent,
        Proofs!RepairCurrent, Record!ServeCurrent, Proofs!ServeCurrent, Record!Undecided,
        Proofs!Undecided, Record!Listed, Proofs!Listed, Record!Discoverable,
        Proofs!Discoverable, Record!RefuseLaunch, Proofs!RefuseLaunch, Record!AttachSubmitted,
        Proofs!AttachSubmitted, Record!AttachDiscovered, Proofs!AttachDiscovered,
        Record!RecordLost, Proofs!RecordLost, Record!WantsTry, Proofs!WantsTry,
        Record!Resumable, Proofs!Resumable, Record!BeginTry, Proofs!BeginTry,
        Record!GiveUpAtBound, Proofs!GiveUpAtBound, Record!SubmitIntent, Proofs!SubmitIntent,
        Record!SubmitRefused, Proofs!SubmitRefused, Record!SubmitAccepted,
        Proofs!SubmitAccepted, Record!SubmitReturns, Proofs!SubmitReturns, Record!Kill,
        Proofs!Kill, Record!ClientGone, Proofs!ClientGone, Record!SubmitIndeterminate,
        Proofs!SubmitIndeterminate, Record!RepairVerdict, Proofs!RepairVerdict,
        Record!NothingToReconcile, Proofs!NothingToReconcile, Record!Observations,
        Proofs!Observations, Record!Verdicts, Proofs!Verdicts, Record!Poll, Proofs!Poll,
        Record!PublishManifest, Proofs!PublishManifest, Record!PublishStanding,
        Proofs!PublishStanding, Record!AppendTerminal, Proofs!AppendTerminal,
        Record!RequestCancel, Proofs!RequestCancel, Record!NothingToCancel,
        Proofs!NothingToCancel, Record!CancelJob, Proofs!CancelJob, Record!MayAccept,
        Proofs!MayAccept, Record!AcceptForReuse, Proofs!AcceptForReuse, Record!NothingToAccept,
        Proofs!NothingToAccept, Record!MakeStanding, Proofs!MakeStanding, Record!JobEnds,
        Proofs!JobEnds, Record!JobForgotten, Proofs!JobForgotten, Record!Crash, Proofs!Crash,
        Record!Launch, Proofs!Launch, Record!Reconcile, Proofs!Reconcile, Record!Decide,
        Proofs!Decide, Record!Proceed, Proofs!Proceed, Record!Next, Proofs!Next

\* The inductive invariant of the record, with the keepers' claims hidden.
THEOREM RecordInvariantHolds == RSpec => []Proofs!IInv
  <1>1. [Record!Next]_(Record!vars) => [Proofs!Next]_(Proofs!vars)
    BY SameRecord DEF Record!vars, Proofs!vars
  <1>2. Proofs!Spec => []Proofs!IInv
    BY Proofs!Inductive, BoundAssumption, CallerAssumption, TransportAssumption
  <1> QED
    BY <1>1, <1>2, SameRecord, RetentionDisturbsNothing, PTL
    DEF KeepersDisturbNothing, Record!Spec, Proofs!Spec

\* A removal is recorded of decided tries only, and they stay decided.
RemovedAreDecided == \A n \in Try : n \in removed => Terminal(n)

LEMMA DecidedStays ==
  ASSUME RInv, Proofs!IInv, [RNext]_rvars, NEW n \in Try, Terminal(n)
  PROVE  Terminal(n)'
  <1>1. CASE UNCHANGED tries
    BY <1>1 DEF Terminal
  <1>2. CASE RecordStep
    <2>1. Proofs!Next
      BY <1>2, RecordStepIsRecords, SameRecord DEF RecordStep, RInv
    <2>2. n \in Proofs!Try /\ Proofs!Terminal(n)
      BY DEF Proofs!Try, Try, Proofs!Terminal, Terminal
    <2>3. Proofs!Terminal(n)'
      BY <2>1, <2>2, Proofs!TerminalStays, BoundAssumption, CallerAssumption, TransportAssumption
    <2> QED
      BY <2>3 DEF Proofs!Terminal, Terminal
  <1>3. ASSUME NEW k \in Keeper, KeeperStep(k)
        PROVE  UNCHANGED tries
    BY <1>3, KeeperStepIsSilent DEF Record!vars
  <1> QED
    BY <1>1, <1>2, <1>3 DEF RNext, rvars, vars

LEMMA OnlyRemovalsAreRecorded ==
  ASSUME RInv, RemovedAreDecided, [RNext]_rvars
  PROVE  \A n \in Try : n \in removed' => n \in removed \/ Terminal(n)
  <1>1. ASSUME NEW k \in Keeper, RecordsRemoval(k)
        PROVE  \A n \in Try : n \in removed' => n \in removed \/ Terminal(n)
    BY <1>1 DEF RecordsRemoval, StillCandidate, Candidate
  <1>2. CASE UNCHANGED removed
    BY <1>2
  <1>3. ASSUME NEW k \in Keeper, KeeperStep(k)
        PROVE  UNCHANGED removed \/ RecordsRemoval(k)
    BY <1>3 DEF KeeperStep, Surveys, Works, Prunes, SkipsContended, SkipsChanged, RemovesSome,
       RemovesRest, RemovalFails, Freezes, AppendsPinned, Restores, KeeperCrashes, Pins, Unpins
  <1> QED
    BY <1>1, <1>2, <1>3 DEF RNext, RecordStep, rvars, kept

\* A try that is about to be submitted is undecided: a workspace that is made
\* is not one that was removed.
LEMMA MakingIsNoRemoval ==
  ASSUME RInv, Proofs!IInv, RemovedAreDecided, RecordStep, NEW n \in Try, CreatesWorkspace(n)
  PROVE  workspace[n] \in {"none", "whole"}
  <1>1. PICK c \in Caller : pc[c] = "intend"
    BY DEF CreatesWorkspace, At
  <1>2. tries[current].phase = "unsubmitted" /\ n = current
    BY <1>1 DEF CreatesWorkspace, Proofs!IInv, Proofs!StepInv, Proofs!Established
  <1>3. n \notin removed
    BY <1>2 DEF RemovedAreDecided, Terminal
  <1> QED
    BY <1>3 DEF RInv, KeepInv

\* Nobody's bytes go without a record of it, and only those of decided tries
\* that no pin names, while no caller works on the record.
THEOREM RemovalsAreOnRecord == RSpec => RemovalIsRecorded
  <1> DEFINE Removal == \A n \in Try : workspace'[n] # workspace[n] /\ workspace[n] # "none" =>
                          /\ n \in removed /\ Terminal(n) /\ pinned[n] = "no"
                          /\ \A c \in Caller : lock # c
  <1>1. RInit => RemovedAreDecided
    BY DEF RInit, RemovedAreDecided
  <1>2. RInv /\ Proofs!IInv /\ RemovedAreDecided /\ [RNext]_rvars => RemovedAreDecided'
    BY OnlyRemovalsAreRecorded, DecidedStays DEF RemovedAreDecided
  <1>3. ASSUME RInv, Proofs!IInv, RemovedAreDecided, [RNext]_rvars
        PROVE  [Removal]_rvars
    <2>1. CASE RecordStep
      <3>1. \A n \in Try : workspace'[n] # workspace[n] => CreatesWorkspace(n) /\ workspace'[n] = "whole"
        BY <2>1 DEF RecordStep
      <3> QED
        BY <1>3, <2>1, <3>1, MakingIsNoRemoval
    <2>2. ASSUME NEW k \in Keeper, RemovesSome(k) \/ RemovesRest(k)
          PROVE  Removal
      <3>1. /\ \A n \in Try : workspace'[n] # workspace[n] => n = keeping[k].try
            /\ keeping[k].at \in {"remove", "rest"}
        BY <1>3, <2>2 DEF RemovesSome, RemovesRest, Doing, RInv, KeepInv, KeepTypeOK
      <3>2. \A c \in Caller : lock # c
        BY <1>3, <3>1, KeeperAssumption DEF RInv, HolderInv, KeeperHolds, Inside
      <3>3. LET n == keeping[k].try IN n \in removed /\ Terminal(n) /\ pinned[n] = "no"
        BY <1>3, <3>1 DEF RInv, KeepInv, Knows, RemovedAreDecided
      <3> QED
        BY <3>1, <3>2, <3>3
    <2>3. ASSUME NEW k \in Keeper, KeeperStep(k)
          PROVE  RemovesSome(k) \/ RemovesRest(k) \/ UNCHANGED workspace
      BY <2>3 DEF KeeperStep, Surveys, Works, Prunes, SkipsContended, SkipsChanged,
         RecordsRemoval, RemovalFails, Freezes, AppendsPinned, Restores, KeeperCrashes,
         Pins, Unpins
    <2> QED
      BY <1>3, <2>1, <2>2, <2>3 DEF RNext
  <1> QED
    BY <1>1, <1>2, <1>3, RInvHolds, RecordInvariantHolds, PTL DEF RSpec, RemovalIsRecorded
-----------------------------------------------------------------------------
(* What stands is there.                                                   *)

\* Only tries before the current one were ever removed, and the current one has
\* its workspace once it is about to be submitted.
CurrentIsWhole ==
    /\ \A n \in removed : n < current
    /\ HasCurrent /\ tries[current].phase \in Proofs!Begun => workspace[current] = "whole"

\* A rule that keeps the latest try never proposes the current one.
LEMMA LatestIsKept ==
  ASSUME KeepLatest # 0, Proofs!IInv, NEW n \in Try, Candidate(n)
  PROVE  n < current
  <1> DEFINE S == {m \in Try : Terminal(m) /\ m > n}
  <1>1. Cardinality(S) >= KeepLatest
    BY DEF Candidate, Rank
  <1>2. S # {}
    BY <1>1, FS_EmptySet, PolicyAssumption
  <1>3. PICK m \in Try : Terminal(m) /\ m > n
    BY <1>2
  <1>4. m <= current
    BY <1>3 DEF Proofs!IInv, Proofs!TriesInv, Proofs!Try, Try, Proofs!NotStarted, Terminal, Proofs!TypeOK,
       Proofs!NoTry
  <1> QED
    BY <1>3, <1>4, BoundAssumption DEF Proofs!IInv, Proofs!TypeOK, Proofs!Try, Try, Proofs!NoTry

\* Only a recorded removal names a try removed, and only removing takes bytes.
LEMMA RemovingSteps ==
  ASSUME NEW k \in Keeper, KeeperStep(k)
  PROVE  /\ UNCHANGED removed \/ RecordsRemoval(k)
         /\ UNCHANGED workspace \/ RemovesSome(k) \/ RemovesRest(k)
  <1>1. UNCHANGED removed \/ RecordsRemoval(k)
    BY DEF KeeperStep, Surveys, Works, Prunes, SkipsContended, SkipsChanged, RemovesSome,
       RemovesRest, RemovalFails, Freezes, AppendsPinned, Restores, KeeperCrashes, Pins, Unpins
  <1>2. UNCHANGED workspace \/ RemovesSome(k) \/ RemovesRest(k)
    BY DEF KeeperStep, Surveys, Works, Prunes, SkipsContended, SkipsChanged, RecordsRemoval,
       RemovalFails, Freezes, AppendsPinned, Restores, KeeperCrashes, Pins, Unpins
  <1> QED
    BY <1>1, <1>2

LEMMA CurrentStaysWhole ==
  ASSUME KeepLatest # 0, RInv, Proofs!IInv, CurrentIsWhole, [RNext]_rvars
  PROVE  CurrentIsWhole'
  <1>1. current \in Try \cup {NoTry} /\ Try \subseteq Int /\ NoTry \in Int
    BY BoundAssumption DEF Proofs!IInv, Proofs!TypeOK, Proofs!Try, Try, Proofs!NoTry, NoTry
  <1>2. removed \subseteq Try /\ workspace \in [Try -> {"none", "whole", "part", "logs"}]
    BY DEF RInv, KeepInv, KeepTypeOK
  <1>3. CASE RecordStep
    <2>1. /\ removed' = removed
          /\ \A n \in Try : workspace'[n] = IF CreatesWorkspace(n) THEN "whole" ELSE workspace[n]
      BY <1>3 DEF RecordStep
    <2>2. Proofs!Next
      BY <1>3, RecordStepIsRecords, SameRecord DEF RecordStep, RInv
    <2>3. \/ /\ current' = current
             /\ HasCurrent /\ tries'[current].phase \in Proofs!Begun =>
                   \/ tries[current].phase \in Proofs!Begun
                   \/ \E c \in Caller : pc[c] = "intend" /\ pc'[c] = "submit"
          \/ /\ current' = current + 1 /\ current' \in Try
             /\ tries'[current'].phase = "unsubmitted"
      BY <2>2, Proofs!BeginningSteps, BoundAssumption, CallerAssumption, TransportAssumption
         DEF Proofs!HasCurrent, HasCurrent, Proofs!NoTry, NoTry, Proofs!Try, Try
    <2>4. CASE current' = current /\ ~(current' = current + 1)
      <3>1. HasCurrent /\ tries'[current].phase \in Proofs!Begun =>
               tries[current].phase \in Proofs!Begun \/ CreatesWorkspace(current)
        BY <2>3, <2>4 DEF CreatesWorkspace, At
      <3> QED
        BY <1>1, <2>1, <2>4, <3>1 DEF CurrentIsWhole, HasCurrent
    <2>5. CASE current' = current + 1
      <3>1. tries'[current'].phase = "unsubmitted"
        BY <1>1, <2>3, <2>5
      <3> QED
        BY <1>1, <1>2, <2>1, <2>5, <3>1 DEF CurrentIsWhole, Proofs!Begun
    <2> QED
      BY <1>1, <2>3, <2>4, <2>5
  <1>4. ASSUME NEW k \in Keeper, KeeperStep(k) PROVE CurrentIsWhole'
    <2>1. UNCHANGED <<tries, current>>
      BY <1>4, KeeperStepIsSilent DEF Record!vars
    <2>2. \A n \in removed' : n \in removed \/ (n \in Try /\ Candidate(n))
      <3>1. CASE UNCHANGED removed
        BY <3>1
      <3>2. CASE RecordsRemoval(k)
        <4>1. Following(k) \in Try
          BY <3>2, FollowingIsSurveyed DEF RecordsRemoval, RInv, KeepInv, KeepTypeOK, KeeperState
        <4> QED
          BY <3>2, <4>1 DEF RecordsRemoval, StillCandidate
      <3>3. UNCHANGED removed \/ RecordsRemoval(k)
        BY <1>4, RemovingSteps
      <3> QED
        BY <3>1, <3>2, <3>3
    <2>3. \A n \in Try : workspace'[n] # workspace[n] => n \in removed
      <3>1. CASE UNCHANGED workspace
        BY <3>1
      <3>2. CASE RemovesSome(k) \/ RemovesRest(k)
        BY <1>2, <3>2 DEF RemovesSome, RemovesRest, Doing, RInv, KeepInv, Knows
      <3>3. UNCHANGED workspace \/ RemovesSome(k) \/ RemovesRest(k)
        BY <1>4, RemovingSteps
      <3> QED
        BY <3>1, <3>2, <3>3
    <2>4. \A n \in removed' : n < current
      BY <2>2, LatestIsKept DEF CurrentIsWhole
    <2>5. HasCurrent => current \in Try /\ workspace'[current] = workspace[current]
      BY <1>1, <2>3 DEF HasCurrent, CurrentIsWhole
    <2> QED
      BY <2>1, <2>4, <2>5 DEF CurrentIsWhole, HasCurrent
  <1>5. CASE UNCHANGED rvars
    BY <1>5 DEF rvars, vars, kept, CurrentIsWhole, HasCurrent
  <1> QED
    BY <1>3, <1>4, <1>5 DEF RNext

\* What stands, and a later run would reuse, still has its workspace, if the
\* rule keeps the latest try.  (With keep_latest 0 a failed try may lose it and
\* then be accepted for reuse.)
THEOREM StandingIsKept == ASSUME KeepLatest # 0 PROVE RSpec => []StandingKeepsItsWorkspace
  <1>1. RInit => CurrentIsWhole
    BY DEF RInit, Init, CurrentIsWhole, HasCurrent
  <1>2. CurrentIsWhole /\ RInv /\ Proofs!IInv /\ [RNext]_rvars => CurrentIsWhole'
    BY CurrentStaysWhole
  <1>3. CurrentIsWhole /\ Proofs!IInv => StandingKeepsItsWorkspace
    <2> SUFFICES ASSUME CurrentIsWhole, Proofs!IInv, HasStanding
                 PROVE  workspace[standing.try] = "whole"
      BY DEF StandingKeepsItsWorkspace
    <2>1. standing.try = current /\ manifest[current] # "none" /\ HasCurrent
      BY DEF Proofs!IInv, Proofs!StandingInv, Proofs!StandingIsReusable, Proofs!HasStanding, HasStanding,
         Proofs!NoTry, NoTry, Proofs!Published, HasCurrent
    <2>2. current \in Proofs!Try
      BY <2>1 DEF Proofs!IInv, Proofs!TypeOK, Proofs!NoTry, NoTry, HasCurrent
    <2>3. tries[current].phase \in Proofs!Begun
      BY <2>1, <2>2 DEF Proofs!IInv, Proofs!TriesInv, Proofs!Published, Proofs!Begun
    <2> QED
      BY <2>1, <2>3 DEF CurrentIsWhole
  <1> QED
    BY <1>1, <1>2, <1>3, RInvHolds, RecordInvariantHolds, PTL DEF RSpec
=============================================================================
