\* bsub -I: authoritative lookup, work may outlive a killed client.  No
\* symmetry, as liveness is checked.
CONSTANTS
    Caller = {a, b}
    NoCaller = none
    MaxTries = 2
    MaxRuns = 2
    Authoritative = TRUE
    OwnerBound = FALSE
    Receipts = TRUE
SPECIFICATION FairSpec
INVARIANTS
    AtMostOneLiveJob
    LiveJobIsRecorded
    StandingIsReusable
    SuccessIsEarned
PROPERTIES
    EvidenceIsFinal
    NoDuplicateSubmission
    CancellationIsNotNormalised
    ImplementsComputation
    ClaimIsReleased
