\* Three Runs submit one pooled invocation; two of them stop, or the controller
\* closes on them, at any moment, and one may be forced.
CONSTANTS
  Runs = {r1, r2, r3}
  LongRun = r1
  Items = {"only"}
  PlanOf <- WholePlan
  KeyOf <- SingleKeyOf
  After <- SingleAfter
  Places = {"place"}
  PlaceOf <- OnePlace
  Capacity <- TwoSlots
  Pooled = {"k"}
  StopOnFailure = {}
  Requests = {"stop", "force", "close"}
  Answers = {"succeeded"}
  Faults = {"intent"}
  MaxFaults = 1
  MaxStopped = 2
  MaxForced = 1
  None = None
SYMMETRY RunSymmetry
CHECK_DEADLOCK FALSE
SPECIFICATION Spec
INVARIANTS
  OwnedWorkIsShared
  OnlyOwnersStopWork
  StopReachesEverything
PROPERTIES
  BlockedWorkNeverStarts
  ImplementsStudy
