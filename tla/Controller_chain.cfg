\* One Run submits a chain of two invocations, another only the first; any two
\* failures may occur, and the controller may close on one Run.  The second
\* placement widens the window of a Run, so that it prepares an item while the
\* outcome of another is being saved.  No symmetry, as liveness is checked.
CONSTANTS
  Runs = {r1, r2}
  LongRun = r1
  Items = {"first", "second"}
  PlanOf <- ChainPlan
  KeyOf <- ChainKeyOf
  After <- ChainAfter
  Places = {"place", "other"}
  PlaceOf <- OnePlace
  Capacity <- OneSlot
  Pooled = {}
  StopOnFailure = {r2}
  Requests = {"close"}
  Answers = {"succeeded", "failed"}
  Faults = {"item", "handle", "bind", "gate", "deliver", "event", "future", "driver"}
  MaxFaults = 2
  MaxStopped = 1
  MaxForced = 0
  None = None
CHECK_DEADLOCK FALSE
SPECIFICATION FairSpec
INVARIANTS
  CapacityIsKept
  OutputsAreHandedOn
PROPERTIES
  ImplementsStudy
  EveryRunSettles
