\* The owner of an entered execution leaves, then the Run still binding to it
\* stops, then a third Run submits the same work.
CONSTANTS
  Runs = {r1, r2, r3}
  LongRun = r1
  Items = {"only"}
  PlanOf <- WholePlan
  KeyOf <- SingleKeyOf
  After <- SingleAfter
  Places = {"place"}
  PlaceOf <- OnePlace
  Capacity <- TwoSlots
  Pooled = {"k"}
  StopOnFailure = {}
  Requests = {"stop"}
  Answers = {"succeeded"}
  Faults = {}
  MaxFaults = 0
  MaxStopped = 2
  MaxForced = 0
  None = None
CHECK_DEADLOCK FALSE
SPECIFICATION Spec
INVARIANTS
  OneExecutionPerKey
