SPECIFICATION FairSpec
CONSTANTS
  request1 = request1
  request2 = request2
  load1 = load1
  load2 = load2
  Requests = {request1, request2}
  Loads = {load1, load2}
  TTL = 2
  MaxTime = 4
  MaxVersion = 2
INVARIANTS
  OneLoad
  NobodySleepsOn
PROPERTIES
  KeepsPromise
  AttemptsGoOn
