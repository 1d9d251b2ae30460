SPECIFICATION Spec
CONSTANTS
  Workers = {w1, w2}
  Nobody = Nobody
  Requests <- SomeRequests
  DiskFaults = FALSE
INVARIANT OwnRequest
