\* A cancellation between the dispatcher's SELECT and its UPDATE.
CONSTANTS
  k1 = k1
  k2 = k2
  NoContent = NoContent
  Campaigns = {1}
  Users = {1, 2}
  Fickle = {}
  Contents = {k1, k2}
  AudOf <- MCAudOf
  Kinds = {"now", "at_utc", "at_local"}
  Dispatchers = {d1}
  DispatchLimit = 10
  LocalBatch = 5
  MaxRequests = 1
  MaxCrashes = 0
SPECIFICATION Spec
PROPERTY CancelledIsFinal
