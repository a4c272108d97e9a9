\* One campaign, two users, two contents, two passes that may overlap, batches of one, one disruption.
CONSTANTS
  k1 = k1
  k2 = k2
  NoContent = NoContent
  Campaigns = {1}
  Users = {1, 2}
  Fickle = {1}
  Contents = {k1, k2}
  AudOf <- MCAudOf
  Kinds = {"now", "at_local"}
  Dispatchers = {d1, d2}
  DispatchLimit = 10
  LocalBatch = 1
  MaxRequests = 1
  MaxCrashes = 1
SPECIFICATION Spec
INVARIANTS NobodyForgotten OptOutRespected
PROPERTIES KeepsPromise LedgerAdvances
