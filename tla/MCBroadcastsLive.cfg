\* Two campaigns that compete for one place in the due list, one disruption.
CONSTANTS
  k1 = k1
  k2 = k2
  NoContent = NoContent
  Campaigns = {1, 2}
  Users = {1}
  Fickle = {}
  Contents = {k1}
  AudOf <- MCAudOf
  Kinds = {"now", "at_utc", "at_local"}
  Dispatchers = {d1}
  DispatchLimit = 1
  LocalBatch = 5
  MaxRequests = 1
  MaxCrashes = 1
SPECIFICATION FairSpec
PROPERTIES SentIsFinal ConfirmedSettles
