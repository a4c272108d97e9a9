\* A dead channel, a live one and an event, a watch that reads one row, decisions that may overlap, one crash.
CONSTANTS
  g = g
  h = h
  NoHandle = NoHandle
  a1 = a1
  a2 = a2
  Subs = {1, 2, 3}
  Handle <- MCHandle
  Dead = {g}
  Admins = {a1, a2}
  WatchLimit = 1
  Backstop = 1
  MaxDecisions = 2
  MaxCrashes = 1
SPECIFICATION FairSpec
INVARIANT VerdictPerApproval
PROPERTY ApprovedSettles
CHECK_DEADLOCK FALSE
