\* A schedule post and its two children, or two sources of one event, or two posts and a
\* retry of one at a time; two versions each, batches of one, one fault.
CONSTANTS
  Raws = {1, 2, 3, 4, 6, 7, 8}
  Origin <- MCOrigin
  Parent <- MCParent
  Wavering = {}
  Poison = {}
  Show <- MCShow
  Quotes <- MCQuotes
  MaxVersion = 2
  BatchLimit = 1
  MaxAttempts = 1
  RetryLimit = 1
  MaxFaults = 1
SPECIFICATION MCSpec
INVARIANTS NoTwins StampMeansShown SplitWhole
PROPERTIES Refreshes Settles
CHECK_DEADLOCK FALSE
