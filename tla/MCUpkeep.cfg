\* A channel, a web source with its tick and its full scan, and one of another city.
CONSTANTS
  tick = tick
  full = full
  spb = spb
  channel = channel
  sweep = sweep
  site = site
  spbSite = spbSite
  chan = chan
  Flows = {tick, full, spb, channel, sweep}
  Sweeper = sweep
  Src <- MCSrc
  Mode <- MCMode
  Kind <- MCKind
  Gone = {spbSite}
  Limit = 1
  Parts = 3
  Deep = 2
  MaxPages = 2
  MaxPosts = 2
  PageSize = 1
  BackfillPages = 2
  MaxDeaths = 1
  MaxFaults = 1
SPECIFICATION MCSpec
INVARIANT NothingSkipped
PROPERTIES CatalogueCycled DeathIsNoticed
CHECK_DEADLOCK FALSE
