\* Every reader on its own against a catalogue that changes twice in two days; three calls to the model.
SPECIFICATION ServiceSpec
CONSTANTS
  Events = {1, 2, 3, 4}
  Places = {0, 1, 2, 3}
  Placeholder = 0
  Unknown <- DontKnow
  Cat <- TheCat
  Price <- ThePrice
  Area <- TheArea
  Pos <- ThePos
  Hours <- TheHours
  Cities = {"msk", "spb"}
  DayLen = 2
  MaxZoom = 2
  Venue <- TheVenue
  Created <- TheCreated
  Quality <- TheQuality
  Exclusive = {1, 3}
  Evening = {"concert", "theatre"}
  Daytime = {"exhibition", "tour"}
  DateCats = {"concert", "theatre"}
  PoolCap = 3
  PerRail = 2
  MinRail = 1
  MaxRails = 4
  CapCat = 1
  CapVenue = 1
  Wide = 3
  Near = 2
  Friday = 0
  Scenes = {"cache", "list", "feed", "views", "index", "calls"}
  Rows <- TheRows
  MaxNow <- TheNow
  MaxChanges <- TheChanges
  Watched = {1, 3}
  ListSorts = {"date", "popularity"}
  PageLen = 2
  Requests = {"r1", "r2"}
  Workers <- TheWorkers
  Hot = 1
  Viewers = {"u1", "u2"}
  StartViews <- TheViews
  Intents <- TheIntents
  Batch = 3
  MaxBacklog = 0
  Calls = {"api", "post", "next"}
  Process <- TheProcess
  Extracts = {"post", "next"}
  DayLimit = 1
  NightLimit = 2
  Lease = 3
  Patience = 1
  Longest = 2
  Threshold = 1
  Cooldown = 2
  MaxBlips = 1
INVARIANTS Capped QueriesAgree PagesWhole FeedHonest ViewsHonest IndexWhole
PROPERTY Converges
CHECK_DEADLOCK FALSE
