\* Lists of five walked in pages of two; four candidates of three places.
CONSTANTS
  DayLen = 3
  Days = 5
  Clocks = {6, 7}
  Ahead = 1
  Cap = 2
  Sites = {"yandex", "afisha", "kudago", "timepad"}
  Rubrics = {1, 2}
  Listings = {1, 2, 3, 4, 5, 6, 7}
  Listed <- MCListed
  Tale <- MCTale
  PageSize = 2
  MaxPages = 5
  Width <- MCWidth
  MaxChanges = 2
  MaxMishaps = 1
  Words = {"big", "small", "hall", "academy", "factory", "street", "requiem", "dune", "two"}
  Latin <- MCLatin
  Stem <- MCLatin
  Length <- MCLength
  Numbers = {"two"}
  Years = {}
  Ages = {}
  Filler = {}
  Activity = {}
  Common = {"hall"}
  Antonyms <- MCAntonyms
  TitleRatio <- MCTitleRatio
  NameRatio <- MCNameRatio
  Cands = {1, 2, 3, 4}
  Cand <- MCCand
  Venues = {1, 2, 3, 4}
  Unknown = {"unknown"}
  CityOnly = {}
  Geo <- MCGeo
  VenueKinds = {"hall"}
  Areas = {120}
  Land = {0, 50, 100, 120}
  Centre = 5000
  Nowhere = Nowhere
  NoVenue = NoVenue
  NoEvent = NoEvent
  MaxDone = 2
SPECIFICATION MCSpec
INVARIANTS LittleMissed DatesHonest
PROPERTY HallsApart
CHECK_DEADLOCK FALSE
