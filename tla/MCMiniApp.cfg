\* Two phones, an event and a venue; every pane with three changes of its key.
SPECIFICATION AppSpec
CONSTANTS
  Phones = {"new", "old"}
  Items = {"jazz", "venue"}
  ListOf <- TheLists
  PositionOf <- ThePosition
  LeftBehind <- TheLeftBehind
  Cities = {"msk", "spb"}
  NoCity = "none"
  MaxTaps = 2
  MaxTurns = 3
  MaxOpens = 2
  MaxLosses = 1
  Keys = {"a", "b"}
  Shown = {"a", "b", "c"}
  MaxMoves = 3
  Scenes = {"marks", "city", "pins", "clusters", "search", "detail", "faces", "rings", "tastes", "venue", "forYou", "collection", "friend", "saved", "followed", "shell"}
INVARIANTS TapsStand ScreenHonest BackUnwinds LastActStands
CHECK_DEADLOCK FALSE
