\* Two listings of one show at two rows of one place, one of them with a tour.
CONSTANTS
  p = p
  q = q
  A = A
  B = B
  NoVenue = NoVenue
  NoEvent = NoEvent
  NoTitle = NoTitle
  Events = {1, 2, 3, 4}
  Raws = {1, 2}
  Afisha = {2}
  Title <- MCTitle
  Sure = {}
  Close <- MCClose
  Akin = {}
  Slots = {0, 1, 2, 3, 5}
  Closing = {0}
  Lists = {{0}, {1}, {1, 2}}
  Venues = {1, 2, 3}
  Place <- MCPlace
  Tour <- MCTour
  FirstSeat <- MCSeat
  FirstList <- MCList
  MaxSpent = 2
SPECIFICATION FairSpec
INVARIANT WritesKept
PROPERTIES ComesToRest HiddenStays
CHECK_DEADLOCK FALSE
