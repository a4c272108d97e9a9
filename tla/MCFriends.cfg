\* Three users, two requests in flight at once.
CONSTANTS
  Users = {a, b, c}
  Events = {e1}
  FriendCap = 2
  Workers = {w1, w2}
  MaxRequests = 5
SPECIFICATION Spec
SYMMETRY Symmetry
CHECK_DEADLOCK FALSE
INVARIANTS NothingAcrossBlock FriendsByConsent LinkDies
