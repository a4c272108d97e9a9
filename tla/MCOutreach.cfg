\* One user, an event with a start and one with only an end, one fault.
CONSTANTS
  Users = {1}
  Events = {1}
  Open = Open
  Sessions <- MCSessions
  MaxTime = 5
  Lead = 1
  ClosingLead = 1
  Soon = 1
  Grace = 1
  Window <- MCWindow
  WeekLength = 3
  BatchLimit = 1
  Lanes <- MCLanes
  MaxTaps = 2
  MaxFaults = 1
SPECIFICATION FairSpec
INVARIANTS OnceEach NotResurrected
PROPERTIES WantedInTime BellSettles
