SPECIFICATION OccupancySpec
CONSTANTS
  Chans = {"#a", "#b"}
  Peers = {"bob"}
  Me = "me"
  Sessions = {s1}
  Flushers = {f1, f2}
  MaxSteps = 3
PROPERTIES
    MembersFollow
CHECK_DEADLOCK FALSE
