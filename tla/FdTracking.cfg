SPECIFICATION Spec
CONSTANTS
  Main = main
  Other = other
  Paths = {watched, plain}
  Watched = {watched}
  NoPath = nopath
  Clones = {"thread", "process"}
  FdCount = 2
  MaxCalls = 3
  RingSlots = 2
  FollowSlots = 2
INVARIANTS TypeOK ShownIsFollowed LineIsTrue WatchedCallShows
CHECK_DEADLOCK FALSE
