SPECIFICATION FairSpec
CONSTANTS
  Streams = {sc}
  Events <- Keys
  Size = 1
  SeenMax = 1
  SeenKeep = 1
  MaxLog = 2
  MaxFeed = 2
  Requests = {a, b}
INVARIANTS TypeOK ShownOnce StatusExplained PollsWhileShown
PROPERTIES StatusFollows
CHECK_DEADLOCK FALSE
