SPECIFICATION Spec
CONSTANTS
  plr = plr
  s1 = s1
  s2 = s2
  s3 = s3
  s4 = s4
  w1 = w1
  w2 = w2
  here = here
  there = there
  Players <- OnePlayer
  Games <- TwoGames
  Streams = {s1, s3}
  PlayerOf <- AllOfOne
  GameOf <- HereAndThere
  Watchers = {w1}
  WatchedGame <- OneEach
  ChosenModes = {"auto", "online", "offline"}
  Races = {"reordered", "failed", "retried", "crash", "missedUpdates"}
  MaxRetries = 2
  MaxMail = 1
  MaxConnections = 2
  MaxRepeated = 1
INVARIANTS TypeOK NeverUndercounted
