SPECIFICATION FairSpec
CONSTANTS
  plr = plr
  s1 = s1
  s2 = s2
  s3 = s3
  s4 = s4
  w1 = w1
  w2 = w2
  here = here
  there = there
  Players <- OnePlayer
  Games <- TwoGames
  Streams = {s1, s2, s3, s4}
  PlayerOf <- AllOfOne
  GameOf <- HereAndThere
  Watchers = {w1, w2}
  WatchedGame <- OneEach
  ChosenModes = {"auto"}
  Races = {"reordered"}
  MaxRetries = 0
  MaxMail = 2
  MaxConnections = 4
  MaxRepeated = 0
INVARIANTS GoneMeansOffline
PROPERTIES SettlesOffline
