SPECIFICATION FairSpec
CONSTANTS
  s1 = s1
  s2 = s2
  shared = shared
  Streams = {s1, s2}
  SessionIDs = {shared}
  SessionOf <- Sharing
  Tasks <- AllTasks
INVARIANTS TypeOK
PROPERTIES WaitsForStreams SessionsAreHanded OnlyOthersEndUse Stops AbandonedSessionsEnd
