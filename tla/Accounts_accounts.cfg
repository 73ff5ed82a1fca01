SPECIFICATION FairSpec
CONSTANTS
  p1 = p1
  p2 = p2
  p3 = p3
  ann = ann
  bob = bob
  cat = cat
  game = game
  i1 = i1
  r1 = r1
  r2 = r2
  None = None
  PlayerIDs = {p1, p2, p3}
  Usernames = {ann, bob, cat}
  Games = {game}
  HardcodedUsernames <- AnnAndBob
  HardcodedGames = {game}
  SessionIDs = {i1}
  Requests = {r1, r2}
INVARIANTS TypeOK NoDanglingPlayers PanicsOnlyHalfDone
PROPERTIES OnlyDeletionsMakeStrangers ComesUp
