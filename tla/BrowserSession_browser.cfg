SPECIFICATION FairSpec
CONSTANTS
  g1 = g1
  g2 = g2
  None = None
  Local = Local
  NoTarget = None
  Targets = {g1, g2}
  Games = {g1, g2}
  NumDelays = 1
  MaxEventRange = 2
  Opened = 5
  Histories <- PagedHistories
  LocalIDs <- PagedLocalIDs
  MaxStamp = 6
  MaxLogins = 1
  MaxGets = 2
  Deletable = {5}
INVARIANTS TypeOK OneStreamOfTheGame
PROPERTIES OnlyLateAnswersMix OnlyLostPlacesMakeGaps PagingEnds BacksOff
