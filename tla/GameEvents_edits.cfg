SPECIFICATION FairSpec
CONSTANTS
  gm = gm
  pc = pc
  tab1 = tab1
  tab2 = tab2
  tab3 = tab3
  old = old
  new = new
  Players <- MCPlayers
  Tabs <- MCTabs
  PlayerOf <- TabEach
  GMs = {gm}
  GMKey = {gm}
  InitialHistory <- Rolled
  Races <- NoRaces
  Authors = {tab1}
  Listeners <- MCTabs
  PostTypes = {"roll", "initiativeRoll"}
  MaxStamp = 1
  MaxMail = 1
  Titles <- TwoTitles
PROPERTIES ImplementsSharedHistory EventuallyShown
