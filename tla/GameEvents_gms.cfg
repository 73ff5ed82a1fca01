SPECIFICATION Spec
CONSTANTS
  gm = gm
  pc = pc
  tab1 = tab1
  tab2 = tab2
  tab3 = tab3
  old = old
  new = new
  Players <- MCPlayers
  Tabs <- MCTabs
  PlayerOf <- TabEach
  GMs = {gm}
  GMKey = {}
  InitialHistory = {}
  Races <- NoRaces
  Authors = {tab2}
  Listeners <- MCTabs
  PostTypes = {"roll"}
  MaxStamp = 2
  MaxMail = 1
  Titles <- OneTitle
INVARIANTS GMsSeeShared
