SPECIFICATION Spec
CONSTANTS
  gm = gm
  pc = pc
  tab1 = tab1
  tab2 = tab2
  tab3 = tab3
  old = old
  new = new
  Players <- MCPlayers
  Tabs <- ThreeTabs
  PlayerOf <- PlayersTwoTabs
  GMs = {gm}
  GMKey = {gm}
  InitialHistory <- Rolled
  Races <- NoRaces
  Authors <- ThreeTabs
  Listeners = {}
  PostTypes = {"roll"}
  MaxStamp = 1
  MaxMail = 1
  Titles <- TwoTitles
INVARIANTS NoDuplicates
PROPERTIES OnlyOwnTabsCollide
\* Without streams nothing is left to do once the last ID is used and no event can be changed.
CHECK_DEADLOCK FALSE
