SPECIFICATION FairSpec
CONSTANTS
  Specs <- Texts
  Templates <- Manpages
  Installs <- InstallSets
  Shipped <- Committed
  MaxEdits = 1
  Cut = Cut
  Calls <- WaysToCall
INVARIANTS
  IInv
  AllOrNothing
  RulesGiveExamples
  PlanFollowsSpec
  GreenIsEarned
  StubIsOurs
  NothingLeft
  RebuildKeepsGreen
PROPERTIES RunEnds
