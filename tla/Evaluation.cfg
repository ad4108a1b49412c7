\* Two ETFs for one position and one place for reviews.
SPECIFICATION FairSpec
CONSTANTS
  Etfs = {1, 2}
  Decisions <- MCDecisions
  MaxPositions = 1
  Confirmations = 2
  MaxQuotes <- MCMaxQuotes
  Holdings = {{}, {1}}
  Missing = {1}
  MaxTroubles = 1
  Required <- MCRequired
  Places = 1
INVARIANTS
  FollowUp
  PlanComplete
PROPERTIES
  
  ShownIsCurrent
CHECK_DEADLOCK FALSE
