\* One channel, more fills than a batch, a test message, under fairness.
SPECIFICATION FairSpec
CONSTANTS
  Channels = {c1}
  c1 = c1
  Batch = 1
  MaxFills = 2
  MaxVersion = 3
  MaxTests = 1
INVARIANTS
  NothingSkipped
PROPERTIES
  OutcomeIsFinal
  MessagesEnd
