SPECIFICATION FairSpec
CONSTANTS
  MaxCheckpoints = 3
  MaxCorrections = 2
  Wall = 5
  Verify = 3
  Tip = 3
  NoCand = NoCand
CHECK_DEADLOCK FALSE
INVARIANTS AccountsBalance RecordsCoverEffects AnswersHaveRoom UnknownIsUnjudged
PROPERTIES RunEnds ImplementsDialogue
