SPECIFICATION Spec
CONSTANT Programs <- AllPrograms
INVARIANTS
  TypeOK
  MarksAreLeast
  MarksAreJustified
  ImportedEffectsAreFound
  ChecksNameTheirCalls
  ChecksFollowWalkedHelpers
PROPERTY
  WalksStayAtHome
CHECK_DEADLOCK FALSE
