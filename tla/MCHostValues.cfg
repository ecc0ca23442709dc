SPECIFICATION Spec
CONSTANTS
  Radix = 2
  Decimals = 2
  Words = 64
  Ints = 16
  MaxDuration = 8
  ReadCap = 5
  DefaultRead = 4
  DefaultAwait = 3
  Slack = 2
  Objects <- MCObjects
  Companions <- MCCompanions
  Keys <- MCKeys
  Records <- MCRecords
  Texts <- MCTexts
INVARIANTS
  OptionsAsWritten
  IdentityKept
  RecordTextFaithful
  NumbersReachWhole
