CONSTANTS
  Texts <- MCTexts
  Fold <- MCFold
  Number <- MCNumber
SPECIFICATION Spec
INVARIANTS TreeHoldsLines LinksFollowNames SignatureSkipsSha
CHECK_DEADLOCK FALSE
