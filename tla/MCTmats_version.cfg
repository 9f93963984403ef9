CONSTANTS
  Texts <- MCTexts
  Fold <- MCFold
  Number <- MCNumber
SPECIFICATION Spec
INVARIANT VersionIsOfText
CHECK_DEADLOCK FALSE
