SPECIFICATION Spec
CONSTANTS
  Documents <- EmptyItems
  Pieces <- MixedPieces
  Texts <- MCTexts
  MaxPieces = 1
  References <- ListedReferences
  Labels <- TwoLabels
INVARIANT EverySectionRetrievable
CHECK_DEADLOCK FALSE
