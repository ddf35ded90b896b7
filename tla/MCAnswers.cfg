SPECIFICATION Spec
CONSTANTS
  Documents <- Written
  Pieces <- MixedPieces
  Texts <- MCTexts
  MaxPieces = 3
  References <- ListedReferences
  Labels <- TwoLabels
INVARIANT TypeOK
INVARIANT AcceptsExactlyGroundedAnswers
INVARIANT InsufficientIsHonest
INVARIANT SourcesQuoteTheDocument
INVARIANT CitationsOpenTheirSource
CHECK_DEADLOCK FALSE
