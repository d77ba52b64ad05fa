SPECIFICATION FairListsSpec
CONSTANTS
  Top <- MCTop
  Arrays <- MCArrays
  Names <- MCNames
  Blocks <- MCBlocks
  Allows <- MCAllows
INVARIANTS ReadsInBounds SentIsRight
PROPERTIES FoundIsRight AnswerComes
CHECK_DEADLOCK FALSE
