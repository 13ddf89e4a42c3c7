SPECIFICATION Spec
CONSTANTS
  None = None
  Truncated <- BroughtDown
  Blocks <- FirstBlocks
  Fillers <- Flows
  Texts <- AllTexts
  GlyphHeights = {24, 26}
  Lengths <- PageLengths
  MaxHeight = 300
  MaxBlocks = 4
CHECK_DEADLOCK FALSE
INVARIANTS
  TypeOK
  GreedyWrap
  NothingLost
  InkOnPaper
  NoOverprint
  ChunksAreStretches
  
