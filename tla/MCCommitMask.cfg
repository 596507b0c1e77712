CONSTANTS
  FieldCount = 3
  WordBits = 3
SPECIFICATION FairSpec
INVARIANT WordsAreSets
PROPERTY LoopsEnd
