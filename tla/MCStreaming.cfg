CONSTANTS
  IndexMod = 3
  CountMod = 6
  Burst = 2
  Blocks = 3
SPECIFICATION FairSpec
INVARIANTS TypeOK CountsMatchIndex
PROPERTIES CountsExactly StreamGoesOn
