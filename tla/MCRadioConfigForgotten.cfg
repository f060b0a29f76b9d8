CONSTANTS
  Config = {c1, c2}
  Boot = c1
  Apps <- MCTwrNode
  Deafness = {FALSE}
SPECIFICATION Spec
INVARIANT CommitMakesActive
