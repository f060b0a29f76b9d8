CONSTANTS
  Config = {c1, c2}
  Boot = c1
  Apps <- MCTwrNranges
  Deafness = {TRUE}
SPECIFICATION FairSpec
PROPERTY NeverStuck
