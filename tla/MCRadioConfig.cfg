CONSTANTS
  Config = {c1, c2}
  Boot = c1
  Apps <- MCApps
  Deafness <- MCDeafness
SPECIFICATION FairSpec
INVARIANTS TypeOK EveryUpdateApplied WaitingHears
PROPERTIES StaleOnlyByWorkaround EventuallyActive FlagServed
