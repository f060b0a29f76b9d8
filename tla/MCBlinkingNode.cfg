CONSTANTS
  Rates <- NaturalRates
  Tps = 128
  Garbage = Garbage
  Pending = 10
SPECIFICATION FairNodeSpec
INVARIANTS TagTypeOK BlinksWhenRatePositive TypeOK FlagTrue SilentOnlyByFailure
PROPERTIES KeepsBlinking ResetRevives
