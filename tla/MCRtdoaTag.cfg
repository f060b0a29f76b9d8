CONSTANTS
  Sensors = 2
  Fast = 1
  Pool = 5
SPECIFICATION FairSpec
INVARIANTS TypeOK NeverNested AwakeWhenIdle
PROPERTIES NoReadingForgotten ImuFlows RebootsWhenCharged
