\* One consumer without a limit and two with one.
SPECIFICATION FairSpec
CONSTANTS
  c1 = c1  c2 = c2  c3 = c3
  v1 = v1  v2 = v2
  NoValue = NoValue
  Consumers <- ThreeConsumers
  Timed <- TwoTimed
  Values <- TwoValues
  MaxLength = 3
INVARIANTS TypeOK NoLostWakeup
PROPERTIES FalseMeansTimeout TimedReturns
