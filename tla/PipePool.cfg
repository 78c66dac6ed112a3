SPECIFICATION Spec
CONSTANTS
  w1 = w1
  w2 = w2
  w3 = w3
  Workers <- ThreeWorkers
  HeaderSize = 4
  PoolSize = 20
  Sizes <- TwoSizes
INVARIANT Exclusive
PROPERTY NoneIsFull
