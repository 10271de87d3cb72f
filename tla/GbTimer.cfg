SPECIFICATION Spec
CONSTANTS
  CounterMod = 16
  TimaMod = 3
  Half <- ThreeHalves
  ResetCounter = 11
INVARIANTS TypeOK OverflowAccounted
PROPERTIES RateSpec
