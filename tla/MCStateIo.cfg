SPECIFICATION Spec
CONSTANTS
  N = 4
  Off <- MCOff
  Single = {1, 4}
  Vals = {0, 1}
  Caps = {0, 1, 2, 3, 4, 5}
  Torn = Torn
INVARIANTS OverflowExact BadExact RoundTrip
