SPECIFICATION Spec
CONSTANTS
  Dots = 3
  Lines = 4
  Blank = 2
  Over = 1
  Inputs = {{}, {"A"}}
INVARIANT AutoRead
