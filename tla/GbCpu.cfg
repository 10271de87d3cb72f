SPECIFICATION FairSpec
CONSTANTS
  NInts = 2
  OamSize = 2
  Pages = {p1, p2}
  Nothing = Nothing
INVARIANTS TypeOK ImeJustified HaltBugShadow DmaFaithful
PROPERTIES RequestKept Wakeup
