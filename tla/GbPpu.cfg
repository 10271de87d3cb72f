SPECIFICATION FairSpec
CONSTANTS
  OamDots = 2
  DrawEnd = 4
  LineDots = 6
  Visible = 2
  Lines = 5
INVARIANTS TypeOK DrawnBehindBeam CoincidenceSound
PROPERTIES VBlankAfterPicture VBlankComes
