SPECIFICATION FairSpec
CONSTANTS
  Capacity = 3
  Lengths <- LengthsUpTo3
  ReadModes <- AllModes
  MaxBytes = 4
INVARIANTS NoOverlap RingHoldsTheRest IInv
PROPERTIES StreamSpec LateEofIsFinal CloseEndsReads Delivered
