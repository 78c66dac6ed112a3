SPECIFICATION Spec
CONSTANTS
  Capacity = 3
  Lengths <- LengthsUpTo3
  ReadModes <- BlockingOnly
  MaxBytes = 3
PROPERTY EofMeansEnd
