\* Four bytes received before the first is taken lap the ring, which holds three.
SPECIFICATION Spec
CONSTANTS
  Size = 5
  Bytes = {0, 1}
  None = None
  Longest = 4
PROPERTY HandsOutOldest
