\* A string of four bytes fills and laps the ring, which holds three, from
\* every position of its indices.
SPECIFICATION Spec
CONSTANTS
  Size = 5
  Bytes = {0, 1}
  None = None
  Longest = 4
INVARIANT TypeOK
PROPERTIES ImplementsQueue Drains
