SPECIFICATION Spec
CONSTANTS
  Chunk = 5
  Margin = 2
  MaxField = 8
  MaxTree = 20
  MaxBytes = 12
  MaxPast = 12
INVARIANTS MarginAhead
