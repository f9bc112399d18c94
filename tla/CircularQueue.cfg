SPECIFICATION Spec
CONSTANTS
  Value = {a, b}
  Capacity = 3
  Blank = blank
  None = None
PROPERTIES IsFifo
