\* A caller that passes limit 0.
CONSTANTS
  Item = {i1, i2, i3}
  Limits <- mcZeroLimit
  Offsets <- mcZeroOffset
  MaxChanges = 1
  MaxPages = 3
SPECIFICATION Spec
PROPERTY FooterShowsMore
CHECK_DEADLOCK FALSE
