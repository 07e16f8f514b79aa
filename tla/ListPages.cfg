\* Lists of up to five entries, three changes in a walk.
CONSTANTS
  Item = {i1, i2, i3, i4, i5}
  Limits <- mcLimits
  Offsets <- mcOffsets
  MaxChanges = 3
  MaxPages = 6
SPECIFICATION Spec
SYMMETRY Symmetry
INVARIANTS
  TypeOK
  WholeListOnce
  OnlyRemovalsHide
  OnlyAdditionsRepeat
  WalkIsShort
\* A walk ends.
CHECK_DEADLOCK FALSE
