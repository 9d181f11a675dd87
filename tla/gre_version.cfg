SPECIFICATION Spec
CONSTANTS
  Varied <- MCVaried
  Lengths <- MCLengths
  Focuses <- GreFocus
INVARIANT GreInnerSent
CHECK_DEADLOCK FALSE
