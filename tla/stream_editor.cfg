SPECIFICATION Spec
CONSTANTS
  Varied <- MCVaried
  Lengths <- MCLengths
  Focuses <- MCFocuses
INVARIANTS
  TypeOK
  TunnelShape
  SentAsSeen
  LengthKept
  ReloadSettles
CHECK_DEADLOCK FALSE
