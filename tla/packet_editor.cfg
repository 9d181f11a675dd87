SPECIFICATION Spec
CONSTANTS
  M = 5
  Streams <- MCStreams
  Typed <- MCTyped
  Imported <- MCImported
  MaxEdits <- MCMaxEdits
  MaxDrafts = 1
  MaxRenders <- MCMaxRenders
INVARIANTS
  TypeOK
  ProgramHasPacket
  TargetOnRow
  FixupOnHeaders
PROPERTIES
  EditRepairs
CHECK_DEADLOCK FALSE
