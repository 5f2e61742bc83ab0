CONSTANTS
  RecordSize = 52
  VpsSets <- MCVps
  SpsSets <- MCSps
  PpsSets <- MCPps
  NalUnits <- MCNalUnits
  MaxNals = 3
  MaxRoom = 3
  MaxLost = 9

SPECIFICATION Spec

INVARIANTS
  LengthsAreRight
  StreamIsDecodable

CHECK_DEADLOCK FALSE
