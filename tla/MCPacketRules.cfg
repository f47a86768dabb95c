CONSTANTS
  WriteLengths <- MCWriteLengths
  Opcodes <- MCOpcodes
  InputLengths <- MCInputLengths
  DataLens <- MCDataLens
  TypeLengths <- MCTypeLengths
  OutputLengths <- MCOutputLengths
  RequestedTypes <- MCRequestedTypes
  ReadLengths <- MCReadLengths
  ConfigLengths <- MCConfigLengths
  VersionSize = 4
  CapabilitiesSize = 16
  WordSize <- MCWordSize
SPECIFICATION Spec
INVARIANTS AcceptedFits InBounds
CHECK_DEADLOCK FALSE
