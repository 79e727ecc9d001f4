SPECIFICATION Spec
CONSTANTS
  Versions = {v1, v2, v3}
  First = v1
  Junk = Junk
  None = None
  MaxBackups = 3
INVARIANTS
  TypeOK
  BinaryIsKept
  ErrorWaitsForGet
PROPERTIES
  SwapsUnderUnitName
CHECK_DEADLOCK FALSE
