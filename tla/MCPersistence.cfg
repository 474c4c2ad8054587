SPECIFICATION Spec
CONSTANTS
  Soon = 3
  Lazy = 7
  NoTime = NoTime
INVARIANTS
  TypeOK
  WrittenInTime
