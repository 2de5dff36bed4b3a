SPECIFICATION Spec
CONSTANT MaxEdits = 2
INVARIANTS
  TypeOK
  ConfiguredService
  BuiltOfOneFile
CHECK_DEADLOCK FALSE
