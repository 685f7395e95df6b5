SPECIFICATION Spec
CONSTANT MaxConfigures = 2
INVARIANTS
  TypeOK
  ExitRestores
  RawOrFound
  CommandIsSetApart
