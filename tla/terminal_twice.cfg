SPECIFICATION Spec
CONSTANT MaxConfigures = 2
INVARIANT ExitAlwaysRestores
