SPECIFICATION Spec
CONSTANTS
  Builds = {"b1"}
INVARIANTS
  FreeRunIsGated
  RollbackRestores
  WorksAfterwards
  UninstallIsComplete
