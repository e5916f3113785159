SPECIFICATION Spec
CONSTANTS
  Keys = {k1, k2, o1}
  OperatorKeys = {o1}
  NoKey = NoKey
  Corrupt = Corrupt
  Procs = {core, gateway}
  Recorders = {core}
  AllowFile = TRUE
  MaxRetired = 2
  MaxCommands = 1
SYMMETRY Symmetry
INVARIANTS
  TypeOK
  SealingKeyIsHeld
  SealsUnderRecord
