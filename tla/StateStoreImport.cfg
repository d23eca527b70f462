\* One process, which is interrupted while it imports the legacy file.
CONSTANTS
  Proc = {agent}
  Nobody = Nobody
  HasLegacy = TRUE
  MaxRecords = 0
  MaxCommands = 0
  MaxFaults = 1
SPECIFICATION Spec
INVARIANTS ImportedOnce
