\* The agent and the service share the store; a legacy file waits to be imported.
CONSTANTS
  Proc = {agent, service}
  Nobody = Nobody
  HasLegacy = TRUE
  MaxRecords = 2
  MaxCommands = 2
  MaxFaults = 1
SYMMETRY Symmetry
SPECIFICATION Spec
INVARIANTS TypeOK CleanImportComplete CommandKept LoadShowsHistory TokenBeforeHistory
PROPERTIES TokenNeverGoesBack
