SPECIFICATION Spec
CONSTANTS
  Vars <- VarsSorted
  Ends = {0, 1}
  Host = 0
  HeaderLen = 2
  MaxEntries = 3
  MaxLogs = 2
INVARIANTS TypeOK AcceptsOnlyWhole ReadsWhatWasWritten
PROPERTIES StoredIsAccepted
