\* Validation against images with a table, where the search may read the
\* word after the table.
CONSTANTS
  Width <- MCWidth
  Tables <- MCTables
  Handlers <- MCHandlers
  Bases <- MCBases
  Lookups <- MCTableLookups
SPECIFICATION Spec
INVARIANT UnlistedIsInvalid
