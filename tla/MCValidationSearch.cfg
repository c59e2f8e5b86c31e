\* Validation against images without a table or with a table of length 0, with the no-handler sentinel,
\* and with every sorted table over four RVAs.
CONSTANTS
  Width <- MCWidth
  Tables <- MCTables
  Handlers <- MCHandlers
  Bases <- MCBases
  Lookups <- MCLookups
SPECIFICATION Spec
INVARIANT ListedIsValid
PROPERTY ValidationTerminates
