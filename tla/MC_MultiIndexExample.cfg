CONSTANTS
  Users <- MCUsers
  Second <- MCSecond
  Ns <- MCNs
SPECIFICATION Spec
INVARIANT BysecPrintsEveryRow
PROPERTY RowsChangeOnlyByMod
