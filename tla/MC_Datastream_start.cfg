CONSTANTS
  Cap <- MCCap
  Slack <- MCSlack
  Bytes <- MCBytes
  Blank = 0
  Steps <- MCSteps
  MaxWrite <- MCMaxWrite
  MaxCount <- MCMaxCount
SPECIFICATION Spec

INVARIANT NoWriteBeforeStart
