CONSTANTS
  NameLen <- MCNameLen
  Inputs <- MCInputs
  LimbInputs <- MCLimbInputs
  Garbage <- MCGarbage
SPECIFICATION RoundSpec
INVARIANT DecodesValidatedNames
INVARIANT AcceptsExactlyNormalizedNames
