CONSTANTS
  NameLen <- MCNameLen
  Inputs <- MCInputs
SPECIFICATION Spec
INVARIANT AcceptsExactlyNormalizedNames
