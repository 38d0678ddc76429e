CONSTANTS
  NameLen <- MCNameLen
  Inputs <- MCInputs
  LimbInputs <- MCLimbInputs
  Garbage <- MCGarbage
SPECIFICATION DecodeSpec
INVARIANT ReturnsCharmapText
