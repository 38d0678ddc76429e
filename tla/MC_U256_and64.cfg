CONSTANTS
  LimbBits <- MCLimbBits
  Operands <- MCOperands
  U64Operands <- MCU64Operands
  Shifts <- MCShifts
  I32Shifts <- MCI32Shifts
  UCount <- MCUCount
SPECIFICATION SpecAndU64
PROPERTY RefinesModular
