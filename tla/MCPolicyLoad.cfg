\* LoadFile over every document of the families.
SPECIFICATION Spec
CONSTANTS
  Half <- MCHalf
  Unit <- MCUnit
  Documents <- MCDocuments
  Uses <- MCUses
  Type <- MCType
CHECK_DEADLOCK FALSE
INVARIANTS ProgramsPresent ProgramsFit LoadedFitsEngines SizesExact
