SPECIFICATION BatchSpec
CONSTANTS
  Names = {a, b, p, x}
  Unnamable = {x}
  None = None
  MaxRecords = 6
SYMMETRY NameSymmetry
INVARIANTS
  FromIsTrue
  NothingUnsaid
