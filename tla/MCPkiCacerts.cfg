CONSTANTS
  MaxCerts = 3
SPECIFICATION Spec
INVARIANTS
  BirthCaWithoutCacerts
