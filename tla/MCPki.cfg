CONSTANTS
  MaxCerts = 3
SPECIFICATION Spec
INVARIANTS
  FallsBackToBirth
  RunsWhatIsSaved
PROPERTIES
  EnrolledOnce
  HalfWrittenStays
