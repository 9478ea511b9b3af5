SPECIFICATION Spec
CONSTANTS
  NumIds = 2
  Array <- Arrays
  INFINITY = 100
  NONE = NONE
  MaxWrites = 4
INVARIANTS
  MedianIsRecalculated
  StatsAreOrdered
  ExactUntilDrift
  EntryStatsAreExact
