SPECIFICATION TripSpec
CONSTANTS
  Spills = FALSE
  CheckpointEvery = 2
  TreeSize = 13
  Texts = {"num"}
  MaxCalls = 8
  MaxMisuses = 2
  Layouts <- MCLayouts
INVARIANTS WInv WritesTheTree RoundTrips
