\* Files of up to three rows, two preparations, two jobs, two disturbances (failed downloads,
\* crashes, hands on the files): what a manifest vouches for, and from which bytes a result
\* was computed.
SPECIFICATION LocalSpec
CONSTANTS
  Missing = Missing
  Locked = Locked
  Other = Other
  Short = Short
  Datasets <- Files
  Mappings <- TwoMappings
  MaxPreparations = 2
  MaxJobs = 2
  MaxHands = 2
INVARIANTS ManifestIsTrue PublishedIsRegistered
CHECK_DEADLOCK FALSE
