\* One survey and one data set, two devices: two editors, changing owners and links, two
\* registrations, with one lost call, aborted transaction, crash or pruning.
SPECIFICATION FairSpec
CONSTANTS
  s1 = s1
  s2 = s2
  x1 = x1
  d1 = d1
  d2 = d2
  rows1 = rows1
  rows2 = rows2
  None = None
  Surveys <- AllSurveys
  External <- Dataset
  Devices <- TwoDevices
  Sources <- TwoSources
  PageSize = 1
  Scenarios <- Cases
  Disturbances = {"lost", "abort", "crash", "prune"}
  MaxEvents = 1
INVARIANTS NoChangeIsMissed CursorBelongsToLink NoEditIsLost NodeSourceMatchesDefinition
PROPERTIES NodeCatchesUp
CHECK_DEADLOCK FALSE
