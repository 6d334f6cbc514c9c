\* One worker that may be killed and AI work queued with every publication, while a data
\* set gets new versions or analysis is switched off and on: every change settles.
\* The courses that the survey takes are in MCAnalysisJobs.
SPECIFICATION FairSpec
CONSTANTS
  w1 = w1
  w2 = w2
  answers = answers
  rows1 = rows1
  rows2 = rows2
  None = None
  Workers <- OneWorker
  JobIds <- SevenJobs
  Sources <- TwoDatasetVersions
  RefOf <- Refs
  RootOf <- SharedRoot
  MaxAttempts = 2
  AutoAI = TRUE
  MaxInput = 2
  MaxConfig = 2
  MaxCode = 0
  Disturbances = {"kill"}
  MaxEvents = 1
ACTION_CONSTRAINTS OnCourse
PROPERTIES ChangesSettle
CHECK_DEADLOCK FALSE
