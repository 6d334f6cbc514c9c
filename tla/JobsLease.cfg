\* Two workers on one artifact directory and one survey of answers, paid AI work queued with
\* every publication; a kill, a cancellation, a software upgrade, a request or an error:
\* leases that expire under a slow worker, publication and the base of the AI text.
SPECIFICATION Spec
CONSTANTS
  w1 = w1
  w2 = w2
  answers = answers
  rows1 = rows1
  rows2 = rows2
  None = None
  Workers <- TwoWorkers
  JobIds <- FourJobs
  Sources <- Answers
  RefOf <- Refs
  RootOf <- SharedRoot
  MaxAttempts = 2
  AutoAI = TRUE
  MaxInput = 1
  MaxConfig = 0
  MaxCode = 1
  Disturbances = {"cancel", "kill", "request", "upgrade", "error"}
  MaxEvents = 1
INVARIANTS PublishedDataMatchesManifest NoLostUpdate CancelledWorkIsNotPublished
PROPERTIES PublishedNeverRegresses AIPublishedWithItsBase
SYMMETRY WorkerSymmetry
CHECK_DEADLOCK FALSE
