\* Two starts, one restart allowed, three disturbances: the files two launchers share, what
\* becomes of a worker that died, and of one whose launcher is gone.
SPECIFICATION FairSpec
CONSTANTS
  l1 = l1
  l2 = l2
  None = None
  Launchers <- TwoStarts
  MaxRestarts = 1
  MaxProbes = 2
  Disturbances = {"start", "spawn", "crash", "kill"}
  MaxEvents = 3
PROPERTIES CrashIsDetected OrphansLeave
CHECK_DEADLOCK FALSE
