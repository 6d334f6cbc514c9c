\* Two processes with chunks of two, each started twice at most, an error or a kill: the
\* counters of a batch, what a completed batch stands for, and what the analysis is told.
SPECIFICATION Spec
CONSTANTS
  i1 = i1
  i2 = i2
  k1 = k1
  k2 = k2
  k3 = k3
  c1 = c1
  c2 = c2
  q1 = q1
  q2 = q2
  None = None
  Importers = {i1, i2}
  Keys = {k1, k2, k3}
  Contents = {c1, c2}
  Questions = {q1, q2}
  Cases <- TwoProcesses
  ChunkSize = 2
  MaxRuns = 2
  MaxEvents = 1
INVARIANTS CompletedMeansStored EndedImportsAreAnnounced
CHECK_DEADLOCK FALSE
