\* Under fairness: three replies, the first of which conflicts with one of the node's own, an
\* inbox with room for two, pages of one, ACK calls of two, lost and late calls, crashes, power
\* failures, requeued replies and closed surveys.
SPECIFICATION FairSpec
CONSTANTS
  u1 = u1
  u2 = u2
  u3 = u3
  answers = answers
  edited = edited
  None = None
  Replies <- ThreeReplies
  Contents <- OneContent
  Unreadable <- NoReplies
  Conflicting <- First
  MaxCount = 2
  PageSize = 1
  AckBatch = 2
  Disturbances = {"lost", "crash", "power", "requeue", "toggle"}
  MaxEvents = 2
INVARIANTS CapacityIsExact WatermarkIsSound
PROPERTIES AnalysedRepliesAreFrozen CustodyIsKept IntakeCatchesUp
CHECK_DEADLOCK FALSE
