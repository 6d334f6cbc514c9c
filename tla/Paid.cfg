\* The paid analysis of a survey: consents, calls, crashes and leases.
CONSTANTS
  NotAList = NotAList
    Workers = {w1, w2}
    Tokens = {t1, t2}
    Contents = {a, b, none}
    Content <- SameText
    Empty = none
    ApiKeys = {k1, k2}
    FirstKey = k1
    Scenarios <- Cases
    MaxJobs = 3
    MaxInput = 2
    MaxEvents = 2
    MaxAttempts = 2
    MaxCalls = 2
    None = None
    w1 = w1
    w2 = w2
    t1 = t1
    t2 = t2
    a = a
    b = b
    k1 = k1
    k2 = k2
    none = none
SPECIFICATION FairSpec
INVARIANTS CallsAreReserved ConsentIsSpentOnce
PROPERTIES PaidForWhatWasConfirmed NoCallAfterUncertainty GrantSettles
CHECK_DEADLOCK FALSE
