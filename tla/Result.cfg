\* Publications, replies and definition versions of one survey under fairness, with lost calls,
\* a node that is restored from a backup and an operator who sends failed uploads again.
SPECIFICATION FairSpec
CONSTANTS
    MaxPublications = 2
    MaxReplies = 1
    MaxDefinitions = 2
    MaxDisturbances = 2
    None = None
INVARIANTS IdentityIsFrozen AcknowledgementIsTrue OnlySupersededIsStale
PROPERTIES NewestIsShown
