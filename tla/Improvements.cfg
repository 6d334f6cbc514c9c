\* Two requests at a time on items and on a notice to two addresses of three people, with two
\* disturbances: refused and unsure deliveries, changes of consent and of addresses, killed processes.
SPECIFICATION FairSpec
CONSTANTS
  i1 = i1
  i2 = i2
  r1 = r1
  r2 = r2
  anna = anna
  annaReply = annaReply
  bob = bob
  home = home
  work = work
  None = None
  Items <- TwoItems
  Requests <- TwoRequests
  People <- ThreePeople
  Addresses <- BothAddresses
  Accounts <- TwoAccounts
  FirstAddress <- Shared
  Scenarios <- Cases
  Disturbances = {"killed", "refused", "unsure", "consent", "address"}
  MaxHistory = 7
  MaxContents = 2
  MaxPublished = 2
  MaxEvents = 2
INVARIANTS OneItemPerDraft MailIsAsConfirmed NoSecondMail
PROPERTIES WithdrawalIsRespected BatchFinishes
CHECK_DEADLOCK FALSE
