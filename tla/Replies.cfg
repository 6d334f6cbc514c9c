\* A draft of up to four versions, or a survey the migration converts, with one reply; a
\* published survey of the website or of a node with two forms open, a kill, returns to a form,
\* and changed settings and preferences.
SPECIFICATION Spec
CONSTANTS
  None = None
  ann = ann
  mia = mia
  t1 = t1
  t2 = t2
  Tabs <- TwoTabs
  Users <- Customer
  Managers <- Staff
  Cards <- ManyCards
  FirstCards <- OneCard
  LegacySurveys <- OldSurveys
  MaxVersion = 4
  Scenarios <- ManyScenarios
INVARIANTS CodesAreNotReused NoAnswerIsInvalid OneReplyPerCustomer ThankedMeansStored
CHECK_DEADLOCK FALSE
