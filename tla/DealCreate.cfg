\* Clients await create before they act on the deal.
CONSTANTS
  Deals = {d1}
  Suppliers = {s1, s2, s3}
  Callers = {c1, c2}
  None = None
  Requests <- GoodRequests
  MinimumQuotes = 2
  MaxLives = 3
  MaxFaults = 2
  MaxAnchors = 3
  ResumeLimit = 1
  KillSwitches = {TRUE, FALSE}
  Lapses = {"mandate", "quotes"}
  Synchronous = TRUE
  HashKnowledge = "shown"
SYMMETRY Symmetry
SPECIFICATION Spec
INVARIANTS
  HumanDecisionStands
  OnePaymentDraft
PROPERTY
  ImplementsLifecycle
\* Every deal of the instance may reach its end.
CHECK_DEADLOCK FALSE
