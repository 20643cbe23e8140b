\* Clients use submit and act as soon as they see the deal.
CONSTANTS
  Deals = {d1}
  Suppliers = {s1, s2, s3}
  Callers = {c1, c2}
  None = None
  Requests <- GatedRequests
  MinimumQuotes = 2
  MaxLives = 2
  MaxFaults = 2
  MaxAnchors = 3
  ResumeLimit = 1
  KillSwitches = {TRUE, FALSE}
  Lapses = {"mandate", "quotes"}
  Synchronous = FALSE
  HashKnowledge = "shown"
SYMMETRY Symmetry
SPECIFICATION Spec
INVARIANTS
  TypeOK
  ApprovedTermsMatch
  PaymentIsAnchored
  LedgerVerifies
  AwardIsFinal
PROPERTY
  PurchaseAnchoredOnce
\* Every deal of the instance may reach its end.
CHECK_DEADLOCK FALSE
