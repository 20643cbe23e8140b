\* The put of an approval fails, and another quote is approved.
CONSTANTS
  Deals = {d1}
  Suppliers = {s1, s2}
  Callers = {c1}
  None = None
  Requests <- GoodRequests
  MinimumQuotes = 2
  MaxLives = 1
  MaxFaults = 1
  MaxAnchors = 3
  ResumeLimit = 1
  KillSwitches = {FALSE}
  Lapses = {}
  Synchronous = TRUE
  HashKnowledge = "computed"
SPECIFICATION Spec
INVARIANT
  ApprovedTermsMatch
CHECK_DEADLOCK FALSE
