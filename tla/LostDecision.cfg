\* No crash, no fault: the last put of the workflow against a decision.
CONSTANTS
  Deals = {d1}
  Suppliers = {s1, s2}
  Callers = {c1}
  None = None
  Requests <- GoodRequests
  MinimumQuotes = 2
  MaxLives = 1
  MaxFaults = 0
  MaxAnchors = 3
  ResumeLimit = 1
  KillSwitches = {FALSE}
  Lapses = {}
  Synchronous = FALSE
  HashKnowledge = "shown"
SPECIFICATION Spec
INVARIANT
  HumanDecisionStands
CHECK_DEADLOCK FALSE
