\* A crash between two nodes, and the resumed workflow.
CONSTANTS
  Deals = {d1}
  Suppliers = {s1, s2}
  Callers = {c1}
  None = None
  Requests <- GoodRequests
  MinimumQuotes = 2
  MaxLives = 2
  MaxFaults = 0
  MaxAnchors = 3
  ResumeLimit = 1
  KillSwitches = {FALSE}
  Lapses = {}
  Synchronous = TRUE
  HashKnowledge = "shown"
SPECIFICATION Spec
INVARIANT
  AwaitingIsApprovable
CHECK_DEADLOCK FALSE
