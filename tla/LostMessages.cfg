\* A crash between the two transactions of sign_payment.
CONSTANTS
  Deals = {d1}
  Suppliers = {s1, s2}
  Callers = {c1}
  None = None
  Requests <- GoodRequests
  MinimumQuotes = 2
  MaxLives = 2
  MaxFaults = 0
  MaxAnchors = 3
  ResumeLimit = 1
  KillSwitches = {FALSE}
  Lapses = {}
  Synchronous = TRUE
  HashKnowledge = "shown"
SPECIFICATION Spec
INVARIANT
  CompletedIsQueued
CHECK_DEADLOCK FALSE
