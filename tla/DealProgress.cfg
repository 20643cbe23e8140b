\* One deal, two callers that contend for the lock, one client that watches the
\* deal; a crash, no failing transaction: everything scheduled ends.
CONSTANTS
  Deals = {d1}
  Suppliers = {s1}
  Callers = {c1, c2}
  Watchers = {w1}
  None = None
  Requests <- GoodRequests
  MinimumQuotes = 1
  MaxLives = 2
  MaxFaults = 0
  MaxAnchors = 2
  ResumeLimit = 1
  KillSwitches = {TRUE, FALSE}
  Lapses = {}
  Synchronous = FALSE
  HashKnowledge = "shown"
  Sellers <- MCSellers
  Goods <- MCGoods
  One = 10
  Unlimited = Unlimited
SPECIFICATION FairStreamSpec
INVARIANT
  StreamFollowsJournal
PROPERTIES
  DraftsAreProcessed
  LockIsReleased
  StreamsEnd
\* Every deal of the instance may reach its end.
CHECK_DEADLOCK FALSE
