\* Two deals, two payloads, three coroutines in two processes.
CONSTANTS
  Deals = {d1, d2}
  Payloads = {x1, x2}
  p1 = p1
  p2 = p2
  w1 = w1
  w2 = w2
  w3 = w3
  Processes = {p1, p2}
  Writers = {w1, w2, w3}
  Home <- MCHome
  None = None
  MaxAnchors = 2
  MaxFaults = 1
  MaxEdits = 1
SYMMETRY MCSymmetry
SPECIFICATION Spec
INVARIANTS
  TypeOK
  ChainVerifies
  TamperEvident
  OnlyOtherProcessesCollide
\* Once the bounds are used up nobody appends any more.
CHECK_DEADLOCK FALSE
