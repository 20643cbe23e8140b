\* A supplier that sells the product and one that does not.
CONSTANTS
  s1 = s1
  s2 = s2
  Suppliers = {s1, s2}
  Sellers = {s1}
  MaxAttempts = 2
  TTL = 1
  MaxLives = 2
  MaxTime = 2
  None = None
SPECIFICATION FairSpec
INVARIANTS
  TypeOK
  QuoteIsFresh
  RetriesMaskFailures
  QuotesBounded
PROPERTIES
  ImplementsCollection
  CollectionEnds
\* Once the quotes are collected and the clock stands still nothing is left.
CHECK_DEADLOCK FALSE
