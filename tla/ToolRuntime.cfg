\* Three calls, two keys, one restart.
CONSTANTS
  model = model
  person = person
  quotes = quotes
  payments = payments
  contracts = contracts
  Subjects = {model, person}
  Models = {model}
  Tools = {quotes, payments, contracts}
  Grants <- MCGrants
  Forbidden = {payments, contracts}
  HumanOnly = {contracts}
  Keys = {k1, k2}
  MaxCalls = 3
  MaxLives = 2
SPECIFICATION FairSpec
INVARIANTS
  TypeOK
  OneResultPerKey
  NoSilentRepetition
  AnswersAreAudited
PROPERTY
  CallsEnd
\* The bound on the calls is reached.
CHECK_DEADLOCK FALSE
