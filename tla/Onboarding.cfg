\* An onboarded agent, and one that is a seed too; two administrators.
CONSTANTS
  a1 = a1
  a2 = a2
  Agents = {a1, a2}
  Seeds = {a2}
  TaxIds = {t1}
  Admins = {c1, c2}
  MaxLives = 2
  MaxOrganizations = 2
  None = None
SYMMETRY Symmetry
SPECIFICATION Spec
INVARIANTS
  TypeOK
  OneOrganizationPerTaxId
  RegistryFollowsStore
  RevokedStaysOut
\* In the last life every request may have come to its end.
CHECK_DEADLOCK FALSE
