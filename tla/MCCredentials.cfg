SPECIFICATION Spec
CONSTANTS
  Users = {alice, agency}
  Issuers = {agency}
  ServerKey = agency
  CredIds = {c1, c2}
  Claims = {k1}
  Expiries = {0}
  Procs = {p1, p2}
  Ops = {"createDID", "selfIssue", "deactivate", "revoke", "verify"}
  MaxNow = 1
  None = None
SYMMETRY Symmetry
INVARIANTS
  TypeOK
  ChainBackedByDatabase
  ValidMeansNotRevokedBefore
  RevokedAnswerIsTrue
  SubjectAndIssuerExist
PROPERTIES
  OnlyIssuerRevokes
  ImplementsLedger
