SPECIFICATION Spec
CONSTANTS
  Users = {alice, bob}
  Challenges = {c1, c2}
  Encodings = {e1, e2}
  Tokens = {t1, t2}
  Procs = {p1, p2}
  ChallengeTTL = 1
  Grace = 1
  AccessTTL = 1
  RefreshTTL = 2
  MaxNow = 1
  None = None
  Attempts = {i1, i2}
  Wallets = {"freighter"}
SYMMETRY Symmetry
INVARIANTS
  TypeOK
  SucceedsOnlyIfOpen
  ActsAsShown
  OwnerSigned
