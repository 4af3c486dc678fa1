SPECIFICATION Spec
CONSTANTS
  Users = {alice}
  Challenges = {c1, c2}
  Encodings = {e1, e2}
  Tokens = {t1, t2}
  Procs = {p1}
  ChallengeTTL = 1
  Grace = 1
  AccessTTL = 1
  RefreshTTL = 2
  MaxNow = 0
  None = None
  Attempts = {i1}
  Wallets = {"freighter"}
PROPERTIES
  UsedChallengeRefused
