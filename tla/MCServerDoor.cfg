SPECIFICATION Spec
CONSTANTS
  Sock = {s1, s2, s3}
  IP = {i1, i2}
  Name = {w1}
  None = None
  CountMod = 3
  Limits = {1, 2}
  Settings = {"bans", "whitelist", "blacklist", "lockdown", "limit"}
SYMMETRY Symmetry
INVARIANTS
  TypeOK
  NeverOvercounts
  ConnCountExact
PROPERTIES
  NobodyJoinsOverLimit
  MassKicksSpareAdmins
  LockdownOutlastsPlayers
