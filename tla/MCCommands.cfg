SPECIFICATION Spec
CONSTANTS
  p1 = p1
  p2 = p2
  p3 = p3
  Player <- Players
  Artist = {p1}
  Gifts <- TwoGifts
  Nobody = Nobody
  Rates = {0, 1, 2}
  Pers = {1, 2}
  Den = 2
  MaxWait = 2
  PaintRates = {1}
  UserPer = 2
  ModPer = 1
SYMMETRY Symmetry
INVARIANTS
  TypeOK
  PowerComesFromPasswords
  QuotaFitsRank
  SpendingIsBounded
PROPERTIES
  NobodyIsOverruled
