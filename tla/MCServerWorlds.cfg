SPECIFICATION Spec
CONSTANTS
  Sock = {s1, s2}
  IP = {i1, i2}
  Name = {w1, w2}
  None = None
  CountMod = 4
  Limits = {1}
  Settings = {"captcha", "fastconnects", "whitelist"}
SYMMETRY Symmetry
INVARIANTS
  WorldsAreOccupied
