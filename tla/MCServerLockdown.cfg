SPECIFICATION Spec
CONSTANTS
  Sock = {s1, s2, s3}
  IP = {i1, i2}
  Name = {w1}
  None = None
  CountMod = 4
  Limits = {1}
  Settings = {"lockdown"}
SYMMETRY Symmetry
PROPERTIES
  LockdownEndsWithAdmins
