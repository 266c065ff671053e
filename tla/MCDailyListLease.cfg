\* Two instances and nothing that goes wrong.
CONSTANTS
  Instances = {i1, i2}
  Admins = {}
  Lines = {l1}
  MaxVersions = 2
  MaxMishaps = 0
  NoOne = NoOne
SPECIFICATION FairSpec
PROPERTIES
  FenceIsLease
