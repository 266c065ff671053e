\* One instance, one request of an admin, one mishap or callback.
CONSTANTS
  Instances = {i1}
  Admins = {a1}
  Lines = {l1}
  MaxVersions = 2
  MaxMishaps = 1
  NoOne = NoOne
SPECIFICATION FairSpec
INVARIANTS
  OneMailPerRow
PROPERTIES
  ImplementsListDelivery
  DueIsMailed
  StuckIsFreed
