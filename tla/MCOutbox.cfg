\* Two workers, batches of up to two events, one infrastructure failure.
CONSTANTS
  Keys = {k1, k2}
  Workers = {w1, w2}
  Tokens = {t1, t2, t3}
  BatchSize = 2
  MaxAttempts = 2
  MaxMishaps = 1
  NoToken = NoToken
  NoKey = NoKey
SPECIFICATION Spec
SYMMETRY Symmetry
CHECK_DEADLOCK FALSE
INVARIANTS
  BuriedIsArchived
  ExhaustedMeansTried
  NoOverlapWithinLease
  ArchivedIsOver
  NeverStranded
PROPERTIES
  ImplementsDelivery
  AttemptsNeverDrop
  SettledIsFinal
