\* Liveness: two fair workers and one event, two infrastructure failures.
CONSTANTS
  Keys = {k1}
  Workers = {w1, w2}
  Tokens = {t1, t2, t3}
  BatchSize = 2
  MaxAttempts = 2
  MaxMishaps = 2
  NoToken = NoToken
  NoKey = NoKey
SPECIFICATION FairSpec
CHECK_DEADLOCK FALSE
PROPERTIES
  EventuallySettled
