SPECIFICATION FirstSpec
CONSTANTS
  Policies = {p1, p2}
  NoPolicy = NoPolicy
  First = p1
  Workers = {w1, w2}
  Crons = {c1}
  MaxEdits = 2
  MaxFaults = 1
INVARIANTS
  BreachIsShown
  TimersFollowPolicy
  StartIsOnItsWay
PROPERTIES
  TimerIsStarted
