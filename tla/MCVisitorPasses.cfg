\* Two visitors, one pass, one desk, the sweep and one fault.
CONSTANTS
  Visitors = {v1, v2}
  Passes = {p1}
  Desks = {d1}
  MaxFaults = 1
  NoPass = NoPass
  NoVisitor = NoVisitor
SPECIFICATION FairSpec
INVARIANTS PointerIsTrue
PROPERTIES EndIsFinal OverdueIsSwept
