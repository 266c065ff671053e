\* One visitor, the event at two handlers at a time, three faults.
CONSTANTS
  Visitors = {v1}
  Handlers = {h1, h2}
  MaxFaults = 3
  NoHandler = NoHandler
  NoVisitor = NoVisitor
SPECIFICATION FairSpec
CHECK_DEADLOCK FALSE
INVARIANTS CancelMailIsTrue InvitedWasAdmitted RequesterToldOnce DoneMeansReached
PROPERTIES CancelReachesVisitors
