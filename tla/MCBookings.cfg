CONSTANTS
  party = party
  weekly = weekly
  hall = hall
  annex = annex
  rival = rival
  Bookings = {party, weekly}
  Slots = {hall, rival}
  Requests = {r1}
  Scans = {n1}
  BookingOf <- RivalsBookingOf
  Primary <- RivalsPrimary
  Contends <- RivalsContends
  CheckInRequired = {hall}
  Series <- RivalsSeries
  Following <- RivalsFollowing
  ScanLimit = 1
  OpensAt <- RivalsOpensAt
  Horizon = 1
  MaxFaults = 0
  NoBooking = NoBooking
  NoSlot = NoSlot
SPECIFICATION Spec
CHECK_DEADLOCK FALSE
INVARIANTS NoDoubleBooking
PROPERTIES ImplementsCalendar
