CONSTANTS
  party = party
  weekly = weekly
  hall = hall
  annex = annex
  rival = rival
  Bookings = {party}
  Slots = {hall, annex}
  Requests = {r1, r2}
  Scans = {n1}
  BookingOf <- RoomsBookingOf
  Primary <- RoomsPrimary
  Contends <- RoomsContends
  CheckInRequired = {hall, annex}
  Series <- RoomsSeries
  Following <- RoomsFollowing
  ScanLimit = 1
  OpensAt <- RoomsOpensAt
  Horizon = 2
  MaxFaults = 1
  NoBooking = NoBooking
  NoSlot = NoSlot
SPECIFICATION FairSpec
CHECK_DEADLOCK FALSE
INVARIANTS RejectedStaysOut PendingIsDecidable
PROPERTIES CheckedInIsKept NoShowReleases
