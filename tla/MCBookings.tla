----------------------------- MODULE MCBookings -----------------------------
(* Instances of Bookings.                                                   *)
(* Rivals: two occurrences of one series that contend for a room, one of    *)
(* them moved to the time of the other.  Rooms: one booking of two rooms,   *)
(* which is never part of a series.                                         *)
EXTENDS Bookings, TLC

CONSTANTS party, weekly, hall, annex, rival

RivalsBookingOf == (hall :> party) @@ (rival :> weekly)
RivalsPrimary   == (party :> hall) @@ (weekly :> rival)
RivalsContends  == {<<hall, rival>>, <<rival, hall>>}
RivalsSeries    == [b \in {party, weekly} |-> {party, weekly}]
RivalsFollowing == (party :> {party, weekly}) @@ (weekly :> {weekly})

RivalsOpensAt   == [b \in {party, weekly} |-> 0]

RoomsBookingOf == (hall :> party) @@ (annex :> party)
RoomsPrimary   == party :> hall
RoomsContends  == {}
RoomsSeries    == party :> {}
RoomsFollowing == RoomsSeries
RoomsOpensAt   == party :> 0
=============================================================================
