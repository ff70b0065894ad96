----------------------------- MODULE MCBooking -----------------------------
(* Values for the constants of Booking, and the symmetry of its model values. *)
EXTENDS Booking, TLC

\* Parties.
OneSeat == {<<1, 1>>}
OneOrTwo == {<<1, 1>>, <<2, 2>>}

\* Calendars: the last day of each refund tier that pays (7 and 3 days left), a
\* day of the one that does not, and the day after departure; a departure that
\* stays far away; the last day.
Tiers == <<7, 3, 2, -1>>
FarAway == <<7>>
SameDay == <<1, -1>>

\* Bookings and slots are interchangeable, and Calendar never names one.
Symmetric == Permutations(Bookings) \cup Permutations(Slots)
=============================================================================
