---------------------------- MODULE BookingPages ----------------------------
(***************************************************************************)
(* The booking links of Booking with the pages they show and the gaps the  *)
(* connector reports (Slots): what is offered, and what is given away,      *)
(* while links are opened and closed.                                      *)
(***************************************************************************)
EXTENDS Booking, Slots

\* What the page of an open link offers can be booked (service.py, public_link_info
\* and book_slot); a page whose link is disabled offers nothing.
Open == \E l \in Link : target[l] # Absent
OfferedIsBookable == Open => OffersBookable

\* No time is given away that is the owner's: neither to a visitor of an open page
\* nor to the connector, which find it in different frames (service.py:1712,
\* mcp/api.py:949).
TimeGivenIsFree == FreeTime /\ (Open => FreeSlots)

=============================================================================
