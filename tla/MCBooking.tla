------------------------------ MODULE MCBooking -----------------------------
(* Two visitors want times that overlap; one of them asks through two links.  *)
EXTENDS BookingPages, TLC

CONSTANTS l1, l2, u1, u2, s1, s2

MCOverlap == {<<s1, s1>>, <<s1, s2>>, <<s2, s1>>, <<s2, s2>>}
MCAsks == {<<l1, u1, s1>>, <<l2, u1, s1>>, <<l1, u2, s2>>}

Clock(before, after, change) == [before |-> before, after |-> after, change |-> change]

\* The clock jumps over the last hours of a day, goes on in the morning or back.
MCZones == {Clock(-3, -1, 17), Clock(0, 2, 18), Clock(2, 0, 18)}
MCHomeZones == {Clock(4, 4, 99), Clock(-3, -1, 17), Clock(2, 0, 18)}

\* A link without a buffer needs no notice.
MCLinks == {link \in [zone : MCZones, hours : {(0 :> {<<1, 2>>, <<3, 6>>}) @@ (1 :> {<<0, 3>>, <<3, 7>>})},
            length : {1, 2}, buffer : {0, 1}, notice : {0, 3}] : link.buffer = 0 <=> link.notice = 0}

Timed == [floating : BOOLEAN, times : {{t} : t \in 6..24}, hasEnd : BOOLEAN, days : {0, 1},
          hours : {0, 2}, kind : {"opaque"}, broken : {FALSE}]
Repeating == [floating : BOOLEAN, times : {{t, t - 10} : t \in 16..27}, hasEnd : BOOLEAN, days : {0},
              hours : {2}, kind : {"opaque"}, broken : BOOLEAN]
Other == [floating : {TRUE}, times : {{8}, {16}}, hasEnd : BOOLEAN, days : {1},
          hours : {0}, kind : {"allDay", "free"}, broken : {FALSE}]
MCPair == [floating : {TRUE}, times : {{9}, {12}}, hasEnd : {TRUE}, days : {0}, hours : {1, 2},
           kind : {"opaque", "free"}, broken : {FALSE}]
MCCalendars == {{}} \cup {{e, f} : e, f \in MCPair} \cup {{e} : e \in Timed \cup Repeating \cup Other}
MCHours == {<<0, 5>>, <<2, 7>>}
MCRanges == {<<1, 2>>, <<1, 3>>}
=============================================================================
