------------------------------- MODULE Slots -------------------------------
(***************************************************************************)
(* The times a booking page offers (scheduling.py; service.py,              *)
(* public_link_info and book_slot) and the free time the connector reports  *)
(* (mcp/api.py, find_free_time), both computed from the events of the cache. *)
(*                                                                         *)
(* Instants are integers.  A zone changes its clock once; a wall-clock time  *)
(* is day * DayLength + time of day, so days start at multiples of          *)
(* DayLength.  A wall-clock time the clock skips names the instant the       *)
(* former offset gives, one it shows twice names the first.  Merging busy    *)
(* intervals and searching them by bisection is set union and overlap here.  *)
(***************************************************************************)
EXTENDS Integers

CONSTANTS
    DayLength,
    Week,            \* days until the availability repeats, 7 in the code
    Horizon,         \* horizon_days
    Links,           \* booking links: [zone, hours, length, buffer, notice]
    HomeZones,       \* what home_timezone can name
    Times,           \* the present
    Calendars,       \* the events of the calendars
    Hours,           \* the working hours find_free_time is asked for: <<from, to>>
    Ranges           \* and the range, in days: <<first, last>>

ASSUME SlotsAssumption ==
    /\ DayLength \in Nat \ {0} /\ Week \in Nat \ {0} /\ Horizon \in Nat
    /\ Times \subseteq Int /\ Ranges \subseteq Int \X Int
    /\ \A hours \in Hours : hours \in Int \X Int /\ 0 <= hours[1] /\ hours[2] <= DayLength

-----------------------------------------------------------------------------
(* Clocks.                                                                   *)

Wall(z, u) == u + (IF u < z.change THEN z.before ELSE z.after)

DateOf(z, u) == Wall(z, u) \div DayLength

\* datetime.combine: of a time shown twice the first, of one skipped the former offset.
Instant(z, w) ==
    IF w - z.before < z.change \/ w - z.after < z.change THEN w - z.before ELSE w - z.after

Shown(z, w) == Wall(z, Instant(z, w)) = w

Offsets(z) == {z.before, z.after}

\* How far a clock jumps.
Gap(z) == IF z.before < z.after THEN z.after - z.before ELSE z.before - z.after

\* A clock that goes back stays on its date, and none jumps further than half a day.
Zone(z) ==
    /\ z.before \in Int /\ z.after \in Int /\ z.change \in Int
    /\ DateOf(z, z.change - 1) <= DateOf(z, z.change)
    /\ 2 * Gap(z) <= DayLength

ASSUME ZonesAssumption ==
    /\ \A home \in HomeZones : Zone(home)
    /\ \A link \in Links : Zone(link.zone)

\* Mutant: a window that ends at a skipped time ends later than the owner said.
WindowEndAsCombined(z, w) == Instant(z, w)

\* _window_end_utc: a window whose end is skipped ends when the clock jumps.
WindowEnd(z, w) == IF Shown(z, w) THEN Instant(z, w) ELSE z.change

\* advance: days of a DURATION are added to the wall clock, hours to the instant.
Advance(z, u, days, hours) ==
    (IF days = 0 THEN u ELSE Instant(z, Wall(z, u) + days * DayLength)) + hours

-----------------------------------------------------------------------------
(* Events, as the cache has them.                                           *)
(*                                                                         *)
(* times are where the occurrences start, one unless the event repeats: wall *)
(* clock of the home zone if it is floating, instants if not.  Each has an   *)
(* end, or a DURATION of days and hours.  kind is "opaque", "allDay" or      *)
(* "free" (TRANSPARENT or cancelled); broken, a rule that cannot be expanded. *)
(* A day that is given neither an end nor a DURATION lasts one day.          *)

LengthOf(e) == e.days * DayLength + e.hours

StartOf(home, e, t) == IF e.floating THEN Instant(home, t) ELSE t

Timetable(e) ==
    /\ e.times \subseteq Int /\ \E t \in e.times : \A s \in e.times : t <= s
    /\ {e.floating, e.hasEnd, e.broken} \subseteq BOOLEAN
    /\ e.days \in Nat /\ e.hours \in Nat
    /\ e.kind = "allDay" => e.days > 0

ASSUME CalendarsAssumption == \A events \in Calendars : \A e \in events : Timetable(e)

EndOf(z, home, e, t) ==
    IF ~e.hasEnd THEN Advance(z, StartOf(home, e, t), e.days, e.hours)
    ELSE StartOf(home, e, t + LengthOf(e))

Takes(z, home, e, t) == [from |-> StartOf(home, e, t), to |-> EndOf(z, home, e, t)]

Earliest(e) == CHOOSE t \in e.times : \A s \in e.times : t <= s
Repeats(e) == e.broken \/ e.times # {Earliest(e)}

\* get_events_in_range: times are compared as they are written, with the range in
\* wall-clock time; an event that repeats, or has a DURATION, by its start alone.
InRange(e, from, to) ==
    /\ Earliest(e) <= to
    /\ Repeats(e) \/ ~e.hasEnd \/ Earliest(e) + LengthOf(e) >= from

\* expand_occurrences.
Occurrences(e, from, to) ==
    {t \in e.times : Repeats(e) => t <= to /\ t + LengthOf(e) >= from}

\* events_in_range for a booking page, and busy_intervals: what cannot be expanded
\* takes the whole range.
BusyIntervals(z, home, events, from, to) ==
    LET candidates == {e \in events : e.kind = "opaque" /\ InRange(e, from, to)}
        taken == UNION {IF e.broken THEN {[from |-> Instant(home, from), to |-> Instant(home, to)]}
                        ELSE {Takes(z, home, e, t) : t \in Occurrences(e, from, to)} :
                            e \in candidates}
    IN  {i \in taken : i.from < i.to}

\* Mutant: the range is not widened.
LinkBusyAsAsked(link, home, events, from, to) == BusyIntervals(link.zone, home, events, from, to)

\* _link_busy: the range is widened by a day on both sides.
LinkBusy(link, home, events, from, to) ==
    BusyIntervals(link.zone, home, events, from - DayLength, to + DayLength)

-----------------------------------------------------------------------------
(* The slots of a link.                                                      *)

\* parse_availability: the windows of a day do not overlap.
ValidHours(windows) ==
    /\ windows \subseteq Int \X Int
    /\ \A w \in windows : 0 <= w[1] /\ w[1] < w[2] /\ w[2] < DayLength
    /\ \A v, w \in windows : v # w => v[2] <= w[1] \/ w[2] <= v[1]

ASSUME LinksAssumption ==
    \A link \in Links :
        /\ link.length \in Nat \ {0} /\ link.buffer \in Nat /\ link.notice \in Nat
        /\ \A d \in 0..(Week - 1) : ValidHours(link.hours[d])

\* The day by which _link_busy widens its range makes up for what the clocks of the
\* link and of the owner's home, or UTC, are apart, and for the buffer (240 minutes
\* at most, app.py) and a jump of the link's clock.
ASSUME NearAssumption ==
    \A link \in Links, home \in HomeZones :
        \A p \in Offsets(link.zone), q \in Offsets(home) \cup {0} :
            /\ q - p + link.buffer <= DayLength
            /\ p - q + Gap(link.zone) + link.buffer <= DayLength

\* The buffer is kept free on both sides of what is busy.
Pad(i, buffer) == [from |-> i.from - buffer, to |-> i.to + buffer]

\* _overlaps_any.
OverlapsAny(slot, buffer, busy) ==
    \E i \in busy : LET p == Pad(i, buffer) IN p.from < slot.to /\ slot.from < p.to

\* A window of a day, cut into slots from its start on.
SlotsIn(link, day, w) ==
    LET from == Instant(link.zone, day * DayLength + w[1])
        to == WindowEnd(link.zone, day * DayLength + w[2])
    IN  {[from |-> from + k * link.length, to |-> from + (k + 1) * link.length] :
            k \in {j \in 0..DayLength : from + (j + 1) * link.length <= to}}

\* generate_slots on the days asked for.
GenerateSlots(link, busy, now, asked) ==
    LET opens == now + link.notice
        today == DateOf(link.zone, now)
        days == {d \in asked : DateOf(link.zone, opens) <= d /\ today <= d /\ d <= today + Horizon}
        cut == UNION {UNION {SlotsIn(link, d, w) : w \in link.hours[d % Week]} : d \in days}
    IN  {s \in cut : opens <= s.from /\ ~OverlapsAny(s, link.buffer, busy)}

\* public_link_info: the page, from now to the end of the horizon.
PublicLinkInfo(link, home, events, now) ==
    LET today == DateOf(link.zone, now)
        end == (today + Horizon + 1) * DayLength
    IN  GenerateSlots(link, LinkBusy(link, home, events, Wall(link.zone, now), end), now,
                      today..(today + Horizon))

\* book_slot: the slots of the day the visitor's time is on.
SlotsToBook(link, home, events, now, day) ==
    GenerateSlots(link, LinkBusy(link, home, events, day * DayLength, (day + 1) * DayLength),
                  now, {day})

-----------------------------------------------------------------------------
(* find_free_time: the gaps in the working hours, in the owner's wall clock.  *)

\* list_events: the range is compared as it is; a rule that cannot be expanded
\* shows its first occurrence.
Listed(events, from, to) ==
    UNION {{<<e, t>> : t \in IF e.broken THEN {Earliest(e)} ELSE Occurrences(e, from, to)} :
        e \in {f \in events : InRange(f, from, to)}}

\* What an event takes of the owner's day: hours are added to the instant, days to
\* the wall clock; one that ends where it starts is taken to last a while.
TakesOfDay(home, e, t) ==
    LET from == Wall(home, StartOf(home, e, t))
        to == IF e.hasEnd THEN Wall(home, StartOf(home, e, t + LengthOf(e)))
              ELSE Wall(home, StartOf(home, e, t) + e.hours) + e.days * DayLength
    IN  [from |-> from, to |-> IF to > from THEN to ELSE from + 1]

Later(a, b) == IF a < b THEN b ELSE a
Sooner(a, b) == IF a < b THEN a ELSE b

FindFreeTime(home, events, range, hours, span) ==
    LET from == range[1] * DayLength
        to == range[2] * DayLength
        busy == {TakesOfDay(home, p[1], p[2]) : p \in {q \in Listed(events, from, to) : q[1].kind # "free"}}
        gaps(d) ==
            LET open == Later(d * DayLength + hours[1], from)
                close == Sooner(d * DayLength + hours[2], to)
            IN  {g \in [from : {open} \cup {i.to : i \in busy}, to : {close} \cup {i.from : i \in busy}] :
                    /\ open <= g.from /\ g.from + span <= g.to /\ g.to <= close
                    /\ \A i \in busy : i.to <= g.from \/ g.to <= i.from}
    IN  UNION {gaps(d) : d \in range[1]..(range[2] - 1)}

-----------------------------------------------------------------------------
(* What the two surfaces promise, for every link, home zone, present and       *)
(* calendar that are given.                                                   *)

Broken(events) == \E e \in events : e.broken /\ e.kind = "opaque"

\* A slot a page offers can be booked for as long as its notice allows, though the
\* page and the booking look at different stretches of the calendar, and the booking
\* at the hours of the slot's own date alone; and what can be booked is on the page,
\* unless a rule that cannot be expanded keeps the page empty
\* (service.py, public_link_info and book_slot; scheduling.py, _window_end_utc).
OffersBookable ==
    \A link \in Links, home \in HomeZones, now \in Times, events \in Calendars :
        LET page == PublicLinkInfo(link, home, events, now)
            today == DateOf(link.zone, now)
        IN  /\ \A s \in page, later \in {t \in Times : t >= now} :
                s.from >= later + link.notice =>
                    s \in SlotsToBook(link, home, events, later, DateOf(link.zone, s.from))
            /\ Broken(events) \/
               \A d \in today..(today + Horizon) :
                \A s \in SlotsToBook(link, home, events, now, d) :
                    DateOf(link.zone, s.from) = d => s \in page

\* A slot on a page lies in the owner's hours at every moment of it, and neither it
\* nor the buffer around it meets an event that takes the owner's time, wherever
\* the event is written and however far its zone is from the link's (scheduling.py;
\* store.py, get_events_in_range).  Hours that begin at a time shown twice begin the
\* first time: as the clock goes back, slots are offered at a time before the hours.
ShownTwice(z, w) == w - z.before < z.change /\ w - z.after >= z.change

InHours(link, s) == \A u \in s.from..(s.to - 1) :
    LET d == DateOf(link.zone, u)
        clock == Wall(link.zone, u) - d * DayLength
        begun(w) == \/ w[1] <= clock
                    \/ u >= link.zone.change /\ ShownTwice(link.zone, d * DayLength + w[1])
    IN  \E w \in link.hours[d % Week] : begun(w) /\ clock < w[2]

Meets(i, from, to) == i.from < i.to /\ i.from < to /\ from < i.to

FreeSlots ==
    \A link \in Links, home \in HomeZones, now \in Times, events \in Calendars :
        \A s \in PublicLinkInfo(link, home, events, now) :
            /\ InHours(link, s)
            /\ \A e \in {f \in events : f.kind = "opaque" /\ ~f.broken} : \A t \in e.times :
                ~Meets(Takes(link.zone, home, e, t), s.from - link.buffer, s.to + link.buffer)

\* The gaps the connector reports are free of everything that takes the owner's
\* time, and every stretch of the working hours that is long enough is in one of
\* them.  Not so for an event written in UTC whose UTC time is outside the range,
\* for one that cannot be expanded, for a DURATION across a change of the clock,
\* and where the clock changes (mcp/api.py, find_free_time).
Overlooked(e, t, range) ==
    LET from == range[1] * DayLength
        to == range[2] * DayLength
    IN  ~e.floating /\ ~(InRange(e, from, to) /\ t \in Occurrences(e, from, to))

\* What an event takes, in wall-clock time; one without a length lasts a while.
TakesAWhile(home, e, t) ==
    LET i == Takes(home, home, e, t)
    IN  [from |-> Wall(home, i.from), to |-> Later(Wall(home, i.to), Wall(home, i.from) + 1)]

Steady(z, range) ==
    \/ z.change < Instant(z, (range[1] - 1) * DayLength)
    \/ z.change > Instant(z, (range[2] + 1) * DayLength)

\* A DURATION that begins before the clock changes, or at a time it skips, and ends
\* after: what is added to the wall clock and what to the instant is not the same.
Straddles(home, e, t) ==
    /\ ~e.hasEnd /\ home.change <= EndOf(home, home, e, t)
    /\ StartOf(home, e, t) < home.change \/ (e.floating /\ ~Shown(home, t))

Computable(home, events) ==
    \A e \in events : e.kind # "free" => ~e.broken /\ \A t \in e.times : ~Straddles(home, e, t)

FreeTime ==
    \A home \in HomeZones, events \in Calendars, range \in Ranges, hours \in Hours :
        \A span \in {link.length : link \in Links} :
            LET busy == {TakesAWhile(home, p[1], p[2]) :
                    p \in {q \in UNION {{<<e, t>> : t \in e.times} : e \in events} :
                        q[1].kind # "free" /\ ~Overlooked(q[1], q[2], range)}}
                gaps == FindFreeTime(home, events, range, hours, span)
            IN  Steady(home, range) /\ Computable(home, events) =>
                /\ \A g \in gaps, i \in busy : ~Meets(i, g.from, g.to)
                /\ \A d \in range[1]..(range[2] - 1) : \A from \in hours[1]..(hours[2] - span) :
                    LET a == d * DayLength + from
                    IN  (\A i \in busy : ~Meets(i, a, a + span)) =>
                            \E g \in gaps : g.from <= a /\ a + span <= g.to

=============================================================================
