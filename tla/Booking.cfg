SPECIFICATION FairSpec
CONSTANTS
    l1 = l1
    l2 = l2
    u1 = u1
    u2 = u2
    s1 = s1
    s2 = s2
    Link = {l1, l2}
    Calendar = {c1, c2}
    Client = {u1, u2}
    Own = {v1}
    Slot = {s1, s2}
    Overlap <- MCOverlap
    Asks <- MCAsks
    Absent = Absent
    DayLength = 8
    Week = 2
    Horizon = 2
    Links <- MCLinks
    HomeZones <- MCHomeZones
    Times = {5, 13, 16, 19}
    Calendars <- MCCalendars
    Hours <- MCHours
    Ranges <- MCRanges
    MaxForeign = 2
    MaxEdits = 1
    MaxFaults = 1
INVARIANTS OnlyBrokenOffOverlap BookingIsOnTheCalendar OfferedIsBookable TimeGivenIsFree
PROPERTY OrphanRecovered
CHECK_DEADLOCK FALSE
