------------------------------ MODULE Booking -------------------------------
(***************************************************************************)
(* service.py, book_slot: a visitor of a public booking page asks for a    *)
(* slot; the owner's calendars are checked in the cache, an event is put   *)
(* on the wire and read back, and only then is the booking recorded.       *)
(*                                                                         *)
(* The service lock is held from the check to the record, so one booking   *)
(* is under way at a time; other CalDAV clients do not take that lock.     *)
(* Slots stand for the times events occupy.  A time no slot overlaps is an *)
(* event that blocks nothing (all day, free, cancelled).                   *)
(***************************************************************************)
EXTENDS Integers

CONSTANTS
    Link,        \* the booking links
    Calendar,
    Client,      \* the client_ids of visitors, each naming the UID of its event
    Own,         \* the UIDs of the owner's other events
    Slot,
    Overlap,     \* the pairs of slots that exclude one another
    Asks,        \* what visitors may ask for: <<link, client, slot>>
    Absent,
    MaxForeign,  \* bound: the changes of other clients
    MaxEdits,    \* bound: the changes of links
    MaxFaults    \* bound: the requests without an answer, and the crashes

Event == Client \cup Own
Entry == [link : Link, client : Client, cal : Calendar, at : Slot]
Events == [Calendar -> [Event -> Slot \cup {Absent}]]

ASSUME OverlapAssumption ==
    Overlap \subseteq Slot \X Slot /\ \A p \in Overlap : <<p[2], p[1]>> \in Overlap
ASSUME AsksAssumption == Asks \subseteq Link \X Client \X Slot
ASSUME AbsentAssumption == Absent \notin Slot \cup Calendar \cup Entry

VARIABLES
    wire,       \* wire[c][e]: when event e of calendar c is, or Absent
    cache,      \* what the last sync of it said
    target,     \* target[l]: the calendar of link l, Absent when it is disabled
    ledger,     \* the recorded bookings
    pc,         \* the next request of the booking under way
    op,         \* the booking under way
    held,       \* history: the bookings confirmed whose event nobody has changed
    disturbed,  \* history: clients an earlier attempt broke off for, or whose
                \* event was changed before its booking was recorded
    foreign, edits, faults

vars == <<wire, cache, target, ledger, pc, op, held, disturbed, foreign, edits, faults>>

TypeOK ==
    /\ wire \in Events
    /\ cache \in Events
    /\ target \in [Link -> Calendar \cup {Absent}]
    /\ ledger \in SUBSET Entry
    /\ pc \in {"idle", "put", "reread", "refresh", "record"}
    /\ op \in Entry \cup {Absent}
    /\ pc = "idle" <=> op = Absent
    /\ held \in SUBSET ledger
    /\ disturbed \in SUBSET Client

Init ==
    /\ wire = [c \in Calendar |-> [e \in Event |-> Absent]]
    /\ cache = wire
    /\ target \in [Link -> Calendar]
    /\ ledger = {}
    /\ pc = "idle"
    /\ op = Absent
    /\ held = {}
    /\ disturbed = {}
    /\ foreign = 0
    /\ edits = 0
    /\ faults = 0

-----------------------------------------------------------------------------
(* What book_slot asks of the cache and of the ledger.                      *)

\* Mutant: only the link's own calendar is consulted.
BlockedInTarget(l, t) == \E e \in Event : <<cache[target[l]][e], t>> \in Overlap

\* The busy intervals of all event calendars.
Blocked(l, t) == \E c \in Calendar, e \in Event : <<cache[c][e], t>> \in Overlap

\* The bookings a client_id has made, through whichever link: if there is one
\* the request is answered from it, or refused.
Prior(l, u) == {b \in ledger : b.client = u}

-----------------------------------------------------------------------------
(* One booking.                                                             *)

Bystanders == UNCHANGED <<target, foreign, edits>>

Ask(l, u, t) ==
    /\ pc = "idle"
    /\ <<l, u, t>> \in Asks
    /\ target[l] # Absent
    /\ Prior(l, u) = {}

Request(l, u, t) ==
    /\ Ask(l, u, t)
    /\ cache[target[l]][u] = Absent
    /\ ~Blocked(l, t)
    /\ op' = [link |-> l, client |-> u, cal |-> target[l], at |-> t]
    /\ pc' = "put"
    /\ UNCHANGED <<wire, cache, ledger, held, disturbed, faults>>
    /\ Bystanders

\* Mutant: a client_id is looked up in the ledger and nowhere else.
RecoverNever(l, u, t) == Ask(l, u, t) /\ FALSE /\ UNCHANGED vars

\* The event is there although no booking is recorded: an earlier request got
\* that far.  The record is made up for if this one names the same time.
Recover(l, u, t) ==
    LET b == [link |-> l, client |-> u, cal |-> target[l], at |-> t] IN
    /\ Ask(l, u, t)
    /\ cache[target[l]][u] = t
    /\ ledger' = ledger \cup {b}
    /\ held' = held \cup {b}
    /\ UNCHANGED <<wire, cache, pc, op, disturbed, faults>>
    /\ Bystanders

PutLands == wire' = [wire EXCEPT ![op.cal][op.client] = op.at]

\* If-None-Match: *, at a file name the client_id determines.
Put ==
    /\ pc = "put"
    /\ IF wire[op.cal][op.client] = Absent
       THEN PutLands /\ pc' = "refresh"
       ELSE UNCHANGED wire /\ pc' = "reread"
    /\ UNCHANGED <<cache, ledger, op, held, disturbed, faults>>
    /\ Bystanders

\* A request of the booking is refused, or finds nothing, and it ends there.
Raise ==
    /\ pc' = "idle"
    /\ op' = Absent
    /\ UNCHANGED <<cache, ledger, held>>
    /\ Bystanders

\* An occupant with the event's UID is the create having succeeded before.
Reread ==
    /\ pc = "reread"
    /\ IF wire[op.cal][op.client] # Absent
       THEN /\ pc' = "refresh"
            /\ UNCHANGED <<cache, ledger, op, held>>
            /\ Bystanders
       ELSE Raise
    /\ UNCHANGED <<wire, disturbed, faults>>

\* Mutant: the event is taken to be there because it was put.
RefreshUnread ==
    /\ pc = "refresh"
    /\ cache' = [cache EXCEPT ![op.cal][op.client] = op.at]
    /\ pc' = "record"
    /\ UNCHANGED <<wire, ledger, op, held, disturbed, faults>>
    /\ Bystanders

Refresh ==
    /\ pc = "refresh"
    /\ IF wire[op.cal][op.client] # Absent
       THEN /\ cache' = [cache EXCEPT ![op.cal][op.client] = wire[op.cal][op.client]]
            /\ pc' = "record"
            /\ UNCHANGED <<ledger, op, held>>
            /\ Bystanders
       ELSE Raise
    /\ UNCHANGED <<wire, disturbed, faults>>

Record ==
    /\ pc = "record"
    /\ ledger' = ledger \cup {op}
    /\ held' = held \cup {op}
    /\ pc' = "idle"
    /\ op' = Absent
    /\ UNCHANGED <<wire, cache, disturbed, faults>>
    /\ Bystanders

-----------------------------------------------------------------------------
(* What can come between.                                                   *)

\* A request without an answer, or a crash: the booking ends where it is.
BreakOff ==
    /\ pc # "idle"
    /\ faults < MaxFaults
    /\ faults' = faults + 1
    /\ disturbed' = disturbed \cup {op.client}
    /\ \/ UNCHANGED wire
       \/ pc = "put" /\ wire[op.cal][op.client] = Absent /\ PutLands
    /\ Raise

\* Another client puts or changes an event of the owner, or changes, deletes
\* or copies one of a booking.
Foreign(c, e, s) ==
    /\ foreign < MaxForeign
    /\ wire[c][e] # s
    /\ e \in Client => \E d \in Calendar : wire[d][e] # Absent
    /\ wire' = [wire EXCEPT ![c][e] = s]
    /\ held' = {b \in held : <<b.cal, b.client>> # <<c, e>>}
    \* A deletion before the event is read back does not count: it is noticed.
    /\ disturbed' = IF pc # "idle" /\ e = op.client /\ (s # Absent \/ pc = "record")
                    THEN disturbed \cup {e} ELSE disturbed
    /\ foreign' = foreign + 1
    /\ UNCHANGED <<cache, target, ledger, pc, op, edits, faults>>

\* A sync pass catches up with an event.
Sync(c, e) ==
    /\ pc = "idle"
    /\ cache[c][e] # wire[c][e]
    /\ cache' = [cache EXCEPT ![c][e] = wire[c][e]]
    /\ UNCHANGED <<wire, target, ledger, pc, op, held, disturbed, foreign, edits, faults>>

\* The owner points a link at another calendar, or disables it.
EditLink(l, c) ==
    /\ pc = "idle"
    /\ edits < MaxEdits
    /\ target[l] # c
    /\ target' = [target EXCEPT ![l] = c]
    /\ edits' = edits + 1
    /\ UNCHANGED <<wire, cache, ledger, pc, op, held, disturbed, foreign, faults>>

Step == Put \/ Reread \/ Refresh \/ Record

BookSlot(l, u, t) == Request(l, u, t) \/ Recover(l, u, t)

Next ==
    \/ \E l \in Link, u \in Client, t \in Slot : BookSlot(l, u, t)
    \/ Step
    \/ BreakOff
    \/ \E c \in Calendar, e \in Event, s \in Slot \cup {Absent} : Foreign(c, e, s)
    \/ \E c \in Calendar, e \in Event : Sync(c, e)
    \/ \E l \in Link, c \in Calendar \cup {Absent} : EditLink(l, c)

Spec == Init /\ [][Next]_vars

FairSpec ==
    /\ Spec
    /\ WF_vars(Step)
    /\ \A c \in Calendar, e \in Event : WF_vars(Sync(c, e))
    /\ \A l \in Link, u \in Client, t \in Slot : SF_vars(BookSlot(l, u, t))

-----------------------------------------------------------------------------
(* Properties.                                                              *)

Overlapping(a, b) == a.client # b.client /\ <<a.at, b.at>> \in Overlap

\* Two confirmed bookings overlap only if an earlier attempt at one of them
\* broke off, or another client had a hand in it before it was recorded: the
\* check against the cache under the lock suffices otherwise, through whichever
\* links and into whichever calendars (service.py, book_slot and _link_busy).
OnlyBrokenOffOverlap ==
    \A a, b \in held : Overlapping(a, b) => {a.client, b.client} \cap disturbed # {}

\* With the same exception, a confirmed booking has its event on the calendar,
\* at the time that was confirmed (service.py, book_slot: the event is written
\* and read back before the booking is recorded).
BookingIsOnTheCalendar ==
    \A b \in held : b.client \notin disturbed => wire[b.cal][b.client] = b.at

\* A client_id has one booking, however often and through whichever links it
\* is presented (service.py, book_slot: "a replay").
OneBookingEach == \A a, b \in ledger : a.client = b.client => a = b

\* Why the first three hold: a client undisturbed and without a booking has
\* left no trace, bar the event of the booking under way; the event of a held
\* booking is where it was confirmed, in the cache too; and the booking under
\* way overlaps none of them.
Traceless(u, c) == wire[c][u] = Absent /\ cache[c][u] = Absent

NoTrace ==
    \A u \in Client \ disturbed : (\A b \in ledger : b.client # u) =>
        \A c \in Calendar :
            (op = Absent \/ <<op.client, op.cal>> # <<u, c>>) => Traceless(u, c)

HeldIsCached ==
    \A b \in held : b.client \notin disturbed =>
        wire[b.cal][b.client] = b.at /\ cache[b.cal][b.client] = b.at

UnderWay ==
    op # Absent =>
        /\ \A b \in ledger : b.client # op.client
        /\ \A b \in held : <<b.at, op.at>> \in Overlap => b.client \in disturbed
        /\ op.client \notin disturbed =>
            /\ pc = "put" => Traceless(op.client, op.cal)
            /\ pc # "reread"
            /\ pc = "refresh" => /\ wire[op.cal][op.client] \in {Absent, op.at}
                                /\ cache[op.cal][op.client] = Absent
            /\ pc = "record" => /\ wire[op.cal][op.client] = op.at
                               /\ cache[op.cal][op.client] = op.at

\* The inductive invariant of BookingProofs.
IInv ==
    /\ TypeOK
    /\ OneBookingEach
    /\ OnlyBrokenOffOverlap
    /\ NoTrace
    /\ HeldIsCached
    /\ UnderWay

\* A visitor whose request broke off after the event was written, and who asks
\* again, gets the booking (service.py, _recover_orphaned_booking): the event
\* on the calendar is not the reason it is refused.
OrphanRecovered ==
    [](foreign = 0 /\ edits = 0) =>
        \A u \in Client :
            (\E l \in Link : target[l] # Absent /\ wire[target[l]][u] # Absent)
                ~> \E b \in ledger : b.client = u

=============================================================================
