--------------------------- MODULE BookingProofs ----------------------------
(***************************************************************************)
(* Proofs about Booking, for any links, calendars, visitors and slots, and *)
(* any number of changes, edits and faults: one lemma per action shows     *)
(* that it preserves IInv, and the theorems follow.  Then proofs about the *)
(* pages and the free time of Slots, for any links, zones and calendars.   *)
(***************************************************************************)
EXTENDS BookingPages, WellFoundedInduction, TLAPS

LEMMA InitInv == Init => IInv
BY AbsentAssumption
   DEF Init, IInv, TypeOK, Events, Event, Entry, OneBookingEach,
       OnlyBrokenOffOverlap, NoTrace, Traceless, HeldIsCached, UnderWay

\* What is typed of the booking under way and of the recorded ones.
LEMMA EntryType ==
    ASSUME TypeOK
    PROVE  /\ op # Absent => op \in Entry
           /\ \A b \in ledger : b \in Entry
           /\ held \subseteq ledger
BY DEF TypeOK

LEMMA RequestInv ==
    ASSUME IInv, NEW l \in Link, NEW u \in Client, NEW t \in Slot, Request(l, u, t)
    PROVE  IInv'
<1> DEFINE b0 == [link |-> l, client |-> u, cal |-> target[l], at |-> t]
<1>1. /\ target[l] \in Calendar
      /\ op = Absent
      /\ \A b \in ledger : b.client # u
  BY DEF IInv, TypeOK, Request, Ask, Prior
<1>2. b0 \in Entry /\ b0 # Absent
  BY <1>1, AbsentAssumption DEF Entry
<1>3. op' = b0 /\ pc' = "put"
  BY DEF Request
<1>4. b0.client = u /\ b0.cal = target[l] /\ b0.at = t
  OBVIOUS
<1> HIDE DEF b0
<1>5. UNCHANGED <<wire, cache, target, ledger, held, disturbed>>
  BY DEF Request, Bystanders
<1>6. TypeOK'
  BY <1>2, <1>3, <1>5 DEF IInv, TypeOK
<1>7. OneBookingEach' /\ OnlyBrokenOffOverlap' /\ HeldIsCached'
  BY <1>5 DEF IInv, OneBookingEach, OnlyBrokenOffOverlap, Overlapping, HeldIsCached
<1>8. NoTrace'
  BY <1>1, <1>5 DEF IInv, NoTrace, Traceless
<1>9. UnderWay'
  <2>1. \A b \in held : <<b.at, t>> \in Overlap => b.client \in disturbed
    <3> SUFFICES ASSUME NEW b \in held, <<b.at, t>> \in Overlap, b.client \notin disturbed
                 PROVE  FALSE
      OBVIOUS
    <3>1. b \in Entry
      BY EntryType DEF IInv
    <3>2. cache[b.cal][b.client] = b.at
      BY DEF IInv, HeldIsCached
    <3> QED
      BY <3>1, <3>2 DEF Request, Blocked, Entry, Event
  <2>2. u \notin disturbed => Traceless(u, target[l])
    BY <1>1 DEF IInv, NoTrace
  <2> QED
    BY <1>1, <1>3, <1>4, <1>5, <2>1, <2>2 DEF UnderWay, Traceless
<1> QED
  BY <1>6, <1>7, <1>8, <1>9 DEF IInv

\* Only a disturbed client has an event and no booking.
LEMMA RecoverInv ==
    ASSUME IInv, NEW l \in Link, NEW u \in Client, NEW t \in Slot, Recover(l, u, t)
    PROVE  IInv'
<1> DEFINE b0 == [link |-> l, client |-> u, cal |-> target[l], at |-> t]
<1>1. /\ target[l] \in Calendar
      /\ op = Absent
      /\ \A b \in ledger : b.client # u
      /\ cache[target[l]][u] = t
  BY DEF IInv, TypeOK, Recover, Ask, Prior
<1>2. b0 \in Entry
  BY <1>1 DEF Entry
<1>3. ledger' = ledger \cup {b0} /\ held' = held \cup {b0}
  BY DEF Recover
<1>4. b0.client = u
  OBVIOUS
<1> HIDE DEF b0
<1>5. UNCHANGED <<wire, cache, target, pc, op, disturbed>>
  BY DEF Recover, Bystanders
<1>6. u \in disturbed
  BY <1>1, AbsentAssumption DEF IInv, NoTrace, Traceless
<1>7. TypeOK'
  BY <1>2, <1>3, <1>5 DEF IInv, TypeOK
<1>8. OneBookingEach'
  BY <1>1, <1>3, <1>4 DEF IInv, OneBookingEach
<1>9. OnlyBrokenOffOverlap'
  BY <1>3, <1>4, <1>5, <1>6 DEF IInv, OnlyBrokenOffOverlap, Overlapping
<1>10. NoTrace' /\ HeldIsCached' /\ UnderWay'
  BY <1>1, <1>3, <1>4, <1>5, <1>6 DEF IInv, NoTrace, Traceless, HeldIsCached, UnderWay
<1> QED
  BY <1>7, <1>8, <1>9, <1>10 DEF IInv


-----------------------------------------------------------------------------

\* A booking that ends before it is recorded leaves no trace, or a disturbed
\* client.
LEMMA RaiseInv ==
    ASSUME IInv, op # Absent, Raise,
           wire' \in Events,
           \A c \in Calendar, e \in Event :
              <<e, c>> # <<op.client, op.cal>> => wire'[c][e] = wire[c][e],
           disturbed' = disturbed \/ disturbed' = disturbed \cup {op.client},
           op.client \in disturbed' \/ (wire' = wire /\ Traceless(op.client, op.cal))
    PROVE  IInv'
<1>1. /\ pc' = "idle" /\ op' = Absent
      /\ UNCHANGED <<cache, ledger, held, target>>
  BY DEF Raise, Bystanders
<1>2. op \in Entry /\ disturbed \subseteq disturbed' /\ disturbed' \subseteq Client
  BY EntryType DEF IInv, TypeOK, Entry
<1>3. \A b \in ledger : b.client # op.client
  BY DEF IInv, UnderWay
<1>4. TypeOK'
  BY <1>1, <1>2 DEF IInv, TypeOK
<1>5. OneBookingEach' /\ OnlyBrokenOffOverlap' /\ UnderWay'
  BY <1>1, <1>2 DEF IInv, OneBookingEach, OnlyBrokenOffOverlap, Overlapping, UnderWay
<1>6. NoTrace'
  <2> SUFFICES ASSUME NEW u \in Client, u \notin disturbed',
                      \A b \in ledger : b.client # u, NEW c \in Calendar
               PROVE  wire'[c][u] = Absent /\ cache[c][u] = Absent
    BY <1>1 DEF NoTrace, Traceless
  <2>1. CASE <<u, c>> = <<op.client, op.cal>>
    BY <2>1 DEF Traceless
  <2>2. CASE <<u, c>> # <<op.client, op.cal>>
    BY <1>2, <2>2 DEF IInv, NoTrace, Traceless, Event
  <2> QED
    BY <2>1, <2>2
<1>7. HeldIsCached'
  <2> SUFFICES ASSUME NEW b \in held, b.client \notin disturbed'
               PROVE  wire'[b.cal][b.client] = b.at /\ cache[b.cal][b.client] = b.at
    BY <1>1 DEF HeldIsCached
  <2>1. b \in ledger /\ b \in Entry
    BY EntryType DEF IInv
  <2> QED
    BY <1>2, <1>3, <2>1 DEF IInv, HeldIsCached, Entry, Event
<1> QED
  BY <1>4, <1>5, <1>6, <1>7 DEF IInv

LEMMA PutInv ==
    ASSUME IInv, Put
    PROVE  IInv'
<1>1. /\ op # Absent /\ op \in Entry /\ pc = "put" /\ op' = op
      /\ UNCHANGED <<cache, ledger, held, target, disturbed>>
  BY EntryType DEF IInv, TypeOK, Put, Bystanders
<1>2. \A b \in ledger : b.client # op.client
  BY <1>1 DEF IInv, UnderWay
<1>3. CASE wire[op.cal][op.client] = Absent
  <2>1. wire' = [wire EXCEPT ![op.cal][op.client] = op.at] /\ pc' = "refresh"
    BY <1>3 DEF Put, PutLands
  <2>2. /\ wire' \in Events
        /\ wire'[op.cal][op.client] = op.at
        /\ \A c \in Calendar, e \in Event :
              <<e, c>> # <<op.client, op.cal>> => wire'[c][e] = wire[c][e]
    BY <1>1, <2>1 DEF IInv, TypeOK, Events, Entry, Event
  <2>3. TypeOK'
    BY <1>1, <2>1, <2>2 DEF IInv, TypeOK
  <2>4. OneBookingEach' /\ OnlyBrokenOffOverlap'
    BY <1>1 DEF IInv, OneBookingEach, OnlyBrokenOffOverlap, Overlapping
  <2>5. NoTrace'
    BY <1>1, <2>2 DEF IInv, NoTrace, Traceless, Event
  <2>6. HeldIsCached'
    <3> SUFFICES ASSUME NEW b \in held, b.client \notin disturbed
                 PROVE  wire'[b.cal][b.client] = b.at /\ cache[b.cal][b.client] = b.at
      BY <1>1 DEF HeldIsCached
    <3>1. b \in ledger /\ b \in Entry
      BY EntryType DEF IInv
    <3> QED
      BY <1>2, <2>2, <3>1 DEF IInv, HeldIsCached, Entry, Event
  <2>7. UnderWay'
    BY <1>1, <2>1, <2>2 DEF IInv, UnderWay, Traceless
  <2> QED
    BY <2>3, <2>4, <2>5, <2>6, <2>7 DEF IInv
<1>4. CASE wire[op.cal][op.client] # Absent
  <2>1. wire' = wire /\ pc' = "reread" /\ op.client \in disturbed
    BY <1>1, <1>4 DEF Put, IInv, UnderWay, Traceless
  <2> QED
    BY <1>1, <2>1 DEF IInv, TypeOK, OneBookingEach, OnlyBrokenOffOverlap, Overlapping,
                      NoTrace, Traceless, HeldIsCached, UnderWay
<1> QED
  BY <1>3, <1>4

LEMMA RereadInv ==
    ASSUME IInv, Reread
    PROVE  IInv'
<1>1. /\ op # Absent /\ op \in Entry /\ pc = "reread"
      /\ UNCHANGED <<wire, disturbed>>
      /\ op.client \in disturbed
  BY EntryType DEF IInv, TypeOK, Reread, UnderWay
<1>2. CASE wire[op.cal][op.client] # Absent
  <2>1. pc' = "refresh" /\ UNCHANGED <<cache, ledger, op, held, target>>
    BY <1>2 DEF Reread, Bystanders
  <2> QED
    BY <1>1, <2>1 DEF IInv, TypeOK, OneBookingEach, OnlyBrokenOffOverlap, Overlapping,
                      NoTrace, Traceless, HeldIsCached, UnderWay
<1>3. CASE wire[op.cal][op.client] = Absent
  BY <1>1, <1>3, RaiseInv DEF Reread, IInv, TypeOK
<1> QED
  BY <1>2, <1>3

LEMMA RefreshInv ==
    ASSUME IInv, Refresh
    PROVE  IInv'
<1>1. /\ op # Absent /\ op \in Entry /\ pc = "refresh"
      /\ UNCHANGED <<wire, disturbed>>
  BY EntryType DEF IInv, TypeOK, Refresh
<1>2. \A b \in ledger : b.client # op.client
  BY <1>1 DEF IInv, UnderWay
<1>3. CASE wire[op.cal][op.client] # Absent
  <2> DEFINE seen == wire[op.cal][op.client]
  <2>1. /\ cache' = [cache EXCEPT ![op.cal][op.client] = seen]
        /\ pc' = "record"
        /\ UNCHANGED <<ledger, op, held, target>>
    BY <1>3 DEF Refresh, Bystanders
  <2>2. seen \in Slot /\ (op.client \notin disturbed => seen = op.at)
    BY <1>1, <1>3 DEF IInv, TypeOK, Events, Entry, Event, UnderWay
  <2> HIDE DEF seen
  <2>3. /\ cache' \in Events
        /\ cache'[op.cal][op.client] = seen
        /\ \A c \in Calendar, e \in Event :
              <<e, c>> # <<op.client, op.cal>> => cache'[c][e] = cache[c][e]
    BY <1>1, <2>1, <2>2 DEF IInv, TypeOK, Events, Entry, Event
  <2>4. TypeOK'
    BY <1>1, <2>1, <2>3 DEF IInv, TypeOK
  <2>5. OneBookingEach' /\ OnlyBrokenOffOverlap'
    BY <1>1, <2>1 DEF IInv, OneBookingEach, OnlyBrokenOffOverlap, Overlapping
  <2>6. NoTrace'
    BY <1>1, <2>1, <2>3 DEF IInv, NoTrace, Traceless, Event
  <2>7. HeldIsCached'
    <3> SUFFICES ASSUME NEW b \in held, b.client \notin disturbed
                 PROVE  wire[b.cal][b.client] = b.at /\ cache'[b.cal][b.client] = b.at
      BY <1>1, <2>1 DEF HeldIsCached
    <3>1. b \in ledger /\ b \in Entry
      BY EntryType DEF IInv
    <3> QED
      BY <1>2, <2>3, <3>1 DEF IInv, HeldIsCached, Entry, Event
  <2>8. UnderWay'
    BY <1>1, <2>1, <2>2, <2>3 DEF IInv, UnderWay, seen
  <2> QED
    BY <2>4, <2>5, <2>6, <2>7, <2>8 DEF IInv
<1>4. CASE wire[op.cal][op.client] = Absent
  <2>1. op.client \in disturbed \/ Traceless(op.client, op.cal)
    BY <1>1, <1>4 DEF IInv, UnderWay, Traceless
  <2> QED
    BY <1>1, <1>4, <2>1, RaiseInv DEF Refresh, IInv, TypeOK
<1> QED
  BY <1>3, <1>4

LEMMA RecordInv ==
    ASSUME IInv, Record
    PROVE  IInv'
<1>1. /\ op # Absent /\ op \in Entry /\ pc = "record"
      /\ UNCHANGED <<wire, cache, target, disturbed>>
      /\ ledger' = ledger \cup {op} /\ held' = held \cup {op}
      /\ pc' = "idle" /\ op' = Absent
  BY EntryType DEF IInv, TypeOK, Record, Bystanders
<1>2. /\ \A b \in ledger : b.client # op.client
      /\ \A b \in held : <<b.at, op.at>> \in Overlap => b.client \in disturbed
      /\ op.client \notin disturbed =>
            wire[op.cal][op.client] = op.at /\ cache[op.cal][op.client] = op.at
  BY <1>1 DEF IInv, UnderWay
<1>3. TypeOK'
  BY <1>1 DEF IInv, TypeOK
<1>4. OneBookingEach'
  BY <1>1, <1>2 DEF IInv, OneBookingEach
<1>5. OnlyBrokenOffOverlap'
  <2>1. \A b \in held : <<op.at, b.at>> \in Overlap => <<b.at, op.at>> \in Overlap
    <3> SUFFICES ASSUME NEW b \in held, <<op.at, b.at>> \in Overlap
                 PROVE  <<b.at, op.at>> \in Overlap
      OBVIOUS
    <3> DEFINE p == <<op.at, b.at>>
    <3>1. p \in Overlap /\ p[1] = op.at /\ p[2] = b.at
      OBVIOUS
    <3>2. <<p[2], p[1]>> \in Overlap
      BY <3>1, OverlapAssumption
    <3> QED
      BY <3>1, <3>2
  <2> QED
    BY <1>1, <1>2, <2>1 DEF IInv, OnlyBrokenOffOverlap, Overlapping
<1>6. NoTrace' /\ HeldIsCached' /\ UnderWay'
  BY <1>1, <1>2 DEF IInv, NoTrace, Traceless, HeldIsCached, UnderWay
<1> QED
  BY <1>3, <1>4, <1>5, <1>6 DEF IInv

LEMMA BreakOffInv ==
    ASSUME IInv, BreakOff
    PROVE  IInv'
<1>1. /\ op # Absent /\ op \in Entry /\ Raise
      /\ disturbed' = disturbed \cup {op.client}
  BY EntryType DEF IInv, TypeOK, BreakOff
<1>2. /\ wire' \in Events
      /\ \A c \in Calendar, e \in Event :
            <<e, c>> # <<op.client, op.cal>> => wire'[c][e] = wire[c][e]
  <2>1. CASE UNCHANGED wire
    BY <2>1 DEF IInv, TypeOK
  <2>2. CASE PutLands
    BY <1>1, <2>2 DEF IInv, TypeOK, PutLands, Events, Entry, Event
  <2> QED
    BY <2>1, <2>2 DEF BreakOff
<1> QED
  BY <1>1, <1>2, RaiseInv


-----------------------------------------------------------------------------

\* What other clients do to the event of a booking ends its being held, and
\* before it is recorded disturbs its client.
LEMMA ForeignInv ==
    ASSUME IInv, NEW c \in Calendar, NEW e \in Event, NEW s \in Slot \cup {Absent},
           Foreign(c, e, s)
    PROVE  IInv'
<1>1. /\ wire' = [wire EXCEPT ![c][e] = s] /\ wire[c][e] # s
      /\ UNCHANGED <<cache, target, ledger, pc, op>>
      /\ e \in Client => \E d \in Calendar : wire[d][e] # Absent
      /\ held' = {b \in held : <<b.cal, b.client>> # <<c, e>>}
  BY DEF Foreign
<1>2. /\ disturbed \subseteq disturbed' /\ disturbed' \subseteq Client
      /\ op # Absent /\ e = op.client /\ (s # Absent \/ pc = "record") => e \in disturbed'
  <2>1. op # Absent => op \in Entry /\ pc # "idle"
    BY EntryType DEF IInv, TypeOK
  <2> QED
    BY <2>1 DEF Foreign, IInv, TypeOK, Entry
<1>3. /\ wire' \in Events
      /\ wire'[c][e] = s
      /\ \A d \in Calendar, f \in Event : <<d, f>> # <<c, e>> => wire'[d][f] = wire[d][f]
  BY <1>1 DEF IInv, TypeOK, Events
<1>4. held' \subseteq held
  BY <1>1
<1>5. TypeOK'
  BY <1>1, <1>2, <1>3, <1>4 DEF IInv, TypeOK
<1>6. OneBookingEach' /\ OnlyBrokenOffOverlap'
  BY <1>1, <1>2, <1>4 DEF IInv, OneBookingEach, OnlyBrokenOffOverlap, Overlapping
<1>7. NoTrace'
  <2> SUFFICES ASSUME NEW u \in Client, u \notin disturbed',
                      \A b \in ledger : b.client # u, NEW d \in Calendar,
                      op = Absent \/ <<op.client, op.cal>> # <<u, d>>
               PROVE  wire'[d][u] = Absent /\ cache[d][u] = Absent
    BY <1>1 DEF NoTrace, Traceless
  <2>1. wire[d][u] = Absent /\ cache[d][u] = Absent
    BY <1>2 DEF IInv, NoTrace, Traceless
  <2>2. CASE e # u \/ c # d
    BY <1>3, <2>1, <2>2 DEF Event
  <2>3. CASE e = u /\ c = d
    <3>1. PICK k \in Calendar : wire[k][u] # Absent
      BY <1>1, <2>3
    <3>2. op # Absent /\ op.client = u
      BY <1>2, <3>1 DEF IInv, NoTrace, Traceless
    <3>3. s # Absent
      BY <1>1, <2>1, <2>3
    <3> QED
      BY <1>2, <2>3, <3>2, <3>3
  <2> QED
    BY <2>2, <2>3
<1>8. HeldIsCached'
  <2> SUFFICES ASSUME NEW b \in held', b.client \notin disturbed'
               PROVE  wire'[b.cal][b.client] = b.at /\ cache[b.cal][b.client] = b.at
    BY <1>1 DEF HeldIsCached
  <2>1. b \in held /\ b \in Entry /\ <<b.cal, b.client>> # <<c, e>>
    BY <1>1, EntryType DEF IInv
  <2> QED
    BY <1>2, <1>3, <2>1 DEF IInv, HeldIsCached, Entry, Event
<1>9. UnderWay'
  <2>1. CASE op = Absent
    BY <1>1, <2>1 DEF UnderWay
  <2>2. CASE op # Absent
    <3>1. op \in Entry
      BY <2>2, EntryType DEF IInv
    <3>2. CASE op.client \in disturbed' \/ e # op.client \/ c # op.cal
      BY <1>1, <1>2, <1>3, <1>4, <2>2, <3>1, <3>2
         DEF IInv, UnderWay, Traceless, Entry, Event
    <3>3. CASE op.client \notin disturbed' /\ e = op.client /\ c = op.cal
      \* Only the deletion of the event before it is read back is left.
      <4>1. s = Absent /\ pc # "record" /\ op.client \notin disturbed
        BY <1>2, <2>2, <3>3
      <4>2. pc # "put"
        BY <1>1, <2>2, <3>3, <4>1 DEF IInv, UnderWay, Traceless
      <4> QED
        BY <1>1, <1>2, <1>3, <1>4, <2>2, <3>3, <4>1, <4>2 DEF IInv, UnderWay, Traceless
    <3> QED
      BY <3>2, <3>3
  <2> QED
    BY <2>1, <2>2
<1> QED
  BY <1>5, <1>6, <1>7, <1>8, <1>9 DEF IInv

LEMMA SyncInv ==
    ASSUME IInv, NEW c \in Calendar, NEW e \in Event, Sync(c, e)
    PROVE  IInv'
<1>1. /\ op = Absent
      /\ cache' = [cache EXCEPT ![c][e] = wire[c][e]]
      /\ UNCHANGED <<wire, target, ledger, pc, op, held, disturbed>>
  BY DEF Sync, IInv, TypeOK
<1>2. /\ cache' \in Events
      /\ \A d \in Calendar, f \in Event :
            cache'[d][f] = cache[d][f] \/ cache'[d][f] = wire[d][f]
  BY <1>1 DEF IInv, TypeOK, Events
<1>3. TypeOK'
  BY <1>1, <1>2 DEF IInv, TypeOK
<1>4. OneBookingEach' /\ OnlyBrokenOffOverlap' /\ UnderWay'
  BY <1>1 DEF IInv, OneBookingEach, OnlyBrokenOffOverlap, Overlapping, UnderWay
<1>5. NoTrace'
  BY <1>1, <1>2 DEF IInv, NoTrace, Traceless, Event
<1>6. HeldIsCached'
  <2> SUFFICES ASSUME NEW b \in held, b.client \notin disturbed
               PROVE  wire[b.cal][b.client] = b.at /\ cache'[b.cal][b.client] = b.at
    BY <1>1 DEF HeldIsCached
  <2>1. b \in Entry
    BY EntryType DEF IInv
  <2> QED
    BY <1>2, <2>1 DEF IInv, HeldIsCached, Entry, Event
<1> QED
  BY <1>3, <1>4, <1>5, <1>6 DEF IInv

LEMMA EditLinkInv ==
    ASSUME IInv, NEW l \in Link, NEW c \in Calendar \cup {Absent}, EditLink(l, c)
    PROVE  IInv'
BY DEF EditLink, IInv, TypeOK, OneBookingEach, OnlyBrokenOffOverlap, Overlapping,
       NoTrace, Traceless, HeldIsCached, UnderWay

LEMMA StutterInv ==
    ASSUME IInv, UNCHANGED vars
    PROVE  IInv'
BY DEF vars, IInv, TypeOK, OneBookingEach, OnlyBrokenOffOverlap, Overlapping,
       NoTrace, Traceless, HeldIsCached, UnderWay

-----------------------------------------------------------------------------

\* IInv holds in every reachable state, whatever the links, the calendars, the
\* visitors and the number of faults and of changes by others.
THEOREM Inductive == Spec => []IInv
<1>1. IInv /\ [Next]_vars => IInv'
  <2> SUFFICES ASSUME IInv, [Next]_vars PROVE IInv'
    OBVIOUS
  <2>1. ASSUME NEW l \in Link, NEW u \in Client, NEW t \in Slot, BookSlot(l, u, t)
        PROVE  IInv'
    BY <2>1, RequestInv, RecoverInv DEF BookSlot
  <2>2. CASE Step
    BY <2>2, PutInv, RereadInv, RefreshInv, RecordInv DEF Step
  <2>3. CASE BreakOff
    BY <2>3, BreakOffInv
  <2>4. ASSUME NEW c \in Calendar, NEW e \in Event, NEW s \in Slot \cup {Absent},
               Foreign(c, e, s)
        PROVE  IInv'
    BY <2>4, ForeignInv
  <2>5. ASSUME NEW c \in Calendar, NEW e \in Event, Sync(c, e)
        PROVE  IInv'
    BY <2>5, SyncInv
  <2>6. ASSUME NEW l \in Link, NEW c \in Calendar \cup {Absent}, EditLink(l, c)
        PROVE  IInv'
    BY <2>6, EditLinkInv
  <2>7. CASE UNCHANGED vars
    BY <2>7, StutterInv
  <2> QED
    BY <2>1, <2>2, <2>3, <2>4, <2>5, <2>6, <2>7 DEF Next
<1> QED
  BY <1>1, InitInv, PTL DEF Spec

\* The bookings, the calendar and the requests keep their types.
THEOREM TypeCorrect == Spec => []TypeOK
<1>1. IInv => TypeOK
  BY DEF IInv
<1> QED
  BY <1>1, Inductive, PTL

\* Two confirmed bookings overlap only if one of them was disturbed
\* (book_slot: the check under the lock, against the cache).
THEOREM BookingsDisjoint == Spec => []OnlyBrokenOffOverlap
<1>1. IInv => OnlyBrokenOffOverlap
  BY DEF IInv
<1> QED
  BY <1>1, Inductive, PTL

\* An undisturbed booking that was confirmed is on the calendar, at its time
\* (book_slot: the event is read back before the booking is recorded).
THEOREM ConfirmedIsOnTheCalendar == Spec => []BookingIsOnTheCalendar
<1>1. IInv => BookingIsOnTheCalendar
  BY DEF IInv, HeldIsCached, BookingIsOnTheCalendar
<1> QED
  BY <1>1, Inductive, PTL

\* No client_id has two bookings (book_slot: a replay is answered, not booked).
THEOREM OneBookingPerClient == Spec => []OneBookingEach
<1>1. IInv => OneBookingEach
  BY DEF IInv
<1> QED
  BY <1>1, Inductive, PTL

-----------------------------------------------------------------------------
(* Arithmetic, and clocks.                                                   *)

LEMMA Division ==
    ASSUME NEW a \in Int, NEW b \in Nat \ {0}
    PROVE  /\ a \div b \in Int
           /\ (a \div b) * b <= a /\ a < (a \div b) * b + b
OBVIOUS

LEMMA Multiples ==
    ASSUME NEW a \in Int, NEW c \in Int, NEW b \in Nat \ {0}, a < c
    PROVE  a * b + b <= c * b
OBVIOUS

LEMMA NextMultiple ==
    ASSUME NEW k \in Nat, NEW b \in Nat
    PROVE  k * b \in Nat /\ (k + 1) * b = k * b + b
OBVIOUS

\* Between the multiples of a and a + 1, a is the quotient.
LEMMA Quotient ==
    ASSUME NEW x \in Int, NEW a \in Int, NEW b \in Nat \ {0}, a * b <= x, x < a * b + b
    PROVE  x \div b = a
<1> DEFINE q == x \div b
<1>1. q \in Int /\ q * b <= x /\ x < q * b + b
  BY Division
<1> HIDE DEF q
<1>2. ~(q < a) /\ ~(a < q)
  BY <1>1, Multiples
<1> QED
  BY <1>1, <1>2 DEF q

LEMMA QuotientMonotone ==
    ASSUME NEW x \in Int, NEW y \in Int, NEW b \in Nat \ {0}, x <= y
    PROVE  x \div b <= y \div b
<1> DEFINE p == x \div b
           q == y \div b
<1>1. /\ p \in Int /\ p * b <= x /\ x < p * b + b
      /\ q \in Int /\ q * b <= y /\ y < q * b + b
  BY Division
<1> HIDE DEF p, q
<1>2. ~(q < p)
  BY <1>1, Multiples
<1> QED
  BY <1>1, <1>2 DEF p, q

LEMMA ClockType ==
    ASSUME NEW z, Zone(z)
    PROVE  /\ z.before \in Int /\ z.after \in Int /\ z.change \in Int
           /\ Gap(z) \in Nat /\ 2 * Gap(z) <= DayLength
           /\ \A u \in Int : Wall(z, u) \in Int /\ Instant(z, u) \in Int /\ DateOf(z, u) \in Int
<1>1. z.before \in Int /\ z.after \in Int /\ z.change \in Int /\ 2 * Gap(z) <= DayLength
  BY DEF Zone
<1>2. Gap(z) \in Nat
  BY <1>1 DEF Gap
<1>3. \A u \in Int : Wall(z, u) \in Int /\ Instant(z, u) \in Int
  BY <1>1 DEF Wall, Instant
<1>4. \A u \in Int : DateOf(z, u) \in Int
  BY <1>3, SlotsAssumption, Division DEF DateOf
<1> QED
  BY <1>1, <1>2, <1>3, <1>4

LEMMA AfterStart ==
    ASSUME NEW z, Zone(z), NEW w \in Int, NEW u \in Int, Instant(z, w) <= u
    PROVE  w <= Wall(z, u) \/ (z.change <= u /\ Instant(z, w) < z.change /\ ShownTwice(z, w))
BY ClockType DEF Wall, Instant, ShownTwice

LEMMA NotBefore ==
    ASSUME NEW z, Zone(z), NEW w \in Int
    PROVE  w <= Wall(z, Instant(z, w))
BY ClockType DEF Wall, Instant

LEMMA BeforeEnd ==
    ASSUME NEW z, Zone(z), NEW w \in Int
    PROVE  /\ WindowEnd(z, w) \in Int
           /\ \E p \in Offsets(z) : WindowEnd(z, w) + p <= w
           /\ \A u \in Int : u < WindowEnd(z, w) => Wall(z, u) < w
BY ClockType DEF WindowEnd, Shown, Wall, Instant, Offsets

LEMMA DatesGoOn ==
    ASSUME NEW z, Zone(z), NEW u \in Int, NEW v \in Int, u <= v
    PROVE  DateOf(z, u) <= DateOf(z, v)
<1>0. z.before \in Int /\ z.after \in Int /\ z.change \in Int /\ z.change - 1 \in Int
  BY DEF Zone
<1>1. CASE Wall(z, u) <= Wall(z, v)
  BY <1>1, ClockType, SlotsAssumption, QuotientMonotone DEF DateOf
<1>2. CASE ~(Wall(z, u) <= Wall(z, v))
  <2>1. Wall(z, u) <= Wall(z, z.change - 1) /\ Wall(z, z.change) <= Wall(z, v)
    BY <1>0, <1>2 DEF Wall
  <2>2. /\ DateOf(z, u) <= DateOf(z, z.change - 1)
        /\ DateOf(z, z.change) <= DateOf(z, v)
    BY <1>0, <2>1, ClockType, SlotsAssumption, QuotientMonotone DEF DateOf
  <2> QED
    BY <1>0, <2>2, ClockType DEF Zone
<1> QED
  BY <1>1, <1>2

LEMMA SlotShape ==
    ASSUME NEW link \in Links, NEW d \in Int, NEW w \in link.hours[d % Week],
           NEW s \in SlotsIn(link, d, w)
    PROVE  /\ Zone(link.zone)
           /\ link.length \in Nat \ {0} /\ link.buffer \in Nat /\ link.notice \in Nat
           /\ w[1] \in Int /\ w[2] \in Int /\ 0 <= w[1] /\ w[2] < DayLength
           /\ s.from \in Int /\ s.to \in Int /\ s.to = s.from + link.length
           /\ Instant(link.zone, d * DayLength + w[1]) <= s.from
           /\ s.to <= WindowEnd(link.zone, d * DayLength + w[2])
<1>1. d % Week \in 0 .. (Week - 1)
  BY SlotsAssumption
<1>2. /\ Zone(link.zone)
      /\ link.length \in Nat \ {0} /\ link.buffer \in Nat /\ link.notice \in Nat
      /\ w[1] \in Int /\ w[2] \in Int /\ 0 <= w[1] /\ w[2] < DayLength
  BY <1>1, LinksAssumption, ZonesAssumption DEF ValidHours
<1> DEFINE a == Instant(link.zone, d * DayLength + w[1])
           b == WindowEnd(link.zone, d * DayLength + w[2])
<1>3. a \in Int /\ b \in Int
  <2>1. d * DayLength + w[1] \in Int /\ d * DayLength + w[2] \in Int
    BY <1>2, SlotsAssumption
  <2> QED
    BY <1>2, <2>1, ClockType, BeforeEnd
<1>4. PICK k \in 0 .. DayLength :
         a + (k + 1) * link.length <= b
         /\ s = [from |-> a + k * link.length, to |-> a + (k + 1) * link.length]
  BY DEF SlotsIn
<1> HIDE DEF a, b
<1>5. /\ k * link.length \in Nat /\ (k + 1) * link.length = k * link.length + link.length
  <2>1. k \in Nat /\ link.length \in Nat
    BY <1>2, SlotsAssumption
  <2> QED
    BY <2>1, NextMultiple
<1>6. /\ s.from \in Int /\ s.to \in Int /\ s.to = s.from + link.length
      /\ a <= s.from /\ s.to <= b
  BY <1>2, <1>3, <1>4, <1>5
<1> QED
  BY <1>2, <1>6 DEF a, b

\* Every moment of a slot is on the day whose hours the slot is cut from.
LEMMA SlotDate ==
    ASSUME NEW link \in Links, NEW d \in Int, NEW w \in link.hours[d % Week],
           NEW s \in SlotsIn(link, d, w), NEW u \in Int, s.from <= u, u < s.to
    PROVE  DateOf(link.zone, u) = d
<1> DEFINE z == link.zone
           D == d * DayLength
           a == Instant(z, D + w[1])
<1>1. /\ Zone(z) /\ D \in Int /\ w[1] \in Int /\ w[2] \in Int /\ 0 <= w[1] /\ w[2] < DayLength
      /\ s.from \in Int /\ s.to \in Int /\ a <= s.from /\ s.to <= WindowEnd(z, D + w[2])
  BY SlotShape, SlotsAssumption
<1>2. a \in Int /\ Wall(z, a) \in Int /\ Wall(z, u) \in Int
  BY <1>1, ClockType
<1>3. D <= Wall(z, a)
  BY <1>1, <1>2, NotBefore
<1>4. Wall(z, u) < D + DayLength
  <2>1. D + w[2] \in Int /\ u < WindowEnd(z, D + w[2])
    BY <1>1, BeforeEnd
  <2>2. Wall(z, u) < D + w[2]
    BY <1>1, <2>1, BeforeEnd
  <2> QED
    BY <1>1, <1>2, <2>2, SlotsAssumption
<1>5. DateOf(z, a) <= DateOf(z, u)
  BY <1>1, <1>2, DatesGoOn
<1>6. d <= DateOf(z, a)
  <2>1. D \div DayLength = d
    BY <1>1, SlotsAssumption, Quotient
  <2> QED
    BY <1>1, <1>2, <1>3, <2>1, SlotsAssumption, QuotientMonotone DEF DateOf
<1>7. DateOf(z, u) <= d
  <2> DEFINE q == Wall(z, u) \div DayLength
  <2>1. q \in Int /\ q * DayLength <= Wall(z, u)
    BY <1>2, SlotsAssumption, Division
  <2> HIDE DEF q
  <2>2. ~(d < q)
    BY <1>1, <1>2, <1>4, <2>1, SlotsAssumption, Multiples
  <2> QED
    BY <2>1, <2>2 DEF q, DateOf
<1>8. DateOf(z, a) \in Int /\ DateOf(z, u) \in Int
  BY <1>1, <1>2, ClockType
<1> HIDE DEF a
<1> QED
  BY <1>5, <1>6, <1>7, <1>8

LEMMA EarliestOf ==
    ASSUME NEW e, Timetable(e)
    PROVE  Earliest(e) \in e.times /\ \A t \in e.times : Earliest(e) <= t
BY DEF Timetable, Earliest

LEMMA TimesRead ==
    ASSUME NEW home, Zone(home), NEW e, Timetable(e), NEW t \in Int
    PROVE  \E q \in Offsets(home) \cup {0} : q \in Int /\ StartOf(home, e, t) = t - q
BY DEF Zone, StartOf, Instant, Offsets

\* A clock that jumps makes a DURATION longer or shorter by no more than it jumps.
LEMMA AdvanceBy ==
    ASSUME NEW z, Zone(z), NEW u \in Int, NEW days \in Nat, NEW hours \in Nat
    PROVE  /\ Advance(z, u, days, hours) \in Int
           /\ Advance(z, u, days, hours) <= u + days * DayLength + hours + Gap(z)
<1> DEFINE D == days * DayLength
<1>1. D \in Int /\ (days = 0 => D = 0)
  BY SlotsAssumption
<1>2. z.before \in Int /\ z.after \in Int /\ z.change \in Int
  BY DEF Zone
<1> HIDE DEF D
<1>3. Instant(z, Wall(z, u) + D) \in Int /\ Instant(z, Wall(z, u) + D) <= u + D + Gap(z)
  BY <1>1, <1>2 DEF Instant, Wall, Gap
<1>4. Gap(z) \in Nat
  BY ClockType
<1>5. Advance(z, u, days, hours) = (IF days = 0 THEN u ELSE Instant(z, Wall(z, u) + D)) + hours
  BY DEF Advance, D
<1>6. /\ Advance(z, u, days, hours) \in Int
      /\ Advance(z, u, days, hours) <= u + D + hours + Gap(z)
  BY <1>1, <1>3, <1>4, <1>5
<1> QED
  BY <1>6 DEF D

\* Whatever meets a slot or the buffer around it is in the range that is read for
\* the slot, once this is widened by a day on both sides.
LEMMA Reached ==
    ASSUME NEW link \in Links, NEW home \in HomeZones, NEW e, Timetable(e), NEW t \in e.times,
           NEW from \in Int, NEW to \in Int, NEW lo \in Int, NEW hi \in Int,
           from <= Wall(link.zone, lo),
           \E p \in Offsets(link.zone) : hi + p <= to,
           lo - link.buffer < Takes(link.zone, home, e, t).to,
           Takes(link.zone, home, e, t).from < hi + link.buffer
    PROVE  /\ InRange(e, from - DayLength, to + DayLength)
           /\ t \in Occurrences(e, from - DayLength, to + DayLength)
<1> DEFINE z == link.zone
           len == LengthOf(e)
<1>1. /\ Zone(z) /\ Zone(home) /\ link.buffer \in Nat /\ DayLength \in Nat
      /\ t \in Int /\ e.days \in Nat /\ e.hours \in Nat
  BY ZonesAssumption, LinksAssumption, SlotsAssumption DEF Timetable
<1>2. len \in Int /\ len = e.days * DayLength + e.hours /\ e.days * DayLength \in Int
  BY <1>1 DEF LengthOf
<1>3. PICK q \in Offsets(home) \cup {0} : q \in Int /\ StartOf(home, e, t) = t - q
  BY <1>1, TimesRead
<1>4. PICK r \in Offsets(home) \cup {0} : r \in Int /\ StartOf(home, e, t + len) = t + len - r
  BY <1>1, <1>2, TimesRead
<1>5. PICK p \in Offsets(z) : hi + p <= to
  OBVIOUS
<1>6. PICK o \in Offsets(z) : Wall(z, lo) = lo + o
  BY DEF Wall, Offsets
<1>7. p \in Int /\ o \in Int /\ Gap(z) \in Nat
  BY <1>1, ClockType DEF Offsets
<1>8. /\ q - p + link.buffer <= DayLength
      /\ o - q + Gap(z) + link.buffer <= DayLength
      /\ o - r + Gap(z) + link.buffer <= DayLength
  BY NearAssumption
<1>9. t <= to + DayLength
  <2>1. Takes(z, home, e, t).from = t - q
    BY <1>3 DEF Takes
  <2> QED
    BY <1>1, <1>3, <1>5, <1>7, <1>8, <2>1
<1>10. \E x \in {q, r} : EndOf(z, home, e, t) \in Int /\ EndOf(z, home, e, t) <= t + len - x + Gap(z)
  <2>1. CASE e.hasEnd
    <3>1. EndOf(z, home, e, t) = t + len - r
      BY <1>4, <2>1 DEF EndOf
    <3> QED
      BY <1>1, <1>2, <1>4, <1>7, <3>1
  <2>2. CASE ~e.hasEnd
    <3>1. EndOf(z, home, e, t) = Advance(z, t - q, e.days, e.hours)
      BY <1>3, <2>2 DEF EndOf
    <3>2. t - q \in Int
      BY <1>1, <1>3
    <3> HIDE DEF z
    <3>3. /\ Advance(z, t - q, e.days, e.hours) \in Int
          /\ Advance(z, t - q, e.days, e.hours) <= t - q + e.days * DayLength + e.hours + Gap(z)
      BY Zenon, <1>1, <3>2, AdvanceBy
    <3> QED
      BY <1>1, <1>2, <1>3, <1>7, <3>1, <3>3
  <2> QED
    BY <2>1, <2>2
<1>11. from - DayLength <= t + len
  <2>1. lo - link.buffer < EndOf(z, home, e, t)
    BY DEF Takes
  <2> HIDE DEF z, len
  <2> QED
    BY <1>1, <1>2, <1>3, <1>4, <1>6, <1>7, <1>8, <1>10, <2>1 DEF z
<1>12. Earliest(e) \in Int /\ Earliest(e) <= t /\ (~Repeats(e) => t = Earliest(e))
  BY EarliestOf DEF Timetable, Repeats
<1> HIDE DEF z, len
<1>13. Earliest(e) <= to + DayLength
  BY <1>1, <1>9, <1>12
<1> QED
  BY <1>9, <1>11, <1>12, <1>13 DEF InRange, Occurrences, len

Blocks(link, home, e, s) ==
    /\ e.kind = "opaque" /\ ~e.broken
    /\ \E t \in e.times :
          Meets(Takes(link.zone, home, e, t), s.from - link.buffer, s.to + link.buffer)

BlocksAll(e, to) == e.kind = "opaque" /\ e.broken /\ Earliest(e) <= to + DayLength

LEMMA TakesType ==
    ASSUME NEW z, Zone(z), NEW home, Zone(home), NEW e, Timetable(e), NEW t \in e.times
    PROVE  Takes(z, home, e, t).from \in Int /\ Takes(z, home, e, t).to \in Int
<1>1. t \in Int /\ e.days \in Nat /\ e.hours \in Nat /\ LengthOf(e) \in Int
  BY SlotsAssumption DEF Timetable, LengthOf
<1>2. \A x \in Int : StartOf(home, e, x) \in Int
  BY TimesRead DEF Offsets, Zone
<1>3. EndOf(z, home, e, t) \in Int
  <2>1. StartOf(home, e, t) \in Int /\ StartOf(home, e, t + LengthOf(e)) \in Int
    BY <1>1, <1>2
  <2>2. Advance(z, StartOf(home, e, t), e.days, e.hours) \in Int
    BY <1>1, <2>1, AdvanceBy
  <2> QED
    BY <2>1, <2>2 DEF EndOf
<1> QED
  BY <1>1, <1>2, <1>3 DEF Takes

\* The calendar blocks a slot alike, whatever range about it is read: by an event
\* that meets it or its buffer, and by one that cannot be expanded.
LEMMA WhatBlocks ==
    ASSUME NEW link \in Links, NEW home \in HomeZones, NEW events \in Calendars,
           NEW from \in Int, NEW to \in Int, NEW lo \in Int,
           NEW s, s.from \in Int, s.to \in Int, s.from < s.to, lo <= s.from,
           from <= Wall(link.zone, lo),
           \E p \in Offsets(link.zone) : s.to + p <= to
    PROVE  OverlapsAny(s, link.buffer, LinkBusy(link, home, events, from, to))
           <=> \E e \in events : Blocks(link, home, e, s) \/ BlocksAll(e, to)
<1> DEFINE z == link.zone
           busy == LinkBusy(link, home, events, from, to)
           a == from - DayLength
           b == to + DayLength
           all == [from |-> Instant(home, a), to |-> Instant(home, b)]
           Range(e) == e.kind = "opaque" /\ InRange(e, a, b)
<1>1. /\ Zone(z) /\ Zone(home) /\ link.buffer \in Nat /\ DayLength \in Nat
      /\ a \in Int /\ b \in Int
      /\ \A e \in events : Timetable(e)
  BY ZonesAssumption, LinksAssumption, SlotsAssumption, CalendarsAssumption
<1>2. \A i : i \in busy <=>
        /\ i.from < i.to
        /\ \E e \in events :
              /\ Range(e)
              /\ \/ e.broken /\ i = all
                 \/ ~e.broken /\ \E t \in Occurrences(e, a, b) : i = Takes(z, home, e, t)
  BY DEF LinkBusy, BusyIntervals
<1>3. \A i \in busy : i.from \in Int /\ i.to \in Int
  <2>1. Instant(home, a) \in Int /\ Instant(home, b) \in Int
    BY <1>1, ClockType
  <2>2. \A e \in events : \A t \in Occurrences(e, a, b) :
           Takes(z, home, e, t).from \in Int /\ Takes(z, home, e, t).to \in Int
    BY <1>1, TakesType DEF Occurrences
  <2> QED
    BY <1>2, <2>1, <2>2
<1>4. OverlapsAny(s, link.buffer, busy) <=>
        \E i \in busy : Meets(i, s.from - link.buffer, s.to + link.buffer)
  <2>1. \A i \in busy : i.from < i.to
    BY <1>2
  <2> HIDE DEF busy
  <2> QED
    BY <1>1, <1>3, <2>1 DEF OverlapsAny, Pad, Meets
<1>5. ASSUME NEW e \in events, BlocksAll(e, to)
      PROVE  OverlapsAny(s, link.buffer, busy)
  <2>1. Range(e) /\ e.broken
    BY <1>5 DEF BlocksAll, InRange, Repeats
  <2>2. PICK p \in Offsets(z) : s.to + p <= to
    OBVIOUS
  <2>3. PICK o \in Offsets(z) : Wall(z, lo) = lo + o
    BY DEF Wall, Offsets
  <2>4. PICK q \in Offsets(home), r \in Offsets(home) :
           Instant(home, a) = a - q /\ Instant(home, b) = b - r
    BY DEF Instant, Offsets
  <2>5. p \in Int /\ o \in Int /\ q \in Int /\ r \in Int /\ Gap(z) \in Nat
    BY <1>1, ClockType DEF Offsets
  <2>6. /\ r - p + link.buffer <= DayLength
        /\ o - q + Gap(z) + link.buffer <= DayLength
    BY NearAssumption
  <2>7. a - q <= s.from - link.buffer /\ s.to + link.buffer <= b - r
    BY <1>1, <2>2, <2>3, <2>5, <2>6
  <2>8. Meets(all, s.from - link.buffer, s.to + link.buffer) /\ all.from < all.to
    <3>1. all.from = a - q /\ all.to = b - r
      BY <2>4
    <3> HIDE DEF all, a, b
    <3> QED
      BY <1>1, <2>5, <2>7, <3>1 DEF Meets
  <2>9. all \in busy
    BY <1>2, <2>1, <2>8
  <2> QED
    BY <1>4, <2>8, <2>9
<1>6. ASSUME NEW e \in events, Blocks(link, home, e, s)
      PROVE  OverlapsAny(s, link.buffer, busy)
  <2>1. PICK t \in e.times : Meets(Takes(z, home, e, t), s.from - link.buffer, s.to + link.buffer)
    BY <1>6 DEF Blocks
  <2>2. e.kind = "opaque" /\ ~e.broken /\ Timetable(e)
    BY <1>1, <1>6 DEF Blocks
  <2>3. Takes(z, home, e, t).from \in Int /\ Takes(z, home, e, t).to \in Int
    BY <1>1, <2>2, TakesType
  <2>4. /\ lo - link.buffer < Takes(z, home, e, t).to
        /\ Takes(z, home, e, t).from < s.to + link.buffer
    BY <1>1, <2>1, <2>3 DEF Meets
  <2>5. InRange(e, a, b) /\ t \in Occurrences(e, a, b)
    BY <2>2, <2>4, Reached
  <2>6. Takes(z, home, e, t) \in busy
    BY <1>2, <2>1, <2>2, <2>5 DEF Meets
  <2> QED
    BY <1>4, <2>1, <2>6
<1>7. ASSUME OverlapsAny(s, link.buffer, busy)
      PROVE  \E e \in events : Blocks(link, home, e, s) \/ BlocksAll(e, to)
  <2>1. PICK i \in busy : Meets(i, s.from - link.buffer, s.to + link.buffer)
    BY <1>4, <1>7
  <2>2. PICK e \in events :
           /\ Range(e)
           /\ \/ e.broken /\ i = all
              \/ ~e.broken /\ \E t \in Occurrences(e, a, b) : i = Takes(z, home, e, t)
    BY <1>2
  <2>3. CASE e.broken
    BY <2>2, <2>3 DEF BlocksAll, InRange
  <2>4. CASE ~e.broken
    BY <2>1, <2>2, <2>4 DEF Blocks, Occurrences
  <2> QED
    BY <2>3, <2>4
<1> QED
  BY <1>5, <1>6, <1>7

LEMMA SlotsGenerated ==
    ASSUME NEW link, NEW busy, NEW now, NEW asked, NEW s
    PROVE  s \in GenerateSlots(link, busy, now, asked) <=>
             /\ now + link.notice <= s.from
             /\ ~OverlapsAny(s, link.buffer, busy)
             /\ \E d \in asked :
                  /\ DateOf(link.zone, now + link.notice) <= d
                  /\ DateOf(link.zone, now) <= d
                  /\ d <= DateOf(link.zone, now) + Horizon
                  /\ \E w \in link.hours[d % Week] : s \in SlotsIn(link, d, w)
BY DEF GenerateSlots

LEMMA NoMore ==
    ASSUME NEW a \in Int, NEW c \in Int, NEW b \in Nat, a <= c
    PROVE  a * b \in Int /\ c * b \in Int /\ a * b <= c * b
OBVIOUS

\* Where a slot lies, in the range a booking reads for its day.
LEMMA SlotPlace ==
    ASSUME NEW link \in Links, NEW d \in Int, NEW w \in link.hours[d % Week],
           NEW s \in SlotsIn(link, d, w)
    PROVE  /\ s.from \in Int /\ s.to \in Int /\ s.from < s.to
           /\ DateOf(link.zone, s.from) = d
           /\ d * DayLength <= Wall(link.zone, s.from)
           /\ \E p \in Offsets(link.zone) : s.to + p <= (d + 1) * DayLength
<1> DEFINE z == link.zone
           D == d * DayLength
<1>1. /\ Zone(z) /\ D \in Int /\ w[2] \in Int /\ w[2] < DayLength
      /\ s.from \in Int /\ s.to \in Int /\ s.from < s.to
      /\ s.to <= WindowEnd(z, D + w[2])
  BY SlotShape, SlotsAssumption
<1>2. DateOf(z, s.from) = d
  BY <1>1, SlotDate
<1>3. D <= Wall(z, s.from)
  BY <1>1, <1>2, ClockType, SlotsAssumption, Division DEF DateOf
<1>4. (d + 1) * DayLength = D + DayLength
  BY SlotsAssumption
<1>5. D + w[2] \in Int
  BY <1>1
<1>6. PICK p \in Offsets(z) : WindowEnd(z, D + w[2]) + p <= D + w[2]
  BY <1>1, <1>5, BeforeEnd
<1>7. p \in Int /\ WindowEnd(z, D + w[2]) \in Int /\ DayLength \in Nat
  BY <1>1, <1>5, BeforeEnd, ClockType, SlotsAssumption DEF Offsets
<1> HIDE DEF D
<1>8. s.to + p <= D + DayLength
  BY <1>1, <1>6, <1>7
<1> QED
  BY <1>1, <1>2, <1>3, <1>4, <1>8 DEF D

\* What the page shows is what can be booked.
LEMMA PageBlocks ==
    ASSUME NEW link \in Links, NEW home \in HomeZones, NEW events \in Calendars,
           NEW now \in Int, NEW d \in Int, NEW w \in link.hours[d % Week],
           NEW s \in SlotsIn(link, d, w),
           now + link.notice <= s.from, d <= DateOf(link.zone, now) + Horizon
    PROVE  LET end == (DateOf(link.zone, now) + Horizon + 1) * DayLength
           IN  OverlapsAny(s, link.buffer,
                   LinkBusy(link, home, events, Wall(link.zone, now), end))
               <=> \E e \in events : Blocks(link, home, e, s) \/ BlocksAll(e, end)
<1> DEFINE z == link.zone
           today == DateOf(z, now)
           end == (today + Horizon + 1) * DayLength
<1>1. /\ Zone(z) /\ link.notice \in Nat /\ Horizon \in Nat /\ DayLength \in Nat
      /\ today \in Int /\ Wall(z, now) \in Int
  BY ZonesAssumption, LinksAssumption, SlotsAssumption, ClockType
<1>2. /\ s.from \in Int /\ s.to \in Int /\ s.from < s.to
      /\ \E p \in Offsets(z) : s.to + p <= (d + 1) * DayLength
  BY SlotPlace
<1>3. /\ end \in Int /\ (d + 1) * DayLength \in Int /\ (d + 1) * DayLength <= end
  <2> HIDE DEF today
  <2>1. d + 1 \in Int /\ today + Horizon + 1 \in Int /\ d + 1 <= today + Horizon + 1
    BY <1>1 DEF today
  <2> QED
    BY <1>1, <2>1, NoMore
<1>4. \E p \in Offsets(z) : s.to + p <= end
  BY <1>1, <1>2, <1>3, ClockType DEF Offsets
<1>5. now <= s.from /\ Wall(z, now) <= Wall(z, now)
  BY <1>1, <1>2
<1> HIDE DEF end
<1>6. OverlapsAny(s, link.buffer, LinkBusy(link, home, events, Wall(z, now), end))
      <=> \E e \in events : Blocks(link, home, e, s) \/ BlocksAll(e, end)
  BY <1>1, <1>2, <1>3, <1>4, <1>5, WhatBlocks
<1> QED
  BY <1>6 DEF end

LEMMA DayBlocks ==
    ASSUME NEW link \in Links, NEW home \in HomeZones, NEW events \in Calendars,
           NEW d \in Int, NEW w \in link.hours[d % Week], NEW s \in SlotsIn(link, d, w)
    PROVE  OverlapsAny(s, link.buffer,
               LinkBusy(link, home, events, d * DayLength, (d + 1) * DayLength))
           <=> \E e \in events : Blocks(link, home, e, s) \/ BlocksAll(e, (d + 1) * DayLength)
<1>1. /\ s.from \in Int /\ s.to \in Int /\ s.from < s.to
      /\ d * DayLength <= Wall(link.zone, s.from)
      /\ \E p \in Offsets(link.zone) : s.to + p <= (d + 1) * DayLength
  BY SlotPlace
<1>2. d * DayLength \in Int /\ (d + 1) * DayLength \in Int
  BY SlotsAssumption
<1>3. s.from <= s.from
  BY <1>1
<1> QED
  BY <1>1, <1>2, <1>3, WhatBlocks

LEMMA OfferedCanBeBooked ==
    ASSUME NEW link \in Links, NEW home \in HomeZones, NEW events \in Calendars,
           NEW now \in Int, NEW later \in Int, now <= later,
           NEW s \in PublicLinkInfo(link, home, events, now), later + link.notice <= s.from
    PROVE  s \in SlotsToBook(link, home, events, later, DateOf(link.zone, s.from))
<1> DEFINE z == link.zone
           today == DateOf(z, now)
           end == (today + Horizon + 1) * DayLength
<1>1. /\ Zone(z) /\ link.notice \in Nat /\ Horizon \in Nat /\ DayLength \in Nat
      /\ today \in Int /\ DateOf(z, later) \in Int
  BY ZonesAssumption, LinksAssumption, SlotsAssumption, ClockType
<1>2. /\ now + link.notice <= s.from
      /\ ~OverlapsAny(s, link.buffer, LinkBusy(link, home, events, Wall(z, now), end))
  BY SlotsGenerated DEF PublicLinkInfo
<1>3. PICK d \in today .. (today + Horizon) :
         \E w \in link.hours[d % Week] : s \in SlotsIn(link, d, w)
  BY SlotsGenerated DEF PublicLinkInfo
<1>4. PICK w \in link.hours[d % Week] : s \in SlotsIn(link, d, w)
  BY <1>3
<1>5. d \in Int /\ d <= today + Horizon
  BY <1>1, <1>3
<1>6. s.from \in Int /\ DateOf(z, s.from) = d
  BY <1>4, <1>5, SlotPlace
<1>7. \A e \in events : ~Blocks(link, home, e, s) /\ ~BlocksAll(e, end)
  BY <1>2, <1>4, <1>5, PageBlocks
<1>8. \A e \in events : ~BlocksAll(e, (d + 1) * DayLength)
  <2>1. (d + 1) * DayLength <= end /\ (d + 1) * DayLength \in Int /\ end \in Int
    <3> HIDE DEF today
    <3>1. d + 1 \in Int /\ today + Horizon + 1 \in Int /\ d + 1 <= today + Horizon + 1
      BY <1>1, <1>5
    <3> QED
      BY <1>1, <3>1, NoMore
  <2>2. \A e \in events : Earliest(e) \in Int
    BY CalendarsAssumption, EarliestOf DEF Timetable
  <2> HIDE DEF end
  <2> QED
    BY <1>1, <1>7, <2>1, <2>2 DEF BlocksAll
<1>9. ~OverlapsAny(s, link.buffer,
          LinkBusy(link, home, events, d * DayLength, (d + 1) * DayLength))
  BY <1>4, <1>5, <1>7, <1>8, DayBlocks
<1>10. /\ DateOf(z, later + link.notice) <= d /\ DateOf(z, later) <= d
       /\ d <= DateOf(z, later) + Horizon
  <2>1. later + link.notice \in Int /\ later <= s.from
    BY <1>1, <1>6
  <2>2. today <= DateOf(z, later) /\ DateOf(z, later) <= d /\ DateOf(z, later + link.notice) <= d
    BY <1>1, <1>6, <2>1, DatesGoOn
  <2> HIDE DEF today
  <2> QED
    BY <1>1, <1>5, <2>2
<1>11. s \in GenerateSlots(link,
           LinkBusy(link, home, events, d * DayLength, (d + 1) * DayLength), later, {d})
  BY <1>4, <1>9, <1>10, SlotsGenerated
<1> QED
  BY <1>6, <1>11 DEF SlotsToBook

LEMMA BookableIsOffered ==
    ASSUME NEW link \in Links, NEW home \in HomeZones, NEW events \in Calendars, ~Broken(events),
           NEW now \in Int,
           NEW d \in DateOf(link.zone, now) .. (DateOf(link.zone, now) + Horizon),
           NEW s \in SlotsToBook(link, home, events, now, d)
    PROVE  s \in PublicLinkInfo(link, home, events, now)
<1> DEFINE z == link.zone
           today == DateOf(z, now)
           end == (today + Horizon + 1) * DayLength
<1>1. d \in Int /\ d <= today + Horizon
  BY ZonesAssumption, SlotsAssumption, ClockType
<1>2. /\ now + link.notice <= s.from
      /\ ~OverlapsAny(s, link.buffer,
              LinkBusy(link, home, events, d * DayLength, (d + 1) * DayLength))
      /\ DateOf(z, now + link.notice) <= d /\ today <= d /\ d <= today + Horizon
      /\ \E w \in link.hours[d % Week] : s \in SlotsIn(link, d, w)
  BY SlotsGenerated DEF SlotsToBook
<1>3. PICK w \in link.hours[d % Week] : s \in SlotsIn(link, d, w)
  BY <1>2
<1>4. \A e \in events : ~Blocks(link, home, e, s)
  BY <1>1, <1>2, <1>3, DayBlocks
<1>5. \A e \in events : ~BlocksAll(e, end)
  BY DEF Broken, BlocksAll
<1>6. ~OverlapsAny(s, link.buffer, LinkBusy(link, home, events, Wall(z, now), end))
  BY <1>1, <1>2, <1>3, <1>4, <1>5, PageBlocks
<1> QED
  BY <1>2, <1>3, <1>6, SlotsGenerated DEF PublicLinkInfo

LEMMA OffersAreBookable == OffersBookable
BY SlotsAssumption, OfferedCanBeBooked, BookableIsOffered DEF OffersBookable

\* A slot lies in the owner's hours.
LEMMA SlotInHours ==
    ASSUME NEW link \in Links, NEW d \in Int, NEW w \in link.hours[d % Week],
           NEW s \in SlotsIn(link, d, w)
    PROVE  InHours(link, s)
<1> DEFINE z == link.zone
           D == d * DayLength
<1> SUFFICES ASSUME NEW u \in s.from .. (s.to - 1)
             PROVE  /\ DateOf(z, u) = d
                    /\ \/ w[1] <= Wall(z, u) - D
                       \/ u >= z.change /\ ShownTwice(z, D + w[1])
                    /\ Wall(z, u) - D < w[2]
  BY DEF InHours
<1>1. /\ Zone(z) /\ D \in Int /\ w[1] \in Int /\ w[2] \in Int
      /\ s.from \in Int /\ s.to \in Int
      /\ Instant(z, D + w[1]) <= s.from /\ s.to <= WindowEnd(z, D + w[2])
  BY SlotShape, SlotsAssumption
<1>2. u \in Int /\ s.from <= u /\ u < s.to
  BY <1>1
<1>3. DateOf(z, u) = d
  BY <1>2, SlotDate
<1> HIDE DEF D
<1>4. /\ D + w[1] \in Int /\ D + w[2] \in Int /\ Wall(z, u) \in Int
      /\ Instant(z, D + w[1]) \in Int /\ WindowEnd(z, D + w[2]) \in Int /\ z.change \in Int
  <2>1. D + w[1] \in Int /\ D + w[2] \in Int
    BY <1>1
  <2> QED
    BY <1>1, <1>2, <2>1, ClockType, BeforeEnd
<1>5. Instant(z, D + w[1]) <= u /\ u < WindowEnd(z, D + w[2])
  BY <1>1, <1>2, <1>4
<1>6. D + w[1] <= Wall(z, u) \/ (z.change <= u /\ ShownTwice(z, D + w[1]))
  BY <1>1, <1>2, <1>4, <1>5, AfterStart
<1>7. Wall(z, u) < D + w[2]
  BY <1>1, <1>2, <1>4, <1>5, BeforeEnd
<1>8. w[1] <= Wall(z, u) - D \/ (u >= z.change /\ ShownTwice(z, D + w[1]))
  BY <1>1, <1>2, <1>4, <1>6
<1>9. Wall(z, u) - D < w[2]
  BY <1>1, <1>4, <1>7
<1> QED
  BY <1>3, <1>8, <1>9

LEMMA SlotsAreFree == FreeSlots
<1> SUFFICES ASSUME NEW link \in Links, NEW home \in HomeZones, NEW now \in Times,
                    NEW events \in Calendars, NEW s \in PublicLinkInfo(link, home, events, now)
             PROVE  /\ InHours(link, s)
                    /\ \A e \in {f \in events : f.kind = "opaque" /\ ~f.broken} :
                         \A t \in e.times :
                            ~Meets(Takes(link.zone, home, e, t), s.from - link.buffer,
                                   s.to + link.buffer)
  BY DEF FreeSlots
<1> DEFINE today == DateOf(link.zone, now)
           end == (today + Horizon + 1) * DayLength
<1>1. /\ now + link.notice <= s.from
      /\ ~OverlapsAny(s, link.buffer, LinkBusy(link, home, events, Wall(link.zone, now), end))
  BY SlotsGenerated DEF PublicLinkInfo
<1>2. PICK d \in today .. (today + Horizon) :
         \E w \in link.hours[d % Week] : s \in SlotsIn(link, d, w)
  BY SlotsGenerated DEF PublicLinkInfo
<1>3. PICK w \in link.hours[d % Week] : s \in SlotsIn(link, d, w)
  BY <1>2
<1>4. now \in Int /\ d \in Int /\ d <= today + Horizon
  BY <1>2, ZonesAssumption, SlotsAssumption, ClockType
<1>5. InHours(link, s)
  BY <1>3, <1>4, SlotInHours
<1>6. \A e \in events : ~Blocks(link, home, e, s)
  BY <1>1, <1>3, <1>4, PageBlocks
<1> QED
  BY <1>5, <1>6 DEF Blocks

LEMMA LeastOf ==
    ASSUME NEW S \in SUBSET Nat, S # {}
    PROVE  \E x \in S : \A y \in S : x <= y
<1>1. \E x \in S : \A y \in S : ~(<<y, x>> \in OpToRel(<, Nat))
  BY NatLessThanWellFounded, WFMin
<1>2. PICK x \in S : \A y \in S : ~(<<y, x>> \in OpToRel(<, Nat))
  BY <1>1
<1>3. \A y \in S : ~(y < x)
  BY <1>2 DEF OpToRel
<1> QED
  BY <1>3

LEMMA LeastFrom ==
    ASSUME NEW S \in SUBSET Int, S # {}, NEW m \in Int, \A x \in S : m <= x
    PROVE  \E x \in S : \A y \in S : x <= y
<1> DEFINE T == {x - m : x \in S}
<1>1. T \in SUBSET Nat /\ T # {}
  <2>1. \A x \in S : x - m \in Nat
    OBVIOUS
  <2>2. PICK x \in S : TRUE
    OBVIOUS
  <2>3. x - m \in T
    OBVIOUS
  <2> QED
    BY <2>1, <2>3
<1>2. PICK n \in T : \A k \in T : n <= k
  BY <1>1, LeastOf
<1>3. PICK x \in S : n = x - m
  OBVIOUS
<1>4. \A y \in S : y - m \in T
  OBVIOUS
<1>5. \A y \in S : x - m <= y - m
  BY <1>2, <1>3, <1>4
<1> QED
  BY <1>5

LEMMA GreatestTo ==
    ASSUME NEW S \in SUBSET Int, S # {}, NEW m \in Int, \A x \in S : x <= m
    PROVE  \E x \in S : \A y \in S : y <= x
<1> DEFINE T == {m - x : x \in S}
<1>1. T \in SUBSET Nat /\ T # {}
  <2>1. \A x \in S : m - x \in Nat
    OBVIOUS
  <2>2. PICK x \in S : TRUE
    OBVIOUS
  <2>3. m - x \in T
    OBVIOUS
  <2> QED
    BY <2>1, <2>3
<1>2. PICK n \in T : \A k \in T : n <= k
  BY <1>1, LeastOf
<1>3. PICK x \in S : n = m - x
  OBVIOUS
<1>4. \A y \in S : m - y \in T
  OBVIOUS
<1>5. \A y \in S : m - x <= m - y
  BY <1>2, <1>3, <1>4
<1> QED
  BY <1>5

\* On one side of the change of a clock, days and hours add up.
LEMMA AdvanceOnOneSide ==
    ASSUME NEW z, Zone(z), NEW u \in Int, NEW days \in Nat, NEW hours \in Nat,
           z.change <= u \/ Advance(z, u, days, hours) < z.change
    PROVE  /\ Wall(z, Advance(z, u, days, hours)) = Wall(z, u + hours) + days * DayLength
           /\ u < z.change => u + hours < z.change
           /\ z.change <= u => z.change <= Advance(z, u, days, hours)
<1> DEFINE D == days * DayLength
           v == Advance(z, u, days, hours)
<1>1. /\ D \in Nat /\ (days = 0 => D = 0) /\ (days # 0 => 2 * Gap(z) <= D)
  <2>1. days # 0 => 1 * DayLength <= D
    BY SlotsAssumption, NoMore
  <2>2. 2 * Gap(z) <= DayLength /\ Gap(z) \in Nat
    BY ClockType
  <2>3. D \in Nat /\ (days = 0 => D = 0)
    BY SlotsAssumption, NoMore
  <2> HIDE DEF D
  <2> QED
    BY <2>1, <2>2, <2>3, SlotsAssumption
<1>2. z.before \in Int /\ z.after \in Int /\ z.change \in Int
  BY DEF Zone
<1>3. v = (IF days = 0 THEN u ELSE Instant(z, Wall(z, u) + D)) + hours
  BY DEF Advance
<1> HIDE DEF D
<1>4. CASE z.change <= u
  <2>1. v = u + D + hours
    BY <1>1, <1>2, <1>3, <1>4 DEF Instant, Wall, Gap
  <2> HIDE DEF v
  <2>2. /\ Wall(z, v) = Wall(z, u + hours) + D
        /\ z.change <= v
    BY <1>1, <1>2, <1>4, <2>1 DEF Wall
  <2> QED
    BY <1>2, <1>4, <2>2 DEF v, D
<1>5. CASE ~(z.change <= u)
  <2>1. v < z.change
    BY <1>5
  <2>2. v = u + D + hours
    BY <1>1, <1>2, <1>3, <1>5, <2>1 DEF Instant, Wall, Gap
  <2> HIDE DEF v
  <2>3. /\ Wall(z, v) = Wall(z, u + hours) + D
        /\ u + hours < z.change
    BY <1>1, <1>2, <1>5, <2>1, <2>2 DEF Wall
  <2> QED
    BY <1>2, <1>5, <2>3 DEF v, D
<1> QED
  BY <1>4, <1>5

\* What the connector takes an event to last is what it lasts.
LEMMA LengthsAgree ==
    ASSUME NEW home, Zone(home), NEW e, Timetable(e), NEW t \in e.times, ~Straddles(home, e, t)
    PROVE  TakesOfDay(home, e, t) = TakesAWhile(home, e, t)
<1> DEFINE u == StartOf(home, e, t)
           end == IF e.hasEnd THEN Wall(home, StartOf(home, e, t + LengthOf(e)))
                  ELSE Wall(home, u + e.hours) + e.days * DayLength
<1>1. u \in Int /\ e.days \in Nat /\ e.hours \in Nat /\ home.change \in Int
  BY TakesType DEF Takes, Timetable, Zone
<1>2. EndOf(home, home, e, t) \in Int
  BY TakesType DEF Takes
<1>3. end = Wall(home, EndOf(home, home, e, t))
  <2>1. CASE e.hasEnd
    BY <2>1 DEF EndOf
  <2>2. CASE ~e.hasEnd
    <3>1. EndOf(home, home, e, t) = Advance(home, u, e.days, e.hours)
      BY <2>2 DEF EndOf
    <3>2. home.change <= u \/ Advance(home, u, e.days, e.hours) < home.change
      BY <1>1, <1>2, <2>2, <3>1 DEF Straddles
    <3> QED
      BY <1>1, <2>2, <3>1, <3>2, AdvanceOnOneSide
  <2> QED
    BY <2>1, <2>2
<1>4. Wall(home, u) \in Int /\ end \in Int
  BY <1>1, <1>2, <1>3, ClockType
<1>5. TakesOfDay(home, e, t) =
        [from |-> Wall(home, u), to |-> IF end > Wall(home, u) THEN end ELSE Wall(home, u) + 1]
  BY DEF TakesOfDay
<1>6. TakesAWhile(home, e, t) =
        [from |-> Wall(home, u), to |-> Later(end, Wall(home, u) + 1)]
  BY <1>3 DEF TakesAWhile, Takes
<1> HIDE DEF u, end
<1> QED
  BY <1>4, <1>5, <1>6 DEF Later

\* An occurrence list_events leaves out, if not for its UTC time, is outside the range.
LEMMA SteadyBefore ==
    ASSUME NEW z, Zone(z), NEW from \in Int, NEW to \in Int, from <= to, NEW x \in Int, x < from,
           z.change < Instant(z, from - DayLength) \/ z.change > Instant(z, to + DayLength)
    PROVE  Wall(z, Instant(z, x)) < from
<1>1. /\ z.before \in Int /\ z.after \in Int /\ z.change \in Int
      /\ 2 * Gap(z) <= DayLength /\ DayLength \in Nat
  BY SlotsAssumption DEF Zone
<1> QED
  BY <1>1 DEF Wall, Instant, Gap

LEMMA WrittenLength ==
    ASSUME NEW home, Zone(home), NEW e, Timetable(e), NEW t \in e.times, ~Straddles(home, e, t),
           e.floating, ~e.hasEnd
    PROVE  /\ Wall(home, EndOf(home, home, e, t)) = t + LengthOf(e)
           /\ Wall(home, StartOf(home, e, t)) = t
<1> DEFINE u == Instant(home, t)
<1>1. /\ t \in Int /\ u \in Int /\ e.days \in Nat /\ e.hours \in Nat /\ e.days * DayLength \in Nat
      /\ home.before \in Int /\ home.after \in Int /\ home.change \in Int
  BY ClockType, SlotsAssumption, NoMore DEF Timetable, Zone
<1>2. EndOf(home, home, e, t) = Advance(home, u, e.days, e.hours) /\ StartOf(home, e, t) = u
  BY DEF EndOf, StartOf
<1>3. Advance(home, u, e.days, e.hours) \in Int
  BY <1>1, AdvanceBy
<1>4. home.change <= u \/ Advance(home, u, e.days, e.hours) < home.change
  BY <1>1, <1>2, <1>3 DEF Straddles
<1>5. /\ Wall(home, Advance(home, u, e.days, e.hours)) = Wall(home, u + e.hours) + e.days * DayLength
      /\ u < home.change => u + e.hours < home.change
      /\ home.change <= u => home.change <= Advance(home, u, e.days, e.hours)
  BY <1>1, <1>4, AdvanceOnOneSide
<1>6. Wall(home, u) = t
  <2>1. CASE u < home.change
    BY <1>1, <2>1 DEF Instant, Wall
  <2>2. CASE home.change <= u
    BY <1>2, <1>5, <2>2 DEF Straddles, Shown
  <2> QED
    BY <1>1, <2>1, <2>2
<1>7. Wall(home, u + e.hours) = t + e.hours
  BY <1>1, <1>5, <1>6 DEF Wall
<1> HIDE DEF u
<1> QED
  BY <1>1, <1>2, <1>5, <1>6, <1>7 DEF LengthOf

LEMMA OutOfRange ==
    ASSUME NEW home, Zone(home), NEW e, Timetable(e), NEW t \in e.times, ~Straddles(home, e, t),
           ~e.broken, NEW range \in Int \X Int, range[1] <= range[2], Steady(home, range),
           ~Overlooked(e, t, range),
           ~(/\ InRange(e, range[1] * DayLength, range[2] * DayLength)
             /\ t \in Occurrences(e, range[1] * DayLength, range[2] * DayLength))
    PROVE  \/ TakesAWhile(home, e, t).to <= range[1] * DayLength
           \/ range[2] * DayLength <= TakesAWhile(home, e, t).from
<1> DEFINE from == range[1] * DayLength
           to == range[2] * DayLength
           i == TakesAWhile(home, e, t)
           end == EndOf(home, home, e, t)
<1>1. e.floating
  BY DEF Overlooked
<1>2. /\ from \in Int /\ to \in Int /\ from <= to /\ DayLength \in Nat
      /\ (range[1] - 1) * DayLength = from - DayLength
      /\ (range[2] + 1) * DayLength = to + DayLength
  <2>1. range[1] \in Int /\ range[2] \in Int /\ DayLength \in Nat
    BY SlotsAssumption
  <2>2. from \in Int /\ to \in Int /\ from <= to
    BY <2>1, NoMore
  <2> QED
    BY <2>1, <2>2
<1>3. home.change < Instant(home, from - DayLength) \/ home.change > Instant(home, to + DayLength)
  BY <1>2 DEF Steady
<1>4. /\ t \in Int /\ LengthOf(e) \in Int /\ 0 <= LengthOf(e) /\ end \in Int
      /\ e.days \in Nat /\ e.hours \in Nat
  <2>1. e.days \in Nat /\ DayLength \in Nat
    BY SlotsAssumption DEF Timetable
  <2>2. e.days * DayLength \in Nat
    BY <2>1, NextMultiple
  <2> QED
    BY <2>2, TakesType DEF Timetable, LengthOf, Takes
<1>5. Earliest(e) \in Int /\ Earliest(e) <= t /\ (~Repeats(e) => Earliest(e) = t)
  BY EarliestOf DEF Timetable, Repeats
<1> HIDE DEF from, to
<1>6. \/ to < t
      \/ t + LengthOf(e) < from /\ (e.hasEnd \/ Repeats(e))
  <2>1. ~(InRange(e, from, to) /\ t \in Occurrences(e, from, to))
    BY DEF from, to
  <2> QED
    BY <1>2, <1>4, <1>5, <2>1 DEF InRange, Occurrences
<1>7. /\ i.from = Wall(home, Instant(home, t))
      /\ i.to = Later(Wall(home, end), Wall(home, Instant(home, t)) + 1)
      /\ Wall(home, Instant(home, t)) \in Int /\ Wall(home, end) \in Int
  BY <1>1, <1>4, ClockType DEF TakesAWhile, Takes, StartOf
<1>8. CASE to < t
  <2>1. t <= i.from
    BY <1>4, <1>7, NotBefore
  <2> HIDE DEF i, end
  <2> QED
    BY <1>2, <1>4, <1>7, <1>8, <2>1 DEF to, i
<1>9. CASE t + LengthOf(e) < from
  <2>1. Wall(home, Instant(home, t)) < from
    <3>1. t < from
      BY <1>2, <1>4, <1>9
    <3> QED
      BY <1>2, <1>3, <1>4, <3>1, SteadyBefore
  <2>2. Wall(home, end) < from
    <3>1. CASE e.hasEnd
      <4>1. end = Instant(home, t + LengthOf(e))
        BY <1>1, <3>1 DEF EndOf, StartOf
      <4>2. t + LengthOf(e) \in Int
        BY <1>4
      <4> QED
        BY <1>2, <1>3, <1>9, <4>1, <4>2, SteadyBefore
    <3>2. CASE ~e.hasEnd
      BY <1>1, <1>9, <3>2, WrittenLength
    <3> QED
      BY <3>1, <3>2
  <2> HIDE DEF i, end
  <2> QED
    BY <1>2, <1>7, <2>1, <2>2 DEF Later, from, i, end
<1> QED
  BY <1>6, <1>8, <1>9 DEF from, to

LEMMA TimeIsFree == FreeTime
<1> SUFFICES ASSUME NEW home \in HomeZones, NEW events \in Calendars, NEW range \in Ranges,
                    NEW hours \in Hours, NEW link \in Links,
                    Steady(home, range), Computable(home, events)
             PROVE  LET busy == {TakesAWhile(home, p[1], p[2]) :
                            p \in {q \in UNION {{<<e, t>> : t \in e.times} : e \in events} :
                                q[1].kind # "free" /\ ~Overlooked(q[1], q[2], range)}}
                        gaps == FindFreeTime(home, events, range, hours, link.length)
                    IN  /\ \A g \in gaps, i \in busy : ~Meets(i, g.from, g.to)
                        /\ \A d \in range[1]..(range[2] - 1) :
                             \A x \in hours[1]..(hours[2] - link.length) :
                                LET a == d * DayLength + x
                                IN  (\A i \in busy : ~Meets(i, a, a + link.length)) =>
                                        \E g \in gaps : g.from <= a /\ a + link.length <= g.to
  BY DEF FreeTime
<1> DEFINE span == link.length
           from == range[1] * DayLength
           to == range[2] * DayLength
           Counts(e, t) == e \in events /\ t \in e.times /\ e.kind # "free"
           Seen(e, t) == InRange(e, from, to) /\ t \in Occurrences(e, from, to)
           busy == {TakesAWhile(home, p[1], p[2]) :
                       p \in {q \in UNION {{<<e, t>> : t \in e.times} : e \in events} :
                           q[1].kind # "free" /\ ~Overlooked(q[1], q[2], range)}}
           taken == {TakesOfDay(home, p[1], p[2]) :
                       p \in {q \in Listed(events, from, to) : q[1].kind # "free"}}
           gaps == FindFreeTime(home, events, range, hours, span)
           open(d) == Later(d * DayLength + hours[1], from)
           close(d) == Sooner(d * DayLength + hours[2], to)
<1>1. /\ Zone(home) /\ span \in Nat \ {0} /\ DayLength \in Nat
      /\ range \in Int \X Int /\ hours \in Int \X Int
      /\ 0 <= hours[1] /\ hours[2] <= DayLength
      /\ \A e \in events : Timetable(e)
      /\ from \in Int /\ to \in Int
  BY ZonesAssumption, LinksAssumption, SlotsAssumption, CalendarsAssumption
<1>2. \A i : i \in busy <=>
        \E e, t : Counts(e, t) /\ ~Overlooked(e, t, range) /\ i = TakesAWhile(home, e, t)
  <2> DEFINE P == UNION {{<<e, t>> : t \in e.times} : e \in events}
  <2>1. ASSUME NEW i \in busy
        PROVE  \E e, t : Counts(e, t) /\ ~Overlooked(e, t, range) /\ i = TakesAWhile(home, e, t)
    <3>1. PICK p \in P : /\ p[1].kind # "free" /\ ~Overlooked(p[1], p[2], range)
                         /\ i = TakesAWhile(home, p[1], p[2])
      OBVIOUS
    <3>2. PICK e \in events : p \in {<<e, t>> : t \in e.times}
      OBVIOUS
    <3>3. PICK t \in e.times : p = <<e, t>>
      BY <3>2
    <3> QED
      BY <3>1, <3>3
  <2>2. ASSUME NEW e, NEW t, Counts(e, t), ~Overlooked(e, t, range)
        PROVE  TakesAWhile(home, e, t) \in busy
    <3>1. <<e, t>> \in P
      BY <2>2
    <3> HIDE DEF P
    <3>2. <<e, t>> \in {q \in P : q[1].kind # "free" /\ ~Overlooked(q[1], q[2], range)}
      BY <2>2, <3>1
    <3> QED
      BY <3>2 DEF P
  <2> QED
    BY <2>1, <2>2
<1>3. \A e, t : Counts(e, t) => ~e.broken /\ ~Straddles(home, e, t)
  BY DEF Computable
<1>4. \A i : i \in taken <=> \E e, t : Counts(e, t) /\ Seen(e, t) /\ i = TakesOfDay(home, e, t)
  <2> DEFINE L == Listed(events, from, to)
  <2>1. ASSUME NEW i \in taken
        PROVE  \E e, t : Counts(e, t) /\ Seen(e, t) /\ i = TakesOfDay(home, e, t)
    <3>1. PICK p \in L : p[1].kind # "free" /\ i = TakesOfDay(home, p[1], p[2])
      OBVIOUS
    <3>2. PICK e \in {f \in events : InRange(f, from, to)} :
             p \in {<<e, t>> : t \in IF e.broken THEN {Earliest(e)} ELSE Occurrences(e, from, to)}
      BY DEF Listed
    <3>3. PICK t \in IF e.broken THEN {Earliest(e)} ELSE Occurrences(e, from, to) : p = <<e, t>>
      BY <3>2
    <3>4. e.kind # "free" /\ ~e.broken
      BY <3>1, <3>3 DEF Computable
    <3> QED
      BY <3>1, <3>3, <3>4 DEF Occurrences
  <2>2. ASSUME NEW e, NEW t, Counts(e, t), Seen(e, t)
        PROVE  TakesOfDay(home, e, t) \in taken
    <3>1. <<e, t>> \in L
      BY <1>3, <2>2 DEF Listed
    <3> HIDE DEF L
    <3>2. <<e, t>> \in {q \in L : q[1].kind # "free"}
      BY <2>2, <3>1
    <3> QED
      BY <3>2 DEF L
  <2> QED
    BY <2>1, <2>2
<1>5. \A e, t : Counts(e, t) => TakesOfDay(home, e, t) = TakesAWhile(home, e, t)
  BY <1>1, <1>3, LengthsAgree
<1>6. \A e, t : Counts(e, t) =>
        /\ TakesAWhile(home, e, t).from \in Int /\ TakesAWhile(home, e, t).to \in Int
        /\ TakesAWhile(home, e, t).from < TakesAWhile(home, e, t).to
  <2> SUFFICES ASSUME NEW e, NEW t, Counts(e, t)
               PROVE  /\ TakesAWhile(home, e, t).from \in Int
                      /\ TakesAWhile(home, e, t).to \in Int
                      /\ TakesAWhile(home, e, t).from < TakesAWhile(home, e, t).to
    OBVIOUS
  <2> DEFINE f == Wall(home, Takes(home, home, e, t).from)
             n == Wall(home, Takes(home, home, e, t).to)
  <2>1. f \in Int /\ n \in Int
    BY <1>1, TakesType, ClockType
  <2>2. TakesAWhile(home, e, t) = [from |-> f, to |-> Later(n, f + 1)]
    BY DEF TakesAWhile
  <2> HIDE DEF f, n
  <2> QED
    BY <2>1, <2>2 DEF Later
<1>7. \A i \in taken : i.from \in Int /\ i.to \in Int /\ i.from < i.to /\ i \in busy
  <2> SUFFICES ASSUME NEW e, NEW t, Counts(e, t), Seen(e, t)
               PROVE  LET i == TakesOfDay(home, e, t)
                      IN  i.from \in Int /\ i.to \in Int /\ i.from < i.to /\ i \in busy
    BY <1>4
  <2>1. ~Overlooked(e, t, range)
    BY DEF Overlooked
  <2>2. TakesAWhile(home, e, t) \in busy
    BY <1>2, <2>1
  <2> HIDE DEF busy
  <2> QED
    BY <1>5, <1>6, <2>2
<1>8. \A g : g \in gaps <=>
        \E d \in range[1]..(range[2] - 1) :
            /\ g \in [from : {open(d)} \cup {i.to : i \in taken},
                     to : {close(d)} \cup {i.from : i \in taken}]
            /\ open(d) <= g.from /\ g.from + span <= g.to /\ g.to <= close(d)
            /\ \A i \in taken : i.to <= g.from \/ g.to <= i.from
  BY DEF FindFreeTime
<1>9. \A d \in range[1]..(range[2] - 1) :
        /\ d \in Int /\ open(d) \in Int /\ close(d) \in Int
        /\ from <= open(d) /\ close(d) <= to /\ range[1] <= range[2]
  BY <1>1 DEF Later, Sooner
<1> HIDE DEF busy, taken, gaps, open, close, from, to
<1>10. ASSUME NEW g \in gaps, NEW i \in busy
       PROVE  ~Meets(i, g.from, g.to)
  <2>1. PICK d \in range[1]..(range[2] - 1) :
            /\ g \in [from : {open(d)} \cup {j.to : j \in taken},
                     to : {close(d)} \cup {j.from : j \in taken}]
            /\ open(d) <= g.from /\ g.from + span <= g.to /\ g.to <= close(d)
            /\ \A j \in taken : j.to <= g.from \/ g.to <= j.from
    BY <1>8
  <2>2. /\ d \in Int /\ open(d) \in Int /\ close(d) \in Int
        /\ from <= open(d) /\ close(d) <= to /\ range[1] <= range[2]
    BY <1>9
  <2>3. g.from \in Int /\ g.to \in Int
    BY <1>7, <2>1, <2>2
  <2>4. from <= g.from /\ g.to <= to
    BY <1>1, <2>1, <2>2, <2>3
  <2>5. PICK e, t : Counts(e, t) /\ ~Overlooked(e, t, range) /\ i = TakesAWhile(home, e, t)
    BY <1>2
  <2>6. CASE Seen(e, t)
    <3>1. i \in taken
      BY <1>4, <1>5, <2>5, <2>6
    <3> QED
      BY <1>7, <2>1, <2>3, <3>1 DEF Meets
  <2>7. CASE ~Seen(e, t)
    <3>1. i.to <= from \/ to <= i.from
      BY <1>1, <1>3, <2>2, <2>5, <2>7, OutOfRange DEF from, to
    <3>2. i.from \in Int /\ i.to \in Int
      BY <1>6, <2>5
    <3> QED
      BY <1>1, <2>3, <2>4, <3>1, <3>2 DEF Meets
  <2> QED
    BY <2>6, <2>7
<1>11. ASSUME NEW d \in range[1]..(range[2] - 1), NEW x \in hours[1]..(hours[2] - span),
              \A i \in busy : ~Meets(i, d * DayLength + x, d * DayLength + x + span)
       PROVE  \E g \in gaps : g.from <= d * DayLength + x /\ d * DayLength + x + span <= g.to
  <2> DEFINE a == d * DayLength + x
             S == {open(d)} \cup {i.to : i \in {j \in taken : j.to <= a}}
             T == {close(d)} \cup {i.from : i \in {j \in taken : a + span <= j.from}}
  <2>1. /\ d \in Int /\ x \in Int /\ hours[1] <= x /\ x + span <= hours[2]
        /\ d * DayLength \in Int /\ a \in Int
    BY <1>1, <1>9
  <2>2. open(d) <= a /\ a + span <= close(d) /\ open(d) \in Int /\ close(d) \in Int
    <3>1. from <= d * DayLength /\ d * DayLength + DayLength <= to
      <4>1. range[1] \in Int /\ range[2] \in Int /\ range[1] <= d /\ d + 1 <= range[2]
        BY <1>1
      <4>2. from <= d * DayLength /\ (d + 1) * DayLength <= to /\ d + 1 \in Int
        BY <1>1, <2>1, <4>1, NoMore DEF from, to
      <4>3. (d + 1) * DayLength = d * DayLength + DayLength
        BY <1>1, <2>1
      <4> QED
        BY <4>2, <4>3
    <3> QED
      BY <1>1, <1>9, <2>1, <3>1 DEF open, close, Later, Sooner
  <2> HIDE DEF a
  <2>3. PICK m \in S : \A y \in S : y <= m
    <3>1. S \in SUBSET Int /\ S # {} /\ \A y \in S : y <= a
      BY <1>7, <2>1, <2>2
    <3> HIDE DEF S
    <3> QED
      BY <2>1, <3>1, GreatestTo
  <2>4. PICK n \in T : \A y \in T : n <= y
    <3>1. T \in SUBSET Int /\ T # {} /\ \A y \in T : a + span <= y
      BY <1>7, <2>1, <2>2
    <3>2. a + span \in Int
      BY <1>1, <2>1
    <3> HIDE DEF T
    <3> QED
      BY <3>1, <3>2, LeastFrom
  <2>5. /\ m \in Int /\ n \in Int /\ open(d) <= m /\ m <= a /\ a + span <= n /\ n <= close(d)
    BY <1>7, <2>1, <2>2, <2>3, <2>4
  <2>6. ASSUME NEW i \in taken
        PROVE  i.to <= m \/ n <= i.from
    <3>1. i.to <= a \/ a + span <= i.from
      BY <1>1, <1>7, <1>11, <2>1 DEF Meets, a
    <3> QED
      BY <2>3, <2>4, <3>1
  <2> DEFINE g == [from |-> m, to |-> n]
  <2>7. g \in gaps
    <3>1. m \in {open(d)} \cup {i.to : i \in taken} /\ n \in {close(d)} \cup {i.from : i \in taken}
      OBVIOUS
    <3>2. m + span <= n
      BY <1>1, <2>1, <2>5
    <3> HIDE DEF S, T
    <3> QED
      BY <1>8, <2>5, <2>6, <3>1, <3>2
  <2> QED
    BY <2>5, <2>7 DEF a
<1> QED
  BY <1>10, <1>11 DEF busy, gaps

\* What the page of an open link offers can be booked, for any zones, hours,
\* notice and calendar (service.py, public_link_info and book_slot).
THEOREM PagesKeepTheirWord == Spec => []OfferedIsBookable
<1>1. OfferedIsBookable
  BY OffersAreBookable DEF OfferedIsBookable
<1> QED
  BY <1>1, PTL

\* The slots of a page lie in the owner's hours and off everything that takes the
\* owner's time, and the gaps of the connector are those of the calendar
\* (scheduling.py, generate_slots; mcp/api.py, find_free_time).
THEOREM OwnersTimeIsKept == Spec => []TimeGivenIsFree
<1>1. TimeGivenIsFree
  BY SlotsAreFree, TimeIsFree DEF TimeGivenIsFree
<1> QED
  BY <1>1, PTL

=============================================================================
