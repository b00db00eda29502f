---------------------------- MODULE FocusClock ----------------------------
(***************************************************************************)
(* The focus session of one day (service.py): a clock that runs through      *)
(* focus phases and breaks and credits the time to one row of the day.       *)
(*                                                                           *)
(* The session stores anchors, not counters.  Every request first settles:   *)
(* it credits the time since the anchor, at most what the phase has left,    *)
(* and moves the anchor.  A request reads the wall clock BEFORE it waits for *)
(* the service's lock, so it may settle with a time that another request,    *)
(* which came later and got the lock earlier, has passed already.            *)
(***************************************************************************)
EXTENDS Integers, Sequences, FiniteSetsExt

CONSTANTS
    Queue,          \* the day's rows as a session works them, habits first
    Window,         \* the surfaces that show the session
    Length,         \* seconds in a phase of each kind
    LongEvery,      \* focus_long_break_every
    Nil,
    MaxTime,        \* bound: the clock
    MaxRequests     \* bound: requests of the windows

Phase == {"focus", "break", "long_break"}
Entry == {Queue[i] : i \in DOMAIN Queue}

ASSUME QueueAssumption == Queue \in Seq(Entry) /\ Nil \notin Entry
ASSUME LengthAssumption == Length \in [Phase -> Nat \ {0}] /\ LongEvery \in Nat

VARIABLES
    clock,      \* the wall clock
    closed,     \* rows that are done, dropped or rolled
    session,    \* the row of focus_session
    worked,     \* worked_seconds of each row
    asked,      \* the request of each window that waits for the lock
    requests,
    boundary,   \* history: how often a phase or a session has begun
    begun,      \* history: the boundary at which the session began
    phases,     \* history: focus phases begun, over all sessions
    latest,     \* history: the latest wall clock a request has settled with
    overtaken   \* history: some request settled with an older one

vars == <<clock, closed, session, worked, asked, requests,
          boundary, begun, phases, latest, overtaken>>
history == <<boundary, begun, phases>>

NoSession == [phase |-> Nil]
Session == [phase : Phase, length : Nat, elapsed : Nat, since : Nat \cup {Nil},
            intervals : Nat, entry : Entry \cup {Nil}, passed : SUBSET Entry,
            ended : BOOLEAN]

Act == {"start", "pause", "resume", "sync", "end", "again",
         "next", "keep_going", "pass", "select"}
Request == [do : Act, now : Nat, entry : Entry \cup {Nil},
            phase : Phase \cup {Nil}, intervals : Nat, boundary : Nat]
NoRequest == [do |-> Nil]

ASSUME NilAssumption == Nil \notin Act \cup Phase

TypeOK ==
    /\ clock \in Nat
    /\ closed \subseteq Entry
    /\ session \in Session \cup {NoSession}
    /\ worked \in [Entry -> Nat]
    /\ asked \in [Window -> Request \cup {NoRequest}]
    /\ \A w \in Window : asked[w].do \in {"pass", "select"} => asked[w].entry \in Entry
    /\ {requests, boundary, begun, phases, latest} \subseteq Nat
    /\ overtaken \in BOOLEAN

-----------------------------------------------------------------------------
(* The session.                                                              *)

Least(a, b) == IF a < b THEN a ELSE b
Most(a, b) == IF a < b THEN b ELSE a

\* _focus_cursor: the row it is on while that is still in the queue, or the first.
InQueue(s) == {i \in DOMAIN Queue : Queue[i] \notin closed \cup s.passed}
Cursor(s) ==
    IF \E i \in InQueue(s) : Queue[i] = s.entry THEN s.entry
    ELSE IF InQueue(s) = {} THEN Nil ELSE Queue[Min(InQueue(s))]

OnCursor(s) == [s EXCEPT !.entry = Cursor(s)]

\* _focus_settle: what the phase can still credit of the time since the anchor.
Credit(s, now) ==
    IF s.since = Nil THEN 0
    ELSE Least(Most(0, now - s.since), Most(0, s.length - s.elapsed))

\* Mutant: the anchor stays where it was.
SettledInPlace(s, now, keep) ==
    [s EXCEPT !.elapsed = @ + Credit(s, now), !.since = IF keep THEN @ ELSE Nil]

Settled(s, now, keep) ==
    LET elapsed == s.elapsed + Credit(s, now)
    IN  [s EXCEPT !.elapsed = elapsed,
                  !.since = IF s.since # Nil /\ keep /\ elapsed < s.length THEN now ELSE Nil]

Credited(s, now) ==
    IF s.phase = "focus" /\ s.entry # Nil THEN [worked EXCEPT ![s.entry] = @ + Credit(s, now)]
    ELSE worked

\* _focus_next_phase; "keep going" skips the break but counts the interval.
PhaseAfter(s, keepGoing) ==
    IF s.phase # "focus" \/ keepGoing THEN "focus"
    ELSE IF LongEvery > 0 /\ (s.intervals + 1) % LongEvery = 0 THEN "long_break"
    ELSE "break"

NextPhase(s, now, keepGoing) ==
    [s EXCEPT !.phase = PhaseAfter(s, keepGoing),
              !.length = Length[PhaseAfter(s, keepGoing)],
              !.elapsed = 0, !.since = now,
              !.intervals = IF s.phase = "focus" THEN @ + 1 ELSE @]

Fresh(now) ==
    [phase |-> "focus", length |-> Length["focus"], elapsed |-> 0, since |-> now,
     intervals |-> 0, entry |-> Nil, passed |-> {}, ended |-> FALSE]

Running == session # NoSession /\ ~session.ended

-----------------------------------------------------------------------------
(* A window asks; later its request gets the lock and runs as a whole.       *)

Ask(w) ==
    /\ asked[w] = NoRequest
    /\ requests < MaxRequests
    /\ \E do \in Act, e \in Entry \cup {Nil} :
        /\ do \in {"pass", "select"} <=> e # Nil
        /\ do = "pass" => Running /\ session.entry = e
        /\ do \in {"next", "keep_going"} => Running
        /\ asked' = [asked EXCEPT ![w] =
                [do |-> do, now |-> clock, entry |-> e, boundary |-> boundary,
                 phase |-> session.phase,
                 intervals |-> IF session = NoSession THEN 0 ELSE session.intervals]]
    /\ requests' = requests + 1
    /\ UNCHANGED <<clock, closed, session, worked, history, latest, overtaken>>

Answer(w) == asked' = [asked EXCEPT ![w] = NoRequest]

\* Credits the session up to the request's time and leaves it as s.
SettleAnd(w, s) ==
    /\ worked' = Credited(session, asked[w].now)
    /\ session' = s
    /\ latest' = Most(latest, asked[w].now)
    /\ overtaken' = (overtaken \/ asked[w].now < latest)

AfterSettling(w, keep) == Settled(session, asked[w].now, keep)

\* start_focus: a session under way is answered as it is.
Start(w) ==
    /\ asked[w].do = "start"
    /\ Answer(w)
    /\ IF Running THEN UNCHANGED <<session, history, latest, overtaken>>
       ELSE /\ session' = OnCursor(Fresh(asked[w].now))
            /\ boundary' = boundary + 1
            /\ begun' = boundary + 1
            /\ phases' = phases + 1
            /\ latest' = Most(latest, asked[w].now)
            /\ overtaken' = (overtaken \/ asked[w].now < latest)
    /\ UNCHANGED <<clock, closed, worked, requests>>

\* An ended session, or none, takes no action.
Ignored(w) ==
    /\ asked[w].do \notin {Nil, "start"}
    /\ ~Running
    /\ Answer(w)
    /\ UNCHANGED <<clock, closed, session, worked, requests, history, latest, overtaken>>

Pause(w) ==
    /\ Running /\ asked[w].do = "pause"
    /\ Answer(w)
    /\ SettleAnd(w, AfterSettling(w, FALSE))
    /\ UNCHANGED <<clock, closed, requests, history>>

Resume(w) ==
    /\ Running /\ asked[w].do = "resume"
    /\ Answer(w)
    /\ IF session.since = Nil /\ session.elapsed < session.length
       THEN /\ session' = [session EXCEPT !.since = asked[w].now]
            /\ latest' = Most(latest, asked[w].now)
            /\ overtaken' = (overtaken \/ asked[w].now < latest)
       ELSE UNCHANGED <<session, latest, overtaken>>
    /\ UNCHANGED <<clock, closed, worked, requests, history>>

\* Mutant: the count of intervals is not compared.
StalePhase(w) == asked[w].phase # session.phase

\* The window's idea of the phase is compared with what it has become.
Stale(w) == asked[w].phase # session.phase \/ asked[w].intervals # session.intervals

Advance(w) ==
    /\ Running /\ asked[w].do \in {"next", "keep_going"}
    /\ Answer(w)
    /\ IF Stale(w) THEN UNCHANGED <<session, worked, history, latest, overtaken>>
       ELSE LET s == NextPhase(AfterSettling(w, FALSE), asked[w].now, asked[w].do = "keep_going")
            IN  /\ SettleAnd(w, OnCursor(s))
                /\ boundary' = boundary + 1
                /\ phases' = IF s.phase = "focus" THEN phases + 1 ELSE phases
                /\ UNCHANGED begun
    /\ UNCHANGED <<clock, closed, requests>>

Sync(w) ==
    /\ Running /\ asked[w].do = "sync"
    /\ Answer(w)
    /\ SettleAnd(w, OnCursor(AfterSettling(w, TRUE)))
    /\ UNCHANGED <<clock, closed, requests, history>>

End(w) ==
    /\ Running /\ asked[w].do = "end"
    /\ Answer(w)
    /\ SettleAnd(w, [AfterSettling(w, FALSE) EXCEPT !.ended = TRUE])
    /\ UNCHANGED <<clock, closed, requests, history>>

\* A row is set aside only while it is still the current one.
Pass(w) ==
    /\ Running /\ asked[w].do = "pass"
    /\ Answer(w)
    /\ IF asked[w].entry # session.entry THEN UNCHANGED <<session, worked, latest, overtaken>>
       ELSE SettleAnd(w,
                OnCursor([AfterSettling(w, TRUE) EXCEPT !.passed = @ \cup {asked[w].entry}]))
    /\ UNCHANGED <<clock, closed, requests, history>>

Select(w) ==
    /\ Running /\ asked[w].do = "select"
    /\ Answer(w)
    /\ IF asked[w].entry \in closed THEN UNCHANGED <<session, worked, latest, overtaken>>
       ELSE SettleAnd(w,
                [AfterSettling(w, TRUE) EXCEPT !.passed = @ \ {asked[w].entry},
                                               !.entry = asked[w].entry])
    /\ UNCHANGED <<clock, closed, requests, history>>

Again(w) ==
    /\ Running /\ asked[w].do = "again"
    /\ Answer(w)
    /\ SettleAnd(w, OnCursor([AfterSettling(w, TRUE) EXCEPT !.passed = {}]))
    /\ UNCHANGED <<clock, closed, requests, history>>

\* A row is ticked or dropped somewhere, or that is taken back.
CloseRow(e) ==
    /\ closed' = IF e \in closed THEN closed \ {e} ELSE closed \cup {e}
    /\ requests < MaxRequests
    /\ requests' = requests + 1
    /\ UNCHANGED <<clock, session, worked, asked, history, latest, overtaken>>

TimePasses ==
    /\ clock < MaxTime
    /\ clock' = clock + 1
    /\ UNCHANGED <<closed, session, worked, asked, requests, history, latest, overtaken>>

Init ==
    /\ clock = 0
    /\ closed = {}
    /\ session = NoSession
    /\ worked = [e \in Entry |-> 0]
    /\ asked = [w \in Window |-> NoRequest]
    /\ requests = 0
    /\ boundary = 0
    /\ begun = 0
    /\ phases = 0
    /\ latest = 0
    /\ overtaken = FALSE

Next ==
    \/ \E w \in Window :
        \/ Ask(w) \/ Start(w) \/ Ignored(w) \/ Pause(w) \/ Resume(w) \/ Advance(w)
        \/ Sync(w) \/ End(w) \/ Pass(w) \/ Select(w) \/ Again(w)
    \/ \E e \in Entry : CloseRow(e)
    \/ TimePasses

Spec == Init /\ [][Next]_vars

-----------------------------------------------------------------------------
\* Every second that was credited, with the row it was credited to.
Seconds == UNION {{e} \X (1 .. worked[e]) : e \in Entry}
Total == Cardinality(Seconds)

\* A phase credits at most its own length, however long nobody was there and
\* whatever the windows asked in between, and no second is credited twice: the
\* rows together were worked no longer than the clock has run, as long as every
\* request settled with a time no older than the one before it (service.py,
\* _focus_settle).
CreditIsWork ==
    /\ Total <= phases * Length["focus"]
    /\ ~overtaken => Total <= clock

\* Two windows that both see a phase end and both ask for the next one move the
\* session on once; the second must not skip a break (service.py, focus_clock).
AdvancesOnce == [][
    \A w \in Window :
        asked[w].do \in {"next", "keep_going"} /\ asked'[w] = NoRequest /\ boundary' # boundary
            => asked[w].boundary = boundary \/ asked[w].boundary < begun]_vars

-----------------------------------------------------------------------------
(* The invariant of DayProofs: within a session each boundary has a later      *)
(* place in the round of phases, so what a window saw of an earlier one        *)
(* is no longer what the session shows.                                       *)

Place(s) == 2 * s.intervals + (IF s.phase = "focus" THEN 1 ELSE 0)

Moves(w) == asked[w].do \in {"next", "keep_going"}

InOrder ==
    /\ begun <= boundary
    /\ \A w \in Window : Moves(w) =>
        /\ asked[w].phase \in Phase
        /\ asked[w].boundary <= boundary
        /\ asked[w].boundary = boundary => Place(asked[w]) = Place(session)
        /\ begun <= asked[w].boundary /\ asked[w].boundary < boundary
                => Place(asked[w]) < Place(session)

\* What the focus phase under way may still credit.
LeftToCredit ==
    IF session # NoSession /\ session.phase = "focus"
    THEN Most(0, session.length - session.elapsed) ELSE 0

\* Phases are paid for in advance: what they have credited, and what the one under
\* way may still credit, is no more than their length.
Paid ==
    /\ session # NoSession /\ session.phase = "focus" => session.length = Length["focus"]
    /\ Total + LeftToCredit <= phases * Length["focus"]

\* No request has read a later time than it is, and as long as none was overtaken,
\* what is credited lies before the latest of them and before the anchor.
OnTime ==
    /\ latest <= clock
    /\ \A w \in Window : asked[w] # NoRequest => asked[w].now <= clock
    /\ ~overtaken => /\ Total <= latest
                     /\ session # NoSession /\ session.since # Nil => Total <= session.since

CInv == IsFiniteSet(Seconds) /\ Paid /\ OnTime

=============================================================================
