------------------------------- MODULE Series -------------------------------
(***************************************************************************)
(* A recurring event and what the edits of one occurrence, of the whole     *)
(* series and of "this and following" make of it (ical/edit.py), with the   *)
(* occurrences a calendar then shows (ical/recur.py).                       *)
(*                                                                          *)
(* Slots are integers up to Horizon, a rule is a regular step, and the      *)
(* texts of an event are one note.  Zones, all-day events, lengths and the  *)
(* parts of a rule that select days are left out.                           *)
(***************************************************************************)
EXTENDS Integers, FiniteSets

CONSTANTS Horizon, Note, Keep, None

ASSUME SeriesAssumption == Horizon \in Nat /\ Keep \notin Note /\ None \notin Int

Rule == [step : Nat, until : Int \cup {None}, count : Nat]

\* No RRULE: the event happens once, and on its RDATEs.
Once == [step |-> 0, until |-> None, count |-> 0]

\* A VEVENT with a RECURRENCE-ID: the occurrence of that slot happens at another
\* time with another text; a ranged one (RANGE=THISANDFUTURE) moves those after
\* it as far.
Override == [slot : Int, at : Int, note : Note, ranged : BOOLEAN]

Resource == [start : Int, rule : Rule, ex : SUBSET Int, rd : SUBSET Int, note : Note,
             over : SUBSET Override]

\* A change the owner asks for: a new start and a new text for the occurrence
\* picked, a new rule for the series.
EventEdit == [start : Int \cup {Keep}, note : Note \cup {Keep}, rule : Rule \cup {Keep}]

-----------------------------------------------------------------------------
(* What a resource shows.                                                   *)

Generated(s) ==
    IF s.rule.step = 0 THEN {s.start}
    ELSE {x \in s.start .. Horizon :
            /\ (x - s.start) % s.rule.step = 0
            /\ s.rule.until # None => x <= s.rule.until
            /\ s.rule.count > 0 => (x - s.start) \div s.rule.step < s.rule.count}

Slots(s) == Generated(s) \cup s.rd

OverridesAt(s, x) == {o \in s.over : o.slot = x}

\* The last ranged override before a slot, as a set of at most one.
Governing(s, x) ==
    {o \in s.over : /\ o.ranged /\ o.slot < x
                    /\ \A p \in s.over : p.ranged /\ p.slot < x => p.slot <= o.slot}

ShiftOf(o) == o.at - o.slot

\* What an occurrence takes its time and text from.
SourceOf(s, x) == IF OverridesAt(s, x) # {} THEN OverridesAt(s, x) ELSE Governing(s, x)

Occurrence(s, x) ==
    LET source == SourceOf(s, x) IN
    IF source = {} THEN [slot |-> x, at |-> x, note |-> s.note]
    ELSE LET o == CHOOSE o \in source : TRUE
         IN [slot |-> x, at |-> x + ShiftOf(o), note |-> o.note]

\* An override of a single slot shows whether or not the slot is one.
Shown(s) ==
    {Occurrence(s, x) : x \in (Slots(s) \ s.ex) \cup {o.slot : o \in {p \in s.over : ~p.ranged}}}

-----------------------------------------------------------------------------
(* The occurrence an edit names.                                            *)

Generates(s, x) ==
    x \in s.rd \/ (s.rule.step > 0 /\ x \in {s.start} \cup Generated(s))

Addressable(s, x) ==
    \/ OverridesAt(s, x) # {}
    \/ (s.rule.step > 0 \/ s.rd # {}) /\ (x = s.start \/ Generates(s, x))

-----------------------------------------------------------------------------
(* "This event".                                                            *)

Applied(o, e) ==
    [o EXCEPT !.at = IF e.start = Keep THEN @ ELSE e.start,
              !.note = IF e.note = Keep THEN @ ELSE e.note]

SingleOf(s, x) ==
    LET o == Occurrence(s, x) IN [slot |-> x, at |-> o.at, note |-> o.note, ranged |-> FALSE]

\* _claimed_anchors: the slots that are spoken for.
Claimed(s) == {o.slot : o \in s.over}

Excluded(s, x) == x \in s.ex

\* The next slot a ranged override can move to.
FreeAfter(s, x) == {y \in Slots(s) : y > x /\ y \notin Claimed(s) /\ ~Excluded(s, y)}

NextFree(s, x) == CHOOSE y \in FreeAfter(s, x) : \A z \in FreeAfter(s, x) : y <= z

\* A ranged override gives up its own slot and goes on governing from the next.
Rehomed(s, g) ==
    IF FreeAfter(s, g.slot) = {} THEN {}
    ELSE LET y == NextFree(s, g.slot) IN {[g EXCEPT !.slot = y, !.at = y + ShiftOf(g)]}

ApplyOccurrenceOverride(s, x, e) ==
    LET ranged == {o \in OverridesAt(s, x) : o.ranged}
    IN [s EXCEPT !.over = (@ \ OverridesAt(s, x)) \cup {Applied(SingleOf(s, x), e)}
                            \cup UNION {Rehomed(s, g) : g \in ranged}]

ExcludeOccurrence(s, x) ==
    [s EXCEPT !.ex = @ \cup {x}, !.over = {o \in @ : o.slot = x => o.ranged}]

-----------------------------------------------------------------------------
(* "All events".                                                            *)

\* The overrides of slots that a new rule does not generate go with the old one.
ReconcileOverrides(s) ==
    [s EXCEPT !.over = {o \in @ : o.slot \in s.rd \/ (s.rule.step > 0 /\ o.slot \in Generated(s))}]

\* The text and the rule of an edit on the master, once the times are settled.
ApplyEventChanges(s, old, e) ==
    LET new == [s EXCEPT !.note = IF e.note = Keep THEN @ ELSE e.note,
                         !.rule = IF e.rule = Keep THEN @ ELSE e.rule]
    IN IF e.rule # Keep /\ e.rule # old THEN ReconcileOverrides(new) ELSE new

MovedDates(S, d) == {x + d : x \in S}

MovedOverride(o, d) == [o EXCEPT !.slot = @ + d, !.at = @ + d]

\* _shift_until, without the edges of the calendar.
MovedUntil(until, d) == IF until = None THEN None ELSE until + d

\* The end of a rule moves along, its count is what it was.
MovedRule(rule, d) == [rule EXCEPT !.until = MovedUntil(@, d)]

\* Everything in the resource moves as one.
Moved(s, d) ==
    [s EXCEPT !.start = @ + d, !.ex = MovedDates(@, d), !.rd = MovedDates(@, d),
              !.rule = MovedRule(@, d), !.over = {MovedOverride(o, d) : o \in @}]

\* Where an occurrence is dragged from: where its own override put it, or else
\* its slot.
DraggedFrom(s, x) ==
    IF OverridesAt(s, x) = {} THEN x ELSE (CHOOSE o \in OverridesAt(s, x) : TRUE).at

\* How far the owner has moved the occurrence.
Delta(s, x, e) == IF e.start = Keep THEN 0 ELSE e.start - DraggedFrom(s, x)

ShiftSeries(s, x, e) == ApplyEventChanges(Moved(s, Delta(s, x, e)), s.rule, e)

-----------------------------------------------------------------------------
(* "This and following".                                                    *)

CountConsumed(s, x) == Cardinality({y \in Generated(s) : y < x})

\* The rule of the head ends before the anchor; one that ends there already is
\* left alone.
BoundHeadRule(s, x) ==
    IF \/ s.rule.step = 0
       \/ s.rule.until # None /\ s.rule.until < x
       \/ s.rule.until = None /\ s.rule.count > 0 /\ CountConsumed(s, x) >= s.rule.count
    THEN s.rule
    ELSE [s.rule EXCEPT !.until = x - 1, !.count = 0]

Before(S, x) == {y \in S : y < x}
From(S, x) == {y \in S : y >= x}

OverridesBefore(s, x) == {o \in s.over : o.slot < x}
OverridesFrom(s, x) == {o \in s.over : o.slot >= x}

HeadIsEmpty(s, x) == s.start >= x /\ Before(s.rd, x) = {}

Head(s, x) ==
    IF HeadIsEmpty(s, x) THEN None
    ELSE [s EXCEPT !.rule = BoundHeadRule(s, x), !.rd = Before(@, x), !.ex = Before(@, x),
                   !.over = OverridesBefore(s, x)]

TailRule(s, x, start) ==
    IF s.rule.step > 0 /\ s.rule.count > 0
    THEN LET left == s.rule.count - CountConsumed(s, x)
         IN [s.rule EXCEPT !.count = IF left < 1 THEN 1 ELSE left]
    ELSE IF s.rule.until # None /\ s.rule.until < start THEN Once
    ELSE s.rule

\* The text of the ranged override that governs the anchor is folded into the tail.
FoldedNote(s, x) ==
    LET g == Governing(s, x) IN IF g = {} THEN s.note ELSE (CHOOSE o \in g : TRUE).note

\* The tail starts where the anchor is shown.
TailStart(s, x) ==
    LET g == Governing(s, x) IN IF g = {} THEN x ELSE x + ShiftOf(CHOOSE o \in g : TRUE)

Tail(s, x, e) ==
    LET start == TailStart(s, x)
        tail == [start |-> start, rule |-> TailRule(s, x, start),
                 ex |-> From(s.ex, x), rd |-> From(s.rd, x), note |-> FoldedNote(s, x),
                 over |-> OverridesFrom(s, x)]
    IN ApplyEventChanges(Moved(tail, Delta(s, x, e)), s.rule, e)

\* split_series: the two resources a series becomes.
SplitSeries(s, x, e) == [head |-> Head(s, x), tail |-> Tail(s, x, e)]

=============================================================================
