---------------------------- MODULE SeriesEdits ----------------------------
(***************************************************************************)
(* The owner edits a recurring event that other clients edit too: one       *)
(* occurrence, all of them, or "this and following", which puts the later   *)
(* occurrences into a new resource before it takes them out of the old one  *)
(* (sync/engine.py, _edit and split_event; service.py, edit_event and       *)
(* delete_event).                                                           *)
(*                                                                          *)
(* The etag of a resource stands for its content.  The requests of one edit *)
(* are steps of their own, because other clients write between them.        *)
(***************************************************************************)
EXTENDS Series

CONSTANTS
    Initial,        \* the resources to begin with
    Edits,          \* what the owner may ask for, the start as an offset
    ForeignNote,    \* what another client calls an occurrence it edits
    Window,         \* occurrences are compared up to this time
    MaxOps, MaxForeign, MaxFaults

VARIABLES
    home,       \* the resource on the wire, None once deleted
    tail,       \* what a split has put beside it, None if nothing
    cached,     \* the cache's copy of home
    pc,
    op,         \* the edit under way, or the last one
    past,       \* history: what home would be without the edit
    outcome,    \* history: how the last edit ended
    ops, foreign, faults

seriesVars == <<home, tail, cached, pc, op, past, outcome, ops, foreign, faults>>

Scope == {"this", "all", "following", "skip", "rest"}

\* "this" and "skip" name one occurrence, "following" and "rest" it and those
\* after it, "skip" and "rest" delete.
NoOp == [scope |-> "all", slot |-> 0, edit |-> [start |-> Keep, note |-> Keep, rule |-> Keep],
         base |-> None, head |-> None, tail |-> None, retried |-> FALSE]

SeriesInit ==
    /\ home \in Initial
    /\ tail = None /\ cached = home
    /\ pc = "idle" /\ op = NoOp
    /\ past = None /\ outcome = "none"
    /\ ops = 0 /\ foreign = 0 /\ faults = 0

-----------------------------------------------------------------------------
(* The edit of a copy.                                                      *)

Refused(scope, s, x, e) ==
    CASE scope \in {"this", "skip"} -> ~Addressable(s, x)
      [] scope = "all" -> e.start # Keep /\ ~(Addressable(s, x) \/ x = s.start)
      [] OTHER -> ~Generates(s, x)

\* "All events", of which one may have been dragged.
EditAll(s, x, e) ==
    IF e.start = Keep THEN ApplyEventChanges(s, s.rule, e) ELSE ShiftSeries(s, x, e)

NewHead(scope, s, x, e) ==
    CASE scope = "this" -> ApplyOccurrenceOverride(s, x, e)
      [] scope = "skip" -> ExcludeOccurrence(s, x)
      [] scope = "all" -> EditAll(s, x, e)
      [] OTHER -> SplitSeries(s, x, e).head

NewTail(scope, s, x, e) == IF scope = "following" THEN SplitSeries(s, x, e).tail ELSE None

Built(o, s, again) ==
    [o EXCEPT !.base = s, !.head = NewHead(o.scope, s, o.slot, o.edit),
              !.tail = NewTail(o.scope, s, o.slot, o.edit), !.retried = again]

\* A delete or an edit of single occurrences has no rule and moves nothing else.
Allowed(scope, e) ==
    CASE scope \in {"skip", "rest"} -> e = [start |-> Keep, note |-> Keep, rule |-> Keep]
      [] scope = "this" -> e.rule = Keep
      [] OTHER -> TRUE

\* What the calendar shows of a resource that may be gone.
Occurrences(s) == IF s = None THEN {} ELSE Shown(s)

\* The owner picks an occurrence on the screen.
Ask(scope, o, by) ==
    LET e == [by EXCEPT !.start = IF @ = Keep THEN Keep ELSE o.at + @]
    IN  /\ pc = "idle" /\ cached # None /\ tail = None
        /\ ops < MaxOps
        /\ Allowed(scope, by)
        /\ ~Refused(scope, cached, o.slot, e)
        /\ op' = Built([NoOp EXCEPT !.scope = scope, !.slot = o.slot, !.edit = e], cached, FALSE)
        /\ pc' = IF scope = "following" THEN "tail" ELSE "head"
        /\ ops' = ops + 1
        /\ past' = home /\ outcome' = "none"
        /\ UNCHANGED <<home, tail, cached, foreign, faults>>

-----------------------------------------------------------------------------
(* The requests.                                                            *)

End(how) == pc' = "idle" /\ outcome' = how

PutTail ==
    /\ pc = "tail"
    /\ tail' = op.tail
    /\ pc' = "head"
    /\ UNCHANGED <<home, cached, op, past, outcome, ops, foreign, faults>>

\* A DELETE of what is gone is as good as done.
Writable == home = op.base \/ (home = None /\ op.head = None)

WriteHead ==
    /\ pc = "head"
    /\ IF Writable THEN home' = op.head /\ pc' = "refresh"
       ELSE home' = home /\ pc' = IF op.retried THEN "undo" ELSE "reread"
    /\ UNCHANGED <<tail, cached, op, past, outcome, ops, foreign, faults>>

\* Mutant: the tail is left as it was built from the stale copy.
RereadHeadOnly ==
    /\ pc = "reread"
    /\ IF home = None \/ Refused(op.scope, home, op.slot, op.edit)
       THEN pc' = "undo" /\ op' = op
       ELSE op' = Built(op, home, TRUE) /\ pc' = "head"
    /\ UNCHANGED <<home, tail, cached, past, outcome, ops, foreign, faults>>

\* The edit starts over from what another client has made of the resource.
Reread ==
    /\ pc = "reread"
    /\ IF home = None \/ Refused(op.scope, home, op.slot, op.edit)
       THEN pc' = "undo" /\ op' = op
       ELSE op' = Built(op, home, TRUE) /\ pc' = IF op.scope = "following" THEN "tail" ELSE "head"
    /\ UNCHANGED <<home, tail, cached, past, outcome, ops, foreign, faults>>

\* Mutant: the tail of a split that failed is left.
UndoNothing ==
    /\ pc = "undo"
    /\ End("failed")
    /\ UNCHANGED <<home, tail, cached, op, past, ops, foreign, faults>>

Undo ==
    /\ pc = "undo"
    /\ tail' = None
    /\ End("failed")
    /\ UNCHANGED <<home, cached, op, past, ops, foreign, faults>>

\* What another client has deleted since cannot be read back.
Refresh ==
    /\ pc = "refresh"
    /\ IF home = None /\ op.head # None THEN End("unknown") /\ UNCHANGED cached
       ELSE cached' = home /\ End("done")
    /\ UNCHANGED <<home, tail, op, past, ops, foreign, faults>>

-----------------------------------------------------------------------------
(* Faults.                                                                  *)

Fault == faults < MaxFaults /\ faults' = faults + 1

\* Mutant: a split that fails takes its tail with it, whatever became of the head.
HeadUncertainNever == FALSE

\* The head may have been written although no answer came.
HeadUncertain == pc = "head"

\* A request fails: it was never made, or its answer is lost.
Unanswered ==
    /\ Fault
    /\ \/ /\ pc \in {"tail", "head", "undo"}
          /\ UNCHANGED <<home, tail>>
       \/ /\ pc = "tail" /\ tail' = op.tail /\ home' = home
       \/ /\ pc = "head" /\ Writable /\ home' = op.head /\ tail' = tail
       \/ /\ pc = "undo" /\ tail' = None /\ home' = home
       \/ /\ pc \in {"reread", "refresh"} /\ UNCHANGED <<home, tail>>
    /\ IF pc = "reread" \/ (pc = "tail" /\ op.retried)
          \/ (pc = "head" /\ op.scope = "following" /\ ~HeadUncertain)
       THEN pc' = "undo" /\ UNCHANGED outcome
       ELSE End(IF pc = "refresh" THEN "done" ELSE "unknown")
    /\ UNCHANGED <<cached, op, past, ops, foreign>>

Crash ==
    /\ pc # "idle"
    /\ Fault
    /\ End(IF pc = "refresh" THEN "done" ELSE "unknown")
    /\ UNCHANGED <<home, tail, cached, op, past, ops, foreign>>

-----------------------------------------------------------------------------
(* Other clients, and the sync passes.                                      *)

\* Another client renames or deletes an occurrence, ends the series before it, or
\* deletes the resource.
ForeignEdit ==
    /\ foreign < MaxForeign
    /\ home # None
    /\ \/ home' = None
       \/ \E o \in Shown(home), how \in {"skip", "this", "rest"} :
             LET e == [start |-> Keep, note |-> IF how = "this" THEN ForeignNote ELSE Keep,
                       rule |-> Keep]
             IN  ~Refused(how, home, o.slot, e) /\ home' = NewHead(how, home, o.slot, e)
    /\ past' = IF pc \in {"idle", "refresh"} THEN None ELSE home'
    /\ outcome' = "none"
    /\ foreign' = foreign + 1
    /\ UNCHANGED <<tail, cached, pc, op, ops, faults>>

\* A sync pass.
Sync ==
    /\ pc = "idle" /\ cached # home
    /\ cached' = home
    /\ UNCHANGED <<home, tail, pc, op, past, outcome, ops, foreign, faults>>


SeriesNext ==
    \/ \E scope \in Scope, o \in Occurrences(cached), e \in Edits : Ask(scope, o, e)
    \/ PutTail \/ WriteHead \/ Reread \/ Undo \/ Refresh
    \/ Unanswered \/ Crash
    \/ ForeignEdit \/ Sync

SeriesSpec == SeriesInit /\ [][SeriesNext]_seriesVars

-----------------------------------------------------------------------------
(* What the owner asked for, and what there is.                             *)

Visible(S) == {o \in S : o.at <= Window}

\* How often each time and text is on the calendar.
Agenda(here, there) ==
    LET all == {<<1, o>> : o \in Visible(here)} \cup {<<2, o>> : o \in Visible(there)}
        Told(p) == <<p[2].at, p[2].note>>
    IN [v \in {Told(p) : p \in all} |-> Cardinality({p \in all : Told(p) = v})]

\* An edit of the series changes the text of the occurrences that have the
\* series' own, not of those that were given another.
Renamed(o, s, plain, e) ==
    IF e.note = Keep \/ SourceOf(s, o.slot) \notin plain THEN o ELSE [o EXCEPT !.note = e.note]

\* How far the owner drags the occurrence from where it is shown.
Dragged(s, o) ==
    IF o.edit.start = Keep THEN 0 ELSE o.edit.start - Occurrence(s, o.slot).at

Following(s, o) ==
    {[Renamed(p, s, {{}, Governing(s, o.slot)}, o.edit) EXCEPT !.at = @ + Dragged(s, o)] :
        p \in {q \in Shown(s) : q.slot >= o.slot}}

Promised(s, o) ==
    LET shown == Shown(s)
        earlier == {p \in shown : p.slot < o.slot}
        others == {p \in shown : p.slot # o.slot}
    IN CASE o.scope = "this" -> others \cup {Applied(p, o.edit) : p \in shown \ others}
         [] o.scope = "skip" -> others
         [] o.scope = "all" -> {[Renamed(p, s, {{}}, o.edit) EXCEPT !.at = @ + Dragged(s, o)] :
                                    p \in shown}
         [] o.scope = "rest" -> earlier
         [] OTHER -> earlier \cup Following(s, o)

OnSchedule(s) == {o.slot : o \in Shown(s)} = Slots(s) \ s.ex

-----------------------------------------------------------------------------
(* Where the code does otherwise.                                           *)

\* A shift of the ranged override that governs the anchor is applied to the
\* start of the tail and of a drag, and to nothing else.
ShiftedTwice(s, o) ==
    \E g \in Governing(s, o.slot) :
        /\ ShiftOf(g) # 0
        /\ \/ o.scope = "all" /\ o.edit.start # Keep /\ OverridesAt(s, o.slot) = {}
           \/ /\ o.scope = "following"
              /\ \/ o.edit.start # Keep \/ s.rule.until # None
                 \/ From(s.ex \cup s.rd \cup {p.slot : p \in s.over}, o.slot) # {}

\* The rule of the tail is counted and stepped from an RDATE between its slots.
OffTheRule(s, o) ==
    /\ o.scope = "following" /\ o.slot \notin Generated(s)
    /\ \E y \in Generated(s) : y > o.slot

\* A ranged override that gives up its slot moves past the next one.
Overtaken(s, o) ==
    /\ o.scope = "this"
    /\ \E g, h \in s.over : g.ranged /\ h.ranged /\ g.slot = o.slot /\ h.slot > g.slot

\* The occurrence was deleted by another client in the meantime.
Revived(s, o) == o.scope = "this" /\ o.slot \in s.ex

Excepted(s, o) ==
    ShiftedTwice(s, o) \/ OffTheRule(s, o) \/ Overtaken(s, o) \/ Revived(s, o)

-----------------------------------------------------------------------------
(* Properties.                                                              *)

Compared == past # None /\ ~Excepted(past, op)

\* An edit that goes through changes the occurrences the owner meant, in the
\* resource as other clients have left it, and no other; a new rule leaves
\* nothing on a day it does not name.
EditedAsAsked ==
    pc = "refresh" /\ Compared =>
        IF op.edit.rule = Keep
        THEN Agenda(Occurrences(home), Occurrences(tail)) = Agenda(Promised(past, op), {})
        ELSE OnSchedule(IF op.scope = "all" THEN home ELSE tail)

\* However a split ends, and all the while, every occurrence is on the calendar:
\* as it was, or as the owner wants it.
NothingLost ==
    op.scope = "following" /\ op.edit.rule = Keep /\ Compared =>
        LET here == Visible(Occurrences(home))
            there == {<<p.at, p.note>> : p \in Occurrences(tail)}
            x == op.slot
        IN \/ Visible(Shown(past)) \subseteq here
           \/ /\ {p \in Visible(Shown(past)) : p.slot < x} \subseteq here
              /\ \A p \in Visible(Following(past, op)) : <<p.at, p.note>> \in there

\* An edit that is reported to have failed has changed nothing, unless an
\* answer was lost.
FailsWhole == outcome = "failed" => home = past /\ tail = None

\* Until its first part is written, an edit has changed nothing of the resource, and
\* one that failed is over: what makes FailsWhole inductive.
Unwritten ==
    /\ FailsWhole
    /\ pc \in {"tail", "head", "reread", "undo"} => home = past
    /\ outcome = "failed" => pc = "idle"

\* The edit, made of the resource as other clients have left it.
Landed ==
    /\ home = NewHead(op.scope, past, op.slot, op.edit)
    /\ tail = NewTail(op.scope, past, op.slot, op.edit)

\* However an edit ends, and all the while, its resource is as it would be without
\* the edit, or it is as edited and the tail of the same split is beside it; after one
\* that is reported done it is as edited.
EditIsWhole ==
    past # None =>
        /\ home = past \/ Landed
        /\ pc = "refresh" \/ outcome = "done" => Landed

\* Both parts are built from one copy, the tail is put before the head, and only a
\* split has one: what makes EditIsWhole inductive.
EditInv ==
    /\ Unwritten /\ EditIsWhole
    /\ op = [scope |-> op.scope, slot |-> op.slot, edit |-> op.edit, base |-> op.base,
             head |-> op.head, tail |-> op.tail, retried |-> op.retried]
    /\ pc \in {"tail", "head"} =>
           /\ op.head = NewHead(op.scope, op.base, op.slot, op.edit)
           /\ op.tail = NewTail(op.scope, op.base, op.slot, op.edit)
    /\ pc = "head" => tail = op.tail
    /\ pc # "idle" /\ op.scope # "following" => tail = None /\ pc # "tail"
    /\ outcome = "done" => pc = "idle"
=============================================================================
