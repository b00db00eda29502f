------------------------------ MODULE Radicale ------------------------------
(***************************************************************************)
(* The CalDAV server one collection of which Smylte mirrors, as the code   *)
(* in backend/smylted/dav/client.py uses it (docs/phase0-findings.md).     *)
(*                                                                         *)
(* A sync token names the position of the collection's history it was      *)
(* issued at.                                                              *)
(***************************************************************************)
EXTENDS Resource, Integers

CONSTANT MaxClock   \* bound: foreign clients stop writing once clock reaches it

ASSUME ClockAssumption == MaxClock \in Nat

VARIABLES
    wire,       \* wire[h]: the body stored at h, or Absent
    changedAt,  \* changedAt[h]: the position at which h last changed
    clock       \* the current position of the collection's history

serverVars == <<wire, changedAt, clock>>

Present == {h \in Href : wire[h] # Absent}

\* Radicale answers 409 to a PUT whose UID another resource of the collection has.
UidFree(h, u) == \A g \in Present \ {h} : wire[g].uid # u

\* A position before every change: the empty sync token.
NoToken == -1

\* A sync-collection REPORT with `token` lists these hrefs, atomically.
ChangedSince(token) == {h \in Present : changedAt[h] > token}
RemovedSince(token) == {h \in Href \ Present : changedAt[h] > token}

-----------------------------------------------------------------------------

ServerTypeOK ==
    /\ wire \in [Href -> Body \cup {Absent}]
    /\ changedAt \in [Href -> Nat]
    /\ clock \in Nat

\* Smylte may be pointed at a collection that other clients have filled.
ServerInit ==
    /\ wire \in [Href -> Body \cup {Absent}]
    /\ \A h \in Present : UidFree(h, wire[h].uid)
    /\ changedAt = [h \in Href |-> 0]
    /\ clock = 0

Store(h, b) ==
    /\ wire' = [wire EXCEPT ![h] = b]
    /\ changedAt' = [changedAt EXCEPT ![h] = clock + 1]
    /\ clock' = clock + 1

\* Another CalDAV client creates a resource or rewrites one in place, with
\* the same UID or another.
ForeignPut(h, b) ==
    /\ clock < MaxClock
    /\ wire[h] # b
    /\ UidFree(h, b.uid)
    /\ Store(h, b)

ForeignDelete(h) ==
    /\ clock < MaxClock
    /\ wire[h] # Absent
    /\ Store(h, Absent)

Foreign ==
    \E h \in Href : ForeignDelete(h) \/ \E b \in Body : ForeignPut(h, b)

-----------------------------------------------------------------------------

\* Bodies have distinct UIDs, and nothing changed after the current position.
ServerInv ==
    /\ \A h \in Present : UidFree(h, wire[h].uid)
    /\ \A h \in Href : changedAt[h] <= clock

=============================================================================
