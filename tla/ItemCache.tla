----------------------------- MODULE ItemCache ------------------------------
(***************************************************************************)
(* backend/smylted/db/store.py: what the statements on the tables `items`  *)
(* and `sidecar` do to one collection's rows.  A cache c is a record:      *)
(*   c.rows[u]  the row of UID u (its href and the bytes it caches), or    *)
(*              Absent; (collection, uid) is the key of `items`;           *)
(*   c.side[u]  the sidecar row of u: "none", "live" (orphaned_at IS NULL),*)
(*              "fresh" (orphaned within gc_orphans' seven days) or "aged".*)
(* Categories and the FTS index are written and dropped with their row and *)
(* are not modelled apart from it.                                         *)
(***************************************************************************)
EXTENDS Resource

Row == [href : Href, body : ItemBody]
Mark == {"none", "live", "fresh", "aged"}
Cache == [rows : [UID -> Row \cup {Absent}], side : [UID -> Mark]]

ASSUME RowAssumption == Absent \notin Row

EmptyCache == [rows |-> [u \in UID |-> Absent], side |-> [u \in UID |-> "none"]]

Cached(c) == {u \in UID : c.rows[u] # Absent}
UidsAt(c, h) == {u \in Cached(c) : c.rows[u].href = h}

\* Delete the rows of `gone` and stamp the sidecars they leave behind.
Remove(c, gone) ==
    [rows |-> [u \in UID |-> IF u \in gone THEN Absent ELSE c.rows[u]],
     side |-> [u \in UID |-> IF u \in gone /\ c.side[u] = "live"
                             THEN "fresh" ELSE c.side[u]]]

DropHref(c, h) == Remove(c, UidsAt(c, h))

\* Mutant: the href's former UID keeps its row.
UpsertNoEvict(c, h, b) ==
    [rows |-> [c.rows EXCEPT ![b.uid] = [href |-> h, body |-> b]],
     side |-> [c.side EXCEPT ![b.uid] = IF @ = "none" THEN "none" ELSE "live"]]

\* A resource read at h: evict whatever other UID h was cached for, write the
\* row its UID keys wherever that row pointed before, and clear the orphan mark.
Upsert(c, h, b) ==
    LET e == Remove(c, UidsAt(c, h) \ {b.uid}) IN
    [rows |-> [e.rows EXCEPT ![b.uid] = [href |-> h, body |-> b]],
     side |-> [e.side EXCEPT ![b.uid] = IF @ = "none" THEN "none" ELSE "live"]]

\* Delete the sidecars that have been orphaned for more than seven days.
GcOrphans(c) ==
    [c EXCEPT !.side = [u \in UID |-> IF c.side[u] = "aged" THEN "none" ELSE c.side[u]]]

\* Mutant: a sidecar is written for whatever UID is named.
SetSidecarUnguarded(c, u) == IF c.side[u] = "none" THEN [c EXCEPT !.side[u] = "live"] ELSE c

\* Write an app-only field, for a UID that names a cached item and no other.
SetSidecar(c, u) ==
    IF c.rows[u] # Absent /\ c.side[u] = "none"
    THEN [c EXCEPT !.side[u] = "live"] ELSE c

\* Seven days pass for an orphan.
Age(c, u) == [c EXCEPT !.side[u] = IF @ = "fresh" THEN "aged" ELSE @]

-----------------------------------------------------------------------------

\* One row per href: a ghost row would hand out the href of a live resource.
OneRowPerHref(c) ==
    \A u, v \in Cached(c) : c.rows[u].href = c.rows[v].href => u = v

\* A row caches a body that carries the row's own UID.
KeyedOnUid(c) == \A u \in Cached(c) : c.rows[u].body.uid = u

\* An unmarked sidecar has an item and a marked one has none: the first can
\* never be reclaimed otherwise, and the second is one gc away from being lost.
SidecarMarked(c) ==
    \A u \in UID : /\ c.side[u] = "live" => u \in Cached(c)
                   /\ c.side[u] \in {"fresh", "aged"} => u \notin Cached(c)

CacheOK(c) == OneRowPerHref(c) /\ KeyedOnUid(c) /\ SidecarMarked(c)

=============================================================================
