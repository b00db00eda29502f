------------------------------ MODULE Resource ------------------------------
(***************************************************************************)
(* What a CalDAV resource is to Smylte: a body at an href.  Of a body the  *)
(* sync engine tells apart only the UID it claims, what smylted can read   *)
(* of it, and whether two bodies are the same bytes.  Radicale's etag is a *)
(* hash of the content, so comparing etags is comparing bodies.            *)
(***************************************************************************)
CONSTANTS
    Href,       \* the resource paths of the collection
    UID,        \* iCalendar UIDs
    Version,    \* contents that differ in something other than UID and kind
    Absent      \* no resource at an href, and no row for a UID

\* "item": a VTODO or VEVENT.  "other": a component smylted does not track.
\* "poison": a body it cannot extract or store, which still names its UID.
Kind == {"item", "other", "poison"}
Body == [uid : UID, kind : Kind, ver : Version]
ItemBody == [uid : UID, kind : {"item"}, ver : Version]

ASSUME AbsentAssumption == Absent \notin Body

=============================================================================
