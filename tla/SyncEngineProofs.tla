-------------------------- MODULE SyncEngineProofs --------------------------
(***************************************************************************)
(* The sync engine, for every set of hrefs, UIDs and versions and every    *)
(* bound: type correctness, and from the inductive invariant IInv the      *)
(* soundness of the cache and of the recorded token.                       *)
(***************************************************************************)
EXTENDS SyncEngine, TLAPS

-----------------------------------------------------------------------------
(* What the operators of the cache preserve, for every cache.                *)

\* Deleting rows keeps a cache a cache (delete_item_by_href, _evict_uid).
LEMMA RemoveType ==
    ASSUME NEW c \in Cache, NEW gone
    PROVE  Remove(c, gone) \in Cache
BY DEF Remove, Cache, Mark

\* Upserting an item keeps a cache a cache (upsert_item).
LEMMA UpsertType ==
    ASSUME NEW c \in Cache, NEW h \in Href, NEW b \in ItemBody
    PROVE  Upsert(c, h, b) \in Cache
<1> DEFINE e == Remove(c, UidsAt(c, h) \ {b.uid})
<1>1. e \in Cache
  BY RemoveType
<1>2. b.uid \in UID /\ [href |-> h, body |-> b] \in Row
  BY DEF ItemBody, Row
<1>3. QED
  BY <1>1, <1>2 DEF Upsert, Cache, Mark

\* The statements that touch sidecars only keep a cache a cache.
LEMMA SidecarType ==
    ASSUME NEW c \in Cache, NEW u \in UID
    PROVE  /\ GcOrphans(c) \in Cache
           /\ SetSidecar(c, u) \in Cache
           /\ Age(c, u) \in Cache
BY DEF GcOrphans, SetSidecar, Age, Cache, Mark

LEMMA EmptyCacheType == EmptyCache \in Cache
BY DEF EmptyCache, Cache, Mark

-----------------------------------------------------------------------------

\* Deleting rows leaves one row per href, each keyed on its UID.
LEMMA RemoveKeepsRows ==
    ASSUME NEW c \in Cache, OneRowPerHref(c), KeyedOnUid(c), NEW gone
    PROVE  OneRowPerHref(Remove(c, gone)) /\ KeyedOnUid(Remove(c, gone))
<1> DEFINE d == Remove(c, gone)
<1>1. \A u \in UID : d.rows[u] = IF u \in gone THEN Absent ELSE c.rows[u]
  BY DEF Remove
<1>2. \A u \in UID : u \in Cached(d) <=> u \in Cached(c) /\ u \notin gone
  BY <1>1 DEF Cached
<1> HIDE DEF d
<1>3. OneRowPerHref(d) /\ KeyedOnUid(d)
  BY <1>1, <1>2 DEF OneRowPerHref, KeyedOnUid, Cached
<1> QED
  BY <1>3 DEF d

\* And it stamps the sidecars it orphans.
LEMMA RemoveSound ==
    ASSUME NEW c \in Cache, CacheOK(c), NEW gone
    PROVE  CacheOK(Remove(c, gone))
<1> DEFINE d == Remove(c, gone)
<1>1. \A u \in UID : d.rows[u] = IF u \in gone THEN Absent ELSE c.rows[u]
  BY DEF Remove
<1>2. \A u \in UID : d.side[u] = IF u \in gone /\ c.side[u] = "live"
                                 THEN "fresh" ELSE c.side[u]
  BY DEF Remove
<1>3. \A u \in UID : u \in Cached(d) <=> u \in Cached(c) /\ u \notin gone
  BY <1>1 DEF Cached
<1>4. OneRowPerHref(d) /\ KeyedOnUid(d)
  BY RemoveKeepsRows DEF CacheOK
<1> HIDE DEF d
<1>5. SidecarMarked(d)
  BY <1>2, <1>3 DEF CacheOK, SidecarMarked
<1>6. QED
  BY <1>4, <1>5 DEF CacheOK, d

\* The rows an upsert leaves: its own, and those of other UIDs at other hrefs.
LEMMA UpsertAt ==
    ASSUME NEW c \in Cache, NEW h \in Href, NEW b \in ItemBody
    PROVE  /\ Upsert(c, h, b).rows[b.uid] = [href |-> h, body |-> b]
           /\ Cached(Upsert(c, h, b))
                 = {u \in Cached(c) : c.rows[u].href # h} \cup {b.uid}
           /\ \A u \in UID \ {b.uid} :
                 Upsert(c, h, b).rows[u]
                   = IF u \in UidsAt(c, h) THEN Absent ELSE c.rows[u]
<1> DEFINE e == Remove(c, UidsAt(c, h) \ {b.uid})
           d == Upsert(c, h, b)
<1>1. e \in Cache
  BY RemoveType
<1>2. b.uid \in UID /\ [href |-> h, body |-> b] # Absent
  BY RowAssumption DEF ItemBody, Row
<1>3. \A u \in UID : d.rows[u] = IF u = b.uid THEN [href |-> h, body |-> b]
                                 ELSE e.rows[u]
  BY <1>1, <1>2 DEF Upsert, Cache
<1>4. \A u \in UID : e.rows[u] = IF u \in UidsAt(c, h) \ {b.uid} THEN Absent ELSE c.rows[u]
  BY DEF Remove
<1> HIDE DEF d, e
<1>5. Cached(d) = {u \in Cached(c) : c.rows[u].href # h} \cup {b.uid}
  BY <1>2, <1>3, <1>4 DEF Cached, UidsAt
<1> QED
  BY <1>2, <1>3, <1>4, <1>5 DEF d

LEMMA UpsertKeepsRows ==
    ASSUME NEW c \in Cache, OneRowPerHref(c), KeyedOnUid(c),
           NEW h \in Href, NEW b \in ItemBody
    PROVE  OneRowPerHref(Upsert(c, h, b)) /\ KeyedOnUid(Upsert(c, h, b))
<1> DEFINE d == Upsert(c, h, b)
<1>1. b.uid \in UID
  BY DEF ItemBody
<1>2. /\ d.rows[b.uid] = [href |-> h, body |-> b]
      /\ Cached(d) = {u \in Cached(c) : c.rows[u].href # h} \cup {b.uid}
      /\ \A u \in Cached(d) \ {b.uid} : d.rows[u] = c.rows[u] /\ c.rows[u].href # h
  BY <1>1, UpsertAt DEF Cached, UidsAt
<1> HIDE DEF d
<1>3. OneRowPerHref(d) /\ KeyedOnUid(d)
  BY <1>2 DEF OneRowPerHref, KeyedOnUid
<1> QED
  BY <1>3 DEF d

\* The row an upsert writes evicts any other UID's row at its href, so that the
\* href still has one row, and takes the mark off the UID's sidecar.
LEMMA UpsertSound ==
    ASSUME NEW c \in Cache, CacheOK(c), NEW h \in Href, NEW b \in ItemBody
    PROVE  CacheOK(Upsert(c, h, b))
<1> DEFINE e == Remove(c, UidsAt(c, h) \ {b.uid})
           d == Upsert(c, h, b)
<1>1. e \in Cache /\ CacheOK(e)
  BY RemoveType, RemoveSound
<1>2. b.uid \in UID /\ [href |-> h, body |-> b] # Absent
  BY RowAssumption DEF ItemBody, Row
<1>3. \A u \in UID : d.rows[u] = IF u = b.uid THEN [href |-> h, body |-> b]
                                 ELSE e.rows[u]
  BY <1>1, <1>2 DEF Upsert, Cache
<1>4. \A u \in UID : d.side[u] = IF u = b.uid
                                 THEN (IF e.side[u] = "none" THEN "none" ELSE "live")
                                 ELSE e.side[u]
  BY <1>1, <1>2 DEF Upsert, Cache
<1>5. \A u \in UID : u \in Cached(d) <=> u = b.uid \/ u \in Cached(e)
  BY <1>2, <1>3 DEF Cached
<1>6. OneRowPerHref(d) /\ KeyedOnUid(d)
  BY UpsertKeepsRows DEF CacheOK
<1> HIDE DEF d, e
<1>7. SidecarMarked(d)
  BY <1>1, <1>2, <1>4, <1>5 DEF CacheOK, SidecarMarked
<1>8. QED
  BY <1>6, <1>7 DEF CacheOK, d

\* Neither collecting orphans, nor setting a sidecar, nor the passing of time
\* creates a sidecar that no item owns and no mark will reclaim.
LEMMA SidecarSound ==
    ASSUME NEW c \in Cache, CacheOK(c), NEW u \in UID
    PROVE  /\ CacheOK(GcOrphans(c))
           /\ CacheOK(SetSidecar(c, u))
           /\ CacheOK(Age(c, u))
<1>1. CacheOK(GcOrphans(c))
  BY DEF GcOrphans, Cache, CacheOK, OneRowPerHref, KeyedOnUid, SidecarMarked, Cached
<1>2. CacheOK(SetSidecar(c, u))
  BY DEF SetSidecar, Cache, CacheOK, OneRowPerHref, KeyedOnUid, SidecarMarked, Cached
<1>3. CacheOK(Age(c, u))
  BY DEF Age, Cache, CacheOK, OneRowPerHref, KeyedOnUid, SidecarMarked, Cached
<1>4. QED
  BY <1>1, <1>2, <1>3

LEMMA EmptyCacheSound == CacheOK(EmptyCache)
BY DEF EmptyCache, CacheOK, OneRowPerHref, KeyedOnUid, SidecarMarked, Cached

-----------------------------------------------------------------------------
LEMMA ItemBodyKind ==
    ASSUME NEW b \in Body, b.kind = "item"
    PROVE  b \in ItemBody
BY DEF Body, ItemBody

LEMMA ItemIsBody == ItemBody \subseteq Body
BY DEF Body, ItemBody, Kind

LEMMA DropHrefType ==
    ASSUME NEW c \in Cache, NEW h
    PROVE  DropHref(c, h) \in Cache
BY RemoveType DEF DropHref

LEMMA RowType ==
    ASSUME NEW c \in Cache, NEW u \in UID, c.rows[u] # Absent
    PROVE  c.rows[u].href \in Href /\ c.rows[u].body \in ItemBody
BY DEF Cache, Row

LEMMA EditedType ==
    ASSUME NEW b \in Body, NEW v \in Version
    PROVE  Edited(b, v) \in Body
BY DEF Edited, Body

LEMMA StoreType ==
    ASSUME ServerTypeOK, NEW h \in Href, NEW b \in Body \cup {Absent}, Store(h, b)
    PROVE  ServerTypeOK'
BY DEF ServerTypeOK, Store

-----------------------------------------------------------------------------

LEMMA InitType == Init => TypeOK
BY EmptyCacheType
   DEF Init, TypeOK, ServerInit, ServerTypeOK, NoPass, Pass, NoToken

\* Each step of the sync pass keeps the types.
LEMMA SyncType ==
    ASSUME TypeOK, SyncStart \/ SyncStep \/ Fault
    PROVE  TypeOK'
<1>1. CASE SyncIncremental
  BY <1>1 DEF TypeOK, SyncIncremental, StartPass, Pass, NoPass, serverVars,
              ServerTypeOK, ChangedSince, RemovedSince, Present
<1>2. CASE SyncFull
  BY <1>2 DEF TypeOK, SyncFull, StartPass, Pass, NoPass, serverVars,
              ServerTypeOK, Present
<1>3. ASSUME NEW h \in Href, Read(h) PROVE TypeOK'
  <2>1. CASE wire[h] = Absent
    BY <1>3, <2>1 DEF TypeOK, Read, Pass, serverVars, ServerTypeOK
  <2>2. CASE wire[h] # Absent
    <3>1. wire[h] \in Body
      BY <2>2 DEF TypeOK, ServerTypeOK
    <3>2. work' \in Cache
      BY <1>3, <2>2, <3>1, ItemBodyKind, UpsertType, DropHrefType
         DEF TypeOK, Read, Apply
    <3>3. pass' \in Pass
      <4> DEFINE s == pass.skipped \/ wire[h].kind = "poison"
                 c == pass.claimed \cup IF wire[h].kind = "poison" THEN {wire[h].uid} ELSE {}
      <4>1. s \in BOOLEAN
        OBVIOUS
      <4>2. pass \in Pass /\ pass.todo \ {h} \in SUBSET Href /\ c \in SUBSET UID
        BY <3>1 DEF TypeOK, Pass, Body
      <4>3. pass' = [pass EXCEPT !.todo = @ \ {h}, !.skipped = s, !.claimed = c]
        BY <1>3, <2>2, Zenon DEF Read, Apply
      <4> HIDE DEF s, c
      <4>4. QED
        BY <4>1, <4>2, <4>3 DEF Pass
    <3>4. QED
      BY <1>3, <2>2, <3>2, <3>3 DEF TypeOK, Read, serverVars, ServerTypeOK
  <2>3. QED
    BY <2>1, <2>2
<1>4. ASSUME NEW h \in Href, Unread(h) PROVE TypeOK'
  <2>1. pass' = [pass EXCEPT !.todo = @ \ {h}, !.skipped = TRUE, !.unread = TRUE]
    BY <1>4 DEF Unread
  <2>2. pass' \in Pass
    <3>1. pass \in Pass /\ pass.todo \ {h} \in SUBSET Href
      BY DEF TypeOK, Pass
    <3>2. [pass EXCEPT !.todo = @ \ {h}] \in Pass
      BY <3>1 DEF Pass
    <3>3. [pass EXCEPT !.todo = @ \ {h}, !.skipped = TRUE] \in Pass
      BY <3>2, Zenon DEF Pass
    <3>4. QED
      BY <2>1, <3>3, Zenon DEF Pass
  <2>3. QED
    BY <1>4, <2>2 DEF TypeOK, Unread, serverVars, ServerTypeOK
<1>5. CASE CommitIncremental
  BY <1>5, RemoveType, EmptyCacheType
     DEF TypeOK, CommitIncremental, Publish, StillKept, Pass, NoPass, NoToken,
         serverVars, ServerTypeOK
<1>6. CASE CommitFull
  <2>1. db' \in Cache
    BY <1>6, RemoveType DEF TypeOK, CommitFull, Publish, GcOrphans, Cache, Mark
  <2>2. kept' \subseteq UID
    BY <1>6 DEF CommitFull, Cached
  <2>3. QED
    BY <1>6, <2>1, <2>2, EmptyCacheType
       DEF TypeOK, CommitFull, Publish, Pass, NoPass, NoToken, serverVars, ServerTypeOK
<1>7. CASE Abort
  BY <1>7, EmptyCacheType
     DEF TypeOK, Abort, Pass, NoPass, NoToken, serverVars, ServerTypeOK
<1>8. QED
  BY <1>1, <1>2, <1>3, <1>4, <1>5, <1>6, <1>7 DEF SyncStart, SyncStep, Fault

\* Each request of an edit, a delete or a create keeps the types.
LEMMA WriteType ==
    ASSUME TypeOK, WriteStart \/ WriteStep
    PROVE  TypeOK'
<1> USE DEF CacheUntouched, serverVars
<1>0. ServerTypeOK /\ db \in Cache
  BY DEF TypeOK
<1>1. ASSUME NEW u \in UID, NEW v \in Version, EditSend(u, v) PROVE TypeOK'
  <2>1. db.rows[u].href \in Href /\ db.rows[u].body \in Body
    BY <1>0, <1>1, RowType, ItemIsBody DEF EditSend
  <2>2. ServerTypeOK'
    BY <1>0, <1>1, <2>1, EditedType, StoreType DEF EditSend, ServerTypeOK
  <2>3. QED
    BY <1>1, <2>1, <2>2 DEF EditSend, Begin, NewOp, TypeOK, Op
<1>2. ASSUME NEW u \in UID, NEW v \in Version, CreateSend(u, v) PROVE TypeOK'
  <2>1. Home[u] \in Href
    BY HomeAssumption
  <2>2. ServerTypeOK'
    BY <1>0, <1>2, <2>1, StoreType DEF CreateSend, ServerTypeOK, Body, Kind
  <2>3. QED
    BY <1>2, <2>1, <2>2 DEF CreateSend, Begin, NewOp, TypeOK, Op
<1>3. ASSUME NEW u \in UID, DeleteSend(u) PROVE TypeOK'
  <2>1. db.rows[u].href \in Href
    BY <1>0, <1>3, RowType DEF DeleteSend
  <2>2. ServerTypeOK'
    BY <1>0, <1>3, <2>1, StoreType DEF DeleteSend, ServerTypeOK
  <2>3. QED
    BY <1>3, <2>1, <2>2 DEF DeleteSend, Begin, NewOp, TypeOK, Op
<1>4. CASE EditReread
  BY <1>4 DEF EditReread, Take, Finish, TypeOK, Op, ServerTypeOK
<1>5. CASE DeleteReread
  BY <1>5 DEF DeleteReread, Take, Continue, Finish, TypeOK, Op, ServerTypeOK
<1>6. CASE CreateReread
  BY <1>6 DEF CreateReread, Continue, Finish, TypeOK, Op, ServerTypeOK
<1>7. ASSUME NEW v \in Version, EditResend(v) PROVE TypeOK'
  <2>1. op \in Op /\ op.href \in Href
    BY <1>7 DEF EditResend, TypeOK, Op
  <2>2. CASE wire[op.href] = op.seen /\ op.seen # Absent
    <3>1. ServerTypeOK'
      BY <1>0, <1>7, <2>1, <2>2, EditedType, StoreType DEF EditResend, Op
    <3>2. QED
      BY <1>7, <2>1, <2>2, <3>1 DEF EditResend, Continue, TypeOK
  <2>3. CASE wire[op.href] # op.seen
    BY <1>7, <2>3 DEF EditResend, Finish, TypeOK, ServerTypeOK
  <2>4. QED
    BY <1>7, <2>2, <2>3 DEF EditResend, TypeOK
<1>8. CASE DeleteResend
  <2>1. op \in Op /\ op.href \in Href
    BY <1>8 DEF DeleteResend, TypeOK, Op
  <2>2. ServerTypeOK'
    BY <1>0, <1>8, <2>1, StoreType DEF DeleteResend, Finish, ServerTypeOK
  <2>3. QED
    BY <1>8, <2>1, <2>2 DEF DeleteResend, Continue, Finish, TypeOK
<1>9. CASE Refresh
  <2>1. op \in Op /\ op.href \in Href
    BY <1>9 DEF Refresh, TypeOK, Op
  <2>2. db' \in Cache
    BY <1>0, <1>9, <2>1, ItemBodyKind, UpsertType DEF Refresh, Finish, ServerTypeOK
  <2>3. QED
    BY <1>9, <2>2 DEF Refresh, Finish, StillKept, TypeOK, ServerTypeOK
<1>10. CASE DeleteDrop
  BY <1>10, DropHrefType DEF DeleteDrop, StillKept, TypeOK, ServerTypeOK
<1>11. QED
  BY <1>1, <1>2, <1>3, <1>4, <1>5, <1>6, <1>7, <1>8, <1>9, <1>10
     DEF WriteStart, WriteStep

\* Other clients and the owner keep the types.
LEMMA AroundType ==
    ASSUME TypeOK, ForeignStep \/ Owner
    PROVE  TypeOK'
<1>1. CASE ForeignStep
  <2>1. PICK h \in Href, b \in Body \cup {Absent} : Store(h, b)
    BY <1>1 DEF ForeignStep, Foreign, ForeignPut, ForeignDelete
  <2>2. ServerTypeOK'
    BY <2>1, StoreType DEF TypeOK
  <2>3. QED
    BY <1>1, <2>2 DEF ForeignStep, engineVars, TypeOK
<1>2. CASE Owner
  <2>1. PICK u \in UID : MarkSidecar(u) \/ AgeOrphan(u)
    BY <1>2 DEF Owner
  <2>2. QED
    BY <2>1, SidecarType DEF MarkSidecar, AgeOrphan, LocalOnly, TypeOK, ServerTypeOK, serverVars
<1>3. QED
  BY <1>1, <1>2

LEMMA StutterType == TypeOK /\ UNCHANGED vars => TypeOK'
BY DEF TypeOK, ServerTypeOK, vars, serverVars, engineVars

LEMMA NextType == TypeOK /\ [Next]_vars => TypeOK'
BY SyncType, WriteType, AroundType, StutterType DEF Next

\* Every variable keeps its type: in particular the cache only ever holds
\* bodies that are tasks or events, whatever other clients store.
THEOREM TypeCorrect == Spec => []TypeOK
<1>1. QED
  BY InitType, NextType, PTL DEF Spec

-----------------------------------------------------------------------------
(* What the steps of the engine do to the agreement of cache and wire.       *)

\* A change of the server leaves its invariants, if it keeps UIDs unique.
LEMMA StoreInv ==
    ASSUME ServerTypeOK, ServerInv, NEW h \in Href, NEW b \in Body \cup {Absent},
           Store(h, b), b # Absent => UidFree(h, b.uid)
    PROVE  ServerInv'
<1>1. /\ clock' = clock + 1 /\ clock \in Nat
      /\ \A g \in Href : changedAt'[g] = IF g = h THEN clock + 1 ELSE changedAt[g]
      /\ \A g \in Href : changedAt[g] \in Nat
      /\ \A g \in Href : wire'[g] = IF g = h THEN b ELSE wire[g]
  BY DEF Store, ServerTypeOK
<1>2. \A g \in Href : changedAt'[g] <= clock'
  BY <1>1 DEF ServerInv
<1>3. \A g \in Present', f \in Present' : f # g => wire'[f].uid # wire'[g].uid
  BY <1>1 DEF ServerInv, Present, UidFree
<1>4. QED
  BY <1>2, <1>3 DEF ServerInv, UidFree, Present

\* A change of the server is later than everything the recorded token covers.
LEMMA StoreCoherent ==
    ASSUME TypeOK, token <= clock, CoherentSince,
           NEW h \in Href, NEW b, Store(h, b), UNCHANGED <<db, token, kept>>
    PROVE  CoherentSince'
<1>1. ASSUME NEW g \in Href, changedAt'[g] <= token' PROVE Agrees(db, g)'
  <2>1. token \in Int /\ clock \in Nat
    BY DEF TypeOK, ServerTypeOK, NoToken
  <2>2. g # h /\ changedAt'[g] = changedAt[g] /\ wire'[g] = wire[g]
    BY <1>1, <2>1 DEF Store, TypeOK, ServerTypeOK
  <2>3. Agrees(db, g)
    BY <1>1, <2>2 DEF CoherentSince
  <2>4. QED
    BY <2>2, <2>3 DEF Agrees
<1>2. QED
  BY <1>1 DEF CoherentSince

\* It is later than everything a pass under way has to account for, too.
LEMMA StorePass ==
    ASSUME TypeOK, PassInv, NEW h \in Href, NEW b, Store(h, b),
           UNCHANGED <<db, token, kept, pass, work, pc>>
    PROVE  PassInv'
<1> SUFFICES ASSUME pc = "sync" PROVE PassInv'
  BY DEF PassInv
<1>1. /\ clock \in Nat /\ clock' = clock + 1
      /\ pass.newToken \in Nat /\ pass.newToken <= clock
      /\ \A g \in Href : changedAt[g] \in Nat
      /\ \A g \in Href : changedAt'[g] = IF g = h THEN clock + 1 ELSE changedAt[g]
      /\ token \in Int
  BY DEF PassInv, TypeOK, ServerTypeOK, Store, NoToken
<1>2. \A g \in Href : AsReported(g)' => AsReported(g) /\ wire'[g] = wire[g]
  BY <1>1 DEF AsReported, Store, TypeOK, ServerTypeOK
<1>3. ASSUME pass.full PROVE FullPassInv'
  BY <1>2, <1>3 DEF PassInv, FullPassInv, TypeOK, Pass
<1>4. ASSUME ~pass.full PROVE IncrementalPassInv'
  <2>1. IncrementalPassInv
    BY <1>4 DEF PassInv
  <2>2. pass.todo \subseteq Href /\ pass.removed \subseteq Href
    BY DEF TypeOK, Pass
  <2>3. \A g \in pass.todo \cup pass.removed : changedAt'[g] > token
    BY <1>1, <2>1, <2>2 DEF IncrementalPassInv
  <2>4. ASSUME NEW g \in Href \ (pass.todo \cup pass.removed), AsReported(g)',
               pass.unread => changedAt'[g] <= token
        PROVE  WorkAgrees(g)'
    <3>1. AsReported(g) /\ wire'[g] = wire[g] /\ changedAt'[g] = changedAt[g]
      BY <1>1, <1>2, <2>4 DEF AsReported
    <3>2. WorkAgrees(g)
      BY <2>1, <2>4, <3>1 DEF IncrementalPassInv
    <3>3. QED
      BY <3>1, <3>2 DEF WorkAgrees, StillKept
  <2>5. QED
    BY <1>2, <2>1, <2>2, <2>3, <2>4 DEF IncrementalPassInv
<1>5. QED
  BY <1>1, <1>3, <1>4 DEF PassInv

\* Rows that a removal spares are as they were.
LEMMA RemoveRows ==
    ASSUME NEW c \in Cache, NEW gone
    PROVE  /\ \A u \in UID \ gone : Remove(c, gone).rows[u] = c.rows[u]
           /\ \A g \in Href : UidsAt(Remove(c, gone), g) = UidsAt(c, g) \ gone
BY DEF Remove, UidsAt, Cached

\* Dropping an href leaves the rows of the others.
LEMMA DropHrefRows ==
    ASSUME NEW c \in Cache, NEW h \in Href
    PROVE  /\ UidsAt(DropHref(c, h), h) = {}
           /\ \A g \in Href \ {h} : UidsAt(DropHref(c, h), g) = UidsAt(c, g)
           /\ \A g \in Href \ {h} : \A u \in UidsAt(c, g) :
                DropHref(c, h).rows[u] = c.rows[u]
BY DEF DropHref, Remove, UidsAt, Cached

\* The row of an item on the wire is one of the rows at its href.
LEMMA AgreedRow ==
    ASSUME NEW c, NEW g \in Href, NEW u \in UID, NEW b \in ItemBody,
           c.rows[u] = [href |-> g, body |-> b]
    PROVE  u \in UidsAt(c, g)
<1>1. [href |-> g, body |-> b] \in Row
  BY DEF Row
<1>2. QED
  BY <1>1, RowAssumption DEF UidsAt, Cached

\* Upserting what is at h now disturbs neither the row of an item elsewhere,
\* whose UID is another, nor adds a row anywhere else.
LEMMA UpsertRows ==
    ASSUME ServerTypeOK, ServerInv, NEW c \in Cache, NEW h \in Href,
           wire[h] # Absent, wire[h].kind = "item"
    PROVE  LET d == Upsert(c, h, wire[h]) IN
           /\ d.rows[wire[h].uid] = [href |-> h, body |-> wire[h]]
           /\ \A g \in Href \ {h} :
                /\ \A u \in UidsAt(d, g) : u \in UidsAt(c, g) /\ d.rows[u] = c.rows[u]
                /\ wire[g] # Absent /\ wire[g].kind = "item"
                   /\ c.rows[wire[g].uid] = [href |-> g, body |-> wire[g]]
                   => d.rows[wire[g].uid] = [href |-> g, body |-> wire[g]]
<1> DEFINE e == Remove(c, UidsAt(c, h) \ {wire[h].uid})
           d == Upsert(c, h, wire[h])
<1>1. wire[h] \in Body /\ wire[h] \in ItemBody /\ wire[h].uid \in UID
  BY ItemBodyKind DEF ServerTypeOK, Body
<1>2. e \in Cache
  BY RemoveType
<1>3. \A u \in UID : d.rows[u] = IF u = wire[h].uid THEN [href |-> h, body |-> wire[h]]
                                 ELSE e.rows[u]
  BY <1>1, <1>2 DEF Upsert, Cache
<1>4. \A u \in UID : e.rows[u] = IF u \in UidsAt(c, h) \ {wire[h].uid}
                                 THEN Absent ELSE c.rows[u]
  BY DEF Remove
<1> HIDE DEF d, e
<1>5. ASSUME NEW g \in Href \ {h}, NEW u \in UidsAt(d, g)
      PROVE  u \in UidsAt(c, g) /\ d.rows[u] = c.rows[u]
  BY <1>1, <1>3, <1>4, <1>5 DEF UidsAt, Cached
<1>6. ASSUME NEW g \in Href \ {h}, wire[g] # Absent, wire[g].kind = "item",
             c.rows[wire[g].uid] = [href |-> g, body |-> wire[g]]
      PROVE  d.rows[wire[g].uid] = [href |-> g, body |-> wire[g]]
  <2>1. wire[g].uid # wire[h].uid /\ wire[g].uid \in UID
    BY <1>6 DEF ServerInv, UidFree, Present, ServerTypeOK, Body
  <2>2. wire[g].uid \notin UidsAt(c, h)
    BY <1>6 DEF UidsAt
  <2>3. QED
    BY <1>3, <1>4, <1>6, <2>1, <2>2
<1>7. d.rows[wire[h].uid] = [href |-> h, body |-> wire[h]]
  BY <1>1, <1>3
<1>8. QED
  BY <1>5, <1>6, <1>7 DEF d

-----------------------------------------------------------------------------
(* The inductive invariant, one lemma per kind of step.                      *)

LEMMA InitInv == Init => IInv
<1> SUFFICES ASSUME Init PROVE IInv
  OBVIOUS
<1>1. TypeOK /\ CacheOK(db) /\ CacheOK(work)
  BY InitType, EmptyCacheSound DEF Init
<1>2. ServerInv /\ token <= clock
  BY DEF Init, ServerInit, ServerInv, NoToken
<1>3. CoherentSince
  BY DEF Init, ServerInit, CoherentSince, NoToken
<1>4. PassInv /\ DropInv
  BY DEF Init, PassInv, DropInv
<1>5. QED
  BY <1>1, <1>2, <1>3, <1>4 DEF IInv

\* A pass starts from rows that agree up to the recorded token.
LEMMA SyncIncrementalInv ==
    ASSUME IInv, SyncIncremental
    PROVE  IInv'
<1> USE DEF serverVars
<1>1. TypeOK' /\ CacheOK(db)' /\ CacheOK(work)' /\ ServerInv' /\ (token <= clock)'
  BY SyncType DEF IInv, SyncIncremental, StartPass, SyncStart, ServerInv, UidFree, Present
<1>2. CoherentSince' /\ DropInv'
  BY DEF IInv, SyncIncremental, StartPass, CoherentSince, Agrees, DropInv
<1>3. /\ pass'.newToken = clock /\ pass'.full = FALSE /\ pass'.unread = FALSE
      /\ pass'.todo = ChangedSince(token) /\ pass'.removed = RemovedSince(token)
      /\ work' = db /\ token' = token /\ wire' = wire /\ changedAt' = changedAt
      /\ db' = db /\ kept' = kept /\ clock' = clock /\ clock \in Nat
  BY DEF SyncIncremental, StartPass, NoPass, IInv, TypeOK, ServerTypeOK
<1>4. IncrementalPassInv'
  <2>1. token' # NoToken /\ token' <= pass'.newToken
    BY <1>3 DEF SyncIncremental, IInv
  <2>2. \A h \in ChangedSince(token) \cup RemovedSince(token) : changedAt[h] > token
    BY DEF ChangedSince, RemovedSince
  <2>3. ASSUME NEW h \in Href \ (ChangedSince(token) \cup RemovedSince(token))
        PROVE  WorkAgrees(h)'
    <3>1. changedAt[h] <= token
      BY <2>3 DEF ChangedSince, RemovedSince, IInv, TypeOK, ServerTypeOK, NoToken
    <3>2. Agrees(db, h)
      BY <3>1 DEF IInv, CoherentSince
    <3>3. QED
      BY <1>3, <3>2 DEF Agrees, WorkAgrees, StillKept, UidsAt, Cached
  <2>4. QED
    BY <1>3, <2>1, <2>2, <2>3
       DEF IncrementalPassInv, ChangedSince, RemovedSince, Present
<1>5. PassInv'
  BY <1>3, <1>4 DEF PassInv
<1>6. QED
  BY <1>1, <1>2, <1>5 DEF IInv

\* What a full resync does not read again is cached as it is on the wire.
LEMMA SyncFullInv ==
    ASSUME IInv, SyncFull
    PROVE  IInv'
<1> USE DEF serverVars
<1>1. TypeOK' /\ CacheOK(db)' /\ CacheOK(work)' /\ ServerInv' /\ (token <= clock)'
  BY SyncType DEF IInv, SyncFull, StartPass, SyncStart, ServerInv, UidFree, Present
<1>2. CoherentSince' /\ DropInv'
  BY DEF IInv, SyncFull, StartPass, CoherentSince, Agrees, DropInv
<1>3. /\ pass'.newToken = clock /\ pass'.full = TRUE /\ pass'.unread = FALSE
      /\ pass'.todo = {h \in Present : ~Known(h)} /\ pass'.listed = Present
      /\ work' = db /\ wire' = wire /\ changedAt' = changedAt
      /\ db' = db /\ clock' = clock /\ clock \in Nat
  BY DEF SyncFull, StartPass, NoPass, IInv, TypeOK, ServerTypeOK
<1>4. ASSUME NEW h \in Present, Known(h)
      PROVE  /\ wire[h].kind = "item"
             /\ db.rows[wire[h].uid] = [href |-> h, body |-> wire[h]]
  <2>1. PICK u \in UidsAt(db, h) : db.rows[u].body = wire[h]
    BY <1>4 DEF Known
  <2>2. db.rows[u] \in Row /\ db.rows[u].href = h /\ wire[h] \in ItemBody
    BY <2>1 DEF UidsAt, Cached, IInv, TypeOK, Cache, Row
  <2>3. wire[h].uid = u
    BY <2>1 DEF IInv, CacheOK, KeyedOnUid, UidsAt
  <2>4. QED
    BY <2>1, <2>2, <2>3 DEF Row, ItemBody
<1>5. FullPassInv'
  BY <1>3, <1>4 DEF FullPassInv, Present
<1>6. PassInv'
  BY <1>3, <1>5 DEF PassInv
<1>7. QED
  BY <1>1, <1>2, <1>6 DEF IInv

\* A body that is read is the one on the wire: of the hrefs that are still as
\* the REPORT listed them, h becomes settled and no other is disturbed.
LEMMA ReadInv ==
    ASSUME IInv, NEW h \in Href, Read(h)
    PROVE  IInv'
<1> USE DEF serverVars
<1>1. TypeOK' /\ CacheOK(db)' /\ ServerInv' /\ (token <= clock)' /\ CoherentSince' /\ DropInv'
  BY SyncType DEF IInv, Read, SyncStep, ServerInv, UidFree, Present, CoherentSince, Agrees, DropInv
<1>2. /\ ServerTypeOK /\ ServerInv /\ work \in Cache /\ CacheOK(work) /\ PassInv
      /\ pass.todo \subseteq Href /\ h \in pass.todo /\ pc = "sync" /\ pc' = "sync"
      /\ wire' = wire /\ changedAt' = changedAt /\ token' = token /\ db' = db
      /\ kept' = kept /\ clock' = clock
  BY DEF IInv, TypeOK, Read, Pass
<1>3. /\ pass'.full = pass.full /\ pass'.newToken = pass.newToken
      /\ pass'.listed = pass.listed /\ pass'.removed = pass.removed
      /\ pass'.unread = pass.unread /\ pass'.todo = pass.todo \ {h}
      /\ pass.skipped => pass'.skipped
      /\ wire[h] # Absent /\ wire[h].kind = "poison" => pass'.skipped
  BY DEF Read, Apply, IInv, TypeOK, Pass
<1>4. CASE wire[h] = Absent
  <2>1. work' = work
    BY <1>4 DEF Read
  <2>2. CacheOK(work)'
    BY <1>2, <2>1
  <2>3. ASSUME pass.full PROVE FullPassInv'
    BY <1>2, <1>3, <1>4, <2>1, <2>3 DEF PassInv, FullPassInv, AsReported
  <2>4. ASSUME ~pass.full PROVE IncrementalPassInv'
    <3>1. ~AsReported(h)
      BY <1>2, <1>4, <2>4 DEF PassInv, IncrementalPassInv
    <3>2. QED
      BY <1>2, <1>3, <2>1, <2>4, <3>1
         DEF PassInv, IncrementalPassInv, AsReported, WorkAgrees, StillKept
  <2>5. QED
    BY <1>1, <1>2, <1>3, <2>1, <2>2, <2>3, <2>4 DEF IInv, PassInv
<1>5. CASE wire[h] # Absent /\ wire[h].kind = "item"
  <2>1. work' = Upsert(work, h, wire[h])
    BY <1>5 DEF Read, Apply
  <2>2. wire[h] \in ItemBody /\ wire[h].uid \in UID
    BY <1>2, <1>5, ItemBodyKind DEF ServerTypeOK, Body
  <2>3. CacheOK(work)'
    BY <1>2, <2>1, <2>2, UpsertSound
  <2>4. /\ work'.rows[wire[h].uid] = [href |-> h, body |-> wire[h]]
        /\ \A g \in Href \ {h} :
             /\ \A u \in UidsAt(work', g) : u \in UidsAt(work, g) /\ work'.rows[u] = work.rows[u]
             /\ wire[g] # Absent /\ wire[g].kind = "item"
                /\ work.rows[wire[g].uid] = [href |-> g, body |-> wire[g]]
                => work'.rows[wire[g].uid] = [href |-> g, body |-> wire[g]]
    BY <1>2, <1>5, <2>1, UpsertRows
  <2>5. \A u \in UID : work'.side[u] = "none" => work.side[u] = "none"
    BY <1>2, <2>1, <2>2, RemoveType DEF Upsert, Remove, Cache
  <2>6. ASSUME pass.full PROVE FullPassInv'
    <3>1. \A g \in Href \ {h} : UidsAt(work, g) = {} => UidsAt(work', g) = {}
      BY <2>4
    <3>2. QED
      BY <1>2, <1>3, <1>5, <2>4, <2>6, <3>1 DEF PassInv, FullPassInv, AsReported
  <2>7. ASSUME ~pass.full PROVE IncrementalPassInv'
    <3>1. WorkAgrees(h)'
      BY <1>2, <1>5, <2>4 DEF WorkAgrees
    <3>2. \A g \in Href \ {h} : WorkAgrees(g) => WorkAgrees(g)'
      BY <1>2, <2>4 DEF WorkAgrees, StillKept
    <3>3. QED
      BY <1>2, <1>3, <2>7, <3>1, <3>2 DEF PassInv, IncrementalPassInv, AsReported
  <2>8. QED
    BY <1>1, <1>2, <1>3, <2>3, <2>5, <2>6, <2>7 DEF IInv, PassInv
<1>6. CASE wire[h] # Absent /\ wire[h].kind # "item"
  <2>1. work' = DropHref(work, h)
    BY <1>6 DEF Read, Apply
  <2>2. CacheOK(work)'
    BY <1>2, <2>1, RemoveSound DEF DropHref
  <2>3. /\ UidsAt(work', h) = {}
        /\ \A g \in Href \ {h} : UidsAt(work', g) = UidsAt(work, g)
        /\ \A g \in Href \ {h} : \A u \in UidsAt(work, g) : work'.rows[u] = work.rows[u]
    BY <1>2, <2>1, DropHrefRows
  <2>4. \A u \in UID : work'.side[u] = "none" => work.side[u] = "none"
    BY <1>2, <2>1 DEF DropHref, Remove
  <2>5. ASSUME NEW g \in Href \ {h}, wire[g] # Absent, wire[g].kind = "item",
               work.rows[wire[g].uid] = [href |-> g, body |-> wire[g]]
        PROVE  work'.rows[wire[g].uid] = [href |-> g, body |-> wire[g]]
    <3>1. wire[g] \in ItemBody /\ wire[g].uid \in UID
      BY <1>2, <2>5, ItemBodyKind DEF ServerTypeOK, Body
    <3>2. wire[g].uid \in UidsAt(work, g)
      BY <2>5, <3>1, AgreedRow
    <3>3. QED
      BY <2>3, <2>5, <3>2
  <2>6. ASSUME pass.full PROVE FullPassInv'
    BY <1>2, <1>3, <1>6, <2>3, <2>5, <2>6 DEF PassInv, FullPassInv, AsReported
  <2>7. ASSUME ~pass.full PROVE IncrementalPassInv'
    <3>1. WorkAgrees(h)'
      BY <1>2, <1>6, <2>3 DEF WorkAgrees
    <3>2. \A g \in Href \ {h} : WorkAgrees(g) => WorkAgrees(g)'
      BY <1>2, <2>3, <2>5 DEF WorkAgrees, StillKept
    <3>3. QED
      BY <1>2, <1>3, <2>7, <3>1, <3>2 DEF PassInv, IncrementalPassInv, AsReported
  <2>8. QED
    BY <1>1, <1>2, <1>3, <2>2, <2>4, <2>6, <2>7 DEF IInv, PassInv
<1>7. QED
  BY <1>4, <1>5, <1>6

\* An href that could not be read is settled only in the sense that the pass
\* knows it must not record a token.
LEMMA UnreadInv ==
    ASSUME IInv, NEW h \in Href, Unread(h)
    PROVE  IInv'
<1> USE DEF serverVars
<1>1. TypeOK' /\ CacheOK(db)' /\ CacheOK(work)' /\ ServerInv' /\ (token <= clock)'
      /\ CoherentSince' /\ DropInv'
  BY SyncType DEF IInv, Unread, Fault, ServerInv, UidFree, Present, CoherentSince, Agrees, DropInv
<1>2. /\ pass'.full = pass.full /\ pass'.newToken = pass.newToken
      /\ pass'.listed = pass.listed /\ pass'.removed = pass.removed
      /\ pass'.unread = TRUE /\ pass'.skipped = TRUE /\ pass'.todo = pass.todo \ {h}
      /\ pass.todo \subseteq Href /\ h \in pass.todo /\ pc = "sync" /\ PassInv
      /\ wire' = wire /\ changedAt' = changedAt /\ token' = token /\ db' = db
      /\ kept' = kept /\ clock' = clock /\ work' = work
  BY DEF IInv, TypeOK, Unread, Pass
<1>3. ASSUME pass.full PROVE FullPassInv'
  BY <1>2, <1>3 DEF PassInv, FullPassInv, AsReported
<1>4. ASSUME ~pass.full PROVE IncrementalPassInv'
  <2>1. changedAt[h] > token /\ changedAt[h] \in Nat /\ token \in Int
    BY <1>2, <1>4 DEF PassInv, IncrementalPassInv, IInv, TypeOK, ServerTypeOK, NoToken
  <2>2. QED
    BY <1>2, <1>4, <2>1 DEF PassInv, IncrementalPassInv, AsReported, WorkAgrees, StillKept
<1>5. QED
  BY <1>1, <1>2, <1>3, <1>4 DEF IInv, PassInv

\* An incremental pass publishes: an href it was told is gone has no row left,
\* and every other one agrees as the pass left it.
LEMMA CommitIncrementalInv ==
    ASSUME IInv, CommitIncremental
    PROVE  IInv'
<1> USE DEF serverVars
<1>1. /\ IncrementalPassInv /\ pass.todo = {} /\ pass.newToken \in Nat
      /\ pass.newToken <= clock /\ token <= pass.newToken /\ token \in Int
      /\ pass.removed \subseteq Href /\ ServerTypeOK /\ work \in Cache /\ CacheOK(work)
      /\ wire' = wire /\ changedAt' = changedAt /\ clock' = clock
      /\ db' = Remove(work, RemovedUids)
      /\ token' = IF pass.unread THEN token ELSE pass.newToken
      /\ kept' = {u \in kept : db'.rows[u] = db.rows[u]}
  BY DEF IInv, PassInv, CommitIncremental, Publish, IncrementalPassInv, TypeOK, Pass,
         NoToken, StillKept
<1>2. TypeOK' /\ CacheOK(work)' /\ ServerInv' /\ (token <= clock)' /\ DropInv' /\ PassInv'
  BY <1>1, SyncType, EmptyCacheSound
     DEF IInv, CommitIncremental, Publish, SyncStep, ServerInv, UidFree, Present, DropInv, PassInv
<1>3. CacheOK(db)'
  BY <1>1, RemoveSound
<1>4. /\ \A u \in UID \ RemovedUids : db'.rows[u] = work.rows[u]
      /\ \A g \in Href : UidsAt(db', g) = UidsAt(work, g) \ RemovedUids
  BY <1>1, RemoveRows
<1>5. \A g \in Href : \A u \in UidsAt(work, g) : u \in RemovedUids <=> g \in pass.removed
  BY DEF RemovedUids, UidsAt, Cached
<1>6. ASSUME NEW g \in Href, changedAt[g] <= token' PROVE Agrees(db, g)'
  <2>1. AsReported(g) /\ (pass.unread => changedAt[g] <= token)
    BY <1>1, <1>6 DEF AsReported, ServerTypeOK
  <2>2. CASE g \in pass.removed
    <3>1. wire[g] = Absent
      BY <1>1, <2>1, <2>2 DEF IncrementalPassInv
    <3>2. UidsAt(db', g) = {}
      BY <1>4, <1>5, <2>2
    <3>3. QED
      BY <1>1, <3>1, <3>2 DEF Agrees
  <2>3. CASE g \notin pass.removed
    <3>1. WorkAgrees(g)
      BY <1>1, <2>1, <2>3 DEF IncrementalPassInv
    <3>2. \A u \in UidsAt(work, g) : u \in UID /\ db'.rows[u] = work.rows[u]
      BY <1>4, <1>5, <2>3 DEF UidsAt, Cached
    <3>3. CASE wire[g] # Absent /\ wire[g].kind = "item"
      <4>1. wire[g] \in ItemBody /\ wire[g].uid \in UID
        BY <1>1, <3>3, ItemBodyKind DEF ServerTypeOK, Body
      <4>2. wire[g].uid \in UidsAt(work, g)
        BY <3>1, <3>3, <4>1, AgreedRow DEF WorkAgrees
      <4>3. QED
        BY <1>1, <3>1, <3>2, <3>3, <4>2 DEF WorkAgrees, Agrees
    <3>4. CASE ~(wire[g] # Absent /\ wire[g].kind = "item")
      <4>1. UidsAt(work, g) \subseteq StillKept(work)
        BY <3>1, <3>4 DEF WorkAgrees
      <4>2. UidsAt(db', g) \subseteq kept'
        BY <1>1, <1>4, <3>2, <4>1 DEF StillKept
      <4>3. QED
        BY <1>1, <3>4, <4>2 DEF Agrees
    <3>5. QED
      BY <3>3, <3>4
  <2>4. QED
    BY <2>2, <2>3
<1>7. CoherentSince'
  BY <1>1, <1>6 DEF CoherentSince
<1>8. QED
  BY <1>2, <1>3, <1>7 DEF IInv

\* The rows a full resync publishes are the ones it settled, less those whose
\* href is gone from the wire; collecting orphans leaves rows alone.
LEMMA CommitFullInv ==
    ASSUME IInv, CommitFull
    PROVE  IInv'
<1> USE DEF serverVars
<1> DEFINE swept == Remove(work, SweptUids)
<1>1. /\ FullPassInv /\ pass.todo = {} /\ pass.newToken \in Nat
      /\ pass.newToken <= clock /\ clock \in Nat
      /\ pass.listed \subseteq Href /\ ServerTypeOK /\ work \in Cache /\ CacheOK(work)
      /\ wire' = wire /\ changedAt' = changedAt /\ clock' = clock
      /\ db' = IF pass.skipped THEN swept ELSE GcOrphans(swept)
      /\ token' = IF pass.unread THEN -1 ELSE pass.newToken
      /\ kept' = {u \in Cached(swept) : swept.rows[u].href \notin pass.listed}
  BY DEF IInv, PassInv, CommitFull, Publish, TypeOK, Pass, NoToken, ServerTypeOK
<1>2. TypeOK' /\ CacheOK(work)' /\ ServerInv' /\ (token <= clock)' /\ DropInv' /\ PassInv'
  BY <1>1, SyncType, EmptyCacheSound
     DEF IInv, CommitFull, Publish, SyncStep, ServerInv, UidFree, Present, DropInv, PassInv
<1>3. swept \in Cache /\ CacheOK(swept)
  BY <1>1, RemoveType, RemoveSound
<1>4. /\ \A u \in UID \ SweptUids : swept.rows[u] = work.rows[u]
      /\ \A g \in Href : UidsAt(swept, g) = UidsAt(work, g) \ SweptUids
  BY <1>1, RemoveRows
<1> HIDE DEF swept
<1>5. db'.rows = swept.rows
  BY <1>1, <1>3 DEF GcOrphans, Cache
<1>6. CacheOK(db)'
  <2>1. CASE UID = {}
    BY <2>1 DEF CacheOK, OneRowPerHref, KeyedOnUid, SidecarMarked, Cached
  <2>2. CASE UID # {}
    BY <1>1, <1>3, <2>2, SidecarSound
  <2>3. QED
    BY <2>1, <2>2
<1>7. \A g \in Href : UidsAt(db', g) = UidsAt(swept, g)
  BY <1>5 DEF UidsAt, Cached
<1>8. ASSUME NEW g \in Href, changedAt[g] <= token' PROVE Agrees(db, g)'
  <2>1. AsReported(g) /\ ~pass.unread
    BY <1>1, <1>8 DEF AsReported, ServerTypeOK
  <2>2. CASE wire[g] # Absent /\ wire[g].kind = "item"
    <3>1. g \in pass.listed /\ work.rows[wire[g].uid] = [href |-> g, body |-> wire[g]]
      BY <1>1, <2>1, <2>2 DEF FullPassInv
    <3>2. wire[g] \in ItemBody /\ wire[g].uid \in UID
      BY <1>1, <2>2, ItemBodyKind DEF ServerTypeOK, Body
    <3>3. wire[g].uid \notin SweptUids
      BY <3>1 DEF SweptUids
    <3>4. QED
      BY <1>1, <1>4, <1>5, <2>2, <3>1, <3>2, <3>3 DEF Agrees
  <2>3. CASE wire[g] # Absent /\ wire[g].kind # "item"
    <3>1. UidsAt(work, g) = {}
      BY <1>1, <2>1, <2>3 DEF FullPassInv
    <3>2. QED
      BY <1>1, <1>4, <1>7, <2>3, <3>1 DEF Agrees
  <2>4. CASE wire[g] = Absent
    <3>1. g \notin pass.listed
      BY <1>1, <2>1, <2>4 DEF FullPassInv
    <3>2. UidsAt(db', g) \subseteq kept'
      BY <1>1, <1>7, <3>1 DEF UidsAt
    <3>3. QED
      BY <1>1, <2>4, <3>2 DEF Agrees
  <2>5. QED
    BY <2>2, <2>3, <2>4
<1>9. CoherentSince'
  BY <1>1, <1>8 DEF CoherentSince
<1>10. QED
  BY <1>2, <1>6, <1>9 DEF IInv

LEMMA AbortInv ==
    ASSUME IInv, Abort
    PROVE  IInv'
<1>1. TypeOK' /\ CacheOK(work)'
  BY SyncType, EmptyCacheSound DEF IInv, Fault, Abort
<1>2. CacheOK(db)' /\ ServerInv' /\ (token <= clock)' /\ CoherentSince'
  BY DEF IInv, Abort, serverVars, ServerInv, UidFree, Present, CoherentSince, Agrees
<1>3. PassInv' /\ DropInv'
  BY DEF Abort, PassInv, DropInv
<1>4. QED
  BY <1>1, <1>2, <1>3 DEF IInv

\* A request of a write changes at most one resource of the server, keeping
\* UIDs unique, and nothing of the cache.
LEMMA RequestInv ==
    ASSUME IInv, TypeOK', CacheUntouched, pc' # "sync", DropInv',
           \/ UNCHANGED serverVars
           \/ \E h \in Href, b \in Body \cup {Absent} :
                Store(h, b) /\ (b # Absent => UidFree(h, b.uid))
    PROVE  IInv'
<1>1. CacheOK(db)' /\ CacheOK(work)' /\ PassInv'
  BY DEF IInv, CacheUntouched, PassInv
<1>2. CASE UNCHANGED serverVars
  <2>1. ServerInv' /\ (token <= clock)' /\ CoherentSince'
    BY <1>2 DEF IInv, CacheUntouched, serverVars, ServerInv, UidFree, Present, CoherentSince, Agrees
  <2>2. QED
    BY <1>1, <2>1 DEF IInv
<1>3. ASSUME NEW h \in Href, NEW b \in Body \cup {Absent}, Store(h, b),
             b # Absent => UidFree(h, b.uid)
      PROVE  IInv'
  <2>1. ServerInv'
    BY <1>3, StoreInv DEF IInv, TypeOK
  <2>2. CoherentSince'
    BY <1>3, StoreCoherent DEF IInv, CacheUntouched
  <2>3. (token <= clock)'
    BY <1>3 DEF IInv, CacheUntouched, Store, TypeOK, ServerTypeOK, NoToken
  <2>4. QED
    BY <1>1, <2>1, <2>2, <2>3 DEF IInv
<1>4. QED
  BY <1>2, <1>3

\* An edit keeps the UID of the body it is applied to, which no other has.
LEMMA EditedFree ==
    ASSUME ServerTypeOK, ServerInv, NEW h \in Href, wire[h] # Absent, NEW v
    PROVE  UidFree(h, Edited(wire[h], v).uid)
<1>1. Edited(wire[h], v).uid = wire[h].uid
  BY DEF Edited, ServerTypeOK, Body
<1>2. QED
  BY <1>1 DEF ServerInv, Present

LEMMA WriteStartInv ==
    ASSUME IInv, WriteStart
    PROVE  IInv'
<1>0. TypeOK' /\ TypeOK /\ db \in Cache /\ ServerTypeOK /\ ServerInv
  BY WriteType DEF IInv, TypeOK
<1>1. ASSUME NEW u \in UID, NEW v \in Version, EditSend(u, v) PROVE IInv'
  <2> DEFINE h == db.rows[u].href
             b == db.rows[u].body
  <2>1. h \in Href /\ b \in Body
    BY <1>0, <1>1, RowType, ItemIsBody DEF EditSend
  <2>2. CacheUntouched /\ pc' # "sync" /\ DropInv'
    BY <1>1 DEF EditSend, Begin, DropInv
  <2>3. CASE wire[h] = b
    <3>1. Edited(b, v) \in Body /\ UidFree(h, Edited(b, v).uid)
      BY <1>0, <2>1, <2>3, EditedType, EditedFree, AbsentAssumption
    <3>2. Store(h, Edited(b, v))
      BY <1>1, <2>3 DEF EditSend
    <3>3. QED
      BY <1>0, <2>1, <2>2, <3>1, <3>2, RequestInv
  <2>4. CASE wire[h] # b
    <3>1. UNCHANGED serverVars
      BY <1>1, <2>4 DEF EditSend
    <3>2. QED
      BY <1>0, <2>2, <3>1, RequestInv
  <2>5. QED
    BY <2>3, <2>4
<1>2. ASSUME NEW u \in UID, NEW v \in Version, CreateSend(u, v) PROVE IInv'
  <2>1. Home[u] \in Href /\ [uid |-> u, kind |-> "item", ver |-> v] \in Body
    BY HomeAssumption DEF Body, Kind
  <2>2. CacheUntouched /\ pc' # "sync" /\ DropInv'
    BY <1>2 DEF CreateSend, Begin, DropInv
  <2>3. \/ UNCHANGED serverVars
        \/ /\ Store(Home[u], [uid |-> u, kind |-> "item", ver |-> v])
           /\ UidFree(Home[u], u)
    BY <1>2 DEF CreateSend
  <2>4. QED
    BY <1>0, <2>1, <2>2, <2>3, RequestInv
<1>3. ASSUME NEW u \in UID, DeleteSend(u) PROVE IInv'
  <2> DEFINE h == db.rows[u].href
  <2>1. h \in Href
    BY <1>0, <1>3, RowType DEF DeleteSend
  <2>2. CacheUntouched /\ pc' # "sync"
    BY <1>3 DEF DeleteSend, Begin
  <2>3. DropInv'
    BY <1>0, <1>3, <2>1 DEF DeleteSend, Begin, NewOp, DropInv, Store, serverVars, ServerTypeOK
  <2>4. UNCHANGED serverVars \/ Store(h, Absent)
    BY <1>3 DEF DeleteSend
  <2>5. QED
    BY <1>0, <2>1, <2>2, <2>3, <2>4, RequestInv
<1>4. QED
  BY <1>1, <1>2, <1>3 DEF WriteStart

LEMMA WriteStepInv ==
    ASSUME IInv, WriteStep
    PROVE  IInv'
<1>0. TypeOK' /\ TypeOK /\ db \in Cache /\ ServerTypeOK /\ ServerInv
  BY WriteType DEF IInv, TypeOK
<1>1. CASE EditReread
  BY <1>0, <1>1, RequestInv DEF EditReread, Take, Finish, CacheUntouched, DropInv
<1>2. CASE DeleteReread
  <2>1. DropInv'
    BY <1>2 DEF DeleteReread, Take, Continue, Finish, DropInv, serverVars
  <2>2. QED
    BY <1>0, <1>2, <2>1, RequestInv DEF DeleteReread, Take, Continue, Finish
<1>3. CASE CreateReread
  BY <1>0, <1>3, RequestInv DEF CreateReread, Continue, Finish, DropInv
<1>4. ASSUME NEW v \in Version, EditResend(v) PROVE IInv'
  <2>1. op.href \in Href /\ op.seen # Absent
    BY <1>0, <1>4 DEF EditResend, TypeOK, Op
  <2>2. CacheUntouched /\ pc' # "sync" /\ DropInv'
    BY <1>4 DEF EditResend, Continue, Finish, DropInv
  <2>3. CASE wire[op.href] = op.seen
    <3>1. Edited(op.seen, v) \in Body /\ UidFree(op.href, Edited(op.seen, v).uid)
      BY <1>0, <2>1, <2>3, EditedType, EditedFree DEF ServerTypeOK
    <3>2. Store(op.href, Edited(op.seen, v))
      BY <1>4, <2>3 DEF EditResend
    <3>3. QED
      BY <1>0, <2>1, <2>2, <3>1, <3>2, RequestInv
  <2>4. CASE wire[op.href] # op.seen
    <3>1. UNCHANGED serverVars
      BY <1>4, <2>4 DEF EditResend, Finish
    <3>2. QED
      BY <1>0, <2>2, <3>1, RequestInv
  <2>5. QED
    BY <2>3, <2>4
<1>5. CASE DeleteResend
  <2>1. op.href \in Href
    BY <1>0, <1>5 DEF DeleteResend, TypeOK, Op
  <2>2. CacheUntouched /\ pc' # "sync"
    BY <1>5 DEF DeleteResend, Continue, Finish
  <2>3. DropInv'
    BY <1>0, <1>5, <2>1 DEF DeleteResend, Continue, Finish, DropInv, Store, serverVars, ServerTypeOK
  <2>4. UNCHANGED serverVars \/ Store(op.href, Absent)
    BY <1>5 DEF DeleteResend, Finish
  <2>5. QED
    BY <1>0, <2>1, <2>2, <2>3, <2>4, RequestInv
<1>6. CASE Refresh
  <2>1. PICK h \in Href : h = op.href
    BY <1>0, <1>6 DEF Refresh, TypeOK, Op
  <2>2. CASE ~(wire[h] # Absent /\ wire[h].kind = "item")
    BY <1>0, <1>6, <2>1, <2>2, RequestInv DEF Refresh, Finish, DropInv
  <2>3. CASE wire[h] # Absent /\ wire[h].kind = "item"
    <3>1. /\ db' = Upsert(db, h, wire[h])
          /\ kept' = {u \in kept : db'.rows[u] = db.rows[u]}
          /\ pc' = "idle" /\ wire' = wire /\ changedAt' = changedAt /\ clock' = clock
          /\ token' = token /\ work' = work
      BY <1>6, <2>1, <2>3 DEF Refresh, StillKept, serverVars
    <3>2. wire[h] \in ItemBody
      BY <1>0, <2>1, <2>3, ItemBodyKind DEF ServerTypeOK
    <3>3. CacheOK(db)'
      BY <1>0, <2>1, <3>1, <3>2, UpsertSound DEF IInv
    <3>4. /\ db'.rows[wire[h].uid] = [href |-> h, body |-> wire[h]]
          /\ \A g \in Href \ {h} :
              /\ \A u \in UidsAt(db', g) : u \in UidsAt(db, g) /\ db'.rows[u] = db.rows[u]
              /\ wire[g] # Absent /\ wire[g].kind = "item"
                 /\ db.rows[wire[g].uid] = [href |-> g, body |-> wire[g]]
                 => db'.rows[wire[g].uid] = [href |-> g, body |-> wire[g]]
      BY <1>0, <2>1, <2>3, <3>1, UpsertRows
    <3>5. Agrees(db, h)'
      BY <2>3, <3>1, <3>4 DEF Agrees
    <3>6. \A g \in Href \ {h} : Agrees(db, g) => Agrees(db, g)'
      BY <3>1, <3>4 DEF Agrees
    <3>7. CoherentSince'
      BY <3>1, <3>5, <3>6 DEF IInv, CoherentSince
    <3>8. CacheOK(work)' /\ ServerInv' /\ (token <= clock)' /\ PassInv' /\ DropInv'
      BY <3>1 DEF IInv, ServerInv, UidFree, Present, PassInv, DropInv
    <3>9. QED
      BY <1>0, <3>3, <3>7, <3>8 DEF IInv
  <2>4. QED
    BY <2>2, <2>3
<1>7. CASE DeleteDrop
  <2>1. PICK h \in Href : h = op.href
    BY <1>0, <1>7 DEF DeleteDrop, TypeOK, Op
  <2>2. /\ db' = DropHref(db, h)
        /\ kept' = {u \in kept : db'.rows[u] = db.rows[u]}
        /\ pc' = "idle" /\ wire' = wire /\ changedAt' = changedAt /\ clock' = clock
        /\ token' = token /\ work' = work
        /\ wire[h] = Absent \/ changedAt[h] > token
    BY <1>7, <2>1 DEF DeleteDrop, StillKept, serverVars, IInv, DropInv
  <2>3. CacheOK(db)'
    BY <1>0, <2>2, RemoveSound DEF IInv, DropHref
  <2>4. /\ UidsAt(db', h) = {}
        /\ \A g \in Href \ {h} : UidsAt(db', g) = UidsAt(db, g)
        /\ \A g \in Href \ {h} : \A u \in UidsAt(db, g) : db'.rows[u] = db.rows[u]
    BY <1>0, <2>1, <2>2, DropHrefRows
  <2>5. changedAt[h] <= token => Agrees(db, h)'
    <3>1. changedAt[h] \in Nat /\ token \in Int
      BY <1>0, <2>1 DEF TypeOK, ServerTypeOK, NoToken
    <3>2. QED
      BY <2>2, <2>4, <3>1 DEF Agrees
  <2>6. ASSUME NEW g \in Href \ {h}, Agrees(db, g) PROVE Agrees(db, g)'
    <3>1. CASE wire[g] # Absent /\ wire[g].kind = "item"
      <4>1. wire[g] \in ItemBody /\ wire[g].uid \in UID
        BY <1>0, <3>1, ItemBodyKind DEF ServerTypeOK, Body
      <4>2. wire[g].uid \in UidsAt(db, g)
        BY <2>6, <3>1, <4>1, AgreedRow DEF Agrees
      <4>3. QED
        BY <2>2, <2>4, <2>6, <3>1, <4>2 DEF Agrees
    <3>2. CASE ~(wire[g] # Absent /\ wire[g].kind = "item")
      BY <2>2, <2>4, <2>6, <3>2 DEF Agrees
    <3>3. QED
      BY <3>1, <3>2
  <2>7. CoherentSince'
    BY <2>2, <2>5, <2>6 DEF IInv, CoherentSince
  <2>8. CacheOK(work)' /\ ServerInv' /\ (token <= clock)' /\ PassInv' /\ DropInv'
    BY <2>2 DEF IInv, ServerInv, UidFree, Present, PassInv, DropInv
  <2>9. QED
    BY <1>0, <2>3, <2>7, <2>8 DEF IInv
<1>8. QED
  BY <1>1, <1>2, <1>3, <1>4, <1>5, <1>6, <1>7 DEF WriteStep

LEMMA AroundInv ==
    ASSUME IInv, ForeignStep \/ Owner
    PROVE  IInv'
<1>0. TypeOK' /\ TypeOK /\ db \in Cache /\ ServerTypeOK /\ ServerInv
  BY AroundType DEF IInv, TypeOK
<1>1. CASE ForeignStep
  <2>1. PICK h \in Href, b \in Body \cup {Absent} :
          Store(h, b) /\ (b # Absent => UidFree(h, b.uid))
    BY <1>1 DEF ForeignStep, Foreign, ForeignPut, ForeignDelete
  <2>2. UNCHANGED engineVars
    BY <1>1 DEF ForeignStep
  <2>3. ServerInv'
    BY <1>0, <2>1, StoreInv
  <2>4. CoherentSince' /\ PassInv'
    BY <1>0, <2>1, <2>2, StoreCoherent, StorePass DEF IInv, engineVars
  <2>5. (token <= clock)' /\ CacheOK(db)' /\ CacheOK(work)'
    BY <1>0, <2>1, <2>2 DEF IInv, engineVars, Store, TypeOK, ServerTypeOK, NoToken
  <2>6. DropInv'
    <3>1. CASE pc # "drop"
      BY <2>2, <3>1 DEF engineVars, DropInv
    <3>2. CASE pc = "drop"
      <4>1. PICK g \in Href : g = op.href /\ op' = op
        BY <1>0, <2>2, <3>2 DEF TypeOK, Op, engineVars
      <4>2. wire[g] = Absent \/ changedAt[g] > token
        BY <3>2, <4>1 DEF IInv, DropInv
      <4>3. wire'[g] = Absent \/ changedAt'[g] > token
        BY <1>0, <2>1, <4>2 DEF Store, IInv, TypeOK, ServerTypeOK, NoToken
      <4>4. QED
        BY <2>2, <4>1, <4>3 DEF DropInv, engineVars
    <3>3. QED
      BY <3>1, <3>2
  <2>7. QED
    BY <1>0, <2>3, <2>4, <2>5, <2>6 DEF IInv
<1>2. CASE Owner
  <2>1. PICK u \in UID : MarkSidecar(u) \/ AgeOrphan(u)
    BY <1>2 DEF Owner
  <2>2. /\ pc' = "idle" /\ UNCHANGED <<serverVars, token, work, kept>>
        /\ db' = SetSidecar(db, u) \/ db' = Age(db, u)
    BY <2>1 DEF MarkSidecar, AgeOrphan, LocalOnly
  <2>3. CacheOK(db)'
    BY <1>0, <2>2, SidecarSound DEF IInv
  <2>4. db'.rows = db.rows
    BY <1>0, <2>2 DEF SetSidecar, Age, Cache
  <2>5. CoherentSince' /\ ServerInv' /\ (token <= clock)' /\ CacheOK(work)'
    BY <2>2, <2>4 DEF IInv, serverVars, CoherentSince, Agrees, UidsAt, Cached,
                      ServerInv, UidFree, Present
  <2>6. PassInv' /\ DropInv'
    BY <2>2 DEF PassInv, DropInv
  <2>7. QED
    BY <1>0, <2>3, <2>5, <2>6 DEF IInv
<1>3. QED
  BY <1>1, <1>2

LEMMA StutterInv == IInv /\ UNCHANGED vars => IInv'
<1> SUFFICES ASSUME IInv, UNCHANGED vars PROVE IInv'
  OBVIOUS
<1> USE DEF vars, serverVars, engineVars
<1>1. TypeOK' /\ CacheOK(db)' /\ CacheOK(work)' /\ (token <= clock)' /\ DropInv'
  BY StutterType DEF IInv, DropInv
<1>2. ServerInv' /\ CoherentSince'
  BY DEF IInv, ServerInv, UidFree, Present, CoherentSince, Agrees
<1>3. PassInv'
  BY DEF IInv, PassInv, FullPassInv, IncrementalPassInv, AsReported, WorkAgrees, StillKept
<1>4. QED
  BY <1>1, <1>2, <1>3 DEF IInv

LEMMA NextInv == IInv /\ [Next]_vars => IInv'
<1> SUFFICES ASSUME IInv, [Next]_vars PROVE IInv'
  OBVIOUS
<1>1. CASE SyncStart
  BY <1>1, SyncIncrementalInv, SyncFullInv DEF SyncStart
<1>2. CASE SyncStep
  BY <1>2, ReadInv, CommitIncrementalInv, CommitFullInv DEF SyncStep
<1>3. CASE WriteStart \/ WriteStep
  BY <1>3, WriteStartInv, WriteStepInv
<1>4. CASE Fault
  BY <1>4, AbortInv, UnreadInv DEF Fault
<1>5. CASE ForeignStep \/ Owner
  BY <1>5, AroundInv
<1>6. CASE UNCHANGED vars
  BY <1>6, StutterInv
<1>7. QED
  BY <1>1, <1>2, <1>3, <1>4, <1>5, <1>6 DEF Next

-----------------------------------------------------------------------------

\* The inductive invariant holds throughout: what each operation relies on when
\* it continues after a request is true whatever happened meanwhile.
THEOREM Inductive == Spec => []IInv
<1>1. QED
  BY InitInv, NextInv, PTL DEF Spec

\* Rows and sidecars stay well formed, for any number of resources and UIDs.
THEOREM CacheSoundness == Spec => []CacheSound
<1>1. IInv => CacheSound
  BY DEF IInv, CacheSound
<1>2. QED
  BY <1>1, Inductive, PTL

\* The recorded token never covers a change that the cache does not have.
THEOREM TokenCoherence == Spec => []CoherentSince
<1>1. IInv => CoherentSince
  BY DEF IInv
<1>2. QED
  BY <1>1, Inductive, PTL

\* No operation but the collection of orphans makes a sidecar disappear.
LEMMA SidecarsStay ==
    ASSUME NEW c \in Cache, NEW u \in UID, c.side[u] = "aged"
    PROVE  /\ \A gone : Remove(c, gone).side[u] # "none"
           /\ \A h \in Href, b \in ItemBody : Upsert(c, h, b).side[u] # "none"
           /\ \A h : DropHref(c, h).side[u] # "none"
           /\ \A w \in UID : SetSidecar(c, w).side[u] # "none" /\ Age(c, w).side[u] # "none"
<1>1. \A gone : Remove(c, gone).side[u] # "none" /\ Remove(c, gone) \in Cache
  BY RemoveType DEF Remove
<1>2. ASSUME NEW h \in Href, NEW b \in ItemBody PROVE Upsert(c, h, b).side[u] # "none"
  <2>1. b.uid \in UID
    BY DEF ItemBody
  <2>2. QED
    BY <1>1, <2>1 DEF Upsert, Cache
<1>3. \A h : DropHref(c, h).side[u] # "none"
  BY <1>1 DEF DropHref
<1>4. \A w \in UID : SetSidecar(c, w).side[u] # "none" /\ Age(c, w).side[u] # "none"
  BY DEF SetSidecar, Age, Cache
<1>5. QED
  BY <1>1, <1>2, <1>3, <1>4

\* A full resync that skipped nothing has a row for every task whose resource
\* has not changed since its REPORT, and a row's sidecar is not an orphan; a
\* resource it could not read counts as skipped, and then nothing is collected.
LEMMA GcStep == IInv /\ [Next]_vars => GcSparesTheWire
<1> SUFFICES ASSUME IInv, [Next]_vars, NEW u \in UID,
                    db.side[u] = "aged", db'.side[u] = "none",
                    NEW h \in Present, changedAt[h] <= token', wire[h].uid = u,
                    wire[h].kind \in {"item", "poison"}
             PROVE  FALSE
  BY DEF GcSparesTheWire
<1>0. /\ TypeOK /\ db \in Cache /\ work \in Cache /\ ServerTypeOK /\ PassInv
      /\ h \in Href /\ wire[h] # Absent
  BY DEF IInv, TypeOK, Present
<1>1. CASE CommitFull
  <2> DEFINE swept == Remove(work, SweptUids)
  <2>1. /\ FullPassInv /\ pass.todo = {} /\ changedAt[h] \in Nat /\ CacheOK(work)
        /\ db' = IF pass.skipped THEN swept ELSE GcOrphans(swept)
        /\ token' = IF pass.unread THEN -1 ELSE pass.newToken
        /\ pass.unread => pass.skipped
        /\ \A w \in UID : work.side[w] = "none" => db.side[w] = "none"
    BY <1>0, <1>1 DEF IInv, PassInv, CommitFull, Publish, NoToken, ServerTypeOK
  <2>2. ~pass.unread /\ AsReported(h)
    BY <1>0, <2>1 DEF AsReported
  <2>3. swept.side[u] # "none"
    BY <2>1 DEF Remove
  <2>4. ~pass.skipped /\ swept.side[u] = "aged"
    BY <2>1, <2>3 DEF GcOrphans, Remove
  <2>5. h \in pass.listed /\ wire[h].kind = "item"
    BY <1>0, <2>1, <2>2, <2>4 DEF FullPassInv
  <2>6. work.rows[u] = [href |-> h, body |-> wire[h]] /\ wire[h] \in ItemBody
    BY <1>0, <2>1, <2>2, <2>5, ItemBodyKind DEF FullPassInv, ServerTypeOK
  <2>7. u \in UidsAt(work, h) /\ u \notin SweptUids
    BY <1>0, <2>5, <2>6, AgreedRow DEF SweptUids
  <2>8. u \in Cached(swept) /\ CacheOK(swept)
    <3>1. u \in Cached(swept)
      BY <2>7 DEF Remove, Cached, UidsAt
    <3>2. CacheOK(swept)
      BY <1>0, <2>1, RemoveSound
    <3>3. QED
      BY <3>1, <3>2
  <2>9. QED
    BY <2>4, <2>8 DEF CacheOK, SidecarMarked
<1>2. CASE CommitIncremental
  <2>1. db' = Remove(work, RemovedUids) /\ work.side[u] # "none"
    BY <1>0, <1>2 DEF CommitIncremental, Publish, PassInv
  <2>2. QED
    BY <2>1 DEF Remove
<1>3. CASE Refresh
  <2>1. CASE wire[op.href] # Absent /\ wire[op.href].kind = "item"
    <3>1. op.href \in Href
      BY <1>0, <1>3 DEF Refresh, TypeOK, Op
    <3>2. wire[op.href] \in ItemBody
      BY <1>0, <2>1, <3>1, ItemBodyKind DEF ServerTypeOK
    <3>3. db' = Upsert(db, op.href, wire[op.href])
      BY <1>3, <2>1 DEF Refresh
    <3>4. QED
      BY <1>0, <3>1, <3>2, <3>3, SidecarsStay
  <2>2. CASE ~(wire[op.href] # Absent /\ wire[op.href].kind = "item")
    BY <1>3, <2>2 DEF Refresh, Finish, CacheUntouched
  <2>3. QED
    BY <2>1, <2>2
<1>4. CASE DeleteDrop
  <2>1. db' = DropHref(db, op.href)
    BY <1>4 DEF DeleteDrop
  <2>2. QED
    BY <1>0, <2>1, SidecarsStay
<1>5. CASE Owner
  <2>1. PICK w \in UID : db' = SetSidecar(db, w) \/ db' = Age(db, w)
    BY <1>5 DEF Owner, MarkSidecar, AgeOrphan, LocalOnly
  <2>2. QED
    BY <1>0, <2>1, SidecarsStay
<1>6. CASE UNCHANGED db
  BY <1>6
<1>7. ASSUME NEW g \in Href, Read(g) \/ Unread(g) PROVE UNCHANGED db
  BY <1>7, SMTT(30) DEF Read, Unread
<1>8. SyncStart \/ WriteStart \/ Abort \/ ForeignStep \/ UNCHANGED vars => UNCHANGED db
  BY DEF SyncStart, SyncIncremental, SyncFull, StartPass, WriteStart, EditSend, CreateSend,
         DeleteSend, Begin, CacheUntouched, Abort, ForeignStep, engineVars, vars
<1>9. WriteStep => UNCHANGED db \/ Refresh \/ DeleteDrop
  BY DEF WriteStep, EditReread, Take, DeleteReread, CreateReread, EditResend, DeleteResend,
         Continue, Finish, CacheUntouched
<1>10. QED
  BY <1>1, <1>2, <1>3, <1>4, <1>5, <1>6, <1>7, <1>8, <1>9 DEF Next, SyncStep, Fault

\* What the owner set on a task is never collected while the task, or a
\* resource that may be the task, is on the wire.
THEOREM GcIsSafe == Spec => GcTakesOnlyTheGone
<1>1. QED
  BY Inductive, GcStep, PTL DEF Spec, GcTakesOnlyTheGone

-----------------------------------------------------------------------------

\* The revision delete_task is about to delete passed its identity check.
SeenIsOurs ==
    pc = "resend" /\ op.kind = "delete" /\ op.seen.kind = "item" => op.seen.uid = op.uid

LEMMA SeenIsOursStep == TypeOK /\ SeenIsOurs /\ [Next]_vars => SeenIsOurs'
<1> SUFFICES ASSUME TypeOK, SeenIsOurs, [Next]_vars, pc' = "resend", op'.kind = "delete",
                    op'.seen.kind = "item"
             PROVE  op'.seen.uid = op'.uid
  BY DEF SeenIsOurs
<1>1. CASE UNCHANGED <<pc, op>>
  BY <1>1 DEF SeenIsOurs
<1>2. CASE EditReread
  BY <1>2 DEF EditReread, Take, Finish, TypeOK, Op
<1>3. CASE DeleteReread
  BY <1>3, SMTT(30) DEF DeleteReread, Take, Continue, Finish, TypeOK, Op
<1>4. QED
  BY <1>1, <1>2, <1>3
     DEF Next, SyncStart, SyncStep, SyncIncremental, SyncFull, StartPass, Read,
         CommitIncremental, CommitFull, Publish, WriteStart, EditSend, CreateSend, DeleteSend,
         Begin, WriteStep, CreateReread, EditResend, DeleteResend, Refresh, DeleteDrop,
         Continue, Finish, Fault, Abort, Unread, ForeignStep, Owner, MarkSidecar, AgeOrphan,
         LocalOnly, vars, engineVars

LEMMA DeleteStep ==
    ASSUME IInv, SeenIsOurs, [Next]_vars, NEW h \in Href, WeRemove(h), wire[h].kind = "item"
    PROVE  wire[h].uid = op'.uid
<1>0. TypeOK /\ db \in Cache /\ ServerTypeOK /\ CacheOK(db)
  BY DEF IInv, TypeOK
<1>1. ASSUME NEW u \in UID, DeleteSend(u) PROVE wire[h].uid = op'.uid
  <2> DEFINE r == db.rows[u]
  <2>1. op'.uid = u /\ r # Absent
    BY <1>1 DEF DeleteSend, Begin, NewOp
  <2>2. wire[r.href] = r.body /\ h = r.href
    BY <1>0, <1>1, RowType DEF DeleteSend, WeRemove, Store, serverVars, ServerTypeOK
  <2>3. r.body.uid = u
    BY <1>0, <2>1 DEF CacheOK, KeyedOnUid, Cached
  <2>4. QED
    BY <2>1, <2>2, <2>3
<1>2. CASE DeleteResend
  <2>1. op' = op /\ op.href = h /\ wire[h] = op.seen
    BY <1>0, <1>2 DEF DeleteResend, Continue, Finish, WeRemove, Store, serverVars, ServerTypeOK
  <2>2. QED
    BY <1>2, <2>1 DEF SeenIsOurs, DeleteResend
<1>3. ASSUME NEW u \in UID, NEW v \in Version, EditSend(u, v) PROVE FALSE
  <2>1. db.rows[u].href \in Href /\ Edited(db.rows[u].body, v) # Absent
    BY <1>0, <1>3, RowType, ItemIsBody, EditedType, AbsentAssumption DEF EditSend
  <2>2. QED
    BY <1>0, <1>3, <2>1 DEF EditSend, WeRemove, Store, serverVars, ServerTypeOK
<1>4. ASSUME NEW u \in UID, NEW v \in Version, CreateSend(u, v) PROVE FALSE
  <2>1. Home[u] \in Href /\ [uid |-> u, kind |-> "item", ver |-> v] # Absent
    BY HomeAssumption, AbsentAssumption DEF Body, Kind
  <2>2. QED
    BY <1>0, <1>4, <2>1 DEF CreateSend, WeRemove, Store, serverVars, ServerTypeOK
<1>5. ASSUME NEW v \in Version, EditResend(v) PROVE FALSE
  <2>1. op.seen \in Body
    BY <1>0, <1>5 DEF EditResend, TypeOK, Op
  <2>2. Edited(op.seen, v) # Absent
    BY <2>1, EditedType, AbsentAssumption
  <2>3. QED
    BY <1>0, <1>5, <2>2 DEF EditResend, Finish, WeRemove, Store, serverVars, ServerTypeOK
<1>6. UNCHANGED pc \/ UNCHANGED wire => FALSE
  BY DEF WeRemove
<1>7. QED
  BY <1>1, <1>2, <1>3, <1>4, <1>5, <1>6
     DEF Next, SyncStart, SyncStep, SyncIncremental, SyncFull, StartPass, Read,
         CommitIncremental, CommitFull, Publish, WriteStart, WriteStep, EditReread,
         DeleteReread, Take, CreateReread, Refresh, DeleteDrop, Continue, Finish, Fault, Abort,
         Unread, ForeignStep, Owner, MarkSidecar, AgeOrphan, LocalOnly,
         vars, serverVars, engineVars

\* A delete of one task never destroys another task or event, however often the
\* resource at its href is replaced while delete_task is answering a 412.
THEOREM DeleteIsSafe == Spec => DeletesOnlyItsOwn
<1>1. Init => SeenIsOurs
  BY DEF Init, SeenIsOurs
<1>2. IInv => TypeOK
  BY DEF IInv
<1>3. IInv /\ SeenIsOurs /\ [Next]_vars =>
        \A h \in Href : WeRemove(h) /\ wire[h].kind = "item" => wire[h].uid = op'.uid
  BY DeleteStep
<1>4. QED
  BY <1>1, <1>2, <1>3, Inductive, SeenIsOursStep, PTL DEF Spec, DeletesOnlyItsOwn

=============================================================================
