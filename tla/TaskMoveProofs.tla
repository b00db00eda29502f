--------------------------- MODULE TaskMoveProofs ---------------------------
(***************************************************************************)
(* Proofs about TaskMove, for any lists, hrefs, tasks and events, and any  *)
(* number of writes by other clients, of lost answers and of crashes: type *)
(* correctness, that the move of a task loses nothing, and that what the   *)
(* owner set about a task follows it.                                      *)
(***************************************************************************)
EXTENDS TaskMove, TLAPS

GoodCache(c) == c \in Cache /\ OneRowPerHref(c) /\ KeyedOnUid(c)

-----------------------------------------------------------------------------
(* The cache.                                                                *)

LEMMA EmptyGood == GoodCache(EmptyCache)
BY DEF EmptyCache, GoodCache, Cache, Mark, OneRowPerHref, KeyedOnUid, Cached

LEMMA RemoveGood ==
    ASSUME NEW c, GoodCache(c), NEW gone
    PROVE  GoodCache(Remove(c, gone))
<1> DEFINE d == Remove(c, gone)
<1>1. d \in Cache
  BY DEF GoodCache, Remove, Cache, Mark
<1>2. \A u \in UID : d.rows[u] = IF u \in gone THEN Absent ELSE c.rows[u]
  BY DEF Remove
<1>3. \A u \in UID : u \in Cached(d) <=> u \in Cached(c) /\ u \notin gone
  BY <1>2 DEF Cached
<1> HIDE DEF d
<1>4. GoodCache(d)
  BY <1>1, <1>2, <1>3 DEF GoodCache, OneRowPerHref, KeyedOnUid, Cached
<1> QED
  BY <1>4 DEF d

\* An upsert evicts what else is cached at its href.
LEMMA UpsertGood ==
    ASSUME NEW c, GoodCache(c), NEW h \in Href, NEW b \in ItemBody
    PROVE  GoodCache(Upsert(c, h, b))
<1> DEFINE e == Remove(c, UidsAt(c, h) \ {b.uid})
           d == Upsert(c, h, b)
<1>1. GoodCache(e) /\ b.uid \in UID /\ [href |-> h, body |-> b] \in Row
  BY RemoveGood DEF ItemBody, Row
<1>2. \A u \in UID : e.rows[u] = IF u \in UidsAt(c, h) \ {b.uid} THEN Absent ELSE c.rows[u]
  BY DEF Remove
<1>3. d \in Cache /\ d.rows = [e.rows EXCEPT ![b.uid] = [href |-> h, body |-> b]]
  BY <1>1 DEF Upsert, GoodCache, Cache, Mark
<1> HIDE DEF d, e
<1>4. \A u \in UID : d.rows[u] = IF u = b.uid THEN [href |-> h, body |-> b] ELSE e.rows[u]
  BY <1>1, <1>3 DEF GoodCache, Cache
<1>5. \A u \in Cached(d) \ {b.uid} : u \in Cached(e) /\ e.rows[u].href # h
  BY <1>2, <1>4 DEF Cached, UidsAt
<1>6. OneRowPerHref(d) /\ KeyedOnUid(d)
  BY <1>1, <1>4, <1>5 DEF GoodCache, OneRowPerHref, KeyedOnUid, Cached
<1> QED
  BY <1>3, <1>6 DEF GoodCache, d

LEMMA DropHrefGood ==
    ASSUME NEW c, GoodCache(c), NEW h \in Href
    PROVE  GoodCache(DropHref(c, h))
BY RemoveGood DEF DropHref

\* A change of sidecars leaves the rows alone.
LEMMA SideGood ==
    ASSUME NEW c, GoodCache(c), NEW d, d \in Cache, d.rows = c.rows
    PROVE  GoodCache(d) /\ Cached(d) = Cached(c)
BY DEF GoodCache, OneRowPerHref, KeyedOnUid, Cached

LEMMA MarkGood ==
    ASSUME NEW c, GoodCache(c), NEW u \in UID, NEW m \in Mark
    PROVE  /\ GoodCache([c EXCEPT !.side[u] = m])
           /\ [c EXCEPT !.side[u] = m].rows = c.rows
<1> DEFINE d == [c EXCEPT !.side[u] = m]
<1>1. d \in Cache /\ d.rows = c.rows
  BY DEF GoodCache, Cache
<1> HIDE DEF d
<1>2. GoodCache(d) /\ d.rows = c.rows
  BY <1>1, SideGood
<1> QED
  BY <1>2 DEF d

LEMMA SetSidecarGood ==
    ASSUME NEW c, GoodCache(c), NEW u \in UID
    PROVE  GoodCache(SetSidecar(c, u)) /\ SetSidecar(c, u).rows = c.rows
<1>1. "live" \in Mark
  BY DEF Mark
<1> QED
  BY <1>1, MarkGood DEF SetSidecar

\* Deleting the row at h leaves one row per href, and the rows elsewhere.
LEMMA DropRowGood ==
    ASSUME NEW c, GoodCache(c), NEW h \in Href
    PROVE  /\ GoodCache(DropRow(c, h))
           /\ \A u \in UID : DropRow(c, h).rows[u] = IF u \in UidsAt(c, h) THEN Absent ELSE c.rows[u]
           /\ DropRow(c, h).side = c.side
<1> DEFINE d == DropRow(c, h)
<1>1. d \in Cache
  BY DEF GoodCache, Cache, DropRow
<1>2. /\ \A u \in UID : d.rows[u] = IF u \in UidsAt(c, h) THEN Absent ELSE c.rows[u]
      /\ d.side = c.side
  BY DEF GoodCache, Cache, DropRow
<1>3. \A u \in Cached(d) : u \in Cached(c) /\ d.rows[u] = c.rows[u]
  BY <1>2 DEF Cached
<1> HIDE DEF d
<1>4. OneRowPerHref(d) /\ KeyedOnUid(d)
  BY <1>3 DEF GoodCache, OneRowPerHref, KeyedOnUid
<1> QED
  BY <1>1, <1>2, <1>4 DEF GoodCache, d

LEMMA OrphanMarkGood ==
    ASSUME NEW c, GoodCache(c), NEW u \in UID
    PROVE  GoodCache(OrphanMark(c, u)) /\ OrphanMark(c, u).rows = c.rows
<1> DEFINE m == IF c.side[u] = "live" THEN "fresh" ELSE c.side[u]
<1>1. m \in Mark
  BY DEF GoodCache, Cache, Mark
<1>2. OrphanMark(c, u) = [c EXCEPT !.side[u] = m]
  BY DEF OrphanMark
<1> QED
  BY <1>1, <1>2, MarkGood

\* The cached row of an item: where it is, and that it is its own.
LEMMA RowGood ==
    ASSUME NEW c, GoodCache(c), NEW u \in Cached(c)
    PROVE  /\ c.rows[u] \in Row
           /\ c.rows[u].href \in Href
           /\ c.rows[u].body \in ItemBody
BY DEF GoodCache, Cached, Cache, Row

-----------------------------------------------------------------------------
(* Bodies.                                                                   *)

LEMMA WrittenType ==
    ASSUME NEW o, NEW b \in ItemBody
    PROVE  Written(o, b) \in ItemBody /\ Written(o, b).uid = b.uid
BY VersionAssumption DEF Written, ItemBody

\* What says the same goes on saying the same without its parent link.
LEMMA WrittenSame ==
    ASSUME NEW o, NEW a \in ItemBody, NEW b \in ItemBody, SameTask(a, b)
    PROVE  SameTask(Written(o, a), Written(o, b))
BY VersionAssumption DEF Written, ItemBody, SameTask

LEMMA ItemIsThere ==
    ASSUME NEW b \in ItemBody
    PROVE  b # Absent
BY AbsentAssumption DEF ItemBody, Body, Kind

-----------------------------------------------------------------------------
(* The move under way.                                                       *)

\* What is typed of it.
LEMMA OpType ==
    ASSUME TypeOK, op # Absent
    PROVE  /\ op \in Move
           /\ op.src \in List /\ op.dst \in List /\ op.href \in Href
           /\ op.uid \in UID /\ op.rest \subseteq UID
           /\ op.body \in ItemBody \cup {Absent} /\ op.copy \in ItemBody \cup {Absent}
BY DEF TypeOK, Move

LEMMA CachesType ==
    ASSUME TypeOK, NEW l \in List
    PROVE  GoodCache(cache[l])
BY DEF TypeOK, GoodCache

LEMMA CachesGood ==
    ASSUME NEW f, f \in [List -> Cache], \A l \in List : GoodCache(f[l])
    PROVE  \A l \in List : OneRowPerHref(f[l]) /\ KeyedOnUid(f[l])
BY DEF GoodCache

\* Only what is cached is below a cached task.
LEMMA SubtreeCached ==
    ASSUME NEW l \in List, NEW u \in Cached(cache[l])
    PROVE  Subtree(l, u) \subseteq Cached(cache[l])
<1> DEFINE C == Cached(cache[l])
<1>1. C \in SUBSET UID
  BY DEF Cached
<1>2. \A w \in C : Kids(l, w) \subseteq C
  BY DEF Kids
<1> QED
  BY <1>1, <1>2 DEF Subtree

\* The next resource of a move, and where it is.
LEMMA EngineMove ==
    ASSUME TypeOK, NEW o \in Move, o.rest \subseteq Cached(cache[o.src]), NEW v \in NextOf(o)
    PROVE  /\ v \in o.rest
           /\ Engine(o, v) \in Move
           /\ Engine(o, v) # Absent
           /\ Engine(o, v).src = o.src /\ Engine(o, v).dst = o.dst
           /\ Engine(o, v).root = o.root /\ Engine(o, v).uid = v
           /\ Engine(o, v).rest = o.rest \ {v}
           /\ Engine(o, v).href = RowOf(o.src, v).href
           /\ ~Engine(o, v).wrote
<1>1. v \in o.rest
  BY DEF NextOf
<1>2. o.src \in List /\ v \in Cached(cache[o.src])
  BY <1>1 DEF Move
<1>3. v \in UID /\ RowOf(o.src, v).href \in Href
  BY <1>2, CachesType, RowGood DEF RowOf, Cached
<1>4. Engine(o, v) \in Move
  BY <1>3 DEF Engine, Move
<1> QED
  BY <1>1, <1>4, MoveAssumption DEF Engine, Move

\* A move starts, or goes on to its next resource, with nothing in hand.
LEMMA EngineInv ==
    ASSUME TypeOK, NEW o \in Move, o.rest \subseteq Cached(cache[o.src]), o.src # o.dst,
           NEW v \in NextOf(o), op' = Engine(o, v), pc' = "get",
           \A l \in List : cache'[l].rows = cache[l].rows
    PROVE  /\ op' \in Move /\ op' # Absent
           /\ op'.root = o.root /\ ~op'.wrote
           /\ Underway'
<1>1. /\ v \in o.rest
      /\ op' \in Move /\ op' # Absent
      /\ op'.root = o.root /\ ~op'.wrote
      /\ op'.src = o.src /\ op'.dst = o.dst /\ op'.uid = v
      /\ op'.rest = o.rest \ {v}
      /\ op'.href = RowOf(o.src, v).href
  BY EngineMove
<1>2. o.src \in List
  BY DEF Move
<1>3. op'.rest \subseteq Cached(cache'[op'.src]) \ {op'.uid}
  BY <1>1, <1>2 DEF Cached
<1>4. cache'[op'.src].rows[op'.uid] # Absent /\ cache'[op'.src].rows[op'.uid].href = op'.href
  BY <1>1, <1>2 DEF Cached, RowOf
<1> QED
  BY <1>1, <1>3, <1>4 DEF Underway, RowOf

LEMMA NewMoveType ==
    ASSUME TypeOK, NEW s \in List, NEW d \in List, NEW u \in Cached(cache[s])
    PROVE  /\ NewMove(s, d, u) \in Move
           /\ NewMove(s, d, u).src = s /\ NewMove(s, d, u).dst = d
           /\ NewMove(s, d, u).rest = {u} /\ NewMove(s, d, u).root = u
<1>1. u \in UID /\ RowOf(s, u).href \in Href
  BY CachesType, RowGood DEF RowOf, Cached
<1> QED
  BY <1>1 DEF NewMove, Move

LEMMA StartInv ==
    ASSUME IInv, NEW o \in Move, o.rest \subseteq Cached(cache[o.src]), o.src # o.dst,
           NEW v \in NextOf(o), Start(Engine(o, v))
    PROVE  IInv'
<1>1. /\ op' = Engine(o, v) /\ pc' = "get" /\ live' = OnTheWire
      /\ UNCHANGED <<wire, cache, stranded, faults, event, pinned, foreign>>
  BY DEF Start, Bystanders
<1>2. op' \in Move /\ op' # Absent /\ ~op'.wrote /\ Underway'
  BY <1>1, EngineInv DEF IInv
<1>3. live' \in Protected
  BY <1>1 DEF OnTheWire, Protected, IInv, TypeOK
<1>4. TypeOK'
  BY <1>1, <1>2, <1>3 DEF IInv, TypeOK
<1>5. AllHeld'
  BY <1>1 DEF AllHeld, OnTheWire, Holds, SameTask
<1>6. CopySays'
  BY <1>1, <1>2 DEF CopySays
<1> QED
  BY <1>2, <1>4, <1>5, <1>6 DEF IInv

LEMMA StartTaskMoveInv ==
    ASSUME IInv, NEW s \in List, NEW d \in List, NEW u \in UID, StartTaskMove(s, d, u)
    PROVE  IInv'
<1> DEFINE tree == Subtree(s, u)
           unparent == HasParent(RowOf(s, u).body)
           keep == {v \in tree : cache[d].side[v] = "live"}
           o == [NewMove(s, d, u) EXCEPT
                    !.rest = tree, !.unparent = unparent, !.keep = keep]
<1>1. s # d /\ u \in Cached(cache[s])
  BY DEF StartTaskMove
<1>2. tree \subseteq Cached(cache[s]) /\ tree \subseteq UID
  BY <1>1, SubtreeCached DEF Cached
<1>3. PICK v \in NextOf(o) : Start(Engine(o, v))
  BY DEF StartTaskMove
<1>4. unparent \in BOOLEAN /\ keep \subseteq UID
  BY <1>2 DEF HasParent
<1> HIDE DEF unparent, tree, keep
<1>5. NewMove(s, d, u) \in Move /\ NewMove(s, d, u).src = s /\ NewMove(s, d, u).dst = d
  BY <1>1, NewMoveType DEF IInv
<1>6. /\ o \in Move /\ o.src = s /\ o.dst = d /\ o.rest = tree
  BY <1>2, <1>4, <1>5 DEF Move
<1> HIDE DEF o
<1> QED
  BY <1>1, <1>2, <1>3, <1>6, StartInv

LEMMA StartEventMoveInv ==
    ASSUME IInv, NEW s \in List, NEW d \in List, NEW u \in UID, StartEventMove(s, d, u)
    PROVE  IInv'
<1> DEFINE keep == IF cache[s].side[u] = "none" THEN {} ELSE {u}
           o == [NewMove(s, d, u) EXCEPT !.keep = keep]
<1>1. s # d /\ u \in Cached(cache[s]) /\ Start(Engine(o, u))
  BY DEF StartEventMove
<1>2. keep \in SUBSET UID
  OBVIOUS
<1> HIDE DEF keep
<1>3. o \in Move /\ o.src = s /\ o.dst = d /\ o.rest = {u} /\ o.root = u
  BY <1>1, <1>2, NewMoveType DEF IInv, Move
<1> HIDE DEF o
<1>4. u \in NextOf(o)
  BY <1>3 DEF NextOf
<1> QED
  BY <1>1, <1>3, <1>4, StartInv

-----------------------------------------------------------------------------
(* The requests.                                                             *)

Requests == {"get", "holds", "put", "occupied", "adopt", "delete", "asked", "undo", "finish"}
WithBody == {"put", "occupied", "adopt", "delete", "undo"}
Wires == [List -> [Href -> ItemBody \cup {Absent}]]

LEMMA WireType ==
    ASSUME TypeOK, NEW l \in List, NEW h \in Href, NEW b \in ItemBody \cup {Absent},
           wire' = [wire EXCEPT ![l][h] = b]
    PROVE  /\ wire' \in Wires
           /\ wire'[l][h] = b
           /\ \A k \in List : \A g \in Href : k # l \/ g # h => wire'[k][g] = wire[k][g]
BY DEF TypeOK, Wires

LEMMA WireBody ==
    ASSUME TypeOK, NEW l \in List, NEW h \in Href
    PROVE  wire[l][h] \in ItemBody \cup {Absent}
BY DEF TypeOK

\* A move that ends leaves nothing under way.
LEMMA EndInv ==
    ASSUME IInv, pc' = "idle", op' = Absent, live' = Nothing,
           wire' \in Wires, cache' \in [List -> Cache], \A l \in List : GoodCache(cache'[l]),
           stranded' \subseteq UID, UNCHANGED <<event, pinned, foreign>>
    PROVE  IInv'
<1>1. live' \in Protected
  BY DEF Nothing, Protected
<1>2. TypeOK'
  BY <1>1 DEF IInv, TypeOK, GoodCache, Wires
<1> QED
  BY <1>2 DEF IInv, Underway, AllHeld, CopySays

LEMMA StopInv ==
    ASSUME IInv, Stop
    PROVE  IInv'
<1>1. \A l \in List : GoodCache(cache[l])
  BY CachesType DEF IInv
<1> QED
  BY <1>1, EndInv DEF Stop, Bystanders, IInv, TypeOK, Wires

\* A request, up to the deletion of the source, leaves the caches alone.
LEMMA RequestInv ==
    ASSUME IInv, op # Absent, pc \in Requests, pc' \in Requests,
           op' \in Move,
           op'.src = op.src, op'.dst = op.dst, op'.root = op.root,
           op'.uid = op.uid, op'.href = op.href, op'.rest = op.rest,
           pc' \in WithBody => op'.body # Absent,
           wire' \in Wires, live' \in Protected,
           UNCHANGED <<cache, stranded, event, pinned, foreign>>
    PROVE  TypeOK' /\ Underway'
<1>1. op' # Absent
  BY MoveAssumption
<1>2. TypeOK'
  BY <1>1 DEF IInv, TypeOK, Wires, Requests
<1>3. Underway'
  BY DEF IInv, Underway, Requests, WithBody, RowOf
<1> QED
  BY <1>2, <1>3

\* Where nothing is written, what was held is held.
LEMMA StillHeld ==
    ASSUME IInv, op # Absent, op'.root = op.root, UNCHANGED <<wire, live, event>>
    PROVE  AllHeld'
BY DEF IInv, AllHeld, Holds, IsTask

LEMMA GotoInv ==
    ASSUME IInv, op # Absent, op' = op, pc \in Requests,
           NEW next \in Requests \ {"adopt", "delete"}, Goto(next),
           next \in WithBody => pc \in WithBody,
           next \in {"get", "put", "occupied"} => pc \in {"get", "put", "occupied"},
           IsTask /\ next = "undo" => pc = "delete" /\ op.wrote
    PROVE  IInv'
<1>1. pc' = next /\ UNCHANGED <<wire, cache, live, stranded, faults, event, pinned, foreign>>
  BY DEF Goto, Bystanders
<1>2. pc' \in WithBody => op'.body # Absent
  BY <1>1 DEF IInv, Underway, WithBody
<1>3. wire' \in Wires /\ live' \in Protected
  BY <1>1 DEF IInv, TypeOK, Wires
<1>4. TypeOK' /\ Underway'
  BY <1>1, <1>2, <1>3, OpType, RequestInv DEF IInv
<1>5. AllHeld'
  BY <1>1, StillHeld
<1>6. CopySays'
  BY <1>1 DEF IInv, CopySays, IsTask, Requests
<1> QED
  BY <1>4, <1>5, <1>6 DEF IInv

\* An operation whose body, copy or authorship is set.
LEMMA SetBody ==
    ASSUME NEW o \in Move, NEW b \in ItemBody \cup {Absent}
    PROVE  LET n == [o EXCEPT !.body = b] IN
           /\ n \in Move /\ n.body = b /\ n.wrote = o.wrote
           /\ n.src = o.src /\ n.dst = o.dst /\ n.root = o.root /\ n.uid = o.uid
           /\ n.href = o.href /\ n.rest = o.rest /\ n.keep = o.keep
BY DEF Move

LEMMA SetCopy ==
    ASSUME NEW o \in Move, NEW b \in ItemBody \cup {Absent}
    PROVE  LET n == [o EXCEPT !.copy = b] IN
           /\ n \in Move /\ n.copy = b /\ n.body = o.body /\ n.wrote = o.wrote
           /\ n.src = o.src /\ n.dst = o.dst /\ n.root = o.root /\ n.uid = o.uid
           /\ n.href = o.href /\ n.rest = o.rest /\ n.unparent = o.unparent /\ n.keep = o.keep
BY DEF Move

LEMMA SetWritten ==
    ASSUME NEW o \in Move, NEW b \in ItemBody \cup {Absent}
    PROVE  LET n == [o EXCEPT !.copy = b, !.wrote = TRUE] IN
           /\ n \in Move /\ n.copy = b /\ n.body = o.body /\ n.wrote
           /\ n.src = o.src /\ n.dst = o.dst /\ n.root = o.root /\ n.uid = o.uid
           /\ n.href = o.href /\ n.rest = o.rest /\ n.unparent = o.unparent /\ n.keep = o.keep
BY DEF Move

LEMMA GetInv == ASSUME IInv, Get PROVE IInv'
<1> DEFINE b == wire[op.src][op.href]
<1>1. pc = "get" /\ op # Absent
  BY DEF Get, IInv, TypeOK
<1>2. b \in ItemBody \cup {Absent} /\ op \in Move
  BY <1>1, OpType, WireBody DEF IInv
<1>3. CASE b # Absent /\ op' = [op EXCEPT !.body = b] /\ Goto("put")
  <2>1. pc' = "put" /\ UNCHANGED <<wire, cache, live, stranded, faults, event, pinned, foreign>>
    BY <1>3 DEF Goto, Bystanders
  <2>2. wire' \in Wires /\ live' \in Protected
    BY <2>1 DEF IInv, TypeOK, Wires
  <2> HIDE DEF b
  <2>3. /\ op' \in Move /\ op'.body = b /\ op'.wrote = op.wrote
        /\ op'.src = op.src /\ op'.dst = op.dst /\ op'.root = op.root /\ op'.uid = op.uid
        /\ op'.href = op.href /\ op'.rest = op.rest
    BY <1>2, <1>3, SetBody
  <2>4. TypeOK' /\ Underway'
    BY <1>1, <1>3, <2>1, <2>2, <2>3, RequestInv DEF Requests
  <2>5. AllHeld'
    BY <1>1, <2>1, <2>3, StillHeld
  <2>6. CopySays'
    BY <1>1, <2>1, <2>3 DEF CopySays, IInv, IsTask
  <2> QED
    BY <2>4, <2>5, <2>6 DEF IInv
<1>4. CASE op' = op /\ Goto("holds")
  BY <1>1, <1>4, GotoInv DEF Requests, WithBody
<1>5. CASE Stop
  BY <1>5, StopInv
<1> QED
  BY <1>3, <1>4, <1>5 DEF Get

LEMMA FindCopyInv == ASSUME IInv, FindCopy PROVE IInv'
<1>1. pc = "holds" /\ op # Absent
  BY DEF FindCopy, IInv, TypeOK
<1>2. CASE op' = op /\ Goto("finish")
  BY <1>1, <1>2, GotoInv DEF Requests, WithBody
<1>3. CASE Stop
  BY <1>3, StopInv
<1> QED
  BY <1>2, <1>3 DEF FindCopy

-----------------------------------------------------------------------------
(* What is written on the wire.                                              *)

LEMMA WrittenAlike ==
    ASSUME NEW o, NEW n, NEW b, n.unparent = o.unparent, n.uid = o.uid, n.root = o.root
    PROVE  Written(n, b) = Written(o, b)
BY DEF Written

LEMMA SameTaskMeans ==
    ASSUME NEW a, NEW b, NEW c, SameTask(a, b)
    PROVE  /\ SameTask(b, a)
           /\ SameTask(b, c) => SameTask(a, c)
           /\ SameTask(a, c) => SameTask(b, c)
BY DEF SameTask

LEMMA LiveBodies ==
    ASSUME TypeOK, NEW l \in List, NEW h \in Href
    PROVE  live[l][h] \subseteq ItemBody
BY DEF TypeOK, Protected

\* Nothing is held where there is nothing.
LEMMA NothingAtAbsent ==
    ASSUME IInv, op # Absent, IsTask, NEW l \in List, NEW h \in Href, wire[l][h] = Absent
    PROVE  live[l][h] = {}
BY DEF IInv, AllHeld, Holds

\* A copy that says what was read says what is still there of it.
LEMMA CopyOfTheRead ==
    ASSUME IInv, op # Absent, IsTask, op.body \in ItemBody, wire[op.src][op.href] = op.body,
           NEW c \in ItemBody, SameTask(c, Written(op, op.body)),
           NEW b \in live[op.src][op.href]
    PROVE  SameTask(c, Written(op, b))
<1>1. op.src \in List /\ op.href \in Href
  BY OpType DEF IInv
<1>2. b \in ItemBody /\ SameTask(op.body, b)
  BY <1>1, LiveBodies DEF IInv, AllHeld, Holds
<1>3. SameTask(Written(op, op.body), Written(op, b))
  BY <1>2, WrittenSame
<1> QED
  BY <1>3, SameTaskMeans

\* The copy is put where there was nothing.
LEMMA PutKeeps ==
    ASSUME IInv, op # Absent, pc = "put", ~Occupied(op.href, op.body), PutLands
    PROVE  /\ wire' \in Wires
           /\ op.body \in ItemBody /\ wire'[op.dst][op.href] = Written(op, op.body)
           /\ op.src # op.dst
           /\ \A k \in List : \A g \in Href :
                 k # op.dst \/ g # op.href => wire'[k][g] = wire[k][g]
           /\ IsTask => live[op.dst][op.href] = {}
<1>1. op.dst \in List /\ op.href \in Href /\ op.body \in ItemBody
  BY OpType DEF IInv, Underway
<1>2. op.src # op.dst
  BY DEF IInv, Underway
<1>3. Written(op, op.body) \in ItemBody
  BY <1>1, WrittenType
<1>4. /\ wire' \in Wires /\ wire'[op.dst][op.href] = Written(op, op.body)
      /\ \A k \in List : \A g \in Href :
            k # op.dst \/ g # op.href => wire'[k][g] = wire[k][g]
  <2>1. TypeOK /\ wire' = [wire EXCEPT ![op.dst][op.href] = Written(op, op.body)]
    BY DEF PutLands, IInv
  <2> QED
    BY <1>1, <1>3, <2>1 DEF TypeOK, Wires
<1>5. wire[op.dst][op.href] = Absent
  BY DEF Occupied
<1> QED
  BY <1>1, <1>2, <1>4, <1>5, NothingAtAbsent

\* The source is deleted once the copy says what is there.
LEMMA DeleteKeeps ==
    ASSUME IInv, op # Absent, pc = "delete", wire[op.src][op.href] = op.body, DeleteLands
    PROVE  /\ wire' \in Wires /\ live' \in Protected
           /\ op.src \in List /\ op.dst \in List /\ op.href \in Href /\ op.src # op.dst
           /\ \A k \in List : \A g \in Href :
                 k # op.src \/ g # op.href => wire'[k][g] = wire[k][g]
           /\ live'[op.src][op.href] = {}
           /\ live'[op.dst][op.href]
                 = live[op.dst][op.href] \cup {Written(op, b) : b \in live[op.src][op.href]}
           /\ \A k \in List : \A g \in Href :
                 g # op.href \/ k \notin {op.src, op.dst} => live'[k][g] = live[k][g]
           /\ IsTask => \A b \in live[op.src][op.href] :
                           Holds(op.dst, op.href, Written(op, b))
<1>1. op.src \in List /\ op.dst \in List /\ op.href \in Href /\ op.src # op.dst
  BY OpType DEF IInv, Underway
<1>2. /\ wire' \in Wires
      /\ \A k \in List : \A g \in Href :
            k # op.src \/ g # op.href => wire'[k][g] = wire[k][g]
  BY <1>1, WireType, ZenonT(40) DEF DeleteLands, IInv
<1> DEFINE carried == {Written(op, b) : b \in live[op.src][op.href]}
<1>3. carried \subseteq ItemBody
  BY <1>1, LiveBodies, WrittenType DEF IInv
<1> HIDE DEF carried
<1>4. /\ live \in Protected
      /\ live' = [live EXCEPT ![op.src][op.href] = {}, ![op.dst][op.href] = @ \cup carried]
  BY DEF DeleteLands, carried, IInv, TypeOK
<1>5. /\ live' \in Protected
      /\ live'[op.src][op.href] = {}
      /\ live'[op.dst][op.href] = live[op.dst][op.href] \cup carried
      /\ \A k \in List : \A g \in Href :
            g # op.href \/ k \notin {op.src, op.dst} => live'[k][g] = live[k][g]
  BY <1>1, <1>3, <1>4, ZenonT(40) DEF Protected
<1>6. IsTask => \A b \in live[op.src][op.href] : Holds(op.dst, op.href, Written(op, b))
  BY DEF IInv, CopySays
<1> QED
  BY <1>1, <1>2, <1>5, <1>6 DEF carried

\* The rollback deletes a copy nobody else has anything in.
LEMMA UndoKeeps ==
    ASSUME IInv, op # Absent, pc = "undo", wire[op.dst][op.href] # Absent,
           op.copy \in {wire[op.dst][op.href], Absent}, UndoLands
    PROVE  /\ wire' \in Wires
           /\ \A k \in List : \A g \in Href :
                 k # op.dst \/ g # op.href => wire'[k][g] = wire[k][g]
           /\ IsTask => live[op.dst][op.href] = {}
<1>1. op.dst \in List /\ op.href \in Href
  BY OpType DEF IInv
<1>2. /\ wire' \in Wires
      /\ \A k \in List : \A g \in Href :
            k # op.dst \/ g # op.href => wire'[k][g] = wire[k][g]
  <2>1. TypeOK /\ wire' = [wire EXCEPT ![op.dst][op.href] = Absent]
    BY DEF UndoLands, IInv
  <2> QED
    BY <1>1, <2>1 DEF TypeOK, Wires
<1> QED
  BY <1>2 DEF IInv, CopySays

-----------------------------------------------------------------------------
(* The requests that write.                                                  *)

LEMMA BodyThere ==
    ASSUME IInv, op # Absent, pc \in WithBody
    PROVE  op.body \in ItemBody
BY OpType DEF IInv, Underway, WithBody

\* A request that ends the move, and may have written.
LEMMA RaiseInv ==
    ASSUME IInv, op # Absent, pc' = "idle", op' = Absent, live' = Nothing, wire' \in Wires,
           UNCHANGED <<cache, event, pinned, foreign>>, stranded' \subseteq UID
    PROVE  IInv'
<1>1. \A l \in List : GoodCache(cache'[l])
  BY CachesType DEF IInv
<1>2. cache' \in [List -> Cache]
  BY DEF IInv, TypeOK
<1> QED
  BY <1>1, <1>2, EndInv

LEMMA PutInv == ASSUME IInv, Put PROVE IInv'
<1> DEFINE w == Written(op, op.body)
<1>1. pc = "put" /\ op # Absent /\ op \in Move
  BY OpType DEF Put, IInv, TypeOK
<1>2. CASE op' = op /\ Goto("occupied")
  BY <1>1, <1>2, GotoInv DEF Requests, WithBody
<1>3. CASE ~Occupied(op.href, op.body) /\ PutLands /\ op' = [op EXCEPT !.copy = w, !.wrote = TRUE]
           /\ pc' = "delete" /\ UNCHANGED <<cache, live, stranded, faults>> /\ Bystanders
  <2>1. /\ wire' \in Wires /\ op.body \in ItemBody /\ wire'[op.dst][op.href] = w
        /\ op.src # op.dst
        /\ \A k \in List : \A g \in Href :
              k # op.dst \/ g # op.href => wire'[k][g] = wire[k][g]
        /\ IsTask => live[op.dst][op.href] = {}
    BY <1>1, <1>3, PutKeeps
  <2>2. w \in ItemBody /\ w # Absent
    BY <2>1, WrittenType, ItemIsThere
  <2> HIDE DEF w
  <2>3. /\ op' \in Move /\ op'.copy = w /\ op'.body = op.body /\ op'.wrote
        /\ op'.src = op.src /\ op'.dst = op.dst /\ op'.root = op.root /\ op'.uid = op.uid
        /\ op'.href = op.href /\ op'.rest = op.rest /\ op'.unparent = op.unparent
    BY <1>1, <1>3, <2>2, SetWritten, ZenonT(40)
  <2>4. UNCHANGED <<cache, live, stranded, faults, event, pinned, foreign>> /\ pc' = "delete"
    BY <1>3 DEF Bystanders
  <2>5. live' \in Protected
    BY <2>4 DEF IInv, TypeOK
  <2>6. op.body # Absent
    BY <2>1, ItemIsThere
  <2>7. TypeOK' /\ Underway'
    BY <1>1, <2>1, <2>3, <2>4, <2>5, <2>6, RequestInv DEF Requests
  <2>8. op.src \in List /\ op.dst \in List /\ op.href \in Href
    BY <1>1, OpType DEF IInv
  <2>9. AllHeld'
    <3> SUFFICES ASSUME IsTask, NEW l \in List, NEW h \in Href, NEW b \in live[l][h]
                 PROVE  wire'[l][h] # Absent /\ SameTask(wire'[l][h], b)
      BY <2>3, <2>4 DEF AllHeld, IsTask, Holds
    <3>1. l # op.dst \/ h # op.href
      BY <2>1
    <3> QED
      BY <1>1, <2>1, <3>1 DEF IInv, AllHeld, Holds
  <2>10. ASSUME IsTask, wire[op.src][op.href] = op.body, NEW b \in live[op.src][op.href]
         PROVE  SameTask(w, Written(op, b))
    <3>1. SameTask(w, Written(op, op.body))
      BY DEF SameTask, w
    <3> QED
      BY <1>1, <2>1, <2>2, <2>10, <3>1, CopyOfTheRead
  <2>11. \A b : Written(op', b) = Written(op, b)
    BY <2>3, WrittenAlike
  <2>12. CopySays'
    <3> SUFFICES ASSUME IsTask
                 PROVE  CopySays'
      BY <2>3, <2>4 DEF CopySays, IsTask
    <3>1. wire'[op.src][op.href] = wire[op.src][op.href]
      BY <2>1, <2>8
    <3>2. ASSUME wire'[op.src][op.href] = op.body, NEW b \in live[op.src][op.href]
          PROVE  wire'[op.dst][op.href] # Absent
                 /\ SameTask(wire'[op.dst][op.href], Written(op', b))
      BY <2>1, <2>2, <2>10, <2>11, <3>1, <3>2
    <3> QED
      BY <2>1, <2>2, <2>3, <2>4, <3>2 DEF CopySays, Holds
  <2> QED
    BY <2>7, <2>9, <2>12 DEF IInv
<1> QED
  BY <1>2, <1>3 DEF Put

\* A copy that was there already is recorded as it is.
LEMMA TakeCopyInv ==
    ASSUME IInv, pc = "occupied", wire[op.dst][op.href] # Absent,
           op' = [op EXCEPT !.copy = wire[op.dst][op.href]],
           NEW next \in {"adopt", "delete"}, Goto(next),
           IsTask => next = "delete" /\ Holds(op.dst, op.href, Written(op, op.body))
    PROVE  IInv'
<1> DEFINE w == wire[op.dst][op.href]
<1>1. op # Absent /\ op \in Move /\ op.body \in ItemBody
  BY OpType, BodyThere DEF IInv, TypeOK, WithBody
<1>2. op.src \in List /\ op.dst \in List /\ op.href \in Href /\ op.src # op.dst
  BY <1>1, OpType DEF IInv, Underway
<1>3. w \in ItemBody
  BY <1>1, <1>2, WireBody DEF IInv
<1>4. IsTask => SameTask(w, Written(op, op.body))
  BY DEF Holds
<1> HIDE DEF w
<1>5. /\ op' \in Move /\ op'.copy = w /\ op'.body = op.body /\ op'.wrote = op.wrote
      /\ op'.src = op.src /\ op'.dst = op.dst /\ op'.root = op.root /\ op'.uid = op.uid
      /\ op'.href = op.href /\ op'.rest = op.rest /\ op'.unparent = op.unparent
  BY <1>1, <1>3, SetCopy DEF w
<1>6. pc' = next /\ UNCHANGED <<wire, cache, live, stranded, faults, event, pinned, foreign>>
  BY DEF Goto, Bystanders
<1>7. op.body # Absent /\ w # Absent
  BY <1>1, <1>3, ItemIsThere
<1>8. wire' \in Wires /\ live' \in Protected
  BY <1>6 DEF IInv, TypeOK, Wires
<1>9. TypeOK' /\ Underway'
  BY <1>1, <1>5, <1>6, <1>7, <1>8, RequestInv DEF Requests
<1>10. AllHeld'
  BY <1>1, <1>5, <1>6, StillHeld
<1>11. \A b : Written(op', b) = Written(op, b)
  BY <1>5, WrittenAlike
<1>12. CopySays'
  <2> SUFFICES ASSUME IsTask
               PROVE  CopySays'
    BY <1>5, <1>6 DEF CopySays, IsTask
  <2>1. ASSUME wire[op.src][op.href] = op.body, NEW b \in live[op.src][op.href]
        PROVE  SameTask(w, Written(op', b))
    BY <1>1, <1>3, <1>4, <1>11, <2>1, CopyOfTheRead
  <2>2. ~op.wrote
    BY <1>1 DEF IInv, CopySays
  <2> QED
    BY <1>5, <1>6, <1>7, <2>1, <2>2 DEF CopySays, Holds, w
<1> QED
  BY <1>9, <1>10, <1>12 DEF IInv

LEMMA OwnCopyInv == ASSUME IInv, OwnCopy PROVE IInv'
<1>1. CASE Stop
  BY <1>1, StopInv
<1>2. CASE Holds(op.dst, op.href, Written(op, op.body))
  BY <1>2, TakeCopyInv DEF OwnCopy, Holds
<1> QED
  BY <1>1, <1>2 DEF OwnCopy

LEMMA FindMovedCopyInv == ASSUME IInv, FindMovedCopy PROVE IInv'
<1>1. CASE Stop
  BY <1>1, StopInv
<1>2. CASE wire[op.dst][op.href] # Absent /\ op' = [op EXCEPT !.copy = wire[op.dst][op.href]]
           /\ Goto("adopt")
  BY <1>2, TakeCopyInv DEF FindMovedCopy
<1> QED
  BY <1>1, <1>2 DEF FindMovedCopy

LEMMA AdoptMovedCopyInv == ASSUME IInv, AdoptMovedCopy PROVE IInv'
<1>1. pc = "adopt" /\ op # Absent /\ op \in Move
  BY OpType DEF AdoptMovedCopy, IInv, TypeOK
<1>2. ~IsTask
  BY <1>1 DEF IInv, CopySays
<1>3. op.dst \in List /\ op.href \in Href /\ op.body \in ItemBody
  BY <1>1, OpType, BodyThere DEF IInv, WithBody
<1>4. CASE Stop
  BY <1>4, StopInv
<1>5. CASE PutLands /\ op' = [op EXCEPT !.copy = Absent] /\ pc' = "delete"
           /\ UNCHANGED <<cache, live, stranded, faults>> /\ Bystanders
  <2>1. Written(op, op.body) \in ItemBody /\ op.body # Absent
    BY <1>3, WrittenType, ItemIsThere
  <2>2. TypeOK /\ wire' = [wire EXCEPT ![op.dst][op.href] = Written(op, op.body)]
    BY <1>5 DEF PutLands, IInv
  <2>3. wire' \in Wires
    BY <1>3, <2>1, <2>2 DEF TypeOK, Wires
  <2>4. /\ op' \in Move /\ op'.body = op.body
        /\ op'.src = op.src /\ op'.dst = op.dst /\ op'.root = op.root /\ op'.uid = op.uid
        /\ op'.href = op.href /\ op'.rest = op.rest
    BY <1>1, <1>5, SetCopy
  <2>5. UNCHANGED <<cache, live, stranded, faults, event, pinned, foreign>> /\ pc' = "delete"
    BY <1>5 DEF Bystanders
  <2>6. live' \in Protected
    BY <2>5 DEF IInv, TypeOK
  <2>7. TypeOK' /\ Underway'
    BY <1>1, <2>1, <2>3, <2>4, <2>5, <2>6, RequestInv DEF Requests
  <2>8. AllHeld' /\ CopySays'
    BY <1>2, <2>4, <2>5 DEF AllHeld, CopySays, IsTask
  <2> QED
    BY <2>7, <2>8 DEF IInv
<1> QED
  BY <1>4, <1>5 DEF AdoptMovedCopy

\* The deletion lands: what was left at the source, the copy says.
LEMMA DeletedInv ==
    ASSUME IInv, op # Absent, pc = "delete", wire[op.src][op.href] = op.body, DeleteLands,
           op' = op, pc' \in {"asked", "finish"},
           UNCHANGED <<cache, stranded, event, pinned, foreign>>
    PROVE  IInv'
<1>1. /\ wire' \in Wires /\ live' \in Protected
      /\ op.src \in List /\ op.dst \in List /\ op.href \in Href /\ op.src # op.dst
      /\ \A k \in List : \A g \in Href :
            k # op.src \/ g # op.href => wire'[k][g] = wire[k][g]
      /\ live'[op.src][op.href] = {}
      /\ live'[op.dst][op.href]
            = live[op.dst][op.href] \cup {Written(op, b) : b \in live[op.src][op.href]}
      /\ \A k \in List : \A g \in Href :
            g # op.href \/ k \notin {op.src, op.dst} => live'[k][g] = live[k][g]
      /\ IsTask => \A b \in live[op.src][op.href] :
                      Holds(op.dst, op.href, Written(op, b))
  BY DeleteKeeps
<1>2. TypeOK' /\ Underway'
  BY <1>1, OpType, RequestInv DEF IInv, Requests, WithBody
<1>3. AllHeld'
  <2> SUFFICES ASSUME IsTask, NEW l \in List, NEW h \in Href, NEW b \in live'[l][h]
               PROVE  wire'[l][h] # Absent /\ SameTask(wire'[l][h], b)
    BY DEF AllHeld, IsTask, Holds
  <2>1. CASE h # op.href \/ l \notin {op.src, op.dst}
    BY <1>1, <2>1 DEF IInv, AllHeld, Holds
  <2>2. CASE h = op.href /\ l = op.src
    BY <1>1, <2>2
  <2>3. CASE h = op.href /\ l = op.dst
    <3>1. wire'[l][h] = wire[l][h]
      BY <1>1, <2>3
    <3>2. b \in live[l][h] => Holds(l, h, b)
      BY DEF IInv, AllHeld
    <3>3. Holds(l, h, b)
      BY <1>1, <2>3, <3>2
    <3> QED
      BY <3>1, <3>3 DEF Holds
  <2> QED
    BY <2>1, <2>2, <2>3
<1>4. CopySays'
  BY DEF CopySays
<1> QED
  BY <1>2, <1>3, <1>4 DEF IInv

LEMMA DeleteInv == ASSUME IInv, Delete PROVE IInv'
<1>1. pc = "delete" /\ op # Absent
  BY DEF Delete, IInv, TypeOK
<1>2. CASE wire[op.src][op.href] = op.body /\ DeleteLands /\ pc' = "finish"
           /\ UNCHANGED <<cache, op, stranded, faults>> /\ Bystanders
  BY <1>1, <1>2, DeletedInv DEF Bystanders
<1>3. CASE op' = op /\ Goto("finish")
  BY <1>1, <1>3, GotoInv DEF Requests, WithBody
<1>4. CASE (~IsTask \/ op.wrote) /\ op' = op /\ Goto("undo")
  BY <1>1, <1>4, GotoInv DEF Requests, WithBody
<1>5. CASE Stop
  BY <1>5, StopInv
<1> QED
  BY <1>2, <1>3, <1>4, <1>5 DEF Delete

LEMMA StrandedType ==
    ASSUME TypeOK, op # Absent
    PROVE  stranded \subseteq UID /\ stranded \cup {op.uid} \subseteq UID
BY OpType DEF TypeOK

LEMMA AskGoneInv == ASSUME IInv, AskGone PROVE IInv'
<1>1. pc = "asked" /\ op # Absent
  BY DEF AskGone, IInv, TypeOK
<1>2. CASE op' = op /\ Goto("finish")
  BY <1>1, <1>2, GotoInv DEF Requests, WithBody
<1>3. CASE /\ pc' = "idle" /\ op' = Absent /\ live' = Nothing
           /\ stranded' = IF SourceGone THEN stranded \cup {op.uid} ELSE stranded
           /\ UNCHANGED <<wire, cache, faults>> /\ Bystanders
  <2>1. wire' \in Wires
    BY <1>3 DEF IInv, TypeOK, Wires
  <2> QED
    BY <1>1, <1>3, <2>1, StrandedType, RaiseInv DEF IInv, Bystanders
<1> QED
  BY <1>2, <1>3 DEF AskGone

LEMMA UndoInv == ASSUME IInv, Undo PROVE IInv'
<1>1. /\ pc = "undo" /\ op # Absent
      /\ pc' = "idle" /\ op' = Absent /\ live' = Nothing
      /\ UNCHANGED <<stranded, event, pinned, foreign>>
  BY DEF Undo, Bystanders, IInv, TypeOK
<1>2. op.dst \in List /\ op.href \in Href /\ stranded' \subseteq UID
  BY <1>1, OpType DEF IInv, TypeOK
<1>3. wire' \in Wires
  <2>1. CASE wire' = wire
    BY <2>1 DEF IInv, TypeOK, Wires
  <2>2. CASE UndoLands
    BY <1>2, <2>2 DEF UndoLands, IInv, TypeOK, Wires
  <2> QED
    BY <2>1, <2>2 DEF Undo
<1>4. \A l \in List : GoodCache(cache[l])
  BY CachesType DEF IInv
<1>5. cache' \in [List -> Cache] /\ \A l \in List : GoodCache(cache'[l])
  <2> DEFINE d == DropRow(cache[op.dst], op.href)
  <2>1. GoodCache(d) /\ d \in Cache
    BY <1>2, <1>4, DropRowGood DEF GoodCache
  <2> HIDE DEF d
  <2>2. CASE cache' = cache
    BY <1>4, <2>2 DEF IInv, TypeOK
  <2>3. CASE cache' = [cache EXCEPT ![op.dst] = d]
    BY <1>2, <1>4, <2>1, <2>3 DEF IInv, TypeOK
  <2> QED
    BY <2>2, <2>3 DEF Undo, d
<1> QED
  BY <1>1, <1>2, <1>3, <1>5, EndInv

-----------------------------------------------------------------------------
(* The cache's half of a move.                                               *)

\* One list's rows or sidecars change while a move is under way.
LEMMA CacheStep ==
    ASSUME TypeOK, NEW l \in List, NEW d, GoodCache(d), cache' = [cache EXCEPT ![l] = d]
    PROVE  /\ cache' \in [List -> Cache] /\ cache'[l] = d
           /\ \A k \in List : GoodCache(cache'[k])
           /\ \A k \in List \ {l} : cache'[k] = cache[k]
<1>1. \A k \in List : GoodCache(cache[k])
  BY CachesType
<1> QED
  BY <1>1 DEF TypeOK, GoodCache

LEMMA FinishInv == ASSUME IInv, Finish PROVE IInv'
<1> DEFINE c == cache[op.src]
           e == DropRow(c, op.href)
           d == OrphanMark(e, op.uid)
<1>1. /\ pc = "finish" /\ op # Absent
      /\ cache' = [cache EXCEPT ![op.src] = d] /\ pc' = "refresh"
      /\ UNCHANGED <<wire, op, live, stranded, event, pinned, foreign>>
  BY DEF Finish, Bystanders, IInv, TypeOK
<1>2. op.src \in List /\ op.href \in Href /\ op.uid \in UID
  BY <1>1, OpType DEF IInv
<1>3. GoodCache(c)
  BY <1>2, CachesType DEF IInv
<1> HIDE DEF c
<1>4. /\ GoodCache(e)
      /\ \A u \in UID : e.rows[u] = IF u \in UidsAt(c, op.href) THEN Absent ELSE c.rows[u]
  BY <1>2, <1>3, DropRowGood
<1> HIDE DEF e
<1>5. GoodCache(d) /\ d.rows = e.rows
  BY <1>2, <1>4, OrphanMarkGood
<1> HIDE DEF d
<1>6. /\ cache' \in [List -> Cache] /\ cache'[op.src] = d
      /\ \A k \in List : GoodCache(cache'[k])
  BY <1>1, <1>2, <1>5, CacheStep DEF IInv
<1>7. op.rest \subseteq Cached(c) \ {op.uid}
  BY <1>1 DEF IInv, Underway, c
<1>8. op.uid \in Cached(c) /\ c.rows[op.uid].href = op.href
  BY <1>1, <1>2 DEF IInv, Underway, RowOf, Cached, c
<1>9. op.rest \subseteq Cached(d) \ {op.uid}
  <2> SUFFICES ASSUME NEW u \in op.rest
               PROVE  u \in Cached(d) \ {op.uid}
    OBVIOUS
  <2>1. u \in Cached(c) /\ u # op.uid
    BY <1>7
  <2>2. u \notin UidsAt(c, op.href)
    BY <1>3, <1>8, <2>1 DEF GoodCache, OneRowPerHref, UidsAt
  <2> QED
    BY <1>4, <1>5, <2>1, <2>2 DEF Cached
<1>10. TypeOK'
  BY <1>1, <1>6 DEF IInv, TypeOK, GoodCache
<1>11. Underway'
  BY <1>1, <1>6, <1>9 DEF IInv, Underway
<1>12. AllHeld'
  BY <1>1, StillHeld
<1>13. CopySays'
  BY <1>1 DEF CopySays
<1> QED
  BY <1>10, <1>11, <1>12, <1>13 DEF IInv

\* The copy is cached, or the move has failed: the refs are next.
LEMMA ToRefsInv ==
    ASSUME IInv, pc = "refresh", pc' = "refs", op' \in Move,
           op'.src = op.src, op'.dst = op.dst, op'.root = op.root,
           op'.uid = op.uid, op'.href = op.href, op'.rest = op.rest,
           cache' \in [List -> Cache], \A k \in List : GoodCache(cache'[k]),
           cache'[op.src] = cache[op.src],
           UNCHANGED <<wire, live, stranded, event, pinned, foreign>>
    PROVE  IInv'
<1>1. op # Absent /\ op' # Absent
  BY MoveAssumption DEF IInv, TypeOK
<1>2. TypeOK'
  BY <1>1 DEF IInv, TypeOK, GoodCache
<1>3. Underway'
  BY <1>1 DEF IInv, Underway
<1>4. AllHeld'
  BY <1>1, StillHeld
<1>5. CopySays'
  BY DEF CopySays
<1> QED
  BY <1>2, <1>3, <1>4, <1>5 DEF IInv

LEMMA SetFailed ==
    ASSUME NEW o \in Move
    PROVE  LET n == [o EXCEPT !.failed = TRUE] IN
           /\ n \in Move
           /\ n.src = o.src /\ n.dst = o.dst /\ n.root = o.root /\ n.uid = o.uid
           /\ n.href = o.href /\ n.rest = o.rest /\ n.keep = o.keep
BY DEF Move

LEMMA FailRefreshInv ==
    ASSUME IInv, pc = "refresh", pc' = "refs", op' = [op EXCEPT !.failed = TRUE],
           UNCHANGED <<wire, cache, live, stranded, event, pinned, foreign>>
    PROVE  IInv'
<1>1. op \in Move
  BY OpType DEF IInv, TypeOK
<1>2. /\ op' \in Move
      /\ op'.src = op.src /\ op'.dst = op.dst /\ op'.root = op.root /\ op'.uid = op.uid
      /\ op'.href = op.href /\ op'.rest = op.rest
  BY <1>1, SetFailed
<1>3. cache' \in [List -> Cache] /\ \A k \in List : GoodCache(cache'[k])
  BY CachesType DEF IInv, TypeOK
<1> QED
  BY <1>2, <1>3, ToRefsInv

LEMMA RefreshInv == ASSUME IInv, Refresh PROVE IInv'
<1>1. pc = "refresh" /\ op # Absent
  BY DEF Refresh, IInv, TypeOK
<1>2. op.src \in List /\ op.dst \in List /\ op.href \in Href /\ op \in Move /\ op.src # op.dst
  BY <1>1, OpType DEF IInv, Underway
<1>3. CASE /\ wire[op.dst][op.href] # Absent
           /\ cache' = [cache EXCEPT ![op.dst] = Upsert(@, op.href, wire[op.dst][op.href])]
           /\ pc' = "refs"
           /\ UNCHANGED <<wire, op, live, stranded, faults>>
           /\ Bystanders
  <2> DEFINE d == Upsert(cache[op.dst], op.href, wire[op.dst][op.href])
  <2>1. wire[op.dst][op.href] \in ItemBody /\ GoodCache(cache[op.dst])
    BY <1>2, <1>3, WireBody, CachesType DEF IInv
  <2>2. GoodCache(d)
    BY <1>2, <2>1, UpsertGood
  <2>3. cache' = [cache EXCEPT ![op.dst] = d]
    BY <1>3
  <2> HIDE DEF d
  <2>4. /\ cache' \in [List -> Cache] /\ \A k \in List : GoodCache(cache'[k])
        /\ cache'[op.src] = cache[op.src]
    BY <1>2, <2>2, <2>3, CacheStep DEF IInv
  <2> QED
    BY <1>1, <1>2, <1>3, <2>4, ToRefsInv DEF Bystanders
<1>4. CASE op' = [op EXCEPT !.failed = TRUE] /\ Goto("refs")
  BY <1>1, <1>4, FailRefreshInv DEF Goto, Bystanders
<1>5. CASE Stop
  BY <1>5, StopInv
<1> QED
  BY <1>3, <1>4, <1>5 DEF Refresh

\* Re-pointing what Smylte keeps changes sidecars only.
LEMMA RefsCache ==
    ASSUME IInv, op # Absent,
           cache' = IF IsTask THEN MoveTaskRefs(op.uid) ELSE CarryReminder(op.uid)
    PROVE  /\ cache' \in [List -> Cache]
           /\ \A l \in List : GoodCache(cache'[l]) /\ cache'[l].rows = cache[l].rows
<1>1. op.src \in List /\ op.dst \in List /\ op.uid \in UID /\ op.src # op.dst
  BY OpType DEF IInv, Underway
<1>2. \A l \in List : GoodCache(cache[l])
  BY CachesType DEF IInv
<1>3. cache \in [List -> Cache]
  BY DEF IInv, TypeOK
<1>4. CASE IsTask
  <2> DEFINE u == op.uid
             there == cache[op.dst].side[u]
             m == IF u \in op.keep THEN there
                  ELSE IF cache[op.src].side[u] = "none" THEN "none" ELSE "live"
             a == [cache[op.src] EXCEPT !.side[u] = "none"]
             b == [cache[op.dst] EXCEPT !.side[u] = m]
  <2>1. there \in Mark
    BY <1>1, <1>2 DEF GoodCache, Cache
  <2>2. m \in Mark /\ "none" \in Mark
    BY <2>1 DEF Mark
  <2>3. cache' = [cache EXCEPT ![op.src] = a, ![op.dst] = b]
    BY <1>1, <1>3, <1>4 DEF MoveTaskRefs
  <2> HIDE DEF m
  <2>4. /\ GoodCache(a) /\ a.rows = cache[op.src].rows
        /\ GoodCache(b) /\ b.rows = cache[op.dst].rows
    BY <1>1, <1>2, <2>2, MarkGood
  <2> HIDE DEF a, b
  <2>5. a \in Cache /\ b \in Cache
    BY <2>4 DEF GoodCache
  <2> QED
    BY <1>1, <1>2, <1>3, <2>3, <2>4, <2>5
<1>5. CASE ~IsTask
  <2> DEFINE d == SetSidecar(cache[op.dst], op.uid)
  <2>1. GoodCache(d) /\ d.rows = cache[op.dst].rows /\ d \in Cache
    BY <1>1, <1>2, SetSidecarGood DEF GoodCache
  <2>2. cache' = [cache EXCEPT ![op.dst] = d] \/ cache' = cache
    BY <1>5 DEF CarryReminder
  <2> HIDE DEF d
  <2> QED
    BY <1>1, <1>2, <1>3, <2>1, <2>2
<1> QED
  BY <1>4, <1>5

LEMMA RefsInv == ASSUME IInv, Refs PROVE IInv'
<1>1. /\ pc = "refs" /\ op # Absent
      /\ UNCHANGED <<wire, stranded, event, pinned, foreign>>
  BY DEF Refs, Bystanders, IInv, TypeOK
<1>2. /\ cache' \in [List -> Cache]
      /\ \A l \in List : GoodCache(cache'[l]) /\ cache'[l].rows = cache[l].rows
  BY <1>1, RefsCache DEF Refs
<1>3. CASE pc' = "idle" /\ op' = Absent /\ live' = Nothing
  BY <1>1, <1>2, <1>3, EndInv DEF IInv, TypeOK, Wires
<1>4. CASE (\E v \in NextOf(op) : op' = Engine(op, v)) /\ pc' = "get" /\ UNCHANGED live
  <2>1. PICK v \in NextOf(op) : op' = Engine(op, v)
    BY <1>4
  <2>2. op \in Move /\ op.rest \subseteq Cached(cache[op.src]) /\ op.src # op.dst
    BY <1>1, OpType DEF IInv, Underway
  <2>3. op' \in Move /\ op' # Absent /\ op'.root = op.root /\ ~op'.wrote /\ Underway'
    BY <1>2, <1>4, <2>1, <2>2, EngineInv DEF IInv
  <2>4. TypeOK'
    BY <1>1, <1>2, <1>4, <2>3 DEF IInv, TypeOK, GoodCache
  <2>5. AllHeld'
    BY <1>1, <1>4, <2>3, StillHeld
  <2>6. CopySays'
    BY <1>4, <2>3 DEF CopySays
  <2> QED
    BY <2>3, <2>4, <2>5, <2>6 DEF IInv
<1> QED
  BY <1>3, <1>4 DEF Refs

-----------------------------------------------------------------------------
(* Faults.                                                                   *)

LEMMA WireNow == ASSUME IInv PROVE wire \in Wires
BY DEF IInv, TypeOK, Wires

LEMMA UnansweredInv == ASSUME IInv, Unanswered PROVE IInv'
<1>1. wire' = wire /\ wire \in Wires
  BY WireNow DEF Unanswered
<1>2. CASE pc # "idle" /\ Raise
  <2>1. op # Absent
    BY <1>2 DEF IInv, TypeOK
  <2> QED
    BY <1>1, <1>2, <2>1, StrandedType, RaiseInv DEF Raise, Bystanders, IInv
<1>3. CASE /\ pc = "delete" /\ pc' = "asked"
           /\ UNCHANGED <<cache, op, live, stranded>> /\ Bystanders
  <2>1. op # Absent
    BY <1>3 DEF IInv, TypeOK
  <2>2. UNCHANGED <<wire, live, event, pinned, foreign, stranded>>
    BY <1>1, <1>3 DEF Bystanders
  <2>3. live' \in Protected /\ op' \in Move
    BY <1>3, <2>1, OpType DEF IInv, TypeOK
  <2>4. TypeOK' /\ Underway'
    BY <1>1, <1>3, <2>1, <2>2, <2>3, RequestInv DEF Requests, WithBody
  <2>5. AllHeld'
    BY <1>3, <2>1, <2>2, StillHeld
  <2>6. CopySays'
    BY <1>3 DEF CopySays
  <2> QED
    BY <2>4, <2>5, <2>6 DEF IInv
<1>4. CASE /\ pc = "refresh" /\ pc' = "refs" /\ op' = [op EXCEPT !.failed = TRUE]
           /\ UNCHANGED <<cache, live, stranded>> /\ Bystanders
  BY <1>1, <1>4, FailRefreshInv DEF Bystanders
<1> QED
  BY <1>2, <1>3, <1>4 DEF Unanswered

LEMMA LostAnswerInv == ASSUME IInv, LostAnswer PROVE IInv'
<1>1. op # Absent
  BY DEF LostAnswer, IInv, TypeOK
<1>2. op.src \in List /\ op.dst \in List /\ op.href \in Href
  BY <1>1, OpType DEF IInv
<1>3. CASE Raise /\ wire' \in Wires
  BY <1>1, <1>3, StrandedType, RaiseInv DEF Raise, Bystanders, IInv
<1>4. CASE pc \in {"put", "adopt"} /\ PutLands /\ Raise
  <2>1. op.body \in ItemBody
    BY <1>1, <1>4, BodyThere DEF WithBody
  <2>2. Written(op, op.body) \in ItemBody
    BY <2>1, WrittenType
  <2>3. wire' \in Wires
    BY <1>2, <1>4, <2>2 DEF PutLands, IInv, TypeOK, Wires
  <2> QED
    BY <1>3, <1>4, <2>3
<1>5. CASE UndoLands /\ Raise
  <2>1. wire' \in Wires
    BY <1>2, <1>5 DEF UndoLands, IInv, TypeOK, Wires
  <2> QED
    BY <1>3, <1>5, <2>1
<1>6. CASE /\ pc = "delete" /\ wire[op.src][op.href] = op.body
           /\ DeleteLands
           /\ pc' = IF IsTask THEN "asked" ELSE "idle"
           /\ op' = IF IsTask THEN op ELSE Absent
           /\ UNCHANGED <<cache, stranded>>
           /\ Bystanders
  <2>1. CASE IsTask
    BY <1>1, <1>6, <2>1, DeletedInv DEF Bystanders
  <2>2. CASE ~IsTask
    <3>1. wire' \in Wires /\ live' \in Protected
      BY <1>1, <1>6, DeleteKeeps
    <3>2. TypeOK'
      BY <1>6, <2>2, <3>1 DEF Bystanders, IInv, TypeOK, Wires
    <3> QED
      BY <1>6, <2>2, <3>2 DEF IInv, Underway, AllHeld, CopySays
  <2> QED
    BY <2>1, <2>2
<1> QED
  BY <1>4, <1>5, <1>6 DEF LostAnswer

LEMMA LostQuestionInv == ASSUME IInv, LostQuestion PROVE IInv'
<1>1. op # Absent
  BY DEF LostQuestion, IInv, TypeOK
<1> QED
  BY <1>1, WireNow, StrandedType, RaiseInv DEF LostQuestion, Bystanders, IInv

LEMMA CrashInv == ASSUME IInv, Crash PROVE IInv'
<1>1. op # Absent
  BY DEF Crash, IInv, TypeOK
<1> QED
  BY <1>1, WireNow, StrandedType, RaiseInv DEF Crash, Bystanders, IInv

-----------------------------------------------------------------------------
(* Other clients, the sync passes and the owner.                             *)

\* What another client writes replaces what it protects, there and where the
\* copy it replaces came from.
LEMMA SupersedeLive ==
    ASSUME IInv, op # Absent, pc # "idle", NEW l \in List, NEW h \in Href,
           NEW new \in ItemBody \cup {Absent}, live' = Supersede(l, h, new)
    PROVE  LET mine == l = op.dst /\ h = op.href /\ op.copy # Absent IN
           /\ live' \in Protected
           /\ live'[l][h] \subseteq {new} \ {Absent}
           /\ mine /\ new = op.copy => live'[l][h] = {}
           /\ l = op.src /\ h = op.href /\ new = op.body => live'[l][h] = {}
           /\ \A k \in List : \A g \in Href :
                 k # l \/ g # h => live'[k][g] \subseteq live[k][g]
           /\ mine /\ wire[l][h] # Absent =>
                 \A b \in live'[op.src][op.href] :
                     b \in live[op.src][op.href] /\ ~SameTask(wire[l][h], Written(op, b))
<1> DEFINE old == wire[l][h]
           mine == l = op.dst /\ h = op.href /\ op.copy # Absent
           same == \/ mine /\ new = op.copy
                   \/ l = op.src /\ h = op.href /\ new = op.body
           put == IF same THEN {} ELSE {new} \ {Absent}
           here == [live EXCEPT ![l][h] = put]
           left == {b \in here[op.src][op.href] : ~SameTask(old, Written(op, b))}
<1>1. op.src \in List /\ op.dst \in List /\ op.href \in Href /\ op.src # op.dst
  BY OpType DEF IInv, Underway
<1>2. put \subseteq ItemBody
  OBVIOUS
<1>3. live' = IF mine /\ old # Absent
              THEN [here EXCEPT ![op.src][op.href] = left] ELSE here
  BY DEF Supersede
<1>4. put \subseteq {new} \ {Absent} /\ (same => put = {})
  OBVIOUS
<1> HIDE DEF put
<1>5. /\ here \in Protected /\ here[l][h] = put
      /\ \A k \in List : \A g \in Href : k # l \/ g # h => here[k][g] = live[k][g]
  BY <1>2 DEF IInv, TypeOK, Protected
<1> HIDE DEF here
<1>6. left \subseteq here[op.src][op.href]
      /\ \A b \in left : ~SameTask(old, Written(op, b))
  OBVIOUS
<1> HIDE DEF left
<1>7. here[op.src][op.href] \subseteq ItemBody
  BY <1>1, <1>5 DEF Protected
<1>8. CASE mine /\ old # Absent
  <2>1. live' = [here EXCEPT ![op.src][op.href] = left]
    BY <1>3, <1>8
  <2>2. /\ live' \in Protected /\ live'[op.src][op.href] = left
        /\ \A k \in List : \A g \in Href :
              k # op.src \/ g # op.href => live'[k][g] = here[k][g]
    BY <1>1, <1>5, <1>6, <1>7, <2>1 DEF Protected
  <2> QED
    BY <1>1, <1>4, <1>5, <1>6, <1>8, <2>2
<1>9. CASE ~(mine /\ old # Absent)
  <2>1. live' = here
    BY <1>3, <1>9
  <2> QED
    BY <1>1, <1>4, <1>5, <1>9, <2>1
<1> QED
  BY <1>8, <1>9

LEMMA ForeignWriteInv ==
    ASSUME IInv, NEW l \in List, NEW h \in Href, NEW new \in ItemBody \cup {Absent},
           ForeignWrite(l, h, new)
    PROVE  IInv'
<1>1. UNCHANGED <<cache, event, pc, op, stranded, faults>> /\ foreign' = foreign + 1
  BY DEF ForeignWrite
<1>2. TypeOK /\ wire' = [wire EXCEPT ![l][h] = new]
  BY DEF ForeignWrite, IInv
<1>3. /\ wire' \in Wires /\ wire'[l][h] = new
      /\ \A k \in List : \A g \in Href : k # l \/ g # h => wire'[k][g] = wire[k][g]
  BY <1>2 DEF TypeOK, Wires
<1>4. pinned' \subseteq UID /\ foreign' \in Nat
  BY <1>1, <1>2 DEF ForeignWrite, TypeOK
<1>5. Underway'
  BY <1>1 DEF IInv, Underway, RowOf
<1>6. CASE op = Absent
  <2>1. live' = live
    BY <1>2, <1>6 DEF ForeignWrite, Supersede, TypeOK
  <2>2. TypeOK'
    BY <1>1, <1>2, <1>3, <1>4, <2>1 DEF TypeOK, Wires
  <2> QED
    BY <1>1, <1>5, <1>6, <2>2 DEF IInv, AllHeld, CopySays
<1>7. CASE op # Absent
  <2> DEFINE mine == l = op.dst /\ h = op.href /\ op.copy # Absent
  <2>1. op.src \in List /\ op.dst \in List /\ op.href \in Href /\ op.src # op.dst
    BY <1>7, OpType DEF IInv, Underway
  <2>2. /\ live' \in Protected
        /\ live'[l][h] \subseteq {new} \ {Absent}
        /\ mine /\ new = op.copy => live'[l][h] = {}
        /\ l = op.src /\ h = op.href /\ new = op.body => live'[l][h] = {}
        /\ \A k \in List : \A g \in Href :
              k # l \/ g # h => live'[k][g] \subseteq live[k][g]
        /\ mine /\ wire[l][h] # Absent =>
              \A b \in live'[op.src][op.href] :
                  b \in live[op.src][op.href] /\ ~SameTask(wire[l][h], Written(op, b))
    <3>1. pc # "idle" /\ live' = Supersede(l, h, new)
      BY <1>2, <1>7 DEF ForeignWrite, TypeOK
    <3> QED
      BY <1>7, <3>1, SupersedeLive
  <2>3. TypeOK'
    BY <1>1, <1>2, <1>3, <1>4, <2>2 DEF TypeOK, Wires
  <2>4. AllHeld'
    <3> SUFFICES ASSUME IsTask, NEW k \in List, NEW g \in Href, NEW b \in live'[k][g]
                 PROVE  wire'[k][g] # Absent /\ SameTask(wire'[k][g], b)
      BY <1>1 DEF AllHeld, IsTask, Holds
    <3>1. CASE k = l /\ g = h
      BY <1>3, <2>2, <3>1 DEF SameTask
    <3>2. CASE k # l \/ g # h
      BY <1>3, <1>7, <2>2, <3>2 DEF IInv, AllHeld, Holds
    <3> QED
      BY <3>1, <3>2
  <2>5. ASSUME IsTask, pc = "delete", wire'[op.src][op.href] = op.body,
               NEW b \in live'[op.src][op.href]
        PROVE  Holds(op.dst, op.href, Written(op, b))'
    <3>1. op.copy # Absent
      BY <1>7, <2>5 DEF IInv, CopySays
    <3>2. l # op.src \/ h # op.href
      BY <1>3, <2>2, <2>5
    <3>3. wire[op.src][op.href] = op.body /\ b \in live[op.src][op.href]
      BY <1>3, <2>1, <2>2, <2>5, <3>2
    <3>4. Holds(op.dst, op.href, Written(op, b))
      BY <1>7, <2>5, <3>3 DEF IInv, CopySays
    <3>5. l # op.dst \/ h # op.href
      BY <2>2, <2>5, <3>1, <3>4 DEF Holds
    <3> QED
      BY <1>1, <1>3, <2>1, <3>4, <3>5 DEF Holds, Written
  <2>6. ASSUME IsTask, pc \in {"delete", "undo"}, op.wrote, wire'[op.dst][op.href] = op.copy
        PROVE  live'[op.dst][op.href] = {}
    <3>1. op.copy # Absent
      BY <1>7, <2>6 DEF IInv, CopySays
    <3>2. CASE l = op.dst /\ h = op.href
      BY <1>3, <2>2, <2>6, <3>1, <3>2
    <3>3. CASE l # op.dst \/ h # op.href
      BY <1>3, <1>7, <2>1, <2>2, <2>6, <3>3 DEF IInv, CopySays
    <3> QED
      BY <3>2, <3>3
  <2>7. CopySays'
    BY <1>1, <1>7, <2>5, <2>6 DEF IInv, CopySays, IsTask
  <2> QED
    BY <1>5, <2>3, <2>4, <2>7 DEF IInv
<1> QED
  BY <1>6, <1>7

LEMMA SyncInv ==
    ASSUME IInv, NEW l \in List, NEW h \in Href, Sync(l, h)
    PROVE  IInv'
<1> DEFINE d == CatchUp(l, h)
<1>1. /\ op = Absent /\ cache' = [cache EXCEPT ![l] = d]
      /\ UNCHANGED <<wire, event, pc, op, live, pinned, stranded, foreign>>
  BY DEF Sync, IInv, TypeOK
<1>2. wire[l][h] \in ItemBody \cup {Absent} /\ GoodCache(cache[l])
  BY WireBody, CachesType DEF IInv
<1>3. GoodCache(d)
  BY <1>2, UpsertGood, DropHrefGood DEF CatchUp
<1> HIDE DEF d
<1>4. cache' \in [List -> Cache] /\ \A k \in List : GoodCache(cache'[k])
  BY <1>1, <1>3, CacheStep DEF IInv
<1>5. TypeOK'
  BY <1>1, <1>4 DEF IInv, TypeOK, GoodCache
<1> QED
  BY <1>1, <1>5 DEF IInv, Underway, AllHeld, CopySays

LEMMA MarkSidecarInv ==
    ASSUME IInv, NEW l \in List, NEW u \in UID, MarkSidecar(l, u)
    PROVE  IInv'
<1> DEFINE d == SetSidecar(cache[l], u)
<1>1. /\ op = Absent /\ cache' = [cache EXCEPT ![l] = d]
      /\ UNCHANGED <<wire, event, pc, op, live, foreign>>
  BY DEF MarkSidecar, IInv, TypeOK
<1>2. GoodCache(d)
  BY CachesType, SetSidecarGood DEF IInv
<1> HIDE DEF d
<1>3. cache' \in [List -> Cache] /\ \A k \in List : GoodCache(cache'[k])
  BY <1>1, <1>2, CacheStep DEF IInv
<1>4. pinned' \subseteq UID /\ stranded' \subseteq UID
  BY DEF MarkSidecar, IInv, TypeOK
<1>5. TypeOK'
  BY <1>1, <1>3, <1>4 DEF IInv, TypeOK, GoodCache
<1> QED
  BY <1>1, <1>5 DEF IInv, Underway, AllHeld, CopySays

\* To begin with one list holds the resources, each at its own href.
LEMMA InitInv == Init => IInv
<1> SUFFICES ASSUME Init PROVE IInv
  OBVIOUS
<1> DEFINE l == CHOOSE k \in List : TRUE
<1>1. PICK held \in SUBSET UID, ver \in [UID -> Version] :
        LET b(u) == [uid |-> u, kind |-> "item", ver |-> ver[u]] IN
        /\ wire = [k \in List |-> [h \in Href |->
               IF k = l /\ \E u \in held : Home[u] = h
               THEN b(CHOOSE u \in held : Home[u] = h) ELSE Absent]]
        /\ cache = [k \in List |->
               [EmptyCache EXCEPT !.rows = [u \in UID |->
                   IF k = l /\ u \in held THEN [href |-> Home[u], body |-> b(u)] ELSE Absent]]]
  BY DEF Init
<1> DEFINE b(u) == [uid |-> u, kind |-> "item", ver |-> ver[u]]
           row(u) == [href |-> Home[u], body |-> b(u)]
<1>2. \A u \in UID : b(u) \in ItemBody /\ b(u).uid = u
  BY DEF ItemBody
<1>3. \A u \in UID : row(u) \in Row /\ row(u).href = Home[u] /\ row(u).body.uid = u
  BY <1>2, HomeAssumption DEF Row
<1>4. wire \in Wires
  <2> SUFFICES ASSUME NEW h \in Href, \E u \in held : Home[u] = h
               PROVE  b(CHOOSE u \in held : Home[u] = h) \in ItemBody
    BY <1>1 DEF Wires
  <2>1. (CHOOSE u \in held : Home[u] = h) \in UID
    OBVIOUS
  <2> QED
    BY <1>2, <2>1
<1>5. ASSUME NEW k \in List
      PROVE  GoodCache(cache[k])
  <2> DEFINE r == [u \in UID |-> IF k = l /\ u \in held THEN row(u) ELSE Absent]
             c == [EmptyCache EXCEPT !.rows = r]
  <2>1. cache[k] = c
    BY <1>1
  <2>2. r \in [UID -> Row \cup {Absent}]
    BY <1>3
  <2>3. \A u \in UID : r[u] # Absent => r[u].href = Home[u] /\ r[u].body.uid = u
    BY <1>3
  <2> HIDE DEF r
  <2>4. c \in Cache /\ c.rows = r
    BY <2>2, EmptyGood DEF Cache, GoodCache
  <2> HIDE DEF c
  <2>5. OneRowPerHref(c) /\ KeyedOnUid(c)
    BY <2>3, <2>4, HomeAssumption DEF OneRowPerHref, KeyedOnUid, Cached
  <2> QED
    BY <2>1, <2>4, <2>5 DEF GoodCache
<1>6. DOMAIN cache = List /\ cache = [k \in List |-> cache[k]]
  BY <1>1
<1>7. cache \in [List -> Cache]
  BY <1>5, <1>6 DEF GoodCache
<1>8. /\ event \subseteq UID /\ pc = "idle" /\ op = Absent /\ live = Nothing
      /\ pinned = {} /\ stranded = {} /\ foreign = 0
  BY DEF Init
<1>9. TypeOK
  BY <1>4, <1>5, <1>7, <1>8 DEF TypeOK, GoodCache, Wires, Nothing, Protected
<1> QED
  BY <1>8, <1>9 DEF IInv, Underway, AllHeld, CopySays

-----------------------------------------------------------------------------

LEMMA StepInv == ASSUME IInv, Step PROVE IInv'
BY GetInv, FindCopyInv, PutInv, OwnCopyInv, FindMovedCopyInv, AdoptMovedCopyInv,
   DeleteInv, AskGoneInv, UndoInv, FinishInv, RefreshInv, RefsInv
   DEF Step

\* The invariant holds whatever moves, other clients, sync passes, lost answers
\* and crashes do.
THEOREM Inductive == Spec => []IInv
<1>1. IInv /\ [Next]_vars => IInv'
  <2> SUFFICES ASSUME IInv, [Next]_vars PROVE IInv'
    OBVIOUS
  <2>1. ASSUME NEW s \in List, NEW d \in List, NEW u \in UID, StartMove(s, d, u)
        PROVE  IInv'
    BY <2>1, StartTaskMoveInv, StartEventMoveInv DEF StartMove
  <2>2. CASE Step
    BY <2>2, StepInv
  <2>3. CASE Unanswered \/ LostAnswer \/ LostQuestion \/ Crash
    BY <2>3, UnansweredInv, LostAnswerInv, LostQuestionInv, CrashInv
  <2>4. ASSUME NEW l \in List, NEW h \in Href, NEW b \in ItemBody \cup {Absent},
               ForeignWrite(l, h, b)
        PROVE  IInv'
    BY <2>4, ForeignWriteInv
  <2>5. ASSUME NEW l \in List, NEW h \in Href, Sync(l, h)
        PROVE  IInv'
    BY <2>5, SyncInv
  <2>6. ASSUME NEW l \in List, NEW u \in UID, MarkSidecar(l, u)
        PROVE  IInv'
    BY <2>6, MarkSidecarInv
  <2>7. CASE UNCHANGED vars
    BY <2>7 DEF vars, IInv, TypeOK, Underway, AllHeld, CopySays, Holds, RowOf, IsTask
  <2> QED
    BY <2>1, <2>2, <2>3, <2>4, <2>5, <2>6, <2>7 DEF Next
<1> QED
  BY <1>1, InitInv, PTL DEF Spec

\* The tables stay tables: one row per href and list, keyed on the row's UID
\* (db/store.py, upsert_item and delete_item_by_href), through every move.
THEOREM TypeCorrect == Spec => []TypeOK
<1>1. IInv => TypeOK
  BY DEF IInv
<1> QED
  BY <1>1, Inductive, PTL

-----------------------------------------------------------------------------
(* Nothing is lost.                                                          *)

Rollback ==
    /\ pc = "undo"
    /\ wire[op.dst][op.href] # Absent
    /\ op.copy \in {wire[op.dst][op.href], Absent}
    /\ UndoLands

\* The steps of a task's move that write: the PUT, the DELETE and the rollback,
\* with or without an answer.
LEMMA WireStep ==
    ASSUME IInv, op # Absent, IsTask, foreign' = foreign, Next
    PROVE  \/ wire' = wire
           \/ pc = "put" /\ ~Occupied(op.href, op.body) /\ PutLands
           \/ pc = "delete" /\ wire[op.src][op.href] = op.body /\ DeleteLands
           \/ Rollback
<1>1. pc # "adopt"
  BY DEF IInv, CopySays
<1>2. ASSUME NEW s \in List, NEW d \in List, NEW u \in UID, StartMove(s, d, u)
      PROVE  wire' = wire
  BY <1>2 DEF StartMove, StartTaskMove, StartEventMove, Start
<1>3. CASE Put
  BY <1>3 DEF Put, Goto
<1>4. CASE Delete
  BY <1>4 DEF Delete, Goto, Stop
<1>5. CASE Undo
  BY <1>5 DEF Undo, Rollback
<1>6. CASE Get \/ FindCopy \/ OwnCopy \/ FindMovedCopy
  BY <1>6 DEF Get, FindCopy, OwnCopy, FindMovedCopy, Goto, Stop
<1>7. CASE AskGone \/ Finish \/ Refresh \/ Refs
  BY <1>7 DEF AskGone, Finish, Refresh, Refs, Goto, Stop
<1>8. CASE Unanswered \/ LostQuestion \/ Crash
  BY <1>8 DEF Unanswered, LostQuestion, Crash
<1>9. CASE LostAnswer
  BY <1>1, <1>9 DEF LostAnswer, Rollback
<1>10. ASSUME NEW l \in List, NEW h \in Href, NEW b \in ItemBody \cup {Absent},
              ForeignWrite(l, h, b)
       PROVE  FALSE
  BY <1>10 DEF ForeignWrite, IInv, TypeOK
<1>11. ASSUME NEW l \in List, NEW h \in Href, Sync(l, h)
       PROVE  wire' = wire
  BY <1>11 DEF Sync
<1>12. ASSUME NEW l \in List, NEW u \in UID, MarkSidecar(l, u)
       PROVE  wire' = wire
  BY <1>12 DEF MarkSidecar
<1>13. CASE AdoptMovedCopy
  BY <1>1, <1>13 DEF AdoptMovedCopy
<1> QED
  BY <1>2, <1>3, <1>4, <1>5, <1>6, <1>7, <1>8, <1>9, <1>10, <1>11, <1>12, <1>13
     DEF Next, Step

LEMMA NextKeeps ==
    ASSUME IInv, op # Absent, IsTask, foreign' = foreign, Next,
           NEW l \in List, NEW h \in Href, NEW b \in live[l][h]
    PROVE  \/ StillHolds(l, h, b)
           \/ /\ l = op.src /\ h = op.href
              /\ StillHolds(op.dst, op.href, Written(op, b))
<1>1. wire[l][h] # Absent /\ SameTask(wire[l][h], b)
  BY DEF IInv, AllHeld, Holds
<1>2. CASE wire' = wire
  BY <1>1, <1>2 DEF StillHolds
<1>3. CASE pc = "put" /\ ~Occupied(op.href, op.body) /\ PutLands
  <2>1. l # op.dst \/ h # op.href
    BY <1>3, PutKeeps
  <2>2. wire'[l][h] = wire[l][h]
    BY <1>3, <2>1, PutKeeps
  <2> QED
    BY <1>1, <2>2 DEF StillHolds
<1>4. CASE Rollback
  <2>1. l # op.dst \/ h # op.href
    BY <1>4, UndoKeeps DEF Rollback
  <2>2. wire'[l][h] = wire[l][h]
    BY <1>4, <2>1, UndoKeeps DEF Rollback
  <2> QED
    BY <1>1, <2>2 DEF StillHolds
<1>5. CASE pc = "delete" /\ wire[op.src][op.href] = op.body /\ DeleteLands
  <2>1. /\ op.dst \in List /\ op.href \in Href /\ op.src # op.dst
        /\ \A k \in List : \A g \in Href :
              k # op.src \/ g # op.href => wire'[k][g] = wire[k][g]
        /\ \A d \in live[op.src][op.href] : Holds(op.dst, op.href, Written(op, d))
    BY <1>5, DeleteKeeps
  <2>2. CASE l = op.src /\ h = op.href
    <3>1. Holds(op.dst, op.href, Written(op, b))
      BY <2>1, <2>2
    <3>2. wire'[op.dst][op.href] = wire[op.dst][op.href]
      BY <2>1
    <3> QED
      BY <2>2, <3>1, <3>2 DEF Holds, StillHolds
  <2>3. CASE l # op.src \/ h # op.href
    BY <1>1, <2>1, <2>3 DEF StillHolds
  <2> QED
    BY <2>2, <2>3
<1> QED
  BY <1>2, <1>3, <1>4, <1>5, WireStep

\* No request of a task's move, its rollback included, destroys what it did not
\* copy (engine.py, _move and _own_copy), whatever the lists, the tasks and the
\* number of foreign writes, lost answers and crashes.
THEOREM LosesNothing == Spec => NothingLost
<1> DEFINE Survives ==
             op # Absent /\ IsTask /\ foreign' = foreign =>
               \A l \in List : \A h \in Href : \A b \in live[l][h] :
                   \/ StillHolds(l, h, b)
                   \/ /\ l = op.src /\ h = op.href
                      /\ StillHolds(op.dst, op.href, Written(op, b))
<1>1. IInv /\ [Next]_vars => [Survives]_vars
  BY NextKeeps
<1> QED
  BY <1>1, Inductive, PTL DEF Spec, NothingLost

-----------------------------------------------------------------------------
(* What the owner set follows.                                               *)

HasNext(l, h, u) == wire'[l][h] # Absent /\ wire'[l][h].uid = u

LEMMA OwnedType ==
    ASSUME IInv, NEW u \in Owned
    PROVE  u \in UID /\ u \notin event
BY DEF IInv, TypeOK, Owned

\* What a move has in hand or before it and the owner set something about are tasks.
LEMMA OwnedMoves ==
    ASSUME RInv, op # Absent, NEW u \in Owned, u = op.uid \/ u \in op.rest
    PROVE  IsTask
BY OwnedType DEF RInv, Follows, OneKind, IsTask

LEMMA RowHref ==
    ASSUME IInv, NEW l \in List, NEW u \in UID, RowOf(l, u) # Absent
    PROVE  RowOf(l, u).href \in Href
BY CachesType, RowGood DEF IInv, RowOf, Cached

LEMMA OneRow ==
    ASSUME IInv, NEW l \in List, NEW u \in UID, NEW v \in UID,
           RowOf(l, u) # Absent, RowOf(l, v) # Absent, RowOf(l, u).href = RowOf(l, v).href
    PROVE  u = v
BY CachesType DEF IInv, GoodCache, OneRowPerHref, RowOf, Cached

\* Where neither the row, nor the sidecar, nor what is at the row's href changes,
\* what was kept is kept.
LEMMA KeptStays ==
    ASSUME NEW l, NEW u, Kept(l, u),
           cache'[l].side[u] = cache[l].side[u], cache'[l].rows[u] = cache[l].rows[u],
           RowOf(l, u) # Absent => HasNext(l, RowOf(l, u).href, u)
    PROVE  Kept(l, u)'
BY DEF Kept, RowOf, Has, HasNext

\* The task in hand is cached at its href of the source.
LEMMA OwnPlace ==
    ASSUME IInv, op # Absent, pc \notin {"refresh", "refs"}
    PROVE  /\ op.src \in List /\ op.dst \in List /\ op.src # op.dst
           /\ op.href \in Href /\ op.uid \in UID
           /\ RowOf(op.src, op.uid) # Absent
           /\ RowOf(op.src, op.uid).href = op.href
           /\ \A u \in UID \ {op.uid} :
                 RowOf(op.src, u) # Absent => RowOf(op.src, u).href # op.href
<1>1. /\ op.src \in List /\ op.dst \in List /\ op.src # op.dst
      /\ op.href \in Href /\ op.uid \in UID
      /\ RowOf(op.src, op.uid) # Absent
      /\ RowOf(op.src, op.uid).href = op.href
  BY OpType DEF IInv, Underway
<1> QED
  BY <1>1, OneRow

-----------------------------------------------------------------------------
(* A move that ends.                                                         *)

LEMMA FollowsEnd ==
    ASSUME op' = Absent, OneUidEach', Orphaned',
           \A u \in Owned' : \E l \in List : Kept(l, u)'
    PROVE  Follows'
BY DEF Follows, OneKind, Apart, CopyThere, Following

\* Where nothing is written, what is not in flight is where it was.
LEMMA FollowsStop ==
    ASSUME RInv, op # Absent, op' = Absent, UNCHANGED <<wire, cache, event, pinned>>,
           stranded \subseteq stranded',
           \A u \in Owned' : InFlight(u) => \E l \in List : Kept(l, u)
    PROVE  Follows'
<1>1. OneUidEach' /\ Orphaned'
  BY DEF RInv, Follows, OneUidEach, Orphaned, RowOf
<1>2. ASSUME NEW u \in Owned'
      PROVE  \E l \in List : Kept(l, u)'
  <2>1. u \in Owned
    BY DEF Owned
  <2>2. PICK l \in List : Kept(l, u)
    BY <2>1 DEF RInv, Follows, Following, Safe
  <2>3. Kept(l, u)'
    BY <2>2 DEF Kept, RowOf, Has
  <2> QED
    BY <2>3
<1> QED
  BY <1>1, <1>2, FollowsEnd

\* Before the source is gone, and in an event's move, nothing is in flight.
LEMMA NotInFlight ==
    ASSUME RInv, op # Absent, NEW u \in Owned, InFlight(u)
    PROVE  /\ IsTask /\ u = op.uid
           /\ pc \in {"asked", "finish", "refresh", "refs"}
BY OwnedMoves DEF InFlight

LEMMA StopFollows ==
    ASSUME RInv, op # Absent, Stop \/ Raise, UNCHANGED wire,
           pc \notin {"asked", "finish", "refresh", "refs"} \/ ~IsTask
    PROVE  Follows'
<1>1. op' = Absent /\ UNCHANGED <<wire, cache, event, pinned, stranded>>
  BY DEF Stop, Raise, Bystanders
<1>2. \A u \in Owned' : ~InFlight(u)
  BY <1>1, NotInFlight DEF Owned
<1> QED
  BY <1>1, <1>2, FollowsStop

-----------------------------------------------------------------------------
(* A move that goes on with the same resource.                               *)

SameMove ==
    /\ op'.src = op.src /\ op'.dst = op.dst /\ op'.rest = op.rest /\ op'.root = op.root
    /\ op'.uid = op.uid /\ op'.href = op.href /\ op'.keep = op.keep

LEMMA ApartGoesOn ==
    ASSUME RInv, op # Absent, op' # Absent, SameMove, UNCHANGED <<cache, event>>,
           Owned' \subseteq Owned, pc' # "refs" => pc # "refs",
           \A u \in Owned' : \A h \in Href : Has(op.dst, h, u) => HasNext(op.dst, h, u)
    PROVE  Orphaned' /\ Apart'
<1>1. Orphaned'
  BY DEF RInv, Follows, Orphaned, RowOf
<1>2. ASSUME IsTask'
      PROVE  Apart'
  <2>1. IsTask
    BY <1>2 DEF IsTask, SameMove
  <2>2. op.dst \in List /\ op.uid \in UID /\ op.rest \subseteq UID
    BY OpType DEF RInv, IInv
  <2>3. Apart
    BY DEF RInv, Follows
  <2>4. ASSUME NEW x \in Owned', RowOf(op.dst, x) # Absent, Has(op.dst, RowOf(op.dst, x).href, x)
        PROVE  HasNext(op.dst, RowOf(op.dst, x).href, x)
    <3>1. x \in UID
      BY OwnedType DEF RInv
    <3> QED
      BY <2>2, <2>4, <3>1, RowHref DEF RInv
  <2>5. \A x \in op.rest : x \in Owned' /\ RowOf(op.dst, x) # Absent =>
              \/ RowOf(op.dst, x).href = RowOf(op.src, x).href
              \/ HasNext(op.dst, RowOf(op.dst, x).href, x)
    BY <2>1, <2>3, <2>4 DEF Apart
  <2>6. op.uid \in Owned' /\ RowOf(op.dst, op.uid) # Absent =>
              \/ RowOf(op.dst, op.uid).href = op.href
              \/ HasNext(op.dst, RowOf(op.dst, op.uid).href, op.uid)
    BY <2>1, <2>3, <2>4 DEF Apart
  <2>7. /\ op'.src = op.src /\ op'.dst = op.dst /\ op'.rest = op.rest
        /\ op'.uid = op.uid /\ op'.href = op.href /\ op'.keep = op.keep /\ cache' = cache
    BY SMTT(30) DEF SameMove
  <2>8. \A x \in op'.rest \cap Owned' : RowOf(op.dst, x)' # Absent =>
              \/ RowOf(op.dst, x).href' = RowOf(op.src, x).href'
              \/ Has(op.dst, RowOf(op.dst, x).href, x)'
    BY <2>5, <2>7, SMTT(30) DEF RowOf, Has, HasNext
  <2>9. op'.uid \in Owned' /\ RowOf(op.dst, op.uid)' # Absent =>
              \/ RowOf(op.dst, op.uid).href' = op'.href
              \/ Has(op.dst, RowOf(op.dst, op.uid).href, op.uid)'
    BY <2>6, <2>7 DEF RowOf, Has, HasNext
  <2> QED
    BY <2>1, <2>3, <2>7, <2>8, <2>9 DEF Apart, RowOf
<1> QED
  BY <1>1, <1>2 DEF Apart

LEMMA SafeGoesOn ==
    ASSUME RInv, op # Absent, SameMove, UNCHANGED <<cache, event>>,
           NEW l \in List, NEW u \in Owned, Safe(l, u),
           RowOf(l, u) # Absent => HasNext(l, RowOf(l, u).href, u),
           u = op.uid /\ l = op.src =>
              pc' = "get" \/ (pc' \in {"put", "occupied", "delete", "undo"} /\ op'.body.uid = u),
           l = op.dst /\ (pc' = "undo" \/ (pc' = "delete" /\ (op'.wrote \/ ~IsTask))) =>
              ~(RowOf(l, u) # Absent /\ RowOf(l, u).href = op.href)
    PROVE  Safe(l, u)'
<1>1. Kept(l, u)'
  BY KeptStays DEF Safe
<1> QED
  BY <1>1 DEF Safe, SameMove, RowOf, IsTask

LEMMA FollowsOn ==
    ASSUME RInv, op # Absent, op' # Absent, SameMove, UNCHANGED <<cache, event>>,
           Owned' \subseteq Owned, pc' # "refs" => pc # "refs",
           OneUidEach', CopyThere',
           pc' = "adopt" => op'.copy # Absent /\ op'.copy.uid = op.uid,
           \A u \in Owned' : \A h \in Href : Has(op.dst, h, u) => HasNext(op.dst, h, u),
           \A u \in Owned' : InFlight(u) => InFlight(u)',
           \A u \in Owned' : \A l \in List : Safe(l, u) => InFlight(u)' \/ Safe(l, u)'
    PROVE  Follows'
<1>1. Orphaned' /\ Apart'
  BY ApartGoesOn
<1>2. OneKind'
  BY DEF RInv, Follows, OneKind, SameMove, IsTask
<1>3. Following'
  BY DEF RInv, Follows, Following
<1> QED
  BY <1>1, <1>2, <1>3 DEF Follows

-----------------------------------------------------------------------------
(* The requests that only read.                                              *)

\* No request but the refresh is made for refs that are on their way.
LEMMA QuietFollows ==
    ASSUME RInv, op # Absent, op' # Absent, SameMove,
           UNCHANGED <<wire, cache, event, pinned, stranded>>,
           pc \notin {"refresh", "refs"}, pc' \notin {"refresh", "refs"},
           CopyThere',
           pc' = "adopt" => op'.copy # Absent /\ op'.copy.uid = op.uid,
           IsTask /\ pc \in {"asked", "finish"} => pc' \in {"asked", "finish"},
           \A u \in Owned : u = op.uid /\ IsTask /\ Safe(op.src, u) =>
              \/ pc' = "get"
              \/ pc' \in {"put", "occupied", "delete", "undo"} /\ op'.body.uid = u
              \/ InFlight(u)',
           pc' = "undo" \/ (pc' = "delete" /\ (op'.wrote \/ ~IsTask)) =>
              \/ pc = "undo" \/ (pc = "delete" /\ (op.wrote \/ ~IsTask))
              \/ \A u \in Owned : Safe(op.dst, u) =>
                    ~(RowOf(op.dst, u) # Absent /\ RowOf(op.dst, u).href = op.href)
    PROVE  Follows'
<1>1. Owned' = Owned
  BY DEF Owned
<1>2. OneUidEach'
  BY DEF RInv, Follows, OneUidEach
<1>3. \A l \in List : \A u \in Owned : \A h \in Href : Has(l, h, u) => HasNext(l, h, u)
  BY DEF Has, HasNext
<1>4. ASSUME NEW u \in Owned, InFlight(u)
      PROVE  InFlight(u)'
  BY <1>4, NotInFlight DEF InFlight, SameMove, Has, RowOf
<1>5. ASSUME NEW u \in Owned, NEW l \in List, Safe(l, u)
      PROVE  InFlight(u)' \/ Safe(l, u)'
  <2>1. RowOf(l, u) # Absent => HasNext(l, RowOf(l, u).href, u)
    BY <1>5 DEF Safe, Kept, Has, HasNext
  <2>2. u = op.uid => IsTask
    BY OwnedMoves
  <2>3. l = op.dst /\ (pc' = "undo" \/ (pc' = "delete" /\ (op'.wrote \/ ~IsTask))) =>
              ~(RowOf(l, u) # Absent /\ RowOf(l, u).href = op.href)
    BY <1>5 DEF Safe
  <2>4. CASE u = op.uid /\ l = op.src
    BY <1>5, <2>1, <2>2, <2>3, <2>4, SafeGoesOn
  <2>5. CASE ~(u = op.uid /\ l = op.src)
    BY <1>5, <2>1, <2>3, <2>5, SafeGoesOn
  <2> QED
    BY <2>4, <2>5
<1> QED
  BY <1>1, <1>2, <1>3, <1>4, <1>5, OpType, FollowsOn DEF RInv, IInv

\* What is read is the task's own, if that is where the owner's settings are.
LEMMA GetFollows == ASSUME RInv, Get PROVE Follows'
<1>1. pc = "get" /\ op # Absent /\ op \in Move
  BY OpType DEF Get, RInv, IInv, TypeOK
<1>2. Safe(op.src, op.uid) => wire[op.src][op.href] # Absent /\ wire[op.src][op.href].uid = op.uid
  BY <1>1, OwnPlace DEF RInv, Safe, Kept, Has
<1>3. CASE wire[op.src][op.href] # Absent /\ op' = [op EXCEPT !.body = wire[op.src][op.href]] /\ Goto("put")
  <2>1. wire[op.src][op.href] \in ItemBody \cup {Absent}
    BY <1>1, WireBody, OpType DEF RInv, IInv
  <2>2. op' \in Move /\ op'.body = wire[op.src][op.href] /\ SameMove
    BY <1>1, <1>3, <2>1, SetBody DEF SameMove
  <2>3. pc' = "put" /\ UNCHANGED <<wire, cache, event, pinned, stranded>>
    BY <1>3 DEF Goto, Bystanders
  <2> QED
    BY <1>1, <1>2, <2>2, <2>3, MoveAssumption, QuietFollows DEF CopyThere
<1>4. CASE wire[op.src][op.href] = Absent /\ op' = op /\ Goto("holds")
  <2>1. pc' = "holds" /\ UNCHANGED <<wire, cache, event, pinned, stranded>> /\ SameMove
    BY <1>4 DEF Goto, Bystanders, SameMove
  <2> QED
    BY <1>1, <1>2, <1>4, <2>1, QuietFollows DEF CopyThere
<1>5. CASE Stop
  BY <1>1, <1>5, StopFollows DEF Stop
<1> QED
  BY <1>3, <1>4, <1>5 DEF Get

LEMMA FindCopyFollows == ASSUME RInv, FindCopy PROVE Follows'
<1>1. pc = "holds" /\ op # Absent
  BY DEF FindCopy, RInv, IInv, TypeOK
<1>2. CASE op' = op /\ Goto("finish")
  <2>1. pc' = "finish" /\ UNCHANGED <<wire, cache, event, pinned, stranded>> /\ SameMove
    BY <1>2 DEF Goto, Bystanders, SameMove
  <2>2. ~Safe(op.src, op.uid)
    BY <1>1 DEF Safe
  <2> QED
    BY <1>1, <1>2, <2>1, <2>2, QuietFollows DEF CopyThere
<1>3. CASE Stop
  BY <1>1, <1>3, StopFollows DEF Stop
<1> QED
  BY <1>2, <1>3 DEF FindCopy

\* What is taken for the copy of a task has its UID.
LEMMA OwnCopyFollows == ASSUME RInv, OwnCopy PROVE Follows'
<1>1. pc = "occupied" /\ IsTask /\ op # Absent /\ op \in Move /\ ~op.wrote
  BY OpType DEF OwnCopy, RInv, IInv, TypeOK, CopySays
<1>2. op.body \in ItemBody
  BY <1>1, BodyThere DEF RInv, WithBody
<1>3. CASE /\ Holds(op.dst, op.href, Written(op, op.body))
           /\ op' = [op EXCEPT !.copy = wire[op.dst][op.href]]
           /\ Goto("delete")
  <2>1. wire[op.dst][op.href] \in ItemBody \cup {Absent}
    BY <1>1, WireBody, OpType DEF RInv, IInv
  <2>2. op' \in Move /\ op'.body = op.body /\ op'.wrote = op.wrote /\ SameMove
    BY <1>1, <1>3, <2>1, SetCopy DEF SameMove
  <2>3. pc' = "delete" /\ UNCHANGED <<wire, cache, event, pinned, stranded>>
    BY <1>3 DEF Goto, Bystanders
  <2>4. Has(op.dst, op.href, op.body.uid)
    BY <1>2, <1>3, WrittenType DEF Holds, SameTask, Has
  <2>5. CopyThere'
    BY <2>2, <2>3, <2>4 DEF CopyThere, Has, SameMove
  <2>6. Safe(op.src, op.uid) => op'.body.uid = op.uid
    BY <1>1, <2>2 DEF Safe
  <2> QED
    BY <1>1, <2>2, <2>3, <2>5, <2>6, MoveAssumption, QuietFollows
<1>4. CASE Stop
  BY <1>1, <1>4, StopFollows DEF Stop
<1> QED
  BY <1>3, <1>4 DEF OwnCopy

LEMMA FindMovedCopyFollows == ASSUME RInv, FindMovedCopy PROVE Follows'
<1>1. pc = "occupied" /\ ~IsTask /\ op # Absent /\ op \in Move
  BY OpType DEF FindMovedCopy, RInv, IInv, TypeOK
<1>2. CASE /\ wire[op.dst][op.href] # Absent /\ wire[op.dst][op.href].uid = op.uid
           /\ op' = [op EXCEPT !.copy = wire[op.dst][op.href]]
           /\ Goto("adopt")
  <2>1. wire[op.dst][op.href] \in ItemBody \cup {Absent}
    BY <1>1, WireBody, OpType DEF RInv, IInv
  <2>2. op' \in Move /\ op'.copy = wire[op.dst][op.href] /\ SameMove
    BY <1>1, <1>2, <2>1, SetCopy DEF SameMove
  <2>3. pc' = "adopt" /\ UNCHANGED <<wire, cache, event, pinned, stranded>>
    BY <1>2 DEF Goto, Bystanders
  <2> QED
    BY <1>1, <1>2, <2>2, <2>3, MoveAssumption, QuietFollows DEF CopyThere
<1>3. CASE Stop
  BY <1>1, <1>3, StopFollows DEF Stop
<1> QED
  BY <1>2, <1>3 DEF FindMovedCopy

-----------------------------------------------------------------------------
(* The requests that write.                                                  *)

\* A body put where its UID is not, nor anything else with it.
LEMMA OneUidPut ==
    ASSUME TypeOK, OneUidEach, NEW l \in List, NEW h \in Href, NEW b \in ItemBody \cup {Absent},
           b # Absent => UidFree(l, h, b.uid), wire' = [wire EXCEPT ![l][h] = b]
    PROVE  OneUidEach'
<1>1. /\ wire'[l][h] = b
      /\ \A k \in List : \A g \in Href : k # l \/ g # h => wire'[k][g] = wire[k][g]
  BY DEF TypeOK
<1>2. ASSUME NEW k \in List, NEW g \in Href, NEW f \in Href,
             wire'[k][g] # Absent, wire'[k][f] # Absent, wire'[k][g].uid = wire'[k][f].uid
      PROVE  g = f
  <2>1. CASE k = l /\ g = h /\ f # h
    BY <1>1, <1>2, <2>1 DEF UidFree
  <2>2. CASE k = l /\ f = h /\ g # h
    BY <1>1, <1>2, <2>2 DEF UidFree
  <2>3. CASE k # l \/ (g # h /\ f # h)
    BY <1>1, <1>2, <2>3 DEF OneUidEach
  <2> QED
    BY <2>1, <2>2, <2>3
<1> QED
  BY <1>2 DEF OneUidEach

\* The copy is put where there was nothing.
LEMMA PutGrows ==
    ASSUME RInv, op # Absent, pc = "put", ~Occupied(op.href, op.body), PutLands
    PROVE  /\ OneUidEach'
           /\ \A l \in List : \A h \in Href : \A u \in Owned : Has(l, h, u) => HasNext(l, h, u)
           /\ op.body \in ItemBody
           /\ wire'[op.dst][op.href] # Absent /\ wire'[op.dst][op.href].uid = op.body.uid
<1>1. op.dst \in List /\ op.href \in Href /\ op.body \in ItemBody
  BY OpType, BodyThere DEF RInv, IInv, WithBody
<1> DEFINE b == Written(op, op.body)
<1>2. b \in ItemBody /\ b.uid = op.body.uid /\ b # Absent
  BY <1>1, WrittenType, ItemIsThere
<1>3. wire' = [wire EXCEPT ![op.dst][op.href] = b]
  BY DEF PutLands
<1> HIDE DEF b
<1>4. wire[op.dst][op.href] = Absent /\ UidFree(op.dst, op.href, b.uid)
  BY <1>2 DEF Occupied
<1>5. OneUidEach'
  BY <1>1, <1>2, <1>3, <1>4, OneUidPut DEF RInv, Follows, IInv
<1>6. /\ wire'[op.dst][op.href] = b
      /\ \A k \in List : \A g \in Href : k # op.dst \/ g # op.href => wire'[k][g] = wire[k][g]
  BY <1>1, <1>2, <1>3 DEF RInv, IInv, TypeOK
<1> QED
  BY <1>1, <1>2, <1>4, <1>5, <1>6 DEF Has, HasNext

\* Where more is on the wire, what was kept is kept.
LEMMA KeptGrows ==
    ASSUME RInv, NEW l \in List, NEW u \in Owned, Kept(l, u), UNCHANGED cache,
           \A h \in Href : Has(l, h, u) => HasNext(l, h, u)
    PROVE  /\ Kept(l, u)'
           /\ RowOf(l, u) # Absent => HasNext(l, RowOf(l, u).href, u)
<1>1. RowOf(l, u) # Absent => HasNext(l, RowOf(l, u).href, u)
  BY OwnedType, RowHref DEF RInv, Kept
<1> QED
  BY <1>1, KeptStays

LEMMA PutFollows == ASSUME RInv, Put PROVE Follows'
<1>1. pc = "put" /\ op # Absent /\ op \in Move /\ op.dst \in List /\ op.href \in Href
  BY OpType DEF Put, RInv, IInv, TypeOK
<1>2. CASE op' = op /\ Goto("occupied")
  <2>1. pc' = "occupied" /\ UNCHANGED <<wire, cache, event, pinned, stranded>> /\ SameMove
    BY <1>2 DEF Goto, Bystanders, SameMove
  <2>2. Safe(op.src, op.uid) => op.body.uid = op.uid
    BY <1>1 DEF Safe
  <2> QED
    BY <1>1, <1>2, <2>1, <2>2, QuietFollows DEF CopyThere
<1>3. CASE /\ ~Occupied(op.href, op.body)
           /\ PutLands
           /\ op' = [op EXCEPT !.copy = Written(op, op.body), !.wrote = TRUE]
           /\ pc' = "delete"
           /\ UNCHANGED <<cache, live, stranded, faults>>
           /\ Bystanders
  <2>1. /\ OneUidEach'
        /\ \A l \in List : \A h \in Href : \A u \in Owned : Has(l, h, u) => HasNext(l, h, u)
        /\ op.body \in ItemBody
        /\ wire'[op.dst][op.href] # Absent /\ wire'[op.dst][op.href].uid = op.body.uid
    BY <1>1, <1>3, PutGrows
  <2>2. op' \in Move /\ op'.body = op.body /\ SameMove
    <3> DEFINE b == Written(op, op.body)
    <3>1. b \in ItemBody \cup {Absent}
      BY <2>1, WrittenType
    <3>2. op' = [op EXCEPT !.copy = b, !.wrote = TRUE]
      BY <1>3
    <3> HIDE DEF b
    <3> QED
      BY <1>1, <3>1, <3>2, SetWritten, ZenonT(40) DEF SameMove
  <2>3. pc' = "delete" /\ UNCHANGED <<cache, event, pinned, stranded>>
    BY <1>3 DEF Bystanders
  <2>4. Owned' = Owned
    BY <2>3 DEF Owned
  <2>5. CopyThere'
    BY <2>1, <2>2 DEF CopyThere, Has, SameMove
  <2>6. \A u \in Owned : ~InFlight(u)
    BY <1>1 DEF InFlight
  <2>7. ASSUME NEW u \in Owned, NEW l \in List, Safe(l, u)
        PROVE  Safe(l, u)'
    <3>1. Kept(l, u)
      BY <2>7 DEF Safe
    <3>2. RowOf(l, u) # Absent => HasNext(l, RowOf(l, u).href, u)
      BY <2>1, <2>3, <3>1, KeptGrows
    <3>3. u = op.uid /\ l = op.src => op'.body.uid = u
      BY <1>1, <2>2, <2>7 DEF Safe
    <3>4. l = op.dst => ~(RowOf(l, u) # Absent /\ RowOf(l, u).href = op.href)
      BY <1>3, <3>1 DEF Kept, Has, Occupied
    <3> QED
      BY <1>1, <2>2, <2>3, <2>7, <3>2, <3>3, <3>4, SafeGoesOn
  <2> QED
    BY <1>1, <2>1, <2>2, <2>3, <2>4, <2>5, <2>6, <2>7, MoveAssumption, FollowsOn
<1> QED
  BY <1>2, <1>3 DEF Put

\* The copy an event's move adopts is no task's.
LEMMA AdoptGrows ==
    ASSUME RInv, op # Absent, pc = "adopt", AdoptLands, PutLands
    PROVE  /\ OneUidEach' /\ ~IsTask
           /\ \A l \in List : \A h \in Href : \A u \in Owned : Has(l, h, u) => HasNext(l, h, u)
           /\ \A u \in Owned : ~Has(op.dst, op.href, u)
<1>1. op.dst \in List /\ op.href \in Href /\ op.body \in ItemBody
  BY OpType, BodyThere DEF RInv, IInv, WithBody
<1> DEFINE b == Written(op, op.body)
<1>2. b \in ItemBody /\ b.uid = op.body.uid /\ b # Absent
  BY <1>1, WrittenType, ItemIsThere
<1>3. wire' = [wire EXCEPT ![op.dst][op.href] = b]
  BY DEF PutLands
<1> HIDE DEF b
<1>4. OneUidEach'
  BY <1>1, <1>2, <1>3, OneUidPut DEF RInv, Follows, IInv, AdoptLands
<1>5. /\ wire'[op.dst][op.href] = b
      /\ \A k \in List : \A g \in Href : k # op.dst \/ g # op.href => wire'[k][g] = wire[k][g]
  BY <1>1, <1>2, <1>3 DEF RInv, IInv, TypeOK
<1>6. ~IsTask /\ op.uid \in event
  BY DEF RInv, IInv, CopySays, Follows, OneKind, IsTask
<1>7. \A u \in Owned : ~Has(op.dst, op.href, u)
  BY <1>6, OwnedType DEF RInv, Follows, OneKind, AdoptLands, Has
<1> QED
  BY <1>4, <1>5, <1>6, <1>7 DEF Has, HasNext

LEMMA AdoptMovedCopyFollows == ASSUME RInv, AdoptMovedCopy PROVE Follows'
<1>1. pc = "adopt" /\ op # Absent /\ op \in Move /\ op.dst \in List /\ op.href \in Href
  BY OpType DEF AdoptMovedCopy, RInv, IInv, TypeOK
<1>2. CASE Stop
  BY <1>1, <1>2, StopFollows DEF Stop
<1>3. CASE /\ AdoptLands
           /\ PutLands
           /\ op' = [op EXCEPT !.copy = Absent]
           /\ pc' = "delete"
           /\ UNCHANGED <<cache, live, stranded, faults>>
           /\ Bystanders
  <2>1. /\ OneUidEach' /\ ~IsTask
        /\ \A l \in List : \A h \in Href : \A u \in Owned : Has(l, h, u) => HasNext(l, h, u)
        /\ \A u \in Owned : ~Has(op.dst, op.href, u)
    BY <1>1, <1>3, AdoptGrows
  <2>2. op' \in Move /\ SameMove
    BY <1>1, <1>3, SetCopy DEF SameMove
  <2>3. pc' = "delete" /\ UNCHANGED <<cache, event, pinned, stranded>>
    BY <1>3 DEF Bystanders
  <2>4. Owned' = Owned
    BY <2>3 DEF Owned
  <2>5. CopyThere'
    BY <2>1, <2>2, <2>3 DEF CopyThere, IsTask, SameMove
  <2>6. \A u \in Owned : ~InFlight(u)
    BY <1>1 DEF InFlight
  <2>7. ASSUME NEW u \in Owned, NEW l \in List, Safe(l, u)
        PROVE  Safe(l, u)'
    <3>1. Kept(l, u)
      BY <2>7 DEF Safe
    <3>2. RowOf(l, u) # Absent => HasNext(l, RowOf(l, u).href, u)
      BY <2>1, <2>3, <3>1, KeptGrows
    <3>3. u # op.uid
      BY <1>1, <2>1, OwnedMoves
    <3>4. l = op.dst => ~(RowOf(l, u) # Absent /\ RowOf(l, u).href = op.href)
      BY <2>1, <3>1 DEF Kept
    <3> QED
      BY <1>1, <2>2, <2>3, <2>7, <3>2, <3>3, <3>4, SafeGoesOn
  <2> QED
    BY <1>1, <2>1, <2>2, <2>3, <2>4, <2>5, <2>6, <2>7, MoveAssumption, FollowsOn
<1> QED
  BY <1>2, <1>3 DEF AdoptMovedCopy

\* Only what is at the source's href goes.
LEMMA DeleteShrinks ==
    ASSUME RInv, op # Absent, pc = "delete", DeleteLands
    PROVE  /\ OneUidEach'
           /\ \A h \in Href : \A u \in Owned : Has(op.dst, h, u) => HasNext(op.dst, h, u)
           /\ \A l \in List : \A u \in Owned :
                 /\ Kept(l, u)
                 /\ RowOf(l, u) # Absent
                 /\ u # op.uid \/ l # op.src
                 => HasNext(l, RowOf(l, u).href, u)
<1>1. op.src \in List /\ op.dst \in List /\ op.href \in Href /\ op.src # op.dst
  BY OwnPlace DEF RInv
<1>2. wire' = [wire EXCEPT ![op.src][op.href] = Absent]
  BY DEF DeleteLands
<1>3. OneUidEach'
  BY <1>1, <1>2, OneUidPut DEF RInv, Follows, IInv
<1>4. \A k \in List : \A g \in Href : k # op.src \/ g # op.href => wire'[k][g] = wire[k][g]
  BY <1>1, <1>2 DEF RInv, IInv, TypeOK
<1>5. \A h \in Href : \A u \in Owned : Has(op.dst, h, u) => HasNext(op.dst, h, u)
  BY <1>1, <1>4 DEF Has, HasNext
<1>6. ASSUME NEW l \in List, NEW u \in Owned, Kept(l, u), RowOf(l, u) # Absent,
             u # op.uid \/ l # op.src
      PROVE  HasNext(l, RowOf(l, u).href, u)
  <2>1. u \in UID
    BY OwnedType DEF RInv
  <2>2. RowOf(l, u).href \in Href
    BY <1>6, <2>1, RowHref DEF RInv
  <2>3. l = op.src => RowOf(l, u).href # op.href
    BY <1>6, <2>1, OwnPlace DEF RInv
  <2> QED
    BY <1>4, <1>6, <2>2, <2>3 DEF Kept, Has, HasNext
<1> QED
  BY <1>3, <1>5, <1>6

\* The refs are on their way from where the source was to where the copy is.
LEMMA SetsOff ==
    ASSUME RInv, op # Absent, pc = "delete", op' = op, pc' \in {"asked", "finish"},
           UNCHANGED cache, NEW u \in Owned, u = op.uid, Safe(op.src, u),
           \A h \in Href : Has(op.dst, h, u) => HasNext(op.dst, h, u)
    PROVE  InFlight(u)'
<1>1. /\ op.src \in List /\ op.dst \in List /\ op.href \in Href /\ op.src # op.dst
      /\ u \in UID /\ IsTask
  BY OwnPlace, OwnedMoves DEF RInv
<1>2. Has(op.dst, op.href, u) /\ cache[op.src].side[u] = "live"
  BY <1>1 DEF RInv, Follows, CopyThere, Safe, Kept
<1>3. RowOf(op.dst, u) # Absent => RowOf(op.dst, u).href = op.href
  <2> SUFFICES ASSUME RowOf(op.dst, u) # Absent PROVE RowOf(op.dst, u).href = op.href
    OBVIOUS
  <2>1. RowOf(op.dst, u).href \in Href
    BY <1>1, RowHref DEF RInv
  <2>2. RowOf(op.dst, u).href = op.href \/ Has(op.dst, RowOf(op.dst, u).href, u)
    BY <1>1 DEF RInv, Follows, Apart
  <2> QED
    BY <1>1, <1>2, <2>1, <2>2 DEF RInv, Follows, OneUidEach, Has
<1>4. u \in op.keep => cache[op.dst].side[u] = "live"
  BY <1>1 DEF RInv, Follows, Apart
<1>5. HasNext(op.dst, op.href, u)
  BY <1>1, <1>2
<1> QED
  BY <1>2, <1>3, <1>4, <1>5 DEF InFlight, RowOf, Has, HasNext

LEMMA DeletedFollows ==
    ASSUME RInv, op # Absent, pc = "delete", DeleteLands, op' = op, pc' \in {"asked", "finish"},
           UNCHANGED <<cache, event, pinned, stranded>>
    PROVE  Follows'
<1>1. /\ OneUidEach'
      /\ \A h \in Href : \A u \in Owned : Has(op.dst, h, u) => HasNext(op.dst, h, u)
  BY DeleteShrinks
<1>2. Owned' = Owned
  BY DEF Owned
<1>3. SameMove /\ CopyThere' /\ pc' \notin {"get", "put", "occupied", "adopt", "delete", "undo", "refs"}
  BY DEF SameMove, CopyThere
<1>4. \A u \in Owned : ~InFlight(u)
  BY DEF InFlight
<1>5. ASSUME NEW u \in Owned, NEW l \in List, Safe(l, u)
      PROVE  InFlight(u)' \/ Safe(l, u)'
  <2>1. CASE u = op.uid /\ l = op.src
    BY <1>1, <1>5, <2>1, SetsOff
  <2>2. CASE ~(u = op.uid /\ l = op.src)
    <3>1. RowOf(l, u) # Absent => HasNext(l, RowOf(l, u).href, u)
      BY <1>5, <2>2, DeleteShrinks DEF Safe
    <3> QED
      BY <1>3, <1>5, <2>2, <3>1, SafeGoesOn
  <2> QED
    BY <2>1, <2>2
<1> QED
  BY <1>1, <1>2, <1>3, <1>4, <1>5, FollowsOn

LEMMA DeleteFollows == ASSUME RInv, Delete PROVE Follows'
<1>1. pc = "delete" /\ op # Absent
  BY DEF Delete, RInv, IInv, TypeOK
<1>2. CASE /\ wire[op.src][op.href] = op.body
           /\ DeleteLands
           /\ pc' = "finish"
           /\ UNCHANGED <<cache, op, stranded, faults>>
           /\ Bystanders
  BY <1>1, <1>2, DeletedFollows DEF Bystanders
<1>3. CASE wire[op.src][op.href] = Absent /\ op' = op /\ Goto("finish")
  <2>1. pc' = "finish" /\ UNCHANGED <<wire, cache, event, pinned, stranded>> /\ SameMove
    BY <1>3 DEF Goto, Bystanders, SameMove
  <2>2. ~Safe(op.src, op.uid)
    BY <1>1, <1>3, OwnPlace DEF RInv, Safe, Kept, Has
  <2> QED
    BY <1>1, <1>3, <2>1, <2>2, QuietFollows DEF CopyThere
<1>4. CASE (~IsTask \/ op.wrote) /\ op' = op /\ Goto("undo")
  <2>1. pc' = "undo" /\ UNCHANGED <<wire, cache, event, pinned, stranded>> /\ SameMove
    BY <1>4 DEF Goto, Bystanders, SameMove
  <2>2. Safe(op.src, op.uid) => op.body.uid = op.uid
    BY <1>1 DEF Safe
  <2> QED
    BY <1>1, <1>4, <2>1, <2>2, QuietFollows DEF CopyThere
<1>5. CASE Stop
  BY <1>1, <1>5, StopFollows DEF Stop
<1> QED
  BY <1>2, <1>3, <1>4, <1>5 DEF Delete

-----------------------------------------------------------------------------
(* A move cut short.                                                         *)

\* What was in flight is put down as stranded, or its source is still there.
LEMMA CutOffFollows ==
    ASSUME RInv, op # Absent, op' = Absent, UNCHANGED <<wire, cache, event, pinned>>,
           stranded \subseteq stranded',
           pc \in {"refresh", "refs"} => op.uid \in stranded',
           pc \in {"asked", "finish"} /\ SourceGone => op.uid \in stranded'
    PROVE  Follows'
<1>1. ASSUME NEW u \in Owned', InFlight(u)
      PROVE  Kept(op.src, u) /\ op.src \in List
  <2>1. u = op.uid /\ u \notin stranded'
    BY <1>1 DEF InFlight, Owned
  <2>2. pc \in {"asked", "finish"} /\ ~SourceGone /\ cache[op.src].side[u] = "live"
    BY <1>1, <2>1 DEF InFlight
  <2> QED
    BY <2>1, <2>2, OwnPlace DEF RInv, Kept, Has, SourceGone
<1> QED
  BY <1>1, FollowsStop

LEMMA AskGoneFollows == ASSUME RInv, AskGone PROVE Follows'
<1>1. pc = "asked" /\ op # Absent
  BY DEF AskGone, RInv, IInv, TypeOK
<1>2. CASE op' = op /\ Goto("finish")
  <2>1. pc' = "finish" /\ UNCHANGED <<wire, cache, event, pinned, stranded>> /\ SameMove
    BY <1>2 DEF Goto, Bystanders, SameMove
  <2>2. ~Safe(op.src, op.uid)
    BY <1>1 DEF Safe
  <2> QED
    BY <1>1, <1>2, <2>1, <2>2, QuietFollows DEF CopyThere
<1>3. CASE /\ op' = Absent
           /\ stranded' = IF SourceGone THEN stranded \cup {op.uid} ELSE stranded
           /\ UNCHANGED <<wire, cache, faults>>
           /\ Bystanders
  BY <1>1, <1>3, CutOffFollows DEF Bystanders
<1> QED
  BY <1>2, <1>3 DEF AskGone

LEMMA LostQuestionFollows == ASSUME RInv, LostQuestion PROVE Follows'
<1>1. pc = "asked" /\ op # Absent
  BY DEF LostQuestion, RInv, IInv, TypeOK
<1> QED
  BY <1>1, CutOffFollows DEF LostQuestion, Bystanders

LEMMA CrashFollows == ASSUME RInv, Crash PROVE Follows'
<1>1. pc # "idle" /\ op # Absent
  BY DEF Crash, RInv, IInv, TypeOK
<1> QED
  BY <1>1, CutOffFollows DEF Crash, Bystanders

\* The read of the copy fails, and the refs follow nevertheless.
LEMMA FailRefreshFollows ==
    ASSUME RInv, pc = "refresh", pc' = "refs", op' = [op EXCEPT !.failed = TRUE],
           UNCHANGED <<wire, cache, event, pinned, stranded>>
    PROVE  Follows'
<1>1. op # Absent /\ op \in Move
  BY OpType DEF RInv, IInv, TypeOK
<1>2. op' \in Move /\ SameMove
  BY <1>1, SetFailed DEF SameMove
<1>3. Owned' = Owned
  BY DEF Owned
<1>4. OneUidEach'
  BY DEF RInv, Follows, OneUidEach
<1>5. \A u \in Owned : \A l \in List : \A h \in Href : Has(l, h, u) => HasNext(l, h, u)
  BY DEF Has, HasNext
<1>6. ASSUME NEW u \in Owned, InFlight(u)
      PROVE  InFlight(u)'
  BY <1>2, <1>6 DEF InFlight, SameMove, Has, RowOf
<1>7. ASSUME NEW u \in Owned, NEW l \in List, Safe(l, u)
      PROVE  Safe(l, u)'
  <2>1. ~(u = op.uid /\ l = op.src)
    BY <1>7 DEF Safe
  <2>2. RowOf(l, u) # Absent => HasNext(l, RowOf(l, u).href, u)
    BY <1>7 DEF Safe, Kept, Has, HasNext
  <2> QED
    BY <1>1, <1>2, <1>7, <2>1, <2>2, SafeGoesOn
<1> QED
  BY <1>1, <1>2, <1>3, <1>4, <1>5, <1>6, <1>7, OpType, MoveAssumption, FollowsOn
     DEF CopyThere, RInv, IInv

LEMMA UnansweredFollows == ASSUME RInv, Unanswered PROVE Follows'
<1>1. wire' = wire /\ pc # "idle" /\ op # Absent
  BY DEF Unanswered, RInv, IInv, TypeOK
<1>2. CASE Raise /\ (pc \in {"get", "holds", "put", "occupied", "adopt", "undo"} \/ ~IsTask)
  BY <1>1, <1>2, StopFollows
<1>3. CASE pc = "delete" /\ IsTask /\ pc' = "asked" /\ UNCHANGED <<cache, op, stranded>> /\ Bystanders
  <2>1. UNCHANGED <<wire, cache, event, pinned, stranded>> /\ SameMove
    BY <1>1, <1>3 DEF Bystanders, SameMove
  <2>2. \A h \in Href : \A u \in Owned : Has(op.dst, h, u) => HasNext(op.dst, h, u)
    BY <1>1 DEF Has, HasNext
  <2>3. \A u \in Owned : u = op.uid /\ Safe(op.src, u) => InFlight(u)'
    BY <1>1, <1>3, <2>2, SetsOff
  <2> QED
    BY <1>1, <1>3, <2>1, <2>3, QuietFollows DEF CopyThere
<1>4. CASE pc = "refresh" /\ pc' = "refs" /\ op' = [op EXCEPT !.failed = TRUE]
           /\ UNCHANGED <<cache, live, stranded>> /\ Bystanders
  BY <1>1, <1>4, FailRefreshFollows DEF Bystanders
<1> QED
  BY <1>2, <1>3, <1>4 DEF Unanswered

\* A move that has written and then ends, with nothing in flight.
LEMMA LandedFollows ==
    ASSUME RInv, op # Absent, op' = Absent, UNCHANGED <<cache, event, pinned, stranded>>,
           pc \notin {"asked", "finish", "refresh", "refs"}, OneUidEach',
           \A l \in List : \A u \in Owned :
              Safe(l, u) /\ RowOf(l, u) # Absent => HasNext(l, RowOf(l, u).href, u)
    PROVE  Follows'
<1>1. Owned' = Owned
  BY DEF Owned
<1>2. Orphaned'
  BY DEF RInv, Follows, Orphaned, RowOf
<1>3. ASSUME NEW u \in Owned
      PROVE  \E l \in List : Kept(l, u)'
  <2>1. PICK l \in List : Safe(l, u)
    BY NotInFlight DEF RInv, Follows, Following
  <2>2. Kept(l, u)'
    BY <2>1, KeptStays DEF Safe
  <2> QED
    BY <2>2
<1> QED
  BY <1>1, <1>2, <1>3, FollowsEnd

\* What is kept at the target is not the copy that is undone.
LEMMA UndoShrinks ==
    ASSUME RInv, op # Absent, pc = "undo", UndoLands
    PROVE  /\ OneUidEach'
           /\ \A l \in List : \A u \in Owned :
                 Safe(l, u) /\ RowOf(l, u) # Absent => HasNext(l, RowOf(l, u).href, u)
<1>1. op.dst \in List /\ op.href \in Href
  BY OwnPlace DEF RInv
<1>2. wire' = [wire EXCEPT ![op.dst][op.href] = Absent]
  BY DEF UndoLands
<1>3. OneUidEach'
  BY <1>1, <1>2, OneUidPut DEF RInv, Follows, IInv
<1>4. \A k \in List : \A g \in Href : k # op.dst \/ g # op.href => wire'[k][g] = wire[k][g]
  BY <1>1, <1>2 DEF RInv, IInv, TypeOK
<1>5. ASSUME NEW l \in List, NEW u \in Owned, Safe(l, u), RowOf(l, u) # Absent
      PROVE  HasNext(l, RowOf(l, u).href, u)
  <2>1. RowOf(l, u).href \in Href
    BY <1>5, OwnedType, RowHref DEF RInv
  <2>2. l = op.dst => RowOf(l, u).href # op.href
    BY <1>5 DEF Safe
  <2> QED
    BY <1>4, <1>5, <2>1, <2>2 DEF Safe, Kept, Has, HasNext
<1> QED
  BY <1>3, <1>5

LEMMA LostAnswerFollows == ASSUME RInv, LostAnswer PROVE Follows'
<1>1. op # Absent
  BY DEF LostAnswer, RInv, IInv, TypeOK
<1>2. \A l \in List : \A u \in Owned : Safe(l, u) /\ RowOf(l, u) # Absent =>
         Kept(l, u) /\ RowOf(l, u).href \in Href /\ Has(l, RowOf(l, u).href, u)
  BY OwnedType, RowHref DEF RInv, Safe, Kept
<1>3. CASE pc = "put" /\ ~Occupied(op.href, op.body) /\ PutLands /\ Raise
  <2>1. /\ OneUidEach'
        /\ \A l \in List : \A h \in Href : \A u \in Owned : Has(l, h, u) => HasNext(l, h, u)
    BY <1>1, <1>3, PutGrows
  <2> QED
    BY <1>1, <1>2, <1>3, <2>1, LandedFollows DEF Raise, Bystanders
<1>4. CASE pc = "adopt" /\ AdoptLands /\ PutLands /\ Raise
  <2>1. /\ OneUidEach'
        /\ \A l \in List : \A h \in Href : \A u \in Owned : Has(l, h, u) => HasNext(l, h, u)
    BY <1>1, <1>4, AdoptGrows
  <2> QED
    BY <1>1, <1>2, <1>4, <2>1, LandedFollows DEF Raise, Bystanders
<1>5. CASE pc = "undo" /\ UndoLands /\ Raise
  BY <1>1, <1>5, UndoShrinks, LandedFollows DEF Raise, Bystanders
<1>6. CASE /\ pc = "delete" /\ wire[op.src][op.href] = op.body
           /\ DeleteLands
           /\ pc' = IF IsTask THEN "asked" ELSE "idle"
           /\ op' = IF IsTask THEN op ELSE Absent
           /\ UNCHANGED <<cache, stranded>>
           /\ Bystanders
  <2>1. CASE IsTask
    BY <1>1, <1>6, <2>1, DeletedFollows DEF Bystanders
  <2>2. CASE ~IsTask
    <3>1. \A u \in Owned : u # op.uid
      BY <1>1, <2>2, OwnedMoves
    <3>2. /\ OneUidEach'
          /\ \A l \in List : \A u \in Owned :
                Kept(l, u) /\ RowOf(l, u) # Absent => HasNext(l, RowOf(l, u).href, u)
      BY <1>1, <1>6, <3>1, DeleteShrinks
    <3> QED
      BY <1>1, <1>2, <1>6, <2>2, <3>2, LandedFollows DEF Bystanders
  <2> QED
    BY <2>1, <2>2
<1> QED
  BY <1>3, <1>4, <1>5, <1>6 DEF LostAnswer

LEMMA UndoFollows == ASSUME RInv, Undo PROVE Follows'
<1>1. /\ pc = "undo" /\ op # Absent /\ op' = Absent
      /\ UNCHANGED <<event, pinned, stranded>> /\ Owned' = Owned
  BY DEF Undo, Bystanders, RInv, IInv, TypeOK, Owned
<1>2. op.dst \in List /\ op.href \in Href
  BY <1>1, OwnPlace DEF RInv
<1>3. /\ OneUidEach'
      /\ \A l \in List : \A u \in Owned :
            Safe(l, u) /\ RowOf(l, u) # Absent => HasNext(l, RowOf(l, u).href, u)
  <2>1. CASE UndoLands
    BY <1>1, <2>1, UndoShrinks
  <2>2. CASE wire' = wire
    BY <2>2 DEF RInv, Follows, OneUidEach, Safe, Kept, Has, HasNext
  <2> QED
    BY <2>1, <2>2 DEF Undo
<1>4. \A l \in List : \A u \in UID :
         /\ cache'[l].side[u] = cache[l].side[u]
         /\ \/ cache'[l].rows[u] = cache[l].rows[u]
            \/ /\ cache'[l].rows[u] = Absent
               /\ l = op.dst /\ RowOf(l, u) # Absent /\ RowOf(l, u).href = op.href
  <2> DEFINE d == DropRow(cache[op.dst], op.href)
  <2>1. GoodCache(cache[op.dst])
    BY <1>2, CachesType DEF RInv, IInv
  <2>2. /\ GoodCache(d) /\ d.side = cache[op.dst].side
        /\ \A u \in UID : \/ d.rows[u] = RowOf(op.dst, u)
                          \/ /\ d.rows[u] = Absent
                             /\ RowOf(op.dst, u) # Absent /\ RowOf(op.dst, u).href = op.href
    BY <1>2, <2>1, DropRowGood DEF UidsAt, Cached, RowOf
  <2> HIDE DEF d
  <2>3. CASE cache' = cache
    BY <2>3
  <2>4. CASE cache' = [cache EXCEPT ![op.dst] = d]
    BY <1>2, <2>2, <2>4, CacheStep DEF RInv, IInv, RowOf
  <2> QED
    BY <2>3, <2>4 DEF Undo, d
<1>5. Orphaned'
  BY <1>4 DEF RInv, Follows, Orphaned, RowOf
<1>6. ASSUME NEW u \in Owned
      PROVE  \E l \in List : Kept(l, u)'
  <2>1. PICK l \in List : Safe(l, u)
    BY <1>1, NotInFlight DEF RInv, Follows, Following
  <2>2. u \in UID
    BY OwnedType DEF RInv
  <2>3. cache'[l].rows[u] = cache[l].rows[u]
    BY <1>1, <1>4, <2>1, <2>2 DEF Safe
  <2>4. Kept(l, u)'
    BY <1>3, <1>4, <2>1, <2>2, <2>3, KeptStays, SMTT(30) DEF Safe
  <2> QED
    BY <2>4
<1> QED
  BY <1>1, <1>3, <1>5, <1>6, FollowsEnd

-----------------------------------------------------------------------------
(* The cache's half, and the refs.                                           *)

\* Apart in the next state of a move that goes on, from rows that are named.
LEMMA ApartNext ==
    ASSUME op' = op,
           \A x \in op.rest : RowOf(op.src, x)'.href # op.href,
           \A x \in op.rest : \A u \in (op.rest \cup {op.uid}) \ {x} :
              RowOf(op.dst, u)' # Absent => RowOf(op.dst, u)'.href # RowOf(op.src, x)'.href,
           pc' # "refs" => \A x \in op.rest :
              RowOf(op.dst, x)' # Absent => RowOf(op.dst, x)'.href # op.href,
           \A u \in op.keep : u \in op.rest \/ (u = op.uid /\ pc' # "refs")
              => cache'[op.dst].side[u] = "live",
           \A x \in op.rest : x \in Owned' /\ RowOf(op.dst, x)' # Absent =>
              \/ RowOf(op.dst, x)'.href = RowOf(op.src, x)'.href
              \/ HasNext(op.dst, RowOf(op.dst, x)'.href, x),
           op.uid \in Owned' /\ RowOf(op.dst, op.uid)' # Absent =>
              \/ RowOf(op.dst, op.uid)'.href = op.href
              \/ HasNext(op.dst, RowOf(op.dst, op.uid)'.href, op.uid)
    PROVE  Apart'
BY ZenonT(40) DEF Apart, RowOf, Has, HasNext

\* A change of the caches that leaves what the move relies on.
LEMMA ApartStays ==
    ASSUME RInv, op # Absent, op' = op, UNCHANGED <<wire, event>>,
           Owned' \subseteq Owned, pc' # "refs" => pc # "refs",
           \A x \in op.rest : cache'[op.src].rows[x] = cache[op.src].rows[x],
           \A u \in op.rest \cup {op.uid} : cache'[op.dst].rows[u] = cache[op.dst].rows[u],
           \A u \in op.keep : cache'[op.dst].side[u] = cache[op.dst].side[u]
    PROVE  Apart'
<1>1. ASSUME IsTask PROVE Apart'
  <2>1. Apart
    BY DEF RInv, Follows
  <2>2. \A x \in op.rest : RowOf(op.src, x)' = RowOf(op.src, x)
    BY DEF RowOf
  <2>3. \A u \in op.rest \cup {op.uid} : RowOf(op.dst, u)' = RowOf(op.dst, u)
    BY DEF RowOf
  <2>4. \A x \in op.rest : RowOf(op.src, x)'.href # op.href
    BY <1>1, <2>1, <2>2 DEF Apart
  <2>5. \A x \in op.rest : \A u \in (op.rest \cup {op.uid}) \ {x} :
           RowOf(op.dst, u)' # Absent => RowOf(op.dst, u)'.href # RowOf(op.src, x)'.href
    <3> SUFFICES ASSUME NEW x \in op.rest, NEW u \in (op.rest \cup {op.uid}) \ {x},
                        RowOf(op.dst, u) # Absent
                 PROVE  RowOf(op.dst, u).href # RowOf(op.src, x).href
      BY <2>2, <2>3
    <3> QED
      BY <1>1, <2>1 DEF Apart
  <2>6. pc' # "refs" => \A x \in op.rest :
           RowOf(op.dst, x)' # Absent => RowOf(op.dst, x)'.href # op.href
    BY <1>1, <2>1, <2>3 DEF Apart
  <2>7. \A u \in op.keep : u \in op.rest \/ (u = op.uid /\ pc' # "refs")
           => cache'[op.dst].side[u] = "live"
    BY <1>1, <2>1 DEF Apart
  <2>8. \A x \in op.rest : x \in Owned' /\ RowOf(op.dst, x)' # Absent =>
           \/ RowOf(op.dst, x)'.href = RowOf(op.src, x)'.href
           \/ HasNext(op.dst, RowOf(op.dst, x)'.href, x)
    <3> SUFFICES ASSUME NEW x \in op.rest, x \in Owned, RowOf(op.dst, x) # Absent
                 PROVE  \/ RowOf(op.dst, x).href = RowOf(op.src, x).href
                        \/ HasNext(op.dst, RowOf(op.dst, x).href, x)
      BY <2>2, <2>3
    <3> QED
      BY <1>1, <2>1 DEF Apart, Has, HasNext
  <2>9. op.uid \in Owned' /\ RowOf(op.dst, op.uid)' # Absent =>
           \/ RowOf(op.dst, op.uid)'.href = op.href
           \/ HasNext(op.dst, RowOf(op.dst, op.uid)'.href, op.uid)
    BY <1>1, <2>1, <2>3 DEF Apart, Has, HasNext
  <2> QED
    BY <2>4, <2>5, <2>6, <2>7, <2>8, <2>9, ApartNext
<1> QED
  BY <1>1 DEF Apart, IsTask

\* The row of what has moved goes, and its sidecar is an orphan until the refs follow.
LEMMA FinishCache ==
    ASSUME RInv, Finish
    PROVE  /\ pc = "finish" /\ op # Absent /\ pc' = "refresh"
           /\ op.src \in List /\ op.dst \in List /\ op.src # op.dst /\ op.uid \in UID
           /\ UNCHANGED <<wire, op, event, pinned, stranded>>
           /\ cache'[op.src].rows[op.uid] = Absent
           /\ cache'[op.src].side[op.uid]
                 = IF cache[op.src].side[op.uid] = "live" THEN "fresh" ELSE cache[op.src].side[op.uid]
           /\ \A l \in List : \A u \in UID : l # op.src \/ u # op.uid =>
                 /\ cache'[l].rows[u] = cache[l].rows[u]
                 /\ cache'[l].side[u] = cache[l].side[u]
<1> DEFINE c == cache[op.src]
           e == DropRow(c, op.href)
           d == OrphanMark(e, op.uid)
<1>1. /\ pc = "finish" /\ op # Absent
      /\ cache' = [cache EXCEPT ![op.src] = d] /\ pc' = "refresh"
      /\ UNCHANGED <<wire, op, event, pinned, stranded>>
  BY DEF Finish, Bystanders, RInv, IInv, TypeOK
<1>2. /\ op.src \in List /\ op.dst \in List /\ op.src # op.dst /\ op.href \in Href /\ op.uid \in UID
      /\ c.rows[op.uid] # Absent /\ c.rows[op.uid].href = op.href
      /\ \A u \in UID \ {op.uid} : c.rows[u] # Absent => c.rows[u].href # op.href
  BY <1>1, OwnPlace DEF RInv, RowOf
<1>3. GoodCache(c)
  BY <1>2, CachesType DEF RInv, IInv
<1> HIDE DEF c
<1>4. /\ GoodCache(e) /\ e.side = c.side
      /\ \A u \in UID : e.rows[u] = IF u \in UidsAt(c, op.href) THEN Absent ELSE c.rows[u]
  BY <1>2, <1>3, DropRowGood
<1>5. /\ e.rows[op.uid] = Absent
      /\ \A u \in UID \ {op.uid} : e.rows[u] = c.rows[u]
  BY <1>2, <1>4 DEF UidsAt, Cached
<1> HIDE DEF e
<1>6. GoodCache(d) /\ d.rows = e.rows
  BY <1>2, <1>4, OrphanMarkGood
<1>7. /\ d.side[op.uid] = IF c.side[op.uid] = "live" THEN "fresh" ELSE c.side[op.uid]
      /\ \A u \in UID \ {op.uid} : d.side[u] = c.side[u]
  BY <1>2, <1>4 DEF OrphanMark, GoodCache, Cache
<1> HIDE DEF d
<1>8. cache'[op.src] = d /\ \A l \in List \ {op.src} : cache'[l] = cache[l]
  BY <1>1, <1>2, <1>6, CacheStep DEF RInv, IInv
<1> QED
  BY <1>1, <1>2, <1>5, <1>6, <1>7, <1>8 DEF c

LEMMA FinishFollows == ASSUME RInv, Finish PROVE Follows'
<1>1. /\ pc = "finish" /\ op # Absent /\ pc' = "refresh"
      /\ op.src \in List /\ op.dst \in List /\ op.src # op.dst /\ op.uid \in UID
      /\ UNCHANGED <<wire, op, event, pinned, stranded>> /\ Owned' = Owned
  BY FinishCache DEF Owned
<1>2. \A l \in List : \A u \in UID : l # op.src \/ u # op.uid =>
         /\ cache'[l].rows[u] = cache[l].rows[u]
         /\ cache'[l].side[u] = cache[l].side[u]
  BY FinishCache
<1>3. OneUidEach' /\ OneKind' /\ CopyThere'
  BY <1>1 DEF RInv, Follows, OneUidEach, OneKind, CopyThere, IsTask
<1>4. Orphaned'
  <2>1. cache'[op.src].rows[op.uid] = Absent
    BY FinishCache
  <2> QED
    BY <1>2, <2>1 DEF RInv, Follows, Orphaned, RowOf
<1>5. Apart'
  <2>1. op.rest \subseteq UID \ {op.uid} /\ op.keep \subseteq UID
    BY <1>1 DEF RInv, IInv, Underway, TypeOK, Move, Cached
  <2> QED
    BY <1>1, <1>2, <2>1, ApartStays
<1>6. ASSUME NEW u \in Owned, InFlight(u)
      PROVE  InFlight(u)'
  <2>1. u = op.uid /\ cache[op.src].side[u] = "live"
    BY <1>1, <1>6 DEF InFlight
  <2>2. cache'[op.src].side[u] # "none"
    BY <2>1, FinishCache
  <2> QED
    BY <1>1, <1>2, <1>6, <2>1, <2>2 DEF InFlight, Has, RowOf
<1>7. ASSUME NEW u \in Owned, NEW l \in List, Safe(l, u)
      PROVE  Safe(l, u)'
  <2>1. l # op.src \/ u # op.uid
    BY <1>1, <1>7 DEF Safe
  <2>2. cache'[l].rows[u] = cache[l].rows[u] /\ cache'[l].side[u] = cache[l].side[u]
    BY <1>2, <2>1, OwnedType DEF RInv
  <2> QED
    BY <1>1, <1>7, <2>1, <2>2 DEF Safe, Kept, RowOf, Has
<1>8. Following'
  BY <1>1, <1>6, <1>7 DEF RInv, Follows, Following
<1> QED
  BY <1>3, <1>4, <1>5, <1>8 DEF Follows

\* What an upsert, and the deletion of an href, do to the rows and the sidecars.
LEMMA UpsertFacts ==
    ASSUME NEW c, GoodCache(c), NEW h \in Href, NEW b \in ItemBody, NEW u \in UID
    PROVE  LET d == Upsert(c, h, b) IN
           /\ u = b.uid => /\ d.rows[u] # Absent /\ d.rows[u].href = h
                           /\ d.side[u] = IF c.side[u] = "none" THEN "none" ELSE "live"
           /\ u # b.uid /\ u \in UidsAt(c, h) =>
                 /\ d.rows[u] = Absent
                 /\ d.side[u] = IF c.side[u] = "live" THEN "fresh" ELSE c.side[u]
           /\ u # b.uid /\ u \notin UidsAt(c, h) =>
                 d.rows[u] = c.rows[u] /\ d.side[u] = c.side[u]
<1> DEFINE e == Remove(c, UidsAt(c, h) \ {b.uid})
           d == Upsert(c, h, b)
<1>1. b.uid \in UID /\ [href |-> h, body |-> b] # Absent
  BY RowAssumption DEF ItemBody, Row
<1>2. /\ e.rows[u] = IF u \in UidsAt(c, h) /\ u # b.uid THEN Absent ELSE c.rows[u]
      /\ e.side[u] = IF u \in UidsAt(c, h) /\ u # b.uid /\ c.side[u] = "live"
                     THEN "fresh" ELSE c.side[u]
      /\ e \in Cache
  BY RemoveGood DEF Remove, GoodCache
<1>3. /\ d.rows[u] = IF u = b.uid THEN [href |-> h, body |-> b] ELSE e.rows[u]
      /\ d.side[u] = IF u = b.uid THEN (IF e.side[u] = "none" THEN "none" ELSE "live")
                     ELSE e.side[u]
  BY <1>1, <1>2 DEF Upsert, Cache
<1> HIDE DEF d, e
<1> QED
  BY <1>1, <1>2, <1>3 DEF d

LEMMA DropHrefFacts ==
    ASSUME NEW c, NEW h, NEW u \in UID
    PROVE  LET d == DropHref(c, h) IN
           /\ u \in UidsAt(c, h) =>
                 /\ d.rows[u] = Absent
                 /\ d.side[u] = IF c.side[u] = "live" THEN "fresh" ELSE c.side[u]
           /\ u \notin UidsAt(c, h) =>
                 d.rows[u] = c.rows[u] /\ d.side[u] = c.side[u]
BY DEF DropHref, Remove

\* The cache of list l catches up with href h.
Caught(l, h) ==
    \A k \in List : \A u \in UID :
        IF k = l /\ Has(l, h, u)
        THEN /\ cache'[l].rows[u] # Absent /\ cache'[l].rows[u].href = h
             /\ cache'[l].side[u] = IF cache[l].side[u] = "none" THEN "none" ELSE "live"
        ELSE IF k = l /\ RowOf(l, u) # Absent /\ RowOf(l, u).href = h
        THEN /\ cache'[l].rows[u] = Absent
             /\ cache'[l].side[u] = IF cache[l].side[u] = "live" THEN "fresh" ELSE cache[l].side[u]
        ELSE cache'[k].rows[u] = cache[k].rows[u] /\ cache'[k].side[u] = cache[k].side[u]

LEMMA CatchUpCatches ==
    ASSUME IInv, NEW l \in List, NEW h \in Href, cache' = [cache EXCEPT ![l] = CatchUp(l, h)]
    PROVE  Caught(l, h)
<1> DEFINE d == CatchUp(l, h)
           b == wire[l][h]
<1>1. GoodCache(cache[l]) /\ b \in ItemBody \cup {Absent}
  BY CachesType, WireBody DEF IInv
<1>2. GoodCache(d)
  BY <1>1, UpsertGood, DropHrefGood DEF CatchUp
<1>3. cache' = [cache EXCEPT ![l] = d]
  OBVIOUS
<1>4. ASSUME NEW u \in UID
      PROVE  IF Has(l, h, u)
             THEN /\ d.rows[u] # Absent /\ d.rows[u].href = h
                  /\ d.side[u] = IF cache[l].side[u] = "none" THEN "none" ELSE "live"
             ELSE IF RowOf(l, u) # Absent /\ RowOf(l, u).href = h
             THEN /\ d.rows[u] = Absent
                  /\ d.side[u] = IF cache[l].side[u] = "live" THEN "fresh" ELSE cache[l].side[u]
             ELSE d.rows[u] = cache[l].rows[u] /\ d.side[u] = cache[l].side[u]
  <2>1. u \in UidsAt(cache[l], h) <=> RowOf(l, u) # Absent /\ RowOf(l, u).href = h
    BY DEF UidsAt, Cached, RowOf
  <2>2. CASE b = Absent
    <3>1. d = DropHref(cache[l], h) /\ ~Has(l, h, u)
      BY <2>2 DEF CatchUp, Has
    <3> HIDE DEF d, b
    <3> QED
      BY <2>1, <3>1, DropHrefFacts
  <2>3. CASE b # Absent
    <3>1. d = Upsert(cache[l], h, b) /\ (Has(l, h, u) <=> u = b.uid) /\ b \in ItemBody
      BY <1>1, <2>3 DEF CatchUp, Has
    <3> HIDE DEF d, b
    <3> QED
      BY <1>1, <2>1, <3>1, UpsertFacts
  <2> QED
    BY <2>2, <2>3
<1> HIDE DEF d
<1>5. cache'[l] = d /\ \A k \in List \ {l} : cache'[k] = cache[k]
  BY <1>2, <1>3, CacheStep DEF IInv
<1> QED
  BY <1>4, <1>5 DEF Caught

\* What is kept is what is there.
LEMMA KeptCaught ==
    ASSUME IInv, NEW l \in List, NEW h \in Href, Caught(l, h), wire' = wire,
           NEW k \in List, NEW u \in UID, Kept(k, u)
    PROVE  Kept(k, u)'
<1>1. CASE k = l /\ Has(l, h, u)
  BY <1>1 DEF Caught, Kept, Has, RowOf
<1>2. CASE ~(k = l /\ Has(l, h, u))
  <2>1. ~(k = l /\ RowOf(l, u) # Absent /\ RowOf(l, u).href = h)
    BY <1>2 DEF Kept
  <2>2. cache'[k].rows[u] = cache[k].rows[u] /\ cache'[k].side[u] = cache[k].side[u]
    BY <1>2, <2>1 DEF Caught
  <2>3. RowOf(k, u) # Absent => HasNext(k, RowOf(k, u).href, u)
    BY DEF Kept, Has, HasNext
  <2> QED
    BY <2>2, <2>3, KeptStays
<1> QED
  BY <1>1, <1>2

LEMMA OrphanedCaught ==
    ASSUME RInv, NEW l \in List, NEW h \in Href, Caught(l, h)
    PROVE  Orphaned'
<1>1. ASSUME NEW k \in List, NEW u \in UID, cache'[k].side[u] \in {"fresh", "aged"}
      PROVE  cache'[k].rows[u] = Absent
  <2>1. CASE k = l /\ Has(l, h, u)
    BY <1>1, <2>1 DEF Caught
  <2>2. CASE ~(k = l /\ Has(l, h, u)) /\ k = l /\ RowOf(l, u) # Absent /\ RowOf(l, u).href = h
    BY <1>1, <2>2 DEF Caught
  <2>3. CASE ~(k = l /\ Has(l, h, u)) /\ ~(k = l /\ RowOf(l, u) # Absent /\ RowOf(l, u).href = h)
    <3>1. cache'[k].rows[u] = cache[k].rows[u] /\ cache'[k].side[u] = cache[k].side[u]
      BY <2>3 DEF Caught
    <3> QED
      BY <1>1, <3>1 DEF RInv, Follows, Orphaned, RowOf
  <2> QED
    BY <2>1, <2>2, <2>3
<1> QED
  BY <1>1 DEF Orphaned, RowOf

\* The copy takes the row of what was cached there, and nothing the move needs.
LEMMA RefreshApart ==
    ASSUME RInv, op # Absent, pc = "refresh", pc' = "refs", op' = op,
           UNCHANGED <<wire, event, pinned, stranded>>,
           IsTask, Caught(op.dst, op.href)
    PROVE  Apart'
<1>1. /\ op.src \in List /\ op.dst \in List /\ op.src # op.dst /\ op.href \in Href
      /\ op.uid \in UID /\ op.rest \subseteq UID
  BY OpType DEF RInv, IInv, Underway
<1>2. Apart
  BY DEF RInv, Follows
<1>3. \A x \in op.rest : RowOf(op.src, x)' = RowOf(op.src, x)
  BY <1>1 DEF Caught, RowOf
<1>4. \A u \in UID : \/ RowOf(op.dst, u)' = Absent
                     \/ RowOf(op.dst, u)' = RowOf(op.dst, u)
                     \/ RowOf(op.dst, u)'.href = op.href /\ Has(op.dst, op.href, u)
  BY <1>1 DEF Caught, RowOf
<1>5. \A x \in op.rest : RowOf(op.src, x).href # op.href
  BY <1>2 DEF Apart
<1>6. \A x \in op.rest : \A u \in (op.rest \cup {op.uid}) \ {x} :
         RowOf(op.dst, u)' # Absent => RowOf(op.dst, u)'.href # RowOf(op.src, x).href
  <2> SUFFICES ASSUME NEW x \in op.rest, NEW u \in (op.rest \cup {op.uid}) \ {x},
                      RowOf(op.dst, u)' # Absent
               PROVE  RowOf(op.dst, u)'.href # RowOf(op.src, x).href
    OBVIOUS
  <2>1. CASE RowOf(op.dst, u)' = RowOf(op.dst, u)
    BY <1>2, <2>1 DEF Apart
  <2>2. CASE RowOf(op.dst, u)'.href = op.href
    BY <1>5, <2>2
  <2> QED
    BY <1>1, <1>4, <2>1, <2>2
<1>7. \A u \in op.keep : u \in op.rest => cache'[op.dst].side[u] = "live"
  <2> SUFFICES ASSUME NEW u \in op.keep, u \in op.rest PROVE cache'[op.dst].side[u] = "live"
    OBVIOUS
  <2>1. cache[op.dst].side[u] = "live" /\ u \in UID
    BY <1>1, <1>2 DEF Apart
  <2>2. ~(RowOf(op.dst, u) # Absent /\ RowOf(op.dst, u).href = op.href)
    BY <1>2 DEF Apart
  <2> QED
    BY <1>1, <2>1, <2>2 DEF Caught
<1>8. \A x \in op.rest : x \in Owned /\ RowOf(op.dst, x)' # Absent =>
         \/ RowOf(op.dst, x)'.href = RowOf(op.src, x).href
         \/ HasNext(op.dst, RowOf(op.dst, x)'.href, x)
  <2> SUFFICES ASSUME NEW x \in op.rest, x \in Owned, RowOf(op.dst, x)' # Absent
               PROVE  \/ RowOf(op.dst, x)'.href = RowOf(op.src, x).href
                      \/ HasNext(op.dst, RowOf(op.dst, x)'.href, x)
    OBVIOUS
  <2>1. CASE RowOf(op.dst, x)' = RowOf(op.dst, x)
    BY <1>2, <2>1 DEF Apart, Has, HasNext
  <2>2. CASE RowOf(op.dst, x)'.href = op.href /\ Has(op.dst, op.href, x)
    BY <2>2 DEF Has, HasNext
  <2> QED
    BY <1>1, <1>4, <2>1, <2>2
<1>9. op.uid \in Owned /\ RowOf(op.dst, op.uid)' # Absent =>
         \/ RowOf(op.dst, op.uid)'.href = op.href
         \/ HasNext(op.dst, RowOf(op.dst, op.uid)'.href, op.uid)
  <2> SUFFICES ASSUME op.uid \in Owned, RowOf(op.dst, op.uid)' # Absent
               PROVE  \/ RowOf(op.dst, op.uid)'.href = op.href
                      \/ HasNext(op.dst, RowOf(op.dst, op.uid)'.href, op.uid)
    OBVIOUS
  <2>1. CASE RowOf(op.dst, op.uid)' = RowOf(op.dst, op.uid)
    BY <1>2, <2>1 DEF Apart, Has, HasNext
  <2> QED
    BY <1>1, <1>4, <2>1
<1>10. Owned' = Owned
  BY DEF Owned
<1>11. \A x \in op.rest : RowOf(op.src, x)'.href # op.href
  BY <1>3, <1>5
<1>12. \A x \in op.rest : \A u \in (op.rest \cup {op.uid}) \ {x} :
          RowOf(op.dst, u)' # Absent => RowOf(op.dst, u)'.href # RowOf(op.src, x)'.href
  BY <1>3, <1>6
<1>13. \A x \in op.rest : x \in Owned' /\ RowOf(op.dst, x)' # Absent =>
          \/ RowOf(op.dst, x)'.href = RowOf(op.src, x)'.href
          \/ HasNext(op.dst, RowOf(op.dst, x)'.href, x)
  BY <1>3, <1>8, <1>10
<1> QED
  BY <1>7, <1>9, <1>10, <1>11, <1>12, <1>13, ApartNext

LEMMA RefreshFollows == ASSUME RInv, Refresh PROVE Follows'
<1>1. /\ pc = "refresh" /\ op # Absent /\ op.src \in List /\ op.dst \in List /\ op.href \in Href
      /\ op.src # op.dst
  BY OpType DEF Refresh, RInv, IInv, TypeOK, Underway
<1>2. CASE /\ wire[op.dst][op.href] # Absent
           /\ cache' = [cache EXCEPT ![op.dst] = Upsert(@, op.href, wire[op.dst][op.href])]
           /\ pc' = "refs"
           /\ UNCHANGED <<wire, op, live, stranded, faults>>
           /\ Bystanders
  <2>1. /\ UNCHANGED <<wire, op, event, pinned, stranded>> /\ pc' = "refs"
        /\ Owned' = Owned
    BY <1>2 DEF Bystanders, Owned
  <2>2. cache' = [cache EXCEPT ![op.dst] = CatchUp(op.dst, op.href)]
    BY <1>2 DEF CatchUp
  <2>3. Caught(op.dst, op.href)
    BY <1>1, <2>2, CatchUpCatches DEF RInv
  <2>4. Orphaned'
    BY <1>1, <2>3, OrphanedCaught
  <2>5. OneUidEach' /\ OneKind' /\ CopyThere'
    BY <2>1 DEF RInv, Follows, OneUidEach, OneKind, CopyThere, IsTask
  <2>6. Apart'
    <3>1. CASE IsTask
      BY <1>1, <2>1, <2>3, <3>1, RefreshApart
    <3>2. CASE ~IsTask
      BY <2>1, <3>2 DEF Apart, IsTask
    <3> QED
      BY <3>1, <3>2
  <2>7. ASSUME NEW u \in Owned, InFlight(u)
        PROVE  InFlight(u)'
    <3>1. Has(op.dst, op.href, u) /\ u \in UID
      BY <2>7, OwnedType DEF InFlight, RInv
    <3>2. /\ cache'[op.src].side[u] = cache[op.src].side[u]
          /\ cache'[op.dst].rows[u].href = op.href
          /\ cache[op.dst].side[u] = "live" => cache'[op.dst].side[u] = "live"
      BY <1>1, <2>3, <3>1 DEF Caught
    <3> QED
      BY <1>1, <2>1, <2>7, <3>1, <3>2 DEF InFlight, Has, RowOf
  <2>8. ASSUME NEW u \in Owned, NEW l \in List, Safe(l, u)
        PROVE  Safe(l, u)'
    <3>1. Kept(l, u)'
      BY <1>1, <2>1, <2>3, <2>8, OwnedType, KeptCaught DEF RInv, Safe
    <3>2. ~(u = op.uid /\ l = op.src)
      BY <1>1, <2>8 DEF Safe
    <3> QED
      BY <1>1, <2>1, <2>8, <3>1, <3>2 DEF Safe
  <2>9. Following'
    BY <1>1, <2>1, <2>7, <2>8 DEF RInv, Follows, Following
  <2> QED
    BY <2>4, <2>5, <2>6, <2>9 DEF Follows
<1>3. CASE op' = [op EXCEPT !.failed = TRUE] /\ Goto("refs")
  BY <1>1, <1>3, FailRefreshFollows DEF Goto, Bystanders
<1>4. CASE Stop /\ ~IsTask
  BY <1>1, <1>4, StopFollows, SMTT(30) DEF Stop
<1> QED
  BY <1>2, <1>3, <1>4 DEF Refresh

\* Apart in the next state, from the parts of the move that is then under way.
LEMMA ApartBecomes ==
    ASSUME NEW s \in List, NEW d \in List, NEW R, NEW v, NEW h, NEW K,
           op'.src = s, op'.dst = d, op'.rest = R, op'.uid = v, op'.href = h, op'.keep = K,
           \A l \in List : cache'[l].rows = cache[l].rows,
           \A x \in R : RowOf(s, x).href # h,
           \A x \in R : \A u \in (R \cup {v}) \ {x} :
              RowOf(d, u) # Absent => RowOf(d, u).href # RowOf(s, x).href,
           \A x \in R : RowOf(d, x) # Absent => RowOf(d, x).href # h,
           \A u \in K : u \in R \/ u = v => cache'[d].side[u] = "live",
           \A x \in R : x \in Owned' /\ RowOf(d, x) # Absent =>
              RowOf(d, x).href = RowOf(s, x).href \/ HasNext(d, RowOf(d, x).href, x),
           v \in Owned' /\ RowOf(d, v) # Absent =>
              RowOf(d, v).href = h \/ HasNext(d, RowOf(d, v).href, v)
    PROVE  Apart'
<1>1. cache'[s].rows = cache[s].rows /\ cache'[d].rows = cache[d].rows
  OBVIOUS
<1> QED
  BY <1>1 DEF Apart, RowOf, Has, HasNext

\* A move turns to the next of its tasks: what was apart of all is apart of it.
LEMMA EngineApart ==
    ASSUME IInv, NEW o \in Move, o.rest \subseteq Cached(cache[o.src]) \ event, o.root \notin event,
           NEW v \in NextOf(o), op' = Engine(o, v), pc' = "get",
           UNCHANGED <<wire, event, pinned, stranded>>,
           \A l \in List : cache'[l].rows = cache[l].rows,
           \A u \in o.rest \cap o.keep : cache'[o.dst].side[u] = "live",
           \A x \in o.rest : \A u \in o.rest \ {x} :
              RowOf(o.dst, u) # Absent => RowOf(o.dst, u).href # RowOf(o.src, x).href,
           \A x \in o.rest \cap Owned : RowOf(o.dst, x) # Absent =>
              \/ RowOf(o.dst, x).href = RowOf(o.src, x).href
              \/ Has(o.dst, RowOf(o.dst, x).href, x)
    PROVE  /\ op' # Absent /\ op'.src = o.src /\ op'.dst = o.dst /\ op'.keep = o.keep
           /\ op'.uid = v /\ v \in o.rest /\ op'.rest = o.rest \ {v}
           /\ OneKind' /\ Apart' /\ CopyThere'
<1>1. /\ v \in o.rest /\ op' # Absent /\ op'.src = o.src /\ op'.dst = o.dst /\ op'.root = o.root
      /\ op'.uid = v /\ op'.rest = o.rest \ {v} /\ op'.href = RowOf(o.src, v).href
  BY EngineMove DEF IInv
<1>2. op'.keep = o.keep /\ o.src \in List /\ o.dst \in List
  BY DEF Engine, Move
<1>3. \A l \in List : \A u : RowOf(l, u)' = RowOf(l, u)
  BY DEF RowOf
<1>4. OneKind' /\ CopyThere'
  BY <1>1 DEF OneKind, CopyThere, IsTask
<1>5. \A x \in o.rest : x \in UID /\ RowOf(o.src, x) # Absent
  BY DEF Cached, RowOf
<1>6. \A x \in o.rest \ {v} : RowOf(o.src, x).href # RowOf(o.src, v).href
  BY <1>1, <1>2, <1>5, OneRow
<1>7. \A x \in o.rest \ {v} : \A u \in o.rest \ {x} :
         RowOf(o.dst, u) # Absent => RowOf(o.dst, u).href # RowOf(o.src, x).href
  OBVIOUS
<1>8. \A x \in o.rest \ {v} :
         RowOf(o.dst, x) # Absent => RowOf(o.dst, x).href # RowOf(o.src, v).href
  BY <1>1
<1>9. \A u \in o.keep : u \in o.rest => cache'[o.dst].side[u] = "live"
  OBVIOUS
<1>10. Owned' = Owned
  BY DEF Owned
<1>11. \A x \in o.rest : x \in Owned /\ RowOf(o.dst, x) # Absent =>
          \/ RowOf(o.dst, x).href = RowOf(o.src, x).href
          \/ HasNext(o.dst, RowOf(o.dst, x).href, x)
  BY DEF Has, HasNext
<1>12. Apart'
  <2> DEFINE s == o.src
             d == o.dst
             R == o.rest \ {v}
             h == RowOf(s, v).href
             K == o.keep
  <2>1. R \cup {v} = o.rest
    BY <1>1
  <2>2. \A x \in R : RowOf(s, x).href # h
    BY <1>6
  <2>3. \A x \in R : \A u \in (R \cup {v}) \ {x} :
           RowOf(d, u) # Absent => RowOf(d, u).href # RowOf(s, x).href
    BY <1>7, <2>1
  <2>4. \A x \in R : RowOf(d, x) # Absent => RowOf(d, x).href # h
    BY <1>8
  <2>5. \A u \in K : u \in R \/ u = v => cache'[d].side[u] = "live"
    BY <1>9, <2>1
  <2>6. \A x \in R : x \in Owned' /\ RowOf(d, x) # Absent =>
           \/ RowOf(d, x).href = RowOf(s, x).href
           \/ HasNext(d, RowOf(d, x).href, x)
    BY <1>10, <1>11
  <2>7. v \in Owned' /\ RowOf(d, v) # Absent =>
           \/ RowOf(d, v).href = h
           \/ HasNext(d, RowOf(d, v).href, v)
    BY <1>1, <1>10, <1>11
  <2>8. /\ s \in List /\ d \in List /\ op'.src = s /\ op'.dst = d
        /\ op'.rest = R /\ op'.uid = v /\ op'.href = h /\ op'.keep = K
    BY <1>1, <1>2
  <2> HIDE DEF s, d, R, h, K
  <2> QED
    BY <2>2, <2>3, <2>4, <2>5, <2>6, <2>7, <2>8, ApartBecomes
<1> QED
  BY <1>1, <1>2, <1>4, <1>12

\* The sidecar of what has moved goes over, onto what the target list kept of it.
LEMMA RefsSides ==
    ASSUME RInv, Refs
    PROVE  /\ pc = "refs" /\ op # Absent /\ op.src \in List /\ op.dst \in List /\ op.src # op.dst
           /\ op.uid \in UID /\ UNCHANGED <<wire, event, pinned, stranded>> /\ Owned' = Owned
           /\ \A l \in List : cache'[l].rows = cache[l].rows
           /\ \A l \in List : \A u \in UID : \/ cache'[l].side[u] = cache[l].side[u]
                                             \/ cache'[l].side[u] \in {"none", "live"}
           /\ \A l \in List : \A u \in UID : u # op.uid => cache'[l].side[u] = cache[l].side[u]
           /\ IsTask => /\ cache'[op.dst].side[op.uid]
                             = IF op.uid \in op.keep THEN cache[op.dst].side[op.uid]
                               ELSE IF cache[op.src].side[op.uid] = "none" THEN "none" ELSE "live"
                        /\ \A l \in List \ {op.src, op.dst} : cache'[l] = cache[l]
<1>1. /\ pc = "refs" /\ op # Absent /\ op.src \in List /\ op.dst \in List /\ op.src # op.dst
      /\ op.uid \in UID /\ UNCHANGED <<wire, event, pinned, stranded>> /\ Owned' = Owned
  BY OpType DEF Refs, Bystanders, RInv, IInv, TypeOK, Underway, Owned
<1>2. \A l \in List : cache'[l].rows = cache[l].rows
  BY <1>1, RefsCache DEF Refs, RInv
<1>3. cache \in [List -> Cache]
  BY DEF RInv, IInv, TypeOK
<1>4. CASE IsTask
  <2> DEFINE u == op.uid
             m == IF u \in op.keep THEN cache[op.dst].side[u]
                  ELSE IF cache[op.src].side[u] = "none" THEN "none" ELSE "live"
             a == [cache[op.src] EXCEPT !.side[u] = "none"]
             b == [cache[op.dst] EXCEPT !.side[u] = m]
  <2>1. cache' = [cache EXCEPT ![op.src] = a, ![op.dst] = b]
    BY <1>1, <1>3, <1>4 DEF MoveTaskRefs, Refs
  <2> HIDE DEF m
  <2>2. /\ a.side[u] = "none" /\ b.side[u] = m
        /\ \A v \in UID \ {u} : /\ a.side[v] = cache[op.src].side[v]
                                /\ b.side[v] = cache[op.dst].side[v]
    BY <1>1, <1>3 DEF Cache
  <2> HIDE DEF a, b
  <2>3. cache'[op.src] = a /\ cache'[op.dst] = b
        /\ \A l \in List \ {op.src, op.dst} : cache'[l] = cache[l]
    BY <1>1, <1>3, <2>1
  <2> QED
    BY <1>1, <1>2, <2>2, <2>3 DEF m
<1>5. CASE ~IsTask
  <2> DEFINE c == cache[op.dst]
             d == SetSidecar(c, op.uid)
  <2>1. \A u \in UID : /\ d.side[u] = c.side[u] \/ d.side[u] = "live"
                       /\ u # op.uid => d.side[u] = c.side[u]
    BY <1>1, <1>3 DEF SetSidecar, Cache
  <2>2. cache' = [cache EXCEPT ![op.dst] = d] \/ cache' = cache
    BY <1>5 DEF CarryReminder, Refs
  <2> HIDE DEF d
  <2>3. \A l \in List : cache'[l] = cache[l] \/ (l = op.dst /\ cache'[l] = d)
    BY <1>1, <1>3, <2>2
  <2> QED
    BY <1>1, <1>2, <1>5, <2>1, <2>3
<1> QED
  BY <1>4, <1>5

\* Once the refs have followed, what was on its way has arrived.
LEMMA RefsKeep ==
    ASSUME RInv, Refs, NEW u \in Owned
    PROVE  \E l \in List : /\ Kept(l, u)'
                           /\ u \in op.rest /\ l = op.dst => u \in op.keep
<1>1. /\ pc = "refs" /\ op # Absent /\ op.src \in List /\ op.dst \in List /\ op.src # op.dst
      /\ u \in UID /\ wire' = wire
  BY RefsSides, OwnedType DEF RInv
<1>2. \A l \in List : /\ cache'[l].rows = cache[l].rows
                      /\ u # op.uid => cache'[l].side[u] = cache[l].side[u]
  BY <1>1, RefsSides
<1>3. ASSUME NEW d \in List, d = op.dst, InFlight(u)
      PROVE  Kept(d, u)' /\ u \notin op.rest
  <2>1. u = op.uid /\ IsTask
    BY <1>1, <1>3, NotInFlight
  <2>2. /\ cache[op.src].side[u] # "none" /\ Has(op.dst, op.href, u)
        /\ RowOf(op.dst, u) # Absent => RowOf(op.dst, u).href = op.href
        /\ u \in op.keep => cache[op.dst].side[u] = "live"
    BY <1>1, <1>3 DEF InFlight
  <2>3. cache'[d].side[u] = "live" /\ cache'[d].rows[u] = RowOf(d, u)
    BY <1>2, <1>3, <2>1, <2>2, RefsSides DEF RowOf
  <2>4. u \notin op.rest
    BY <1>1, <2>1 DEF RInv, IInv, Underway
  <2>5. RowOf(d, u) # Absent => HasNext(d, RowOf(d, u).href, u)
    BY <1>1, <1>3, <2>2 DEF Has, HasNext
  <2> QED
    BY <2>3, <2>4, <2>5 DEF Kept, HasNext, Has, RowOf
<1>4. ASSUME NEW l \in List, Safe(l, u)
      PROVE  Kept(l, u)' /\ (u \in op.rest /\ l = op.dst => u \in op.keep)
  <2>1. /\ Kept(l, u) /\ (u \in op.rest \cup {op.uid} /\ l = op.dst => u \in op.keep)
        /\ ~(u = op.uid /\ l = op.src)
    BY <1>1, <1>4 DEF Safe
  <2>2. RowOf(l, u) # Absent => HasNext(l, RowOf(l, u).href, u)
    BY <1>1, <2>1 DEF Kept, Has, HasNext
  <2>3. cache'[l].side[u] = cache[l].side[u]
    <3>1. CASE u = op.uid
      <4>1. IsTask
        BY <1>1, <3>1, OwnedMoves
      <4> QED
        BY <2>1, <3>1, <4>1, RefsSides
    <3> QED
      BY <1>2, <3>1
  <2> QED
    BY <1>2, <2>1, <2>2, <2>3, KeptStays
<1> QED
  BY <1>1, <1>3, <1>4 DEF RInv, Follows, Following

LEMMA RefsFollows == ASSUME RInv, Refs PROVE Follows'
<1>1. /\ pc = "refs" /\ op # Absent /\ op.src \in List /\ op.dst \in List /\ op.src # op.dst
      /\ op.uid \in UID /\ UNCHANGED <<wire, event, pinned, stranded>> /\ Owned' = Owned
      /\ \A l \in List : cache'[l].rows = cache[l].rows
  BY RefsSides
<1>2. OneUidEach'
  BY <1>1 DEF RInv, Follows, OneUidEach
<1>3. Orphaned'
  <2>1. \A l \in List : \A u \in UID : \/ cache'[l].side[u] = cache[l].side[u]
                                       \/ cache'[l].side[u] \in {"none", "live"}
    BY RefsSides
  <2> QED
    BY <1>1, <2>1 DEF RInv, Follows, Orphaned, RowOf
<1>4. CASE op' = Absent
  BY <1>1, <1>2, <1>3, <1>4, RefsKeep, FollowsEnd
<1>5. CASE op.rest # {} /\ (\E v \in NextOf(op) : op' = Engine(op, v)) /\ pc' = "get"
  <2>1. PICK v \in NextOf(op) : op' = Engine(op, v)
    BY <1>5
  <2>2. /\ op \in Move /\ IsTask /\ op.rest \cap event = {} /\ op.uid \notin op.rest
        /\ op.rest \subseteq Cached(cache[op.src])
    BY <1>1, <1>5, OpType DEF RInv, IInv, Underway, Follows, OneKind
  <2>3. Apart
    BY DEF RInv, Follows
  <2>4. \A u \in op.rest \cap op.keep : cache'[op.dst].side[u] = "live"
    <3> SUFFICES ASSUME NEW u \in op.rest \cap op.keep PROVE cache'[op.dst].side[u] = "live"
      OBVIOUS
    <3>1. u \in UID /\ u # op.uid
      BY <2>2 DEF Cached
    <3>2. cache[op.dst].side[u] = "live"
      BY <1>1, <2>2, <2>3 DEF Apart
    <3> QED
      BY <1>1, <3>1, <3>2, RefsSides
  <2>5. /\ \A x \in op.rest : \A u \in op.rest \ {x} :
              RowOf(op.dst, u) # Absent => RowOf(op.dst, u).href # RowOf(op.src, x).href
        /\ \A x \in op.rest \cap Owned : RowOf(op.dst, x) # Absent =>
              \/ RowOf(op.dst, x).href = RowOf(op.src, x).href
              \/ Has(op.dst, RowOf(op.dst, x).href, x)
    BY <1>1, <2>2, <2>3 DEF Apart
  <2>6. op.root \notin event
    BY <2>2 DEF IsTask
  <2>7. /\ op' # Absent /\ op'.src = op.src /\ op'.dst = op.dst /\ op'.keep = op.keep
        /\ op'.uid = v /\ v \in op.rest /\ op'.rest = op.rest \ {v}
        /\ OneKind' /\ Apart' /\ CopyThere'
    BY <1>1, <1>5, <2>1, <2>2, <2>4, <2>5, <2>6, EngineApart DEF RInv
  <2>8. ASSUME NEW u \in Owned, NEW l \in List, Kept(l, u)',
               u \in op.rest /\ l = op.dst => u \in op.keep
        PROVE  Safe(l, u)'
    BY <1>5, <2>7, <2>8 DEF Safe
  <2>9. Following'
    BY <1>1, <2>7, <2>8, RefsKeep DEF Following
  <2> QED
    BY <1>2, <1>3, <2>7, <2>9 DEF Follows
<1>6. op.rest = {} => op' = Absent
  BY DEF Refs
<1> QED
  BY <1>4, <1>5, <1>6 DEF Refs

-----------------------------------------------------------------------------
(* A move that starts.                                                       *)

\* No task below another is an event.
LEMMA SubtreeTasks ==
    ASSUME NEW l \in List, NEW u \in Cached(cache[l]) \ event
    PROVE  Subtree(l, u) \subseteq Cached(cache[l]) \ event
<1> DEFINE C == Cached(cache[l]) \ event
<1>1. C \in SUBSET UID
  BY DEF Cached
<1>2. \A w \in C : Kids(l, w) \subseteq C
  BY DEF Kids
<1> QED
  BY <1>1, <1>2 DEF Subtree

\* What is kept when a move starts is safe in it.
LEMMA StartKeeps ==
    ASSUME RInv, op = Absent, UNCHANGED <<wire, cache, event, pinned, stranded>>,
           op' # Absent, pc' = "get",
           \A u \in Owned : u \in op'.rest \cup {op'.uid} /\ cache[op'.dst].side[u] = "live"
              => u \in op'.keep
    PROVE  OneUidEach' /\ Orphaned' /\ Following'
<1>1. OneUidEach' /\ Orphaned' /\ Owned' = Owned
  BY DEF RInv, Follows, OneUidEach, Orphaned, RowOf, Owned
<1>2. ASSUME NEW u \in Owned
      PROVE  \E l \in List : Safe(l, u)'
  <2>1. PICK l \in List : Kept(l, u)
    BY DEF RInv, Follows, Following
  <2>2. Kept(l, u)' /\ cache[l].side[u] = "live"
    BY <2>1 DEF Kept, RowOf, Has
  <2>3. u \in op'.rest \cup {op'.uid} /\ l = op'.dst => u \in op'.keep
    BY <2>2
  <2>4. Safe(l, u)'
    BY <2>2, <2>3 DEF Safe
  <2> QED
    BY <2>4
<1> QED
  BY <1>1, <1>2 DEF Following

LEMMA StartTaskMoveFollows ==
    ASSUME RInv, NEW s \in List, NEW d \in List, NEW u \in UID, StartTaskMove(s, d, u)
    PROVE  Follows'
<1> DEFINE tree == Subtree(s, u)
           unparent == HasParent(RowOf(s, u).body)
           keep == {v \in tree : cache[d].side[v] = "live"}
           o == [NewMove(s, d, u) EXCEPT
                    !.rest = tree, !.unparent = unparent, !.keep = keep]
<1>1. s # d /\ u \in Cached(cache[s]) \ event /\ op = Absent
  BY DEF StartTaskMove, RInv, IInv, TypeOK
<1>2. tree \subseteq Cached(cache[s]) \ event /\ tree \subseteq UID
  BY <1>1, SubtreeTasks DEF Cached
<1>3. PICK v \in NextOf(o) : Start(Engine(o, v))
  BY DEF StartTaskMove
<1>4. \A x \in tree : CopiedAlready(s, d, x, x = u /\ unparent)
  BY DEF StartTaskMove
<1>5. unparent \in BOOLEAN /\ keep \subseteq UID
  BY <1>2 DEF HasParent
<1>6. \A x \in tree : x \in keep <=> cache[d].side[x] = "live"
  OBVIOUS
<1>7. \A x \in tree : RowOf(d, x) # Absent => RowOf(d, x).href = RowOf(s, x).href
  BY <1>4 DEF CopiedAlready
<1> HIDE DEF unparent, tree, keep
<1>8. /\ NewMove(s, d, u) \in Move /\ NewMove(s, d, u).src = s /\ NewMove(s, d, u).dst = d
      /\ NewMove(s, d, u).root = u
  BY <1>1, NewMoveType DEF RInv, IInv
<1>9. o \in Move /\ o.src = s /\ o.dst = d /\ o.rest = tree /\ o.keep = keep /\ o.root = u
  BY <1>2, <1>5, <1>8 DEF Move
<1> HIDE DEF o
<1>10. op' = Engine(o, v) /\ pc' = "get" /\ UNCHANGED <<wire, cache, event, pinned, stranded>>
  BY <1>3 DEF Start, Bystanders
<1>11. \A x \in tree : \A w \in tree \ {x} : RowOf(d, w) # Absent => RowOf(d, w).href # RowOf(s, x).href
  <2> SUFFICES ASSUME NEW x \in tree, NEW w \in tree \ {x}, RowOf(d, w) # Absent,
                      RowOf(d, w).href = RowOf(s, x).href
               PROVE  FALSE
    OBVIOUS
  <2>1. RowOf(s, w).href = RowOf(s, x).href /\ w # x
    BY <1>7
  <2>2. RowOf(s, w) # Absent /\ RowOf(s, x) # Absent /\ w \in UID /\ x \in UID
    BY <1>2 DEF Cached, RowOf
  <2> QED
    BY <2>1, <2>2, OneRow DEF RInv
<1>12. /\ op' # Absent /\ op'.dst = d /\ op'.keep = keep
       /\ op'.uid = v /\ v \in tree /\ op'.rest = tree \ {v}
       /\ OneKind' /\ Apart' /\ CopyThere'
  BY <1>1, <1>2, <1>3, <1>6, <1>7, <1>9, <1>10, <1>11, EngineApart DEF RInv
<1>13. OneUidEach' /\ Orphaned' /\ Following'
  BY <1>1, <1>6, <1>10, <1>12, StartKeeps
<1> QED
  BY <1>12, <1>13 DEF Follows

LEMMA StartEventMoveFollows ==
    ASSUME RInv, NEW s \in List, NEW d \in List, NEW u \in UID, StartEventMove(s, d, u)
    PROVE  Follows'
<1> DEFINE keep == IF cache[s].side[u] = "none" THEN {} ELSE {u}
           o == [NewMove(s, d, u) EXCEPT !.keep = keep]
<1>1. s # d /\ u \in Cached(cache[s]) \cap event /\ op = Absent /\ Start(Engine(o, u))
  BY DEF StartEventMove, RInv, IInv, TypeOK
<1>2. keep \in SUBSET UID
  OBVIOUS
<1> HIDE DEF keep
<1>3. o \in Move /\ o.src = s /\ o.dst = d /\ o.rest = {u} /\ o.root = u
  BY <1>1, <1>2, NewMoveType DEF RInv, IInv, Move
<1> HIDE DEF o
<1>4. u \in NextOf(o)
  BY <1>3 DEF NextOf
<1>5. op' = Engine(o, u) /\ pc' = "get" /\ UNCHANGED <<wire, cache, event, pinned, stranded>>
  BY <1>1 DEF Start, Bystanders
<1>6. op' # Absent /\ op'.root = u /\ op'.uid = u /\ op'.rest = {}
  BY <1>1, <1>3, <1>4, <1>5, EngineMove DEF RInv, IInv
<1>7. OneKind' /\ Apart' /\ CopyThere'
  BY <1>1, <1>5, <1>6 DEF OneKind, Apart, CopyThere, IsTask
<1>8. OneUidEach' /\ Orphaned' /\ Following'
  BY <1>1, <1>5, <1>6, StartKeeps, OwnedType DEF RInv
<1> QED
  BY <1>7, <1>8 DEF Follows

-----------------------------------------------------------------------------
(* Other clients, the sync passes, and the owner.                            *)

\* The UID another client removes is no longer the owner's.
LEMMA ForeignGrows ==
    ASSUME RInv, NEW l \in List, NEW h \in Href, NEW new \in ItemBody \cup {Absent},
           ForeignWrite(l, h, new)
    PROVE  /\ OneUidEach' /\ Owned' \subseteq Owned
           /\ \A k \in List : \A g \in Href : \A u \in Owned' : Has(k, g, u) => HasNext(k, g, u)
           /\ UNCHANGED <<cache, event, pc, op, stranded>>
<1>1. /\ wire' = [wire EXCEPT ![l][h] = new] /\ (new # Absent => UidFree(l, h, new.uid))
      /\ pinned' = IF wire[l][h] = Absent \/ (new # Absent /\ new.uid = wire[l][h].uid)
                   THEN pinned ELSE pinned \ {wire[l][h].uid}
      /\ UNCHANGED <<cache, event, pc, op, stranded>>
  BY DEF ForeignWrite
<1>2. OneUidEach'
  BY <1>1, OneUidPut DEF RInv, Follows, IInv
<1>3. Owned' \subseteq Owned
  BY <1>1 DEF Owned
<1>4. /\ wire'[l][h] = new
      /\ \A k \in List : \A g \in Href : k # l \/ g # h => wire'[k][g] = wire[k][g]
  BY <1>1 DEF RInv, IInv, TypeOK
<1>5. ASSUME NEW k \in List, NEW g \in Href, NEW u \in Owned', Has(k, g, u)
      PROVE  HasNext(k, g, u)
  <2>1. CASE k = l /\ g = h
    <3>1. wire[l][h] # Absent /\ wire[l][h].uid = u /\ u \in pinned'
      BY <1>5, <2>1 DEF Has, Owned
    <3>2. new # Absent /\ new.uid = u
      BY <1>1, <3>1
    <3> QED
      BY <1>4, <2>1, <3>2 DEF HasNext
  <2>2. CASE k # l \/ g # h
    BY <1>4, <1>5, <2>2 DEF Has, HasNext
  <2> QED
    BY <2>1, <2>2
<1> QED
  BY <1>1, <1>2, <1>3, <1>5

LEMMA ForeignWriteFollows ==
    ASSUME RInv, NEW l \in List, NEW h \in Href, NEW new \in ItemBody \cup {Absent},
           ForeignWrite(l, h, new)
    PROVE  Follows'
<1>1. /\ OneUidEach' /\ Owned' \subseteq Owned
      /\ \A k \in List : \A g \in Href : \A u \in Owned' : Has(k, g, u) => HasNext(k, g, u)
      /\ UNCHANGED <<cache, event, pc, op, stranded>>
  BY ForeignGrows
<1>2. ASSUME NEW k \in List, NEW u \in Owned', Kept(k, u)
      PROVE  Kept(k, u)' /\ (RowOf(k, u) # Absent => HasNext(k, RowOf(k, u).href, u))
  BY <1>1, <1>2, KeptGrows
<1>3. CASE op = Absent
  <2>1. Orphaned'
    BY <1>1 DEF RInv, Follows, Orphaned, RowOf
  <2>2. \A u \in Owned' : \E k \in List : Kept(k, u)'
    BY <1>1, <1>2, <1>3 DEF RInv, Follows, Following
  <2> QED
    BY <1>1, <1>3, <2>1, <2>2, FollowsEnd
<1>4. CASE op # Absent
  <2>1. SameMove /\ op.dst \in List /\ op.href \in Href
    BY <1>1, <1>4, OpType DEF SameMove, RInv, IInv
  <2>2. CopyThere'
    BY <1>1, <1>4, <2>1 DEF RInv, Follows, CopyThere, Has, HasNext, IsTask
  <2>3. pc' = "adopt" => op'.copy # Absent /\ op'.copy.uid = op.uid
    BY <1>1, <1>4 DEF RInv, Follows, OneKind
  <2>4. ASSUME NEW u \in Owned', InFlight(u)
        PROVE  InFlight(u)'
    BY <1>1, <2>1, <2>4 DEF InFlight, Has, HasNext, RowOf
  <2>5. ASSUME NEW u \in Owned', NEW k \in List, Safe(k, u)
        PROVE  Safe(k, u)'
    <3>1. Kept(k, u)' /\ RowOf(k, u)' = RowOf(k, u)
      BY <1>1, <1>2, <2>5 DEF Safe, RowOf
    <3> QED
      BY <1>1, <2>5, <3>1 DEF Safe, IsTask
  <2> QED
    BY <1>1, <1>4, <2>1, <2>2, <2>3, <2>4, <2>5, FollowsOn
<1> QED
  BY <1>3, <1>4

LEMMA SyncFollows ==
    ASSUME RInv, NEW l \in List, NEW h \in Href, Sync(l, h)
    PROVE  Follows'
<1>1. /\ op = Absent /\ op' = Absent /\ UNCHANGED <<wire, event, pinned, stranded>>
      /\ Caught(l, h)
  BY CatchUpCatches DEF Sync, RInv, IInv, TypeOK
<1>2. OneUidEach' /\ Owned' = Owned
  BY <1>1 DEF RInv, Follows, OneUidEach, Owned
<1>3. ASSUME NEW u \in Owned
      PROVE  \E k \in List : Kept(k, u)'
  <2>1. PICK k \in List : Kept(k, u)
    BY <1>1 DEF RInv, Follows, Following
  <2>2. Kept(k, u)'
    BY <1>1, <2>1, OwnedType, KeptCaught DEF RInv
  <2> QED
    BY <2>2
<1> QED
  BY <1>1, <1>2, <1>3, OrphanedCaught, FollowsEnd

LEMMA MarkSidecarFollows ==
    ASSUME RInv, NEW l \in List, NEW u \in UID, MarkSidecar(l, u)
    PROVE  Follows'
<1> DEFINE d == SetSidecar(cache[l], u)
           there == wire[l][RowOf(l, u).href]
<1>1. /\ op = Absent /\ op' = Absent /\ UNCHANGED <<wire, event>>
      /\ cache' = [cache EXCEPT ![l] = d] /\ RowOf(l, u) # Absent
      /\ IF there # Absent /\ there.uid = u
         THEN pinned' = pinned \cup {u} /\ stranded' = stranded \ {u}
         ELSE UNCHANGED <<pinned, stranded>>
  BY DEF MarkSidecar, RInv, IInv, TypeOK, Cached, RowOf
<1>2. GoodCache(cache[l]) /\ GoodCache(d) /\ d.rows = cache[l].rows
  BY CachesType, SetSidecarGood DEF RInv, IInv
<1>3. /\ \A v \in UID : d.side[v] = cache[l].side[v] \/ d.side[v] = "live"
      /\ cache[l].side[u] = "none" => d.side[u] = "live"
  BY <1>1, <1>2 DEF SetSidecar, GoodCache, Cache, RowOf
<1> HIDE DEF d
<1>4. cache'[l] = d /\ \A k \in List \ {l} : cache'[k] = cache[k]
  BY <1>1, <1>2, CacheStep DEF RInv, IInv
<1>5. \A k \in List : /\ cache'[k].rows = cache[k].rows
                      /\ \A v \in UID : \/ cache'[k].side[v] = cache[k].side[v]
                                        \/ cache'[k].side[v] = "live"
  BY <1>2, <1>3, <1>4
<1>6. OneUidEach' /\ Orphaned'
  BY <1>1, <1>5 DEF RInv, Follows, OneUidEach, Orphaned, RowOf
<1>7. ASSUME NEW v \in Owned', v \in Owned
      PROVE  \E k \in List : Kept(k, v)'
  <2>1. PICK k \in List : Kept(k, v)
    BY <1>1, <1>7 DEF RInv, Follows, Following
  <2>2. v \in UID
    BY <1>7, OwnedType DEF RInv
  <2>3. cache'[k].side[v] = "live" /\ cache'[k].rows[v] = cache[k].rows[v]
    BY <1>5, <2>1, <2>2, SMTT(30) DEF Kept
  <2>4. Kept(k, v)'
    BY <1>1, <2>1, <2>3 DEF Kept, RowOf, Has
  <2> QED
    BY <2>4
<1>8. ASSUME u \in Owned', u \notin Owned
      PROVE  Kept(l, u)'
  <2>1. Has(l, RowOf(l, u).href, u)
    BY <1>1, <1>8 DEF Owned, Has
  <2>2. cache[l].side[u] \in {"none", "live"}
    BY <1>1, <1>2 DEF RInv, Follows, Orphaned, GoodCache, Cache, Mark
  <2>3. cache'[l].side[u] = "live"
    BY <1>3, <1>4, <2>2
  <2> QED
    BY <1>1, <1>5, <2>1, <2>3 DEF Kept, RowOf, Has
<1>9. \A v \in Owned' : v \in Owned \/ v = u
  BY <1>1 DEF Owned
<1> QED
  BY <1>1, <1>6, <1>7, <1>8, <1>9, FollowsEnd

\* To begin with nothing is the owner's, and a resource has the file name of its UID.
LEMMA InitFollows == Init => Follows
<1> SUFFICES ASSUME Init PROVE Follows
  OBVIOUS
<1> DEFINE l == CHOOSE k \in List : TRUE
<1>1. PICK held \in SUBSET UID, ver \in [UID -> Version] :
        LET b(u) == [uid |-> u, kind |-> "item", ver |-> ver[u]] IN
        /\ wire = [k \in List |-> [h \in Href |->
               IF k = l /\ \E u \in held : Home[u] = h
               THEN b(CHOOSE u \in held : Home[u] = h) ELSE Absent]]
        /\ cache = [k \in List |->
               [EmptyCache EXCEPT !.rows = [u \in UID |->
                   IF k = l /\ u \in held THEN [href |-> Home[u], body |-> b(u)] ELSE Absent]]]
  BY DEF Init
<1>2. op = Absent /\ pinned = {}
  BY DEF Init
<1>3. \A k \in List : cache[k].side = EmptyCache.side
  BY <1>1 DEF EmptyCache
<1>4. Orphaned
  BY <1>3 DEF Orphaned, EmptyCache
<1>5. ASSUME NEW k \in List, NEW h \in Href, wire[k][h] # Absent
      PROVE  wire[k][h].uid \in UID /\ Home[wire[k][h].uid] = h
  <2> DEFINE w == CHOOSE u \in held : Home[u] = h
  <2>1. \E u \in held : Home[u] = h
    BY <1>1, <1>5
  <2>2. w \in UID /\ Home[w] = h
    BY <2>1
  <2>3. wire[k][h].uid = w
    BY <1>1, <1>5
  <2> QED
    BY <2>2, <2>3
<1>6. OneUidEach
  <2> SUFFICES ASSUME NEW k \in List, NEW g \in Href, NEW h \in Href,
                      wire[k][g] # Absent, wire[k][h] # Absent, wire[k][g].uid = wire[k][h].uid
               PROVE  g = h
    BY DEF OneUidEach
  <2> QED
    BY <1>5
<1> QED
  BY <1>2, <1>4, <1>6 DEF Follows, OneKind, Apart, CopyThere, Following, Owned

-----------------------------------------------------------------------------

LEMMA StepFollows == ASSUME RInv, Step PROVE Follows'
BY GetFollows, FindCopyFollows, PutFollows, OwnCopyFollows, FindMovedCopyFollows,
   AdoptMovedCopyFollows, DeleteFollows, AskGoneFollows, UndoFollows, FinishFollows,
   RefreshFollows, RefsFollows
   DEF Step

\* Whatever moves, other clients, sync passes, lost answers and crashes do.
LEMMA FollowsStep == ASSUME RInv, [Next]_vars PROVE Follows'
<1>1. ASSUME NEW s \in List, NEW d \in List, NEW u \in UID, StartMove(s, d, u)
      PROVE  Follows'
  BY <1>1, StartTaskMoveFollows, StartEventMoveFollows DEF StartMove
<1>2. CASE Step
  BY <1>2, StepFollows
<1>3. CASE Unanswered \/ LostAnswer \/ LostQuestion \/ Crash
  BY <1>3, UnansweredFollows, LostAnswerFollows, LostQuestionFollows, CrashFollows
<1>4. ASSUME NEW l \in List, NEW h \in Href, NEW b \in ItemBody \cup {Absent},
             ForeignWrite(l, h, b)
      PROVE  Follows'
  BY <1>4, ForeignWriteFollows
<1>5. ASSUME NEW l \in List, NEW h \in Href, Sync(l, h)
      PROVE  Follows'
  BY <1>5, SyncFollows
<1>6. ASSUME NEW l \in List, NEW u \in UID, MarkSidecar(l, u)
      PROVE  Follows'
  BY <1>6, MarkSidecarFollows
<1>7. CASE UNCHANGED vars
  <2>1. UNCHANGED <<wire, cache, event, pc, op, pinned, stranded>>
    BY <1>7 DEF vars
  <2>2. OneUidEach' /\ Orphaned' /\ OneKind'
    BY <2>1 DEF RInv, Follows, OneUidEach, Orphaned, OneKind, RowOf, IsTask
  <2>3. CopyThere'
    BY <2>1 DEF RInv, Follows, CopyThere, Owned, Has, IsTask
  <2>4. Apart'
    <3>1. CASE op = Absent
      BY <2>1, <3>1 DEF Apart
    <3>2. CASE op # Absent
      <4>1. Owned' \subseteq Owned
        BY <2>1 DEF Owned
      <4>2. UNCHANGED <<wire, event>> /\ op' = op /\ (pc' # "refs" => pc # "refs") /\ cache' = cache
        BY <2>1, SMTT(30)
      <4> QED
        BY <3>2, <4>1, <4>2, ApartStays
    <3> QED
      BY <3>1, <3>2
  <2>5. Following'
    BY <2>1 DEF RInv, Follows, Following, InFlight, Safe, Kept, Owned, Has, RowOf, IsTask
  <2> QED
    BY <2>2, <2>3, <2>4, <2>5 DEF Follows
<1> QED
  BY <1>1, <1>2, <1>3, <1>4, <1>5, <1>6, <1>7 DEF Next

\* The second invariant: while a move is under way, what the owner set about a
\* task is kept where the rest of the move leaves it alone, or it is on its way
\* with the task (service.py, move_task, over sync/engine.py, _move).
THEOREM SecondInductive == Spec => []RInv
<1>1. Init => Follows
  BY InitFollows
<1>2. Follows /\ IInv /\ [Next]_vars => Follows'
  BY FollowsStep DEF RInv
<1> QED
  BY <1>1, <1>2, Inductive, PTL DEF Spec, RInv

\* What the owner set about a task is in one of the lists whenever no move is
\* under way, but in the cases no retry can see (service.py, move_task).
THEOREM SidecarsFollow == Spec => []RefsFollow
<1>1. RInv => RefsFollow
  BY DEF RInv, IInv, TypeOK, Follows, Following, Kept, Owned, RefsFollow
<1> QED
  BY <1>1, SecondInductive, PTL

=============================================================================
