------------------------------ MODULE TaskMove ------------------------------
(***************************************************************************)
(* service.py, move_task and move_event, over sync/engine.py, _move: a     *)
(* resource changes lists by a copy to the target and a delete of the      *)
(* source, two requests that other clients, lost answers and crashes can   *)
(* come between, and what Smylte alone keeps about it follows.             *)
(*                                                                         *)
(* Each list has its own resources and its own part of the cache; a move   *)
(* keeps the file name, so one set Href serves both lists.  The sync       *)
(* passes that run between moves are one action per href that catches up   *)
(* (SyncEngine has them in full).  Bodies are tasks and events only.       *)
(***************************************************************************)
EXTENDS ItemCache, Integers

CONSTANTS
    List,        \* the collections
    Home,        \* Home[u]: the file name u was created under
    Parent,      \* Parent[u]: the task u's parent link names, when it has one
    Unparented,  \* Unparented[v]: the version v without its parent link
    Meaning,     \* Meaning[v]: v without what every write renews
    MaxForeign,  \* bound: the writes of other clients
    MaxFaults    \* bound: the lost answers and the crashes

ASSUME HomeAssumption ==
    Home \in [UID -> Href] /\ \A u, v \in UID : Home[u] = Home[v] => u = v
ASSUME ParentAssumption == Parent \in [UID -> UID \cup {Absent}]
ASSUME VersionAssumption ==
    /\ Unparented \in [Version -> Version]
    /\ \A v \in Version : Unparented[Unparented[v]] = Unparented[v]
    /\ \A v, w \in Version : Meaning[v] = Meaning[w]
                                 => Meaning[Unparented[v]] = Meaning[Unparented[w]]

VARIABLES
    wire,       \* wire[l][h]: the body at h in list l, or Absent
    cache,      \* cache[l]: the rows and sidecars of list l
    event,      \* the UIDs that are events; the others are tasks
    pc,         \* the next request, or transaction, of the move under way
    op,         \* the move under way
    live,       \* history: live[l][h], what the move must not destroy there
    pinned,     \* history: UIDs the owner has set something about
    stranded,   \* history: UIDs cut off from it by what no retry can see
    foreign, faults

vars == <<wire, cache, event, pc, op, live, pinned, stranded, foreign, faults>>

Move == [src : List, dst : List, rest : SUBSET UID, root : UID, uid : UID,
         href : Href, unparent : BOOLEAN, keep : SUBSET UID,
         body : ItemBody \cup {Absent}, copy : ItemBody \cup {Absent},
         wrote : BOOLEAN, failed : BOOLEAN]

ASSUME MoveAssumption == Absent \notin Move

Protected == [List -> [Href -> SUBSET ItemBody]]
Nothing == [l \in List |-> [h \in Href |-> {}]]
OnTheWire == [l \in List |-> [h \in Href |-> {wire[l][h]} \ {Absent}]]

TypeOK ==
    /\ wire \in [List -> [Href -> ItemBody \cup {Absent}]]
    /\ cache \in [List -> Cache]
    /\ \A l \in List : OneRowPerHref(cache[l]) /\ KeyedOnUid(cache[l])
    /\ event \in SUBSET UID
    /\ pc \in {"idle", "get", "holds", "put", "occupied", "adopt", "delete",
               "asked", "undo", "finish", "refresh", "refs"}
    /\ op \in Move \cup {Absent}
    /\ pc = "idle" <=> op = Absent
    /\ live \in Protected
    /\ pinned \in SUBSET UID
    /\ stranded \in SUBSET UID
    /\ foreign \in Nat

\* One list holds the resources, all cached; what another one holds, other
\* clients put there.  Which list it is makes no difference.
Init ==
    /\ \E held \in SUBSET UID, ver \in [UID -> Version] :
         LET b(u) == [uid |-> u, kind |-> "item", ver |-> ver[u]]
             l == CHOOSE k \in List : TRUE
         IN
         /\ wire = [k \in List |-> [h \in Href |->
                IF k = l /\ \E u \in held : Home[u] = h
                THEN b(CHOOSE u \in held : Home[u] = h) ELSE Absent]]
         /\ cache = [k \in List |->
                [EmptyCache EXCEPT !.rows = [u \in UID |->
                    IF k = l /\ u \in held THEN [href |-> Home[u], body |-> b(u)] ELSE Absent]]]
    /\ event \in SUBSET UID
    /\ pc = "idle"
    /\ op = Absent
    /\ live = Nothing
    /\ pinned = {}
    /\ stranded = {}
    /\ foreign = 0
    /\ faults = 0

-----------------------------------------------------------------------------
(* What the code asks of bodies, of the lists and of the cache.             *)

HasParent(b) == Unparented[b.ver] # b.ver

\* same_task: the same but for what every write renews.
SameTask(a, b) == a.uid = b.uid /\ Meaning[a.ver] = Meaning[b.ver]

\* What the move writes of the body b it read: a subtask that moves without
\* its parent leaves the link behind.
Written(o, b) ==
    IF o.unparent /\ o.uid = o.root THEN [b EXCEPT !.ver = Unparented[@]] ELSE b

Holds(l, h, b) == wire[l][h] # Absent /\ SameTask(wire[l][h], b)

\* Radicale refuses a second resource with the same UID.
UidFree(l, h, u) ==
    \A g \in Href \ {h} : wire[l][g] # Absent => wire[l][g].uid # u

InList(l, u) == \E h \in Href : wire[l][h] # Absent /\ wire[l][h].uid = u

RowOf(l, u) == cache[l].rows[u]

Kids(l, u) ==
    {k \in Cached(cache[l]) \ event : Parent[k] = u /\ HasParent(RowOf(l, k).body)}

\* The task and everything below it: the least set closed under Kids.
Subtree(l, u) ==
    {v \in UID : \A C \in SUBSET UID :
                    u \in C /\ (\A w \in C : Kids(l, w) \subseteq C) => v \in C}

\* Deepest first, the task itself last.
NextOf(o) ==
    IF o.rest = {o.root} THEN {o.root}
    ELSE {v \in o.rest \ {o.root} : Kids(o.src, v) \cap o.rest \subseteq {o.root}}

-----------------------------------------------------------------------------
(* The requests of one engine._move.                                        *)

Bystanders == UNCHANGED <<event, pinned, foreign>>

\* The move ends: with an answer, or with an exception.
Stop ==
    /\ pc' = "idle"
    /\ op' = Absent
    /\ live' = Nothing
    /\ UNCHANGED <<wire, cache, stranded, faults>>
    /\ Bystanders

Goto(next) ==
    /\ pc' = next
    /\ UNCHANGED <<wire, cache, live, stranded, faults>>
    /\ Bystanders

\* The first move of resource u of the operation o.
Engine(o, u) ==
    [o EXCEPT !.uid = u, !.rest = @ \ {u}, !.href = RowOf(o.src, u).href,
              !.body = Absent, !.copy = Absent, !.wrote = FALSE]

\* A task the target list has already must be the copy an earlier attempt made.
CopiedAlready(s, d, u, unparent) ==
    LET there == RowOf(d, u)
        here == RowOf(s, u).body
        wrote == IF unparent THEN [here EXCEPT !.ver = Unparented[@]] ELSE here
    IN there # Absent => there.href = RowOf(s, u).href /\ SameTask(there.body, wrote)

Start(o) ==
    /\ op' = o
    /\ pc' = "get"
    /\ live' = OnTheWire
    /\ UNCHANGED <<wire, cache, stranded, faults>>
    /\ Bystanders

NewMove(s, d, u) ==
    [src |-> s, dst |-> d, rest |-> {u}, root |-> u, uid |-> u,
     href |-> RowOf(s, u).href, unparent |-> FALSE, keep |-> {},
     body |-> Absent, copy |-> Absent, wrote |-> FALSE, failed |-> FALSE]

StartTaskMove(s, d, u) ==
    /\ pc = "idle"
    /\ s # d
    /\ u \in Cached(cache[s]) \ event
    /\ LET tree == Subtree(s, u)
           unparent == HasParent(RowOf(s, u).body)
           o == [NewMove(s, d, u) EXCEPT
                    !.rest = tree, !.unparent = unparent,
                    !.keep = {v \in tree : cache[d].side[v] = "live"}]
       IN /\ \A v \in tree : CopiedAlready(s, d, v, v = u /\ unparent)
          /\ \E v \in NextOf(o) : Start(Engine(o, v))

\* keep: whether the event has a reminder to carry over.
StartEventMove(s, d, u) ==
    /\ pc = "idle"
    /\ s # d
    /\ u \in Cached(cache[s]) \cap event
    /\ LET o == [NewMove(s, d, u) EXCEPT
                    !.keep = IF cache[s].side[u] = "none" THEN {} ELSE {u}]
       IN Start(Engine(o, u))

IsTask == op.root \notin event

\* The bytes come off the wire, whatever resource the href holds by now.
Get ==
    /\ pc = "get"
    /\ \/ /\ wire[op.src][op.href] # Absent
          /\ op' = [op EXCEPT !.body = wire[op.src][op.href]]
          /\ Goto("put")
       \/ /\ wire[op.src][op.href] = Absent
          /\ IsTask
          /\ op' = op
          /\ Goto("holds")
       \/ /\ wire[op.src][op.href] = Absent
          /\ ~IsTask
          /\ Stop

\* The source is gone: an earlier attempt's DELETE landed if the copy says
\* what the cached source did.
FindCopy ==
    /\ pc = "holds"
    /\ IF Holds(op.dst, op.href, Written(op, RowOf(op.src, op.uid).body))
       THEN op' = op /\ Goto("finish")
       ELSE Stop

Occupied(h, b) == wire[op.dst][h] # Absent \/ ~UidFree(op.dst, h, b.uid)

PutLands ==
    wire' = [wire EXCEPT ![op.dst][op.href] = Written(op, op.body)]

\* If-None-Match: *.  412 for the href, 409 for the UID.
Put ==
    /\ pc = "put"
    /\ IF Occupied(op.href, op.body)
       THEN op' = op /\ Goto("occupied")
       ELSE /\ PutLands
            /\ op' = [op EXCEPT !.copy = Written(op, op.body), !.wrote = TRUE]
            /\ pc' = "delete"
            /\ UNCHANGED <<cache, live, stranded, faults>>
            /\ Bystanders

\* Mutant: any occupant with the task's UID is taken for the copy.
OwnCopyByUid ==
    /\ pc = "occupied"
    /\ IsTask
    /\ IF wire[op.dst][op.href] # Absent /\ wire[op.dst][op.href].uid = op.uid
       THEN /\ op' = [op EXCEPT !.copy = wire[op.dst][op.href]]
            /\ Goto("delete")
       ELSE Stop

\* Mutant: an occupied target is a conflict, whoever wrote it.
OwnCopyNever == pc = "occupied" /\ IsTask /\ Stop

\* A task's occupant is accepted, as it is, only when it says what the copy would.
OwnCopy ==
    /\ pc = "occupied"
    /\ IsTask
    /\ IF Holds(op.dst, op.href, Written(op, op.body))
       THEN /\ op' = [op EXCEPT !.copy = wire[op.dst][op.href]]
            /\ Goto("delete")
       ELSE Stop

\* An event's occupant is its own copy when it has the event's UID ...
FindMovedCopy ==
    /\ pc = "occupied"
    /\ ~IsTask
    /\ IF wire[op.dst][op.href] # Absent /\ wire[op.dst][op.href].uid = op.uid
       THEN /\ op' = [op EXCEPT !.copy = wire[op.dst][op.href]]
            /\ Goto("adopt")
       ELSE Stop

\* ... and is then refreshed with the bytes of the source.  412 if it has changed,
\* 409 if it is not that UID's place.
AdoptLands == wire[op.dst][op.href] = op.copy /\ UidFree(op.dst, op.href, op.body.uid)

AdoptMovedCopy ==
    /\ pc = "adopt"
    /\ IF AdoptLands
       THEN /\ PutLands
            /\ op' = [op EXCEPT !.copy = Absent]
            /\ pc' = "delete"
            /\ UNCHANGED <<cache, live, stranded, faults>>
            /\ Bystanders
       ELSE Stop

\* What others left at the source is, from here on, what its copy must say.
DeleteLands ==
    /\ wire' = [wire EXCEPT ![op.src][op.href] = Absent]
    /\ live' = [live EXCEPT ![op.src][op.href] = {},
                            ![op.dst][op.href] = @ \cup {Written(op, b) : b \in live[op.src][op.href]}]

\* If-Match the bytes that were copied; a source that has gone will do.
Delete ==
    /\ pc = "delete"
    /\ \/ /\ wire[op.src][op.href] = op.body
          /\ DeleteLands
          /\ pc' = "finish"
          /\ UNCHANGED <<cache, op, stranded, faults>>
          /\ Bystanders
       \/ /\ wire[op.src][op.href] = Absent
          /\ op' = op
          /\ Goto("finish")
       \/ /\ wire[op.src][op.href] \notin {op.body, Absent}
          /\ ~IsTask \/ op.wrote
          /\ op' = op
          /\ Goto("undo")
       \/ /\ wire[op.src][op.href] \notin {op.body, Absent}
          /\ IsTask /\ ~op.wrote
          /\ Stop

SourceGone ==
    LET b == wire[op.src][op.href] IN b = Absent \/ b.uid # op.uid

\* A DELETE without an answer: did it happen after all?  Something else that
\* has been put there since says no.
AskGone ==
    /\ pc = "asked"
    /\ \/ /\ wire[op.src][op.href] = Absent
          /\ op' = op
          /\ Goto("finish")
       \/ /\ wire[op.src][op.href] # Absent
          /\ pc' = "idle"
          /\ op' = Absent
          /\ live' = Nothing
          /\ stranded' = IF SourceGone THEN stranded \cup {op.uid} ELSE stranded
          /\ UNCHANGED <<wire, cache, faults>>
          /\ Bystanders

\* Delete a cached row and leave its sidecar as it is.
DropRow(c, h) ==
    [c EXCEPT !.rows = [u \in UID |-> IF u \in UidsAt(c, h) THEN Absent ELSE c.rows[u]]]

UndoLands == wire' = [wire EXCEPT ![op.dst][op.href] = Absent]

\* The source changed under the move: delete the copy, if it is as written (an
\* adopted event has no etag to match), and the task's row with it.
Undo ==
    /\ pc = "undo"
    /\ \/ /\ wire[op.dst][op.href] # Absent
          /\ op.copy \in {wire[op.dst][op.href], Absent}
          /\ UndoLands
          /\ cache' = IF IsTask THEN [cache EXCEPT ![op.dst] = DropRow(@, op.href)] ELSE cache
       \/ /\ wire[op.dst][op.href] = Absent
          /\ UNCHANGED wire
          /\ cache' = IF IsTask THEN [cache EXCEPT ![op.dst] = DropRow(@, op.href)] ELSE cache
       \/ /\ wire[op.dst][op.href] # Absent
          /\ op.copy \notin {wire[op.dst][op.href], Absent}
          /\ UNCHANGED <<wire, cache>>
    /\ pc' = "idle"
    /\ op' = Absent
    /\ live' = Nothing
    /\ UNCHANGED <<stranded, faults>>
    /\ Bystanders

-----------------------------------------------------------------------------
(* The cache's half: _finish_move, then the service re-points what it keeps. *)

OrphanMark(c, u) == [c EXCEPT !.side[u] = IF @ = "live" THEN "fresh" ELSE @]

Finish ==
    /\ pc = "finish"
    /\ cache' = [cache EXCEPT ![op.src] = OrphanMark(DropRow(@, op.href), op.uid)]
    /\ pc' = "refresh"
    /\ UNCHANGED <<wire, op, live, stranded, faults>>
    /\ Bystanders

\* The copy is read back and cached; if it has gone, the task's refs follow
\* nevertheless and the move fails.
Refresh ==
    /\ pc = "refresh"
    /\ \/ /\ wire[op.dst][op.href] # Absent
          /\ cache' = [cache EXCEPT ![op.dst] = Upsert(@, op.href, wire[op.dst][op.href])]
          /\ pc' = "refs"
          /\ UNCHANGED <<wire, op, live, stranded, faults>>
          /\ Bystanders
       \/ /\ wire[op.dst][op.href] = Absent
          /\ IsTask
          /\ op' = [op EXCEPT !.failed = TRUE]
          /\ Goto("refs")
       \/ /\ wire[op.dst][op.href] = Absent
          /\ ~IsTask
          /\ Stop

\* Mutant: what the target list keeps of its own is replaced.
MoveTaskRefsOver(u) ==
    LET from == cache[op.src].side[u] IN
    [cache EXCEPT ![op.src].side[u] = "none",
                  ![op.dst].side[u] = IF from = "none" THEN "none" ELSE "live"]

\* The sidecar row follows the task.  What the target list had for it is stale
\* and goes, unless it was live before the move: then it is kept, and merged.
MoveTaskRefs(u) ==
    LET from == cache[op.src].side[u] IN
    [cache EXCEPT ![op.src].side[u] = "none",
                  ![op.dst].side[u] = IF u \in op.keep THEN @
                                      ELSE IF from = "none" THEN "none" ELSE "live"]

\* An event carries its reminder and nothing else.
CarryReminder(u) ==
    IF u \in op.keep THEN [cache EXCEPT ![op.dst] = SetSidecar(@, u)] ELSE cache

Refs ==
    /\ pc = "refs"
    /\ cache' = IF IsTask THEN MoveTaskRefs(op.uid) ELSE CarryReminder(op.uid)
    /\ IF op.failed \/ op.rest = {}
       THEN /\ pc' = "idle"
            /\ op' = Absent
            /\ live' = Nothing
       ELSE /\ \E v \in NextOf(op) : op' = Engine(op, v)
            /\ pc' = "get"
            /\ UNCHANGED live
    /\ UNCHANGED <<wire, stranded, faults>>
    /\ Bystanders

-----------------------------------------------------------------------------
(* Lost answers, and crashes.                                               *)

Fault == faults < MaxFaults /\ faults' = faults + 1

Raise ==
    /\ pc' = "idle"
    /\ op' = Absent
    /\ live' = Nothing
    /\ UNCHANGED <<cache, stranded>>
    /\ Bystanders

\* A read that fails, or a write that never arrives.  A failed refresh still
\* lets the task's refs follow; a failed rollback is the conflict it was.
Unanswered ==
    /\ Fault
    /\ UNCHANGED wire
    /\ \/ pc \in {"get", "holds", "put", "occupied", "adopt", "undo"} /\ Raise
       \/ pc \in {"delete", "refresh"} /\ ~IsTask /\ Raise
       \/ /\ pc = "delete" /\ IsTask
          /\ pc' = "asked"
          /\ UNCHANGED <<cache, op, live, stranded>>
          /\ Bystanders
       \/ /\ pc = "refresh" /\ IsTask
          /\ pc' = "refs"
          /\ op' = [op EXCEPT !.failed = TRUE]
          /\ UNCHANGED <<cache, live, stranded>>
          /\ Bystanders

\* A write that lands and whose answer is lost.
LostAnswer ==
    /\ Fault
    /\ \/ pc = "put" /\ ~Occupied(op.href, op.body) /\ PutLands /\ Raise
       \/ pc = "adopt" /\ AdoptLands /\ PutLands /\ Raise
       \/ /\ pc = "undo"
          /\ wire[op.dst][op.href] # Absent
          /\ op.copy \in {wire[op.dst][op.href], Absent}
          /\ UndoLands /\ Raise
       \/ /\ pc = "delete" /\ wire[op.src][op.href] = op.body
          /\ DeleteLands
          /\ pc' = IF IsTask THEN "asked" ELSE "idle"
          /\ op' = IF IsTask THEN op ELSE Absent
          /\ UNCHANGED <<cache, stranded>>
          /\ Bystanders

\* The outage that took an answer takes the question asked after it as well.
LostQuestion ==
    /\ pc = "asked"
    /\ UNCHANGED <<wire, cache, faults>>
    /\ pc' = "idle"
    /\ op' = Absent
    /\ live' = Nothing
    /\ stranded' = IF SourceGone THEN stranded \cup {op.uid} ELSE stranded
    /\ Bystanders

\* The process dies.  Nothing recorded tells a later start where the move was.
Crash ==
    /\ pc # "idle"
    /\ Fault
    /\ UNCHANGED <<wire, cache>>
    /\ pc' = "idle"
    /\ op' = Absent
    /\ live' = Nothing
    /\ stranded' = IF \/ pc \in {"refresh", "refs"}
                      \/ pc \in {"asked", "finish"} /\ SourceGone
                   THEN stranded \cup {op.uid} ELSE stranded
    /\ Bystanders

-----------------------------------------------------------------------------
(* Other clients, the sync passes, and the owner.                           *)

\* A change by another client becomes what a move must not destroy, and
\* relieves it of what it replaces: at the target that includes the source
\* whose copy it was, and putting back the very bytes of either changes nothing.
Supersede(l, h, new) ==
    IF pc = "idle" THEN live
    ELSE LET old == wire[l][h]
             mine == l = op.dst /\ h = op.href /\ op.copy # Absent
             same == \/ mine /\ new = op.copy
                     \/ l = op.src /\ h = op.href /\ new = op.body
             here == [live EXCEPT ![l][h] = IF same THEN {} ELSE {new} \ {Absent}]
         IN IF mine /\ old # Absent
            THEN [here EXCEPT ![op.src][op.href] = {b \in @ : ~SameTask(old, Written(op, b))}]
            ELSE here

ForeignWrite(l, h, new) ==
    /\ foreign < MaxForeign
    /\ wire[l][h] # new
    /\ new # Absent => UidFree(l, h, new.uid)
    /\ wire' = [wire EXCEPT ![l][h] = new]
    /\ live' = Supersede(l, h, new)
    \* The UID another client removes takes along what the owner set about it.
    /\ pinned' = IF wire[l][h] = Absent \/ (new # Absent /\ new.uid = wire[l][h].uid)
                 THEN pinned ELSE pinned \ {wire[l][h].uid}
    /\ foreign' = foreign + 1
    /\ UNCHANGED <<cache, event, pc, op, stranded, faults>>

\* A sync pass catches up with an href.
CatchUp(l, h) ==
    IF wire[l][h] = Absent THEN DropHref(cache[l], h) ELSE Upsert(cache[l], h, wire[l][h])

Sync(l, h) ==
    /\ pc = "idle"
    /\ CatchUp(l, h) # cache[l]
    /\ cache' = [cache EXCEPT ![l] = CatchUp(l, h)]
    /\ UNCHANGED <<wire, event, pc, op, live, pinned, stranded, foreign, faults>>

\* The owner pins, parks or estimates a task, or sets a reminder on an event.
MarkSidecar(l, u) ==
    /\ pc = "idle"
    /\ u \in Cached(cache[l])
    /\ cache' = [cache EXCEPT ![l] = SetSidecar(@, u)]
    /\ LET there == wire[l][RowOf(l, u).href] IN
         IF there # Absent /\ there.uid = u
         THEN pinned' = pinned \cup {u} /\ stranded' = stranded \ {u}
         ELSE UNCHANGED <<pinned, stranded>>
    /\ UNCHANGED <<wire, event, pc, op, live, foreign, faults>>

Step ==
    \/ Get \/ FindCopy \/ Put \/ OwnCopy \/ FindMovedCopy \/ AdoptMovedCopy
    \/ Delete \/ AskGone \/ Undo
    \/ Finish \/ Refresh \/ Refs

StartMove(s, d, u) == StartTaskMove(s, d, u) \/ StartEventMove(s, d, u)

Next ==
    \/ \E s, d \in List, u \in UID : StartMove(s, d, u)
    \/ Step
    \/ Unanswered \/ LostAnswer \/ LostQuestion \/ Crash
    \/ \E l \in List, h \in Href, b \in ItemBody \cup {Absent} : ForeignWrite(l, h, b)
    \/ \E l \in List, h \in Href : Sync(l, h)
    \/ \E l \in List, u \in UID : MarkSidecar(l, u)

Spec == Init /\ [][Next]_vars

InTwoLists(u) == \E k, l \in List : k # l /\ InList(k, u) /\ InList(l, u)

\* A move that left a resource in two lists is asked for again.
Retry(s, d, u) == (\E v \in Subtree(s, u) : InTwoLists(v)) /\ StartMove(s, d, u)

FairSpec ==
    Spec /\ WF_vars(Step) /\ \A s \in List : \A d \in List \ {s}, u \in UID : SF_vars(Retry(s, d, u))

-----------------------------------------------------------------------------
(* Properties.                                                              *)

StillHolds(l, h, b) == wire'[l][h] # Absent /\ SameTask(wire'[l][h], b)

\* No request of a task's move, its rollback included, destroys a revision of
\* it, or another task, that it did not copy: whatever another client last left
\* at either place stays there, or is said by the copy at the target when the
\* source is deleted (engine.py, _move and _own_copy).
NothingLost ==
    [][op # Absent /\ IsTask /\ foreign' = foreign =>
         \A l \in List : \A h \in Href : \A b \in live[l][h] :
             \/ StillHolds(l, h, b)
             \/ /\ l = op.src /\ h = op.href
                /\ StillHolds(op.dst, op.href, Written(op, b))]_vars

\* What the owner set about a task is found in one of the lists after every
\* move, however it ended, but in the cases no retry can see.  In them the
\* source is gone and, before the refs were re-pointed, the process died, or
\* the answer to the DELETE was lost and the question asked after it was lost
\* too or found another resource at the href (service.py, move_task).
RefsFollow ==
    pc = "idle" =>
        \A u \in (pinned \ stranded) \ event : \E l \in List : cache[l].side[u] = "live"

\* Why nothing is lost.  The tasks still to move are cached at the source, each
\* at its own href; what other clients left is where they left it; until the
\* source is deleted, and if it is the body that was read, the copy says what
\* was left there; and a copy this move wrote is nobody else's.
Underway ==
    op # Absent =>
        /\ op.src # op.dst
        /\ op.rest \subseteq Cached(cache[op.src]) \ {op.uid}
        /\ pc \notin {"refresh", "refs"} => /\ RowOf(op.src, op.uid) # Absent
                                           /\ RowOf(op.src, op.uid).href = op.href
        /\ pc \in {"put", "occupied", "adopt", "delete", "undo"} => op.body # Absent

AllHeld ==
    op # Absent /\ IsTask =>
        \A l \in List : \A h \in Href : \A b \in live[l][h] : Holds(l, h, b)

CopySays ==
    op # Absent /\ IsTask =>
        /\ pc # "adopt"
        /\ pc \in {"get", "put", "occupied"} => ~op.wrote
        /\ pc \in {"delete", "undo"} => op.copy # Absent
        /\ pc = "undo" => op.wrote
        /\ pc = "delete" =>
              (wire[op.src][op.href] = op.body
                 => \A b \in live[op.src][op.href] : Holds(op.dst, op.href, Written(op, b)))
        /\ pc \in {"delete", "undo"} =>
              (op.wrote /\ wire[op.dst][op.href] = op.copy => live[op.dst][op.href] = {})

\* The first invariant of TaskMoveProofs.
IInv == TypeOK /\ Underway /\ AllHeld /\ CopySays

-----------------------------------------------------------------------------
(* Why what the owner set follows.                                          *)

Owned == (pinned \ stranded) \ event

Has(l, h, u) == wire[l][h] # Absent /\ wire[l][h].uid = u

\* The sidecar is live, and no sync pass will find it without its task.
Kept(l, u) ==
    /\ cache[l].side[u] = "live"
    /\ RowOf(l, u) # Absent => Has(l, RowOf(l, u).href, u)

OneUidEach ==
    \A l \in List : \A g, h \in Href :
        wire[l][g] # Absent /\ wire[l][h] # Absent /\ wire[l][g].uid = wire[l][h].uid => g = h

\* What is marked as an orphan has no row.
Orphaned ==
    \A l \in List : \A u \in UID : cache[l].side[u] \in {"fresh", "aged"} => RowOf(l, u) = Absent

\* A task's move moves tasks, an event's the event.
OneKind ==
    op # Absent =>
        /\ IsTask => ({op.uid} \cup op.rest) \cap event = {}
        /\ ~IsTask => op.uid = op.root /\ op.rest = {}
        /\ pc = "adopt" => op.copy # Absent /\ op.copy.uid = op.uid

\* Of the tasks a move has in hand or before it: each has a place of its own, no
\* other is cached there at the target, and what the target kept of one is kept.
Apart ==
    op # Absent /\ IsTask =>
        /\ \A x \in op.rest : RowOf(op.src, x).href # op.href
        /\ \A x \in op.rest : \A u \in (op.rest \cup {op.uid}) \ {x} :
              RowOf(op.dst, u) # Absent => RowOf(op.dst, u).href # RowOf(op.src, x).href
        /\ pc # "refs" => \A x \in op.rest :
              RowOf(op.dst, x) # Absent => RowOf(op.dst, x).href # op.href
        /\ \A u \in op.keep : u \in op.rest \/ (u = op.uid /\ pc # "refs")
              => cache[op.dst].side[u] = "live"
        /\ \A x \in op.rest \cap Owned : RowOf(op.dst, x) # Absent =>
              \/ RowOf(op.dst, x).href = RowOf(op.src, x).href
              \/ Has(op.dst, RowOf(op.dst, x).href, x)
        /\ op.uid \in Owned /\ RowOf(op.dst, op.uid) # Absent =>
              \/ RowOf(op.dst, op.uid).href = op.href
              \/ Has(op.dst, RowOf(op.dst, op.uid).href, op.uid)

\* Before the source of a task is deleted, its copy is there.
CopyThere ==
    op # Absent /\ IsTask /\ pc = "delete" /\ op.uid \in Owned /\ op.body.uid = op.uid
        => Has(op.dst, op.href, op.uid)

\* A place where u is kept that the rest of the move leaves alone.
Safe(l, u) ==
    /\ Kept(l, u)
    /\ u \in op.rest \cup {op.uid} /\ l = op.dst => u \in op.keep
    /\ u = op.uid /\ l = op.src =>
          pc = "get" \/ (pc \in {"put", "occupied", "delete", "undo"} /\ op.body.uid = u)
    /\ l = op.dst /\ (pc = "undo" \/ (pc = "delete" /\ (op.wrote \/ ~IsTask))) =>
          ~(RowOf(l, u) # Absent /\ RowOf(l, u).href = op.href)

\* The source of u is gone, its copy is there, and the refs are on their way.
InFlight(u) ==
    /\ u = op.uid
    /\ \/ pc \in {"asked", "finish"} /\ cache[op.src].side[u] = "live"
       \/ pc \in {"refresh", "refs"} /\ cache[op.src].side[u] # "none"
    /\ Has(op.dst, op.href, u)
    /\ RowOf(op.dst, u) # Absent => RowOf(op.dst, u).href = op.href
    /\ u \in op.keep => cache[op.dst].side[u] = "live"

Following ==
    \A u \in Owned :
        IF op = Absent THEN \E l \in List : Kept(l, u)
        ELSE InFlight(u) \/ \E l \in List : Safe(l, u)

Follows == OneUidEach /\ Orphaned /\ OneKind /\ Apart /\ CopyThere /\ Following

\* The second invariant of TaskMoveProofs.
RInv == IInv /\ Follows

\* With no other client at work, a task or event a failed move has left in two
\* lists does not stay in both.
MovesComplete ==
    (~\E u \in UID : InTwoLists(u)) /\ [](foreign = 0)
        => \A u \in UID : [](InTwoLists(u) => <>(~InTwoLists(u)))

=============================================================================
