----------------------------- MODULE SyncEngine -----------------------------
(***************************************************************************)
(* backend/smylted/sync/engine.py: the engine that keeps the cache of one  *)
(* collection equal to the collection on the wire, and writes to it.       *)
(*                                                                         *)
(* Every operation runs under the service's lock from its first read of    *)
(* the cache to its last write, so operations never interleave with each   *)
(* other.  Each is a sequence of requests, one action per request, and     *)
(* other CalDAV clients act between any two of them.  `pc` is the request  *)
(* the operation under way makes next, "idle" if there is none.            *)
(*                                                                         *)
(* A sync pass reads its bodies and then applies them in one transaction.  *)
(* Applying a body reads and writes the cache only, which nothing else     *)
(* touches meanwhile, so here a body is applied to `work`, the pass's view *)
(* of the cache, in the action that reads it; Commit publishes `work`.     *)
(***************************************************************************)
EXTENDS Radicale, ItemCache

CONSTANTS
    Home,       \* Home[u]: the href create_task mints together with u
    MaxOps,     \* bound: the edits, deletes and creates a behaviour has
    MaxFaults   \* bound: the requests that fail, and the crashes, it has

ASSUME HomeAssumption == Home \in [UID -> Href]
ASSUME BoundAssumption == MaxOps \in Nat /\ MaxFaults \in Nat

VARIABLES
    db,         \* the committed rows of the collection
    token,      \* sync_state.sync_token, NoToken for NULL
    pc,         \* the next request of the operation under way
    pass,       \* the sync pass under way
    work,       \* the cache as the pass would commit it
    op,         \* the edit, delete or create under way
    kept,       \* history: UIDs whose row a full resync kept off the wire
    ops, faults \* the bounded counters

engineVars == <<db, token, pc, pass, work, op, kept, ops, faults>>
vars == <<serverVars, engineVars>>

Pass == [full : BOOLEAN, newToken : Nat \cup {NoToken}, listed : SUBSET Href,
         todo : SUBSET Href, removed : SUBSET Href, claimed : SUBSET UID,
         skipped : BOOLEAN, unread : BOOLEAN]

NoPass == [full |-> FALSE, newToken |-> NoToken, listed |-> {}, todo |-> {},
           removed |-> {}, claimed |-> {}, skipped |-> FALSE, unread |-> FALSE]

Op == [kind : {"edit", "delete", "create"}, uid : UID, href : Href,
       seen : Body \cup {Absent}]

NewOp(kind, u, h) == [kind |-> kind, uid |-> u, href |-> h, seen |-> Absent]

TypeOK ==
    /\ ServerTypeOK
    /\ db \in Cache
    /\ token \in Nat \cup {NoToken}
    /\ pc \in {"idle", "sync", "reread", "resend", "refresh", "drop"}
    /\ pass \in Pass
    /\ work \in Cache
    /\ op \in Op \cup {Absent}
    /\ pc \in {"reread", "resend", "refresh", "drop"} => op \in Op
    /\ pc = "resend" => op.seen # Absent
    /\ kept \in SUBSET UID
    /\ ops \in Nat
    /\ faults \in Nat

Init ==
    /\ ServerInit
    /\ db = EmptyCache
    /\ token = NoToken
    /\ pc = "idle"
    /\ pass = NoPass
    /\ work = EmptyCache
    /\ op = Absent
    /\ kept = {}
    /\ ops = 0
    /\ faults = 0

\* The rows of `kept` that the new cache c still holds untouched.
StillKept(c) == {u \in kept : c.rows[u] = db.rows[u]}

-----------------------------------------------------------------------------
(* The read path: sync, _apply_incremental, full_resync, _multiget.         *)

StartPass(p) ==
    /\ pc' = "sync"
    /\ pass' = p
    /\ work' = db
    /\ UNCHANGED <<serverVars, db, token, op, kept, ops, faults>>

SyncIncremental ==
    /\ pc = "idle"
    /\ token # NoToken
    /\ StartPass([NoPass EXCEPT !.newToken = clock,
                                !.todo = ChangedSince(token),
                                !.removed = RemovedSince(token)])

\* An href whose cached bytes are the ones on the wire is not read again.
Known(h) == \E u \in UidsAt(db, h) : db.rows[u].body = wire[h]

\* Without a token, with one Radicale has pruned, or on request.
SyncFull ==
    /\ pc = "idle"
    /\ StartPass([NoPass EXCEPT !.full = TRUE,
                                !.newToken = clock,
                                !.listed = Present,
                                !.todo = {h \in Present : ~Known(h)}])

\* _upsert_body on the body b read at h, into the pass's view of the cache.
Apply(h, b) ==
    /\ work' = IF b.kind = "item" THEN Upsert(work, h, b) ELSE DropHref(work, h)
    /\ pass' = [pass EXCEPT
                    !.todo = @ \ {h},
                    !.skipped = @ \/ b.kind = "poison",
                    !.claimed = @ \cup IF b.kind = "poison" THEN {b.uid} ELSE {}]

\* One href of a multiget, or its GET when the multistatus cannot be parsed.
\* A resource that has gone since the REPORT listed it is passed over.
Read(h) ==
    /\ pc = "sync"
    /\ h \in pass.todo
    /\ IF wire[h] = Absent
       THEN /\ pass' = [pass EXCEPT !.todo = @ \ {h}]
            /\ UNCHANGED work
       ELSE Apply(h, wire[h])
    /\ UNCHANGED <<serverVars, db, token, pc, op, kept, ops, faults>>

\* The GET of the fallback fails: the bytes at h are not known.
Unread(h) ==
    /\ pc = "sync"
    /\ h \in pass.todo
    /\ faults < MaxFaults
    /\ pass' = [pass EXCEPT !.todo = @ \ {h}, !.skipped = TRUE, !.unread = TRUE]
    /\ faults' = faults + 1
    /\ UNCHANGED <<serverVars, db, token, pc, work, op, kept, ops>>

\* The cached UIDs a full resync finds gone from the wire.
SweptUids ==
    {u \in Cached(work) : work.rows[u].href \notin pass.listed /\ u \notin pass.claimed}

RemovedUids == {u \in Cached(work) : work.rows[u].href \in pass.removed}

Publish(c) ==
    /\ pc = "sync"
    /\ pass.todo = {}
    /\ db' = c
    /\ pc' = "idle"
    /\ pass' = NoPass
    /\ work' = EmptyCache
    /\ UNCHANGED <<serverVars, op, ops, faults>>

\* Mutant: the token advances past a change that was never read.
CommitPastUnread ==
    /\ ~pass.full
    /\ Publish(Remove(work, RemovedUids))
    /\ token' = pass.newToken
    /\ kept' = StillKept(db')

CommitIncremental ==
    /\ ~pass.full
    /\ Publish(Remove(work, RemovedUids))
    /\ token' = IF pass.unread THEN token ELSE pass.newToken
    /\ kept' = StillKept(db')

\* Mutant: orphans are collected off an incomplete enumeration.
CommitFullGcAlways ==
    /\ pass.full
    /\ LET swept == Remove(work, SweptUids) IN
         /\ Publish(GcOrphans(swept))
         /\ kept' = {u \in Cached(swept) : swept.rows[u].href \notin pass.listed}
    /\ token' = IF pass.unread THEN NoToken ELSE pass.newToken

\* Mutant: an incomplete full resync records the fresh token.
CommitFullPastUnread ==
    /\ pass.full
    /\ LET swept == Remove(work, SweptUids) IN
         /\ Publish(IF pass.skipped THEN swept ELSE GcOrphans(swept))
         /\ kept' = {u \in Cached(swept) : swept.rows[u].href \notin pass.listed}
    /\ token' = pass.newToken

CommitFull ==
    /\ pass.full
    /\ LET swept == Remove(work, SweptUids) IN
         /\ Publish(IF pass.skipped THEN swept ELSE GcOrphans(swept))
         /\ kept' = {u \in Cached(swept) : swept.rows[u].href \notin pass.listed}
    /\ token' = IF pass.unread THEN NoToken ELSE pass.newToken

-----------------------------------------------------------------------------
(* The write path: _edit, delete_task, create_task, _refresh_from_wire.     *)

CacheUntouched == UNCHANGED <<db, token, pass, work, kept, faults>>

\* The first request is conditional on what the cache holds.
Begin(o, next) ==
    /\ pc = "idle"
    /\ ops < MaxOps
    /\ op' = o
    /\ pc' = next
    /\ ops' = ops + 1
    /\ CacheUntouched

Continue(next) ==
    /\ pc' = next
    /\ UNCHANGED <<op, ops>>
    /\ CacheUntouched

\* The operation ends, with an answer or with an exception, and caches nothing.
Finish ==
    /\ pc' = "idle"
    /\ op' = Absent
    /\ UNCHANGED <<serverVars, ops>>
    /\ CacheUntouched

\* An applied edit always differs from the bytes it was applied to: it stamps
\* them.  Nothing in it depends on the UID those bytes carry.
Edited(b, v) == [b EXCEPT !.ver = v]

EditSend(u, v) ==
    LET r == db.rows[u] IN
    /\ r # Absent
    /\ v # r.body.ver
    /\ IF wire[r.href] = r.body
       THEN /\ Begin(NewOp("edit", u, r.href), "refresh")
            /\ Store(r.href, Edited(r.body, v))
       ELSE /\ Begin(NewOp("edit", u, r.href), "reread")
            /\ UNCHANGED serverVars

Take(b) ==
    /\ op' = [op EXCEPT !.seen = b]
    /\ pc' = "resend"
    /\ UNCHANGED <<serverVars, ops>>
    /\ CacheUntouched

\* 412: take a fresh copy to re-apply the edit to, if it can be edited.  Of the
\* bodies that cannot be cached some cannot be parsed, others can, and be edited.
EditReread ==
    /\ pc = "reread"
    /\ op.kind = "edit"
    /\ LET b == wire[op.href] IN
       \/ b # Absent /\ b.kind \in {"item", "poison"} /\ Take(b)
       \/ b # Absent /\ b.kind # "item" /\ Finish
       \/ b = Absent /\ Finish

EditResend(v) ==
    /\ pc = "resend"
    /\ op.kind = "edit"
    /\ v # op.seen.ver
    /\ IF wire[op.href] = op.seen
       THEN /\ Store(op.href, Edited(op.seen, v))
            /\ Continue("refresh")
       ELSE Finish

\* Cache the canonical form the server stored.
Refresh ==
    /\ pc = "refresh"
    /\ IF wire[op.href] # Absent /\ wire[op.href].kind = "item"
       THEN /\ db' = Upsert(db, op.href, wire[op.href])
            /\ kept' = StillKept(db')
            /\ pc' = "idle"
            /\ op' = Absent
            /\ UNCHANGED <<serverVars, token, pass, work, ops, faults>>
       ELSE Finish

\* A DELETE of a resource that is not there has reached its goal.
DeleteSend(u) ==
    LET r == db.rows[u] IN
    /\ r # Absent
    /\ \/ /\ wire[r.href] = r.body
          /\ Begin(NewOp("delete", u, r.href), "drop")
          /\ Store(r.href, Absent)
       \/ /\ wire[r.href] = Absent
          /\ Begin(NewOp("delete", u, r.href), "drop")
          /\ UNCHANGED serverVars
       \/ /\ wire[r.href] \notin {r.body, Absent}
          /\ Begin(NewOp("delete", u, r.href), "reread")
          /\ UNCHANGED serverVars

\* Mutant: whatever is at the href now is deleted.
DeleteRereadAnyUid ==
    /\ pc = "reread"
    /\ op.kind = "delete"
    /\ IF wire[op.href] = Absent
       THEN Continue("drop") /\ UNCHANGED serverVars
       ELSE Take(wire[op.href])

\* 412: delete the current revision only if it is still the same resource.
\* A body that cannot be parsed raises; one that is no task or event passes.
DeleteReread ==
    /\ pc = "reread"
    /\ op.kind = "delete"
    /\ LET b == wire[op.href] IN
       \/ /\ b = Absent
          /\ Continue("drop")
          /\ UNCHANGED serverVars
       \/ /\ b # Absent
          /\ b.kind = "other" \/ b.uid = op.uid
          /\ Take(b)
       \/ /\ b # Absent
          /\ b.kind = "poison" \/ (b.kind = "item" /\ b.uid # op.uid)
          /\ Finish

DeleteResend ==
    /\ pc = "resend"
    /\ op.kind = "delete"
    /\ \/ /\ wire[op.href] = op.seen
          /\ Store(op.href, Absent)
          /\ Continue("drop")
       \/ /\ wire[op.href] = Absent
          /\ Continue("drop")
          /\ UNCHANGED serverVars
       \/ /\ wire[op.href] \notin {op.seen, Absent}
          /\ Finish

DeleteDrop ==
    /\ pc = "drop"
    /\ db' = DropHref(db, op.href)
    /\ kept' = StillKept(db')
    /\ pc' = "idle"
    /\ op' = Absent
    /\ UNCHANGED <<serverVars, token, pass, work, ops, faults>>

\* If-None-Match: *.  An occupant is 412, the same UID elsewhere a 409 that raises.
CreateSend(u, v) ==
    LET b == [uid |-> u, kind |-> "item", ver |-> v] IN
    \/ /\ wire[Home[u]] = Absent
       /\ UidFree(Home[u], u)
       /\ Begin(NewOp("create", u, Home[u]), "refresh")
       /\ Store(Home[u], b)
    \/ /\ wire[Home[u]] # Absent
       /\ Begin(NewOp("create", u, Home[u]), "reread")
       /\ UNCHANGED serverVars

\* An occupant with this UID is an earlier attempt that succeeded.
CreateReread ==
    /\ pc = "reread"
    /\ op.kind = "create"
    /\ LET b == wire[op.href] IN
       IF b # Absent /\ b.kind = "item" /\ b.uid = op.uid
       THEN Continue("refresh") /\ UNCHANGED serverVars
       ELSE Finish

-----------------------------------------------------------------------------
(* What happens around the operations.                                      *)

\* A request gets no answer, whether or not the server acted on it, or the
\* process dies: the operation raises, and an open transaction rolls back.
Abort ==
    /\ pc # "idle"
    /\ faults < MaxFaults
    /\ pc' = "idle"
    /\ pass' = NoPass
    /\ work' = EmptyCache
    /\ op' = Absent
    /\ faults' = faults + 1
    /\ UNCHANGED <<serverVars, db, token, kept, ops>>

LocalOnly(c) ==
    /\ pc = "idle"
    /\ db' = c
    /\ UNCHANGED <<serverVars, token, pc, pass, work, op, kept, ops, faults>>

\* The owner pins, parks or reorders a task.
MarkSidecar(u) == LocalOnly(SetSidecar(db, u))

\* No operation takes seven days, so orphans age between operations.
AgeOrphan(u) == LocalOnly(Age(db, u))

ForeignStep == Foreign /\ UNCHANGED engineVars

SyncStart == SyncIncremental \/ SyncFull

SyncStep ==
    \/ \E h \in Href : Read(h)
    \/ CommitIncremental
    \/ CommitFull

WriteStart ==
    \/ \E u \in UID, v \in Version : EditSend(u, v) \/ CreateSend(u, v)
    \/ \E u \in UID : DeleteSend(u)

WriteStep ==
    \/ EditReread \/ DeleteReread \/ CreateReread
    \/ \E v \in Version : EditResend(v)
    \/ DeleteResend
    \/ Refresh \/ DeleteDrop

Fault == Abort \/ \E h \in Href : Unread(h)

Owner == \E u \in UID : MarkSidecar(u) \/ AgeOrphan(u)

Next ==
    \/ ForeignStep
    \/ SyncStart \/ SyncStep
    \/ WriteStart \/ WriteStep
    \/ Fault
    \/ Owner

Spec == Init /\ [][Next]_vars

\* The poll loop keeps polling, and an operation under way makes progress.
Fairness == WF_vars(SyncStart) /\ WF_vars(SyncStep \/ WriteStep)

FairSpec == Spec /\ Fairness

-----------------------------------------------------------------------------
(* Properties.                                                              *)

\* What the cache c holds for h is what the wire holds: the row of the item
\* there, or no row but one that a full resync kept.
Agrees(c, h) ==
    IF wire[h] # Absent /\ wire[h].kind = "item"
    THEN c.rows[wire[h].uid] = [href |-> h, body |-> wire[h]]
    ELSE UidsAt(c, h) \subseteq kept

\* Rows and sidecars stay well formed through every order of upserts,
\* evictions, sweeps and rollbacks: one row per href, and the orphan mark on
\* exactly the sidecars whose item is gone (upsert_item, _evict_uid,
\* delete_item_by_href, orphan_sidecar, set_sidecar).
CacheSound == CacheOK(db)

\* The recorded token never claims more than the cache holds: an href that has
\* not changed since the token was issued is cached as it is on the wire,
\* whatever other clients did while the pass that recorded it was reading,
\* and whichever reads and operations failed since.  (_apply_incremental and
\* full_resync hold the token back for an unread href, or drop it.)
CoherentSince == \A h \in Href : changedAt[h] <= token => Agrees(db, h)

\* The sidecars this step deletes are of UIDs gone from the wire.
GcSparesTheWire ==
    \A u \in UID : db.side[u] = "aged" /\ db'.side[u] = "none" =>
        ~\E h \in Present : /\ changedAt[h] <= token'
                            /\ wire[h].uid = u
                            /\ wire[h].kind \in {"item", "poison"}

\* gc_orphans is the only irreversible deletion of what the owner set: it never
\* takes the sidecar of a UID that, as of the token the same transaction
\* records, a task or an unreadable resource on the wire still has.
GcTakesOnlyTheGone == [][GcSparesTheWire]_vars

\* A step of ours that removes a resource: the request of the operation under
\* way does it, while steps of other clients leave pc alone.
WeRemove(h) == pc' # pc /\ wire[h] # Absent /\ wire'[h] = Absent

\* delete_task's second DELETE is conditional on a revision the cache has never
\* seen: it still only ever destroys the task it was asked to delete, or a
\* resource that is neither a task nor an event.
DeletesOnlyItsOwn ==
    [][\A h \in Href : WeRemove(h) /\ wire[h].kind = "item" => wire[h].uid = op'.uid]_vars

\* Once other clients stop writing and requests stop failing, the poll loop
\* brings the cache to what the wire holds, and it stays so: no change is ever
\* passed over for good.
Converges == <>[](\A h \in Href : Agrees(db, h))

-----------------------------------------------------------------------------
(* Why it holds: what a pass knows of each href while it is under way.       *)

\* h is as the REPORT of the pass saw it.
AsReported(h) == changedAt[h] <= pass.newToken

\* A full resync has every settled resource right, and remembers whether it
\* could read it.
FullPassInv ==
    /\ pass.todo \subseteq pass.listed
    /\ \A h \in Href : AsReported(h) =>
        /\ h \in pass.listed <=> wire[h] # Absent
        /\ h \in pass.listed \ pass.todo =>
            /\ wire[h].kind = "poison" => pass.skipped
            /\ \/ pass.unread
               \/ IF wire[h].kind = "item"
                  THEN work.rows[wire[h].uid] = [href |-> h, body |-> wire[h]]
                  ELSE UidsAt(work, h) = {}

\* What an incremental pass did not have to read stays as it was, and what it
\* read is right.
WorkAgrees(h) ==
    IF wire[h] # Absent /\ wire[h].kind = "item"
    THEN work.rows[wire[h].uid] = [href |-> h, body |-> wire[h]]
    ELSE UidsAt(work, h) \subseteq StillKept(work)

IncrementalPassInv ==
    /\ token # NoToken
    /\ token <= pass.newToken
    /\ \A h \in pass.todo \cup pass.removed : changedAt[h] > token
    /\ \A h \in pass.todo : AsReported(h) => wire[h] # Absent
    /\ \A h \in pass.removed : AsReported(h) => wire[h] = Absent
    /\ \A h \in Href \ (pass.todo \cup pass.removed) :
        AsReported(h) /\ (pass.unread => changedAt[h] <= token) => WorkAgrees(h)

PassInv ==
    pc = "sync" =>
        /\ pass.newToken \in Nat
        /\ pass.newToken <= clock
        /\ pass.unread => pass.skipped
        /\ \A u \in UID : work.side[u] = "none" => db.side[u] = "none"
        /\ pass.full => FullPassInv
        /\ ~pass.full => IncrementalPassInv

\* A row is dropped only when its resource is gone or has changed.
DropInv ==
    pc = "drop" => wire[op.href] = Absent \/ changedAt[op.href] > token

\* The inductive invariant of the engine.
IInv ==
    /\ TypeOK
    /\ ServerInv
    /\ CacheOK(db)
    /\ CacheOK(work)
    /\ token <= clock
    /\ CoherentSince
    /\ PassInv
    /\ DropInv

=============================================================================
