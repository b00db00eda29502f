# A TLA+ verification of Smylte

Smylte is a self-hosted task and calendar application on top of a CalDAV
server, Radicale. Its backend, `smylted` (Python, `src/backend/smylted/`), is
one CalDAV client among several: it mirrors the collections of the server into
SQLite, answers every read from the mirror, and writes to the server on the
owner's behalf, while phones and desktop clients write to the same collections
behind its back. Beside the mirror SQLite holds a *sidecar*, what only Smylte
knows about an item and what no resync can rebuild.

What can go wrong in such a program goes wrong between two requests: another
client writes, an answer is lost, the process dies, a pass fails half way. This
directory models those parts, checks them with TLC on small instances, and
proves the most important properties for every size with TLAPS.

- [1. The system](#1-the-system)
- [2. The modules and the code](#2-the-modules-and-the-code)
- [3. What the runs check](#3-what-the-runs-check)
- [4. Fairness](#4-fairness)
- [5. What is proved](#5-what-is-proved)
- [6. Where the code departs from what is said of it](#6-where-the-code-departs-from-what-is-said-of-it)
- [7. What is not modelled](#7-what-is-not-modelled)
- [8. Plan](#8-plan)
- [9. Running it](#9-running-it)

## 1. The system

`service.py` holds one `RLock`; every operation that touches SQLite or the wire
takes it, so operations of smylted do not interleave with each other, except
where one gives the lock up on purpose or reads something before it takes it.
Nothing excludes the other CalDAV clients, and nothing but an HTTP status says
whether a request took effect.

| component (source) | state | operations | what is hard | what makes it correct |
|---|---|---|---|---|
| **Sync engine** (`sync/engine.py`, `db/store.py`, `dav/client.py`) | `items`, `sidecar`, `sync_state.sync_token` of a collection; the collection on the wire | `sync`, `_apply_incremental`, `full_resync`, `_multiget`, `create_*`, `_edit`, `delete_task`, `gc_orphans` | other clients write between the REPORT and the reads; a read fails; a 412 is retried against a body the cache never saw; the answer to a write is lost | the token never claims more than the cache holds; one row per href, keyed on UID; sidecars are reclaimed exactly when their item is gone for good; the cache converges |
| **Moves** (`engine._move`, `service.move_task`, `move_event`, `store.move_task_refs`) | two collections, their caches and sidecars, the subtree being moved | copy, delete, rollback, adoption of an earlier copy, re-pointing of refs | two requests and a transaction with no record that a move is under way; retries that find their own leftovers, or somebody else's resource | no revision is destroyed that was not copied; what the owner set follows; nothing stays in two lists |
| **Bookings** (`service.book_slot`, `_recover_orphaned_booking`, `engine.create_event`, `store.bookings`) | booking links, `bookings`, the calendars, the cache of them | request, replay, recovery, edit of a link | the check reads a cache that lags; the event is written before the record; visitors ask again | no two confirmed bookings overlap; a confirmed booking is on the calendar; one booking per client id |
| **Slots of a link, free time** (`scheduling.py`, `service.py`, `mcp/api.py`) | none | availability, buffers, notice, horizon, time zones; the gaps the connector reports | repeated and skipped hours; floating, UTC and repeating events in one text-ordered cache | a slot offered can be booked; no time given away is the owner's |
| **Recurring-event edits** (`ical/edit.py`, `engine.split_event`) | a series with overrides and exclusions; head and tail resource | edit or delete one occurrence, the series, this and following | each edit must carry along what it does not name; the head's write may or may not have landed | an edit changes what was asked and nothing else; occurrences are neither lost nor doubled; a failed edit leaves nothing |
| **Task edits** (`service.edit_task` and what it calls) | a tree of tasks; the remembered missed deadline | edit, complete, reopen, re-parent, auto-close of parents, record of a missed deadline | one PUT per task of the tree; the record is written column by column after the task | the record is the first deadline missed; a parent is closed exactly when its last child is |
| **Day plan and habits** (`service.py`, `db/store.py`) | `day_plan`, entries, habits, what was stated of a day | open a day once, add, tick, drop, estimate, roll, begin a day | a roll gives the lock up twice; the first write of a day need not be its opening | an entry is on one day; the snapshot is written once; a finished day stands |
| **Focus clock** (`service.py`) | the session of a day: phase, anchor, cursor | start, pause, advance, skip, end, settle | requests read the wall clock before they wait for the lock; two windows end one phase | a phase credits at most its length; a boundary is crossed once |
| **Notifications** (`notify/scheduler.py`, `rules.py`) | the delivery ledger | claim, send, settle, release, daily ceiling | death between any two of them; lost answers, after which a message is posted again; sweeps of any length | nothing said twice but by a repeated POST, at most the ceiling, nothing falls between two sweeps unless its window is shorter than the time between them |
| **Mail pipeline** (`mail/pipeline.py`, `review.py`) | message ledger, cursor, suggestions, threads | claim, classify, settle, release, recover, merge, approve, dismiss | death while a message is claimed; a folder numbered anew; two approvals race | a message is decided once, a suggestion becomes one task, none is lost |
| **OAuth for MCP clients** (`mcp/oauth.py`, `routes.py`) | clients, codes, access and refresh tokens | register, approve, redeem, rotate, revoke, purge | reuse of a code or of a rotated token; a full table; a change of the password | reuse revokes the family and nothing else does; earlier credentials open nothing |
| **Displays and shares** (`service.py`, `db/store.py`, `share.py`) | one row per token; the collections discovery last found | edit, rotate, switch off and on, view | collections come and go and return under the same slug | only what was chosen is shown, only through a live link |
| **Sweep and collection lifecycle** (`service.sync_all`, `close`, collection create and delete) | `collections`, the closed flag | one slice of the lock per collection | a collection vanishes or returns between slices | no slice works on what has been closed or deleted |
| **Edit merge**, **recurrence** (`ical/edit.py`, `recur.py`, `rrule_budget.py`) | none | apply named fields to a fresh copy; expansion in a window | overrides, exceptions, budget exhausted | fields nobody named survive; equal to the unbounded expansion |
| **Sessions and rate limits** (`auth.py`, `limits.py`, `access.py`) | sliding windows | attempt, lockout, sweep | the ends of a window | at most the limit in any window |
| **HTTP routes, change feed** (`app.py`), **MCP tools** (`mcp/tools.py`, `api.py`) | subscribers of the feed | translate calls | | none of their own |
| **Mail parsing** (`mail/message.py`, `imap.py`, `llm.py`) | none | parse, classify | | text in, text out |
| **Web front end** (`frontend/src/data.tsx`, `cache.ts`) | optimistic copies, generations | act, answer, refresh | answers land after newer actions | the newest action wins |
| **Android and desktop shells, firmware, deployment** | | | | platform glue |

Components call downwards only: routes, tools, the poll loop, the notification
loop and the mail runtime call the service; the service calls the engine and
the store; the engine calls the store and the CalDAV client. What flows back
are change events to the front end and exceptions. The components meet in three
places: the service's lock, the tables of SQLite, and the wire.

`PROJECT.json` lists the same components with their status, and the hazards of
this code at their lines, with the properties that cover them.

## 2. The modules and the code

```
Resource -- Radicale --+
    |                  +-- SyncEngine -- MCSyncEngine, SyncEngineProofs
    +------ ItemCache -+
                +---------- TaskMove --- MCTaskMove, TaskMoveProofs

Booking, Slots -- BookingPages    MailStore -- MailPipeline -- MCMailPipeline
BookingPages -- MCBooking           Inbox  <- refines -+------ MailProofs
BookingPages -- BookingProofs
Series -- SeriesEdits -- MCSeriesEdits      Sharing -- MCSharing
Sharing, SeriesEdits -- CalendarProofs      Grants -- MCGrants, GrantsProofs
Owner -- DayPlan, Tasks            DayPlan -- MCDayPlan     Tasks -- MCTasks
DayPlan, Tasks, FocusClock -- DayProofs    FocusClock -- MCFocusClock
Notifications -- MCNotifications, NotificationsProofs
```

**`Resource`** says what a CalDAV resource is to Smylte: a body at an href. Of a
body it keeps its UID, whether smylted can read it (`item`, `other` for a
component it does not track, `poison` for bytes it cannot extract or store, some
of which it can still parse and edit), and a version that tells two contents
apart. An etag in Radicale is a hash of the content, so comparing etags is
comparing bodies, and a client that restores old bytes restores the old etag.

**`Radicale`** is the server as `dav/client.py` uses it: a conditional PUT and
DELETE (`If-Match`, `If-None-Match: *`), the 409 for a UID that another resource
has, and the sync-collection REPORT. A sync token is a position in the
collection's history; the REPORT answers, atomically, which hrefs changed or
went since. Other clients put and delete anything at any href, with the same UID
or another.

**`ItemCache`** is what the SQL of `db/store.py` does to the rows of one
collection: `upsert_item` with the eviction of the href's former UID and of the
row's former place, `delete_item_by_href`, `orphan_sidecar`, `set_sidecar` with
its guard, `gc_orphans` and its seven days. It is a record of two functions and
has no variables, so that the engine can apply it to a transaction's view and
publish or drop that view.

**`SyncEngine`** is one collection. Each operation of `sync/engine.py` is a
sequence of requests and each request is one action; `pc` is the request that
comes next. Between any two of them other clients act (`ForeignStep`), a
request gets no answer or the process dies (`Abort`), or one read of a batch
fails (`Unread`).

| code | actions |
|---|---|
| `sync`: the REPORT with a token, or the enumeration without one | `SyncIncremental`, `SyncFull` |
| `_multiget` and its per-href fallback, `_upsert_body`, `_drop_uncacheable` | `Read`, `Apply`, `Unread` |
| the transaction that ends `_apply_incremental` | `CommitIncremental` |
| the sweep, the claimed UIDs, `gc_orphans` and the token in `full_resync` | `CommitFull`, `SweptUids` |
| `_edit`: first PUT, the GET after a 412, the second PUT | `EditSend`, `EditReread`, `EditResend` |
| `delete_task`: the same shape | `DeleteSend`, `DeleteReread`, `DeleteResend`, `DeleteDrop` |
| `create_task`, `create_event`: PUT, and the GET of the occupant after a 412 | `CreateSend`, `CreateReread` |
| `_refresh_from_wire` | `Refresh` |
| a pin, a park, a reorder; seven days | `MarkSidecar`, `AgeOrphan` |

A pass reads all its bodies and then applies them in one transaction. Applying
a body touches nothing but the cache, which nothing else touches meanwhile, so
the model applies it to `work` when it reads it and `CommitIncremental` or
`CommitFull` publish `work`; that leaves out interleavings nobody can observe.

**`TaskMove`** is two or more lists that each have resources, rows and sidecars.
The twelve values of `pc` are the requests of one `engine._move` and the two
transactions after them: `Get`, `FindCopy` (the source is gone: did an earlier
DELETE land?), `Put`, `OwnCopy` for tasks, `FindMovedCopy` and `AdoptMovedCopy`
for events, `Delete`, `AskGone` (what a lost answer to the DELETE is followed
by), `Undo`, `Finish`, `Refresh`, `Refs`. The service's part is `StartTaskMove`
(the subtree from the cached parent links, deepest first, its guard on what the
target holds already, the link to a parent that stays behind) and `Refs`
(`move_task_refs`, and the reminder that `move_event` carries). Lost answers,
unanswered requests and crashes are the four fault actions. The sync passes
between two moves are one action per href, since `SyncEngine` has them in full.
Three history variables say what the properties are about: `live` is what a move
must not destroy, `pinned` the UIDs the owner set something about, `stranded`
those it was cut off from in a way nothing later can notice.

**`Booking`** is `book_slot`: `Request` (the ledger, the cached event and the
busy check), `Recover` (`_recover_orphaned_booking`), `Put`, `Reread` (the
occupant of a 412), `Refresh`, `Record`, and around them `BreakOff`, `Foreign`,
`Sync` and `EditLink`. A slot stands for the interval an event occupies, and
`Overlap` for the comparison of intervals with their buffers; an event that
blocks nothing (all day, free, cancelled) is at a time no slot overlaps.
`held` are the confirmed bookings whose event nobody has changed since, and
`disturbed` the clients whose attempt broke off or whose event another client
changed before the record was made. Which slots are offered is a pure question,
and a module of its own:

**`Slots`** has the arithmetic of `scheduling.py` and of `find_free_time` over
integer instants: zones whose clock changes once, availability windows cut into
slots, the textual prefilter on the cache, durations, floating times, repeating
and unreadable events, buffers, notice and horizon; and the page a visitor sees
beside the check that books. Merging busy intervals and searching them by
bisection is set union and overlap. **`BookingPages`** puts the two beside each
other, with what an open page and the connector promise; `MCBooking` evaluates
them over enumerated calendars.

**`Series`** is a recurring event as data: a rule with a step and an end or a
count, exclusions, added times, overrides, ranged overrides; and, as operators,
the occurrences it shows and what each edit of `ical/edit.py` makes of it.
**`SeriesEdits`** is the exchange around one such edit: `Ask`, `PutTail`,
`WriteHead`, `Reread`, `Undo`, `Refresh`, among other clients' writes, lost
answers and crashes.

**`MailStore`** holds one operator per statement or transaction of the mail
tables; **`MailPipeline`** is the scan (`select`, `search`, `next`, `parse`,
`stages`, `write`, `auto`, `cursor`), the approvals, each a swap of the
suggestion's state, a write to the server and a settlement, and around them
expunged and renumbered mail, failures of the model or the connection, stops,
crashes and restarts. **`Inbox`** is what it promises, without claims, strikes,
cursors and retries: one final verdict per message, one card with the verdict
that asks for it, one answer per card. `MailPipeline!Abstract` instantiates it
with `verdict <- Verdict, card <- Card`, two functions of the ledger and of the
suggestions; `ImplementsInbox` is `Abstract!Spec`, checked by a run and proved.

**`Notifications`** is the sweep: `Begin` (the rules' plan), one `ClaimNext` per
item, `Send` (the next group and whether it makes a sound), `Post` and `Answer`
for each attempt of `TelegramSender._post`, `Settle`, `EndSweep`, with the
windows of each kind of rule, batches and the ceiling. When no answer comes, or
one that is not Telegram's, the message is posted again, up to `MaxAttempts`
times, whether Telegram took the first one or not: `outbox` is what it took. A
`Crash` may fall between any two steps, the owner turns the switches of the
settings, and `Tick` lets a sweep last as long as it likes. `gap` is the longest
time from the beginning of one sweep to the next since the process watches.

**`DayPlan`** is the rows of each day, one sequence per thing, and every write
to them; `roll_entry` is three actions (`RollRead`, `RollAdd`, `RollStamp`)
because it holds the lock three times. **`FocusClock`** is the session of one
day; a request reads the wall clock (`Ask`) and is served later. **`Tasks`** is
`edit_task`: the checks before the lock, the PUT, the two column writes of the
missed deadline (`StampDue`, `StampMoved`), and one `Climb` per parent closed.
**`Owner`** is what `DayPlan` and `Tasks` share: the tasks, the calendar day and
the bound on requests. The two and `FocusClock` name their specifications apart
(`PlanSpec`, `TasksSpec`, `Spec`), so that `DayProofs` can extend all three.
**`Grants`** is the authorization server as its clients use it; each handler
runs under the lock but commits more than once. **`Sharing`** is the rows of
shares and displays, the collections of the server and what discovery last found
of them, and what each link would show (`Visit`, `DisplayView`, `ShareDto`).

The `MC` modules give constants their values and name the symmetries. The
modules whose name ends in `Proofs` hold the theorems and their proofs.

Definitions marked `Mutant:` are the code with a plausible bug in it (a guard
dropped, a token advanced too early, a rollback forgotten). No specification
uses them; each is there to show that a property is not true of just any
program. `PROJECT.json` pairs each property with the mutant that breaks it.

## 3. What the runs check

Every bound is a constant that appears in a guard: `MaxClock` and `MaxForeign`
(what other clients do), `MaxOps`, `MaxDeeds`, `MaxEdits`, `MaxRequests` (what
the owner does), `MaxFaults`, `MaxTrouble` (requests without an answer, failed
reads and crashes), `LastDay`, `MaxTime`, `Horizon` (time).

| run | instance | states | what it shows |
|---|---|---|---|
| `sync` | 2 hrefs, 2 UIDs, 2 versions, any initial collection; 1 write of others, 2 operations of the owner, 1 fault | 576,000 | `CacheSound`, `CoherentSince`, `GcTakesOnlyTheGone`, `DeletesOnlyItsOwn`, `Converges`: the cache stays well formed, the recorded token never claims more than the cache holds, `gc_orphans` never takes what the owner set about a task that is alive, the retry after a 412 destroys no task or event but its own, and after the last disturbance the cache becomes, and stays, what the wire holds |
| `move` | one UID, 2 lists, 3 writes of others, 2 faults; `v3` is `v1` written again, with other bytes and the same meaning | 1,653,000 | `NothingLost`, `RefsFollow`: a move destroys nothing it did not copy, and what the owner set about the task follows it however the move ended |
| `move_tree` | a task and its subtask, 1 fault, nobody else | 117,000 | `MovesComplete`: a subtree that was moved half way is finished by the next attempt |
| `booking` | 2 visitors with overlapping wishes, one asking through both links, 2 calendars, an event of the owner, 2 changes of others, 1 edit, 1 fault; and, evaluated beside, every link of `MCLinks` against every calendar of `MCCalendars` on both sides of a clock change | 233,000 | `OnlyBrokenOffOverlap`, `BookingIsOnTheCalendar`, `OrphanRecovered`, `OfferedIsBookable`, `TimeGivenIsFree` |
| `mail` | 7 mailboxes of up to four copies, one message per run, one window beside the automatic approver, up to two troubles | 488,000 | `PassedIsDecided`, `OnePlace`, `ApprovedIsWritten`, `ImplementsInbox`, `EveryMessageDecided` |
| `notify` | 6 items, one for each kind of rule, a day and a half, two attempts to post a message, one fault or switch | 2,276,000 | `SaidOnce`, `LoudCeiling`, `NothingSlips` |
| `day` | a task, a note, a habit, 3 days, two rolls under way at once | 554,000 | `OneRow`, `RolledArrives`, `PastStands`, `CarriesOn` |
| `focus` | 2 windows, 4 requests, 2 rows, 4 ticks | 534,000 | `CreditIsWork`, `AdvancesOnce` |
| `gate` | 2 clients and room for one, two sets of scopes to ask for, 3 pairs of tokens, one change of credentials | 562,000 | `ReplayEndsGrant`, `EndsWithCredentials`, `ListShowsAll`, `WorkingClientStays` |
| `series` | 54 series, each edited once in every way at every occurrence, one write of another client (a change of an occurrence, the end of the series, its deletion), one fault | 1,569,000 | `EditedAsAsked`, `NothingLost`, `FailsWhole` |
| `sharing` | one share, one display, 3 collections of which two have one slug, 2 changes of the world, 2 of the owner | 725,000 | `SharesOnlyChosen`, `DoorsStayShut`, `OneStory`, `VisitorUnnamed` |
| `tasks` | a chain of four tasks, a parent with two steps, a ring, a task with a deadline; 3 requests, 1 write of others, 1 fault | 2,800,000 | `RecordIsTheFirstMiss`, `FinishedParentsClose` |

Why these bounds. Two of everything is enough for the interesting cases of the
wire: two hrefs so that a UID can move from one to the other while a second UID
takes its place, two UIDs for that, two versions so that a body can change and
change back (which restores its etag), two lists, two calendars, two links. In
`sync` the second operation may start from a cache the first one left behind
when its answer was lost, and the one foreign write may fall before the pass,
between its REPORT and its reads or after the first read; `IInv` is proved
without these bounds. In `move` the three foreign writes let the source change
and change back while the target is taken, and the second fault loses the
question that follows a lost answer. `move_tree` has no other clients because
its question is what retries do with what a fault left. In `booking` a fault and
an edit of the link let an attempt break off, the link point elsewhere, and the
visitor come back. In `mail` two troubles are a crash while a message is claimed
and a renumbering or another crash after it; `MaxInterrupted` is 2 for the code's
3, and `MaxPerRun` 1 for its 100, so that strikes and the cut of a page are
reached. In `notify` a day is four ticks, the loop waits two, a sweep lasts up to
the five ticks of the run, and one loud message is allowed; `MaxAttempts` is 2
for the code's 4, and the one fault may be the answer that is lost. In `tasks` the chain of four is longer than `Depth`. In
`focus` the two overtaking requests leave two more to see what they did. In
`gate` three pairs are an exchange and two refreshes, the shortest history in
which a used token of an older pair exists. In `series` a later split is a first
edit of another of the 54 series, so one edit per behaviour is enough.

Symmetry is used in runs without liveness only: `MoveSymmetry` renames lists,
`DaySymmetry` lists and the clients of a roll, `WindowSymmetry` the windows,
`ClientSymmetry` the clients, `MCSymmetry` titles and credentials, of which the
modules never ask more than whether two are equal. A liveness run uses none.

Initial states: of `SyncEngine` all collections another client may have filled,
with an empty database and no token: a first start. `TaskMove` starts with one
list that is cached as it is; which one does not matter, and whatever else a
list can hold, other clients put there. `Booking` starts with empty calendars,
`Sharing` with one share and one display, `DayPlan` without habits, `Tasks` and
`SeriesEdits` with each of the enumerated scenes.

Deadlock is checked in `sync` and `mail`: the poll loop and the mail loop can
always start again. The other systems really may stop, with everything done and
every bound used up, and say `CHECK_DEADLOCK FALSE`.

## 4. Fairness

- `SyncEngine!FairSpec`: weak fairness of starting a pass, because the backend's
  `_sync_loop` calls `sync_all` for ever, and of the step of the operation under
  way, because each request has a timeout and then answers or raises. Other
  clients, faults and the owner are not fair. `MaxFaults` makes faults stop;
  convergence could not be expected otherwise.
- `TaskMove!FairSpec`: weak fairness of the move under way, and strong fairness
  of asking again for a move that left something in two lists: the owner sees
  the task in both and drags it again. Strong, because another move or a fault
  may make the request impossible for a moment. It is an assumption about a
  person, not about the code: `MovesComplete` says that asking again is enough,
  not that the code retries by itself, which it does not.
- `Booking!FairSpec`: weak fairness of the booking under way and of each sync
  pass (the poll loop again), and strong fairness of each visitor's request: a
  visitor who saw an error asks again. `OrphanRecovered` says that asking again
  is enough.
- `MailPipeline!FairSpec`: weak fairness of the scan (its loop runs for ever and
  every question has a timeout), of each approval under way and of the restart
  (the process is a service of the init system). The owner owes nothing, and
  neither does the mailbox.

## 5. What is proved

TLAPS checks every obligation of the eight proof modules, for any sets of hrefs,
UIDs, versions, lists, links, calendars, visitors, slots, messages, windows,
clients, shares and so on, for any lengths and lifetimes, and for any number of
foreign writes, operations, edits and faults. The assumptions are the named
`ASSUME`s of the modules, which TLC evaluates on every run: that `Absent` (or
`None`) is no body, row, slot, calendar or booking; that `Home` is a function
into hrefs, injective where two lists meet; that a version without its parent
link has none and means what its equals mean; that `Overlap` is symmetric; that
the copies of a mailbox are finitely many, and those a search by date does not
reach are told apart by their keys; that phases have a positive length; that a
code lives no longer than an idle client (`CodeTTL <= IdleTTL`) and an access
token no longer than its refresh token; that an allowlist names slugs; that no window of a rule is longer than
the ledger remembers (the lead of an item, the catch-up of bookings, a day, and
twice the interval between sweeps); that bounds are naturals. Of the day they say that tasks,
notes and habits are told apart and finitely many and that estimates and lengths
are numbers; of the tasks, that the scenes to start from are lists of tasks and
that wishes are edits. Of the slots they say that the hours of a link are
windows of a day that do not overlap, its length positive, its buffer and notice
not negative; that an event has a first occurrence and a natural length; that a
clock jumps by half a day at most and one that goes back stays on its date (a
change at midnight does: 24:00 becomes 23:00; what does not is a change just
after midnight, as Newfoundland had it at 00:01 until 2011); and
(`NearAssumption`) that the day by which `_link_busy` widens its range makes up
for what the clocks of the link and of the home zone, or UTC, are apart, plus
the buffer and a jump. No zone is more than fourteen hours from UTC, but two
zones may be up to 26 hours apart: a link in one of the easternmost zones and a
home in one of the westernmost are outside the theorem.

| theorem | statement |
|---|---|
| `SyncEngineProofs!TypeCorrect`, `Inductive` | `Spec => []TypeOK`, `Spec => []IInv` |
| `SyncEngineProofs!CacheSoundness` | `Spec => []CacheSound` |
| `SyncEngineProofs!TokenCoherence` | `Spec => []CoherentSince` |
| `SyncEngineProofs!GcIsSafe` | `Spec => GcTakesOnlyTheGone` |
| `SyncEngineProofs!DeleteIsSafe` | `Spec => DeletesOnlyItsOwn` |
| `TaskMoveProofs!TypeCorrect`, `Inductive` | `Spec => []TypeOK`, `Spec => []IInv` |
| `TaskMoveProofs!LosesNothing` | `Spec => NothingLost` |
| `TaskMoveProofs!SecondInductive` | `Spec => []RInv` |
| `TaskMoveProofs!SidecarsFollow` | `Spec => []RefsFollow` |
| `BookingProofs!TypeCorrect`, `Inductive` | `Spec => []TypeOK`, `Spec => []IInv` |
| `BookingProofs!BookingsDisjoint` | `Spec => []OnlyBrokenOffOverlap` |
| `BookingProofs!ConfirmedIsOnTheCalendar` | `Spec => []BookingIsOnTheCalendar` |
| `BookingProofs!OneBookingPerClient` | `Spec => []OneBookingEach` |
| `BookingProofs!PagesKeepTheirWord` | `Spec => []OfferedIsBookable` |
| `BookingProofs!OwnersTimeIsKept` | `Spec => []TimeGivenIsFree` |
| `MailProofs!TypeCorrect`, `Inductive` | `Spec => []TypeOK`, `Spec => []IInv` |
| `MailProofs!LosesNoMail` | `Spec => []PassedIsDecided` |
| `MailProofs!ProposedOnce` | `Spec => []OnePlace` |
| `MailProofs!WritesWhatWasApproved` | `Spec => []ApprovedIsWritten` |
| `MailProofs!Implementation` | `Spec => ImplementsInbox`, that is `Spec => Abstract!Spec` |
| `GrantsProofs!TypeCorrect`, `Inductive` | `Spec => []TypeOK`, `Spec => []IInv` |
| `GrantsProofs!OnlyMisuseEndsGrant` | `Spec => []ReplayEndsGrant` |
| `GrantsProofs!CredentialsEndGrants` | `Spec => []EndsWithCredentials` |
| `GrantsProofs!ListIsComplete` | `Spec => []ListShowsAll` |
| `GrantsProofs!WorkingIsKept` | `Spec => WorkingClientStays` |
| `DayProofs!TypeCorrect`, `Ordered` | `Spec => []TypeOK`, and the order of boundaries |
| `DayProofs!PhaseEndsOnce` | `Spec => AdvancesOnce` |
| `DayProofs!PaidForAndOnTime` | `Spec => []CInv` |
| `DayProofs!NoTimeIsMadeUp` | `Spec => []CreditIsWork` |
| `DayProofs!PlanInductive` | `PlanSpec => []PlanInv` (`PlanOK` is its types) |
| `DayProofs!OneRowADay` | `PlanSpec => []OneRow` |
| `DayProofs!RolledWorkArrives` | `PlanSpec => []RolledArrives` |
| `DayProofs!DayCarriesOn` | `PlanSpec => CarriesOn` |
| `DayProofs!SaidHolds` | `PlanSpec => []SaidInv` (`said \in [Day -> Ritual]` is in it) |
| `DayProofs!FinishedDaysStand` | `PlanSpec => PastStands` |
| `DayProofs!EditsInductive` | `TasksSpec => []RecordInv` (`TasksTypeOK` is in it) |
| `DayProofs!FirstMissIsKept` | `TasksSpec => []RecordIsTheFirstMiss` |
| `DayProofs!FinishingInductive` | `TasksSpec => []ParentInv` |
| `DayProofs!ParentsAreClosed` | `TasksSpec => FinishedParentsClose` |
| `CalendarProofs!TypeCorrect`, `Inductive` | `Spec => []TypeOK`, `Spec => []IInv` |
| `CalendarProofs!ShowsWhatWasPicked` | `Spec => []SharesOnlyChosen` |
| `CalendarProofs!TakenBackForGood` | `Spec => []DoorsStayShut` |
| `CalendarProofs!ViewsAgree` | `Spec => []OneStory` |
| `CalendarProofs!VisitorStaysUnnamed` | `Spec => []VisitorUnnamed` |
| `CalendarProofs!FailuresAreWhole` | `SeriesSpec => []FailsWhole` |
| `CalendarProofs!NoHalfEdit` | `SeriesSpec => []EditIsWhole` |
| `NotificationsProofs!TypeCorrect`, `Inductive` | `Spec => []TypeOK`, `Spec => []IInv` |
| `NotificationsProofs!NothingSaidTwice` | `Spec => []SaidOnce` |
| `NotificationsProofs!CeilingHolds` | `Spec => []LoudCeiling` |
| `NotificationsProofs!NothingFallsBetween` | `Spec => []NothingSlips` |

**The engine.** `CoherentSince` says: an href that has not changed since the
recorded token is cached as it is. That is not inductive, because the pass that
will record the next token is under way for many steps. `IInv` adds what the
pass knows of every href that is still as its REPORT saw it (`AsReported`): for
a full resync (`FullPassInv`), that it is on the list exactly if it is there,
and once read is either in `work`, or remembered as unread or as poison; for an
incremental pass (`IncrementalPassInv`), that everything it does not have to
read was right already and everything it has read is right now. An href that
changes after the REPORT leaves `AsReported`, and the next token is smaller than
its `changedAt`, so nothing is claimed about it: this is why other clients may
write while a pass reads. `DropInv` is the same fact for a delete: the row it
drops belongs to a resource that is gone or newer than the token. The rest of
`IInv` is that the cache and the view of the pass are well formed (`CacheOK`)
and that UIDs on the wire are distinct, which makes an upsert of one body leave
the row of every other one alone (`UpsertRows`, `AgreedRow`).

`GcIsSafe` follows from `IInv` at the commit: the sweep has applied every
readable body first, which clears the mark of its sidecar, and a body that
cannot be read sets `skipped`, which skips the collection. `DeleteIsSafe` needs
one more invariant (`SeenIsOurs`): what the second DELETE is conditional on is
the operation's own UID or no task or event at all.

**Bookings.** That two bookings do not overlap is not inductive either: the
check reads the cache, so it has to be known what the cache is missing. `IInv`
says that a client nothing has disturbed and who has no booking has left no
trace on the wire or in the cache except for the booking under way (`NoTrace`);
that the event of a confirmed, undisturbed booking is where it was confirmed on
the wire *and in the cache* (`HeldIsCached`), which is what makes the next check
see it; and that the booking under way overlaps none of them (`UnderWay`).

**Moves.** `NothingLost` speaks of one step and what `live` holds there, so the
invariant has to say what every request still to come relies on. `Underway`: the
tasks still to move are cached at the source, each at its own href, and from the
PUT on there is a body in hand. `AllHeld`: what other clients left at either
place is where they left it. `CopySays`: until the source is deleted, and as
long as it is the body that was read, the copy says everything that was left
there; and a copy this move wrote, and nobody replaced, protects nothing, which
is what makes the rollback safe. The lemmas are about `Written` and `SameTask`
(the body without its parent link means what its equals mean), about the least
closed set `Subtree` being cached, and about what an upsert and a delete do to
rows and sidecars.

`RefsFollow` is about the states between moves, and `IInv` knows nothing of
sidecars, so it has a second invariant, `RInv`, which adds `Follows`. Its heart
is `Following`: a task the owner set something about has a live sidecar that no
sync pass will mark, in a list where the rest of the move leaves it alone
(`Safe`), or the source is gone, the copy is there and the refs are on their way
(`InFlight`). Only a DELETE takes a task from the first to the second, and it
needs `CopyThere` for that: the copy is at the target before the source goes.
`OneUidEach` (the server refuses a second resource with a UID) and `Orphaned`
(what is marked has no row) make a live sidecar last through the passes between
two moves; `Apart` says that what the rest of a subtree's move drops or writes
has nobody else's row in its place, which is what keeps the tasks moved first
safe from the moves after them. `OneKind` separates the moves of tasks from
those of events, whose reminders the property does not speak of. TLC checked
`RInv` as an invariant on the bounds of the run `move` before it was proved.

**Mail.** `IInv` says that at most one key is claimed, and that it is the key of
the message in hand; that what a scan has left behind is dealt with and what its
search found is still queued or in hand, so that the cursor may pass it; that an
approval which has made its swap has its suggestion to itself until it settles,
which is what a second approver or a dismissal is refused by; and that an item
on the wire begins with the origin of its suggestion, so that the check an
update makes before it appends looks at the right item. `Implementation` is the
refinement: `VerdictOf` and `CardOf` are computed message by message; every step
of the ledger changes the row of at most one message, and of one that has no
verdict; a staged suggestion brings its card in the same transaction as its
verdict; only an open card is answered. Everything else a scan does, claims,
strikes, cursors, retries, crashes, is a stutter.

**Grants.** Every token of a family bears the credential version its family
began under (`Issued`), so that comparing it with today's ends every grant at
once; a code that can be exchanged has no family yet (`Unexchanged`); a family
that is over has no token (`Over`); and a client still has a used token of its
own only where an answer was lost or it went back to an older state
(`KeepsItsOwn`), which is why a client that does as it is told never sets off
the alarm. A working client stays registered because a code is never older than
a client may be idle.

**Focus clock.** Within a session the place of a boundary in the round of phases
strictly increases, so the boundary that a stale request names differs from the
current one and is refused. `CreditIsWork` sums over the rows, and it says
nothing of the phase under way. `CInv` does: what the rows were credited *and*
what the phase under way may still credit is no more than the focus phases begun
are long (`Paid`), so a settlement only moves seconds from the second to the
first; and as long as no request was overtaken, all that was credited lies
before the latest time a request read and before the anchor (`OnTime`), so what
a settlement adds lies behind it. `Total` counts the credited seconds as a set
of pairs, a row and a second, to which a credit of c adds c new ones
(`CreditSeconds`).

**Day plan.** That a day says one thing about a piece of work rests on how each
of the five ways of putting a row there looks for the rows the others put: by
list and uid. So the rows of a thing, and the rolls under way, have to name one
list, and the one the thing is in now (`Homed`, and its conjunct in `RollsHold`);
a move between lists repoints the rows in one transaction and leaves only what
was being rolled at that moment astray (`strayed`). A roll adds first and stamps
after, so `Arrived` says that a row which was stamped, and `RollsHold` that a
row which is about to be, has something on the other day; rows never go, so it
stays there. `Untouched` (a day nobody opened holds only what was put there by
hand) and the second conjunct of `OneRow` are what lets an opening derive its
rows. `CarriesOn` is a property of one step: the day `_carry_into` chooses is
the latest planned one before, and the rows it makes are those undecided there,
which the proof takes from the four parts of an opening, one lemma each.

`PastStands` compares sums over the rows of a day before and after a step. The
sum is a fold of the community modules, a function on the subsets of a set that
is chosen for its recursion; there is one because otherwise there would be a
least size of subsets on which there is none (`AddsExists`), and it takes out a
term, grows with its set and depends on nothing else for the same kind of reason
(`SumTakesOut`, `SumMonotone`, `AddsAlike`). Of what the steps do, three things
are needed. `Calm`: no step ticks a row of a task, and none adds a habit's row
to a day that is over or fills its estimate there. `SaidInv`: what is recorded
of a day that has not begun is nothing. And who does what (`WhoSays`, `WhoOpens`,
`WhoDecides`): only `SetRitual` says anything of a day, and never of a finished
one; rows that come without a request come by an opening, which keeps those that
are there, so a nudge that added up to too much still does; and the tasks change
by three actions, of which completing stamps today, never a finished day, and
moving takes the rows' lists along with the task's. The record of a day that
begins and the nudge of its length add up different rows; they agree because a
row that is meant and not counted by the nudge is ticked, and no task's row is.

**Tasks.** `Recorded` says of every task but the one being written that its
record is right; `Decided`, that the request under way saw under the lock
whether there is a record to write, and which deadline slipped; `Latest`, that a
slip being recorded is the last one and everything before it was moved, so that
`original_due` and `original_due_moved` agree with it once both columns are
written. `OneMoreSlip` and `CalledOtherwise` are the facts about histories it rests on:
one more slip changes what the record should say just if all before it were
moved, and so does calling it something else. For the parents, `Climbed` says
that everything a climb has closed is settled with all that was in it and that,
as long as nobody else writes, the only parent it can have finished and left
open is the one it looks at next (`SettlesOne`: settling one task finishes no
other than its parent). Then a climb that stops without a fault has stopped
because nothing is left open or because `Depth` is reached. TLC checked the
invariants of both modules on the bounds of the runs `day` and `tasks` before
they were proved.

**Sharing.** A row names only slugs that discovery knows, and where it names a
slug that one collection has, that collection is the one that was picked; this
holds through prunes, deletions, returns and doubled slugs. A token opens one
door at a time and none once it is dead; a share's agreed credentials are those
of its row; a visit whose link is called otherwise than its event has been
retitled. The four properties follow from the invariant in the state.

**Notifications.** None of the three properties is inductive, and each needs a
different thing of the sweep. For `SaidOnce` the ledger may forget a row only
when its occasion can be due no more (`Remembered`): every row is dated no
earlier than its occasion (`Dated`), everything ever claimed still has its row
or is past (`Past`), and what a sweep has planned was due when it began
(`Planned`), so what is planned and has been claimed still has its row and is
not claimed again. The all-clear is the delicate case: its key is the day of the
last alarm, so it is remembered as long as that alarm is, which is why its row is
never older than the alarm's. `InHand` says that what a sweep holds is its own:
unsettled and unsent until its turn, in disjoint batches, and then in no message
but the one under way and the earlier attempts of the same send that were not
heard, which is the exception `SaidOnce` makes. For `LoudCeiling`, `Kept` says that every row of a message
that made a sound today is still there and counts, settled or not, so the sum of
claims a sweep begins with is no less than what was heard, and `Counted` carries
that through the sweep, one message ahead while an answer is outstanding. For
`NothingSlips`, `Pace` says that the loop is never further from the beginning of
its last sweep than `gap`, and `Swept` that everything that came up before that
instant, while the process watched, is claimed or about to be; a window no
shorter than `gap` that closes after it was still open at some sweep. Nothing is
assumed of how long a sweep takes or of how the interval, the leads and the
hours of the owner compare: the condition is part of the property, and section 6
says which settings do not meet it. `LedgerAssumption` is what the proof needs of
constants: the ledger outlives every window, in particular that of a reminder set
a week ahead (`MAX_REMINDER_MINUTES` against `LEDGER_RETENTION`). It holds of the
code's own constants; of the interval, which is a setting, it asks that it be no
more than half a month. TLC checked every part of `IInv` on the bounds of the run
`notify` before it was proved.

**Slots and free time.** These are theorems about operators, and use no
behaviour but that a link is open or not. The page and the booking look at
different stretches of the calendar, and what is cached is compared as text, so
their busy times differ; `WhatBlocks` says that for one slot this does not
matter: an event that can be expanded blocks it exactly if one of its
occurrences, wherever it is written, overlaps the slot with its buffers, for any
range that contains the slot in the link's wall clock (`NearAssumption` is what
the prefilter needs for it). `PageBlocks` and `DayBlocks` apply that to the page
and to the day of the booking. `SlotShape` and `SlotDate` place a slot on the
clock across its change: every moment of it is on the day whose hours it is cut
from, which is where the booking looks for it. That is what `_window_end_utc` is
for: where the clock skips midnight, a window that was ended like any other time
would reach into the next date. For `SlotInHours` every moment of a slot is traced to its window,
with the hour shown twice as the one exception. On the connector's side
`LengthsAgree` says when adding days and hours in the page's order and in the
connector's order comes to the same, `OutOfRange` that whatever the listing
leaves out does not meet the range, and `TimeIsFree` finds for each free stretch
the gap it is in: from the latest end before it to the earliest start after it,
which exist by well-foundedness of the naturals (`LeastFrom`, `GreatestTo`).

**Recurring events.** `FailsWhole` is not inductive: a step that fails must know
that nothing was written before it. `Unwritten` adds that: until the head is
written, the resource is what it was when the request was made, whichever
reading, writing or undoing of the tail is under way, and a request that failed
is over. The proof is for any series and any edit, since it does not ask what an
edit makes of a series.

`EditIsWhole` is the half of `EditedAsAsked` and `NothingLost` that the protocol
answers for: at every moment the resource is what other clients left (`past`),
or it is that with the edit made and the tail of the same split beside it; after
an edit reported done it is the latter. `EditInv` adds what that rests on: head
and tail are built from one copy, also when another client's write makes the
edit start over, the tail is put before the head, and nothing but a split has a
tail. What is left for the run is what the two parts show on a calendar.

**Left to TLC.** `Converges`, `MovesComplete`, `OrphanRecovered` and
`EveryMessageDecided` are liveness properties under fairness, which this prover
does not reach. `EditedAsAsked` and `NothingLost` of `SeriesEdits` are about
what enumerating operators compute from a series, and are checked over bounded
series; `NoHalfEdit` proves the part of them that is about the order of the
requests.

## 6. Where the code departs from what is said of it

No run ends in a counterexample: the properties are stated with the exceptions
the code really has, and the exceptions are variables or definitions with a name
(`stranded`, `disturbed`, `overtaken`, `strayed`, `unstamped`, `relabelled`,
`Excepted`). What each stands for, and other places where a sentence of the
repository and the code differ:

- *Sync.* A full resync keeps the row of a UID whose href is gone when an
  unreadable resource claims the UID; when that resource is deleted, the
  incremental pass finds no row at its href, and the kept row stays until the
  next full resync, though the token is current (`_drop_uncacheable` says a
  replay from scratch reaches the same state). `_edit` re-applies an edit after
  a 412 to whatever task or event is at the href, without comparing UIDs
  (`engine.py:898`); `delete_task` does compare, but a resource of a kind
  smylted does not track passes the comparison.
- *Moves.* `_adopt_moved_copy` overwrites another client's event with the same
  UID at the target; tasks take the other path, `_own_copy`, for which
  `NothingLost` holds. When a move finds its source gone and cannot re-read the
  copy, it re-points the sidecar to a list that has no row for it
  (`service.py:1293`); if the copy is deleted before a pass caches it, nothing
  marks that sidecar and `gc_orphans` never takes it. A move of a task whose
  cached row is stale, because another resource holds its href by now, moves
  that other resource: `_move` does not compare the UID of the body it read.
- *Bookings.* The recovery of a booking that broke off after its event was
  written does not look at the busy times again (`service.py:1842`), so it
  confirms a slot that another visitor was given while the cache did not have
  the event yet. Without a broken-off attempt or another client's hand in it,
  bookings never overlap (proved). `disturbed` also covers a visitor whose retry,
reading a cache that lags, names another slot than the event of the attempt that
broke off.
- *Slots when the clock goes back.* The start of a window is combined with the
  date as the first of two showings, and nothing corrects it as
  `_window_end_utc` corrects the end. A window that begins within the repeated
  hour is cut into slots from the first showing on, so that during the second
  some are offered at a time of day before the window (hours from 01:30 in New
  York offer 01:00 on the day in November). `InHours` names that case; at every
  other moment a slot lies in the owner's hours.
- *Free time.* `find_free_time` compares its range, un-widened, with times
  written in UTC (`Overlooked`), computes gaps in wall-clock time across a
  change of the clock (`Steady`), adds the hours of a DURATION before its days
  where the page adds the days first (`Straddles`), and shows of a rule that
  cannot be expanded the first occurrence only (`Computable`); its docs call
  reporting occupied time as free the worse error. For a page,
  `TimeGivenIsFree` assumes that the clocks of home and link are no further
  apart than the prefilter's day allows (`NearAssumption`).
- *Recurring events.* An occurrence that was moved twice, a split at an added
  time that is not on the rule, a ranged override taken past the next one, and a
  412 retry that brings back an occurrence another client excluded are excepted
  from `EditedAsAsked` (`edit.py:1612`, `2105`, `_detach_thisandfuture`).
- *Tasks.* The record of a missed deadline is two writes after the task's own; a
  crash between them leaves it out (`unstamped`). A record the owner relabels
  later names another deadline than the first one (`relabelled`). The comment at
  `service.py:1105` that the next tick finds the same siblings settled holds for
  edits that settle only.
- *Mail.* A message merged between an approval whose answer was lost and its
  retry is never written to a task or an event (`review.py:277`).
- *Notifications.* `_last_stall` answers with the newest row whatever became of
  it, so an all-clear can follow an alarm nobody was sent (`rules.py:915`).
  `schema.sql:604` says of a notification that it "must never arrive twice", but
  `telegram.py:217-232` posts `sendMessage`, which has no idempotency key, again
  after a timeout, a reset connection, an answer that is not JSON or a server
  error, up to four times, so that a message whose answer was lost can arrive
  up to four times. `SaidOnce` says that nothing else can. The comment of
  `late_floor` (`rules.py:585`) says that every moment falls in one sweep's window
  however long a sweep took, and its next sentence takes it back: a sweep that
  begins more than `ZERO_LEAD_MAX_LATE` after the one before leaves the moments
  in between unsaid. So does any window shorter than the time between two
  beginnings, which is the interval plus the length of a sweep: a lead of one
  minute (`rules.py:517-523`) at the default interval of 60 s, a digest or an
  evening rule at 23:59 (`rules.py:202`, `226`), whose window ends with the day,
  and most leads under a long `SMYLTE_NOTIFY_INTERVAL`, which
  `app.py:1352-1363` does not bound from above.
- *Grants.* A code carries no credential version; the exchange stamps the one of
  that moment (`oauth.py:636`). A code approved before a change of the password
  and redeemed after it, within its lifetime, opens a grant under the new
  credentials. `EndsWithCredentials` counts a grant from its exchange (`begun`),
  so it does not speak of that.
- *Day plan.* `set_day_ritual` computes what it wrote before it adds
  `committed_at`, so a request that carries only `committed` writes and publishes
  no `day_updated` (`service.py:2784`). `_over_at_commit` and `schema.sql` say
  that the nudge of an overfull day leaves rows out that are done;
  `rules.py:799` tests a stamp that rows of tasks never carry (`NudgesAgree`
  says what is true). Between the steps of a roll the row can be dropped and
  taken back, or the task moved (`strayed`), though the comment near
  `service.py:2896` says nothing that matters can race in.
- *Focus clock.* `now` is read before the lock (`service.py:4937`), so an
  overtaken request credits time twice (`overtaken`).
- *Sharing.* A booking whose record was lost and whose link was renamed or
  deleted is named on a share (`service.py:4620`). A collection that is replaced
  between two discoveries is the same to Smylte (`schema.sql:750`).

## 7. What is not modelled

Inside the modelled components:

- *Engine*: the bytes of a resource (a version stands for them); a collection's
  items are all tasks or all events; categories and the search index, written
  and dropped with their row; sync tokens the server has pruned (`SyncFull` may
  happen at any time, which includes that).
- *Moves*: the day plan, mail thread and reminder ledger rows that
  `move_task_refs` re-points in the same transaction; a collection that vanishes
  between two moves.
- *Bookings*: a foreign resource at the file name a client id determines (it is
  a hash), cancellation, rate limits; of `Slots` the cap on the number of slots
  and the range of dates.
  Times with an offset or a TZID other than UTC (their instant is computed by the
  library), and an all-day event whose end is its start, are not among the cases.
- *Series*: zones, all-day events, lengths, the parts of a rule that select days;
  other clients change occurrences, end the series or delete it, and do not change
  its rule otherwise.
- *Tasks*: texts, priorities and tags; parking (it touches the sidecar alone). An
  edit carries one field: a request that changes the due date and settles the task
  at once, whose record is written before the climb (`service.py:924-944`), is the
  sequence of the two.
- *Mail*: prompts and texts (a message's nature says what the stages make of
  it); more than one folder; a thread whose task is closed.
- *Notifications*: wording, UTC and clock changes. Within a sweep time passes
  while the rules are evaluated and while a request is under way, not between two
  writes to the ledger; what ends (a meeting is cancelled, the sync works again)
  ends between two sweeps.
- *Day plan*: the order of rows, closing stamp and reflection, renaming and
  rescheduling a habit; the sidecar write and the insert of `add_day_entry` are
  one step.
- *Focus clock*: changing its settings during a session.
- *Grants*: throttling; at the consent redirect URI, PKCE and audience are taken to
  succeed; at the exchange redirect URI and PKCE may fail, which consumes the code.
- *Sharing*: times, order, nesting, the drawing of a frame, entity tags, the
  truncation of long lists.

Whole components, with the reason, are in `PROJECT.json` with the status
`not_modelled`. Two of them hold hazards of the kind this project is about and
come first in the plan: the sliding window and lockout of `auth.py:80`, and the
stale answer that overwrites a newer optimistic state in `data.tsx:764`.

## 8. Plan

Done: the modules above and the proofs of the engine, moves, bookings, mail,
slots, grants, the focus clock, the day plan, task edits, sharing, notifications
and failed edits of a series.
Next, in this order:

1. **`Reservations`**, the ledger of a booking page as its visitors see it,
   refined by `Booking` where nothing breaks off; **`Mirror`**, the set of
   positions a cache has reached, refined by `SyncEngine`.
2. **`Sweep`**: several collections, one slice of the lock each, deletion,
   recreation and `close()`.
3. The sliding window of the rate limit, and the field-level merge of an edit,
   as operators with a reference definition.
4. The front end's optimistic copies and their generations.

## 9. Running it

```
tlc -workers 2 -config Sync.cfg MCSyncEngine
tlc -workers 2 -config Mail.cfg MCMailPipeline
tlapm SyncEngineProofs.tla
tlapm MailProofs.tla
```

and likewise for the other runs of `PROJECT.json` and the other proof modules.
Each run takes between ten seconds and three minutes; `booking`,
`notify`, `mail`, `tasks` and `series` are the longest. `MailProofs` and `DayProofs` are the
largest proofs and take some minutes from nothing.
