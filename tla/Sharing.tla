------------------------------ MODULE Sharing -------------------------------
(***************************************************************************)
(* service.py and store.py: the links that show something of the owner's   *)
(* data to somebody without a session.  A share goes to a person and names *)
(* the lists and calendars it shows; an empty choice shows nothing.  A     *)
(* display hangs on the owner's wall; an empty choice shows everything.    *)
(*                                                                         *)
(* Both name collections by slug, the last segment of the href, in what    *)
(* discovery last found on the calendar server.  Collections come and go   *)
(* there, by the app and by other clients, and may come back at the same   *)
(* href.  Every handler runs under the service lock from end to end.       *)
(*                                                                         *)
(* A task is known by its state and by whether its body is marked private; *)
(* times, order, nesting and the drawing of a frame are left out.          *)
(***************************************************************************)
EXTENDS Integers, FiniteSets

CONSTANTS
    Href,        \* where collections can be
    SlugOf,      \* the slug of an href; two may have the same
    Kinds,       \* Kinds[h]: the components of the collection at h
    Rank,        \* the owner's order of the collections
    Task,        \* UIDs
    Share,       \* the ids of shares
    Title,       \* what the booking link can be called
    Choices,     \* what the owner may choose: <<lists, calendars>> by slug
    Credential,  \* user name and password of the deployment
    Absent,
    MaxWorld,    \* bound: the changes other clients make
    MaxEdits     \* bound: the owner's edits

ASSUME AbsentAssumption == Absent \notin Href \cup Title \cup Credential
ASSUME ChoicesAssumption ==
    \A c \in Choices : c[1] \cup c[2] \subseteq {SlugOf[h] : h \in Href}
ASSUME RankAssumption == \A g, h \in Href : Rank[g] = Rank[h] => g = h

Slug == {SlugOf[h] : h \in Href}
State == [done : BOOLEAN, private : BOOLEAN]

VARIABLES
    server,    \* the collections on the calendar server
    live,      \* the collections the app knows, not marked deleted
    span,      \* history: how often the app has learned of each
    tasks,     \* tasks[h][u]: the cached task, or Absent
    parked,    \* the tasks set aside, <<h, u>>
    plan,      \* today's task rows, <<slug, u>>
    archived,  \* the calendars put away, by slug
    shares,    \* shares[p]: a row, or Absent
    display,   \* the row of the one display, or Absent
    link,      \* the title of the one booking link, or Absent
    visit,     \* the event a visitor booked, or Absent
    minted,    \* tokens handed out so far
    cv,        \* the credentials in force
    picked,    \* history: what the owner chose in p that is still the same, <<h, span>>
    agreed,    \* history: the credentials under which p was last switched on
    dead,      \* history: tokens taken back
    world, edits

vars == <<server, live, span, tasks, parked, plan, archived, shares, display, link, visit,
          minted, cv, picked, agreed, dead, world, edits>>

ShareRow == [token : Nat, lists : SUBSET Slug, calendars : SUBSET Slug,
             focus : BOOLEAN, enabled : BOOLEAN, cv : Credential]
\* An event names its visitor after the title its link had; recorded says whether
\* the ledger has its UID.  History: whether the link has been called otherwise since.
Visit == [at : Href, title : Title, recorded : BOOLEAN, retitled : BOOLEAN]
DisplayRow == [token : Nat, lists : SUBSET Slug, calendars : SUBSET Slug, enabled : BOOLEAN]

\* What is no row is none; the summary of an event is no title.
ASSUME RowAssumption ==
    /\ Absent \notin State /\ Absent \notin ShareRow
    /\ Absent \notin Visit /\ Absent \notin DisplayRow
    /\ \A t \in Title : t \notin Visit

-----------------------------------------------------------------------------
(* What is shown.                                                           *)

\* The live collections an allowlist names.  A slug two of them have names neither.
Chosen(kind, wanted) ==
    {h \in live : /\ kind \in Kinds[h]
                  /\ SlugOf[h] \in wanted
                  /\ \A g \in live : SlugOf[g] = SlugOf[h] => g = h}

\* The collection a slug leads to elsewhere: the first, if it holds tasks.
ResolveList(s) ==
    LET named == {h \in live : SlugOf[h] = s}
        first == CHOOSE h \in named : \A g \in named : Rank[h] <= Rank[g]
    IN  IF named # {} /\ "task" \in Kinds[first] THEN first ELSE Absent

OpenTask(h, u) == tasks[h][u] # Absent /\ ~tasks[h][u].done

\* A task as a share shows it: where, which, whether ticked, whether by name.
TaskShown(h, u) == [list |-> h, uid |-> u, done |-> tasks[h][u].done, named |-> ~tasks[h][u].private]

ShareLists(row) ==
    {TaskShown(r[1], r[2]) : r \in {r \in Chosen("task", row.lists) \X Task :
                                    OpenTask(r[1], r[2]) /\ r \notin parked}}

ShareCalendars(row) == {h \in Chosen("event", row.calendars) : SlugOf[h] \notin archived}

\* Mutant: the ledger is not asked, the summary alone decides.
TitleOfSummary(h) == IF link = visit.title THEN link ELSE visit

\* The title of the visitor's event in calendar h: that of the link its booking
\* was made through, or the part of its summary a link's title accounts for.
\* The event itself stands for its summary, which names the visitor.
ShareEventTitle(h) ==
    IF visit.recorded \/ link = visit.title THEN link ELSE visit

\* The rows of today's plan with what the cache says of their tasks.
ResolvedDayRows ==
    {r \in live \X Task : \E s \in Slug :
        <<s, r[2]>> \in plan /\ ResolveList(s) = r[1] /\ tasks[r[1]][r[2]] # Absent}

\* Mutant: a task set aside stays on the card.
FocusParked(row) ==
    IF row.focus THEN {TaskShown(r[1], r[2]) : r \in {r \in ResolvedDayRows : r[1] \in Chosen("task", row.lists)}}
    ELSE {}

\* A task that is set aside is off the card as well.
ShareParked(r) == r \in parked

ShareFocus(row) ==
    IF row.focus
    THEN {TaskShown(r[1], r[2]) : r \in {r \in ResolvedDayRows :
                                ~ShareParked(r) /\ r[1] \in Chosen("task", row.lists)}}
    ELSE {}

\* The titles of the visitor's event in what a share shows.
ShareEvents(row) ==
    {ShareEventTitle(h) : h \in {h \in ShareCalendars(row) : visit # Absent /\ visit.at = h}}

\* What a share gives away about collections.
ShownOf(row) ==
    Chosen("task", row.lists) \cup ShareCalendars(row)
        \cup {r.list : r \in ShareFocus(row)}

\* An empty choice of a display is everything.
Narrows(wanted, s) == wanted = {} \/ s \in wanted
DisplayCalendars(d) ==
    {h \in live : "event" \in Kinds[h] /\ Narrows(d.calendars, SlugOf[h]) /\ SlugOf[h] \notin archived}
DisplayRows(d) == {r \in ResolvedDayRows : Narrows(d.lists, SlugOf[r[1]])}

\* Mutant: whether the password has changed since is not asked.
AnswersAnyPassword(token) == {p \in Share : shares[p] # Absent /\ shares[p].token = token /\ shares[p].enabled}

\* The only read by token.
ByToken(token) == {p \in Share : shares[p] # Absent /\ shares[p].token = token}

\* Whether a share was switched on under the credentials in force now.
CvCurrent(row) == row.cv = cv

\* The shares a token opens.
Answers(token) == {p \in ByToken(token) : shares[p].enabled /\ CvCurrent(shares[p])}

\* What the owner's settings say of a share.
ShareDto(row) ==
    [token |-> row.token, enabled |-> row.enabled /\ CvCurrent(row),
     switchedOffByPassword |-> row.enabled /\ ~CvCurrent(row)]

DisplayAnswers(token) == display # Absent /\ display.token = token /\ display.enabled

-----------------------------------------------------------------------------

\* The slugs of an allowlist that name a live collection of the kind.
Normalized(kind, wanted) == {s \in wanted : \E h \in live : SlugOf[h] = s /\ kind \in Kinds[h]}

NewDisplay(token, choice) ==
    [token |-> token, lists |-> choice[1], calendars |-> choice[2], enabled |-> TRUE]

\* History: what the owner sees behind the slugs that are kept.
Behind(row) ==
    {<<h, span[h]>> : h \in Chosen("task", row.lists) \cup Chosen("event", row.calendars)}

NewShare(token, choice, focus) ==
    [token |-> token, lists |-> Normalized("task", choice[1]),
     calendars |-> Normalized("event", choice[2]), focus |-> focus,
     enabled |-> TRUE, cv |-> cv]

\* A deployment in use: some tasks and a plan for today, one share, one display.
Init ==
    /\ server \in {Href, Href \ {h \in Href : \E g \in Href : SlugOf[g] = SlugOf[h] /\ Rank[g] < Rank[h]}}
    /\ live = server
    /\ span = [h \in Href |-> IF h \in server THEN 1 ELSE 0]
    /\ tasks \in [Href -> [Task -> {Absent, [done |-> FALSE, private |-> FALSE]}]]
    /\ \A h \in Href, u \in Task : tasks[h][u] # Absent => h \in live /\ "task" \in Kinds[h]
    /\ parked = {}
    /\ plan \in {{}, {<<SlugOf[h], u>> : h \in {h \in Href : "task" \in Kinds[h]}, u \in Task}}
    /\ archived = {}
    /\ cv \in Credential
    /\ \E p \in Share, c \in Choices, focus \in BOOLEAN :
          shares = [q \in Share |-> IF q = p THEN NewShare(0, c, focus) ELSE Absent]
    /\ display = NewDisplay(1, <<{}, {}>>)
    /\ minted = 2
    /\ link \in Title
    /\ visit = Absent
    /\ picked = [p \in Share |-> IF shares[p] = Absent THEN {} ELSE Behind(shares[p])]
    /\ agreed = [p \in Share |-> IF shares[p] = Absent THEN Absent ELSE cv]
    /\ dead = {}
    /\ world = 0
    /\ edits = 0

-----------------------------------------------------------------------------
(* The collections.                                                         *)

SharesStay == UNCHANGED <<archived, display, link, minted, cv, agreed, dead>>

\* Mutant: a collection that went keeps its place in what shares name.
PruneNothing(gone) == UNCHANGED shares

\* store.prune_share_collection, from mark_collection_deleted.
Prune(gone) ==
    LET slugs == {SlugOf[h] : h \in gone} IN
    shares' = [p \in Share |->
        IF shares[p] = Absent THEN Absent
        ELSE [shares[p] EXCEPT !.lists = @ \ slugs, !.calendars = @ \ slugs]]

\* Discovery finds the collections present; one it cannot store stays as it was.
Discover(present) ==
    \E skipped \in SUBSET (present \ live) :
        LET gone == live \ present
            fresh == present \ (live \cup skipped)
        IN  /\ live' = (live \ gone) \cup fresh
            /\ span' = [h \in Href |-> IF h \in fresh THEN span[h] + 1 ELSE span[h]]
            /\ tasks' = [h \in Href |-> IF h \in gone THEN [u \in Task |-> Absent] ELSE tasks[h]]
            /\ picked' = [p \in Share |-> {k \in picked[p] : k[1] \notin gone}]
            /\ visit' = IF visit # Absent /\ visit.at \in gone THEN Absent ELSE visit
            /\ Prune(gone)
    /\ UNCHANGED <<parked, plan>>
    /\ SharesStay

\* sync_all: discovery, then each collection.
SyncAll == Discover(server) /\ UNCHANGED <<server, world, edits>>

\* Another client makes a collection, or removes one.
Foreign(h) ==
    /\ world < MaxWorld
    /\ world' = world + 1
    /\ server' = IF h \in server THEN server \ {h} ELSE server \cup {h}
    /\ UNCHANGED <<live, span, tasks, parked, plan, visit, shares, picked, edits>>
    /\ SharesStay

\* A pass brings in what other clients did to a task.
SyncTask(h, u, s) ==
    /\ h \in live \cap server
    /\ world < MaxWorld
    /\ world' = world + 1
    /\ tasks' = [tasks EXCEPT ![h][u] = s]
    /\ UNCHANGED <<server, live, span, parked, plan, visit, shares, picked, edits>>
    /\ SharesStay

-----------------------------------------------------------------------------
(* The owner's handlers.                                                    *)

Edit == edits < MaxEdits /\ edits' = edits + 1
WorldStays == UNCHANGED <<server, live, span, tasks, link, visit, cv, world>>

CreateCollection(h) ==
    /\ Edit
    /\ h \notin server
    /\ server' = server \cup {h}
    /\ Discover(server')
    /\ UNCHANGED world

DeleteCollection(h) ==
    /\ Edit
    /\ h \in live \cap server
    /\ server' = server \ {h}
    /\ Discover(server')
    /\ UNCHANGED world

Park(h, u) ==
    /\ Edit
    /\ h \in live /\ OpenTask(h, u)
    /\ parked' = IF <<h, u>> \in parked THEN parked \ {<<h, u>>} ELSE parked \cup {<<h, u>>}
    /\ WorldStays
    /\ UNCHANGED <<plan, archived, shares, display, minted, picked, agreed, dead>>

\* A task is planned for today: the row names the list by its slug.
PlanTask(h, u) ==
    /\ Edit
    /\ h \in live /\ "task" \in Kinds[h] /\ tasks[h][u] # Absent
    /\ plan' = plan \cup {<<SlugOf[h], u>>}
    /\ WorldStays
    /\ UNCHANGED <<parked, archived, shares, display, minted, picked, agreed, dead>>

Archive(s) ==
    /\ Edit
    /\ archived' = IF s \in archived THEN archived \ {s} ELSE archived \cup {s}
    /\ WorldStays
    /\ UNCHANGED <<parked, plan, shares, display, minted, picked, agreed, dead>>

OwnerStays == UNCHANGED <<parked, plan, archived>>

Saved(p, row) ==
    /\ shares' = [shares EXCEPT ![p] = row]
    /\ UNCHANGED <<display, minted, dead>>
    /\ OwnerStays
    /\ WorldStays

CreateShare(p, choice, focus) ==
    LET row == NewShare(minted, choice, focus)
    IN  /\ Edit
        /\ shares[p] = Absent
        /\ shares' = [shares EXCEPT ![p] = row]
        /\ minted' = minted + 1
        /\ picked' = [picked EXCEPT ![p] = Behind(row)]
        /\ agreed' = [agreed EXCEPT ![p] = cv]
        /\ UNCHANGED <<display, dead>>
        /\ OwnerStays
        /\ WorldStays

\* PATCH with the allowlists, with the switch, or with the focus card.
ChooseShare(p, choice) ==
    /\ Edit
    /\ shares[p] # Absent
    /\ LET row == [shares[p] EXCEPT !.lists = Normalized("task", choice[1]),
                                    !.calendars = Normalized("event", choice[2])]
       IN  Saved(p, row) /\ picked' = [picked EXCEPT ![p] = Behind(row)]
    /\ UNCHANGED agreed

SwitchShare(p, on) ==
    /\ Edit
    /\ shares[p] # Absent
    /\ Saved(p, [shares[p] EXCEPT !.enabled = on, !.cv = IF on THEN cv ELSE @])
    /\ agreed' = IF on THEN [agreed EXCEPT ![p] = cv] ELSE agreed
    /\ UNCHANGED picked

ShareFocusCard(p, on) ==
    /\ Edit
    /\ shares[p] # Absent
    /\ Saved(p, [shares[p] EXCEPT !.focus = on])
    /\ UNCHANGED <<picked, agreed>>

Rekeyed(row) == [row EXCEPT !.token = minted]

\* The old token stops with the row it names; what the share shows stays.
RotateShare(p) ==
    /\ Edit
    /\ shares[p] # Absent
    /\ shares' = [shares EXCEPT ![p] = Rekeyed(@)]
    /\ dead' = dead \cup {shares[p].token}
    /\ minted' = minted + 1
    /\ UNCHANGED <<display, picked, agreed>>
    /\ OwnerStays
    /\ WorldStays

DeleteShare(p) ==
    /\ Edit
    /\ shares[p] # Absent
    /\ shares' = [shares EXCEPT ![p] = Absent]
    /\ dead' = dead \cup {shares[p].token}
    /\ picked' = [picked EXCEPT ![p] = {}]
    /\ agreed' = [agreed EXCEPT ![p] = Absent]
    /\ UNCHANGED <<display, minted>>
    /\ OwnerStays
    /\ WorldStays

-----------------------------------------------------------------------------
(* A visitor books through the link; the record may be lost and made up for. *)

NothingElse ==
    /\ UNCHANGED <<server, live, span, tasks, parked, plan, archived, shares, display>>
    /\ UNCHANGED <<minted, cv, picked, agreed, dead>>

Book(h, recorded) ==
    /\ world < MaxWorld
    /\ world' = world + 1
    /\ h \in live /\ "event" \in Kinds[h]
    /\ visit = Absent /\ link # Absent
    /\ visit' = [at |-> h, title |-> link, recorded |-> recorded, retitled |-> FALSE]
    /\ UNCHANGED <<link, edits>>
    /\ NothingElse

RecoverBooking ==
    /\ visit # Absent /\ link # Absent
    /\ visit' = [visit EXCEPT !.recorded = TRUE]
    /\ UNCHANGED <<link, world, edits>>
    /\ NothingElse

MoveEvent(h) ==
    /\ Edit
    /\ h \in live /\ "event" \in Kinds[h] /\ visit # Absent
    /\ visit' = [visit EXCEPT !.at = h]
    /\ UNCHANGED <<link, world>>
    /\ NothingElse

\* PATCH or DELETE of the link.
Retitle(t) ==
    /\ Edit
    /\ link \notin {t, Absent}
    /\ link' = t
    /\ visit' = IF visit = Absent THEN visit
                ELSE [visit EXCEPT !.retitled = @ \/ t # visit.title]
    /\ UNCHANGED world
    /\ NothingElse

-----------------------------------------------------------------------------
(* The display, keyed by its token; and a restart.                          *)

SharesRest == UNCHANGED <<shares, picked, agreed>>

CreateDisplay(choice) ==
    /\ Edit
    /\ display = Absent
    /\ display' = NewDisplay(minted, choice)
    /\ minted' = minted + 1
    /\ UNCHANGED dead
    /\ SharesRest
    /\ OwnerStays
    /\ WorldStays

\* PATCH with another choice, or with the switch.
PatchDisplay(row) ==
    /\ Edit
    /\ display # Absent
    /\ display' = row
    /\ UNCHANGED <<minted, dead>>
    /\ SharesRest
    /\ OwnerStays
    /\ WorldStays

ChooseDisplay == \E c \in Choices : PatchDisplay([display EXCEPT !.lists = c[1], !.calendars = c[2]])
SwitchDisplay == PatchDisplay([display EXCEPT !.enabled = ~@])

RotateDisplay ==
    /\ Edit
    /\ display # Absent
    /\ display' = [display EXCEPT !.token = minted]
    /\ dead' = dead \cup {display.token}
    /\ minted' = minted + 1
    /\ SharesRest
    /\ OwnerStays
    /\ WorldStays

DeleteDisplay ==
    /\ Edit
    /\ display # Absent
    /\ display' = Absent
    /\ dead' = dead \cup {display.token}
    /\ UNCHANGED minted
    /\ SharesRest
    /\ OwnerStays
    /\ WorldStays

\* The deployment comes up with the credentials of its environment.
Restart(k) ==
    /\ Edit
    /\ k # cv
    /\ cv' = k
    /\ UNCHANGED <<server, live, span, tasks, link, visit, world, display, minted, dead>>
    /\ SharesRest
    /\ OwnerStays

-----------------------------------------------------------------------------

OfShare(p) ==
    \/ \E c \in Choices : ChooseShare(p, c) \/ \E on \in BOOLEAN : CreateShare(p, c, on)
    \/ \E on \in BOOLEAN : SwitchShare(p, on) \/ ShareFocusCard(p, on)
    \/ RotateShare(p)
    \/ DeleteShare(p)

OfDisplay ==
    \/ \E c \in Choices : CreateDisplay(c)
    \/ ChooseDisplay
    \/ SwitchDisplay
    \/ RotateDisplay
    \/ DeleteDisplay

Next ==
    \/ \E p \in Share : OfShare(p)
    \/ OfDisplay
    \/ \E h \in Href : CreateCollection(h) \/ DeleteCollection(h) \/ Foreign(h)
    \/ \E h \in Href, u \in Task :
          \/ Park(h, u)
          \/ PlanTask(h, u)
          \/ \E s \in State \cup {Absent} : SyncTask(h, u, s)
    \/ \E s \in Slug : Archive(s)
    \/ \E h \in Href : MoveEvent(h) \/ \E recorded \in BOOLEAN : Book(h, recorded)
    \/ RecoverBooking
    \/ \E t \in Title \cup {Absent} : Retitle(t)
    \/ \E k \in Credential : Restart(k)
    \/ SyncAll

-----------------------------------------------------------------------------
(* Properties.                                                              *)

\* What a share shows comes from a collection its owner chose for it, and from
\* no other that came to have the same slug or the same href: the collections
\* of the calendar server appear, go and return while the choice stays in the
\* row (prune_share_collection; the exclusion of doubled slugs).
SharesOnlyChosen ==
    \A p \in Share : shares[p] # Absent =>
        \A h \in ShownOf(shares[p]) : <<h, span[h]>> \in picked[p]

\* A token that was replaced or deleted opens nothing any more, and a share
\* answers only under the credentials it was last switched on under: whatever
\* was edited, rotated and restarted since.  What the settings say of a share is
\* what its link does.
DoorsStayShut ==
    /\ \A p \in Share : shares[p] # Absent =>
          LET dto == ShareDto(shares[p])
          IN  /\ dto.enabled = (p \in Answers(dto.token))
              /\ dto.switchedOffByPassword => agreed[p] # cv
    /\ \A t \in dead : Answers(t) = {} /\ ~DisplayAnswers(t)
    /\ \A t \in 0 .. minted, p \in Share : p \in Answers(t) => agreed[p] = cv

\* The card of today's plan and the lists of one view agree, though each is
\* built by its own walk: a task the card shows open is in the lists, under the
\* same mark of privacy; and a display without a choice shows the owner
\* everything that a share shows to somebody else.
OneStory ==
    \A p \in Share : shares[p] # Absent =>
        /\ \A r \in ShareFocus(shares[p]) : r.done \/ r \in ShareLists(shares[p])
        /\ ShareCalendars(shares[p]) \subseteq DisplayCalendars([calendars |-> {}])
        /\ \A r \in ShareFocus(shares[p]) : <<r.list, r.uid>> \in DisplayRows([lists |-> {}])

\* A share names the visitor of a booking only if the record of the booking was
\* lost and its link has been called otherwise, or deleted, since: not because
\* the event was moved to another calendar, nor because one of the two happened.
VisitorUnnamed ==
    \A p \in Share :
        shares[p] # Absent /\ visit # Absent /\ visit \in ShareEvents(shares[p])
            => ~visit.recorded /\ visit.retitled

Spec == Init /\ [][Next]_vars

-----------------------------------------------------------------------------
(* The invariant of SharingProofs.                                          *)

TypeOK ==
    /\ server \subseteq Href /\ live \subseteq Href
    /\ span \in [Href -> Nat]
    /\ tasks \in [Href -> [Task -> State \cup {Absent}]]
    /\ parked \subseteq Href \X Task /\ plan \subseteq Slug \X Task /\ archived \subseteq Slug
    /\ shares \in [Share -> ShareRow \cup {Absent}]
    /\ display \in DisplayRow \cup {Absent}
    /\ link \in Title \cup {Absent} /\ visit \in Visit \cup {Absent}
    /\ {minted, world, edits} \subseteq Nat /\ dead \subseteq Nat
    /\ cv \in Credential
    /\ picked \in [Share -> SUBSET (Href \X Nat)]
    /\ agreed \in [Share -> Credential \cup {Absent}]

\* A token is new when it is handed out, opens one door, and none once it is dead.
OneDoor ==
    /\ \A t \in dead : t < minted
    /\ \A p \in Share : shares[p] # Absent =>
          /\ shares[p].token < minted /\ shares[p].token \notin dead
          /\ display # Absent => display.token # shares[p].token
          /\ \A q \in Share : shares[q] # Absent /\ shares[q].token = shares[p].token => q = p
    /\ display # Absent => display.token < minted /\ display.token \notin dead

\* What a share names is there, and where it names one collection it was chosen.
NamesLive ==
    \A p \in Share : shares[p] # Absent =>
        /\ Normalized("task", shares[p].lists) = shares[p].lists
        /\ Normalized("event", shares[p].calendars) = shares[p].calendars
        /\ Behind(shares[p]) \subseteq picked[p]

AgreedRow == \A p \in Share : shares[p] # Absent => agreed[p] = shares[p].cv

TitleKnown == visit # Absent /\ link # visit.title => visit.retitled

IInv == TypeOK /\ OneDoor /\ NamesLive /\ AgreedRow /\ TitleKnown

=============================================================================
