------------------------------ MODULE DayPlan ------------------------------
(***************************************************************************)
(* The day plan (service.py, db/store.py): which tasks, notes and habit      *)
(* occurrences the owner put on which day, in the only copy there is.  Rows  *)
(* are stamped, never deleted.  A day is opened once: its first opening      *)
(* writes the snapshot, later ones add what new habits ask for.              *)
(*                                                                           *)
(* Every operation holds the service's lock from its first read to its last  *)
(* write, except roll_entry, which takes it three times: it reads the row,   *)
(* adds a copy on the other day, and stamps the row.  Between two of them    *)
(* other requests run, and the process may die.                              *)
(*                                                                           *)
(* Beside the rows the owner says of a day how long it is to be and that it   *)
(* has begun; how far its plan ran over is recorded then.  The connector's    *)
(* look-back tells a day from its rows, from what was said of it and from     *)
(* the tasks' completion stamps.                                             *)
(*                                                                           *)
(* plan[d][w] is the sequence of rows of day d for the thing w, oldest       *)
(* first; a row's place in it stands for its entry_id.  The order of a       *)
(* day's rows on the page is left out.                                       *)
(***************************************************************************)
EXTENDS Owner, Sequences, FiniteSetsExt

CONSTANTS
    Note, Habit,            \* what a row can be about, beside a task
    List,                   \* the task lists
    Client,                 \* requests to roll that may be under way at once
    Due,                    \* the day a task is due, 0 for none and for subtasks
    Runs,                   \* the days a habit is scheduled on
    Estimate,               \* estimates one can be given, in minutes
    Capacity,               \* lengths of a day one can state, in minutes
    MaxRows,                \* bound: rows for one thing on one day
    Lookback                \* _CARRY_LOOKBACK_DAYS, 14 in the code

What == Task \cup Note \cup Habit

PlanConstants ==
    /\ IsFiniteSet(What)
    /\ Task \cap Note = {} /\ Task \cap Habit = {} /\ Note \cap Habit = {}
    /\ LastDay \in Nat \ {0} /\ Lookback \in Nat
    /\ Due \in [Task -> Nat] /\ Runs \in [Habit -> SUBSET Nat]
    /\ Estimate \subseteq Nat \ {0} /\ Capacity \subseteq Nat
    /\ None \notin Nat /\ None \notin List

ASSUME DayAssumption == PlanConstants

VARIABLES
    opened,     \* the days with a marker in day_plan_opened
    plan,       \* the rows of day_plan
    at,         \* the list each task is in
    aside,      \* tasks that are cancelled or parked
    finished,   \* the day of each task's COMPLETED stamp
    rules,      \* the rows of habits: not made yet, kept, deleted
    paused,     \* habits that are paused
    taught,     \* what a task's sidecar or a habit's rule remembers as its estimate
    said,       \* the rows of day_ritual
    usual,      \* the length of a day by the settings
    roll,       \* the requests to roll that are under way
    strayed,    \* history: tasks that moved while a roll of theirs was under way
    undone      \* history: where a drop was taken back

planVars == <<today, opened, plan, at, aside, finished, rules, paused, taught, said, usual,
          roll, deeds, strayed, undone>>
tasks == <<at, aside, finished>>
habits == <<rules, paused>>
ritual == <<said, usual>>

PlanRow == [list : List \cup {None}, source : {"auto", "carried", "habit", "user"},
        done : BOOLEAN, dropped : BOOLEAN, rolled : Day \cup {None},
        est : Estimate \cup {None}]

Ritual == [capacity : Capacity \cup {None}, committed : BOOLEAN,
           over : (Nat \ {0}) \cup {None}]
NothingSaid == [capacity |-> None, committed |-> FALSE, over |-> None]

NoRoll == [pc |-> "idle"]
Rolling == [pc : {"add", "stamp"}, day : Day, what : Task \cup Note, n : Nat \ {0},
            to : Day, list : List \cup {None}, est : Estimate \cup {None}]

PlanOK ==
    /\ today \in Day
    /\ opened \subseteq Day
    /\ plan \in [Day -> [What -> Seq(PlanRow)]]
    /\ at \in [Task -> List]
    /\ aside \subseteq Task
    /\ finished \in [Task -> Day \cup {None}]
    /\ rules \in [Habit -> {"new", "kept", "deleted"}]
    /\ paused \subseteq Habit
    /\ usual \in Capacity \cup {None}
    /\ taught \in [Task \cup Habit -> Estimate \cup {None}]
    /\ roll \in [Client -> Rolling \cup {NoRoll}]
    /\ deeds \in Nat
    /\ strayed \subseteq Task
    /\ undone \subseteq Day \X What

PlanTypeOK == PlanOK /\ said \in [Day -> Ritual]

-----------------------------------------------------------------------------
(* Rows.                                                                     *)

ListOf(w) == IF w \in Task THEN at[w] ELSE None

NewRow(list, source, est) ==
    [list |-> list, source |-> source, done |-> FALSE, dropped |-> FALSE,
     rolled |-> None, est |-> est]

Live(row) == ~row.dropped /\ row.rolled = None

\* find_day_entry by the task or the note's text: a row that is still meant.
Found(d, w, list) == \E n \in DOMAIN plan[d][w] :
    Live(plan[d][w][n]) /\ plan[d][w][n].list = list

\* Today and, as a grace, yesterday.
WritableFloor == today - 1

\* _ritual_writable, _habit_minting_allowed: what the owner may still say of a day,
\* and whether habits may still be put on it.
Writable(d) == d >= WritableFloor
MintingAllowed(d) == d >= WritableFloor

Kept == {h \in Habit : rules[h] = "kept"}

OnDay(d) == {w \in What : plan[d][w] # <<>>}

Planned(d) == d \in opened \/ OnDay(d) # {}

-----------------------------------------------------------------------------
(* Opening a day.                                                            *)

RunsOn(h, d) == d \in Runs[h]

\* _habit_entries_for: a dropped occurrence counts as present.
HabitsFor(d) ==
    IF MintingAllowed(d) THEN {h \in Kept \ paused : RunsOn(h, d) /\ plan[d][h] = <<>>}
                         ELSE {}

\* Mutant: only rows that are still meant count as seen.
SeenLive(d, w, list) == Found(d, w, list)

\* _snapshot_for, "seen": the day has a row for the task, dropped or not, in its list.
Seen(d, w, list) == \E n \in DOMAIN plan[d][w] : plan[d][w][n].list = list

Open == {t \in Task \ aside : finished[t] = None}

DueOn(d) == {t \in Open : Due[t] = d /\ ~Seen(d, t, at[t])}

\* _carry_into: the most recent day before d that has a plan, within two weeks.
Earlier(d) == {e \in Day : e < d /\ e >= d - Lookback /\ Planned(e)}
LastPlanned(d) == CHOOSE e \in Earlier(d) : \A f \in Earlier(d) : f <= e

\* Mutant: a rolled row carries too.
CarriesRolled(w, row) ==
    /\ row.source = "user"
    /\ ~row.done /\ ~row.dropped
    /\ w \in Task => row.list = at[w] /\ w \in Open

Carries(w, row) ==
    /\ row.source = "user"
    /\ ~row.done /\ Live(row)
    /\ w \in Task => row.list = at[w] /\ w \in Open

Chosen(d, w) == {n \in DOMAIN plan[d][w] : Carries(w, plan[d][w][n])}

\* The first of them, if several rows for one thing carry.
FirstOf(S) == CHOOSE n \in S : \A m \in S : n <= m

CarriedInto(d) ==
    IF Earlier(d) = {} THEN {}
    ELSE {w \in Task \cup Note :
            /\ Chosen(LastPlanned(d), w) # {}
            /\ ~Seen(d, w, ListOf(w))}

CarriedEstimate(d, w) ==
    plan[LastPlanned(d)][w][FirstOf(Chosen(LastPlanned(d), w))].est

Derived(d, w) ==
    CASE w \in Habit -> NewRow(None, "habit", taught[w])
      [] w \in DueOn(d) -> NewRow(at[w], "auto", taught[w])
      [] OTHER -> NewRow(ListOf(w), "carried",
                    IF w \in Task /\ CarriedEstimate(d, w) = None THEN taught[w]
                    ELSE CarriedEstimate(d, w))

\* preview_day: what a first opening would write, told without writing it.
Preview(d) == HabitsFor(d) \cup DueOn(d) \cup CarriedInto(d)

\* What opening d writes: the snapshot the first time, habits ever after.
Pending(d) == IF d \in opened THEN HabitsFor(d) ELSE Preview(d)

OpenDay(d) ==
    /\ d \notin opened \/ Pending(d) # {}
    /\ plan' = [plan EXCEPT ![d] =
            [w \in What |-> IF w \in Pending(d) THEN Append(plan[d][w], Derived(d, w))
                                                ELSE plan[d][w]]]
    /\ opened' = opened \cup {d}
    /\ UNCHANGED <<today, tasks, habits, taught, ritual, roll, deeds, strayed, undone>>

-----------------------------------------------------------------------------
(* Adding and patching rows.                                                 *)

\* An estimate teaches the task's sidecar, if the cache has the task there.
Teach(w, list, est) ==
    IF w \in Task /\ list = at[w] THEN [taught EXCEPT ![w] = est] ELSE taught

Remembered(w, list) == IF w \in Task /\ list = at[w] THEN taught[w] ELSE None

\* add_day_entry: the row that is there already, or a new one.
AddTo(d, w, list, est) ==
    IF Found(d, w, list) THEN UNCHANGED <<plan, taught>>
    ELSE /\ Len(plan[d][w]) < MaxRows
         /\ plan' = [plan EXCEPT ![d][w] = Append(@,
                NewRow(list, "user", IF est # None THEN est ELSE Remembered(w, list)))]
         /\ taught' = IF est # None THEN Teach(w, list, est) ELSE taught

AddEntry(d, w) ==
    /\ Deed
    /\ w \notin Habit
    /\ \E est \in Estimate \cup {None} : AddTo(d, w, ListOf(w), est)
    /\ UNCHANGED <<today, opened, tasks, habits, ritual, roll, strayed, undone>>

\* A task is ticked by its VTODO, never by its row.
Tick(d, w, n) ==
    /\ Deed
    /\ w \notin Task
    /\ plan' = [plan EXCEPT ![d][w][n].done = ~@]
    /\ UNCHANGED <<today, opened, tasks, habits, taught, ritual, roll, strayed, undone>>

Drop(d, w, n) ==
    /\ Deed
    /\ plan' = [plan EXCEPT ![d][w][n].dropped = ~@]
    /\ undone' = IF plan[d][w][n].dropped THEN undone \cup {<<d, w>>} ELSE undone
    /\ UNCHANGED <<today, opened, tasks, habits, taught, ritual, roll, strayed>>

\* Mutant: on every day.
FillsAnyDay(d, row) == row.est = None /\ ~row.dropped

\* fill_habit_estimates: rows of the habit on days still open that say nothing.
Fills(d, row) == d >= WritableFloor /\ row.est = None /\ ~row.dropped

FillHabit(p, h, est) ==
    [d \in Day |-> [p[d] EXCEPT ![h] =
        [n \in DOMAIN p[d][h] |->
            IF est # None /\ Fills(d, p[d][h][n]) THEN [p[d][h][n] EXCEPT !.est = est]
                                                  ELSE p[d][h][n]]]]

\* An estimate on a row teaches the task, or the habit while the day is open.
TeachesHabit(d, w, n) == w \in Kept /\ ~plan[d][w][n].dropped /\ Writable(d)

Patched(d, w, n, est) == [plan EXCEPT ![d][w][n].est = est]

EstimateRow(d, w, n, est) ==
    /\ Deed
    /\ IF TeachesHabit(d, w, n)
       THEN /\ taught' = [taught EXCEPT ![w] = est]
            /\ plan' = [FillHabit(plan, w, est) EXCEPT ![d][w][n].est = est]
       ELSE /\ taught' = Teach(w, plan[d][w][n].list, est)
            /\ plan' = Patched(d, w, n, est)
    /\ UNCHANGED <<today, opened, tasks, habits, ritual, roll, strayed, undone>>

\* _writable_day: the connector puts nothing on a day that is over.
WritableDay(d) == d >= today

\* plan_day of the connector: an estimate also reaches a row that was there already.
ConnectorPlan(d, w, est) ==
    /\ Deed
    /\ WritableDay(d)
    /\ w \notin Habit
    /\ \E n \in DOMAIN plan[d][w] :
        /\ Live(plan[d][w][n]) /\ plan[d][w][n].list = ListOf(w)
        /\ plan' = Patched(d, w, n, est)
    /\ taught' = Teach(w, ListOf(w), est)
    /\ UNCHANGED <<today, opened, tasks, habits, ritual, roll, strayed, undone>>

\* update_day_entry of the connector: never of a day that is over, and a habit's
\* rule stays what the owner made it.
ConnectorEstimate(d, h, n, est) ==
    /\ Deed
    /\ WritableDay(d)
    /\ plan' = Patched(d, h, n, est)
    /\ UNCHANGED <<today, opened, tasks, habits, taught, ritual, roll, strayed, undone>>

PatchEntry(d, w, n) ==
    \/ Tick(d, w, n)
    \/ Drop(d, w, n)
    \/ \E est \in Estimate \cup {None} : EstimateRow(d, w, n, est)

-----------------------------------------------------------------------------
(* Rolling a row to another day.                                             *)

RollRead(c, d, w, n, to) ==
    /\ Deed
    /\ roll[c] = NoRoll
    /\ w \notin Habit
    /\ to # d /\ to >= today
    /\ ~plan[d][w][n].dropped
    /\ roll' = [roll EXCEPT ![c] =
            [pc |-> "add", day |-> d, what |-> w, n |-> n, to |-> to,
             list |-> plan[d][w][n].list, est |-> plan[d][w][n].est]]
    /\ UNCHANGED <<today, opened, plan, tasks, habits, taught, strayed, undone, ritual>>

RollAdd(c) ==
    /\ roll[c].pc = "add"
    /\ AddTo(roll[c].to, roll[c].what, roll[c].list, roll[c].est)
    /\ roll' = [roll EXCEPT ![c].pc = "stamp"]
    /\ UNCHANGED <<today, opened, tasks, habits, deeds, strayed, undone, ritual>>

RollStamp(c) ==
    /\ roll[c].pc = "stamp"
    /\ plan' = [plan EXCEPT ![roll[c].day][roll[c].what][roll[c].n].rolled = roll[c].to]
    /\ roll' = [roll EXCEPT ![c] = NoRoll]
    /\ UNCHANGED <<today, opened, tasks, habits, taught, deeds, strayed, undone, ritual>>

\* The process dies; the transactions it has committed stay.
RollCrash ==
    /\ \E c \in Client : roll[c] # NoRoll
    /\ roll' = [c \in Client |-> NoRoll]
    /\ UNCHANGED <<today, opened, plan, tasks, habits, taught, deeds, strayed, undone, ritual>>

-----------------------------------------------------------------------------
(* What the owner says of a day.                                             *)

Rows(d) == UNION {{w} \X DOMAIN plan[d][w] : w \in What}
Minutes(row) == IF row.est = None THEN 0 ELSE row.est
Sum(d, S) == SumFunctionOnSet([p \in Rows(d) |-> Minutes(plan[d][p[1]][p[2]])], S)

\* _effective_capacity: what was said of the day, or what the settings say.
EffectiveCapacity(r) == IF r.capacity # None THEN r.capacity ELSE usual

\* _over_at_commit: every row that is meant counts, done or not.
Load(d) == Sum(d, {p \in Rows(d) : Live(plan[d][p[1]][p[2]])})
OverAtCommit(d, r) ==
    IF EffectiveCapacity(r) = None \/ Load(d) <= EffectiveCapacity(r) THEN None
    ELSE Load(d) - EffectiveCapacity(r)

\* A field of a request: its value, or nothing.
Field(S) == {{}} \cup {{x} : x \in S}

StateCapacity(r, capacity) ==
    IF capacity = {} THEN r ELSE [r EXCEPT !.capacity = CHOOSE c \in capacity : TRUE]

Commit(d, r, committed) ==
    IF committed = {} THEN r
    ELSE [r EXCEPT !.committed = TRUE \in committed,
                   !.over = IF TRUE \in committed THEN OverAtCommit(d, r) ELSE None]

\* set_day_ritual: a request may carry either or both; the capacity is written
\* in a transaction of its own, which may be the last one the process commits.
SetRitual(d, capacity, committed) ==
    /\ Deed
    /\ Writable(d)
    /\ LET stated == StateCapacity(said[d], capacity)
       IN  said' \in {[said EXCEPT ![d] = stated],
                      [said EXCEPT ![d] = Commit(d, stated, committed)]}
    /\ UNCHANGED <<today, opened, plan, tasks, habits, taught, usual, roll, strayed, undone>>

SetUsual(capacity) ==
    /\ Deed
    /\ usual' = capacity
    /\ UNCHANGED <<today, opened, plan, tasks, habits, taught, said, roll, strayed, undone>>

-----------------------------------------------------------------------------
(* What the connector's look-back tells of a day.                            *)

\* review_day: what was decided about a row outranks what put it there.
Arm(row) ==
    CASE row.dropped -> "dropped"
      [] ~row.dropped /\ row.rolled # None -> "moved"
      [] OTHER -> row.source

\* completions_in: the tasks whose stamp falls on the day.
CompletedOn(d) == {t \in Task : finished[t] = d}

\* _entries_with_tasks: the task a row names, if the cache has it in that list.
Joined(w, row) == {t \in Task : t = w /\ at[t] = row.list}

\* Done on that day: by the task's stamp, or by the row's own.
DoneThen(d, w, row) == IF w \in Task THEN Joined(w, row) \cap CompletedOn(d) # {} ELSE row.done

Told(d) == {p \in Rows(d) : Arm(plan[d][p[1]][p[2]]) \notin {"dropped", "moved"}}

\* _day_totals.
Totals(d) ==
    [planned |-> Sum(d, Told(d)),
     done |-> Sum(d, {p \in Told(d) : DoneThen(d, p[1], plan[d][p[1]][p[2]])})]

\* _day_facts: what was said of the day, and what it is read against by now.
DayFacts(d) == [stated |-> said[d], capacity |-> EffectiveCapacity(said[d])]

\* The look-back of a day.
LookBack(d) ==
    [facts |-> DayFacts(d), totals |-> Totals(d),
     arms |-> [p \in Rows(d) |-> Arm(plan[d][p[1]][p[2]])]]

-----------------------------------------------------------------------------
(* What the morning's and the evening's nudges tell of a day                 *)
(* (notify/rules.py).  They read it as it stands: reading opens no day.      *)

\* _day_plan_dto.
DayDto(d) ==
    [planned |-> Planned(d), committed |-> said[d].committed,
     capacity |-> EffectiveCapacity(said[d]),
     open |-> {p \in Rows(d) : LET row == plan[d][p[1]][p[2]] IN Live(row) /\ ~row.done}]

DayUnplanned(d) == ~DayDto(d).committed

\* Rows with a stamp of their own are left out; a task's row never has one.
CapacityOvercommitted(d) ==
    LET day == DayDto(d) IN day.capacity # None /\ Sum(d, day.open) > day.capacity

HabitsOutstanding(d) == DayDto(d).planned /\ \E p \in DayDto(d).open : p[1] \in Habit

Nudges(d) ==
    {n \in {"day_unplanned", "capacity_overcommitted", "habits_outstanding"} :
        \/ n = "day_unplanned" /\ DayUnplanned(d)
        \/ n = "capacity_overcommitted" /\ CapacityOvercommitted(d)
        \/ n = "habits_outstanding" /\ HabitsOutstanding(d)}

-----------------------------------------------------------------------------
(* What else happens to tasks, habits and days.                              *)

RolledTasks == {w \in Task : \E c \in Client : roll[c] # NoRoll /\ roll[c].what = w}

\* Mutant: only rows of days that are still open follow the task.
RepointOpen(d, t, l, row) ==
    IF row.list = at[t] /\ Writable(d) THEN [row EXCEPT !.list = l] ELSE row

\* move_task_refs: the rows of every day follow the task, estimate and all.
Repoint(d, t, l, row) == IF row.list = at[t] THEN [row EXCEPT !.list = l] ELSE row

MoveTask(t, l) ==
    /\ Deed
    /\ l # at[t]
    /\ at' = [at EXCEPT ![t] = l]
    /\ plan' = [d \in Day |-> [plan[d] EXCEPT ![t] =
            [n \in DOMAIN plan[d][t] |-> Repoint(d, t, l, plan[d][t][n])]]]
    /\ strayed' = strayed \cup ({t} \cap RolledTasks)
    /\ UNCHANGED <<today, opened, aside, finished, habits, taught, ritual, roll, undone>>

\* A task is completed, which stamps it with the day, or opened again.
Complete(t) ==
    /\ Deed
    /\ finished' = [finished EXCEPT ![t] = IF @ = None THEN today ELSE None]
    /\ UNCHANGED <<today, opened, plan, at, aside, habits, taught, ritual, roll, strayed, undone>>

\* Cancelling or parking a task, and taking that back.
SetAside(t) ==
    /\ Deed
    /\ aside' = IF t \in aside THEN aside \ {t} ELSE aside \cup {t}
    /\ UNCHANGED <<today, opened, plan, at, finished, habits, taught, ritual, roll, strayed, undone>>

CreateHabit(h, est) ==
    /\ Deed
    /\ rules[h] = "new"
    /\ rules' = [rules EXCEPT ![h] = "kept"]
    /\ taught' = [taught EXCEPT ![h] = est]
    /\ UNCHANGED <<today, opened, plan, tasks, paused, ritual, roll, strayed, undone>>

\* The rule goes, and only the rule.
DeleteHabit(h) ==
    /\ Deed
    /\ h \in Kept
    /\ rules' = [rules EXCEPT ![h] = "deleted"]
    /\ UNCHANGED <<today, opened, plan, tasks, paused, taught, ritual, roll, strayed, undone>>

PauseHabit(h) ==
    /\ Deed
    /\ h \in Kept
    /\ paused' = IF h \in paused THEN paused \ {h} ELSE paused \cup {h}
    /\ UNCHANGED <<today, opened, plan, tasks, rules, taught, ritual, roll, strayed, undone>>

EstimateHabit(h, est) ==
    /\ Deed
    /\ h \in Kept
    /\ taught' = [taught EXCEPT ![h] = est]
    /\ plan' = FillHabit(plan, h, est)
    /\ UNCHANGED <<today, opened, tasks, habits, ritual, roll, strayed, undone>>

Midnight ==
    /\ DayBreaks
    /\ UNCHANGED <<opened, plan, tasks, habits, taught, ritual, roll, deeds, strayed, undone>>

PlanInit ==
    /\ today = 1
    /\ opened = {}
    /\ plan = [d \in Day |-> [w \in What |-> <<>>]]
    /\ at \in [Task -> List]
    /\ aside = {}
    /\ finished = [t \in Task |-> None]
    /\ rules = [h \in Habit |-> "new"]
    /\ paused = {}
    /\ taught = [w \in Task \cup Habit |-> None]
    /\ said = [d \in Day |-> NothingSaid]
    /\ usual = None
    /\ roll = [c \in Client |-> NoRoll]
    /\ deeds = 0
    /\ strayed = {}
    /\ undone = {}

PlanNext ==
    \/ \E d \in Day : OpenDay(d)
    \/ \E d \in Day, w \in What : AddEntry(d, w) \/ \E est \in Estimate : ConnectorPlan(d, w, est)
    \/ \E d \in Day, h \in Habit, est \in Estimate : \E n \in DOMAIN plan[d][h] :
        ConnectorEstimate(d, h, n, est)
    \/ \E d \in Day, w \in What : \E n \in DOMAIN plan[d][w] :
        \/ PatchEntry(d, w, n)
        \/ \E c \in Client, to \in Day : RollRead(c, d, w, n, to)
    \/ \E c \in Client : RollAdd(c) \/ RollStamp(c)
    \/ RollCrash
    \/ \E d \in Day : \E capacity \in Field(Capacity \cup {None}), committed \in Field(BOOLEAN) :
        SetRitual(d, capacity, committed)
    \/ \E capacity \in Capacity \cup {None} : SetUsual(capacity)
    \/ \E t \in Task : SetAside(t) \/ Complete(t) \/ \E l \in List : MoveTask(t, l)
    \/ \E h \in Habit : PauseHabit(h) \/ DeleteHabit(h)
    \/ \E h \in Habit, est \in Estimate \cup {None} : CreateHabit(h, est) \/ EstimateHabit(h, est)
    \/ Midnight

PlanSpec == PlanInit /\ [][PlanNext]_planVars

-----------------------------------------------------------------------------
(* What the plan promises.                                                   *)

\* One thing has one row that is meant on one day, whichever of the five ways
\* put it there (due, carried, minted, added, rolled), and what a day derived
\* it derived before anything else was there and once: what the owner dropped
\* does not come back.  Not counted are a drop the owner took back and a task
\* that moved to another list while it was being rolled.
OneRow == \A d \in Day : \A w \in What \ strayed :
    /\ \A m, n \in DOMAIN plan[d][w] :
        Live(plan[d][w][m]) /\ Live(plan[d][w][n]) /\ m # n => <<d, w>> \in undone
    /\ \A n \in DOMAIN plan[d][w] : plan[d][w][n].source # "user" => n = 1

\* A row that says where its work went is right: that day has a row for the same
\* thing, and, for a task, in the list where the task is (service.py, roll_entry).
RolledArrives == \A d \in Day : \A w \in What \ strayed : \A n \in DOMAIN plan[d][w] :
    LET row == plan[d][w][n]
    IN  row.rolled # None =>
            \E m \in DOMAIN plan[row.rolled][w] : plan[row.rolled][w][m].list = row.list

\* The record of a finished day stands: no later rule, estimate of a habit,
\* opening or midnight puts an occurrence on it or changes what it said a habit
\* would take; nothing is said of it any more; and a look-back credits it with
\* more than before only when the owner patches one of its rows.
Finished == {d \in Day : ~Writable(d)}
RecordStands ==
    \A d \in Finished :
        /\ \A h \in Habit :
            /\ Len(plan'[d][h]) = Len(plan[d][h])
            /\ taught'[h] # taught[h] => plan'[d][h] = plan[d][h]
        /\ DayFacts(d)'.stated = DayFacts(d).stated
        /\ plan'[d] = plan[d] /\ tasks' # tasks /\ strayed = {} =>
            /\ Totals(d)'.done <= Totals(d).done
            /\ LookBack(d)'.arms = LookBack(d).arms

\* What is recorded when a day begins is how far the plan the look-back tells ran
\* over the length that was said, with that very request or before; it is gone
\* when the day is taken back (service.py, set_day_ritual).
Excess(d) ==
    LET capacity == EffectiveCapacity(said[d])
    IN  IF capacity # None /\ Totals(d).planned > capacity
        THEN Totals(d).planned - capacity ELSE None
VerdictIsTrue ==
    \A d \in Day :
        /\ ~said'[d].committed => said'[d].over = None
        /\ said'[d].over # said[d].over /\ said'[d].committed => said'[d].over = Excess(d)'
        /\ said'[d].committed /\ ~said[d].committed => said'[d].over = Excess(d)'

\* What a look at a day puts on it ends no nudge of that day.  When a day begins, the
\* nudge of its length says what the record says, though each adds up the rows for
\* itself: all the rows that are meant for the record, those without a stamp for the
\* nudge (service.py, _over_at_commit).
NudgesAgree ==
    \A d \in Day :
        /\ plan'[d] # plan[d] /\ <<deeds, roll>>' = <<deeds, roll>> => Nudges(d) \subseteq Nudges(d)'
        /\ said'[d].committed /\ ~said[d].committed =>
            LET nudged == "capacity_overcommitted" \in Nudges(d)'
                stamped == \E w \in What \ Task : \E n \in DOMAIN plan[d][w] : plan[d][w][n].done
            IN  IF said'[d].over = None THEN ~nudged ELSE nudged \/ stamped

PastStands == [][RecordStands /\ VerdictIsTrue /\ NudgesAgree]_planVars

\* The first opening of a day takes over everything the owner chose for the last
\* day that had a plan and decided nothing about, and nothing that was chosen for
\* an older one (service.py, _carry_into).
Undecided(d, w) == \E n \in DOMAIN plan[d][w] :
    LET row == plan[d][w][n]
    IN  row.source = "user" /\ ~row.done /\ ~row.dropped /\ row.rolled = None
CarriesOn == [][
    \A d \in opened' \ opened : \A w \in Task \cup Note :
        LET before == {e \in Day : e < d /\ Planned(e)}
        IN  \A e \in before :
            (\A f \in before : f <= e) /\ d - e <= Lookback =>
                /\ Undecided(e, w) /\ w \notin Task \ Open /\ w \notin strayed => plan'[d][w] # <<>>
                /\ \A n \in DOMAIN plan'[d][w] :
                    plan'[d][w][n].source = "carried" => Undecided(e, w)]_planVars

-----------------------------------------------------------------------------
(* Why the rows of a thing keep to that: it has one list, which they and the  *)
(* rolls under way all name, so that each way of adding a row sees what the    *)
(* others put there.                                                          *)

Homed == \A d \in Day : \A w \in What \ strayed : \A n \in DOMAIN plan[d][w] :
    plan[d][w][n].list = ListOf(w)

\* A row that was rolled, or is about to be stamped, has something on the other day.
Arrived == \A d \in Day : \A w \in What : \A n \in DOMAIN plan[d][w] :
    plan[d][w][n].rolled # None => plan[plan[d][w][n].rolled][w] # <<>>

RollsHold == \A c \in Client : roll[c] # NoRoll =>
    /\ roll[c].n \in DOMAIN plan[roll[c].day][roll[c].what]
    /\ roll[c].what \notin strayed => roll[c].list = ListOf(roll[c].what)
    /\ roll[c].pc = "stamp" => plan[roll[c].to][roll[c].what] # <<>>

\* Nothing is put on a day by itself before the day is opened.
Untouched == \A d \in Day \ opened : \A w \in What : \A n \in DOMAIN plan[d][w] :
    plan[d][w][n].source = "user"

\* What is recorded of a day that has begun is gone when it is taken back, and a tick
\* of a task is never a tick of its row.
SaidInv ==
    /\ said \in [Day -> Ritual]
    /\ \A d \in Day : ~said[d].committed => said[d].over = None
    /\ \A d \in Day, t \in Task : \A n \in DOMAIN plan[d][t] : ~plan[d][t][n].done

PlanInv == PlanOK /\ Homed /\ Arrived /\ RollsHold /\ Untouched /\ OneRow

=============================================================================
