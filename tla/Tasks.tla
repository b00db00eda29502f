------------------------------- MODULE Tasks -------------------------------
(***************************************************************************)
(* Editing the tasks of one list (service.py edit_task and what it calls):   *)
(* the write to the server, the deadline it remembers as missed, and the     *)
(* parents it completes because nothing is left in them.                     *)
(*                                                                           *)
(* A request holds the service's lock over several exchanges with the        *)
(* server; other clients write there meanwhile, an exchange may fail or lose *)
(* its answer, and the process may die between two of them.  The sidecar is  *)
(* written column by column, each a transaction of its own.                  *)
(*                                                                           *)
(* An etag stands for the content.  Deadlines are all-day; the summary, the  *)
(* notes and the other fields of a task are left out, and an edit carries    *)
(* one of the three that matter here.                                        *)
(***************************************************************************)
EXTENDS Owner, Sequences, FiniteSets

CONSTANTS
    Scenes,         \* the lists to start from, each with the day it is
    Wishes,         \* who may be edited how: pairs of a task and an edit
    Depth,          \* _CLOSE_PARENT_DEPTH, 8 in the code
    MaxForeign,     \* bound: writes of other clients
    MaxFaults       \* bound: exchanges that fail, and crashes

NoDay == 0                                  \* no deadline
Closed == {"COMPLETED", "CANCELLED"}
Status == {"NEEDS-ACTION"} \cup Closed
TaskRow == [status : Status, parent : Task \cup {None}, due : Day \cup {NoDay}]
Gone == [status |-> "none"]

Edit == [field : {"status"}, to : Status]
   \cup [field : {"due"}, to : Day \cup {NoDay}, moved : BOOLEAN]
   \cup [field : {"parent"}, to : Task \cup {None}]

TasksConstants ==
    /\ {LastDay, Depth, MaxDeeds, MaxForeign, MaxFaults} \subseteq Nat
    /\ None \notin Task
    /\ Wishes \subseteq Task \X Edit
    /\ \A s \in Scenes : s.today \in Day /\ s.list \in [Task -> TaskRow \cup {Gone}]

ASSUME TaskAssumption == TasksConstants

VARIABLES
    wire,       \* the list as the server has it
    cache,      \* the list as the app has it
    missed,     \* the sidecar: original_due and original_due_moved
    closing,    \* the setting auto_close_parents
    job,        \* the request that holds the lock
    ask,        \* a request that has passed its check and waits for the lock
    foreign, faults,
    slips,      \* history: the passed deadlines that edits moved, in order
    unstamped,  \* history: tasks whose slip was written and not remembered
    relabelled  \* history: tasks whose first slip was called a moved deadline after others

tasksVars == <<today, wire, cache, missed, closing, job, ask, deeds, foreign, faults,
          slips, unstamped, relabelled>>
History == <<slips, unstamped, relabelled>>

NoJob == [pc |-> "idle"]
NoAsk == [for |-> "nothing"]

Slip == [due : Day, moved : BOOLEAN]
Asking == [for : {"parent", "create"}, task : Task, to : Task]
     \cup [for : {"relabel"}, task : Task, to : BOOLEAN]
Working == [pc : {"put", "stamp", "stamp_moved", "climb"}, task : Task, edit : Edit,
            old : Day \cup {NoDay}, slip : Day \cup {NoDay}, child : Task,
            closed : SUBSET Task, husks : SUBSET Task,
            calm : [insync : BOOLEAN, foreign : Nat]]

TasksTypeOK ==
    /\ today \in Day
    /\ wire \in [Task -> TaskRow \cup {Gone}]
    /\ cache \in [Task -> TaskRow \cup {Gone}]
    /\ missed \in [Task -> [due : Day \cup {NoDay}, moved : BOOLEAN]]
    /\ closing \in BOOLEAN
    /\ job \in Working \cup {NoJob}
    /\ ask \in Asking \cup {NoAsk}
    /\ foreign \in Nat
    /\ slips \in [Task -> Seq(Slip)]
    /\ unstamped \cup relabelled \subseteq Task

-----------------------------------------------------------------------------
(* Reading the cache.                                                        *)

HasTask(t) == cache[t] # Gone
Children(p) == {t \in Task : HasTask(t) /\ cache[t].parent = p}

\* Mutant: a step that was declined is something left to do.
NothingLeftDone(p) == Children(p) # {} /\ \A k \in Children(p) : cache[k].status = "COMPLETED"

\* _nothing_left_in
NothingLeft(p) == Children(p) # {} /\ \A k \in Children(p) : cache[k].status \in Closed

\* The parents that are open although every step of theirs is settled.
Husks == {p \in Task : /\ HasTask(p) /\ cache[p].status \notin Closed
                       /\ Children(p) # {}
                       /\ \A k \in Children(p) : cache[k].status \in Closed}

Overdue(due) == due # NoDay /\ due < today

\* Mutant: a deadline that is moved counts as missed, past or not.
BeingMissedEarly(t, e) ==
    /\ e.field = "due"
    /\ HasTask(t) /\ cache[t].due # NoDay
    /\ missed[t].due = NoDay \/ missed[t].moved
    /\ cache[t].due # e.to

\* _deadline_being_missed
BeingMissed(t, e) ==
    /\ e.field = "due"
    /\ HasTask(t) /\ Overdue(cache[t].due)
    /\ missed[t].due = NoDay \/ missed[t].moved
    /\ cache[t].due # e.to

EditsOf(t) == {e \in Edit : <<t, e>> \in Wishes}
ParentsOf(t) == {e.to : e \in {x \in EditsOf(t) : x.field = "parent"}}

Applied(row, e) ==
    CASE e.field = "status" -> [row EXCEPT !.status = e.to]
      [] e.field = "due" -> [row EXCEPT !.due = e.to]
      [] e.field = "parent" -> [row EXCEPT !.parent = e.to]

-----------------------------------------------------------------------------
(* A request to edit a task.                                                 *)

Idle == job = NoJob
Fault == faults < MaxFaults /\ faults' = faults + 1

Begin(t, e) ==
    /\ Idle
    /\ job' = [pc |-> "put", task |-> t, edit |-> e,
               old |-> IF BeingMissed(t, e) THEN cache[t].due ELSE NoDay,
               slip |-> IF e.field = "due" /\ HasTask(t) /\ cache[t].due # e.to
                           /\ Overdue(cache[t].due) THEN cache[t].due ELSE NoDay,
               child |-> t, closed |-> {}, husks |-> Husks,
               calm |-> [insync |-> wire = cache, foreign |-> foreign]]
    /\ UNCHANGED <<today, wire, cache, missed, closing, foreign, faults, History>>

\* PATCH, /complete and /cancel; an unknown task is refused at once.
EditTask(t, e) ==
    /\ Deed
    /\ HasTask(t)
    /\ e.field # "parent" \/ e.to = None
    /\ Begin(t, e)
    /\ UNCHANGED ask

\* A new parent is looked up in a lock section of its own, before the edit.
CheckParent(t, p) ==
    /\ Deed /\ Idle
    /\ ask = NoAsk
    /\ HasTask(p)
    /\ \/ t # p /\ HasTask(t) /\ ask' = [for |-> "parent", task |-> t, to |-> p]
       \/ t # p /\ ~HasTask(t) /\ ask' = [for |-> "create", task |-> t, to |-> p]
    /\ UNCHANGED <<today, wire, cache, missed, closing, job, foreign, faults, History>>

EditParent ==
    /\ ask.for = "parent"
    /\ ask' = NoAsk
    /\ HasTask(ask.task)
    /\ Begin(ask.task, [field |-> "parent", to |-> ask.to])
    /\ UNCHANGED deeds

Refused ==
    /\ Idle /\ ask # NoAsk
    /\ ~HasTask(ask.task)
    /\ ask' = NoAsk
    /\ UNCHANGED <<today, wire, cache, missed, closing, job, deeds, foreign, faults, History>>

\* What follows the write: the record of the deadline, then the climb.
AfterPut(e) ==
    CASE job.old # NoDay -> "stamp"
      [] e.field = "status" /\ e.to \in Closed /\ closing -> "climb"
      [] OTHER -> "idle"

Goto(pc) == IF pc = "idle" THEN NoJob ELSE [job EXCEPT !.pc = pc]

Slipped == IF job.slip = NoDay THEN slips
           ELSE [slips EXCEPT ![job.task] =
                    Append(@, [due |-> job.slip, moved |-> job.edit.moved])]

\* The write of one task: applied to what the app has, or, where the server has
\* something newer, once more to that; read back into the cache.
Write(t, e) ==
    /\ wire[t] # Gone
    /\ wire' = [wire EXCEPT ![t] = Applied(@, e)]
    /\ cache' = [cache EXCEPT ![t] = Applied(wire[t], e)]

\* The write or the reading back fails, with or without effect; or the task is
\* gone; or it changes once more between the two attempts.
WriteFails(t, e) ==
    /\ IF wire[t] = Gone THEN UNCHANGED <<wire, faults>>
       ELSE Fault /\ wire' \in {wire, [wire EXCEPT ![t] = Applied(@, e)]}
    /\ UNCHANGED cache

Put ==
    LET t == job.task
        wish == job.edit
    IN  /\ job.pc = "put"
        /\ \/ /\ Write(t, wish)
              /\ job' = Goto(AfterPut(wish))
              /\ slips' = Slipped
              /\ UNCHANGED <<faults, unstamped>>
           \/ /\ WriteFails(t, wish)
              /\ job' = NoJob
              /\ slips' = IF wire' = wire THEN slips ELSE Slipped
              /\ unstamped' = IF wire' = wire \/ job.old = NoDay THEN unstamped
                              ELSE unstamped \cup {t}
        /\ UNCHANGED <<today, missed, closing, ask, deeds, foreign, relabelled>>

\* set_sidecar, one column after the other.
StampDue ==
    /\ job.pc = "stamp"
    /\ missed' = [missed EXCEPT ![job.task].due = job.old]
    /\ job' = [job EXCEPT !.pc = "stamp_moved"]
    /\ UNCHANGED <<today, wire, cache, closing, ask, deeds, foreign, faults, History>>

StampMoved ==
    /\ job.pc = "stamp_moved"
    /\ missed' = [missed EXCEPT ![job.task].moved = job.edit.moved]
    /\ job' = NoJob
    /\ UNCHANGED <<today, wire, cache, closing, ask, deeds, foreign, faults, History>>

\* _close_finished_parents, one step up, as far as it may go.
Above == IF HasTask(job.child) THEN cache[job.child].parent ELSE None
ClosesNext ==
    /\ Cardinality(job.closed) < Depth
    /\ Above \in Task \ (job.closed \cup {job.task})
    /\ HasTask(Above) /\ cache[Above].status \notin Closed
    /\ NothingLeft(Above)

Completed == [field |-> "status", to |-> "COMPLETED"]

\* A write that fails ends the climb and not the request.
Climb ==
    /\ job.pc = "climb"
    /\ \/ /\ ~ClosesNext
          /\ job' = NoJob
          /\ UNCHANGED <<wire, cache, faults>>
       \/ /\ ClosesNext
          /\ Write(Above, Completed)
          /\ job' = [job EXCEPT !.child = Above, !.closed = @ \cup {Above}]
          /\ UNCHANGED faults
       \/ /\ ClosesNext
          /\ WriteFails(Above, Completed)
          /\ job' = NoJob
    /\ UNCHANGED <<today, missed, closing, ask, deeds, foreign, History>>

Crash ==
    /\ ~Idle /\ Fault
    /\ job' = NoJob /\ ask' = NoAsk
    /\ unstamped' = IF job.pc \in {"stamp", "stamp_moved"} THEN unstamped \cup {job.task}
                    ELSE unstamped
    /\ UNCHANGED <<today, wire, cache, missed, closing, deeds, foreign, slips, relabelled>>

-----------------------------------------------------------------------------
(* The other requests.                                                       *)

NewTask(p, due) == [status |-> "NEEDS-ACTION", parent |-> p, due |-> due]

\* POST: its parent, too, is looked up before.
CreateTask(t, p) ==
    /\ Idle
    /\ \/ p = None /\ Deed /\ UNCHANGED ask
       \/ ask = [for |-> "create", task |-> t, to |-> p] /\ ask' = NoAsk /\ UNCHANGED deeds
    /\ wire[t] = Gone /\ cache[t] = Gone
    /\ \E due \in {NoDay, today} :
        /\ wire' = [wire EXCEPT ![t] = NewTask(p, due)]
        /\ cache' = [cache EXCEPT ![t] = NewTask(p, due)]
    /\ UNCHANGED <<today, missed, closing, job, foreign, faults, History>>

DeleteTask(t) ==
    /\ Deed /\ Idle
    /\ HasTask(t)
    /\ wire' = [wire EXCEPT ![t] = Gone]
    /\ cache' = [cache EXCEPT ![t] = Gone]
    /\ UNCHANGED <<today, missed, closing, job, ask, foreign, faults, History>>

\* PUT sidecar, forget_original_due
Forget(t) ==
    /\ Deed /\ Idle
    /\ HasTask(t)
    /\ missed' = [missed EXCEPT ![t] = [due |-> NoDay, moved |-> FALSE]]
    /\ slips' = [slips EXCEPT ![t] = <<>>]
    /\ unstamped' = unstamped \ {t} /\ relabelled' = relabelled \ {t}
    /\ UNCHANGED <<today, wire, cache, closing, job, ask, foreign, faults>>

\* PUT sidecar, original_due_moved: only of a record that exists, which is looked
\* up in a lock section before.
CheckRecord(t, b) ==
    /\ Deed /\ Idle
    /\ ask = NoAsk
    /\ HasTask(t) /\ missed[t].due # NoDay
    /\ ask' = [for |-> "relabel", task |-> t, to |-> b]
    /\ UNCHANGED <<today, wire, cache, missed, closing, job, foreign, faults, History>>

\* Which of the slips of a task its record is about.
Unmoved(s) == {i \in DOMAIN s : ~s[i].moved}
First(S) == CHOOSE i \in S : \A j \in S : i <= j
About(s) == IF Unmoved(s) # {} THEN First(Unmoved(s)) ELSE Len(s)

Relabel ==
    LET t == ask.task IN
    /\ Idle
    /\ ask.for = "relabel"
    /\ ask' = NoAsk
    /\ HasTask(t)
    /\ missed' = [missed EXCEPT ![t].moved = ask.to]
    /\ slips' = IF slips[t] = <<>> THEN slips
                ELSE [slips EXCEPT ![t][About(slips[t])].moved = ask.to]
    /\ relabelled' = IF ask.to /\ About(slips[t]) < Len(slips[t]) THEN relabelled \cup {t}
                     ELSE relabelled
    /\ UNCHANGED <<today, wire, cache, closing, job, deeds, foreign, faults, unstamped>>

\* The owner's setting.
SetClosing ==
    /\ Deed /\ Idle
    /\ closing' = ~closing
    /\ UNCHANGED <<today, wire, cache, missed, job, ask, foreign, faults, History>>

-----------------------------------------------------------------------------
(* The world.                                                                *)

\* Another client edits, deletes or adds a task.
Foreign(t) ==
    /\ foreign < MaxForeign /\ foreign' = foreign + 1
    /\ \/ wire[t] # Gone /\ \E e \in EditsOf(t) : wire' = [wire EXCEPT ![t] = Applied(@, e)]
       \/ wire[t] # Gone /\ wire' = [wire EXCEPT ![t] = Gone]
       \/ wire[t] = Gone /\ \E p \in ParentsOf(t) : wire' = [wire EXCEPT ![t] = NewTask(p, NoDay)]
    /\ UNCHANGED <<today, cache, missed, closing, job, ask, deeds, faults, History>>

Refresh ==
    /\ Idle
    /\ cache' = wire
    /\ UNCHANGED <<today, wire, missed, closing, job, ask, deeds, foreign, faults, History>>

NextDay ==
    /\ DayBreaks
    /\ UNCHANGED <<wire, cache, missed, closing, job, ask, deeds, foreign, faults, History>>

TasksInit ==
    /\ \E s \in Scenes : today = s.today /\ wire = s.list
    /\ cache = wire
    /\ missed = [t \in Task |-> [due |-> NoDay, moved |-> FALSE]]
    /\ closing = TRUE
    /\ job = NoJob
    /\ ask = NoAsk
    /\ deeds = 0 /\ foreign = 0 /\ faults = 0
    /\ slips = [t \in Task |-> <<>>]
    /\ unstamped = {} /\ relabelled = {}

TasksNext ==
    \/ \E t \in Task : \E e \in EditsOf(t) : EditTask(t, e)
    \/ \E t \in Task : \E p \in ParentsOf(t) \ {None} : CheckParent(t, p)
    \/ EditParent \/ Refused \/ Relabel
    \/ Put \/ StampDue \/ StampMoved \/ Climb
    \/ Crash
    \/ \E t \in Task : \E p \in ParentsOf(t) : CreateTask(t, p)
    \/ \E t \in Task : DeleteTask(t) \/ Forget(t) \/ Foreign(t)
    \/ \E t \in Task, b \in BOOLEAN : CheckRecord(t, b)
    \/ SetClosing
    \/ Refresh
    \/ NextDay

TasksSpec == TasksInit /\ [][TasksNext]_tasksVars

-----------------------------------------------------------------------------
(* What editing promises.                                                    *)

\* The record of a task is its first missed deadline, or, as long as every change
\* of a passed deadline was said to be a deadline that moved, the latest of those
\* (service.py, _deadline_being_missed).  Not counted are a change whose record a
\* fault kept from being written, and a record that was called a moved deadline
\* when others had been missed after it.
Truth(s) == IF s = <<>> THEN [due |-> NoDay, moved |-> FALSE] ELSE s[About(s)]
Says(record, s) ==
    /\ record.due = Truth(s).due
    /\ record.due # NoDay => record.moved = Truth(s).moved
Known == Task \ (unstamped \cup relabelled)
RecordIsTheFirstMiss == Idle => \A t \in Known : Says(missed[t], slips[t])

\* A request that settles a task leaves no parent open that it finished, however
\* far up, and finishes only what has nothing left in it (service.py,
\* _close_finished_parents): as far as Depth, when nothing fails, and when nobody
\* else writes to the list meanwhile.
Undisturbed == job.calm.insync /\ job.calm.foreign = foreign
FinishedParentsClose == [][
    job.pc = "climb" /\ job' = NoJob /\ faults' = faults /\ Undisturbed =>
        /\ Husks' \ job.husks # {} => Cardinality(job.closed) = Depth
        /\ \A p \in job.closed : \A k \in Children(p) : wire[k].status \in Closed]_tasksVars

-----------------------------------------------------------------------------
(* Why the records are right: all of them are but the one being written; the  *)
(* request decided under the lock whether there is one to write, and a record *)
(* that may be written over has only moved deadlines before it.               *)

Stamping == job.pc \in {"stamp", "stamp_moved"}
Recorded == \A t \in Known : ~(Stamping /\ t = job.task) => Says(missed[t], slips[t])

Decided == job # NoJob =>
    /\ job.slip # NoDay => job.edit.field = "due"
    /\ job.pc = "put" =>
        LET record == missed[job.task]
        IN  job.old = IF record.due = NoDay \/ record.moved THEN job.slip ELSE NoDay
    /\ Stamping => job.edit.field = "due"
    /\ job.pc = "stamp_moved" => missed[job.task].due = job.old

Latest == Stamping /\ job.task \in Known =>
    LET s == slips[job.task]
    IN  /\ s # <<>> /\ s[Len(s)] = [due |-> job.old, moved |-> job.edit.moved]
        /\ Unmoved(s) \subseteq {Len(s)}

RecordInv == TasksTypeOK /\ Recorded /\ Decided /\ Latest

-----------------------------------------------------------------------------
(* Why no parent is left open: a write that settles one task can finish no    *)
(* other than its parent, and that is the one the climb looks at next.        *)

Bounded ==
    /\ job.calm.foreign <= foreign
    /\ IsFiniteSet(job.closed) /\ Cardinality(job.closed) <= Depth

NotClimbed == job.husks = Husks /\ job.closed = {} /\ job.child = job.task

Climbed ==
    /\ job.child \in job.closed \cup {job.task}
    /\ \A p \in job.closed \cup {job.task} : HasTask(p) /\ cache[p].status \in Closed
    /\ \A p \in job.closed : \A k \in Children(p) : cache[k].status \in Closed
    /\ Husks \ job.husks \subseteq {Above}

Finishing == job # NoJob =>
    /\ Bounded
    /\ Undisturbed => wire = cache
    /\ job.pc = "put" => NotClimbed
    /\ job.pc = "climb" /\ Undisturbed => Climbed

ParentInv == RecordInv /\ faults \in Nat /\ Finishing

=============================================================================
