------------------------------- MODULE Owner -------------------------------
(***************************************************************************)
(* What the day plan and the task edits have in common: the owner's tasks,   *)
(* the calendar day, and that the owner asks for boundedly much.             *)
(***************************************************************************)
EXTENDS Integers

CONSTANTS
    Task,       \* the UIDs of the tasks
    None,       \* NULL: no list, no parent, no number
    LastDay,    \* days are 1..LastDay
    MaxDeeds    \* bound: requests of the owner

VARIABLES today, deeds

Day == 1..LastDay

\* The owner's deeds are bounded; what follows from them by itself is not.
Deed == deeds < MaxDeeds /\ deeds' = deeds + 1

DayBreaks == today < LastDay /\ today' = today + 1

=============================================================================
