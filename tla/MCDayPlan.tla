----------------------------- MODULE MCDayPlan -----------------------------
EXTENDS DayPlan, TLC
CONSTANTS t1, n1, h1, l1, l2, c1, c2

\* The task is due on the second day; the habit runs on the first and the last.
MCDue == [t \in Task |-> 2]
MCRuns == [h \in Habit |-> {1, 3}]

DaySymmetry == Permutations(Client) \cup Permutations(List)
=============================================================================
