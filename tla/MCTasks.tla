------------------------------ MODULE MCTasks ------------------------------
(* A chain of four, a parent with two steps, a ring another client wrote, and  *)
(* a task with a deadline.                                                     *)
EXTENDS Tasks, TLC

CONSTANTS a, b, c, d, e

Open(p, due) == [status |-> "NEEDS-ACTION", parent |-> p, due |-> due]

Scene(day, w, x, y, z, due) ==
    [today |-> day,
     list |-> a :> w @@ b :> x @@ c :> y @@ d :> z @@ e :> due]

MCScenes ==
    {Scene(3, Open(None, 0), Open(a, 0), Open(b, 0), Open(c, 0), Gone),
     Scene(3, Open(None, 0), Open(a, 0), Open(a, 0), Gone, Gone),
     Scene(3, Open(b, 0), Open(a, 0), Gone, Gone, Gone),
     Scene(1, Gone, Gone, Gone, Gone, Open(None, 1))}

MCWishes ==
    {a, b, c, d} \X [field : {"status"}, to : Status]
    \cup {c, d} \X [field : {"parent"}, to : {a, b, None}]
    \cup {e} \X [field : {"due"}, to : {NoDay, 1, 2, 3}, moved : BOOLEAN]
=============================================================================
