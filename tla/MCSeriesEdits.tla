--------------------------- MODULE MCSeriesEdits ---------------------------
EXTENDS SeriesEdits
CONSTANTS a, b, f

Every(step, until, count) == [step |-> step, until |-> until, count |-> count]
Plain(rule) == [start |-> 0, rule |-> rule, ex |-> {}, rd |-> {}, note |-> a, over |-> {}]
Change(x, at, ranged) == [slot |-> x, at |-> at, note |-> b, ranged |-> ranged]

\* Every other slot, without an end, up to a slot, a number of times, once.
MCRules == {Every(2, None, 0), Every(2, 4, 0), Every(2, None, 3), Once}
\* Overrides of one occurrence, of those from one on, moved or not, and both.
MCOvers == {{}, {Change(2, 3, FALSE)}, {Change(2, 2, TRUE)}, {Change(2, 3, TRUE)},
            {Change(2, 3, TRUE), Change(4, 4, FALSE)},
            {Change(2, 2, TRUE), [Change(4, 5, TRUE) EXCEPT !.note = a]}}
\* Extra dates and deleted ones.
MCLists == {<<{}, {}>>, <<{3}, {4}>>, <<{2, 5}, {0}>>}

MCInitial ==
    {s \in {[Plain(r) EXCEPT !.over = o, !.rd = l[1], !.ex = l[2]] :
                r \in MCRules, o \in MCOvers, l \in MCLists} :
        \A o \in s.over : o.slot \in Slots(s) \ s.ex}

MCEdits ==
    {[start |-> Keep, note |-> Keep, rule |-> Keep], [start |-> 1, note |-> Keep, rule |-> Keep],
     [start |-> Keep, note |-> f, rule |-> Keep], [start |-> Keep, note |-> Keep, rule |-> Every(4, None, 0)],
     [start |-> 1, note |-> f, rule |-> Once]}
=============================================================================
