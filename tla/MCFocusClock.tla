--------------------------- MODULE MCFocusClock ---------------------------
EXTENDS FocusClock, TLC
CONSTANTS e1, e2, w1, w2

MCQueue == <<e1, e2>>
MCLength == [p \in Phase |-> IF p = "focus" THEN 2 ELSE 1]

WindowSymmetry == Permutations(Window)
=============================================================================
