----------------------------- MODULE MCTaskMove -----------------------------
EXTENDS TaskMove, TLC
CONSTANTS h1, h2, u1, u2, v1, v2, v3, l1, l2

\* u2 is a subtask of u1 in version v2, which is v1 with the parent link; v3 is
\* v1 written again.
MCHome == [u \in UID |-> IF u = u2 THEN h2 ELSE h1]
MCParent == [u \in UID |-> IF u = u2 THEN u1 ELSE Absent]
MCUnparented == [v \in Version |-> IF v = v2 THEN v1 ELSE v]
MCMeaning == [v \in Version |-> IF v = v3 THEN v1 ELSE v]

\* Lists can be renamed; UIDs and versions cannot, nor the hrefs they are home to.
MoveSymmetry == Permutations(List)

=============================================================================
