------------------------------ MODULE MCGrants ------------------------------
EXTENDS Grants, TLC
CONSTANTS c1, c2

MCAsks == {{"read", "write", Offline}, {"read", Offline}}

ClientSymmetry == Permutations(Client)
=============================================================================
