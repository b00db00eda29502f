---------------------------- MODULE MCSyncEngine ----------------------------
EXTENDS SyncEngine, TLC
CONSTANTS h1, h2, u1, u2, v1, v2

\* u1's own resource path is h1, u2's is h2; other clients use either.
MCHome == (u1 :> h1) @@ (u2 :> h2)

=============================================================================
