----------------------------- MODULE MCSharing ------------------------------
(* Two hrefs with one slug, a list and a collection of both kinds, and a       *)
(* calendar with a slug of its own.                                            *)
EXTENDS Sharing, TLC

CONSTANTS h1, h2, h3, a, b, t1, t2, k1, k2

MCSlug == (h1 :> a) @@ (h2 :> b) @@ (h3 :> a)
MCKinds == (h1 :> {"task"}) @@ (h2 :> {"event"}) @@ (h3 :> {"task", "event"})
MCRank == (h1 :> 1) @@ (h2 :> 2) @@ (h3 :> 3)

MCChoices == {<<{a}, {b}>>, <<{}, {a, b}>>}
MCSymmetry == Permutations(Title) \cup Permutations(Credential)

=============================================================================
