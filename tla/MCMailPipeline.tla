--------------------------- MODULE MCMailPipeline ---------------------------
(* One conversation: a message from before, two more, and a second copy of    *)
(* the last.  What each is decides which stage settles it; "none" never       *)
(* arrives.                                                                   *)
EXTENDS MailPipeline, TLC

CONSTANTS m0, m1, m2, m3, i1, i2

MCCopy == {m0, m1, m2, m3}
MCMessageId == m0 :> NoId @@ m1 :> i1 @@ m2 :> i2 @@ m3 :> i2
MCThreadOf == [c \in MCCopy |-> m1]

Box(a, b, c, d) == m0 :> a @@ m1 :> b @@ m2 :> c @@ m3 :> d
MCMailboxes == {Box("task", "task", "task", "none"),
                Box("junk", "task", "task", "none"),
                Box("junk", "none", "task", "task"),
                Box("junk", "poison", "task", "none"),
                Box("junk", "invite", "invite", "none"),
                Box("junk", "oversize", "event", "none"),
                Box("junk", "event", "broken", "none"),
                Box("junk", "junk", "none", "none")}
MCMaxTrouble ==
    [box \in MCMailboxes |-> IF "none" \in {box[m1], box[m2]} \/ box[m1] = "oversize"
                                \/ box[m2] = "broken" THEN 2 ELSE 1]
=============================================================================
