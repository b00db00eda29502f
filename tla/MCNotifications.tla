-------------------------- MODULE MCNotifications ---------------------------
(* Days of four ticks.  A reminder at its time, a meeting, the digest, a      *)
(* booking, and the alarm and the all-clear of the sync.                      *)
EXTENDS Notifications

MCRuleOf == <<"at", "lead", "clock", "booking", "stalled", "recovered">>
MCWhen == <<1, 4, 0, 0, 0, 0>>
MCLead == <<0, 2, 0, 0, 0, 0>>
=============================================================================
