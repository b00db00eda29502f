-------------------------------- MODULE Inbox -------------------------------
(***************************************************************************)
(* What the mail pipeline promises, without its claims, strikes, cursors   *)
(* and retries: every message gets at most one verdict, which is final;    *)
(* a message worth a suggestion puts one card before the owner at that     *)
(* very moment; a card is approved or dismissed once.                      *)
(***************************************************************************)
CONSTANTS Message, Outcome

VARIABLES
    verdict,  \* verdict[m]: an outcome, or "none"
    card      \* card[m]: the card message m put before the owner

vars == <<verdict, card>>

\* Any past: a card for every message that asked for one.
Init ==
    /\ verdict \in [Message -> Outcome \cup {"none"}]
    /\ card \in [Message -> {"none", "open", "approved", "rejected"}]
    /\ \A m \in Message : verdict[m] = "staged" <=> card[m] # "none"

Decide(m) ==
    /\ verdict[m] = "none"
    /\ verdict'[m] \in Outcome
    /\ verdict' = [verdict EXCEPT ![m] = verdict'[m]]
    /\ card' = IF verdict'[m] = "staged" THEN [card EXCEPT ![m] = "open"] ELSE card

Answer(m) ==
    /\ card[m] = "open"
    /\ card'[m] \in {"approved", "rejected"}
    /\ card' = [card EXCEPT ![m] = card'[m]]
    /\ UNCHANGED verdict

Next == \E m \in Message : Decide(m) \/ Answer(m)

Spec == Init /\ [][Next]_vars
=============================================================================
