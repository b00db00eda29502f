----------------------------- MODULE MailStore ------------------------------
(***************************************************************************)
(* The mail tables of SQLite (db/store.py): the ledger of the messages     *)
(* already decided, the cursor of the folder, the suggestions put before   *)
(* the owner, what each thread feeds, and what the owner turned down.      *)
(* Every operator is one statement or one transaction of the store.        *)
(*                                                                         *)
(* A copy is one delivery of a message to the folder.  Two copies with the *)
(* same Message-ID are one message to the ledger.                          *)
(***************************************************************************)
EXTENDS Integers, Sequences, FiniteSets

CONSTANTS
    Copy,          \* deliveries to the folder
    MessageId,     \* MessageId[c]: the Message-ID header of c, or NoId
    ThreadOf,      \* ThreadOf[c]: the conversation c belongs to
    NoId,
    MaxInterrupted \* the strikes after which a message is given up

Thread == {ThreadOf[c] : c \in Copy}

\* A claim is taken on a hash of the bytes, before anything is parsed, and
\* swapped for the message's own key.  A message without a Message-ID keeps it.
RawKey(c) == <<"hash", c>>
OwnKey(c) == IF MessageId[c] = NoId THEN RawKey(c) ELSE <<"id", MessageId[c]>>
OversizeKey(c) == <<"oversize", c>>
Key == {RawKey(c) : c \in Copy} \cup {OwnKey(c) : c \in Copy}
           \cup {OversizeKey(c) : c \in Copy}

Unsettled == "unsettled"
Outcome == {"skipped", "not_actionable", "staged", "attached", "duplicate",
            "suppressed", "error"}

\* A row of mail_ledger; NoRow is its absence.
NoRow == [outcome |-> "none", released |-> FALSE, strikes |-> 0]
LedgerRow ==
    {NoRow} \cup [outcome : {Unsettled} \cup Outcome, released : BOOLEAN,
                  strikes : 0 .. MaxInterrupted]

Held(ledger, k) == ledger[k].outcome = Unsettled /\ ~ledger[k].released
Settled(ledger, k) == ledger[k].outcome \in Outcome

\* Mutant: a claim is taken whatever the row says.
ClaimableAlways(ledger, k) == TRUE

Claimable(ledger, k) == ledger[k] = NoRow \/ ledger[k].released

Claim(ledger, k) ==
    [ledger EXCEPT ![k] = [outcome |-> Unsettled, released |-> FALSE,
                           strikes |-> @.strikes]]

Settle(ledger, k, o) == [ledger EXCEPT ![k].outcome = o]

\* Only an unsettled claim is handed back, and its strikes go with it.
Release(ledger, k) ==
    [ledger EXCEPT ![k] = IF @.outcome = Unsettled THEN NoRow ELSE @]

\* A claim nobody settled belongs to a run that died: a strike for each one
\* that was held, and the message is given up at the last.
Recovered(row) ==
    LET struck == IF row.outcome = Unsettled /\ ~row.released
                  THEN [row EXCEPT !.strikes = @ + 1, !.released = TRUE]
                  ELSE row
    IN  IF struck.outcome = Unsettled /\ struck.strikes >= MaxInterrupted
        THEN [struck EXCEPT !.outcome = "error", !.released = FALSE]
        ELSE struck

\* Mutant: a released claim is forgotten, with the number of its strikes.
RecoverForgetting(ledger) ==
    [k \in Key |-> IF ledger[k].outcome = Unsettled THEN NoRow ELSE ledger[k]]

RecoverUnsettled(ledger) == [k \in Key |-> Recovered(ledger[k])]

-----------------------------------------------------------------------------
(* Suggestions, in the order they were staged; a suggestion's id is its    *)
(* place.  An update suggestion names the suggestion whose task it changes. *)

Kind == {"task", "event", "invite", "update"}
Suggestion == [origin : Copy, merged : SUBSET Copy, kind : Kind, target : Nat,
               status : {"pending", "approving", "approved", "rejected"}]

Messages(s) == {s.origin} \cup s.merged
InThread(suggestions, t) ==
    {i \in DOMAIN suggestions : ThreadOf[suggestions[i].origin] = t}
Insert(suggestions, c, kind, target) ==
    Append(suggestions, [origin |-> c, merged |-> {}, kind |-> kind,
                         target |-> target, status |-> "pending"])

Attach(suggestions, i, c) == [suggestions EXCEPT ![i].merged = @ \cup {c}]

\* Mutant: the status is set without being compared.
CanMoveAny(suggestions, i, from) == TRUE

\* The compare-and-set of a suggestion's status.
CanMove(suggestions, i, from) == suggestions[i].status = from
MoveTo(suggestions, i, to) == [suggestions EXCEPT ![i].status = to]
Transition(suggestions, i, from, to) ==
    IF CanMove(suggestions, i, from) THEN MoveTo(suggestions, i, to) ELSE suggestions

\* The latest suggestion made of an invitation; copies of one thread carry the
\* same event UID here.
Latest(S) == CHOOSE i \in S : \A j \in S : j <= i
InviteSuggestion(suggestions, c) ==
    LET made == {i \in InThread(suggestions, ThreadOf[c]) :
                     suggestions[i].kind = "invite"}
    IN  IF made = {} THEN 0 ELSE Latest(made)

\* A row of mail_threads: the suggestion the thread feeds and the suggestion
\* whose task it feeds; 0 is NULL.
NoThread == [suggestion |-> 0, task |-> 0]

\* mail_rejections holds one row per message of a rejected suggestion.
RejectionsOf(suggestions, i) ==
    {<<OwnKey(c), ThreadOf[c]>> : c \in Messages(suggestions[i])}
IsRejectedMessage(rejections, k) == \E r \in rejections : r[1] = k
RejectedIn(rejections, t) == \E r \in rejections : r[2] = t

-----------------------------------------------------------------------------
(* The cursor of a folder.                                                  *)

NoCursor == [validity |-> 0, last |-> 0, window |-> FALSE]
=============================================================================
