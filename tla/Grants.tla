------------------------------ MODULE Grants ------------------------------
(***************************************************************************)
(* What connects a client of the tool server to the owner's account          *)
(* (mcp/oauth.py, mcp/routes.py, db/store.py): a client registers, the owner *)
(* approves a consent form, the client exchanges the code for a pair of      *)
(* tokens and rotates the refresh token from then on.                        *)
(*                                                                           *)
(* Every operation runs under the service's lock as a whole, but commits in  *)
(* several transactions, and the process may die between two of them.  An    *)
(* answer may be lost on its way to the client.                              *)
(*                                                                           *)
(* A family is the chain of pairs that began with one code; it bears the     *)
(* code's number, and the n-th pair the server issued is pair n.             *)
(***************************************************************************)
EXTENDS Integers, FiniteSetsExt

CONSTANTS
    Client,         \* client_ids; each is given out once
    Asks,           \* the sets of scopes a client registers for, or asks for
    None,
    MaxClients,     \* MAX_CLIENTS, 500 in the code
    ConsentTTL, CodeTTL, AccessTTL, IdleTTL, RefreshTTL,
    MaxTime,        \* bound: the clock
    MaxCodes,       \* bound: approvals
    MaxPairs,       \* bound: pairs of tokens
    MaxChanges      \* bound: changes of the credentials

Api == {"read", "write"}
Offline == "offline_access"
Scopes == SUBSET (Api \cup {Offline})
Code == 1..MaxCodes
Pair == 1..MaxPairs

ASSUME AsksAssumption == Asks \subseteq Scopes /\ \A s \in Asks : s \cap Api # {}
ASSUME TimeAssumption ==
    /\ {ConsentTTL, CodeTTL, AccessTTL, IdleTTL, RefreshTTL} \subseteq Nat \ {0}
    /\ CodeTTL <= IdleTTL /\ AccessTTL <= RefreshTTL
ASSUME BoundAssumption == {MaxClients, MaxTime, MaxCodes, MaxPairs, MaxChanges} \subseteq Nat

VARIABLES
    clock,
    cv,         \* credential_version
    clients,    \* the rows of oauth_clients
    spent,      \* client_ids that were given out
    forms,      \* the consent form each client's browser shows, signed
    codes,      \* the rows of oauth_codes
    tokens,     \* the rows of oauth_tokens
    last,       \* how many codes and pairs were made
    holds,      \* what each client keeps: its code and its refresh token
    begun,      \* history: the credentials each family was exchanged under
    replayed,   \* history: families of which a used token was presented
    disturbed   \* history: families that lost an answer or were restored

vars == <<clock, cv, clients, spent, forms, codes, tokens, last, holds,
          begun, replayed, disturbed>>
history == <<begun, replayed, disturbed>>

Registration == [scope : Scopes, used : Nat]
Form == [scope : Scopes, expires : Nat]
CodeRow == [code : Code, client : Client, scope : Scopes, expires : Nat]
Token == [pair : Pair, kind : {"access", "refresh"}, family : Code, client : Client,
          scope : Scopes, used : BOOLEAN, expires : Nat, cv : Nat]
Holding == [code : Code \cup {None}, refresh : Pair \cup {None}]

ASSUME NilAssumption == None \notin Nat \cup Registration

TypeOK ==
    /\ {clock, cv} \subseteq Nat
    /\ clients \in [Client -> Registration \cup {None}]
    /\ spent \subseteq Client
    /\ forms \in [Client -> Form \cup {None}]
    /\ codes \subseteq CodeRow
    /\ tokens \subseteq Token
    /\ last \in [codes : Nat, pairs : Nat]
    /\ holds \in [Client -> Holding]
    /\ begun \in [Code -> Nat \cup {None}]
    /\ replayed \subseteq Code
    /\ disturbed \subseteq Code

-----------------------------------------------------------------------------
(* The clients' table.                                                       *)

Registered(cs) == {c \in Client : cs[c] # None}
Forget(cs, gone) == [c \in Client |-> IF c \in gone THEN None ELSE cs[c]]

Holders(rows) == {r.client : r \in rows}

\* gc_oauth: what has expired, and clients that idled and hold no token.
Unexpired(rows) == {r \in rows : r.expires > clock}
Idle(cs, ts) == {c \in Registered(cs) \ Holders(ts) : cs[c].used + IdleTTL <= clock}
Swept(cs, ts) == Forget(cs, Idle(cs, ts))

\* Mutant: a client in the middle of a consent is evicted like any other.
EvictableInConsent(cs, ks, ts) == Registered(cs) \ Holders(ts)

\* evict_oauth_clients: whoever holds nothing, the least recently used first.
Evictable(cs, ks, ts) == Registered(cs) \ (Holders(ts) \cup Holders(ks))
Oldest(cs, S) == {c \in S : \A d \in S : cs[c].used <= cs[d].used}

NewClient(scope) == [scope |-> scope, used |-> clock]

\* At a full table one registration makes room for another.
Room(cs, ks, ts) ==
    LET out == Oldest(cs, Evictable(cs, ks, ts))
    IN  IF Cardinality(Registered(cs)) < MaxClients \/ out = {} THEN {cs}
        ELSE {Forget(cs, {d}) : d \in out}

\* A registration that is refused, as the table stays full or for what it asks, has
\* swept the tables and made room all the same.
Register(c) ==
    /\ c \notin spent
    /\ LET ks == Unexpired(codes)
           ts == Unexpired(tokens)
       IN  /\ codes' = ks
           /\ tokens' = ts
           /\ \E cs \in Room(Swept(clients, ts), ks, ts) :
                \/ /\ Cardinality(Registered(cs)) < MaxClients
                   /\ \E scope \in Asks : clients' = [cs EXCEPT ![c] = NewClient(scope)]
                   /\ spent' = spent \cup {c}
                \/ clients' = cs /\ UNCHANGED spent
    /\ UNCHANGED <<clock, cv, forms, last, holds, history>>

Touched(cs, c) == IF cs[c] = None THEN cs ELSE [cs EXCEPT ![c].used = clock]

-----------------------------------------------------------------------------
(* Consent.                                                                  *)

Signed(scope) == [scope |-> scope, expires |-> clock + ConsentTTL]

\* verify_request: the form is taken for what was signed, until it expires; the
\* client is not looked up again.
Verified(c) == forms[c] # None /\ forms[c].expires >= clock

\* authorize_form: what is asked for, of what the client registered for; nothing is
\* stored.
Authorize(c) ==
    /\ clients[c] # None
    /\ \E asked \in Asks :
        /\ asked \cap clients[c].scope \cap Api # {}
        /\ forms' = [forms EXCEPT ![c] = Signed(asked \cap clients[c].scope)]
    /\ UNCHANGED <<clock, cv, clients, spent, codes, tokens, last, holds, history>>

Granted(scope, readOnly) == IF readOnly THEN scope \cap {"read", Offline} ELSE scope

NewCode(c, scope) ==
    [code |-> last.codes + 1, client |-> c, scope |-> scope, expires |-> clock + CodeTTL]

\* issue_code: the code and the client's stamp are two transactions.
IssueCode(c, scope, touched) ==
    /\ last.codes < MaxCodes
    /\ codes' = codes \cup {NewCode(c, scope)}
    /\ last' = [last EXCEPT !.codes = @ + 1]
    /\ clients' = IF touched THEN Touched(clients, c) ELSE clients

\* authorize_submit: the redirect carries the code to the client.  A form that
\* is declined changes nothing.
Approve(c) ==
    /\ Verified(c)
    /\ \E readOnly, touched, arrives \in BOOLEAN :
        LET scope == Granted(forms[c].scope, readOnly)
        IN  /\ scope \cap Api # {}
            /\ arrives => touched
            /\ IssueCode(c, scope, touched)
            /\ holds' = IF arrives THEN [holds EXCEPT ![c].code = last.codes + 1] ELSE holds
    /\ forms' = [forms EXCEPT ![c] = None]
    /\ UNCHANGED <<clock, cv, spent, tokens, history>>

-----------------------------------------------------------------------------
(* Tokens.                                                                   *)

NewToken(kind, c, scope, family) ==
    [pair |-> last.pairs + 1, kind |-> kind, family |-> family, client |-> c,
     scope |-> scope, used |-> FALSE, cv |-> cv,
     expires |-> clock + (IF kind = "access" THEN AccessTTL ELSE RefreshTTL)]

Minted(c, scope, family) ==
    {NewToken("access", c, scope, family)} \cup
    (IF Offline \in scope THEN {NewToken("refresh", c, scope, family)} ELSE {})

\* _issue_pair, from the rows ks and ts its caller has committed: the access token,
\* the refresh token, the client's stamp and the purge are four transactions.
IssuePair(c, scope, family, ks, ts) ==
    /\ last.pairs < MaxPairs
    /\ last' = [last EXCEPT !.pairs = @ + 1]
    /\ \/ \E arrives \in BOOLEAN :
            LET all == Unexpired(ts \cup Minted(c, scope, family))
            IN  /\ tokens' = all
                /\ codes' = Unexpired(ks)
                /\ clients' = Swept(Touched(clients, c), all)
                /\ holds' = [holds EXCEPT ![c] =
                        [code |-> None,
                         refresh |-> IF arrives /\ Offline \in scope THEN last.pairs + 1
                                     ELSE @.refresh]]
                /\ disturbed' = IF arrives THEN disturbed ELSE disturbed \cup {family}
       \/ /\ \E some \in {{}, {NewToken("access", c, scope, family)}, Minted(c, scope, family)} :
                tokens' = ts \cup some
          /\ codes' = ks
          /\ disturbed' = disturbed \cup {family}
          /\ UNCHANGED <<clients, holds>>

\* _authenticate_client: an evicted client is unknown.
Authenticated(c) == clients[c] # None

\* take_oauth_code: the row is gone, whether or not it was still good.
Taken(row) == codes \ {row}

\* _grant_code: the code is taken before anything else is looked at, and gone if it
\* has expired, is another client's, or its proof or redirect URI is wrong.
Exchange(c) ==
    /\ Authenticated(c)
    /\ \E row \in codes :
        /\ row.client = c => row.code = holds[c].code
        /\ \/ /\ row.client = c /\ row.expires > clock
              /\ IssuePair(c, row.scope, row.code, Taken(row), tokens)
              /\ begun' = [begun EXCEPT ![row.code] = cv]
           \/ /\ codes' = Taken(row)
              /\ UNCHANGED <<clients, tokens, last, holds, begun, disturbed>>
    /\ UNCHANGED <<clock, cv, spent, forms, replayed>>

OfFamily(ts, f) == {t \in ts : t.family = f}

\* Mutant: the refresh tokens of the family only.
RefreshTokens(t) == tokens \ {s \in OfFamily(tokens, t.family) : s.kind = "refresh"}

\* revoke_oauth_family, on a replay.
Ended(t) == tokens \ OfFamily(tokens, t.family)

\* Mutant: whatever the credentials were.
AnyCredentials(t) == TRUE

\* _check_cv, before a refresh token is looked at any further.
Current(t) == t.cv = cv

\* A refresh may narrow the scope; offline_access stays whatever it asks.
Narrowed(t, asked) == asked \cup (t.scope \cap {Offline})

\* use_refresh_token: the first use marks the token.
Claimed(t) == (tokens \ {t}) \cup {[t EXCEPT !.used = TRUE]}

\* _grant_refresh, of the token t with the scopes asked.
GrantRefresh(c, t, asked) ==
    /\ Authenticated(c)
    /\ t.client = c /\ t.kind = "refresh"
    /\ Current(t)
    /\ \/ /\ t.used
          /\ tokens' = Ended(t)
          /\ replayed' = replayed \cup {t.family}
          /\ UNCHANGED <<clients, codes, last, holds, disturbed>>
       \/ /\ ~t.used /\ asked \subseteq t.scope /\ t.expires > clock
          /\ IssuePair(c, Narrowed(t, asked), t.family, codes, Claimed(t))
          /\ UNCHANGED replayed
    /\ UNCHANGED <<clock, cv, spent, forms, begun>>

\* A client refreshes with what it keeps; it asks for its scopes, or for fewer.
Refresh(c) == \E t \in tokens, asked \in Scopes :
    /\ t.pair = holds[c].refresh
    /\ asked \cap Api # {}
    /\ GrantRefresh(c, t, asked)

\* A client is restored from a backup and keeps an older token of its own again.
Restore(c) ==
    /\ \E t \in tokens :
        /\ t.kind = "refresh" /\ t.client = c /\ t.pair # holds[c].refresh
        /\ holds' = [holds EXCEPT ![c].refresh = t.pair]
        /\ disturbed' = disturbed \cup {t.family}
    /\ UNCHANGED <<clock, cv, clients, spent, forms, codes, tokens, last, begun, replayed>>

\* drop_connection: the owner ends a family, whatever is left of it.
Disconnect(f) ==
    /\ OfFamily(tokens, f) # {}
    /\ tokens' = tokens \ OfFamily(tokens, f)
    /\ UNCHANGED <<clock, cv, clients, spent, forms, codes, last, holds, history>>

\* revoke: a client ends the family of a token of its own.
Revoke(c) ==
    /\ Authenticated(c)
    /\ \E t \in tokens : t.client = c /\ tokens' = tokens \ OfFamily(tokens, t.family)
    /\ UNCHANGED <<clock, cv, clients, spent, forms, codes, last, holds, history>>

ChangeCredentials ==
    /\ cv < MaxChanges
    /\ cv' = cv + 1
    /\ UNCHANGED <<clock, clients, spent, forms, codes, tokens, last, holds, history>>

Tick ==
    /\ clock < MaxTime
    /\ clock' = clock + 1
    /\ UNCHANGED <<cv, clients, spent, forms, codes, tokens, last, holds, history>>

Init ==
    /\ clock = 0
    /\ cv = 0
    /\ clients = [c \in Client |-> None]
    /\ spent = {}
    /\ forms = [c \in Client |-> None]
    /\ codes = {}
    /\ tokens = {}
    /\ last = [codes |-> 0, pairs |-> 0]
    /\ holds = [c \in Client |-> [code |-> None, refresh |-> None]]
    /\ begun = [k \in Code |-> None]
    /\ replayed = {}
    /\ disturbed = {}

Next ==
    \/ \E c \in Client :
        Register(c) \/ Authorize(c) \/ Approve(c) \/ Exchange(c) \/ Refresh(c) \/ Restore(c)
        \/ Revoke(c)
    \/ \E f \in Code : Disconnect(f)
    \/ ChangeCredentials
    \/ Tick

Spec == Init /\ [][Next]_vars

-----------------------------------------------------------------------------
(* What can be done with a token, and what the owner is shown.               *)

\* verify_bearer.
Usable(t) == t.kind = "access" /\ t.expires > clock /\ t.cv = cv

\* Mutant: what the newest token may do.
ListedNewest(f) ==
    LET live == {t \in OfFamily(Unexpired(tokens), f) : ~t.used}
    IN  UNION {t.scope : t \in {u \in live : \A v \in live : v.pair <= u.pair}}

\* list_oauth_grants: the union of what the family's live tokens may do.
Listed(f) == UNION {t.scope : t \in {u \in OfFamily(Unexpired(tokens), f) : ~u.used}}

-----------------------------------------------------------------------------
(* The inductive invariant of GrantsProofs.                                  *)

\* A token is numbered, only a refresh token is used up or ever has
\* offline_access to lose, and it bears the credentials its family began under.
Issued == \A t \in tokens :
    /\ t.pair <= last.pairs
    /\ t.family <= last.codes
    /\ t.used => t.kind = "refresh"
    /\ t.kind = "refresh" => Offline \in t.scope
    /\ t.cv = begun[t.family]

PairsDiffer == \A s, t \in tokens : s.pair = t.pair /\ s.kind = t.kind => s = t
CodesDiffer == \A j, k \in codes : j.code = k.code => j = k

\* A code that can still be exchanged has no family yet.
Unexchanged == \A k \in codes :
    /\ k.code <= last.codes
    /\ k.expires <= clock + CodeTTL
    /\ k.code \notin replayed
    /\ \A t \in tokens : t.family # k.code

Over == \A f \in replayed :
    /\ f <= last.codes
    /\ f \in disturbed
    /\ \A t \in tokens : t.family # f

\* What a client keeps is its own; a code it was sent expires before the client
\* idles; a refresh token it keeps is a used one only where something went wrong.
KeepsItsOwn == \A c \in Client :
    /\ holds[c].code # None => holds[c].code <= last.codes
    /\ holds[c].refresh # None => holds[c].refresh <= last.pairs
    /\ \A k \in codes : k.code = holds[c].code =>
        /\ k.client = c
        /\ clients[c] # None => k.expires <= clients[c].used + CodeTTL
    /\ \A t \in tokens : t.kind = "refresh" /\ t.pair = holds[c].refresh =>
        /\ t.client = c
        /\ t.used => t.family \in disturbed

IInv == Issued /\ PairsDiffer /\ CodesDiffer /\ Unexchanged /\ Over /\ KeepsItsOwn

-----------------------------------------------------------------------------
(* Properties.                                                               *)

\* A client that uses what it was given, in order, never sets off the alarm for a
\* token that was used twice: only after an answer was lost, or the client went
\* back to an older token, is a grant ended that way (oauth.py, _grant_refresh).
\* When the alarm goes off the whole grant is over, its access tokens too, and
\* nothing brings it back.
ReplayEndsGrant ==
    /\ replayed \subseteq disturbed
    /\ \A t \in tokens : t.family \notin replayed

\* A change of the credentials ends every grant made before it, however often it
\* was refreshed on the way.
EndsWithCredentials == \A t \in tokens : Usable(t) => begun[t.family] = cv

\* The owner is shown all that a connection can still do (store.py, list_oauth_grants).
ListShowsAll == \A t \in tokens : Usable(t) => t.scope \subseteq Listed(t.family)

\* A client that holds a token, or a code it has been sent, stays registered through
\* any number of registrations by others (store.py, evict_oauth_clients, gc_oauth).
Working(c) ==
    \/ \E t \in Unexpired(tokens) : t.client = c
    \/ \E k \in Unexpired(codes) : k.code = holds[c].code
WorkingClientStays == [][
    \A c \in Client : clients[c] # None /\ Working(c) => clients'[c] # None]_vars

=============================================================================
