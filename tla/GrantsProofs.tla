---------------------------- MODULE GrantsProofs ----------------------------
(***************************************************************************)
(* What connects a client to the account, for any clients, scopes, lengths *)
(* of time and bounds: type correctness, and from the inductive invariant  *)
(* IInv that only misuse sets off the alarm, that a change of the          *)
(* credentials ends every grant, that the owner is shown all a connection  *)
(* can do, and that a working client stays registered.                     *)
(***************************************************************************)
EXTENDS Grants, TLAPS

LEMMA Times ==
    /\ ConsentTTL \in Nat \ {0} /\ CodeTTL \in Nat \ {0} /\ AccessTTL \in Nat \ {0}
    /\ IdleTTL \in Nat \ {0} /\ RefreshTTL \in Nat \ {0}
    /\ CodeTTL <= IdleTTL
BY TimeAssumption

LEMMA Bounds ==
    MaxClients \in Nat /\ MaxTime \in Nat /\ MaxCodes \in Nat /\ MaxPairs \in Nat
BY BoundAssumption

-----------------------------------------------------------------------------
(* The tables.                                                               *)

LEMMA UnexpiredRows ==
    ASSUME NEW rows
    PROVE  Unexpired(rows) \subseteq rows
BY DEF Unexpired

LEMMA SweptRows ==
    ASSUME NEW cs, NEW ts, NEW c \in Client
    PROVE  /\ Swept(cs, ts)[c] # None => Swept(cs, ts)[c] = cs[c]
           /\ c \notin Idle(cs, ts) => Swept(cs, ts)[c] = cs[c]
BY DEF Swept, Forget

LEMMA SweptType ==
    ASSUME NEW cs \in [Client -> Registration \cup {None}], NEW ts
    PROVE  Swept(cs, ts) \in [Client -> Registration \cup {None}]
BY DEF Swept, Forget

LEMMA TouchedType ==
    ASSUME NEW cs \in [Client -> Registration \cup {None}], NEW c \in Client, clock \in Nat
    PROVE  Touched(cs, c) \in [Client -> Registration \cup {None}]
BY DEF Touched, Registration

\* A stamp leaves the others alone and is the time it was made.
LEMMA TouchedRows ==
    ASSUME NEW cs \in [Client -> Registration \cup {None}], NEW c \in Client, NEW d \in Client,
           clock \in Nat
    PROVE  /\ d # c => Touched(cs, c)[d] = cs[d]
           /\ cs[d] = None => Touched(cs, c)[d] = None
           /\ cs[d] # None => Touched(cs, c)[d] # None
           /\ cs[c] # None => Touched(cs, c)[c].used = clock
<1>1. CASE cs[c] = None
  BY <1>1 DEF Touched
<1>2. CASE cs[c] # None
  <2>1. [cs[c] EXCEPT !.used = clock] \in Registration
    BY <1>2 DEF Registration
  <2>2. Touched(cs, c) = [cs EXCEPT ![c] = [cs[c] EXCEPT !.used = clock]]
    BY <1>2 DEF Touched
  <2>3. [cs[c] EXCEPT !.used = clock].used = clock
    BY <1>2 DEF Registration
  <2> QED
    BY <1>2, <2>1, <2>2, <2>3, NilAssumption
<1> QED
  BY <1>1, <1>2

LEMMA MintedRows ==
    ASSUME NEW c, NEW scope, NEW family, NEW t \in Minted(c, scope, family)
    PROVE  /\ t.pair = last.pairs + 1 /\ t.family = family /\ t.client = c
           /\ t.scope = scope /\ ~t.used /\ t.cv = cv
           /\ t.kind \in {"access", "refresh"}
           /\ t.kind = "refresh" => Offline \in scope
           /\ t = NewToken(t.kind, c, scope, family)
BY DEF Minted, NewToken

LEMMA MintedType ==
    ASSUME TypeOK, last.pairs < MaxPairs,
           NEW c \in Client, NEW scope \in Scopes, NEW family \in Code
    PROVE  Minted(c, scope, family) \subseteq Token
<1>1. last.pairs + 1 \in Pair
  BY Bounds DEF TypeOK, Pair
<1>2. \A kind \in {"access", "refresh"} :
        clock + (IF kind = "access" THEN AccessTTL ELSE RefreshTTL) \in Nat
  BY Times DEF TypeOK
<1>3. cv \in Nat
  BY DEF TypeOK
<1>4. \A kind \in {"access", "refresh"} : NewToken(kind, c, scope, family) \in Token
  BY <1>1, <1>2, <1>3 DEF NewToken, Token
<1> QED
  BY <1>4 DEF Minted

-----------------------------------------------------------------------------
(* What the two operations that mint a pair have in common.                  *)

\* What a pair issued from rows ts and ks does to the variables.
PairStep(c, scope, family, ks, ts) ==
    /\ last' = [last EXCEPT !.pairs = last.pairs + 1]
    /\ last.pairs < MaxPairs
    /\ tokens' \subseteq ts \cup Minted(c, scope, family)
    /\ codes' \subseteq ks
    /\ disturbed' \in {disturbed, disturbed \cup {family}}
    /\ holds' \in [Client -> Holding]
    /\ \A d \in Client : d # c => holds'[d] = holds[d]
    /\ holds'[c].code \in {None, holds[c].code}
    /\ holds'[c].refresh \in {holds[c].refresh, last.pairs + 1}
    /\ \/ family \in disturbed'
       \/ Offline \notin scope
       \/ holds'[c].refresh = last.pairs + 1
    /\ clients' \in [Client -> Registration \cup {None}]
    /\ \A d \in Client : clients'[d] # None =>
         clients[d] # None /\ clients'[d].used \in {clients[d].used, clock}

LEMMA PairFacts ==
    ASSUME TypeOK, NEW c \in Client, NEW scope \in Scopes, NEW family \in Code,
           NEW ks \in SUBSET CodeRow, NEW ts \in SUBSET Token,
           IssuePair(c, scope, family, ks, ts)
    PROVE  PairStep(c, scope, family, ks, ts)
<1>0. clock \in Nat /\ last \in [codes : Nat, pairs : Nat] /\ holds \in [Client -> Holding]
      /\ clients \in [Client -> Registration \cup {None}]
  BY DEF TypeOK
<1>1. last' = [last EXCEPT !.pairs = last.pairs + 1] /\ last.pairs < MaxPairs
  BY DEF IssuePair
<1>2. CASE \E arrives \in BOOLEAN :
            LET all == Unexpired(ts \cup Minted(c, scope, family))
            IN  /\ tokens' = all
                /\ codes' = Unexpired(ks)
                /\ clients' = Swept(Touched(clients, c), all)
                /\ holds' = [holds EXCEPT ![c] =
                        [code |-> None,
                         refresh |-> IF arrives /\ Offline \in scope THEN last.pairs + 1
                                     ELSE @.refresh]]
                /\ disturbed' = IF arrives THEN disturbed ELSE disturbed \cup {family}
  <2>1. PICK arrives \in BOOLEAN :
            /\ tokens' = Unexpired(ts \cup Minted(c, scope, family))
            /\ codes' = Unexpired(ks)
            /\ clients' = Swept(Touched(clients, c), tokens')
            /\ holds' = [holds EXCEPT ![c] =
                    [code |-> None,
                     refresh |-> IF arrives /\ Offline \in scope THEN last.pairs + 1
                                 ELSE holds[c].refresh]]
            /\ disturbed' = IF arrives THEN disturbed ELSE disturbed \cup {family}
    BY <1>2
  <2>2. tokens' \subseteq ts \cup Minted(c, scope, family) /\ codes' \subseteq ks
    BY <2>1, UnexpiredRows
  <2>3. last.pairs + 1 \in Pair
    BY <1>0, <1>1, Bounds DEF Pair
  <2>4. /\ holds' \in [Client -> Holding]
        /\ \A d \in Client : d # c => holds'[d] = holds[d]
        /\ holds'[c].code = None
        /\ holds'[c].refresh =
             IF arrives /\ Offline \in scope THEN last.pairs + 1 ELSE holds[c].refresh
    BY <1>0, <2>1, <2>3 DEF Holding
  <2>5. clients' \in [Client -> Registration \cup {None}]
    BY <1>0, <2>1, TouchedType, SweptType
  <2>6. ASSUME NEW d \in Client, clients'[d] # None
        PROVE  clients[d] # None /\ clients'[d].used \in {clients[d].used, clock}
    <3>1. clients'[d] = Touched(clients, c)[d]
      BY <2>1, <2>6, SweptRows
    <3> QED
      BY <1>0, <2>6, <3>1, TouchedRows
  <2>7. disturbed' \in {disturbed, disturbed \cup {family}} /\ (~arrives => family \in disturbed')
    BY <2>1
  <2> QED
    BY <1>1, <2>2, <2>4, <2>5, <2>6, <2>7 DEF PairStep
<1>3. CASE /\ \E some \in {{}, {NewToken("access", c, scope, family)}, Minted(c, scope, family)} :
                tokens' = ts \cup some
           /\ codes' = ks
           /\ disturbed' = disturbed \cup {family}
           /\ UNCHANGED <<clients, holds>>
  <2>1. {NewToken("access", c, scope, family)} \subseteq Minted(c, scope, family)
    BY DEF Minted
  <2>2. tokens' \subseteq ts \cup Minted(c, scope, family)
    BY <1>3, <2>1
  <2> QED
    BY <1>0, <1>1, <1>3, <2>2 DEF PairStep
<1> QED
  BY <1>2, <1>3, Zenon DEF IssuePair

\* The marked token is the token in all but its mark.
LEMMA ClaimedRows ==
    ASSUME NEW t \in Token, NEW s \in Claimed(t)
    PROVE  \/ s \in tokens /\ s # t
           \/ /\ s = [t EXCEPT !.used = TRUE] /\ s \in Token
              /\ s.used /\ s.pair = t.pair /\ s.kind = t.kind /\ s.family = t.family
              /\ s.client = t.client /\ s.scope = t.scope /\ s.cv = t.cv
              /\ s.expires = t.expires
BY DEF Claimed, Token

LEMMA ClaimedType ==
    ASSUME tokens \subseteq Token, NEW t \in Token
    PROVE  Claimed(t) \subseteq Token
BY ClaimedRows

-----------------------------------------------------------------------------
(* Types.                                                                    *)

LEMMA InitType == Init => TypeOK
BY DEF Init, TypeOK, Holding

\* Room takes away at most one registration, of a client that holds nothing.
LEMMA RoomRows ==
    ASSUME NEW cs \in [Client -> Registration \cup {None}], NEW ks, NEW ts,
           NEW some \in Room(cs, ks, ts)
    PROVE  /\ some \in [Client -> Registration \cup {None}]
           /\ \A c \in Client : some[c] # None => some[c] = cs[c]
           /\ \A c \in Client : c \notin Evictable(cs, ks, ts) => some[c] = cs[c]
<1> DEFINE out == Oldest(cs, Evictable(cs, ks, ts))
<1>1. out \subseteq Evictable(cs, ks, ts)
  BY DEF Oldest
<1>2. some = cs \/ \E d \in out : some = Forget(cs, {d})
  BY DEF Room
<1>3. CASE some = cs
  BY <1>3
<1>4. ASSUME NEW d \in out, some = Forget(cs, {d})
      PROVE  /\ some \in [Client -> Registration \cup {None}]
             /\ \A c \in Client : some[c] # None => some[c] = cs[c]
             /\ \A c \in Client : c \notin Evictable(cs, ks, ts) => some[c] = cs[c]
  <2>1. \A c \in Client : some[c] = IF c = d THEN None ELSE cs[c]
    BY <1>4 DEF Forget
  <2>2. some \in [Client -> Registration \cup {None}]
    BY <1>4 DEF Forget
  <2> HIDE DEF out
  <2> QED
    BY <1>1, <2>1, <2>2
<1> QED
  BY <1>2, <1>3, <1>4

\* What a registration makes of the clients' table.
LEMMA RegisterRows ==
    ASSUME TypeOK, NEW c \in Client, Register(c)
    PROVE  \E cs \in Room(Swept(clients, Unexpired(tokens)), Unexpired(codes), Unexpired(tokens)) :
              clients' = cs \/ \E scope \in Asks : clients' = [cs EXCEPT ![c] = NewClient(scope)]
BY DEF Register

LEMMA RegisterType ==
    ASSUME TypeOK, NEW c \in Client, Register(c)
    PROVE  TypeOK'
<1> DEFINE swept == Swept(clients, Unexpired(tokens))
<1>1. Unexpired(codes) \subseteq codes /\ Unexpired(tokens) \subseteq tokens
  BY UnexpiredRows
<1>2. swept \in [Client -> Registration \cup {None}]
  BY SweptType DEF TypeOK
<1>3. codes' = Unexpired(codes) /\ tokens' = Unexpired(tokens) /\ spent' \subseteq Client
  BY DEF Register, TypeOK
<1>4. \A scope \in Asks : NewClient(scope) \in Registration
  BY AsksAssumption DEF NewClient, Registration, TypeOK
<1> HIDE DEF swept
<1>5. PICK cs \in Room(swept, Unexpired(codes), Unexpired(tokens)) :
          clients' = cs \/ \E scope \in Asks : clients' = [cs EXCEPT ![c] = NewClient(scope)]
  BY RegisterRows DEF swept
<1>6. cs \in [Client -> Registration \cup {None}]
  BY <1>2, RoomRows
<1>7. clients' \in [Client -> Registration \cup {None}]
  BY <1>4, <1>5, <1>6
<1> QED
  BY <1>1, <1>3, <1>7 DEF TypeOK, Register, history

LEMMA ConsentType ==
    ASSUME TypeOK, NEW c \in Client, Authorize(c) \/ Approve(c)
    PROVE  TypeOK'
<1>1. CASE Authorize(c)
  <2>1. clients[c] \in Registration
    BY <1>1 DEF Authorize, TypeOK
  <2>2. \A asked \in Asks : Signed(asked \cap clients[c].scope) \in Form
    BY <2>1, Times DEF Signed, Form, Registration, Scopes, TypeOK
  <2> QED
    BY <1>1, <2>2 DEF Authorize, TypeOK, history
<1>2. CASE Approve(c)
  <2>1. PICK readOnly, touched, arrives \in BOOLEAN :
          /\ IssueCode(c, Granted(forms[c].scope, readOnly), touched)
          /\ holds' = IF arrives THEN [holds EXCEPT ![c].code = last.codes + 1] ELSE holds
    BY <1>2 DEF Approve
  <2>2. forms[c] \in Form
    BY <1>2 DEF Approve, Verified, TypeOK
  <2>3. Granted(forms[c].scope, readOnly) \in Scopes
    BY <2>2 DEF Granted, Form, Scopes
  <2>4. last.codes + 1 \in Code
    BY <2>1, Bounds DEF IssueCode, Code, TypeOK
  <2>5. NewCode(c, Granted(forms[c].scope, readOnly)) \in CodeRow
    BY <2>3, <2>4, Times DEF NewCode, CodeRow, TypeOK
  <2>6. /\ codes' \subseteq CodeRow /\ last' \in [codes : Nat, pairs : Nat]
        /\ clients' \in [Client -> Registration \cup {None}]
    BY <2>1, <2>5, TouchedType DEF IssueCode, TypeOK
  <2>7. holds' \in [Client -> Holding]
    BY <2>1, <2>4 DEF TypeOK, Holding
  <2>8. forms' \in [Client -> Form \cup {None}]
    BY <1>2 DEF Approve, TypeOK
  <2> QED
    BY <1>2, <2>6, <2>7, <2>8 DEF Approve, TypeOK, history
<1> QED
  BY <1>1, <1>2

LEMMA ExchangeType ==
    ASSUME TypeOK, NEW c \in Client, Exchange(c)
    PROVE  TypeOK'
<1>1. PICK row \in codes :
        \/ /\ row.client = c /\ row.expires > clock
           /\ IssuePair(c, row.scope, row.code, Taken(row), tokens)
           /\ begun' = [begun EXCEPT ![row.code] = cv]
        \/ /\ codes' = Taken(row)
           /\ UNCHANGED <<clients, tokens, last, holds, begun, disturbed>>
  BY DEF Exchange
<1>2. row.code \in Code /\ row.scope \in Scopes /\ Taken(row) \in SUBSET CodeRow
  BY DEF TypeOK, CodeRow, Taken
<1>3. CASE /\ row.client = c /\ row.expires > clock
           /\ IssuePair(c, row.scope, row.code, Taken(row), tokens)
           /\ begun' = [begun EXCEPT ![row.code] = cv]
  <2>1. IssuePair(c, row.scope, row.code, Taken(row), tokens)
    BY <1>1, <1>3
  <2>2. tokens \in SUBSET Token
    BY DEF TypeOK
  <2>3. /\ last' = [last EXCEPT !.pairs = last.pairs + 1] /\ last.pairs < MaxPairs
        /\ tokens' \subseteq tokens \cup Minted(c, row.scope, row.code)
        /\ codes' \subseteq Taken(row)
        /\ disturbed' \in {disturbed, disturbed \cup {row.code}}
        /\ holds' \in [Client -> Holding]
        /\ clients' \in [Client -> Registration \cup {None}]
    BY <1>2, <2>1, <2>2, PairFacts DEF PairStep
  <2>4. tokens' \subseteq Token
    BY <1>2, <2>2, <2>3, MintedType
  <2>5. begun' \in [Code -> Nat \cup {None}]
    BY <1>1, <1>2, <1>3 DEF TypeOK
  <2> QED
    BY <1>2, <2>3, <2>4, <2>5 DEF Exchange, TypeOK
<1>4. CASE /\ codes' = Taken(row)
           /\ UNCHANGED <<clients, tokens, last, holds, begun, disturbed>>
  BY <1>1, <1>2, <1>4 DEF Exchange, TypeOK
<1> QED
  BY <1>1, <1>3, <1>4

LEMMA RefreshType ==
    ASSUME TypeOK, NEW c \in Client, Refresh(c)
    PROVE  TypeOK'
<1>1. PICK t \in tokens, asked \in Scopes : GrantRefresh(c, t, asked)
  BY DEF Refresh
<1>2. t \in Token /\ t.family \in Code
  BY DEF TypeOK, Token
<1>3. UNCHANGED <<clock, cv, spent, forms, begun>>
  BY <1>1 DEF GrantRefresh
<1>4. CASE /\ tokens' = Ended(t)
           /\ replayed' = replayed \cup {t.family}
           /\ UNCHANGED <<clients, codes, last, holds, disturbed>>
  BY <1>2, <1>3, <1>4 DEF TypeOK, Ended
<1>5. CASE /\ IssuePair(c, Narrowed(t, asked), t.family, codes, Claimed(t))
           /\ UNCHANGED replayed
  <2>1. Narrowed(t, asked) \in Scopes
    BY DEF Narrowed, Scopes
  <2>2. Claimed(t) \in SUBSET Token /\ codes \in SUBSET CodeRow
    BY <1>2, ClaimedType DEF TypeOK
  <2>3. /\ last' = [last EXCEPT !.pairs = last.pairs + 1] /\ last.pairs < MaxPairs
        /\ tokens' \subseteq Claimed(t) \cup Minted(c, Narrowed(t, asked), t.family)
        /\ codes' \subseteq codes
        /\ disturbed' \in {disturbed, disturbed \cup {t.family}}
        /\ holds' \in [Client -> Holding]
        /\ clients' \in [Client -> Registration \cup {None}]
    BY <1>2, <1>5, <2>1, <2>2, PairFacts DEF PairStep
  <2>4. tokens' \subseteq Token
    BY <1>2, <2>1, <2>2, <2>3, MintedType
  <2> QED
    BY <1>2, <1>3, <1>5, <2>3, <2>4 DEF TypeOK
<1> QED
  BY <1>1, <1>4, <1>5 DEF GrantRefresh

LEMMA StepType ==
    ASSUME TypeOK, [Next]_vars
    PROVE  TypeOK'
<1>1. ASSUME NEW c \in Client, Restore(c) PROVE TypeOK'
  <2>1. PICK t \in tokens :
          /\ holds' = [holds EXCEPT ![c].refresh = t.pair]
          /\ disturbed' = disturbed \cup {t.family}
    BY <1>1 DEF Restore
  <2>2. t.pair \in Pair /\ t.family \in Code
    BY DEF TypeOK, Token
  <2>3. holds' \in [Client -> Holding]
    BY <2>1, <2>2 DEF TypeOK, Holding
  <2> QED
    BY <1>1, <2>1, <2>2, <2>3 DEF Restore, TypeOK
<1>2. ASSUME NEW c \in Client, Revoke(c) PROVE TypeOK'
  BY <1>2 DEF Revoke, TypeOK, history
<1>3. ASSUME NEW f \in Code, Disconnect(f) PROVE TypeOK'
  BY <1>3 DEF Disconnect, TypeOK, history
<1>4. CASE ChangeCredentials
  BY <1>4 DEF ChangeCredentials, TypeOK, history
<1>5. CASE Tick
  BY <1>5 DEF Tick, TypeOK, history
<1>6. CASE UNCHANGED vars
  BY <1>6 DEF vars, TypeOK
<1> QED
  BY <1>1, <1>2, <1>3, <1>4, <1>5, <1>6, RegisterType, ConsentType, ExchangeType, RefreshType
     DEF Next

\* The variables keep their types.
THEOREM TypeCorrect == Spec => []TypeOK
BY InitType, StepType, PTL DEF Spec

-----------------------------------------------------------------------------
(* The inductive invariant.                                                  *)

LEMMA InitInv == Init => IInv
BY DEF Init, IInv, Issued, PairsDiffer, CodesDiffer, Unexchanged, Over, KeepsItsOwn

\* A step that only takes rows away, and stamps clients no earlier than they were.
LEMMA Shrinks ==
    ASSUME TypeOK, IInv, tokens' \subseteq tokens, codes' \subseteq codes,
           UNCHANGED <<clock, last, holds, begun, replayed, disturbed>>,
           \A c \in Client : clients'[c] # None =>
                \/ clients[c] # None /\ clients'[c].used = clients[c].used
                \/ clients'[c].used = clock
    PROVE  IInv'
<1>1. Issued' /\ PairsDiffer' /\ CodesDiffer' /\ Unexchanged' /\ Over'
  BY DEF IInv, Issued, PairsDiffer, CodesDiffer, Unexchanged, Over
<1>2. ASSUME NEW c \in Client, NEW k \in codes', k.code = holds'[c].code, clients'[c] # None
      PROVE  k.client = c /\ k.expires <= clients'[c].used + CodeTTL
  BY <1>2, Times DEF IInv, KeepsItsOwn, Unexchanged
<1>3. KeepsItsOwn'
  <2> SUFFICES ASSUME NEW c \in Client
               PROVE  /\ holds'[c].code # None => holds'[c].code <= last'.codes
                      /\ holds'[c].refresh # None => holds'[c].refresh <= last'.pairs
                      /\ \A k \in codes' : k.code = holds'[c].code =>
                          /\ k.client = c
                          /\ clients'[c] # None => k.expires <= clients'[c].used + CodeTTL
                      /\ \A t \in tokens' : t.kind = "refresh" /\ t.pair = holds'[c].refresh =>
                          /\ t.client = c
                          /\ t.used => t.family \in disturbed'
    BY DEF KeepsItsOwn
  <2> QED
    BY <1>2 DEF IInv, KeepsItsOwn
<1> QED
  BY <1>1, <1>3 DEF IInv

LEMMA RegisterInv ==
    ASSUME TypeOK, IInv, NEW c \in Client, Register(c)
    PROVE  IInv'
<1> DEFINE swept == Swept(clients, Unexpired(tokens))
<1>1. codes' \subseteq codes /\ tokens' \subseteq tokens
  BY UnexpiredRows DEF Register
<1>2. swept \in [Client -> Registration \cup {None}]
  BY SweptType DEF TypeOK
<1>3. \A d \in Client : swept[d] # None => swept[d] = clients[d]
  BY SweptRows
<1>4. \A scope : NewClient(scope).used = clock
  BY DEF NewClient
<1> HIDE DEF swept
<1>5. PICK cs \in Room(swept, Unexpired(codes), Unexpired(tokens)) :
          clients' = cs \/ \E scope \in Asks : clients' = [cs EXCEPT ![c] = NewClient(scope)]
  BY RegisterRows DEF swept
<1>6. /\ cs \in [Client -> Registration \cup {None}]
      /\ \A d \in Client : cs[d] # None => cs[d] = swept[d]
  BY <1>2, RoomRows
<1>7. ASSUME NEW d \in Client, clients'[d] # None
      PROVE  \/ clients[d] # None /\ clients'[d].used = clients[d].used
             \/ clients'[d].used = clock
  BY <1>3, <1>4, <1>5, <1>6, <1>7
<1> QED
  BY <1>1, <1>7, Shrinks DEF Register, history

LEMMA ApproveInv ==
    ASSUME TypeOK, IInv, NEW c \in Client, Approve(c)
    PROVE  IInv'
<1>1. PICK readOnly, touched, arrives \in BOOLEAN :
        /\ arrives => touched
        /\ IssueCode(c, Granted(forms[c].scope, readOnly), touched)
        /\ holds' = IF arrives THEN [holds EXCEPT ![c].code = last.codes + 1] ELSE holds
  BY DEF Approve
<1> DEFINE new == NewCode(c, Granted(forms[c].scope, readOnly))
<1>2. /\ codes' = codes \cup {new}
      /\ last' = [last EXCEPT !.codes = last.codes + 1]
      /\ clients' = IF touched THEN Touched(clients, c) ELSE clients
  BY <1>1 DEF IssueCode
<1>3. new.code = last.codes + 1 /\ new.client = c /\ new.expires = clock + CodeTTL
  BY DEF NewCode
<1>4. UNCHANGED <<clock, cv, spent, tokens, begun, replayed, disturbed>>
  BY DEF Approve, history
<1>5. /\ last.codes \in Nat /\ last.pairs \in Nat /\ clock \in Nat
      /\ last'.codes = last.codes + 1 /\ last'.pairs = last.pairs
      /\ clients \in [Client -> Registration \cup {None}]
      /\ holds \in [Client -> Holding] /\ codes \subseteq CodeRow /\ tokens \subseteq Token
      /\ replayed \subseteq Code
  BY <1>2 DEF TypeOK
<1> HIDE DEF new
<1>6. /\ \A k \in codes : k.code \in Nat /\ k.code <= last.codes
      /\ \A t \in tokens : t.family \in Nat /\ t.family <= last.codes
      /\ \A f \in replayed : f \in Nat /\ f <= last.codes
  BY <1>5 DEF IInv, Issued, Unexchanged, Over, CodeRow, Token, Code
<1>7. Issued' /\ PairsDiffer'
  BY <1>4, <1>5, <1>6 DEF IInv, Issued, PairsDiffer
<1>8. CodesDiffer'
  BY <1>2, <1>3, <1>5, <1>6 DEF IInv, CodesDiffer
<1>9. Unexchanged'
  <2>1. ASSUME NEW k \in codes
        PROVE  /\ k.code <= last'.codes /\ k.expires <= clock + CodeTTL
               /\ k.code \notin replayed /\ \A t \in tokens : t.family # k.code
    BY <1>5, <1>6 DEF IInv, Unexchanged
  <2>2. /\ new.code <= last'.codes /\ new.expires <= clock + CodeTTL
        /\ new.code \notin replayed /\ \A t \in tokens : t.family # new.code
    BY <1>3, <1>5, <1>6, Times
  <2> QED
    BY <1>2, <1>4, <2>1, <2>2 DEF Unexchanged
<1>10. Over'
  BY <1>4, <1>5, <1>6 DEF IInv, Over
<1>11. ASSUME NEW d \in Client
       PROVE  /\ holds'[d].refresh = holds[d].refresh
              /\ \/ holds'[d].code = holds[d].code
                 \/ d = c /\ arrives /\ holds'[d].code = last.codes + 1
  BY <1>1, <1>5 DEF Holding
<1>12. ASSUME NEW d \in Client, clients'[d] # None
       PROVE  /\ clients[d] # None
              /\ clients'[d].used \in {clients[d].used, clock}
              /\ d = c /\ touched => clients'[d].used = clock
  BY <1>2, <1>5, <1>12, TouchedRows
<1>13. \A d \in Client : clients[d] # None => clients[d].used \in Nat
  BY <1>5 DEF Registration
<1>14. ASSUME NEW d \in Client, NEW k \in codes', k.code = holds'[d].code
       PROVE  /\ k.client = d
              /\ clients'[d] # None => k.expires <= clients'[d].used + CodeTTL
  <2>1. CASE k \in codes
    <3>1. holds[d].code = k.code
      BY <1>6, <1>5, <1>11, <1>14, <2>1
    <3>2. k.client = d /\ (clients[d] # None => k.expires <= clients[d].used + CodeTTL)
      BY <2>1, <3>1 DEF IInv, KeepsItsOwn
    <3>3. k.expires <= clock + CodeTTL
      BY <2>1 DEF IInv, Unexchanged
    <3> QED
      BY <1>12, <3>2, <3>3
  <2>2. CASE k = new
    <3>1. holds[d].code # None => holds[d].code <= last.codes
      BY DEF IInv, KeepsItsOwn
    <3>2. holds[d].code \in Nat \cup {None} /\ last.codes + 1 # None
      BY <1>5, NilAssumption DEF Holding, Code
    <3>3. d = c /\ arrives
      BY <1>3, <1>5, <1>11, <1>14, <2>2, <3>1, <3>2
    <3> QED
      BY <1>1, <1>3, <1>5, <1>12, <2>2, <3>3, Times
  <2> QED
    BY <1>2, <2>1, <2>2
<1>15. KeepsItsOwn'
  <2> SUFFICES ASSUME NEW d \in Client
               PROVE  /\ holds'[d].code # None => holds'[d].code <= last'.codes
                      /\ holds'[d].refresh # None => holds'[d].refresh <= last'.pairs
                      /\ \A t \in tokens' : t.kind = "refresh" /\ t.pair = holds'[d].refresh =>
                          /\ t.client = d
                          /\ t.used => t.family \in disturbed'
    BY <1>14 DEF KeepsItsOwn
  <2>1. /\ holds[d].code # None => holds[d].code <= last.codes
        /\ holds[d].refresh # None => holds[d].refresh <= last.pairs
        /\ \A t \in tokens : t.kind = "refresh" /\ t.pair = holds[d].refresh =>
            /\ t.client = d
            /\ t.used => t.family \in disturbed
    BY DEF IInv, KeepsItsOwn
  <2>2. holds[d].code \in Nat \cup {None}
    BY <1>5 DEF Holding, Code
  <2> QED
    BY <1>4, <1>5, <1>11, <2>1, <2>2
<1> QED
  BY <1>7, <1>8, <1>9, <1>10, <1>15 DEF IInv

\* A pair is issued from rows ts and ks that are as the invariant says of tokens and
\* codes; the only used token its client may still keep is the one it replaces.
LEMMA MintInv ==
    ASSUME TypeOK, IInv, NEW c \in Client, NEW scope \in Scopes, NEW family \in Code,
           NEW ks \in SUBSET codes, NEW ts \in SUBSET Token,
           PairStep(c, scope, family, ks, ts),
           UNCHANGED <<clock, cv, replayed>>,
           family <= last.codes, family \notin replayed, begun'[family] = cv,
           \A k \in ks : k.code # family,
           \A s, t \in ts : s.pair = t.pair /\ s.kind = t.kind => s = t,
           \A s \in ts :
              /\ s.pair <= last.pairs /\ s.family <= last.codes
              /\ s.used => s.kind = "refresh"
              /\ s.kind = "refresh" => Offline \in s.scope
              /\ s.cv = begun'[s.family]
              /\ s.family \notin replayed
              /\ \A k \in ks : s.family # k.code
              /\ \A d \in Client : s.kind = "refresh" /\ s.pair = holds[d].refresh =>
                    /\ s.client = d
                    /\ s.used => \/ s.family \in disturbed
                                 \/ d = c /\ s.family = family /\ Offline \in scope
    PROVE  IInv'
<1> DEFINE new == Minted(c, scope, family)
<1>1. /\ last' = [last EXCEPT !.pairs = last.pairs + 1]
      /\ tokens' \subseteq ts \cup new
      /\ codes' \subseteq ks
      /\ disturbed' \in {disturbed, disturbed \cup {family}}
      /\ holds' \in [Client -> Holding]
      /\ \A d \in Client : d # c => holds'[d] = holds[d]
      /\ holds'[c].code \in {None, holds[c].code}
      /\ holds'[c].refresh \in {holds[c].refresh, last.pairs + 1}
      /\ \/ family \in disturbed'
         \/ Offline \notin scope
         \/ holds'[c].refresh = last.pairs + 1
      /\ \A d \in Client : clients'[d] # None =>
           clients[d] # None /\ clients'[d].used \in {clients[d].used, clock}
  BY DEF PairStep
<1>2. /\ last.pairs \in Nat /\ last.codes \in Nat
      /\ last'.pairs = last.pairs + 1 /\ last'.codes = last.codes
  BY <1>1 DEF TypeOK
<1>3. \A t \in new :
        /\ t.pair = last.pairs + 1 /\ t.family = family /\ t.client = c /\ ~t.used /\ t.cv = cv
        /\ t.kind = "refresh" => Offline \in t.scope
  BY MintedRows
<1>4. \A s, t \in new : s.kind = t.kind => s = t
  BY MintedRows
<1>5. \A s \in ts : s.pair \in Nat /\ s.family \in Nat
  BY DEF Token, Pair, Code
<1> HIDE DEF new
<1>6. Issued'
  BY <1>1, <1>2, <1>3, <1>5 DEF Issued
<1>7. PairsDiffer'
  <2> SUFFICES ASSUME NEW s \in tokens', NEW t \in tokens', s.pair = t.pair, s.kind = t.kind
               PROVE  s = t
    BY DEF PairsDiffer
  <2>1. CASE s \in ts /\ t \in ts
    BY <2>1
  <2>2. CASE s \in new /\ t \in new
    BY <1>4, <2>2
  <2>3. ~(s \in ts /\ t \in new) /\ ~(s \in new /\ t \in ts)
    BY <1>2, <1>3, <1>5
  <2> QED
    BY <1>1, <2>1, <2>2, <2>3
<1>8. CodesDiffer'
  BY <1>1 DEF IInv, CodesDiffer
<1>9. Unexchanged'
  <2> SUFFICES ASSUME NEW k \in codes'
               PROVE  /\ k.code <= last'.codes /\ k.expires <= clock' + CodeTTL
                      /\ k.code \notin replayed' /\ \A t \in tokens' : t.family # k.code
    BY DEF Unexchanged
  <2>1. k \in ks /\ k \in codes
    BY <1>1
  <2> QED
    BY <1>1, <1>2, <1>3, <2>1 DEF IInv, Unexchanged
<1>10. Over'
  <2> SUFFICES ASSUME NEW f \in replayed
               PROVE  f <= last'.codes /\ f \in disturbed' /\ \A t \in tokens' : t.family # f
    BY DEF Over
  <2> QED
    BY <1>1, <1>2, <1>3 DEF IInv, Over
<1>11. KeepsItsOwn'
  <2> SUFFICES ASSUME NEW d \in Client
               PROVE  /\ holds'[d].code # None => holds'[d].code <= last'.codes
                      /\ holds'[d].refresh # None => holds'[d].refresh <= last'.pairs
                      /\ \A k \in codes' : k.code = holds'[d].code =>
                          /\ k.client = d
                          /\ clients'[d] # None => k.expires <= clients'[d].used + CodeTTL
                      /\ \A t \in tokens' : t.kind = "refresh" /\ t.pair = holds'[d].refresh =>
                          /\ t.client = d
                          /\ t.used => t.family \in disturbed'
    BY DEF KeepsItsOwn
  <2>1. /\ holds[d].code # None => holds[d].code <= last.codes
        /\ holds[d].refresh # None => holds[d].refresh <= last.pairs
        /\ \A k \in codes : k.code = holds[d].code =>
            /\ k.client = d
            /\ clients[d] # None => k.expires <= clients[d].used + CodeTTL
    BY DEF IInv, KeepsItsOwn
  <2>2. /\ holds'[d].code \in {None, holds[d].code}
        /\ \/ holds'[d].refresh = holds[d].refresh
           \/ d = c /\ holds'[d].refresh = last.pairs + 1
    BY <1>1
  <2>3. holds[d].refresh \in Nat \cup {None}
    BY DEF TypeOK, Holding, Pair
  <2>4. holds'[d].code # None => holds'[d].code <= last'.codes
    BY <1>2, <2>1, <2>2
  <2>5. holds'[d].refresh # None => holds'[d].refresh <= last'.pairs
    BY <1>2, <2>1, <2>2, <2>3
  <2>6. ASSUME NEW k \in codes', k.code = holds'[d].code
        PROVE  /\ k.client = d
               /\ clients'[d] # None => k.expires <= clients'[d].used + CodeTTL
    <3>1. k \in codes /\ k.code # None
      BY <1>1, NilAssumption DEF TypeOK, CodeRow, Code
    <3>2. k.code = holds[d].code
      BY <2>2, <2>6, <3>1
    <3>3. k.client = d /\ (clients[d] # None => k.expires <= clients[d].used + CodeTTL)
      BY <2>1, <3>1, <3>2
    <3>4. k.expires <= clock + CodeTTL
      BY <3>1 DEF IInv, Unexchanged
    <3>5. clients'[d] # None => clients[d] # None /\ clients'[d].used \in {clients[d].used, clock}
      BY <1>1
    <3> QED
      BY <3>3, <3>4, <3>5
  <2>7. ASSUME NEW t \in tokens', t.kind = "refresh", t.pair = holds'[d].refresh
        PROVE  t.client = d /\ (t.used => t.family \in disturbed')
    <3>1. CASE t \in new
      <4>1. t.pair = last.pairs + 1
        BY <1>3, <3>1
      <4>2. holds[d].refresh # last.pairs + 1
        BY <1>2, <2>1, <2>3, NilAssumption
      <4> QED
        BY <1>3, <2>2, <2>7, <3>1, <4>1, <4>2
    <3>2. CASE t \in ts
      <4>1. t.pair \in Nat /\ t.pair <= last.pairs
        BY <1>5, <3>2
      <4>2. holds'[d].refresh = holds[d].refresh
        BY <1>2, <2>2, <2>7, <4>1
      <4>3. /\ t.client = d
            /\ t.used => \/ t.family \in disturbed
                         \/ d = c /\ t.family = family /\ Offline \in scope
        BY <2>7, <3>2, <4>2
      <4>4. holds'[d].refresh # last.pairs + 1
        BY <1>2, <2>7, <4>1
      <4> QED
        BY <1>1, <4>3, <4>4
    <3> QED
      BY <1>1, <3>1, <3>2
  <2> QED
    BY <2>4, <2>5, <2>6, <2>7
<1> QED
  BY <1>6, <1>7, <1>8, <1>9, <1>10, <1>11 DEF IInv

LEMMA ExchangeInv ==
    ASSUME TypeOK, IInv, NEW c \in Client, Exchange(c)
    PROVE  IInv'
<1>1. PICK row \in codes :
        \/ /\ row.client = c /\ row.expires > clock
           /\ IssuePair(c, row.scope, row.code, Taken(row), tokens)
           /\ begun' = [begun EXCEPT ![row.code] = cv]
        \/ /\ codes' = Taken(row)
           /\ UNCHANGED <<clients, tokens, last, holds, begun, disturbed>>
  BY DEF Exchange
<1>2. UNCHANGED <<clock, cv, spent, forms, replayed>>
  BY DEF Exchange
<1>3. row.code \in Code /\ row.scope \in Scopes /\ Taken(row) \in SUBSET codes
  BY DEF TypeOK, CodeRow, Taken
<1>4. CASE /\ row.client = c /\ row.expires > clock
           /\ IssuePair(c, row.scope, row.code, Taken(row), tokens)
           /\ begun' = [begun EXCEPT ![row.code] = cv]
  <2>1. IssuePair(c, row.scope, row.code, Taken(row), tokens) /\ tokens \in SUBSET Token
    BY <1>1, <1>4 DEF TypeOK
  <2>2. /\ row.code <= last.codes /\ row.code \notin replayed
        /\ \A t \in tokens : t.family # row.code
    BY DEF IInv, Unexchanged
  <2>3. begun \in [Code -> Nat \cup {None}] /\ begun' = [begun EXCEPT ![row.code] = cv]
    BY <1>1, <1>4 DEF TypeOK
  <2>4. \A k \in Taken(row) : k.code # row.code
    BY DEF IInv, CodesDiffer, Taken
  <2>5. \A s \in tokens :
          /\ s.pair <= last.pairs /\ s.family <= last.codes
          /\ s.used => s.kind = "refresh"
          /\ s.kind = "refresh" => Offline \in s.scope
          /\ s.cv = begun'[s.family]
    BY <2>1, <2>2, <2>3 DEF IInv, Issued, Token
  <2>6. \A s \in tokens : s.family \notin replayed /\ \A k \in Taken(row) : s.family # k.code
    BY <1>3 DEF IInv, Over, Unexchanged
  <2>7. \A s \in tokens : \A d \in Client : s.kind = "refresh" /\ s.pair = holds[d].refresh =>
          s.client = d /\ (s.used => s.family \in disturbed)
    BY DEF IInv, KeepsItsOwn
  <2>8. \A s, t \in tokens : s.pair = t.pair /\ s.kind = t.kind => s = t
    BY DEF IInv, PairsDiffer
  <2>9. begun'[row.code] = cv
    BY <1>3, <2>3
  <2>10. PairStep(c, row.scope, row.code, Taken(row), tokens)
    <3>1. Taken(row) \in SUBSET CodeRow
      BY <1>3 DEF TypeOK
    <3> QED
      BY <1>3, <2>1, <3>1, PairFacts
  <2> QED
    BY <1>2, <1>3, <2>10, <2>1, <2>2, <2>4, <2>5, <2>6, <2>7, <2>8, <2>9, MintInv
<1>5. CASE /\ codes' = Taken(row)
           /\ UNCHANGED <<clients, tokens, last, holds, begun, disturbed>>
  BY <1>1, <1>2, <1>3, <1>5, Shrinks
<1> QED
  BY <1>1, <1>4, <1>5

LEMMA RefreshInv ==
    ASSUME TypeOK, IInv, NEW c \in Client, Refresh(c)
    PROVE  IInv'
<1>1. PICK t \in tokens, asked \in Scopes :
        t.pair = holds[c].refresh /\ GrantRefresh(c, t, asked)
  BY DEF Refresh
<1>2. UNCHANGED <<clock, cv, spent, forms, begun>>
  BY <1>1 DEF GrantRefresh
<1>3. t.client = c /\ t.kind = "refresh" /\ t.cv = cv
  BY <1>1 DEF GrantRefresh, Current
<1>4. t \in Token /\ t.family \in Code /\ tokens \in SUBSET Token
  BY DEF TypeOK, Token
<1>5. /\ t.family <= last.codes /\ t.cv = begun[t.family] /\ Offline \in t.scope
      /\ t.family \notin replayed
      /\ t.used => t.family \in disturbed
  BY <1>1, <1>3 DEF IInv, Issued, Over, KeepsItsOwn
<1>6. CASE /\ t.used
           /\ tokens' = Ended(t)
           /\ replayed' = replayed \cup {t.family}
           /\ UNCHANGED <<clients, codes, last, holds, disturbed>>
  <2>1. tokens' \subseteq tokens /\ \A s \in tokens' : s.family # t.family
    BY <1>6 DEF Ended, OfFamily
  <2>2. Issued' /\ PairsDiffer' /\ CodesDiffer' /\ KeepsItsOwn'
    BY <1>2, <1>6, <2>1 DEF IInv, Issued, PairsDiffer, CodesDiffer, KeepsItsOwn
  <2>3. Unexchanged'
    BY <1>2, <1>6, <2>1 DEF IInv, Unexchanged
  <2>4. Over'
    BY <1>2, <1>3, <1>5, <1>6, <2>1 DEF IInv, Over
  <2> QED
    BY <2>2, <2>3, <2>4 DEF IInv
<1>7. CASE /\ ~t.used
           /\ IssuePair(c, Narrowed(t, asked), t.family, codes, Claimed(t))
           /\ UNCHANGED replayed
  <2>1. Narrowed(t, asked) \in Scopes /\ Offline \in Narrowed(t, asked)
    BY <1>5 DEF Narrowed, Scopes
  <2>2. Claimed(t) \in SUBSET Token
    BY <1>4, ClaimedType
  <2>3. \A k \in codes : k.code # t.family
    BY DEF IInv, Unexchanged
  <2>4. ASSUME NEW s \in Claimed(t)
        PROVE  \E o \in tokens :
                  /\ o.pair = s.pair /\ o.kind = s.kind /\ o.family = s.family
                  /\ o.client = s.client /\ o.scope = s.scope /\ o.cv = s.cv
                  /\ \/ s = o /\ o # t
                     \/ o = t /\ s = [t EXCEPT !.used = TRUE]
    BY <1>4, ClaimedRows
  <2>5. ASSUME NEW s \in Claimed(t), NEW u \in Claimed(t), s.pair = u.pair, s.kind = u.kind
        PROVE  s = u
    <3>1. PICK o \in tokens :
              /\ o.pair = s.pair /\ o.kind = s.kind
              /\ (s = o /\ o # t) \/ (o = t /\ s = [t EXCEPT !.used = TRUE])
      BY <2>4
    <3>2. PICK p \in tokens :
              /\ p.pair = u.pair /\ p.kind = u.kind
              /\ (u = p /\ p # t) \/ (p = t /\ u = [t EXCEPT !.used = TRUE])
      BY <2>4
    <3>3. o = p
      BY <2>5, <3>1, <3>2 DEF IInv, PairsDiffer
    <3>4. CASE o = t
      BY <3>1, <3>2, <3>3, <3>4, Zenon
    <3>5. CASE o # t
      BY <3>1, <3>2, <3>3, <3>5, Zenon
    <3> QED
      BY <3>4, <3>5
  <2>6. ASSUME NEW s \in Claimed(t)
        PROVE  /\ s.pair <= last.pairs /\ s.family <= last.codes
               /\ s.used => s.kind = "refresh"
               /\ s.kind = "refresh" => Offline \in s.scope
               /\ s.cv = begun'[s.family]
               /\ s.family \notin replayed
               /\ \A k \in codes : s.family # k.code
    <3>1. PICK o \in tokens :
                  /\ o.pair = s.pair /\ o.kind = s.kind /\ o.family = s.family
                  /\ o.client = s.client /\ o.scope = s.scope /\ o.cv = s.cv
                  /\ \/ s = o /\ o # t
                     \/ o = t /\ s = [t EXCEPT !.used = TRUE]
      BY <2>4
    <3> QED
      BY <1>2, <1>3, <3>1 DEF IInv, Issued, Over, Unexchanged
  <2>7. ASSUME NEW s \in Claimed(t), NEW d \in Client,
               s.kind = "refresh", s.pair = holds[d].refresh
        PROVE  /\ s.client = d
               /\ s.used => \/ s.family \in disturbed
                            \/ d = c /\ s.family = t.family /\ Offline \in Narrowed(t, asked)
    <3>1. PICK o \in tokens :
                  /\ o.pair = s.pair /\ o.kind = s.kind /\ o.family = s.family
                  /\ o.client = s.client /\ o.scope = s.scope /\ o.cv = s.cv
                  /\ \/ s = o /\ o # t
                     \/ o = t /\ s = [t EXCEPT !.used = TRUE]
      BY <2>4
    <3>2. o.client = d /\ (o.used => o.family \in disturbed)
      BY <2>7, <3>1 DEF IInv, KeepsItsOwn
    <3> QED
      BY <1>3, <2>1, <3>1, <3>2
  <2>8. begun'[t.family] = cv
    BY <1>2, <1>3, <1>5
  <2> QED
    <3> DEFINE scope == Narrowed(t, asked)
               ts == Claimed(t)
    <3>1. scope \in Scopes /\ ts \in SUBSET Token /\ codes \in SUBSET codes
      BY <2>1, <2>2
    <3>2. PairStep(c, scope, t.family, codes, ts)
      <4>1. codes \in SUBSET CodeRow
        BY DEF TypeOK
      <4> QED
        BY <1>4, <1>7, <2>1, <2>2, <4>1, PairFacts
    <3>3. \A s, u \in ts : s.pair = u.pair /\ s.kind = u.kind => s = u
      BY <2>5
    <3>4. \A s \in ts :
              /\ s.pair <= last.pairs /\ s.family <= last.codes
              /\ s.used => s.kind = "refresh"
              /\ s.kind = "refresh" => Offline \in s.scope
              /\ s.cv = begun'[s.family]
              /\ s.family \notin replayed
              /\ \A k \in codes : s.family # k.code
              /\ \A d \in Client : s.kind = "refresh" /\ s.pair = holds[d].refresh =>
                    /\ s.client = d
                    /\ s.used => \/ s.family \in disturbed
                                 \/ d = c /\ s.family = t.family /\ Offline \in scope
      BY <2>6, <2>7
    <3>5. UNCHANGED <<clock, cv, replayed>>
      BY <1>2, <1>7
    <3>6. t.family \notin replayed /\ t.family <= last.codes
      BY <1>5
    <3> HIDE DEF scope, ts
    <3> QED
      BY <1>4, <2>3, <2>8, <3>1, <3>2, <3>3, <3>4, <3>5, <3>6, MintInv
<1> QED
  BY <1>1, <1>6, <1>7 DEF GrantRefresh

LEMMA StepInv ==
    ASSUME TypeOK, IInv, [Next]_vars
    PROVE  IInv'
<1>1. ASSUME NEW c \in Client, Authorize(c) PROVE IInv'
  BY <1>1, Shrinks DEF Authorize, history
<1>2. ASSUME NEW c \in Client, Restore(c) PROVE IInv'
  <2>1. PICK t \in tokens :
          /\ t.kind = "refresh" /\ t.client = c
          /\ holds' = [holds EXCEPT ![c].refresh = t.pair]
          /\ disturbed' = disturbed \cup {t.family}
    BY <1>2 DEF Restore
  <2>2. UNCHANGED <<clock, cv, clients, spent, forms, codes, tokens, last, begun, replayed>>
    BY <1>2 DEF Restore
  <2>3. /\ \A d \in Client : holds'[d].code = holds[d].code
        /\ \A d \in Client : d # c => holds'[d].refresh = holds[d].refresh
        /\ holds'[c].refresh = t.pair
    BY <2>1 DEF TypeOK, Holding
  <2>4. Issued' /\ PairsDiffer' /\ CodesDiffer' /\ Unexchanged' /\ Over'
    BY <2>1, <2>2 DEF IInv, Issued, PairsDiffer, CodesDiffer, Unexchanged, Over
  <2>5. t.pair <= last.pairs
    BY DEF IInv, Issued
  <2>6. \A s \in tokens : s.kind = "refresh" /\ s.pair = t.pair => s = t
    BY <2>1 DEF IInv, PairsDiffer
  <2>7. KeepsItsOwn'
    BY <2>1, <2>2, <2>3, <2>5, <2>6 DEF IInv, KeepsItsOwn
  <2> QED
    BY <2>4, <2>7 DEF IInv
<1>3. ASSUME NEW c \in Client, Revoke(c) PROVE IInv'
  BY <1>3, Shrinks DEF Revoke, history
<1>4. ASSUME NEW f \in Code, Disconnect(f) PROVE IInv'
  BY <1>4, Shrinks DEF Disconnect, history
<1>5. CASE ChangeCredentials
  BY <1>5, Shrinks DEF ChangeCredentials, history
<1>6. CASE Tick
  <2>1. clock \in Nat /\ clock' = clock + 1
        /\ UNCHANGED <<cv, clients, spent, forms, codes, tokens, last, holds, history>>
    BY <1>6 DEF Tick, TypeOK
  <2>2. \A k \in codes : k.expires \in Nat
    BY DEF TypeOK, CodeRow
  <2>3. Unexchanged'
    BY <2>1, <2>2, Times DEF IInv, Unexchanged, history
  <2> QED
    BY <2>1, <2>3 DEF IInv, Issued, PairsDiffer, CodesDiffer, Over, KeepsItsOwn, history
<1>7. CASE UNCHANGED vars
  BY <1>7, Shrinks DEF vars
<1> QED
  BY <1>1, <1>2, <1>3, <1>4, <1>5, <1>6, <1>7, RegisterInv, ApproveInv, ExchangeInv, RefreshInv
     DEF Next

\* The inductive invariant: a token bears the credentials its family began under,
\* a code has no family yet, and a used token is kept only where something went wrong.
THEOREM Inductive == Spec => []IInv
<1>1. Init => TypeOK /\ IInv
  BY InitType, InitInv
<1>2. TypeOK /\ IInv /\ [Next]_vars => (TypeOK /\ IInv)'
  BY StepType, StepInv
<1> QED
  BY <1>1, <1>2, PTL DEF Spec

-----------------------------------------------------------------------------

LEMMA AlarmFacts == ASSUME IInv PROVE ReplayEndsGrant
BY DEF IInv, Over, ReplayEndsGrant

\* Only a client that lost an answer or went back to an older token sets off the
\* alarm for a token used twice, and then all of the grant is over for good.
THEOREM OnlyMisuseEndsGrant == Spec => []ReplayEndsGrant
BY Inductive, AlarmFacts, PTL

LEMMA CredentialFacts == ASSUME IInv PROVE EndsWithCredentials
BY DEF IInv, Issued, EndsWithCredentials, Usable

\* No token of a grant made under earlier credentials is good for anything.
THEOREM CredentialsEndGrants == Spec => []EndsWithCredentials
BY Inductive, CredentialFacts, PTL

LEMMA ListFacts == ASSUME IInv PROVE ListShowsAll
<1> SUFFICES ASSUME NEW t \in tokens, Usable(t) PROVE t.scope \subseteq Listed(t.family)
  BY DEF ListShowsAll
<1>1. t \in {u \in OfFamily(Unexpired(tokens), t.family) : ~u.used}
  BY DEF IInv, Issued, Usable, OfFamily, Unexpired
<1> QED
  BY <1>1 DEF Listed

\* The owner's list of connections shows all that any of them can still do.
THEOREM ListIsComplete == Spec => []ListShowsAll
BY Inductive, ListFacts, PTL

-----------------------------------------------------------------------------
(* A working client stays.                                                   *)

\* A client that keeps a code, or holds a row of ts, is not taken to be idle.
LEMMA NotIdle ==
    ASSUME TypeOK, NEW ts, NEW cs \in [Client -> Registration \cup {None}],
           NEW c \in Client,
           \/ c \in Holders(ts)
           \/ cs[c] # None /\ cs[c].used + CodeTTL > clock
    PROVE  c \notin Idle(cs, ts)
<1>1. cs[c] # None => cs[c].used \in Nat
  BY DEF Registration
<1> QED
  BY <1>1, Times DEF Idle, Registered, TypeOK

\* What it means to be working, in the terms of the invariant.
LEMMA WorkingFacts ==
    ASSUME TypeOK, IInv, NEW c \in Client, clients[c] # None, Working(c)
    PROVE  /\ c \in Holders(Unexpired(tokens)) \cup Holders(Unexpired(codes))
           /\ c \notin Holders(Unexpired(tokens)) => clients[c].used + CodeTTL > clock
<1>1. CASE \E t \in Unexpired(tokens) : t.client = c
  BY <1>1 DEF Holders
<1>2. CASE \E k \in Unexpired(codes) : k.code = holds[c].code
  <2>1. PICK k \in codes : k \in Unexpired(codes) /\ k.code = holds[c].code
    BY <1>2, UnexpiredRows
  <2>2. k.expires > clock
    BY <2>1 DEF Unexpired
  <2>3. k.client = c /\ k.expires <= clients[c].used + CodeTTL
    BY <2>1 DEF IInv, KeepsItsOwn
  <2>4. k.expires \in Nat /\ clock \in Nat /\ clients[c].used \in Nat
    BY DEF TypeOK, CodeRow, Registration
  <2> QED
    BY <2>1, <2>2, <2>3, <2>4, Times DEF Holders
<1> QED
  BY <1>1, <1>2 DEF Working

LEMMA RegisterKeeps ==
    ASSUME TypeOK, IInv, NEW d \in Client, Register(d),
           NEW c \in Client, clients[c] # None, Working(c)
    PROVE  clients'[c] # None
<1> DEFINE ks == Unexpired(codes)
           ts == Unexpired(tokens)
           swept == Swept(clients, ts)
<1>1. clients \in [Client -> Registration \cup {None}]
  BY DEF TypeOK
<1>2. swept \in [Client -> Registration \cup {None}]
  BY <1>1, SweptType
<1>3. swept[c] = clients[c]
  BY <1>1, WorkingFacts, NotIdle, SweptRows
<1>4. c \notin Evictable(swept, ks, ts)
  BY WorkingFacts DEF Evictable
<1>5. \A scope \in Asks : NewClient(scope) # None
  BY AsksAssumption, NilAssumption DEF NewClient, Registration, TypeOK
<1> HIDE DEF swept
<1>6. PICK cs \in Room(swept, ks, ts) :
          clients' = cs \/ \E scope \in Asks : clients' = [cs EXCEPT ![d] = NewClient(scope)]
  BY RegisterRows DEF swept
<1>7. cs \in [Client -> Registration \cup {None}] /\ cs[c] = clients[c]
  BY <1>2, <1>3, <1>4, RoomRows
<1> QED
  BY <1>5, <1>6, <1>7

LEMMA PairKeeps ==
    ASSUME TypeOK, IInv, NEW d \in Client, NEW scope, NEW family, NEW ks, NEW ts,
           IssuePair(d, scope, family, ks, ts),
           \A t \in Unexpired(tokens) : \E s \in Unexpired(ts) : s.client = t.client,
           NEW c \in Client, clients[c] # None, Working(c)
    PROVE  clients'[c] # None
<1> DEFINE all == Unexpired(ts \cup Minted(d, scope, family))
           touched == Touched(clients, d)
<1>1. \/ UNCHANGED clients
      \/ clients' = Swept(touched, all)
  BY Zenon DEF IssuePair
<1>2. clients \in [Client -> Registration \cup {None}] /\ clock \in Nat
  BY DEF TypeOK
<1>3. touched \in [Client -> Registration \cup {None}]
  BY <1>2, TouchedType
<1>4. touched[c] # None /\ (c # d => touched[c] = clients[c]) /\ (c = d => touched[c].used = clock)
  BY <1>2, TouchedRows
<1>5. \A s \in Unexpired(ts) : s \in all
  BY DEF Unexpired
<1>6. c \in Holders(Unexpired(tokens)) => c \in Holders(all)
  BY <1>5 DEF Holders
<1>7. c \notin Holders(Unexpired(tokens)) => touched[c].used + CodeTTL > clock
  BY <1>2, <1>4, WorkingFacts, Times
<1> HIDE DEF all, touched
<1>8. c \notin Idle(touched, all)
  BY <1>3, <1>4, <1>6, <1>7, NotIdle
<1> QED
  BY <1>1, <1>4, <1>8, SweptRows

LEMMA StepKeeps ==
    ASSUME TypeOK, IInv, Next, NEW c \in Client, clients[c] # None, Working(c)
    PROVE  clients'[c] # None
<1>1. ASSUME NEW d \in Client, Approve(d) PROVE clients'[c] # None
  BY <1>1, TouchedRows DEF Approve, IssueCode, TypeOK
<1>2. ASSUME NEW d \in Client, Exchange(d) PROVE clients'[c] # None
  <2>1. PICK row \in codes :
          \/ IssuePair(d, row.scope, row.code, Taken(row), tokens)
          \/ UNCHANGED clients
    BY <1>2 DEF Exchange
  <2> QED
    BY <2>1, PairKeeps
<1>3. ASSUME NEW d \in Client, Refresh(d) PROVE clients'[c] # None
  <2>1. PICK t \in tokens, asked \in Scopes : GrantRefresh(d, t, asked)
    BY <1>3 DEF Refresh
  <2>2. t \in Token
    BY DEF TypeOK
  <2>3. ASSUME NEW u \in Unexpired(tokens)
        PROVE  \E s \in Unexpired(Claimed(t)) : s.client = u.client
    <3>1. CASE u = t
      <4>1. [t EXCEPT !.used = TRUE] \in Claimed(t)
        BY DEF Claimed
      <4>2. [t EXCEPT !.used = TRUE].client = t.client
            /\ [t EXCEPT !.used = TRUE].expires = t.expires
        BY <2>2 DEF Token
      <4> QED
        BY <3>1, <4>1, <4>2 DEF Unexpired
    <3>2. CASE u # t
      BY <3>2 DEF Unexpired, Claimed
    <3> QED
      BY <3>1, <3>2
  <2>4. \/ UNCHANGED clients
        \/ IssuePair(d, Narrowed(t, asked), t.family, codes, Claimed(t))
    BY <2>1 DEF GrantRefresh
  <2> QED
    BY <2>3, <2>4, PairKeeps
<1>4. ASSUME NEW d \in Client, Authorize(d) \/ Restore(d) \/ Revoke(d) PROVE clients'[c] # None
  BY <1>4 DEF Authorize, Restore, Revoke
<1>5. ASSUME NEW f \in Code, Disconnect(f) PROVE clients'[c] # None
  BY <1>5 DEF Disconnect
<1>6. CASE ChangeCredentials \/ Tick
  BY <1>6 DEF ChangeCredentials, Tick
<1> QED
  BY <1>1, <1>2, <1>3, <1>4, <1>5, <1>6, RegisterKeeps DEF Next

\* A client that holds a token, or a code it has been sent, stays registered.
THEOREM WorkingIsKept == Spec => WorkingClientStays
<1>1. TypeOK /\ IInv /\ [Next]_vars =>
        [\A c \in Client : clients[c] # None /\ Working(c) => clients'[c] # None]_vars
  BY StepKeeps
<1> QED
  BY <1>1, TypeCorrect, Inductive, PTL DEF Spec, WorkingClientStays
=============================================================================
