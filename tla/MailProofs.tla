----------------------------- MODULE MailProofs ------------------------------
(***************************************************************************)
(* Proofs about MailPipeline, for any mailboxes, threads, approvers and    *)
(* bounds: type correctness, and from the inductive invariant IInv that    *)
(* the cursor passes nothing undecided, that a message has one place, that *)
(* what was approved is written, and that the pipeline implements Inbox.   *)
(***************************************************************************)
EXTENDS MailPipeline, SequenceTheorems, FiniteSetTheorems, WellFoundedInduction, TLAPS

-----------------------------------------------------------------------------
(* Numbers.                                                                  *)

LEMMA Smallest ==
    ASSUME NEW S \in SUBSET Nat, S # {}
    PROVE  \E x \in S : \A y \in S : x <= y
<1> DEFINE R == OpToRel(<, Nat)
<1>1. PICK x \in S : \A y \in S : ~ (<<y, x>> \in R)
  <2> HIDE DEF R
  <2>1. IsWellFoundedOn(R, Nat)
    BY NatLessThanWellFounded DEF R
  <2> QED
    BY <2>1, WFMin
<1>2. \A y \in S : x <= y
  <2> SUFFICES ASSUME NEW y \in S PROVE x <= y
    OBVIOUS
  <2>1. y < x => <<y, x>> \in R
    BY DEF OpToRel
  <2>2. x \in Nat /\ y \in Nat /\ ~ (<<y, x>> \in R)
    BY <1>1
  <2> HIDE DEF R
  <2> QED
    BY <2>1, <2>2
<1> QED
  BY <1>2

LEMMA Largest ==
    ASSUME NEW n \in Nat, NEW S \in SUBSET (0 .. n), S # {}
    PROVE  \E x \in S : \A y \in S : y <= x
<1> DEFINE T == {n - x : x \in S}
<1>1. T \in SUBSET Nat /\ T # {}
  OBVIOUS
<1>2. PICK m \in T : \A y \in T : m <= y
  BY <1>1, Smallest
<1>3. PICK x \in S : m = n - x
  BY <1>2
<1>4. \A y \in S : y <= x
  BY <1>2, <1>3
<1> QED
  BY <1>4

LEMMA MaxOfSet ==
    ASSUME NEW n \in Nat, NEW S \in SUBSET (0 .. n), S # {}
    PROVE  MaxOf(S) \in S /\ \A y \in S : y <= MaxOf(S)
<1>1. \E x \in S : \A y \in S : y <= x
  BY Largest
<1> QED
  BY <1>1 DEF MaxOf

LEMMA LatestOfSet ==
    ASSUME NEW n \in Nat, NEW S \in SUBSET (0 .. n), S # {}
    PROVE  Latest(S) \in S
<1>1. \E x \in S : \A y \in S : y <= x
  BY Largest
<1> QED
  BY <1>1 DEF Latest

-----------------------------------------------------------------------------
(* The ledger.                                                               *)

LEMMA KeyType ==
    ASSUME NEW c \in Copy
    PROVE  RawKey(c) \in Key /\ OwnKey(c) \in Key /\ OversizeKey(c) \in Key
BY DEF Key

\* No two messages share a key but under a common Message-ID.
LEMMA KeysDiffer ==
    ASSUME NEW c \in Copy, NEW d \in Copy
    PROVE  /\ RawKey(c) = RawKey(d) => c = d
           /\ OwnKey(c) = RawKey(d) => c = d
           /\ OversizeKey(c) # RawKey(d) /\ OversizeKey(c) # OwnKey(d)
           /\ OversizeKey(c) = OversizeKey(d) => c = d
BY DEF RawKey, OwnKey, OversizeKey

GoodLedger(l) ==
    /\ l \in [Key -> LedgerRow]
    /\ \A k \in Key : l[k].released => l[k].outcome = Unsettled
    /\ \A k \in Key : l[k].outcome = Unsettled => l[k].strikes < MaxInterrupted

\* What is settled stays as it was settled.
Grows(l, m) == \A k \in Key : Settled(l, k) => m[k].outcome = l[k].outcome

LEMMA Outcomes == Unsettled \notin Outcome /\ "none" \notin Outcome /\ "none" # Unsettled
BY DEF Unsettled, Outcome

LEMMA RowType ==
    ASSUME NEW r \in LedgerRow
    PROVE  /\ r.outcome \in {"none", Unsettled} \cup Outcome
           /\ r.released \in BOOLEAN
           /\ r.strikes \in 0 .. MaxInterrupted
           /\ r = [outcome |-> r.outcome, released |-> r.released, strikes |-> r.strikes]
           /\ r.outcome = "none" <=> r = NoRow
<1>1. MaxInterrupted \in Nat
  BY CopyAssumption
<1>2. CASE r = NoRow
  BY <1>1, <1>2 DEF NoRow
<1>3. CASE r # NoRow
  <2>1. r \in [outcome : {Unsettled} \cup Outcome, released : BOOLEAN,
               strikes : 0 .. MaxInterrupted]
    BY <1>3 DEF LedgerRow
  <2>2. r.outcome # "none"
    BY <2>1, Outcomes
  <2> QED
    BY <1>3, <2>1, <2>2
<1> QED
  BY <1>2, <1>3

Rows == [outcome : {Unsettled} \cup Outcome, released : BOOLEAN, strikes : 0 .. MaxInterrupted]

LEMMA RowUpdate ==
    ASSUME NEW r \in Rows, NEW o \in {Unsettled} \cup Outcome
    PROVE  LET q == [r EXCEPT !.outcome = o] IN
           q \in Rows /\ q.outcome = o /\ q.released = r.released /\ q.strikes = r.strikes
BY DEF Rows

LEMMA RealRow ==
    ASSUME NEW r \in LedgerRow, r.outcome # "none"
    PROVE  r \in Rows
BY DEF LedgerRow, Rows, NoRow

LEMMA MakeRow ==
    ASSUME NEW o \in {Unsettled} \cup Outcome, NEW b \in BOOLEAN, NEW n \in 0 .. MaxInterrupted
    PROVE  [outcome |-> o, released |-> b, strikes |-> n] \in LedgerRow
BY DEF LedgerRow

LEMMA RowsAreRows == \A r \in Rows : r \in LedgerRow
BY DEF Rows, LedgerRow

LEMMA ClaimRow ==
    ASSUME NEW l, GoodLedger(l), NEW k \in Key, Claimable(l, k)
    PROVE  /\ GoodLedger(Claim(l, k)) /\ Grows(l, Claim(l, k))
           /\ Held(Claim(l, k), k) /\ ~Settled(l, k)
           /\ \A j \in Key \ {k} : Claim(l, k)[j] = l[j]
<1> DEFINE r == [outcome |-> Unsettled, released |-> FALSE, strikes |-> l[k].strikes]
<1>1. l \in [Key -> LedgerRow] /\ l[k] \in LedgerRow
  BY DEF GoodLedger
<1>2. l[k].outcome \in {"none", Unsettled} /\ l[k].strikes < MaxInterrupted
  BY <1>1, RowType, CopyAssumption DEF GoodLedger, Claimable, NoRow
<1>3. r \in LedgerRow
  BY <1>1, RowType, MakeRow
<1>4. r.outcome = Unsettled /\ ~r.released /\ r.strikes = l[k].strikes
  OBVIOUS
<1>5. Claim(l, k) = [l EXCEPT ![k] = r]
  BY DEF Claim
<1> HIDE DEF r
<1>6. /\ Claim(l, k) \in [Key -> LedgerRow] /\ Claim(l, k)[k] = r
      /\ \A j \in Key \ {k} : Claim(l, k)[j] = l[j]
  BY <1>1, <1>3, <1>5
<1> QED
  BY <1>2, <1>4, <1>6, Outcomes DEF GoodLedger, Grows, Held, Settled

LEMMA SettleRow ==
    ASSUME NEW l, GoodLedger(l), NEW k \in Key, Held(l, k), NEW o \in Outcome
    PROVE  /\ GoodLedger(Settle(l, k, o)) /\ Grows(l, Settle(l, k, o))
           /\ Settle(l, k, o)[k].outcome = o /\ Settled(Settle(l, k, o), k)
           /\ ~Settled(l, k) /\ ~Held(Settle(l, k, o), k)
           /\ \A j \in Key \ {k} : Settle(l, k, o)[j] = l[j]
<1> DEFINE r == [l[k] EXCEPT !.outcome = o]
<1>1. l \in [Key -> LedgerRow] /\ l[k] \in LedgerRow
  BY DEF GoodLedger
<1>2. l[k].outcome = Unsettled /\ ~l[k].released /\ l[k] \in Rows
  BY <1>1, RealRow, Outcomes DEF Held
<1>3. r \in Rows /\ r.outcome = o /\ r.released = l[k].released
  BY <1>2, RowUpdate, CopyAssumption DEF Rows
<1>4. r \in LedgerRow /\ r.outcome = o /\ ~r.released
  BY <1>2, <1>3, RowsAreRows
<1>5. Settle(l, k, o) = [l EXCEPT ![k] = r]
  BY DEF Settle
<1> HIDE DEF r
<1>6. /\ Settle(l, k, o) \in [Key -> LedgerRow] /\ Settle(l, k, o)[k] = r
      /\ \A j \in Key \ {k} : Settle(l, k, o)[j] = l[j]
  BY <1>1, <1>4, <1>5
<1> QED
  BY <1>2, <1>4, <1>6, Outcomes DEF GoodLedger, Grows, Held, Settled

LEMMA ReleaseRow ==
    ASSUME NEW l, GoodLedger(l), NEW k \in Key, Held(l, k)
    PROVE  /\ GoodLedger(Release(l, k)) /\ Grows(l, Release(l, k))
           /\ Release(l, k)[k] = NoRow /\ ~Settled(l, k)
           /\ \A j \in Key \ {k} : Release(l, k)[j] = l[j]
<1>1. NoRow \in LedgerRow /\ ~NoRow.released /\ NoRow.outcome = "none"
  BY DEF LedgerRow, NoRow
<1>2. Release(l, k) = [l EXCEPT ![k] = NoRow]
  BY DEF Release, Held
<1>3. /\ Release(l, k) \in [Key -> LedgerRow] /\ Release(l, k)[k] = NoRow
      /\ \A j \in Key \ {k} : Release(l, k)[j] = l[j]
  BY <1>1, <1>2 DEF GoodLedger
<1> QED
  BY <1>1, <1>3, Outcomes DEF GoodLedger, Grows, Held, Settled

LEMMA StrikeRow ==
    ASSUME NEW r \in Rows, NEW n \in 0 .. MaxInterrupted,
           r.outcome = Unsettled, ~r.released, n = r.strikes + 1
    PROVE  /\ Recovered(r) \in Rows
           /\ Recovered(r).outcome \in {Unsettled, "error"}
           /\ Recovered(r).released <=> Recovered(r).outcome = Unsettled
           /\ Recovered(r).outcome = Unsettled => Recovered(r).strikes < MaxInterrupted
<1> DEFINE s == [r EXCEPT !.strikes = n, !.released = TRUE]
           e == [s EXCEPT !.outcome = "error", !.released = FALSE]
<1>1. "error" \in Outcome
  BY DEF Outcome
<1>2. s \in Rows /\ s.outcome = Unsettled /\ s.released /\ s.strikes = n
  BY DEF Rows
<1>3. Recovered(r) = IF s.outcome = Unsettled /\ s.strikes >= MaxInterrupted THEN e ELSE s
  BY DEF Recovered
<1> HIDE DEF s
<1>4. e \in Rows /\ e.outcome = "error" /\ ~e.released
  BY <1>1, <1>2 DEF Rows
<1> HIDE DEF e
<1> QED
  BY <1>1, <1>2, <1>3, <1>4, Outcomes, CopyAssumption

\* A run begins with nothing claimed; only what was held may be given up.
LEMMA RecoverRows ==
    ASSUME NEW l, GoodLedger(l)
    PROVE  /\ GoodLedger(RecoverUnsettled(l)) /\ Grows(l, RecoverUnsettled(l))
           /\ \A k \in Key : ~Held(RecoverUnsettled(l), k)
           /\ \A k \in Key : ~Held(l, k) => RecoverUnsettled(l)[k] = l[k]
           /\ \A k \in Key : Held(l, k) =>
                 RecoverUnsettled(l)[k].outcome \in {Unsettled, "error"}
<1> DEFINE m == RecoverUnsettled(l)
<1>1. ASSUME NEW k \in Key
      PROVE  /\ m[k] \in LedgerRow
             /\ m[k].released => m[k].outcome = Unsettled
             /\ m[k].outcome = Unsettled => m[k].strikes < MaxInterrupted
             /\ ~Held(m, k)
             /\ ~Held(l, k) => m[k] = l[k]
             /\ Held(l, k) => m[k].outcome \in {Unsettled, "error"}
  <2> DEFINE row == l[k]
  <2>1. row \in LedgerRow
    BY DEF GoodLedger
  <2>2. m[k] = Recovered(row)
    BY DEF RecoverUnsettled
  <2>3. CASE Held(l, k)
    <3>1. row.outcome = Unsettled /\ row.released = FALSE
      BY <2>1, <2>3, RowType DEF Held
    <3>2. row.strikes \in 0 .. MaxInterrupted /\ row.strikes < MaxInterrupted
      BY <2>1, <3>1, RowType DEF GoodLedger
    <3>3. row \in Rows
      BY <2>1, <3>1, RealRow, Outcomes
    <3>4. row.strikes + 1 \in 0 .. MaxInterrupted
      BY <3>2, CopyAssumption
    <3>5. /\ m[k] \in Rows /\ m[k].outcome \in {Unsettled, "error"}
          /\ m[k].released <=> m[k].outcome = Unsettled
          /\ m[k].outcome = Unsettled => m[k].strikes < MaxInterrupted
      BY <2>2, <3>1, <3>3, <3>4, StrikeRow
    <3> HIDE DEF m
    <3> QED
      BY <2>3, <3>5, RowsAreRows DEF Held
  <2>4. CASE ~Held(l, k)
    <3>1. ~(row.outcome = Unsettled /\ ~row.released)
      BY <2>4 DEF Held
    <3>2. row.outcome = Unsettled => row.strikes < MaxInterrupted
      BY DEF GoodLedger
    <3>3. row.strikes \in 0 .. MaxInterrupted /\ MaxInterrupted \in Nat
      BY <2>1, RowType, CopyAssumption
    <3>4. m[k] = row
      BY <2>2, <3>1, <3>2, <3>3 DEF Recovered
    <3> QED
      BY <2>1, <2>4, <3>4 DEF GoodLedger, Held
  <2> QED
    BY <2>3, <2>4
<1>2. m \in [Key -> LedgerRow]
  BY <1>1 DEF RecoverUnsettled
<1> HIDE DEF m
<1>3. Grows(l, m)
  BY <1>1, Outcomes DEF Grows, Settled, Held
<1> QED
  BY <1>1, <1>2, <1>3 DEF GoodLedger, m

-----------------------------------------------------------------------------
(* A scan and its cursor.                                                    *)

SettledFor(l, c) == \E k \in {RawKey(c), OwnKey(c), OversizeKey(c)} : Settled(l, k)

LEMMA DecidedBy ==
    \A c : (Decided(c) <=> SettledFor(ledger, c)) /\ (Decided(c)' <=> SettledFor(ledger', c))
BY DEF Decided, SettledFor

Clear(l, c) == c \in Old \cup {NoCopy} \/ SettledFor(l, c)

LEMMA DealtWithBy ==
    \A u : /\ DealtWith(u) <=> Clear(ledger, folder.at[u])
           /\ DealtWith(u)' <=> Clear(ledger', folder'.at[u])
BY DEF DealtWith, Clear, Decided, SettledFor

LEMMA StaysSettled ==
    ASSUME NEW l, NEW m, Grows(l, m), NEW k \in Key, Settled(l, k)
    PROVE  Settled(m, k)
BY DEF Grows, Settled

LEMMA StaysDecided ==
    ASSUME NEW l, NEW m, Grows(l, m), NEW c \in Copy, SettledFor(l, c)
    PROVE  SettledFor(m, c)
BY KeyType, StaysSettled DEF SettledFor

LEMMA GrowsItself == \A l : Grows(l, l)
BY DEF Grows

LEMMA LedgerIsGood ==
    ASSUME TypeOK, ClaimsOK PROVE GoodLedger(ledger)
BY DEF TypeOK, ClaimsOK, GoodLedger

LEMMA ScanFields ==
    ASSUME TypeOK
    PROVE  /\ scan \in Scan /\ folder \in [validity : Nat, at : Seq(Copy \cup {NoCopy})]
           /\ scan.last \in Nat /\ scan.top \in Nat /\ scan.uidnext \in Nat
           /\ scan.floor \in Nat /\ scan.uid \in Nat /\ scan.queue \in SUBSET Nat
           /\ scan.pc \in ScanPc /\ scan.copy \in Copy \cup {NoCopy}
           /\ scan.truncated \in BOOLEAN /\ scan.window \in BOOLEAN
           /\ Len(folder.at) \in Nat
<1>1. scan \in Scan /\ folder \in [validity : Nat, at : Seq(Copy \cup {NoCopy})]
  BY DEF TypeOK
<1>2. scan.truncated \in BOOLEAN /\ scan.window \in BOOLEAN
  BY <1>1 DEF Scan
<1>3. Len(folder.at) \in Nat
  BY <1>1
<1>4. /\ scan.last \in Nat /\ scan.top \in Nat /\ scan.uidnext \in Nat
      /\ scan.floor \in Nat /\ scan.uid \in Nat /\ scan.queue \in SUBSET Nat
      /\ scan.pc \in ScanPc /\ scan.copy \in Copy \cup {NoCopy}
  BY <1>1 DEF Scan
<1> QED
  BY <1>1, <1>2, <1>3, <1>4

\* With the folder as it was, what was dealt with is.
LEMMA DealtWithStays ==
    ASSUME TypeOK, Grows(ledger, ledger'), folder' = folder,
           NEW u \in 1 .. Len(folder.at), DealtWith(u)
    PROVE  DealtWith(u)'
<1>1. folder.at[u] \in Copy \cup {NoCopy} /\ folder'.at[u] = folder.at[u]
  BY DEF TypeOK
<1> QED
  BY <1>1, DecidedBy, StaysDecided DEF DealtWith

LEMMA CursorStays ==
    ASSUME TypeOK, CursorOK, PassedIsDecided, Grows(ledger, ledger'),
           folder' = folder, cursor' = cursor
    PROVE  CursorOK' /\ PassedIsDecided'
<1>1. CursorOK'
  BY DEF CursorOK
<1>2. PassedIsDecided'
  <2> SUFFICES ASSUME cursor.validity = folder.validity,
                      NEW u \in DOMAIN folder.at, u <= cursor.last,
                      folder.at[u] \notin Old \cup {NoCopy}
               PROVE  Decided(folder.at[u])'
    BY DEF PassedIsDecided
  <2>1. Decided(folder.at[u]) /\ folder.at[u] \in Copy
    BY DEF PassedIsDecided, TypeOK
  <2> QED
    BY <2>1, DecidedBy, StaysDecided
<1> QED
  BY <1>1, <1>2

SameScan ==
    /\ scan'.validity = scan.validity /\ scan'.uidnext = scan.uidnext
    /\ scan'.floor = scan.floor /\ scan'.top = scan.top
    /\ scan'.truncated = scan.truncated

\* A scan that goes on to the next message.
LEMMA NextUp ==
    ASSUME TypeOK, Reading, Searched, Grows(ledger, ledger'), folder' = folder,
           scan.pc \in {"next"} \cup InHand, SameScan, scan'.pc = "next",
           scan'.last \in Nat, scan.last <= scan'.last, scan'.last <= Len(folder.at),
           scan'.queue \subseteq scan.queue,
           \A u \in scan'.queue : scan'.last < u,
           \A u \in 1 .. scan'.last : scan.last < u => DealtWith(u)',
           \A u \in 1 .. scan.top :
              u \in scan'.queue \/ DealtWith(u) \/ DealtWith(u)'
    PROVE  Reading' /\ Searched' /\ Handled'
<1> USE DEF SameScan
<1>1. /\ scan \in Scan /\ folder \in [validity : Nat, at : Seq(Copy \cup {NoCopy})]
      /\ scan.last \in Nat /\ scan.top \in Nat /\ scan.uidnext \in Nat /\ scan.floor \in Nat
      /\ Len(folder.at) \in Nat
  BY ScanFields
<1>2. /\ scan.validity = folder.validity
      /\ scan.floor <= scan.last /\ scan.last <= Len(folder.at)
      /\ scan.uidnext \in 1 .. Len(folder.at) + 1
      /\ \A u \in 1 .. scan.last : DealtWith(u)
  BY DEF Reading, InHand
<1>3. /\ scan.top <= Len(folder.at)
      /\ scan.queue \subseteq 1 .. scan.top
      /\ ~scan.truncated \/ scan.top = 0 =>
              \A u \in 1 .. (scan.uidnext - 1) : u <= scan.top \/ DealtWith(u)
  BY DEF Searched
<1>4. \A u \in 1 .. Len(folder.at) : DealtWith(u) => DealtWith(u)'
  BY DealtWithStays
<1>5. Reading'
  <2>1. \A u \in 1 .. scan'.last : DealtWith(u)'
    BY <1>1, <1>2, <1>4
  <2> QED
    BY <1>1, <1>2, <2>1 DEF Reading
<1>6. Searched'
  <2>1. \A u \in 1 .. scan.top : u \in scan'.queue \/ DealtWith(u)'
    BY <1>1, <1>3, <1>4
  <2>2. ~scan.truncated \/ scan.top = 0 =>
           \A u \in 1 .. (scan.uidnext - 1) : u <= scan.top \/ DealtWith(u)'
    BY <1>1, <1>2, <1>3, <1>4
  <2> QED
    BY <1>1, <1>3, <2>1, <2>2 DEF Searched
<1>7. Handled'
  BY DEF Handled, InHand
<1> QED
  BY <1>5, <1>6, <1>7

\* A scan that goes on with the message in hand.
LEMMA StillInHand ==
    ASSUME TypeOK, Reading, Searched, Handled, Grows(ledger, ledger'), folder' = folder,
           scan.pc \in InHand, scan'.pc \in InHand, SameScan,
           scan'.last = scan.last, scan'.queue = scan.queue,
           scan'.uid = scan.uid, scan'.copy = scan.copy
    PROVE  Reading' /\ Searched' /\ Handled'
<1> USE DEF SameScan
<1>1. /\ scan \in Scan /\ folder \in [validity : Nat, at : Seq(Copy \cup {NoCopy})]
      /\ scan.last \in Nat /\ scan.top \in Nat /\ scan.uidnext \in Nat /\ scan.floor \in Nat
      /\ Len(folder.at) \in Nat
  BY ScanFields
<1>2. /\ scan.validity = folder.validity
      /\ scan.floor <= scan.last /\ scan.last <= Len(folder.at)
      /\ scan.uidnext \in 1 .. Len(folder.at) + 1
      /\ \A u \in 1 .. scan.last : DealtWith(u)
  BY DEF Reading, InHand
<1>3. /\ scan.top <= Len(folder.at)
      /\ scan.queue \subseteq 1 .. scan.top
      /\ \A u \in scan.queue : scan.last < u
      /\ \A u \in 1 .. scan.top : u \in scan.queue \/ u = scan.uid \/ DealtWith(u)
      /\ ~scan.truncated \/ scan.top = 0 =>
              \A u \in 1 .. (scan.uidnext - 1) : u <= scan.top \/ DealtWith(u)
  BY DEF Searched
<1>4. \A u \in 1 .. Len(folder.at) : DealtWith(u) => DealtWith(u)'
  BY DealtWithStays
<1>5. Reading'
  <2>1. \A u \in 1 .. scan'.last : DealtWith(u)'
    BY <1>1, <1>2, <1>4
  <2> QED
    BY <1>1, <1>2, <2>1 DEF Reading, InHand
<1>6. Searched'
  <2>1. \A u \in 1 .. scan.top : u \in scan.queue \/ u = scan.uid \/ DealtWith(u)'
    BY <1>1, <1>3, <1>4
  <2>2. ~scan.truncated \/ scan.top = 0 =>
           \A u \in 1 .. (scan.uidnext - 1) : u <= scan.top \/ DealtWith(u)'
    BY <1>1, <1>2, <1>3, <1>4
  <2> QED
    BY <1>3, <2>1, <2>2 DEF Searched, InHand
<1>7. Handled'
  BY DEF Handled
<1> QED
  BY <1>5, <1>6, <1>7

\* A scan that gives up where it is; or that has nothing left to read.
LEMMA StopReading ==
    ASSUME TypeOK, Reading, Searched, Grows(ledger, ledger'), folder' = folder,
           scan.pc \notin {"idle", "select"}, SameScan, scan'.pc = "cursor",
           scan'.last = scan.last, scan'.queue = {},
           scan'.complete => scan.pc = "next" /\ scan.queue = {}
    PROVE  Reading' /\ Searched' /\ Handled'
<1> USE DEF SameScan
<1>1. /\ scan \in Scan /\ folder \in [validity : Nat, at : Seq(Copy \cup {NoCopy})]
      /\ scan.last \in Nat /\ scan.top \in Nat /\ scan.uidnext \in Nat /\ scan.floor \in Nat
      /\ Len(folder.at) \in Nat
  BY ScanFields
<1>2. /\ scan.validity = folder.validity
      /\ scan.floor <= scan.last /\ scan.last <= Len(folder.at)
      /\ scan.uidnext \in 1 .. Len(folder.at) + 1
      /\ \A u \in 1 .. scan.last : DealtWith(u)
  BY DEF Reading
<1>4. \A u \in 1 .. Len(folder.at) : DealtWith(u) => DealtWith(u)'
  BY DealtWithStays
<1>5. Reading'
  <2>1. \A u \in 1 .. scan'.last : DealtWith(u)'
    BY <1>1, <1>2, <1>4, SMTT(30)
  <2>2. /\ scan'.validity = folder'.validity
        /\ scan'.floor <= scan'.last /\ scan'.last <= Len(folder'.at)
        /\ scan'.uidnext \in 1 .. Len(folder'.at) + 1
    BY <1>2
  <2> QED
    BY <2>1, <2>2 DEF Reading
<1>6. Searched'
  <2>1. CASE ~scan'.complete
    BY <2>1 DEF Searched, InHand
  <2>2. CASE scan'.complete
    <3>1. /\ scan.top <= Len(folder.at)
          /\ \A u \in 1 .. scan.top : DealtWith(u)
          /\ ~scan.truncated \/ scan.top = 0 =>
              \A u \in 1 .. (scan.uidnext - 1) : u <= scan.top \/ DealtWith(u)
      BY <2>2 DEF Searched, InHand
    <3>2. \A u \in 1 .. scan.top : DealtWith(u)'
      BY <1>1, <1>4, <3>1
    <3>3. ~scan.truncated \/ scan.top = 0 =>
           \A u \in 1 .. (scan.uidnext - 1) : u <= scan.top \/ DealtWith(u)'
      BY <1>1, <1>2, <1>4, <3>1
    <3> QED
      BY <3>1, <3>2, <3>3 DEF Searched, InHand
  <2> QED
    BY <2>1, <2>2
<1>7. Handled'
  BY DEF Handled, InHand
<1> QED
  BY <1>5, <1>6, <1>7

ScanTypes ==
    /\ folder \in [validity : Nat, at : Seq(Copy \cup {NoCopy})]
    /\ ledger \in [Key -> LedgerRow]
    /\ cursor \in [validity : Nat, last : Nat, window : BOOLEAN]
    /\ scan \in Scan
    /\ scan.pc \in InHand <=> scan.copy # NoCopy

LEMMA TypesOfScan ==
    ASSUME TypeOK PROVE ScanTypes
BY DEF TypeOK, ScanTypes

LEMMA NewTypes ==
    ASSUME TypeOK, UNCHANGED <<folder, cursor>>, GoodLedger(ledger'), scan' \in Scan,
           scan'.pc \in InHand <=> scan'.copy # NoCopy
    PROVE  ScanTypes'
BY TypesOfScan DEF ScanTypes, GoodLedger

ScanSafe == ClaimsOK /\ CursorOK /\ PassedIsDecided /\ Reading /\ Searched /\ Handled

\* No claim is held between two messages; one at most while one is in hand.
LEMMA HeldAlone ==
    ASSUME ClaimsOK, NEW k \in Key, Held(ledger, k)
    PROVE  \A j \in Key \ {k} : ~Held(ledger, j)
BY DEF ClaimsOK

LEMMA NothingHeld ==
    ASSUME ClaimsOK, scan.pc \notin {"idle", "parse", "stages", "write"}
    PROVE  \A k \in Key : ~Held(ledger, k)
BY DEF ClaimsOK

LEMMA ClaimsClear ==
    ASSUME GoodLedger(ledger'), \A k \in Key : ~Held(ledger', k),
           scan'.pc \notin {"parse", "stages", "write"},
           scan'.pc = "auto" => Settled(ledger', OwnKey(scan'.copy))
    PROVE  ClaimsOK'
BY DEF ClaimsOK, GoodLedger

LEMMA ClaimsOne ==
    ASSUME GoodLedger(ledger'), NEW k \in Key, Held(ledger', k),
           \A j \in Key \ {k} : ~Held(ledger', j),
           \/ scan'.pc = "parse" /\ k = RawKey(scan'.copy)
           \/ scan'.pc \in {"stages", "write"} /\ k = OwnKey(scan'.copy)
    PROVE  ClaimsOK'
BY DEF ClaimsOK, GoodLedger

LEMMA PassedFields ==
    ASSUME TypeOK, Passed
    PROVE  /\ SameScan /\ scan'.pc = "next" /\ scan'.last = scan.uid
           /\ scan'.queue = scan.queue /\ scan'.copy = NoCopy /\ scan' \in Scan
<1>1. scan \in Scan
  BY ScanFields
<1>2. scan' \in Scan
  <2>1. NoPlan \in Plan
    BY CopyAssumption DEF NoPlan, Plan
  <2> QED
    BY <1>1, <2>1 DEF Passed, Scan, ScanPc
<1>3. SameScan
  BY <1>1 DEF Passed, Scan, SameScan
<1> QED
  BY <1>1, <1>2, <1>3 DEF Passed, Scan

LEMMA LeaveFields ==
    ASSUME TypeOK, NEW a \in BOOLEAN, NEW b \in BOOLEAN, Leave(a, b)
    PROVE  /\ SameScan /\ scan'.pc = "cursor" /\ scan'.last = scan.last
           /\ scan'.queue = {} /\ scan'.copy = NoCopy /\ scan' \in Scan
           /\ scan'.complete = b /\ scan'.again = a
<1>1. scan \in Scan
  BY ScanFields
<1>2. scan' \in Scan
  <2>1. NoPlan \in Plan
    BY CopyAssumption DEF NoPlan, Plan
  <2> QED
    BY <1>1, <2>1, ZenonT(40) DEF Leave, Scan, ScanPc
<1>3. SameScan
  BY <1>1 DEF Leave, Scan, SameScan
<1> QED
  BY <1>1, <1>2, <1>3 DEF Leave, Scan

\* The message in hand is decided, and the cursor may pass it.
LEMMA PassedOn ==
    ASSUME TypeOK, ScanSafe, scan.pc \in InHand, Passed, UNCHANGED <<folder, cursor>>,
           GoodLedger(ledger'), Grows(ledger, ledger'),
           \A k \in Key : ~Held(ledger', k), SettledFor(ledger', scan.copy)
    PROVE  ScanSafe' /\ ScanTypes'
<1> USE DEF ScanSafe
<1>1. /\ SameScan /\ scan'.pc = "next" /\ scan'.last = scan.uid
      /\ scan'.queue = scan.queue /\ scan'.copy = NoCopy /\ scan' \in Scan
  BY PassedFields
<1>2. ClaimsOK'
  BY <1>1, ClaimsClear
<1>3. CursorOK' /\ PassedIsDecided'
  BY CursorStays
<1>4. /\ scan.uid \in 1 .. scan.top /\ scan.last < scan.uid
      /\ \A u \in scan.queue : scan.uid < u
      /\ folder.at[scan.uid] \in {scan.copy, NoCopy}
  BY DEF Handled
<1>5. /\ scan.top <= Len(folder.at)
      /\ \A u \in 1 .. scan.top : u \in scan.queue \/ u = scan.uid \/ DealtWith(u)
  BY DEF Searched, InHand
<1>6. /\ scan.last \in Nat /\ scan.top \in Nat /\ scan.uid \in Nat /\ Len(folder.at) \in Nat
      /\ scan.queue \in SUBSET Nat
  BY ScanFields
<1>7. \A u : u = scan.uid => DealtWith(u)'
  <2>1. Clear(ledger', scan.copy) /\ Clear(ledger', NoCopy)
    BY DEF Clear
  <2> QED
    BY <1>4, <2>1, DealtWithBy
<1>8. \A u \in 1 .. scan.top :
          u \in scan'.queue \/ DealtWith(u) \/ u = scan.uid
  BY <1>1, <1>5
<1>9. \A u \in 1 .. scan'.last : scan.last < u => DealtWith(u)'
  <2> SUFFICES ASSUME NEW u \in 1 .. scan.uid, scan.last < u PROVE DealtWith(u)'
    BY <1>1
  <2>1. CASE u = scan.uid
    BY <2>1, <1>7
  <2>2. CASE u # scan.uid
    <3>1. u \in 1 .. scan.top /\ u < scan.uid /\ u \in 1 .. Len(folder.at)
      BY <2>2, <1>4, <1>5, <1>6
    <3>2. DealtWith(u)
      BY <3>1, <1>4, <1>5, <1>6
    <3> QED
      BY <3>1, <3>2, DealtWithStays
  <2> QED
    BY <2>1, <2>2
<1>10. scan.last <= scan.uid /\ scan.uid <= Len(folder.at)
  BY <1>4, <1>5, <1>6
<1>11. \A u \in 1 .. scan.top : u \in scan'.queue \/ DealtWith(u) \/ DealtWith(u)'
  BY <1>7, <1>8
<1>12. Reading' /\ Searched' /\ Handled'
  BY <1>1, <1>4, <1>6, <1>9, <1>10, <1>11, NextUp
<1>13. ScanTypes'
  BY <1>1, NewTypes DEF InHand
<1> QED
  BY <1>2, <1>3, <1>12, <1>13

\* The loop ends before the message in hand, whose claim was given back.
LEMMA GivesUp ==
    ASSUME TypeOK, ScanSafe, Retry, UNCHANGED <<folder, cursor>>,
           scan.pc \notin {"idle", "select"},
           GoodLedger(ledger'), Grows(ledger, ledger'), \A k \in Key : ~Held(ledger', k)
    PROVE  ScanSafe' /\ ScanTypes'
<1> USE DEF ScanSafe
<1>1. /\ SameScan /\ scan'.pc = "cursor" /\ scan'.last = scan.last
      /\ scan'.queue = {} /\ scan'.complete = FALSE /\ scan'.copy = NoCopy /\ scan' \in Scan
  BY LeaveFields DEF Retry
<1>2. ClaimsOK'
  BY <1>1, ClaimsClear
<1>3. CursorOK' /\ PassedIsDecided'
  BY CursorStays
<1>4. Reading' /\ Searched' /\ Handled'
  BY <1>1, StopReading
<1>5. ScanTypes'
  BY <1>1, NewTypes DEF InHand
<1> QED
  BY <1>2, <1>3, <1>4, <1>5

\* The message in hand stays in hand.
LEMMA GoesOn ==
    ASSUME TypeOK, ScanSafe, scan.pc \in InHand, scan'.pc \in InHand,
           UNCHANGED <<folder, cursor>>, SameScan,
           scan'.last = scan.last, scan'.queue = scan.queue,
           scan'.uid = scan.uid, scan'.copy = scan.copy,
           Grows(ledger, ledger'), ClaimsOK'
    PROVE  ScanSafe'
<1>1. CursorOK' /\ PassedIsDecided'
  BY CursorStays DEF ScanSafe
<1>2. Reading' /\ Searched' /\ Handled'
  BY StillInHand DEF ScanSafe
<1> QED
  BY <1>1, <1>2 DEF ScanSafe

-----------------------------------------------------------------------------
(* The steps of a scan that leave the ledger alone, or only recover it.       *)

LEMMA NatLe == \A x, y \in Nat : x <= y \/ y < x
OBVIOUS

LEMMA StartRunSafe ==
    ASSUME TypeOK, ScanSafe, StartRun PROVE ScanSafe'
<1>1. ledger' = RecoverUnsettled(ledger) /\ folder' = folder /\ cursor' = cursor
  BY DEF StartRun, Mailbox
<1>2. scan'.pc = "select"
  BY DEF StartRun, Idle
<1>3. /\ GoodLedger(ledger') /\ Grows(ledger, ledger')
      /\ \A k \in Key : ~Held(ledger', k)
  BY <1>1, LedgerIsGood, RecoverRows DEF ScanSafe
<1>4. ClaimsOK'
  BY <1>2, <1>3, ClaimsClear
<1>5. CursorOK' /\ PassedIsDecided'
  BY <1>1, <1>3, CursorStays DEF ScanSafe
<1>6. Reading' /\ Searched' /\ Handled'
  BY <1>2 DEF Reading, Searched, Handled, InHand
<1> QED
  BY <1>4, <1>5, <1>6 DEF ScanSafe

LEMMA SelectSafe ==
    ASSUME TypeOK, ScanSafe, Select PROVE ScanSafe'
<1> DEFINE known == cursor.validity = folder.validity
           floor == IF known THEN cursor.last ELSE 0
<1>1. ledger' = ledger /\ folder' = folder /\ cursor' = cursor /\ scan.pc = "select"
  BY DEF Select, Mailbox, store
<1>2. /\ scan'.pc = "search" /\ scan'.validity = folder.validity
      /\ scan'.uidnext = Len(folder.at) + 1 /\ scan'.floor = floor /\ scan'.last = floor
  BY ScanFields DEF Select, Scan
<1>3. GoodLedger(ledger') /\ Grows(ledger, ledger')
  BY <1>1, LedgerIsGood, GrowsItself DEF ScanSafe
<1>4. ClaimsOK'
  BY <1>1, <1>2, <1>3, ClaimsClear, NothingHeld DEF ScanSafe
<1>5. CursorOK' /\ PassedIsDecided'
  BY <1>1, <1>3, CursorStays DEF ScanSafe
<1>6. cursor.last \in Nat /\ Len(folder.at) \in Nat
  BY DEF TypeOK
<1>7. floor \in Nat /\ floor <= Len(folder.at)
  BY <1>6 DEF ScanSafe, CursorOK
<1>8. \A u \in 1 .. floor : DealtWith(u)'
  <2> SUFFICES ASSUME NEW u \in 1 .. floor PROVE DealtWith(u)'
    OBVIOUS
  <2>1. known /\ u \in DOMAIN folder.at /\ u <= cursor.last
    BY <1>6, <1>7 DEF TypeOK
  <2>2. DealtWith(u)
    BY <2>1 DEF ScanSafe, PassedIsDecided, DealtWith
  <2> QED
    BY <1>1, <1>3, <1>6, <1>7, <2>2, DealtWithStays
<1> HIDE DEF floor
<1>9. Reading'
  BY <1>1, <1>2, <1>6, <1>7, <1>8 DEF Reading
<1>10. Searched' /\ Handled'
  BY <1>2 DEF Searched, Handled, InHand
<1> QED
  BY <1>4, <1>5, <1>9, <1>10 DEF ScanSafe

\* A search returns the first messages past the floor, in order: what it skips
\* is old, gone or was dealt with.
LEMMA SearchSafe ==
    ASSUME TypeOK, ScanSafe, Search PROVE ScanSafe'
<1> DEFINE found == {u \in DOMAIN folder.at :
                       /\ u > scan.floor /\ folder.at[u] # NoCopy
                       /\ scan.window => folder.at[u] \notin Old}
           before(u) == {v \in found : v < u}
           first == {u \in found : Cardinality(before(u)) < MaxPerRun}
           top == IF first = {} THEN 0 ELSE MaxOf(first)
           cut == first # found
           n == Len(folder.at)
<1>1. ledger' = ledger /\ folder' = folder /\ cursor' = cursor /\ scan.pc = "search"
  BY DEF Search, Mailbox, store
<1>2. /\ scan \in Scan /\ folder \in [validity : Nat, at : Seq(Copy \cup {NoCopy})]
      /\ scan.floor \in Nat /\ scan.uidnext \in Nat /\ n \in Nat
  BY ScanFields
<1>3. found \in SUBSET (1 .. n) /\ first \in SUBSET found
  BY <1>2
<1>4. cut \in BOOLEAN
  OBVIOUS
<1>5. scan' = [scan EXCEPT !.pc = "next", !.queue = first, !.truncated = cut, !.top = top]
  BY DEF Search
<1>6. first = {} => top = 0
  OBVIOUS
<1>7. first # {} => top \in first /\ \A u \in first : u <= top
  <2> SUFFICES ASSUME first # {} PROVE top \in first /\ \A u \in first : u <= top
    OBVIOUS
  <2>1. top = MaxOf(first)
    OBVIOUS
  <2> HIDE DEF first, top, found
  <2>2. first \in SUBSET (0 .. n)
    BY <1>2, <1>3
  <2> QED
    BY <1>2, <2>1, <2>2, MaxOfSet
<1>8. ~cut => first = found
  OBVIOUS
\* An earlier message of those found is among the first as well.
<1>9. \A u, v \in found : u < v /\ v \in first => u \in first
  <2> SUFFICES ASSUME NEW u \in found, NEW v \in found, u < v, v \in first
               PROVE  u \in first
    OBVIOUS
  <2>1. before(u) \subseteq before(v) /\ before(v) \subseteq 1 .. n
    BY <1>2, <1>3
  <2>2. IsFiniteSet(before(v)) /\ IsFiniteSet(before(u))
    <3>1. IsFiniteSet(1 .. n)
      BY <1>2, FS_Interval
    <3> HIDE DEF before, n
    <3> QED
      BY <2>1, <3>1, FS_Subset
  <2>3. Cardinality(before(u)) <= Cardinality(before(v))
    BY <2>1, <2>2, FS_Subset
  <2>4. Cardinality(before(u)) \in Nat /\ Cardinality(before(v)) \in Nat
    BY <2>2, FS_CardinalityType
  <2>5. Cardinality(before(v)) < MaxPerRun /\ MaxPerRun \in Nat
    BY CopyAssumption
  <2> QED
    BY <2>3, <2>4, <2>5
<1>10. found # {} => first # {}
  <2> SUFFICES ASSUME found # {} PROVE first # {}
    OBVIOUS
  <2>1. found \in SUBSET Nat
    BY <1>2, <1>3
  <2>2. PICK u \in found : \A v \in found : u <= v
    <3> HIDE DEF found
    <3> QED
      BY <2>1, Smallest
  <2>3. before(u) = {}
    BY <2>1, <2>2
  <2>4. Cardinality(before(u)) = 0
    BY <2>3, FS_EmptySet
  <2> QED
    BY <2>4, CopyAssumption
\* Whatever was not found and is not past the end needs nothing.
<1>11. \A u \in 1 .. n : u \in found \/ DealtWith(u)
  <2> SUFFICES ASSUME NEW u \in 1 .. n, u \notin found PROVE DealtWith(u)
    OBVIOUS
  <2>1. CASE u <= scan.floor
    <3>1. scan.last = scan.floor /\ \A x \in 1 .. scan.last : DealtWith(x)
      BY <1>1 DEF ScanSafe, Reading
    <3> QED
      BY <1>2, <2>1, <3>1
  <2>2. CASE ~ (u <= scan.floor)
    <3>1. u > scan.floor /\ u \in DOMAIN folder.at
      BY <1>2, <2>2
    <3>2. folder.at[u] = NoCopy \/ folder.at[u] \in Old
      BY <3>1
    <3> QED
      BY <3>2 DEF DealtWith
  <2> QED
    BY <2>1, <2>2
<1>12. \A u \in found : u > scan.floor
  OBVIOUS
<1> HIDE DEF found, first, top, cut
<1>13. /\ scan'.pc = "next" /\ scan'.queue = first /\ scan'.top = top
       /\ scan'.truncated = cut /\ scan'.validity = scan.validity
       /\ scan'.uidnext = scan.uidnext /\ scan'.floor = scan.floor /\ scan'.last = scan.last
       /\ scan'.copy = scan.copy
  BY <1>2, <1>4, <1>5 DEF Scan
<1>14. GoodLedger(ledger') /\ Grows(ledger, ledger')
  BY <1>1, LedgerIsGood, GrowsItself DEF ScanSafe
<1>15. ClaimsOK'
  BY <1>1, <1>13, <1>14, ClaimsClear, NothingHeld DEF ScanSafe
<1>16. CursorOK' /\ PassedIsDecided'
  BY <1>1, <1>14, CursorStays DEF ScanSafe
<1>17. \A u \in 1 .. n : DealtWith(u) => DealtWith(u)'
  BY <1>1, <1>14, DealtWithStays
<1>18. /\ scan.validity = folder.validity
       /\ scan.last = scan.floor /\ scan.last <= n
       /\ scan.uidnext \in 1 .. n + 1
       /\ \A u \in 1 .. scan.last : DealtWith(u)
  BY <1>1 DEF ScanSafe, Reading
<1>19. Reading'
  <2>1. \A u \in 1 .. scan'.last : DealtWith(u)'
    BY <1>2, <1>13, <1>17, <1>18
  <2>2. /\ scan'.validity = folder'.validity
        /\ scan'.floor <= scan'.last /\ scan'.last <= Len(folder'.at)
        /\ scan'.uidnext \in 1 .. Len(folder'.at) + 1
    BY <1>1, <1>2, <1>13, <1>18
  <2> QED
    BY <1>13, <2>1, <2>2 DEF Reading
<1>20. top \in 0 .. n
  <2>1. CASE first = {}
    BY <1>2, <1>6, <2>1
  <2>2. CASE first # {}
    <3>1. top \in first /\ first \subseteq 1 .. n
      BY <1>3, <1>7, <2>2
    <3> HIDE DEF n
    <3> QED
      BY <3>1
  <2> QED
    BY <2>1, <2>2
<1>21. first \subseteq 1 .. top
  BY <1>2, <1>3, <1>6, <1>7, <1>20
<1>22. \A u \in first : scan.last < u
  BY <1>3, <1>12, <1>18
<1>23. \A u \in 1 .. top : u \in first \/ DealtWith(u)'
  <2> SUFFICES ASSUME NEW u \in 1 .. top, u \notin first PROVE DealtWith(u)'
    OBVIOUS
  <2>1. u \in 1 .. n /\ first # {}
    BY <1>2, <1>6, <1>20
  <2>2. u \notin found
    <3>1. top \in first /\ u <= top /\ u # top
      BY <1>7, <2>1
    <3> QED
      BY <1>3, <1>9, <1>20, <3>1
  <2> QED
    BY <1>11, <1>17, <2>1, <2>2
<1>24. ~cut \/ top = 0 =>
          \A u \in 1 .. (scan.uidnext - 1) : u <= top \/ DealtWith(u)'
  <2> SUFFICES ASSUME ~cut \/ top = 0, NEW u \in 1 .. (scan.uidnext - 1), ~ (u <= top)
               PROVE  DealtWith(u)'
    OBVIOUS
  <2>1. u \in 1 .. n
    BY <1>2, <1>18
  <2>2. first = found
    <3>1. CASE ~cut
      BY <3>1, <1>8
    <3>2. CASE top = 0
      <4>1. first = {}
        BY <1>2, <1>3, <1>7, <3>2
      <4> QED
        BY <1>10, <4>1
    <3> QED
      BY <3>1, <3>2
  <2>3. u \notin found
    BY <1>6, <1>7, <2>2
  <2> QED
    BY <1>11, <1>17, <2>1, <2>3
<1>25. Searched'
  <2>1. scan'.top <= Len(folder'.at)
    BY <1>1, <1>2, <1>13, <1>20
  <2>2. scan'.queue \subseteq 1 .. scan'.top /\ \A u \in scan'.queue : scan'.last < u
    BY <1>13, <1>21, <1>22
  <2>3. \A u \in 1 .. scan'.top : u \in scan'.queue \/ DealtWith(u)'
    BY <1>13, <1>23
  <2>4. ~scan'.truncated \/ scan'.top = 0 =>
            \A u \in 1 .. (scan'.uidnext - 1) : u <= scan'.top \/ DealtWith(u)'
    BY <1>13, <1>24
  <2> QED
    BY <1>13, <2>1, <2>2, <2>3, <2>4 DEF Searched, InHand
<1>26. Handled'
  BY <1>13 DEF Handled, InHand
<1> QED
  BY <1>15, <1>16, <1>19, <1>25, <1>26 DEF ScanSafe

LEMMA EndOfFolderSafe ==
    ASSUME TypeOK, ScanSafe, EndOfFolder PROVE ScanSafe'
<1> DEFINE done == ~stopping
<1>1. /\ ledger' = ledger /\ folder' = folder /\ cursor' = cursor /\ scan.pc = "next"
      /\ done => scan.queue = {}
  BY DEF EndOfFolder, Mailbox, store
<1>2. done \in BOOLEAN
  OBVIOUS
<1>3. Leave(FALSE, done)
  BY DEF EndOfFolder
<1> HIDE DEF done
<1>4. /\ SameScan /\ scan'.pc = "cursor" /\ scan'.last = scan.last
      /\ scan'.queue = {} /\ scan'.complete = done
  BY <1>2, <1>3, LeaveFields
<1>5. GoodLedger(ledger') /\ Grows(ledger, ledger')
  BY <1>1, LedgerIsGood, GrowsItself DEF ScanSafe
<1>6. ClaimsOK'
  BY <1>1, <1>4, <1>5, ClaimsClear, NothingHeld DEF ScanSafe
<1>7. CursorOK' /\ PassedIsDecided'
  BY <1>1, <1>5, CursorStays DEF ScanSafe
<1>8. Reading' /\ Searched' /\ Handled'
  BY <1>1, <1>4, <1>5, StopReading DEF ScanSafe
<1> QED
  BY <1>6, <1>7, <1>8 DEF ScanSafe

LEMMA DisconnectFields ==
    ASSUME TypeOK, Disconnect
    PROVE  /\ SameScan /\ scan'.pc = "cursor" /\ scan'.last = scan.last
           /\ scan'.queue = {} /\ scan'.complete = FALSE /\ scan' \in Scan
           /\ scan'.copy \in {scan.copy, NoCopy}
<1>1. CASE scan.reconnected
  <2>1. Leave(FALSE, FALSE)
    BY <1>1 DEF Disconnect
  <2> QED
    BY <2>1, LeaveFields
<1>2. CASE ~scan.reconnected
  <2>1. scan \in Scan
    BY ScanFields
  <2>2. scan' = [scan EXCEPT !.pc = "cursor", !.again = TRUE, !.complete = FALSE,
                             !.reconnected = TRUE, !.queue = {}]
    BY <1>2 DEF Disconnect
  <2>3. scan' \in Scan
    BY <2>1, <2>2 DEF Scan, ScanPc
  <2>4. SameScan
    BY <2>1, <2>2 DEF Scan, SameScan
  <2> QED
    BY <2>1, <2>2, <2>3, <2>4 DEF Scan
<1> QED
  BY <1>1, <1>2

LEMMA DisconnectSafe ==
    ASSUME TypeOK, ScanSafe, Disconnect PROVE ScanSafe'
<1>1. /\ ledger' = ledger /\ folder' = folder /\ cursor' = cursor
      /\ scan.pc \in {"search", "next"}
  BY DEF Disconnect, Mailbox, store
<1>2. /\ SameScan /\ scan'.pc = "cursor" /\ scan'.last = scan.last
      /\ scan'.queue = {} /\ scan'.complete = FALSE
  BY DisconnectFields
<1>3. GoodLedger(ledger') /\ Grows(ledger, ledger')
  BY <1>1, LedgerIsGood, GrowsItself DEF ScanSafe
<1>4. ClaimsOK'
  BY <1>1, <1>2, <1>3, ClaimsClear, NothingHeld DEF ScanSafe
<1>5. CursorOK' /\ PassedIsDecided'
  BY <1>1, <1>3, CursorStays DEF ScanSafe
<1>6. Reading' /\ Searched' /\ Handled'
  BY <1>1, <1>2, <1>3, StopReading DEF ScanSafe
<1> QED
  BY <1>4, <1>5, <1>6 DEF ScanSafe

\* The cursor ends where everything up to it was dealt with.
LEMMA EndsAtSafe ==
    ASSUME TypeOK, Reading, Searched, scan.pc = "cursor"
    PROVE  /\ EndsAt \in 0 .. Len(folder.at)
           /\ \A u \in 1 .. EndsAt : DealtWith(u)
<1> DEFINE n == Len(folder.at)
           read == MaxOf({scan.last, scan.floor, scan.top})
<1>1. /\ scan.last \in Nat /\ scan.top \in Nat /\ scan.uidnext \in Nat /\ scan.floor \in Nat
      /\ n \in Nat
  BY ScanFields
<1>2. /\ scan.floor <= scan.last /\ scan.last <= n
      /\ scan.uidnext \in 1 .. n + 1
      /\ \A u \in 1 .. scan.last : DealtWith(u)
  BY DEF Reading
<1>3. CASE ~scan.complete
  <2>1. EndsAt = MaxOf({scan.last, scan.floor})
    BY <1>3 DEF EndsAt
  <2>2. {scan.last, scan.floor} \in SUBSET (0 .. n) /\ {scan.last, scan.floor} # {}
    BY <1>1, <1>2
  <2>3. EndsAt \in {scan.last, scan.floor}
    BY <1>1, <2>1, <2>2, MaxOfSet
  <2> QED
    BY <1>1, <1>2, <2>3
<1>4. CASE scan.complete
  <2> DEFINE S == {scan.last, scan.floor, scan.top}
  <2>1. /\ scan.top <= n
        /\ \A u \in 1 .. scan.top : DealtWith(u)
        /\ ~scan.truncated \/ scan.top = 0 =>
              \A u \in 1 .. (scan.uidnext - 1) : u <= scan.top \/ DealtWith(u)
    BY <1>4 DEF Searched, InHand
  <2>2. S \in SUBSET (0 .. n) /\ S # {}
    BY <1>1, <1>2, <2>1
  <2>3. read \in S /\ \A x \in S : x <= read
    <3> HIDE DEF n
    <3> QED
      BY <1>1, <2>2, MaxOfSet
  <2>4. read \in 0 .. n /\ scan.last <= read /\ scan.top <= read
    BY <2>2, <2>3
  <2>5. \A u \in 1 .. read : DealtWith(u)
    BY <1>1, <1>2, <2>1, <2>3
  <2>6. CASE (scan.window /\ ~scan.truncated) \/ (~scan.window /\ scan.top = 0)
    <3> DEFINE T == {read, scan.uidnext - 1}
    <3>1. EndsAt = MaxOf(T)
      BY <1>4, <2>6 DEF EndsAt
    <3>2. T \in SUBSET (0 .. n) /\ T # {}
      BY <1>1, <1>2, <2>4
    <3>3. EndsAt \in T
      <4> HIDE DEF n, T
      <4> QED
        BY <1>1, <3>1, <3>2, MaxOfSet
    <3>4. \A u \in 1 .. (scan.uidnext - 1) : u <= scan.top \/ DealtWith(u)
      BY <2>1, <2>6
    <3> HIDE DEF read
    <3>5. \A u \in 1 .. (scan.uidnext - 1) : DealtWith(u)
      BY <1>1, <1>2, <2>1, <3>4
    <3> QED
      BY <1>1, <1>2, <2>4, <2>5, <3>3, <3>5
  <2>7. CASE ~ ((scan.window /\ ~scan.truncated) \/ (~scan.window /\ scan.top = 0))
    <3>1. EndsAt = read
      BY <1>4, <2>7 DEF EndsAt
    <3> QED
      BY <2>4, <2>5, <3>1
  <2> QED
    BY <2>6, <2>7
<1> QED
  BY <1>3, <1>4

LEMMA SaveCursorSafe ==
    ASSUME TypeOK, ScanSafe, SaveCursor PROVE ScanSafe'
<1>1. ledger' = ledger /\ folder' = folder /\ scan.pc = "cursor"
  BY DEF SaveCursor, Mailbox, store
<1>2. scan'.pc \in {"idle", "select"}
  BY DEF SaveCursor, Idle
<1>3. GoodLedger(ledger') /\ Grows(ledger, ledger')
  BY <1>1, LedgerIsGood, GrowsItself DEF ScanSafe
<1>4. ClaimsOK'
  BY <1>1, <1>2, <1>3, ClaimsClear, NothingHeld DEF ScanSafe
<1>5. CursorOK' /\ PassedIsDecided'
  <2>1. CASE cursor' = cursor
    BY <1>1, <1>3, <2>1, CursorStays DEF ScanSafe
  <2>2. CASE cursor' # cursor
    <3>1. cursor'.validity = scan.validity /\ cursor'.last = EndsAt
      BY <2>2 DEF SaveCursor
    <3>2. scan.validity = folder.validity
      BY <1>1 DEF ScanSafe, Reading
    <3>3. EndsAt \in 0 .. Len(folder.at) /\ \A u \in 1 .. EndsAt : DealtWith(u)
      BY <1>1, EndsAtSafe DEF ScanSafe
    <3>4. folder.validity \in Nat /\ Len(folder.at) \in Nat /\ DOMAIN folder.at = 1 .. Len(folder.at)
      BY DEF TypeOK
    <3>5. CursorOK'
      BY <1>1, <3>1, <3>2, <3>3, <3>4 DEF CursorOK
    <3>6. PassedIsDecided'
      <4>1. \A u \in DOMAIN folder.at : u <= cursor'.last => Clear(ledger, folder.at[u])
        BY <3>1, <3>3, <3>4, DealtWithBy
      <4> QED
        BY <1>1, <4>1 DEF PassedIsDecided, Clear, SettledFor, Decided
    <3> QED
      BY <3>5, <3>6
  <2> QED
    BY <2>1, <2>2
<1>6. Reading' /\ Searched' /\ Handled'
  BY <1>2 DEF Reading, Searched, Handled, InHand
<1> QED
  BY <1>4, <1>5, <1>6 DEF ScanSafe

-----------------------------------------------------------------------------
(* The mailbox.                                                              *)

LEMMA Untouched ==
    ASSUME Elsewhere
    PROVE  ledger' = ledger /\ cursor' = cursor /\ scan' = scan
BY DEF Elsewhere

\* Nothing that was there is changed but by being expunged, and more may follow.
LEMMA FolderSafe ==
    ASSUME TypeOK, ScanSafe, Elsewhere,
           folder' \in [validity : Nat, at : Seq(Copy \cup {NoCopy})],
           folder'.validity = folder.validity, Len(folder.at) <= Len(folder'.at),
           \A u \in 1 .. Len(folder.at) : folder'.at[u] \in {folder.at[u], NoCopy},
           \A u \in 1 .. Len(folder'.at) : u <= Len(folder.at) \/ scan.pc \in {"idle", "search", "next"}
    PROVE  ScanSafe'
<1>1. ledger' = ledger /\ cursor' = cursor /\ scan' = scan
  BY Untouched
<1>2. /\ scan.last \in Nat /\ scan.top \in Nat /\ scan.uidnext \in Nat /\ scan.floor \in Nat
      /\ Len(folder.at) \in Nat /\ Len(folder'.at) \in Nat
      /\ DOMAIN folder.at = 1 .. Len(folder.at) /\ DOMAIN folder'.at = 1 .. Len(folder'.at)
  <2>1. folder \in [validity : Nat, at : Seq(Copy \cup {NoCopy})]
    BY ScanFields
  <2> QED
    BY <2>1, ScanFields
<1>3. \A u \in 1 .. Len(folder.at) : DealtWith(u) => DealtWith(u)'
  BY <1>1, DealtWithBy DEF Clear
<1>4. ClaimsOK'
  BY <1>1 DEF ScanSafe, ClaimsOK
<1>5. CursorOK'
  BY <1>1, <1>2 DEF ScanSafe, CursorOK, TypeOK
<1>6. PassedIsDecided'
  <2>1. \A u \in DOMAIN folder.at : folder'.at[u] \in {folder.at[u], NoCopy}
    BY <1>2
  <2>2. cursor.validity = folder.validity =>
           \A u \in DOMAIN folder'.at : u <= cursor.last => u \in DOMAIN folder.at
    <3>1. cursor.last \in Nat /\ cursor.validity \in Nat
      BY DEF TypeOK
    <3> QED
      BY <1>2, <3>1 DEF ScanSafe, CursorOK
  <2>3. \A c : Decided(c) <=> Decided(c)'
    BY <1>1 DEF Decided
  <2>4. SUFFICES ASSUME cursor.validity = folder.validity, NEW u \in DOMAIN folder'.at,
                        u <= cursor.last, NEW c, c = folder'.at[u],
                        c \notin Old \cup {NoCopy}
                 PROVE  Decided(c)'
    BY <1>1 DEF PassedIsDecided
  <2>5. u \in DOMAIN folder.at /\ folder.at[u] = c
    BY <2>1, <2>2, <2>4
  <2> QED
    BY <2>3, <2>4, <2>5 DEF ScanSafe, PassedIsDecided
<1>7. Reading'
  <2> SUFFICES ASSUME scan.pc \notin {"idle", "select"} PROVE Reading'
    BY <1>1 DEF Reading
  <2>1. /\ scan.validity = folder.validity
        /\ scan.floor <= scan.last /\ scan.last <= Len(folder.at)
        /\ scan.uidnext \in 1 .. Len(folder.at) + 1
        /\ scan.pc = "search" => scan.last = scan.floor
        /\ \A u \in 1 .. scan.last : DealtWith(u)
    BY DEF ScanSafe, Reading
  <2>2. scan.last <= Len(folder'.at) /\ scan.uidnext \in 1 .. Len(folder'.at) + 1
    BY <1>2, <2>1
  <2>3. \A u \in 1 .. scan.last : DealtWith(u)'
    BY <1>2, <1>3, <2>1
  <2> QED
    BY <1>1, <2>1, <2>2, <2>3 DEF Reading
<1>8. Searched'
  <2> SUFFICES ASSUME scan.pc \in {"next"} \cup InHand \/ (scan.pc = "cursor" /\ scan.complete)
               PROVE  Searched'
    BY <1>1 DEF Searched
  <2>1. /\ scan.top <= Len(folder.at)
        /\ scan.queue \subseteq 1 .. scan.top
        /\ \A u \in scan.queue : scan.last < u
        /\ \A u \in 1 .. scan.top :
              u \in scan.queue \/ (scan.pc \in InHand /\ u = scan.uid) \/ DealtWith(u)
        /\ ~scan.truncated \/ scan.top = 0 =>
              \A u \in 1 .. (scan.uidnext - 1) : u <= scan.top \/ DealtWith(u)
        /\ scan.pc = "cursor" => scan.queue = {}
    BY DEF ScanSafe, Searched
  <2>2. scan.uidnext \in 1 .. Len(folder.at) + 1
    BY DEF ScanSafe, Reading, InHand
  <2>3. scan.top <= Len(folder'.at)
    BY <1>2, <2>1
  <2>4. \A u \in 1 .. scan.top :
          u \in scan.queue \/ (scan.pc \in InHand /\ u = scan.uid) \/ DealtWith(u)'
    BY <1>2, <1>3, <2>1
  <2>5. ~scan.truncated \/ scan.top = 0 =>
          \A u \in 1 .. (scan.uidnext - 1) : u <= scan.top \/ DealtWith(u)'
    BY <1>2, <1>3, <2>1, <2>2
  <2> QED
    BY <1>1, <2>1, <2>3, <2>4, <2>5 DEF Searched
<1>9. Handled'
  <2> SUFFICES ASSUME scan.pc \in InHand PROVE Handled'
    BY <1>1 DEF Handled
  <2>1. /\ scan.uid \in 1 .. scan.top /\ scan.last < scan.uid
        /\ \A u \in scan.queue : scan.uid < u
        /\ folder.at[scan.uid] \in {scan.copy, NoCopy} /\ scan.top <= Len(folder.at)
    BY DEF ScanSafe, Handled, Searched
  <2>2. folder'.at[scan.uid] \in {scan.copy, NoCopy}
    BY <1>2, <2>1
  <2> QED
    BY <1>1, <2>1, <2>2 DEF Handled
<1> QED
  BY <1>4, <1>5, <1>6, <1>7, <1>8, <1>9 DEF ScanSafe

LEMMA DeliverSafe ==
    ASSUME TypeOK, ScanSafe, NEW c \in Copy, Deliver(c)
    PROVE  ScanSafe' /\ folder' \in [validity : Nat, at : Seq(Copy \cup {NoCopy})]
<1>1. folder \in [validity : Nat, at : Seq(Copy \cup {NoCopy})]
  BY ScanFields
<1> DEFINE at == Append(folder.at, c)
<1>2. /\ folder'.validity = folder.validity /\ folder'.at = at
      /\ folder' \in [validity : Nat, at : Seq(Copy \cup {NoCopy})]
  <2>1. folder' = [folder EXCEPT !.at = at]
    BY DEF Deliver
  <2>2. at \in Seq(Copy \cup {NoCopy})
    BY <1>1
  <2> HIDE DEF at
  <2> QED
    BY <1>1, <2>1, <2>2
<1>3. /\ Len(folder.at) <= Len(folder'.at)
      /\ \A u \in 1 .. Len(folder.at) : folder'.at[u] \in {folder.at[u], NoCopy}
  BY <1>1, <1>2
<1> QED
  BY <1>2, <1>3, FolderSafe DEF Deliver

LEMMA ExpungeSafe ==
    ASSUME TypeOK, ScanSafe, NEW u \in DOMAIN folder.at, Expunge(u)
    PROVE  ScanSafe' /\ folder' \in [validity : Nat, at : Seq(Copy \cup {NoCopy})]
<1>1. folder \in [validity : Nat, at : Seq(Copy \cup {NoCopy})]
  BY ScanFields
<1> DEFINE at == [folder.at EXCEPT ![u] = NoCopy]
<1>2. folder' = [folder EXCEPT !.at = at]
  BY DEF Expunge
<1>3. /\ at \in Seq(Copy \cup {NoCopy}) /\ Len(at) = Len(folder.at)
      /\ \A v \in 1 .. Len(folder.at) : at[v] \in {folder.at[v], NoCopy}
  BY <1>1
<1> HIDE DEF at
<1>4. /\ folder'.validity = folder.validity /\ folder'.at = at
      /\ folder' \in [validity : Nat, at : Seq(Copy \cup {NoCopy})]
  BY <1>1, <1>2, <1>3
<1>5. Len(folder.at) \in Nat
  BY <1>1
<1>6. \A v \in 1 .. Len(folder'.at) : v <= Len(folder.at)
  BY <1>3, <1>4, <1>5
<1>7. Len(folder.at) <= Len(folder'.at)
  BY <1>3, <1>4, <1>5
<1>8. Elsewhere
  BY DEF Expunge
<1> QED
  BY <1>3, <1>4, <1>6, <1>7, <1>8, FolderSafe

LEMMA RenumberSafe ==
    ASSUME TypeOK, ScanSafe, Renumber
    PROVE  ScanSafe' /\ folder' \in [validity : Nat, at : Seq(Copy \cup {NoCopy})]
<1>1. ledger' = ledger /\ cursor' = cursor /\ scan' = scan /\ scan.pc = "idle"
  BY Untouched DEF Renumber
<1>2. folder \in [validity : Nat, at : Seq(Copy \cup {NoCopy})]
  BY ScanFields
<1> DEFINE left == {u \in DOMAIN folder.at : folder.at[u] # NoCopy}
           n == Cardinality(left)
<1>3. n \in Nat
  <2>1. IsFiniteSet(1 .. Len(folder.at))
    BY <1>2, FS_Interval
  <2>2. left \subseteq 1 .. Len(folder.at)
    BY <1>2
  <2> HIDE DEF left
  <2> QED
    BY <2>1, <2>2, FS_Subset, FS_CardinalityType
<1>4. PICK s \in [1 .. n -> left] :
         folder' = [validity |-> folder.validity + 1, at |-> [i \in DOMAIN s |-> folder.at[s[i]]]]
  BY DEF Renumber
<1>5. \A i \in 1 .. n : folder.at[s[i]] \in Copy \cup {NoCopy}
  BY <1>2, <1>4
<1>6. [i \in DOMAIN s |-> folder.at[s[i]]] \in Seq(Copy \cup {NoCopy})
  <2> HIDE DEF n, left
  <2> QED
    BY <1>3, <1>4, <1>5
<1>7. /\ folder'.validity = folder.validity + 1
      /\ folder' \in [validity : Nat, at : Seq(Copy \cup {NoCopy})]
  <2> HIDE DEF n, left
  <2> QED
    BY <1>2, <1>4, <1>6
<1>8. ClaimsOK'
  BY <1>1 DEF ScanSafe, ClaimsOK
<1>9. cursor'.validity \in Nat /\ cursor'.validity < folder'.validity
  BY <1>1, <1>2, <1>7 DEF ScanSafe, CursorOK, TypeOK
<1>10. CursorOK' /\ PassedIsDecided'
  BY <1>2, <1>7, <1>9 DEF CursorOK, PassedIsDecided
<1>11. Reading' /\ Searched' /\ Handled'
  BY <1>1 DEF Reading, Searched, Handled, InHand
<1> QED
  BY <1>7, <1>8, <1>10, <1>11 DEF ScanSafe

-----------------------------------------------------------------------------
(* One message, from the fetch to its row in the ledger.                      *)

Kept == {"staged", "attached"}

\* The messages put before the owner are those that were.
SameStaged(l, m) ==
    \A k \in Key : l[k].outcome = m[k].outcome
                   \/ (l[k].outcome \notin Kept /\ m[k].outcome \notin Kept)

LEMMA FetchFields ==
    ASSUME TypeOK, NEW q \in SUBSET Nat, NEW u \in Nat,
           scan' = [scan EXCEPT !.queue = q, !.last = u]
    PROVE  /\ SameScan /\ scan'.pc = scan.pc /\ scan'.last = u /\ scan'.queue = q
           /\ scan'.copy = scan.copy /\ scan' \in Scan
<1>1. scan \in Scan
  BY ScanFields
<1>2. scan' \in Scan
  BY <1>1 DEF Scan
<1>3. SameScan
  BY <1>1 DEF Scan, SameScan
<1> QED
  BY <1>1, <1>2, <1>3 DEF Scan

\* A message that needs nothing, or nothing more, is passed in the loop.
LEMMA SkipSafe ==
    ASSUME TypeOK, ScanSafe, scan.pc = "next", UNCHANGED <<folder, cursor>>,
           NEW u \in scan.queue, \A v \in scan.queue : u <= v,
           NEW x \in {scan.last, u}, scan' \in Scan,
           SameScan, scan'.pc = scan.pc, scan'.last = x, scan'.queue = scan.queue \ {u},
           scan'.copy = scan.copy,
           GoodLedger(ledger'), Grows(ledger, ledger'), \A k \in Key : ~Held(ledger', k),
           Clear(ledger', folder.at[u])
    PROVE  ScanSafe' /\ ScanTypes'
<1> USE DEF ScanSafe
<1>1. /\ scan.last \in Nat /\ scan.top \in Nat /\ Len(folder.at) \in Nat
      /\ scan.queue \in SUBSET Nat
  BY ScanFields
<1>2. /\ scan.top <= Len(folder.at) /\ scan.queue \subseteq 1 .. scan.top
      /\ \A v \in scan.queue : scan.last < v
      /\ \A v \in 1 .. scan.top : v \in scan.queue \/ DealtWith(v)
  BY DEF Searched, InHand
<1>3. DealtWith(u)'
  BY DealtWithBy
<1>4. x \in Nat /\ scan.last <= x /\ x <= Len(folder.at) /\ x <= u
  <2>1. u \in Nat /\ scan.last < u /\ u <= scan.top
    BY <1>1, <1>2
  <2>2. CASE x = u
    BY <1>1, <1>2, <2>1, <2>2
  <2>3. CASE x = scan.last
    BY <1>1, <1>2, <2>1, <2>3
  <2> QED
    BY <2>2, <2>3
<1>5. \A v \in scan'.queue : scan'.last < v
  <2> SUFFICES ASSUME NEW v \in scan.queue, v # u PROVE x < v
    OBVIOUS
  <2>1. v \in Nat /\ u \in Nat /\ u <= v /\ scan.last < v
    BY <1>1, <1>2
  <2> QED
    BY <1>1, <1>4, <2>1
<1>6. \A v \in 1 .. scan'.last : scan.last < v => DealtWith(v)'
  <2> SUFFICES ASSUME NEW v \in 1 .. x, scan.last < v PROVE DealtWith(v)'
    OBVIOUS
  <2>1. CASE v = u
    BY <1>3, <2>1
  <2>2. CASE v # u
    <3>1. v < u /\ v \in 1 .. scan.top /\ v \in 1 .. Len(folder.at)
      BY <1>1, <1>2, <1>4, <2>2
    <3>2. v \notin scan.queue
      BY <1>1, <3>1
    <3> QED
      BY <1>2, <3>1, <3>2, DealtWithStays
  <2> QED
    BY <2>1, <2>2
<1>7. \A v \in 1 .. scan.top : v \in scan'.queue \/ DealtWith(v) \/ DealtWith(v)'
  BY <1>2, <1>3
<1>8. scan'.queue \subseteq scan.queue
  OBVIOUS
<1>9. Reading' /\ Searched' /\ Handled'
  BY <1>4, <1>5, <1>6, <1>7, <1>8, NextUp
<1>10. ClaimsOK'
  BY ClaimsClear
<1>11. CursorOK' /\ PassedIsDecided'
  BY CursorStays
<1>12. ScanTypes'
  BY NewTypes, TypesOfScan DEF ScanTypes, InHand
<1> QED
  BY <1>9, <1>10, <1>11, <1>12

\* The next message is in hand, under the claim of its bytes.
LEMMA TakeSafe ==
    ASSUME TypeOK, ScanSafe, scan.pc = "next", UNCHANGED <<folder, cursor>>,
           NEW u \in scan.queue, \A v \in scan.queue : u <= v,
           NEW c \in Copy, c = folder.at[u], Claimable(ledger, RawKey(c)),
           ledger' = Claim(ledger, RawKey(c)),
           scan' = [scan EXCEPT !.pc = "parse", !.queue = scan.queue \ {u}, !.uid = u,
                                !.copy = c]
    PROVE  ScanSafe' /\ ScanTypes'
<1> DEFINE q == scan.queue \ {u}
           k == RawKey(c)
<1>1. /\ scan.last \in Nat /\ scan.top \in Nat /\ Len(folder.at) \in Nat /\ scan \in Scan
      /\ scan.queue \in SUBSET Nat /\ scan.floor \in Nat /\ scan.uidnext \in Nat
  BY ScanFields
<1>2. u \in Nat /\ q \in SUBSET Nat
  BY <1>1
<1>3. scan' = [scan EXCEPT !.pc = "parse", !.queue = q, !.uid = u, !.copy = c]
  OBVIOUS
<1> HIDE DEF q
<1>4. scan' \in Scan
  BY <1>1, <1>2, <1>3, ZenonT(40) DEF Scan, ScanPc
<1>5. SameScan
  BY <1>1, <1>2, <1>3 DEF Scan, SameScan
<1>6. /\ scan'.pc = "parse" /\ scan'.last = scan.last /\ scan'.queue = q
      /\ scan'.uid = u /\ scan'.copy = c
  BY <1>1, <1>2, <1>3 DEF Scan
<1> USE DEF ScanSafe
<1>7. /\ GoodLedger(ledger') /\ Grows(ledger, ledger') /\ Held(ledger', k)
      /\ \A j \in Key \ {k} : ledger'[j] = ledger[j]
  BY KeyType, LedgerIsGood, ClaimRow
<1>8. \A j \in Key \ {k} : ~Held(ledger', j)
  BY <1>7, NothingHeld DEF Held
<1>9. ClaimsOK'
  BY <1>6, <1>7, <1>8, KeyType, ClaimsOne
<1>10. CursorOK' /\ PassedIsDecided'
  BY <1>7, CursorStays
<1>11. ScanTypes'
  BY <1>4, <1>6, <1>7, NewTypes, CopyAssumption DEF InHand
<1>12. /\ scan.top <= Len(folder.at) /\ scan.queue \subseteq 1 .. scan.top
       /\ \A v \in scan.queue : scan.last < v
       /\ \A v \in 1 .. scan.top : v \in scan.queue \/ DealtWith(v)
       /\ ~scan.truncated \/ scan.top = 0 =>
             \A v \in 1 .. (scan.uidnext - 1) : v <= scan.top \/ DealtWith(v)
  BY DEF Searched, InHand
<1>13. /\ scan.validity = folder.validity
       /\ scan.floor <= scan.last /\ scan.last <= Len(folder.at)
       /\ scan.uidnext \in 1 .. Len(folder.at) + 1
       /\ \A v \in 1 .. scan.last : DealtWith(v)
  BY DEF Reading
<1>14. \A v \in 1 .. Len(folder.at) : DealtWith(v) => DealtWith(v)'
  BY <1>7, DealtWithStays
<1>15. Reading'
  <2>1. \A v \in 1 .. scan'.last : DealtWith(v)'
    BY <1>1, <1>6, <1>13, <1>14
  <2> QED
    BY <1>5, <1>6, <1>13, <2>1 DEF Reading, SameScan
<1>16. Searched'
  <2>1. \A v \in 1 .. scan.top : v \in q \/ v = u \/ DealtWith(v)'
    BY <1>1, <1>12, <1>14 DEF q
  <2>2. ~scan.truncated \/ scan.top = 0 =>
             \A v \in 1 .. (scan.uidnext - 1) : v <= scan.top \/ DealtWith(v)'
    BY <1>1, <1>12, <1>13, <1>14
  <2>3. q \subseteq 1 .. scan.top /\ \A v \in q : scan.last < v
    BY <1>12 DEF q
  <2> QED
    BY <1>5, <1>6, <1>12, <2>1, <2>2, <2>3 DEF Searched, SameScan, InHand
<1>17. Handled'
  <2>1. u \in 1 .. scan.top /\ scan.last < u
    BY <1>12
  <2>2. \A v \in q : u < v
    <3> SUFFICES ASSUME NEW v \in scan.queue, v # u PROVE u < v
      BY DEF q
    <3>1. v \in Nat /\ u <= v
      BY <1>1
    <3> QED
      BY <1>2, <3>1
  <2> QED
    BY <1>5, <1>6, <2>1, <2>2 DEF Handled, SameScan
<1> QED
  BY <1>9, <1>10, <1>11, <1>15, <1>16, <1>17

LEMMA SameStagedItself == \A l : SameStaged(l, l)
BY DEF SameStaged

LEMMA ClaimKeepsStaged ==
    ASSUME NEW l, GoodLedger(l), NEW k \in Key, Claimable(l, k)
    PROVE  SameStaged(l, Claim(l, k))
BY ClaimRow DEF SameStaged, Held, Settled, Kept, Outcome, Unsettled

LEMMA ReleaseKeepsStaged ==
    ASSUME NEW l, GoodLedger(l), NEW k \in Key, Held(l, k)
    PROVE  SameStaged(l, Release(l, k))
BY ReleaseRow DEF SameStaged, Settled, Kept, Outcome, NoRow

LEMMA SettleKeepsStaged ==
    ASSUME NEW l, GoodLedger(l), NEW k \in Key, Held(l, k), NEW o \in Outcome, o \notin Kept
    PROVE  SameStaged(l, Settle(l, k, o))
BY SettleRow DEF SameStaged, Settled, Kept, Outcome

LEMMA RecoverKeepsStaged ==
    ASSUME NEW l, GoodLedger(l) PROVE SameStaged(l, RecoverUnsettled(l))
BY RecoverRows DEF SameStaged, Held, Kept, Outcome, Unsettled

LEMMA SameStagedTwice ==
    ASSUME NEW l, NEW m, NEW n, SameStaged(l, m), SameStaged(m, n)
    PROVE  SameStaged(l, n)
BY DEF SameStaged

LEMMA GrowsTwice ==
    ASSUME NEW l, NEW m, NEW n, Grows(l, m), Grows(m, n) PROVE Grows(l, n)
BY DEF Grows, Settled

LEMMA FetchSafe ==
    ASSUME TypeOK, ScanSafe, Fetch
    PROVE  ScanSafe' /\ ScanTypes' /\ SameStaged(ledger, ledger')
<1>1. PICK u \in scan.queue :
         LET c == folder.at[u]
             k == RawKey(c)
             rest == scan.queue \ {u}
         IN  /\ \A v \in scan.queue : u <= v
             /\ \/ /\ c = NoCopy
                   /\ scan' = [scan EXCEPT !.queue = rest]
                   /\ UNCHANGED ledger
                \/ /\ c # NoCopy /\ nature[c] = "oversize"
                   /\ SkipOversize(c, u)
                \/ /\ c # NoCopy /\ nature[c] # "oversize" /\ Claimable(ledger, k)
                   /\ ledger' = Claim(ledger, k)
                   /\ scan' = [scan EXCEPT !.pc = "parse", !.queue = rest, !.uid = u,
                                           !.copy = c]
                \/ /\ c # NoCopy /\ nature[c] # "oversize" /\ ~Claimable(ledger, k)
                   /\ UNCHANGED ledger
                   /\ IF Settled(ledger, k)
                      THEN scan' = [scan EXCEPT !.queue = rest, !.last = u]
                      ELSE Retry
  BY Zenon DEF Fetch
<1>2. scan.pc = "next" /\ UNCHANGED <<folder, cursor>>
  BY DEF Fetch, Mailbox
<1>3. \A v \in scan.queue : u <= v
  BY <1>1
<1>4. /\ scan.queue \in SUBSET Nat /\ scan \in Scan /\ scan.last \in Nat
      /\ folder \in [validity : Nat, at : Seq(Copy \cup {NoCopy})] /\ u \in Nat
  BY ScanFields
<1>5. u \in DOMAIN folder.at
  <2>1. scan.queue \subseteq 1 .. scan.top /\ scan.top <= Len(folder.at)
    BY <1>2 DEF ScanSafe, Searched, InHand
  <2> QED
    BY <1>4, <2>1, ScanFields
<1> DEFINE c == folder.at[u]
           k == RawKey(c)
           rest == scan.queue \ {u}
<1>6. c \in Copy \cup {NoCopy} /\ rest \in SUBSET Nat
  BY <1>4, <1>5
<1>7. GoodLedger(ledger) /\ \A j \in Key : ~Held(ledger, j)
  BY <1>2, LedgerIsGood, NothingHeld DEF ScanSafe
<1>8. CASE c = NoCopy /\ scan' = [scan EXCEPT !.queue = rest] /\ UNCHANGED ledger
  <2>1. scan' = [scan EXCEPT !.queue = rest, !.last = scan.last]
    BY <1>4, <1>8 DEF Scan
  <2>2. /\ SameScan /\ scan'.pc = scan.pc /\ scan'.last = scan.last /\ scan'.queue = rest
        /\ scan'.copy = scan.copy /\ scan' \in Scan
    BY <1>4, <1>6, <2>1, FetchFields
  <2>3. Clear(ledger', c)
    BY <1>8 DEF Clear
  <2>4. GoodLedger(ledger') /\ Grows(ledger, ledger') /\ \A j \in Key : ~Held(ledger', j)
    BY <1>7, <1>8, GrowsItself
  <2>5. ScanSafe' /\ ScanTypes'
    BY <1>2, <1>3, <2>2, <2>3, <2>4, SkipSafe
  <2> QED
    BY <1>8, <2>5, SameStagedItself
<1>9. CASE c # NoCopy /\ SkipOversize(c, u)
  <2> DEFINE o == OversizeKey(c)
  <2>1. c \in Copy /\ o \in Key
    BY <1>6, <1>9, KeyType
  <2>2. /\ ledger' = IF Claimable(ledger, o) THEN Settle(Claim(ledger, o), o, "skipped") ELSE ledger
        /\ scan' = [scan EXCEPT !.queue = rest, !.last = u]
    BY <1>9 DEF SkipOversize
  <2>3. /\ SameScan /\ scan'.pc = scan.pc /\ scan'.last = u /\ scan'.queue = rest
        /\ scan'.copy = scan.copy /\ scan' \in Scan
    BY <1>4, <1>6, <2>2, FetchFields
  <2>4. /\ GoodLedger(ledger') /\ Grows(ledger, ledger') /\ Settled(ledger', o)
        /\ \A j \in Key : ~Held(ledger', j)
        /\ SameStaged(ledger, ledger')
    <3>1. CASE Claimable(ledger, o)
      <4> DEFINE m == Claim(ledger, o)
      <4>1. /\ GoodLedger(m) /\ Grows(ledger, m) /\ Held(m, o) /\ SameStaged(ledger, m)
            /\ \A j \in Key \ {o} : m[j] = ledger[j]
        BY <1>7, <2>1, <3>1, ClaimRow, ClaimKeepsStaged
      <4>2. "skipped" \in Outcome /\ "skipped" \notin Kept /\ ledger' = Settle(m, o, "skipped")
        BY <2>2, <3>1 DEF Outcome, Kept
      <4> HIDE DEF m
      <4>3. /\ GoodLedger(ledger') /\ Grows(m, ledger') /\ Settled(ledger', o)
            /\ ~Held(ledger', o) /\ SameStaged(m, ledger')
            /\ \A j \in Key \ {o} : ledger'[j] = m[j]
        BY <2>1, <4>1, <4>2, SettleRow, SettleKeepsStaged
      <4>4. \A j \in Key : ~Held(ledger', j)
        BY <1>7, <4>1, <4>3 DEF Held
      <4> QED
        BY <4>1, <4>3, <4>4, GrowsTwice, SameStagedTwice
    <3>2. CASE ~Claimable(ledger, o)
      <4>1. ledger' = ledger
        BY <2>2, <3>2
      <4>2. ledger[o] \in LedgerRow /\ ledger[o] # NoRow /\ ~ledger[o].released
        BY <1>7, <2>1, <3>2 DEF Claimable, GoodLedger
      <4>3. Settled(ledger, o)
        BY <1>7, <2>1, <4>2, RowType DEF Settled, Held
      <4> QED
        BY <1>7, <4>1, <4>3, GrowsItself, SameStagedItself
    <3> QED
      BY <3>1, <3>2
  <2>5. Clear(ledger', c)
    BY <2>4 DEF Clear, SettledFor
  <2>6. ScanSafe' /\ ScanTypes'
    BY <1>2, <1>3, <2>3, <2>4, <2>5, SkipSafe
  <2> QED
    BY <2>4, <2>6
<1>10. CASE /\ c # NoCopy /\ Claimable(ledger, k) /\ ledger' = Claim(ledger, k)
            /\ scan' = [scan EXCEPT !.pc = "parse", !.queue = rest, !.uid = u, !.copy = c]
  <2>1. c \in Copy
    BY <1>6, <1>10
  <2>2. ScanSafe' /\ ScanTypes'
    BY <1>2, <1>3, <1>10, <2>1, TakeSafe
  <2> QED
    BY <1>7, <1>10, <2>1, <2>2, KeyType, ClaimKeepsStaged
<1>11. CASE /\ c # NoCopy /\ UNCHANGED ledger /\ Settled(ledger, k)
            /\ scan' = [scan EXCEPT !.queue = rest, !.last = u]
  <2>1. /\ SameScan /\ scan'.pc = scan.pc /\ scan'.last = u /\ scan'.queue = rest
        /\ scan'.copy = scan.copy /\ scan' \in Scan
    BY <1>4, <1>6, <1>11, FetchFields
  <2>2. Clear(ledger', c)
    BY <1>11 DEF Clear, SettledFor
  <2>3. GoodLedger(ledger') /\ Grows(ledger, ledger') /\ \A j \in Key : ~Held(ledger', j)
    BY <1>7, <1>11, GrowsItself
  <2>4. ScanSafe' /\ ScanTypes'
    BY <1>2, <1>3, <2>1, <2>2, <2>3, SkipSafe
  <2> QED
    BY <1>11, <2>4, SameStagedItself
<1>12. CASE UNCHANGED ledger /\ Retry
  <2>1. GoodLedger(ledger') /\ Grows(ledger, ledger') /\ \A j \in Key : ~Held(ledger', j)
    BY <1>7, <1>12, GrowsItself
  <2>2. ScanSafe' /\ ScanTypes'
    BY <1>2, <1>12, <2>1, GivesUp
  <2> QED
    BY <1>12, <2>2, SameStagedItself
<1> QED
  BY <1>1, <1>8, <1>9, <1>10, <1>11, <1>12

\* A row is written under the claim of the message in hand.
LEMMA SettledHand ==
    ASSUME TypeOK, ScanSafe, NEW k \in {RawKey(scan.copy), OwnKey(scan.copy)},
           scan.pc \in {"parse", "stages", "write"}, Held(ledger, k), NEW o \in Outcome,
           ledger' = Settle(ledger, k, o)
    PROVE  /\ k \in Key /\ GoodLedger(ledger') /\ Grows(ledger, ledger')
           /\ Settled(ledger', k) /\ ledger'[k].outcome = o /\ ~Settled(ledger, k)
           /\ SettledFor(ledger', scan.copy)
           /\ \A j \in Key : ~Held(ledger', j)
           /\ \A j \in Key \ {k} : ledger'[j] = ledger[j]
           /\ o \notin Kept => SameStaged(ledger, ledger')
<1>1. k \in Key
  <2>1. scan.copy \in Copy
    BY ScanFields DEF TypeOK, InHand
  <2> QED
    BY <2>1, KeyType
<1>2. /\ GoodLedger(ledger') /\ Grows(ledger, ledger') /\ Settled(ledger', k)
      /\ ledger'[k].outcome = o /\ ~Settled(ledger, k) /\ ~Held(ledger', k)
      /\ \A j \in Key \ {k} : ledger'[j] = ledger[j]
  BY <1>1, LedgerIsGood, SettleRow DEF ScanSafe
<1>3. \A j \in Key : ~Held(ledger', j)
  BY <1>1, <1>2, HeldAlone DEF ScanSafe, Held
<1>4. o \notin Kept => SameStaged(ledger, ledger')
  BY <1>1, LedgerIsGood, SettleKeepsStaged DEF ScanSafe
<1> QED
  BY <1>1, <1>2, <1>3, <1>4 DEF SettledFor

LEMMA HandHeld ==
    ASSUME TypeOK, ScanSafe, scan.pc \in {"stages", "write"}
    PROVE  Held(ledger, OwnKey(scan.copy)) /\ scan.copy \in Copy /\ scan.pc \in InHand
<1>1. scan.copy \in Copy
  BY ScanFields DEF TypeOK, InHand
<1> QED
  BY <1>1 DEF ScanSafe, ClaimsOK, InHand

\* Only the step changes: the message stays in hand.
LEMMA PcFields ==
    ASSUME TypeOK, NEW pc \in ScanPc, NEW p \in Plan,
           \/ scan' = [scan EXCEPT !.pc = pc, !.plan = p]
           \/ scan' = [scan EXCEPT !.pc = pc] /\ p = scan.plan
    PROVE  /\ SameScan /\ scan'.pc = pc /\ scan'.plan = p
           /\ scan'.last = scan.last /\ scan'.queue = scan.queue
           /\ scan'.uid = scan.uid /\ scan'.copy = scan.copy /\ scan' \in Scan
<1>1. scan \in Scan
  BY ScanFields
<1>2. scan' \in Scan
  BY <1>1, ZenonT(40) DEF Scan
<1>3. SameScan
  BY <1>1 DEF Scan, SameScan
<1> QED
  BY <1>1, <1>2, <1>3 DEF Scan

LEMMA ParseSafe ==
    ASSUME TypeOK, ScanSafe, Parse
    PROVE  ScanSafe' /\ ScanTypes' /\ SameStaged(ledger, ledger')
<1> DEFINE c == scan.copy
           raw == RawKey(c)
           own == OwnKey(c)
           freed == Release(ledger, raw)
<1>1. scan.pc = "parse" /\ scan.pc \in InHand /\ UNCHANGED <<folder, cursor>>
  BY DEF Parse, Quiet, Mailbox, InHand
<1>2. c \in Copy /\ raw \in Key /\ own \in Key
  <2>1. c \in Copy
    BY <1>1, ScanFields DEF TypeOK
  <2> QED
    BY <2>1, KeyType
<1>3. GoodLedger(ledger) /\ Held(ledger, raw) /\ \A j \in Key \ {raw} : ~Held(ledger, j)
  BY <1>1, <1>2, LedgerIsGood, HeldAlone DEF ScanSafe, ClaimsOK
<1>4. /\ GoodLedger(freed) /\ Grows(ledger, freed) /\ SameStaged(ledger, freed)
      /\ freed[raw] = NoRow /\ \A j \in Key \ {raw} : freed[j] = ledger[j]
  BY <1>2, <1>3, ReleaseRow, ReleaseKeepsStaged
<1>5. \A j \in Key : ~Held(freed, j)
  BY <1>3, <1>4 DEF Held, NoRow, Unsettled
<1>6. CASE ledger' = Settle(ledger, raw, "error") /\ Passed
  <2>1. "error" \in Outcome /\ "error" \notin Kept
    BY DEF Outcome, Kept
  <2>2. /\ GoodLedger(ledger') /\ Grows(ledger, ledger') /\ SettledFor(ledger', c)
        /\ \A j \in Key : ~Held(ledger', j)
        /\ SameStaged(ledger, ledger')
    BY <1>1, <1>3, <1>6, <2>1, SettledHand
  <2> QED
    BY <1>1, <1>6, <2>2, PassedOn
<1>7. CASE own = raw /\ ledger' = ledger /\ scan' = [scan EXCEPT !.pc = "stages"]
  <2>1. scan.plan \in Plan /\ "stages" \in ScanPc
    BY ScanFields DEF Scan, ScanPc
  <2>2. /\ SameScan /\ scan'.pc = "stages" /\ scan'.last = scan.last /\ scan'.queue = scan.queue
        /\ scan'.uid = scan.uid /\ scan'.copy = scan.copy /\ scan' \in Scan
    BY <1>7, <2>1, PcFields
  <2>3. ClaimsOK'
    BY <1>2, <1>3, <1>7, <2>2, ClaimsOne
  <2>4. ScanSafe'
    BY <1>1, <1>7, <2>2, <2>3, GoesOn, GrowsItself DEF InHand
  <2>5. ScanTypes'
    BY <1>1, <1>2, <1>3, <1>7, <2>2, NewTypes, CopyAssumption DEF InHand
  <2> QED
    BY <1>7, <2>4, <2>5, SameStagedItself
<1>8. CASE /\ Claimable(freed, own) /\ ledger' = Claim(freed, own)
           /\ scan' = [scan EXCEPT !.pc = "stages"]
  <2>1. scan.plan \in Plan /\ "stages" \in ScanPc
    BY ScanFields DEF Scan, ScanPc
  <2>2. /\ SameScan /\ scan'.pc = "stages" /\ scan'.last = scan.last /\ scan'.queue = scan.queue
        /\ scan'.uid = scan.uid /\ scan'.copy = scan.copy /\ scan' \in Scan
    BY <1>8, <2>1, PcFields
  <2> HIDE DEF freed
  <2>3. /\ GoodLedger(ledger') /\ Grows(freed, ledger') /\ Held(ledger', own)
        /\ SameStaged(freed, ledger')
        /\ \A j \in Key \ {own} : ledger'[j] = freed[j]
    BY <1>2, <1>4, <1>8, ClaimRow, ClaimKeepsStaged
  <2>4. \A j \in Key \ {own} : ~Held(ledger', j)
    BY <1>5, <2>3 DEF Held
  <2>5. ClaimsOK'
    BY <1>2, <2>2, <2>3, <2>4, ClaimsOne
  <2>6. Grows(ledger, ledger') /\ SameStaged(ledger, ledger')
    BY <1>4, <2>3, GrowsTwice, SameStagedTwice
  <2>7. ScanSafe'
    BY <1>1, <2>2, <2>5, <2>6, GoesOn DEF InHand
  <2>8. ScanTypes'
    BY <1>1, <1>2, <2>2, <2>3, NewTypes, CopyAssumption DEF InHand
  <2> QED
    BY <2>6, <2>7, <2>8
<1>9. CASE ledger' = freed /\ IF Settled(freed, own) THEN Passed ELSE Retry
  <2>1. CASE Settled(freed, own)
    <3>1. SettledFor(ledger', c)
      BY <1>9, <2>1 DEF SettledFor
    <3> HIDE DEF freed
    <3> QED
      BY <1>1, <1>4, <1>5, <1>9, <2>1, <3>1, PassedOn
  <2>2. CASE ~Settled(freed, own)
    <3> HIDE DEF freed
    <3> QED
      BY <1>1, <1>4, <1>5, <1>9, <2>2, GivesUp
  <2> QED
    BY <2>1, <2>2
<1> QED
  BY <1>6, <1>7, <1>8, <1>9 DEF Parse

\* A message settled by a rule, or by the model's answer, is passed.
LEMMA SettledAndPassed ==
    ASSUME TypeOK, ScanSafe, scan.pc \in {"stages", "write"}, UNCHANGED <<folder, cursor>>,
           NEW o \in Outcome, ledger' = Settle(ledger, OwnKey(scan.copy), o), Passed
    PROVE  /\ ScanSafe' /\ ScanTypes'
           /\ o \notin Kept => SameStaged(ledger, ledger')
<1>1. Held(ledger, OwnKey(scan.copy)) /\ scan.pc \in InHand
  BY HandHeld
<1>2. /\ GoodLedger(ledger') /\ Grows(ledger, ledger') /\ SettledFor(ledger', scan.copy)
      /\ \A j \in Key : ~Held(ledger', j)
      /\ o \notin Kept => SameStaged(ledger, ledger')
  BY <1>1, SettledHand
<1> QED
  BY <1>1, <1>2, PassedOn

LEMMA LocalStagesSafe ==
    ASSUME TypeOK, ScanSafe, LocalStages
    PROVE  ScanSafe' /\ ScanTypes' /\ SameStaged(ledger, ledger')
<1>1. /\ scan.pc = "stages" /\ Passed /\ UNCHANGED <<folder, cursor>>
      /\ \E o \in {"suppressed", "skipped"} : ledger' = Settle(ledger, OwnKey(scan.copy), o)
  BY DEF LocalStages, Quiet, Mailbox
<1>2. \A o \in {"suppressed", "skipped"} : o \in Outcome /\ o \notin Kept
  BY DEF Outcome, Kept
<1> QED
  BY <1>1, <1>2, SettledAndPassed

LEMMA NotActionableSafe ==
    ASSUME TypeOK, ScanSafe, NotActionable
    PROVE  ScanSafe' /\ ScanTypes' /\ SameStaged(ledger, ledger')
<1>1. /\ scan.pc = "stages" /\ Passed /\ UNCHANGED <<folder, cursor>>
      /\ \E o \in {"not_actionable", "error"} : ledger' = Settle(ledger, OwnKey(scan.copy), o)
  BY DEF NotActionable, Asked, Quiet, Mailbox
<1>2. \A o \in {"not_actionable", "error"} : o \in Outcome /\ o \notin Kept
  BY DEF Outcome, Kept
<1> QED
  BY <1>1, <1>2, SettledAndPassed

LEMMA ModelFailedSafe ==
    ASSUME TypeOK, ScanSafe, ModelFailed
    PROVE  ScanSafe' /\ ScanTypes' /\ SameStaged(ledger, ledger')
<1> DEFINE k == OwnKey(scan.copy)
<1>1. /\ scan.pc = "stages" /\ Retry /\ UNCHANGED <<folder, cursor>>
      /\ ledger' = Release(ledger, k)
  BY DEF ModelFailed, Asked, Quiet, Mailbox
<1>2. Held(ledger, k) /\ scan.copy \in Copy /\ k \in Key
  BY <1>1, HandHeld, KeyType
<1>3. GoodLedger(ledger) /\ \A j \in Key \ {k} : ~Held(ledger, j)
  BY <1>2, LedgerIsGood, HeldAlone DEF ScanSafe
<1>4. /\ GoodLedger(ledger') /\ Grows(ledger, ledger') /\ SameStaged(ledger, ledger')
      /\ ledger'[k] = NoRow /\ \A j \in Key \ {k} : ledger'[j] = ledger[j]
  BY <1>1, <1>2, <1>3, ReleaseRow, ReleaseKeepsStaged
<1>5. \A j \in Key : ~Held(ledger', j)
  BY <1>3, <1>4 DEF Held, NoRow, Unsettled
<1> QED
  BY <1>1, <1>4, <1>5, GivesUp

LEMMA DedupSafe ==
    ASSUME TypeOK, ScanSafe, NEW p \in Plan, scan.pc = "stages",
           UNCHANGED <<ledger, folder, cursor>>,
           scan' = [scan EXCEPT !.pc = "write", !.plan = p]
    PROVE  ScanSafe' /\ ScanTypes'
<1>1. Held(ledger, OwnKey(scan.copy)) /\ scan.copy \in Copy /\ OwnKey(scan.copy) \in Key
  BY HandHeld, KeyType
<1>2. /\ SameScan /\ scan'.pc = "write" /\ scan'.last = scan.last /\ scan'.queue = scan.queue
      /\ scan'.uid = scan.uid /\ scan'.copy = scan.copy /\ scan' \in Scan
  BY PcFields DEF ScanPc
<1>3. GoodLedger(ledger) /\ \A j \in Key \ {OwnKey(scan.copy)} : ~Held(ledger, j)
  BY <1>1, LedgerIsGood, HeldAlone DEF ScanSafe
<1>4. ClaimsOK'
  BY <1>1, <1>2, <1>3, ClaimsOne
<1>5. ScanSafe'
  BY <1>2, <1>4, GoesOn, GrowsItself DEF InHand
<1>6. ScanTypes'
  BY <1>1, <1>2, <1>3, NewTypes, CopyAssumption DEF InHand
<1> QED
  BY <1>5, <1>6

LEMMA AutoDoneSafe ==
    ASSUME TypeOK, ScanSafe, AutoDone PROVE ScanSafe' /\ ScanTypes'
<1>1. /\ scan.pc = "auto" /\ scan.pc \in InHand /\ Passed
      /\ UNCHANGED <<ledger, folder, cursor>>
  BY DEF AutoDone, Quiet, Mailbox, store, InHand
<1>2. /\ GoodLedger(ledger) /\ \A j \in Key : ~Held(ledger, j)
      /\ SettledFor(ledger, scan.copy)
  BY <1>1, LedgerIsGood, NothingHeld DEF ScanSafe, ClaimsOK, SettledFor
<1> QED
  BY <1>1, <1>2, PassedOn, GrowsItself

\* A crash takes the scan, and leaves its claim to the next one.
LEMMA DieSafe ==
    ASSUME TypeOK, ScanSafe, Die PROVE ScanSafe' /\ ScanTypes'
<1>1. UNCHANGED <<ledger, folder, cursor>> /\ scan' = Idle
  BY DEF Die, store, Mailbox
<1>2. scan'.pc = "idle" /\ scan'.copy = NoCopy /\ scan' \in Scan
  <2>1. NoPlan \in Plan
    BY CopyAssumption DEF NoPlan, Plan
  <2> QED
    BY <1>1, <2>1 DEF Idle, Scan, ScanPc
<1>3. ClaimsOK'
  BY <1>1, <1>2 DEF ScanSafe, ClaimsOK
<1>4. CursorOK' /\ PassedIsDecided'
  BY <1>1, GrowsItself, CursorStays DEF ScanSafe
<1>5. Reading' /\ Searched' /\ Handled'
  BY <1>2 DEF Reading, Searched, Handled, InHand
<1>6. ScanTypes'
  BY <1>1, <1>2, LedgerIsGood, NewTypes DEF ScanSafe, InHand
<1> QED
  BY <1>3, <1>4, <1>5, <1>6 DEF ScanSafe

-----------------------------------------------------------------------------
(* Suggestions.                                                              *)

Status == {"pending", "approving", "approved", "rejected"}

\* The same suggestions, whatever their status; more may follow.
SameItems(s, z) ==
    /\ Len(s) <= Len(z)
    /\ \A i \in 1 .. Len(s) : /\ z[i].origin = s[i].origin
                               /\ z[i].kind = s[i].kind /\ z[i].target = s[i].target

\* And of the same messages.
SameMessages(s, z) ==
    SameItems(s, z) /\ \A i \in 1 .. Len(s) : z[i].merged = s[i].merged

LEMMA SuggestionFields ==
    ASSUME NEW s \in Seq(Suggestion)
    PROVE  /\ Len(s) \in Nat /\ DOMAIN s = 1 .. Len(s)
           /\ \A i \in 1 .. Len(s) :
                /\ s[i] \in Suggestion
                /\ s[i].origin \in Copy /\ s[i].merged \in SUBSET Copy
                /\ s[i].kind \in Kind /\ s[i].target \in Nat /\ s[i].status \in Status
                /\ Messages(s[i]) \in SUBSET Copy /\ s[i].origin \in Messages(s[i])
<1>1. Len(s) \in Nat /\ DOMAIN s = 1 .. Len(s) /\ \A i \in 1 .. Len(s) : s[i] \in Suggestion
  OBVIOUS
<1>2. \A x \in Suggestion :
         /\ x.origin \in Copy /\ x.merged \in SUBSET Copy
         /\ x.kind \in Kind /\ x.target \in Nat /\ x.status \in Status
  BY DEF Suggestion, Status
<1>3. \A x \in Suggestion : Messages(x) \in SUBSET Copy /\ x.origin \in Messages(x)
  BY <1>2 DEF Messages
<1> QED
  BY <1>1, <1>2, <1>3

LEMMA MoveFacts ==
    ASSUME NEW s \in Seq(Suggestion), NEW i \in DOMAIN s, NEW to \in Status
    PROVE  /\ MoveTo(s, i, to) \in Seq(Suggestion) /\ Len(MoveTo(s, i, to)) = Len(s)
           /\ SameMessages(s, MoveTo(s, i, to))
           /\ MoveTo(s, i, to)[i].status = to
           /\ \A j \in DOMAIN s \ {i} : MoveTo(s, i, to)[j] = s[j]
<1> DEFINE r == [s[i] EXCEPT !.status = to]
<1>1. /\ Len(s) \in Nat /\ DOMAIN s = 1 .. Len(s) /\ s[i] \in Suggestion
  BY SuggestionFields
<1>2. /\ r \in Suggestion /\ r.status = to /\ r.origin = s[i].origin
      /\ r.merged = s[i].merged /\ r.kind = s[i].kind /\ r.target = s[i].target
  BY <1>1 DEF Suggestion, Status
<1>3. MoveTo(s, i, to) = [s EXCEPT ![i] = r]
  BY DEF MoveTo
<1> HIDE DEF r
<1>4. /\ MoveTo(s, i, to) \in Seq(Suggestion) /\ Len(MoveTo(s, i, to)) = Len(s)
      /\ MoveTo(s, i, to)[i] = r
      /\ \A j \in DOMAIN s \ {i} : MoveTo(s, i, to)[j] = s[j]
  BY <1>2, <1>3
<1>5. SameMessages(s, MoveTo(s, i, to))
  BY <1>1, <1>2, <1>4 DEF SameMessages, SameItems
<1> QED
  BY <1>2, <1>4, <1>5

LEMMA AttachFacts ==
    ASSUME NEW s \in Seq(Suggestion), NEW i \in DOMAIN s, NEW c \in Copy
    PROVE  /\ Attach(s, i, c) \in Seq(Suggestion) /\ Len(Attach(s, i, c)) = Len(s)
           /\ SameItems(s, Attach(s, i, c))
           /\ Attach(s, i, c)[i].origin = s[i].origin
           /\ Attach(s, i, c)[i].merged = s[i].merged \cup {c}
           /\ Attach(s, i, c)[i].kind = s[i].kind
           /\ Attach(s, i, c)[i].target = s[i].target
           /\ Attach(s, i, c)[i].status = s[i].status
           /\ \A j \in DOMAIN s \ {i} : Attach(s, i, c)[j] = s[j]
<1> DEFINE m == s[i].merged \cup {c}
           r == [s[i] EXCEPT !.merged = m]
<1>1. /\ Len(s) \in Nat /\ DOMAIN s = 1 .. Len(s) /\ s[i] \in Suggestion
      /\ s[i].merged \in SUBSET Copy
  BY SuggestionFields
<1>2. m \in SUBSET Copy
  BY <1>1
<1>3. Attach(s, i, c) = [s EXCEPT ![i] = r]
  BY DEF Attach
<1> HIDE DEF m
<1>4. /\ r \in Suggestion /\ r.status = s[i].status /\ r.origin = s[i].origin
      /\ r.merged = m /\ r.kind = s[i].kind /\ r.target = s[i].target
  BY <1>1, <1>2 DEF Suggestion
<1> HIDE DEF r
<1>5. /\ Attach(s, i, c) \in Seq(Suggestion) /\ Len(Attach(s, i, c)) = Len(s)
      /\ Attach(s, i, c)[i] = r
      /\ \A j \in DOMAIN s \ {i} : Attach(s, i, c)[j] = s[j]
  BY <1>3, <1>4
<1>6. SameItems(s, Attach(s, i, c))
  BY <1>1, <1>4, <1>5 DEF SameItems
<1> QED
  BY <1>4, <1>5, <1>6 DEF m

-----------------------------------------------------------------------------
(* What the owner decided, and what was written.                             *)

OwnerTypes ==
    /\ nature \in [Copy -> Nature]
    /\ suggestions \in Seq(Suggestion) /\ Len(suggestions) <= MaxStaged
    /\ threads \in [Thread -> [suggestion : 0 .. Len(suggestions), task : 0 .. Len(suggestions)]]
    /\ wire \in [1 .. MaxStaged -> SUBSET Copy]
    /\ approval \in [Approver -> Approval]

OwnerSafe == OnePlace /\ ApprovalsOK /\ ItemsOK /\ ApprovedIsWritten

LEMMA TypesOfOwner ==
    ASSUME TypeOK PROVE OwnerTypes
BY DEF TypeOK, OwnerTypes

LEMMA BothTypes ==
    ASSUME ScanTypes, OwnerTypes PROVE TypeOK
BY DEF TypeOK, ScanTypes, OwnerTypes

LEMMA OnePlaceKept ==
    ASSUME OwnerTypes, OnePlace, SameStaged(ledger, ledger'),
           suggestions' \in Seq(Suggestion), Len(suggestions') = Len(suggestions),
           SameMessages(suggestions, suggestions')
    PROVE  OnePlace'
<1>1. /\ DOMAIN suggestions = 1 .. Len(suggestions)
      /\ DOMAIN suggestions' = 1 .. Len(suggestions)
      /\ \A i \in DOMAIN suggestions : /\ suggestions[i].origin \in Copy
                                       /\ suggestions[i].merged \in SUBSET Copy
  BY SuggestionFields DEF OwnerTypes
<1>2. \A i \in DOMAIN suggestions :
         /\ suggestions'[i].origin = suggestions[i].origin
         /\ suggestions'[i].merged = suggestions[i].merged
         /\ Messages(suggestions'[i]) = Messages(suggestions[i])
  BY <1>1 DEF SameMessages, SameItems, Messages
<1>3. \A k \in Key : \A o \in Kept : ledger[k].outcome = o <=> ledger'[k].outcome = o
  BY DEF SameStaged
<1>4. \A i, j \in DOMAIN suggestions' :
         \A c \in Messages(suggestions'[i]), d \in Messages(suggestions'[j]) :
             OwnKey(c) = OwnKey(d) => i = j /\ c = d
  BY <1>1, <1>2 DEF OnePlace
<1>5. \A i \in DOMAIN suggestions' :
         /\ ledger'[OwnKey(suggestions'[i].origin)].outcome = "staged"
         /\ \A c \in suggestions'[i].merged : ledger'[OwnKey(c)].outcome = "attached"
  <2> SUFFICES ASSUME NEW i \in DOMAIN suggestions
               PROVE  /\ ledger'[OwnKey(suggestions[i].origin)].outcome = "staged"
                      /\ \A c \in suggestions[i].merged : ledger'[OwnKey(c)].outcome = "attached"
    BY <1>1, <1>2
  <2>1. /\ OwnKey(suggestions[i].origin) \in Key
        /\ \A c \in suggestions[i].merged : OwnKey(c) \in Key
    BY <1>1, KeyType
  <2> QED
    BY <1>3, <2>1 DEF OnePlace, Kept
<1>6. \A k \in Key : ledger'[k].outcome \in {"staged", "attached"} =>
         \E i \in DOMAIN suggestions', c \in Copy :
             c \in Messages(suggestions'[i]) /\ OwnKey(c) = k
  BY <1>1, <1>2, <1>3 DEF OnePlace, Kept
<1> QED
  BY <1>4, <1>5, <1>6 DEF OnePlace

\* What is on the wire stays on the wire.
LEMMA OnWireKept ==
    ASSUME OwnerTypes, SameItems(suggestions, suggestions'),
           NEW i \in 1 .. Len(suggestions), suggestions'[i].merged = suggestions[i].merged,
           suggestions[i].kind = "update" => suggestions[i].target \in 1 .. MaxStaged,
           \A j \in 1 .. MaxStaged : wire[j] \subseteq wire'[j], OnWire(i)
    PROVE  OnWire(i)'
<1>1. /\ suggestions'[i].kind = suggestions[i].kind
      /\ suggestions'[i].target = suggestions[i].target
      /\ suggestions'[i].origin = suggestions[i].origin
      /\ Messages(suggestions'[i]) = Messages(suggestions[i])
  BY DEF SameItems, Messages
<1>2. i \in 1 .. MaxStaged
  BY SuggestionFields, CopyAssumption DEF OwnerTypes
<1> QED
  BY <1>1, <1>2 DEF OnWire

LEMMA PlacesInBounds ==
    ASSUME OwnerTypes
    PROVE  /\ Len(suggestions) \in Nat /\ Len(suggestions) <= MaxStaged
           /\ DOMAIN suggestions = 1 .. Len(suggestions)
           /\ \A x \in 1 .. Len(suggestions) : x \in 1 .. MaxStaged
<1>1. /\ Len(suggestions) \in Nat /\ Len(suggestions) <= MaxStaged /\ MaxStaged \in Nat
      /\ DOMAIN suggestions = 1 .. Len(suggestions)
  BY SuggestionFields, CopyAssumption DEF OwnerTypes
<1> QED
  BY <1>1

LEMMA ItemsKept ==
    ASSUME OwnerTypes, ItemsOK, SameItems(suggestions, suggestions'),
           suggestions' \in Seq(Suggestion),
           \A j \in 1 .. MaxStaged : wire[j] \subseteq wire'[j],
           \A i \in Len(suggestions) + 1 .. Len(suggestions') :
              suggestions'[i].kind = "update" =>
                 suggestions'[i].target \in 1 .. MaxStaged /\ wire'[suggestions'[i].target] # {},
           \A i \in 1 .. MaxStaged : wire'[i] # {} =>
              i \in DOMAIN suggestions /\ suggestions[i].origin \in wire'[i],
           \A t \in Thread : threads'[t].task # 0 => wire'[threads'[t].task] # {},
           \/ scan'.pc # "write"
           \/ scan' = scan /\ nature' = nature /\ Len(suggestions') = Len(suggestions)
    PROVE  ItemsOK'
<1>1. /\ Len(suggestions) \in Nat /\ DOMAIN suggestions = 1 .. Len(suggestions)
      /\ Len(suggestions') \in Nat /\ DOMAIN suggestions' = 1 .. Len(suggestions')
  BY SuggestionFields DEF OwnerTypes
<1>0. /\ \A i \in 1 .. Len(suggestions') :
            i \in 1 .. Len(suggestions) \/ i \in Len(suggestions) + 1 .. Len(suggestions')
      /\ \A i \in 1 .. Len(suggestions) : i \in 1 .. Len(suggestions')
  <2>1. Len(suggestions) \in Nat /\ Len(suggestions') \in Nat /\ Len(suggestions) <= Len(suggestions')
    BY <1>1, Zenon DEF SameItems
  <2>2. \A m, n \in Nat : m <= n =>
           /\ \A i \in 1 .. n : i \in 1 .. m \/ i \in m + 1 .. n
           /\ \A i \in 1 .. m : i \in 1 .. n
    OBVIOUS
  <2> QED
    BY ONLY <2>1, <2>2
<1>2. \A i \in 1 .. MaxStaged : wire'[i] # {} =>
         i \in DOMAIN suggestions' /\ suggestions'[i].origin \in wire'[i]
  <2>1. \A i \in 1 .. Len(suggestions) : /\ i \in 1 .. Len(suggestions')
                                          /\ suggestions'[i].origin = suggestions[i].origin
    BY <1>0 DEF SameItems
  <2> QED
    BY <1>1, <2>1, Zenon
<1>3. \A i \in DOMAIN suggestions' : suggestions'[i].kind = "update" =>
         suggestions'[i].target \in 1 .. MaxStaged /\ wire'[suggestions'[i].target] # {}
  <2> SUFFICES ASSUME NEW i \in 1 .. Len(suggestions), suggestions'[i].kind = "update"
               PROVE  /\ suggestions'[i].target \in 1 .. MaxStaged
                      /\ wire'[suggestions'[i].target] # {}
    BY <1>0, <1>1, Zenon
  <2>1. suggestions[i].kind = "update" /\ suggestions'[i].target = suggestions[i].target
    BY DEF SameItems
  <2>2. suggestions[i].target \in 1 .. MaxStaged /\ wire[suggestions[i].target] # {}
    BY <1>1, <2>1, Zenon DEF ItemsOK
  <2> QED
    BY <2>1, <2>2
<1>4. scan'.pc = "write" =>
         /\ nature'[scan'.copy] \in {"task", "event"}
         /\ scan'.plan.what \in {"merge", "update", "same task"} =>
               scan'.plan.of \in DOMAIN suggestions'
         /\ scan'.plan.what \in {"update", "same task"} => wire'[scan'.plan.of] # {}
  <2> SUFFICES ASSUME scan'.pc = "write" PROVE
         /\ nature'[scan'.copy] \in {"task", "event"}
         /\ scan'.plan.what \in {"merge", "update", "same task"} =>
               scan'.plan.of \in DOMAIN suggestions'
         /\ scan'.plan.what \in {"update", "same task"} => wire'[scan'.plan.of] # {}
    OBVIOUS
  <2>1. scan' = scan /\ nature' = nature /\ DOMAIN suggestions' = DOMAIN suggestions
    BY <1>1
  <2>2. /\ nature[scan.copy] \in {"task", "event"}
        /\ scan.plan.what \in {"merge", "update", "same task"} =>
              scan.plan.of \in DOMAIN suggestions
        /\ scan.plan.what \in {"update", "same task"} => wire[scan.plan.of] # {}
    BY <2>1 DEF ItemsOK
  <2>3. scan.plan.what \in {"update", "same task"} => scan.plan.of \in 1 .. MaxStaged
    <3>1. \A x \in 1 .. Len(suggestions) : x \in 1 .. MaxStaged
      BY PlacesInBounds
    <3>2. scan.plan.what \in {"update", "same task"} => scan.plan.of \in 1 .. Len(suggestions)
      BY <1>1, <2>2
    <3> QED
      BY <3>1, <3>2
  <2> QED
    BY <2>1, <2>2, <2>3
<1> QED
  BY <1>2, <1>3, <1>4 DEF ItemsOK

\* An approval past its swap keeps its suggestion; another may begin, or be over.
LEMMA ApprovalsKept ==
    ASSUME OwnerTypes, ApprovalsOK, ItemsOK, SameItems(suggestions, suggestions'),
           suggestions' \in Seq(Suggestion),
           \A j \in 1 .. MaxStaged : wire[j] \subseteq wire'[j],
           \A a \in Approver :
              \/ /\ approval'[a] = approval[a]
                 /\ approval[a].pc \in Swapped =>
                       suggestions'[approval[a].of] = suggestions[approval[a].of]
              \/ /\ approval'[a].pc \notin Swapped
                 /\ approval'[a].pc # "idle" => approval'[a].of \in DOMAIN suggestions'
    PROVE  ApprovalsOK'
<1>1. /\ Len(suggestions) \in Nat /\ DOMAIN suggestions = 1 .. Len(suggestions)
      /\ Len(suggestions') \in Nat /\ DOMAIN suggestions' = 1 .. Len(suggestions')
      /\ Len(suggestions) <= Len(suggestions')
  BY SuggestionFields DEF OwnerTypes, SameItems
<1>2. DOMAIN suggestions \subseteq DOMAIN suggestions'
  BY <1>1
<1>3. \A a \in Approver : approval'[a].pc # "idle" => approval'[a].of \in DOMAIN suggestions'
  BY <1>2 DEF ApprovalsOK
<1>4. \A a \in Approver : approval'[a].pc \in Swapped =>
         /\ approval'[a] = approval[a]
         /\ approval[a].of \in DOMAIN suggestions
         /\ suggestions'[approval[a].of] = suggestions[approval[a].of]
  BY DEF ApprovalsOK, Swapped
<1>5. \A a \in Approver : approval'[a].pc \in Swapped =>
         /\ suggestions'[approval'[a].of].status = "approving"
         /\ approval'[a].messages = Messages(suggestions'[approval'[a].of])
  BY <1>4 DEF ApprovalsOK
<1>6. \A a, b \in Approver : approval'[a].pc \in Swapped /\ approval'[b].pc \in Swapped =>
         (approval'[a].of = approval'[b].of => a = b)
  BY <1>4 DEF ApprovalsOK
<1>7. \A i : OnWire(i)' <=>
         IF suggestions'[i].kind = "update"
         THEN Messages(suggestions'[i]) \subseteq wire'[suggestions'[i].target]
         ELSE suggestions'[i].origin \in wire'[i]
  BY DEF OnWire
<1>8. \A a \in Approver : approval'[a].pc = "finish" =>
         \A i : i = approval'[a].of => OnWire(i)'
  <2> SUFFICES ASSUME NEW a \in Approver, approval'[a].pc = "finish",
                      NEW i, i = approval[a].of
               PROVE  OnWire(i)'
    BY <1>4 DEF Swapped
  <2>1. /\ approval[a].pc = "finish" /\ i \in 1 .. Len(suggestions)
        /\ suggestions'[i] = suggestions[i]
    BY <1>1, <1>4 DEF Swapped
  <2>2. OnWire(i)
    BY <2>1 DEF ApprovalsOK, OnWire
  <2>3. suggestions[i].kind = "update" => suggestions[i].target \in 1 .. MaxStaged
    BY <1>1, <2>1 DEF ItemsOK
  <2> QED
    BY <2>1, <2>2, <2>3, OnWireKept
<1>9. \A a \in Approver : approval'[a].pc = "finish" =>
         IF suggestions'[approval'[a].of].kind = "update"
         THEN Messages(suggestions'[approval'[a].of]) \subseteq wire'[suggestions'[approval'[a].of].target]
         ELSE suggestions'[approval'[a].of].origin \in wire'[approval'[a].of]
  BY <1>7, <1>8
<1> QED
  BY <1>3, <1>5, <1>6, <1>9 DEF ApprovalsOK, OnWire

LEMMA ApprovedKept ==
    ASSUME OwnerTypes, ApprovedIsWritten, ItemsOK, SameItems(suggestions, suggestions'),
           suggestions' \in Seq(Suggestion),
           \A j \in 1 .. MaxStaged : wire[j] \subseteq wire'[j],
           \A i \in DOMAIN suggestions' : suggestions'[i].status = "approved" =>
              \/ /\ i \in 1 .. Len(suggestions)
                 /\ suggestions[i].status = "approved" \/ OnWire(i)
                 /\ suggestions'[i].merged = suggestions[i].merged
    PROVE  ApprovedIsWritten'
<1>1. DOMAIN suggestions = 1 .. Len(suggestions)
  BY SuggestionFields DEF OwnerTypes
<1> SUFFICES ASSUME NEW i \in DOMAIN suggestions', suggestions'[i].status = "approved"
             PROVE  OnWire(i)'
  BY DEF ApprovedIsWritten
<1>2. i \in 1 .. Len(suggestions) /\ suggestions'[i].merged = suggestions[i].merged
  OBVIOUS
<1>3. OnWire(i)
  BY <1>1 DEF ApprovedIsWritten
<1>4. suggestions[i].kind = "update" => suggestions[i].target \in 1 .. MaxStaged
  BY <1>1, <1>2 DEF ItemsOK
<1> QED
  BY <1>2, <1>3, <1>4, OnWireKept

-----------------------------------------------------------------------------
(* review.py.                                                                *)

AsideTypes ==
    /\ suggestions' \in Seq(Suggestion) /\ Len(suggestions') = Len(suggestions)
    /\ SameMessages(suggestions, suggestions')

LEMMA SameItself ==
    ASSUME OwnerTypes, suggestions' = suggestions PROVE AsideTypes
BY SuggestionFields DEF AsideTypes, SameMessages, SameItems, OwnerTypes

\* A step that leaves every message where it is.
LEMMA StatusStep ==
    ASSUME OwnerTypes, OwnerSafe, AsideTypes, SameStaged(ledger, ledger'),
           nature' = nature, wire' \in [1 .. MaxStaged -> SUBSET Copy],
           approval' \in [Approver -> Approval],
           \A j \in 1 .. MaxStaged : wire[j] \subseteq wire'[j],
           \A i \in 1 .. MaxStaged : wire'[i] # {} =>
              i \in DOMAIN suggestions /\ suggestions[i].origin \in wire'[i],
           threads' \in [Thread -> [suggestion : 0 .. Len(suggestions), task : 0 .. Len(suggestions)]],
           \A t \in Thread : threads'[t].task # 0 => wire'[threads'[t].task] # {},
           scan'.pc # "write" \/ scan' = scan
    PROVE  OnePlace' /\ ItemsOK' /\ OwnerTypes'
<1> USE DEF OwnerSafe, AsideTypes
<1>1. Len(suggestions) \in Nat /\ Len(suggestions') = Len(suggestions)
  BY SuggestionFields DEF OwnerTypes
<1>2. OnePlace'
  BY OnePlaceKept
<1>3. SameItems(suggestions, suggestions')
  BY DEF SameMessages
<1>4. \A i \in Len(suggestions) + 1 .. Len(suggestions') :
          suggestions'[i].kind = "update" =>
             suggestions'[i].target \in 1 .. MaxStaged /\ wire'[suggestions'[i].target] # {}
  BY <1>1
<1>5. ItemsOK'
  BY <1>3, <1>4, ItemsKept
<1>6. OwnerTypes'
  BY DEF OwnerTypes
<1> QED
  BY <1>2, <1>5, <1>6

LEMMA ThreadsStand ==
    ASSUME OwnerTypes, ItemsOK, \A j \in 1 .. MaxStaged : wire[j] \subseteq wire'[j]
    PROVE  \A t \in Thread : threads[t].task # 0 => wire'[threads[t].task] # {}
<1> SUFFICES ASSUME NEW t \in Thread, threads[t].task # 0 PROVE wire'[threads[t].task] # {}
  OBVIOUS
<1>1. threads[t].task \in 1 .. Len(suggestions)
  BY SuggestionFields DEF OwnerTypes
<1>2. threads[t].task \in 1 .. MaxStaged
  BY <1>1, SuggestionFields, CopyAssumption DEF OwnerTypes
<1> QED
  BY <1>2 DEF ItemsOK

LEMMA WireStands ==
    ASSUME OwnerTypes, ItemsOK, wire' = wire
    PROVE  /\ wire' \in [1 .. MaxStaged -> SUBSET Copy]
           /\ \A j \in 1 .. MaxStaged : wire[j] \subseteq wire'[j]
           /\ \A i \in 1 .. MaxStaged : wire'[i] # {} =>
                 i \in DOMAIN suggestions /\ suggestions[i].origin \in wire'[i]
           /\ \A t \in Thread : threads[t].task # 0 => wire'[threads[t].task] # {}
BY ThreadsStand DEF OwnerTypes, ItemsOK

LEMMA ApprovalFields ==
    ASSUME OwnerTypes, NEW a \in Approver
    PROVE  /\ approval[a] \in Approval /\ approval[a].of \in 0 .. MaxStaged
           /\ approval[a].pc \in {"idle", "read", "swap", "write", "finish", "rollback"}
           /\ approval[a].messages \in SUBSET Copy
<1>1. approval[a] \in Approval
  BY DEF OwnerTypes
<1> QED
  BY <1>1 DEF Approval

LEMMA DoneFacts ==
    ASSUME OwnerTypes, NEW a \in Approver, Done(a)
    PROVE  /\ approval' \in [Approver -> Approval]
           /\ approval'[a] = NoApproval /\ approval'[a].pc = "idle"
           /\ \A b \in Approver \ {a} : approval'[b] = approval[b]
<1>1. NoApproval \in Approval /\ NoApproval.pc = "idle"
  BY CopyAssumption DEF NoApproval, Approval
<1>2. approval' = [approval EXCEPT ![a] = NoApproval] /\ approval \in [Approver -> Approval]
  BY DEF Done, OwnerTypes
<1> QED
  BY <1>1, <1>2

LEMMA StepFacts ==
    ASSUME OwnerTypes, NEW a \in Approver,
           NEW pc \in {"idle", "read", "swap", "write", "finish", "rollback"},
           approval' = [approval EXCEPT ![a].pc = pc]
    PROVE  /\ approval' \in [Approver -> Approval]
           /\ approval'[a].pc = pc /\ approval'[a].of = approval[a].of
           /\ approval'[a].messages = approval[a].messages
           /\ \A b \in Approver \ {a} : approval'[b] = approval[b]
<1> DEFINE r == [approval[a] EXCEPT !.pc = pc]
<1>1. approval[a] \in Approval /\ approval \in [Approver -> Approval]
  BY ApprovalFields DEF OwnerTypes
<1>2. /\ r \in Approval /\ r.pc = pc /\ r.of = approval[a].of
      /\ r.messages = approval[a].messages
  BY <1>1 DEF Approval
<1>3. approval' = [approval EXCEPT ![a] = r]
  BY <1>1
<1> HIDE DEF r
<1> QED
  BY <1>1, <1>2, <1>3

LEMMA ApproveReadSafe ==
    ASSUME TypeOK, OwnerSafe, NEW a \in Approver, NEW i \in DOMAIN suggestions,
           ApproveRead(a, i)
    PROVE  OwnerSafe' /\ OwnerTypes'
<1> USE DEF OwnerSafe
<1>1. /\ suggestions' = suggestions /\ threads' = threads /\ wire' = wire
      /\ ledger' = ledger /\ scan' = scan /\ nature' = nature
  BY DEF ApproveRead, Aside, TablesOnly, Mailbox
<1>2. OwnerTypes /\ AsideTypes
  BY <1>1, TypesOfOwner, SameItself
<1>3. /\ i \in 1 .. Len(suggestions) /\ Len(suggestions) \in Nat
      /\ DOMAIN suggestions = 1 .. Len(suggestions) /\ Len(suggestions) <= MaxStaged
  BY <1>2, SuggestionFields DEF OwnerTypes
<1>4. /\ approval' \in [Approver -> Approval]
      /\ \A b \in Approver : \/ approval'[b] = approval[b]
                             \/ /\ approval'[b].pc \notin Swapped
                                /\ approval'[b].pc # "idle" => approval'[b].of = i
  <2> DEFINE r == [pc |-> "swap", of |-> i, messages |-> {}]
  <2>1. CASE approval' = [approval EXCEPT ![a] = r]
    <3>1. i \in 0 .. MaxStaged
      BY <1>3, CopyAssumption
    <3>2. r \in Approval /\ r.pc \notin Swapped /\ r.of = i
      BY <3>1 DEF Approval, Swapped
    <3> HIDE DEF r
    <3> QED
      BY <1>2, <2>1, <3>2 DEF OwnerTypes
  <2>2. CASE Done(a)
    BY <1>2, <2>2, DoneFacts DEF Swapped
  <2> QED
    BY <2>1, <2>2 DEF ApproveRead
<1>5. \A j \in 1 .. MaxStaged : wire[j] \subseteq wire'[j]
  BY <1>1
<1>6. OnePlace' /\ ItemsOK' /\ OwnerTypes'
  BY <1>1, <1>2, <1>4, <1>5, WireStands, SameStagedItself, StatusStep DEF OwnerTypes
<1>7. SameItems(suggestions, suggestions') /\ suggestions' \in Seq(Suggestion)
  BY <1>2 DEF AsideTypes, SameMessages
<1>8. ApprovalsOK'
  BY <1>1, <1>2, <1>4, <1>5, <1>7, ApprovalsKept
<1>9. ApprovedIsWritten'
  BY <1>1 DEF ApprovedIsWritten, OnWire
<1> QED
  BY <1>6, <1>8, <1>9

LEMMA MovedFacts ==
    ASSUME suggestions \in Seq(Suggestion), NEW i \in DOMAIN suggestions, NEW to \in Status,
           suggestions' = MoveTo(suggestions, i, to)
    PROVE  /\ AsideTypes /\ suggestions'[i].status = to
           /\ \A j \in DOMAIN suggestions \ {i} : suggestions'[j] = suggestions[j]
BY MoveFacts DEF AsideTypes

LEMMA ApproveSwapSafe ==
    ASSUME TypeOK, OwnerSafe, NEW a \in Approver, ApproveSwap(a)
    PROVE  OwnerSafe' /\ OwnerTypes'
<1> USE DEF OwnerSafe
<1> DEFINE i == approval[a].of
           texts == Messages(suggestions[i])
<1>1. /\ threads' = threads /\ wire' = wire /\ approval[a].pc = "swap"
      /\ ledger' = ledger /\ scan' = scan /\ nature' = nature
  BY DEF ApproveSwap, Aside, TablesOnly, Mailbox
<1>2. OwnerTypes
  BY TypesOfOwner
<1>3. i \in DOMAIN suggestions /\ suggestions \in Seq(Suggestion)
  BY <1>1, <1>2 DEF ApprovalsOK, OwnerTypes
<1>4. CASE Pending(i)
  <2>1. suggestions' = MoveTo(suggestions, i, "approving") /\ suggestions[i].status = "pending"
    BY <1>4 DEF ApproveSwap, Transition, CanMove, Pending
  <2>2. /\ AsideTypes /\ suggestions'[i].status = "approving"
        /\ \A j \in DOMAIN suggestions \ {i} : suggestions'[j] = suggestions[j]
    BY <1>3, <2>1, MovedFacts DEF Status
  <2>3. /\ texts \in SUBSET Copy /\ Messages(suggestions'[i]) = texts
    BY <1>3, <2>2, SuggestionFields DEF AsideTypes, SameMessages, SameItems, Messages
  <2>4. /\ approval' \in [Approver -> Approval]
        /\ approval'[a].pc = "write" /\ approval'[a].of = i /\ approval'[a].messages = texts
        /\ \A b \in Approver \ {a} : approval'[b] = approval[b]
    <3> DEFINE r == [approval[a] EXCEPT !.pc = "write", !.messages = texts]
    <3>1. approval[a] \in Approval /\ approval \in [Approver -> Approval]
      BY <1>2, ApprovalFields DEF OwnerTypes
    <3>2. approval' = [approval EXCEPT ![a] = r]
      BY <1>4, <3>1 DEF ApproveSwap
    <3> HIDE DEF texts
    <3>3. r \in Approval /\ r.pc = "write" /\ r.of = i /\ r.messages = texts
      BY <2>3, <3>1 DEF Approval
    <3> HIDE DEF r
    <3> QED
      BY <3>1, <3>2, <3>3
  <2>5. OnePlace' /\ ItemsOK' /\ OwnerTypes'
    BY <1>1, <1>2, <2>2, <2>4, WireStands, SameStagedItself, StatusStep DEF OwnerTypes
  <2>6. \A b \in Approver : approval[b].pc \in Swapped => approval[b].of \in DOMAIN suggestions \ {i}
    BY <2>1 DEF ApprovalsOK, Swapped
  <2>7. DOMAIN suggestions' = DOMAIN suggestions
    BY <1>2, <2>2, SuggestionFields DEF AsideTypes, OwnerTypes
  <2>8. ApprovalsOK'
    <3>1. \A b \in Approver : approval'[b].pc # "idle" => approval'[b].of \in DOMAIN suggestions'
      BY <1>3, <2>4, <2>7 DEF ApprovalsOK
    <3>2. \A b \in Approver : approval'[b].pc \in Swapped =>
             /\ suggestions'[approval'[b].of].status = "approving"
             /\ approval'[b].messages = Messages(suggestions'[approval'[b].of])
      BY <2>2, <2>3, <2>4, <2>6 DEF ApprovalsOK
    <3>3. \A b, d \in Approver : approval'[b].pc \in Swapped /\ approval'[d].pc \in Swapped =>
             (approval'[b].of = approval'[d].of => b = d)
      BY <2>4, <2>6 DEF ApprovalsOK
    <3>4. \A b \in Approver : approval'[b].pc = "finish" =>
             IF suggestions'[approval'[b].of].kind = "update"
             THEN Messages(suggestions'[approval'[b].of])
                     \subseteq wire'[suggestions'[approval'[b].of].target]
             ELSE suggestions'[approval'[b].of].origin \in wire'[approval'[b].of]
      <4> SUFFICES ASSUME NEW b \in Approver, approval'[b].pc = "finish"
                   PROVE  LET j == approval'[b].of IN
                          IF suggestions'[j].kind = "update"
                          THEN Messages(suggestions'[j]) \subseteq wire'[suggestions'[j].target]
                          ELSE suggestions'[j].origin \in wire'[j]
        OBVIOUS
      <4>1. approval'[b] = approval[b] /\ approval[b].pc \in Swapped
        BY <2>4 DEF Swapped
      <4>2. suggestions'[approval[b].of] = suggestions[approval[b].of]
        BY <2>2, <2>6, <4>1
      <4>3. OnWire(approval[b].of)
        BY <4>1 DEF ApprovalsOK
      <4> QED
        BY <1>1, <4>1, <4>2, <4>3 DEF OnWire
    <3> QED
      BY <3>1, <3>2, <3>3, <3>4 DEF ApprovalsOK, OnWire
  <2>9. ApprovedIsWritten'
    BY <1>1, <2>2, <2>7 DEF ApprovedIsWritten, OnWire
  <2> QED
    BY <2>5, <2>8, <2>9
<1>5. CASE ~Pending(i)
  <2>1. suggestions' = suggestions /\ Done(a)
    BY <1>5 DEF ApproveSwap, Transition, CanMove, Pending
  <2>2. AsideTypes
    BY <1>2, <2>1, SameItself
  <2>3. /\ approval' \in [Approver -> Approval] /\ approval'[a].pc = "idle"
        /\ \A b \in Approver \ {a} : approval'[b] = approval[b]
    BY <1>2, <2>1, DoneFacts
  <2>4. OnePlace' /\ ItemsOK' /\ OwnerTypes'
    BY <1>1, <1>2, <2>2, <2>3, WireStands, SameStagedItself, StatusStep DEF OwnerTypes
  <2>5. SameItems(suggestions, suggestions') /\ suggestions' \in Seq(Suggestion)
    BY <2>2 DEF AsideTypes, SameMessages
  <2>6. \A j \in 1 .. MaxStaged : wire[j] \subseteq wire'[j]
    BY <1>1
  <2>7. ApprovalsOK'
    BY <1>2, <2>1, <2>3, <2>5, <2>6, ApprovalsKept DEF Swapped
  <2>8. ApprovedIsWritten'
    BY <1>1, <2>1 DEF ApprovedIsWritten, OnWire
  <2> QED
    BY <2>4, <2>7, <2>8
<1> QED
  BY <1>4, <1>5

\* Writing adds to the item of the suggestion, or of the one it updates.
LEMMA WrittenFacts ==
    ASSUME OwnerTypes, OwnerSafe, NEW a \in Approver, approval[a].pc = "write",
           NEW w, w = Written(approval[a].of, approval[a].messages)
    PROVE  /\ w \in [1 .. MaxStaged -> SUBSET Copy]
           /\ \A j \in 1 .. MaxStaged : wire[j] \subseteq w[j]
           /\ \A j \in 1 .. MaxStaged : w[j] # {} =>
                 j \in DOMAIN suggestions /\ suggestions[j].origin \in w[j]
           /\ LET i == approval[a].of IN
              IF suggestions[i].kind = "update"
              THEN Messages(suggestions[i]) \subseteq w[suggestions[i].target]
              ELSE suggestions[i].origin \in w[i]
<1> USE DEF OwnerSafe
<1> DEFINE i == approval[a].of
           texts == approval[a].messages
           t == suggestions[i].target
<1>1. /\ i \in DOMAIN suggestions /\ texts = Messages(suggestions[i])
      /\ i \in 1 .. MaxStaged
  BY PlacesInBounds DEF ApprovalsOK, Swapped
<1>2. texts \in SUBSET Copy /\ suggestions[i].origin \in texts
  BY <1>1, SuggestionFields DEF OwnerTypes
<1>3. wire \in [1 .. MaxStaged -> SUBSET Copy]
  BY DEF OwnerTypes
<1>4. CASE suggestions[i].kind = "update"
  <2>1. t \in 1 .. MaxStaged /\ wire[t] # {}
    BY <1>1, <1>4 DEF ItemsOK
  <2>2. w = [wire EXCEPT ![t] = wire[t] \cup texts]
    BY <1>4 DEF Written
  <2> DEFINE x == wire[t] \cup texts
  <2>3. x \in SUBSET Copy /\ wire[t] \subseteq x /\ texts \subseteq x
    BY <1>2, <1>3, <2>1
  <2>4. w = [wire EXCEPT ![t] = x]
    BY <2>2
  <2> HIDE DEF x
  <2>5. /\ w \in [1 .. MaxStaged -> SUBSET Copy] /\ w[t] = x
        /\ \A j \in 1 .. MaxStaged \ {t} : w[j] = wire[j]
    BY <1>3, <2>1, <2>3, <2>4
  <2>6. t \in DOMAIN suggestions /\ suggestions[t].origin \in wire[t]
    BY <2>1 DEF ItemsOK
  <2>7. \A j \in 1 .. MaxStaged : w[j] # {} =>
                 j \in DOMAIN suggestions /\ suggestions[j].origin \in w[j]
    BY <2>3, <2>5, <2>6 DEF ItemsOK
  <2> QED
    BY <1>1, <1>4, <2>3, <2>5, <2>7
<1>5. CASE suggestions[i].kind # "update" /\ wire[i] = {}
  <2>1. w = [wire EXCEPT ![i] = texts]
    BY <1>5 DEF Written
  <2>2. /\ w \in [1 .. MaxStaged -> SUBSET Copy] /\ w[i] = texts
        /\ \A j \in 1 .. MaxStaged \ {i} : w[j] = wire[j]
    BY <1>1, <1>2, <1>3, <2>1
  <2>3. \A j \in 1 .. MaxStaged : w[j] # {} =>
                 j \in DOMAIN suggestions /\ suggestions[j].origin \in w[j]
    BY <1>1, <1>2, <2>2 DEF ItemsOK
  <2> QED
    BY <1>2, <1>5, <2>2, <2>3
<1>6. CASE suggestions[i].kind # "update" /\ wire[i] # {}
  <2>1. w = wire
    BY <1>6 DEF Written
  <2> QED
    BY <1>1, <1>3, <1>6, <2>1 DEF ItemsOK
<1> QED
  BY <1>4, <1>5, <1>6

LEMMA ApproveWriteSafe ==
    ASSUME TypeOK, OwnerSafe, NEW a \in Approver, ApproveWrite(a)
    PROVE  OwnerSafe' /\ OwnerTypes'
<1> USE DEF OwnerSafe
<1> DEFINE i == approval[a].of
           w == Written(i, approval[a].messages)
<1>1. /\ threads' = threads /\ approval[a].pc = "write" /\ suggestions' = suggestions
      /\ ledger' = ledger /\ scan' = scan /\ nature' = nature
  BY DEF ApproveWrite, Aside, Mailbox
<1>2. OwnerTypes /\ AsideTypes
  BY <1>1, TypesOfOwner, SameItself
<1>3. /\ w \in [1 .. MaxStaged -> SUBSET Copy]
      /\ \A j \in 1 .. MaxStaged : wire[j] \subseteq w[j]
      /\ \A j \in 1 .. MaxStaged : w[j] # {} =>
            j \in DOMAIN suggestions /\ suggestions[j].origin \in w[j]
      /\ IF suggestions[i].kind = "update"
         THEN Messages(suggestions[i]) \subseteq w[suggestions[i].target]
         ELSE suggestions[i].origin \in w[i]
  BY <1>1, <1>2, WrittenFacts
<1>4. PICK pc \in {"finish", "rollback"} :
         /\ approval' = [approval EXCEPT ![a].pc = pc]
         /\ pc = "finish" => wire' = w
         /\ wire' \in {wire, w}
  BY DEF ApproveWrite, Step
<1> HIDE DEF w
<1>5. /\ approval' \in [Approver -> Approval]
      /\ approval'[a].pc = pc /\ approval'[a].of = approval[a].of
      /\ approval'[a].messages = approval[a].messages
      /\ \A b \in Approver \ {a} : approval'[b] = approval[b]
  BY <1>2, <1>4, StepFacts
<1>6. /\ wire' \in [1 .. MaxStaged -> SUBSET Copy]
      /\ \A j \in 1 .. MaxStaged : wire[j] \subseteq wire'[j]
      /\ \A j \in 1 .. MaxStaged : wire'[j] # {} =>
            j \in DOMAIN suggestions /\ suggestions[j].origin \in wire'[j]
  <2>1. CASE wire' = w
    BY <1>3, <2>1
  <2>2. CASE wire' = wire
    BY <1>2, <2>2 DEF ItemsOK, OwnerTypes
  <2> QED
    BY <1>4, <2>1, <2>2
<1>7. \A t \in Thread : threads'[t].task # 0 => wire'[threads'[t].task] # {}
  BY <1>1, <1>2, <1>6, ThreadsStand
<1>8. OnePlace' /\ ItemsOK' /\ OwnerTypes'
  BY <1>1, <1>2, <1>5, <1>6, <1>7, SameStagedItself, StatusStep DEF OwnerTypes
<1>9. \A j \in DOMAIN suggestions : OnWire(j) => OnWire(j)'
  <2> SUFFICES ASSUME NEW j \in DOMAIN suggestions, OnWire(j) PROVE OnWire(j)'
    OBVIOUS
  <2>1. j \in 1 .. Len(suggestions)
    BY <1>2, PlacesInBounds
  <2>2. suggestions[j].kind = "update" => suggestions[j].target \in 1 .. MaxStaged
    BY DEF ItemsOK
  <2>3. SameItems(suggestions, suggestions') /\ suggestions'[j].merged = suggestions[j].merged
    BY <1>1, <1>2 DEF AsideTypes, SameMessages
  <2> QED
    BY <1>2, <1>6, <2>1, <2>2, <2>3, OnWireKept
<1>10. pc = "finish" => \A j : j = i => OnWire(j)'
  BY <1>1, <1>3, <1>4 DEF OnWire
<1>11. ApprovalsOK'
  <2>1. \A b \in Approver : approval'[b].pc # "idle" => approval'[b].of \in DOMAIN suggestions'
    BY <1>1, <1>5 DEF ApprovalsOK
  <2>2. \A b \in Approver : approval'[b].pc \in Swapped =>
           approval[b].pc \in Swapped /\ approval'[b].of = approval[b].of
              /\ approval'[b].messages = approval[b].messages
    BY <1>1, <1>5 DEF Swapped
  <2>3. \A b \in Approver : approval'[b].pc \in Swapped =>
           /\ suggestions'[approval'[b].of].status = "approving"
           /\ approval'[b].messages = Messages(suggestions'[approval'[b].of])
    BY <1>1, <2>2 DEF ApprovalsOK
  <2>4. \A b, d \in Approver : approval'[b].pc \in Swapped /\ approval'[d].pc \in Swapped =>
           (approval'[b].of = approval'[d].of => b = d)
    BY <2>2 DEF ApprovalsOK
  <2>5. \A b \in Approver : approval'[b].pc = "finish" =>
           \A j : j = approval'[b].of => OnWire(j)'
    BY <1>5, <1>9, <1>10 DEF ApprovalsOK
  <2>6. \A b \in Approver : approval'[b].pc = "finish" =>
           IF suggestions'[approval'[b].of].kind = "update"
           THEN Messages(suggestions'[approval'[b].of])
                   \subseteq wire'[suggestions'[approval'[b].of].target]
           ELSE suggestions'[approval'[b].of].origin \in wire'[approval'[b].of]
    BY <2>5 DEF OnWire
  <2> QED
    BY <2>1, <2>3, <2>4, <2>6 DEF ApprovalsOK, OnWire
<1>12. ApprovedIsWritten'
  BY <1>1, <1>9 DEF ApprovedIsWritten
<1> QED
  BY <1>8, <1>11, <1>12

\* The suggestion an approval has past its swap is its own.
LEMMA OwnSuggestion ==
    ASSUME OwnerTypes, OwnerSafe, NEW a \in Approver, approval[a].pc \in Swapped
    PROVE  /\ approval[a].of \in DOMAIN suggestions /\ suggestions \in Seq(Suggestion)
           /\ suggestions[approval[a].of].status = "approving"
           /\ \A b \in Approver \ {a} : approval[b].pc \in Swapped =>
                 approval[b].of \in DOMAIN suggestions \ {approval[a].of}
BY SMTT(30) DEF OwnerTypes, OwnerSafe, ApprovalsOK, Swapped

LEMMA ApproveFinishSafe ==
    ASSUME TypeOK, OwnerSafe, NEW a \in Approver, ApproveFinish(a)
    PROVE  OwnerSafe' /\ OwnerTypes'
<1> USE DEF OwnerSafe
<1> DEFINE i == approval[a].of
           s == suggestions[i]
           t == ThreadOf[s.origin]
           feeds == IF threads[t].suggestion = i THEN 0 ELSE threads[t].suggestion
           task == IF s.kind = "task" THEN i
                   ELSE IF s.kind = "update" THEN s.target ELSE threads[t].task
           n == Len(suggestions)
<1>1. /\ wire' = wire /\ approval[a].pc = "finish" /\ approval[a].pc \in Swapped /\ Done(a)
      /\ ledger' = ledger /\ scan' = scan /\ nature' = nature
  BY DEF ApproveFinish, Aside, TablesOnly, Mailbox, Swapped
<1>2. OwnerTypes
  BY TypesOfOwner
<1>3. /\ i \in DOMAIN suggestions /\ suggestions \in Seq(Suggestion) /\ s.status = "approving"
      /\ \A b \in Approver \ {a} : approval[b].pc \in Swapped =>
            approval[b].of \in DOMAIN suggestions \ {i}
  BY <1>1, <1>2, OwnSuggestion
<1>4. /\ i \in 1 .. n /\ i \in 1 .. MaxStaged /\ n \in Nat /\ DOMAIN suggestions = 1 .. n
  BY <1>2, <1>3, PlacesInBounds
<1>5. suggestions' = MoveTo(suggestions, i, "approved")
  BY <1>3 DEF ApproveFinish, Transition, CanMove
<1>6. /\ AsideTypes /\ suggestions'[i].status = "approved"
      /\ \A j \in DOMAIN suggestions \ {i} : suggestions'[j] = suggestions[j]
  BY <1>3, <1>5, MovedFacts DEF Status
<1>7. OnWire(i)
  BY <1>1 DEF ApprovalsOK
<1>8. t \in Thread /\ s.origin \in Copy
  BY <1>3, <1>4, SuggestionFields DEF Thread
<1>9. threads[t] \in [suggestion : 0 .. n, task : 0 .. n]
  BY <1>2, <1>8, SMTT(30) DEF OwnerTypes
<1>10. feeds \in 0 .. n
  <2>1. threads[t].suggestion \in 0 .. n
    BY <1>9
  <2> QED
    BY <1>4, <2>1, SMTT(30)
<1>11. task \in 0 .. n /\ (task # 0 => wire[task] # {})
  <2>1. CASE s.kind = "task"
    BY <1>4, <1>7, <2>1 DEF OnWire
  <2>2. CASE s.kind = "update"
    <3>1. task = s.target
      BY <2>2
    <3>2. s.target \in 1 .. MaxStaged /\ wire[s.target] # {}
      BY <1>3, <2>2 DEF ItemsOK
    <3>3. s.target \in DOMAIN suggestions
      BY <3>2 DEF ItemsOK
    <3>4. s.target \in 1 .. n
      BY <1>4, <3>3
    <3> HIDE DEF task, s, n
    <3> QED
      BY <3>1, <3>2, <3>4
  <2>3. CASE s.kind # "task" /\ s.kind # "update"
    <3>1. task = threads[t].task
      BY <2>3, SMTT(30)
    <3> HIDE DEF task
    <3> QED
      BY <1>8, <1>9, <3>1, Zenon DEF ItemsOK
  <2> QED
    BY <2>1, <2>2, <2>3, Zenon
<1>12. threads' = [threads EXCEPT ![t] = [suggestion |-> feeds, task |-> task]]
  BY DEF ApproveFinish
<1> HIDE DEF feeds, task
<1>13. /\ threads' \in [Thread -> [suggestion : 0 .. n, task : 0 .. n]]
       /\ \A x \in Thread : threads'[x].task # 0 => wire'[threads'[x].task] # {}
  <2> DEFINE r == [suggestion |-> feeds, task |-> task]
  <2>1. r \in [suggestion : 0 .. n, task : 0 .. n] /\ r.task = task
    BY <1>10, <1>11
  <2>2. threads' = [threads EXCEPT ![t] = r]
    BY <1>12
  <2> HIDE DEF r
  <2>3. threads \in [Thread -> [suggestion : 0 .. n, task : 0 .. n]]
    BY <1>2 DEF OwnerTypes
  <2>4. /\ threads' \in [Thread -> [suggestion : 0 .. n, task : 0 .. n]] /\ threads'[t] = r
        /\ \A x \in Thread \ {t} : threads'[x] = threads[x]
    BY <1>8, <2>1, <2>2, <2>3
  <2> QED
    BY <1>1, <1>11, <2>1, <2>4, ZenonT(40) DEF ItemsOK
<1>14. /\ approval' \in [Approver -> Approval] /\ approval'[a].pc = "idle"
       /\ \A b \in Approver \ {a} : approval'[b] = approval[b]
  BY <1>1, <1>2, DoneFacts
<1>15. OnePlace' /\ ItemsOK' /\ OwnerTypes'
  BY <1>1, <1>2, <1>6, <1>13, <1>14, WireStands, SameStagedItself, StatusStep
<1>16. SameItems(suggestions, suggestions') /\ suggestions' \in Seq(Suggestion)
  BY <1>6 DEF AsideTypes, SameMessages
<1>17. \A j \in 1 .. MaxStaged : wire[j] \subseteq wire'[j]
  BY <1>1
<1>18. ApprovalsOK'
  <2>1. \A b \in Approver :
           \/ /\ approval'[b] = approval[b]
              /\ approval[b].pc \in Swapped =>
                    suggestions'[approval[b].of] = suggestions[approval[b].of]
           \/ approval'[b].pc = "idle"
    BY <1>3, <1>6, <1>14
  <2> QED
    BY <1>2, <1>16, <1>17, <2>1, ApprovalsKept DEF Swapped
<1>19. ApprovedIsWritten'
  <2>1. \A j \in DOMAIN suggestions' :
           /\ j \in 1 .. n /\ suggestions'[j].merged = suggestions[j].merged
           /\ suggestions'[j].status = "approved" => suggestions[j].status = "approved" \/ OnWire(j)
    BY <1>4, <1>6, <1>7, SuggestionFields DEF AsideTypes, SameMessages
  <2> QED
    BY <1>2, <1>16, <1>17, <2>1, ApprovedKept
<1> QED
  BY <1>15, <1>18, <1>19

LEMMA ApproveRollbackSafe ==
    ASSUME TypeOK, OwnerSafe, NEW a \in Approver, ApproveRollback(a)
    PROVE  OwnerSafe' /\ OwnerTypes'
<1> USE DEF OwnerSafe
<1> DEFINE i == approval[a].of
           n == Len(suggestions)
<1>1. /\ wire' = wire /\ approval[a].pc \in Swapped /\ Done(a) /\ threads' = threads
      /\ ledger' = ledger /\ scan' = scan /\ nature' = nature
  BY DEF ApproveRollback, Aside, TablesOnly, Mailbox, Swapped
<1>2. OwnerTypes
  BY TypesOfOwner
<1>3. /\ i \in DOMAIN suggestions /\ suggestions \in Seq(Suggestion)
      /\ suggestions[i].status = "approving"
      /\ \A b \in Approver \ {a} : approval[b].pc \in Swapped =>
            approval[b].of \in DOMAIN suggestions \ {i}
  BY <1>1, <1>2, OwnSuggestion
<1>4. DOMAIN suggestions = 1 .. n
  BY <1>2, PlacesInBounds
<1>5. suggestions' = MoveTo(suggestions, i, "pending")
  BY <1>3 DEF ApproveRollback, Transition, CanMove
<1>6. /\ AsideTypes /\ suggestions'[i].status = "pending"
      /\ \A j \in DOMAIN suggestions \ {i} : suggestions'[j] = suggestions[j]
  BY <1>3, <1>5, MovedFacts DEF Status
<1>7. /\ approval' \in [Approver -> Approval] /\ approval'[a].pc = "idle"
      /\ \A b \in Approver \ {a} : approval'[b] = approval[b]
  BY <1>1, <1>2, DoneFacts
<1>8. OnePlace' /\ ItemsOK' /\ OwnerTypes'
  BY <1>1, <1>2, <1>6, <1>7, WireStands, SameStagedItself, StatusStep DEF OwnerTypes
<1>9. SameItems(suggestions, suggestions') /\ suggestions' \in Seq(Suggestion)
  BY <1>6 DEF AsideTypes, SameMessages
<1>10. \A j \in 1 .. MaxStaged : wire[j] \subseteq wire'[j]
  BY <1>1
<1>11. ApprovalsOK'
  <2>1. \A b \in Approver :
           \/ /\ approval'[b] = approval[b]
              /\ approval[b].pc \in Swapped =>
                    suggestions'[approval[b].of] = suggestions[approval[b].of]
           \/ approval'[b].pc = "idle"
    BY <1>3, <1>6, <1>7
  <2> QED
    BY <1>2, <1>9, <1>10, <2>1, ApprovalsKept DEF Swapped
<1>12. ApprovedIsWritten'
  <2>1. \A j \in DOMAIN suggestions' :
           /\ j \in 1 .. n /\ suggestions'[j].merged = suggestions[j].merged
           /\ suggestions'[j].status = "approved" => suggestions[j].status = "approved"
    BY <1>4, <1>6, SuggestionFields DEF AsideTypes, SameMessages
  <2> QED
    BY <1>2, <1>9, <1>10, <2>1, ApprovedKept
<1> QED
  BY <1>8, <1>11, <1>12

\* The suggestion a thread feeds is set, or cleared.
LEMMA HookFacts ==
    ASSUME OwnerTypes, ItemsOK, NEW t \in Thread, NEW n \in Nat, Len(suggestions) <= n,
           NEW i \in 0 .. n, threads' = Hook(t, i),
           \A j \in 1 .. MaxStaged : wire[j] \subseteq wire'[j]
    PROVE  /\ threads' \in [Thread -> [suggestion : 0 .. n, task : 0 .. n]]
           /\ \A x \in Thread : threads'[x].task # 0 => wire'[threads'[x].task] # {}
<1> DEFINE r == [threads[t] EXCEPT !.suggestion = i]
           m == Len(suggestions)
<1>1. m \in Nat
  BY PlacesInBounds
<1>2. threads \in [Thread -> [suggestion : 0 .. m, task : 0 .. m]]
  BY DEF OwnerTypes
<1> HIDE DEF m
<1>3. \A x \in [suggestion : 0 .. m, task : 0 .. m] : x \in [suggestion : 0 .. n, task : 0 .. n]
  <2>1. \A y \in 0 .. m : y \in 0 .. n
    BY <1>1 DEF m
  <2> QED
    BY <2>1
<1>4. threads \in [Thread -> [suggestion : 0 .. n, task : 0 .. n]]
  BY <1>2, <1>3
<1>5. r \in [suggestion : 0 .. n, task : 0 .. n] /\ r.task = threads[t].task
  BY <1>4
<1>6. threads' = [threads EXCEPT ![t] = r]
  BY DEF Hook
<1> HIDE DEF r
<1>7. /\ threads' \in [Thread -> [suggestion : 0 .. n, task : 0 .. n]] /\ threads'[t] = r
      /\ \A x \in Thread \ {t} : threads'[x] = threads[x]
  BY <1>4, <1>5, <1>6
<1>8. \A x \in Thread : threads'[x].task = threads[x].task
  BY <1>5, <1>7
<1>9. \A x \in Thread : threads[x].task # 0 => wire'[threads[x].task] # {}
  BY ThreadsStand
<1> QED
  BY <1>7, <1>8, <1>9

LEMMA RejectSafe ==
    ASSUME TypeOK, OwnerSafe, NEW i \in DOMAIN suggestions, Reject(i)
    PROVE  OwnerSafe' /\ OwnerTypes'
<1> USE DEF OwnerSafe
<1> DEFINE n == Len(suggestions)
           t == ThreadOf[suggestions[i].origin]
<1>1. /\ wire' = wire /\ approval' = approval
      /\ ledger' = ledger /\ scan' = scan /\ nature' = nature
      /\ suggestions[i].status = "pending" /\ suggestions' = MoveTo(suggestions, i, "rejected")
      /\ threads' = IF threads[t].suggestion = i THEN Hook(t, 0) ELSE threads
  BY DEF Reject, Aside, TablesOnly, Mailbox, CanMove
<1>2. OwnerTypes /\ suggestions \in Seq(Suggestion)
  BY TypesOfOwner DEF OwnerTypes
<1>3. DOMAIN suggestions = 1 .. n /\ n \in Nat /\ 0 \in 0 .. n
  BY <1>2, PlacesInBounds
<1>4. /\ AsideTypes /\ suggestions'[i].status = "rejected"
      /\ \A j \in DOMAIN suggestions \ {i} : suggestions'[j] = suggestions[j]
  BY <1>1, <1>2, MovedFacts DEF Status
<1>5. \A j \in 1 .. MaxStaged : wire[j] \subseteq wire'[j]
  BY <1>1
<1>6. t \in Thread
  BY <1>2, <1>3, SuggestionFields DEF Thread
<1>7. /\ threads' \in [Thread -> [suggestion : 0 .. n, task : 0 .. n]]
      /\ \A x \in Thread : threads'[x].task # 0 => wire'[threads'[x].task] # {}
  <2>1. CASE threads' = Hook(t, 0)
    BY <1>2, <1>3, <1>5, <1>6, <2>1, HookFacts
  <2>2. CASE threads' = threads
    BY <1>1, <1>2, <2>2, WireStands DEF OwnerTypes
  <2> QED
    BY <1>1, <2>1, <2>2
<1>8. OnePlace' /\ ItemsOK' /\ OwnerTypes'
  BY <1>1, <1>2, <1>4, <1>7, WireStands, SameStagedItself, StatusStep DEF OwnerTypes
<1>9. SameItems(suggestions, suggestions') /\ suggestions' \in Seq(Suggestion)
  BY <1>4 DEF AsideTypes, SameMessages
<1>10. ApprovalsOK'
  <2>1. \A b \in Approver : approval[b].pc \in Swapped =>
           suggestions'[approval[b].of] = suggestions[approval[b].of]
    BY <1>1, <1>2, <1>4, OwnSuggestion
  <2> QED
    BY <1>1, <1>2, <1>5, <1>9, <2>1, ApprovalsKept
<1>11. ApprovedIsWritten'
  <2>1. \A j \in DOMAIN suggestions' :
           /\ j \in 1 .. n /\ suggestions'[j].merged = suggestions[j].merged
           /\ suggestions'[j].status = "approved" => suggestions[j].status = "approved"
    BY <1>3, <1>4, SuggestionFields DEF AsideTypes, SameMessages
  <2> QED
    BY <1>2, <1>5, <1>9, <2>1, ApprovedKept
<1> QED
  BY <1>8, <1>10, <1>11

\* A run takes back the approvals nobody is working on.
LEMMA StartRunOwner ==
    ASSUME TypeOK, ScanSafe, OwnerSafe, StartRun PROVE OwnerSafe' /\ OwnerTypes'
<1> USE DEF OwnerSafe
<1> DEFINE n == Len(suggestions)
<1>1. /\ wire' = wire /\ approval' = approval /\ threads' = threads
      /\ ledger' = RecoverUnsettled(ledger) /\ nature' = nature
  BY DEF StartRun, Mailbox
<1>2. scan'.pc = "select"
  BY DEF StartRun, Idle
<1>3. OwnerTypes /\ suggestions \in Seq(Suggestion)
  BY TypesOfOwner DEF OwnerTypes
<1>4. DOMAIN suggestions = 1 .. n /\ n \in Nat
  BY <1>3, PlacesInBounds
<1>5. PICK old \in SUBSET {i \in DOMAIN suggestions : Stuck(i)} :
         suggestions' = [i \in DOMAIN suggestions |->
                           IF i \in old THEN [suggestions[i] EXCEPT !.status = "pending"]
                                        ELSE suggestions[i]]
  BY DEF StartRun
<1>6. \A i \in 1 .. n :
         /\ suggestions'[i] \in Suggestion
         /\ suggestions'[i].origin = suggestions[i].origin
         /\ suggestions'[i].merged = suggestions[i].merged
         /\ suggestions'[i].kind = suggestions[i].kind
         /\ suggestions'[i].target = suggestions[i].target
         /\ i \in old => suggestions'[i].status = "pending"
         /\ i \notin old => suggestions'[i] = suggestions[i]
  <2> SUFFICES ASSUME NEW i \in 1 .. n
               PROVE /\ suggestions'[i] \in Suggestion
                     /\ suggestions'[i].origin = suggestions[i].origin
                     /\ suggestions'[i].merged = suggestions[i].merged
                     /\ suggestions'[i].kind = suggestions[i].kind
                     /\ suggestions'[i].target = suggestions[i].target
                     /\ i \in old => suggestions'[i].status = "pending"
                     /\ i \notin old => suggestions'[i] = suggestions[i]
    OBVIOUS
  <2> DEFINE x == suggestions[i]
             y == [x EXCEPT !.status = "pending"]
  <2>1. x \in Suggestion
    BY <1>3
  <2>2. suggestions'[i] = IF i \in old THEN y ELSE x
    BY <1>4, <1>5
  <2> HIDE DEF x
  <2>3. /\ y \in Suggestion /\ y.status = "pending" /\ y.origin = x.origin
        /\ y.merged = x.merged /\ y.kind = x.kind /\ y.target = x.target
    BY <2>1 DEF Suggestion
  <2> HIDE DEF y
  <2> QED
    BY <2>1, <2>2, <2>3 DEF x
<1>7. suggestions' \in Seq(Suggestion) /\ Len(suggestions') = n /\ DOMAIN suggestions' = 1 .. n
  <2> DEFINE f(i) == IF i \in old THEN [suggestions[i] EXCEPT !.status = "pending"]
                                  ELSE suggestions[i]
  <2>1. suggestions' = [i \in 1 .. n |-> f(i)]
    BY <1>4, <1>5
  <2>2. \A i \in 1 .. n : f(i) \in Suggestion
    BY <1>6, <2>1
  <2> HIDE DEF f
  <2> QED
    BY <1>4, <2>1, <2>2
<1>8. AsideTypes
  BY <1>4, <1>6, <1>7 DEF AsideTypes, SameMessages, SameItems
<1>9. SameStaged(ledger, ledger')
  BY <1>1, LedgerIsGood, RecoverKeepsStaged DEF ScanSafe
<1>10. OnePlace' /\ ItemsOK' /\ OwnerTypes'
  BY <1>1, <1>2, <1>3, <1>8, <1>9, WireStands, StatusStep DEF OwnerTypes
<1>11. SameItems(suggestions, suggestions') /\ suggestions' \in Seq(Suggestion)
  BY <1>8 DEF AsideTypes, SameMessages
<1>12. \A j \in 1 .. MaxStaged : wire[j] \subseteq wire'[j]
  BY <1>1
<1>13. ApprovalsOK'
  <2>1. \A b \in Approver : approval[b].pc \in Swapped =>
           suggestions'[approval[b].of] = suggestions[approval[b].of]
    BY <1>3, <1>4, <1>5, <1>6, OwnSuggestion DEF Stuck
  <2> QED
    BY <1>1, <1>3, <1>11, <1>12, <2>1, ApprovalsKept
<1>14. ApprovedIsWritten'
  <2>1. \A j \in DOMAIN suggestions' :
           /\ j \in 1 .. n /\ suggestions'[j].merged = suggestions[j].merged
           /\ suggestions'[j].status = "approved" => suggestions[j].status = "approved"
    BY <1>6, <1>7
  <2> QED
    BY <1>3, <1>11, <1>12, <2>1, ApprovedKept
<1> QED
  BY <1>10, <1>13, <1>14

\* A crash takes the approvals with the scan.
LEMMA DieOwner ==
    ASSUME TypeOK, OwnerSafe, Die PROVE OwnerSafe' /\ OwnerTypes'
<1> USE DEF OwnerSafe
<1>1. /\ wire' = wire /\ threads' = threads /\ suggestions' = suggestions
      /\ ledger' = ledger /\ nature' = nature /\ scan' = Idle
      /\ approval' = [a \in Approver |-> NoApproval]
  BY DEF Die, store, Mailbox
<1>2. OwnerTypes /\ AsideTypes
  BY <1>1, TypesOfOwner, SameItself
<1>3. NoApproval \in Approval /\ NoApproval.pc = "idle" /\ "idle" \notin Swapped
  BY CopyAssumption DEF NoApproval, Approval, Swapped
<1>4. approval' \in [Approver -> Approval] /\ \A a \in Approver : approval'[a].pc = "idle"
  BY <1>1, <1>3
<1>5. scan'.pc # "write"
  BY <1>1 DEF Idle
<1>6. OnePlace' /\ ItemsOK' /\ OwnerTypes'
  BY <1>1, <1>2, <1>4, <1>5, WireStands, SameStagedItself, StatusStep DEF OwnerTypes
<1>7. ApprovalsOK'
  BY <1>3, <1>4 DEF ApprovalsOK, Swapped
<1>8. ApprovedIsWritten'
  BY <1>1 DEF ApprovedIsWritten, OnWire
<1> QED
  BY <1>6, <1>7, <1>8

\* A step of the scan or of the mailbox that only looks at the owner's tables.
LEMMA OwnerUntouched ==
    ASSUME TypeOK, OwnerSafe, SameStaged(ledger, ledger'),
           UNCHANGED <<nature, suggestions, threads, wire, approval>>,
           scan'.pc # "write" \/ scan' = scan
    PROVE  OwnerSafe' /\ OwnerTypes'
<1> USE DEF OwnerSafe
<1>1. OwnerTypes /\ AsideTypes
  BY TypesOfOwner, SameItself
<1>2. OnePlace' /\ ItemsOK' /\ OwnerTypes'
  BY <1>1, WireStands, StatusStep DEF OwnerTypes
<1>3. ApprovalsOK'
  BY DEF ApprovalsOK, OnWire
<1>4. ApprovedIsWritten'
  BY DEF ApprovedIsWritten, OnWire
<1> QED
  BY <1>2, <1>3, <1>4

-----------------------------------------------------------------------------
(* A message put before the owner, alone or with another.                    *)

\* Nothing in front of the owner is the message in hand, nor another copy of it.
LEMMA NewToTheOwner ==
    ASSUME TypeOK, ScanSafe, OnePlace, scan.pc \in {"stages", "write"}
    PROVE  \A i \in DOMAIN suggestions : \A c \in Messages(suggestions[i]) :
              c \in Copy /\ OwnKey(c) # OwnKey(scan.copy)
<1>1. Held(ledger, OwnKey(scan.copy))
  BY HandHeld
<1> SUFFICES ASSUME NEW i \in DOMAIN suggestions, NEW c \in Messages(suggestions[i])
             PROVE  c \in Copy /\ OwnKey(c) # OwnKey(scan.copy)
  OBVIOUS
<1>2. ledger[OwnKey(c)].outcome \in Kept
  BY DEF OnePlace, Messages, Kept
<1>3. ledger[OwnKey(scan.copy)].outcome = Unsettled
  BY <1>1 DEF Held
<1>4. c \in Copy
  BY TypesOfOwner, SuggestionFields DEF OwnerTypes
<1> QED
  BY <1>2, <1>3, <1>4 DEF Kept, Unsettled

Staging(o) ==
    /\ scan.pc \in {"stages", "write"}
    /\ ledger' = Settle(ledger, OwnKey(scan.copy), o)
    /\ nature' = nature /\ wire' = wire

LEMMA StagingFacts ==
    ASSUME TypeOK, ScanSafe, NEW o \in Outcome, Staging(o)
    PROVE  /\ scan.copy \in Copy /\ OwnKey(scan.copy) \in Key
           /\ ledger'[OwnKey(scan.copy)].outcome = o
           /\ \A k \in Key \ {OwnKey(scan.copy)} : ledger'[k] = ledger[k]
           /\ ~Settled(ledger, OwnKey(scan.copy))
BY HandHeld, SettledHand DEF Staging

LEMMA InsertedFacts ==
    ASSUME suggestions \in Seq(Suggestion), NEW c \in Copy, NEW kind \in Kind, NEW target \in Nat,
           suggestions' = Insert(suggestions, c, kind, target)
    PROVE  /\ suggestions' \in Seq(Suggestion) /\ Len(suggestions') = Len(suggestions) + 1
           /\ SameMessages(suggestions, suggestions')
           /\ \A j \in 1 .. Len(suggestions) : suggestions'[j] = suggestions[j]
           /\ suggestions'[Len(suggestions) + 1].origin = c
           /\ Messages(suggestions'[Len(suggestions) + 1]) = {c}
           /\ suggestions'[Len(suggestions) + 1].kind = kind
           /\ suggestions'[Len(suggestions) + 1].target = target
           /\ suggestions'[Len(suggestions) + 1].merged = {}
           /\ suggestions'[Len(suggestions) + 1].status = "pending"
<1> DEFINE r == [origin |-> c, merged |-> {}, kind |-> kind, target |-> target,
                 status |-> "pending"]
<1>1. r \in Suggestion /\ Messages(r) = {c} /\ r.origin = c /\ r.kind = kind
      /\ r.target = target /\ r.merged = {} /\ r.status = "pending"
  BY DEF Suggestion, Messages
<1>2. suggestions' = Append(suggestions, r)
  BY DEF Insert
<1> HIDE DEF r
<1>3. /\ suggestions' \in Seq(Suggestion) /\ Len(suggestions') = Len(suggestions) + 1
      /\ \A j \in 1 .. Len(suggestions) : suggestions'[j] = suggestions[j]
      /\ suggestions'[Len(suggestions) + 1] = r
  BY <1>1, <1>2
<1>4. SameMessages(suggestions, suggestions')
  <2>1. Len(suggestions) \in Nat
    OBVIOUS
  <2> QED
    BY <1>3, <2>1 DEF SameMessages, SameItems
<1> QED
  BY <1>1, <1>3, <1>4

LEMMA InsertSafe ==
    ASSUME TypeOK, ScanSafe, OwnerSafe, Staging("staged"), Room,
           NEW kind \in Kind, NEW target \in Nat,
           kind = "update" => target \in 1 .. MaxStaged /\ wire[target] # {},
           suggestions' = Insert(suggestions, scan.copy, kind, target),
           threads' = Hook(ThreadOf[scan.copy], Len(suggestions')),
           scan'.pc # "write", approval' \in [Approver -> Approval],
           \A a \in Approver :
              \/ approval'[a] = approval[a]
              \/ approval'[a].pc \notin Swapped /\ approval'[a].of = Len(suggestions')
    PROVE  OwnerSafe' /\ OwnerTypes'
<1> USE DEF OwnerSafe
<1> DEFINE c == scan.copy
           n == Len(suggestions)
           new == n + 1
           k == OwnKey(c)
<1>1. "staged" \in Outcome /\ wire' = wire /\ nature' = nature
  BY DEF Outcome, Staging
<1>2. /\ c \in Copy /\ k \in Key /\ ledger'[k].outcome = "staged"
      /\ \A j \in Key \ {k} : ledger'[j] = ledger[j]
  BY <1>1, StagingFacts
<1>3. OwnerTypes /\ suggestions \in Seq(Suggestion)
  BY TypesOfOwner DEF OwnerTypes
<1>4. n \in Nat /\ DOMAIN suggestions = 1 .. n /\ new \in Nat /\ n <= new
  BY <1>3, PlacesInBounds
<1>5. /\ suggestions' \in Seq(Suggestion) /\ Len(suggestions') = new
      /\ SameMessages(suggestions, suggestions')
      /\ \A j \in 1 .. n : suggestions'[j] = suggestions[j]
      /\ suggestions'[new].origin = c /\ Messages(suggestions'[new]) = {c}
      /\ suggestions'[new].kind = kind /\ suggestions'[new].target = target
      /\ suggestions'[new].merged = {} /\ suggestions'[new].status = "pending"
  BY <1>2, <1>3, InsertedFacts
<1>6. DOMAIN suggestions' = 1 .. new /\ new \notin 1 .. n
  BY <1>4, <1>5
<1>7. \A j \in 1 .. new : j \in 1 .. n \/ j = new
  BY <1>4
<1>8. new <= MaxStaged
  BY <1>4, CopyAssumption DEF Room
<1>9. \A i \in 1 .. n : \A d \in Messages(suggestions[i]) : d \in Copy /\ OwnKey(d) # k
  BY <1>4, NewToTheOwner DEF Staging
<1>10. OnePlace'
  <2>1. \A i, j \in DOMAIN suggestions' :
           \A d \in Messages(suggestions'[i]), e \in Messages(suggestions'[j]) :
               OwnKey(d) = OwnKey(e) => i = j /\ d = e
    <3> SUFFICES ASSUME NEW i \in DOMAIN suggestions', NEW j \in DOMAIN suggestions',
                        NEW d \in Messages(suggestions'[i]), NEW e \in Messages(suggestions'[j]),
                        OwnKey(d) = OwnKey(e)
                 PROVE  i = j /\ d = e
      OBVIOUS
    <3>1. CASE i \in 1 .. n /\ j \in 1 .. n
      BY <1>4, <1>5, <3>1 DEF OnePlace
    <3>2. CASE i = new /\ j \in 1 .. n
      BY <1>5, <1>9, <3>2
    <3>3. CASE i \in 1 .. n /\ j = new
      BY <1>5, <1>9, <3>3
    <3>4. CASE i = new /\ j = new
      BY <1>5, <3>4
    <3> QED
      BY <1>6, <1>7, <3>1, <3>2, <3>3, <3>4
  <2>2. \A i \in DOMAIN suggestions' :
         /\ ledger'[OwnKey(suggestions'[i].origin)].outcome = "staged"
         /\ \A d \in suggestions'[i].merged : ledger'[OwnKey(d)].outcome = "attached"
    <3> SUFFICES ASSUME NEW i \in DOMAIN suggestions'
                 PROVE  /\ ledger'[OwnKey(suggestions'[i].origin)].outcome = "staged"
                        /\ \A d \in suggestions'[i].merged : ledger'[OwnKey(d)].outcome = "attached"
      OBVIOUS
    <3>1. CASE i = new
      BY <1>2, <1>5, <3>1
    <3>2. CASE i \in 1 .. n
      <4>1. \A d \in Messages(suggestions[i]) : OwnKey(d) \in Key \ {k}
        BY <1>9, <3>2, KeyType
      <4>2. \A d \in Messages(suggestions[i]) : ledger'[OwnKey(d)] = ledger[OwnKey(d)]
        BY <1>2, <4>1
      <4>3. /\ ledger[OwnKey(suggestions[i].origin)].outcome = "staged"
            /\ \A d \in suggestions[i].merged : ledger[OwnKey(d)].outcome = "attached"
        BY <1>4, <3>2 DEF OnePlace
      <4> QED
        BY <1>5, <3>2, <4>2, <4>3 DEF Messages
    <3> QED
      BY <1>6, <1>7, <3>1, <3>2
  <2>3. \A j \in Key : ledger'[j].outcome \in {"staged", "attached"} =>
           \E i \in DOMAIN suggestions', d \in Copy :
               d \in Messages(suggestions'[i]) /\ OwnKey(d) = j
    <3> SUFFICES ASSUME NEW j \in Key, ledger'[j].outcome \in {"staged", "attached"}
                 PROVE  \E i \in DOMAIN suggestions', d \in Copy :
                           d \in Messages(suggestions'[i]) /\ OwnKey(d) = j
      OBVIOUS
    <3>1. CASE j = k
      <4>1. new \in DOMAIN suggestions'
        BY <1>4, <1>6
      <4> QED
        BY <1>2, <1>5, <3>1, <4>1
    <3>2. CASE j # k
      <4>1. PICK i \in DOMAIN suggestions, d \in Copy :
               d \in Messages(suggestions[i]) /\ OwnKey(d) = j
        BY <1>2, <3>2 DEF OnePlace
      <4>2. i \in 1 .. n /\ i \in DOMAIN suggestions'
        BY <1>4, <1>6
      <4> QED
        BY <1>5, <4>1, <4>2
    <3> QED
      BY <3>1, <3>2
  <2> QED
    BY <2>1, <2>2, <2>3 DEF OnePlace
<1>11. SameItems(suggestions, suggestions')
  BY <1>5 DEF SameMessages
<1>12. \A j \in 1 .. MaxStaged : wire[j] \subseteq wire'[j]
  BY <1>1
<1>13. ThreadOf[c] \in Thread /\ new \in 0 .. new
  BY <1>2, <1>4 DEF Thread
<1>14. /\ threads' \in [Thread -> [suggestion : 0 .. new, task : 0 .. new]]
       /\ \A x \in Thread : threads'[x].task # 0 => wire'[threads'[x].task] # {}
  <2>1. threads' = Hook(ThreadOf[c], new)
    BY <1>5
  <2> QED
    BY <1>3, <1>4, <1>12, <1>13, <2>1, HookFacts
<1>15. \A i \in Len(suggestions) + 1 .. Len(suggestions') :
          suggestions'[i].kind = "update" =>
             suggestions'[i].target \in 1 .. MaxStaged /\ wire'[suggestions'[i].target] # {}
  BY <1>1, <1>4, <1>5, SMTT(30)
<1>16. ItemsOK'
  <2>1. \A i \in 1 .. MaxStaged : wire'[i] # {} =>
           i \in DOMAIN suggestions /\ suggestions[i].origin \in wire'[i]
    BY <1>1, <1>3, WireStands
  <2>2. suggestions' \in Seq(Suggestion)
    BY <1>5
  <2>3. \/ scan'.pc # "write"
        \/ scan' = scan /\ nature' = nature /\ Len(suggestions') = Len(suggestions)
    OBVIOUS
  <2>4. ItemsOK
    OBVIOUS
  <2>5. \A x \in Thread : threads'[x].task # 0 => wire'[threads'[x].task] # {}
    BY <1>14
  <2> HIDE DEF new, n, k, c
  <2> QED
    BY ONLY <1>3, <1>11, <1>12, <1>14, <1>15, <2>1, <2>2, <2>3, <2>4, <2>5, ItemsKept
<1>17. OwnerTypes'
  BY <1>1, <1>3, <1>5, <1>8, <1>14 DEF OwnerTypes
<1>18. ApprovalsOK'
  <2>1. \A a \in Approver : approval[a].pc \in Swapped =>
           suggestions'[approval[a].of] = suggestions[approval[a].of]
    BY <1>3, <1>4, <1>5, OwnSuggestion
  <2>2. Len(suggestions') \in DOMAIN suggestions'
    BY <1>4, <1>5, <1>6
  <2> QED
    BY <1>3, <1>5, <1>11, <1>12, <2>1, <2>2, ApprovalsKept
<1>19. ApprovedIsWritten'
  <2>1. \A j \in DOMAIN suggestions' : suggestions'[j].status = "approved" =>
           /\ j \in 1 .. n /\ suggestions'[j].merged = suggestions[j].merged
           /\ suggestions[j].status = "approved"
    BY <1>5, <1>6, <1>7
  <2> QED
    BY <1>3, <1>5, <1>11, <1>12, <2>1, ApprovedKept
<1> QED
  BY <1>10, <1>16, <1>17, <1>18, <1>19

LEMMA AttachedFacts ==
    ASSUME suggestions \in Seq(Suggestion), NEW i \in DOMAIN suggestions, NEW c \in Copy,
           suggestions' = Attach(suggestions, i, c)
    PROVE  /\ suggestions' \in Seq(Suggestion) /\ Len(suggestions') = Len(suggestions)
           /\ SameItems(suggestions, suggestions')
           /\ suggestions'[i].status = suggestions[i].status
           /\ suggestions'[i].merged = suggestions[i].merged \cup {c}
           /\ Messages(suggestions'[i]) = Messages(suggestions[i]) \cup {c}
           /\ \A j \in DOMAIN suggestions \ {i} : suggestions'[j] = suggestions[j]
<1>1. /\ suggestions' \in Seq(Suggestion) /\ Len(suggestions') = Len(suggestions)
      /\ SameItems(suggestions, suggestions')
      /\ suggestions'[i].origin = suggestions[i].origin
      /\ suggestions'[i].status = suggestions[i].status
      /\ suggestions'[i].merged = suggestions[i].merged \cup {c}
      /\ \A j \in DOMAIN suggestions \ {i} : suggestions'[j] = suggestions[j]
  BY AttachFacts
<1> QED
  BY <1>1 DEF Messages

LEMMA AttachPlace ==
    ASSUME TypeOK, ScanSafe, OnePlace, Staging("attached"), NEW i \in DOMAIN suggestions,
           suggestions' = Attach(suggestions, i, scan.copy)
    PROVE  OnePlace'
<1> DEFINE c == scan.copy
           n == Len(suggestions)
           k == OwnKey(c)
<1>1. "attached" \in Outcome
  BY DEF Outcome
<1>2. /\ c \in Copy /\ k \in Key /\ ledger'[k].outcome = "attached"
      /\ \A j \in Key \ {k} : ledger'[j] = ledger[j]
  BY <1>1, StagingFacts
<1>3. OwnerTypes /\ suggestions \in Seq(Suggestion)
  BY TypesOfOwner DEF OwnerTypes
<1>4. n \in Nat /\ DOMAIN suggestions = 1 .. n
  BY <1>3, PlacesInBounds
<1>5. /\ suggestions' \in Seq(Suggestion) /\ Len(suggestions') = n
      /\ SameItems(suggestions, suggestions')
      /\ suggestions'[i].merged = suggestions[i].merged \cup {c}
      /\ Messages(suggestions'[i]) = Messages(suggestions[i]) \cup {c}
      /\ \A j \in DOMAIN suggestions \ {i} : suggestions'[j] = suggestions[j]
  BY <1>2, <1>3, AttachedFacts
<1>6. DOMAIN suggestions' = DOMAIN suggestions
  BY <1>4, <1>5
<1>7. \A j \in DOMAIN suggestions : suggestions'[j].origin = suggestions[j].origin
  BY <1>4, <1>5 DEF SameItems
<1>8. \A j \in DOMAIN suggestions : \A d \in Messages(suggestions[j]) : d \in Copy /\ OwnKey(d) # k
  BY NewToTheOwner DEF Staging
<1>9. \A j \in DOMAIN suggestions : \A d \in Messages(suggestions[j]) :
         ledger'[OwnKey(d)] = ledger[OwnKey(d)]
  <2>1. \A j \in DOMAIN suggestions : \A d \in Messages(suggestions[j]) : OwnKey(d) \in Key \ {k}
    BY <1>8, KeyType
  <2> QED
    BY <1>2, <2>1
<1>10. \A j \in DOMAIN suggestions : \A d \in Messages(suggestions'[j]) :
          d \in Messages(suggestions[j]) \/ (d = c /\ j = i)
  BY <1>5
<1>11. \A j, h \in DOMAIN suggestions' :
         \A d \in Messages(suggestions'[j]), e \in Messages(suggestions'[h]) :
             OwnKey(d) = OwnKey(e) => j = h /\ d = e
  <2> SUFFICES ASSUME NEW j \in DOMAIN suggestions, NEW h \in DOMAIN suggestions,
                      NEW d \in Messages(suggestions'[j]), NEW e \in Messages(suggestions'[h]),
                      OwnKey(d) = OwnKey(e)
               PROVE  j = h /\ d = e
    BY <1>6
  <2>1. CASE d \in Messages(suggestions[j]) /\ e \in Messages(suggestions[h])
    BY <2>1 DEF OnePlace
  <2>2. CASE d = c /\ j = i /\ e \in Messages(suggestions[h])
    BY <1>8, <2>2
  <2>3. CASE d \in Messages(suggestions[j]) /\ e = c /\ h = i
    BY <1>8, <2>3
  <2> QED
    BY <1>10, <2>1, <2>2, <2>3
<1>12. \A j \in DOMAIN suggestions' :
         /\ ledger'[OwnKey(suggestions'[j].origin)].outcome = "staged"
         /\ \A d \in suggestions'[j].merged : ledger'[OwnKey(d)].outcome = "attached"
  <2> SUFFICES ASSUME NEW j \in DOMAIN suggestions
               PROVE  /\ ledger'[OwnKey(suggestions'[j].origin)].outcome = "staged"
                      /\ \A d \in suggestions'[j].merged : ledger'[OwnKey(d)].outcome = "attached"
    BY <1>6
  <2>1. ledger'[OwnKey(suggestions'[j].origin)].outcome = "staged"
    BY <1>7, <1>9 DEF OnePlace, Messages
  <2>2. \A d \in suggestions[j].merged : ledger'[OwnKey(d)].outcome = "attached"
    BY <1>9 DEF OnePlace, Messages
  <2>3. \A d \in suggestions'[j].merged : d \in suggestions[j].merged \/ d = c
    BY <1>5
  <2> QED
    BY <1>2, <2>1, <2>2, <2>3
<1>13. \A j \in Key : ledger'[j].outcome \in {"staged", "attached"} =>
         \E h \in DOMAIN suggestions', d \in Copy :
             d \in Messages(suggestions'[h]) /\ OwnKey(d) = j
  <2> SUFFICES ASSUME NEW j \in Key, ledger'[j].outcome \in {"staged", "attached"}
               PROVE  \E h \in DOMAIN suggestions', d \in Copy :
                         d \in Messages(suggestions'[h]) /\ OwnKey(d) = j
    OBVIOUS
  <2>1. CASE j = k
    BY <1>2, <1>5, <1>6, <2>1
  <2>2. CASE j # k
    <3>1. PICK h \in DOMAIN suggestions, d \in Copy :
             d \in Messages(suggestions[h]) /\ OwnKey(d) = j
      BY <1>2, <2>2 DEF OnePlace
    <3>2. d \in Messages(suggestions'[h])
      BY <1>5, <3>1
    <3> QED
      BY <1>6, <3>1, <3>2
  <2> QED
    BY <2>1, <2>2
<1> QED
  BY <1>11, <1>12, <1>13 DEF OnePlace

\* A message merged into a suggestion that is still pending: no approval has
\* read it yet, and none of it was written as approved.
LEMMA AttachSafe ==
    ASSUME TypeOK, ScanSafe, OwnerSafe, Staging("attached"), NEW i \in DOMAIN suggestions,
           Pending(i), suggestions' = Attach(suggestions, i, scan.copy),
           threads' = Hook(ThreadOf[scan.copy], i), scan'.pc # "write", approval' = approval
    PROVE  OwnerSafe' /\ OwnerTypes'
<1> USE DEF OwnerSafe
<1>1. wire' = wire /\ nature' = nature /\ "attached" \in Outcome
  BY DEF Staging, Outcome
<1>2. scan.copy \in Copy
  BY <1>1, StagingFacts
<1>3. OwnerTypes /\ suggestions \in Seq(Suggestion)
  BY TypesOfOwner DEF OwnerTypes
<1>4. /\ Len(suggestions) \in Nat /\ DOMAIN suggestions = 1 .. Len(suggestions)
      /\ Len(suggestions) <= Len(suggestions)
  BY <1>3, PlacesInBounds
<1>5. /\ suggestions' \in Seq(Suggestion) /\ Len(suggestions') = Len(suggestions)
      /\ SameItems(suggestions, suggestions')
      /\ suggestions'[i].status = suggestions[i].status
      /\ \A j \in DOMAIN suggestions \ {i} : suggestions'[j] = suggestions[j]
  BY <1>2, <1>3, AttachedFacts
<1>6. OnePlace'
  BY AttachPlace
<1>7. \A j \in 1 .. MaxStaged : wire[j] \subseteq wire'[j]
  BY <1>1
<1>8. ThreadOf[scan.copy] \in Thread /\ i \in 0 .. Len(suggestions)
  BY <1>2, <1>4 DEF Thread
<1>9. /\ threads' \in [Thread -> [suggestion : 0 .. Len(suggestions), task : 0 .. Len(suggestions)]]
      /\ \A x \in Thread : threads'[x].task # 0 => wire'[threads'[x].task] # {}
  BY <1>3, <1>4, <1>7, <1>8, HookFacts
<1>10. \A j \in Len(suggestions) + 1 .. Len(suggestions') :
          suggestions'[j].kind = "update" =>
             suggestions'[j].target \in 1 .. MaxStaged /\ wire'[suggestions'[j].target] # {}
  BY <1>4, <1>5
<1>11. ItemsOK'
  <2>1. \A j \in 1 .. MaxStaged : wire'[j] # {} =>
           j \in DOMAIN suggestions /\ suggestions[j].origin \in wire'[j]
    BY <1>1, <1>3, WireStands
  <2> QED
    BY <1>3, <1>5, <1>7, <1>9, <1>10, <2>1, ItemsKept
<1>12. OwnerTypes'
  BY <1>1, <1>3, <1>5, <1>9 DEF OwnerTypes
<1>13. ApprovalsOK'
  <2>1. \A a \in Approver : approval[a].pc \in Swapped =>
           /\ approval[a].of \in DOMAIN suggestions
           /\ suggestions[approval[a].of].status = "approving"
    BY DEF ApprovalsOK, Swapped
  <2>2. \A a \in Approver : approval[a].pc \in Swapped =>
           suggestions'[approval[a].of] = suggestions[approval[a].of]
    BY <1>5, <2>1 DEF Pending
  <2> QED
    BY <1>3, <1>5, <1>7, <2>2, ApprovalsKept
<1>14. ApprovedIsWritten'
  <2>1. \A j \in DOMAIN suggestions' : suggestions'[j].status = "approved" =>
           /\ j \in 1 .. Len(suggestions) /\ suggestions'[j].merged = suggestions[j].merged
           /\ suggestions[j].status = "approved"
    BY <1>4, <1>5 DEF Pending
  <2> QED
    BY <1>3, <1>5, <1>7, <2>1, ApprovedKept
<1> QED
  BY <1>6, <1>11, <1>12, <1>13, <1>14

-----------------------------------------------------------------------------
(* The steps that write what became of the message in hand.                  *)


LEMMA InviteIsThere ==
    ASSUME suggestions \in Seq(Suggestion), NEW c \in Copy
    PROVE  InviteSuggestion(suggestions, c) \in {0} \cup DOMAIN suggestions
<1> DEFINE made == {i \in InThread(suggestions, ThreadOf[c]) : suggestions[i].kind = "invite"}
<1>1. Len(suggestions) \in Nat /\ DOMAIN suggestions = 1 .. Len(suggestions)
  BY SuggestionFields
<1>2. made \in SUBSET DOMAIN suggestions
  BY DEF InThread
<1>3. made \in SUBSET (0 .. Len(suggestions))
  BY <1>1, <1>2
<1>4. InviteSuggestion(suggestions, c) = IF made = {} THEN 0 ELSE Latest(made)
  BY DEF InviteSuggestion
<1> HIDE DEF made
<1>5. made # {} => Latest(made) \in made
  BY <1>1, <1>3, LatestOfSet
<1> QED
  BY <1>2, <1>4, <1>5

LEMMA SettledQuietly ==
    ASSUME TypeOK, ScanSafe, OwnerSafe, scan.pc \in {"stages", "write"},
           UNCHANGED <<folder, cursor>>, NEW o \in Outcome \ Kept,
           ledger' = Settle(ledger, OwnKey(scan.copy), o), Passed,
           UNCHANGED <<nature, suggestions, threads, wire, approval>>
    PROVE  ScanSafe' /\ ScanTypes' /\ OwnerSafe' /\ OwnerTypes'
<1>1. ScanSafe' /\ ScanTypes' /\ SameStaged(ledger, ledger')
  BY SettledAndPassed
<1>2. scan'.pc # "write"
  BY PassedFields
<1> QED
  BY <1>1, <1>2, OwnerUntouched

LEMMA FastPathSafe ==
    ASSUME TypeOK, ScanSafe, OwnerSafe, FastPath
    PROVE  ScanSafe' /\ ScanTypes' /\ OwnerSafe' /\ OwnerTypes'
<1> DEFINE c == scan.copy
           t == ThreadOf[c]
           old == InviteSuggestion(suggestions, c)
           status == IF old = 0 THEN "none" ELSE suggestions[old].status
<1>1. /\ scan.pc = "stages" /\ Passed /\ UNCHANGED <<folder, cursor>>
      /\ nature' = nature /\ wire' = wire /\ approval' = approval
  BY DEF FastPath, Quiet, Mailbox
<1>2. c \in Copy /\ suggestions \in Seq(Suggestion)
  BY <1>1, HandHeld, TypesOfOwner DEF OwnerTypes
<1>3. old \in {0} \cup DOMAIN suggestions
  BY <1>2, InviteIsThere
<1>4. scan'.pc # "write"
  BY <1>1, PassedFields
<1>5. CASE /\ Room /\ suggestions' = Insert(suggestions, c, "invite", 0)
           /\ threads' = Hook(t, Len(suggestions'))
           /\ ledger' = Settle(ledger, OwnKey(c), "staged")
  <2>1. "staged" \in Outcome /\ "invite" \in Kind /\ Staging("staged")
    BY <1>1, <1>5 DEF Outcome, Kind, Staging
  <2>2. ScanSafe' /\ ScanTypes'
    BY <1>1, <1>5, <2>1, SettledAndPassed
  <2>3. approval' \in [Approver -> Approval]
    BY <1>1 DEF TypeOK
  <2>4. OwnerSafe' /\ OwnerTypes'
    BY <1>1, <1>4, <1>5, <2>1, <2>3, InsertSafe
  <2> QED
    BY <2>2, <2>4
<1>6. CASE /\ status = "pending" /\ suggestions' = Attach(suggestions, old, c)
           /\ threads' = Hook(t, old) /\ ledger' = Settle(ledger, OwnKey(c), "attached")
  <2>1. "attached" \in Outcome /\ Staging("attached")
    BY <1>1, <1>6 DEF Outcome, Staging
  <2>2. ScanSafe' /\ ScanTypes'
    BY <1>1, <1>6, <2>1, SettledAndPassed
  <2>3. old \in DOMAIN suggestions /\ Pending(old)
    BY <1>3, <1>6 DEF Pending
  <2>4. OwnerSafe' /\ OwnerTypes'
    BY <1>1, <1>4, <1>6, <2>1, <2>3, AttachSafe
  <2> QED
    BY <2>2, <2>4
<1>7. CASE /\ UNCHANGED <<suggestions, threads>>
           /\ \E o \in {"duplicate", "suppressed"} : ledger' = Settle(ledger, OwnKey(c), o)
  <2>1. \A o \in {"duplicate", "suppressed"} : o \in Outcome \ Kept
    BY DEF Outcome, Kept
  <2> QED
    BY <1>1, <1>7, <2>1, SettledQuietly
<1> QED
  BY <1>5, <1>6, <1>7 DEF FastPath

\* The plans _dedup may make: what each refers to is there.
PlanOf(w, i) == [what |-> w, of |-> i]

LEMMA PlanForms ==
    ASSUME NEW c \in Copy, NEW p \in Plans(c)
    PROVE  \/ p = PlanOf("merge", threads[ThreadOf[c]].suggestion)
                /\ threads[ThreadOf[c]].suggestion # 0
           \/ \E w \in {"duplicate", "suppressed", "new"} : p = PlanOf(w, 0)
           \/ p = PlanOf("update", threads[ThreadOf[c]].task) /\ threads[ThreadOf[c]].task # 0
           \/ \E i \in DOMAIN suggestions : p = PlanOf("merge", i)
           \/ \E w \in {"update", "same task"}, i \in OpenTasks : p = PlanOf(w, i)
<1> DEFINE t == ThreadOf[c]
           th == threads[t]
           plan(what, S) == {PlanOf(what, i) : i \in S}
           held == {i \in InThread(suggestions, t) :
                   /\ suggestions[i].kind \in {"event", "invite"}
                   /\ suggestions[i].status \in {"approved", "approving"}}
           pending == {i \in DOMAIN suggestions : Pending(i)}
<1>1. /\ p \in plan("merge", {th.suggestion}) => p = PlanOf("merge", th.suggestion)
      /\ \A w : p \in plan(w, {0}) => p = PlanOf(w, 0)
      /\ p \in plan("update", {th.task}) => p = PlanOf("update", th.task)
      /\ p \in plan("merge", pending) => \E i \in pending : p = PlanOf("merge", i)
      /\ \A w : p \in plan(w, OpenTasks) => \E i \in OpenTasks : p = PlanOf(w, i)
  OBVIOUS
<1>2. p \in IF th.suggestion # 0 /\ Pending(th.suggestion) THEN plan("merge", {th.suggestion})
        ELSE (IF RejectedIn(rejections, t) THEN plan("suppressed", {0}) ELSE {}) \cup
             (IF nature[c] = "event" /\ held # {} THEN plan("duplicate", {0}) ELSE {}) \cup
             (IF nature[c] = "task" /\ th.task # 0
              THEN plan("duplicate", {0}) \cup plan("update", {th.task})
              ELSE plan("new", {0})
                     \cup plan("merge", pending)
                     \cup (IF nature[c] = "task"
                           THEN plan("update", OpenTasks) \cup plan("same task", OpenTasks)
                           ELSE {}))
  BY DEF Plans, PlanOf
<1> HIDE DEF plan, held, th, t, pending
<1>3. \/ th.suggestion # 0 /\ p \in plan("merge", {th.suggestion})
      \/ p \in plan("suppressed", {0})
      \/ p \in plan("duplicate", {0})
      \/ th.task # 0 /\ p \in plan("update", {th.task})
      \/ p \in plan("new", {0})
      \/ p \in plan("merge", pending)
      \/ p \in plan("update", OpenTasks) \/ p \in plan("same task", OpenTasks)
  BY ONLY <1>2
<1>5. \A i \in pending : i \in DOMAIN suggestions
  BY DEF pending
<1> QED
  BY <1>1, <1>3, <1>5 DEF th, t

LEMMA PlanRefers ==
    ASSUME TypeOK, OwnerSafe, NEW c \in Copy, NEW p \in Plans(c)
    PROVE  /\ p \in Plan
           /\ p.what \in {"merge", "update", "same task"} => p.of \in DOMAIN suggestions
           /\ p.what \in {"update", "same task"} => wire[p.of] # {}
<1> DEFINE t == ThreadOf[c]
<1>1. /\ OwnerTypes /\ t \in Thread
      /\ DOMAIN suggestions = 1 .. Len(suggestions) /\ Len(suggestions) \in Nat
      /\ \A x \in 1 .. Len(suggestions) : x \in 1 .. MaxStaged
  BY TypesOfOwner, PlacesInBounds DEF Thread
<1>2. /\ threads[t].suggestion # 0 => threads[t].suggestion \in DOMAIN suggestions
      /\ threads[t].task # 0 => /\ threads[t].task \in DOMAIN suggestions
                                /\ wire[threads[t].task] # {}
  <2>1. threads[t] \in [suggestion : 0 .. Len(suggestions), task : 0 .. Len(suggestions)]
    BY <1>1 DEF OwnerTypes
  <2>2. threads[t].suggestion \in 0 .. Len(suggestions) /\ threads[t].task \in 0 .. Len(suggestions)
    BY <2>1
  <2>3. \A x \in 0 .. Len(suggestions) : x # 0 => x \in 1 .. Len(suggestions)
    BY <1>1
  <2> QED
    BY <1>1, <2>2, <2>3 DEF OwnerSafe, ItemsOK
<1>3. \A i \in DOMAIN suggestions : \A w \in {"merge", "update", "same task"} :
         PlanOf(w, i) \in Plan /\ PlanOf(w, i).what = w /\ PlanOf(w, i).of = i
  <2>1. \A i \in DOMAIN suggestions : i \in 0 .. MaxStaged
    BY <1>1
  <2> QED
    BY <2>1 DEF PlanOf, Plan
<1>4. \A w \in {"duplicate", "suppressed", "new"} :
         PlanOf(w, 0) \in Plan /\ PlanOf(w, 0).what = w
  <2>1. 0 \in 0 .. MaxStaged
    BY CopyAssumption
  <2> QED
    BY <2>1 DEF PlanOf, Plan
<1>5. \A i \in OpenTasks : i \in DOMAIN suggestions /\ wire[i] # {}
  BY DEF OpenTasks
<1>6. CASE p = PlanOf("merge", threads[t].suggestion) /\ threads[t].suggestion # 0
  BY <1>2, <1>3, <1>6
<1>7. CASE \E w \in {"duplicate", "suppressed", "new"} : p = PlanOf(w, 0)
  BY <1>4, <1>7
<1>8. CASE p = PlanOf("update", threads[t].task) /\ threads[t].task # 0
  <2>1. threads[t].task \in DOMAIN suggestions /\ wire[threads[t].task] # {}
    BY <1>2, <1>8
  <2>2. p \in Plan /\ p.what = "update" /\ p.of = threads[t].task
    BY <1>3, <1>8, <2>1
  <2> QED
    BY <2>1, <2>2
<1>9. CASE \E i \in DOMAIN suggestions : p = PlanOf("merge", i)
  <2>1. PICK i \in DOMAIN suggestions : p = PlanOf("merge", i)
    BY <1>9
  <2>2. p \in Plan /\ p.what = "merge" /\ p.of = i
    BY <1>3, <2>1
  <2> QED
    BY <2>1, <2>2
<1>10. CASE \E w \in {"update", "same task"}, i \in OpenTasks : p = PlanOf(w, i)
  <2>1. PICK w \in {"update", "same task"}, i \in OpenTasks : p = PlanOf(w, i)
    BY <1>10
  <2>2. i \in DOMAIN suggestions /\ wire[i] # {}
    BY <1>5, <2>1
  <2>3. p \in Plan /\ p.of = i
    BY <1>3, <2>1, <2>2
  <2> QED
    BY <2>2, <2>3
<1> QED
  BY <1>6, <1>7, <1>8, <1>9, <1>10, PlanForms

LEMMA DedupOwner ==
    ASSUME TypeOK, ScanSafe, OwnerSafe, Dedup
    PROVE  ScanSafe' /\ ScanTypes' /\ OwnerSafe' /\ OwnerTypes'
<1> USE DEF OwnerSafe
<1> DEFINE c == scan.copy
<1>1. /\ scan.pc = "stages" /\ UNCHANGED <<ledger, folder, cursor>>
      /\ nature' = nature /\ wire' = wire /\ approval' = approval
      /\ suggestions' = suggestions /\ threads' = threads
      /\ nature[c] \in {"task", "event"}
  BY DEF Dedup, Asked, Quiet, DecideOnly, Mailbox
<1>2. c \in Copy /\ OwnerTypes /\ AsideTypes
  BY <1>1, HandHeld, TypesOfOwner, SameItself
<1>3. PICK p \in Plans(c) : scan' = [scan EXCEPT !.pc = "write", !.plan = p]
  BY DEF Dedup
<1>4. /\ p \in Plan
      /\ p.what \in {"merge", "update", "same task"} => p.of \in DOMAIN suggestions
      /\ p.what \in {"update", "same task"} => wire[p.of] # {}
  BY <1>2, PlanRefers
<1>5. ScanSafe' /\ ScanTypes'
  BY <1>1, <1>3, <1>4, DedupSafe
<1>6. scan'.pc = "write" /\ scan'.plan = p /\ scan'.copy = c
  BY <1>3, <1>4, PcFields DEF ScanPc
<1>7. OnePlace'
  BY <1>1 DEF OnePlace
<1>8. ItemsOK'
  BY <1>1, <1>4, <1>6 DEF ItemsOK
<1>9. ApprovalsOK' /\ ApprovedIsWritten' /\ OwnerTypes'
  BY <1>1, <1>2 DEF ApprovalsOK, ApprovedIsWritten, OnWire, OwnerTypes
<1> QED
  BY <1>5, <1>7, <1>8, <1>9

\* The plan of the message in hand.
LEMMA PlanInHand ==
    ASSUME TypeOK, OwnerSafe, scan.pc = "write"
    PROVE  /\ nature[scan.copy] \in {"task", "event"}
           /\ scan.plan.what \in {"merge", "update", "same task"} =>
                 /\ scan.plan.of \in DOMAIN suggestions /\ scan.plan.of \in 1 .. MaxStaged
                 /\ scan.plan.of \in 0 .. Len(suggestions) /\ scan.plan.of \in Nat
           /\ scan.plan.what \in {"update", "same task"} => wire[scan.plan.of] # {}
<1>1. /\ nature[scan.copy] \in {"task", "event"}
      /\ scan.plan.what \in {"merge", "update", "same task"} =>
            scan.plan.of \in DOMAIN suggestions
      /\ scan.plan.what \in {"update", "same task"} => wire[scan.plan.of] # {}
  BY DEF OwnerSafe, ItemsOK
<1>2. /\ DOMAIN suggestions = 1 .. Len(suggestions) /\ Len(suggestions) \in Nat
      /\ \A x \in 1 .. Len(suggestions) : x \in 1 .. MaxStaged
  BY TypesOfOwner, PlacesInBounds
<1>3. \A x \in 1 .. Len(suggestions) : x \in 0 .. Len(suggestions) /\ x \in Nat
  BY <1>2
<1> QED
  BY <1>1, <1>2, <1>3

LEMMA StagedAndPassed ==
    ASSUME TypeOK, ScanSafe, OwnerSafe, Staging("staged"), Room, Passed,
           UNCHANGED <<folder, cursor, approval>>,
           NEW kind \in Kind, NEW target \in Nat,
           kind = "update" => target \in 1 .. MaxStaged /\ wire[target] # {},
           suggestions' = Insert(suggestions, scan.copy, kind, target),
           threads' = Hook(ThreadOf[scan.copy], Len(suggestions'))
    PROVE  ScanSafe' /\ ScanTypes' /\ OwnerSafe' /\ OwnerTypes'
<1>1. "staged" \in Outcome
  BY DEF Outcome
<1>2. ScanSafe' /\ ScanTypes'
  BY <1>1, SettledAndPassed DEF Staging
<1>3. scan'.pc # "write"
  BY PassedFields
<1>4. approval' \in [Approver -> Approval]
  BY DEF TypeOK
<1>5. OwnerSafe' /\ OwnerTypes'
  BY <1>3, <1>4, InsertSafe
<1> QED
  BY <1>2, <1>5

\* What the model was sure of is approved by the scan itself.
LEMMA StagedAndApproved ==
    ASSUME TypeOK, ScanSafe, OwnerSafe, Staging("staged"), Room, scan.pc = "write",
           UNCHANGED <<folder, cursor>>, NEW kind \in Kind, kind # "update",
           suggestions' = Insert(suggestions, scan.copy, kind, 0),
           threads' = Hook(ThreadOf[scan.copy], Len(suggestions')),
           ApproveItself(Len(suggestions'))
    PROVE  ScanSafe' /\ ScanTypes' /\ OwnerSafe' /\ OwnerTypes'
<1>1. "staged" \in Outcome /\ ledger' = Settle(ledger, OwnKey(scan.copy), "staged")
  BY DEF Outcome, Staging
<1>2. NoPlan \in Plan /\ "auto" \in ScanPc /\ 0 \in Nat
  BY CopyAssumption DEF NoPlan, Plan, ScanPc
<1>3. /\ SameScan /\ scan'.pc = "auto" /\ scan'.last = scan.last
      /\ scan'.queue = scan.queue /\ scan'.uid = scan.uid /\ scan'.copy = scan.copy
      /\ scan' \in Scan
  BY <1>2, PcFields DEF ApproveItself
<1>4. Held(ledger, OwnKey(scan.copy)) /\ scan.copy \in Copy /\ scan.pc \in InHand
  BY HandHeld
<1>5. /\ GoodLedger(ledger') /\ Grows(ledger, ledger')
      /\ Settled(ledger', OwnKey(scan.copy)) /\ \A j \in Key : ~Held(ledger', j)
  BY <1>1, <1>4, SettledHand
<1>6. ClaimsOK'
  BY <1>3, <1>5, ClaimsClear
<1>7. ScanSafe'
  BY <1>3, <1>4, <1>5, <1>6, GoesOn DEF InHand
<1>8. ScanTypes'
  BY <1>3, <1>4, <1>5, NewTypes, CopyAssumption DEF InHand
<1>9. /\ approval' \in [Approver -> Approval]
      /\ \A a \in Approver :
            \/ approval'[a] = approval[a]
            \/ approval'[a].pc \notin Swapped /\ approval'[a].of = Len(suggestions')
  <2> DEFINE r == [pc |-> "read", of |-> Len(suggestions'), messages |-> {}]
  <2>1. Len(suggestions') = Len(suggestions) + 1
    BY <1>2, <1>4, InsertedFacts, TypesOfOwner DEF OwnerTypes
  <2>2. Len(suggestions) \in Nat /\ Len(suggestions) < MaxStaged /\ MaxStaged \in Nat
    BY TypesOfOwner, PlacesInBounds, CopyAssumption DEF Room
  <2>3. Len(suggestions') \in 0 .. MaxStaged
    BY <2>1, <2>2
  <2>4. r \in Approval /\ r.pc \notin Swapped /\ r.of = Len(suggestions')
    BY <2>3 DEF Approval, Swapped
  <2>5. approval' = [approval EXCEPT ![Scanner] = r]
    BY DEF ApproveItself
  <2>6. approval \in [Approver -> Approval]
    BY DEF TypeOK
  <2> HIDE DEF r
  <2> QED
    BY <2>4, <2>5, <2>6
<1>10. OwnerSafe' /\ OwnerTypes'
  BY <1>2, <1>3, <1>9, InsertSafe
<1> QED
  BY <1>7, <1>8, <1>10

LEMMA StageNewSafe ==
    ASSUME TypeOK, ScanSafe, OwnerSafe, scan.pc = "write", StageNew(scan.copy),
           UNCHANGED <<folder, cursor, nature, wire>>
    PROVE  ScanSafe' /\ ScanTypes' /\ OwnerSafe' /\ OwnerTypes'
<1>1. /\ Room /\ Staging("staged")
      /\ suggestions' = Insert(suggestions, scan.copy, nature[scan.copy], 0)
      /\ threads' = Hook(ThreadOf[scan.copy], Len(suggestions'))
  BY DEF StageNew, Staging
<1>2. nature[scan.copy] \in Kind /\ nature[scan.copy] # "update" /\ 0 \in Nat
  BY PlanInHand DEF Kind
<1>3. CASE Passed /\ UNCHANGED approval
  BY <1>1, <1>2, <1>3, StagedAndPassed
<1>4. CASE ApproveItself(Len(suggestions'))
  BY <1>1, <1>2, <1>4, StagedAndApproved
<1> QED
  BY <1>3, <1>4 DEF StageNew

\* The thread is given the task it is about.
LEMMA SameTaskSafe ==
    ASSUME TypeOK, ScanSafe, OwnerSafe, scan.pc = "write", scan.plan.what = "same task",
           UNCHANGED <<folder, cursor, nature, wire, suggestions, approval>>,
           threads' = [threads EXCEPT ![ThreadOf[scan.copy]].task = scan.plan.of],
           ledger' = Settle(ledger, OwnKey(scan.copy), "duplicate"), Passed
    PROVE  ScanSafe' /\ ScanTypes' /\ OwnerSafe' /\ OwnerTypes'
<1> USE DEF OwnerSafe
<1> DEFINE t == ThreadOf[scan.copy]
           r == [threads[t] EXCEPT !.task = scan.plan.of]
           Feeding == [suggestion : 0 .. Len(suggestions), task : 0 .. Len(suggestions)]
<1>1. "duplicate" \in Outcome /\ "duplicate" \notin Kept
  BY DEF Outcome, Kept
<1>2. ScanSafe' /\ ScanTypes' /\ SameStaged(ledger, ledger')
  BY <1>1, SettledAndPassed
<1>3. scan'.pc # "write"
  BY PassedFields
<1>4. OwnerTypes /\ AsideTypes /\ scan.copy \in Copy /\ t \in Thread
  BY TypesOfOwner, SameItself, HandHeld DEF Thread
<1>5. scan.plan.of \in 0 .. Len(suggestions) /\ wire[scan.plan.of] # {}
  BY PlanInHand
<1>6. threads \in [Thread -> Feeding] /\ threads[t] \in Feeding
  BY <1>4 DEF OwnerTypes
<1>7. r \in Feeding /\ r.task = scan.plan.of
  BY <1>5, <1>6
<1>8. threads' = [threads EXCEPT ![t] = r]
  BY <1>6
<1> HIDE DEF r, Feeding
<1>9. /\ threads' \in [Thread -> Feeding] /\ threads'[t] = r
      /\ \A x \in Thread \ {t} : threads'[x] = threads[x]
  BY <1>4, <1>6, <1>7, <1>8
<1>10. \A x \in Thread : threads'[x].task # 0 => wire'[threads'[x].task] # {}
  BY <1>5, <1>7, <1>9, ZenonT(40) DEF ItemsOK
<1>11. OnePlace' /\ ItemsOK' /\ OwnerTypes'
  BY <1>2, <1>3, <1>4, <1>9, <1>10, WireStands, StatusStep DEF Feeding, OwnerTypes
<1>12. ApprovalsOK' /\ ApprovedIsWritten'
  BY DEF ApprovalsOK, ApprovedIsWritten, OnWire
<1> QED
  BY <1>2, <1>11, <1>12

LEMMA WriteSafe ==
    ASSUME TypeOK, ScanSafe, OwnerSafe, Write
    PROVE  ScanSafe' /\ ScanTypes' /\ OwnerSafe' /\ OwnerTypes'
<1> DEFINE c == scan.copy
           p == scan.plan
<1>1. /\ scan.pc = "write" /\ UNCHANGED <<folder, cursor, nature, wire>>
  BY DEF Write, Quiet, Mailbox
<1>2. CASE StageNew(c)
  BY <1>1, <1>2, StageNewSafe
<1>3. CASE /\ p.what = "merge" /\ StillPending(p.of)
           /\ suggestions' = Attach(suggestions, p.of, c)
           /\ threads' = Hook(ThreadOf[c], p.of)
           /\ ledger' = Settle(ledger, OwnKey(c), "attached")
           /\ Passed /\ UNCHANGED approval
  <2>1. "attached" \in Outcome /\ Staging("attached") /\ Pending(p.of)
    BY <1>1, <1>3 DEF Outcome, Staging, StillPending
  <2>2. ScanSafe' /\ ScanTypes'
    BY <1>1, <1>3, <2>1, SettledAndPassed
  <2>3. p.of \in DOMAIN suggestions /\ scan'.pc # "write"
    BY <1>1, <1>3, PlanInHand, PassedFields
  <2>4. OwnerSafe' /\ OwnerTypes'
    BY <1>3, <2>1, <2>3, AttachSafe
  <2> QED
    BY <2>2, <2>4
<1>4. CASE /\ p.what = "update" /\ Room
           /\ suggestions' = Insert(suggestions, c, "update", p.of)
           /\ threads' = Hook(ThreadOf[c], Len(suggestions'))
           /\ ledger' = Settle(ledger, OwnKey(c), "staged")
           /\ Passed /\ UNCHANGED approval
  <2>1. "update" \in Kind /\ Staging("staged")
    BY <1>1, <1>4 DEF Kind, Staging
  <2>2. p.of \in Nat /\ p.of \in 1 .. MaxStaged /\ wire[p.of] # {}
    BY <1>1, <1>4, PlanInHand
  <2> QED
    BY <1>1, <1>4, <2>1, <2>2, StagedAndPassed
<1>5. CASE /\ p.what = "same task"
           /\ threads' = [threads EXCEPT ![ThreadOf[c]].task = p.of]
           /\ ledger' = Settle(ledger, OwnKey(c), "duplicate")
           /\ Passed /\ UNCHANGED <<suggestions, approval>>
  BY <1>1, <1>5, SameTaskSafe
<1>6. CASE /\ p.what \in {"duplicate", "suppressed"}
           /\ ledger' = Settle(ledger, OwnKey(c), p.what)
           /\ Passed /\ UNCHANGED <<suggestions, threads, approval>>
  <2>1. \A o \in {"duplicate", "suppressed"} : o \in Outcome \ Kept
    BY DEF Outcome, Kept
  <2> QED
    BY <1>1, <1>6, <2>1, SettledQuietly
<1> QED
  BY <1>2, <1>3, <1>4, <1>5, <1>6 DEF Write

-----------------------------------------------------------------------------
(* Every step keeps the invariant.                                           *)

Safe == ScanSafe /\ ScanTypes /\ OwnerSafe /\ OwnerTypes

LEMMA SafeIsIInv == Safe <=> IInv
<1>1. Safe => TypeOK
  BY BothTypes DEF Safe
<1>2. TypeOK => ScanTypes /\ OwnerTypes
  BY TypesOfScan, TypesOfOwner
<1> QED
  BY <1>1, <1>2 DEF Safe, IInv, ScanSafe, OwnerSafe

LEMMA IdleFields ==
    /\ Idle \in Scan /\ Idle.pc = "idle" /\ Idle.copy = NoCopy
    /\ [Idle EXCEPT !.pc = "select"] \in Scan
    /\ [Idle EXCEPT !.pc = "select"].pc = "select"
    /\ [Idle EXCEPT !.pc = "select"].copy = NoCopy
    /\ [Idle EXCEPT !.pc = "select", !.reconnected = TRUE] \in Scan
    /\ [Idle EXCEPT !.pc = "select", !.reconnected = TRUE].pc = "select"
    /\ [Idle EXCEPT !.pc = "select", !.reconnected = TRUE].copy = NoCopy
<1>1. NoPlan \in Plan
  BY CopyAssumption DEF NoPlan, Plan
<1>2. Idle \in Scan /\ Idle.pc = "idle" /\ Idle.copy = NoCopy
  BY <1>1 DEF Idle, Scan, ScanPc
<1> QED
  BY <1>2 DEF Scan, ScanPc

\* A step of the scan that leaves the ledger, the folder and the cursor.
LEMMA TypesKept ==
    ASSUME TypeOK, ScanSafe, UNCHANGED <<ledger, folder, cursor>>, scan' \in Scan,
           scan'.pc \notin InHand, scan'.copy = NoCopy
    PROVE  ScanTypes'
BY LedgerIsGood, NewTypes DEF ScanSafe

LEMMA OutOfHand ==
    ASSUME TypeOK, scan.pc \notin InHand PROVE scan.copy = NoCopy
BY DEF TypeOK

LEMMA StartRunKeeps ==
    ASSUME TypeOK, Safe, StartRun PROVE Safe'
<1>1. /\ ledger' = RecoverUnsettled(ledger) /\ folder' = folder /\ cursor' = cursor
      /\ scan' = [Idle EXCEPT !.pc = "select"]
  BY DEF StartRun, Mailbox
<1>2. GoodLedger(ledger')
  BY <1>1, LedgerIsGood, RecoverRows DEF Safe, ScanSafe
<1>3. scan' \in Scan /\ scan'.pc = "select" /\ scan'.copy = NoCopy
  BY <1>1, IdleFields
<1>4. ScanTypes'
  BY <1>1, <1>2, <1>3, NewTypes DEF InHand
<1> QED
  BY <1>4, StartRunSafe, StartRunOwner DEF Safe

LEMMA SelectKeeps ==
    ASSUME TypeOK, Safe, Select PROVE Safe'
<1> DEFINE known == cursor.validity = folder.validity
           floor == IF known THEN cursor.last ELSE 0
           by == ~known \/ cursor.window
           next == Len(folder.at) + 1
<1>1. UNCHANGED <<ledger, folder, cursor, nature, suggestions, threads, wire, approval>>
  BY DEF Select, Mailbox, store
<1>2. scan' = [scan EXCEPT !.pc = "search", !.validity = folder.validity,
                           !.uidnext = next, !.floor = floor, !.last = floor, !.window = by]
  BY DEF Select
<1>3. scan \in Scan /\ scan.copy = NoCopy
  BY ScanFields, OutOfHand DEF Select, InHand
<1>4. floor \in Nat /\ by \in BOOLEAN /\ next \in Nat /\ folder.validity \in Nat
  BY DEF TypeOK
<1> HIDE DEF floor, by, next
<1>5. scan' \in Scan /\ scan'.pc = "search" /\ scan'.copy = NoCopy
  BY <1>2, <1>3, <1>4 DEF Scan, ScanPc
<1>6. ScanTypes'
  BY <1>1, <1>5, TypesKept DEF Safe, InHand
<1>7. OwnerSafe' /\ OwnerTypes'
  BY <1>1, <1>5, SameStagedItself, OwnerUntouched DEF Safe
<1> QED
  BY <1>6, <1>7, SelectSafe DEF Safe

LEMMA SearchKeeps ==
    ASSUME TypeOK, Safe, Search PROVE Safe'
<1> DEFINE found == {u \in DOMAIN folder.at :
                       /\ u > scan.floor /\ folder.at[u] # NoCopy
                       /\ scan.window => folder.at[u] \notin Old}
           first == {u \in found : Cardinality({v \in found : v < u}) < MaxPerRun}
           top == IF first = {} THEN 0 ELSE MaxOf(first)
           cut == first # found
<1>1. UNCHANGED <<ledger, folder, cursor, nature, suggestions, threads, wire, approval>>
  BY DEF Search, Mailbox, store
<1>2. scan' = [scan EXCEPT !.pc = "next", !.queue = first, !.truncated = cut, !.top = top]
  BY DEF Search
<1>3. scan \in Scan /\ scan.copy = NoCopy /\ Len(folder.at) \in Nat
  BY ScanFields, OutOfHand DEF Search, InHand
<1>4. first \in SUBSET DOMAIN folder.at /\ DOMAIN folder.at = 1 .. Len(folder.at)
  BY ScanFields
<1>5. first \in SUBSET (0 .. Len(folder.at)) /\ first \in SUBSET Nat
  BY <1>3, <1>4
<1> HIDE DEF first
<1>6. top \in Nat
  BY <1>3, <1>5, MaxOfSet
<1>7. cut \in BOOLEAN
  OBVIOUS
<1> HIDE DEF top, cut
<1>8. scan' \in Scan /\ scan'.pc = "next" /\ scan'.copy = NoCopy
  BY <1>2, <1>3, <1>5, <1>6, <1>7, ZenonT(40) DEF Scan, ScanPc
<1>9. ScanTypes'
  BY <1>1, <1>8, TypesKept DEF Safe, InHand
<1>10. OwnerSafe' /\ OwnerTypes'
  BY <1>1, <1>8, SameStagedItself, OwnerUntouched DEF Safe
<1> QED
  BY <1>9, <1>10, SearchSafe DEF Safe

LEMMA EndOfFolderKeeps ==
    ASSUME TypeOK, Safe, EndOfFolder PROVE Safe'
<1> DEFINE done == ~stopping
<1>1. UNCHANGED <<ledger, folder, cursor, nature, suggestions, threads, wire, approval>>
  BY DEF EndOfFolder, Mailbox, store
<1>2. done \in BOOLEAN /\ Leave(FALSE, done)
  BY DEF EndOfFolder
<1> HIDE DEF done
<1>3. scan'.pc = "cursor" /\ scan'.copy = NoCopy /\ scan' \in Scan
  BY <1>2, LeaveFields
<1>4. ScanTypes'
  BY <1>1, <1>3, TypesKept DEF Safe, InHand
<1>5. OwnerSafe' /\ OwnerTypes'
  BY <1>1, <1>3, SameStagedItself, OwnerUntouched DEF Safe
<1> QED
  BY <1>4, <1>5, EndOfFolderSafe DEF Safe

LEMMA DisconnectKeeps ==
    ASSUME TypeOK, Safe, Disconnect PROVE Safe'
<1>1. UNCHANGED <<ledger, folder, cursor, nature, suggestions, threads, wire, approval>>
  BY DEF Disconnect, Mailbox, store
<1>2. scan.copy = NoCopy
  BY OutOfHand DEF Disconnect, InHand
<1>3. scan'.pc = "cursor" /\ scan'.copy = NoCopy /\ scan' \in Scan
  BY <1>2, DisconnectFields
<1>4. ScanTypes'
  BY <1>1, <1>3, TypesKept DEF Safe, InHand
<1>5. OwnerSafe' /\ OwnerTypes'
  BY <1>1, <1>3, SameStagedItself, OwnerUntouched DEF Safe
<1> QED
  BY <1>4, <1>5, DisconnectSafe DEF Safe

LEMMA SaveCursorKeeps ==
    ASSUME TypeOK, Safe, SaveCursor PROVE Safe'
<1> DEFINE more == scan.window /\ (~scan.complete \/ scan.truncated)
<1>1. UNCHANGED <<ledger, folder, nature, suggestions, threads, wire, approval>>
  BY DEF SaveCursor, Mailbox, store
<1>2. \/ scan' = [Idle EXCEPT !.pc = "select", !.reconnected = TRUE]
      \/ scan' = Idle
  BY DEF SaveCursor
<1>3. scan' \in Scan /\ scan'.pc \in {"select", "idle"} /\ scan'.copy = NoCopy
  BY <1>2, IdleFields
<1>4. /\ scan.pc = "cursor" /\ scan.validity \in Nat /\ Len(folder.at) \in Nat
      /\ cursor \in [validity : Nat, last : Nat, window : BOOLEAN]
      /\ scan.window \in BOOLEAN /\ scan.truncated \in BOOLEAN
  BY ScanFields DEF SaveCursor, TypeOK, Scan
<1>5. EndsAt \in Nat
  <2>1. EndsAt \in 0 .. Len(folder.at)
    BY <1>4, EndsAtSafe DEF Safe, ScanSafe
  <2> QED
    BY <1>4, <2>1
<1>6. more \in BOOLEAN
  BY <1>4
<1>7. \/ cursor' = [validity |-> scan.validity, last |-> EndsAt, window |-> more]
      \/ cursor' = cursor
  BY DEF SaveCursor
<1> HIDE DEF more
<1>8. cursor' \in [validity : Nat, last : Nat, window : BOOLEAN]
  BY <1>4, <1>5, <1>6, <1>7
<1>9. ScanTypes'
  BY <1>1, <1>3, <1>8, TypesOfScan DEF ScanTypes, InHand
<1>10. OwnerSafe' /\ OwnerTypes'
  BY <1>1, <1>3, SameStagedItself, OwnerUntouched DEF Safe
<1> QED
  BY <1>9, <1>10, SaveCursorSafe DEF Safe

\* A step of the scan that the owner's tables do not notice.
LEMMA ScanOnly ==
    ASSUME TypeOK, Safe, ScanSafe', ScanTypes', SameStaged(ledger, ledger'),
           scan'.pc # "write", UNCHANGED <<nature, suggestions, threads, wire, approval>>
    PROVE  Safe'
BY OwnerUntouched DEF Safe

\* Where the message in hand goes from each of its steps.
LEMMA AfterFetch ==
    ASSUME TypeOK, Fetch PROVE scan'.pc # "write"
<1>1. scan \in Scan /\ scan.pc = "next"
  BY ScanFields DEF Fetch
<1>2. PICK u \in scan.queue :
         \/ scan' = [scan EXCEPT !.queue = scan.queue \ {u}]
         \/ scan' = [scan EXCEPT !.queue = @ \ {u}, !.last = u]
         \/ scan' = [scan EXCEPT !.queue = scan.queue \ {u}, !.last = u]
         \/ scan' = [scan EXCEPT !.pc = "parse", !.queue = scan.queue \ {u}, !.uid = u,
                                 !.copy = folder.at[u]]
         \/ Leave(FALSE, FALSE)
  BY DEF Fetch, SkipOversize, Retry
<1>3. CASE \/ scan' = [scan EXCEPT !.queue = scan.queue \ {u}]
           \/ scan' = [scan EXCEPT !.queue = @ \ {u}, !.last = u]
           \/ scan' = [scan EXCEPT !.queue = scan.queue \ {u}, !.last = u]
  BY <1>1, <1>3 DEF Scan
<1>4. CASE scan' = [scan EXCEPT !.pc = "parse", !.queue = scan.queue \ {u}, !.uid = u,
                                !.copy = folder.at[u]]
  BY <1>1, <1>4 DEF Scan
<1>5. CASE Leave(FALSE, FALSE)
  BY <1>5, LeaveFields
<1> QED
  BY <1>2, <1>3, <1>4, <1>5

LEMMA AfterParse ==
    ASSUME TypeOK, Parse PROVE scan'.pc # "write"
<1>1. scan \in Scan
  BY ScanFields
<1>2. Passed \/ Leave(FALSE, FALSE) \/ scan' = [scan EXCEPT !.pc = "stages"]
  BY DEF Parse, Retry
<1>3. CASE scan' = [scan EXCEPT !.pc = "stages"]
  BY <1>1, <1>3 DEF Scan
<1> QED
  BY <1>2, <1>3, PassedFields, LeaveFields

LEMMA FetchKeeps ==
    ASSUME TypeOK, Safe, Fetch PROVE Safe'
<1>1. UNCHANGED <<nature, suggestions, threads, wire, approval>>
  BY DEF Fetch, Mailbox
<1> QED
  BY <1>1, FetchSafe, AfterFetch, ScanOnly DEF Safe

LEMMA ParseKeeps ==
    ASSUME TypeOK, Safe, Parse PROVE Safe'
<1>1. UNCHANGED <<nature, suggestions, threads, wire, approval>>
  BY DEF Parse, DecideOnly, Quiet, Mailbox
<1> QED
  BY <1>1, ParseSafe, AfterParse, ScanOnly DEF Safe

LEMMA LocalStagesKeeps ==
    ASSUME TypeOK, Safe, LocalStages PROVE Safe'
<1>1. UNCHANGED <<nature, suggestions, threads, wire, approval>> /\ Passed
  BY DEF LocalStages, DecideOnly, Quiet, Mailbox
<1>2. scan'.pc # "write"
  BY <1>1, PassedFields
<1> QED
  BY <1>1, <1>2, LocalStagesSafe, ScanOnly DEF Safe

LEMMA NotActionableKeeps ==
    ASSUME TypeOK, Safe, NotActionable PROVE Safe'
<1>1. UNCHANGED <<nature, suggestions, threads, wire, approval>> /\ Passed
  BY DEF NotActionable, DecideOnly, Quiet, Mailbox
<1>2. scan'.pc # "write"
  BY <1>1, PassedFields
<1> QED
  BY <1>1, <1>2, NotActionableSafe, ScanOnly DEF Safe

LEMMA ModelFailedKeeps ==
    ASSUME TypeOK, Safe, ModelFailed PROVE Safe'
<1>1. /\ UNCHANGED <<nature, suggestions, threads, wire, approval>>
      /\ Leave(FALSE, FALSE)
  BY DEF ModelFailed, DecideOnly, Quiet, Mailbox, Retry
<1>2. scan'.pc # "write"
  BY <1>1, LeaveFields
<1> QED
  BY <1>1, <1>2, ModelFailedSafe, ScanOnly DEF Safe

LEMMA AutoDoneKeeps ==
    ASSUME TypeOK, Safe, AutoDone PROVE Safe'
<1>1. UNCHANGED <<ledger, nature, suggestions, threads, wire, approval>> /\ Passed
  BY DEF AutoDone, store, Quiet, Mailbox
<1>2. scan'.pc # "write"
  BY <1>1, PassedFields
<1> QED
  BY <1>1, <1>2, AutoDoneSafe, SameStagedItself, ScanOnly DEF Safe

LEMMA DieKeeps ==
    ASSUME TypeOK, Safe, Die PROVE Safe'
BY DieSafe, DieOwner DEF Safe

\* The mailbox moves while nobody, or a scan between two messages, looks.
LEMMA OutsideKeeps ==
    ASSUME TypeOK, Safe, Outside PROVE Safe'
<1>1. /\ Elsewhere /\ ScanSafe'
      /\ folder' \in [validity : Nat, at : Seq(Copy \cup {NoCopy})]
  BY DeliverSafe, ExpungeSafe, RenumberSafe DEF Outside, Safe, Deliver, Expunge, Renumber
<1>2. UNCHANGED <<ledger, cursor, scan, nature, suggestions, threads, wire, approval>>
  BY <1>1 DEF Elsewhere
<1>3. ScanTypes'
  BY <1>1, <1>2 DEF Safe, ScanTypes
<1>4. OwnerSafe' /\ OwnerTypes'
  BY <1>2, SameStagedItself, OwnerUntouched DEF Safe
<1> QED
  BY <1>1, <1>3, <1>4 DEF Safe

\* The owner's steps leave the scan where it is.
LEMMA ScanStands ==
    ASSUME TypeOK, Safe, UNCHANGED <<ledger, folder, cursor, scan>>
    PROVE  ScanSafe' /\ ScanTypes'
<1>1. ScanTypes'
  BY DEF Safe, ScanTypes
<1>2. ClaimsOK'
  BY DEF Safe, ScanSafe, ClaimsOK
<1>3. CursorOK' /\ PassedIsDecided'
  BY GrowsItself, CursorStays DEF Safe, ScanSafe
<1>4. \A u : DealtWith(u) <=> DealtWith(u)'
  BY DEF DealtWith, Decided
<1>5. Reading'
  BY <1>4 DEF Safe, ScanSafe, Reading
<1>6. Searched'
  BY <1>4 DEF Safe, ScanSafe, Searched
<1>7. Handled'
  BY DEF Safe, ScanSafe, Handled
<1> QED
  BY <1>1, <1>2, <1>3, <1>5, <1>6, <1>7 DEF ScanSafe

LEMMA ReviewKeeps ==
    ASSUME TypeOK, Safe, Owner \/ \E a \in Approver : ApproveNext(a)
    PROVE  Safe'
<1>1. ASSUME Aside, OwnerSafe', OwnerTypes' PROVE Safe'
  BY <1>1, ScanStands DEF Aside, Mailbox, Safe
<1>2. ASSUME NEW i \in DOMAIN suggestions, Reject(i) PROVE Safe'
  BY <1>1, <1>2, RejectSafe DEF Reject, Safe
<1>3. ASSUME NEW i \in DOMAIN suggestions, NEW a \in Approver, ApproveRead(a, i) PROVE Safe'
  BY <1>1, <1>3, ApproveReadSafe DEF ApproveRead, Safe
<1>4. ASSUME NEW a \in Approver, ApproveSwap(a) PROVE Safe'
  BY <1>1, <1>4, ApproveSwapSafe DEF ApproveSwap, Safe
<1>5. ASSUME NEW a \in Approver, ApproveWrite(a) PROVE Safe'
  BY <1>1, <1>5, ApproveWriteSafe DEF ApproveWrite, Safe
<1>6. ASSUME NEW a \in Approver, ApproveFinish(a) PROVE Safe'
  BY <1>1, <1>6, ApproveFinishSafe, Zenon DEF ApproveFinish, Safe
<1>7. ASSUME NEW a \in Approver, ApproveRollback(a) PROVE Safe'
  BY <1>1, <1>7, ApproveRollbackSafe DEF ApproveRollback, Safe
<1>8. Tab \subseteq Approver
  BY DEF Approver
<1> QED
  BY <1>2, <1>3, <1>4, <1>5, <1>6, <1>7, <1>8 DEF Owner, ApproveNext

LEMMA StandsStill ==
    ASSUME TypeOK, Safe, UNCHANGED <<store, cursor, wire, scan, approval, nature, folder>>
    PROVE  Safe'
<1>1. UNCHANGED <<ledger, folder, cursor, scan, nature, suggestions, threads, wire, approval>>
  BY DEF store
<1>2. ScanSafe' /\ ScanTypes'
  BY <1>1, ScanStands
<1>3. OwnerSafe' /\ OwnerTypes'
  BY <1>1, SameStagedItself, OwnerUntouched DEF Safe
<1> QED
  BY <1>2, <1>3 DEF Safe

LEMMA ScanNextKeeps ==
    ASSUME TypeOK, Safe, ScanNext PROVE Safe'
<1>1. CASE StartRun
  BY <1>1, StartRunKeeps
<1>2. CASE Select
  BY <1>2, SelectKeeps
<1>3. CASE Search
  BY <1>3, SearchKeeps
<1>4. CASE Fetch
  BY <1>4, FetchKeeps
<1>5. CASE EndOfFolder
  BY <1>5, EndOfFolderKeeps
<1>6. CASE SaveCursor
  BY <1>6, SaveCursorKeeps
<1>7. CASE Parse
  BY <1>7, ParseKeeps
<1>8. CASE LocalStages
  BY <1>8, LocalStagesKeeps
<1>9. CASE FastPath
  BY <1>9, FastPathSafe DEF Safe
<1>10. CASE Dedup
  BY <1>10, DedupOwner DEF Safe
<1>11. CASE NotActionable
  BY <1>11, NotActionableKeeps
<1>12. CASE Write
  BY <1>12, WriteSafe DEF Safe
<1>13. CASE AutoDone
  BY <1>13, AutoDoneKeeps
<1>14. CASE Poisoned
  BY <1>14, DieKeeps DEF Poisoned
<1> QED
  BY <1>1, <1>2, <1>3, <1>4, <1>5, <1>6, <1>7, <1>8, <1>9, <1>10, <1>11, <1>12, <1>13,
     <1>14 DEF ScanNext

LEMMA NextKeeps == TypeOK /\ Safe /\ [Next]_vars => Safe'
<1> SUFFICES ASSUME TypeOK, Safe, [Next]_vars PROVE Safe'
  OBVIOUS
<1>1. CASE ScanNext
  BY <1>1, ScanNextKeeps
<1>2. CASE Disconnect
  BY <1>2, DisconnectKeeps
<1>3. CASE ModelFailed
  BY <1>3, ModelFailedKeeps
<1>4. CASE Owner \/ \E a \in Approver : ApproveNext(a)
  BY <1>4, ReviewKeeps
<1>5. CASE Outside
  BY <1>5, OutsideKeeps
<1>6. CASE Crash
  BY <1>6, DieKeeps DEF Crash
<1>7. CASE RequestStop
  BY <1>7, StandsStill DEF RequestStop, Mailbox
<1>8. CASE Restart
  BY <1>8, StandsStill DEF Restart, Mailbox
<1>9. CASE UNCHANGED vars
  BY <1>9, StandsStill DEF vars, store
<1> QED
  BY <1>1, <1>2, <1>3, <1>4, <1>5, <1>6, <1>7, <1>8, <1>9 DEF Next

-----------------------------------------------------------------------------
(* The first state: nothing has been scanned, or an old message has.         *)

LEMMA OldIsFinite ==
    /\ Cardinality(Old) \in Nat /\ Cardinality(Past) \in Nat
    /\ Cardinality(Past) <= Cardinality(Old) /\ Cardinality(Past) <= MaxStaged
    /\ Past \subseteq Old /\ Past \subseteq Copy
<1>1. IsFiniteSet(Old)
  BY CopyAssumption, FS_Subset
<1>2. Past \subseteq Old /\ Past \subseteq Copy
  BY CopyAssumption DEF Past
<1>3. IsFiniteSet(Past) /\ Cardinality(Past) <= Cardinality(Old)
  BY <1>1, <1>2, FS_Subset
<1>4. Cardinality(Old) \in Nat /\ Cardinality(Past) \in Nat
  BY <1>1, <1>3, FS_CardinalityType
<1>5. Cardinality(Old) <= MaxStaged /\ MaxStaged \in Nat
  BY CopyAssumption
<1> QED
  BY <1>2, <1>3, <1>4, <1>5

LEMMA ApprovedFields ==
    ASSUME NEW c \in Copy
    PROVE  /\ Approved(c) \in Suggestion /\ Approved(c).origin = c
           /\ Approved(c).merged = {} /\ Approved(c).kind = "task"
           /\ Approved(c).status = "approved" /\ Messages(Approved(c)) = {c}
BY DEF Approved, Suggestion, Kind, Messages

\* The suggestions of the past, each the only one of its message.
LEMMA InitSuggestions ==
    ASSUME Init
    PROVE  /\ suggestions \in Seq(Suggestion) /\ Len(suggestions) = Cardinality(Past)
           /\ DOMAIN suggestions = 1 .. Len(suggestions) /\ Len(suggestions) \in Nat
           /\ Len(suggestions) <= MaxStaged
           /\ \A i \in DOMAIN suggestions :
                /\ suggestions[i].origin \in Past
                /\ suggestions[i].merged = {} /\ suggestions[i].kind = "task"
                /\ suggestions[i].status = "approved"
                /\ Messages(suggestions[i]) = {suggestions[i].origin}
           /\ \A c \in Past : \E i \in DOMAIN suggestions :
                 \A j \in DOMAIN suggestions : suggestions[j].origin = c <=> j = i
<1> DEFINE n == Cardinality(Past)
<1>1. n \in Nat /\ n <= MaxStaged /\ Past \subseteq Copy
  BY OldIsFinite
<1>2. /\ suggestions \in [1 .. n -> {Approved(c) : c \in Past}]
      /\ \A c \in Past : \E i \in DOMAIN suggestions :
            \A j \in DOMAIN suggestions : suggestions[j].origin = c <=> j = i
  BY DEF Init
<1> HIDE DEF n
<1>3. DOMAIN suggestions = 1 .. n
  BY <1>2
<1>4. \A i \in 1 .. n : \E c \in Past : suggestions[i] = Approved(c)
  BY <1>2
<1>5. \A i \in 1 .. n :
        /\ suggestions[i] \in Suggestion
        /\ suggestions[i].origin \in Past
        /\ suggestions[i].merged = {} /\ suggestions[i].kind = "task"
        /\ suggestions[i].status = "approved"
        /\ Messages(suggestions[i]) = {suggestions[i].origin}
  BY <1>1, <1>4, ApprovedFields
<1>6. suggestions \in Seq(Suggestion) /\ Len(suggestions) = n
  <2>1. suggestions = [i \in 1 .. n |-> suggestions[i]]
    BY <1>2
  <2> QED
    BY <1>1, <1>5, <2>1
<1> QED
  BY <1>1, <1>2, <1>3, <1>5, <1>6 DEF n

LEMMA InitLedger ==
    ASSUME Init
    PROVE  /\ ledger \in [Key -> LedgerRow]
           /\ \A k \in Key :
                /\ ledger[k].released = FALSE /\ ledger[k].outcome \in {"none", "staged"}
                /\ ledger[k].outcome = "staged" <=> \E c \in Past : k = OwnKey(c)
<1> DEFINE r == [NoRow EXCEPT !.outcome = "staged"]
           told(k) == \E c \in Past : k = OwnKey(c)
           Wide == [outcome : {"none", "staged"}, released : BOOLEAN, strikes : 0 .. MaxInterrupted]
<1>1. NoRow \in Wide /\ NoRow.outcome = "none" /\ NoRow.released = FALSE
  <2>1. 0 \in 0 .. MaxInterrupted
    BY CopyAssumption
  <2> QED
    BY <2>1 DEF NoRow
<1>2. r \in Wide /\ r.outcome = "staged" /\ r.released = FALSE
  BY <1>1
<1>3. r \in LedgerRow /\ NoRow \in LedgerRow
  BY <1>2 DEF LedgerRow, Outcome
<1>4. ledger = [k \in Key |-> IF told(k) THEN r ELSE NoRow]
  BY DEF Init
<1> HIDE DEF r, told, Wide
<1>5. ledger \in [Key -> LedgerRow]
  BY <1>3, <1>4
<1>6. \A k \in Key : (told(k) => ledger[k] = r) /\ (~told(k) => ledger[k] = NoRow)
  BY <1>4
<1>7. \A k \in Key : told(k) <=> \E c \in Past : k = OwnKey(c)
  BY DEF told
<1> QED
  BY <1>1, <1>2, <1>5, <1>6, <1>7

LEMMA InitScan ==
    ASSUME Init PROVE ScanSafe /\ ScanTypes
<1> DEFINE n == Cardinality(Old)
<1>1. n \in Nat /\ Old \subseteq Copy
  BY OldIsFinite, CopyAssumption
<1>2. PICK s \in [1 .. n -> Old] : folder = [validity |-> 1, at |-> s]
  BY DEF Init
<1> HIDE DEF n
<1>3. folder.validity = 1 /\ folder.at = s
  BY <1>2
<1>4. s \in Seq(Copy \cup {NoCopy}) /\ Len(s) = n /\ DOMAIN s = 1 .. n
  BY <1>1, <1>2
<1>5. folder \in [validity : Nat, at : Seq(Copy \cup {NoCopy})]
  BY <1>2, <1>4
<1>6. /\ cursor \in [validity : Nat, last : Nat, window : BOOLEAN]
      /\ cursor.validity <= 1
      /\ cursor.validity = 1 => cursor.last = n
  <2>1. CASE Past = {} /\ cursor = NoCursor
    BY <2>1 DEF NoCursor
  <2>2. CASE cursor = [validity |-> 1, last |-> n, window |-> FALSE]
    BY <1>1, <2>2
  <2> QED
    BY <2>1, <2>2 DEF Init, n
<1>7. scan \in Scan /\ scan.pc = "idle" /\ scan.copy = NoCopy
  BY IdleFields DEF Init
<1>8. ledger \in [Key -> LedgerRow]
  BY InitLedger
<1>9. ScanTypes
  BY <1>5, <1>6, <1>7, <1>8 DEF ScanTypes, InHand
<1>10. ClaimsOK
  <2>1. \A k \in Key : ledger[k].released = FALSE /\ ledger[k].outcome # Unsettled
    BY InitLedger DEF Unsettled
  <2> QED
    BY <1>7, <2>1 DEF ClaimsOK, Held
<1>11. CursorOK
  BY <1>1, <1>3, <1>4, <1>6 DEF CursorOK
<1>12. PassedIsDecided
  BY <1>2, <1>3, <1>4 DEF PassedIsDecided
<1>13. Reading /\ Searched /\ Handled
  BY <1>7 DEF Reading, Searched, Handled, InHand
<1> QED
  BY <1>9, <1>10, <1>11, <1>12, <1>13 DEF ScanSafe

LEMMA InitOwner ==
    ASSUME Init PROVE OwnerSafe /\ OwnerTypes
<1> DEFINE n == Len(suggestions)
<1>1. /\ suggestions \in Seq(Suggestion) /\ DOMAIN suggestions = 1 .. n
      /\ n \in Nat /\ n <= MaxStaged
      /\ \A i \in DOMAIN suggestions :
           /\ suggestions[i].origin \in Past
           /\ suggestions[i].merged = {} /\ suggestions[i].kind = "task"
           /\ suggestions[i].status = "approved"
           /\ Messages(suggestions[i]) = {suggestions[i].origin}
      /\ \A c \in Past : \E i \in DOMAIN suggestions :
            \A j \in DOMAIN suggestions : suggestions[j].origin = c <=> j = i
  BY InitSuggestions
<1>2. Past \subseteq Old /\ Past \subseteq Copy /\ MaxStaged \in Nat
  BY OldIsFinite, CopyAssumption
<1>3. \A i \in 1 .. n : i \in 1 .. MaxStaged
  BY <1>1, <1>2
<1>4. OnePlace
  <2>1. \A i, j \in DOMAIN suggestions :
           \A c \in Messages(suggestions[i]), d \in Messages(suggestions[j]) :
               OwnKey(c) = OwnKey(d) => i = j /\ c = d
    <3> SUFFICES ASSUME NEW i \in DOMAIN suggestions, NEW j \in DOMAIN suggestions,
                        OwnKey(suggestions[i].origin) = OwnKey(suggestions[j].origin)
                 PROVE  i = j /\ suggestions[i].origin = suggestions[j].origin
      BY <1>1
    <3>1. suggestions[i].origin = suggestions[j].origin
      BY <1>1, <1>2, CopyAssumption
    <3> QED
      BY <1>1, <3>1
  <2>2. \A i \in DOMAIN suggestions :
           /\ ledger[OwnKey(suggestions[i].origin)].outcome = "staged"
           /\ \A c \in suggestions[i].merged : ledger[OwnKey(c)].outcome = "attached"
    <3>1. \A c \in Past : OwnKey(c) \in Key
      BY <1>2, KeyType
    <3> QED
      BY <1>1, <3>1, InitLedger
  <2>3. \A k \in Key : ledger[k].outcome \in {"staged", "attached"} =>
           \E i \in DOMAIN suggestions, c \in Copy :
               c \in Messages(suggestions[i]) /\ OwnKey(c) = k
    <3> SUFFICES ASSUME NEW k \in Key, ledger[k].outcome \in {"staged", "attached"}
                 PROVE  \E i \in DOMAIN suggestions, c \in Copy :
                           c \in Messages(suggestions[i]) /\ OwnKey(c) = k
      OBVIOUS
    <3>1. PICK c \in Past : k = OwnKey(c)
      BY InitLedger
    <3>2. PICK i \in DOMAIN suggestions : suggestions[i].origin = c
      BY <1>1
    <3> QED
      BY <1>1, <1>2, <3>1, <3>2
  <2> QED
    BY <2>1, <2>2, <2>3 DEF OnePlace
<1>5. /\ wire \in [1 .. MaxStaged -> SUBSET Copy]
      /\ \A i \in DOMAIN suggestions : wire[i] = {suggestions[i].origin}
      /\ \A i \in 1 .. MaxStaged : i \notin DOMAIN suggestions => wire[i] = {}
  <2>1. wire = [i \in 1 .. MaxStaged |->
                  IF i \in DOMAIN suggestions THEN {suggestions[i].origin} ELSE {}]
    BY DEF Init
  <2>2. \A i \in DOMAIN suggestions : {suggestions[i].origin} \subseteq Copy
    BY <1>1, <1>2
  <2> QED
    BY <1>1, <1>3, <2>1, <2>2
<1>6. /\ threads \in [Thread -> [suggestion : 0 .. n, task : 0 .. n]]
      /\ \A t \in Thread : threads[t].task # 0 => wire[threads[t].task] # {}
  <2> DEFINE told(t) == \E i \in DOMAIN suggestions : ThreadOf[suggestions[i].origin] = t
             task == [suggestion |-> 0, task |-> 1]
  <2>1. threads = [t \in Thread |-> IF told(t) THEN task ELSE NoThread]
    BY DEF Init
  <2>2. \A t : told(t) => 1 \in DOMAIN suggestions
    BY <1>1
  <2>3. 1 \in DOMAIN suggestions => /\ task \in [suggestion : 0 .. n, task : 0 .. n]
                                    /\ task.task = 1 /\ wire[1] # {}
    <3>1. 1 \in DOMAIN suggestions => 0 \in 0 .. n /\ 1 \in 0 .. n
      BY <1>1
    <3>2. 1 \in DOMAIN suggestions => wire[1] # {}
      BY <1>5
    <3> QED
      BY <3>1, <3>2
  <2>4. NoThread \in [suggestion : 0 .. n, task : 0 .. n] /\ NoThread.task = 0
    BY <1>1 DEF NoThread
  <2> HIDE DEF told, task
  <2>5. \A t \in Thread : \/ told(t) /\ threads[t] = task
                          \/ threads[t] = NoThread
    BY <2>1
  <2>6. threads \in [Thread -> [suggestion : 0 .. n, task : 0 .. n]]
    <3> DEFINE R == [suggestion : 0 .. n, task : 0 .. n]
    <3>1. \A t \in Thread : (IF told(t) THEN task ELSE NoThread) \in R
      BY <2>2, <2>3, <2>4
    <3> HIDE DEF R
    <3> QED
      BY <2>1, <3>1 DEF R
  <2> QED
    BY <2>2, <2>3, <2>4, <2>5, <2>6
<1>7. nature \in [Copy -> Nature]
  BY CopyAssumption DEF Init
<1>8. /\ approval \in [Approver -> Approval]
      /\ \A a \in Approver : approval[a].pc = "idle"
  <2>1. NoApproval \in Approval /\ NoApproval.pc = "idle"
    BY CopyAssumption DEF NoApproval, Approval
  <2> QED
    BY <2>1 DEF Init
<1>9. OwnerTypes
  BY <1>1, <1>5, <1>6, <1>7, <1>8 DEF OwnerTypes
<1>10. ApprovalsOK
  BY <1>8 DEF ApprovalsOK, Swapped
<1>11. scan.pc # "write"
  BY IdleFields DEF Init
<1>12. ItemsOK
  <2>1. \A i \in 1 .. MaxStaged : wire[i] # {} =>
           i \in DOMAIN suggestions /\ suggestions[i].origin \in wire[i]
    BY <1>5
  <2>2. \A i \in DOMAIN suggestions : suggestions[i].kind # "update"
    BY <1>1
  <2> QED
    BY <1>6, <1>11, <2>1, <2>2 DEF ItemsOK
<1>13. ApprovedIsWritten
  BY <1>1, <1>5 DEF ApprovedIsWritten, OnWire
<1> QED
  BY <1>4, <1>9, <1>10, <1>12, <1>13 DEF OwnerSafe

-----------------------------------------------------------------------------
(* Theorems.                                                                 *)

\* IInv holds at the start and every step keeps it.
THEOREM Inductive == Spec => []IInv
<1>1. Init => Safe
  BY InitScan, InitOwner DEF Safe
<1>2. Safe => TypeOK /\ IInv
  BY SafeIsIInv DEF IInv
<1>3. TypeOK /\ Safe /\ [Next]_vars => Safe'
  BY NextKeeps
<1> QED
  BY <1>1, <1>2, <1>3, PTL DEF Spec

\* Every state of the pipeline is well formed.
THEOREM TypeCorrect == Spec => []TypeOK
<1>1. IInv => TypeOK
  BY DEF IInv
<1> QED
  BY <1>1, Inductive, PTL

\* The cursor never passes a message nobody decided, whatever failed.
THEOREM LosesNoMail == Spec => []PassedIsDecided
<1>1. IInv => PassedIsDecided
  BY DEF IInv
<1> QED
  BY <1>1, Inductive, PTL

\* A message is proposed once, and where the ledger says it went.
THEOREM ProposedOnce == Spec => []OnePlace
<1>1. IInv => OnePlace
  BY DEF IInv
<1> QED
  BY <1>1, Inductive, PTL

\* What was approved is on the wire.
THEOREM WritesWhatWasApproved == Spec => []ApprovedIsWritten
<1>1. IInv => ApprovedIsWritten
  BY DEF IInv
<1> QED
  BY <1>1, Inductive, PTL

-----------------------------------------------------------------------------
(* The inbox the pipeline implements: what a ledger says of a message, and   *)
(* the cards a list of suggestions puts before the owner.                    *)

VerdictOf(l, k) == IF l[k].outcome \in Outcome THEN l[k].outcome ELSE "none"

ShownAs(status) == IF status \in {"pending", "approving"} THEN "open" ELSE status

CardOf(s, k) ==
    IF \E i \in DOMAIN s : OwnKey(s[i].origin) = k
    THEN ShownAs(s[CHOOSE i \in DOMAIN s : OwnKey(s[i].origin) = k].status)
    ELSE "none"

\* At most one suggestion begins with a message.
OneOrigin(s) ==
    \A i, j \in DOMAIN s : OwnKey(s[i].origin) = OwnKey(s[j].origin) => i = j

LEMMA VerdictIs ==
    /\ Verdict = [k \in MessageKey |-> VerdictOf(ledger, k)]
    /\ Verdict' = [k \in MessageKey |-> VerdictOf(ledger', k)]
BY DEF Verdict, VerdictOf, Settled

LEMMA CardIs ==
    /\ Card = [k \in MessageKey |-> CardOf(suggestions, k)]
    /\ Card' = [k \in MessageKey |-> CardOf(suggestions', k)]
<1>1. Card = [k \in MessageKey |-> CardOf(suggestions, k)]
  <2>1. \A i : Shown(i) = ShownAs(suggestions[i].status)
    BY DEF Shown, ShownAs
  <2> QED
    BY <2>1 DEF Card, CardOf
<1>2. Card' = [k \in MessageKey |-> CardOf(suggestions', k)]
  <2>1. \A i : (Shown(i))' = ShownAs(suggestions'[i].status)
    BY DEF Shown, ShownAs
  <2> QED
    BY <2>1 DEF Card, CardOf
<1> QED
  BY <1>1, <1>2

LEMMA CardThere ==
    ASSUME NEW s, OneOrigin(s), NEW i \in DOMAIN s, NEW k, k = OwnKey(s[i].origin)
    PROVE  CardOf(s, k) = ShownAs(s[i].status)
<1> DEFINE j == CHOOSE j \in DOMAIN s : OwnKey(s[j].origin) = k
<1>1. j \in DOMAIN s /\ OwnKey(s[j].origin) = k
  OBVIOUS
<1>2. j = i
  BY <1>1 DEF OneOrigin
<1> QED
  BY <1>2 DEF CardOf

LEMMA CardNotThere ==
    ASSUME NEW s, NEW k, \A i \in DOMAIN s : OwnKey(s[i].origin) # k
    PROVE  CardOf(s, k) = "none"
BY DEF CardOf

\* A list whose suggestions show what they showed, beginning with the same
\* messages, shows the same cards; but for one of them, its card.
LEMMA CardStands ==
    ASSUME NEW s, NEW z, OneOrigin(s), DOMAIN z = DOMAIN s,
           \A i \in DOMAIN s : z[i].origin = s[i].origin,
           NEW k, \A i \in DOMAIN s : OwnKey(s[i].origin) = k =>
                     ShownAs(z[i].status) = ShownAs(s[i].status)
    PROVE  CardOf(z, k) = CardOf(s, k)
<1>1. OneOrigin(z)
  BY DEF OneOrigin
<1>2. CASE \E i \in DOMAIN s : OwnKey(s[i].origin) = k
  <2>1. PICK i \in DOMAIN s : OwnKey(s[i].origin) = k
    BY <1>2
  <2> QED
    BY <1>1, <2>1, CardThere
<1>3. CASE \A i \in DOMAIN s : OwnKey(s[i].origin) # k
  BY <1>3, CardNotThere
<1> QED
  BY <1>2, <1>3

\* A suggestion put after the others shows a card of its own, and theirs stand.
LEMMA CardAdded ==
    ASSUME NEW s, NEW z, OneOrigin(s), NEW n, n \notin DOMAIN s,
           DOMAIN z = DOMAIN s \cup {n}, \A i \in DOMAIN s : z[i] = s[i],
           \A i \in DOMAIN s : OwnKey(s[i].origin) # OwnKey(z[n].origin)
    PROVE  /\ CardOf(z, OwnKey(z[n].origin)) = ShownAs(z[n].status)
           /\ \A k : k # OwnKey(z[n].origin) => CardOf(z, k) = CardOf(s, k)
<1>1. OneOrigin(z)
  BY DEF OneOrigin
<1>2. CardOf(z, OwnKey(z[n].origin)) = ShownAs(z[n].status)
  BY <1>1, CardThere
<1>3. ASSUME NEW k, k # OwnKey(z[n].origin) PROVE CardOf(z, k) = CardOf(s, k)
  <2>1. CASE \E i \in DOMAIN s : OwnKey(s[i].origin) = k
    <3>1. PICK i \in DOMAIN s : OwnKey(s[i].origin) = k
      BY <2>1
    <3> QED
      BY <1>1, <3>1, CardThere
  <2>2. CASE \A i \in DOMAIN s : OwnKey(s[i].origin) # k
    BY <1>3, <2>2, CardNotThere
  <2> QED
    BY <2>1, <2>2
<1> QED
  BY <1>2, <1>3

-----------------------------------------------------------------------------
(* Steps of the inbox.                                                       *)

Implements == [Abstract!Next]_(Abstract!vars)

\* Nobody is told anything.
LEMMA NothingShown ==
    ASSUME \A k \in MessageKey : VerdictOf(ledger', k) = VerdictOf(ledger, k),
           \A k \in MessageKey : CardOf(suggestions', k) = CardOf(suggestions, k)
    PROVE  Implements
<1>1. Verdict' = Verdict /\ Card' = Card
  BY VerdictIs, CardIs
<1> QED
  BY <1>1 DEF Implements, Abstract!vars

\* One message is decided, with its card if it gets one.
LEMMA OneDecided ==
    ASSUME NEW k \in MessageKey, NEW o \in Outcome,
           VerdictOf(ledger, k) = "none", VerdictOf(ledger', k) = o,
           \A j \in MessageKey \ {k} : VerdictOf(ledger', j) = VerdictOf(ledger, j),
           \A j \in MessageKey \ {k} : CardOf(suggestions', j) = CardOf(suggestions, j),
           CardOf(suggestions', k) = IF o = "staged" THEN "open" ELSE CardOf(suggestions, k)
    PROVE  Implements
<1>1. Verdict[k] = "none" /\ Verdict'[k] = o
  BY VerdictIs
<1>2. Verdict' = [Verdict EXCEPT ![k] = o]
  BY VerdictIs
<1>3. Card' = IF o = "staged" THEN [Card EXCEPT ![k] = "open"] ELSE Card
  <2>1. CASE o = "staged"
    <3>1. Card' = [Card EXCEPT ![k] = "open"]
      BY <2>1, CardIs
    <3> QED
      BY <2>1, <3>1
  <2>2. CASE o # "staged"
    <3>1. Card' = Card
      BY <2>2, CardIs
    <3> QED
      BY <2>2, <3>1
  <2> QED
    BY <2>1, <2>2
<1>4. Abstract!Decide(k)
  BY <1>1, <1>2, <1>3 DEF Abstract!Decide
<1> QED
  BY <1>4 DEF Implements, Abstract!Next

\* One card is answered.
LEMMA OneAnswered ==
    ASSUME NEW k \in MessageKey, NEW v \in {"approved", "rejected"},
           \A j \in MessageKey : VerdictOf(ledger', j) = VerdictOf(ledger, j),
           CardOf(suggestions, k) = "open", CardOf(suggestions', k) = v,
           \A j \in MessageKey \ {k} : CardOf(suggestions', j) = CardOf(suggestions, j)
    PROVE  Implements
<1>1. Verdict' = Verdict
  BY VerdictIs
<1>2. Card[k] = "open" /\ Card'[k] = v /\ Card' = [Card EXCEPT ![k] = v]
  BY CardIs
<1>3. Abstract!Answer(k)
  BY <1>1, <1>2 DEF Abstract!Answer
<1> QED
  BY <1>3 DEF Implements, Abstract!Next

-----------------------------------------------------------------------------
(* Every step of the pipeline is a step of the inbox, or shows nothing.      *)

LEMMA CardsAreSuggested ==
    ASSUME OnePlace, suggestions \in Seq(Suggestion)
    PROVE  /\ OneOrigin(suggestions)
           /\ \A i \in DOMAIN suggestions : OwnKey(suggestions[i].origin) \in MessageKey
<1>1. \A i \in DOMAIN suggestions :
         suggestions[i].origin \in Messages(suggestions[i]) /\ suggestions[i].origin \in Copy
  BY SuggestionFields
<1> QED
  BY <1>1 DEF OnePlace, OneOrigin, MessageKey

LEMMA MessageKeysAreKeys == \A k \in MessageKey : k \in Key
BY KeyType DEF MessageKey

LEMMA SameVerdict ==
    ASSUME NEW k \in Key, ledger'[k] = ledger[k]
    PROVE  VerdictOf(ledger', k) = VerdictOf(ledger, k)
BY DEF VerdictOf

\* A row at most changes, of a message that had no verdict, and the cards stand.
LEMMA RowChanged ==
    ASSUME NEW k \in Key, ~Settled(ledger, k),
           \A j \in Key \ {k} : ledger'[j] = ledger[j],
           ledger'[k].outcome # "staged",
           \A j \in MessageKey : CardOf(suggestions', j) = CardOf(suggestions, j)
    PROVE  Implements
<1>1. \A j \in MessageKey \ {k} : VerdictOf(ledger', j) = VerdictOf(ledger, j)
  BY MessageKeysAreKeys, SameVerdict
<1>2. VerdictOf(ledger, k) = "none"
  BY DEF VerdictOf, Settled
<1>3. CASE k \in MessageKey /\ ledger'[k].outcome \in Outcome
  <2>1. VerdictOf(ledger', k) = ledger'[k].outcome
    BY <1>3 DEF VerdictOf
  <2> DEFINE o == ledger'[k].outcome
  <2>2. o \in Outcome /\ o # "staged"
    BY <1>3
  <2> HIDE DEF o
  <2>3. VerdictOf(ledger', k) = o
    BY <2>1 DEF o
  <2> QED
    BY <1>1, <1>2, <1>3, <2>2, <2>3, OneDecided
<1>4. CASE ~(k \in MessageKey /\ ledger'[k].outcome \in Outcome)
  <2>1. \A j \in MessageKey : VerdictOf(ledger', j) = VerdictOf(ledger, j)
    BY <1>1, <1>2, <1>4 DEF VerdictOf
  <2> QED
    BY <2>1, NothingShown
<1> QED
  BY <1>3, <1>4

LEMMA NothingChanged ==
    ASSUME ledger' = ledger,
           \A j \in MessageKey : CardOf(suggestions', j) = CardOf(suggestions, j)
    PROVE  Implements
BY NothingShown

LEMMA SuggestionsStand ==
    ASSUME suggestions' = suggestions
    PROVE  \A k : CardOf(suggestions', k) = CardOf(suggestions, k)
OBVIOUS

LEMMA ClaimImplements ==
    ASSUME GoodLedger(ledger), NEW k \in Key, Claimable(ledger, k),
           ledger' = Claim(ledger, k), suggestions' = suggestions
    PROVE  Implements
<1>1. ~Settled(ledger, k) /\ Held(ledger', k) /\ \A j \in Key \ {k} : ledger'[j] = ledger[j]
  BY ClaimRow
<1>2. ledger'[k].outcome # "staged"
  BY <1>1, Outcomes DEF Held, Outcome
<1> QED
  BY <1>1, <1>2, RowChanged, SuggestionsStand

LEMMA ReleaseImplements ==
    ASSUME GoodLedger(ledger), NEW k \in Key, Held(ledger, k),
           ledger' = Release(ledger, k), suggestions' = suggestions
    PROVE  Implements
<1>1. ~Settled(ledger, k) /\ ledger'[k] = NoRow /\ \A j \in Key \ {k} : ledger'[j] = ledger[j]
  BY ReleaseRow
<1>2. ledger'[k].outcome # "staged"
  BY <1>1 DEF NoRow
<1> QED
  BY <1>1, <1>2, RowChanged, SuggestionsStand

LEMMA SettleImplements ==
    ASSUME GoodLedger(ledger), NEW k \in Key, Held(ledger, k), NEW o \in Outcome, o # "staged",
           ledger' = Settle(ledger, k, o),
           \A j \in MessageKey : CardOf(suggestions', j) = CardOf(suggestions, j)
    PROVE  Implements
<1>1. /\ ~Settled(ledger, k) /\ ledger'[k].outcome = o
      /\ \A j \in Key \ {k} : ledger'[j] = ledger[j]
  BY SettleRow
<1> QED
  BY <1>1, RowChanged

LEMMA StartRunImplements ==
    ASSUME TypeOK, Safe, StartRun PROVE Implements
<1>1. GoodLedger(ledger) /\ ledger' = RecoverUnsettled(ledger) /\ ClaimsOK
  BY LedgerIsGood DEF StartRun, Safe, ScanSafe
<1>2. suggestions \in Seq(Suggestion) /\ OnePlace
  BY DEF TypeOK, Safe, OwnerSafe
<1>3. PICK old \in SUBSET {i \in DOMAIN suggestions : Stuck(i)} :
         suggestions' = [i \in DOMAIN suggestions |->
                           IF i \in old THEN [suggestions[i] EXCEPT !.status = "pending"]
                                        ELSE suggestions[i]]
  BY DEF StartRun
<1>4. \A j \in MessageKey : CardOf(suggestions', j) = CardOf(suggestions, j)
  <2>1. DOMAIN suggestions' = DOMAIN suggestions
    BY <1>3
  <2>2. ASSUME NEW i \in DOMAIN suggestions
        PROVE  /\ suggestions'[i].origin = suggestions[i].origin
               /\ ShownAs(suggestions'[i].status) = ShownAs(suggestions[i].status)
    <3>1. suggestions[i] \in Suggestion
      BY <1>2
    <3>2. CASE i \in old
      <4>1. suggestions'[i] = [suggestions[i] EXCEPT !.status = "pending"]
        BY <1>3, <3>2
      <4>2. suggestions'[i].origin = suggestions[i].origin /\ suggestions'[i].status = "pending"
        BY <3>1, <4>1 DEF Suggestion
      <4>3. suggestions[i].status = "approving"
        BY <1>3, <3>2 DEF Stuck
      <4> QED
        BY <4>2, <4>3 DEF ShownAs
    <3>3. CASE i \notin old
      BY <1>3, <3>3
    <3> QED
      BY <3>2, <3>3
  <2> QED
    BY <1>2, <2>1, <2>2, CardsAreSuggested, CardStands
<1>5. CASE \E k \in Key : Held(ledger, k)
  <2>1. PICK k \in Key : Held(ledger, k)
    BY <1>5
  <2>2. ~Settled(ledger, k)
    BY <2>1 DEF Held, Settled, Unsettled, Outcome
  <2>3. \A j \in Key \ {k} : ~Held(ledger, j)
    BY <1>1, <2>1, HeldAlone
  <2>4. \A j \in Key \ {k} : ledger'[j] = ledger[j]
    BY <1>1, <2>3, RecoverRows
  <2>5. ledger'[k].outcome # "staged"
    BY <1>1, <2>1, RecoverRows DEF Unsettled
  <2> QED
    BY <1>4, <2>2, <2>4, <2>5, RowChanged
<1>6. CASE \A k \in Key : ~Held(ledger, k)
  <2>1. \A k \in Key : ledger'[k] = ledger[k]
    BY <1>1, <1>6, RecoverRows
  <2>2. \A k \in MessageKey : VerdictOf(ledger', k) = VerdictOf(ledger, k)
    BY <2>1, MessageKeysAreKeys, SameVerdict
  <2> QED
    BY <1>4, <2>2, NothingShown
<1> QED
  BY <1>5, <1>6

LEMMA FetchImplements ==
    ASSUME TypeOK, Safe, Fetch PROVE Implements
<1>1. GoodLedger(ledger) /\ suggestions' = suggestions
  BY LedgerIsGood DEF Fetch, Safe, ScanSafe
<1>2. PICK u \in scan.queue :
         \/ UNCHANGED ledger
         \/ folder.at[u] # NoCopy /\ SkipOversize(folder.at[u], u)
         \/ /\ folder.at[u] # NoCopy /\ Claimable(ledger, RawKey(folder.at[u]))
            /\ ledger' = Claim(ledger, RawKey(folder.at[u]))
  BY DEF Fetch
<1>3. folder.at[u] # NoCopy => folder.at[u] \in Copy
  <2>1. scan.queue \subseteq 1 .. scan.top /\ scan.top <= Len(folder.at) /\ scan.top \in Nat
    BY ScanFields DEF Safe, ScanSafe, Searched, InHand, Fetch
  <2>2. folder.at \in Seq(Copy \cup {NoCopy})
    BY DEF TypeOK
  <2>3. u \in 1 .. Len(folder.at) /\ Len(folder.at) \in Nat
    BY <2>1, <2>2
  <2> QED
    BY <2>2, <2>3
<1>4. CASE UNCHANGED ledger
  BY <1>1, <1>4, NothingChanged, SuggestionsStand
<1>5. CASE folder.at[u] # NoCopy /\ SkipOversize(folder.at[u], u)
  <2> DEFINE k == OversizeKey(folder.at[u])
             m == Claim(ledger, k)
  <2>1. k \in Key
    BY <1>3, <1>5, KeyType
  <2>2. \/ ledger' = ledger
        \/ Claimable(ledger, k) /\ ledger' = Settle(m, k, "skipped")
    BY <1>5 DEF SkipOversize
  <2> HIDE DEF k
  <2>3. CASE Claimable(ledger, k) /\ ledger' = Settle(m, k, "skipped")
    <3>1. /\ GoodLedger(m) /\ Held(m, k) /\ ~Settled(ledger, k)
          /\ \A j \in Key \ {k} : m[j] = ledger[j]
      BY <1>1, <2>1, <2>3, ClaimRow
    <3>2. "skipped" \in Outcome
      BY DEF Outcome
    <3> HIDE DEF m
    <3>3. ledger'[k].outcome = "skipped" /\ \A j \in Key \ {k} : ledger'[j] = m[j]
      BY <2>1, <2>3, <3>1, <3>2, SettleRow
    <3> QED
      BY <1>1, <2>1, <3>1, <3>3, RowChanged, SuggestionsStand
  <2> QED
    BY <1>1, <2>2, <2>3, NothingChanged, SuggestionsStand
<1>6. CASE /\ folder.at[u] # NoCopy /\ Claimable(ledger, RawKey(folder.at[u]))
           /\ ledger' = Claim(ledger, RawKey(folder.at[u]))
  <2>1. RawKey(folder.at[u]) \in Key
    BY <1>3, <1>6, KeyType
  <2> QED
    BY <1>1, <1>6, <2>1, ClaimImplements
<1> QED
  BY <1>2, <1>4, <1>5, <1>6

LEMMA ParseImplements ==
    ASSUME TypeOK, Safe, Parse PROVE Implements
<1> DEFINE raw == RawKey(scan.copy)
           own == OwnKey(scan.copy)
           m == Release(ledger, raw)
<1>1. GoodLedger(ledger) /\ suggestions' = suggestions /\ scan.pc = "parse"
  BY LedgerIsGood DEF Parse, DecideOnly, Safe, ScanSafe
<1>2. scan.copy \in Copy
  BY <1>1 DEF TypeOK, InHand, Scan
<1>3. raw \in Key /\ own \in Key /\ Held(ledger, raw)
  BY <1>1, <1>2, KeyType DEF Safe, ScanSafe, ClaimsOK
<1>4. \/ ledger' = Settle(ledger, raw, "error")
      \/ ledger' = ledger
      \/ own # raw /\ Claimable(m, own) /\ ledger' = Claim(m, own)
      \/ ledger' = m
  BY DEF Parse
<1> HIDE DEF raw, own
<1>5. CASE ledger' = Settle(ledger, raw, "error")
  <2>1. "error" \in Outcome
    BY DEF Outcome
  <2> QED
    BY <1>1, <1>3, <1>5, <2>1, SettleImplements, SuggestionsStand
<1>6. CASE own # raw /\ Claimable(m, own) /\ ledger' = Claim(m, own)
  <2>1. /\ GoodLedger(m) /\ m[raw] = NoRow /\ ~Settled(ledger, raw)
        /\ \A j \in Key \ {raw} : m[j] = ledger[j]
    BY <1>1, <1>3, ReleaseRow
  <2> HIDE DEF m
  <2>2. /\ Held(ledger', own) /\ ~Settled(m, own)
        /\ \A j \in Key \ {own} : ledger'[j] = m[j]
    BY <1>3, <1>6, <2>1, ClaimRow
  <2>3. \A j \in Key \ {raw, own} : VerdictOf(ledger', j) = VerdictOf(ledger, j)
    BY <2>1, <2>2, SameVerdict
  <2>4. VerdictOf(ledger', own) = "none" /\ VerdictOf(ledger, own) = "none"
    BY <1>3, <1>6, <2>1, <2>2 DEF VerdictOf, Settled, Held, Unsettled, Outcome
  <2>5. VerdictOf(ledger', raw) = "none" /\ VerdictOf(ledger, raw) = "none"
    BY <1>3, <1>6, <2>1, <2>2 DEF VerdictOf, Settled, NoRow, Outcome
  <2>6. \A k \in MessageKey : VerdictOf(ledger', k) = VerdictOf(ledger, k)
    BY <2>3, <2>4, <2>5, MessageKeysAreKeys
  <2> QED
    BY <1>1, <2>6, NothingShown
<1> QED
  BY <1>1, <1>3, <1>4, <1>5, <1>6, ReleaseImplements, NothingChanged, SuggestionsStand

LEMMA QuietlySettled ==
    ASSUME TypeOK, Safe, scan.pc \in {"stages", "write"}, suggestions' = suggestions,
           NEW o \in Outcome, o # "staged", ledger' = Settle(ledger, OwnKey(scan.copy), o)
    PROVE  Implements
<1>1. GoodLedger(ledger) /\ Held(ledger, OwnKey(scan.copy)) /\ OwnKey(scan.copy) \in Key
  BY LedgerIsGood, HandHeld, KeyType DEF Safe, ScanSafe
<1> QED
  BY <1>1, SettleImplements, SuggestionsStand

LEMMA LocalStagesImplements ==
    ASSUME TypeOK, Safe, LocalStages PROVE Implements
<1>1. /\ scan.pc = "stages" /\ suggestions' = suggestions
      /\ \E o \in {"suppressed", "skipped"} : ledger' = Settle(ledger, OwnKey(scan.copy), o)
  BY DEF LocalStages, DecideOnly
<1>2. \A o \in {"suppressed", "skipped"} : o \in Outcome /\ o # "staged"
  BY DEF Outcome
<1> QED
  BY <1>1, <1>2, QuietlySettled

LEMMA NotActionableImplements ==
    ASSUME TypeOK, Safe, NotActionable PROVE Implements
<1>1. /\ scan.pc = "stages" /\ suggestions' = suggestions
      /\ \E o \in {"not_actionable", "error"} : ledger' = Settle(ledger, OwnKey(scan.copy), o)
  BY DEF NotActionable, Asked, DecideOnly
<1>2. \A o \in {"not_actionable", "error"} : o \in Outcome /\ o # "staged"
  BY DEF Outcome
<1> QED
  BY <1>1, <1>2, QuietlySettled

LEMMA ModelFailedImplements ==
    ASSUME TypeOK, Safe, ModelFailed PROVE Implements
<1>1. /\ scan.pc = "stages" /\ suggestions' = suggestions
      /\ ledger' = Release(ledger, OwnKey(scan.copy))
  BY DEF ModelFailed, Asked, DecideOnly
<1>2. GoodLedger(ledger) /\ Held(ledger, OwnKey(scan.copy)) /\ OwnKey(scan.copy) \in Key
  BY <1>1, LedgerIsGood, HandHeld, KeyType DEF Safe, ScanSafe
<1> QED
  BY <1>1, <1>2, ReleaseImplements

\* A suggestion of its own: the verdict and the card come together.
LEMMA StagedImplements ==
    ASSUME TypeOK, Safe, Staging("staged"), NEW kind \in Kind, NEW target \in Nat,
           suggestions' = Insert(suggestions, scan.copy, kind, target)
    PROVE  Implements
<1> DEFINE k == OwnKey(scan.copy)
           n == Len(suggestions) + 1
<1>1. suggestions \in Seq(Suggestion) /\ OnePlace /\ ScanSafe /\ scan.pc \in {"stages", "write"}
  BY DEF TypeOK, Safe, OwnerSafe, Staging
<1>2. "staged" \in Outcome
  BY DEF Outcome
<1>3. /\ scan.copy \in Copy /\ k \in Key /\ ledger'[k].outcome = "staged"
      /\ \A j \in Key \ {k} : ledger'[j] = ledger[j]
      /\ ~Settled(ledger, k)
  BY <1>1, <1>2, StagingFacts
<1>4. k \in MessageKey
  BY <1>3 DEF MessageKey
<1>5. /\ VerdictOf(ledger, k) = "none" /\ VerdictOf(ledger', k) = "staged"
      /\ \A j \in MessageKey \ {k} : VerdictOf(ledger', j) = VerdictOf(ledger, j)
  BY <1>2, <1>3, MessageKeysAreKeys DEF VerdictOf, Settled
<1>6. /\ suggestions' \in Seq(Suggestion) /\ Len(suggestions') = n
      /\ \A j \in 1 .. Len(suggestions) : suggestions'[j] = suggestions[j]
      /\ suggestions'[n].origin = scan.copy /\ suggestions'[n].status = "pending"
  BY <1>1, <1>3, InsertedFacts
<1>7. DOMAIN suggestions' = DOMAIN suggestions \cup {n} /\ n \notin DOMAIN suggestions
  <2>1. /\ Len(suggestions) \in Nat /\ DOMAIN suggestions = 1 .. Len(suggestions)
        /\ DOMAIN suggestions' = 1 .. Len(suggestions')
    BY <1>1, <1>6, SuggestionFields
  <2> QED
    BY <1>6, <2>1
<1>8. \A i \in DOMAIN suggestions : OwnKey(suggestions[i].origin) # k
  BY <1>1, NewToTheOwner, SuggestionFields
<1>9. OneOrigin(suggestions) /\ \A j \in DOMAIN suggestions : suggestions'[j] = suggestions[j]
  BY <1>1, <1>6, CardsAreSuggested
<1> HIDE DEF k, n
<1>10. k = OwnKey(suggestions'[n].origin)
  BY <1>6 DEF k
<1>11. /\ CardOf(suggestions', k) = "open"
       /\ \A j \in MessageKey \ {k} : CardOf(suggestions', j) = CardOf(suggestions, j)
  BY <1>6, <1>7, <1>8, <1>9, <1>10, CardAdded DEF ShownAs
<1> QED
  BY <1>2, <1>4, <1>5, <1>11, OneDecided

\* A message merged into a pending suggestion: the card is the one there was.
LEMMA AttachedImplements ==
    ASSUME TypeOK, Safe, Staging("attached"), NEW i \in DOMAIN suggestions,
           suggestions' = Attach(suggestions, i, scan.copy)
    PROVE  Implements
<1>1. suggestions \in Seq(Suggestion) /\ OnePlace /\ ScanSafe /\ scan.pc \in {"stages", "write"}
  BY DEF TypeOK, Safe, OwnerSafe, Staging
<1>2. "attached" \in Outcome
  BY DEF Outcome
<1>3. /\ scan.copy \in Copy /\ OwnKey(scan.copy) \in Key
      /\ ledger'[OwnKey(scan.copy)].outcome = "attached"
      /\ \A j \in Key \ {OwnKey(scan.copy)} : ledger'[j] = ledger[j]
      /\ ~Settled(ledger, OwnKey(scan.copy))
  BY <1>1, <1>2, StagingFacts
<1>4. /\ suggestions' \in Seq(Suggestion) /\ Len(suggestions') = Len(suggestions)
      /\ suggestions'[i].status = suggestions[i].status
      /\ \A j \in DOMAIN suggestions \ {i} : suggestions'[j] = suggestions[j]
      /\ SameItems(suggestions, suggestions')
  BY <1>1, <1>3, AttachedFacts
<1>5. /\ DOMAIN suggestions' = DOMAIN suggestions
      /\ \A j \in DOMAIN suggestions : /\ suggestions'[j].origin = suggestions[j].origin
                                       /\ suggestions'[j].status = suggestions[j].status
  BY <1>1, <1>4 DEF SameItems
<1>6. OneOrigin(suggestions)
  BY <1>1, CardsAreSuggested
<1>7. \A j \in MessageKey : CardOf(suggestions', j) = CardOf(suggestions, j)
  BY <1>5, <1>6, CardStands
<1> QED
  BY <1>3, <1>7, RowChanged

LEMMA FastPathImplements ==
    ASSUME TypeOK, Safe, FastPath PROVE Implements
<1> DEFINE c == scan.copy
           old == InviteSuggestion(suggestions, c)
           status == IF old = 0 THEN "none" ELSE suggestions[old].status
<1>1. scan.pc = "stages" /\ nature' = nature /\ wire' = wire
  BY DEF FastPath, Quiet, Mailbox
<1>2. c \in Copy /\ suggestions \in Seq(Suggestion)
  BY <1>1, HandHeld DEF TypeOK, Safe
<1>3. old \in {0} \cup DOMAIN suggestions
  BY <1>2, InviteIsThere
<1>4. \/ /\ suggestions' = Insert(suggestions, c, "invite", 0)
         /\ ledger' = Settle(ledger, OwnKey(c), "staged")
      \/ /\ status = "pending" /\ suggestions' = Attach(suggestions, old, c)
         /\ ledger' = Settle(ledger, OwnKey(c), "attached")
      \/ /\ suggestions' = suggestions
         /\ \E o \in {"duplicate", "suppressed"} : ledger' = Settle(ledger, OwnKey(c), o)
  BY DEF FastPath
<1>5. CASE /\ suggestions' = Insert(suggestions, c, "invite", 0)
           /\ ledger' = Settle(ledger, OwnKey(c), "staged")
  <2>1. "invite" \in Kind /\ 0 \in Nat /\ Staging("staged")
    BY <1>1, <1>5 DEF Kind, Staging
  <2> QED
    BY <1>5, <2>1, StagedImplements
<1>6. CASE /\ status = "pending" /\ suggestions' = Attach(suggestions, old, c)
           /\ ledger' = Settle(ledger, OwnKey(c), "attached")
  <2>1. Staging("attached") /\ old \in DOMAIN suggestions
    BY <1>1, <1>3, <1>6 DEF Staging
  <2> QED
    BY <1>6, <2>1, AttachedImplements
<1>7. CASE /\ suggestions' = suggestions
           /\ \E o \in {"duplicate", "suppressed"} : ledger' = Settle(ledger, OwnKey(c), o)
  <2>1. \A o \in {"duplicate", "suppressed"} : o \in Outcome /\ o # "staged"
    BY DEF Outcome
  <2> QED
    BY <1>1, <1>7, <2>1, QuietlySettled
<1> QED
  BY <1>4, <1>5, <1>6, <1>7

LEMMA WriteImplements ==
    ASSUME TypeOK, Safe, Write PROVE Implements
<1> DEFINE c == scan.copy
           p == scan.plan
<1>1. scan.pc = "write" /\ nature' = nature /\ wire' = wire
  BY DEF Write, Quiet, Mailbox
<1>2. c \in Copy /\ nature[c] \in {"task", "event"}
  BY <1>1, HandHeld, PlanInHand DEF Safe
<1>3. p.what \in {"merge", "update", "same task"} => p.of \in DOMAIN suggestions /\ p.of \in Nat
  BY <1>1, PlanInHand DEF Safe
<1>4. \/ StageNew(c)
      \/ /\ p.what = "merge" /\ suggestions' = Attach(suggestions, p.of, c)
         /\ ledger' = Settle(ledger, OwnKey(c), "attached")
      \/ /\ p.what = "update" /\ suggestions' = Insert(suggestions, c, "update", p.of)
         /\ ledger' = Settle(ledger, OwnKey(c), "staged")
      \/ /\ suggestions' = suggestions
         /\ \E o \in {"duplicate", "suppressed"} : ledger' = Settle(ledger, OwnKey(c), o)
  BY DEF Write
<1>5. CASE StageNew(c)
  <2>1. /\ suggestions' = Insert(suggestions, c, nature[c], 0)
        /\ Staging("staged") /\ nature[c] \in Kind /\ 0 \in Nat
    BY <1>1, <1>2, <1>5 DEF StageNew, Staging, Kind
  <2> QED
    BY <2>1, StagedImplements
<1>6. CASE /\ p.what = "merge" /\ suggestions' = Attach(suggestions, p.of, c)
           /\ ledger' = Settle(ledger, OwnKey(c), "attached")
  <2>1. Staging("attached")
    BY <1>1, <1>6 DEF Staging
  <2> QED
    BY <1>3, <1>6, <2>1, AttachedImplements
<1>7. CASE /\ p.what = "update" /\ suggestions' = Insert(suggestions, c, "update", p.of)
           /\ ledger' = Settle(ledger, OwnKey(c), "staged")
  <2>1. Staging("staged") /\ "update" \in Kind
    BY <1>1, <1>7 DEF Staging, Kind
  <2> QED
    BY <1>3, <1>7, <2>1, StagedImplements
<1>8. CASE /\ suggestions' = suggestions
           /\ \E o \in {"duplicate", "suppressed"} : ledger' = Settle(ledger, OwnKey(c), o)
  <2>1. \A o \in {"duplicate", "suppressed"} : o \in Outcome /\ o # "staged"
    BY DEF Outcome
  <2> QED
    BY <1>1, <1>8, <2>1, QuietlySettled
<1> QED
  BY <1>4, <1>5, <1>6, <1>7, <1>8

\* A status that moves without anything to see, and one that answers the card.
LEMMA StatusMoves ==
    ASSUME TypeOK, Safe, ledger' = ledger, NEW i \in DOMAIN suggestions, NEW to \in Status,
           suggestions' = MoveTo(suggestions, i, to),
           ShownAs(suggestions[i].status) = "open"
    PROVE  Implements
<1>1. suggestions \in Seq(Suggestion) /\ OnePlace
  BY DEF TypeOK, Safe, OwnerSafe
<1>2. /\ AsideTypes /\ suggestions'[i].status = to
      /\ \A j \in DOMAIN suggestions \ {i} : suggestions'[j] = suggestions[j]
  BY <1>1, MovedFacts
<1>3. /\ DOMAIN suggestions' = DOMAIN suggestions
      /\ \A j \in DOMAIN suggestions : suggestions'[j].origin = suggestions[j].origin
  BY <1>1, <1>2 DEF AsideTypes, SameMessages, SameItems
<1>4. /\ OneOrigin(suggestions)
      /\ OwnKey(suggestions[i].origin) \in MessageKey
  BY <1>1, CardsAreSuggested
<1>5. OneOrigin(suggestions')
  BY <1>3, <1>4 DEF OneOrigin
<1> DEFINE k == OwnKey(suggestions[i].origin)
<1>6. k = OwnKey(suggestions'[i].origin) /\ i \in DOMAIN suggestions'
  BY <1>3
<1> HIDE DEF k
<1>7. CardOf(suggestions, k) = "open"
  BY <1>4, CardThere DEF k
<1>8. CardOf(suggestions', k) = ShownAs(to)
  BY <1>2, <1>5, <1>6, CardThere
<1>9. ASSUME NEW j \in MessageKey \ {k} PROVE CardOf(suggestions', j) = CardOf(suggestions, j)
  <2>1. \A x \in DOMAIN suggestions : OwnKey(suggestions[x].origin) = j =>
           ShownAs(suggestions'[x].status) = ShownAs(suggestions[x].status)
    BY <1>2, <1>9 DEF k
  <2> QED
    BY <1>3, <1>4, <2>1, CardStands
<1>10. CASE to \in {"pending", "approving"}
  <2>1. CardOf(suggestions', k) = CardOf(suggestions, k)
    BY <1>7, <1>8, <1>10 DEF ShownAs
  <2> QED
    BY <1>9, <2>1, NothingChanged
<1>11. CASE to \in {"approved", "rejected"}
  <2>1. CardOf(suggestions', k) = to
    BY <1>8, <1>11 DEF ShownAs
  <2>2. k \in MessageKey
    BY <1>4 DEF k
  <2> QED
    BY <1>7, <1>9, <1>11, <2>1, <2>2, OneAnswered
<1> QED
  BY <1>10, <1>11 DEF Status

LEMMA ApproveImplements ==
    ASSUME TypeOK, Safe, NEW a \in Approver, ApproveNext(a) PROVE Implements
<1>1. ledger' = ledger
  BY Zenon DEF ApproveNext, ApproveRead, ApproveSwap, ApproveWrite, ApproveFinish,
         ApproveRollback, Aside
<1>2. OwnerTypes /\ OwnerSafe
  BY DEF Safe
<1>3. CASE suggestions' = suggestions
  BY <1>1, <1>3, NothingChanged, SuggestionsStand
<1>4. CASE ApproveSwap(a)
  <2> DEFINE i == approval[a].of
  <2>1. suggestions' = Transition(suggestions, i, "pending", "approving")
    BY <1>4 DEF ApproveSwap
  <2>2. i \in DOMAIN suggestions
    BY <1>2, <1>4 DEF ApproveSwap, OwnerSafe, ApprovalsOK
  <2>3. CASE suggestions[i].status = "pending"
    <3>1. suggestions' = MoveTo(suggestions, i, "approving")
      BY <2>1, <2>3 DEF Transition, CanMove
    <3>2. ShownAs(suggestions[i].status) = "open" /\ "approving" \in Status
      BY <2>3 DEF ShownAs, Status
    <3> QED
      BY <1>1, <2>2, <3>1, <3>2, StatusMoves
  <2>4. CASE suggestions[i].status # "pending"
    BY <1>3, <2>1, <2>4 DEF Transition, CanMove
  <2> QED
    BY <2>3, <2>4
<1>5. ASSUME NEW to \in {"approved", "pending"}, approval[a].pc \in Swapped,
             suggestions' = Transition(suggestions, approval[a].of, "approving", to)
      PROVE  Implements
  <2> DEFINE i == approval[a].of
  <2>1. i \in DOMAIN suggestions /\ suggestions[i].status = "approving"
    BY <1>2, <1>5, OwnSuggestion
  <2>2. suggestions' = MoveTo(suggestions, i, to)
    BY <1>5, <2>1 DEF Transition, CanMove
  <2>3. ShownAs(suggestions[i].status) = "open" /\ to \in Status
    BY <2>1, SMTT(30) DEF ShownAs, Status
  <2> QED
    BY <1>1, <2>1, <2>2, <2>3, StatusMoves
<1>6. CASE ApproveFinish(a)
  BY <1>5, <1>6 DEF ApproveFinish, Swapped
<1>7. CASE ApproveRollback(a)
  BY <1>5, <1>7 DEF ApproveRollback, Swapped
<1>8. CASE ApproveWrite(a)
  BY <1>3, <1>8 DEF ApproveWrite
<1>9. CASE \E i \in DOMAIN suggestions : approval[a].pc = "read" /\ ApproveRead(a, i)
  BY <1>3, <1>9 DEF ApproveRead
<1> QED
  BY <1>4, <1>6, <1>7, <1>8, <1>9 DEF ApproveNext

LEMMA OwnerImplements ==
    ASSUME TypeOK, Safe, Owner PROVE Implements
<1>1. PICK i \in DOMAIN suggestions :
         Reject(i) \/ \E a \in Tab : approval[a].pc = "idle" /\ ApproveRead(a, i)
  BY DEF Owner
<1>2. CASE Reject(i)
  <2>1. /\ ledger' = ledger /\ suggestions[i].status = "pending"
        /\ suggestions' = MoveTo(suggestions, i, "rejected")
    BY <1>2 DEF Reject, CanMove, Aside
  <2>2. ShownAs(suggestions[i].status) = "open" /\ "rejected" \in Status
    BY <2>1 DEF ShownAs, Status
  <2> QED
    BY <2>1, <2>2, StatusMoves
<1>3. CASE \E a \in Tab : approval[a].pc = "idle" /\ ApproveRead(a, i)
  <2>1. ledger' = ledger /\ suggestions' = suggestions
    BY <1>3 DEF ApproveRead, Aside
  <2> QED
    BY <2>1, NothingChanged, SuggestionsStand
<1> QED
  BY <1>1, <1>2, <1>3

LEMMA NextImplements == TypeOK /\ Safe /\ [Next]_vars => Implements
<1> SUFFICES ASSUME TypeOK, Safe, [Next]_vars PROVE Implements
  OBVIOUS
<1>1. CASE ledger' = ledger /\ suggestions' = suggestions
  BY <1>1, NothingChanged, SuggestionsStand
<1>2. CASE Select \/ Search \/ EndOfFolder \/ SaveCursor
  BY <1>1, <1>2 DEF Select, Search, EndOfFolder, SaveCursor, store
<1>3. CASE Dedup \/ AutoDone
  BY <1>1, <1>3 DEF Dedup, AutoDone, DecideOnly, store
<1>4. CASE Poisoned \/ Crash
  BY <1>1, <1>4 DEF Poisoned, Crash, Die, store
<1>5. CASE ScanNext
  BY <1>2, <1>3, <1>4, <1>5, StartRunImplements, FetchImplements, ParseImplements,
     LocalStagesImplements, FastPathImplements, NotActionableImplements, WriteImplements
  DEF ScanNext
<1>6. CASE Disconnect \/ RequestStop \/ Restart
  BY <1>1, <1>6 DEF Disconnect, RequestStop, Restart, store
<1>7. CASE Outside
  BY <1>1, <1>7 DEF Outside, Deliver, Expunge, Renumber, Elsewhere
<1>8. CASE UNCHANGED vars
  BY <1>1, <1>8 DEF vars
<1> QED
  BY <1>4, <1>5, <1>6, <1>7, <1>8, ModelFailedImplements, ApproveImplements, OwnerImplements
  DEF Next

LEMMA InitImplements == Init /\ TypeOK /\ OnePlace => Abstract!Init
<1> SUFFICES ASSUME Init, TypeOK, OnePlace PROVE Abstract!Init
  OBVIOUS
<1>1. suggestions \in Seq(Suggestion) /\ OneOrigin(suggestions)
  BY CardsAreSuggested DEF TypeOK
<1>2. \A k \in MessageKey : VerdictOf(ledger, k) \in Outcome \cup {"none"}
  BY DEF VerdictOf
<1>3. \A i \in DOMAIN suggestions :
         /\ ShownAs(suggestions[i].status) \in {"open", "approved", "rejected"}
         /\ VerdictOf(ledger, OwnKey(suggestions[i].origin)) = "staged"
  <2>1. \A i \in DOMAIN suggestions : suggestions[i].status \in Status
    BY <1>1, SuggestionFields
  <2> QED
    BY <2>1 DEF ShownAs, Status, VerdictOf, OnePlace, Outcome
<1>4. ASSUME NEW k \in MessageKey
      PROVE  /\ CardOf(suggestions, k) \in {"none", "open", "approved", "rejected"}
             /\ VerdictOf(ledger, k) = "staged" <=> CardOf(suggestions, k) # "none"
  <2>1. CASE \E i \in DOMAIN suggestions : OwnKey(suggestions[i].origin) = k
    <3>1. PICK i \in DOMAIN suggestions : OwnKey(suggestions[i].origin) = k
      BY <2>1
    <3> QED
      BY <1>1, <1>3, <3>1, CardThere
  <2>2. CASE \A i \in DOMAIN suggestions : OwnKey(suggestions[i].origin) # k
    <3>1. CardOf(suggestions, k) = "none"
      BY <2>2, CardNotThere
    <3>2. VerdictOf(ledger, k) # "staged"
      <4> SUFFICES ASSUME VerdictOf(ledger, k) = "staged" PROVE FALSE
        OBVIOUS
      <4>1. k \in Key /\ ledger[k].outcome = "staged"
        BY MessageKeysAreKeys DEF VerdictOf
      <4>2. PICK i \in DOMAIN suggestions, c \in Copy :
               c \in Messages(suggestions[i]) /\ OwnKey(c) = k
        BY <4>1 DEF OnePlace
      <4>3. c \in suggestions[i].merged
        BY <2>2, <4>2 DEF Messages
      <4>4. ledger[k].outcome = "attached"
        BY <4>2, <4>3 DEF OnePlace
      <4> QED
        BY <4>1, <4>4
    <3> QED
      BY <3>1, <3>2
  <2> QED
    BY <2>1, <2>2
<1>5. /\ Verdict \in [MessageKey -> Outcome \cup {"none"}]
      /\ Card \in [MessageKey -> {"none", "open", "approved", "rejected"}]
      /\ \A k \in MessageKey : Verdict[k] = "staged" <=> Card[k] # "none"
  BY <1>2, <1>4, VerdictIs, CardIs
<1> QED
  BY <1>5 DEF Abstract!Init

\* The pipeline implements Inbox: one verdict per message, for good; a card comes
\* with the verdict that asks for it, and is answered once.
THEOREM Implementation == Spec => ImplementsInbox
<1>1. IInv => TypeOK /\ Safe /\ OnePlace
  BY SafeIsIInv DEF IInv
<1>2. Init /\ TypeOK /\ OnePlace => Abstract!Init
  BY InitImplements
<1>3. TypeOK /\ Safe /\ [Next]_vars => [Abstract!Next]_(Abstract!vars)
  BY NextImplements DEF Implements
<1> QED
  BY <1>1, <1>2, <1>3, Inductive, PTL DEF Spec, ImplementsInbox, Abstract!Spec
=============================================================================
