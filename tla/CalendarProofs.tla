--------------------------- MODULE CalendarProofs ---------------------------
(***************************************************************************)
(* Proofs about Sharing, for any collections, slugs, tasks, shares,        *)
(* titles, credentials and bounds: type correctness, and from IInv that a  *)
(* share shows only what was chosen for it, that a token that was taken    *)
(* back opens nothing, that the views agree, and when a visitor is named.  *)
(* Then about SeriesEdits, for any series, edits and bounds: an edit that   *)
(* failed has changed nothing.                                             *)
(***************************************************************************)
EXTENDS Sharing, SeriesEdits, TLAPS

-----------------------------------------------------------------------------
(* What a row names, among the live collections lv, learned of sp times.     *)

Alone(lv, h) == \A g \in lv : SlugOf[g] = SlugOf[h] => g = h

Named(kind, row, h) ==
    kind \in Kinds[h] /\ SlugOf[h] \in (IF kind = "task" THEN row.lists ELSE row.calendars)

Names(lv, sp, row, pk) ==
    /\ \A s \in row.lists : \E h \in lv : SlugOf[h] = s /\ "task" \in Kinds[h]
    /\ \A s \in row.calendars : \E h \in lv : SlugOf[h] = s /\ "event" \in Kinds[h]
    /\ \A h \in lv : Alone(lv, h) /\ (Named("task", row, h) \/ Named("event", row, h))
                        => <<h, sp[h]>> \in pk

LEMMA NamesAre ==
    NamesLive <=> \A p \in Share : shares[p] # Absent =>
                     Names(live, span, shares[p], picked[p])
<1> SUFFICES ASSUME NEW p \in Share, shares[p] # Absent
             PROVE  (/\ Normalized("task", shares[p].lists) = shares[p].lists
                     /\ Normalized("event", shares[p].calendars) = shares[p].calendars
                     /\ Behind(shares[p]) \subseteq picked[p])
                    <=> Names(live, span, shares[p], picked[p])
  BY DEF NamesLive
<1> DEFINE row == shares[p]
<1>1. Normalized("task", row.lists) = row.lists
        <=> \A s \in row.lists : \E h \in live : SlugOf[h] = s /\ "task" \in Kinds[h]
  BY DEF Normalized
<1>2. Normalized("event", row.calendars) = row.calendars
        <=> \A s \in row.calendars : \E h \in live : SlugOf[h] = s /\ "event" \in Kinds[h]
  BY DEF Normalized
<1>3. Behind(row) \subseteq picked[p]
        <=> \A h \in live : Alone(live, h) /\ (Named("task", row, h) \/ Named("event", row, h))
                               => <<h, span[h]>> \in picked[p]
  BY DEF Behind, Chosen, Alone, Named
<1> QED
  BY <1>1, <1>2, <1>3 DEF Names

LEMMA NamesAreThen ==
    NamesLive' <=> \A p \in Share : shares'[p] # Absent =>
                      Names(live', span', shares'[p], picked'[p])
<1> SUFFICES ASSUME NEW p \in Share, shares'[p] # Absent
             PROVE  (/\ Normalized("task", shares[p].lists) = shares[p].lists
                     /\ Normalized("event", shares[p].calendars) = shares[p].calendars
                     /\ Behind(shares[p]) \subseteq picked[p])'
                    <=> Names(live', span', shares'[p], picked'[p])
  BY DEF NamesLive
<1> DEFINE row == shares'[p]
<1>1. (Normalized("task", shares[p].lists) = shares[p].lists)'
        <=> \A s \in row.lists : \E h \in live' : SlugOf[h] = s /\ "task" \in Kinds[h]
  BY DEF Normalized
<1>2. (Normalized("event", shares[p].calendars) = shares[p].calendars)'
        <=> \A s \in row.calendars : \E h \in live' : SlugOf[h] = s /\ "event" \in Kinds[h]
  BY DEF Normalized
<1>3. (Behind(shares[p]) \subseteq picked[p])'
        <=> \A h \in live' : Alone(live', h) /\ (Named("task", row, h) \/ Named("event", row, h))
                               => <<h, span'[h]>> \in picked'[p]
  BY DEF Behind, Chosen, Alone, Named
<1> QED
  BY <1>1, <1>2, <1>3 DEF Names

\* What discovery leaves of a row: it names what is left of what it named, and
\* nothing that is new.
LEMMA NamesPruned ==
    ASSUME NEW lv, NEW gone \in SUBSET lv, NEW fresh, fresh \cap lv = {},
           NEW sp, NEW sp2, \A h \in lv : sp2[h] = sp[h],
           NEW row, NEW row2, NEW slugs, slugs = {SlugOf[h] : h \in gone},
           row2.lists = row.lists \ slugs, row2.calendars = row.calendars \ slugs,
           NEW pk, NEW pk2, \A k \in pk : k[1] \notin gone => k \in pk2,
           Names(lv, sp, row, pk)
    PROVE  Names((lv \ gone) \cup fresh, sp2, row2, pk2)
<1> DEFINE lv2 == (lv \ gone) \cup fresh
<1>1. ASSUME NEW h \in lv, SlugOf[h] \notin slugs
      PROVE  h \in lv2
  BY <1>1
<1>2. \A s \in row2.lists : \E h \in lv : h \in lv2 /\ SlugOf[h] = s /\ "task" \in Kinds[h]
  BY <1>1 DEF Names
<1>3. \A s \in row2.calendars : \E h \in lv : h \in lv2 /\ SlugOf[h] = s /\ "event" \in Kinds[h]
  BY <1>1 DEF Names
<1>4. ASSUME NEW h \in lv2, Alone(lv2, h), Named("task", row2, h) \/ Named("event", row2, h)
      PROVE  <<h, sp2[h]>> \in pk2
  <2>1. SlugOf[h] \notin slugs /\ (Named("task", row, h) \/ Named("event", row, h))
    BY <1>4 DEF Named
  <2>2. \E g \in lv : g \in lv2 /\ SlugOf[g] = SlugOf[h]
    BY <1>2, <1>3, <1>4 DEF Named
  <2>3. h \in lv /\ h \notin gone
    BY <1>4, <2>1, <2>2 DEF Alone
  <2>4. Alone(lv, h)
    BY <1>1, <1>4, <2>1 DEF Alone
  <2>5. <<h, sp[h]>> \in pk
    BY <2>1, <2>3, <2>4 DEF Names
  <2> QED
    BY <2>3, <2>5
<1> QED
  BY <1>2, <1>3, <1>4 DEF Names

\* A row chosen now names what is behind it.
LEMMA NamesBehind ==
    ASSUME NEW row, Normalized("task", row.lists) = row.lists,
           Normalized("event", row.calendars) = row.calendars
    PROVE  Names(live, span, row, Behind(row))
BY DEF Names, Normalized, Behind, Chosen, Alone, Named

LEMMA NormalizedTwice ==
    ASSUME NEW kind, NEW wanted
    PROVE  /\ Normalized(kind, Normalized(kind, wanted)) = Normalized(kind, wanted)
           /\ Normalized(kind, wanted) \subseteq wanted
BY DEF Normalized

-----------------------------------------------------------------------------
(* Rows.                                                                     *)

LEMMA RowType ==
    ASSUME NEW row \in ShareRow
    PROVE  /\ row # Absent /\ row.token \in Nat /\ row.cv \in Credential
           /\ row.lists \in SUBSET Slug /\ row.calendars \in SUBSET Slug
           /\ row.focus \in BOOLEAN /\ row.enabled \in BOOLEAN
BY RowAssumption DEF ShareRow

LEMMA ShareType ==
    ASSUME TypeOK, NEW p \in Share, shares[p] # Absent
    PROVE  shares[p] \in ShareRow
BY DEF TypeOK

LEMMA BehindType ==
    ASSUME TypeOK, NEW row
    PROVE  Behind(row) \in SUBSET (Href \X Nat)
BY DEF TypeOK, Behind, Chosen

LEMMA NewShareType ==
    ASSUME NEW token \in Nat, NEW choice \in Choices, NEW focus \in BOOLEAN, cv \in Credential
    PROVE  /\ NewShare(token, choice, focus) \in ShareRow
           /\ NewShare(token, choice, focus).token = token
           /\ NewShare(token, choice, focus).cv = cv
           /\ NewShare(token, choice, focus).lists = Normalized("task", choice[1])
           /\ NewShare(token, choice, focus).calendars = Normalized("event", choice[2])
<1> DEFINE x == Normalized("task", choice[1])
           y == Normalized("event", choice[2])
<1>1. x \in SUBSET Slug /\ y \in SUBSET Slug
  BY NormalizedTwice, ChoicesAssumption DEF Slug
<1>2. NewShare(token, choice, focus) =
         [token |-> token, lists |-> x, calendars |-> y, focus |-> focus,
          enabled |-> TRUE, cv |-> cv]
  BY DEF NewShare
<1> HIDE DEF x, y
<1>3. NewShare(token, choice, focus) \in ShareRow
  BY <1>1, <1>2 DEF ShareRow
<1> QED
  BY <1>2, <1>3 DEF x, y

LEMMA ChosenRow ==
    ASSUME NEW row, NEW a, NEW b, row.lists = Normalized("task", a),
           row.calendars = Normalized("event", b)
    PROVE  Names(live, span, row, Behind(row))
BY NormalizedTwice, NamesBehind

LEMMA NewShareNames ==
    ASSUME NEW token \in Nat, NEW choice \in Choices, NEW focus \in BOOLEAN, cv \in Credential
    PROVE  Names(live, span, NewShare(token, choice, focus), Behind(NewShare(token, choice, focus)))
<1> DEFINE row == NewShare(token, choice, focus)
           a == choice[1]
           b == choice[2]
<1>1. row.lists = Normalized("task", a) /\ row.calendars = Normalized("event", b)
  BY NewShareType
<1> HIDE DEF row, a, b
<1>2. Names(live, span, row, Behind(row))
  BY <1>1, ChosenRow
<1> QED
  BY <1>2 DEF row

\* A row put in the place of another, or where there was none.
LEMMA RowPut ==
    ASSUME TypeOK, NEW p \in Share, NEW row \in ShareRow \cup {Absent},
           shares' = [shares EXCEPT ![p] = row]
    PROVE  /\ shares' \in [Share -> ShareRow \cup {Absent}]
           /\ shares'[p] = row
           /\ \A q \in Share : q # p => shares'[q] = shares[q]
BY DEF TypeOK

LEMMA NamesStand ==
    ASSUME NamesLive, UNCHANGED <<shares, live, span, picked>>
    PROVE  NamesLive'
BY NamesAre, NamesAreThen

LEMMA NamesPut ==
    ASSUME NamesLive, UNCHANGED <<live, span>>, NEW p \in Share,
           \A q \in Share : q # p => shares'[q] = shares[q] /\ picked'[q] = picked[q],
           shares'[p] # Absent => Names(live, span, shares'[p], picked'[p])
    PROVE  NamesLive'
<1>1. ASSUME NEW q \in Share, shares'[q] # Absent
      PROVE  Names(live', span', shares'[q], picked'[q])
  <2>1. CASE q = p
    BY <1>1, <2>1
  <2>2. CASE q # p
    <3>1. Names(live, span, shares[q], picked[q])
      BY <1>1, <2>2, NamesAre
    <3> QED
      BY <2>2, <3>1
  <2> QED
    BY <2>1, <2>2
<1> QED
  BY <1>1, NamesAreThen

\* A door that has the token it had, is gone, or has a token never handed out.
LEMMA DoorsPut ==
    ASSUME TypeOK, OneDoor, display' = display, minted' \in {minted, minted + 1}, NEW p \in Share,
           \A q \in Share : q # p => shares'[q] = shares[q],
           \/ /\ shares[p] # Absent /\ shares'[p] # Absent
              /\ shares'[p].token = shares[p].token /\ dead' = dead
           \/ shares'[p] = Absent /\ shares[p] # Absent /\ dead' = dead \cup {shares[p].token}
           \/ /\ shares'[p] # Absent /\ shares'[p].token = minted /\ minted' = minted + 1
              /\ \/ dead' = dead
                 \/ shares[p] # Absent /\ dead' = dead \cup {shares[p].token}
    PROVE  OneDoor'
<1>1. /\ minted \in Nat /\ dead \subseteq Nat
      /\ \A q \in Share : shares[q] # Absent => shares[q].token \in Nat
      /\ display # Absent => display.token \in Nat
  BY ShareType, RowType DEF TypeOK, DisplayRow
<1>2. ASSUME NEW q \in Share, q # p, shares'[q] # Absent
      PROVE  /\ shares[q] # Absent /\ shares'[q].token = shares[q].token
             /\ shares[q].token \in Nat /\ shares[q].token < minted /\ shares[q].token \notin dead
             /\ shares[p] # Absent => shares[q].token # shares[p].token
             /\ display # Absent => display.token # shares[q].token
  BY <1>1, <1>2 DEF OneDoor
<1>3. display # Absent =>
         /\ display.token \in Nat /\ display.token < minted /\ display.token \notin dead
         /\ shares[p] # Absent => display.token # shares[p].token
  BY <1>1 DEF OneDoor
<1>4. ASSUME shares[p] # Absent
      PROVE  /\ shares[p].token \in Nat /\ shares[p].token < minted
             /\ shares[p].token \notin dead
  BY <1>1, <1>4 DEF OneDoor
<1>5. \A t \in dead' : t < minted'
  <2>1. \A t \in dead : t \in Nat /\ t < minted /\ t < minted'
    BY <1>1 DEF OneDoor
  <2> QED
    BY <1>1, <1>4, <2>1
<1>6. ASSUME shares'[p] # Absent
      PROVE  /\ shares'[p].token \in Nat /\ shares'[p].token < minted'
             /\ shares'[p].token \notin dead'
             /\ display # Absent => display.token # shares'[p].token
             /\ \A q \in Share : q # p /\ shares'[q] # Absent
                                   => shares'[q].token # shares'[p].token
  <2>1. CASE shares[p] # Absent /\ shares'[p].token = shares[p].token /\ dead' = dead
    <3>1. shares'[p].token < minted'
      BY <1>1, <1>4, <2>1
    <3>2. \A q \in Share : q # p /\ shares'[q] # Absent => shares'[q].token # shares'[p].token
      BY <1>2, <2>1
    <3> QED
      BY <1>3, <1>4, <2>1, <3>1, <3>2
  <2>2. CASE /\ shares'[p].token = minted /\ minted' = minted + 1
             /\ \/ dead' = dead
                \/ shares[p] # Absent /\ dead' = dead \cup {shares[p].token}
    <3>1. \A t \in dead' : t # minted
      <4>1. \A t \in dead : t # minted
        BY <1>1 DEF OneDoor
      <4>2. shares[p] # Absent => shares[p].token # minted
        BY <1>1, <1>4
      <4> QED
        BY <2>2, <4>1, <4>2
    <3>2. \A q \in Share : q # p /\ shares'[q] # Absent => shares'[q].token # minted
      BY <1>1, <1>2
    <3>3. display # Absent => display.token # minted
      BY <1>1, <1>3
    <3> QED
      BY <1>1, <2>2, <3>1, <3>2, <3>3
  <2> QED
    BY <1>6, <2>1, <2>2
<1>7. ASSUME NEW q \in Share, q # p, shares'[q] # Absent
      PROVE  /\ shares'[q].token < minted' /\ shares'[q].token \notin dead'
             /\ \A r \in Share : r # p /\ shares'[r] # Absent /\ shares'[r].token = shares'[q].token
                                   => r = q
  <2>1. shares'[q].token < minted'
    BY <1>1, <1>2, <1>7
  <2>2. shares'[q].token \notin dead'
    BY <1>1, <1>2, <1>7
  <2>3. \A r \in Share : r # p /\ shares'[r] # Absent /\ shares'[r].token = shares'[q].token
                            => r = q
    BY <1>2, <1>7 DEF OneDoor
  <2> QED
    BY <2>1, <2>2, <2>3
<1>8. display' # Absent => display'.token < minted' /\ display'.token \notin dead'
  BY <1>1, <1>3, <1>4
<1>9. ASSUME NEW q \in Share, shares'[q] # Absent
      PROVE  /\ shares'[q].token < minted' /\ shares'[q].token \notin dead'
             /\ display' # Absent => display'.token # shares'[q].token
             /\ \A r \in Share : shares'[r] # Absent /\ shares'[r].token = shares'[q].token
                                   => r = q
  <2>1. CASE q = p
    BY <1>6, <1>9, <2>1
  <2>2. CASE q # p
    BY <1>2, <1>6, <1>7, <1>9, <2>2
  <2> QED
    BY <2>1, <2>2
<1> QED
  BY <1>5, <1>8, <1>9 DEF OneDoor

-----------------------------------------------------------------------------
(* The owner edits shares.                                                   *)

LEMMA SavedKeeps ==
    ASSUME IInv, NEW p \in Share, shares[p] # Absent, NEW row \in ShareRow, Saved(p, row), Edit,
           row.token = shares[p].token,
           Names(live, span, row, picked'[p]),
           picked' \in [Share -> SUBSET (Href \X Nat)],
           \A q \in Share : q # p => picked'[q] = picked[q],
           agreed' \in [Share -> Credential \cup {Absent}],
           agreed'[p] = row.cv,
           \A q \in Share : q # p => agreed'[q] = agreed[q]
    PROVE  IInv'
<1> USE DEF IInv
<1>1. /\ shares' = [shares EXCEPT ![p] = row]
      /\ UNCHANGED <<display, minted, dead, parked, plan, archived>>
      /\ UNCHANGED <<server, live, span, tasks, link, visit, cv, world>>
      /\ edits' = edits + 1
  BY DEF Saved, OwnerStays, WorldStays, Edit
<1>2. /\ shares' \in [Share -> ShareRow \cup {Absent}] /\ shares'[p] = row
      /\ \A q \in Share : q # p => shares'[q] = shares[q]
  BY <1>1, RowPut
<1>3. TypeOK'
  BY <1>1, <1>2 DEF TypeOK
<1>4. OneDoor'
  BY <1>1, <1>2, RowType, DoorsPut
<1>5. NamesLive'
  BY <1>1, <1>2, NamesPut
<1>6. AgreedRow'
  BY <1>2 DEF AgreedRow
<1>7. TitleKnown'
  BY <1>1 DEF TitleKnown
<1> QED
  BY <1>3, <1>4, <1>5, <1>6, <1>7

LEMMA RowChosen ==
    ASSUME NEW row \in ShareRow, NEW choice \in Choices
    PROVE  LET other == [row EXCEPT !.lists = Normalized("task", choice[1]),
                                    !.calendars = Normalized("event", choice[2])]
           IN  /\ other \in ShareRow /\ other.token = row.token /\ other.cv = row.cv
               /\ other.lists = Normalized("task", choice[1])
               /\ other.calendars = Normalized("event", choice[2])
<1> DEFINE x == Normalized("task", choice[1])
           y == Normalized("event", choice[2])
<1>1. x \in SUBSET Slug /\ y \in SUBSET Slug
  BY NormalizedTwice, ChoicesAssumption DEF Slug
<1> HIDE DEF x, y
<1>2. LET other == [row EXCEPT !.lists = x, !.calendars = y]
      IN  /\ other \in ShareRow /\ other.token = row.token /\ other.cv = row.cv
          /\ other.lists = x /\ other.calendars = y
  BY <1>1 DEF ShareRow
<1> QED
  BY <1>2 DEF x, y

LEMMA RowFocused ==
    ASSUME NEW row \in ShareRow, NEW on \in BOOLEAN
    PROVE  LET other == [row EXCEPT !.focus = on]
           IN  /\ other \in ShareRow /\ other.token = row.token /\ other.cv = row.cv
               /\ other.lists = row.lists /\ other.calendars = row.calendars
BY DEF ShareRow

LEMMA RowRekeyed ==
    ASSUME NEW row \in ShareRow, minted \in Nat
    PROVE  /\ Rekeyed(row) \in ShareRow /\ Rekeyed(row).token = minted
           /\ Rekeyed(row).cv = row.cv /\ Rekeyed(row).lists = row.lists
           /\ Rekeyed(row).calendars = row.calendars
BY DEF ShareRow, Rekeyed

\* Names looks at the allowlists of a row only.
LEMMA NamesLists ==
    ASSUME NEW lv, NEW sp, NEW pk, NEW row, NEW other, Names(lv, sp, row, pk),
           other.lists = row.lists, other.calendars = row.calendars
    PROVE  Names(lv, sp, other, pk)
BY DEF Names, Named

LEMMA CreateShareKeeps ==
    ASSUME IInv, NEW p \in Share, NEW choice \in Choices, NEW focus \in BOOLEAN,
           CreateShare(p, choice, focus)
    PROVE  IInv'
<1> USE DEF IInv
<1> DEFINE row == NewShare(minted, choice, focus)
<1>1. /\ shares' = [shares EXCEPT ![p] = row]
      /\ minted' = minted + 1
      /\ picked' = [picked EXCEPT ![p] = Behind(row)]
      /\ agreed' = [agreed EXCEPT ![p] = cv]
      /\ UNCHANGED <<display, dead, parked, plan, archived>>
      /\ UNCHANGED <<server, live, span, tasks, link, visit, cv, world>>
      /\ edits' = edits + 1
  BY DEF CreateShare, OwnerStays, WorldStays, Edit
<1>2. row \in ShareRow /\ row.token = minted /\ row.cv = cv /\ row # Absent
  BY NewShareType, RowType DEF TypeOK
<1>3. Names(live, span, row, Behind(row))
  BY NewShareNames DEF TypeOK
<1>4. Behind(row) \in SUBSET (Href \X Nat)
  BY BehindType
<1> HIDE DEF row
<1>5. /\ shares' \in [Share -> ShareRow \cup {Absent}] /\ shares'[p] = row
      /\ \A q \in Share : q # p => shares'[q] = shares[q]
  BY <1>1, <1>2, RowPut
<1>6. /\ picked' \in [Share -> SUBSET (Href \X Nat)] /\ picked'[p] = Behind(row)
      /\ \A q \in Share : q # p => picked'[q] = picked[q]
  BY <1>1, <1>4 DEF TypeOK
<1>7. /\ agreed' \in [Share -> Credential \cup {Absent}] /\ agreed'[p] = cv
      /\ \A q \in Share : q # p => agreed'[q] = agreed[q]
  BY <1>1 DEF TypeOK
<1>8. TypeOK'
  BY <1>1, <1>5, <1>6, <1>7 DEF TypeOK
<1>9. OneDoor'
  BY <1>1, <1>2, <1>5, DoorsPut
<1>10. NamesLive'
  BY <1>1, <1>3, <1>5, <1>6, NamesPut
<1>11. AgreedRow'
  BY <1>2, <1>5, <1>7 DEF AgreedRow
<1>12. TitleKnown'
  BY <1>1 DEF TitleKnown
<1> QED
  BY <1>8, <1>9, <1>10, <1>11, <1>12

LEMMA ChooseShareKeeps ==
    ASSUME IInv, NEW p \in Share, NEW choice \in Choices, ChooseShare(p, choice)
    PROVE  IInv'
<1> USE DEF IInv
<1> DEFINE row == [shares[p] EXCEPT !.lists = Normalized("task", choice[1]),
                                    !.calendars = Normalized("event", choice[2])]
<1>1. /\ Edit /\ shares[p] # Absent /\ Saved(p, row)
      /\ picked' = [picked EXCEPT ![p] = Behind(row)] /\ agreed' = agreed
  BY DEF ChooseShare
<1>2. /\ row \in ShareRow /\ row.token = shares[p].token /\ row.cv = shares[p].cv
      /\ Names(live, span, row, Behind(row))
  BY <1>1, ShareType, RowChosen, ChosenRow, ZenonT(40)
<1>3. Behind(row) \in SUBSET (Href \X Nat)
  BY BehindType
<1> HIDE DEF row
<1>4. /\ picked' \in [Share -> SUBSET (Href \X Nat)] /\ picked'[p] = Behind(row)
      /\ \A q \in Share : q # p => picked'[q] = picked[q]
  BY <1>1, <1>3 DEF TypeOK
<1>5. agreed' \in [Share -> Credential \cup {Absent}] /\ agreed'[p] = row.cv
  BY <1>1, <1>2 DEF TypeOK, AgreedRow
<1> QED
  BY <1>1, <1>2, <1>4, <1>5, SavedKeeps

LEMMA SwitchShareKeeps ==
    ASSUME IInv, NEW p \in Share, NEW on \in BOOLEAN, SwitchShare(p, on)
    PROVE  IInv'
<1> USE DEF IInv
<1> DEFINE k == IF on THEN cv ELSE shares[p].cv
           row == [shares[p] EXCEPT !.enabled = on, !.cv = k]
<1>1. /\ Edit /\ shares[p] # Absent /\ Saved(p, row)
      /\ agreed' = (IF on THEN [agreed EXCEPT ![p] = cv] ELSE agreed) /\ picked' = picked
  BY DEF SwitchShare
<1>2. shares[p] \in ShareRow /\ k \in Credential
  BY <1>1, ShareType, RowType DEF TypeOK
<1>3. /\ agreed' \in [Share -> Credential \cup {Absent}] /\ agreed'[p] = k
      /\ \A q \in Share : q # p => agreed'[q] = agreed[q]
  BY <1>1, <1>2 DEF TypeOK, AgreedRow
<1>4. /\ row \in ShareRow /\ row.token = shares[p].token /\ row.cv = k
      /\ row.lists = shares[p].lists /\ row.calendars = shares[p].calendars
  <2>1. ASSUME NEW old \in ShareRow, NEW c \in Credential
        PROVE  LET other == [old EXCEPT !.enabled = on, !.cv = c]
               IN  /\ other \in ShareRow /\ other.token = old.token /\ other.cv = c
                   /\ other.lists = old.lists /\ other.calendars = old.calendars
    BY DEF ShareRow
  <2> HIDE DEF k
  <2> QED
    BY <1>2, <2>1
<1> HIDE DEF row
<1>5. Names(live, span, row, picked'[p])
  BY <1>1, <1>4, NamesAre, NamesLists
<1>6. picked' \in [Share -> SUBSET (Href \X Nat)] /\ \A q \in Share : picked'[q] = picked[q]
  BY <1>1 DEF TypeOK
<1> QED
  BY <1>1, <1>3, <1>4, <1>5, <1>6, SavedKeeps

LEMMA ShareFocusCardKeeps ==
    ASSUME IInv, NEW p \in Share, NEW on \in BOOLEAN, ShareFocusCard(p, on)
    PROVE  IInv'
<1> USE DEF IInv
<1> DEFINE row == [shares[p] EXCEPT !.focus = on]
<1>1. /\ Edit /\ shares[p] # Absent /\ Saved(p, row) /\ agreed' = agreed /\ picked' = picked
  BY DEF ShareFocusCard
<1>2. /\ row \in ShareRow /\ row.token = shares[p].token /\ row.cv = shares[p].cv
      /\ row.lists = shares[p].lists /\ row.calendars = shares[p].calendars
  BY <1>1, ShareType, RowFocused
<1> HIDE DEF row
<1>3. Names(live, span, row, picked'[p])
  BY <1>1, <1>2, NamesAre, NamesLists
<1>4. /\ picked' \in [Share -> SUBSET (Href \X Nat)] /\ \A q \in Share : picked'[q] = picked[q]
      /\ agreed' \in [Share -> Credential \cup {Absent}] /\ \A q \in Share : agreed'[q] = agreed[q]
      /\ agreed'[p] = row.cv
  BY <1>1, <1>2 DEF TypeOK, AgreedRow
<1> QED
  BY <1>1, <1>2, <1>3, <1>4, SavedKeeps

LEMMA RotateShareKeeps ==
    ASSUME IInv, NEW p \in Share, RotateShare(p)
    PROVE  IInv'
<1> USE DEF IInv
<1> DEFINE row == Rekeyed(shares[p])
<1>1. /\ shares[p] # Absent /\ shares' = [shares EXCEPT ![p] = row]
      /\ dead' = dead \cup {shares[p].token} /\ minted' = minted + 1
      /\ UNCHANGED <<display, picked, agreed, parked, plan, archived>>
      /\ UNCHANGED <<server, live, span, tasks, link, visit, cv, world>>
      /\ edits' = edits + 1
  BY DEF RotateShare, OwnerStays, WorldStays, Edit
<1>2. /\ row \in ShareRow /\ row # Absent /\ row.token = minted /\ row.cv = shares[p].cv
      /\ row.lists = shares[p].lists /\ row.calendars = shares[p].calendars
      /\ shares[p].token \in Nat
  BY <1>1, ShareType, RowType, RowRekeyed DEF TypeOK
<1> HIDE DEF row
<1>3. /\ shares' \in [Share -> ShareRow \cup {Absent}] /\ shares'[p] = row
      /\ \A q \in Share : q # p => shares'[q] = shares[q]
  BY <1>1, <1>2, RowPut
<1>4. TypeOK'
  <2>1. minted \in Nat /\ world \in Nat /\ edits \in Nat /\ dead \subseteq Nat
    BY DEF TypeOK
  <2>2. {minted', world', edits'} \subseteq Nat
    BY <1>1, <2>1
  <2>3. dead' \subseteq Nat
    BY <1>1, <1>2, <2>1
  <2> QED
    BY <1>1, <1>3, <2>2, <2>3 DEF TypeOK
<1>5. OneDoor'
  BY <1>1, <1>2, <1>3, DoorsPut
<1>6. Names(live, span, shares'[p], picked'[p])
  BY <1>1, <1>2, <1>3, NamesAre, NamesLists
<1>7. NamesLive'
  BY <1>1, <1>3, <1>6, NamesPut
<1>8. AgreedRow'
  BY <1>1, <1>2, <1>3 DEF AgreedRow
<1>9. TitleKnown'
  BY <1>1 DEF TitleKnown
<1> QED
  BY <1>4, <1>5, <1>7, <1>8, <1>9

LEMMA DeleteShareKeeps ==
    ASSUME IInv, NEW p \in Share, DeleteShare(p)
    PROVE  IInv'
<1> USE DEF IInv
<1>1. /\ shares[p] # Absent /\ shares' = [shares EXCEPT ![p] = Absent]
      /\ dead' = dead \cup {shares[p].token} /\ minted' = minted
      /\ picked' = [picked EXCEPT ![p] = {}]
      /\ agreed' = [agreed EXCEPT ![p] = Absent]
      /\ UNCHANGED <<display, parked, plan, archived>>
      /\ UNCHANGED <<server, live, span, tasks, link, visit, cv, world>>
      /\ edits' = edits + 1
  BY DEF DeleteShare, OwnerStays, WorldStays, Edit
<1>2. shares[p].token \in Nat
  BY <1>1, ShareType, RowType
<1>3. /\ shares' \in [Share -> ShareRow \cup {Absent}] /\ shares'[p] = Absent
      /\ \A q \in Share : q # p => shares'[q] = shares[q]
  BY <1>1, RowPut
<1>4. /\ picked' \in [Share -> SUBSET (Href \X Nat)]
      /\ \A q \in Share : q # p => picked'[q] = picked[q]
      /\ agreed' \in [Share -> Credential \cup {Absent}]
      /\ \A q \in Share : q # p => agreed'[q] = agreed[q]
  BY <1>1 DEF TypeOK
<1>5. TypeOK'
  <2>1. minted \in Nat /\ world \in Nat /\ edits \in Nat /\ dead \subseteq Nat
    BY DEF TypeOK
  <2>2. {minted', world', edits'} \subseteq Nat
    BY <1>1, <2>1
  <2>3. dead' \subseteq Nat
    BY <1>1, <1>2, <2>1
  <2> QED
    BY <1>1, <1>3, <1>4, <2>2, <2>3 DEF TypeOK
<1>6. OneDoor'
  BY <1>1, <1>3, DoorsPut
<1>7. NamesLive'
  BY <1>1, <1>3, <1>4, NamesPut
<1>8. AgreedRow'
  BY <1>3, <1>4 DEF AgreedRow
<1>9. TitleKnown'
  BY <1>1 DEF TitleKnown
<1> QED
  BY <1>5, <1>6, <1>7, <1>8, <1>9

-----------------------------------------------------------------------------
(* Discovery.                                                                *)

LEMMA DoorsKept ==
    ASSUME OneDoor, UNCHANGED <<display, minted, dead>>,
           \A q \in Share : shares'[q] # Absent =>
               shares[q] # Absent /\ shares'[q].token = shares[q].token
    PROVE  OneDoor'
BY DEF OneDoor

LEMMA DiscoverKeeps ==
    ASSUME IInv, NEW present, present \subseteq Href, Discover(present),
           server' \subseteq Href, world' \in Nat, edits' \in Nat
    PROVE  IInv'
<1> USE DEF IInv
<1>1. PICK skipped \in SUBSET (present \ live) :
          LET gone == live \ present
              fresh == present \ (live \cup skipped)
          IN  /\ live' = (live \ gone) \cup fresh
              /\ span' = [h \in Href |-> IF h \in fresh THEN span[h] + 1 ELSE span[h]]
              /\ tasks' = [h \in Href |-> IF h \in gone THEN [u \in Task |-> Absent] ELSE tasks[h]]
              /\ picked' = [p \in Share |-> {k \in picked[p] : k[1] \notin gone}]
              /\ visit' = IF visit # Absent /\ visit.at \in gone THEN Absent ELSE visit
              /\ Prune(gone)
  BY DEF Discover
<1> DEFINE gone == live \ present
           fresh == present \ (live \cup skipped)
           slugs == {SlugOf[h] : h \in gone}
<1>2. /\ live' = (live \ gone) \cup fresh
      /\ span' = [h \in Href |-> IF h \in fresh THEN span[h] + 1 ELSE span[h]]
      /\ tasks' = [h \in Href |-> IF h \in gone THEN [u \in Task |-> Absent] ELSE tasks[h]]
      /\ picked' = [p \in Share |-> {k \in picked[p] : k[1] \notin gone}]
      /\ visit' = IF visit # Absent /\ visit.at \in gone THEN Absent ELSE visit
      /\ shares' = [p \in Share |->
            IF shares[p] = Absent THEN Absent
            ELSE [shares[p] EXCEPT !.lists = @ \ slugs, !.calendars = @ \ slugs]]
  BY <1>1 DEF Prune
<1>3. gone \in SUBSET live /\ fresh \cap live = {} /\ fresh \subseteq Href /\ slugs = {SlugOf[h] : h \in gone}
  OBVIOUS
<1>4. UNCHANGED <<parked, plan, archived, display, link, minted, cv, agreed, dead>>
  BY DEF Discover, SharesStay
<1> HIDE DEF gone, fresh, slugs
<1>5. ASSUME NEW p \in Share, shares[p] # Absent
      PROVE  /\ shares'[p] \in ShareRow /\ shares'[p].token = shares[p].token
             /\ shares'[p].cv = shares[p].cv
             /\ shares'[p].lists = shares[p].lists \ slugs
             /\ shares'[p].calendars = shares[p].calendars \ slugs
  <2>1. shares[p] \in ShareRow
    BY <1>5, ShareType
  <2>2. shares'[p] = [shares[p] EXCEPT !.lists = @ \ slugs, !.calendars = @ \ slugs]
    BY <1>2, <1>5
  <2>3. ASSUME NEW row \in ShareRow
        PROVE  LET other == [row EXCEPT !.lists = @ \ slugs, !.calendars = @ \ slugs]
               IN  /\ other \in ShareRow /\ other.token = row.token /\ other.cv = row.cv
                   /\ other.lists = row.lists \ slugs
                   /\ other.calendars = row.calendars \ slugs
    BY DEF ShareRow
  <2> QED
    BY <2>1, <2>2, <2>3
<1>6. \A p \in Share : shares[p] = Absent => shares'[p] = Absent
  BY <1>2
<1>7. shares' \in [Share -> ShareRow \cup {Absent}]
  BY <1>2, <1>5, <1>6
<1>8. span' \in [Href -> Nat] /\ \A h \in live : span'[h] = span[h]
  <2>1. span \in [Href -> Nat] /\ live \subseteq Href
    BY DEF TypeOK
  <2>2. span' = [h \in Href |-> IF h \in fresh THEN span[h] + 1 ELSE span[h]]
    BY <1>2
  <2>3. ASSUME NEW h \in Href
        PROVE  /\ span[h] \in Nat /\ span[h] + 1 \in Nat
               /\ span'[h] = IF h \in fresh THEN span[h] + 1 ELSE span[h]
    BY <2>1, <2>2
  <2>4. \A h \in live : h \in Href /\ h \notin fresh
    BY <1>3, <2>1
  <2>5. span' \in [Href -> Nat]
    BY <2>2, <2>3
  <2>6. \A h \in live : span'[h] = span[h]
    BY <2>3, <2>4
  <2> QED
    BY <2>5, <2>6
<1>9. tasks' \in [Href -> [Task -> State \cup {Absent}]]
  BY <1>2 DEF TypeOK
<1>10. picked' \in [Share -> SUBSET (Href \X Nat)]
  BY <1>2 DEF TypeOK
<1>11. TypeOK'
  <2>1. live' \subseteq Href /\ visit' \in Visit \cup {Absent}
    BY <1>2, <1>3 DEF TypeOK
  <2>2. {minted', world', edits'} \subseteq Nat
    BY <1>4 DEF TypeOK
  <2> QED
    BY <1>4, <1>7, <1>8, <1>9, <1>10, <2>1, <2>2 DEF TypeOK
<1>12. OneDoor'
  BY <1>4, <1>5, <1>6, DoorsKept
<1>13. ASSUME NEW p \in Share, shares'[p] # Absent
       PROVE  Names(live', span', shares'[p], picked'[p])
  <2>1. shares[p] # Absent
    BY <1>6, <1>13
  <2>2. Names(live, span, shares[p], picked[p])
    BY <2>1, NamesAre
  <2>3. \A k \in picked[p] : k[1] \notin gone => k \in picked'[p]
    BY <1>2
  <2>4. /\ shares'[p].lists = shares[p].lists \ slugs
        /\ shares'[p].calendars = shares[p].calendars \ slugs
    BY <1>5, <2>1
  <2> HIDE DEF IInv
  <2>5. Names((live \ gone) \cup fresh, span', shares'[p], picked'[p])
    BY <1>3, <1>8, <2>2, <2>3, <2>4, NamesPruned
  <2> QED
    BY <1>2, <2>5
<1>14. NamesLive'
  BY <1>13, NamesAreThen
<1>15. AgreedRow'
  BY <1>4, <1>5, <1>6 DEF AgreedRow
<1>16. TitleKnown'
  BY <1>2, <1>4 DEF TitleKnown
<1> QED
  BY <1>11, <1>12, <1>14, <1>15, <1>16

LEMMA SyncAllKeeps ==
    ASSUME IInv, SyncAll
    PROVE  IInv'
<1>1. Discover(server) /\ UNCHANGED <<server, world, edits>>
  BY DEF SyncAll
<1>2. server \subseteq Href /\ world \in Nat /\ edits \in Nat
  BY DEF IInv, TypeOK
<1> QED
  BY <1>1, <1>2, DiscoverKeeps

LEMMA CollectionKeeps ==
    ASSUME IInv, NEW h \in Href, CreateCollection(h) \/ DeleteCollection(h)
    PROVE  IInv'
<1>1. /\ Discover(server') /\ world' = world /\ edits' = edits + 1
      /\ server' = server \cup {h} \/ server' = server \ {h}
  BY DEF CreateCollection, DeleteCollection, Edit
<1>2. server \subseteq Href /\ world \in Nat /\ edits \in Nat
  BY DEF IInv, TypeOK
<1>3. PICK present : present = server'
  OBVIOUS
<1>4. Discover(present)
  BY <1>1, <1>3
<1>5. server' \subseteq Href /\ world' \in Nat /\ edits' \in Nat
  BY <1>1, <1>2
<1> QED
  BY <1>3, <1>4, <1>5, DiscoverKeeps

-----------------------------------------------------------------------------
(* What leaves the shares and the collections alone.                         *)

LEMMA Aside ==
    ASSUME IInv, TypeOK', TitleKnown',
           UNCHANGED <<live, span, shares, display, minted, picked, agreed, dead>>
    PROVE  IInv'
<1> USE DEF IInv
<1>1. OneDoor' /\ AgreedRow'
  BY DEF OneDoor, AgreedRow
<1> QED
  BY <1>1, NamesStand

LEMMA ForeignKeeps ==
    ASSUME IInv, NEW h \in Href, Foreign(h)
    PROVE  IInv'
<1> USE DEF IInv
<1>1. /\ world' = world + 1
      /\ server' = IF h \in server THEN server \ {h} ELSE server \cup {h}
      /\ UNCHANGED <<live, span, tasks, parked, plan, visit, shares, picked, edits>>
      /\ UNCHANGED <<archived, display, link, minted, cv, agreed, dead>>
  BY DEF Foreign, SharesStay
<1>2. TypeOK'
  BY <1>1 DEF TypeOK
<1>3. TitleKnown'
  BY <1>1 DEF TitleKnown
<1> QED
  BY <1>1, <1>2, <1>3, Aside

LEMMA SyncTaskKeeps ==
    ASSUME IInv, NEW h \in Href, NEW u \in Task, NEW s \in State \cup {Absent}, SyncTask(h, u, s)
    PROVE  IInv'
<1> USE DEF IInv
<1>1. /\ world' = world + 1 /\ tasks' = [tasks EXCEPT ![h][u] = s]
      /\ UNCHANGED <<server, live, span, parked, plan, visit, shares, picked, edits>>
      /\ UNCHANGED <<archived, display, link, minted, cv, agreed, dead>>
  BY DEF SyncTask, SharesStay
<1>2. tasks' \in [Href -> [Task -> State \cup {Absent}]]
  BY <1>1 DEF TypeOK
<1>3. {minted', world', edits'} \subseteq Nat
  BY <1>1 DEF TypeOK
<1>4. TypeOK'
  BY <1>1, <1>2, <1>3 DEF TypeOK
<1>5. TitleKnown'
  BY <1>1 DEF TitleKnown
<1> QED
  BY <1>1, <1>4, <1>5, Aside

LEMMA OwnerKeeps ==
    ASSUME IInv, Edit,
           UNCHANGED <<server, live, span, tasks, link, visit, cv, world>>,
           UNCHANGED <<shares, display, minted, picked, agreed, dead>>,
           parked' \subseteq Href \X Task, plan' \subseteq Slug \X Task, archived' \subseteq Slug
    PROVE  IInv'
<1> USE DEF IInv
<1>1. {minted', world', edits'} \subseteq Nat
  BY DEF TypeOK, Edit
<1>2. TypeOK'
  BY <1>1 DEF TypeOK
<1>3. TitleKnown'
  BY DEF TitleKnown
<1> QED
  BY <1>2, <1>3, Aside

LEMMA TaskKeeps ==
    ASSUME IInv, NEW h \in Href, NEW u \in Task, Park(h, u) \/ PlanTask(h, u)
    PROVE  IInv'
<1>1. /\ parked \subseteq Href \X Task /\ plan \subseteq Slug \X Task /\ archived \subseteq Slug
      /\ <<h, u>> \in Href \X Task /\ <<SlugOf[h], u>> \in Slug \X Task
  BY DEF IInv, TypeOK, Slug
<1>2. CASE Park(h, u)
  <2>1. parked' \subseteq Href \X Task
    BY <1>1, <1>2 DEF Park
  <2> QED
    BY <1>1, <1>2, <2>1, OwnerKeeps DEF Park, WorldStays
<1>3. CASE PlanTask(h, u)
  <2>1. plan' \subseteq Slug \X Task
    BY <1>1, <1>3 DEF PlanTask
  <2> QED
    BY <1>1, <1>3, <2>1, OwnerKeeps DEF PlanTask, WorldStays
<1> QED
  BY <1>2, <1>3

LEMMA ArchiveKeeps ==
    ASSUME IInv, NEW s \in Slug, Archive(s)
    PROVE  IInv'
<1>1. parked \subseteq Href \X Task /\ plan \subseteq Slug \X Task /\ archived \subseteq Slug
  BY DEF IInv, TypeOK
<1>2. archived' \subseteq Slug
  BY <1>1 DEF Archive
<1> QED
  BY <1>1, <1>2, OwnerKeeps DEF Archive, WorldStays

-----------------------------------------------------------------------------
(* The visitor, and the link.                                                *)

LEMMA VisitKeeps ==
    ASSUME IInv, NothingElse, {world', edits'} \subseteq Nat,
           visit' \in Visit \cup {Absent}, link' \in Title \cup {Absent}, TitleKnown'
    PROVE  IInv'
<1> USE DEF IInv
<1>1. TypeOK'
  BY DEF TypeOK, NothingElse
<1> QED
  BY <1>1, Aside DEF NothingElse

LEMMA VisitType ==
    ASSUME TypeOK, visit # Absent
    PROVE  /\ visit \in Visit /\ visit.title \in Title /\ visit.retitled \in BOOLEAN
           /\ visit.recorded \in BOOLEAN /\ visit.at \in Href
BY DEF TypeOK, Visit

LEMMA BookKeeps ==
    ASSUME IInv, NEW h \in Href, NEW recorded \in BOOLEAN, Book(h, recorded)
    PROVE  IInv'
<1>1. link \in Title /\ world \in Nat /\ edits \in Nat
  BY DEF IInv, TypeOK, Book
<1>2. visit' = [at |-> h, title |-> link, recorded |-> recorded, retitled |-> FALSE]
  BY DEF Book
<1>3. visit' \in Visit /\ visit'.title = link
  BY <1>1, <1>2 DEF Visit
<1>4. link' = link /\ world' = world + 1 /\ edits' = edits /\ NothingElse
  BY DEF Book
<1>5. TitleKnown'
  BY <1>3, <1>4 DEF TitleKnown
<1>6. {world', edits'} \subseteq Nat
  BY <1>1, <1>4
<1> QED
  BY <1>1, <1>3, <1>4, <1>5, <1>6, VisitKeeps

LEMMA RecoverBookingKeeps ==
    ASSUME IInv, RecoverBooking
    PROVE  IInv'
<1>1. visit \in Visit /\ link \in Title \cup {Absent} /\ world \in Nat /\ edits \in Nat
  BY VisitType DEF IInv, TypeOK, RecoverBooking
<1>2. /\ visit' = [visit EXCEPT !.recorded = TRUE] /\ visit # Absent
      /\ UNCHANGED <<link, world, edits>> /\ NothingElse
  BY DEF RecoverBooking
<1>3. visit' \in Visit /\ visit'.title = visit.title /\ (visit.retitled => visit'.retitled)
  BY <1>1, <1>2 DEF Visit
<1>4. TitleKnown'
  BY <1>2, <1>3 DEF IInv, TitleKnown
<1>5. {world', edits'} \subseteq Nat
  BY <1>1, <1>2
<1> QED
  BY <1>1, <1>2, <1>3, <1>4, <1>5, VisitKeeps

LEMMA MoveEventKeeps ==
    ASSUME IInv, NEW h \in Href, MoveEvent(h)
    PROVE  IInv'
<1>1. visit \in Visit /\ link \in Title \cup {Absent} /\ world \in Nat /\ edits \in Nat
  BY VisitType DEF IInv, TypeOK, MoveEvent
<1>2. /\ visit' = [visit EXCEPT !.at = h] /\ visit # Absent
      /\ UNCHANGED <<link, world>> /\ edits' = edits + 1 /\ NothingElse
  BY DEF MoveEvent, Edit
<1>3. visit' \in Visit /\ visit'.title = visit.title /\ (visit.retitled => visit'.retitled)
  BY <1>1, <1>2 DEF Visit
<1>4. TitleKnown'
  BY <1>2, <1>3 DEF IInv, TitleKnown
<1>5. {world', edits'} \subseteq Nat
  BY <1>1, <1>2
<1> QED
  BY <1>1, <1>2, <1>3, <1>4, <1>5, VisitKeeps

\* An event made under a title the link does not have any more is one whose link
\* was called otherwise.
LEMMA RetitleKeeps ==
    ASSUME IInv, NEW t \in Title \cup {Absent}, Retitle(t)
    PROVE  IInv'
<1>1. /\ visit \in Visit \cup {Absent} /\ world \in Nat /\ edits \in Nat
      /\ visit # Absent => visit.retitled \in BOOLEAN
  BY VisitType DEF IInv, TypeOK
<1>2. /\ link' = t /\ UNCHANGED world /\ edits' = edits + 1 /\ NothingElse
      /\ visit' = IF visit = Absent THEN visit
                  ELSE [visit EXCEPT !.retitled = @ \/ t # visit.title]
  BY DEF Retitle, Edit
<1>3. visit # Absent =>
         visit' \in Visit /\ visit'.title = visit.title /\ (t # visit.title => visit'.retitled)
  <2> SUFFICES ASSUME visit # Absent
               PROVE  /\ visit' \in Visit /\ visit'.title = visit.title
                      /\ t # visit.title => visit'.retitled
    OBVIOUS
  <2>1. CASE t # visit.title
    <3>1. visit' = [visit EXCEPT !.retitled = TRUE]
      BY <1>1, <1>2, <2>1
    <3> QED
      BY <1>1, <3>1 DEF Visit
  <2>2. CASE t = visit.title
    <3>1. visit' = [visit EXCEPT !.retitled = @]
      BY <1>1, <1>2, <2>2
    <3> QED
      BY <1>1, <2>2, <3>1 DEF Visit
  <2> QED
    BY <2>1, <2>2
<1>4. TitleKnown'
  BY <1>2, <1>3 DEF TitleKnown
<1>5. {world', edits'} \subseteq Nat
  BY <1>1, <1>2
<1>6. visit' \in Visit \cup {Absent}
  BY <1>2, <1>3
<1> QED
  BY <1>2, <1>4, <1>5, <1>6, VisitKeeps

-----------------------------------------------------------------------------
(* The display, and a restart.                                               *)

LEMMA DisplayType ==
    ASSUME TypeOK, display # Absent
    PROVE  /\ display \in DisplayRow /\ display.token \in Nat
           /\ display.lists \in SUBSET Slug /\ display.calendars \in SUBSET Slug
           /\ display.enabled \in BOOLEAN
BY DEF TypeOK, DisplayRow

LEMMA DisplayKeeps ==
    ASSUME IInv, Edit, WorldStays, OwnerStays, SharesRest,
           display' \in DisplayRow \cup {Absent},
           \/ /\ display # Absent /\ display' # Absent
              /\ display'.token = display.token /\ dead' = dead /\ minted' = minted
           \/ display' = Absent /\ display # Absent /\ dead' = dead \cup {display.token} /\ minted' = minted
           \/ /\ display' # Absent /\ display'.token = minted /\ minted' = minted + 1
              /\ \/ dead' = dead
                 \/ display # Absent /\ dead' = dead \cup {display.token}
    PROVE  IInv'
<1> USE DEF IInv
<1>1. /\ UNCHANGED <<server, live, span, tasks, link, visit, cv, world>>
      /\ UNCHANGED <<parked, plan, archived, shares, picked, agreed>>
      /\ edits' = edits + 1
  BY DEF Edit, WorldStays, OwnerStays, SharesRest
<1>2. /\ minted \in Nat /\ world \in Nat /\ edits \in Nat /\ dead \subseteq Nat
      /\ display # Absent => display.token \in Nat
  BY DisplayType DEF TypeOK
<1>3. TypeOK'
  <2>1. dead' \subseteq Nat
    BY <1>2
  <2>2. {minted', world', edits'} \subseteq Nat
    BY <1>1, <1>2
  <2> QED
    BY <1>1, <2>1, <2>2 DEF TypeOK
<1>4. display # Absent => display.token < minted /\ display.token \notin dead
  BY DEF OneDoor
<1>5. ASSUME NEW p \in Share, shares[p] # Absent
      PROVE  /\ shares[p].token \in Nat /\ shares[p].token < minted /\ shares[p].token \notin dead
             /\ display # Absent => display.token # shares[p].token
             /\ \A q \in Share : shares[q] # Absent /\ shares[q].token = shares[p].token => q = p
  BY <1>5, ShareType, RowType DEF OneDoor
<1>6. \A t \in dead' : t < minted'
  <2>1. \A t \in dead : t \in Nat /\ t < minted /\ t < minted'
    BY <1>2 DEF OneDoor
  <2>2. minted \in Nat /\ minted' \in {minted, minted + 1}
    BY <1>2
  <2>3. display # Absent => display.token < minted'
    BY <1>2, <1>4, <2>2
  <2> QED
    BY <2>1, <2>3
<1>7. ASSUME NEW p \in Share, shares[p] # Absent
      PROVE  /\ shares[p].token < minted' /\ shares[p].token \notin dead'
             /\ display' # Absent => display'.token # shares[p].token
  BY <1>2, <1>5, <1>7
<1>8. display' # Absent => display'.token < minted' /\ display'.token \notin dead'
  <2>1. \A t \in dead : t < minted
    BY DEF OneDoor
  <2> QED
    BY <1>2, <1>4, <2>1
<1>9. OneDoor'
  BY <1>1, <1>5, <1>6, <1>7, <1>8 DEF OneDoor
<1>10. NamesLive'
  BY <1>1, NamesStand
<1>11. AgreedRow' /\ TitleKnown'
  BY <1>1 DEF AgreedRow, TitleKnown
<1> QED
  BY <1>3, <1>9, <1>10, <1>11

LEMMA CreateDisplayKeeps ==
    ASSUME IInv, NEW choice \in Choices, CreateDisplay(choice)
    PROVE  IInv'
<1>1. minted \in Nat
  BY DEF IInv, TypeOK
<1>2. choice[1] \in SUBSET Slug /\ choice[2] \in SUBSET Slug
  BY ChoicesAssumption DEF Slug
<1>3. /\ display' = NewDisplay(minted, choice) /\ minted' = minted + 1 /\ dead' = dead
      /\ Edit /\ WorldStays /\ OwnerStays /\ SharesRest
  BY DEF CreateDisplay
<1>4. display' \in DisplayRow /\ display'.token = minted
  BY <1>1, <1>2, <1>3 DEF NewDisplay, DisplayRow
<1>5. display' # Absent
  BY <1>4, RowAssumption
<1> QED
  BY <1>3, <1>4, <1>5, DisplayKeeps

LEMMA PatchDisplayKeeps ==
    ASSUME IInv, NEW row \in DisplayRow, row.token = display.token, PatchDisplay(row)
    PROVE  IInv'
<1>1. row # Absent
  BY RowAssumption
<1> QED
  BY <1>1, DisplayKeeps DEF PatchDisplay

LEMMA OfDisplayKeeps ==
    ASSUME IInv, OfDisplay
    PROVE  IInv'
<1>1. ASSUME NEW c \in Choices, CreateDisplay(c)
      PROVE  IInv'
  BY <1>1, CreateDisplayKeeps
<1>2. CASE ChooseDisplay
  <2>1. PICK c \in Choices :
            PatchDisplay([display EXCEPT !.lists = c[1], !.calendars = c[2]])
    BY <1>2 DEF ChooseDisplay
  <2>2. display \in DisplayRow
    BY <2>1, DisplayType DEF IInv, PatchDisplay
  <2>3. c[1] \in SUBSET Slug /\ c[2] \in SUBSET Slug
    BY ChoicesAssumption DEF Slug
  <2> DEFINE drawn == [display EXCEPT !.lists = c[1], !.calendars = c[2]]
  <2>4. drawn \in DisplayRow /\ drawn.token = display.token
    BY <2>2, <2>3 DEF DisplayRow
  <2> QED
    BY <2>1, <2>4, PatchDisplayKeeps
<1>3. CASE SwitchDisplay
  <2> DEFINE on == ~display.enabled
             drawn == [display EXCEPT !.enabled = on]
  <2>1. PatchDisplay(drawn)
    BY <1>3 DEF SwitchDisplay
  <2>2. display \in DisplayRow /\ on \in BOOLEAN
    BY <2>1, DisplayType DEF IInv, PatchDisplay
  <2>3. ASSUME NEW d \in DisplayRow, NEW b \in BOOLEAN
        PROVE  /\ [d EXCEPT !.enabled = b] \in DisplayRow
               /\ [d EXCEPT !.enabled = b].token = d.token
    BY DEF DisplayRow
  <2> HIDE DEF on
  <2>4. drawn \in DisplayRow /\ drawn.token = display.token
    BY <2>2, <2>3
  <2> QED
    BY <2>1, <2>4, PatchDisplayKeeps
<1>4. CASE RotateDisplay
  <2>1. /\ display # Absent /\ display' = [display EXCEPT !.token = minted]
        /\ dead' = dead \cup {display.token} /\ minted' = minted + 1
        /\ Edit /\ WorldStays /\ OwnerStays /\ SharesRest
    BY <1>4 DEF RotateDisplay
  <2>2. display \in DisplayRow /\ minted \in Nat
    BY <2>1, DisplayType DEF IInv, TypeOK
  <2>3. display' \in DisplayRow /\ display'.token = minted
    BY <2>1, <2>2 DEF DisplayRow
  <2>4. display' # Absent
    BY <2>3, RowAssumption
  <2> QED
    BY <2>1, <2>3, <2>4, DisplayKeeps
<1>5. CASE DeleteDisplay
  BY <1>5, DisplayKeeps DEF DeleteDisplay
<1> QED
  BY <1>1, <1>2, <1>3, <1>4, <1>5 DEF OfDisplay

LEMMA RestartKeeps ==
    ASSUME IInv, NEW k \in Credential, Restart(k)
    PROVE  IInv'
<1> USE DEF IInv
<1>1. /\ cv' = k /\ edits' = edits + 1
      /\ UNCHANGED <<server, live, span, tasks, link, visit, world, display, minted, dead>>
      /\ UNCHANGED <<parked, plan, archived, shares, picked, agreed>>
  BY DEF Restart, Edit, SharesRest, OwnerStays
<1>2. {minted', world', edits'} \subseteq Nat
  BY <1>1 DEF TypeOK
<1>3. TypeOK'
  BY <1>1, <1>2 DEF TypeOK
<1>4. TitleKnown'
  BY <1>1 DEF TitleKnown
<1> QED
  BY <1>1, <1>3, <1>4, Aside

-----------------------------------------------------------------------------
(* The beginning, and every step.                                            *)

LEMMA InitHolds ==
    ASSUME Init
    PROVE  IInv
<1>1. PICK p \in Share, c \in Choices, focus \in BOOLEAN :
          shares = [q \in Share |-> IF q = p THEN NewShare(0, c, focus) ELSE Absent]
  BY DEF Init
<1> DEFINE row == NewShare(0, c, focus)
<1>2. /\ server \subseteq Href /\ live = server
      /\ span = [h \in Href |-> IF h \in server THEN 1 ELSE 0]
      /\ tasks \in [Href -> [Task -> {Absent, [done |-> FALSE, private |-> FALSE]}]]
      /\ parked = {} /\ archived = {} /\ cv \in Credential
      /\ display = NewDisplay(1, <<{}, {}>>) /\ minted = 2 /\ link \in Title /\ visit = Absent
      /\ picked = [q \in Share |-> IF shares[q] = Absent THEN {} ELSE Behind(shares[q])]
      /\ agreed = [q \in Share |-> IF shares[q] = Absent THEN Absent ELSE cv]
      /\ dead = {} /\ world = 0 /\ edits = 0
  BY DEF Init
<1>3. plan \in {{}, {<<SlugOf[h], u>> : h \in {h \in Href : "task" \in Kinds[h]}, u \in Task}}
  BY DEF Init
<1>4. row \in ShareRow /\ row.token = 0 /\ row.cv = cv /\ row # Absent
  BY <1>2, NewShareType, RowType, ZenonT(40)
<1>5. Names(live, span, row, Behind(row))
  BY <1>2, NewShareNames
<1>6. span \in [Href -> Nat]
  BY <1>2
<1>7. Behind(row) \in SUBSET (Href \X Nat)
  <2>1. ASSUME NEW h \in live
        PROVE  <<h, span[h]>> \in Href \X Nat
    BY <1>2, <1>6
  <2> QED
    BY <2>1 DEF Behind, Chosen
<1>8. shares = [q \in Share |-> IF q = p THEN row ELSE Absent]
  BY <1>1
<1> HIDE DEF row
<1>9. \A q \in Share : shares[q] # Absent => q = p /\ shares[q] = row
  BY <1>8
<1>10. TypeOK
  <2>1. shares \in [Share -> ShareRow \cup {Absent}]
    BY <1>4, <1>8
  <2>2. picked \in [Share -> SUBSET (Href \X Nat)]
    <3>1. \A q \in Share : (IF shares[q] = Absent THEN {} ELSE Behind(shares[q]))
                               \in SUBSET (Href \X Nat)
      BY <1>7, <1>9
    <3> QED
      BY <1>2, <3>1
  <2>3. agreed \in [Share -> Credential \cup {Absent}]
    BY <1>2
  <2>4. display \in DisplayRow
    BY <1>2 DEF NewDisplay, DisplayRow
  <2>5. plan \subseteq Slug \X Task
    BY <1>3 DEF Slug
  <2>6. tasks \in [Href -> [Task -> State \cup {Absent}]]
    <3>1. [done |-> FALSE, private |-> FALSE] \in State
      BY DEF State
    <3>2. {Absent, [done |-> FALSE, private |-> FALSE]} \subseteq State \cup {Absent}
      BY <3>1
    <3> DEFINE none == {Absent, [done |-> FALSE, private |-> FALSE]}
               some == State \cup {Absent}
    <3>3. tasks \in [Href -> [Task -> none]] /\ none \subseteq some
      BY <1>2, <3>2
    <3> HIDE DEF none, some
    <3>4. tasks \in [Href -> [Task -> some]]
      BY <3>3
    <3> QED
      BY <3>4 DEF some
  <2>7. {minted, world, edits} \subseteq Nat /\ dead \subseteq Nat
    BY <1>2
  <2> QED
    BY <1>2, <1>6, <2>1, <2>2, <2>3, <2>4, <2>5, <2>6, <2>7 DEF TypeOK
<1>11. OneDoor
  <2>1. display.token = 1
    BY <1>2 DEF NewDisplay
  <2> QED
    BY <1>2, <1>4, <1>9, <2>1 DEF OneDoor
<1>12. NamesLive
  <2>1. \A q \in Share : shares[q] # Absent => picked[q] = Behind(row)
    BY <1>2, <1>9
  <2> QED
    BY <1>5, <1>9, <2>1, NamesAre
<1>13. AgreedRow
  BY <1>2, <1>4, <1>9 DEF AgreedRow
<1>14. TitleKnown
  BY <1>2 DEF TitleKnown
<1> QED
  BY <1>10, <1>11, <1>12, <1>13, <1>14 DEF IInv

LEMMA NextKeeps ==
    ASSUME IInv, [Next]_vars
    PROVE  IInv'
<1>1. ASSUME NEW p \in Share, OfShare(p)
      PROVE  IInv'
  <2>1. ASSUME NEW c \in Choices, ChooseShare(p, c)
        PROVE  IInv'
    BY <2>1, ChooseShareKeeps
  <2>2. ASSUME NEW c \in Choices, NEW on \in BOOLEAN, CreateShare(p, c, on)
        PROVE  IInv'
    BY <2>2, CreateShareKeeps
  <2>3. ASSUME NEW on \in BOOLEAN, SwitchShare(p, on)
        PROVE  IInv'
    BY <2>3, SwitchShareKeeps
  <2>4. ASSUME NEW on \in BOOLEAN, ShareFocusCard(p, on)
        PROVE  IInv'
    BY <2>4, ShareFocusCardKeeps
  <2> QED
    BY <1>1, <2>1, <2>2, <2>3, <2>4, RotateShareKeeps, DeleteShareKeeps DEF OfShare
<1>2. CASE OfDisplay
  BY <1>2, OfDisplayKeeps
<1>3. ASSUME NEW h \in Href, CreateCollection(h) \/ DeleteCollection(h) \/ Foreign(h)
      PROVE  IInv'
  BY <1>3, CollectionKeeps, ForeignKeeps
<1>4. ASSUME NEW h \in Href, NEW u \in Task, Park(h, u) \/ PlanTask(h, u)
      PROVE  IInv'
  BY <1>4, TaskKeeps
<1>5. ASSUME NEW h \in Href, NEW u \in Task, NEW s \in State \cup {Absent}, SyncTask(h, u, s)
      PROVE  IInv'
  BY <1>5, SyncTaskKeeps
<1>6. ASSUME NEW s \in Slug, Archive(s)
      PROVE  IInv'
  BY <1>6, ArchiveKeeps
<1>7. ASSUME NEW h \in Href, MoveEvent(h)
      PROVE  IInv'
  BY <1>7, MoveEventKeeps
<1>8. ASSUME NEW h \in Href, NEW recorded \in BOOLEAN, Book(h, recorded)
      PROVE  IInv'
  BY <1>8, BookKeeps
<1>9. ASSUME NEW t \in Title \cup {Absent}, Retitle(t)
      PROVE  IInv'
  BY <1>9, RetitleKeeps
<1>10. ASSUME NEW k \in Credential, Restart(k)
       PROVE  IInv'
  BY <1>10, RestartKeeps
<1>11. CASE UNCHANGED vars
  <2>1. TypeOK' /\ TitleKnown'
    BY <1>11 DEF vars, IInv, TypeOK, TitleKnown
  <2> QED
    BY <1>11, <2>1, Aside DEF vars
<1> QED
  BY <1>1, <1>2, <1>3, <1>4, <1>5, <1>6, <1>7, <1>8, <1>9, <1>10, <1>11,
     RecoverBookingKeeps, SyncAllKeeps DEF Next

\* Every reachable state satisfies the invariant.
THEOREM Inductive == Spec => []IInv
<1>1. Init => IInv
  BY InitHolds
<1>2. IInv /\ [Next]_vars => IInv'
  BY NextKeeps
<1> QED
  BY <1>1, <1>2, PTL DEF Spec

\* Rows, collections, tokens and histories keep their types.
THEOREM TypeCorrect == Spec => []TypeOK
<1>1. IInv => TypeOK
  BY DEF IInv
<1> QED
  BY <1>1, Inductive, PTL

-----------------------------------------------------------------------------
(* What the invariant is for.                                                *)

LEMMA FocusIsChosen ==
    ASSUME NEW row
    PROVE  {r.list : r \in ShareFocus(row)} \subseteq Chosen("task", row.lists)
<1>1. ASSUME NEW r \in ShareFocus(row)
      PROVE  r.list \in Chosen("task", row.lists)
  <2>1. PICK k \in ResolvedDayRows : r = TaskShown(k[1], k[2]) /\ k[1] \in Chosen("task", row.lists)
    BY <1>1 DEF ShareFocus
  <2> QED
    BY <2>1 DEF TaskShown
<1> QED
  BY <1>1

\* SharesOnlyChosen: what a share shows comes from a collection chosen for it that
\* is still the same, through every coming and going on the calendar server.
THEOREM ShowsWhatWasPicked == Spec => []SharesOnlyChosen
<1>1. IInv => SharesOnlyChosen
  <2> SUFFICES ASSUME IInv, NEW p \in Share, shares[p] # Absent, NEW h \in ShownOf(shares[p])
               PROVE  <<h, span[h]>> \in picked[p]
    BY DEF SharesOnlyChosen
  <2>1. h \in Chosen("task", shares[p].lists) \cup Chosen("event", shares[p].calendars)
    BY FocusIsChosen DEF ShownOf, ShareCalendars
  <2>2. <<h, span[h]>> \in Behind(shares[p])
    BY <2>1 DEF Behind
  <2> QED
    BY <2>2 DEF IInv, NamesLive
<1> QED
  BY <1>1, Inductive, PTL

\* DoorsStayShut: a token that was taken back opens neither a share nor the display,
\* and a share opens only under the credentials it was last switched on under.
THEOREM TakenBackForGood == Spec => []DoorsStayShut
<1>1. IInv => DoorsStayShut
  <2> USE DEF IInv
  <2>1. ASSUME IInv, NEW p \in Share, shares[p] # Absent
        PROVE  LET dto == ShareDto(shares[p])
               IN  /\ dto.enabled = (p \in Answers(dto.token))
                   /\ dto.switchedOffByPassword => agreed[p] # cv
    <3>1. shares[p] \in ShareRow /\ shares[p].enabled \in BOOLEAN
      BY <2>1, ShareType, RowType
    <3>2. p \in Answers(shares[p].token) <=> shares[p].enabled /\ shares[p].cv = cv
      BY <2>1 DEF Answers, ByToken, CvCurrent
    <3>3. agreed[p] = shares[p].cv
      BY <2>1 DEF AgreedRow
    <3>4. ShareDto(shares[p]).token = shares[p].token
      BY DEF ShareDto
    <3>5. ShareDto(shares[p]).enabled = (shares[p].enabled /\ shares[p].cv = cv)
      BY DEF ShareDto, CvCurrent
    <3>6. ShareDto(shares[p]).switchedOffByPassword = (shares[p].enabled /\ ~(shares[p].cv = cv))
      BY DEF ShareDto, CvCurrent
    <3>7. (p \in Answers(ShareDto(shares[p]).token)) = (shares[p].enabled /\ shares[p].cv = cv)
      BY <3>1, <3>2, <3>4
    <3> QED
      BY <3>3, <3>5, <3>6, <3>7
  <2>2. ASSUME IInv, NEW t \in dead
        PROVE  Answers(t) = {} /\ ~DisplayAnswers(t)
    BY <2>2 DEF OneDoor, Answers, ByToken, DisplayAnswers
  <2>3. ASSUME IInv, NEW t \in 0 .. minted, NEW p \in Share, p \in Answers(t)
        PROVE  agreed[p] = cv
    BY <2>3 DEF AgreedRow, Answers, ByToken, CvCurrent
  <2> QED
    BY <2>1, <2>2, <2>3 DEF DoorsStayShut
<1> QED
  BY <1>1, Inductive, PTL

\* OneStory: the card and the lists of a share agree, and a display without a
\* choice shows all that a share does.
THEOREM ViewsAgree == Spec => []OneStory
<1>1. TypeOK => OneStory
  <2> SUFFICES ASSUME TypeOK, NEW p \in Share, shares[p] # Absent
               PROVE  /\ \A r \in ShareFocus(shares[p]) :
                            /\ r.done \/ r \in ShareLists(shares[p])
                            /\ <<r.list, r.uid>> \in DisplayRows([lists |-> {}])
                      /\ ShareCalendars(shares[p]) \subseteq DisplayCalendars([calendars |-> {}])
    BY DEF OneStory
  <2>1. ASSUME NEW r \in ShareFocus(shares[p])
        PROVE  /\ r.done \/ r \in ShareLists(shares[p])
               /\ <<r.list, r.uid>> \in DisplayRows([lists |-> {}])
    <3>1. PICK k \in ResolvedDayRows :
              /\ r = TaskShown(k[1], k[2]) /\ ~ShareParked(k)
              /\ k[1] \in Chosen("task", shares[p].lists)
      BY <2>1 DEF ShareFocus
    <3>2. k \in live \X Task /\ tasks[k[1]][k[2]] # Absent /\ k = <<k[1], k[2]>>
      <4>1. k \in live \X Task
        BY <3>1 DEF ResolvedDayRows
      <4>2. \E s \in Slug : <<s, k[2]>> \in plan /\ ResolveList(s) = k[1] /\ tasks[k[1]][k[2]] # Absent
        BY <3>1 DEF ResolvedDayRows
      <4> QED
        BY <4>1, <4>2
    <3>3. r.list = k[1] /\ r.uid = k[2] /\ r.done = tasks[k[1]][k[2]].done
      BY <3>1 DEF TaskShown
    <3>4. <<r.list, r.uid>> \in DisplayRows([lists |-> {}])
      BY <3>1, <3>2, <3>3 DEF DisplayRows, Narrows
    <3>5. ASSUME ~r.done
          PROVE  r \in ShareLists(shares[p])
      <4>1. OpenTask(k[1], k[2]) /\ k \notin parked
        BY <3>1, <3>2, <3>3, <3>5 DEF OpenTask, ShareParked
      <4>2. k \in Chosen("task", shares[p].lists) \X Task
        BY <3>1, <3>2
      <4> QED
        BY <3>1, <4>1, <4>2 DEF ShareLists
    <3> QED
      BY <3>4, <3>5
  <2>2. ShareCalendars(shares[p]) \subseteq DisplayCalendars([calendars |-> {}])
    BY DEF ShareCalendars, DisplayCalendars, Chosen, Narrows
  <2> QED
    BY <2>1, <2>2
<1> QED
  BY <1>1, TypeCorrect, PTL

\* VisitorUnnamed: the visitor's name is shown only when the record of the booking
\* was lost and the link was called otherwise since.
THEOREM VisitorStaysUnnamed == Spec => []VisitorUnnamed
<1>1. IInv => VisitorUnnamed
  <2> SUFFICES ASSUME IInv, NEW p \in Share, shares[p] # Absent, visit # Absent,
                      visit \in ShareEvents(shares[p])
               PROVE  ~visit.recorded /\ visit.retitled
    BY DEF VisitorUnnamed
  <2> USE DEF IInv
  <2>1. PICK h : visit = ShareEventTitle(h)
    BY DEF ShareEvents
  <2>2. visit \in Visit /\ link \in Title \cup {Absent}
    BY VisitType DEF TypeOK
  <2>3. visit # link
    BY <2>2, RowAssumption
  <2>4. ~visit.recorded /\ link # visit.title
    BY <2>1, <2>3 DEF ShareEventTitle
  <2> QED
    BY <2>4 DEF TitleKnown
<1> QED
  BY <1>1, Inductive, PTL

-----------------------------------------------------------------------------
(* The edits of a recurring event.                                           *)

\* No edit writes what is not its own, and none that fails writes at all.
LEMMA RequestsUnwritten ==
    ASSUME Unwritten, PutTail \/ WriteHead \/ Reread \/ Undo \/ Refresh
    PROVE  Unwritten'
<1>1. CASE PutTail
  BY <1>1 DEF Unwritten, FailsWhole, PutTail
<1>2. CASE WriteHead
  BY <1>2 DEF Unwritten, FailsWhole, WriteHead
<1>3. CASE Reread
  BY <1>3 DEF Unwritten, FailsWhole, Reread
<1>4. CASE Undo
  BY <1>4 DEF Unwritten, FailsWhole, Undo, End
<1>5. CASE Refresh
  BY <1>5 DEF Unwritten, FailsWhole, Refresh, End
<1> QED
  BY <1>1, <1>2, <1>3, <1>4, <1>5

LEMMA FaultsUnwritten ==
    ASSUME Unwritten, Unanswered \/ Crash
    PROVE  Unwritten'
<1>1. CASE Unanswered
  <2>1. pc \in {"tail", "head", "undo", "reread", "refresh"} /\ past' = past
    BY <1>1 DEF Unanswered
  <2>2. CASE pc = "reread" \/ (pc = "tail" /\ op.retried)
    <3>1. pc' = "undo" /\ outcome' = outcome /\ home' = home
      BY <1>1, <2>2 DEF Unanswered
    <3> QED
      BY <2>1, <2>2, <3>1 DEF Unwritten, FailsWhole
  <2>3. CASE ~(pc = "reread" \/ (pc = "tail" /\ op.retried))
    <3>1. pc' = "idle" /\ outcome' \in {"done", "unknown"}
      BY <1>1, <2>3 DEF Unanswered, HeadUncertain, End
    <3> QED
      BY <3>1 DEF Unwritten, FailsWhole
  <2> QED
    BY <2>2, <2>3
<1>2. CASE Crash
  BY <1>2 DEF Unwritten, FailsWhole, Crash, End
<1> QED
  BY <1>1, <1>2

LEMMA OthersUnwritten ==
    ASSUME Unwritten, ForeignEdit \/ Sync
    PROVE  Unwritten'
<1>1. CASE ForeignEdit
  <2>1. pc' = pc /\ outcome' = "none" /\ past' = IF pc \in {"idle", "refresh"} THEN None ELSE home'
    BY <1>1 DEF ForeignEdit
  <2> QED
    BY <2>1 DEF Unwritten, FailsWhole
<1>2. CASE Sync
  BY <1>2 DEF Unwritten, FailsWhole, Sync
<1> QED
  BY <1>1, <1>2

LEMMA EditsUnwritten == Unwritten /\ [SeriesNext]_seriesVars => Unwritten'
<1> SUFFICES ASSUME Unwritten, [SeriesNext]_seriesVars PROVE Unwritten'
  OBVIOUS
<1>1. ASSUME NEW scope \in Scope, NEW o \in Occurrences(cached), NEW e \in Edits, Ask(scope, o, e)
      PROVE  Unwritten'
  <2>1. pc = "idle" /\ past' = home /\ home' = home /\ outcome' = "none"
    BY <1>1 DEF Ask
  <2> QED
    BY <2>1 DEF Unwritten, FailsWhole
<1>2. CASE UNCHANGED seriesVars
  BY <1>2 DEF Unwritten, FailsWhole, seriesVars
<1> QED
  BY <1>1, <1>2, RequestsUnwritten, FaultsUnwritten, OthersUnwritten DEF SeriesNext

\* An edit of a recurring event that is reported to have failed has changed nothing,
\* whatever other clients wrote between its requests, unless an answer was lost
\* (sync/engine.py, split_event).
THEOREM FailuresAreWhole == SeriesSpec => []FailsWhole
<1>1. SeriesInit => Unwritten
  BY DEF SeriesInit, Unwritten, FailsWhole
<1>2. Unwritten => FailsWhole
  BY DEF Unwritten
<1> QED
  BY <1>1, <1>2, EditsUnwritten, PTL DEF SeriesSpec

LEMMA AskIsWhole ==
    ASSUME EditInv, NEW scope \in Scope, NEW o \in Occurrences(cached), NEW by \in Edits,
           Ask(scope, o, by)
    PROVE  EditInv'
<1> DEFINE e == [by EXCEPT !.start = IF @ = Keep THEN Keep ELSE o.at + @]
<1>1. /\ pc = "idle" /\ tail = None /\ past' = home /\ outcome' = "none"
      /\ home' = home /\ tail' = tail
      /\ pc' = IF scope = "following" THEN "tail" ELSE "head"
      /\ op' = Built([NoOp EXCEPT !.scope = scope, !.slot = o.slot, !.edit = e], cached, FALSE)
  BY DEF Ask
<1> HIDE DEF e
<1>2. op' = [scope |-> scope, slot |-> o.slot, edit |-> e, base |-> cached,
             head |-> NewHead(scope, cached, o.slot, e),
             tail |-> NewTail(scope, cached, o.slot, e), retried |-> FALSE]
  BY <1>1 DEF Built, NoOp
<1>3. Unwritten'
  BY <1>1 DEF EditInv, Unwritten, FailsWhole
<1>4. EditIsWhole'
  BY <1>1 DEF EditIsWhole
<1>5. /\ (op.scope)' = scope /\ (op.slot)' = o.slot /\ (op.edit)' = e /\ (op.base)' = cached
      /\ (op.head)' = NewHead(scope, cached, o.slot, e)
      /\ (op.tail)' = NewTail(scope, cached, o.slot, e)
      /\ (op.retried)' = FALSE
  BY <1>2
<1>6. (op.head = NewHead(op.scope, op.base, op.slot, op.edit))'
  BY <1>5
<1>7. (op.tail = NewTail(op.scope, op.base, op.slot, op.edit))'
  BY <1>5
<1>8. (op = [scope |-> op.scope, slot |-> op.slot, edit |-> op.edit, base |-> op.base,
             head |-> op.head, tail |-> op.tail, retried |-> op.retried])'
  BY <1>2, <1>5
<1>9. scope # "following" => (op.tail)' = None /\ pc' = "head"
  BY <1>1, <1>5 DEF NewTail
<1> QED
  BY <1>1, <1>3, <1>4, <1>5, <1>6, <1>7, <1>8, <1>9 DEF EditInv

LEMMA RequestsAreWhole ==
    ASSUME EditInv, PutTail \/ WriteHead \/ Reread \/ Undo \/ Refresh
    PROVE  EditInv'
<1>1. Unwritten'
  BY RequestsUnwritten DEF EditInv
<1> USE <1>1
<1>2. CASE PutTail
  <2>1. EditIsWhole'
    BY <1>2 DEF PutTail, EditInv, EditIsWhole, Unwritten, Landed
  <2> QED
    BY <1>2, <2>1 DEF PutTail, EditInv
<1>3. CASE WriteHead
  <2>1. UNCHANGED <<tail, op, past, outcome>> /\ pc = "head" /\ outcome # "done"
    BY <1>3 DEF WriteHead, EditInv
  <2>2. past # None => home = past
    BY <2>1 DEF EditInv, Unwritten
  <2>3. CASE Writable
    <3>1. home' = op.head /\ pc' = "refresh"
      BY <1>3, <2>3 DEF WriteHead
    <3>2. past # None => op.base = past
      BY <2>2, <2>3 DEF Writable
    <3>3. past # None => Landed'
      BY <2>1, <3>1, <3>2 DEF EditInv, Landed
    <3>4. EditIsWhole'
      BY <2>1, <3>3 DEF EditIsWhole
    <3> QED
      BY <2>1, <3>1, <3>4 DEF EditInv
  <2>4. CASE ~Writable
    <3>1. home' = home /\ pc' \in {"undo", "reread"}
      BY <1>3, <2>4 DEF WriteHead
    <3>2. EditIsWhole'
      BY <2>1, <2>2, <3>1 DEF EditIsWhole
    <3> QED
      BY <2>1, <3>1, <3>2 DEF EditInv
  <2> QED
    BY <2>3, <2>4
<1>4. CASE Reread
  <2>1. UNCHANGED <<home, tail, past, outcome>> /\ pc = "reread" /\ outcome # "done"
    BY <1>4 DEF Reread, EditInv
  <2>2. past # None => home = past
    BY <2>1 DEF EditInv, Unwritten
  <2>3. CASE home = None \/ Refused(op.scope, home, op.slot, op.edit)
    <3>1. pc' = "undo" /\ op' = op
      BY <1>4, <2>3 DEF Reread
    <3>2. EditIsWhole'
      BY <2>1, <2>2, <3>1 DEF EditIsWhole
    <3> QED
      BY <2>1, <3>1, <3>2 DEF EditInv
  <2>4. CASE ~(home = None \/ Refused(op.scope, home, op.slot, op.edit))
    <3>1. op' = Built(op, home, TRUE) /\ pc' = IF op.scope = "following" THEN "tail" ELSE "head"
      BY <1>4, <2>4 DEF Reread
    <3>2. op = [scope |-> op.scope, slot |-> op.slot, edit |-> op.edit, base |-> op.base,
                head |-> op.head, tail |-> op.tail, retried |-> op.retried]
      BY DEF EditInv
    <3>3. op' = [scope |-> op.scope, slot |-> op.slot, edit |-> op.edit, base |-> home,
                 head |-> NewHead(op.scope, home, op.slot, op.edit),
                 tail |-> NewTail(op.scope, home, op.slot, op.edit), retried |-> TRUE]
      BY <3>1, <3>2 DEF Built
    <3>4. EditIsWhole'
      BY <2>1, <2>2, <3>1 DEF EditIsWhole
    <3>5. /\ (op.scope)' = op.scope /\ (op.slot)' = op.slot /\ (op.edit)' = op.edit
          /\ (op.base)' = home /\ (op.retried)' = TRUE
          /\ (op.head)' = NewHead(op.scope, home, op.slot, op.edit)
          /\ (op.tail)' = NewTail(op.scope, home, op.slot, op.edit)
      BY <3>3
    <3>6. (op.head = NewHead(op.scope, op.base, op.slot, op.edit))'
      BY <3>5
    <3>7. (op.tail = NewTail(op.scope, op.base, op.slot, op.edit))'
      BY <3>5
    <3>8. (op = [scope |-> op.scope, slot |-> op.slot, edit |-> op.edit, base |-> op.base,
                 head |-> op.head, tail |-> op.tail, retried |-> op.retried])'
      BY <3>3, <3>5
    <3>9. op.scope # "following" => tail = None /\ (op.tail)' = None /\ pc' = "head"
      BY <2>1, <3>1, <3>5 DEF EditInv, NewTail
    <3> QED
      BY <2>1, <3>1, <3>4, <3>5, <3>6, <3>7, <3>8, <3>9 DEF EditInv
  <2> QED
    BY <2>3, <2>4
<1>5. CASE Undo
  <2>1. pc = "undo" /\ pc' = "idle" /\ outcome' = "failed" /\ UNCHANGED <<home, op, past>>
    BY <1>5 DEF Undo, End
  <2>2. EditIsWhole'
    BY <2>1 DEF EditInv, EditIsWhole, Unwritten
  <2> QED
    BY <2>1, <2>2 DEF EditInv
<1>6. CASE Refresh
  <2>1. /\ pc = "refresh" /\ pc' = "idle" /\ outcome' \in {"done", "unknown"}
        /\ UNCHANGED <<home, tail, op, past>>
    BY <1>6 DEF Refresh, End
  <2>2. EditIsWhole'
    BY <2>1 DEF EditInv, EditIsWhole, Landed
  <2> QED
    BY <2>1, <2>2 DEF EditInv
<1> QED
  BY <1>2, <1>3, <1>4, <1>5, <1>6

LEMMA FaultsAreWhole ==
    ASSUME EditInv, Unanswered \/ Crash
    PROVE  EditInv'
<1>1. Unwritten'
  BY FaultsUnwritten DEF EditInv
<1>2. UNCHANGED <<op, past>> /\ pc # "idle" /\ outcome # "done"
  BY DEF Unanswered, Crash, EditInv
<1>3. \/ UNCHANGED <<home, tail>>
      \/ pc \in {"tail", "undo"} /\ home' = home
      \/ pc = "head" /\ Writable /\ home' = op.head /\ tail' = tail
  BY DEF Unanswered, Crash
<1>4. \/ pc' = "undo" /\ outcome' = outcome /\ home' = home /\ pc \in {"reread", "tail"}
      \/ pc' = "idle" /\ outcome' = IF pc = "refresh" THEN "done" ELSE "unknown"
  BY DEF Unanswered, Crash, End, HeadUncertain
<1>5. past # None /\ pc # "refresh" /\ pc # "idle" => home' = past \/ Landed'
  <2> SUFFICES ASSUME past # None, pc # "refresh" PROVE home' = past \/ Landed'
    BY DEF EditInv
  <2>1. CASE pc = "head" /\ Writable /\ home' = op.head /\ tail' = tail
    <3>1. op.base = past
      BY <2>1 DEF EditInv, Unwritten, Writable
    <3> QED
      BY <1>2, <2>1, <3>1 DEF EditInv, Landed
  <2>2. CASE pc \in {"tail", "undo"} /\ home' = home
    BY <2>2 DEF EditInv, Unwritten
  <2>3. CASE UNCHANGED <<home, tail>>
    BY <1>2, <2>3 DEF EditInv, EditIsWhole, Landed
  <2> QED
    BY <1>3, <2>1, <2>2, <2>3
<1>6. past # None /\ pc = "refresh" => Landed'
  BY <1>2, <1>3 DEF EditInv, EditIsWhole, Landed
<1>7. EditIsWhole'
  BY <1>2, <1>4, <1>5, <1>6 DEF EditIsWhole
<1>8. pc' = "undo" /\ op.scope # "following" => tail' = None
  BY <1>2, <1>3, <1>4 DEF EditInv
<1> QED
  BY <1>1, <1>2, <1>4, <1>7, <1>8 DEF EditInv

LEMMA OthersAreWhole ==
    ASSUME EditInv, ForeignEdit \/ Sync
    PROVE  EditInv'
<1>1. Unwritten'
  BY OthersUnwritten DEF EditInv
<1>2. CASE ForeignEdit
  <2>1. /\ UNCHANGED <<tail, pc, op>> /\ outcome' = "none"
        /\ past' = IF pc \in {"idle", "refresh"} THEN None ELSE home'
    BY <1>2 DEF ForeignEdit
  <2>2. EditIsWhole'
    BY <2>1 DEF EditIsWhole
  <2> QED
    BY <1>1, <2>1, <2>2 DEF EditInv
<1>3. CASE Sync
  <2>1. UNCHANGED <<home, tail, pc, op, past, outcome>>
    BY <1>3 DEF Sync
  <2>2. EditIsWhole'
    BY <2>1 DEF EditInv, EditIsWhole, Landed
  <2> QED
    BY <1>1, <2>1, <2>2 DEF EditInv
<1> QED
  BY <1>2, <1>3

LEMMA EditsStayWhole == EditInv /\ [SeriesNext]_seriesVars => EditInv'
<1> SUFFICES ASSUME EditInv, [SeriesNext]_seriesVars PROVE EditInv'
  OBVIOUS
<1>1. CASE UNCHANGED seriesVars
  BY <1>1 DEF seriesVars, EditInv, EditIsWhole, Landed, Unwritten, FailsWhole
<1> QED
  BY <1>1, AskIsWhole, RequestsAreWhole, FaultsAreWhole, OthersAreWhole DEF SeriesNext

\* However an edit of a recurring event ends, and whatever other clients write between
\* its requests, its resource is as they left it, or it is that with the edit made and
\* with the tail of the same split beside it; one that is reported done is made
\* (sync/engine.py, _edit and split_event).
THEOREM NoHalfEdit == SeriesSpec => []EditIsWhole
<1>1. SeriesInit => EditInv
  BY DEF SeriesInit, NoOp, EditInv, EditIsWhole, Unwritten, FailsWhole
<1>2. EditInv => EditIsWhole
  BY DEF EditInv
<1> QED
  BY <1>1, <1>2, EditsStayWhole, PTL DEF SeriesSpec

=============================================================================
