------------------------ MODULE NotificationsProofs ------------------------
(***************************************************************************)
(* The notification loop, for any rules and windows, sweeps of any length, *)
(* any number of crashes, failed posts and lost answers: nothing is said   *)
(* twice but a message whose answer was lost, the ceiling holds, and no    *)
(* reminder falls between two sweeps that follow each other within its     *)
(* window.  All three follow from IInv, the inductive invariant of         *)
(* Notifications.                                                          *)
(***************************************************************************)
EXTENDS Notifications, FiniteSetTheorems, TLAPS

-----------------------------------------------------------------------------
(* Days.                                                                     *)

LEMMA DayType == ASSUME NEW t \in Nat PROVE Day(t) \in Nat
BY PaceAssumption DEF Day

LEMMA DayLow == ASSUME NEW t \in Nat PROVE Day(t) * DayLength <= t
BY PaceAssumption DEF Day

LEMMA DayHigh == ASSUME NEW t \in Nat PROVE t < Day(t) * DayLength + DayLength
BY PaceAssumption DEF Day

LEMMA WholeDays ==
    ASSUME NEW a \in Int, NEW b \in Int, a < b
    PROVE  a * DayLength + DayLength <= b * DayLength
<1>1. b >= a + 1
  OBVIOUS
<1>2. (b - (a + 1)) * DayLength >= 0
  BY <1>1, PaceAssumption
<1> QED
  BY <1>2, PaceAssumption

\* A day is over once its whole length has passed.
LEMMA DayPast ==
    ASSUME NEW t \in Nat, NEW q \in Nat, q * DayLength + DayLength <= t
    PROVE  Day(t) > q
<1>1. Day(t) \in Nat /\ t < Day(t) * DayLength + DayLength
  BY DayType, DayHigh
<1>2. DayLength \in Nat \ {0}
  BY PaceAssumption
<1>3. CASE Day(t) < q
  <2>1. Day(t) * DayLength + DayLength <= q * DayLength
    BY <1>1, <1>3, WholeDays
  <2>2. Day(t) * DayLength \in Nat /\ q * DayLength \in Nat
    BY <1>1, <1>2
  <2> QED
    BY <1>1, <1>2, <2>1, <2>2
<1>4. CASE Day(t) = q
  BY <1>1, <1>2, <1>4
<1> QED
  BY <1>1, <1>3, <1>4

LEMMA DayMono ==
    ASSUME NEW s \in Nat, NEW t \in Nat, s <= t
    PROVE  Day(s) <= Day(t)
<1>1. /\ Day(s) \in Nat /\ Day(s) * DayLength <= s
      /\ Day(t) \in Nat /\ t < Day(t) * DayLength + DayLength
  BY DayType, DayLow, DayHigh
<1>2. Day(t) < Day(s) => Day(t) * DayLength + DayLength <= Day(s) * DayLength
  BY <1>1, WholeDays
<1>3. Day(t) * DayLength \in Nat /\ Day(s) * DayLength \in Nat /\ DayLength \in Nat
  BY <1>1, PaceAssumption
<1> HIDE DEF Day
<1> QED
  BY <1>1, <1>2, <1>3

LEMMA DayUnique ==
    ASSUME NEW t \in Nat, NEW q \in Nat, q * DayLength <= t, t < q * DayLength + DayLength
    PROVE  Day(t) = q
<1>1. /\ Day(t) \in Nat /\ Day(t) * DayLength <= t /\ t < Day(t) * DayLength + DayLength
  BY DayType, DayLow, DayHigh
<1>2. Day(t) < q => Day(t) * DayLength + DayLength <= q * DayLength
  BY <1>1, WholeDays
<1>3. q < Day(t) => q * DayLength + DayLength <= Day(t) * DayLength
  BY <1>1, WholeDays
<1>4. Day(t) * DayLength \in Nat /\ q * DayLength \in Nat /\ DayLength \in Nat
  BY <1>1, PaceAssumption
<1> QED
  BY <1>1, <1>2, <1>3, <1>4

LEMMA DayInRange == ASSUME NEW t \in Time PROVE Day(t) \in 0 .. Day(Horizon)
<1>1. t \in Nat /\ Horizon \in Nat /\ t <= Horizon
  BY PaceAssumption DEF Time
<1> QED
  BY <1>1, DayType, DayMono

-----------------------------------------------------------------------------
(* Occasions.                                                                *)

LEMMA ItemFacts ==
    /\ \A i \in Item : RuleOf[i] \in Rule /\ When[i] \in Nat /\ Lead[i] \in Nat
    /\ IsFiniteSet(Item)
<1>1. RuleOf \in Seq(Rule) /\ Item = 1 .. Len(RuleOf) /\ Len(RuleOf) \in Nat
  BY ItemAssumption DEF Item
<1>2. IsFiniteSet(Item)
  BY <1>1, FS_Interval
<1> QED
  BY <1>1, <1>2, ItemAssumption DEF Item

LEMMA KeyFacts ==
    /\ \A k \in Key : k[1] \in Item /\ k[2] \in Nat /\ k = <<k[1], k[2]>> /\ k[2] <= Day(Horizon)
    /\ IsFiniteSet(Key)
<1>1. Day(Horizon) \in Nat
  BY PaceAssumption, DayType
<1>2. IsFiniteSet(0 .. Day(Horizon))
  BY <1>1, FS_Interval
<1> QED
  BY <1>1, <1>2, ItemFacts, FS_Product DEF Key

LEMMA OneAlarm ==
    ASSUME NEW j \in Key, NEW k \in Key, j[1] \in Alarm, k[1] \in Alarm, j[2] = k[2]
    PROVE  j = k
BY KeyFacts, ItemAssumption DEF Alarm

LEMMA FirstOfIn == ASSUME NEW S, NEW k \in FirstOf(S) PROVE k \in S
BY DEF FirstOf

\* An occasion is a key of its item.
LEMMA KeysOfType ==
    ASSUME TypeOK, NEW i \in Item
    PROVE  KeysOf(i) \subseteq Key
<1>1. Day(now) \in 0 .. Day(Horizon)
  BY DayInRange DEF TypeOK
<1>2. 0 \in 0 .. Day(Horizon)
  BY PaceAssumption, DayType
<1>3. \A k \in AlarmRows : k \in Key
  BY DEF AlarmRows
<1>4. CASE RuleOf[i] \in {"clock", "stalled"}
  BY <1>1, <1>4 DEF KeysOf, Key
<1>5. CASE RuleOf[i] = "recovered"
  BY <1>3, <1>5 DEF KeysOf, Key
<1>6. CASE RuleOf[i] \notin {"clock", "stalled", "recovered"}
  BY <1>2, <1>6 DEF KeysOf, Key
<1> QED
  BY <1>4, <1>5, <1>6

-----------------------------------------------------------------------------
(* Types.                                                                    *)

LEMMA TypeInit == Init => TypeOK
<1> SUFFICES ASSUME Init PROVE TypeOK
  OBVIOUS
<1>1. 0 \in Time
  BY PaceAssumption DEF Time
<1>2. ledger \in [Key -> Row]
  BY DEF Init, NoRow, Row, Never
<1>3. sweep \in Sweep
  BY <1>1, PaceAssumption DEF Init, Idle, Sweep
<1> QED
  BY <1>1, <1>2, <1>3, PaceAssumption DEF Init, TypeOK

LEMMA CountType ==
    ASSUME TypeOK, NEW stamp
    PROVE  LoudSince(stamp) \in Nat
<1> DEFINE rows == {k \in Key : Claimed(k) /\ ledger[k].at >= stamp /\ ~ledger[k].silent}
           messages == {ledger[k].message : k \in {r \in rows : ledger[r].ok}}
           waiting == {k \in rows : ~ledger[k].settled}
<1> DEFINE out == {r \in rows : ledger[r].ok}
           message == [k \in out |-> ledger[k].message]
<1>1. IsFiniteSet(out) /\ IsFiniteSet(waiting)
  <2>1. out \in SUBSET Key /\ waiting \in SUBSET Key
    OBVIOUS
  <2> HIDE DEF out, waiting
  <2> QED
    BY <2>1, KeyFacts, FS_Subset
<1>2. IsFiniteSet(messages)
  <2>1. message \in Surjection(out, messages)
    BY DEF Surjection
  <2> HIDE DEF out, messages, message
  <2> QED
    BY <1>1, <2>1, FS_Surjection
<1>3. LoudSince(stamp) = Cardinality(messages) + Cardinality(waiting)
  BY DEF LoudSince
<1> HIDE DEF messages, waiting
<1> QED
  BY <1>1, <1>2, <1>3, FS_CardinalityType


LEMMA TimeTypes ==
    ASSUME TypeOK
    PROVE  /\ now \in Nat /\ lastSwept \in Int /\ watching \in Int /\ gap \in Nat
           /\ \A i \in Item : since[i] \in Int
<1>1. now \in Time /\ lastSwept \in Time \cup {Never} /\ watching \in Time \cup {Never} /\ gap \in Nat
  BY DEF TypeOK
<1>2. \A i \in Item : since[i] \in Time \cup {Never}
  BY DEF TypeOK
<1>3. \A t \in Time \cup {Never} : t \in Int
  BY PaceAssumption DEF Time, Never
<1>4. \A t \in Time : t \in Nat
  BY PaceAssumption DEF Time
<1> QED
  BY <1>1, <1>2, <1>3, <1>4

LEMMA RowTypes ==
    ASSUME TypeOK
    PROVE  \A k \in Key : ledger[k] \in Row /\ ledger[k].at \in Int
<1>1. \A k \in Key : ledger[k] \in Row
  BY DEF TypeOK
<1>2. \A r \in Row : r.at \in Time \cup {Never}
  BY DEF Row
<1>3. \A t \in Time \cup {Never} : t \in Int
  BY PaceAssumption DEF Time, Never
<1> QED
  BY <1>1, <1>2, <1>3

LEMMA SweepTypes ==
    ASSUME TypeOK
    PROVE  /\ sweep.from \in Int /\ sweep.started \in Nat
           /\ sweep.loud \in Nat /\ sweep.message \in Nat /\ sweep.silent \in BOOLEAN
           /\ sweep.attempt \in Nat /\ sweep.attempt <= MaxAttempts
<1>1. sweep \in Sweep
  BY DEF TypeOK
<1>2. /\ sweep.from \in Int /\ sweep.started \in Time /\ sweep.attempt \in 0 .. MaxAttempts
      /\ sweep.loud \in Nat /\ sweep.message \in Nat /\ sweep.silent \in BOOLEAN
  BY <1>1 DEF Sweep
<1>3. \A t \in Time : t \in Nat
  BY PaceAssumption DEF Time
<1> QED
  BY <1>2, <1>3, PaceAssumption

LEMMA FaultType ==
    ASSUME TypeOK, Fault
    PROVE  faults' \in 0 .. MaxFaults
<1>1. faults \in 0 .. MaxFaults
  BY DEF TypeOK
<1> QED
  BY <1>1, PaceAssumption DEF Fault

\* A sweep that ends, or never began, waits for the next.
LEMMA WaitingType ==
    ASSUME NEW t \in Int
    PROVE  [Idle EXCEPT !.from = t] \in Sweep
<1>1. 0 \in Time
  BY PaceAssumption DEF Time
<1>2. Idle \in Sweep
  BY <1>1, PaceAssumption, SMTT(30) DEF Idle, Sweep
<1> QED
  BY <1>2, SMTT(30) DEF Sweep

LEMMA BatchesType == ASSUME NEW items \in SUBSET Item PROVE Batches(items) \in SUBSET SUBSET Item
BY DEF Batches, Silent

LEMMA GCType ==
    ASSUME TypeOK
    PROVE  [k \in Key |-> IF Expired(k) THEN NoRow ELSE ledger[k]] \in [Key -> Row]
<1>1. NoRow \in Row
  BY DEF NoRow, Row
<1> QED
  BY <1>1 DEF TypeOK

LEMMA TypeWorld ==
    ASSUME TypeOK, \/ \E i \in Item : Happens(i) \/ Ends(i)
                   \/ Tick \/ Start \/ SwitchOn \/ SwitchOff \/ SaveSettings \/ Crash
    PROVE  TypeOK'
<1>1. now \in Int /\ MaxFaults \in Nat /\ Interval \in Nat
  BY PaceAssumption DEF TypeOK, Time
<1>2. CASE \E i \in Item : Happens(i) \/ Ends(i)
  BY <1>1, <1>2 DEF TypeOK, Happens, Ends
<1>3. CASE Tick
  <2>1. gap' \in Nat
    BY <1>3, TimeTypes DEF Tick
  <2> QED
    BY <1>1, <1>3, <2>1, PaceAssumption, SMTT(30) DEF TypeOK, Tick, Time
<1>4. CASE Start \/ SwitchOn \/ SwitchOff \/ SaveSettings \/ Crash
  <2>1. sweep' \in Sweep
    <3>1. sweep' = sweep \/ sweep' = Idle \/ \E t \in Int : sweep' = [Idle EXCEPT !.from = t]
      <4>1. CASE Start \/ SwitchOn \/ SaveSettings
        <5>1. sweep' = [Idle EXCEPT !.from = now - Interval] /\ now - Interval \in Int
          BY <1>1, <4>1 DEF Start, SwitchOn, SaveSettings, At
        <5> QED
          BY <5>1
      <4>2. CASE SwitchOff \/ Crash
        BY <4>2 DEF SwitchOff, Crash
      <4> QED
        BY <1>4, <4>1, <4>2
    <3>2. Idle \in Sweep
      BY PaceAssumption DEF Idle, Sweep, Time
    <3> QED
      BY <3>1, <3>2, WaitingType DEF TypeOK
  <2>2. faults' \in 0 .. MaxFaults
    BY <1>1, <1>4 DEF TypeOK, Start, SwitchOn, SwitchOff, SaveSettings, Crash, Fault
  <2> QED
    BY <1>4, <2>1, <2>2 DEF TypeOK, Start, SwitchOn, SwitchOff, SaveSettings, Crash
<1> QED
  BY <1>2, <1>3, <1>4

LEMMA TypeBegin == ASSUME TypeOK, Begin PROVE TypeOK'
<1>1. PICK broken \in {{}} \cup {{i \in Item : RuleOf[i] = r} : r \in Rule \cap {"at", "lead"}} :
         LET due == {i \in Item : Due(i)}
             plan == due \ broken
         IN  /\ IF due \cap broken = {} THEN UNCHANGED faults ELSE Fault
             /\ spoiled' = spoiled \cup (due \cap broken)
             /\ sweep' = IF plan = {} THEN [Idle EXCEPT !.from = now]
                         ELSE [Idle EXCEPT !.pc = "claim", !.started = now,
                                           !.plan = UNION {KeysOf(i) : i \in plan},
                                           !.loud = LoudSince(Midnight(now))]
  BY DEF Begin
<1> DEFINE due == {i \in Item : Due(i)}
           keys == UNION {KeysOf(i) : i \in due \ broken}
<1>2. now \in Time /\ now \in Int
  BY PaceAssumption DEF TypeOK, Time
<1>3. keys \in SUBSET Key
  BY KeysOfType
<1>4. LoudSince(Midnight(now)) \in Nat
  BY CountType
<1>5. sweep' \in Sweep
  <2>1. CASE due \ broken = {}
    BY <1>1, <1>2, <2>1, WaitingType
  <2>2. CASE due \ broken # {}
    <3> DEFINE count == LoudSince(Midnight(now))
    <3>1. sweep' = [Idle EXCEPT !.pc = "claim", !.started = now, !.plan = keys, !.loud = count]
      BY <1>1, <2>2
    <3>2. count \in Nat
      BY <1>4
    <3> HIDE DEF keys, count
    <3>3. sweep' = [pc |-> "claim", from |-> 0, plan |-> keys, claimed |-> {}, left |-> {},
                    group |-> {}, attempt |-> 0, loud |-> count, silent |-> FALSE, message |-> 0, started |-> now]
      BY <3>1 DEF Idle
    <3> QED
      BY <1>2, <1>3, <3>2, <3>3, PaceAssumption DEF Sweep
  <2> QED
    BY <2>1, <2>2
<1>6. spoiled' \subseteq Item
  BY <1>1 DEF TypeOK
<1>7. faults' \in 0 .. MaxFaults
  BY <1>1, PaceAssumption, SMTT(30) DEF TypeOK, Fault
<1> HIDE DEF due, keys
<1> QED
  BY <1>2, <1>5, <1>6, <1>7 DEF TypeOK, Begin, World

LEMMA TypeClaimNext == ASSUME TypeOK, ClaimNext PROVE TypeOK'
<1>1. PICK k \in FirstOf(sweep.plan) :
         /\ sweep' = [sweep EXCEPT !.plan = @ \ {k},
                                   !.claimed = IF Claimable(k) THEN @ \cup {k} ELSE @]
         /\ ledger' = IF Claimable(k) THEN [ledger EXCEPT ![k] = [NoRow EXCEPT !.at = now]]
                                      ELSE ledger
         /\ told' = told \cup {k}
  BY DEF ClaimNext
<1>2. k \in Key
  BY FirstOfIn DEF TypeOK, Sweep
<1>3. [NoRow EXCEPT !.at = now] \in Row
  BY DEF TypeOK, NoRow, Row
<1>4. ledger' \in [Key -> Row]
  BY <1>1, <1>3 DEF TypeOK
<1>5. sweep' \in Sweep
  BY <1>1, <1>2 DEF TypeOK, Sweep
<1> QED
  BY <1>1, <1>2, <1>4, <1>5 DEF TypeOK, ClaimNext, World

LEMMA TypeEnd == ASSUME TypeOK, EndClaims \/ EndSweep PROVE TypeOK'
<1>1. now \in Int
  BY PaceAssumption DEF TypeOK, Time
<1>2. CASE Finish
  <2>1. ledger' \in [Key -> Row] /\ sweep' \in Sweep
    BY <1>1, <1>2, GCType, WaitingType DEF Finish, At
  <2> QED
    BY <2>1 DEF TypeOK, EndClaims, EndSweep, World
<1>3. CASE ~Finish
  <2>1. {k[1] : k \in sweep.claimed} \in SUBSET Item
    BY KeyFacts, SMTT(30) DEF TypeOK, Sweep
  <2>2. sweep' = [sweep EXCEPT !.pc = "send", !.left = Batches({k[1] : k \in sweep.claimed})]
    BY <1>3, SMTT(30) DEF EndClaims, EndSweep
  <2>3. sweep' \in Sweep
    BY <2>1, <2>2, BatchesType DEF TypeOK, Sweep
  <2> QED
    BY <1>3, <2>3 DEF TypeOK, EndClaims, EndSweep, World
<1> QED
  BY <1>2, <1>3

LEMMA TypeSend == ASSUME TypeOK, Send PROVE TypeOK'
<1>1. PICK group \in sweep.left :
         sweep' = [sweep EXCEPT !.pc = "post", !.left = @ \ {group},
                                !.group = {k \in sweep.claimed : k[1] \in group},
                                !.silent = group \subseteq Silent \/ sweep.loud >= MaxLoud,
                                !.attempt = 1, !.message = 0]
  BY DEF Send
<1> DEFINE keys == {k \in sweep.claimed : k[1] \in group}
           loudly == group \subseteq Silent \/ sweep.loud >= MaxLoud
<1>2. keys \in SUBSET Key /\ loudly \in BOOLEAN /\ 1 \in 0 .. MaxAttempts
  BY PaceAssumption DEF TypeOK, Sweep
<1>3. sweep' = [sweep EXCEPT !.pc = "post", !.left = @ \ {group}, !.group = keys,
                             !.silent = loudly, !.attempt = 1, !.message = 0]
  BY <1>1
<1>4. sweep' \in Sweep
  <2> DEFINE left == sweep.left \ {group}
  <2>1. left \in SUBSET SUBSET Item
    BY DEF TypeOK, Sweep
  <2>2. sweep' = [sweep EXCEPT !.pc = "post", !.left = left, !.group = keys,
                               !.silent = loudly, !.attempt = 1, !.message = 0]
    BY <1>3
  <2> HIDE DEF keys, loudly, left
  <2>3. sweep \in Sweep
    BY DEF TypeOK
  <2>4. sweep' = [pc |-> "post", from |-> sweep.from, plan |-> sweep.plan,
                  claimed |-> sweep.claimed, left |-> left, group |-> keys, attempt |-> 1,
                  loud |-> sweep.loud, silent |-> loudly, message |-> 0,
                  started |-> sweep.started]
    BY <2>2, <2>3 DEF Sweep
  <2>5. /\ sweep.from \in Int /\ sweep.plan \in SUBSET Key /\ sweep.claimed \in SUBSET Key
        /\ sweep.loud \in Nat /\ sweep.started \in Time
    BY <2>3 DEF Sweep
  <2> QED
    BY <1>2, <2>1, <2>4, <2>5 DEF Sweep
<1> QED
  BY <1>4 DEF TypeOK, Send, World

\* The next attempt is one of those there are.
LEMMA AgainType == ASSUME TypeOK, Again \/ GiveUp PROVE sweep' \in Sweep
<1>1. sweep.attempt < MaxAttempts => sweep.attempt + 1 \in 0 .. MaxAttempts
  BY SweepTypes, PaceAssumption
<1>2. CASE GiveUp
  BY <1>2 DEF GiveUp, TypeOK, Sweep
<1>3. CASE /\ sweep.attempt < MaxAttempts
           /\ sweep' = [sweep EXCEPT !.pc = "post", !.attempt = @ + 1, !.message = 0]
  BY <1>1, <1>3 DEF TypeOK, Sweep
<1> QED
  BY <1>2, <1>3 DEF Again

LEMMA TypePost == ASSUME TypeOK, Post PROVE TypeOK'
<1> DEFINE taken == [keys |-> sweep.group, silent |-> sweep.silent, day |-> Day(sweep.started),
                     try |-> sweep.attempt, heard |-> TRUE]
<1>1. CASE /\ outbox' = Append(outbox, taken)
           /\ sweep' = [sweep EXCEPT !.pc = "answer", !.message = Len(outbox')]
           /\ UNCHANGED faults
  <2>1. sweep.attempt \in 0 .. MaxAttempts
    BY DEF TypeOK, Sweep
  <2>2. taken \in Message
    BY <2>1, SweepTypes, DayType DEF TypeOK, Sweep, Message
  <2> HIDE DEF taken
  <2>3. outbox' \in Seq(Message) /\ Len(outbox') \in Nat
    BY <1>1, <2>2 DEF TypeOK
  <2>4. sweep' \in Sweep
    BY <1>1, <2>3 DEF TypeOK, Sweep
  <2> QED
    BY <1>1, <2>3, <2>4 DEF TypeOK, Post, World
<1>2. CASE Fault /\ (Again \/ GiveUp) /\ UNCHANGED outbox
  <2>1. sweep' \in Sweep /\ faults' \in 0 .. MaxFaults
    BY <1>2, AgainType, FaultType
  <2> QED
    BY <1>2, <2>1 DEF TypeOK, Post, World
<1> QED
  BY <1>1, <1>2 DEF Post

LEMMA TypeAnswer == ASSUME TypeOK, Answer PROVE TypeOK'
<1>1. CASE /\ sweep' = [sweep EXCEPT !.pc = "settle", !.loud = IF sweep.silent THEN @ ELSE @ + 1]
           /\ UNCHANGED <<outbox, faults>>
  <2>1. PICK l \in Nat : l = IF sweep.silent THEN sweep.loud ELSE sweep.loud + 1
    BY SweepTypes
  <2>2. sweep' = [sweep EXCEPT !.pc = "settle", !.loud = l]
    BY <1>1, <2>1 DEF TypeOK, Sweep
  <2>3. sweep' \in Sweep
    BY <2>2 DEF TypeOK, Sweep
  <2> QED
    BY <1>1, <2>3 DEF TypeOK, Answer, World
<1>2. CASE Fault /\ Again /\ outbox' = [outbox EXCEPT ![sweep.message].heard = FALSE]
  <2>1. sweep' \in Sweep /\ faults' \in 0 .. MaxFaults
    BY <1>2, AgainType, FaultType
  <2>2. outbox' \in Seq(Message)
    <3>1. outbox \in [1 .. Len(outbox) -> Message] /\ Len(outbox) \in Nat
      BY DEF TypeOK
    <3>2. outbox' \in [1 .. Len(outbox) -> Message]
      BY <1>2, <3>1, ZenonT(40) DEF Message
    <3> QED
      BY <3>1, <3>2
  <2> QED
    BY <2>1, <2>2 DEF TypeOK, Answer, World
<1> QED
  BY <1>1, <1>2 DEF Answer

LEMMA TypeSettle == ASSUME TypeOK, Settle PROVE TypeOK'
<1>1. PICK k \in FirstOf(sweep.group) :
         /\ ledger' = [ledger EXCEPT ![k] = [@ EXCEPT !.settled = TRUE,
                                                 !.ok = sweep.message # 0,
                                                 !.silent = sweep.silent,
                                                 !.message = sweep.message]]
         /\ sweep' = [sweep EXCEPT !.group = @ \ {k},
                                   !.pc = IF sweep.group = {k} THEN "send" ELSE "settle"]
  BY DEF Settle
<1> DEFINE ok == sweep.message # 0
<1>2. k \in Key /\ ok \in BOOLEAN
  BY FirstOfIn DEF TypeOK, Sweep
<1>3. ledger' \in [Key -> Row]
  <2>0. ledger \in [Key -> Row]
    BY DEF TypeOK
  <2>1. ledger' = [ledger EXCEPT ![k] = [@ EXCEPT !.settled = TRUE, !.ok = ok,
                                            !.silent = sweep.silent, !.message = sweep.message]]
    BY <1>1
  <2> HIDE DEF ok
  <2>2. [ledger[k] EXCEPT !.settled = TRUE, !.ok = ok, !.silent = sweep.silent,
                          !.message = sweep.message] \in Row
    BY <1>2, <2>0, SweepTypes DEF Row
  <2> QED
    BY <1>2, <2>0, <2>1, <2>2
<1>4. sweep' \in Sweep
  BY <1>1, <1>2 DEF TypeOK, Sweep
<1> QED
  BY <1>2, <1>3, <1>4 DEF TypeOK, Settle, World

LEMMA TypeStep == ASSUME TypeOK, [Next]_vars PROVE TypeOK'
<1>1. CASE UNCHANGED vars
  BY <1>1 DEF vars, TypeOK
<1> QED
  BY <1>1, TypeWorld, TypeBegin, TypeClaimNext, TypeEnd, TypeSend, TypePost, TypeAnswer, TypeSettle DEF Next

\* Type correctness of the scheduler, its ledger and what it has sent.
THEOREM TypeCorrect == Spec => []TypeOK
BY TypeInit, TypeStep, PTL DEF Spec


-----------------------------------------------------------------------------
(* What the steps of a sweep do.                                             *)

\* A sweep that begins plans what is due, but for the rule that fails.
LEMMA BeginEffect ==
    ASSUME TypeOK, Begin
    PROVE  /\ mode = "on" /\ sweep.pc = "idle" /\ sweep.from + Interval <= now
           /\ lastSwept' = now
           /\ UNCHANGED <<now, since, mode, watching, gap, ledger, outbox, told>>
           /\ spoiled \subseteq spoiled'
           /\ \A i \in Item : Due(i) => i \in spoiled' \/ KeysOf(i) \subseteq sweep'.plan
           /\ \A k \in sweep'.plan : \E i \in Item : Due(i) /\ k \in KeysOf(i)
           /\ sweep'.claimed = {} /\ sweep'.left = {} /\ sweep'.group = {}
           /\ \/ sweep'.pc = "idle" /\ sweep'.plan = {} /\ sweep'.from = now
              \/ /\ sweep'.pc = "claim" /\ sweep'.started = now
                 /\ sweep'.loud = LoudSince(Midnight(now))
<1>1. PICK broken \in {{}} \cup {{i \in Item : RuleOf[i] = r} : r \in Rule \cap {"at", "lead"}} :
         LET due == {i \in Item : Due(i)}
             plan == due \ broken
         IN  /\ spoiled' = spoiled \cup (due \cap broken)
             /\ sweep' = IF plan = {} THEN [Idle EXCEPT !.from = now]
                         ELSE [Idle EXCEPT !.pc = "claim", !.started = now,
                                           !.plan = UNION {KeysOf(i) : i \in plan},
                                           !.loud = LoudSince(Midnight(now))]
  BY DEF Begin
<1> DEFINE due == {i \in Item : Due(i)}
           count == LoudSince(Midnight(now))
           keys == UNION {KeysOf(i) : i \in due \ broken}
<1>2. /\ spoiled' = spoiled \cup (due \cap broken)
      /\ sweep' = IF due \ broken = {} THEN [Idle EXCEPT !.from = now]
                  ELSE [Idle EXCEPT !.pc = "claim", !.started = now, !.plan = keys, !.loud = count]
  BY <1>1
<1>3. \A i \in due : i \in spoiled' \/ (due \ broken # {} /\ KeysOf(i) \subseteq keys)
  BY <1>2
<1>4. \A k \in keys : \E i \in due : k \in KeysOf(i)
  OBVIOUS
<1>5. /\ sweep'.claimed = {} /\ sweep'.left = {} /\ sweep'.group = {}
      /\ IF due \ broken = {} THEN sweep'.pc = "idle" /\ sweep'.plan = {} /\ sweep'.from = now
         ELSE /\ sweep'.pc = "claim" /\ sweep'.started = now
              /\ sweep'.loud = count /\ sweep'.plan = keys
  <2> HIDE DEF due, keys, count
  <2> QED
    BY <1>2 DEF Idle
<1>6. \A i \in Item : Due(i) => i \in spoiled' \/ KeysOf(i) \subseteq sweep'.plan
  <2> HIDE DEF keys
  <2> QED
    BY <1>3, <1>5
<1>7. \A k \in sweep'.plan : \E i \in Item : Due(i) /\ k \in KeysOf(i)
  <2>1. sweep'.plan \subseteq keys
    <3> HIDE DEF keys, due
    <3> QED
      BY <1>5
  <2> QED
    BY <1>4, <2>1
<1>8. /\ mode = "on" /\ sweep.pc = "idle" /\ sweep.from + Interval <= now
      /\ lastSwept' = now /\ spoiled \subseteq spoiled'
      /\ UNCHANGED <<now, since, mode, watching, gap, ledger, outbox, told>>
  BY <1>2, PaceAssumption DEF Begin, World, TypeOK, Sweep, Time
<1> HIDE DEF keys, due
<1> QED
  BY <1>5, <1>6, <1>7, <1>8

\* A claim takes one occasion off the plan, and a row unless one is there.
LEMMA ClaimEffect ==
    ASSUME TypeOK, ClaimNext
    PROVE  \E k \in sweep.plan :
              /\ UNCHANGED <<now, since, mode, watching, gap, lastSwept, outbox, spoiled>>
              /\ told' = told \cup {k}
              /\ sweep.pc = "claim" /\ sweep'.pc = "claim"
              /\ sweep'.plan = sweep.plan \ {k}
              /\ sweep'.left = sweep.left /\ sweep'.group = sweep.group
              /\ sweep'.started = sweep.started /\ sweep'.loud = sweep.loud
              /\ \/ /\ Claimed(k) /\ ledger' = ledger /\ sweep'.claimed = sweep.claimed
                 \/ /\ ~Claimed(k) /\ sweep'.claimed = sweep.claimed \cup {k}
                    /\ ledger' = [ledger EXCEPT ![k] = [NoRow EXCEPT !.at = now]]
<1>1. PICK k \in FirstOf(sweep.plan) :
         /\ sweep' = [sweep EXCEPT !.plan = @ \ {k},
                                   !.claimed = IF Claimable(k) THEN @ \cup {k} ELSE @]
         /\ ledger' = IF Claimable(k) THEN [ledger EXCEPT ![k] = [NoRow EXCEPT !.at = now]]
                                      ELSE ledger
         /\ told' = told \cup {k}
  BY DEF ClaimNext
<1>2. k \in sweep.plan
  BY FirstOfIn
<1>3. sweep.pc = "claim" /\ UNCHANGED <<now, since, mode, watching, gap, lastSwept, outbox, spoiled>>
  BY DEF ClaimNext, World
<1> QED
  BY <1>1, <1>2, <1>3 DEF TypeOK, Sweep, Claimable

\* The end of a sweep, and what the claims of one that goes on are sent as.
LEMMA EndEffect ==
    ASSUME TypeOK, EndClaims \/ EndSweep
    PROVE  /\ UNCHANGED <<now, since, mode, watching, gap, lastSwept, outbox, told, spoiled>>
           /\ sweep.pc \in {"claim", "send"} /\ (sweep.pc = "claim" => sweep.plan = {})
           /\ \/ /\ ledger' = [k \in Key |-> IF Expired(k) THEN NoRow ELSE ledger[k]]
                 /\ sweep'.pc = "idle" /\ sweep'.plan = {} /\ sweep'.claimed = {}
                 /\ sweep'.left = {} /\ sweep'.group = {} /\ sweep'.from = now
              \/ /\ ledger' = ledger /\ sweep.pc = "claim" /\ sweep'.pc = "send"
                 /\ sweep'.plan = sweep.plan /\ sweep'.claimed = sweep.claimed
                 /\ sweep'.left = Batches({k[1] : k \in sweep.claimed})
                 /\ sweep'.group = sweep.group
                 /\ sweep'.started = sweep.started /\ sweep'.loud = sweep.loud
<1>1. /\ UNCHANGED <<now, since, mode, watching, gap, lastSwept, outbox, told, spoiled>>
      /\ sweep.pc \in {"claim", "send"} /\ (sweep.pc = "claim" => sweep.plan = {})
  BY DEF EndClaims, EndSweep, World
<1>2. CASE Finish
  BY <1>1, <1>2 DEF Finish, At, Idle
<1>3. CASE ~Finish
  <2> DEFINE batches == Batches({k[1] : k \in sweep.claimed})
  <2>1. sweep.pc = "claim" /\ ledger' = ledger
        /\ sweep' = [sweep EXCEPT !.pc = "send", !.left = batches]
    BY <1>3 DEF EndClaims, EndSweep
  <2> HIDE DEF batches
  <2>2. /\ sweep'.pc = "send" /\ sweep'.plan = sweep.plan /\ sweep'.claimed = sweep.claimed
        /\ sweep'.left = batches /\ sweep'.group = sweep.group
        /\ sweep'.started = sweep.started /\ sweep'.loud = sweep.loud
    BY <2>1 DEF TypeOK, Sweep
  <2> QED
    BY <1>1, <2>1, <2>2 DEF batches
<1> QED
  BY <1>2, <1>3

\* A group is taken in hand, to be posted for the first time.
LEMMA SendEffect ==
    ASSUME TypeOK, Send
    PROVE  \E group \in sweep.left :
              /\ UNCHANGED <<now, since, mode, watching, gap, lastSwept, ledger, outbox, told, spoiled>>
              /\ sweep.pc = "send" /\ sweep'.pc = "post"
              /\ sweep'.left = sweep.left \ {group}
              /\ sweep'.group = {k \in sweep.claimed : k[1] \in group}
              /\ sweep'.plan = sweep.plan /\ sweep'.claimed = sweep.claimed
              /\ sweep'.started = sweep.started /\ sweep'.loud = sweep.loud
              /\ ~sweep'.silent => sweep.loud < MaxLoud
              /\ sweep'.message = 0
<1>1. PICK group \in sweep.left :
         sweep' = [sweep EXCEPT !.pc = "post", !.left = @ \ {group},
                                !.group = {k \in sweep.claimed : k[1] \in group},
                                !.silent = group \subseteq Silent \/ sweep.loud >= MaxLoud,
                                !.attempt = 1, !.message = 0]
  BY DEF Send
<1> DEFINE keys == {k \in sweep.claimed : k[1] \in group}
           silent == group \subseteq Silent \/ sweep.loud >= MaxLoud
<1>2. /\ UNCHANGED <<now, since, mode, watching, gap, lastSwept, ledger, outbox, told, spoiled>>
      /\ sweep.pc = "send"
  BY DEF Send, World
<1>3. ~silent => sweep.loud < MaxLoud
  BY SweepTypes, PaceAssumption
<1>4. sweep' = [sweep EXCEPT !.pc = "post", !.left = @ \ {group}, !.group = keys,
                             !.silent = silent, !.attempt = 1, !.message = 0]
  BY <1>1
<1>5. /\ sweep'.pc = "post" /\ sweep'.left = sweep.left \ {group} /\ sweep'.group = keys
      /\ sweep'.plan = sweep.plan /\ sweep'.claimed = sweep.claimed
      /\ sweep'.started = sweep.started /\ sweep'.loud = sweep.loud
      /\ sweep'.silent = silent /\ sweep'.message = 0
  <2> HIDE DEF silent, keys
  <2> QED
    BY <1>4 DEF TypeOK, Sweep
<1> QED
  BY <1>2, <1>3, <1>5

\* After an attempt in vain the same group is posted again, or given up.
LEMMA AgainEffect ==
    ASSUME TypeOK, Again \/ GiveUp
    PROVE  /\ sweep'.left = sweep.left /\ sweep'.group = sweep.group
           /\ sweep'.plan = sweep.plan /\ sweep'.claimed = sweep.claimed
           /\ sweep'.started = sweep.started /\ sweep'.silent = sweep.silent
           /\ sweep'.loud = sweep.loud /\ sweep'.message = 0
           /\ sweep'.pc = "settle" \/ (sweep'.pc = "post" /\ sweep'.attempt = sweep.attempt + 1)
<1>1. CASE GiveUp
  BY <1>1 DEF GiveUp, TypeOK, Sweep
<1>2. CASE sweep' = [sweep EXCEPT !.pc = "post", !.attempt = @ + 1, !.message = 0]
  BY <1>2 DEF TypeOK, Sweep
<1> QED
  BY <1>1, <1>2 DEF Again

\* The group reaches Telegram as one message, or not at all.
LEMMA PostEffect ==
    ASSUME TypeOK, Post
    PROVE  /\ UNCHANGED <<now, since, mode, watching, gap, lastSwept, ledger, told, spoiled>>
           /\ sweep.pc = "post" /\ sweep'.pc \in {"post", "answer", "settle"}
           /\ sweep'.left = sweep.left /\ sweep'.group = sweep.group
           /\ sweep'.plan = sweep.plan /\ sweep'.claimed = sweep.claimed
           /\ sweep'.started = sweep.started /\ sweep'.silent = sweep.silent
           /\ sweep'.loud = sweep.loud
           /\ \/ /\ outbox' = Append(outbox, [keys |-> sweep.group, silent |-> sweep.silent,
                                              day |-> Day(sweep.started), try |-> sweep.attempt,
                                              heard |-> TRUE])
                 /\ sweep'.pc = "answer" /\ sweep'.message = Len(outbox) + 1
                 /\ sweep'.attempt = sweep.attempt
              \/ /\ outbox' = outbox /\ sweep'.message = 0
                 /\ sweep'.pc = "settle" \/ (sweep'.pc = "post" /\ sweep'.attempt = sweep.attempt + 1)
<1> DEFINE taken == [keys |-> sweep.group, silent |-> sweep.silent, day |-> Day(sweep.started),
                     try |-> sweep.attempt, heard |-> TRUE]
<1>1. /\ UNCHANGED <<now, since, mode, watching, gap, lastSwept, ledger, told, spoiled>>
      /\ sweep.pc = "post"
  BY DEF Post, World
<1>2. CASE /\ outbox' = Append(outbox, taken)
           /\ sweep' = [sweep EXCEPT !.pc = "answer", !.message = Len(outbox')]
  <2>1. Len(outbox') = Len(outbox) + 1
    <3> HIDE DEF taken
    <3> QED
      BY <1>2 DEF TypeOK
  <2>2. /\ sweep'.left = sweep.left /\ sweep'.group = sweep.group
        /\ sweep'.plan = sweep.plan /\ sweep'.claimed = sweep.claimed
        /\ sweep'.started = sweep.started /\ sweep'.silent = sweep.silent
        /\ sweep'.loud = sweep.loud /\ sweep'.attempt = sweep.attempt
        /\ sweep'.pc = "answer" /\ sweep'.message = Len(outbox')
    <3> HIDE DEF taken
    <3> QED
      BY <1>2 DEF TypeOK, Sweep
  <2> QED
    BY <1>1, <1>2, <2>1, <2>2
<1>3. CASE (Again \/ GiveUp) /\ UNCHANGED outbox
  BY <1>1, <1>3, AgainEffect
<1> QED
  BY <1>2, <1>3 DEF Post

\* The answer counts the message, or marks it as one the scheduler never knew of.
LEMMA AnswerEffect ==
    ASSUME TypeOK, Answer
    PROVE  /\ UNCHANGED <<now, since, mode, watching, gap, lastSwept, ledger, told, spoiled>>
           /\ sweep.pc = "answer" /\ sweep'.pc \in {"post", "settle"}
           /\ sweep'.left = sweep.left /\ sweep'.group = sweep.group
           /\ sweep'.plan = sweep.plan /\ sweep'.claimed = sweep.claimed
           /\ sweep'.started = sweep.started /\ sweep'.silent = sweep.silent
           /\ \/ /\ outbox' = outbox /\ sweep'.message = sweep.message /\ sweep'.pc = "settle"
                 /\ sweep'.loud = IF sweep.silent THEN sweep.loud ELSE sweep.loud + 1
              \/ /\ outbox' = [outbox EXCEPT ![sweep.message].heard = FALSE]
                 /\ sweep'.message = 0 /\ sweep'.loud = sweep.loud
                 /\ sweep'.pc = "settle" \/ (sweep'.pc = "post" /\ sweep'.attempt = sweep.attempt + 1)
<1>1. /\ UNCHANGED <<now, since, mode, watching, gap, lastSwept, ledger, told, spoiled>>
      /\ sweep.pc = "answer"
  BY DEF Answer, World
<1>2. CASE /\ sweep' = [sweep EXCEPT !.pc = "settle", !.loud = IF sweep.silent THEN @ ELSE @ + 1]
           /\ UNCHANGED <<outbox, faults>>
  BY <1>1, <1>2 DEF TypeOK, Sweep
<1>3. CASE Again /\ outbox' = [outbox EXCEPT ![sweep.message].heard = FALSE]
  BY <1>1, <1>3, AgainEffect
<1> QED
  BY <1>2, <1>3 DEF Answer

LEMMA SettleEffect ==
    ASSUME TypeOK, Settle
    PROVE  \E k \in sweep.group :
              /\ UNCHANGED <<now, since, mode, watching, gap, lastSwept, outbox, told, spoiled>>
              /\ sweep.pc = "settle"
              /\ sweep'.pc = (IF sweep.group = {k} THEN "send" ELSE "settle")
              /\ sweep'.group = sweep.group \ {k} /\ sweep'.left = sweep.left
              /\ sweep'.plan = sweep.plan /\ sweep'.claimed = sweep.claimed
              /\ sweep'.started = sweep.started /\ sweep'.silent = sweep.silent
              /\ sweep'.loud = sweep.loud /\ sweep'.message = sweep.message
              /\ \A j \in Key \ {k} : ledger'[j] = ledger[j]
              /\ ledger'[k].at = ledger[k].at /\ ledger'[k].settled
              /\ ledger'[k].ok = (sweep.message # 0)
              /\ ledger'[k].silent = sweep.silent /\ ledger'[k].message = sweep.message
<1>1. PICK k \in FirstOf(sweep.group) :
         /\ ledger' = [ledger EXCEPT ![k] = [@ EXCEPT !.settled = TRUE,
                                                 !.ok = sweep.message # 0,
                                                 !.silent = sweep.silent,
                                                 !.message = sweep.message]]
         /\ sweep' = [sweep EXCEPT !.group = @ \ {k},
                                   !.pc = IF sweep.group = {k} THEN "send" ELSE "settle"]
  BY DEF Settle
<1>2. k \in sweep.group /\ k \in Key
  BY FirstOfIn DEF TypeOK, Sweep
<1>3. /\ UNCHANGED <<now, since, mode, watching, gap, lastSwept, outbox, told, spoiled>>
      /\ sweep.pc = "settle"
  BY DEF Settle, World
<1>4. /\ sweep'.pc = (IF sweep.group = {k} THEN "send" ELSE "settle")
      /\ sweep'.group = sweep.group \ {k} /\ sweep'.left = sweep.left
      /\ sweep'.plan = sweep.plan /\ sweep'.claimed = sweep.claimed
      /\ sweep'.started = sweep.started /\ sweep'.silent = sweep.silent
      /\ sweep'.loud = sweep.loud /\ sweep'.message = sweep.message
  BY <1>1 DEF TypeOK, Sweep
<1> DEFINE ok == sweep.message # 0
<1>5. ledger' = [ledger EXCEPT ![k] = [@ EXCEPT !.settled = TRUE, !.ok = ok,
                                          !.silent = sweep.silent, !.message = sweep.message]]
  BY <1>1
<1>6. /\ \A j \in Key \ {k} : ledger'[j] = ledger[j]
      /\ ledger'[k].at = ledger[k].at /\ ledger'[k].settled
      /\ ledger'[k].ok = ok
      /\ ledger'[k].silent = sweep.silent /\ ledger'[k].message = sweep.message
  <2> HIDE DEF ok
  <2> QED
    BY <1>2, <1>5 DEF TypeOK, Row
<1> QED
  BY <1>2, <1>3, <1>4, <1>6


\* Time, the owner and a crash touch neither the ledger nor what was sent; a crash
\* drops the sweep, the owner starts one.
LEMMA WorldEffect ==
    ASSUME TypeOK, Pace, Tick \/ Start \/ SwitchOn \/ SwitchOff \/ SaveSettings \/ Crash
    PROVE  /\ UNCHANGED <<since, ledger, outbox, told, spoiled>>
           /\ now <= now'
           /\ \/ sweep' = sweep
              \/ /\ sweep'.pc = "idle" /\ sweep'.plan = {} /\ sweep'.claimed = {}
                 /\ sweep'.left = {} /\ sweep'.group = {}
<1>1. UNCHANGED <<since, ledger, outbox, told, spoiled>>
  BY DEF Tick, Start, SwitchOn, SwitchOff, SaveSettings, Crash
<1>2. now \in Int /\ now <= now'
  BY PaceAssumption DEF TypeOK, Time, Tick, Start, SwitchOn, SwitchOff, SaveSettings, Crash
<1>3. CASE Tick \/ SwitchOff
  BY <1>1, <1>2, <1>3 DEF Tick, SwitchOff
<1>4. CASE Start \/ SwitchOn \/ SaveSettings \/ Crash
  <2>1. \E t : sweep' = [Idle EXCEPT !.from = t] \/ sweep' = Idle
    BY <1>4 DEF Start, SwitchOn, SaveSettings, Crash, At
  <2> QED
    BY <1>1, <1>2, <2>1 DEF Idle
<1> QED
  BY <1>3, <1>4

\* A sweep does not run ahead of time.
LEMMA Timely ==
    ASSUME TypeOK, Pace
    PROVE  Instant \in Nat /\ Instant <= now /\ now \in Nat
<1>1. lastSwept <= now /\ (sweep.pc # "idle" => lastSwept = sweep.started)
  BY DEF Pace
<1> QED
  BY <1>1, TimeTypes, SweepTypes DEF Instant

LEMMA OpensType == ASSUME TypeOK, NEW k \in Key PROVE Opens(k) \in Int
<1>1. /\ RuleOf[k[1]] \in Rule /\ When[k[1]] \in Nat /\ Lead[k[1]] \in Nat
      /\ k[1] \in Item /\ k[2] \in Nat /\ DayLength \in Nat
  BY ItemFacts, KeyFacts, PaceAssumption
<1>2. since[k[1]] \in Int
  BY <1>1, PaceAssumption DEF TypeOK, Time, Never
<1>3. k[2] * DayLength + When[k[1]] \in Int /\ When[k[1]] - Lead[k[1]] \in Int /\ When[k[1]] \in Int
  BY <1>1
<1> QED
  BY <1>2, <1>3 DEF Opens

-----------------------------------------------------------------------------
(* Nothing is said twice: the ledger remembers.                              *)

\* What can be due no more can be due no more later.
LEMMA PastMono ==
    ASSUME TypeOK, NEW k \in Key, NEW s \in Nat, NEW t \in Nat, s <= t, Past(k, s)
    PROVE  Past(k, t)
<1>1. CASE RuleOf[k[1]] \in {"clock", "stalled"}
  <2>1. Day(s) <= Day(t) /\ Day(s) \in Nat /\ Day(t) \in Nat /\ k[2] \in Nat
    BY DayMono, DayType, KeyFacts
  <2>2. Day(s) > k[2]
    BY <1>1 DEF Past
  <2>3. Day(t) > k[2]
    BY <2>1, <2>2
  <2> QED
    BY <1>1, <2>3 DEF Past
<1>2. CASE RuleOf[k[1]] = "recovered"
  BY <1>2 DEF Past
<1>3. CASE RuleOf[k[1]] \notin {"clock", "stalled", "recovered"}
  <2>1. Opens(k) \in Int /\ Retention \in Nat
    BY OpensType, PaceAssumption
  <2>2. s > Opens(k) + Retention
    BY <1>3 DEF Past
  <2>3. t > Opens(k) + Retention
    BY <2>1, <2>2
  <2> QED
    BY <1>3, <2>3 DEF Past
<1> QED
  BY <1>1, <1>2, <1>3

\* A step that takes no row and drops none, and whose sweep plans nothing new.
LEMMA RememberedFrame ==
    ASSUME TypeOK, TypeOK', Pace, Pace', Remembered, UNCHANGED <<since, told>>,
           \A k \in Key : ledger'[k].at = ledger[k].at,
           now <= now', Instant <= Instant',
           \/ \A k \in sweep'.plan : Planned(k)'
           \/ sweep'.plan = sweep.plan /\ sweep'.started = sweep.started
    PROVE  Remembered'
<1>1. \A k \in Key : Claimed(k)' <=> Claimed(k)
  BY DEF Claimed
<1>2. AlarmRows' = AlarmRows
  BY <1>1 DEF AlarmRows
<1>3. \A k \in Key : Opens(k)' = Opens(k)
  BY DEF Opens
<1>4. \A k \in Key : Dated(k)' <=> Dated(k)
  <2> SUFFICES ASSUME NEW k \in Key PROVE Dated(k)' <=> Dated(k)
    OBVIOUS
  <2>1. \A j \in AlarmRows : j \in Key
    BY DEF AlarmRows
  <2> QED
    BY <1>2, <1>3, <2>1 DEF Dated
<1>5. now \in Int /\ now' \in Int /\ now <= now' /\ \A k \in Key : ledger[k].at \in Int
  <2>1. now' \in Time
    BY DEF TypeOK
  <2>2. now' \in Int
    BY <2>1, PaceAssumption DEF Time
  <2> QED
    BY <2>2, RowTypes, TimeTypes
<1>6. \A i \in Item : since'[i] <= now'
  <2>1. \A i \in Item : since[i] \in Int
    BY PaceAssumption DEF TypeOK, Time, Never
  <2> QED
    BY <1>5, <2>1 DEF Remembered
<1>7. \A k \in Key : Claimed(k)' => k \in told' /\ ledger'[k].at <= now' /\ Dated(k)'
  <2> SUFFICES ASSUME NEW k \in Key, Claimed(k)'
               PROVE  k \in told' /\ ledger'[k].at <= now' /\ Dated(k)'
    OBVIOUS
  <2>1. Claimed(k)
    BY <1>1
  <2>2. k \in told /\ ledger[k].at <= now /\ Dated(k)
    BY <2>1 DEF Remembered
  <2>3. ledger[k].at \in Int /\ ledger'[k].at = ledger[k].at
    BY <1>5
  <2> QED
    BY <1>4, <1>5, <2>2, <2>3
<1>8. \A k \in told' : Claimed(k)' \/ Past(k, Instant)'
  <2> SUFFICES ASSUME NEW k \in told, ~Claimed(k)
               PROVE  Past(k, Instant)'
    BY <1>1 DEF TypeOK
  <2>1. k \in Key /\ Past(k, Instant)
    BY DEF Remembered, TypeOK
  <2>2. PICK t : t = Instant'
    OBVIOUS
  <2>3. t \in Nat /\ Instant \in Nat /\ Instant <= t
    <3>1. Instant \in Nat
      BY Timely
    <3>2. (Instant \in Nat)'
      BY TypeOK', PaceAssumption DEF TypeOK, Instant, Sweep, Time
    <3> QED
      BY <2>2, <3>1, <3>2
  <2>4. Past(k, t)
    BY <2>1, <2>3, PastMono
  <2> QED
    BY <1>2, <1>3, <2>1, <2>2, <2>4 DEF Past
<1>9. \A k \in told' : RuleOf[k[1]] = "booking" => since'[k[1]] # Never
  BY DEF Remembered
<1>10. \A k \in told' : RuleOf[k[1]] = "recovered" => \E j \in told' : j[1] \in Alarm /\ j[2] = k[2]
  BY DEF Remembered
<1>11. \A k \in sweep'.plan : Planned(k)'
  <2>1. CASE \A k \in sweep'.plan : Planned(k)'
    BY <2>1
  <2>2. CASE sweep'.plan = sweep.plan /\ sweep'.started = sweep.started
    <3> SUFFICES ASSUME NEW k \in sweep.plan PROVE Planned(k)'
      BY <2>2
    <3>1. k \in Key /\ Planned(k)
      BY DEF Remembered, TypeOK, Sweep
    <3> QED
      BY <1>2, <1>3, <2>2, <3>1 DEF Planned
  <2> QED
    BY <2>1, <2>2
<1> QED
  BY <1>6, <1>7, <1>8, <1>9, <1>10, <1>11 DEF Remembered


LEMMA RememberedInit == Init => Remembered
<1> SUFFICES ASSUME Init PROVE Remembered
  OBVIOUS
<1>1. \A k \in Key : ~Claimed(k)
  BY DEF Init, NoRow, Claimed
<1>2. told = {} /\ sweep.plan = {}
  BY DEF Init, Idle
<1>3. \A i \in Item : since[i] <= now
  BY DEF Init, Never
<1> QED
  BY <1>1, <1>2, <1>3 DEF Remembered

\* A booking arrives once, and the moment of a reminder does not move.
LEMMA RememberedHappens ==
    ASSUME TypeOK, TypeOK', Remembered, InHand, NEW i \in Item, Happens(i) \/ Ends(i)
    PROVE  Remembered'
<1>1. /\ UNCHANGED <<now, ledger, sweep, told>>
      /\ since' = [since EXCEPT ![i] = since'[i]]
      /\ since'[i] \in {now, Never}
      /\ RuleOf[i] = "booking" => since[i] = Never
      /\ RuleOf[i] \in {"at", "lead", "booking", "stalled"}
  BY DEF Happens, Ends, TypeOK
<1>2. now \in Nat
  BY PaceAssumption DEF TypeOK, Time
<1>3. \A k \in Key : Claimed(k)' <=> Claimed(k)
  BY <1>1 DEF Claimed
<1>4. AlarmRows' = AlarmRows
  BY <1>3 DEF AlarmRows
<1>5. \A k \in told : RuleOf[k[1]] = "booking" => k[1] # i
  BY <1>1 DEF Remembered
<1>6. \A k \in told : RuleOf[k[1]] \notin {"clock", "stalled", "recovered"} => Opens(k)' = Opens(k)
  <2> SUFFICES ASSUME NEW k \in told, RuleOf[k[1]] \notin {"clock", "stalled", "recovered"}
               PROVE  Opens(k)' = Opens(k)
    OBVIOUS
  <2>1. k \in Key /\ k[1] \in Item /\ RuleOf[k[1]] \in Rule
    BY KeyFacts, ItemFacts DEF TypeOK
  <2>2. CASE RuleOf[k[1]] \in {"at", "lead"}
    BY <2>2 DEF Opens
  <2>3. CASE RuleOf[k[1]] = "booking"
    <3>1. since'[k[1]] = since[k[1]]
      BY <1>1, <1>5, <2>1, <2>3 DEF TypeOK
    <3> QED
      BY <2>3, <3>1 DEF Opens
  <2> QED
    BY <2>1, <2>2, <2>3 DEF Rule
<1>7. \A j \in Item : since'[j] <= now'
  BY <1>1, <1>2 DEF Remembered, TypeOK, Never
<1>8. \A k \in Key : Claimed(k)' => k \in told' /\ ledger'[k].at <= now' /\ Dated(k)'
  <2> SUFFICES ASSUME NEW k \in Key, Claimed(k)
               PROVE  k \in told /\ ledger[k].at <= now /\ Dated(k)'
    BY <1>1, <1>3
  <2>1. k \in told /\ ledger[k].at <= now /\ Dated(k)
    BY DEF Remembered
  <2> QED
    BY <1>1, <1>4, <1>6, <2>1 DEF Dated
<1>9. \A k \in told' : Claimed(k)' \/ Past(k, Instant)'
  <2> SUFFICES ASSUME NEW k \in told, ~Claimed(k)
               PROVE  Past(k, Instant)'
    BY <1>1, <1>3 DEF TypeOK
  <2>1. Past(k, Instant) /\ Instant' = Instant
    BY <1>1 DEF Remembered, Instant
  <2> QED
    BY <1>4, <1>6, <2>1 DEF Past
<1>10. \A k \in told' : RuleOf[k[1]] = "booking" => since'[k[1]] # Never
  <2> SUFFICES ASSUME NEW k \in told, RuleOf[k[1]] = "booking" PROVE since'[k[1]] # Never
    BY <1>1
  <2>1. k[1] \in Item /\ k[1] # i /\ since[k[1]] # Never
    BY <1>5, KeyFacts DEF Remembered, TypeOK
  <2> QED
    BY <1>1, <2>1 DEF TypeOK
<1>11. \A k \in told' : RuleOf[k[1]] = "recovered" => \E j \in told' : j[1] \in Alarm /\ j[2] = k[2]
  BY <1>1 DEF Remembered
<1>12. \A k \in sweep'.plan : Planned(k)'
  <2>1. CASE Ends(i)
    BY <1>1, <2>1 DEF Ends, InHand
  <2>2. CASE Happens(i)
    <3> SUFFICES ASSUME NEW k \in sweep.plan PROVE Planned(k)'
      BY <1>1
    <3>1. k \in Key /\ k[1] \in Item /\ Planned(k) /\ since[i] = Never
      BY <2>2, KeyFacts DEF Happens, Remembered, TypeOK, Sweep
    <3>2. CASE RuleOf[k[1]] \in {"clock", "stalled", "recovered"}
      BY <1>1, <1>4, <3>1, <3>2 DEF Planned
    <3>3. CASE RuleOf[k[1]] \notin {"clock", "stalled", "recovered"}
      <4>1. since[k[1]] # Never /\ since'[k[1]] = since[k[1]]
        BY <1>1, <3>1, <3>3 DEF Planned, TypeOK
      <4>2. Opens(k)' = Opens(k)
        BY <4>1 DEF Opens
      <4> QED
        BY <1>1, <3>1, <3>3, <4>1, <4>2 DEF Planned
    <3> QED
      BY <3>2, <3>3
  <2> QED
    BY <2>1, <2>2
<1> QED
  BY <1>7, <1>8, <1>9, <1>10, <1>11, <1>12 DEF Remembered

\* What a rule finds due has not gone past, nor will have while the sweep lasts.
LEMMA DuePlanned ==
    ASSUME TypeOK, Remembered, NEW i \in Item, Due(i), NEW k \in KeysOf(i)
    PROVE  /\ k[1] = i /\ k \in Key
           /\ RuleOf[i] \in {"clock", "stalled"} => k[2] = Day(now)
           /\ RuleOf[i] = "recovered" => \E j \in AlarmRows : j[2] = k[2]
           /\ RuleOf[i] \notin {"clock", "stalled", "recovered"} =>
                 since[i] # Never /\ Opens(k) <= now /\ now <= Opens(k) + Retention
<1>1. k \in Key /\ RuleOf[i] \in Rule /\ When[i] \in Nat /\ Lead[i] \in Nat
  BY KeysOfType, ItemFacts
<1>2. now \in Nat /\ since[i] \in Int /\ since[i] <= now /\ lastSwept \in Int
  BY PaceAssumption DEF TypeOK, Time, Never, Remembered
<1>3. /\ {MaxLate, CatchUp, Retention, Interval} \subseteq Nat
      /\ 2 * Interval <= Retention /\ MaxLate <= Retention /\ CatchUp <= Retention
      /\ RuleOf[i] = "lead" => Lead[i] <= Retention
  BY PaceAssumption, LedgerAssumption
<1>4. CASE RuleOf[i] \in {"clock", "stalled"}
  BY <1>1, <1>4 DEF KeysOf
<1>5. CASE RuleOf[i] = "recovered"
  BY <1>1, <1>5 DEF KeysOf
<1>6. CASE RuleOf[i] = "at"
  <2>1. since[i] # Never /\ LateFloor <= When[i] /\ When[i] <= now
    BY <1>6 DEF Due, AtTimeDue, LeadDue, ClockDue, BookingDue, StalledDue, RecoveredDue
  <2>2. now <= LateFloor + Retention /\ LateFloor \in Int
    BY <1>2, <1>3 DEF LateFloor
  <2>3. k[1] = i /\ Opens(k) = When[i]
    BY <1>6 DEF KeysOf, Opens
  <2> QED
    BY <1>1, <1>2, <1>3, <1>6, <2>1, <2>2, <2>3
<1>7. CASE RuleOf[i] = "lead"
  <2>1. since[i] # Never /\ When[i] - Lead[i] <= now /\ now <= When[i]
    BY <1>7 DEF Due, AtTimeDue, LeadDue, ClockDue, BookingDue, StalledDue, RecoveredDue
  <2>2. k[1] = i /\ Opens(k) = When[i] - Lead[i]
    BY <1>7 DEF KeysOf, Opens
  <2> QED
    BY <1>1, <1>2, <1>3, <1>7, <2>1, <2>2
<1>8. CASE RuleOf[i] = "booking"
  <2>1. since[i] # Never /\ now - CatchUp <= since[i]
    BY <1>8 DEF Due, AtTimeDue, LeadDue, ClockDue, BookingDue, StalledDue, RecoveredDue
  <2>2. k[1] = i /\ Opens(k) = since[i]
    BY <1>8 DEF KeysOf, Opens
  <2> QED
    BY <1>1, <1>2, <1>3, <1>8, <2>1, <2>2
<1> QED
  BY <1>1, <1>4, <1>5, <1>6, <1>7, <1>8 DEF Rule

LEMMA RememberedBegin ==
    ASSUME TypeOK, TypeOK', Pace, Pace', Remembered, Begin
    PROVE  Remembered'
<1>1. /\ UNCHANGED <<now, since, ledger, told>>
      /\ \A k \in sweep'.plan : \E i \in Item : Due(i) /\ k \in KeysOf(i)
      /\ sweep.pc = "idle"
      /\ \/ sweep'.pc = "idle" /\ sweep'.plan = {}
         \/ sweep'.pc = "claim" /\ sweep'.started = now
  BY BeginEffect
<1>2. Instant = now /\ Instant' = now
  BY <1>1 DEF Instant
<1>3. now \in Nat
  BY PaceAssumption DEF TypeOK, Time
<1>4. AlarmRows' = AlarmRows
  BY <1>1 DEF AlarmRows, Claimed
<1>5. \A k \in sweep'.plan : Planned(k)'
  <2> SUFFICES ASSUME NEW k \in sweep'.plan PROVE Planned(k)'
    OBVIOUS
  <2>1. PICK i \in Item : Due(i) /\ k \in KeysOf(i)
    BY <1>1
  <2>2. /\ k[1] = i /\ k \in Key
        /\ RuleOf[i] \in {"clock", "stalled"} => k[2] = Day(now)
        /\ RuleOf[i] = "recovered" => \E j \in AlarmRows : j[2] = k[2]
        /\ RuleOf[i] \notin {"clock", "stalled", "recovered"} =>
              since[i] # Never /\ Opens(k) <= now /\ now <= Opens(k) + Retention
    BY <2>1, DuePlanned
  <2>3. Opens(k)' = Opens(k)
    BY <1>1 DEF Opens
  <2>4. sweep'.started = now
    BY <1>1
  <2> QED
    BY <1>1, <1>4, <2>2, <2>3, <2>4 DEF Planned
<1>6. \A k \in Key : ledger'[k].at = ledger[k].at
  BY <1>1
<1>7. now <= now' /\ Instant <= Instant'
  BY <1>1, <1>2, <1>3
<1> QED
  BY <1>1, <1>5, <1>6, <1>7, RememberedFrame


\* What is planned and has no row has never been claimed.
LEMMA PlannedIsNew ==
    ASSUME TypeOK, Remembered, sweep.pc # "idle", NEW k \in sweep.plan, ~Claimed(k)
    PROVE  k \notin told
<1> SUFFICES ASSUME k \in told PROVE FALSE
  OBVIOUS
<1>1. Planned(k) /\ k \in Key /\ sweep.started \in Nat
  BY PaceAssumption DEF Remembered, TypeOK, Sweep, Time
<1>2. Past(k, sweep.started)
  BY DEF Remembered, Instant
<1>3. CASE RuleOf[k[1]] \in {"clock", "stalled"}
  <2>1. k[2] = Day(sweep.started) /\ Day(sweep.started) > k[2] /\ Day(sweep.started) \in Nat
    BY <1>1, <1>2, <1>3, DayType DEF Planned, Past
  <2> QED
    BY <2>1
<1>4. CASE RuleOf[k[1]] = "recovered"
  BY <1>1, <1>2, <1>4 DEF Planned, Past
<1>5. CASE RuleOf[k[1]] \notin {"clock", "stalled", "recovered"}
  <2>1. sweep.started <= Opens(k) + Retention /\ sweep.started > Opens(k) + Retention
    BY <1>1, <1>2, <1>5 DEF Planned, Past
  <2> QED
    BY <1>1, <2>1, OpensType, PaceAssumption
<1> QED
  BY <1>3, <1>4, <1>5

LEMMA RememberedClaim ==
    ASSUME TypeOK, TypeOK', Pace, Pace', Remembered, ClaimNext
    PROVE  Remembered'
<1>1. PICK k \in sweep.plan :
              /\ UNCHANGED <<now, since>> /\ told' = told \cup {k}
              /\ sweep.pc = "claim" /\ sweep'.pc = "claim"
              /\ sweep'.plan = sweep.plan \ {k} /\ sweep'.started = sweep.started
              /\ \/ Claimed(k) /\ ledger' = ledger
                 \/ /\ ~Claimed(k)
                    /\ ledger' = [ledger EXCEPT ![k] = [NoRow EXCEPT !.at = now]]
  BY ClaimEffect
<1>2. k \in Key /\ Planned(k) /\ now \in Nat /\ sweep.started \in Nat
  BY PaceAssumption DEF Remembered, TypeOK, Sweep, Time
<1>3. Instant = sweep.started /\ Instant' = sweep.started /\ sweep.started <= now
  BY <1>1, Timely DEF Instant
<1>4. \A j \in Key : Opens(j)' = Opens(j)
  BY <1>1 DEF Opens
<1>5. CASE ledger' = ledger /\ Claimed(k)
  <2>1. AlarmRows' = AlarmRows
    BY <1>5 DEF AlarmRows, Claimed
  <2>2. told' = told
    BY <1>1, <1>2, <1>5 DEF Remembered
  <2>3. \A j \in sweep'.plan : Planned(j)'
    <3> SUFFICES ASSUME NEW j \in sweep.plan PROVE Planned(j)'
      BY <1>1
    <3>1. j \in Key /\ Planned(j)
      BY DEF Remembered, TypeOK, Sweep
    <3> QED
      BY <1>1, <1>4, <2>1, <3>1 DEF Planned
  <2>4. \A j \in Key : ledger'[j].at = ledger[j].at
    BY <1>5
  <2>5. now <= now' /\ Instant <= Instant'
    BY <1>1, <1>2, <1>3
  <2> QED
    BY <1>1, <2>2, <2>3, <2>4, <2>5, RememberedFrame
<1>6. CASE ~Claimed(k) /\ ledger' = [ledger EXCEPT ![k] = [NoRow EXCEPT !.at = now]]
  <2>1. k \notin told
    BY <1>1, <1>6, PlannedIsNew
  <2>2. /\ \A j \in Key : j # k => ledger'[j] = ledger[j]
        /\ ledger'[k].at = now
    BY <1>2, <1>6 DEF TypeOK, NoRow
  <2>3. /\ \A j \in Key : j # k => (Claimed(j)' <=> Claimed(j))
        /\ Claimed(k)'
    BY <1>2, <2>2 DEF Claimed, Never
  <2>4. /\ AlarmRows \subseteq AlarmRows'
        /\ \A j \in AlarmRows' : j # k => j \in AlarmRows
    BY <1>2, <1>6, <2>3 DEF AlarmRows
  <2>5. \A j \in told : RuleOf[j[1]] = "recovered" => ~(k[1] \in Alarm /\ k[2] = j[2])
    <3> SUFFICES ASSUME NEW j \in told, RuleOf[j[1]] = "recovered",
                        k[1] \in Alarm, k[2] = j[2]
                 PROVE  FALSE
      OBVIOUS
    <3>1. PICK a \in told : a[1] \in Alarm /\ a[2] = j[2]
      BY DEF Remembered
    <3>2. a \in Key
      BY DEF TypeOK
    <3>3. a = k
      BY <1>2, <3>1, <3>2, OneAlarm
    <3> QED
      BY <2>1, <3>1, <3>3
  <2>6. \A i \in Item : since'[i] <= now'
    BY <1>1 DEF Remembered
  <2>7. Dated(k)'
    <3>1. CASE RuleOf[k[1]] \in {"clock", "stalled"}
      <4>1. k[2] = Day(sweep.started) /\ Day(sweep.started) * DayLength <= sweep.started
        BY <1>2, <3>1, DayLow DEF Planned
      <4>2. k[2] * DayLength \in Int
        BY KeyFacts, <1>2, PaceAssumption
      <4>3. k[2] * DayLength <= ledger'[k].at
        BY <1>2, <1>3, <2>2, <4>1, <4>2
      <4> QED
        BY <3>1, <4>3 DEF Dated
    <3>2. CASE RuleOf[k[1]] = "recovered"
      <4>1. \A j \in AlarmRows' : ledger'[j].at <= ledger'[k].at
        <5> SUFFICES ASSUME NEW j \in AlarmRows' PROVE ledger'[j].at <= now
          BY <2>2
        <5>1. j # k /\ j \in Key
          BY <3>2 DEF AlarmRows, Alarm
        <5>2. Claimed(j) /\ ledger'[j] = ledger[j]
          BY <2>2, <2>4, <5>1 DEF AlarmRows
        <5> QED
          BY <5>1, <5>2 DEF Remembered
      <4> QED
        BY <3>2, <4>1 DEF Dated
    <3>3. CASE RuleOf[k[1]] \notin {"clock", "stalled", "recovered"}
      <4>1. Opens(k) <= sweep.started
        BY <1>2, <3>3 DEF Planned
      <4>2. Opens(k) <= now
        BY <1>2, <1>3, <4>1, OpensType
      <4> QED
        BY <1>2, <1>4, <2>2, <3>3, <4>2 DEF Dated
    <3> QED
      BY <3>1, <3>2, <3>3
  <2>8. \A j \in Key : Claimed(j)' => j \in told' /\ ledger'[j].at <= now' /\ Dated(j)'
    <3> SUFFICES ASSUME NEW j \in Key, Claimed(j)'
                 PROVE  j \in told' /\ ledger'[j].at <= now' /\ Dated(j)'
      OBVIOUS
    <3>1. CASE j = k
      BY <1>1, <1>2, <2>2, <2>7, <3>1
    <3>2. CASE j # k
      <4>1. j \in told /\ ledger[j].at <= now /\ Dated(j) /\ ledger'[j] = ledger[j]
        BY <2>2, <2>3, <3>2 DEF Remembered
      <4>2. Dated(j)'
        <5>1. CASE RuleOf[j[1]] = "recovered"
          <6> SUFFICES ASSUME NEW a \in AlarmRows', a[2] = j[2]
                       PROVE  ledger'[a].at <= ledger'[j].at
            BY <5>1 DEF Dated
          <6>1. a \in Key /\ a[1] \in Alarm
            BY DEF AlarmRows
          <6>2. a # k
            BY <2>5, <4>1, <5>1, <6>1
          <6>3. a \in AlarmRows /\ ledger'[a] = ledger[a]
            BY <2>2, <2>4, <6>1, <6>2
          <6> QED
            BY <4>1, <5>1, <6>3 DEF Dated
        <5>2. CASE RuleOf[j[1]] # "recovered"
          BY <1>4, <4>1, <5>2 DEF Dated
        <5> QED
          BY <5>1, <5>2
      <4> QED
        BY <1>1, <4>1, <4>2
    <3> QED
      BY <3>1, <3>2
  <2>9. \A j \in told' : Claimed(j)' \/ Past(j, Instant)'
    <3> SUFFICES ASSUME NEW j \in told, j # k, ~Claimed(j)
                 PROVE  Past(j, Instant)'
      BY <1>1, <2>3 DEF TypeOK
    <3>1. j \in Key /\ Past(j, sweep.started)
      BY <1>3 DEF Remembered, TypeOK
    <3>2. CASE RuleOf[j[1]] = "recovered"
      <4> SUFFICES ASSUME NEW a \in AlarmRows', a[2] = j[2] PROVE FALSE
        BY <3>2 DEF Past
      <4>1. a # k
        BY <2>5, <3>2 DEF AlarmRows
      <4> QED
        BY <2>4, <3>1, <3>2, <4>1 DEF Past
    <3>3. CASE RuleOf[j[1]] # "recovered"
      BY <1>3, <1>4, <3>1, <3>3 DEF Past
    <3> QED
      BY <3>2, <3>3
  <2>10. \A j \in told' : RuleOf[j[1]] = "booking" => since'[j[1]] # Never
    <3>1. RuleOf[k[1]] = "booking" => since[k[1]] # Never
      BY <1>2 DEF Planned
    <3> QED
      BY <1>1, <3>1 DEF Remembered
  <2>11. \A j \in told' : RuleOf[j[1]] = "recovered" => \E a \in told' : a[1] \in Alarm /\ a[2] = j[2]
    <3>1. RuleOf[k[1]] = "recovered" => \E a \in told : a[1] \in Alarm /\ a[2] = k[2]
      BY <1>2 DEF Planned, AlarmRows, Remembered
    <3> QED
      BY <1>1, <3>1 DEF Remembered
  <2>12. \A j \in sweep'.plan : Planned(j)'
    <3> SUFFICES ASSUME NEW j \in sweep.plan PROVE Planned(j)'
      BY <1>1
    <3>1. j \in Key /\ Planned(j)
      BY DEF Remembered, TypeOK, Sweep
    <3> QED
      BY <1>1, <1>4, <2>4, <3>1 DEF Planned
  <2> QED
    BY <2>6, <2>8, <2>9, <2>10, <2>11, <2>12 DEF Remembered
<1> QED
  BY <1>1, <1>5, <1>6

\* What the collection of old rows forgets can be due no more: an alarm goes no
\* later than its all-clear.
LEMMA RememberedForget ==
    ASSUME TypeOK, TypeOK', Pace, Remembered, UNCHANGED <<now, since, told>>,
           ledger' = [k \in Key |-> IF Expired(k) THEN NoRow ELSE ledger[k]],
           sweep.pc # "idle", sweep'.pc = "idle", sweep'.plan = {}
    PROVE  Remembered'
<1>1. now \in Nat /\ Retention \in Nat /\ \A k \in Key : ledger[k].at \in Int
  BY RowTypes, TimeTypes, PaceAssumption
<1>2. \A k \in Key : /\ Claimed(k)' <=> Claimed(k) /\ ~Expired(k)
                     /\ Claimed(k)' => ledger'[k] = ledger[k]
  BY DEF Claimed, NoRow, Expired
<1>3. AlarmRows' \subseteq AlarmRows
  BY <1>2 DEF AlarmRows
<1>4. Instant' = now /\ Instant \in Nat /\ Instant <= now
      /\ sweep.started \in Nat /\ sweep.started <= now
  BY Timely DEF Instant
<1>5. \A k \in Key : Opens(k)' = Opens(k)
  BY DEF Opens
<1>6. \A k \in Key : Claimed(k)' => k \in told' /\ ledger'[k].at <= now' /\ Dated(k)'
  <2> SUFFICES ASSUME NEW k \in Key, Claimed(k)'
               PROVE  k \in told /\ ledger[k].at <= now /\ Dated(k)'
    BY <1>2
  <2>1. k \in told /\ ledger[k].at <= now /\ Dated(k) /\ ledger'[k] = ledger[k]
    BY <1>2 DEF Remembered
  <2>2. CASE RuleOf[k[1]] = "recovered"
    <3> SUFFICES ASSUME NEW a \in AlarmRows', a[2] = k[2]
                 PROVE  ledger'[a].at <= ledger'[k].at
      BY <2>1, <2>2 DEF Dated
    <3>1. a \in Key /\ a \in AlarmRows /\ ledger'[a] = ledger[a]
      BY <1>2, <1>3 DEF AlarmRows
    <3> QED
      BY <2>1, <2>2, <3>1 DEF Dated
  <2>3. CASE RuleOf[k[1]] # "recovered"
    BY <1>5, <2>1, <2>3 DEF Dated
  <2> QED
    BY <2>1, <2>2, <2>3
<1>7. \A k \in told' : Claimed(k)' \/ Past(k, Instant)'
  <2> SUFFICES ASSUME NEW k \in told, ~Claimed(k)' PROVE Past(k, Instant)'
    BY DEF TypeOK
  <2>1. k \in Key /\ k[2] \in Nat
    BY KeyFacts DEF TypeOK
  <2>2. CASE ~Claimed(k)
    <3>1. Past(k, Instant)
      BY <2>2 DEF Remembered
    <3>2. Past(k, now)
      BY <1>1, <1>4, <2>1, <3>1, PastMono
    <3> QED
      BY <1>3, <1>4, <1>5, <2>1, <3>2 DEF Past
  <2>3. CASE Claimed(k)
    <3>1. Expired(k) /\ Dated(k)
      BY <1>2, <2>1, <2>3 DEF Remembered
    <3>2. ledger[k].at < sweep.started - Retention /\ ledger[k].at < now - Retention
      BY <1>1, <1>4, <2>1, <3>1 DEF Expired
    <3>3. CASE RuleOf[k[1]] \in {"clock", "stalled"}
      <4>1. k[2] * DayLength <= ledger[k].at
        BY <3>1, <3>3 DEF Dated
      <4>2. DayLength <= Retention /\ DayLength \in Nat /\ k[2] * DayLength \in Int
        BY PaceAssumption, LedgerAssumption, <2>1
      <4>3. k[2] * DayLength + DayLength <= now
        BY <1>1, <2>1, <3>2, <4>1, <4>2
      <4>4. Day(now) > k[2]
        BY <1>1, <2>1, <4>3, DayPast
      <4> QED
        BY <1>4, <3>3, <4>4 DEF Past
    <3>4. CASE RuleOf[k[1]] = "recovered"
      <4> SUFFICES ASSUME NEW a \in AlarmRows', a[2] = k[2] PROVE FALSE
        BY <3>4 DEF Past
      <4>1. a \in Key /\ a \in AlarmRows /\ ~Expired(a) /\ Claimed(a)
        BY <1>2, <1>3 DEF AlarmRows
      <4>2. ledger[a].at <= ledger[k].at
        BY <3>1, <3>4, <4>1 DEF Dated
      <4>3. ~(ledger[a].at < sweep.started - Retention)
        BY <4>1 DEF Expired
      <4> QED
        BY <1>1, <1>4, <2>1, <3>2, <4>1, <4>2, <4>3
    <3>5. CASE RuleOf[k[1]] \notin {"clock", "stalled", "recovered"}
      <4>1. Opens(k) <= ledger[k].at /\ Opens(k) \in Int
        BY <2>1, <3>1, <3>5, OpensType DEF Dated
      <4>2. now > Opens(k) + Retention
        BY <1>1, <2>1, <3>2, <4>1
      <4> QED
        BY <1>4, <1>5, <2>1, <3>5, <4>2 DEF Past
    <3> QED
      BY <3>3, <3>4, <3>5
  <2> QED
    BY <2>2, <2>3
<1>8. /\ \A i \in Item : since'[i] <= now'
      /\ \A k \in told' : RuleOf[k[1]] = "booking" => since'[k[1]] # Never
      /\ \A k \in told' : RuleOf[k[1]] = "recovered" =>
            \E j \in told' : j[1] \in Alarm /\ j[2] = k[2]
  BY DEF Remembered
<1> QED
  BY <1>6, <1>7, <1>8 DEF Remembered


-----------------------------------------------------------------------------
(* The loop keeps its pace.                                                  *)

LEMMA PaceInit == Init => Pace
<1> SUFFICES ASSUME Init PROVE Pace
  OBVIOUS
<1> QED
  BY DEF Init, Pace, Idle, Never

LEMMA PaceWorld ==
    ASSUME TypeOK, Pace, \/ \E i \in Item : Happens(i) \/ Ends(i)
                         \/ Tick \/ Start \/ SwitchOn \/ SwitchOff \/ SaveSettings \/ Crash
    PROVE  Pace'
<1>1. /\ now \in Nat /\ lastSwept \in Int /\ watching \in Int /\ gap \in Nat
      /\ sweep.from \in Int /\ sweep.started \in Int /\ Interval \in Nat \ {0}
  BY TimeTypes, SweepTypes, PaceAssumption
<1>2. CASE \E i \in Item : Happens(i) \/ Ends(i)
  BY <1>2 DEF Happens, Ends, Pace
<1>3. CASE Tick
  <2>1. /\ UNCHANGED <<mode, lastSwept, sweep, watching>> /\ now' = now + 1
        /\ mode = "on" /\ sweep.pc = "idle" => now < sweep.from + Interval
        /\ gap' = IF mode = "on" /\ now' - lastSwept > gap THEN now' - lastSwept ELSE gap
    BY <1>3 DEF Tick
  <2>2. /\ mode = "on" <=> watching # Never
        /\ sweep.pc # "idle" => mode = "on" /\ lastSwept = sweep.started
    BY DEF Pace
  <2>3. watching <= now' /\ lastSwept <= now'
    BY <1>1, <2>1 DEF Pace
  <2>4. CASE mode = "on"
    <3>1. ~(sweep.pc = "idle" /\ sweep.from + Interval <= now)
      BY <1>1, <2>1, <2>4
    <3>2. lastSwept # Never /\ watching <= lastSwept
      BY <2>4, <3>1 DEF Pace
    <3>3. now' - lastSwept <= gap'
      BY <1>1, <2>1, <2>4
    <3> QED
      BY <2>1, <2>2, <2>3, <2>4, <3>2, <3>3 DEF Pace
  <2>5. CASE mode # "on"
    <3>1. gap' = 0
      BY <2>1, <2>5 DEF Pace
    <3> QED
      BY <2>1, <2>2, <2>3, <2>5, <3>1 DEF Pace
  <2> QED
    BY <2>4, <2>5
<1>4. CASE Start \/ SwitchOn \/ SaveSettings
  <2>1. /\ now' = now /\ gap' = gap /\ mode' = "on" /\ lastSwept' \in {lastSwept, Never}
        /\ sweep' = [Idle EXCEPT !.from = now - Interval]
        /\ \/ watching' = now /\ mode # "on"
           \/ mode = "on" /\ watching' = watching /\ lastSwept' = lastSwept
    BY <1>4 DEF Start, SwitchOn, SaveSettings, At
  <2>2. sweep'.pc = "idle" /\ sweep'.from = now - Interval
    BY <2>1 DEF Idle
  <2>3. watching' <= now' /\ lastSwept' <= now' /\ watching' # Never
    BY <1>1, <2>1 DEF Pace, Never
  <2>4. sweep'.from + Interval <= now'
    BY <1>1, <2>1, <2>2
  <2>5. \/ now' = watching' /\ gap' = 0
        \/ lastSwept' # Never /\ watching' <= lastSwept' /\ now' - lastSwept' <= gap'
    BY <2>1 DEF Pace
  <2> QED
    BY <2>1, <2>2, <2>3, <2>4, <2>5 DEF Pace
<1>5. CASE SwitchOff \/ Crash
  <2>1. /\ now' = now /\ mode' # "on" /\ watching' = Never /\ sweep'.pc = "idle"
        /\ gap' = 0 /\ lastSwept' \in {lastSwept, Never}
    BY <1>5 DEF SwitchOff, Crash, Idle
  <2>2. watching' <= now' /\ lastSwept' <= now'
    BY <1>1, <2>1 DEF Pace, Never
  <2> QED
    BY <2>1, <2>2 DEF Pace
<1> QED
  BY <1>2, <1>3, <1>4, <1>5

LEMMA PaceSweep ==
    ASSUME TypeOK, Pace,
           Begin \/ ClaimNext \/ EndClaims \/ Send \/ Post \/ Answer \/ Settle \/ EndSweep
    PROVE  Pace'
<1>1. now \in Nat /\ lastSwept \in Int /\ watching \in Int /\ gap \in Nat
  BY TimeTypes
<1>2. /\ mode = "on" <=> watching # Never
      /\ watching <= now /\ lastSwept <= now
      /\ mode # "on" => gap = 0
  BY DEF Pace
<1>3. CASE Begin
  <2>1. /\ mode = "on" /\ lastSwept' = now /\ UNCHANGED <<now, mode, watching, gap>>
        /\ sweep'.pc = "idle" \/ sweep'.started = now
    BY <1>3, BeginEffect
  <2>2. now # Never /\ now' - lastSwept' <= gap'
    BY <1>1, <2>1 DEF Never
  <2> QED
    BY <1>1, <1>2, <2>1, <2>2 DEF Pace
<1>4. CASE ~Begin
  <2>1. /\ UNCHANGED <<now, mode, watching, gap, lastSwept>> /\ sweep.pc # "idle"
        /\ sweep'.pc = "idle" \/ sweep'.started = sweep.started
    <3>1. CASE ClaimNext
      BY <3>1, ClaimEffect
    <3>2. CASE EndClaims \/ EndSweep
      BY <3>2, EndEffect
    <3>3. CASE Send
      BY <3>3, SendEffect
    <3>4. CASE Post \/ Answer
      BY <3>4, PostEffect, AnswerEffect
    <3>5. CASE Settle
      BY <3>5, SettleEffect
    <3> QED
      BY <1>4, <3>1, <3>2, <3>3, <3>4, <3>5
  <2>2. /\ mode = "on" /\ lastSwept = sweep.started
        /\ lastSwept # Never /\ watching <= lastSwept /\ now - lastSwept <= gap
    BY <2>1 DEF Pace
  <2> QED
    BY <1>2, <2>1, <2>2 DEF Pace
<1> QED
  BY <1>3, <1>4

LEMMA PaceStep == ASSUME TypeOK, Pace, [Next]_vars PROVE Pace'
<1>1. CASE UNCHANGED vars
  BY <1>1 DEF vars, Pace
<1> QED
  BY <1>1, PaceWorld, PaceSweep DEF Next

LEMMA RememberedStep ==
    ASSUME TypeOK, TypeOK', Pace, Pace', InHand, Remembered, [Next]_vars
    PROVE  Remembered'
<1>1. now \in Nat /\ Instant \in Nat /\ Instant <= now
  BY Timely
<1>2. CASE UNCHANGED vars
  <2>1. now <= now' /\ Instant <= Instant'
    BY <1>1, <1>2 DEF vars, Instant
  <2> QED
    BY <1>2, <2>1, RememberedFrame DEF vars
<1>3. CASE Tick \/ Start \/ SwitchOn \/ SwitchOff \/ SaveSettings \/ Crash
  <2>1. /\ UNCHANGED <<since, ledger, told>> /\ now <= now'
        /\ sweep' = sweep \/ (sweep'.pc = "idle" /\ sweep'.plan = {})
    BY <1>3, WorldEffect
  <2>2. Instant <= Instant'
    <3>1. now' \in Nat
      BY PaceAssumption DEF TypeOK, Time
    <3>2. CASE sweep' = sweep
      BY <1>1, <2>1, <3>1, <3>2 DEF Instant
    <3>3. CASE sweep'.pc = "idle"
      BY <1>1, <2>1, <3>1, <3>3 DEF Instant
    <3> QED
      BY <2>1, <3>2, <3>3
  <2> QED
    BY <2>1, <2>2, RememberedFrame
<1>4. CASE Begin
  BY <1>4, RememberedBegin
<1>5. CASE ClaimNext
  BY <1>5, RememberedClaim
<1>6. CASE EndClaims \/ EndSweep
  <2>1. /\ UNCHANGED <<now, since, told>> /\ sweep.pc # "idle"
        /\ \/ /\ ledger' = [k \in Key |-> IF Expired(k) THEN NoRow ELSE ledger[k]]
              /\ sweep'.pc = "idle" /\ sweep'.plan = {}
           \/ /\ ledger' = ledger /\ sweep'.pc = "send" /\ sweep'.plan = sweep.plan
              /\ sweep'.started = sweep.started
    BY <1>6, EndEffect
  <2>2. CASE sweep'.pc = "idle"
    BY <2>1, <2>2, RememberedForget
  <2>3. CASE sweep'.pc = "send"
    <3>1. Instant' = Instant
      BY <2>1, <2>3 DEF Instant
    <3>2. now <= now' /\ Instant <= Instant'
      BY <1>1, <2>1, <3>1
    <3>3. ledger' = ledger /\ sweep'.plan = sweep.plan /\ sweep'.started = sweep.started
      BY <2>1, <2>3
    <3> QED
      BY <2>1, <3>2, <3>3, RememberedFrame
  <2> QED
    BY <2>1, <2>2, <2>3
<1>7. CASE Send \/ Post \/ Answer \/ Settle
  <2>1. /\ UNCHANGED <<now, since, told>>
        /\ \A k \in Key : ledger'[k].at = ledger[k].at
        /\ sweep'.plan = sweep.plan /\ sweep'.started = sweep.started
        /\ sweep.pc # "idle" /\ sweep'.pc # "idle"
    <3>1. CASE Send
      BY <3>1, SendEffect
    <3>2. CASE Post \/ Answer
      BY <3>2, PostEffect, AnswerEffect
    <3>3. CASE Settle
      BY <3>3, SettleEffect
    <3> QED
      BY <1>7, <3>1, <3>2, <3>3
  <2>2. now <= now' /\ Instant <= Instant'
    BY <1>1, <2>1 DEF Instant
  <2> QED
    BY <2>1, <2>2, RememberedFrame
<1>8. CASE \E i \in Item : Happens(i) \/ Ends(i)
  BY <1>8, RememberedHappens
<1> QED
  BY <1>2, <1>3, <1>4, <1>5, <1>6, <1>7, <1>8 DEF Next


-----------------------------------------------------------------------------
(* What a sweep has claimed is its own.                                      *)

LEMMA BatchesFacts ==
    ASSUME NEW items \in SUBSET Item
    PROVE  /\ \A g \in Batches(items) : g # {} /\ g \subseteq items
           /\ \A g, h \in Batches(items) : g # h => g \cap h = {}
<1> DEFINE Kinds == {items \cap Silent, items \ Silent} \ {{}}
           Of(S) == IF Cardinality(S) >= BatchThreshold THEN {S} ELSE {{i} : i \in S}
<1>1. \A g \in Batches(items) : \E S \in Kinds : g \in Of(S)
  BY DEF Batches
<1>2. \A S \in Kinds : S # {} /\ S \subseteq items
  OBVIOUS
<1>3. \A S, T \in Kinds : S # T => S \cap T = {}
  OBVIOUS
<1>4. \A S : S # {} => \A g \in Of(S) : g # {} /\ g \subseteq S
  OBVIOUS
<1>5. \A S : \A g, h \in Of(S) : g # h => g \cap h = {}
  OBVIOUS
<1> HIDE DEF Kinds, Of
<1>6. \A g \in Batches(items) : g # {} /\ g \subseteq items
  BY <1>1, <1>2, <1>4
<1>7. ASSUME NEW g \in Batches(items), NEW h \in Batches(items), g # h
      PROVE  g \cap h = {}
  <2>1. PICK S \in Kinds : g \in Of(S)
    BY <1>1
  <2>2. PICK T \in Kinds : h \in Of(T)
    BY <1>1
  <2>3. CASE S = T
    BY <1>5, <1>7, <2>1, <2>2, <2>3
  <2>4. CASE S # T
    <3>1. S \cap T = {} /\ g \subseteq S /\ h \subseteq T
      BY <1>2, <1>3, <1>4, <2>1, <2>2, <2>4
    <3> QED
      BY <3>1
  <2> QED
    BY <2>3, <2>4
<1> QED
  BY <1>6, <1>7

LEMMA InHandEmpty ==
    ASSUME sweep.claimed = {}, sweep.left = {}, sweep.group = {},
           sweep.pc \in {"idle", "claim"}, sweep.pc = "idle" => sweep.plan = {}
    PROVE  InHand
BY DEF InHand

LEMMA InHandInit == Init => InHand
<1> SUFFICES ASSUME Init PROVE InHand
  OBVIOUS
<1>1. sweep = Idle
  BY DEF Init
<1> QED
  BY <1>1, InHandEmpty DEF Idle

LEMMA InHandSame ==
    ASSUME InHand, UNCHANGED <<ledger, outbox, told, sweep>>
    PROVE  InHand'
BY DEF InHand, Unsettled, Claimed, Sent

LEMMA InHandClaim ==
    ASSUME TypeOK, TypeOK', Pace, Remembered, Kept, InHand, ClaimNext
    PROVE  InHand'
<1>1. PICK k \in sweep.plan :
              /\ UNCHANGED <<now, outbox>> /\ told' = told \cup {k}
              /\ sweep.pc = "claim" /\ sweep'.pc = "claim"
              /\ sweep'.plan = sweep.plan \ {k}
              /\ sweep'.left = sweep.left /\ sweep'.group = sweep.group
              /\ sweep'.started = sweep.started
              /\ \/ /\ Claimed(k) /\ ledger' = ledger /\ sweep'.claimed = sweep.claimed
                 \/ /\ ~Claimed(k) /\ sweep'.claimed = sweep.claimed \cup {k}
                    /\ ledger' = [ledger EXCEPT ![k] = [NoRow EXCEPT !.at = now]]
  BY ClaimEffect
<1>2. sweep.left = {} /\ sweep.group = {}
  BY <1>1 DEF InHand
<1>3. k \in Key /\ now \in Nat /\ sweep.started <= now
  BY <1>1, Timely DEF TypeOK, Sweep, Instant
<1>4. \A j \in sweep'.claimed : /\ j \in told' /\ Claimed(j)' /\ sweep'.started <= ledger'[j].at
                                /\ Unsettled(j)' /\ ~Sent(j)'
  <2> SUFFICES ASSUME NEW j \in sweep'.claimed
               PROVE  /\ j \in told' /\ Claimed(j)' /\ sweep'.started <= ledger'[j].at
                      /\ Unsettled(j)' /\ ~Sent(j)'
    OBVIOUS
  <2>1. CASE j \in sweep.claimed /\ ledger'[j] = ledger[j]
    BY <1>1, <2>1 DEF InHand, Unsettled, Claimed, Sent
  <2>2. CASE ~(j \in sweep.claimed /\ ledger'[j] = ledger[j])
    <3>1. /\ ~Claimed(k) /\ sweep'.claimed = sweep.claimed \cup {k}
          /\ ledger' = [ledger EXCEPT ![k] = [NoRow EXCEPT !.at = now]]
      BY <1>1, <2>2
    <3>2. j = k
      <4>1. \A a \in sweep.claimed : a \in Key /\ Claimed(a)
        BY DEF InHand, TypeOK, Sweep
      <4>2. j \in sweep.claimed => j # k /\ ledger'[j] = ledger[j]
        BY <3>1, <4>1 DEF TypeOK
      <4> QED
        BY <2>2, <3>1, <4>2
    <3>3. ledger'[k] = [NoRow EXCEPT !.at = now]
      BY <1>3, <3>1 DEF TypeOK
    <3>4. ledger'[k].at = now /\ ~ledger'[k].settled /\ ~ledger'[k].silent
      BY <3>3 DEF NoRow
    <3>5. k \notin told
      BY <1>1, <3>1, PlannedIsNew
    <3>6. ~Sent(k)
      BY <3>5 DEF Sent, Kept
    <3> QED
      BY <1>1, <1>3, <3>2, <3>4, <3>6 DEF Unsettled, Claimed, Sent, Never
  <2> QED
    BY <2>1, <2>2
<1> QED
  BY <1>1, <1>2, <1>4 DEF InHand

LEMMA InHandEnd ==
    ASSUME TypeOK, InHand, EndClaims \/ EndSweep
    PROVE  InHand'
<1>1. /\ UNCHANGED <<outbox, told>>
      /\ sweep.pc \in {"claim", "send"} /\ (sweep.pc = "claim" => sweep.plan = {})
      /\ \/ /\ sweep'.pc = "idle" /\ sweep'.plan = {} /\ sweep'.claimed = {}
            /\ sweep'.left = {} /\ sweep'.group = {}
         \/ /\ ledger' = ledger /\ sweep.pc = "claim" /\ sweep'.pc = "send"
            /\ sweep'.plan = sweep.plan /\ sweep'.claimed = sweep.claimed
            /\ sweep'.left = Batches({k[1] : k \in sweep.claimed})
            /\ sweep'.group = sweep.group /\ sweep'.started = sweep.started
  BY EndEffect
<1>2. CASE sweep'.pc = "idle"
  BY <1>1, <1>2 DEF InHand
<1>3. CASE sweep'.pc = "send"
  <2> DEFINE items == {k[1] : k \in sweep.claimed}
  <2>1. items \in SUBSET Item
    BY KeyFacts DEF TypeOK, Sweep
  <2>2. /\ ledger' = ledger /\ sweep.pc = "claim"
        /\ sweep'.plan = {} /\ sweep'.claimed = sweep.claimed
        /\ sweep'.left = Batches(items)
        /\ sweep'.group = {} /\ sweep'.started = sweep.started
    BY <1>1, <1>3 DEF InHand
  <2>3. \A i \in items : \E k \in sweep.claimed : k[1] = i
    OBVIOUS
  <2> HIDE DEF items
  <2>4. /\ \A g \in sweep'.left : g # {} /\ g \subseteq items
        /\ \A g, h \in sweep'.left : g # h => g \cap h = {}
    BY <2>1, <2>2, BatchesFacts
  <2>5. \A k \in sweep'.claimed :
           /\ k \in told' /\ Claimed(k)' /\ sweep'.started <= ledger'[k].at
           /\ Unsettled(k)' /\ ~Sent(k)'
    BY <1>1, <2>2 DEF InHand, Unsettled, Claimed, Sent
  <2>6. \A g \in sweep'.left : g # {} /\ \A i \in g : \E k \in sweep'.claimed : k[1] = i
    BY <2>2, <2>3, <2>4
  <2> QED
    BY <1>3, <2>2, <2>4, <2>5, <2>6 DEF InHand
<1> QED
  BY <1>1, <1>2, <1>3

LEMMA MessageType ==
    ASSUME TypeOK, NEW m \in DOMAIN outbox
    PROVE  outbox[m] \in Message /\ outbox[m].day \in Nat /\ outbox[m].keys \subseteq Key
<1>1. outbox \in Seq(Message)
  BY DEF TypeOK
<1>2. outbox[m] \in Message
  BY <1>1
<1> QED
  BY <1>2 DEF Message

LEMMA OneMore ==
    ASSUME NEW S, NEW s \in Seq(S), NEW x
    PROVE  /\ DOMAIN s = 1 .. Len(s) /\ Len(s) \in Nat
           /\ DOMAIN Append(s, x) = DOMAIN s \cup {Len(s) + 1} /\ Len(s) + 1 \notin DOMAIN s
           /\ Append(s, x)[Len(s) + 1] = x
           /\ \A m \in DOMAIN s : Append(s, x)[m] = s[m]
OBVIOUS

\* What a post that reaches Telegram adds to the messages.
LEMMA PostOutbox ==
    ASSUME TypeOK, Post, outbox' # outbox
    PROVE  LET n == Len(outbox) + 1 IN
           /\ DOMAIN outbox = 1 .. Len(outbox) /\ Len(outbox) \in Nat
           /\ n \in Nat \ {0} /\ n \notin DOMAIN outbox /\ DOMAIN outbox' = DOMAIN outbox \cup {n}
           /\ \A m \in DOMAIN outbox : outbox'[m] = outbox[m]
           /\ outbox'[n].keys = sweep.group /\ outbox'[n].silent = sweep.silent
           /\ outbox'[n].day = Day(sweep.started) /\ outbox'[n].heard
           /\ outbox'[n].try = sweep.attempt /\ sweep'.attempt = sweep.attempt
           /\ sweep'.pc = "answer" /\ sweep'.message = n
<1> DEFINE taken == [keys |-> sweep.group, silent |-> sweep.silent, day |-> Day(sweep.started),
                     try |-> sweep.attempt, heard |-> TRUE]
<1>1. /\ outbox' = Append(outbox, taken) /\ sweep'.attempt = sweep.attempt
      /\ sweep'.pc = "answer" /\ sweep'.message = Len(outbox) + 1
  BY PostEffect
<1>2. /\ taken.keys = sweep.group /\ taken.silent = sweep.silent
      /\ taken.day = Day(sweep.started) /\ taken.heard /\ taken.try = sweep.attempt
  OBVIOUS
<1>3. outbox \in Seq(Message) /\ outbox' = Append(outbox, taken)
  BY <1>1 DEF TypeOK
<1> HIDE DEF taken
<1>4. /\ DOMAIN outbox = 1 .. Len(outbox)
      /\ Len(outbox) \in Nat /\ Len(outbox) + 1 \notin DOMAIN outbox
      /\ DOMAIN outbox' = DOMAIN outbox \cup {Len(outbox) + 1}
      /\ \A m \in DOMAIN outbox : outbox'[m] = outbox[m]
      /\ outbox'[Len(outbox) + 1] = taken
  BY <1>3, OneMore
<1> DEFINE n == Len(outbox) + 1
<1>5. /\ n \in Nat \ {0} /\ n \notin DOMAIN outbox
      /\ DOMAIN outbox' = DOMAIN outbox \cup {n} /\ outbox'[n] = taken
  BY <1>4
<1>6. sweep'.pc = "answer" /\ sweep'.message = n /\ sweep'.attempt = sweep.attempt
  BY <1>1
<1> HIDE DEF n
<1>7. /\ outbox'[n].keys = sweep.group /\ outbox'[n].silent = sweep.silent
      /\ outbox'[n].day = Day(sweep.started) /\ outbox'[n].heard
      /\ outbox'[n].try = sweep.attempt
  BY <1>2, <1>5
<1> QED
  BY <1>4, <1>5, <1>6, <1>7 DEF n

\* What an answer that is lost leaves of the messages.
LEMMA AnswerOutbox ==
    ASSUME TypeOK, InHand, Answer
    PROVE  /\ DOMAIN outbox' = DOMAIN outbox
           /\ \A m \in DOMAIN outbox :
                 /\ outbox'[m].keys = outbox[m].keys /\ outbox'[m].silent = outbox[m].silent
                 /\ outbox'[m].day = outbox[m].day /\ outbox'[m].try = outbox[m].try
                 /\ outbox'[m].heard => outbox[m].heard
                 /\ outbox'[m].heard <=> outbox[m].heard /\ (m = sweep.message => sweep'.message = m)
<1>1. /\ sweep.message # 0 /\ sweep.message \in DOMAIN outbox
      /\ \/ outbox' = outbox /\ sweep'.message = sweep.message
         \/ outbox' = [outbox EXCEPT ![sweep.message].heard = FALSE] /\ sweep'.message = 0
  BY AnswerEffect DEF InHand
<1>2. DOMAIN outbox = 1 .. Len(outbox) /\ \A m \in DOMAIN outbox : outbox[m] \in Message
  BY DEF TypeOK
<1>3. CASE outbox' = outbox /\ sweep'.message = sweep.message
  BY <1>3
<1>4. CASE outbox' = [outbox EXCEPT ![sweep.message].heard = FALSE] /\ sweep'.message = 0
  <2>1. DOMAIN outbox' = DOMAIN outbox
    BY <1>4
  <2>2. \A m \in DOMAIN outbox : m # sweep.message => outbox'[m] = outbox[m]
    BY <1>2, <1>4
  <2>3. outbox'[sweep.message] = [outbox[sweep.message] EXCEPT !.heard = FALSE]
    BY <1>1, <1>2, <1>4
  <2>4. LET m == sweep.message IN
        /\ outbox'[m].keys = outbox[m].keys /\ outbox'[m].silent = outbox[m].silent
        /\ outbox'[m].day = outbox[m].day /\ outbox'[m].try = outbox[m].try
        /\ ~outbox'[m].heard
    BY <1>1, <1>2, <2>3 DEF Message
  <2> QED
    BY <1>1, <1>4, <2>1, <2>2, <2>4
<1> QED
  BY <1>1, <1>3, <1>4

LEMMA InHandSend ==
    ASSUME TypeOK, InHand, Send
    PROVE  InHand'
<1>1. PICK group \in sweep.left :
              /\ UNCHANGED <<ledger, outbox, told>>
              /\ sweep.pc = "send" /\ sweep'.pc = "post"
              /\ sweep'.left = sweep.left \ {group}
              /\ sweep'.group = {k \in sweep.claimed : k[1] \in group}
              /\ sweep'.plan = sweep.plan /\ sweep'.claimed = sweep.claimed
              /\ sweep'.started = sweep.started /\ sweep'.message = 0
  BY SendEffect
<1> DEFINE keys == {k \in sweep.claimed : k[1] \in group}
<1>2. keys # {}
  <2>1. group # {} /\ \A i \in group : \E k \in sweep.claimed : k[1] = i
    BY DEF InHand
  <2> QED
    BY <2>1
<1>3. \A k \in keys : k \in sweep.claimed /\ k[1] \in group
  OBVIOUS
<1>4. sweep'.group = keys /\ sweep'.plan = {}
  BY <1>1 DEF InHand
<1> HIDE DEF keys
<1>5. UNION sweep'.left \subseteq UNION sweep.left /\ group \subseteq UNION sweep.left
  BY <1>1
<1>6. \A i \in group : i \notin UNION sweep'.left
  BY <1>1 DEF InHand
<1>7. \A k : (Unsettled(k)' <=> Unsettled(k)) /\ (Sent(k)' <=> Sent(k))
  BY <1>1 DEF Unsettled, Claimed, Sent
<1>8. \A k \in sweep'.claimed : /\ k \in told' /\ Claimed(k)' /\ sweep'.started <= ledger'[k].at
                                /\ k[1] \in UNION sweep'.left => Unsettled(k)' /\ ~Sent(k)'
  BY <1>1, <1>5, <1>7 DEF InHand, Claimed
<1>9. /\ \A g \in sweep'.left : g # {} /\ \A i \in g : \E k \in sweep'.claimed : k[1] = i
      /\ \A g, h \in sweep'.left : g # h => g \cap h = {}
  BY <1>1 DEF InHand
<1>10. \A k \in keys : /\ k \in sweep'.claimed /\ k[1] \notin UNION sweep'.left
                       /\ Unsettled(k)' /\ ~Sent(k)'
  BY <1>1, <1>3, <1>5, <1>6, <1>7 DEF InHand
<1>11. \A m \in DOMAIN outbox' : outbox'[m].keys \cap keys = {}
  BY <1>10 DEF Sent
<1> QED
  BY <1>1, <1>2, <1>4, <1>8, <1>9, <1>10, <1>11 DEF InHand

LEMMA InHandPost ==
    ASSUME TypeOK, InHand, Post
    PROVE  InHand'
<1>1. /\ UNCHANGED <<ledger, told>>
      /\ sweep.pc = "post" /\ sweep'.pc \in {"post", "answer", "settle"}
      /\ sweep'.left = sweep.left /\ sweep'.group = sweep.group
      /\ sweep'.plan = sweep.plan /\ sweep'.claimed = sweep.claimed
      /\ sweep'.started = sweep.started /\ sweep'.silent = sweep.silent
      /\ \/ outbox' # outbox
         \/ /\ outbox' = outbox /\ sweep'.message = 0
            /\ sweep'.pc = "settle" \/ (sweep'.pc = "post" /\ sweep'.attempt = sweep.attempt + 1)
  BY PostEffect
<1>2. sweep.message = 0 /\ sweep.plan = {} /\ sweep.group # {} /\ sweep.attempt \in Nat
  BY <1>1, SweepTypes DEF InHand
<1>3. /\ DOMAIN outbox = 1 .. Len(outbox) /\ Len(outbox) \in Nat
      /\ \A m \in DOMAIN outbox : outbox[m].try \in Nat
  <2>1. \A m \in DOMAIN outbox : outbox[m] \in Message
    BY DEF TypeOK
  <2> QED
    BY <2>1, PaceAssumption DEF TypeOK, Message
<1>4. /\ \A k \in sweep.claimed : k \in told /\ Claimed(k) /\ sweep.started <= ledger[k].at
      /\ \A k \in sweep.claimed : k[1] \in UNION sweep.left => Unsettled(k) /\ ~Sent(k)
      /\ \A g \in sweep.left : g # {} /\ \A i \in g : \E k \in sweep.claimed : k[1] = i
      /\ \A g, h \in sweep.left : g # h => g \cap h = {}
  BY DEF InHand
<1>5. \A k \in sweep.group : k \in sweep.claimed /\ k[1] \notin UNION sweep.left /\ Unsettled(k)
  BY DEF InHand
<1>6. \A m \in DOMAIN outbox : outbox[m].keys \cap sweep.group # {} =>
          ~outbox[m].heard /\ outbox[m].keys = sweep.group /\ outbox[m].try < sweep.attempt
  BY <1>1, <1>2, <1>3 DEF InHand
<1>7. \A k : Unsettled(k)' <=> Unsettled(k)
  BY <1>1 DEF Unsettled, Claimed
<1>8. CASE outbox' = outbox
  <2>1. \A k : Sent(k)' <=> Sent(k)
    BY <1>8 DEF Sent
  <2>2. sweep'.message = 0
    BY <1>1, <1>8
  <2>3. sweep'.pc = "settle" \/ (sweep'.pc = "post" /\ sweep'.attempt = sweep.attempt + 1)
    BY <1>1, <1>8
  <2>4. \A m \in DOMAIN outbox : outbox[m].keys \cap sweep.group # {} =>
            outbox[m].keys = sweep.group /\ outbox[m].try < sweep.attempt + 1
    BY <1>2, <1>3, <1>6
  <2>5. \A k \in sweep.group : \A m \in DOMAIN outbox : k \in outbox[m].keys => ~outbox[m].heard
    BY <1>6
  <2> QED
    BY <1>1, <1>2, <1>4, <1>5, <1>7, <1>8, <2>1, <2>2, <2>3, <2>4, <2>5 DEF InHand, Claimed
<1>9. CASE outbox' # outbox
  <2>0. PICK n : n = Len(outbox) + 1
    OBVIOUS
  <2>1. /\ n # 0 /\ n \notin DOMAIN outbox /\ DOMAIN outbox' = DOMAIN outbox \cup {n}
        /\ \A m \in DOMAIN outbox : outbox'[m] = outbox[m]
        /\ outbox'[n].keys = sweep.group /\ outbox'[n].silent = sweep.silent
        /\ outbox'[n].day = Day(sweep.started) /\ outbox'[n].heard
        /\ outbox'[n].try = sweep.attempt /\ sweep'.attempt = sweep.attempt
        /\ sweep'.pc = "answer" /\ sweep'.message = n
    BY <1>9, <2>0, PostOutbox
  <2>2. \A k \in sweep.claimed : k[1] \in UNION sweep.left => ~Sent(k)'
    <3> SUFFICES ASSUME NEW k \in sweep.claimed, k[1] \in UNION sweep.left PROVE ~Sent(k)'
      OBVIOUS
    <3>1. ~Sent(k) /\ k \notin sweep.group
      BY <1>4, <1>5
    <3> QED
      BY <2>1, <3>1 DEF Sent
  <2>3. \A m \in DOMAIN outbox' \ {sweep'.message} : outbox'[m].keys \cap sweep.group # {} =>
            outbox'[m].keys = sweep.group /\ outbox'[m].try < sweep'.attempt
    BY <1>6, <2>1
  <2>4. \A k \in sweep.group : \A m \in DOMAIN outbox' :
            k \in outbox'[m].keys => m = sweep'.message \/ ~outbox'[m].heard
    BY <1>6, <2>1
  <2>5. /\ sweep'.message # 0 /\ sweep'.message \in DOMAIN outbox'
        /\ outbox'[sweep'.message].keys = sweep'.group
        /\ outbox'[sweep'.message].try = sweep'.attempt
        /\ outbox'[sweep'.message].heard /\ outbox'[sweep'.message].silent = sweep'.silent
        /\ outbox'[sweep'.message].day = Day(sweep'.started)
    BY <1>1, <2>1
  <2>6. sweep'.pc = "answer"
    BY <2>1
  <2> HIDE DEF Day
  <2> QED
    BY <1>1, <1>2, <1>4, <1>5, <1>7, <2>2, <2>3, <2>4, <2>5, <2>6 DEF InHand, Claimed
<1> QED
  BY <1>8, <1>9


LEMMA InHandAnswer ==
    ASSUME TypeOK, InHand, Answer
    PROVE  InHand'
<1>1. /\ UNCHANGED <<ledger, told>>
      /\ sweep.pc = "answer" /\ sweep'.pc \in {"post", "settle"}
      /\ sweep'.left = sweep.left /\ sweep'.group = sweep.group
      /\ sweep'.plan = sweep.plan /\ sweep'.claimed = sweep.claimed
      /\ sweep'.started = sweep.started /\ sweep'.silent = sweep.silent
      /\ \/ outbox' = outbox /\ sweep'.message = sweep.message /\ sweep'.pc = "settle"
         \/ /\ sweep'.message = 0
            /\ sweep'.pc = "settle" \/ (sweep'.pc = "post" /\ sweep'.attempt = sweep.attempt + 1)
  BY AnswerEffect
<1>2. /\ sweep.message \in DOMAIN outbox /\ sweep.plan = {} /\ sweep.group # {}
      /\ outbox[sweep.message].heard /\ outbox[sweep.message].silent = sweep.silent
      /\ outbox[sweep.message].day = Day(sweep.started)
      /\ outbox[sweep.message].keys = sweep.group
      /\ outbox[sweep.message].try = sweep.attempt
      /\ sweep.message # 0
  BY <1>1 DEF InHand
<1>3. /\ DOMAIN outbox' = DOMAIN outbox
      /\ \A m \in DOMAIN outbox :
            /\ outbox'[m].keys = outbox[m].keys /\ outbox'[m].try = outbox[m].try
            /\ outbox'[m].heard => outbox[m].heard /\ (sweep'.message = sweep.message \/ m # sweep.message)
  BY AnswerOutbox
<1>4. \A k \in sweep'.claimed : k \in told' /\ Claimed(k)' /\ sweep'.started <= ledger'[k].at
  BY <1>1 DEF InHand, Claimed
<1>5. \A k : (Unsettled(k)' <=> Unsettled(k)) /\ (Sent(k)' <=> Sent(k))
  BY <1>1, <1>3 DEF Unsettled, Claimed, Sent
<1>6. \A k \in sweep'.claimed : k[1] \in UNION sweep'.left => Unsettled(k)' /\ ~Sent(k)'
  BY <1>1, <1>5 DEF InHand
<1>7. \A k \in sweep'.group :
          /\ k \in sweep'.claimed /\ k[1] \notin UNION sweep'.left /\ Unsettled(k)'
          /\ \A m \in DOMAIN outbox' : k \in outbox'[m].keys => m = sweep'.message \/ ~outbox'[m].heard
  <2> SUFFICES ASSUME NEW k \in sweep.group
               PROVE  /\ k \in sweep.claimed /\ k[1] \notin UNION sweep.left /\ Unsettled(k)'
                      /\ \A m \in DOMAIN outbox :
                            k \in outbox'[m].keys => m = sweep'.message \/ ~outbox'[m].heard
    BY <1>1, <1>3
  <2>1. /\ k \in sweep.claimed /\ k[1] \notin UNION sweep.left /\ Unsettled(k)
        /\ \A m \in DOMAIN outbox : k \in outbox[m].keys => m = sweep.message \/ ~outbox[m].heard
    BY DEF InHand
  <2> QED
    BY <1>3, <1>5, <2>1
<1>8. sweep'.pc = "settle" /\ sweep'.message # 0 =>
          /\ sweep'.message \in DOMAIN outbox'
          /\ outbox'[sweep'.message].heard /\ outbox'[sweep'.message].silent = sweep'.silent
          /\ outbox'[sweep'.message].day = Day(sweep'.started)
  BY <1>1, <1>2
<1>9. /\ \A g \in sweep'.left : g # {} /\ \A i \in g : \E k \in sweep'.claimed : k[1] = i
      /\ \A g, h \in sweep'.left : g # h => g \cap h = {}
  BY <1>1 DEF InHand
<1>10. sweep'.pc = "post" =>
          /\ sweep'.message = 0
          /\ \A m \in DOMAIN outbox' : outbox'[m].keys \cap sweep'.group # {} =>
                outbox'[m].keys = sweep'.group /\ outbox'[m].try < sweep'.attempt
  <2> SUFFICES ASSUME sweep'.pc = "post", NEW m \in DOMAIN outbox,
                      outbox[m].keys \cap sweep.group # {}
               PROVE  outbox[m].keys = sweep.group /\ outbox[m].try < sweep'.attempt
    BY <1>1, <1>3
  <2>1. sweep'.attempt = sweep.attempt + 1 /\ sweep.attempt \in Nat
    BY <1>1, SweepTypes
  <2>2. outbox[m].try \in Nat
    <3>1. outbox[m] \in Message
      BY MessageType
    <3> QED
      BY <3>1, PaceAssumption DEF Message
  <2>3. CASE m = sweep.message
    BY <1>2, <2>1, <2>3
  <2>4. CASE m # sweep.message
    <3>1. outbox[m].keys = sweep.group /\ outbox[m].try < sweep.attempt
      BY <1>1, <2>4 DEF InHand
    <3> QED
      BY <2>1, <2>2, <3>1
  <2> QED
    BY <2>3, <2>4
<1> QED
  BY <1>1, <1>2, <1>4, <1>6, <1>7, <1>8, <1>9, <1>10 DEF InHand

LEMMA InHandSettle ==
    ASSUME TypeOK, TypeOK', InHand, Settle
    PROVE  InHand'
<1>1. PICK k \in sweep.group :
              /\ UNCHANGED <<outbox, told>>
              /\ sweep.pc = "settle"
              /\ sweep'.pc = (IF sweep.group = {k} THEN "send" ELSE "settle")
              /\ sweep'.group = sweep.group \ {k} /\ sweep'.left = sweep.left
              /\ sweep'.plan = sweep.plan /\ sweep'.claimed = sweep.claimed
              /\ sweep'.started = sweep.started /\ sweep'.silent = sweep.silent
              /\ sweep'.message = sweep.message
              /\ \A j \in Key \ {k} : ledger'[j] = ledger[j]
              /\ ledger'[k].at = ledger[k].at
  BY SettleEffect
<1>2. k \in Key /\ k[1] \notin UNION sweep.left /\ sweep.plan = {}
  BY <1>1 DEF InHand, TypeOK, Sweep
<1>3. \A j \in sweep'.claimed : j \in told' /\ Claimed(j)' /\ sweep'.started <= ledger'[j].at
  <2> SUFFICES ASSUME NEW j \in sweep.claimed
               PROVE  j \in told /\ Claimed(j)' /\ sweep.started <= ledger'[j].at
    BY <1>1
  <2>1. j \in Key /\ ledger'[j].at = ledger[j].at
    BY <1>1 DEF TypeOK, Sweep
  <2> QED
    BY <2>1 DEF InHand, Claimed
<1>4. \A j \in Key : j # k => (Unsettled(j)' <=> Unsettled(j))
  BY <1>1 DEF Unsettled, Claimed
<1>5. \A j : Sent(j)' <=> Sent(j)
  BY <1>1 DEF Sent
<1>6. \A j \in sweep'.claimed : j[1] \in UNION sweep'.left => Unsettled(j)' /\ ~Sent(j)'
  <2> SUFFICES ASSUME NEW j \in sweep.claimed, j[1] \in UNION sweep.left
               PROVE  Unsettled(j)' /\ ~Sent(j)'
    BY <1>1
  <2>1. j \in Key /\ j # k /\ Unsettled(j) /\ ~Sent(j)
    BY <1>2 DEF InHand, TypeOK, Sweep
  <2> QED
    BY <1>4, <1>5, <2>1
<1>7. \A j \in sweep'.group :
          /\ j \in sweep'.claimed /\ j[1] \notin UNION sweep'.left /\ Unsettled(j)'
          /\ \A m \in DOMAIN outbox' : j \in outbox'[m].keys => m = sweep'.message \/ ~outbox'[m].heard
  <2> SUFFICES ASSUME NEW j \in sweep.group, j # k
               PROVE  /\ j \in sweep.claimed /\ j[1] \notin UNION sweep.left /\ Unsettled(j)'
                      /\ \A m \in DOMAIN outbox :
                            j \in outbox[m].keys => m = sweep.message \/ ~outbox[m].heard
    BY <1>1
  <2>1. j \in Key
    BY DEF TypeOK, Sweep
  <2> QED
    BY <1>4, <2>1 DEF InHand
<1>8. /\ \A g \in sweep'.left : g # {} /\ \A i \in g : \E j \in sweep'.claimed : j[1] = i
      /\ \A g, h \in sweep'.left : g # h => g \cap h = {}
  BY <1>1 DEF InHand
<1>9. /\ sweep'.pc \in {"send", "settle"}
      /\ sweep'.pc = "settle" <=> sweep'.group # {}
  BY <1>1
<1>10. sweep'.message # 0 =>
          /\ sweep'.message \in DOMAIN outbox'
          /\ outbox'[sweep'.message].heard /\ outbox'[sweep'.message].silent = sweep'.silent
          /\ outbox'[sweep'.message].day = Day(sweep'.started)
  BY <1>1 DEF InHand
<1> QED
  BY <1>1, <1>2, <1>3, <1>6, <1>7, <1>8, <1>9, <1>10 DEF InHand

LEMMA InHandStep ==
    ASSUME TypeOK, TypeOK', Pace, Remembered, Kept, InHand, [Next]_vars
    PROVE  InHand'
<1>1. CASE UNCHANGED vars \/ \E i \in Item : Happens(i) \/ Ends(i)
  <2>1. UNCHANGED <<ledger, outbox, told, sweep>>
    BY <1>1 DEF vars, Happens, Ends
  <2> QED
    BY <2>1, InHandSame
<1>2. CASE Tick \/ Start \/ SwitchOn \/ SwitchOff \/ SaveSettings \/ Crash
  <2>1. /\ UNCHANGED <<ledger, outbox, told>>
        /\ \/ sweep' = sweep
           \/ /\ sweep'.pc = "idle" /\ sweep'.plan = {} /\ sweep'.claimed = {}
              /\ sweep'.left = {} /\ sweep'.group = {}
    BY <1>2, WorldEffect
  <2>2. CASE sweep' = sweep
    BY <2>1, <2>2, InHandSame
  <2>3. CASE sweep'.pc = "idle" /\ sweep'.plan = {} /\ sweep'.claimed = {}
              /\ sweep'.left = {} /\ sweep'.group = {}
    BY <2>3 DEF InHand
  <2> QED
    BY <2>1, <2>2, <2>3
<1>3. CASE Begin
  <2>1. /\ sweep'.claimed = {} /\ sweep'.left = {} /\ sweep'.group = {}
        /\ sweep'.pc \in {"idle", "claim"} /\ (sweep'.pc = "idle" => sweep'.plan = {})
    BY <1>3, BeginEffect
  <2> QED
    BY <2>1 DEF InHand
<1> QED
  BY <1>1, <1>2, <1>3, InHandClaim, InHandEnd, InHandSend, InHandPost, InHandAnswer, InHandSettle DEF Next


-----------------------------------------------------------------------------
(* What was said is remembered, and is said once.                            *)

\* Only a post and its answer touch what Telegram has.
LEMMA OutboxSame ==
    ASSUME TypeOK, Pace, [Next]_vars
    PROVE  Post \/ Answer \/ outbox' = outbox
<1>1. CASE UNCHANGED vars \/ \E i \in Item : Happens(i) \/ Ends(i)
  BY <1>1 DEF vars, Happens, Ends
<1>2. CASE Tick \/ Start \/ SwitchOn \/ SwitchOff \/ SaveSettings \/ Crash
  BY <1>2, WorldEffect
<1>3. Begin => outbox' = outbox
  BY DEF Begin
<1>4. ClaimNext => outbox' = outbox
  BY SMTT(30) DEF ClaimNext
<1>5. EndClaims \/ Send \/ Settle \/ EndSweep => outbox' = outbox
  BY DEF EndClaims, Send, Settle, EndSweep
<1> QED
  BY <1>1, <1>2, <1>3, <1>4, <1>5, Zenon DEF Next

LEMMA SaidOnceStep ==
    ASSUME TypeOK, Pace, InHand, SaidOnce, [Next]_vars
    PROVE  SaidOnce'
<1>1. CASE outbox' = outbox
  BY <1>1 DEF SaidOnce
<1>2. CASE Answer
  BY <1>2, AnswerOutbox DEF SaidOnce
<1>3. CASE Post /\ outbox' # outbox
  <2>0. PICK n : n = Len(outbox) + 1
    OBVIOUS
  <2>1. /\ DOMAIN outbox = 1 .. Len(outbox) /\ Len(outbox) \in Nat
        /\ n \notin DOMAIN outbox /\ DOMAIN outbox' = DOMAIN outbox \cup {n}
        /\ \A m \in DOMAIN outbox : outbox'[m] = outbox[m]
        /\ outbox'[n].keys = sweep.group /\ outbox'[n].try = sweep.attempt
    BY <1>3, <2>0, PostOutbox
  <2>2. sweep.pc = "post" /\ sweep.message = 0
    BY <1>3, PostEffect DEF InHand
  <2>3. \A m \in DOMAIN outbox : outbox[m].keys \cap sweep.group # {} =>
            ~outbox[m].heard /\ outbox[m].keys = sweep.group /\ outbox[m].try < sweep.attempt
    BY <2>1, <2>2 DEF InHand
  <2> SUFFICES ASSUME NEW l \in DOMAIN outbox', NEW m \in DOMAIN outbox',
                      l < m, outbox'[l].keys \cap outbox'[m].keys # {}
               PROVE  /\ ~outbox'[l].heard
                      /\ outbox'[l].keys = outbox'[m].keys /\ outbox'[l].try < outbox'[m].try
    BY DEF SaidOnce
  <2>4. l \in DOMAIN outbox
    BY <2>0, <2>1
  <2>5. CASE m = n
    BY <2>1, <2>3, <2>4, <2>5
  <2>6. CASE m \in DOMAIN outbox
    BY <2>1, <2>4, <2>6 DEF SaidOnce
  <2> QED
    BY <2>1, <2>5, <2>6
<1> QED
  BY <1>1, <1>2, <1>3, OutboxSame

LEMMA KeptFrame ==
    ASSUME TypeOK, TypeOK', Pace, Kept, outbox' = outbox, told \subseteq told',
           Instant <= Instant',
           \A m \in DOMAIN outbox : \A k \in outbox[m].keys :
              /\ ~outbox[m].silent /\ outbox[m].heard
              /\ outbox[m].day = Day(Instant') /\ Counts(k, m)
              => Counts(k, m)'
    PROVE  Kept'
<1>1. Instant \in Nat
  BY Timely
<1>2. PICK t \in Nat : t = Instant'
  BY PaceAssumption DEF TypeOK, Instant, Time, Sweep
<1>3. Day(Instant) \in Nat /\ Day(t) \in Nat /\ Day(Instant) <= Day(t)
  BY <1>1, <1>2, DayType, DayMono
<1> SUFFICES ASSUME NEW m \in DOMAIN outbox
             PROVE  /\ outbox[m].keys # {} /\ outbox[m].keys \subseteq told'
                    /\ outbox[m].day <= Day(t)
                    /\ ~outbox[m].silent /\ outbox[m].heard =>
                          Day(t) > outbox[m].day \/ \A k \in outbox[m].keys : Counts(k, m)'
  BY <1>2 DEF Kept
<1>4. outbox[m].day \in Nat
  <2>1. outbox \in Seq(Message)
    BY DEF TypeOK
  <2>2. outbox[m] \in Message
    BY <2>1
  <2> QED
    BY <2>2 DEF Message
<1>5. /\ outbox[m].keys # {} /\ outbox[m].keys \subseteq told
      /\ outbox[m].day <= Day(Instant)
      /\ ~outbox[m].silent /\ outbox[m].heard =>
            Day(Instant) > outbox[m].day \/ \A k \in outbox[m].keys : Counts(k, m)
  BY DEF Kept
<1>6. outbox[m].day <= Day(t)
  BY <1>3, <1>4, <1>5
<1>7. Day(Instant) > outbox[m].day => Day(t) > outbox[m].day
  BY <1>3, <1>4
<1>8. ~(Day(t) > outbox[m].day) => outbox[m].day = Day(t)
  BY <1>3, <1>4, <1>6
<1>9. ~(Day(t) > outbox[m].day) => outbox[m].day = Day(Instant')
  BY <1>2, <1>8
<1> QED
  BY <1>5, <1>6, <1>7, <1>9


LEMMA KeptInit == Init => Kept
<1> SUFFICES ASSUME Init PROVE Kept
  OBVIOUS
<1>1. DOMAIN outbox = {}
  BY DEF Init
<1> QED
  BY <1>1 DEF Kept

\* The ledger collects no row of a message of today.
LEMMA CountsForget ==
    ASSUME TypeOK, Pace, Remembered, sweep.pc # "idle", NEW m \in DOMAIN outbox, NEW k \in outbox[m].keys,
           UNCHANGED outbox,
           ledger' = [j \in Key |-> IF Expired(j) THEN NoRow ELSE ledger[j]],
           outbox[m].day = Day(now), Counts(k, m)
    PROVE  Counts(k, m)'
<1>1. k \in Key /\ outbox[m].day \in Nat
  BY MessageType
<1>2. now \in Nat /\ Retention \in Nat /\ DayLength \in Nat /\ DayLength <= Retention
  BY PaceAssumption, LedgerAssumption DEF TypeOK, Time
<1>3. ledger[k].at \in Int
  <2>1. ledger[k] \in Row
    BY <1>1 DEF TypeOK
  <2> QED
    BY <2>1, PaceAssumption DEF Row, Time, Never
<1>4. ~Expired(k)
  <2> SUFFICES ASSUME ledger[k].at < sweep.started - Retention PROVE FALSE
    BY DEF Expired
  <2>0. sweep.started \in Nat /\ sweep.started <= now
    BY Timely DEF Instant
  <2>1. outbox[m].day * DayLength <= ledger[k].at /\ outbox[m].day * DayLength \in Int
    BY <1>1, <1>2 DEF Counts
  <2>2. outbox[m].day * DayLength + DayLength <= now
    BY <1>2, <1>3, <2>0, <2>1
  <2>3. Day(now) > outbox[m].day
    BY <1>1, <1>2, <2>2, DayPast
  <2> QED
    BY <1>1, <2>3
<1>5. ledger'[k] = ledger[k]
  BY <1>1, <1>4
<1> QED
  BY <1>5 DEF Counts, Claimed

\* A row of a message that made a sound is settled as part of it.
LEMMA CountsSettle ==
    ASSUME TypeOK, InHand, Settle, NEW m \in DOMAIN outbox, NEW k \in outbox[m].keys,
           ~outbox[m].silent, outbox[m].heard, Counts(k, m)
    PROVE  Counts(k, m)'
<1>1. PICK j \in sweep.group :
              /\ outbox' = outbox /\ sweep.pc = "settle"
              /\ \A i \in Key \ {j} : ledger'[i] = ledger[i]
              /\ ledger'[j].at = ledger[j].at /\ ledger'[j].settled
              /\ ledger'[j].ok = (sweep.message # 0)
              /\ ledger'[j].silent = sweep.silent /\ ledger'[j].message = sweep.message
  BY SettleEffect
<1>2. k \in Key /\ m # 0
  <2>1. DOMAIN outbox = 1 .. Len(outbox)
    BY DEF TypeOK
  <2> QED
    BY <2>1, MessageType
<1>3. CASE k # j
  <2>1. ledger'[k] = ledger[k]
    BY <1>1, <1>2, <1>3
  <2> QED
    BY <1>1, <2>1 DEF Counts, Claimed
<1>4. CASE k = j
  <2>1. m = sweep.message
    BY <1>1, <1>4 DEF InHand
  <2>2. ~sweep.silent
    BY <1>1, <1>2, <2>1 DEF InHand
  <2>3. ledger'[k].ok /\ ~ledger'[k].silent /\ ledger'[k].message = m
    BY <1>1, <1>2, <1>4, <2>1, <2>2
  <2>4. ledger'[k].at = ledger[k].at
    BY <1>1, <1>4
  <2> QED
    BY <1>1, <2>3, <2>4 DEF Counts, Claimed
<1> QED
  BY <1>3, <1>4

LEMMA KeptPost ==
    ASSUME TypeOK, TypeOK', Pace, InHand, InHand', Kept, Post, outbox' # outbox
    PROVE  Kept'
<1>0. PICK n : n = Len(outbox) + 1
  OBVIOUS
<1>1. /\ n \notin DOMAIN outbox /\ DOMAIN outbox' = DOMAIN outbox \cup {n}
      /\ \A m \in DOMAIN outbox : outbox'[m] = outbox[m]
      /\ outbox'[n].keys = sweep'.group /\ sweep'.group = sweep.group
      /\ outbox'[n].day = Day(sweep.started) /\ sweep'.pc = "answer"
  BY <1>0, PostOutbox, PostEffect
<1>2. /\ UNCHANGED <<ledger, told>> /\ sweep.pc = "post" /\ sweep'.started = sweep.started
  BY PostEffect
<1>3. Instant = sweep.started /\ Instant' = Instant
  BY <1>1, <1>2 DEF Instant
<1>4. sweep.started \in Nat /\ Day(sweep.started) \in Nat
      /\ Day(sweep.started) * DayLength <= sweep.started
  BY <1>3, Timely, DayType, DayLow
<1>5. ASSUME NEW k \in sweep'.group
      PROVE  k \in told /\ Counts(k, n)'
  <2>1. /\ k \in sweep'.claimed /\ Unsettled(k)' /\ k \in told'
        /\ sweep'.started <= ledger'[k].at
    BY <1>5 DEF InHand
  <2>2. k \in Key
    BY <1>5 DEF TypeOK, Sweep
  <2>3. ledger'[k].at \in Int
    <3>1. ledger'[k] \in Row
      BY <2>2 DEF TypeOK
    <3> QED
      BY <3>1, PaceAssumption DEF Row, Time, Never
  <2>4. Day(sweep.started) * DayLength \in Int
    BY <1>4, PaceAssumption
  <2>5. outbox'[n].day * DayLength <= ledger'[k].at
    BY <1>1, <1>2, <1>4, <2>1, <2>3, <2>4
  <2> QED
    BY <1>2, <2>1, <2>5 DEF Counts, Unsettled, Claimed
<1>6. sweep'.group # {}
  BY <1>1 DEF InHand
<1> SUFFICES ASSUME NEW m \in DOMAIN outbox'
             PROVE  /\ outbox'[m].keys # {} /\ outbox'[m].keys \subseteq told'
                    /\ outbox'[m].day <= Day(sweep.started)
                    /\ ~outbox'[m].silent /\ outbox'[m].heard =>
                          \/ Day(sweep.started) > outbox'[m].day
                          \/ \A k \in outbox'[m].keys : Counts(k, m)'
  BY <1>3 DEF Kept
<1>7. CASE m = n
  BY <1>1, <1>2, <1>4, <1>5, <1>6, <1>7
<1>8. CASE m \in DOMAIN outbox
  <2>1. \A k : Counts(k, m) => Counts(k, m)'
    BY <1>1, <1>2, <1>8 DEF Counts, Claimed
  <2> QED
    BY <1>1, <1>2, <1>3, <1>8, <2>1 DEF Kept
<1> QED
  BY <1>1, <1>7, <1>8

LEMMA KeptAnswer ==
    ASSUME TypeOK, Pace, InHand, Kept, Answer
    PROVE  Kept'
<1>1. /\ UNCHANGED <<ledger, told>> /\ sweep.pc = "answer" /\ sweep'.pc # "idle"
      /\ sweep'.started = sweep.started
  BY AnswerEffect
<1>2. Instant' = Instant
  BY <1>1 DEF Instant
<1>3. /\ DOMAIN outbox' = DOMAIN outbox
      /\ \A m \in DOMAIN outbox :
            /\ outbox'[m].keys = outbox[m].keys /\ outbox'[m].silent = outbox[m].silent
            /\ outbox'[m].day = outbox[m].day
            /\ outbox'[m].heard => outbox[m].heard
  BY AnswerOutbox
<1>4. \A m \in DOMAIN outbox : \A k : Counts(k, m) => Counts(k, m)'
  BY <1>1, <1>3 DEF Counts, Claimed
<1> SUFFICES ASSUME NEW m \in DOMAIN outbox
             PROVE  /\ outbox'[m].keys # {} /\ outbox'[m].keys \subseteq told
                    /\ outbox'[m].day <= Day(Instant)
                    /\ ~outbox'[m].silent /\ outbox'[m].heard =>
                          \/ Day(Instant) > outbox'[m].day
                          \/ \A k \in outbox'[m].keys : Counts(k, m)'
  BY <1>1, <1>2, <1>3 DEF Kept
<1>5. /\ outbox[m].keys # {} /\ outbox[m].keys \subseteq told
      /\ outbox[m].day <= Day(Instant)
      /\ ~outbox[m].silent /\ outbox[m].heard =>
            \/ Day(Instant) > outbox[m].day
            \/ \A k \in outbox[m].keys : Counts(k, m)
  BY DEF Kept
<1> QED
  BY <1>3, <1>4, <1>5

LEMMA KeptStep ==
    ASSUME TypeOK, TypeOK', Pace, Pace', Remembered, InHand, InHand', Kept, [Next]_vars
    PROVE  Kept'
<1>1. now \in Nat /\ Instant \in Nat /\ Instant <= now
  BY Timely
<1>2. \A m, k : ledger' = ledger /\ outbox' = outbox /\ Counts(k, m) => Counts(k, m)'
  BY DEF Counts, Claimed
<1>3. CASE UNCHANGED vars \/ \E i \in Item : Happens(i) \/ Ends(i)
  <2>1. UNCHANGED <<now, ledger, outbox, told, sweep>>
    BY <1>3 DEF vars, Happens, Ends
  <2>2. Instant <= Instant'
    BY <1>1, <2>1 DEF Instant
  <2> QED
    BY <1>2, <2>1, <2>2, KeptFrame
<1>4. CASE Tick \/ Start \/ SwitchOn \/ SwitchOff \/ SaveSettings \/ Crash
  <2>1. /\ UNCHANGED <<ledger, outbox, told>> /\ now <= now'
        /\ sweep' = sweep \/ sweep'.pc = "idle"
    BY <1>4, WorldEffect
  <2>2. Instant <= Instant'
    <3>1. now' \in Nat
      BY PaceAssumption DEF TypeOK, Time
    <3>2. CASE sweep' = sweep
      BY <1>1, <2>1, <3>1, <3>2 DEF Instant
    <3>3. CASE sweep'.pc = "idle"
      BY <1>1, <2>1, <3>1, <3>3 DEF Instant
    <3> QED
      BY <2>1, <3>2, <3>3
  <2> QED
    BY <1>2, <2>1, <2>2, KeptFrame
<1>5. CASE Begin
  <2>1. /\ UNCHANGED <<now, ledger, outbox, told>> /\ sweep.pc = "idle"
        /\ sweep'.pc = "idle" \/ (sweep'.pc = "claim" /\ sweep'.started = now)
    BY <1>5, BeginEffect
  <2>2. Instant <= Instant'
    BY <1>1, <2>1 DEF Instant
  <2> QED
    BY <1>2, <2>1, <2>2, KeptFrame
<1>6. CASE ClaimNext
  <2>1. PICK k \in sweep.plan :
              /\ UNCHANGED <<now, outbox>> /\ told' = told \cup {k}
              /\ sweep.pc = "claim" /\ sweep'.pc = "claim" /\ sweep'.started = sweep.started
              /\ \/ ledger' = ledger
                 \/ ~Claimed(k) /\ ledger' = [ledger EXCEPT ![k] = [NoRow EXCEPT !.at = now]]
    BY <1>6, ClaimEffect
  <2>2. Instant <= Instant'
    BY <1>1, <2>1 DEF Instant
  <2>3. \A m \in DOMAIN outbox : \A j \in outbox[m].keys : Counts(j, m) => Counts(j, m)'
    <3> SUFFICES ASSUME NEW m \in DOMAIN outbox, NEW j \in outbox[m].keys, Counts(j, m)
                 PROVE  Counts(j, m)'
      OBVIOUS
    <3>1. j \in Key /\ Claimed(j)
      BY MessageType DEF Counts
    <3>2. ledger'[j] = ledger[j]
      BY <2>1, <3>1 DEF TypeOK
    <3> QED
      BY <2>1, <3>2 DEF Counts, Claimed
  <2>4. outbox' = outbox /\ told \subseteq told'
    BY <2>1
  <2> QED
    BY <2>2, <2>3, <2>4, KeptFrame
<1>7. CASE EndClaims \/ EndSweep
  <2>1. /\ UNCHANGED <<now, outbox, told>> /\ sweep.pc # "idle"
        /\ \/ /\ ledger' = [k \in Key |-> IF Expired(k) THEN NoRow ELSE ledger[k]]
              /\ sweep'.pc = "idle"
           \/ ledger' = ledger /\ sweep'.pc = "send" /\ sweep'.started = sweep.started
    BY <1>7, EndEffect
  <2>2. CASE sweep'.pc = "idle"
    <3>1. Instant' = now /\ Instant <= Instant'
      BY <1>1, <2>1, <2>2 DEF Instant
    <3>2. \A m \in DOMAIN outbox : \A k \in outbox[m].keys :
              /\ ~outbox[m].silent /\ outbox[m].heard
              /\ outbox[m].day = Day(Instant') /\ Counts(k, m)
              => Counts(k, m)'
      BY <2>1, <2>2, <3>1, CountsForget
    <3> QED
      BY <2>1, <3>1, <3>2, KeptFrame
  <2>3. CASE sweep'.pc = "send"
    <3>1. Instant <= Instant'
      BY <1>1, <2>1, <2>3 DEF Instant
    <3>2. ledger' = ledger /\ outbox' = outbox /\ told' = told
      BY <2>1, <2>3
    <3> QED
      BY <1>2, <3>1, <3>2, KeptFrame
  <2> QED
    BY <2>1, <2>2, <2>3
<1>8. CASE Send \/ Post
  <2>1. CASE outbox' = outbox
    <3>1. /\ UNCHANGED <<ledger, told>> /\ sweep.pc # "idle" /\ sweep'.pc # "idle"
          /\ sweep'.started = sweep.started
      BY <1>8, SendEffect, PostEffect
    <3>2. Instant <= Instant'
      BY <1>1, <3>1 DEF Instant
    <3> QED
      BY <1>2, <2>1, <3>1, <3>2, KeptFrame
  <2>2. CASE outbox' # outbox
    <3>1. Post
      BY <1>8, <2>2, SendEffect
    <3> QED
      BY <2>2, <3>1, KeptPost
  <2> QED
    BY <2>1, <2>2
<1>9. CASE Answer
  BY <1>9, KeptAnswer
<1>10. CASE Settle
  <2>1. /\ UNCHANGED <<outbox, told>> /\ sweep.pc # "idle" /\ sweep'.pc # "idle"
        /\ sweep'.started = sweep.started
    BY <1>10, SettleEffect
  <2>2. Instant <= Instant'
    BY <1>1, <2>1 DEF Instant
  <2>3. \A m \in DOMAIN outbox : \A k \in outbox[m].keys :
              ~outbox[m].silent /\ outbox[m].heard /\ Counts(k, m) => Counts(k, m)'
    BY <1>10, CountsSettle
  <2> QED
    BY <2>1, <2>2, <2>3, KeptFrame
<1> QED
  BY <1>3, <1>4, <1>5, <1>6, <1>7, <1>8, <1>9, <1>10 DEF Next


-----------------------------------------------------------------------------
(* The ceiling.                                                              *)

LEMMA LoudFinite ==
    ASSUME TypeOK, NEW d
    PROVE  /\ IsFiniteSet(Loud(d)) /\ Cardinality(Loud(d)) \in Nat
           /\ Loud(d) \subseteq DOMAIN outbox
<1>1. DOMAIN outbox = 1 .. Len(outbox) /\ Len(outbox) \in Nat
  BY DEF TypeOK
<1>2. IsFiniteSet(DOMAIN outbox)
  BY <1>1, FS_Interval
<1>3. Loud(d) \in SUBSET DOMAIN outbox
  BY DEF Loud
<1> QED
  BY <1>2, <1>3, FS_Subset, FS_CardinalityType

\* Every message of today that made a sound is counted, by one of its rows: once
\* settled for the message, and for itself until then.
LEMMA NoneUncounted ==
    ASSUME TypeOK, Pace, Kept, SaidOnce, sweep.pc = "idle"
    PROVE  Cardinality(Loud(Day(now))) <= LoudSince(Midnight(now))
<1> DEFINE d == Day(now)
           stamp == Midnight(now)
           rows == {k \in Key : Claimed(k) /\ ledger[k].at >= stamp /\ ~ledger[k].silent}
           out == {r \in rows : ledger[r].ok}
           messages == {ledger[k].message : k \in out}
           waiting == {k \in rows : ~ledger[k].settled}
           A == {m \in Loud(d) : \E k \in outbox[m].keys : ledger[k].settled}
           B == {m \in Loud(d) : \A k \in outbox[m].keys : ~ledger[k].settled}
           row == [m \in B |-> CHOOSE k : k \in outbox[m].keys]
           message == [k \in out |-> ledger[k].message]
<1>1. now \in Nat /\ d \in Nat /\ stamp = d * DayLength
  <2>1. now \in Nat
    BY PaceAssumption DEF TypeOK, Time
  <2> QED
    BY <2>1, DayType DEF Midnight
<1>2. LoudSince(Midnight(now)) = Cardinality(messages) + Cardinality(waiting)
  BY DEF LoudSince
<1>3. \A m \in Loud(d) : /\ m \in DOMAIN outbox
                         /\ \E k : k \in outbox[m].keys
                         /\ \A k \in outbox[m].keys :
                              /\ k \in rows
                              /\ ledger[k].settled => k \in out /\ ledger[k].message = m
  <2> SUFFICES ASSUME NEW m \in Loud(d)
               PROVE  /\ m \in DOMAIN outbox
                      /\ \E k : k \in outbox[m].keys
                      /\ \A k \in outbox[m].keys :
                              /\ k \in rows
                              /\ ledger[k].settled => ledger[k].ok /\ ledger[k].message = m
    OBVIOUS
  <2>1. m \in DOMAIN outbox /\ ~outbox[m].silent /\ outbox[m].heard /\ outbox[m].day = d
    BY DEF Loud
  <2>2. outbox[m].keys \subseteq Key
    BY <2>1, MessageType
  <2>3. Instant = now
    BY DEF Instant
  <2>4. outbox[m].keys # {} /\ \A k \in outbox[m].keys : Counts(k, m)
    BY <1>1, <2>1, <2>3 DEF Kept
  <2>5. \A k \in outbox[m].keys : /\ Claimed(k) /\ stamp <= ledger[k].at /\ ~ledger[k].silent
                                  /\ ledger[k].settled => ledger[k].ok /\ ledger[k].message = m
    BY <1>1, <2>1, <2>4 DEF Counts
  <2>6. \A k \in Key : ledger[k].at \in Int
    <3>1. \A k \in Key : ledger[k] \in Row
      BY DEF TypeOK
    <3> QED
      BY <3>1, PaceAssumption DEF Row, Time, Never
  <2>7. stamp \in Int
    BY <1>1, PaceAssumption
  <2> HIDE DEF d, stamp
  <2>8. \A k \in outbox[m].keys : ledger[k].at >= stamp
    BY <2>2, <2>5, <2>6, <2>7
  <2>9. \A k \in outbox[m].keys : k \in rows
    BY <2>2, <2>5, <2>8
  <2> QED
    BY <2>1, <2>4, <2>5, <2>9
<1>4. IsFiniteSet(messages) /\ IsFiniteSet(waiting)
  <2>1. out \in SUBSET Key /\ waiting \in SUBSET Key /\ message \in Surjection(out, messages)
    BY DEF Surjection
  <2> HIDE DEF out, waiting, messages, message
  <2>2. IsFiniteSet(out) /\ IsFiniteSet(waiting)
    BY <2>1, KeyFacts, FS_Subset
  <2> QED
    BY <2>1, <2>2, FS_Surjection
<1>5. IsFiniteSet(A) /\ IsFiniteSet(B)
  <2>1. A \in SUBSET Loud(d) /\ B \in SUBSET Loud(d)
    OBVIOUS
  <2> HIDE DEF A, B, d
  <2> QED
    BY <2>1, LoudFinite, FS_Subset
<1>6. Cardinality(A) <= Cardinality(messages)
  <2>1. A \subseteq messages
    <3> SUFFICES ASSUME NEW m \in A PROVE \E k \in out : ledger[k].message = m
      OBVIOUS
    <3>1. PICK k \in outbox[m].keys : ledger[k].settled
      OBVIOUS
    <3>2. m \in Loud(d)
      OBVIOUS
    <3> HIDE DEF out, A, rows, d
    <3> QED
      BY <1>3, <3>1, <3>2
  <2> HIDE DEF A, messages
  <2> QED
    BY <1>4, <2>1, FS_Subset
<1>7. Cardinality(B) <= Cardinality(waiting)
  <2>1. \A m \in B : row[m] \in outbox[m].keys
    <3>1. \A m \in B : \E k : k \in outbox[m].keys
      BY <1>3
    <3> QED
      BY <3>1
  <2>2. \A m \in B : row[m] \in waiting
    <3>1. \A m \in B : m \in Loud(d) /\ ~ledger[row[m]].settled
      BY <2>1
    <3> HIDE DEF B, row, rows
    <3> QED
      BY <1>3, <2>1, <3>1
  <2>3. \A m, n \in B : row[m] = row[n] => m = n
    <3>1. \A m \in B : m \in DOMAIN outbox /\ outbox[m].heard /\ m \in Nat
      <4>1. DOMAIN outbox = 1 .. Len(outbox)
        BY DEF TypeOK
      <4>2. \A m \in B : m \in DOMAIN outbox /\ outbox[m].heard
        BY <1>3 DEF Loud
      <4> HIDE DEF B
      <4> QED
        BY <4>1, <4>2
    <3> HIDE DEF B, row
    <3>2. ASSUME NEW m \in B, NEW n \in B, row[m] = row[n] PROVE ~(m < n)
      BY <2>1, <3>1, <3>2 DEF SaidOnce
    <3>3. ASSUME NEW m \in B, NEW n \in B, row[m] = row[n] PROVE m = n
      BY <3>1, <3>2, <3>3
    <3> QED
      BY <3>3
  <2>4. row \in [B -> waiting]
    <3> HIDE DEF waiting, B
    <3> QED
      BY <2>2
  <2> HIDE DEF B, waiting, row
  <2>5. row \in Injection(B, waiting)
    BY <2>3, <2>4 DEF Injection, IsInjective
  <2> QED
    BY <1>4, <2>5, FS_Injection
<1>8. Cardinality(Loud(d)) = Cardinality(A) + Cardinality(B)
  <2>1. Loud(d) = A \cup B /\ A \cap B = {}
    OBVIOUS
  <2> HIDE DEF A, B, d
  <2>2. Cardinality(A) \in Nat /\ Cardinality(B) \in Nat
    BY <1>5, FS_CardinalityType
  <2>3. Cardinality(A \cap B) = 0
    BY <2>1, FS_EmptySet
  <2>4. Cardinality(A \cup B) = Cardinality(A) + Cardinality(B) - Cardinality(A \cap B)
    BY <1>5, FS_Union
  <2> QED
    BY <2>1, <2>2, <2>3, <2>4
<1>9. /\ Cardinality(A) \in Nat /\ Cardinality(B) \in Nat
      /\ Cardinality(messages) \in Nat /\ Cardinality(waiting) \in Nat
  <2> HIDE DEF A, B, messages, waiting
  <2> QED
    BY <1>4, <1>5, FS_CardinalityType
<1> HIDE DEF A, B, messages, waiting
<1> QED
  BY <1>2, <1>6, <1>7, <1>8, <1>9

LEMMA LoudPost ==
    ASSUME TypeOK, Post, outbox' # outbox, NEW d
    PROVE  Cardinality(Loud(d)') = IF ~sweep.silent /\ d = Day(sweep.started)
                                   THEN Cardinality(Loud(d)) + 1 ELSE Cardinality(Loud(d))
<1>0. PICK n : n = Len(outbox) + 1
  OBVIOUS
<1>1. /\ n \notin DOMAIN outbox /\ DOMAIN outbox' = DOMAIN outbox \cup {n}
      /\ \A m \in DOMAIN outbox : outbox'[m] = outbox[m]
      /\ outbox'[n].silent = sweep.silent
      /\ outbox'[n].day = Day(sweep.started) /\ outbox'[n].heard
  BY <1>0, PostOutbox
<1>2. IsFiniteSet(Loud(d)) /\ n \notin Loud(d)
  BY <1>1, LoudFinite
<1>3. CASE ~sweep.silent /\ d = Day(sweep.started)
  <2>1. Loud(d)' = Loud(d) \cup {n}
    BY <1>1, <1>3 DEF Loud
  <2> QED
    BY <1>2, <1>3, <2>1, FS_AddElement
<1>4. CASE ~(~sweep.silent /\ d = Day(sweep.started))
  <2>1. Loud(d)' = Loud(d)
    BY <1>1, <1>4 DEF Loud
  <2> QED
    BY <1>4, <2>1
<1> QED
  BY <1>3, <1>4

LEMMA LoudAnswer ==
    ASSUME TypeOK, InHand, Answer, NEW d
    PROVE  /\ Cardinality(Loud(d)') <= Cardinality(Loud(d))
           /\ ~sweep.silent /\ sweep'.message # sweep.message /\ d = Day(sweep.started) =>
                 Cardinality(Loud(d)') = Cardinality(Loud(d)) - 1
<1>1. /\ DOMAIN outbox' = DOMAIN outbox
      /\ \A m \in DOMAIN outbox :
            /\ outbox'[m].silent = outbox[m].silent /\ outbox'[m].day = outbox[m].day
            /\ outbox'[m].heard <=> outbox[m].heard /\ (m = sweep.message => sweep'.message = m)
  BY AnswerOutbox
<1>2. IsFiniteSet(Loud(d)) /\ Cardinality(Loud(d)) \in Nat
  BY LoudFinite
<1>3. CASE sweep'.message = sweep.message
  <2>1. Loud(d)' = Loud(d)
    BY <1>1, <1>3 DEF Loud
  <2> QED
    BY <1>2, <1>3, <2>1
<1>4. CASE sweep'.message # sweep.message
  <2>1. PICK n : n = sweep.message
    OBVIOUS
  <2>2. Loud(d)' = Loud(d) \ {n}
    BY <1>1, <1>4, <2>1 DEF Loud
  <2>3. ~sweep.silent /\ d = Day(sweep.started) => n \in Loud(d)
    <3>1. sweep.pc = "answer"
      BY AnswerEffect
    <3> QED
      BY <2>1, <3>1 DEF InHand, Loud
  <2>4. Cardinality(Loud(d)') = IF n \in Loud(d) THEN Cardinality(Loud(d)) - 1 ELSE Cardinality(Loud(d))
    BY <1>2, <2>2, FS_RemoveElement
  <2> QED
    BY <1>2, <2>3, <2>4
<1> QED
  BY <1>3, <1>4


LEMMA LoudCeilingStep ==
    ASSUME TypeOK, Pace, InHand, Counted, LoudCeiling, [Next]_vars
    PROVE  LoudCeiling'
<1>1. \A d \in 0 .. Day(Horizon) : Cardinality(Loud(d)) <= MaxLoud
  BY DEF LoudCeiling, Loud
<1> SUFFICES ASSUME NEW d \in 0 .. Day(Horizon)
             PROVE  Cardinality(Loud(d)') <= MaxLoud
  BY DEF LoudCeiling, Loud
<1>2. Cardinality(Loud(d)) \in Nat /\ Cardinality(Loud(d)) <= MaxLoud /\ MaxLoud \in Nat
  BY <1>1, LoudFinite, PaceAssumption
<1>3. CASE outbox' = outbox
  <2>1. Loud(d)' = Loud(d)
    BY <1>3 DEF Loud
  <2> QED
    BY <1>2, <2>1
<1>4. CASE Answer
  <2>1. Cardinality(Loud(d)') <= Cardinality(Loud(d))
    BY <1>4, LoudAnswer
  <2>2. Loud(d)' \in SUBSET Loud(d)
    <3>1. /\ DOMAIN outbox' = DOMAIN outbox
          /\ \A m \in DOMAIN outbox :
                /\ outbox'[m].silent = outbox[m].silent /\ outbox'[m].day = outbox[m].day
                /\ outbox'[m].heard => outbox[m].heard
      BY <1>4, AnswerOutbox
    <3> QED
      BY <3>1 DEF Loud
  <2>3. Cardinality(Loud(d)') \in Nat
    BY <2>2, LoudFinite, FS_Subset, FS_CardinalityType
  <2> QED
    BY <1>2, <2>1, <2>3
<1>5. CASE Post /\ outbox' # outbox
  <2>1. Cardinality(Loud(d)') = IF ~sweep.silent /\ d = Day(sweep.started)
                                THEN Cardinality(Loud(d)) + 1 ELSE Cardinality(Loud(d))
    BY <1>5, LoudPost
  <2>2. sweep.pc = "post"
    BY <1>5, PostEffect
  <2>3. /\ Cardinality(Loud(Day(sweep.started))) <= sweep.loud + 0 /\ sweep.loud \in Nat
        /\ ~sweep.silent => sweep.loud < MaxLoud
    BY <2>2, SweepTypes DEF Counted
  <2> QED
    BY <1>2, <2>1, <2>3
<1> QED
  BY <1>3, <1>4, <1>5, OutboxSame

LEMMA CountedStep ==
    ASSUME TypeOK, Pace, Pace', InHand, Kept, SaidOnce, Counted, [Next]_vars
    PROVE  Counted'
<1>1. CASE UNCHANGED <<outbox, sweep>>
  BY <1>1 DEF Counted, Loud
<1>2. CASE sweep'.pc = "idle"
  BY <1>2 DEF Counted
<1>3. CASE Begin /\ sweep'.pc # "idle"
  <2>1. /\ UNCHANGED <<now, outbox>> /\ sweep.pc = "idle"
        /\ sweep'.pc = "claim" /\ sweep'.started = now
        /\ sweep'.loud = LoudSince(Midnight(now))
    BY <1>3, BeginEffect
  <2>2. Cardinality(Loud(Day(now))) <= LoudSince(Midnight(now))
    BY <2>1, NoneUncounted
  <2>3. LoudSince(Midnight(now)) \in Nat
    BY CountType
  <2>4. PICK d : d = Day(now)
    OBVIOUS
  <2>5. Loud(d)' = Loud(d)
    BY <2>1 DEF Loud
  <2>6. Day(sweep'.started) = d
    BY <2>1, <2>4
  <2>7. Cardinality(Loud(d)') <= sweep'.loud
    BY <2>1, <2>2, <2>4, <2>5
  <2>8. sweep'.loud + 0 = sweep'.loud
    BY <2>1, <2>3
  <2>9. Loud(Day(sweep.started))' = Loud(d)'
    BY <2>6 DEF Loud
  <2> QED
    BY <2>1, <2>7, <2>8, <2>9 DEF Counted
<1>4. CASE (ClaimNext \/ EndClaims \/ EndSweep \/ Settle) /\ sweep'.pc # "idle"
  <2>1. /\ outbox' = outbox /\ sweep.pc \notin {"idle", "answer"}
        /\ sweep'.pc \notin {"post", "answer"}
        /\ sweep'.started = sweep.started /\ sweep'.loud = sweep.loud
    <3>1. CASE ClaimNext
      BY <3>1, ClaimEffect
    <3>2. CASE EndClaims \/ EndSweep
      BY <1>4, <3>2, EndEffect
    <3>3. CASE Settle
      BY <3>3, SettleEffect
    <3> QED
      BY <1>4, <3>1, <3>2, <3>3
  <2>2. Loud(Day(sweep.started))' = Loud(Day(sweep.started))
    BY <2>1 DEF Loud
  <2> QED
    BY <2>1, <2>2 DEF Counted
<1>5. CASE Send
  <2>1. /\ sweep.pc = "send" /\ sweep'.pc = "post" /\ outbox' = outbox
        /\ sweep'.started = sweep.started /\ sweep'.loud = sweep.loud
        /\ ~sweep'.silent => sweep.loud < MaxLoud
    BY <1>5, SendEffect
  <2>2. Loud(Day(sweep.started))' = Loud(Day(sweep.started))
    BY <2>1 DEF Loud
  <2> QED
    BY <2>1, <2>2 DEF Counted
<1>6. CASE Post
  <2>1. /\ sweep.pc = "post" /\ sweep'.started = sweep.started /\ sweep'.loud = sweep.loud
        /\ sweep'.silent = sweep.silent
        /\ sweep'.pc = "answer" \/ outbox' = outbox
    BY <1>6, PostEffect
  <2>2. PICK d : d = Day(sweep.started)
    OBVIOUS
  <2>3. /\ Cardinality(Loud(d)) <= sweep.loud /\ sweep.loud \in Nat /\ Cardinality(Loud(d)) \in Nat
        /\ ~sweep.silent => sweep.loud < MaxLoud
    <3>1. Cardinality(Loud(d)) <= sweep.loud + 0 /\ (~sweep.silent => sweep.loud < MaxLoud)
      BY <2>1, <2>2 DEF Counted
    <3> QED
      BY <3>1, LoudFinite, SweepTypes
  <2>4. Loud(Day(sweep.started))' = Loud(d)'
    BY <2>1, <2>2 DEF Loud
  <2>5. Cardinality(Loud(d)') <= sweep.loud + (IF sweep'.pc = "answer" /\ ~sweep.silent THEN 1 ELSE 0)
    <3>1. CASE outbox' = outbox
      <4>1. Loud(d)' = Loud(d)
        BY <3>1 DEF Loud
      <4> QED
        BY <2>3, <4>1
    <3>2. CASE outbox' # outbox
      <4>1. Cardinality(Loud(d)') = IF ~sweep.silent THEN Cardinality(Loud(d)) + 1
                                    ELSE Cardinality(Loud(d))
        BY <1>6, <2>2, <3>2, LoudPost
      <4> QED
        BY <2>1, <2>3, <3>2, <4>1
    <3> QED
      BY <3>1, <3>2
  <2> QED
    BY <2>1, <2>3, <2>4, <2>5 DEF Counted
<1>7. CASE Answer
  <2>1. /\ sweep.pc = "answer" /\ sweep'.pc \in {"post", "settle"}
        /\ sweep'.started = sweep.started /\ sweep'.silent = sweep.silent
        /\ \/ /\ sweep'.message = sweep.message /\ sweep'.pc = "settle"
              /\ sweep'.loud = IF sweep.silent THEN sweep.loud ELSE sweep.loud + 1
           \/ sweep'.message = 0 /\ sweep'.loud = sweep.loud
    BY <1>7, AnswerEffect
  <2>2. PICK d : d = Day(sweep.started)
    OBVIOUS
  <2>3. /\ Cardinality(Loud(d)) <= sweep.loud + (IF ~sweep.silent THEN 1 ELSE 0)
        /\ sweep.loud \in Nat /\ Cardinality(Loud(d)) \in Nat /\ sweep.message # 0
        /\ ~sweep.silent => sweep.loud < MaxLoud
    <3>1. /\ Cardinality(Loud(d)) <= sweep.loud + (IF ~sweep.silent THEN 1 ELSE 0)
          /\ ~sweep.silent => sweep.loud < MaxLoud
      BY <2>1, <2>2 DEF Counted
    <3>2. sweep.message # 0
      BY <2>1 DEF InHand
    <3> QED
      BY <3>1, <3>2, LoudFinite, SweepTypes
  <2>4. Loud(Day(sweep.started))' = Loud(d)'
    BY <2>1, <2>2 DEF Loud
  <2>5. /\ Cardinality(Loud(d)') <= Cardinality(Loud(d))
        /\ ~sweep.silent /\ sweep'.message # sweep.message =>
              Cardinality(Loud(d)') = Cardinality(Loud(d)) - 1
    BY <1>7, <2>2, LoudAnswer
  <2>6. Cardinality(Loud(d)') \in Nat
    <3>1. /\ DOMAIN outbox' = DOMAIN outbox
          /\ \A m \in DOMAIN outbox :
                /\ outbox'[m].silent = outbox[m].silent /\ outbox'[m].day = outbox[m].day
                /\ outbox'[m].heard => outbox[m].heard
      BY <1>7, AnswerOutbox
    <3>2. Loud(d)' \in SUBSET Loud(d)
      BY <3>1 DEF Loud
    <3> QED
      BY <3>2, LoudFinite, FS_Subset, FS_CardinalityType
  <2>7. Cardinality(Loud(d)') <= sweep'.loud + 0
    BY <2>1, <2>3, <2>5, <2>6
  <2>8. sweep'.pc \in {"post", "answer"} /\ ~sweep'.silent => sweep'.loud < MaxLoud
    BY <2>1, <2>3
  <2> QED
    BY <2>1, <2>4, <2>7, <2>8 DEF Counted
<1>8. CASE UNCHANGED vars \/ \E i \in Item : Happens(i) \/ Ends(i)
  BY <1>1, <1>8 DEF vars, Happens, Ends
<1>9. CASE Tick \/ Start \/ SwitchOn \/ SwitchOff \/ SaveSettings \/ Crash
  <2>1. outbox' = outbox /\ (sweep' = sweep \/ sweep'.pc = "idle")
    BY <1>9, WorldEffect
  <2> QED
    BY <1>1, <1>2, <2>1
<1> QED
  BY <1>2, <1>3, <1>4, <1>5, <1>6, <1>7, <1>8, <1>9 DEF Next


-----------------------------------------------------------------------------
(* Nothing falls between two sweeps.                                         *)

LEMMA OccasionFacts ==
    ASSUME NEW k \in Occasions
    PROVE  /\ k \in Key /\ k[1] \in Item /\ k[2] \in Nat
           /\ RuleOf[k[1]] \in {"at", "lead", "clock", "booking"}
           /\ RuleOf[k[1]] # "clock" => k = <<k[1], 0>>
<1>1. k \in Key /\ RuleOf[k[1]] \in {"at", "lead", "clock", "booking"}
      /\ (RuleOf[k[1]] # "clock" => k[2] = 0)
  BY DEF Occasions
<1> QED
  BY <1>1, KeyFacts

\* No window is empty: neither a lead nor a lateness is negative, and a clock rule
\* speaks within its day.
LEMMA WindowFacts ==
    ASSUME TypeOK, NEW k \in Occasions
    PROVE  Opens(k) \in Int /\ Closes(k) \in Int /\ Opens(k) <= Closes(k)
<1> DEFINE i == k[1]
<1>1. /\ k \in Key /\ i \in Item /\ k[2] \in Nat
      /\ RuleOf[i] \in {"at", "lead", "clock", "booking"}
      /\ When[i] \in Nat /\ Lead[i] \in Nat /\ since[i] \in Int
  BY OccasionFacts, ItemFacts, TimeTypes
<1>2. /\ DayLength \in Nat \ {0} /\ MaxLate \in Nat /\ Stale \in Nat \ {0} /\ CatchUp \in Nat
      /\ RuleOf[i] = "clock" => When[i] < DayLength
  BY <1>1, PaceAssumption, ItemAssumption
<1>3. CASE RuleOf[i] = "at"
  <2>1. Opens(k) = When[i] /\ Closes(k) = When[i] + MaxLate
    BY <1>3 DEF Opens, Closes
  <2> QED
    BY <1>1, <1>2, <2>1
<1>4. CASE RuleOf[i] = "lead"
  <2>1. Opens(k) = When[i] - Lead[i] /\ Closes(k) = When[i]
    BY <1>4 DEF Opens, Closes
  <2> QED
    BY <1>1, <2>1
<1>5. CASE RuleOf[i] = "clock"
  <2>1. /\ Opens(k) = k[2] * DayLength + When[i] /\ k[2] * DayLength \in Nat
        /\ Closes(k) = k[2] * DayLength
              + (IF When[i] + Stale < DayLength THEN When[i] + Stale ELSE DayLength) - 1
    BY <1>1, <1>2, <1>5 DEF Opens, Closes
  <2> HIDE DEF i
  <2> QED
    BY <1>1, <1>2, <1>5, <2>1
<1>6. CASE RuleOf[i] = "booking"
  <2>1. Opens(k) = since[i] /\ Closes(k) = since[i] + CatchUp
    BY <1>6 DEF Opens, Closes
  <2> QED
    BY <1>1, <1>2, <2>1
<1> QED
  BY <1>1, <1>3, <1>4, <1>5, <1>6

\* An occasion that has come up since the sweep before, and whose window is open,
\* is due.
LEMMA UpIsDue ==
    ASSUME TypeOK, Pace, NEW k \in Occasions, since[k[1]] # Never,
           Opens(k) <= now, now <= Closes(k),
           RuleOf[k[1]] # "booking" =>
              \/ lastSwept = Never /\ Opens(k) = now
              \/ lastSwept # Never /\ lastSwept < Opens(k)
    PROVE  Due(k[1]) /\ k \in KeysOf(k[1])
<1> DEFINE i == k[1]
<1>1. /\ k \in Key /\ i \in Item /\ k[2] \in Nat
      /\ RuleOf[i] \in {"at", "lead", "clock", "booking"}
      /\ RuleOf[i] # "clock" => k = <<i, 0>>
      /\ When[i] \in Nat /\ Lead[i] \in Nat
  BY OccasionFacts, ItemFacts
<1>2. now \in Nat /\ lastSwept \in Int /\ since[i] \in Int
  BY <1>1, TimeTypes
<1>3. /\ Interval \in Nat /\ DayLength \in Nat \ {0}
      /\ MaxLate \in Nat /\ Stale \in Nat /\ CatchUp \in Nat
  BY PaceAssumption
<1>4. /\ Opens(k) <= now /\ now <= Closes(k) /\ since[i] # Never
      /\ RuleOf[i] # "booking" =>
            \/ lastSwept = Never /\ Opens(k) = now
            \/ lastSwept # Never /\ lastSwept < Opens(k)
  OBVIOUS
<1>5. CASE RuleOf[i] = "at"
  <2>1. Opens(k) = When[i] /\ Closes(k) = When[i] + MaxLate /\ k \in KeysOf(i)
    BY <1>1, <1>5 DEF Opens, Closes, KeysOf
  <2> HIDE DEF i
  <2>2. CASE lastSwept = Never
    <3>1. LateFloor = now - 2 * Interval /\ When[i] = now
      BY <1>4, <1>5, <2>1, <2>2 DEF LateFloor, Never
    <3> QED
      BY <1>2, <1>3, <1>4, <1>5, <2>1, <3>1 DEF Due, AtTimeDue, i
  <2>3. CASE lastSwept # Never
    <3>1. lastSwept + 1 <= When[i] /\ now - MaxLate <= When[i]
      BY <1>1, <1>2, <1>3, <1>4, <1>5, <2>1, <2>3
    <3>2. LateFloor <= When[i]
      BY <2>3, <3>1 DEF LateFloor
    <3> QED
      BY <1>4, <1>5, <2>1, <3>2 DEF Due, AtTimeDue, i
  <2> QED
    BY <2>2, <2>3
<1>6. CASE RuleOf[i] = "lead"
  <2>1. Opens(k) = When[i] - Lead[i] /\ Closes(k) = When[i] /\ k \in KeysOf(i)
    BY <1>1, <1>6 DEF Opens, Closes, KeysOf
  <2> HIDE DEF i
  <2> QED
    BY <1>4, <1>6, <2>1 DEF Due, LeadDue, i
<1>7. CASE RuleOf[i] = "clock"
  <2>1. /\ Opens(k) = k[2] * DayLength + When[i] /\ k[2] * DayLength \in Nat
        /\ Closes(k) = k[2] * DayLength
              + (IF When[i] + Stale < DayLength THEN When[i] + Stale ELSE DayLength) - 1
    BY <1>1, <1>3, <1>7 DEF Opens, Closes
  <2> HIDE DEF i
  <2>2. /\ k[2] * DayLength <= now /\ now < k[2] * DayLength + DayLength
        /\ now < k[2] * DayLength + When[i] + Stale
    <3>1. PICK midnight : midnight = k[2] * DayLength
      OBVIOUS
    <3>2. /\ midnight \in Nat /\ midnight + When[i] <= now
          /\ now <= midnight
                + (IF When[i] + Stale < DayLength THEN When[i] + Stale ELSE DayLength) - 1
      BY <1>4, <2>1, <3>1
    <3>3. /\ midnight <= now /\ now < midnight + DayLength
          /\ now < midnight + When[i] + Stale
      BY <1>1, <1>2, <1>3, <3>2
    <3> QED
      BY <3>1, <3>3
  <2>3. Day(now) = k[2]
    BY <1>1, <1>2, <2>2, DayUnique
  <2>4. /\ Midnight(now) + When[i] <= now
        /\ now < Midnight(now) + When[i] + Stale
    BY <1>4, <2>1, <2>2, <2>3 DEF Midnight
  <2>5. k \in KeysOf(i)
    <3>1. k = <<i, Day(now)>>
      BY <1>1, <2>3, KeyFacts DEF i
    <3> QED
      BY <1>7, <3>1 DEF KeysOf
  <2> QED
    BY <1>7, <2>4, <2>5 DEF Due, ClockDue, i
<1>8. CASE RuleOf[i] = "booking"
  <2>1. Opens(k) = since[i] /\ Closes(k) = since[i] + CatchUp /\ k \in KeysOf(i)
    BY <1>1, <1>8 DEF Opens, Closes, KeysOf
  <2> HIDE DEF i
  <2>2. now - CatchUp <= since[i]
    BY <1>2, <1>3, <1>4, <2>1
  <2> QED
    BY <1>4, <1>8, <2>1, <2>2 DEF Due, BookingDue, i
<1> QED
  BY <1>1, <1>5, <1>6, <1>7, <1>8

LEMMA SweptFrame ==
    ASSUME TypeOK, TypeOK', Pace, Swept, UNCHANGED <<since, spoiled>>, lastSwept' = lastSwept,
           (watching' = watching /\ gap <= gap') \/ watching' = Never \/ watching' = now,
           told \cup sweep.plan \subseteq told' \cup sweep'.plan
    PROVE  Swept'
<1> SUFFICES ASSUME lastSwept # Never, NEW k \in Occasions,
                    k[1] \notin spoiled, since[k[1]] # Never,
                    \/ RuleOf[k[1]] # "booking" /\ Opens(k)' = lastSwept
                    \/ /\ watching' # Never /\ watching' <= Opens(k)' /\ Opens(k)' < lastSwept
                       /\ gap' <= Closes(k)' - Opens(k)'
             PROVE  k \in told' \cup sweep'.plan
  BY DEF Swept
<1>1. /\ Opens(k)' = Opens(k) /\ Closes(k)' = Closes(k)
      /\ Opens(k) \in Int /\ Closes(k) \in Int
  BY WindowFacts DEF Opens, Closes
<1>2. lastSwept <= now /\ now \in Int /\ lastSwept \in Int /\ gap \in Nat
  BY TimeTypes DEF Pace
<1>3. gap' \in Nat
  BY DEF TypeOK
<1>4. \/ RuleOf[k[1]] # "booking" /\ Opens(k) = lastSwept
      \/ /\ watching # Never /\ watching <= Opens(k) /\ Opens(k) < lastSwept
         /\ gap <= Closes(k) - Opens(k)
  BY <1>1, <1>2, <1>3
<1> QED
  BY <1>4 DEF Swept

LEMMA SweptHappens ==
    ASSUME TypeOK, Pace, Swept, NEW i \in Item, Happens(i) \/ Ends(i)
    PROVE  Swept'
<1>1. /\ UNCHANGED <<now, lastSwept, sweep, told, watching, gap, spoiled>>
      /\ since' = [since EXCEPT ![i] = since'[i]]
      /\ since'[i] \in {now, Never} /\ (since'[i] = now => since[i] = Never)
      /\ RuleOf[i] \in {"at", "lead", "booking", "stalled"}
      /\ since'[i] = now => RuleOf[i] \in {"booking", "stalled"}
  <2>1. now \in Nat /\ now # Never
    BY PaceAssumption DEF TypeOK, Time, Never
  <2>2. CASE Happens(i)
    BY <2>1, <2>2 DEF Happens, TypeOK
  <2>3. CASE Ends(i)
    BY <2>1, <2>3 DEF Ends, TypeOK
  <2> QED
    BY <2>2, <2>3
<1> SUFFICES ASSUME lastSwept # Never, NEW k \in Occasions,
                    k[1] \notin spoiled, since'[k[1]] # Never,
                    \/ RuleOf[k[1]] # "booking" /\ Opens(k)' = lastSwept
                    \/ /\ watching # Never /\ watching <= Opens(k)' /\ Opens(k)' < lastSwept
                       /\ gap <= Closes(k)' - Opens(k)'
             PROVE  k \in told \cup sweep.plan
  BY <1>1 DEF Swept
<1>2. k \in Key /\ k[1] \in Item /\ RuleOf[k[1]] \in {"at", "lead", "clock", "booking"}
  BY OccasionFacts
<1>3. lastSwept <= now /\ now \in Int /\ lastSwept \in Int
  BY PaceAssumption DEF TypeOK, Time, Never, Pace
<1>4. k[1] # i
  <2> SUFFICES ASSUME k[1] = i PROVE FALSE
    OBVIOUS
  <2>1. since'[i] = now /\ RuleOf[i] = "booking"
    BY <1>1, <1>2
  <2>2. Opens(k)' = now
    BY <2>1 DEF Opens
  <2> QED
    BY <1>3, <2>1, <2>2
<1>5. since'[k[1]] = since[k[1]]
  BY <1>1, <1>2, <1>4 DEF TypeOK
<1>6. Opens(k)' = Opens(k) /\ Closes(k)' = Closes(k)
  BY <1>5 DEF Opens, Closes
<1> QED
  BY <1>5, <1>6 DEF Swept

LEMMA SweptBegin ==
    ASSUME TypeOK, Pace, InHand, Swept, Begin
    PROVE  Swept'
<1>1. /\ mode = "on" /\ sweep.pc = "idle" /\ lastSwept' = now
      /\ UNCHANGED <<now, since, mode, watching, gap, told>>
      /\ spoiled \subseteq spoiled'
      /\ \A i \in Item : Due(i) => i \in spoiled' \/ KeysOf(i) \subseteq sweep'.plan
  BY BeginEffect
<1>2. sweep.plan = {}
  BY <1>1 DEF InHand
<1> SUFFICES ASSUME NEW k \in Occasions,
                    k[1] \notin spoiled', since[k[1]] # Never,
                    \/ RuleOf[k[1]] # "booking" /\ Opens(k)' = now
                    \/ /\ watching # Never /\ watching <= Opens(k)' /\ Opens(k)' < now
                       /\ gap <= Closes(k)' - Opens(k)'
             PROVE  k \in told \cup sweep'.plan
  BY <1>1 DEF Swept
<1>3. /\ Opens(k)' = Opens(k) /\ Closes(k)' = Closes(k) /\ k[1] \in Item
      /\ Opens(k) \in Int /\ Closes(k) \in Int /\ Opens(k) <= Closes(k)
  BY <1>1, WindowFacts, OccasionFacts DEF Opens, Closes
<1>4. /\ now \in Nat /\ lastSwept \in Int /\ watching \in Int /\ gap \in Nat
      /\ lastSwept <= now
  BY TimeTypes DEF Pace
<1>5. k[1] \notin spoiled
  BY <1>1
<1>6. now = watching \/ (lastSwept # Never /\ watching <= lastSwept /\ now - lastSwept <= gap)
  BY <1>1 DEF Pace
<1>7. CASE Due(k[1]) /\ k \in KeysOf(k[1])
  BY <1>1, <1>3, <1>7
<1>8. CASE RuleOf[k[1]] # "booking" /\ Opens(k) = now
  <2>1. CASE lastSwept = now
    <3>1. lastSwept # Never
      BY <1>4, <2>1 DEF Never
    <3> QED
      BY <1>2, <1>5, <1>8, <2>1, <3>1 DEF Swept
  <2>2. CASE lastSwept # now
    <3>1. Opens(k) <= now /\ now <= Closes(k) /\ (lastSwept = Never \/ lastSwept < Opens(k))
      BY <1>3, <1>4, <1>8, <2>2
    <3> QED
      BY <1>7, <1>8, <3>1, UpIsDue
  <2> QED
    BY <2>1, <2>2
<1>9. CASE /\ watching # Never /\ watching <= Opens(k) /\ Opens(k) < now
           /\ gap <= Closes(k) - Opens(k)
  <2>1. lastSwept # Never /\ watching <= lastSwept /\ now - lastSwept <= gap
    BY <1>3, <1>4, <1>6, <1>9
  <2>2. CASE Opens(k) < lastSwept \/ (RuleOf[k[1]] # "booking" /\ Opens(k) = lastSwept)
    BY <1>2, <1>5, <1>9, <2>1, <2>2 DEF Swept
  <2>3. CASE lastSwept <= Opens(k) /\ (RuleOf[k[1]] # "booking" => lastSwept < Opens(k))
    <3>1. Opens(k) <= now /\ now <= Closes(k)
      BY <1>3, <1>4, <1>9, <2>1, <2>3
    <3> QED
      BY <1>7, <2>1, <2>3, <3>1, UpIsDue
  <2> QED
    BY <1>3, <1>4, <2>2, <2>3
<1> QED
  BY <1>3, <1>8, <1>9

LEMMA SweptStep ==
    ASSUME TypeOK, TypeOK', Pace, InHand, Swept, [Next]_vars
    PROVE  Swept'
<1>0. gap \in Nat /\ now \in Nat /\ lastSwept \in Int
  BY TimeTypes
<1>1. CASE UNCHANGED vars
  <2>1. /\ UNCHANGED <<since, spoiled, told, sweep, watching>> /\ lastSwept' = lastSwept
        /\ gap <= gap'
    BY <1>0, <1>1 DEF vars
  <2> QED
    BY <2>1, SweptFrame
<1>2. CASE \E i \in Item : Happens(i) \/ Ends(i)
  BY <1>2, SweptHappens
<1>3. CASE Start \/ Crash
  <2>1. lastSwept' = Never
    BY <1>3 DEF Start, Crash
  <2> QED
    BY <2>1 DEF Swept
<1>4. CASE Tick \/ SwitchOn \/ SwitchOff \/ SaveSettings
  <2>1. /\ UNCHANGED <<since, spoiled, told>> /\ lastSwept' = lastSwept
        /\ (watching' = watching /\ gap <= gap') \/ watching' = Never \/ watching' = now
    BY <1>0, <1>4 DEF Tick, SwitchOn, SwitchOff, SaveSettings
  <2>2. sweep.plan = {} \/ sweep' = sweep
    <3>1. sweep.pc = "idle" \/ sweep' = sweep
      BY <1>4 DEF Tick, SwitchOn, SwitchOff, SaveSettings, Pace
    <3> QED
      BY <3>1 DEF InHand
  <2> QED
    BY <2>1, <2>2, SweptFrame
<1>5. CASE Begin
  BY <1>5, SweptBegin
<1>6. CASE ClaimNext
  <2>1. PICK k \in sweep.plan :
           /\ UNCHANGED <<now, since, mode, watching, gap, lastSwept, outbox, spoiled>>
           /\ told' = told \cup {k} /\ sweep'.plan = sweep.plan \ {k}
    BY <1>6, ClaimEffect
  <2>2. told \cup sweep.plan \subseteq told' \cup sweep'.plan /\ gap <= gap'
    BY <1>0, <2>1
  <2> QED
    BY <2>1, <2>2, SweptFrame
<1>7. CASE EndClaims \/ EndSweep
  <2>1. /\ UNCHANGED <<since, watching, lastSwept, told, spoiled>> /\ sweep.plan = {}
        /\ gap <= gap'
    BY <1>0, <1>7, EndEffect DEF InHand
  <2> QED
    BY <2>1, SweptFrame
<1>8. CASE Send \/ Post \/ Answer \/ Settle
  <2>1. /\ UNCHANGED <<since, watching, lastSwept, told, spoiled>> /\ sweep'.plan = sweep.plan
        /\ gap <= gap'
    <3>1. CASE Send
      BY <1>0, <3>1, SendEffect
    <3>2. CASE Post \/ Answer
      BY <1>0, <3>2, PostEffect, AnswerEffect
    <3>3. CASE Settle
      BY <1>0, <3>3, SettleEffect
    <3> QED
      BY <1>8, <3>1, <3>2, <3>3
  <2> QED
    BY <2>1, SweptFrame
<1> QED
  BY <1>1, <1>2, <1>3, <1>4, <1>5, <1>6, <1>7, <1>8 DEF Next


\* At the end of its window an occasion came up before the last sweep.
LEMMA SlipsNot == ASSUME TypeOK, Pace, Swept PROVE NothingSlips
<1> SUFFICES ASSUME NEW k \in Occasions,
                    since[k[1]] # Never, watching # Never, watching <= Opens(k),
                    gap <= Closes(k) - Opens(k),
                    Closes(k) < now, k[1] \notin spoiled
             PROVE  k \in told \cup sweep.plan
  BY DEF NothingSlips
<1>1. /\ now \in Nat /\ lastSwept \in Int /\ watching \in Int /\ gap \in Nat
      /\ Opens(k) \in Int /\ Closes(k) \in Int /\ Opens(k) <= Closes(k)
  BY TimeTypes, WindowFacts
<1>2. now = watching \/ (lastSwept # Never /\ watching <= lastSwept /\ now - lastSwept <= gap)
  BY DEF Pace
<1>3. now # watching
  BY <1>1
<1>4. lastSwept # Never /\ Opens(k) < lastSwept
  BY <1>1, <1>2, <1>3
<1> QED
  BY <1>4 DEF Swept

-----------------------------------------------------------------------------
(* The theorems.                                                             *)

LEMMA InvInit == Init => IInv
<1> SUFFICES ASSUME Init PROVE IInv
  OBVIOUS
<1>1. DOMAIN outbox = {} /\ sweep.pc = "idle" /\ lastSwept = Never
  BY DEF Init, Idle
<1>2. \A d : Loud(d) = {}
  BY <1>1 DEF Loud
<1>3. LoudCeiling
  BY <1>2, FS_EmptySet, PaceAssumption DEF LoudCeiling, Loud
<1>4. SaidOnce /\ Counted /\ Swept
  BY <1>1 DEF SaidOnce, Counted, Swept
<1> QED
  BY <1>3, <1>4, TypeInit, RememberedInit, InHandInit, KeptInit, PaceInit DEF IInv

LEMMA InvStep == IInv /\ [Next]_vars => IInv'
<1> SUFFICES ASSUME IInv, [Next]_vars PROVE IInv'
  OBVIOUS
<1>1. /\ TypeOK /\ Remembered /\ InHand /\ SaidOnce
      /\ Kept /\ Counted /\ LoudCeiling /\ Pace /\ Swept
  BY DEF IInv
<1>2. TypeOK' /\ Pace'
  BY <1>1, TypeStep, PaceStep
<1>3. Remembered' /\ InHand'
  BY <1>1, <1>2, RememberedStep, InHandStep
<1>4. Kept' /\ SaidOnce' /\ Counted' /\ LoudCeiling' /\ Swept'
  BY <1>1, <1>2, <1>3, KeptStep, SaidOnceStep, CountedStep, LoudCeilingStep, SweptStep
<1> QED
  BY <1>2, <1>3, <1>4 DEF IInv

\* The inductive invariant of the scheduler: what the ledger remembers, what a
\* sweep has in hand and has posted, what it has counted, and what it has swept.
THEOREM Inductive == Spec => []IInv
BY InvInit, InvStep, PTL DEF Spec

\* No occasion is said twice, whatever dies between claim_notification and
\* settle_notification and whatever gc_notifications has collected since.  The one
\* exception is the loop of telegram.py's _post: a message whose answer was lost is
\* posted again, the same occasions in the same message and in the same send.
THEOREM NothingSaidTwice == Spec => []SaidOnce
<1>1. IInv => SaidOnce
  BY DEF IInv
<1> QED
  BY <1>1, Inductive, PTL

\* No more than MaxLoud messages of one day make a sound and are known to have
\* gone out: _dispatch counts every one of them before it sends another.
THEOREM CeilingHolds == Spec => []LoudCeiling
<1>1. IInv => LoudCeiling
  BY DEF IInv
<1> QED
  BY <1>1, Inductive, PTL

\* A process that watched through the whole window of an occasion has claimed it
\* by the end, unless its rule failed or some sweep began later after the one
\* before than the window is long: late_floor and the windows of the rules leave no
\* gap of their own between two sweeps, however long the sweeps and the wait are.
THEOREM NothingFallsBetween == Spec => []NothingSlips
<1>1. IInv => NothingSlips
  BY SlipsNot DEF IInv
<1> QED
  BY <1>1, Inductive, PTL
=============================================================================
