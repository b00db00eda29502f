---------------------------- MODULE Notifications ---------------------------
(***************************************************************************)
(* notify/scheduler.py and notify/rules.py: one loop sweeps the rules,     *)
(* claims in the ledger what it is about to say, sends it and settles what *)
(* became of it.  The process may die between any two of these steps, an   *)
(* answer of Telegram may be lost and the message posted again, and a      *)
(* sweep takes as long as it takes.                                        *)
(*                                                                         *)
(* An item is one thing a rule watches, and a key the occasion it is about *)
(* today.  Items are numbered in the order a sweep sorts their occasions.  *)
(***************************************************************************)
EXTENDS Integers, Sequences, FiniteSets

CONSTANTS
    RuleOf,    \* RuleOf[i]: the rule that watches item i
    When,      \* When[i]: its moment; for a clock rule, the hour of the day
    Lead,      \* Lead[i]: how far ahead of the moment its message may go out
    DayLength, Interval,
    MaxLate,   \* ZERO_LEAD_MAX_LATE
    Stale,     \* DIGEST_STALE_AFTER
    CatchUp,   \* BOOKING_CATCH_UP
    StallAfter, Retention, MaxLoud, BatchThreshold,
    MaxAttempts, \* of TelegramSender, to post one message
    Horizon,   \* bound: time
    MaxFaults  \* bound: crashes, failed rules, failed posts, switches

Item == DOMAIN RuleOf
Rule == {"at", "lead", "clock", "booking", "stalled", "recovered"}
Silent == {i \in Item : RuleOf[i] \in {"booking", "stalled", "recovered"}}
Never == -1
Time == 0 .. Horizon
Day(t) == t \div DayLength
Midnight(t) == Day(t) * DayLength
Key == Item \X (0 .. Day(Horizon))

ASSUME ItemAssumption ==
    /\ RuleOf \in Seq(Rule)
    /\ When \in [Item -> Nat] /\ Lead \in [Item -> Nat]
    /\ \A i \in Item : RuleOf[i] = "clock" => When[i] < DayLength
    /\ \A i, j \in Item : RuleOf[i] \in {"stalled", "recovered"} /\ RuleOf[i] = RuleOf[j]
                             => i = j
ASSUME PaceAssumption ==
    /\ DayLength \in Nat \ {0} /\ Interval \in Nat \ {0}
    /\ Stale > 0 /\ MaxAttempts \in Nat \ {0}
    /\ {MaxLate, Stale, CatchUp, StallAfter, Retention, MaxLoud, BatchThreshold} \subseteq Nat
    /\ Horizon \in Nat /\ MaxFaults \in Nat

\* The ledger, which remembers for a month, outlives every window, that of a
\* lead of a week included (MAX_REMINDER_MINUTES, LEDGER_RETENTION).
ASSUME LedgerAssumption ==
    /\ \A i \in Item : RuleOf[i] = "lead" => Lead[i] <= Retention
    /\ \A window \in {2 * Interval, MaxLate, CatchUp, DayLength} : window <= Retention

VARIABLES
    now,
    since,     \* since[i]: the item exists, or the sync fails, since then
    mode,      \* the process and the switch of the owner
    lastSwept, \* _last_swept, gone with the process
    ledger,    \* notification_deliveries
    sweep,     \* the sweep under way
    outbox,    \* the messages Telegram has taken
    told,      \* every occasion ever claimed
    watching,  \* running and switched on since then
    gap,       \* the longest, in that time, from one sweep's beginning to the next
    spoiled,   \* the items a rule failed on
    faults

vars == <<now, since, mode, lastSwept, ledger, sweep, outbox, told, watching, gap,
          spoiled, faults>>

NoRow == [at |-> Never, settled |-> FALSE, ok |-> FALSE, silent |-> FALSE, message |-> 0]
Idle == [pc |-> "idle", from |-> 0, plan |-> {}, claimed |-> {}, left |-> {}, group |-> {},
         attempt |-> 0, loud |-> 0, silent |-> FALSE, message |-> 0, started |-> 0]
Claimed(k) == ledger[k].at # Never

Init ==
    /\ now = 0
    /\ since \in [Item -> {Never, 0}]
    /\ \A i \in Item : RuleOf[i] \in {"at", "lead", "clock"} => since[i] = 0
    /\ \A i \in Item : RuleOf[i] \in {"stalled", "recovered", "booking"} => since[i] = Never
    /\ mode = "down"
    /\ lastSwept = Never
    /\ ledger = [k \in Key |-> NoRow]
    /\ sweep = Idle
    /\ outbox = <<>>
    /\ told = {}
    /\ watching = Never /\ gap = 0
    /\ spoiled = {}
    /\ faults = 0

-----------------------------------------------------------------------------
(* The rules.  Each has a window, from the instant it fires to the instant *)
(* its message would be too late, and an occasion that names it.           *)

Alarm == {i \in Item : RuleOf[i] = "stalled"}
Failing == \E i \in Alarm : since[i] # Never
AlarmRows == {k \in Key : k[1] \in Alarm /\ Claimed(k)}

\* An alarm is keyed on its day, the all-clear on the last alarm, which it answers.
KeysOf(i) ==
    CASE RuleOf[i] \in {"clock", "stalled"} -> {<<i, Day(now)>>}
      [] RuleOf[i] = "recovered" ->
            {<<i, k[2]>> : k \in {k \in AlarmRows : \A j \in AlarmRows : j[2] <= k[2]}}
      [] OTHER -> {<<i, 0>>}

\* Mutant: the window is one interval long, open at its start.
LateFloorFixed == now - Interval + 1

\* late_floor: just after the last sweep, if this process made one.
LateFloor ==
    IF lastSwept = Never THEN now - 2 * Interval
    ELSE IF lastSwept + 1 > now - MaxLate THEN lastSwept + 1 ELSE now - MaxLate

AtTimeDue(i) ==
    /\ RuleOf[i] = "at" /\ since[i] # Never
    /\ LateFloor <= When[i] /\ When[i] <= now
LeadDue(i) ==
    /\ RuleOf[i] = "lead" /\ since[i] # Never
    /\ When[i] - Lead[i] <= now /\ now <= When[i]
ClockDue(i) ==
    /\ RuleOf[i] = "clock"
    /\ Midnight(now) + When[i] <= now /\ now < Midnight(now) + When[i] + Stale
BookingDue(i) ==
    /\ RuleOf[i] = "booking" /\ since[i] # Never
    /\ now - CatchUp <= since[i]
StalledDue(i) ==
    /\ RuleOf[i] = "stalled" /\ since[i] # Never
    /\ since[i] < now - StallAfter
RecoveredDue(i) == RuleOf[i] = "recovered" /\ ~Failing /\ AlarmRows # {}

Due(i) == \/ AtTimeDue(i) \/ LeadDue(i) \/ ClockDue(i)
          \/ BookingDue(i) \/ StalledDue(i) \/ RecoveredDue(i)

-----------------------------------------------------------------------------
(* The world: what the rules watch, and time.  In the middle of a sweep time *)
(* passes while the rules are evaluated and while a request is under way.   *)

Passing == \/ sweep.pc \in {"idle", "post", "answer"}
           \/ sweep.pc = "claim" /\ sweep.claimed = {}

Happens(i) ==
    /\ Passing
    /\ since[i] = Never /\ RuleOf[i] \in {"booking", "stalled"}
    /\ since' = [since EXCEPT ![i] = now]
    /\ UNCHANGED <<now, mode, lastSwept, ledger, sweep, outbox, told, watching, gap, spoiled,
                   faults>>

\* A meeting is cancelled or moved, the sync works again.  Only the beginning of a
\* sweep looks, so that it need not happen in the middle of one.
Ends(i) ==
    /\ sweep.pc = "idle"
    /\ since[i] # Never /\ RuleOf[i] \in {"at", "lead", "stalled"}
    /\ faults < MaxFaults /\ faults' = faults + 1
    /\ since' = [since EXCEPT ![i] = Never]
    /\ UNCHANGED <<now, mode, lastSwept, ledger, sweep, outbox, told, watching, gap, spoiled>>

\* The loop waits Interval after a sweep; nothing bounds the sweep itself.
Tick ==
    /\ Passing /\ now < Horizon
    /\ mode = "on" /\ sweep.pc = "idle" => now < sweep.from + Interval
    /\ now' = now + 1
    /\ gap' = IF mode = "on" /\ now' - lastSwept > gap THEN now' - lastSwept ELSE gap
    /\ UNCHANGED <<since, mode, lastSwept, ledger, sweep, outbox, told, watching, spoiled,
                   faults>>

Fault == faults < MaxFaults /\ faults' = faults + 1
At(t) == sweep' = [Idle EXCEPT !.from = t]

\* A process that starts sweeps before it first waits.
Start ==
    /\ mode = "down"
    /\ mode' = "on" /\ watching' = now
    /\ lastSwept' = Never
    /\ At(now - Interval)
    /\ UNCHANGED <<now, since, ledger, outbox, told, gap, spoiled, faults>>

\* Saving the settings starts a sweep at once.
SwitchOn ==
    /\ mode = "off"
    /\ mode' = "on" /\ watching' = now
    /\ At(now - Interval)
    /\ UNCHANGED <<now, since, lastSwept, ledger, outbox, told, gap, spoiled, faults>>

SaveSettings ==
    /\ mode = "on" /\ sweep.pc = "idle"
    /\ Fault
    /\ At(now - Interval)
    /\ UNCHANGED <<now, since, mode, lastSwept, ledger, outbox, told, watching, gap, spoiled>>

\* A sweep that has begun goes on with the settings it has read.
SwitchOff ==
    /\ mode = "on" /\ sweep.pc = "idle"
    /\ Fault
    /\ mode' = "off" /\ watching' = Never /\ gap' = 0
    /\ UNCHANGED <<now, since, lastSwept, ledger, sweep, outbox, told, spoiled>>

Crash ==
    /\ mode = "on"
    /\ Fault
    /\ mode' = "down" /\ watching' = Never /\ gap' = 0
    /\ lastSwept' = Never /\ sweep' = Idle
    /\ UNCHANGED <<now, since, ledger, outbox, told, spoiled>>

-----------------------------------------------------------------------------
(* One sweep.                                                              *)

World == <<now, since, mode, watching, gap>>
First(S) == CHOOSE i \in S : \A j \in S : i <= j
FirstOf(keys) == {k \in keys : k[1] = First({j[1] : j \in keys})}

\* Mutant: an alarm whose process died before it was settled is not counted.
LoudSinceSettled(stamp) ==
    LET rows == {k \in Key : Claimed(k) /\ ledger[k].at >= stamp /\ ~ledger[k].silent}
    IN  Cardinality({ledger[k].message : k \in {r \in rows : ledger[r].ok}})

\* loud_deliveries_since: the messages that went out, however many occasions
\* each carried, and every claim not settled yet.
LoudSince(stamp) ==
    LET rows == {k \in Key : Claimed(k) /\ ledger[k].at >= stamp /\ ~ledger[k].silent}
    IN  Cardinality({ledger[k].message : k \in {r \in rows : ledger[r].ok}})
            + Cardinality({k \in rows : ~ledger[k].settled})

\* sweep, _plan, and the count _dispatch takes before it claims anything.  A
\* rule that fails is left out.
Begin ==
    /\ mode = "on" /\ sweep.pc = "idle"
    /\ now >= sweep.from + Interval
    /\ lastSwept' = now
    /\ \E broken \in {{}} \cup {{i \in Item : RuleOf[i] = r} : r \in Rule \cap {"at", "lead"}} :
         LET due == {i \in Item : Due(i)}
             plan == due \ broken
         IN  /\ broken # {} => due \cap broken # {}
             /\ IF due \cap broken = {} THEN UNCHANGED faults ELSE Fault
             /\ spoiled' = spoiled \cup (due \cap broken)
             /\ sweep' = IF plan = {} THEN [Idle EXCEPT !.from = now]
                         ELSE [Idle EXCEPT !.pc = "claim", !.started = now,
                                           !.plan = UNION {KeysOf(i) : i \in plan},
                                           !.loud = LoudSince(Midnight(now))]
    /\ UNCHANGED <<ledger, outbox, told, World>>

\* Mutant: a claim whose process died before it was settled is taken up again.
ClaimableAgain(k) == ~Claimed(k) \/ ~ledger[k].settled

\* claim_notification: INSERT ... ON CONFLICT DO NOTHING.
Claimable(k) == ~Claimed(k)

\* Messages of one loudness are sent as one from the third on.
Batches(items) ==
    UNION {IF Cardinality(S) >= BatchThreshold THEN {S} ELSE {{i} : i \in S} :
             S \in {items \cap Silent, items \ Silent} \ {{}}}

ClaimNext ==
    /\ sweep.pc = "claim" /\ sweep.plan # {}
    /\ \E k \in FirstOf(sweep.plan) :
         /\ sweep' = [sweep EXCEPT !.plan = @ \ {k},
                                   !.claimed = IF Claimable(k) THEN @ \cup {k} ELSE @]
         /\ ledger' = IF Claimable(k) THEN [ledger EXCEPT ![k] = [NoRow EXCEPT !.at = now]]
                                      ELSE ledger
         /\ told' = told \cup {k}
    /\ UNCHANGED <<lastSwept, outbox, spoiled, faults, World>>

\* gc_notifications, once a sweep has found something due, as of its beginning.
Expired(k) == Claimed(k) /\ ledger[k].at < sweep.started - Retention
Finish ==
    /\ ledger' = [k \in Key |-> IF Expired(k) THEN NoRow ELSE ledger[k]]
    /\ At(now)

EndClaims ==
    /\ sweep.pc = "claim" /\ sweep.plan = {}
    /\ IF sweep.claimed = {} THEN Finish
       ELSE /\ UNCHANGED ledger
            /\ sweep' = [sweep EXCEPT !.pc = "send",
                                      !.left = Batches({k[1] : k \in sweep.claimed})]
    /\ UNCHANGED <<lastSwept, outbox, told, spoiled, faults, World>>

\* The group with the most urgent message goes first; past the ceiling it goes
\* without a sound.
Send ==
    /\ sweep.pc = "send" /\ sweep.left # {}
    /\ \E group \in {g \in sweep.left : First(g) = First(UNION sweep.left)} :
         sweep' = [sweep EXCEPT !.pc = "post", !.left = @ \ {group},
                                !.group = {k \in sweep.claimed : k[1] \in group},
                                !.silent = group \subseteq Silent \/ sweep.loud >= MaxLoud,
                                !.attempt = 1, !.message = 0]
    /\ UNCHANGED <<lastSwept, ledger, outbox, told, spoiled, faults, World>>

\* An attempt that failed for the time being is repeated, the last one is not.
GiveUp == sweep' = [sweep EXCEPT !.pc = "settle", !.message = 0]
Again ==
    IF sweep.attempt < MaxAttempts
    THEN sweep' = [sweep EXCEPT !.pc = "post", !.attempt = @ + 1, !.message = 0]
    ELSE GiveUp

\* One POST of sendMessage: Telegram takes it, or nothing reaches Telegram, or it
\* is refused for good.
Post ==
    /\ sweep.pc = "post"
    /\ \/ /\ outbox' = Append(outbox, [keys |-> sweep.group, silent |-> sweep.silent,
                                        day |-> Day(sweep.started), try |-> sweep.attempt,
                                        heard |-> TRUE])
          /\ sweep' = [sweep EXCEPT !.pc = "answer", !.message = Len(outbox')]
          /\ UNCHANGED faults
       \/ Fault /\ Again /\ UNCHANGED outbox
       \/ Fault /\ GiveUp /\ UNCHANGED outbox
    /\ UNCHANGED <<lastSwept, ledger, told, spoiled, World>>

\* The answer to a message that was taken arrives; or it is lost, late, a server
\* error or not JSON, and the same message is posted once more.
Answer ==
    /\ sweep.pc = "answer"
    /\ \/ /\ sweep' = [sweep EXCEPT !.pc = "settle", !.loud = IF sweep.silent THEN @ ELSE @ + 1]
          /\ UNCHANGED <<outbox, faults>>
       \/ /\ Fault /\ Again
          /\ outbox' = [outbox EXCEPT ![sweep.message].heard = FALSE]
    /\ UNCHANGED <<lastSwept, ledger, told, spoiled, World>>

\* settle_notification, one row after the other.
Settle ==
    /\ sweep.pc = "settle"
    /\ \E k \in FirstOf(sweep.group) :
         /\ ledger' = [ledger EXCEPT ![k] = [@ EXCEPT !.settled = TRUE,
                                                 !.ok = sweep.message # 0,
                                                 !.silent = sweep.silent,
                                                 !.message = sweep.message]]
         /\ sweep' = [sweep EXCEPT !.group = @ \ {k},
                                   !.pc = IF sweep.group = {k} THEN "send" ELSE "settle"]
    /\ UNCHANGED <<lastSwept, outbox, told, spoiled, faults, World>>

EndSweep ==
    /\ sweep.pc = "send" /\ sweep.left = {}
    /\ Finish
    /\ UNCHANGED <<lastSwept, outbox, told, spoiled, faults, World>>

Next ==
    \/ \E i \in Item : Happens(i) \/ Ends(i)
    \/ Tick \/ Start \/ SwitchOn \/ SwitchOff \/ SaveSettings \/ Crash
    \/ Begin \/ ClaimNext \/ EndClaims \/ Send \/ Post \/ Answer \/ Settle \/ EndSweep

Spec == Init /\ [][Next]_vars

-----------------------------------------------------------------------------

Row == [at : Time \cup {Never}, settled : BOOLEAN, ok : BOOLEAN, silent : BOOLEAN, message : Nat]
Message == [keys : SUBSET Key, silent : BOOLEAN, day : Nat, try : 0 .. MaxAttempts,
            heard : BOOLEAN]
Sweep == [pc : {"idle", "claim", "send", "post", "answer", "settle"}, from : Int,
          plan : SUBSET Key, claimed : SUBSET Key, left : SUBSET SUBSET Item,
          group : SUBSET Key, attempt : 0 .. MaxAttempts, loud : Nat, silent : BOOLEAN,
          message : Nat, started : Time]

TypeOK ==
    /\ now \in Time
    /\ since \in [Item -> Time \cup {Never}]
    /\ mode \in {"down", "off", "on"}
    /\ lastSwept \in Time \cup {Never} /\ watching \in Time \cup {Never}
    /\ gap \in Nat
    /\ ledger \in [Key -> Row]
    /\ sweep \in Sweep
    /\ outbox \in Seq(Message)
    /\ told \subseteq Key /\ spoiled \subseteq Item
    /\ faults \in 0 .. MaxFaults

\* No occasion is said twice, whatever died or failed between its claim and its
\* settlement, and whatever the ledger has forgotten since; but for one case: a
\* message whose answer was lost is posted again as it is, a later attempt of the
\* same send, and Telegram, which cannot tell the two apart, may take both.
SaidOnce ==
    \A m, n \in DOMAIN outbox :
        m < n /\ outbox[m].keys \cap outbox[n].keys # {} =>
            /\ ~outbox[m].heard
            /\ outbox[m].keys = outbox[n].keys /\ outbox[m].try < outbox[n].try

\* No more than MaxLoud messages of one day make a sound; those of a sweep count
\* for the day it began.  A message whose answer was lost is not counted, though
\* Telegram may have taken it.
LoudCeiling ==
    \A d \in 0 .. Day(Horizon) :
        Cardinality({m \in DOMAIN outbox : /\ ~outbox[m].silent /\ outbox[m].heard
                                           /\ outbox[m].day = d}) <= MaxLoud

\* The window in which an occasion is to be claimed, where it has an end.
Opens(k) ==
    LET i == k[1] IN
    CASE RuleOf[i] = "at" -> When[i]
      [] RuleOf[i] = "lead" -> When[i] - Lead[i]
      [] RuleOf[i] = "clock" -> k[2] * DayLength + When[i]
      [] OTHER -> since[i]
Closes(k) ==
    LET i == k[1] IN
    CASE RuleOf[i] = "at" -> When[i] + MaxLate
      [] RuleOf[i] = "lead" -> When[i]
      [] RuleOf[i] = "clock" -> k[2] * DayLength
             + (IF When[i] + Stale < DayLength THEN When[i] + Stale ELSE DayLength) - 1
      [] OTHER -> since[i] + CatchUp
Occasions == {k \in Key : /\ RuleOf[k[1]] \in {"at", "lead", "clock", "booking"}
                          /\ RuleOf[k[1]] # "clock" => k[2] = 0}

\* A process that watched all through an occasion's window has claimed it by the
\* end, unless its rule failed: consecutive windows meet, and no reminder falls
\* between two of them, as long as no sweep began later after the one before than
\* the window is long.
NothingSlips ==
    \A k \in Occasions :
        /\ since[k[1]] # Never /\ since[k[1]] <= Opens(k)
        /\ watching # Never /\ watching <= Opens(k)
        /\ gap <= Closes(k) - Opens(k)
        /\ Closes(k) < now /\ k[1] \notin spoiled
        => k \in told \cup sweep.plan

-----------------------------------------------------------------------------
(* Why nothing is said twice.                                                *)

\* The instant the rules were evaluated at, or will be at the earliest.
Instant == IF sweep.pc = "idle" THEN now ELSE sweep.started

\* k can be due no more: its window is closed, its day is over, or the alarm it
\* answers has left the ledger.
Past(k, t) ==
    CASE RuleOf[k[1]] \in {"clock", "stalled"} -> Day(t) > k[2]
      [] RuleOf[k[1]] = "recovered" -> \A j \in AlarmRows : j[2] # k[2]
      [] OTHER -> t > Opens(k) + Retention

\* What a sweep has planned was due when it began.
Planned(k) ==
    CASE RuleOf[k[1]] \in {"clock", "stalled"} -> k[2] = Day(sweep.started)
      [] RuleOf[k[1]] = "recovered" -> \E j \in AlarmRows : j[2] = k[2]
      [] OTHER -> /\ since[k[1]] # Never
                  /\ Opens(k) <= sweep.started /\ sweep.started <= Opens(k) + Retention

\* A row is no older than its occasion.
Dated(k) ==
    CASE RuleOf[k[1]] \in {"clock", "stalled"} -> k[2] * DayLength <= ledger[k].at
      [] RuleOf[k[1]] = "recovered" -> \A j \in AlarmRows : j[2] = k[2] => ledger[j].at <= ledger[k].at
      [] OTHER -> Opens(k) <= ledger[k].at

\* The ledger forgets an occasion only when it can be due no more.
Remembered ==
    /\ \A i \in Item : since[i] <= now
    /\ \A k \in Key : Claimed(k) => k \in told /\ ledger[k].at <= now /\ Dated(k)
    /\ \A k \in told : Claimed(k) \/ Past(k, Instant)
    /\ \A k \in told : RuleOf[k[1]] = "booking" => since[k[1]] # Never
    /\ \A k \in told : RuleOf[k[1]] = "recovered" => \E j \in told : j[1] \in Alarm /\ j[2] = k[2]
    /\ \A k \in sweep.plan : Planned(k)

\* Nothing is known yet of what became of k.
Unsettled(k) == Claimed(k) /\ ~ledger[k].settled /\ ~ledger[k].silent

Sent(k) == \E m \in DOMAIN outbox : k \in outbox[m].keys

\* What a sweep has claimed is its own: not sent while it waits for its turn, and
\* in no message but the one under way while that is settled.
InHand ==
    /\ \A k \in sweep.claimed : k \in told /\ Claimed(k) /\ sweep.started <= ledger[k].at
    /\ \A k \in sweep.claimed : (sweep.pc = "claim" \/ k[1] \in UNION sweep.left)
                                    => Unsettled(k) /\ ~Sent(k)
    /\ \A g \in sweep.left : g # {} /\ \A i \in g : \E k \in sweep.claimed : k[1] = i
    /\ \A g, h \in sweep.left : g # h => g \cap h = {}
    /\ \A k \in sweep.group :
          /\ k \in sweep.claimed /\ k[1] \notin UNION sweep.left /\ Unsettled(k)
          /\ \A m \in DOMAIN outbox : k \in outbox[m].keys => m = sweep.message \/ ~outbox[m].heard
    /\ sweep.pc \in {"post", "answer"} =>
          \A m \in DOMAIN outbox \ {sweep.message} :
              outbox[m].keys \cap sweep.group # {} =>
                  outbox[m].keys = sweep.group /\ outbox[m].try < sweep.attempt
    /\ sweep.pc \in {"post", "answer", "settle"} <=> sweep.group # {}
    /\ sweep.pc # "claim" => sweep.plan = {}
    /\ sweep.pc \in {"idle", "claim"} => sweep.left = {}
    /\ sweep.pc = "idle" => sweep.claimed = {}
    /\ sweep.pc = "post" => sweep.message = 0
    /\ sweep.pc = "answer" =>
          /\ sweep.message # 0
          /\ outbox[sweep.message].keys = sweep.group
          /\ outbox[sweep.message].try = sweep.attempt
    /\ sweep.pc \in {"answer", "settle"} /\ sweep.message # 0 =>
          /\ sweep.message \in DOMAIN outbox
          /\ outbox[sweep.message].heard /\ outbox[sweep.message].silent = sweep.silent
          /\ outbox[sweep.message].day = Day(sweep.started)

-----------------------------------------------------------------------------
(* Why the ceiling holds.                                                    *)

Loud(d) == {m \in DOMAIN outbox : /\ ~outbox[m].silent /\ outbox[m].heard
                                   /\ outbox[m].day = d}

\* Of a message of today that made a sound, every row is still there and counts:
\* it has not been settled, or as part of that message.
Counts(k, m) ==
    /\ Claimed(k) /\ outbox[m].day * DayLength <= ledger[k].at /\ ~ledger[k].silent
    /\ ledger[k].settled => ledger[k].ok /\ ledger[k].message = m

Kept ==
    \A m \in DOMAIN outbox :
        /\ outbox[m].keys # {} /\ outbox[m].keys \subseteq told
        /\ outbox[m].day <= Day(Instant)
        /\ ~outbox[m].silent /\ outbox[m].heard =>
              Day(Instant) > outbox[m].day \/ \A k \in outbox[m].keys : Counts(k, m)

\* The sweep has counted no fewer messages than made a sound on its day, and lets
\* another make one only below the ceiling.
Counted ==
    /\ sweep.pc # "idle" =>
          Cardinality(Loud(Day(sweep.started)))
              <= sweep.loud + (IF sweep.pc = "answer" /\ ~sweep.silent THEN 1 ELSE 0)
    /\ sweep.pc \in {"post", "answer"} /\ ~sweep.silent => sweep.loud < MaxLoud

-----------------------------------------------------------------------------
(* Why nothing slips.                                                        *)

\* While it is on, the loop is never further than gap from the beginning of its
\* last sweep, or it has just been started or switched on and sweeps at once.
Pace ==
    /\ mode = "on" <=> watching # Never
    /\ watching <= now /\ lastSwept <= now
    /\ sweep.pc # "idle" => mode = "on" /\ lastSwept = sweep.started
    /\ mode = "on" =>
           \/ sweep.pc = "idle" /\ now = watching /\ sweep.from + Interval <= now /\ gap = 0
           \/ lastSwept # Never /\ watching <= lastSwept /\ now - lastSwept <= gap
    /\ mode # "on" => gap = 0

\* Whatever has come up before the last sweep, while the process watched, has been
\* claimed or is about to be; and so has what came up right then.
Swept ==
    lastSwept # Never =>
        \A k \in Occasions :
            /\ k[1] \notin spoiled /\ since[k[1]] # Never
            /\ \/ RuleOf[k[1]] # "booking" /\ Opens(k) = lastSwept
               \/ /\ watching # Never /\ watching <= Opens(k) /\ Opens(k) < lastSwept
                  /\ gap <= Closes(k) - Opens(k)
            => k \in told \cup sweep.plan

\* The inductive invariant of NotificationsProofs.
IInv ==
    /\ TypeOK /\ Remembered /\ InHand /\ SaidOnce
    /\ Kept /\ Counted /\ LoudCeiling
    /\ Pace /\ Swept
=============================================================================
