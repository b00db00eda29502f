---------------------------- MODULE MailPipeline ----------------------------
(***************************************************************************)
(* mail/pipeline.py and mail/review.py: one scan of a folder after another *)
(* turns messages into suggestions, while the owner approves and dismisses *)
(* suggestions.  The run lock admits one scan at a time.  Every statement  *)
(* of the store is atomic; the language model and the wire are asked with  *)
(* no lock held, so approvals, dismissals and other arrivals fall between  *)
(* any two steps of a scan.  A crash takes the scan and the approvals.     *)
(***************************************************************************)
EXTENDS MailStore

CONSTANTS
    Mailboxes,  \* what the copies may be: functions from Copy to Nature
    Old,        \* copies older than the backfill window
    NoCopy,
    Tab,        \* who approves: the owner's tabs
    Scanner,    \* and the scan itself, for what the model is sure of
    MaxPerRun,  \* MAX_PER_FOLDER_PER_RUN
    MaxTrouble, \* bound, for each mailbox: expunged messages, renumberings,
                \* crashes, stops, failed requests, all together
    MaxStaged   \* bound: suggestions

Approver == Tab \cup {Scanner}
Nature == {"none", "junk", "task", "event", "invite", "oversize", "broken", "poison"}

ASSUME CopyAssumption ==
    /\ NoCopy \notin Copy /\ IsFiniteSet(Copy)
    /\ Mailboxes \subseteq [Copy -> Nature]
    /\ Old \subseteq Copy
    /\ \A c, d \in Old : OwnKey(c) = OwnKey(d) => c = d
    /\ MaxStaged \in Nat /\ Cardinality(Old) <= MaxStaged
    /\ MaxPerRun \in Nat \ {0} /\ MaxInterrupted \in Nat \ {0}

VARIABLES
    nature,      \* nature[c]: what the local stages and the model make of c
    folder,      \* [validity, at]: at[uid] is the copy there, or NoCopy
    ledger, cursor, suggestions, threads, rejections,
    wire,        \* wire[i]: the messages told in the item that suggestion i made
    scan,        \* the scan under way
    approval,    \* the approvals under way
    stopping,
    arrived,     \* the copies the folder has ever held
    changes, faults

store == <<ledger, suggestions, threads, rejections>>
vars == <<nature, folder, ledger, cursor, suggestions, threads, rejections, wire, scan,
          approval, stopping, arrived, changes, faults>>

NoPlan == [what |-> "none", of |-> 0]
Idle == [pc |-> "idle", validity |-> 0, uidnext |-> 0, floor |-> 0, last |-> 0,
         top |-> 0, window |-> FALSE, truncated |-> FALSE, queue |-> {},
         complete |-> FALSE, again |-> FALSE, reconnected |-> FALSE,
         copy |-> NoCopy, uid |-> 0, plan |-> NoPlan]
NoApproval == [pc |-> "idle", of |-> 0, messages |-> {}]

Present(c) == \E u \in DOMAIN folder.at : folder.at[u] = c
MaxOf(S) == CHOOSE x \in S : \A y \in S : y <= x

\* The folder has never been scanned; or its old message, when it is a task,
\* has been, and was approved.
Past == {c \in Old : nature[c] = "task"}
Approved(c) == [origin |-> c, merged |-> {}, kind |-> "task", target |-> 0,
                status |-> "approved"]

Init ==
    /\ nature \in Mailboxes
    /\ folder \in {[validity |-> 1, at |-> s] :
                     s \in {t \in [1 .. Cardinality(Old) -> Old] :
                              {t[u] : u \in DOMAIN t} = Old}}
    /\ ledger = [k \in Key |-> IF \E c \in Past : k = OwnKey(c)
                              THEN [NoRow EXCEPT !.outcome = "staged"] ELSE NoRow]
    /\ cursor = IF Past = {} THEN NoCursor
                ELSE [validity |-> 1, last |-> Cardinality(Old), window |-> FALSE]
    /\ suggestions \in {s \in [1 .. Cardinality(Past) -> {Approved(c) : c \in Past}] :
                            \A c \in Past : \E i \in DOMAIN s :
                                \A j \in DOMAIN s : s[j].origin = c <=> j = i}
    /\ threads = [t \in Thread |->
                    IF \E i \in DOMAIN suggestions : ThreadOf[suggestions[i].origin] = t
                    THEN [suggestion |-> 0, task |-> 1] ELSE NoThread]
    /\ rejections = {}
    /\ wire = [i \in 1 .. MaxStaged |->
                 IF i \in DOMAIN suggestions THEN {suggestions[i].origin} ELSE {}]
    /\ scan = Idle
    /\ approval = [a \in Approver |-> NoApproval]
    /\ stopping = FALSE
    /\ arrived = Old
    /\ changes = 0
    /\ faults = 0

-----------------------------------------------------------------------------
(* The mailbox, between two sessions or during one.                         *)

Elsewhere == UNCHANGED <<nature, ledger, cursor, suggestions, threads, rejections, wire,
                         scan, approval, stopping, faults>>

\* A scan that has a message in hand does not look at the folder: what arrives
\* then arrives, to it, just after.
Deliver(c) ==
    /\ scan.pc \in {"idle", "search", "next"}
    /\ c \notin arrived /\ nature[c] # "none"
    /\ folder' = [folder EXCEPT !.at = Append(@, c)]
    /\ arrived' = arrived \cup {c}
    /\ UNCHANGED changes
    /\ Elsewhere

Expunge(u) ==
    /\ changes + faults < MaxTrouble[nature]
    /\ folder.at[u] # NoCopy
    /\ folder' = [folder EXCEPT !.at[u] = NoCopy]
    /\ changes' = changes + 1
    /\ UNCHANGED arrived
    /\ Elsewhere

\* The server numbers the folder anew; a session open at the time is cut off.
Renumber ==
    /\ changes + faults < MaxTrouble[nature]
    /\ scan.pc = "idle"
    /\ LET left == {u \in DOMAIN folder.at : folder.at[u] # NoCopy} IN
       \E s \in [1 .. Cardinality(left) -> left] :
         /\ \A i, j \in DOMAIN s : i < j => s[i] < s[j]
         /\ folder' = [validity |-> folder.validity + 1,
                       at |-> [i \in DOMAIN s |-> folder.at[s[i]]]]
    /\ changes' = changes + 1
    /\ UNCHANGED arrived
    /\ Elsewhere

-----------------------------------------------------------------------------
(* A scan: from the run lock to the search.                                 *)

Mailbox == <<nature, folder, arrived, changes>>
Fault == changes + faults < MaxTrouble[nature] /\ faults' = faults + 1
Stuck(i) == suggestions[i].status = "approving" /\ \A a \in Approver : approval[a].of # i

\* _scan: claims nobody settled are recovered; approvals nobody is working on
\* go back to pending, those old enough.
StartRun ==
    /\ scan.pc = "idle" /\ ~stopping
    /\ ledger' = RecoverUnsettled(ledger)
    /\ \E old \in SUBSET {i \in DOMAIN suggestions : Stuck(i)} :
         suggestions' = [i \in DOMAIN suggestions |->
                           IF i \in old THEN [suggestions[i] EXCEPT !.status = "pending"]
                                        ELSE suggestions[i]]
    /\ scan' = [Idle EXCEPT !.pc = "select"]
    /\ UNCHANGED <<cursor, threads, rejections, wire, approval, stopping, faults>>
    /\ UNCHANGED Mailbox

\* _scan_folder: where the cursor says to go on.  A folder never seen, one
\* numbered anew and one whose window was cut short are searched by date.
Select ==
    LET known == cursor.validity = folder.validity IN
    /\ scan.pc = "select"
    /\ LET floor == IF known THEN cursor.last ELSE 0
       IN  scan' = [scan EXCEPT !.pc = "search", !.validity = folder.validity,
                                !.uidnext = Len(folder.at) + 1, !.floor = floor,
                                !.last = floor, !.window = ~known \/ cursor.window]
    /\ UNCHANGED <<store, cursor, wire, approval, stopping, faults, Mailbox>>

Search ==
    LET found == {u \in DOMAIN folder.at :
                    /\ u > scan.floor /\ folder.at[u] # NoCopy
                    /\ scan.window => folder.at[u] \notin Old}
        first == {u \in found : Cardinality({v \in found : v < u}) < MaxPerRun}
    IN  /\ scan.pc = "search"
        /\ scan' = [scan EXCEPT !.pc = "next", !.queue = first, !.truncated = first # found,
                                !.top = IF first = {} THEN 0 ELSE MaxOf(first)]
        /\ UNCHANGED <<store, cursor, wire, approval, stopping, faults, Mailbox>>

\* The loop of _scan_folder ends: with nothing left, or before its end.
Leave(again, complete) ==
    scan' = [scan EXCEPT !.pc = "cursor", !.again = again, !.complete = complete,
                         !.copy = NoCopy, !.uid = 0, !.plan = NoPlan, !.queue = {}]

\* A message was dealt with for good: the cursor may pass it.
Passed == scan' = [scan EXCEPT !.pc = "next", !.last = scan.uid, !.copy = NoCopy,
                               !.uid = 0, !.plan = NoPlan]

\* Mutant: a message to be tried again does not end the loop.
RetryPassesOn == Passed

\* A transient outcome: the loop breaks, and the cursor stays before the message.
Retry == Leave(FALSE, FALSE)

\* _skip_oversize: claimed and settled in one transaction, and passed.
SkipOversize(c, u) ==
    /\ ledger' = IF Claimable(ledger, OversizeKey(c))
                 THEN Settle(Claim(ledger, OversizeKey(c)), OversizeKey(c), "skipped")
                 ELSE ledger
    /\ scan' = [scan EXCEPT !.queue = @ \ {u}, !.last = u]

\* The next message is fetched; its bytes are claimed before they are parsed.
Fetch ==
    /\ scan.pc = "next" /\ ~stopping
    /\ \E u \in scan.queue :
         LET c == folder.at[u]
             k == RawKey(c)
             rest == scan.queue \ {u}
         IN  /\ \A v \in scan.queue : u <= v
             /\ \/ /\ c = NoCopy
                   /\ scan' = [scan EXCEPT !.queue = rest]
                   /\ UNCHANGED ledger
                \/ /\ c # NoCopy /\ nature[c] = "oversize"
                   /\ SkipOversize(c, u)
                \/ /\ c # NoCopy /\ nature[c] # "oversize" /\ Claimable(ledger, k)
                   /\ ledger' = Claim(ledger, k)
                   /\ scan' = [scan EXCEPT !.pc = "parse", !.queue = rest, !.uid = u,
                                           !.copy = c]
                \/ /\ c # NoCopy /\ nature[c] # "oversize" /\ ~Claimable(ledger, k)
                   /\ UNCHANGED ledger
                   /\ IF Settled(ledger, k)
                      THEN scan' = [scan EXCEPT !.queue = rest, !.last = u]
                      ELSE Retry
    /\ UNCHANGED <<cursor, suggestions, threads, rejections, wire, approval,
                   stopping, faults, Mailbox>>

EndOfFolder ==
    /\ scan.pc = "next"
    /\ stopping \/ scan.queue = {}
    /\ Leave(FALSE, ~stopping)
    /\ UNCHANGED <<store, cursor, wire, approval, stopping, faults, Mailbox>>

\* A network failure while fetching: the cursor is saved, the connection is
\* made once more and the same folder is scanned again.
Disconnect ==
    /\ scan.pc \in {"search", "next"}
    /\ Fault
    /\ IF scan.reconnected THEN Leave(FALSE, FALSE)
       ELSE scan' = [scan EXCEPT !.pc = "cursor", !.again = TRUE, !.complete = FALSE,
                                 !.reconnected = TRUE, !.queue = {}]
    /\ UNCHANGED <<store, cursor, wire, approval, stopping, Mailbox>>

-----------------------------------------------------------------------------
(* process_message: one message, from its claim to its one ledger row.      *)

Quiet == UNCHANGED <<cursor, rejections, wire, stopping, Mailbox>>
DecideOnly == UNCHANGED <<suggestions, threads, approval>>

\* What cannot be parsed is settled under that claim; the rest is claimed
\* under its own key, in the transaction that gives the first claim back.
Parse ==
    LET raw == RawKey(scan.copy)
        own == OwnKey(scan.copy)
        freed == Release(ledger, raw)
    IN  /\ scan.pc = "parse"
        /\ \/ /\ nature[scan.copy] = "broken"
              /\ ledger' = Settle(ledger, raw, "error")
              /\ Passed
           \/ /\ nature[scan.copy] # "broken" /\ own = raw
              /\ ledger' = ledger
              /\ scan' = [scan EXCEPT !.pc = "stages"]
           \/ /\ nature[scan.copy] # "broken" /\ own # raw /\ Claimable(freed, own)
              /\ ledger' = Claim(freed, own)
              /\ scan' = [scan EXCEPT !.pc = "stages"]
           \/ /\ nature[scan.copy] # "broken" /\ own # raw /\ ~Claimable(freed, own)
              /\ ledger' = freed
              /\ IF Settled(freed, own) THEN Passed ELSE Retry  \* _claim_lost
        /\ DecideOnly /\ Quiet /\ UNCHANGED faults

\* The stages before the model: rejected before, or settled by a local rule.
LocalStages ==
    LET k == OwnKey(scan.copy) IN
    /\ scan.pc = "stages"
    /\ \/ /\ IsRejectedMessage(rejections, k)
          /\ ledger' = Settle(ledger, k, "suppressed")
          /\ Passed
       \/ /\ ~IsRejectedMessage(rejections, k) /\ nature[scan.copy] = "junk"
          /\ ledger' = Settle(ledger, k, "skipped")
          /\ Passed
    /\ DecideOnly /\ Quiet /\ UNCHANGED faults

Hook(t, i) == [threads EXCEPT ![t].suggestion = i]
Room == Len(suggestions) < MaxStaged

\* _stage_fastpath: an invitation becomes an event, or changes the pending
\* suggestion its UID already has; the owner's no stands.
FastPath ==
    LET c == scan.copy
        t == ThreadOf[c]
        old == InviteSuggestion(suggestions, c)
        status == IF old = 0 THEN "none" ELSE suggestions[old].status
    IN  /\ scan.pc = "stages" /\ nature[c] = "invite"
        /\ ~IsRejectedMessage(rejections, OwnKey(c))
        /\ \/ /\ status = "none" /\ Room
              /\ suggestions' = Insert(suggestions, c, "invite", 0)
              /\ threads' = Hook(t, Len(suggestions'))
              /\ ledger' = Settle(ledger, OwnKey(c), "staged")
           \/ /\ status = "pending"
              /\ \/ /\ suggestions' = Attach(suggestions, old, c)
                    /\ threads' = Hook(t, old)
                    /\ ledger' = Settle(ledger, OwnKey(c), "attached")
                 \/ /\ UNCHANGED <<suggestions, threads>>
                    /\ ledger' = Settle(ledger, OwnKey(c), "duplicate")
           \/ /\ status \in {"approving", "approved", "rejected"}
              /\ ledger' = Settle(ledger, OwnKey(c),
                                  IF status = "rejected" THEN "suppressed" ELSE "duplicate")
              /\ UNCHANGED <<suggestions, threads>>
        /\ Passed
        /\ Quiet /\ UNCHANGED <<approval, faults>>

Pending(i) == suggestions[i].status = "pending"

\* search_open_tasks_any: the tasks on the owner's lists; that they share a word is
\* left out.
OpenTasks == {i \in DOMAIN suggestions : suggestions[i].kind = "task" /\ wire[i] # {}}

\* _dedup, the reads: what the message is compared with, and the answers the
\* model may give.  Its thread's pending suggestion is fed without asking.
Plans(c) ==
    LET t == ThreadOf[c]
        th == threads[t]
        plan(what, S) == {[what |-> what, of |-> i] : i \in S}
        suppressed == IF RejectedIn(rejections, t) THEN plan("suppressed", {0}) ELSE {}
        held == {i \in InThread(suggestions, t) :
                   /\ suggestions[i].kind \in {"event", "invite"}
                   /\ suggestions[i].status \in {"approved", "approving"}}
    IN  IF th.suggestion # 0 /\ Pending(th.suggestion) THEN plan("merge", {th.suggestion})
        ELSE suppressed \cup
             (IF nature[c] = "event" /\ held # {} THEN plan("duplicate", {0}) ELSE {}) \cup
             (IF nature[c] = "task" /\ th.task # 0
              THEN plan("duplicate", {0}) \cup plan("update", {th.task})
              ELSE plan("new", {0})
                     \cup plan("merge", {i \in DOMAIN suggestions : Pending(i)})
                     \cup (IF nature[c] = "task"
                           THEN plan("update", OpenTasks) \cup plan("same task", OpenTasks)
                           ELSE {}))

\* What the model is asked about.
Asked ==
    /\ scan.pc = "stages"
    /\ ~IsRejectedMessage(rejections, OwnKey(scan.copy))
    /\ nature[scan.copy] \in {"task", "event"}

Dedup ==
    /\ Asked
    /\ \E p \in Plans(scan.copy) : scan' = [scan EXCEPT !.pc = "write", !.plan = p]
    /\ UNCHANGED ledger /\ DecideOnly /\ Quiet /\ UNCHANGED faults

\* The model answers that the message asks for nothing, or fails for good.
NotActionable ==
    /\ Asked
    /\ \E o \in {"not_actionable", "error"} : ledger' = Settle(ledger, OwnKey(scan.copy), o)
    /\ Passed
    /\ DecideOnly /\ Quiet /\ UNCHANGED faults

\* _llm_failed: rate limits and bad keys release the claim; the first is tried
\* again next time, the second ends the run.  Either way the loop ends here.
ModelFailed ==
    /\ Asked
    /\ Fault
    /\ ledger' = Release(ledger, OwnKey(scan.copy))
    /\ Retry
    /\ DecideOnly /\ Quiet

\* Mutant: the row is not read again inside the transaction of the merge.
StillPendingUnchecked(i) == TRUE

StillPending(i) == Pending(i)

\* The scan goes on with the approval of what it has just staged.
ApproveItself(i) ==
    /\ approval' = [approval EXCEPT ![Scanner] = [pc |-> "read", of |-> i, messages |-> {}]]
    /\ scan' = [scan EXCEPT !.pc = "auto", !.plan = NoPlan]

\* _stage_new: the suggestion, its thread and the ledger in one transaction;
\* then, when the model was sure enough, its approval by the scan itself.
StageNew(c) ==
    /\ Room
    /\ suggestions' = Insert(suggestions, c, nature[c], 0)
    /\ threads' = Hook(ThreadOf[c], Len(suggestions'))
    /\ ledger' = Settle(ledger, OwnKey(c), "staged")
    /\ \/ Passed /\ UNCHANGED approval
       \/ nature[c] = "task" /\ ApproveItself(Len(suggestions'))

\* The transaction that records what _dedup made of the message.
Write ==
    LET c == scan.copy
        k == OwnKey(c)
        p == scan.plan
    IN  /\ scan.pc = "write"
        /\ \/ p.what = "new" /\ StageNew(c)
           \/ p.what = "merge" /\ ~StillPending(p.of) /\ StageNew(c)
           \/ /\ p.what = "merge" /\ StillPending(p.of)
              /\ suggestions' = Attach(suggestions, p.of, c)
              /\ threads' = Hook(ThreadOf[c], p.of)
              /\ ledger' = Settle(ledger, k, "attached")
              /\ Passed /\ UNCHANGED approval
           \/ /\ p.what = "update" /\ Room
              /\ suggestions' = Insert(suggestions, c, "update", p.of)
              /\ threads' = Hook(ThreadOf[c], Len(suggestions'))
              /\ ledger' = Settle(ledger, k, "staged")
              /\ Passed /\ UNCHANGED approval
           \/ /\ p.what = "same task"
              /\ threads' = [threads EXCEPT ![ThreadOf[c]].task = p.of]
              /\ ledger' = Settle(ledger, k, "duplicate")
              /\ Passed /\ UNCHANGED <<suggestions, approval>>
           \/ /\ p.what \in {"duplicate", "suppressed"}
              /\ ledger' = Settle(ledger, k, p.what)
              /\ Passed /\ UNCHANGED <<suggestions, threads, approval>>
        /\ Quiet /\ UNCHANGED faults

\* approve has returned, or raised an error nobody sees.
AutoDone ==
    /\ scan.pc = "auto" /\ approval[Scanner].pc = "idle"
    /\ Passed
    /\ UNCHANGED <<store, approval, faults>> /\ Quiet

\* The cursor a scan leaves behind: past the messages dealt with; past the
\* whole window, to UIDNEXT, once it was read to its end.
EndsAt ==
    IF ~scan.complete THEN MaxOf({scan.last, scan.floor})
    ELSE LET read == MaxOf({scan.last, scan.floor, scan.top})
         IN  IF (scan.window /\ ~scan.truncated) \/ (~scan.window /\ scan.top = 0)
             THEN MaxOf({read, scan.uidnext - 1})
             ELSE read

SaveCursor ==
    /\ scan.pc = "cursor"
    /\ cursor' = IF scan.complete \/ scan.last > scan.floor
                 THEN [validity |-> scan.validity, last |-> EndsAt,
                       window |-> scan.window /\ (~scan.complete \/ scan.truncated)]
                 ELSE cursor
    /\ scan' = IF scan.again /\ ~stopping
               THEN [Idle EXCEPT !.pc = "select", !.reconnected = TRUE]
               ELSE Idle
    /\ UNCHANGED <<store, wire, approval, stopping, faults, Mailbox>>

-----------------------------------------------------------------------------
(* review.py: the owner approves or dismisses, in as many tabs as there are. *)

Step(a, pc) == approval' = [approval EXCEPT ![a].pc = pc]
Done(a) == approval' = [approval EXCEPT ![a] = NoApproval]
Aside == UNCHANGED <<ledger, cursor, scan, stopping, Mailbox>>
TablesOnly == UNCHANGED <<wire, faults>>

ApproveRead(a, i) ==
    /\ \/ a \in Tab /\ approval[a].pc = "idle" /\ Pending(i)
       \/ approval[a].pc = "read" /\ approval[a].of = i
    /\ IF Pending(i)
       THEN approval' = [approval EXCEPT ![a] = [pc |-> "swap", of |-> i, messages |-> {}]]
       ELSE Done(a)
    /\ UNCHANGED <<suggestions, threads, rejections>> /\ Aside /\ TablesOnly

\* The compare-and-set, and the row read again: nothing merges into a row that
\* is no longer pending, so the two statements show the same messages.
ApproveSwap(a) ==
    LET i == approval[a].of IN
    /\ approval[a].pc = "swap"
    /\ suggestions' = Transition(suggestions, i, "pending", "approving")
    /\ IF Pending(i)
       THEN approval' = [approval EXCEPT ![a].pc = "write",
                                        ![a].messages = Messages(suggestions[i])]
       ELSE Done(a)
    /\ UNCHANGED <<threads, rejections>> /\ Aside /\ TablesOnly

\* An item is created once: its UID is the suggestion's id, and a second
\* create of it leaves it as it is.  An update appends what is not yet there.
Written(i, messages) ==
    LET s == suggestions[i] IN
    IF s.kind = "update" THEN [wire EXCEPT ![s.target] = @ \cup messages]
    ELSE IF wire[i] = {} THEN [wire EXCEPT ![i] = messages] ELSE wire

ApproveWrite(a) ==
    /\ approval[a].pc = "write"
    /\ \/ /\ wire' = Written(approval[a].of, approval[a].messages)
          /\ Step(a, "finish")
          /\ UNCHANGED faults
       \/ /\ Fault
          /\ \/ wire' = wire
             \/ wire' = Written(approval[a].of, approval[a].messages)
          /\ Step(a, "rollback")
    /\ UNCHANGED <<suggestions, threads, rejections>> /\ Aside

\* finish: one transaction; the outcome of the compare-and-set is not looked at.
ApproveFinish(a) ==
    LET i == approval[a].of
        s == suggestions[i]
        t == ThreadOf[s.origin]
        feeds == IF threads[t].suggestion = i THEN 0 ELSE threads[t].suggestion
        task == IF s.kind = "task" THEN i
                ELSE IF s.kind = "update" THEN s.target ELSE threads[t].task
    IN  /\ approval[a].pc = "finish"
        /\ suggestions' = Transition(suggestions, i, "approving", "approved")
        /\ threads' = [threads EXCEPT ![t] = [suggestion |-> feeds, task |-> task]]
        /\ Done(a)
        /\ UNCHANGED rejections /\ Aside /\ TablesOnly

ApproveRollback(a) ==
    /\ approval[a].pc = "rollback"
    /\ suggestions' = Transition(suggestions, approval[a].of, "approving", "pending")
    /\ Done(a)
    /\ UNCHANGED <<threads, rejections>> /\ Aside /\ TablesOnly

\* reject: the swap, a row for every message in the suggestion, the thread's
\* hook, in one transaction.
Reject(i) ==
    LET t == ThreadOf[suggestions[i].origin] IN
    /\ CanMove(suggestions, i, "pending")
    /\ suggestions' = MoveTo(suggestions, i, "rejected")
    /\ rejections' = rejections \cup RejectionsOf(suggestions, i)
    /\ threads' = IF threads[t].suggestion = i THEN Hook(t, 0) ELSE threads
    /\ UNCHANGED approval /\ Aside /\ TablesOnly

-----------------------------------------------------------------------------
(* The process.                                                             *)

Die ==
    /\ scan' = Idle
    /\ approval' = [a \in Approver |-> NoApproval]
    /\ stopping' = FALSE
    /\ UNCHANGED <<store, cursor, wire, Mailbox>>

Busy == scan.pc # "idle" \/ \E a \in Approver : approval[a].pc # "idle"

Crash == Busy /\ Fault /\ Die

\* A message that kills the process, in the parser or after it.
Poisoned ==
    /\ scan.pc \in {"parse", "stages"}
    /\ nature[scan.copy] = "poison"
    /\ Die
    /\ UNCHANGED faults

\* Shutdown lets the scan finish the message in hand, then waits for it.
RequestStop ==
    /\ ~stopping /\ Fault
    /\ stopping' = TRUE
    /\ UNCHANGED <<store, cursor, wire, scan, approval, Mailbox>>

Restart ==
    /\ stopping /\ ~Busy
    /\ stopping' = FALSE
    /\ UNCHANGED <<store, cursor, wire, scan, approval, faults, Mailbox>>

ScanNext ==
    \/ StartRun \/ Select \/ Search \/ Fetch \/ EndOfFolder \/ SaveCursor
    \/ Parse \/ LocalStages \/ FastPath \/ Dedup \/ NotActionable
    \/ Write \/ AutoDone \/ Poisoned

ApproveNext(a) ==
    \/ \E i \in DOMAIN suggestions : approval[a].pc = "read" /\ ApproveRead(a, i)
    \/ ApproveSwap(a) \/ ApproveWrite(a)
    \/ ApproveFinish(a) \/ ApproveRollback(a)

Owner ==
    \E i \in DOMAIN suggestions :
        Reject(i) \/ \E a \in Tab : approval[a].pc = "idle" /\ ApproveRead(a, i)

Outside ==
    \/ \E c \in Copy : Deliver(c)
    \/ \E u \in DOMAIN folder.at : Expunge(u)
    \/ Renumber

Next ==
    \/ ScanNext \/ Disconnect \/ ModelFailed
    \/ \E a \in Approver : ApproveNext(a)
    \/ Owner \/ Outside
    \/ Crash \/ RequestStop \/ Restart

Spec == Init /\ [][Next]_vars

\* The loop scans for ever, an approval goes on to its end, a process that
\* stops is started again.  The owner and the mailbox owe nothing.
FairSpec ==
    /\ Spec
    /\ WF_vars(ScanNext)
    /\ \A a \in Approver : WF_vars(ApproveNext(a))
    /\ WF_vars(Restart)

-----------------------------------------------------------------------------

ScanPc == {"idle", "select", "search", "next", "parse", "stages",
           "write", "auto", "cursor"}

Plan == [what : {"none", "new", "merge", "update", "same task", "duplicate", "suppressed"},
         of : 0 .. MaxStaged]
Scan == [pc : ScanPc, validity : Nat, uidnext : Nat, floor : Nat, last : Nat, top : Nat,
         window : BOOLEAN, truncated : BOOLEAN, queue : SUBSET Nat, complete : BOOLEAN,
         again : BOOLEAN, reconnected : BOOLEAN, copy : Copy \cup {NoCopy}, uid : Nat,
         plan : Plan]
Approval == [pc : {"idle", "read", "swap", "write", "finish", "rollback"},
             of : 0 .. MaxStaged, messages : SUBSET Copy]
InHand == {"parse", "stages", "write", "auto"}

TypeOK ==
    /\ nature \in [Copy -> Nature]
    /\ folder \in [validity : Nat, at : Seq(Copy \cup {NoCopy})]
    /\ ledger \in [Key -> LedgerRow]
    /\ cursor \in [validity : Nat, last : Nat, window : BOOLEAN]
    /\ suggestions \in Seq(Suggestion) /\ Len(suggestions) <= MaxStaged
    /\ threads \in [Thread -> [suggestion : 0 .. Len(suggestions), task : 0 .. Len(suggestions)]]
    /\ wire \in [1 .. MaxStaged -> SUBSET Copy]
    /\ scan \in Scan
    /\ scan.pc \in InHand <=> scan.copy # NoCopy
    /\ approval \in [Approver -> Approval]

Decided(c) == \E k \in {RawKey(c), OwnKey(c), OversizeKey(c)} : Settled(ledger, k)

\* The cursor never passes a message nobody decided: transient failures, a
\* message that kills the scan, a stop, a window cut short and a folder
\* numbered anew lose no mail (pipeline.py, _scan_folder).
PassedIsDecided ==
    cursor.validity = folder.validity =>
        \A u \in DOMAIN folder.at :
            u <= cursor.last /\ folder.at[u] \notin Old \cup {NoCopy}
                => Decided(folder.at[u])

\* A message is proposed once, however often it is delivered, scanned or
\* interrupted, and the ledger says where it went: what is settled as staged is
\* the origin of a suggestion, what is settled as attached is merged into one.
OnePlace ==
    /\ \A i, j \in DOMAIN suggestions :
         \A c \in Messages(suggestions[i]), d \in Messages(suggestions[j]) :
             OwnKey(c) = OwnKey(d) => i = j /\ c = d
    /\ \A i \in DOMAIN suggestions :
         /\ ledger[OwnKey(suggestions[i].origin)].outcome = "staged"
         /\ \A c \in suggestions[i].merged : ledger[OwnKey(c)].outcome = "attached"
    /\ \A k \in Key : ledger[k].outcome \in {"staged", "attached"} =>
         \E i \in DOMAIN suggestions, c \in Copy :
             c \in Messages(suggestions[i]) /\ OwnKey(c) = k

OnWire(i) ==
    IF suggestions[i].kind = "update"
    THEN Messages(suggestions[i]) \subseteq wire[suggestions[i].target]
    ELSE suggestions[i].origin \in wire[i]

\* What was approved is on the wire; of an update, every message merged into
\* it, whatever was merged between the attempts to approve it.
ApprovedIsWritten ==
    \A i \in DOMAIN suggestions :
        suggestions[i].status = "approved" => OnWire(i)

\* Why these hold.  A row that is released can be claimed again and has strikes
\* left; one key at most is claimed and not settled, that of the message in hand.
ClaimsOK ==
    /\ \A k \in Key : ledger[k].released => ledger[k].outcome = Unsettled
    /\ \A k \in Key : ledger[k].outcome = Unsettled => ledger[k].strikes < MaxInterrupted
    /\ \A j, k \in Key : Held(ledger, j) /\ Held(ledger, k) => j = k
    /\ \A k \in Key : Held(ledger, k) =>
         \/ scan.pc = "idle"
         \/ scan.pc = "parse" /\ k = RawKey(scan.copy)
         \/ scan.pc \in {"stages", "write"} /\ k = OwnKey(scan.copy)
    /\ scan.pc = "parse" => Held(ledger, RawKey(scan.copy))
    /\ scan.pc \in {"stages", "write"} => Held(ledger, OwnKey(scan.copy))
    /\ scan.pc = "auto" => Settled(ledger, OwnKey(scan.copy))

CursorOK ==
    /\ cursor.validity <= folder.validity
    /\ cursor.validity = folder.validity => cursor.last <= Len(folder.at)

\* What a scan has left behind it is dealt with; of what it found, what is not
\* is in its queue or in hand; and past that, if it was all, is nothing new.
DealtWith(u) == folder.at[u] \in Old \cup {NoCopy} \/ Decided(folder.at[u])

Reading ==
    scan.pc \notin {"idle", "select"} =>
        /\ scan.validity = folder.validity
        /\ scan.floor <= scan.last /\ scan.last <= Len(folder.at)
        /\ scan.uidnext \in 1 .. Len(folder.at) + 1
        /\ scan.pc = "search" => scan.last = scan.floor
        /\ \A u \in 1 .. scan.last : DealtWith(u)

Searched ==
    scan.pc \in {"next"} \cup InHand \/ (scan.pc = "cursor" /\ scan.complete) =>
        /\ scan.top <= Len(folder.at)
        /\ scan.queue \subseteq 1 .. scan.top
        /\ \A u \in scan.queue : scan.last < u
        /\ \A u \in 1 .. scan.top :
              u \in scan.queue \/ (scan.pc \in InHand /\ u = scan.uid) \/ DealtWith(u)
        /\ ~scan.truncated \/ scan.top = 0 =>
              \A u \in 1 .. (scan.uidnext - 1) : u <= scan.top \/ DealtWith(u)
        /\ scan.pc = "cursor" => scan.queue = {}

Handled ==
    scan.pc \in InHand =>
        /\ scan.uid \in 1 .. scan.top /\ scan.last < scan.uid
        /\ \A u \in scan.queue : scan.uid < u
        /\ folder.at[scan.uid] \in {scan.copy, NoCopy}

\* An approval past the swap has its suggestion to itself, as it read it; an item
\* on the wire begins with the origin of its suggestion; and what a thread, an
\* update or a plan of the scan refers to is there.
Swapped == {"write", "finish", "rollback"}

ApprovalsOK ==
    /\ \A a \in Approver : approval[a].pc # "idle" => approval[a].of \in DOMAIN suggestions
    /\ \A a \in Approver : approval[a].pc \in Swapped =>
         /\ suggestions[approval[a].of].status = "approving"
         /\ approval[a].messages = Messages(suggestions[approval[a].of])
    /\ \A a, b \in Approver : approval[a].pc \in Swapped /\ approval[b].pc \in Swapped =>
         (approval[a].of = approval[b].of => a = b)
    /\ \A a \in Approver : approval[a].pc = "finish" => OnWire(approval[a].of)

ItemsOK ==
    /\ \A i \in 1 .. MaxStaged : wire[i] # {} =>
         i \in DOMAIN suggestions /\ suggestions[i].origin \in wire[i]
    /\ \A t \in Thread : threads[t].task # 0 => wire[threads[t].task] # {}
    /\ \A i \in DOMAIN suggestions : suggestions[i].kind = "update" =>
         suggestions[i].target \in 1 .. MaxStaged /\ wire[suggestions[i].target] # {}
    /\ scan.pc = "write" =>
         /\ nature[scan.copy] \in {"task", "event"}
         /\ scan.plan.what \in {"merge", "update", "same task"} =>
               scan.plan.of \in DOMAIN suggestions
         /\ scan.plan.what \in {"update", "same task"} => wire[scan.plan.of] # {}

\* The inductive invariant of MailProofs.
IInv ==
    /\ TypeOK
    /\ ClaimsOK
    /\ CursorOK /\ PassedIsDecided /\ Reading /\ Searched /\ Handled
    /\ OnePlace /\ ApprovalsOK /\ ItemsOK /\ ApprovedIsWritten

\* Once nothing more arrives and nothing more fails, every message that is still
\* in the folder has been decided, whatever failed on the way.
EveryMessageDecided == <>[](\A c \in Copy \ Old : Present(c) => Decided(c))

\* The abstract inbox that all this implements.
MessageKey == {OwnKey(c) : c \in Copy}
Verdict == [k \in MessageKey |-> IF Settled(ledger, k) THEN ledger[k].outcome ELSE "none"]
Shown(i) == CASE suggestions[i].status \in {"pending", "approving"} -> "open"
              [] OTHER -> suggestions[i].status
Card == [k \in MessageKey |->
           IF \E i \in DOMAIN suggestions : OwnKey(suggestions[i].origin) = k
           THEN Shown(CHOOSE i \in DOMAIN suggestions :
                          OwnKey(suggestions[i].origin) = k)
           ELSE "none"]
Abstract == INSTANCE Inbox WITH Message <- MessageKey, verdict <- Verdict, card <- Card

\* The pipeline implements Inbox: one verdict per message, for good; a card
\* appears with the verdict that asks for it and is answered once.
ImplementsInbox == Abstract!Spec
=============================================================================
