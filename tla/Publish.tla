------------------------------ MODULE Publish ------------------------------
(***************************************************************************)
(* Delivery of one content item to its channels: the API transactions that *)
(* approve, schedule, reject and settle a post, the pg-boss publish queue   *)
(* with its dead-letter queue, and the worker that claims the send, calls   *)
(* the platform and records a receipt.  Every action below is one database  *)
(* transaction, one platform call or one move of the queue.                 *)
(***************************************************************************)
EXTENDS Integers, Sequences, FiniteSets

CONSTANTS
    Adaptations,    \* the item's fan-out: one adaptation per channel
    Manual,         \* adaptations whose platform a person publishes by hand
    Unsupported,    \* adaptations whose platform has no adapter in the worker
    Handlers,       \* concurrent executions of worker callbacks
    RetryLimit,     \* pg-boss retryLimit of the publish queue
    MaxLateness,    \* PUBLISH_MAX_LATENESS_HOURS, in ticks
    MaxTime,        \* bound: the clock stops here
    MaxSlot,        \* bound: the last slot a person picks
    MaxDecisions,   \* bound: how many API transactions people make
    None            \* "no adaptation"

ASSUME PublishAssumption ==
    /\ Manual \subseteq Adaptations
    /\ Unsupported \subseteq Adaptations \ Manual
    /\ None \notin Adaptations
    /\ RetryLimit \in Nat
    /\ MaxLateness \in Nat
    /\ MaxTime \in Nat
    /\ MaxSlot \in Nat
    /\ MaxDecisions \in Nat

VARIABLES
    item,           \* content_items.status
    archivedFrom,   \* content_items.archived_from_status
    status,         \* adaptations.status
    attempt,        \* adaptations.attempt_count
    slot,           \* adaptations.scheduled_at; 0 is null, "publish now"
    receipts,       \* the publications rows of an adaptation, in creation order
    cleared,        \* history: a person vouched that claims up to here are not live
    jobs,           \* rows of the publish queue
    deadLetters,    \* adaptations with a job in the dead-letter queue
    worker,         \* the local variables of each running callback
    now,            \* the database clock
    decisions       \* bound counter of API transactions

itemVars  == <<item, archivedFrom>>
rowVars   == <<status, attempt, slot>>
queueVars == <<jobs, deadLetters>>
vars == <<item, archivedFrom, status, attempt, slot, receipts, cleared,
          jobs, deadLetters, worker, now, decisions>>

ItemStatuses == {"draft", "approved", "partially_published", "rejected",
                 "published", "failed", "archived"}
Statuses     == {"pending", "manual_ready", "scheduled", "queued",
                 "publishing", "published", "failed"}
Outstanding  == {"queued", "scheduled", "publishing"}

(***************************************************************************)
(* A receipt.  "released" is a row that releaseSend deleted.  Two fields    *)
(* are history and read by no action: posted, the platform really created   *)
(* the post; superseded, the claim's own handler ended it as unknown after  *)
(* a newer attempt had taken the adaptation.                                *)
(***************************************************************************)
ReceiptStatuses == {"in_flight", "published", "failed", "unknown", "released"}
Receipt == [st : ReceiptStatuses, att : Nat, human : BOOLEAN, ext : BOOLEAN,
            posted : BOOLEAN, superseded : BOOLEAN]

NewReceipt(st, att, human) ==
    [st |-> st, att |-> att, human |-> human, ext |-> FALSE,
     posted |-> FALSE, superseded |-> FALSE]

Job == [a : Adaptations, n : Nat, at : Nat, left : Nat,
        state : {"waiting", "active", "dead"}]

PCs == {"idle", "fetched", "loaded", "unsupported", "ready", "marked",
        "unclaimed", "claimed", "replied", "exhausting", "returning", "throwing"}

Replies == {"none", "published", "accepted", "unknown", "permanent", "transient"}

\* What a callback remembers between its awaits: its job (a, n), the fence
\* (st, att), the slot it read and how that stood to the clock, its claim.
Idle == [pc |-> "idle", a |-> None, n |-> 0, st |-> "pending", att |-> 0,
         slot |-> 0, due |-> "now", claim |-> 0, reply |-> "none"]

Worker == [pc : PCs, a : Adaptations \cup {None}, n : Nat, st : Statuses, att : Nat,
           slot : Nat, due : {"early", "now", "late"}, claim : Nat, reply : Replies]

(***************************************************************************)
(* Queries                                                                  *)
(***************************************************************************)
RowsIn(rows, states) == {i \in DOMAIN rows : rows[i].st \in states}
InFlight(a)  == RowsIn(receipts[a], {"in_flight"})
Finished(a)  == RowsIn(receipts[a], {"published", "failed", "unknown"})
Latest(S)    == CHOOSE i \in S : \A j \in S : j <= i

\* deliveryOutcomeSql: only a failed adaptation asks its last finished receipt.
OutcomeUnknown(a) ==
    /\ status[a] = "failed"
    /\ Finished(a) # {}
    /\ receipts[a][Latest(Finished(a))].st = "unknown"

\* noLiveJobFor: no row below completed in any queue names the adaptation.
NoLiveJob(a) ==
    /\ a \notin deadLetters
    /\ \A j \in jobs : j.a = a => j.state = "dead"

IdFree(a, n) == ~ \E j \in jobs : j.a = a /\ j.n = n

\* Faulty: any published delivery publishes the item.
NextItemStatusAny(sts) ==
    IF \E a \in Adaptations : sts[a] = "published" THEN "published" ELSE item

\* nextItemStatus, which leaves the item alone until every delivery is over.
NextItemStatus(sts) ==
    IF \A a \in Adaptations : sts[a] = "published" THEN "published"
    ELSE IF \A a \in Adaptations : sts[a] = "failed" THEN "failed"
    ELSE IF \A a \in Adaptations : sts[a] \in {"published", "failed"}
         THEN "partially_published"
    ELSE item

\* recomputeItemStatus, in the transaction that ended a delivery.
RecomputeItem(sts) ==
    /\ item' = IF item = "archived" THEN item ELSE NextItemStatus(sts)
    /\ UNCHANGED archivedFrom

(***************************************************************************)
(* Writes shared by several transactions                                    *)
(***************************************************************************)
\* Faulty: forgets that only a claim in flight may be resolved.
ClaimedAny(rows, claim) == {i \in DOMAIN rows : claim \in {0, i}}

\* The rows resolveClaim updates: one claim by its key, or with no claim (0)
\* whichever row of the adaptation is in flight.
Claimed(rows, claim) ==
    {i \in RowsIn(rows, {"in_flight"}) : claim \in {0, i}}

\* Faulty: leaves the attempt number of the claim it resolves.
ResolveClaimAsClaimed(rows, claim, st, att) ==
    IF Claimed(rows, claim) = {}
    THEN Append(rows, NewReceipt(st, att, FALSE))
    ELSE [i \in DOMAIN rows |->
            IF i \in Claimed(rows, claim) THEN [rows[i] EXCEPT !.st = st] ELSE rows[i]]

ResolveClaim(rows, claim, st, att) ==
    IF Claimed(rows, claim) = {}
    THEN Append(rows, NewReceipt(st, att, FALSE))
    ELSE [i \in DOMAIN rows |->
            IF i \in Claimed(rows, claim)
            THEN [rows[i] EXCEPT !.st = st, !.att = att] ELSE rows[i]]

\* Faulty: takes silence for proof that nothing was sent.
UnreportedFailed(a) == "failed"

\* What an attempt that nobody reported on is recorded as.
Unreported(a) == IF InFlight(a) # {} THEN "unknown" ELSE "failed"

\* An update of one row by its primary key.
WithReceipt(a, i, row) == [receipts EXCEPT ![a] = [receipts[a] EXCEPT ![i] = row]]

\* FAILED_ATTEMPT_COUNT
FailedAttempt(a) ==
    IF status[a] = "publishing" THEN attempt[a] ELSE attempt[a] + 1

\* cancelPublish: every live job of these adaptations, found by payload.
Cancelled(A) ==
    {IF j.a \in A THEN [j EXCEPT !.state = "dead"] ELSE j : j \in jobs}

NewJob(a, n, at) ==
    [a |-> a, n |-> n, at |-> at, left |-> RetryLimit, state |-> "waiting"]

\* An API transaction made by a person.
Decide == /\ decisions < MaxDecisions
          /\ decisions' = decisions + 1
          /\ UNCHANGED <<worker, now, deadLetters>>

(***************************************************************************)
(* The API: what people decide                                              *)
(***************************************************************************)
\* Faulty: sends again what nobody knows the outcome of.
SendableUnknown == {a \in Adaptations : status[a] \in {"pending", "failed", "scheduled"}}

\* What an approve sends: everything not yet sent, unless its outcome is unknown.
Sendable == {a \in Adaptations : /\ status[a] \in {"pending", "failed", "scheduled"}
                                 /\ ~ OutcomeUnknown(a)}
Automatic == Sendable \ Manual

\* The attempt an approve enqueues: a cancelled scheduled job keeps its id.
NextJob(a) == IF status[a] = "scheduled" THEN attempt[a] + 1 ELSE attempt[a]

\* approve(slot s); an unknown outcome is skipped, or refused when nothing else
\* could be sent, and a schedule must reach every channel.
Approve(s) ==
    LET unknown == {a \in Adaptations : OutcomeUnknown(a)}
        ready   == {a \in Adaptations : status[a] = "manual_ready"}
    IN  /\ Decide
        /\ item \notin {"published", "archived"}
        /\ s # 0 => /\ s > now
                    /\ unknown \cup ready \cup (Sendable \cap Manual) = {}
                    /\ \A a \in Adaptations : status[a] \notin {"queued", "publishing"}
        /\ Sendable = {} => unknown \cup ready = {}
        /\ \A a \in Automatic : IdFree(a, NextJob(a))
        /\ status' = [a \in Adaptations |->
                        IF a \in Automatic THEN (IF s = 0 THEN "queued" ELSE "scheduled")
                        ELSE IF a \in Sendable THEN "manual_ready" ELSE status[a]]
        /\ slot' = [a \in Adaptations |->
                        IF a \in Automatic THEN s ELSE IF a \in Sendable THEN 0 ELSE slot[a]]
        /\ attempt' = [a \in Adaptations |->
                        IF a \in Automatic THEN NextJob(a) ELSE attempt[a]]
        /\ jobs' = Cancelled({a \in Automatic : status[a] = "scheduled"})
                     \cup {NewJob(a, NextJob(a), s) : a \in Automatic}
        /\ item' = "approved"
        /\ UNCHANGED <<archivedFrom, receipts, cleared>>

\* The guards of changeAdaptationSchedule; the one-minute lead is "before due".
Reschedulable(a) ==
    LET uncertain == {i \in DOMAIN receipts[a] :
                        \/ receipts[a][i].st = "unknown"
                        \/ receipts[a][i].st = "failed" /\ receipts[a][i].human}
    IN  /\ item \in {"approved", "partially_published"}
        /\ status[a] = "scheduled"
        /\ a \notin Manual
        /\ slot[a] > now
        /\ RowsIn(receipts[a], {"in_flight", "published"}) = {}
        /\ uncertain # {} => receipts[a][Latest(uncertain)].st # "unknown"

Reschedule(a, s) ==
    /\ Decide
    /\ Reschedulable(a)
    /\ s > now /\ s # slot[a]
    /\ IdFree(a, attempt[a] + 1)
    /\ slot' = [slot EXCEPT ![a] = s]
    /\ attempt' = [attempt EXCEPT ![a] = @ + 1]
    /\ jobs' = Cancelled({a}) \cup {NewJob(a, attempt[a] + 1, s)}
    /\ UNCHANGED <<itemVars, status, receipts, cleared>>

\* Faulty: a cancelled slot keeps its attempt count.
CancelScheduleKeepingCount(a) ==
    /\ Decide
    /\ Reschedulable(a)
    /\ slot' = [slot EXCEPT ![a] = 0]
    /\ status' = [status EXCEPT ![a] = "pending"]
    /\ jobs' = Cancelled({a})
    /\ UNCHANGED <<itemVars, attempt, receipts, cleared>>

CancelSchedule(a) ==
    /\ Decide
    /\ Reschedulable(a)
    /\ slot' = [slot EXCEPT ![a] = 0]
    /\ attempt' = [attempt EXCEPT ![a] = @ + 1]
    /\ status' = [status EXCEPT ![a] = "pending"]
    /\ jobs' = Cancelled({a})
    /\ UNCHANGED <<itemVars, receipts, cleared>>

\* retractApproval: only before any publication row ever existed.
Retract ==
    LET hadJob == {a \in Adaptations : status[a] \in {"scheduled", "queued"}}
    IN  /\ Decide
        /\ item = "approved"
        /\ \A a \in Adaptations : /\ status[a] \in {"pending", "scheduled", "queued"}
                                  /\ receipts[a] = <<>>
        /\ status' = [a \in Adaptations |-> "pending"]
        /\ slot' = [a \in Adaptations |-> 0]
        /\ attempt' = [a \in Adaptations |->
                          IF a \in hadJob THEN attempt[a] + 1 ELSE attempt[a]]
        /\ jobs' = Cancelled(hadJob)
        /\ item' = "draft"
        /\ UNCHANGED <<archivedFrom, receipts, cleared>>

\* reject: stops what has not started; refused while a send is in flight.
Reject ==
    LET stopped == {a \in Adaptations : status[a] \in Outstanding \cup {"manual_ready"}}
        live    == \E a \in Adaptations : status[a] = "published"
    IN  /\ Decide
        /\ \A a \in stopped : status[a] = "publishing" => InFlight(a) = {}
        /\ item \notin {"published", "archived"}
        /\ live => stopped # {}
        /\ status' = [a \in Adaptations |-> IF a \in stopped THEN "pending" ELSE status[a]]
        /\ slot' = [a \in Adaptations |-> IF a \in stopped THEN 0 ELSE slot[a]]
        /\ attempt' = [a \in Adaptations |->
                          IF status[a] \in Outstanding THEN attempt[a] + 1 ELSE attempt[a]]
        /\ jobs' = Cancelled({a \in stopped : status[a] # "manual_ready"})
        /\ item' = IF live THEN "partially_published" ELSE "rejected"
        /\ UNCHANGED <<archivedFrom, receipts, cleared>>

Archive ==
    /\ Decide
    /\ item # "archived"
    /\ \A a \in Adaptations : status[a] \notin Outstanding \cup {"manual_ready"}
    /\ item' = "archived"
    /\ archivedFrom' = item
    /\ UNCHANGED <<rowVars, receipts, cleared, jobs>>

Restore ==
    /\ Decide
    /\ item = "archived"
    /\ item' = archivedFrom
    /\ archivedFrom' = "draft"
    /\ UNCHANGED <<rowVars, receipts, cleared, jobs>>

\* assertDelivery: a person says what became of an unknown delivery.
AssertDelivery(a, delivered) ==
    LET verdict == IF delivered THEN "published" ELSE "failed"
    IN  /\ Decide
        /\ item # "archived"
        /\ OutcomeUnknown(a)
        /\ receipts[a][Latest(Finished(a))].att = attempt[a]
        /\ status' = [status EXCEPT ![a] = verdict]
        /\ cleared' = [cleared EXCEPT ![a] = IF delivered THEN @ ELSE Len(receipts[a])]
        /\ receipts' = [receipts EXCEPT ![a] = Append(@, NewReceipt(verdict, attempt[a], TRUE))]
        /\ item' = NextItemStatus(status')
        /\ UNCHANGED <<archivedFrom, attempt, slot, jobs>>

\* confirmManualPublication: the person has posted it themselves.
ConfirmManual(a) ==
    /\ Decide
    /\ a \in Manual
    /\ status[a] = "manual_ready"
    /\ status' = [status EXCEPT ![a] = "published"]
    /\ receipts' = [receipts EXCEPT ![a] = Append(@, NewReceipt("published", attempt[a], TRUE))]
    /\ item' = NextItemStatus(status')
    /\ UNCHANGED <<archivedFrom, attempt, slot, cleared, jobs>>

(***************************************************************************)
(* pg-boss, as src/ uses it                                                 *)
(***************************************************************************)
Running(h) == worker[h].pc \notin {"idle", "exhausting"}
JobsOf(h)  == {j \in jobs : j.a = worker[h].a /\ j.n = worker[h].n}

\* Faulty: one retry past the limit.
FailJobsOnceMore(J) ==
    /\ jobs' = (jobs \ J) \cup {[j EXCEPT !.state = "waiting", !.left = @ - 1] : j \in J}
    /\ UNCHANGED deadLetters

\* A failed execution is retried under the same id, or goes to the dead letters.
FailJobs(J) ==
    /\ jobs' = (jobs \ J) \cup
               {IF j.left = 0 THEN [j EXCEPT !.state = "dead"]
                ELSE [j EXCEPT !.state = "waiting", !.left = @ - 1] : j \in J}
    /\ deadLetters' = deadLetters \cup {j.a : j \in {k \in J : k.left = 0}}

\* groupConcurrency 1: no second active job of the same channel.
Fetch(h, j) ==
    /\ worker[h].pc = "idle"
    /\ j.state = "waiting" /\ j.at <= now
    /\ ~ \E k \in jobs : k.a = j.a /\ k.state = "active"
    /\ jobs' = (jobs \ {j}) \cup {[j EXCEPT !.state = "active"]}
    /\ worker' = [worker EXCEPT ![h] = [Idle EXCEPT !.pc = "fetched", !.a = j.a, !.n = j.n]]
    /\ UNCHANGED <<itemVars, rowVars, receipts, cleared, deadLetters, now, decisions>>

\* The callback returned: complete() ends whichever execution holds the id now.
Complete(h) ==
    /\ worker[h].pc = "returning"
    /\ jobs' = {IF j \in JobsOf(h) /\ j.state = "active"
                THEN [j EXCEPT !.state = "dead"] ELSE j : j \in jobs}
    /\ worker' = [worker EXCEPT ![h] = Idle]
    /\ UNCHANGED <<itemVars, rowVars, receipts, cleared, deadLetters, now, decisions>>

\* The callback threw: fail() takes the job in any state below completed.
Fail(h) ==
    /\ worker[h].pc = "throwing"
    /\ FailJobs({j \in JobsOf(h) : j.state # "dead"})
    /\ worker' = [worker EXCEPT ![h] = Idle]
    /\ UNCHANGED <<itemVars, rowVars, receipts, cleared, now, decisions>>

\* Missed heartbeat or expiry.  The callback may be gone, or may still be running.
Timeout(j) ==
    /\ j.state = "active"
    /\ FailJobs({j})
    /\ UNCHANGED <<itemVars, rowVars, receipts, cleared, worker, now, decisions>>

\* Retention deletes a job row that no callback is executing.
DropJob(j) ==
    /\ j.state # "active"
    /\ jobs' = jobs \ {j}
    /\ UNCHANGED <<itemVars, rowVars, receipts, cleared, deadLetters, worker, now, decisions>>

\* The worker process dies with everything its callback remembered.
Crash(h) ==
    /\ worker[h].pc # "idle"
    /\ worker' = [worker EXCEPT ![h] = Idle]
    /\ UNCHANGED <<itemVars, rowVars, receipts, cleared, queueVars, now, decisions>>

\* A dead letter has no dead letters of its own: after its default retries, or
\* by retention, it ends unanswered.
DropDeadLetter(a) ==
    /\ a \in deadLetters
    /\ deadLetters' = deadLetters \ {a}
    /\ UNCHANGED <<itemVars, rowVars, receipts, cleared, jobs, worker, now, decisions>>

Tick ==
    /\ now < MaxTime
    /\ now' = now + 1
    /\ UNCHANGED <<itemVars, rowVars, receipts, cleared, queueVars, worker, decisions>>

(***************************************************************************)
(* The worker: PublishService.handle, one await at a time                   *)
(***************************************************************************)
Elsewhere == <<cleared, queueVars, now, decisions>>
Database  == <<itemVars, rowVars, receipts>>

\* Faulty: a late verdict lands on whatever the row has become.
FenceIgnored(h) == TRUE

\* fencedBy: the row is still exactly as this callback's attempt left it.
FenceHeld(h) ==
    LET w == worker[h]
    IN  status[w.a] = w.st /\ attempt[w.a] = w.att

Goto(h, pc) == worker' = [worker EXCEPT ![h].pc = pc]

\* Only the job's identity matters once a callback is about to return or throw.
Leave(h, pc) ==
    worker' = [worker EXCEPT ![h] =
                 [Idle EXCEPT !.pc = pc, !.a = worker[h].a, !.n = worker[h].n]]

\* load(), and the early returns that ask only about the row it read.
Load(h) ==
    LET a   == worker[h].a
        due == IF slot[a] = 0 THEN "now"
               ELSE IF slot[a] > now THEN "early"
               ELSE IF now - slot[a] > MaxLateness THEN "late" ELSE "now"
    IN  /\ worker[h].pc = "fetched"
        /\ IF status[a] = "published" \/ a \in Manual \/ item \in {"rejected", "archived"}
           THEN Leave(h, "returning")
           ELSE worker' = [worker EXCEPT ![h].pc = "loaded", ![h].st = status[a],
                                         ![h].att = attempt[a], ![h].slot = slot[a],
                                         ![h].due = due]
        /\ UNCHANGED <<Database, Elsewhere>>

\* hasPublished(), then a slot that moved into the future, then the adapter.
CheckSent(h) ==
    LET a == worker[h].a
    IN  /\ worker[h].pc = "loaded"
        /\ IF RowsIn(receipts[a], {"published"}) # {} \/ worker[h].due = "early"
           THEN Leave(h, "returning")
           ELSE Goto(h, IF a \in Unsupported THEN "unsupported" ELSE "ready")
        /\ UNCHANGED <<Database, Elsewhere>>

\* markPublishing: takes the attempt if the row is claimable, at the slot read.
Mark(h) ==
    LET a == worker[h].a
    IN  /\ worker[h].pc = "ready"
        /\ IF /\ item \notin {"rejected", "archived"}
              /\ status[a] \in Outstanding
              /\ slot[a] = worker[h].slot
           THEN /\ status' = [status EXCEPT ![a] = "publishing"]
                /\ attempt' = [attempt EXCEPT ![a] = @ + 1]
                /\ worker' = [worker EXCEPT ![h].pc = "marked", ![h].slot = 0,
                                ![h].st = "publishing", ![h].att = attempt[a] + 1]
           ELSE Leave(h, "returning") /\ UNCHANGED <<status, attempt>>
        /\ UNCHANGED <<itemVars, slot, receipts, Elsewhere>>

\* Faulty: without the unique index, and without the fence.
ClaimAgain(h) == FenceHeld(h)
ClaimLate(h)  == InFlight(worker[h].a) = {}

\* claimSend: one in-flight row per adaptation, for the current attempt only.
MayClaim(h) == FenceHeld(h) /\ InFlight(worker[h].a) = {}

Claim(h) ==
    LET a == worker[h].a
    IN  /\ worker[h].pc = "marked"
        /\ IF MayClaim(h)
           THEN /\ receipts' = [receipts EXCEPT ![a] =
                                  Append(@, NewReceipt("in_flight", attempt[a], FALSE))]
                /\ worker' = [worker EXCEPT ![h].pc = "claimed",
                                            ![h].claim = Len(receipts[a]) + 1]
           ELSE Goto(h, "unclaimed") /\ UNCHANGED receipts
        /\ UNCHANGED <<itemVars, rowVars, Elsewhere>>

\* The platform call.  Adapters answer "permanent" or "transient" only when
\* nothing was created; "unknown" when they cannot tell.
Send(h, reply, posted) ==
    LET w   == worker[h]
        row == receipts[w.a][w.claim]
    IN  /\ w.pc = "claimed" /\ w.due = "now"
        /\ reply \in {"published", "accepted"} => posted
        /\ reply \in {"permanent", "transient"} => ~ posted
        /\ receipts' = WithReceipt(w.a, w.claim, [row EXCEPT !.posted = posted])
        /\ worker' = [worker EXCEPT ![h].pc = "replied", ![h].reply = reply]
        /\ UNCHANGED <<itemVars, rowVars, Elsewhere>>

\* markFailed.  With the fence held it ends the attempt; with the fence lost it
\* only ends the claim it owns, if that is still in flight.
MarkFailed(h, outcome) ==
    LET w    == worker[h]
        rows == receipts[w.a]
    IN  IF FenceHeld(h)
        THEN /\ status' = [status EXCEPT ![w.a] = "failed"]
             /\ attempt' = [attempt EXCEPT ![w.a] = FailedAttempt(w.a)]
             /\ receipts' = [receipts EXCEPT ![w.a] =
                               ResolveClaim(rows, w.claim, outcome, FailedAttempt(w.a))]
             /\ RecomputeItem(status')
             /\ UNCHANGED slot
        ELSE /\ receipts' = IF w.claim \in RowsIn(rows, {"in_flight"})
                            THEN WithReceipt(w.a, w.claim,
                                   [rows[w.claim] EXCEPT !.st = outcome, !.att = w.att,
                                                  !.superseded = (outcome = "unknown")])
                            ELSE receipts
             /\ UNCHANGED <<itemVars, rowVars>>

\* Which terminal failure this callback has reached, if any.
Verdict(h) ==
    LET w == worker[h]
    IN  CASE w.pc = "unsupported"                       -> "failed"
          [] w.pc = "unclaimed"                         -> "unknown"
          [] w.pc = "claimed" /\ w.due = "late"         -> "failed"
          [] w.pc = "replied" /\ w.reply = "permanent"  -> "failed"
          [] w.pc = "replied" /\ w.reply = "unknown"    -> "unknown"
          [] OTHER                                      -> "none"

RecordFailure(h) ==
    /\ Verdict(h) # "none"
    /\ MarkFailed(h, Verdict(h))
    /\ Leave(h, "returning")
    /\ UNCHANGED Elsewhere

\* Faulty: the receipt says published though the attempt is no longer current.
RecordPublishedLate(h) ==
    LET w   == worker[h]
        row == receipts[w.a][w.claim]
    IN  /\ w.pc = "replied" /\ w.reply = "published"
        /\ status' = IF FenceHeld(h) THEN [status EXCEPT ![w.a] = "published"] ELSE status
        /\ receipts' = WithReceipt(w.a, w.claim, [row EXCEPT !.st = "published", !.ext = TRUE])
        /\ RecomputeItem(status')
        /\ Leave(h, "returning")
        /\ UNCHANGED <<attempt, slot, Elsewhere>>

\* markPublished: only while the attempt and its claim are both still current.
RecordPublished(h) ==
    LET w   == worker[h]
        row == receipts[w.a][w.claim]
    IN  /\ w.pc = "replied" /\ w.reply = "published"
        /\ IF FenceHeld(h) /\ row.st = "in_flight" /\ row.att = w.att
           THEN /\ status' = [status EXCEPT ![w.a] = "published"]
                /\ receipts' = WithReceipt(w.a, w.claim,
                                  [row EXCEPT !.st = "published", !.ext = TRUE])
                /\ RecomputeItem(status')
           ELSE UNCHANGED <<itemVars, status, receipts>>
        /\ Leave(h, "returning")
        /\ UNCHANGED <<attempt, slot, Elsewhere>>

\* markAcceptedPublication: the provider's ids are kept on an unknown receipt.
RecordAccepted(h) ==
    LET w    == worker[h]
        row  == receipts[w.a][w.claim]
        held == FenceHeld(h)
    IN  /\ w.pc = "replied" /\ w.reply = "accepted"
        /\ IF row.att = w.att /\ row.st \in {"in_flight", "unknown"} /\ ~ row.human
           THEN /\ receipts' = WithReceipt(w.a, w.claim,
                                  [row EXCEPT !.st = "unknown", !.ext = TRUE,
                                     !.superseded = @ \/ (row.st = "in_flight" /\ ~ held)])
                /\ status' = IF held THEN [status EXCEPT ![w.a] = "failed"] ELSE status
                /\ IF held THEN RecomputeItem(status') ELSE UNCHANGED itemVars
           ELSE UNCHANGED <<itemVars, status, receipts>>
        /\ Leave(h, "returning")
        /\ UNCHANGED <<attempt, slot, Elsewhere>>

\* releaseSend and recordTransient, then the rethrow that makes pg-boss retry.
ReleaseAndThrow(h) ==
    LET w   == worker[h]
        row == receipts[w.a][w.claim]
    IN  /\ w.pc = "replied" /\ w.reply = "transient"
        /\ receipts' = IF row.st = "in_flight"
                       THEN WithReceipt(w.a, w.claim, [row EXCEPT !.st = "released"])
                       ELSE receipts
        /\ Leave(h, "throwing")
        /\ UNCHANGED <<itemVars, rowVars, Elsewhere>>

\* A verdict or receipt write fails for good: it is logged and swallowed, and
\* only a transient failure still rethrows.
LoseWrite(h) ==
    /\ worker[h].pc = "replied" \/ Verdict(h) # "none"
    /\ Leave(h, IF worker[h].reply = "transient" THEN "throwing" ELSE "returning")
    /\ UNCHANGED <<Database, Elsewhere>>

\* Any other database call throws out of the callback.
DatabaseError(h) ==
    /\ worker[h].pc \in {"fetched", "loaded", "ready", "marked"}
    /\ Leave(h, "throwing")
    /\ UNCHANGED <<Database, Elsewhere>>

(***************************************************************************)
(* Dead letters and sweeps                                                  *)
(***************************************************************************)
\* markExhausted reads the row: only an attempt left in publishing is failed.
TakeDeadLetter(h, a) ==
    /\ worker[h].pc = "idle"
    /\ a \in deadLetters
    /\ IF status[a] = "publishing"
       THEN /\ worker' = [worker EXCEPT ![h] = [Idle EXCEPT !.pc = "exhausting", !.a = a,
                                                  !.st = "publishing", !.att = attempt[a]]]
            /\ UNCHANGED deadLetters
       ELSE deadLetters' = deadLetters \ {a} /\ UNCHANGED worker
    /\ UNCHANGED <<Database, cleared, jobs, now, decisions>>

\* The write of markExhausted, as unknown when a claim is still in flight; a
\* failing write is swallowed and ends the letter.
Exhaust(h) ==
    /\ worker[h].pc = "exhausting"
    /\ \/ MarkFailed(h, Unreported(worker[h].a))
       \/ UNCHANGED Database
    /\ deadLetters' = deadLetters \ {worker[h].a}
    /\ worker' = [worker EXCEPT ![h] = Idle]
    /\ UNCHANGED <<cleared, jobs, now, decisions>>

Abandoned(a) == status[a] = "publishing" /\ NoLiveJob(a)

\* Faulty: looks only for missed slots.
StrandedSlot(a) == NoLiveJob(a) /\ status[a] = "scheduled" /\ slot[a] + MaxLateness < now

Stranded(a) ==
    /\ NoLiveJob(a)
    /\ \/ status[a] = "queued"
       \/ status[a] = "scheduled" /\ slot[a] + MaxLateness < now

\* Both sweeps fail every row they find, as unknown when a claim is in flight,
\* and leave attempt_count alone.
Sweep(S) ==
    /\ S # {}
    /\ status' = [a \in Adaptations |-> IF a \in S THEN "failed" ELSE status[a]]
    /\ receipts' = [a \in Adaptations |->
                      IF a \in S
                      THEN ResolveClaim(receipts[a], 0, Unreported(a), attempt[a])
                      ELSE receipts[a]]
    /\ RecomputeItem(status')
    /\ UNCHANGED <<attempt, slot, Elsewhere, worker>>

\* Which rows are old enough is a matter of updated_at, hence the subset.
SweepAbandoned(S) == (\A a \in S : Abandoned(a)) /\ Sweep(S)
SweepStranded(S)  == (\A a \in S : Stranded(a)) /\ Sweep(S)

(***************************************************************************)
(* The system                                                               *)
(***************************************************************************)
Init ==
    /\ item = "draft"
    /\ archivedFrom = "draft"
    /\ status = [a \in Adaptations |-> "pending"]
    /\ attempt = [a \in Adaptations |-> 0]
    /\ slot = [a \in Adaptations |-> 0]
    /\ receipts = [a \in Adaptations |-> <<>>]
    /\ cleared = [a \in Adaptations |-> 0]
    /\ jobs = {}
    /\ deadLetters = {}
    /\ worker = [h \in Handlers |-> Idle]
    /\ now = 0
    /\ decisions = 0

Slots == 1..MaxSlot

PersonStep ==
    \/ \E s \in Slots \cup {0} : Approve(s)
    \/ \E a \in Adaptations, s \in Slots : Reschedule(a, s)
    \/ \E a \in Adaptations : CancelSchedule(a)
    \/ Retract
    \/ Reject
    \/ Archive
    \/ Restore
    \/ \E a \in Adaptations, delivered \in BOOLEAN : AssertDelivery(a, delivered)
    \/ \E a \in Adaptations : ConfirmManual(a)

\* What a callback does once it has a job, crashes aside.
HandlerStep(h) ==
    \/ Load(h)
    \/ CheckSent(h)
    \/ Mark(h)
    \/ Claim(h)
    \/ \E reply \in Replies \ {"none"}, posted \in BOOLEAN : Send(h, reply, posted)
    \/ RecordFailure(h)
    \/ RecordPublished(h)
    \/ RecordAccepted(h)
    \/ ReleaseAndThrow(h)
    \/ LoseWrite(h)
    \/ DatabaseError(h)
    \/ Exhaust(h)
    \/ Complete(h)
    \/ Fail(h)

FetchOf(a) == \E h \in Handlers, j \in jobs : j.a = a /\ Fetch(h, j)
TakeDeadLetterOf(a) == \E h \in Handlers : TakeDeadLetter(h, a)

SweepStep ==
    \/ \E S \in SUBSET Adaptations : SweepAbandoned(S)
    \/ \E S \in SUBSET Adaptations : SweepStranded(S)

Next ==
    \/ PersonStep
    \/ \E h \in Handlers : HandlerStep(h)
    \/ \E h \in Handlers : Crash(h)
    \/ \E a \in Adaptations : FetchOf(a)
    \/ \E a \in Adaptations : TakeDeadLetterOf(a)
    \/ \E a \in Adaptations : DropDeadLetter(a)
    \/ \E j \in jobs : Timeout(j)
    \/ \E j \in jobs : DropJob(j)
    \/ SweepStep
    \/ Tick

Spec == Init /\ [][Next]_vars

(***************************************************************************)
(* Fairness.  Callbacks run on, the queue delivers, a job whose callback is *)
(* gone times out, a dead letter runs out of retries, the sweeps are cron   *)
(* jobs and the clock moves.  People need not act; crashes, lost job rows   *)
(* and early timeouts need not happen.                                      *)
(***************************************************************************)
TimeoutOrphan(a) ==
    \E j \in jobs : /\ j.a = a
                    /\ ~ \E h \in Handlers : Running(h) /\ j \in JobsOf(h)
                    /\ Timeout(j)

Fairness ==
    /\ \A h \in Handlers : WF_vars(HandlerStep(h))
    /\ \A a \in Adaptations : /\ WF_vars(FetchOf(a))
                              /\ WF_vars(DropDeadLetter(a))
                              /\ WF_vars(TimeoutOrphan(a))
                              /\ WF_vars(SweepAbandoned({a}))
                              /\ WF_vars(SweepStranded({a}))
    /\ WF_vars(Tick)

FairSpec == Spec /\ Fairness

(***************************************************************************)
(* Properties                                                               *)
(***************************************************************************)
\* Every variable keeps its type, for the bounds the schema gives it.
TypeOK ==
    /\ item \in ItemStatuses
    /\ archivedFrom \in ItemStatuses
    /\ status \in [Adaptations -> Statuses]
    /\ attempt \in [Adaptations -> Nat]
    /\ slot \in [Adaptations -> Nat]
    /\ receipts \in [Adaptations -> Seq(Receipt)]
    /\ cleared \in [Adaptations -> Nat]
    /\ jobs \subseteq Job
    /\ deadLetters \subseteq Adaptations
    /\ worker \in [Handlers -> Worker]
    /\ now \in Nat
    /\ decisions \in Nat

\* A callback past its fetch has an adaptation, and past its claim a receipt.
WorkersOwnRows ==
    \A h \in Handlers :
        /\ worker[h].pc # "idle" => worker[h].a \in Adaptations
        /\ worker[h].pc \in {"claimed", "replied"} =>
             worker[h].claim \in DOMAIN receipts[worker[h].a]

\* A claim is in flight only while its adaptation is publishing, on an item
\* nobody has rejected or archived, and never before the slot: reject, archive
\* and rescheduling cannot leave a send authorised behind their back.
LiveClaimAuthorised ==
    \A a \in Adaptations : InFlight(a) # {} =>
        /\ status[a] = "publishing"
        /\ item \notin {"rejected", "archived"}
        /\ slot[a] <= now

\* Posts on the platform that no person has vouched are gone.
Unsettled(a) == {i \in DOMAIN receipts[a] : receipts[a][i].posted /\ i > cleared[a]}
Superseded(a) == {i \in DOMAIN receipts[a] : receipts[a][i].superseded}

\* However attempts, retries, zombies, crashes, sweeps and re-approvals
\* interleave, at most one post of an adaptation is live that a person has not
\* declared undelivered, save claims superseded while still unknown.
AtMostOnePost ==
    \A a \in Adaptations : \A i, j \in Unsettled(a) \ Superseded(a) : i = j

\* The same without the exception: "unknown" is never re-sent on its own.
NoUnverifiedResend ==
    \A a \in Adaptations : \A i, j \in Unsettled(a) : i = j

\* A delivery reported as failed, hence offered for another send, left nothing
\* live on the platform (superseded claims excepted as above).
FailedLeftNothingLive ==
    \A a \in Adaptations :
        status[a] = "failed" /\ ~ OutcomeUnknown(a) => Unsettled(a) \ Superseded(a) = {}

\* An adaptation is published exactly when one receipt says so: the row and its
\* receipts never tell two stories, and the unique index is never hit.
PublishedOnce ==
    \A a \in Adaptations :
        Cardinality(RowsIn(receipts[a], {"published"})) =
            IF status[a] = "published" THEN 1 ELSE 0

\* A delivery whose outcome is unknown can always be settled: assertDelivery
\* finds the receipt at the current attempt count and does not answer 409.
UnknownIsResolvable ==
    \A a \in Adaptations : OutcomeUnknown(a) =>
        receipts[a][Latest(Finished(a))].att = attempt[a]

\* The next approve of a pending adaptation finds its job id unused, and no job
\* id ever runs ahead of attempt_count.
JobIdsBehind ==
    \A j \in jobs : IF status[j.a] \in {"pending", "publishing", "published"}
                    THEN j.n < attempt[j.a] ELSE j.n <= attempt[j.a]

\* FAILED_ATTEMPT_COUNT: after any call that lands the row in failed, the job
\* id of the next approve is fresh.
FailedIdFresh ==
    \A a \in Adaptations :
        status[a] = "failed" /\ ~ OutcomeUnknown(a) => IdFree(a, attempt[a])

\* The item says published exactly when every channel does.
ItemTellsFanOut ==
    LET told == IF item = "archived" THEN archivedFrom ELSE item
    IN  told = "published" <=> \A a \in Adaptations : status[a] = "published"

\* What a person settled, no retry, zombie, dead letter or sweep moves again:
\* only another decision leaves these statuses.
HumanDecisionStands ==
    [][ decisions' = decisions =>
          /\ \A a \in Adaptations :
               status[a] \in {"pending", "failed", "published", "manual_ready"}
                 => UNCHANGED <<status[a], attempt[a], slot[a]>>
          /\ item \in {"draft", "rejected", "archived", "published"} => item' = item ]_vars

\* A finished receipt is history: it is never deleted and its verdict never
\* changes, whichever late callback still holds its claim.
ReceiptsAreFinal ==
    [][ \A a \in Adaptations : \A i \in Finished(a) :
          receipts'[a][i].st = receipts[a][i].st ]_vars

\* accepted-publication-recovery: the provider's ids in a late accepted reply
\* reach the unknown receipt of its claim.
AcceptedEvidenceKept ==
    [][ \A h \in Handlers :
          RecordAccepted(h) /\ receipts[worker[h].a][worker[h].claim].st # "published"
            => receipts'[worker[h].a][worker[h].claim].ext ]_vars

\* Once people stop deciding, nothing stays queued, scheduled or publishing.
EventuallyDecided ==
    \A a \in Adaptations : status[a] \in Outstanding ~> status[a] \notin Outstanding
=============================================================================
