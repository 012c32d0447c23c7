------------------------------ MODULE Autopilot ------------------------------
(***************************************************************************)
(* Automatic drafts of one brand.  A periodic scan and an owner's manual    *)
(* check both ask the same admission whether to start a generation run for  *)
(* an approved topic; people start runs of the organization by hand at the  *)
(* same time.  Admission is one transaction under the organization's        *)
(* advisory lock; around it, a callback may die, be delivered again, or     *)
(* outlive a job that the queue has given up on.                            *)
(*                                                                         *)
(* Hours, spend, channels and texts only refuse: admission may always do.   *)
(***************************************************************************)
EXTENDS Integers, FiniteSets

CONSTANTS
    Topics,         \* approved topics without a planned date
    Attempts,       \* manual checks that may be asked for
    ScanJobs,       \* scans the cron may start
    Requests,       \* runs people may start
    Handlers,       \* callbacks that may be alive at once
    ScanRetries,    \* retries of a scan job; a manual job has none
    DailyLimit,     \* daily_run_limit
    MaxConcurrent,  \* MAX_CONCURRENT_RUNS
    MaxDay,         \* bound
    None

AutopilotAssumption ==
    /\ None \notin Attempts \cup ScanJobs \cup Requests
    /\ Attempts \cap ScanJobs = {} /\ Topics \cap Requests = {}
    /\ {ScanRetries, DailyLimit, MaxConcurrent} \subseteq Nat /\ MaxDay \in Nat \ {0}

VARIABLES
    dispatch,  \* autopilot_dispatches: who started a run for a topic, and when
    run,       \* pipeline_runs, named by their topic or request
    attempt,   \* autopilot_manual_attempts: status and decision in one word
    event,     \* autopilot_scan_events of the brand, "none" without a row
    job,       \* the manual jobs and the scan jobs
    letters,   \* attempts named by a dead letter
    holder,    \* the request that holds the advisory lock between two statements
    handler,   \* what each callback remembers between awaits
    day        \* the brand's local date

vars == <<dispatch, run, attempt, event, job, letters, holder, handler, day>>

Jobs    == Attempts \cup ScanJobs
NotYet  == [by |-> None, day |-> 0]
Pending == {"queued", "running"}
Closed  == {"dispatched", "refused", "failed"}
PCs     == {"idle", "fetched", "triggering", "catching", "returning", "throwing"}
Idle    == [pc |-> "idle", of |-> None]

Automatic  == {t \in Topics : dispatch[t].by # None}
Live       == {o \in Topics \cup Requests : run[o] = "live"}
Today      == {t \in Automatic : dispatch[t].day = day}
Goto(h, pc) == handler' = [handler EXCEPT ![h].pc = pc]

(***************************************************************************)
(* People                                                                   *)
(***************************************************************************)
NoLiveJob(a) == job[a].st \notin {"waiting", "active"}

\* trigger of the API, under the brand's row lock: it closes an attempt whose job is gone;
\* an attempt that is still open is what the caller gets back.
Ask(a) ==
    LET gone == {b \in Attempts : attempt[b] \in Pending /\ NoLiveJob(b)}
    IN  /\ attempt[a] = "none"
        /\ \A b \in Attempts : attempt[b] \in Pending => b \in gone
        /\ attempt' = [b \in Attempts |-> IF b = a THEN "queued"
                                          ELSE IF b \in gone THEN "failed" ELSE attempt[b]]
        /\ job' = [job EXCEPT ![a].st = "waiting"]
        /\ UNCHANGED <<dispatch, run, event, letters, holder, handler, day>>

\* Faulty: admission does not wait for a request that has counted.
UnlockedAlways == TRUE

Unlocked == holder = None

\* A person's run: admission counts, then inserts, under the same advisory lock.
Admit(q) ==
    /\ run[q] = "none" /\ Unlocked
    /\ Cardinality(Live) < MaxConcurrent
    /\ holder' = q
    /\ UNCHANGED <<dispatch, run, attempt, event, job, letters, handler, day>>

Create(q) ==
    /\ holder = q
    /\ run' = [run EXCEPT ![q] = "live"]
    /\ holder' = None
    /\ UNCHANGED <<dispatch, attempt, event, job, letters, handler, day>>

\* The run finishes, fails or is cancelled; what a live run does is GenerationRun's.
RunEnds(o) ==
    /\ run[o] = "live"
    /\ run' = [run EXCEPT ![o] = "over"]
    /\ UNCHANGED <<dispatch, attempt, event, job, letters, holder, handler, day>>

Midnight ==
    /\ day < MaxDay
    /\ day' = day + 1
    /\ UNCHANGED <<dispatch, run, attempt, event, job, letters, holder, handler>>

(***************************************************************************)
(* The queues                                                               *)
(***************************************************************************)
StartScan(j) ==
    /\ job[j].st = "none"
    /\ job' = [job EXCEPT ![j] = [st |-> "waiting", left |-> ScanRetries]]
    /\ UNCHANGED <<dispatch, run, attempt, event, letters, holder, handler, day>>

Fetch(h, j) ==
    /\ handler[h].pc = "idle" /\ job[j].st = "waiting"
    /\ job' = [job EXCEPT ![j].st = "active"]
    /\ handler' = [handler EXCEPT ![h] =
           [pc |-> IF j \in Attempts THEN "fetched" ELSE "triggering", of |-> j]]
    /\ UNCHANGED <<dispatch, run, attempt, event, letters, holder, day>>

\* fail(): retried, or over and, for a manual job, dead-lettered.
FailJob(j) ==
    IF job[j].st # "active" THEN UNCHANGED <<job, letters>>
    ELSE IF job[j].left > 0
    THEN /\ job' = [job EXCEPT ![j] = [st |-> "waiting", left |-> @.left - 1]]
         /\ UNCHANGED letters
    ELSE /\ job' = [job EXCEPT ![j].st = "ended"]
         /\ letters' = letters \cup ({j} \cap Attempts)

\* Expiry; the callback may live on.
Expire(j) ==
    /\ job[j].st = "active"
    /\ FailJob(j)
    /\ UNCHANGED <<dispatch, run, attempt, event, holder, handler, day>>

Return(h) ==
    LET j == handler[h].of
    IN  /\ handler[h].pc = "returning"
        /\ job' = IF job[j].st = "active" THEN [job EXCEPT ![j].st = "ended"] ELSE job
        /\ handler' = [handler EXCEPT ![h] = Idle]
        /\ UNCHANGED <<dispatch, run, attempt, event, letters, holder, day>>

Throw(h) ==
    /\ handler[h].pc = "throwing"
    /\ FailJob(handler[h].of)
    /\ handler' = [handler EXCEPT ![h] = Idle]
    /\ UNCHANGED <<dispatch, run, attempt, event, holder, day>>

Crash(h) ==
    /\ handler[h].pc # "idle"
    /\ handler' = [handler EXCEPT ![h] = Idle]
    /\ UNCHANGED <<dispatch, run, attempt, event, job, letters, holder, day>>

(***************************************************************************)
(* AutopilotService                                                         *)
(***************************************************************************)
\* handleManual's claim; a delivery of an attempt that was claimed before does nothing.
ClaimAttempt(h) ==
    LET a == handler[h].of
    IN  /\ handler[h].pc = "fetched"
        /\ \/ /\ attempt[a] = "queued"
              /\ attempt' = [attempt EXCEPT ![a] = "running"]
              /\ Goto(h, "triggering")
           \/ attempt[a] # "queued" /\ UNCHANGED attempt /\ Goto(h, "returning")
           \/ UNCHANGED attempt /\ Goto(h, "throwing")
        /\ UNCHANGED <<dispatch, run, event, job, letters, holder, day>>

\* Faulty: whoever claimed the attempt once may still answer it.
UnansweredAlways(j) == TRUE

\* What trigger asks first: this scan has no event of the brand yet, this attempt is
\* still running.
Unanswered(j) == IF j \in ScanJobs THEN event[j] = "none" ELSE attempt[j] = "running"

\* finish: the decision is recorded where the question came from.
Answer(j, decision) ==
    IF j \in ScanJobs
    THEN event' = [event EXCEPT ![j] = decision] /\ UNCHANGED attempt
    ELSE attempt' = [attempt EXCEPT ![j] = decision] /\ UNCHANGED event

\* MaxConcurrent is MAX_CONCURRENT_RUNS when self-hosted.  A hosted installation counts
\* the same runs, under the same lock, against its plan's limit (admitHostedJob).
Admissible ==
    /\ Cardinality(Today) < DailyLimit
    /\ \A t \in Automatic : run[t] # "live"
    /\ Cardinality(Live) < MaxConcurrent

\* trigger, one transaction.  It ends without a record when the question was answered
\* before, or the organization is gone.  Its answer may get lost.
Trigger(h) ==
    LET j == handler[h].of
    IN  /\ handler[h].pc = "triggering" /\ Unlocked
        /\ \/ UNCHANGED <<dispatch, run, attempt, event>>
           \/ Unanswered(j) /\ Answer(j, "refused") /\ UNCHANGED <<dispatch, run>>
           \/ /\ Unanswered(j) /\ Admissible
              /\ \E t \in Topics \ Automatic :
                    /\ dispatch' = [dispatch EXCEPT ![t] = [by |-> j, day |-> day]]
                    /\ run' = [run EXCEPT ![t] = "live"]
              /\ Answer(j, "dispatched")
        /\ \E pc \in {"returning", "catching"} : Goto(h, pc)
        /\ UNCHANGED <<job, letters, holder, day>>

\* It failed and was rolled back.
TriggerFails(h) ==
    /\ handler[h].pc = "triggering"
    /\ Goto(h, "catching")
    /\ UNCHANGED <<dispatch, run, attempt, event, job, letters, holder, day>>

\* exhausted and the scan's insert: only what is still open fails.
Open(j) == IF j \in ScanJobs THEN event[j] = "none" ELSE attempt[j] \in Pending

\* The caller cannot tell whether its trigger committed; it records a failure, and when
\* that query fails as well the error reaches the queue.
Catch(h) ==
    LET j == handler[h].of
    IN  /\ handler[h].pc = "catching"
        /\ \/ /\ IF Open(j) THEN Answer(j, "failed") ELSE UNCHANGED <<attempt, event>>
              /\ Goto(h, "returning")
           \/ UNCHANGED <<attempt, event>> /\ Goto(h, "throwing")
        /\ UNCHANGED <<dispatch, run, job, letters, holder, day>>

\* The dead letter, whose write may fail for good, and the sweep.
Exhausted(a) ==
    /\ a \in letters
    /\ letters' = letters \ {a}
    /\ \/ attempt' = [attempt EXCEPT ![a] = IF Open(a) THEN "failed" ELSE @]
       \/ UNCHANGED attempt
    /\ UNCHANGED <<dispatch, run, event, job, holder, handler, day>>

Stranded(a) == attempt[a] \in Pending /\ NoLiveJob(a)

SweepManual(a) ==
    /\ Stranded(a)
    /\ attempt' = [attempt EXCEPT ![a] = "failed"]
    /\ UNCHANGED <<dispatch, run, event, job, letters, holder, handler, day>>

(***************************************************************************)
(* Specification                                                            *)
(***************************************************************************)
Init ==
    /\ dispatch = [t \in Topics |-> NotYet]
    /\ run = [o \in Topics \cup Requests |-> "none"]
    /\ attempt = [a \in Attempts |-> "none"]
    /\ event = [j \in ScanJobs |-> "none"]
    /\ job = [j \in Jobs |-> [st |-> "none", left |-> 0]]
    /\ letters = {} /\ holder = None /\ day = 1
    /\ handler = [h \in Handlers |-> Idle]

HandlerStep(h) ==
    ClaimAttempt(h) \/ Trigger(h) \/ Catch(h) \/ Return(h) \/ Throw(h)

Next ==
    \/ \E a \in Attempts : Ask(a) \/ Exhausted(a) \/ SweepManual(a)
    \/ \E q \in Requests : Admit(q) \/ Create(q)
    \/ \E o \in Topics \cup Requests : RunEnds(o)
    \/ \E j \in ScanJobs : StartScan(j)
    \/ \E j \in Jobs : Expire(j)
    \/ \E h \in Handlers :
          HandlerStep(h) \/ TriggerFails(h) \/ Crash(h) \/ \E j \in Jobs : Fetch(h, j)
    \/ Midnight

Spec == Init /\ [][Next]_vars

(***************************************************************************)
(* Properties                                                               *)
(***************************************************************************)
TypeOK ==
    /\ dispatch \in [Topics -> [by : Jobs \cup {None}, day : 0..MaxDay]]
    /\ run \in [Topics \cup Requests -> {"none", "live", "over"}]
    /\ attempt \in [Attempts -> {"none"} \cup Pending \cup Closed]
    /\ event \in [ScanJobs -> {"none"} \cup Closed]
    /\ job \in [Jobs -> [st : {"none", "waiting", "active", "ended"}, left : 0..ScanRetries]]
    /\ letters \subseteq Attempts
    /\ holder \in Requests \cup {None}
    /\ handler \in [Handlers -> [pc : PCs, of : Jobs \cup {None}]]
    /\ day \in 1..MaxDay

\* "dispatched" is recorded exactly when that scan or that manual check started a run,
\* and it started one only: also when the commit's answer was lost, the job delivered
\* again, or the attempt closed by a sweep while its callback was still at work.
VerdictsMatchRuns ==
    \A j \in Jobs :
        Cardinality({t \in Topics : dispatch[t].by = j}) =
            (IF (IF j \in ScanJobs THEN event[j] ELSE attempt[j]) = "dispatched" THEN 1 ELSE 0)

\* Whoever starts runs at the same moment: one automatic run of the brand at a time, so
\* many a day, and so many of the organization together with what people start.
RunsWithinLimits ==
    /\ Cardinality(Live) <= MaxConcurrent
    /\ Cardinality({t \in Automatic : run[t] = "live"}) <= 1
    /\ \A d \in 1..MaxDay : Cardinality({t \in Automatic : dispatch[t].day = d}) <= DailyLimit

\* What a scan or a manual check ended as is not changed by a late callback.
AnswersAreFinal ==
    [][/\ \A a \in Attempts : attempt[a] \in Closed => attempt'[a] = attempt[a]
       /\ \A j \in ScanJobs : event[j] # "none" => event'[j] = event[j]]_vars

\* No manual check is open: the page would refuse another one for as long.
AtRest == \A a \in Attempts : attempt[a] \notin Pending
=============================================================================
