--------------------------- MODULE GenerationRun ---------------------------
(***************************************************************************)
(* Generation runs of one organization: the request that queues a run, the  *)
(* worker callback that claims it under a fence, pays for its steps one by  *)
(* one, checkpoints them and writes the draft, the queue that may hand the  *)
(* run to a second callback while the first is still alive, and the sweep.  *)
(*                                                                         *)
(* A callback is cut at its awaits.  Its fence is its own identity: every   *)
(* delivery makes a fresh nonce, and a callback that starts again claims    *)
(* again before it does anything else.                                      *)
(***************************************************************************)
EXTENDS Integers, Sequences, FiniteSets

CONSTANTS
    Runs,           \* requests that may be made
    Handlers,       \* callbacks that may be alive at once
    Channels,       \* the channels of the brand
    NSteps,         \* billed steps of the pipeline
    MaxConcurrent,  \* MAX_CONCURRENT_RUNS
    RetryLimit,     \* retries of a generate job
    MaxKeys,        \* bound: how often the AI key is replaced
    None

ASSUME GenerationAssumption ==
    /\ None \notin Runs \cup Handlers
    /\ NSteps \in Nat \ {0} /\ MaxConcurrent \in Nat \ {0}
    /\ RetryLimit \in Nat /\ MaxKeys \in Nat \ {0}

VARIABLES
    status,     \* pipeline_runs.status, "none" before the request
    fence,      \* active_job_id
    lease,      \* "none", "fresh", or "over": expired and past the grace period
    steps,      \* steps: the call whose output the checkpoint holds, 0 for none
    pin,        \* text_selection: the key revision the run was accepted with
    drafts,     \* content items written for the run
    paid,       \* calls made per step, the ledger's rows
    job,        \* the run's row in the generate queue
    letters,    \* runs named by a dead letter
    lostLetters,\* history: dead letters whose only write failed
    key,        \* revision of the organization's AI key
    channels,   \* channels that still exist
    admitting,  \* who holds the admission lock
    worker      \* what each callback remembers between awaits

runVars   == <<status, fence, lease, steps, pin, drafts>>
queueVars == <<job, letters, lostLetters>>
orgVars   == <<key, channels, admitting>>
vars      == <<runVars, paid, queueVars, orgVars, worker>>

Live     == {"queued", "running"}
Settled  == {"succeeded", "failed", "cancelled"}
Steps    == 1..NSteps
NoSteps  == [s \in Steps |-> 0]
PCs      == {"idle", "fetched", "claimed", "working", "begun", "paid", "finishing",
             "permanent", "returning", "throwing"}

Draft == [outputs : [Steps -> Nat], channels : SUBSET Channels]

Idle == [pc |-> "idle", run |-> None, have |-> NoSteps, key |-> 0,
         channels |-> {}, call |-> 0, aborted |-> FALSE]

Worker == [pc : PCs, run : Runs \cup {None}, have : [Steps -> Nat], key : 0..MaxKeys,
           channels : SUBSET Channels, call : Nat, aborted : BOOLEAN]

LiveRuns == {r \in Runs : status[r] \in Live}

(***************************************************************************)
(* Requests                                                                 *)
(***************************************************************************)

\* admit: counts under a lock held to the end of the transaction.
MayAdmit(r) == admitting = None /\ Cardinality(LiveRuns) < MaxConcurrent

\* createInTx up to the count; the snapshot of the key is taken in the same transaction.
Admit(r) ==
    /\ status[r] = "none" /\ pin[r] = 0
    /\ MayAdmit(r)
    /\ admitting' = r
    /\ pin' = [pin EXCEPT ![r] = key]
    /\ UNCHANGED <<status, fence, lease, steps, drafts, paid, queueVars, key, channels, worker>>

\* The insert and the job, then the commit.
Create(r) ==
    /\ status[r] = "none" /\ pin[r] # 0
    /\ admitting' = IF admitting = r THEN None ELSE admitting
    /\ status' = [status EXCEPT ![r] = "queued"]
    /\ job' = [job EXCEPT ![r] = [st |-> "waiting", left |-> RetryLimit]]
    /\ UNCHANGED <<fence, lease, steps, pin, drafts, paid, letters, lostLetters,
                   key, channels, worker>>

\* cancel: locks the row, cancels the job, settles the run.
Cancel(r) ==
    /\ status[r] \in Live
    /\ status' = [status EXCEPT ![r] = "cancelled"]
    /\ job' = [job EXCEPT ![r].st = "ended"]
    /\ UNCHANGED <<fence, lease, steps, pin, drafts, paid, letters, lostLetters, orgVars, worker>>

\* Saving another key moves the revision that every snapshot is compared with; the row
\* locks of lockAiTextSelection keep it out of a request's transaction.  Deleting a key, which
\* also fails the queued runs pinned to it, is left out.
ReplaceKey ==
    /\ key < MaxKeys /\ admitting = None
    /\ key' = key + 1
    /\ UNCHANGED <<runVars, paid, queueVars, channels, admitting, worker>>

\* A finish holds key-share locks on the channels it found.
DeleteChannel(c) ==
    /\ c \in channels
    /\ channels' = channels \ {c}
    /\ UNCHANGED <<runVars, paid, queueVars, key, admitting, worker>>

(***************************************************************************)
(* The queue                                                                *)
(***************************************************************************)
Holding(r) == {h \in Handlers : worker[h].run = r}

\* fail(): a job that is not terminal yet is retried under its id, or dead-lettered.
FailJob(r) ==
    IF job[r].st \notin {"waiting", "active"}
    THEN UNCHANGED <<job, letters>>
    ELSE IF job[r].left > 0
         THEN /\ job' = [job EXCEPT ![r] = [st |-> "waiting", left |-> @.left - 1]]
              /\ UNCHANGED letters
         ELSE /\ job' = [job EXCEPT ![r].st = "ended"]
              /\ letters' = letters \cup {r}

\* groupConcurrency 1: one active job of the organization at a time.
Fetch(h, r) ==
    /\ worker[h].pc = "idle" /\ job[r].st = "waiting"
    /\ \A q \in Runs : job[q].st # "active"
    /\ job' = [job EXCEPT ![r].st = "active"]
    /\ worker' = [worker EXCEPT ![h] = [Idle EXCEPT !.pc = "fetched", !.run = r]]
    /\ UNCHANGED <<runVars, paid, letters, lostLetters, orgVars>>

\* Expiry or a missed heartbeat: the job is failed while its callback may run on, and
\* may or may not have been told through its abort signal.
Timeout(r) ==
    /\ job[r].st = "active"
    /\ FailJob(r)
    /\ \E told \in SUBSET Holding(r) :
           worker' = [h \in Handlers |-> IF h \in told THEN [worker[h] EXCEPT !.aborted = TRUE]
                                         ELSE worker[h]]
    /\ UNCHANGED <<runVars, paid, lostLetters, orgVars>>

\* complete() ends whichever incarnation of the job is active; a wrapper that has
\* already given up on its callback does not answer for it again.
Return(h) ==
    LET r == worker[h].run
    IN  /\ worker[h].pc = "returning"
        /\ job' = IF job[r].st = "active" /\ ~worker[h].aborted
                  THEN [job EXCEPT ![r].st = "ended"] ELSE job
        /\ worker' = [worker EXCEPT ![h] = Idle]
        /\ UNCHANGED <<runVars, paid, letters, lostLetters, orgVars>>

Throw(h) ==
    /\ worker[h].pc = "throwing"
    /\ IF worker[h].aborted THEN UNCHANGED <<job, letters>> ELSE FailJob(worker[h].run)
    /\ worker' = [worker EXCEPT ![h] = Idle]
    /\ UNCHANGED <<runVars, paid, lostLetters, orgVars>>

Crash(h) ==
    /\ worker[h].pc # "idle"
    /\ worker' = [worker EXCEPT ![h] = Idle]
    /\ UNCHANGED <<runVars, paid, queueVars, orgVars>>

(***************************************************************************)
(* The callback: GenerateService.handle                                     *)
(***************************************************************************)
Goto(h, pc) == worker' = [worker EXCEPT ![h].pc = pc]

Renewed(r) == lease' = [lease EXCEPT ![r] = "fresh"]

\* Faulty: any callback that once owned the run.
FencedAny(h) == status[worker[h].run] = "running"

\* Faulty: ignores that the run was cancelled or swept meanwhile.
FencedEnded(h) == fence[worker[h].run] = h /\ status[worker[h].run] # "succeeded"

\* The fenced WHERE clause of every write of a callback.
Fenced(h) == fence[worker[h].run] = h /\ status[worker[h].run] = "running"

\* Faulty: a run that is over can be claimed once more.
ClaimableOver(h) == status[worker[h].run] # "none"

\* The job id always matches: a run has one job, retried under the same id.
Claimable(h) == status[worker[h].run] \in Live

\* claim: a key that changed since the request ends the run without a handler.
Claim(h) ==
    LET r == worker[h].run
    IN  /\ worker[h].pc = "fetched"
        /\ \/ /\ ~Claimable(h)
              /\ Goto(h, "returning")
              /\ UNCHANGED <<status, fence, lease>>
           \/ /\ Claimable(h) /\ pin[r] # key
              /\ status' = [status EXCEPT ![r] = "failed"]
              /\ fence' = [fence EXCEPT ![r] = None]
              /\ lease' = [lease EXCEPT ![r] = "none"]
              /\ Goto(h, "returning")
           \/ /\ Claimable(h) /\ pin[r] = key
              /\ status' = [status EXCEPT ![r] = "running"]
              /\ fence' = [fence EXCEPT ![r] = h]
              /\ Renewed(r)
              /\ worker' = [worker EXCEPT ![h].pc = "claimed", ![h].have = steps[r]]
        /\ UNCHANGED <<steps, pin, drafts, paid, queueVars, orgVars>>

\* execute: context, then the credential, which must still be the pinned one.
Execute(h) ==
    LET r == worker[h].run
    IN  /\ worker[h].pc = "claimed"
        /\ IF channels = {} \/ pin[r] # key
           THEN Goto(h, "permanent")
           ELSE worker' = [worker EXCEPT ![h].pc = "working", ![h].key = key,
                                         ![h].channels = channels]
        /\ UNCHANGED <<runVars, paid, queueVars, orgVars>>

Missing(h) == {s \in Steps : worker[h].have[s] = 0}
NextStep(h) == CHOOSE s \in Missing(h) : \A t \in Missing(h) : s <= t

\* runStep up to the model call.
BeginStep(h) ==
    LET r == worker[h].run
    IN  /\ worker[h].pc = "working"
        /\ IF Missing(h) = {}
           THEN Goto(h, "finishing") /\ UNCHANGED lease
           ELSE IF worker[h].aborted
           THEN Goto(h, "returning") /\ UNCHANGED lease
           ELSE IF pin[r] # key
           THEN Goto(h, "permanent") /\ UNCHANGED lease
           ELSE IF Fenced(h)
           THEN Goto(h, "begun") /\ Renewed(r)
           ELSE Goto(h, "returning") /\ UNCHANGED lease
        /\ UNCHANGED <<status, fence, steps, pin, drafts, paid, queueVars, orgVars>>

\* Faulty: the call trusts the check that beginStep made.
CallAdmittedBefore(h) == TRUE

\* admitAiTextCall: the selection is verified again, in a transaction of its own, right
\* before the request; admission and request are one step here.
CallAdmitted(h) == pin[worker[h].run] = key

\* The model call.  It is billed when it goes out, and may still fail.
Call(h) ==
    LET r == worker[h].run
        s == NextStep(h)
    IN  /\ worker[h].pc = "begun"
        /\ IF ~CallAdmitted(h)
           THEN Goto(h, "permanent") /\ UNCHANGED paid
           ELSE /\ paid' = [paid EXCEPT ![r][s] = @ + 1]
                /\ \/ worker' = [worker EXCEPT ![h].pc = "paid", ![h].call = paid[r][s] + 1]
                   \/ \E end \in {"permanent", "throwing"} : Goto(h, end)
        /\ UNCHANGED <<runVars, queueVars, orgVars>>

\* writeCheckpoint, and the callback's own copy.
WriteCheckpoint(h) ==
    LET r == worker[h].run
        s == NextStep(h)
    IN  /\ worker[h].pc = "paid"
        /\ IF Fenced(h)
           THEN /\ steps' = [steps EXCEPT ![r][s] = worker[h].call]
                /\ Renewed(r)
                /\ worker' = [worker EXCEPT ![h].pc = "working", ![h].call = 0,
                                            ![h].have[s] = worker[h].call]
           ELSE Goto(h, "returning") /\ UNCHANGED <<steps, lease>>
        /\ UNCHANGED <<status, fence, pin, drafts, paid, queueVars, orgVars>>

\* The channels the callback wrote for that still exist.
Surviving(h) == worker[h].channels \cap channels

\* finish: one transaction; its answer may get lost, and then it is asked again.
Finish(h) ==
    LET r == worker[h].run
    IN  /\ worker[h].pc = "finishing"
        /\ IF ~Fenced(h)
           THEN Goto(h, "returning") /\ UNCHANGED <<status, drafts>>
           ELSE IF Surviving(h) = {}
           THEN Goto(h, "permanent") /\ UNCHANGED <<status, drafts>>
           ELSE /\ drafts' = [drafts EXCEPT ![r] =
                       Append(@, [outputs |-> worker[h].have, channels |-> Surviving(h)])]
                /\ status' = [status EXCEPT ![r] = "succeeded"]
                /\ \E answer \in {"returning", "finishing"} : Goto(h, answer)
        /\ UNCHANGED <<fence, lease, steps, pin, paid, queueVars, orgVars>>

\* recordFailure: fenced, and its write may fail for good, which is only logged.
RecordFailure(h) ==
    LET r == worker[h].run
    IN  /\ worker[h].pc = "permanent"
        /\ \/ status' = [status EXCEPT ![r] = IF Fenced(h) THEN "failed" ELSE @]
           \/ UNCHANGED status
        /\ Goto(h, "returning")
        /\ UNCHANGED <<fence, lease, steps, pin, drafts, paid, queueVars, orgVars>>

\* Any other query that throws sends the error to the queue.
DatabaseError(h) ==
    /\ worker[h].pc \in {"fetched", "claimed", "working", "begun", "paid", "finishing"}
    /\ Goto(h, "throwing")
    /\ UNCHANGED <<runVars, paid, queueVars, orgVars>>

(***************************************************************************)
(* Dead letters, time and the sweep                                         *)
(***************************************************************************)
MarkExhausted(r) ==
    /\ r \in letters
    /\ letters' = letters \ {r}
    /\ status' = [status EXCEPT ![r] = IF @ \in Live THEN "failed" ELSE @]
    /\ UNCHANGED <<fence, lease, steps, pin, drafts, paid, job, lostLetters, orgVars, worker>>

\* The write failed; the consumer logs it and the letter is gone.
LoseLetter(r) ==
    /\ r \in letters
    /\ letters' = letters \ {r}
    /\ lostLetters' = lostLetters \cup {r}
    /\ UNCHANGED <<runVars, paid, job, orgVars, worker>>

LeaseRunsOut(r) ==
    /\ lease[r] = "fresh"
    /\ lease' = [lease EXCEPT ![r] = "over"]
    /\ UNCHANGED <<status, fence, steps, pin, drafts, paid, queueVars, orgVars, worker>>

\* Faulty: never looks at runs whose job is gone.
AbandonedNever(r) == FALSE

NoLiveJob(r) == job[r].st \notin {"waiting", "active"} /\ r \notin letters
Abandoned(r) == status[r] = "running" /\ lease[r] = "over" /\ NoLiveJob(r)

SweepAbandoned(r) ==
    /\ Abandoned(r)
    /\ status' = [status EXCEPT ![r] = "failed"]
    /\ UNCHANGED <<fence, lease, steps, pin, drafts, paid, queueVars, orgVars, worker>>

(***************************************************************************)
(* Specification                                                            *)
(***************************************************************************)
Init ==
    /\ status = [r \in Runs |-> "none"]
    /\ fence  = [r \in Runs |-> None]
    /\ lease  = [r \in Runs |-> "none"]
    /\ steps  = [r \in Runs |-> NoSteps]
    /\ pin    = [r \in Runs |-> 0]
    /\ drafts = [r \in Runs |-> <<>>]
    /\ paid   = [r \in Runs |-> NoSteps]
    /\ job    = [r \in Runs |-> [st |-> "none", left |-> 0]]
    /\ letters = {} /\ lostLetters = {}
    /\ key = 1 /\ channels = Channels /\ admitting = None
    /\ worker = [h \in Handlers |-> Idle]

HandlerStep(h) ==
    \/ Claim(h) \/ Execute(h) \/ BeginStep(h) \/ Call(h) \/ WriteCheckpoint(h)
    \/ Finish(h) \/ RecordFailure(h) \/ Return(h) \/ Throw(h)

Next ==
    \/ \E r \in Runs :
          \/ Admit(r) \/ Create(r) \/ Cancel(r) \/ Timeout(r)
          \/ MarkExhausted(r) \/ LoseLetter(r) \/ LeaseRunsOut(r) \/ SweepAbandoned(r)
    \/ ReplaceKey
    \/ \E c \in Channels : DeleteChannel(c)
    \/ \E h \in Handlers :
          \/ HandlerStep(h) \/ DatabaseError(h) \/ Crash(h)
          \/ \E r \in Runs : Fetch(h, r)

FetchOf(r) == \E h \in Handlers : Fetch(h, r)

Spec == Init /\ [][Next]_vars

(***************************************************************************)
(* Properties                                                               *)
(***************************************************************************)
TypeOK ==
    /\ status \in [Runs -> {"none"} \cup Live \cup Settled]
    /\ fence \in [Runs -> Handlers \cup {None}]
    /\ lease \in [Runs -> {"none", "fresh", "over"}]
    /\ steps \in [Runs -> [Steps -> Nat]] /\ paid \in [Runs -> [Steps -> Nat]]
    /\ pin \in [Runs -> 0..MaxKeys]
    /\ drafts \in [Runs -> Seq(Draft)]
    /\ job \in [Runs -> [st : {"none", "waiting", "active", "ended"}, left : 0..RetryLimit]]
    /\ letters \subseteq Runs /\ lostLetters \subseteq Runs
    /\ key \in 1..MaxKeys /\ channels \subseteq Channels
    /\ admitting \in Runs \cup {None}
    /\ worker \in [Handlers -> Worker]

\* A run leaves one draft if it succeeded and none otherwise, however many callbacks
\* worked on it and however often the terminal write was asked again.
OneDraft ==
    \A r \in Runs : Len(drafts[r]) = (IF status[r] = "succeeded" THEN 1 ELSE 0)

\* The draft is made of the checkpoints the run shows, all of them, for at least one
\* channel: a displaced callback never mixes its own paid outputs into it.
DraftIsCheckpointed ==
    \A r \in Runs : status[r] = "succeeded" =>
        /\ drafts[r][1].outputs = steps[r] /\ \A s \in Steps : steps[r][s] # 0
        /\ drafts[r][1].channels # {}

\* The organization never has more runs queued or running than it may, although
\* requests count and insert in separate statements.
RunLimit == Cardinality(LiveRuns) <= MaxConcurrent

\* A callback never begins a step that the run already has a checkpoint of, and never
\* overwrites one, which is what makes a retry nearly free: also when its own copy of
\* the checkpoints is older than a second callback on the same run.
StepsAreBegunOnce ==
    [][/\ \A h \in Handlers :
             worker[h].pc = "working" /\ worker'[h].pc = "begun"
                => steps[worker[h].run][NextStep(h)] = 0
       /\ \A r \in Runs, n \in Steps : steps[r][n] # 0 => steps'[r][n] = steps[r][n]]_vars

\* What a run ended as is never changed by a late callback, a dead letter or the sweep.
VerdictIsFinal ==
    [][\A r \in Runs : status[r] \in Settled => status'[r] = status[r]]_vars

\* Every billed call is admitted under the key revision that is current at that moment,
\* although the callback read its key once, before all steps.
CallsUseCurrentKey ==
    [][\A h \in Handlers, r \in Runs :
          (paid'[r] # paid[r] /\ worker[h].run = r /\ worker[h].pc # worker'[h].pc)
              => worker[h].key = key]_vars

\* No run is under way: the claimed ones have ended although every dead letter may be
\* lost, and a queued one waits only if its own was.
AtRest ==
    \A r \in Runs : status[r] # "running" /\ (status[r] = "queued" => r \in lostLetters)
=============================================================================
