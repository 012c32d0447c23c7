---------------------------- MODULE AroundDelivery ----------------------------
(***************************************************************************)
(* The parts around the delivery core, side by side.  They share no state   *)
(* that their modules mention, so a behaviour of this specification is a    *)
(* behaviour of one of them, chosen at the start, while the others rest in  *)
(* their initial states; "Parts" says which of them a run looks at.         *)
(*                                                                         *)
(* The generation runs are taken with EXTENDS, the other parts by INSTANCE, *)
(* with their variables renamed where two parts use one name.               *)
(***************************************************************************)
EXTENDS GenerationRun, TLC

CONSTANTS
    Parts,
    StagedHandlers, StagedRetries, MaxPolls, MaxChanges, MaxDecisions,   \* StagedPublication
    Rows, ItemOf, ChannelOf, MaxBegun,                               \* RowLocks
    Replies,                                                         \* TelegramParts
    Deliveries, MaxAttempts, PerScan, MaxFaults,                     \* WebhookOutbox
    Calls, Probes, ShortCalls, Limit, MaxTime,                       \* AiCallLeases
    Topics, Attempts, ScanJobs, Requests, ScanRetries, DailyLimit,   \* Autopilot
    AllRuns, MaxDay

VARIABLES
    part,
    row, input, claims, cleared, stages, waiting, orphans, publisher, recovered, decisions,
    adaptation, item, was, tx, held, begun,
    post, receipt, posted, sender,
    subscription, hook, attempts, stale, scan, answers, faults,
    now, call, read, callLease, callHolder,
    dispatch, run, attempt, event, check, checkLetters, runHolder, checker, day

S == INSTANCE StagedPublication WITH Handlers <- StagedHandlers, RetryLimit <- StagedRetries,
        worker <- publisher
L == INSTANCE RowLocks WITH Sessions <- Handlers, status <- adaptation
T == INSTANCE TelegramParts WITH row <- post
W == INSTANCE WebhookOutbox WITH Scanners <- Handlers, status <- hook
C == INSTANCE AiCallLeases WITH lease <- callLease, holder <- callHolder,
        LongBudget <- 2, ShortBudget <- 1, Grace <- 2, Drain <- 1
A == INSTANCE Autopilot WITH MaxConcurrent <- AllRuns, job <- check, letters <- checkLetters,
        holder <- runHolder, handler <- checker

AroundAssumption ==
    /\ S!StagedAssumption /\ L!RowLocksAssumption /\ T!TelegramAssumption
    /\ W!WebhookAssumption /\ C!AiCallAssumption /\ A!AutopilotAssumption

ASSUME AroundAssumed == AroundAssumption

\* What stands still while another part moves.
g == vars
s == <<row, input, claims, cleared, stages, waiting, orphans, publisher, recovered, decisions>>
l == <<adaptation, item, was, tx, held, begun>>
t == <<post, receipt, posted, sender>>
w == <<subscription, hook, attempts, stale, scan, answers, faults>>
c == <<now, call, read, callLease, callHolder>>
a == <<dispatch, run, attempt, event, check, checkLetters, runHolder, checker, day>>
allVars == <<part, g, s, l, t, w, c, a>>

AllInit ==
    /\ part \in Parts
    /\ Init /\ S!Init /\ L!Init /\ T!Init /\ W!Init /\ C!Init /\ A!Init
    /\ part # "locks" => adaptation = [r \in Rows |-> "queued"]

AllNext ==
    /\ UNCHANGED part
    /\ \/ part = "generation" /\ Next   /\ UNCHANGED <<s, l, t, w, c, a>>
       \/ part = "staged"     /\ S!Next /\ UNCHANGED <<g, l, t, w, c, a>>
       \/ part = "locks"      /\ L!Next /\ UNCHANGED <<g, s, t, w, c, a>>
       \/ part = "telegram"   /\ T!Next /\ UNCHANGED <<g, s, l, w, c, a>>
       \/ part = "webhooks"   /\ W!Next /\ UNCHANGED <<g, s, l, t, c, a>>
       \/ part = "calls"      /\ C!Next /\ UNCHANGED <<g, s, l, t, w, a>>
       \/ part = "autopilot"  /\ A!Next /\ UNCHANGED <<g, s, l, t, w, c>>

AllSpec == AllInit /\ [][AllNext]_allVars

\* A step of one part, for the fairness of that part.
InGeneration(Step) == part = "generation" /\ Step /\ UNCHANGED <<part, s, l, t, w, c, a>>
InStaged(Step)     == part = "staged"     /\ Step /\ UNCHANGED <<part, g, l, t, w, c, a>>
InWebhooks(Step)   == part = "webhooks"   /\ Step /\ UNCHANGED <<part, g, s, l, t, c, a>>
InAutopilot(Step)  == part = "autopilot"  /\ Step /\ UNCHANGED <<part, g, s, l, t, w, c>>

\* Callbacks take their next step, queues hand out jobs and expire those nobody works on,
\* requests that have been accepted commit, leases and deadlines pass, the scheduled passes
\* run.  Nobody has to ask or to decide, and nothing has to fail.
FairGeneration ==
    /\ \A h \in Handlers : WF_allVars(InGeneration(HandlerStep(h)))
    /\ \A r \in Runs :
          /\ WF_allVars(InGeneration(FetchOf(r)))
          /\ WF_allVars(InGeneration(Create(r)))
          /\ WF_allVars(InGeneration(Holding(r) = {} /\ Timeout(r)))
          /\ WF_allVars(InGeneration(MarkExhausted(r)))
          /\ WF_allVars(InGeneration(LeaseRunsOut(r)))
          /\ WF_allVars(InGeneration(SweepAbandoned(r)))

FairStaged ==
    /\ \A h \in StagedHandlers : WF_allVars(InStaged(S!HandlerStep(h)))
    /\ WF_allVars(InStaged(S!FetchAny))
    /\ WF_allVars(InStaged(S!RecordRecovered))
    /\ WF_allVars(InStaged(S!SweepPublish))
    /\ WF_allVars(InStaged(\E j \in orphans : S!TimeoutOrphan(j)))
    /\ \A n \in S!StageNumbers :
          /\ WF_allVars(InStaged(S!LeaseRunsOut(n)))
          /\ WF_allVars(InStaged(S!DeadlinePasses(n)))
          /\ WF_allVars(InStaged(S!Recover(n)))

FairWebhooks ==
    /\ \A h \in Handlers : WF_allVars(InWebhooks(W!ScanStep(h)))
    /\ \A d \in Deliveries :
          /\ WF_allVars(InWebhooks(W!Record(d)))
          /\ WF_allVars(InWebhooks(W!Age(d)))

FairAutopilot ==
    /\ \A h \in Handlers : WF_allVars(InAutopilot(A!HandlerStep(h)))
    /\ \A j \in Attempts \cup ScanJobs :
          /\ WF_allVars(InAutopilot(\E h \in Handlers : A!Fetch(h, j)))
          /\ WF_allVars(InAutopilot((\A h \in Handlers : checker[h].of # j) /\ A!Expire(j)))
    /\ \A q \in Requests : WF_allVars(InAutopilot(A!Create(q)))
    /\ \A m \in Attempts : WF_allVars(InAutopilot(A!SweepManual(m)))

AllFairSpec == AllSpec /\ FairGeneration /\ FairStaged /\ FairWebhooks /\ FairAutopilot

(***************************************************************************)
(* Symmetry and bounds                                                      *)
(***************************************************************************)
\* Callbacks of different workers are interchangeable, and so are channels.
AroundSymmetry == Permutations(Handlers) \cup Permutations(Channels)

\* Adaptations 1 and 2 of one item, 3 of another; 1 and 3 go to one channel.
MCItemOf    == <<1, 1, 2>>
MCChannelOf == <<11, 12, 11>>

(***************************************************************************)
(* Properties                                                               *)
(* Those of generation runs are in GenerationRun; the others are repeated    *)
(* here under their own names.                                              *)
(***************************************************************************)
\* Every part keeps the types and the check constraints of its tables; the attempts a
\* job, a webhook or a stage may have among them.
TypesOK ==
    /\ part \in Parts
    /\ TypeOK /\ S!TypeOK /\ L!TypeOK /\ T!TypeOK /\ W!TypeOK /\ C!TypeOK /\ A!TypeOK

\* Meta publication: at most one final post of a delivery that nobody declared undelivered.
OneFinalPost == S!OneFinalPost

\* Meta publication: a delivery that reads as failed has made nothing public.
FailedIsNonpublic == S!FailedIsNonpublic

\* Meta publication: a published stage has its receipt, or says that it has lost it.
PublishedStageHasReceipt == S!PublishedStageHasReceipt

\* Meta publication: no two stages of a delivery are at work on containers of their own.
OneContainer == S!OneContainer

\* Meta publication: after a lost preparation a person can discard it and go on.
PreparationIsRecoverable == S!PreparationIsRecoverable

\* Row locks: transactions never wait in a circle, two overlapping sweeps excepted.
NoDeadlock == L!NoDeadlock

\* Row locks: the item reads published exactly when every channel of it does, however the
\* transactions that end its deliveries overlap.
PublishedTogether == L!PublishedTogether

\* Row locks: an archived item has nothing left to send.
ArchivedIsQuiet == L!ArchivedIsQuiet

\* Row locks: only a restore brings an archived item back.
ArchivedStays == L!ArchivedStays

\* Row locks: an item whose deliveries are all over carries their verdict.
ItemFoldsCommitted == L!ItemFoldsCommitted

\* Long Telegram posts: the receipt's remaining text misses no message and repeats at most one.
CheckpointIsTrue == T!CheckpointIsTrue

\* Long Telegram posts: plain failure left no message behind.
FailedLeftNoMessage == T!FailedLeftNoMessage

\* Long Telegram posts: what was recorded as delivered stays recorded.
RemainingOnlyShrinks == T!RemainingOnlyShrinks

\* Webhooks: only an explicit request to come again is followed by another request.
OnlyAskedAgain == W!OnlyAskedAgain

\* Webhooks: sent and failed are true of the receiver's answers: a 2xx was given; none was,
\* and no request went unanswered.
VerdictIsTrue == W!VerdictIsTrue

\* AI admission: a request on its way is covered by its lease to its end.
LeaseCoversCall == C!LeaseCoversCall

\* AI admission: the limits bound the requests on their way, whatever became of their rows.
CallsBounded == C!CallsBounded

\* Autopilot: "dispatched" is recorded exactly where a run was started, and once.
VerdictsMatchRuns == A!VerdictsMatchRuns

\* Autopilot and people together never start more runs than the limits allow.
RunsWithinLimits == A!RunsWithinLimits

\* What has ended stays as it ended, whoever comes back late: a webhook, a scan, a manual
\* check, and a stage but for two changes, a person's discard of a lost preparation and the
\* stage's own published receipt.  (VerdictIsFinal says the same of generation runs.)
EndsAreFinal == S!StageEndsOnce /\ W!EndIsFinal /\ A!AnswersAreFinal

\* What has begun ends: a run, a stage, a webhook, a manual check.  Each keeps its place in
\* AtRest until it has ended, so it cannot stay open for ever.
EverythingEnds == []<>(AtRest /\ S!AtRest /\ W!AtRest /\ A!AtRest)
=============================================================================
