-------------------------- MODULE StagedPublication --------------------------
(***************************************************************************)
(* One delivery to a Meta platform, which publishes in two requests: a      *)
(* container is prepared, its readiness is polled by delayed jobs, and a    *)
(* final request makes it public.  Each attempt keeps a row of              *)
(* meta_publication_stages, held by a lease; a recovery pass decides from   *)
(* the phase alone what a worker that died had already asked Meta for.      *)
(*                                                                         *)
(* Callbacks are cut at their awaits.  The lease token is the callback that *)
(* drew it: a callback renews it before it relies on it.                    *)
(***************************************************************************)
EXTENDS Integers, Sequences, FiniteSets

CONSTANTS
    Handlers,      \* callbacks that may be alive at once
    RetryLimit,    \* retries of a publish job; a readiness job has none
    MaxPolls,      \* pollPolicy.maxPolls
    MaxChanges,    \* bound: edits of the delivery or its connection
    MaxDecisions,  \* bound: decisions people make
    None

StagedAssumption ==
    /\ None \notin Handlers
    /\ RetryLimit \in Nat /\ MaxPolls \in Nat \ {0}
    /\ MaxChanges \in Nat /\ MaxDecisions \in Nat

VARIABLES
    row,        \* the adaptation: status and attempt_count
    input,      \* version of what a stage freezes: text, media, connection
    claims,     \* publications, oldest first
    cleared,    \* history: receipts a person has declared undelivered
    stages,     \* meta_publication_stages, one per attempt
    waiting,    \* jobs not fetched yet
    orphans,    \* active jobs whose callback is gone
    worker,     \* what each callback remembers between awaits
    recovered,  \* what the recovery pass still has to record
    decisions   \* decisions made so far

dataVars  == <<row, claims, stages>>
queueVars == <<waiting, orphans>>
vars      == <<dataVars, input, cleared, queueVars, worker, recovered, decisions>>

StageNumbers == 1..MaxDecisions
LivePhases == {"preparation_intent", "waiting", "final_intent"}
EndPhases  == {"failed", "cancelled", "preparation_unknown", "final_unknown",
               "published_without_receipt"}
Phases     == {"none", "published"} \cup LivePhases \cup EndPhases

Row   == [st : {"pending", "queued", "publishing", "published", "failed"}, att : Nat]
Claim == [st : {"in_flight", "published", "failed", "unknown"}, att : Nat,
          human : BOOLEAN, posted : BOOLEAN]
Stage == [phase : Phases, lease : Handlers \cup {None}, over : BOOLEAN, late : BOOLEAN,
          polls : 0..MaxPolls, claim : Nat, input : 0..MaxChanges, ext : BOOLEAN]
Job   == [s : 0..MaxDecisions, left : 0..RetryLimit]    \* s = 0: the publish queue

NoStage == [phase |-> "none", lease |-> None, over |-> FALSE, late |-> FALSE,
            polls |-> 0, claim |-> 0, input |-> 0, ext |-> FALSE]
NewClaim(st, att, human) == [st |-> st, att |-> att, human |-> human, posted |-> FALSE]
PublishJob == [s |-> 0, left |-> RetryLimit]
PollJob(a) == [s |-> a, left |-> 0]

PCs == {"idle", "loaded", "begun", "prepared", "polling", "acquired",
        "deferring", "ready", "claimed", "finalizing", "confirmed",
        "accepted", "stopping", "recording", "retaining", "returning"}

\* end: the phase a callback wants its stage to end in.
Idle == [pc |-> "idle", job |-> PublishJob, live |-> FALSE, seen |-> [st |-> "pending", att |-> 0],
         version |-> 0, a |-> 0, claim |-> 0, end |-> "failed", kept |-> FALSE]

Worker == [pc : PCs, job : Job, live : BOOLEAN, seen : Row, version : 0..MaxChanges,
           a : 0..MaxDecisions, claim : Nat, end : EndPhases, kept : BOOLEAN]

(***************************************************************************)
(* Queries                                                                  *)
(***************************************************************************)
InFlight == {i \in DOMAIN claims : claims[i].st = "in_flight"}
Finished == DOMAIN claims \ InFlight
Last(S)  == CHOOSE i \in S : \A j \in S : j <= i

\* deliveryOutcomeSql.
OutcomeUnknown ==
    row.st = "failed" /\ Finished # {} /\ claims[Last(Finished)].st = "unknown"

\* A person's later "not delivered" for the same attempt, nothing finished in between.
Resolves(j, i) ==
    /\ j > i /\ claims[j].st = "failed" /\ claims[j].human
    /\ claims[j].att = claims[i].att
    /\ ~ \E k \in Finished : i < k /\ k < j

\* blockingPublicationHistorySql.
ClaimsBlock ==
    \E i \in DOMAIN claims :
        \/ claims[i].st \in {"published", "in_flight"}
        \/ claims[i].st = "unknown" /\ ~ \E j \in DOMAIN claims : Resolves(j, i)

\* "settled" of blockingMetaStageHistorySql.
StageSettled(a) ==
    \E i, j \in DOMAIN claims :
        /\ claims[i].st = "unknown" /\ claims[i].att = a /\ stages[a].claim \in {0, i}
        /\ Resolves(j, i)
        /\ ~ \E k \in DOMAIN claims : k >= j /\ claims[k].st = "unknown" /\ claims[k].att = a

\* "knownFailedClaim": the claim was refused, and no ids of a post were kept.
KnownFailed(a) ==
    /\ ~ stages[a].ext /\ stages[a].claim # 0
    /\ claims[stages[a].claim].st = "failed"

\* blockingMetaStageHistorySql, for one row of the history.
StageBlocks(a) ==
    \/ stages[a].phase \in {"preparation_intent", "waiting", "preparation_unknown", "published"}
    \/ /\ stages[a].phase \in {"final_intent", "final_unknown", "published_without_receipt"}
       /\ ~ StageSettled(a)
    \/ /\ stages[a].phase \in {"failed", "cancelled"}
       /\ stages[a].claim # 0 \/ stages[a].ext
       /\ ~ (KnownFailed(a) \/ StageSettled(a))

\* Faulty: an end without a published receipt is taken for an end without a post.
BlockedByLive(except) == \E a \in StageNumbers \ {except} : stages[a].phase \in LivePhases

\* Both histories; the stage asking does not block itself.
Blocked(except) == ClaimsBlock \/ \E a \in StageNumbers \ {except} : StageBlocks(a)

LiveStage == \E a \in StageNumbers : stages[a].phase \in LivePhases
NoJob     == waiting = {} /\ orphans = {} /\ \A h \in Handlers : ~ worker[h].live

\* matches: the delivery is still what the stage froze, at the stage's attempt.
Matches(a) == row.st = "publishing" /\ row.att = a /\ input = stages[a].input

\* fence: token, lease time and, before the final intent, the deadline.
Fence(h, phase) ==
    LET st == stages[worker[h].a]
    IN  /\ st.phase = phase /\ st.lease = h /\ ~ st.over
        /\ phase = "final_intent" \/ ~ st.late

\* authorized: fence, reviewed delivery, live job and, for the final request, its claim.
Authorized(h, phase) ==
    LET a == worker[h].a
    IN  /\ Fence(h, phase) /\ Matches(a) /\ worker[h].live
        /\ phase = "final_intent" => stages[a].claim \in InFlight

(***************************************************************************)
(* Writes shared by several transactions                                    *)
(***************************************************************************)
Resolved(claim, st, att) ==
    LET hit == {i \in InFlight : claim \in {0, i}}
    IN  IF hit = {} THEN Append(claims, NewClaim(st, att, FALSE))
        ELSE [i \in DOMAIN claims |->
                IF i \in hit THEN [claims[i] EXCEPT !.st = st, !.att = att] ELSE claims[i]]

\* markFailed under the fence (publishing, a).
MarkFailed(a, claim, outcome) ==
    IF row.st = "publishing" /\ row.att = a
    THEN /\ row' = [row EXCEPT !.st = "failed"]
         /\ claims' = Resolved(claim, outcome, a)
    ELSE /\ claims' = IF claim \in InFlight THEN [claims EXCEPT ![claim].st = outcome]
                      ELSE claims
         /\ UNCHANGED row

Released(st) == [st EXCEPT !.lease = None, !.over = FALSE]

\* Nobody asks an ended stage for its deadline or its polls.
Ended(st, phase) ==
    IF phase \in LivePhases THEN [Released(st) EXCEPT !.phase = phase]
    ELSE [Released(st) EXCEPT !.phase = phase, !.late = FALSE, !.polls = 0]

Goto(h, pc)  == worker' = [worker EXCEPT ![h].pc = pc]
Leave(h)     == worker' = [worker EXCEPT ![h] = [Idle EXCEPT !.pc = "returning",
                                                   !.job = worker[h].job, !.live = worker[h].live]]
Stop(h, end) == worker' = [worker EXCEPT ![h].pc = "stopping", ![h].end = end]
Elsewhere    == <<input, cleared, queueVars, recovered, decisions>>

(***************************************************************************)
(* People                                                                   *)
(***************************************************************************)
Decide == decisions < MaxDecisions /\ decisions' = decisions + 1 /\ UNCHANGED recovered

Approve ==
    /\ Decide
    /\ row.st \in {"pending", "failed"} /\ ~ OutcomeUnknown
    /\ row' = [row EXCEPT !.st = "queued"]
    /\ waiting' = waiting \cup {PublishJob}
    /\ UNCHANGED <<input, claims, cleared, stages, orphans, worker>>

\* reject: refused while a claim is in flight; cancels jobs of the publish queue only.
Reject ==
    /\ Decide
    /\ row.st \in {"queued", "publishing"}
    /\ row.st = "publishing" => InFlight = {}
    /\ row' = [st |-> "pending", att |-> row.att + 1]
    /\ waiting' = {j \in waiting : j.s # 0}
    /\ orphans' = {j \in orphans : j.s # 0}
    /\ worker' = [h \in Handlers |-> IF worker[h].job.s = 0
                                     THEN [worker[h] EXCEPT !.live = FALSE] ELSE worker[h]]
    /\ UNCHANGED <<input, claims, cleared, stages>>

AssertDelivery(delivered) ==
    LET verdict == IF delivered THEN "published" ELSE "failed"
    IN  /\ Decide
        /\ OutcomeUnknown /\ claims[Last(Finished)].att = row.att
        /\ row' = [row EXCEPT !.st = verdict]
        /\ claims' = Append(claims, NewClaim(verdict, row.att, TRUE))
        /\ cleared' = IF delivered THEN cleared ELSE Len(claims)
        /\ UNCHANGED <<input, stages, queueVars, worker>>

\* nonpublicUnknown, noDeliveryWork and the attempt the row shows.
Discardable(a) ==
    /\ stages[a].phase = "preparation_unknown"
    /\ stages[a].lease = None \/ stages[a].over
    /\ row.st = "failed" /\ row.att = a
    /\ NoJob /\ ~ Blocked(a)

Discard(a) ==
    /\ Decide
    /\ Discardable(a)
    /\ stages' = [stages EXCEPT ![a] = Ended(@, "cancelled")]
    /\ UNCHANGED <<input, row, claims, cleared, queueVars, worker>>

\* The channel is connected again, at any time.  Edits of the text and the media are the
\* other way to a new version, while the delivery is neither queued nor publishing.
ChangeInput ==
    /\ input < MaxChanges
    /\ input' = input + 1
    /\ UNCHANGED <<dataVars, cleared, queueVars, worker, recovered, decisions>>

(***************************************************************************)
(* The queues                                                               *)
(***************************************************************************)
Active(s) == (\E j \in orphans : j.s = s) \/ \E h \in Handlers : worker[h].live /\ worker[h].job.s = s

\* The publish queue runs one job of a channel at a time.  Its callback first reads the
\* delivery, and is done with one that is not queued.
FetchPublish(h, j) ==
    /\ worker[h].pc = "idle" /\ j \in waiting /\ j.s = 0
    /\ ~ Active(0)
    /\ waiting' = waiting \ {j}
    /\ worker' = [worker EXCEPT ![h] =
          IF row.st = "queued"
          THEN [Idle EXCEPT !.pc = "loaded", !.job = j, !.live = TRUE, !.seen = row, !.version = input]
          ELSE [Idle EXCEPT !.pc = "returning", !.job = j, !.live = TRUE]]
    /\ UNCHANGED <<dataVars, input, cleared, orphans, recovered, decisions>>

FetchPoll(h, j) ==
    /\ worker[h].pc = "idle" /\ j \in waiting /\ j.s # 0
    /\ waiting' = waiting \ {j}
    /\ worker' = [worker EXCEPT ![h] = [Idle EXCEPT !.pc = "polling", !.job = j, !.a = j.s, !.live = TRUE]]
    /\ UNCHANGED <<dataVars, input, cleared, orphans, recovered, decisions>>

FailJob(j) ==
    waiting' = IF j.left = 0 THEN waiting ELSE waiting \cup {[j EXCEPT !.left = @ - 1]}

\* Expiry or a missed heartbeat, of a callback that runs on or of one that is gone.
Timeout(h) ==
    /\ worker[h].live
    /\ worker' = [worker EXCEPT ![h].live = FALSE]
    /\ FailJob(worker[h].job)
    /\ UNCHANGED <<dataVars, input, cleared, orphans, recovered, decisions>>

TimeoutOrphan(j) ==
    /\ j \in orphans
    /\ orphans' = orphans \ {j}
    /\ FailJob(j)
    /\ UNCHANGED <<dataVars, input, cleared, worker, recovered, decisions>>

\* complete(); a callback whose job had timed out may end the retry under the same id.
Return(h) ==
    LET retry == [worker[h].job EXCEPT !.left = @ - 1]
    IN  /\ worker[h].pc = "returning"
        /\ \/ /\ worker' = [worker EXCEPT ![h] = Idle]
              /\ UNCHANGED orphans
           \/ /\ ~ worker[h].live
              /\ worker' = [g \in Handlers |-> IF g = h THEN Idle
                              ELSE IF worker[g].live /\ worker[g].job = retry
                              THEN [worker[g] EXCEPT !.live = FALSE] ELSE worker[g]]
              /\ orphans' = orphans \ {retry}
        /\ UNCHANGED <<dataVars, input, cleared, waiting, recovered, decisions>>

Crash(h) ==
    /\ worker[h].pc # "idle"
    /\ orphans' = IF worker[h].live THEN orphans \cup {worker[h].job} ELSE orphans
    /\ worker' = [worker EXCEPT ![h] = Idle]
    /\ UNCHANGED <<dataVars, input, cleared, waiting, recovered, decisions>>

(***************************************************************************)
(* StagedPublicationService.start                                           *)
(***************************************************************************)
\* holdStagedPreflight.
Preflight(h) ==
    /\ row = worker[h].seen /\ input = worker[h].version
    /\ worker[h].live /\ ~ Blocked(0)

\* begin: the attempt and its stage in one transaction.  Its answer may be lost.
Begin(h) ==
    LET a == row.att + 1
    IN  /\ worker[h].pc = "loaded"
        /\ IF Preflight(h)
           THEN /\ row' = [st |-> "publishing", att |-> a]
                /\ stages' = [stages EXCEPT ![a] = [NoStage EXCEPT
                      !.phase = "preparation_intent", !.lease = h, !.input = input]]
                /\ \/ worker' = [worker EXCEPT ![h] = [Idle EXCEPT !.pc = "begun", !.a = a,
                                                  !.job = worker[h].job, !.live = TRUE]]
                   \/ Leave(h)
           ELSE Leave(h) /\ UNCHANGED <<row, stages>>
        /\ UNCHANGED <<claims, Elsewhere>>

\* Access could not be verified: a failure on record, under the same preflight.
RefuseStart(h) ==
    /\ worker[h].pc = "loaded"
    /\ IF Preflight(h)
       THEN /\ row' = [st |-> "failed", att |-> row.att + 1]
            /\ claims' = Resolved(0, "failed", row.att + 1)
       ELSE UNCHANGED <<row, claims>>
    /\ Leave(h)
    /\ UNCHANGED <<stages, Elsewhere>>

\* authorized, then the preparation request: a container, a refusal, or no answer.  The
\* request changes nothing that anybody else can see.
Prepare(h) ==
    /\ worker[h].pc = "begun"
    /\ IF ~ Authorized(h, "preparation_intent") THEN Stop(h, "cancelled")
       ELSE \/ Goto(h, "prepared")
            \/ \E end \in {"failed", "preparation_unknown"} : Stop(h, end)
    /\ UNCHANGED <<dataVars, Elsewhere>>

\* prepared: one transaction; whatever became of the delivery, the container is kept.
SavePrepared(h) ==
    LET a == worker[h].a
        keep(phase) == IF stages[a].phase = "preparation_intent" THEN phase ELSE stages[a].phase
    IN  /\ worker[h].pc = "prepared"
        /\ IF ~ Matches(a) \/ ~ worker[h].live
           THEN /\ stages' = [stages EXCEPT ![a] =
                       Ended(@, keep(IF Matches(a) THEN "preparation_unknown" ELSE "cancelled"))]
                /\ Stop(h, "preparation_unknown")
                /\ UNCHANGED waiting
           ELSE IF Fence(h, "preparation_intent")
           THEN /\ stages' = [stages EXCEPT ![a] = Ended(@, "waiting")]
                /\ waiting' = waiting \cup {PollJob(a)}
                /\ Leave(h)
           ELSE /\ stages' = [stages EXCEPT ![a].phase = keep("preparation_unknown")]
                /\ Stop(h, "preparation_unknown")
                /\ UNCHANGED waiting
        /\ UNCHANGED <<row, claims, input, cleared, orphans, recovered, decisions>>

(***************************************************************************)
(* StagedPublicationService.resume                                          *)
(***************************************************************************)
Acquirable(h) ==
    LET a == worker[h].a
    IN  /\ stages[a].phase = "waiting" /\ Matches(a) /\ worker[h].live
        /\ stages[a].lease = None \/ stages[a].over
        /\ ~ stages[a].late /\ stages[a].polls < MaxPolls

Acquire(h) ==
    LET a == worker[h].a
    IN  /\ worker[h].pc = "polling"
        /\ IF Acquirable(h)
           THEN /\ stages' = [stages EXCEPT ![a].lease = h, ![a].over = FALSE, ![a].polls = @ + 1]
                /\ Goto(h, "acquired")
           ELSE Leave(h) /\ UNCHANGED stages
        /\ UNCHANGED <<row, claims, Elsewhere>>

\* authorized, then the read-only inspection and its answers; a failed one is deferred.
Inspect(h) ==
    /\ worker[h].pc = "acquired"
    /\ IF ~ Authorized(h, "waiting") THEN Stop(h, "cancelled")
       ELSE \/ IF stages[worker[h].a].polls >= MaxPolls
               THEN Stop(h, "failed") ELSE Goto(h, "deferring")
            \/ Stop(h, "failed")
            \/ Stop(h, "published_without_receipt")
            \/ Goto(h, "ready")
    /\ UNCHANGED <<dataVars, Elsewhere>>

Defer(h) ==
    LET a == worker[h].a
    IN  /\ worker[h].pc = "deferring"
        /\ IF Matches(a) /\ worker[h].live /\ Fence(h, "waiting")
           THEN /\ stages' = [stages EXCEPT ![a] = Released(@)]
                /\ waiting' = waiting \cup {PollJob(a)}
           ELSE UNCHANGED <<stages, waiting>>
        /\ Leave(h)
        /\ UNCHANGED <<row, claims, input, cleared, orphans, recovered, decisions>>

\* verify and finalIntent: the claim and the phase in one transaction.  When its answer is
\* lost the callback believes that it has no claim.
FinalIntent(h) ==
    LET a == worker[h].a
    IN  /\ worker[h].pc = "ready"
        /\ IF Fence(h, "waiting") /\ Matches(a) /\ worker[h].live /\ ~ Blocked(a)
           THEN /\ claims' = Append(claims, NewClaim("in_flight", a, FALSE))
                /\ stages' = [stages EXCEPT ![a].phase = "final_intent", ![a].claim = Len(claims) + 1]
                /\ \/ worker' = [worker EXCEPT ![h].pc = "claimed", ![h].claim = Len(claims) + 1]
                   \/ Stop(h, "failed")
           ELSE Stop(h, "cancelled") /\ UNCHANGED <<claims, stages>>
        /\ UNCHANGED <<row, Elsewhere>>

AuthorizeFinal(h) ==
    /\ worker[h].pc = "claimed"
    /\ IF Authorized(h, "final_intent") THEN Goto(h, "finalizing") ELSE Stop(h, "cancelled")
    /\ UNCHANGED <<dataVars, Elsewhere>>

\* The final request.  "accepted" names a post that Meta has not confirmed.
Finalize(h) ==
    /\ worker[h].pc = "finalizing"
    /\ \E posted \in BOOLEAN :
          /\ claims' = [claims EXCEPT ![worker[h].claim].posted = posted]
          /\ \/ posted /\ Goto(h, "confirmed")
             \/ posted /\ Goto(h, "accepted")
             \/ ~ posted /\ Stop(h, "failed")
             \/ Stop(h, "final_unknown")
    /\ UNCHANGED <<row, stages, Elsewhere>>

\* recordPublished under (publishing, attempt) and a claim still in flight; it may be lost.
RecordPublished(h) ==
    LET w == worker[h]
    IN  /\ w.pc = "confirmed"
        /\ \/ /\ row = [st |-> "publishing", att |-> w.a] /\ w.claim \in InFlight
              /\ row' = [row EXCEPT !.st = "published"]
              /\ claims' = [claims EXCEPT ![w.claim].st = "published"]
           \/ UNCHANGED <<row, claims>>
        /\ worker' = [worker EXCEPT ![h].pc = "retaining", ![h].kept = TRUE]
        /\ UNCHANGED <<stages, Elsewhere>>

\* recordAcceptedPublication, or its loss; the stage ends as unknown next.
RecordAccepted(h) ==
    LET w == worker[h]
    IN  /\ w.pc = "accepted"
        /\ \/ /\ claims[w.claim].st \in {"in_flight", "unknown"}
              /\ claims' = [claims EXCEPT ![w.claim].st = "unknown"]
              /\ row' = IF row = [st |-> "publishing", att |-> w.a]
                        THEN [row EXCEPT !.st = "failed"] ELSE row
           \/ UNCHANGED <<row, claims>>
        /\ worker' = [worker EXCEPT ![h].pc = "stopping", ![h].end = "final_unknown", ![h].kept = TRUE]
        /\ UNCHANGED <<stages, Elsewhere>>

\* Faulty: whoever wants to end a stage may.
MayEndAny(h) == stages[worker[h].a].phase # "none"

\* end: by the token alone, from a phase that is still live.
MayEnd(h) ==
    LET w == worker[h]
    IN  /\ stages[w.a].lease = h
        /\ \/ stages[w.a].phase \in LivePhases
           \/ stages[w.a].phase = "preparation_unknown" /\ w.end = "preparation_unknown"

\* safeEnd; only an end that happened is recorded, except that a final request whose
\* answer is missing always is.
EndStage(h) ==
    LET w == worker[h]
        Then(ended) == IF w.kept THEN Goto(h, "retaining")
                       ELSE IF ended \/ w.end = "final_unknown" THEN Goto(h, "recording")
                       ELSE Leave(h)
    IN  /\ w.pc = "stopping"
        /\ \/ /\ MayEnd(h)
              /\ stages' = [stages EXCEPT ![w.a] = Ended(@, w.end)]
              /\ Then(TRUE)
           \/ Then(FALSE) /\ UNCHANGED stages
        /\ UNCHANGED <<row, claims, Elsewhere>>

\* recorder.failed or recorder.unknown; a write that fails for good is logged.
RecordEnd(h) ==
    LET w == worker[h]
        unknown == w.end \in {"final_unknown", "published_without_receipt"}
    IN  /\ w.pc = "recording"
        /\ \/ MarkFailed(w.a, w.claim, IF unknown THEN "unknown" ELSE "failed")
           \/ UNCHANGED <<row, claims>>
        /\ Leave(h)
        /\ UNCHANGED <<stages, Elsewhere>>

\* Faulty: does not ask whether the receipt says published.
ConfirmedAlways(h) == stages[worker[h].a].phase \in {"final_intent", "final_unknown"}

Confirmed(h) ==
    /\ worker[h].end # "final_unknown"
    /\ stages[worker[h].a].phase \in {"final_intent", "final_unknown"}
    /\ claims[worker[h].claim].st = "published"

\* retainReceipt: the post's ids, and the phase only when the receipt confirms it.
RetainReceipt(h) ==
    LET a == worker[h].a
    IN  /\ worker[h].pc = "retaining"
        /\ \/ stages' = [stages EXCEPT ![a] = [Released(stages[a]) EXCEPT !.ext = TRUE,
                            !.phase = IF Confirmed(h) THEN "published" ELSE @]]
           \/ UNCHANGED stages
        /\ Leave(h)
        /\ UNCHANGED <<row, claims, Elsewhere>>

\* A query that throws: before a lease is held the job fails, after the claim the
\* outcome counts as unknown, in between the callback takes it that nothing was made
\* public, also when it was ending a stage as published_without_receipt.
DatabaseError(h) ==
    /\ \/ /\ worker[h].pc = "polling"
          /\ worker' = [worker EXCEPT ![h] = Idle]
          /\ IF worker[h].live THEN FailJob(worker[h].job) ELSE UNCHANGED waiting
       \/ /\ worker[h].pc \in {"begun", "prepared"} /\ Stop(h, "preparation_unknown")
          /\ UNCHANGED waiting
       \/ /\ worker[h].pc \in {"acquired", "ready"} /\ Stop(h, "failed")
          /\ UNCHANGED waiting
       \/ /\ worker[h].pc = "stopping" /\ worker[h].end = "published_without_receipt"
          /\ Stop(h, "failed")
          /\ UNCHANGED waiting
       \/ /\ worker[h].pc = "claimed" /\ Stop(h, "final_unknown")
          /\ UNCHANGED waiting
    /\ UNCHANGED <<dataVars, input, cleared, orphans, recovered, decisions>>

(***************************************************************************)
(* Time, recovery and the sweeps                                            *)
(***************************************************************************)
LeaseRunsOut(a) ==
    /\ stages[a].lease # None /\ ~ stages[a].over
    /\ stages' = [stages EXCEPT ![a].over = TRUE]
    /\ UNCHANGED <<row, claims, Elsewhere, worker>>

DeadlinePasses(a) ==
    /\ stages[a].phase \in {"preparation_intent", "waiting"} /\ ~ stages[a].late
    /\ stages' = [stages EXCEPT ![a].late = TRUE]
    /\ UNCHANGED <<row, claims, Elsewhere, worker>>

Recoverable(a) ==
    /\ stages[a].phase \in LivePhases
    /\ stages[a].lease = None \/ stages[a].over
    /\ NoJob

\* Faulty: asks for the publication again.
RecoveredPhaseAgain(a) ==
    IF stages[a].phase = "final_intent" THEN "failed"
    ELSE IF stages[a].phase = "preparation_intent" THEN "preparation_unknown"
    ELSE IF Matches(a) THEN "failed" ELSE "cancelled"

\* What recover ends a stage as, from the phase alone.
RecoveredPhase(a) ==
    IF stages[a].phase = "final_intent" THEN "final_unknown"
    ELSE IF stages[a].phase = "preparation_intent" THEN "preparation_unknown"
    ELSE IF Matches(a) THEN "failed" ELSE "cancelled"

\* recover: polls a waiting container again, or ends the stage and records that next.
Recover(a) ==
    /\ recovered = None
    /\ Recoverable(a)
    /\ IF stages[a].phase = "waiting" /\ Matches(a) /\ ~ stages[a].late /\ stages[a].polls < MaxPolls
       THEN /\ stages' = [stages EXCEPT ![a] = Released(@)]
            /\ waiting' = waiting \cup {PollJob(a)}
            /\ UNCHANGED recovered
       ELSE /\ stages' = [stages EXCEPT ![a] = Ended(@, RecoveredPhase(a))]
            /\ recovered' = [a |-> a, claim |-> stages[a].claim, end |-> RecoveredPhase(a)]
            /\ UNCHANGED waiting
    /\ UNCHANGED <<row, claims, input, cleared, orphans, worker, decisions>>

\* recorder.unknown or recorder.failed, in a transaction of its own; or the worker died.
RecordRecovered ==
    /\ recovered # None
    /\ \/ MarkFailed(recovered.a, IF recovered.end = "final_unknown" THEN recovered.claim ELSE 0,
                     IF recovered.end = "final_unknown" THEN "unknown" ELSE "failed")
       \/ UNCHANGED <<row, claims>>
    /\ recovered' = None
    /\ UNCHANGED <<stages, input, cleared, queueVars, worker, decisions>>

\* The two publish sweeps, which leave rows with a live stage to the recovery pass.
SweepPublish ==
    /\ row.st \in {"queued", "publishing"} /\ NoJob /\ ~ LiveStage
    /\ row' = [row EXCEPT !.st = "failed"]
    /\ claims' = Resolved(0, IF InFlight = {} THEN "failed" ELSE "unknown", row.att)
    /\ UNCHANGED <<stages, Elsewhere, worker>>

(***************************************************************************)
(* Specification                                                            *)
(***************************************************************************)
Init ==
    /\ row = [st |-> "pending", att |-> 0]
    /\ input = 0 /\ claims = <<>> /\ cleared = 0
    /\ stages = [a \in StageNumbers |-> NoStage]
    /\ waiting = {} /\ orphans = {}
    /\ worker = [h \in Handlers |-> Idle]
    /\ recovered = None /\ decisions = 0

PersonStep ==
    \/ Approve \/ Reject \/ ChangeInput
    \/ \E delivered \in BOOLEAN : AssertDelivery(delivered)
    \/ \E a \in StageNumbers : Discard(a)

HandlerStep(h) ==
    \/ Begin(h) \/ RefuseStart(h) \/ Prepare(h)
    \/ SavePrepared(h) \/ Acquire(h) \/ Inspect(h) \/ Defer(h) \/ FinalIntent(h)
    \/ AuthorizeFinal(h) \/ Finalize(h) \/ RecordPublished(h) \/ RecordAccepted(h)
    \/ EndStage(h) \/ RecordEnd(h) \/ RetainReceipt(h) \/ Return(h)

FetchAny == \E h \in Handlers, j \in waiting : FetchPublish(h, j) \/ FetchPoll(h, j)

Next ==
    \/ PersonStep \/ FetchAny \/ RecordRecovered \/ SweepPublish
    \/ \E h \in Handlers : HandlerStep(h) \/ DatabaseError(h) \/ Timeout(h) \/ Crash(h)
    \/ \E j \in orphans : TimeoutOrphan(j)
    \/ \E a \in StageNumbers : LeaseRunsOut(a) \/ DeadlinePasses(a) \/ Recover(a)

Spec == Init /\ [][Next]_vars

(***************************************************************************)
(* Properties                                                               *)
(***************************************************************************)
TypeOK ==
    /\ row \in Row /\ input \in 0..MaxChanges
    /\ claims \in Seq(Claim) /\ cleared \in Nat
    /\ stages \in [StageNumbers -> Stage]
    /\ waiting \subseteq Job /\ orphans \subseteq Job
    /\ worker \in [Handlers -> Worker]
    /\ recovered \in {None} \cup [a : StageNumbers, claim : Nat, end : EndPhases]
    /\ decisions \in 0..MaxDecisions

Live == {i \in DOMAIN claims : claims[i].posted /\ i > cleared}

\* However often the delivery is approved, prepared, recovered and approved again, at most
\* one final request made a post that no person has declared undelivered.
OneFinalPost == Cardinality(Live) <= 1

\* A delivery that reads as plainly failed left nothing public: the phase recorded before
\* each request tells recovery which request may have gone out.
FailedIsNonpublic == row.st = "failed" /\ ~ OutcomeUnknown => Live = {}

\* A stage says published only with its own published receipt and a published row, although
\* receipt and stage are written apart and recovery may end the stage in between.
PublishedStageHasReceipt ==
    \A a \in StageNumbers : stages[a].phase = "published" =>
        row = [st |-> "published", att |-> a] /\ claims[stages[a].claim].st = "published"

\* The receipt of an unknown publication says that it was published.
ReceiptConfirms(a) ==
    /\ stages[a].phase = "final_unknown" /\ stages'[a].phase = "published"
    /\ claims[stages[a].claim].st = "published"

\* A stage that ended never becomes live again and keeps its end, with two exceptions: a
\* person discards a lost preparation, and the stage's own published receipt confirms a
\* publication that had ended as unknown.
StageEndsOnce ==
    [][\A a \in StageNumbers :
          stages[a].phase \in EndPhases \cup {"published"} =>
              stages'[a].phase = stages[a].phase \/ Discard(a) \/ ReceiptConfirms(a)]_vars

\* A delivery never prepares a second container while it may own an earlier one: under a
\* newer stage that is not over, no earlier one is still preparing, waiting or lost.
OneContainer ==
    \A a, b \in StageNumbers :
        a < b /\ stages[b].phase \in LivePhases =>
            stages[a].phase \notin {"preparation_intent", "waiting", "preparation_unknown"}

\* Spec 0026 asks for an explicit recovery of a lost preparation: once the delivery has
\* failed and everything is quiet, the person can discard it.
PreparationIsRecoverable ==
    \A a \in StageNumbers :
        (/\ stages[a].phase = "preparation_unknown" /\ stages[a].lease = None
         /\ row.st = "failed" /\ NoJob /\ ~ ClaimsBlock)
            => Discardable(a)

\* No stage is at work, and the delivery is neither queued nor publishing.
AtRest ==
    /\ \A a \in StageNumbers : stages[a].phase \notin LivePhases
    /\ row.st \notin {"queued", "publishing"}
=============================================================================
