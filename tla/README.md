# Verification of Pubrick's delivery core and the protocols around it

Pubrick is a content factory: people and AI write posts, a person approves them,
and a worker delivers each post to the channels of its brand. This directory
models the parts where a mistake is public or paid for: the path from an approval
to exactly one post on each channel, and the protocols around it that share its
difficulties (a queue that may run a job twice, callbacks that outlive their job,
writes that fail, leases that run out).

## Inventory of the system

| part | state it keeps | operations | what is hard |
| --- | --- | --- | --- |
| Delivery decisions, `apps/api/src/content/content.repository.ts` | `content_items.status`, `archived_from_status`; `adaptations.status`, `attempt_count`, `scheduled_at`; `publications` | approve, schedule, reschedule, cancel, retract, reject, archive, restore, assert delivery, confirm manual publication | a decision lands while a callback of an older decision is running |
| Publish queue, `apps/api/src/queue`, `apps/worker/src/queue.service.ts`, `packages/shared/src/jobs.ts` | pg-boss job rows, dead letters | enqueue under the id (adaptation, attempt), cancel by payload, retry, expire, dead-letter, retain | a job expires while its callback runs on; `complete` and `fail` go by id, not by execution |
| Publish worker, `apps/worker/src/publish` | local variables between awaits; `in_flight` claims | load, mark, claim, send, record, release; dead letters; sweeps | crash between send and receipt; zombies; failing writes; late replies |
| Roll-up, `packages/shared/src/dto/content.ts` | none (a fold over the fan-out) | `nextItemStatus`, `recomputeItemStatus` | two channels ending at once; archived items |
| Row locks, `docs/lock-order.md` | the order of `FOR UPDATE` | every transaction above | deadlock; what was read before a lock was granted |
| Generation runs, `apps/worker/src/generate`, `apps/api/src/runs` | `pipeline_runs` with a fence and a lease, step checkpoints | admit, cancel, claim, begin step, checkpoint, finish, fail, sweep | a handler outliving its lease and paying twice |
| Staged Meta publication, `staged-publication.*`, `meta-preparations.*` | `meta_publication_stages` | begin, prepared, acquire, defer, final intent, receipt, end, recover, discard | recovery from each phase without asking Meta again |
| Telegram multipart delivery | `publications.partial_*` | compare-and-swap of the remaining text | a delayed or dying worker |
| Hosted AI calls, `packages/db/src/ai-call-admission.ts` | leases | acquire, release, expire | counting at the limit; a crash that leaves a lease |
| Webhook outbox, `apps/worker/src/webhooks` | delivery rows with attempts | record, scan, deliver, finish, revoke | a request nobody heard an answer to |
| Autopilot | dispatches, manual attempts, scan events | scan, manual check, sweep | double dispatch; a lost answer of a commit |
| Posting queue, client review, Telegram decisions, calendar, editorial plan | revisions, tokens, bindings | doors that lead to approve, reject or a generation request | stale previews |
| Channels and connections | credentials, targets | connect, verify, delete | deletion under a live claim |
| Billing, source reading, relevance, comments, suggestions, web, MCP | their own tables, or none | I/O, prompts, screens | little of it is a protocol |

The parts interact through PostgreSQL and pg-boss only. API and worker are
separate processes and never call each other: the API writes an adaptation and its
job in one transaction, pg-boss (in the same database) hands the job to a worker
callback, and the callback reads and writes the adaptation in several
transactions with one platform call in between.

`PROJECT.json` lists every component with its status, and under `hazards` each
place where the code could go wrong and a test would hardly notice.

## Modules

| module | what it is |
| --- | --- |
| `DeliveryContract` | the abstract specification: what the people who approve a post may rely on, channel by channel, without queue, worker or claims |
| `Publish` | the delivery core: one action per transaction, platform call or queue move; fairness; properties |
| `PublishRefines` | the refinement mapping of `Publish` into `DeliveryContract` |
| `MCPublish` | instantiates it for TLC (callback symmetry) |
| `GenerationRun` | generation runs of one organization: request, fence and lease, billed steps, checkpoints, draft |
| `StagedPublication` | one delivery to a Meta platform: container, polling, final request, recovery |
| `RowLocks` | the transactions on the channels of an item, one row lock per step, under READ COMMITTED |
| `TelegramParts` | one long Telegram post, message by message |
| `WebhookOutbox` | the outgoing webhooks of one subscription |
| `AiCallLeases` | admission of an organization's requests to AI providers |
| `Autopilot` | automatic drafts of a brand beside requests people make |
| `AroundDelivery` | the suite: the seven modules above side by side, with their fairness, for TLC and as one specification for the proofs |
| `PublishInvariant` | the inductive invariant `IInv` of `Publish`, conjunct by conjunct |
| `PublishProofs` | `Publish`: types, `IInv` is inductive, the eight kinds of step of a channel, every safety property, the refinement |
| `StagedProofs` | `StagedPublication`: inductive invariant, its safety properties |
| `RowLocksProofs` | `RowLocks`: inductive invariant, no circle of waits, item and channels agree |
| `TelegramProofs`, `WebhookProofs`, `AiCallProofs`, `AutopilotProofs` | the theorems of those four parts |
| `AroundProofs` | the theorems of `GenerationRun`; and every theorem of a part as a theorem of the suite |

### The suite

The seven parts share no state that their modules mention (a staged or Telegram
delivery is a `Publish` delivery whose send is looked at more closely).
`AroundDelivery` therefore chooses one `part` at the start and lets only that part
move; every behaviour of it is a behaviour of one module, the others rest in an
initial state, and its state count is the sum of theirs, not the product. It exists
so that one run checks them all. `GenerationRun` is taken with EXTENDS and the
others by INSTANCE with renamed variables.

### State and code: `Publish`

| variable | code |
| --- | --- |
| `item`, `archivedFrom` | `content_items.status`, `archived_from_status` (null is written `draft`) |
| `status`, `attempt`, `slot` | `adaptations.status`, `attempt_count`, `scheduled_at` (null is 0) |
| `receipts` | the `publications` rows of an adaptation in creation order; `st` status, `att` attempt, `human` asserted by a person, `ext` carries provider ids |
| `jobs` | rows of the publish queue: id (adaptation `a`, attempt `n`), start time `at`, retries `left`, `waiting` (created or retry), `active`, `dead` (completed, failed, cancelled) |
| `deadLetters` | adaptations named by a job of the dead-letter queue |
| `worker` | what one execution of a callback remembers between awaits: its job, its fence, the slot it read, its claim, the platform's reply |
| `now`, `decisions` | the database clock; a bound on people's decisions |
| `cleared`, `posted`, `superseded` | history only, no guard reads them: up to which receipt a person declared "not delivered"; whether the platform really created the post; whether the claim was closed as unknown after its attempt had lost the row |

People: `Approve`, `Reschedule`, `CancelSchedule`, `Retract`, `Reject`, `Archive`,
`Restore`, `AssertDelivery`, `ConfirmManual` are whole API transactions, with the
enqueueing and cancelling of jobs and the roll-up they do.

The callback (`PublishService.handle`) is cut at its awaits: `Load` and the early
returns; `CheckSent`; `Mark` (markPublishing); `Claim` (claimSend); `Send` (the
platform call, whose reply and whose effect on the platform are chosen separately,
so that a post may exist although the reply is lost); then one of
`RecordPublished`, `RecordAccepted`, `RecordFailure` (markFailed under its fence),
`ReleaseAndThrow`. `LoseWrite` is a terminal write that fails for good and is
swallowed, `DatabaseError` any other query that throws, `Crash` the death of the
process in any state.

The queue: `Fetch`, `Complete`, `Fail`, `Timeout` (the callback may run on: this is
where zombies come from), `DropJob`, and for dead letters `TakeDeadLetter`,
`Exhaust` (markExhausted reads, then writes), `DropDeadLetter`. The cron sweeps are
`SweepAbandoned` and `SweepStranded`.

### State and code: the parts around it

- `GenerationRun`: `status`, `fence`, `lease`, `steps` are the columns of
  `pipeline_runs` (`active_job_id`, lease time, checkpoints); `pin` is the key
  revision the run was accepted with, `paid` the ledger's rows, `drafts` the content
  items written. `Admit`/`Create` are the two halves of a request under the
  organization's advisory lock, `Claim` draws the fence (the nonce of the callback),
  `BeginStep`, `Call`, `WriteCheckpoint`, `Finish`, `RecordFailure` the callback;
  `MarkExhausted` and `SweepAbandoned` the ends without one. `Call` is the billed
  request: it is admitted only under the current key.
- `StagedPublication`: `row` is the adaptation, `claims` its publications, `stages`
  the rows of `meta_publication_stages` (phase, lease token, deadline, polls, frozen
  input). `Begin`, `Prepare`, `SavePrepared` create the container, `Acquire`,
  `Inspect`, `Defer` poll it with delayed jobs, `FinalIntent`, `AuthorizeFinal`,
  `Finalize` and the `Record*` actions make it public; `Recover` decides from the phase
  alone, and records the verdict in a second transaction (`RecordRecovered`);
  `Discard` is a person's.
- `RowLocks`: `tx` is what a session is in the middle of, `held` its row locks, and
  `status`, `item`, `was` committed values. `LockRow`, `LockChannel`, `LockItem` take one
  lock each in PostgreSQL's four modes; what a transaction decides is read when it
  has the lock, and written at `Commit`.
- `TelegramParts`: `receipt.remaining` counts the messages of the remaining text,
  `posted` those Telegram accepted; `FirstCheckpoint` and `ReplyCheckpoint` are
  `markTelegramPartAccepted`.
- `WebhookOutbox`: `Trigger`/`Record` are the database trigger and the commit of the
  transaction it ran in; `Start`, `CloseRevoked`, `ExpireClaims`, `Claim`,
  `LoadSubscription`, `Post`, `RecordEnd` one scan; `answers` is what came of each request.
  `Revoke` is the second statement of the revoking transaction, `RevokeCommits` its end: until
  then the others still see the subscription active.
- `AiCallLeases`: `Begin`, `Lock`, `Count`, `Commit`, `Dispatch`, `Settle`, `Release`
  are `withHostedAiCall`; a tick is elapsed time.
- `Autopilot`: `dispatch`, `attempt`, `event` are the rows of `autopilot_dispatches`,
  `autopilot_manual_attempts`, `autopilot_scan_events`; `Trigger` is the admission
  transaction, whose answer may be lost after its commit (the callback then goes to
  `Catch`), `TriggerFails` the one that was rolled back.

Beside some definitions stands a "Faulty" variant that nothing uses. Each is that
definition with one plausible bug (an index that is not there, a fence that is
not asked, a counter that does not advance) and exists to show that the properties
notice it: substituting it for the original makes TLC report the property that
`PROJECT.json` pairs with it under `mutants`.

## Abstractions, and why they are safe

Everywhere: guards that only refuse are left out or folded into a choice, so the
model does at least what the code does; wording, logging and layout are left out;
identities are model values.

Publish:

- A sweep asks how old `updated_at` is. The model lets a sweep take any set of rows
  with no live job: more sweeps than the code makes, so safety carries over.
- A platform's answer is one of five kinds. "Permanent" and "transient" are only
  given when nothing was created: that is the contract of the adapters, which are
  not modelled. "Unknown" says nothing either way.
- A partly delivered Telegram message is an "unknown" reply (see `TelegramParts`).
- Dead letters are a set of adaptations, not a sequence of jobs: two letters of one
  adaptation are answered alike.
- Guards of `approve` that only refuse (client review, human involvement, posting
  times, media) are left out. Per-channel posting times are one common slot.
- The converging path after a violated unique index (`markAlreadyPublished`) is
  left out because `PublishedOnce` shows, and `PublishedIsToldOnce` proves, that the
  index is never hit.
- Deletion of organisations, channels and adaptations is left out here (`RowLocks`
  has the deletion of a channel). Times are ticks; the one-minute lead of a
  reschedule is "before due".

GenerationRun: one organization and one job per run. The admission of a billed call
and its request are one step. Checkpoints of another schema, ledger failures, error
texts, image steps and the template and guidance snapshots are left out. So is deleting
the key, which also fails the queued runs pinned to it. A dead
letter whose only write failed leaves a queued run queued for ever; `lostLetters`
names these runs and `AtRest` excepts them.

StagedPublication: one delivery. Slot and lateness are folded into the input version
and the deadline. The polling delay, container ids, media verification and the dead
letters of both queues (which only start the same recovery later) are left out. The
deadline and polls of an ended stage are reset, which nothing reads. A new input version is
a new connection, at any time; edits, the other way to one, need a delivery neither queued nor
publishing. Only a post made by the model's own `Finalize` is counted: where Meta reports a
published container that nobody here asked for, a write that throws ends the delivery as failed
(`DatabaseError`), and no property speaks of that. The run's two decisions do not reach
a "not delivered" and a whole second stage after it; `OneFinalRequest` holds for any number.

RowLocks: every transaction has one shape, its adaptations in its order and then, for
each, what its receipt refers to and the item above. Foreign-key checks are the key-share locks they take.

TelegramParts: a text is its number of messages; the callback whose job expired runs
beside the sweep or the dead letter that ends its claim.

WebhookOutbox: one subscription. When an attempt is due, event filters, the limit of
ten and payloads are left out; ten minutes pass at any time. A revocation that is rolled
back changes nothing and is left out.

AiCallLeases: one organization, each call made once, a fixed plan. Ticks are elapsed
time: the caller's timer and the database clock are only trusted to run at one rate,
and a provider's SDK to settle within `Drain` of its abort, `Drain < Grace`. The code
assumes the same when it adds a grace to the budget.

Autopilot: one brand. Hours, spend, channels and texts only refuse, so admission may
always do. The API's own admission is a count and an insert under the same advisory lock.
The count is the self-hosted one of live runs; in hosted mode `admitHostedJob` compares it
with the plan's limit instead, under the same lock. The early returns of the trigger that record
nothing may leave an attempt running until the sweep fails it. The cooldown is left out.

## Properties

Each stands in its module with its statement in words.

Publish:

- `AtMostOnePost`: at most one post of an adaptation is live that nobody declared undelivered.
  The exception, claims closed as unknown after losing the row, is exactly finding 1.
- `FailedLeftNothingLive`: plain "failed" (which invites another send) means nothing is live.
- `PublishedOnce`: the row says published exactly when one receipt does.
- `LiveClaimAuthorised`: a claim in flight belongs to a publishing row of an
  item neither rejected nor archived, at or after its slot.
- `JobIdsBehind`: no kept job row is ahead of `attempt_count`, and a pending row's next id is free.
- `UnknownIsResolvable`: a person can always settle an unknown delivery.
- `ItemTellsFanOut`: the item says published exactly when every channel does.
- `HumanDecisionStands`: no late callback, dead letter or sweep moves what a person settled.
- `ReceiptsAreFinal`: a finished receipt never changes its verdict.
- `ImplementsContract`: every step is, channel by channel, one that `DeliveryContract`
  allows: only an idle or failed channel with nothing live is sent, only a person ends
  an unknown, a delivery is told only when its post exists. `Overtake` in the contract
  is finding 1, stated as the one leak.
- `EventuallyDecided`: nothing stays queued, scheduled or publishing for ever.

Generation runs: `OneDraft`, `DraftIsCheckpointed` (a displaced callback never mixes
its outputs into the draft), `StepsAreBegunOnce` (a retry does not pay twice for a
checkpointed step), `VerdictIsFinal`, `CallsUseCurrentKey`, `RunLimit`.

Staged publication: `OneFinalPost`, `FailedIsNonpublic`, `PublishedStageHasReceipt`,
`OneContainer`, `StageEndsOnce` (but for two changes: a person discards a lost preparation, and
the stage's own published receipt confirms a publication that had ended as unknown).

Row locks: `NoDeadlock`, `PublishedTogether` (two channels that end at the same moment
do not see each other's verdict, and yet the item gets it), `ArchivedStays`, `ArchivedIsQuiet`.
`NoDeadlock` excepts circles of two or more sweeps: they lock rows in the order
`RETURNING` delivers them and then several items, against `docs/lock-order.md`. Both
sweeps run one after the other in one scheduled job, so two of them overlap only across
workers or ticks; PostgreSQL ends one of them, and the next tick repeats it.

Telegram: `CheckpointIsTrue` (the remaining text misses no message and repeats at most
one), `RemainingOnlyShrinks`, `FailedLeftNoMessage`.

Webhooks: `OnlyAskedAgain`, `VerdictIsTrue` (accepted is a 2xx; an endpoint that answers 5xx
may still have acted, `docs/webhooks.md:79`), `EndIsFinal`. AI calls: `LeaseCoversCall`,
`CallsBounded`. Autopilot: `VerdictsMatchRuns`, `RunsWithinLimits`, `AnswersAreFinal`.

`EndsAreFinal` and `EverythingEnds` join what several parts promise alike: what has
ended stays (a stage with its two exceptions), and what has begun ends.

## Runs

`CHECK_DEADLOCK FALSE` everywhere: decisions, faults and time are bounded, and a system
with nothing to deliver really is at rest. (Deadlock of row locks is `NoDeadlock`.)
`RetryLimit` is 5 in the code; 0 and 1 already give "last execution" and "one more
execution under the same id".

| run | instance | distinct states | shows |
| --- | --- | --- | --- |
| PublishOverlap | 1 channel, 2 callbacks, 1 retry, 2 decisions | 1.1 M | the zombie and its retry; every ending; approve and one more decision; the contract |
| PublishSchedule | 1 channel, 1 callback, 3 ticks, 2 slots, 3 decisions | 828 k | slots against the clock, moved and cancelled; `IInv` beside its proof |
| PublishChannels | 3 channels (automatic, by hand, without adapter) | 369 k | the roll-up over unlike endings; confirmation beside an automatic channel; the contract |
| PublishLiveness | 1 channel, 2 callbacks, 1 retry, 2 ticks, 1 slot | 60 k | `EventuallyDecided` under `Fairness` |
| AroundDelivery | the seven parts, bounds below | 1.8 M | the safety of each |
| AroundLiveness | generation, staged, webhooks, autopilot | 387 k | `EverythingEnds` |

Bounds of the suite: two callbacks, scans or sessions of every kind; one generation run of
two steps with one retry and two keys (a second step is what a displaced callback could
pay for again; a second key arrives between two calls); one Meta
delivery approved twice, with one poll and one retry; three adaptations of two items on two
channels and three transactions (two items and a shared channel are needed for a circle);
three Telegram replies; two webhooks of two attempts with one fault; three
AI calls, one a probe, with a limit of one and six ticks, enough for one call to end and
its lease to expire while another waits; two topics, one manual check, one scan, two requests,
a limit of two runs for the organization and of one automatic run a day, and two days (two
topics could break the daily limit, and the second day lifts it). `AroundLiveness` is without
symmetry and smaller, with two polls, one reconnection, two manual checks and two days. Longer texts, more steps or more callbacks repeat
these cases; the theorems remove the bounds for the properties they cover.

In Publish a claim conflict needs two executions, not three (a third meets the same
index); a re-send needs an approve, an ending and an approve. A slot must be able to be
early, due and late, hence `MaxTime >= MaxSlot + MaxLateness + 1` in PublishSchedule and
PublishLiveness. Callbacks are interchangeable, so safety runs with two use symmetry.

### Fairness

`Fairness` in Publish and the four `Fair...` definitions of the suite are weak and cover
only what the deployment schedules: a callback's next step; the fetch of a due job; the
end of a dead letter; the expiry of an active job whose callback is gone (a running one
need not expire); the commit of a request that was admitted; the passing of leases,
deadlines and the clock; the cron sweeps. People need not decide anything, and nothing
bad (crash, early timeout, loss of a row) is required to happen. Crashes and
timeouts are bounded through retries, faults and decisions, not through fairness. AI
calls, row locks and the Telegram callback promise no progress of their own.

### What disagrees with the code's own words

Each is a run that TLC ends with a counterexample.

1. `PublishUnknownResend`: a callback that lost its row closes its claim as
   unknown, which frees the in-flight slot while a newer execution of the same
   delivery stands between markPublishing and claimSend; that execution sends again. The comment on
   claimSend says an unresolved claim prevents this.
2. `PublishStaleJobId`: `sweepStranded` fails a row without advancing
   `attempt_count` although the dead row of that job id may still be kept; the next
   approve is refused with 409 until retention deletes it.
3. `PublishLateEvidence`: an accepted reply that comes back after a second execution
   closed the claim as unknown no longer matches the receipt's attempt; the
   provider's ids are lost.
4. `PublishNoAdapter`: the missing-adapter verdict is fenced on the row as read by
   `load`, so it fails a row that a person took back between fetch and load.
5. `StagedStuck`: a rejection while a Meta preparation is out moves the attempt on; the
   stage then ends as preparation_unknown, blocks every later begin of the delivery, and
   `discard`, which asks for the row's own attempt, refuses it for ever.
6. `RowLocksApprove`: an approve that skipped a publishing channel and waited for the item
   behind that channel's verdict writes `approved` over the item's failed or partially published
   status (a published item is read again under the lock and refused), and no delivery is left
   that would fold it again.

Comments that describe earlier code, seen on the way: `sweepStranded` says a
`scheduled` row can hold an in-flight claim (reject refuses such a row now, and
`LiveClaimAuthorised` excludes it); `approve` says that `markPublished` writes
unconditionally (it is fenced).

## Proofs

TLAPS proves every safety property that a run checks, invariants and action
properties alike: for `Publish` as theorems of its `Spec`, for the parts around it first as
theorems of the part and then as theorems of `AllSpec`, the specification the suite
runs. They hold for every number of channels, callbacks, sessions, retries, ticks,
decisions, runs, steps, polls, messages, calls and deliveries that the module's named assumption admits.

| theorem | statement |
| --- | --- |
| `TypeCorrect`, `InvariantHolds` | `Spec => [](TypeOK /\ WorkersOwnRows)`, `Spec => []IInv` |
| `NeverPostedTwice`, `FailureIsClean`, `ClaimsAuthorised` | `AtMostOnePost`, `FailedLeftNothingLive`, `LiveClaimAuthorised` |
| `ChannelsHold` | row and receipts of every channel agree |
| `PublishedIsToldOnce`, `UnknownCanBeSettled`, `FinishedStays` | `PublishedOnce`, `UnknownIsResolvable`, `ReceiptsAreFinal` |
| `Implementation` | `Spec => ImplementsContract` |
| `ItemTellsTruth`, `JobIdsStayBehind` | `ItemTellsFanOut` (for a fan-out that is not empty), `JobIdsBehind` |
| `DecisionsStand` | `HumanDecisionStands`, if every platform has an adapter |
| `StagedSafe`, `OneFinalRequest`, `FailedMeansNothingPublic`, `PublishedMeansReceipt`, `NoSecondContainer`, `StageKeepsItsEnd` | `StagedInv`, `OneFinalPost`, `FailedIsNonpublic`, `PublishedStageHasReceipt`, `OneContainer`, `StageEndsOnce` |
| `LocksHold`, `NobodyWaitsInACircle`, `ItemsFollowRows`, `ArchivedHasNothingToSend`, `OnlyRestoreRevives` | `LocksInv`, `NoDeadlock`, `PublishedTogether`, `ArchivedIsQuiet`, `ArchivedStays` |
| `CheckpointTellsTruth`, `FailedLeftNothing`, `RemainderShrinks` | `CheckpointIsTrue`, `FailedLeftNoMessage`, `RemainingOnlyShrinks` |
| `DispatchedMeansOneRun`, `LimitsHold`, `AnswersStay` | `VerdictsMatchRuns`, `RunsWithinLimits`, `AnswersAreFinal` |
| `RequestsBounded` | `LeaseCoversCall`, `CallsBounded` |
| `WebhooksTellTheTruth`, `WebhookEndsAreFinal` | `OnlyAskedAgain`, `VerdictIsTrue`, `EndIsFinal` |
| `RunsLeaveOneDraft`, `DraftsAreCheckpointed`, `VerdictsAreFinal`, `StepsBegunOnce`, `CallsAreCurrent`, `RunsAreLimited` | `OneDraft`, `DraftIsCheckpointed`, `VerdictIsFinal`, `StepsAreBegunOnce`, `CallsUseCurrentKey`, `RunLimit` |
| `GenerationTypes`, `TelegramTypes`, `AutopilotTypes`, `StagedTypes`, `LocksTypes` | types of those parts |
| `TypesKept`, the `...Kept` theorems, `EndsStay` | `AllSpec => ...` for every property of the suite |

### Assumptions

`PublishAssumption` and `GenerationAssumption` are assumed by their modules. The parts that
the suite instantiates have theirs as hypotheses of their theorems, and `AroundAssumed`
gathers them; TLC evaluates all of them in the runs. They say that bounds are numbers (at least one poll,
one reply, one day, one step), that `None` is none of the values it stands beside (in `TelegramParts`
neither a number nor a receipt), and that what is counted is finite: calls, adaptations and, for
the circle of waits, sessions. `AiCallAssumption` has the one that is about the
outside: an aborted request settles within `Drain < Grace`.

Two theorems have a hypothesis of their own. `ItemTellsTruth` needs a fan-out that is not empty:
of an empty one every channel is published, and `nextItemStatus` rightly says nothing.
`DecisionsStand` needs `Unsupported = {}`: without it the statement is false, which is finding 4
(`PublishNoAdapter`).

### Arguments

**Publish.** The safety properties are not inductive: nothing in "at most one post" says
why a callback about to send has not been overtaken. `IInv` adds the reason. For an
adaptation (`SoundHistory`): only the newest receipt is in flight, and only while
the row is publishing; at most one receipt may stand for a live post, none where
another send is allowed, only the one in flight while publishing, and when the row
has failed the last word is "unknown". For a callback (`FenceSound`, `ClaimSound`): it
is never ahead of `attempt_count`, its claim is in flight as long as its attempt is
current, may only have become unknown afterwards, and carries no post before the
platform has answered. And no two callbacks hold one claim. The first part of
`PublishProofs` proves it initially and for each action, through lemmas on what an update of a
receipt sequence leaves true and on what a verdict written with the fence held or lost
leaves true (`MarkFailedSafe`, `OwnWrite`).

**Channel by channel.** The second part shows once, action by action, that a step is for
each channel one of eight kinds: it leaves the channel alone, moves its row, opens a claim,
notes on a receipt what is now known, ends a delivery without a claim or with one, settles
an unknown, or confirms a manual post. What holds of a channel (`ChannelSound`) is
then shown kind by kind. It needs one fact of the callbacks: one that was answered
"published" has a claim with a post (`RepliesSound`).

**Refinement.** The mapping takes the eight kinds to steps of `DeliveryContract`. The
answer of a failed row depends on its newest finished receipt, which is why `ChannelSound` says
that there is one. `Post` is the only step that needs the invariant after the step: a
callback may learn of its post when the row has been settled, and `IInv'` then says that no other stands.

**Item, decisions, job ids.** `ItemSound` adds to `ItemTellsFanOut` that a draft, rejected,
archived or published item has nothing under way or waiting for a person (`QuietItem`), which is why
no fold can contradict the decision on it. A step no person takes either takes attempts for rows
under way or ends such deliveries and folds the item in the same transaction (`Unattended`), so what
a person settled stays. For the job ids, `JobsSound` adds that a row whose current job has been
used up has an `attempt_count` beyond every kept job row, which is what frees the next id.

**Generation runs.** A callback that holds the fence has the run's own checkpoints as its
copy (the strengthening), so what it begins, checkpoints and writes into the draft is
the run's; without the fence no write of it matches. The next step is the least one
missing, which exists by well-founded induction on the naturals. For `RunLimit`, whoever
holds the admission lock has left room for one more.

**AI calls.** A lease that is committed ends at least `Grace` after the caller's budget, since
the database clock is read after the timer was started; a request that was aborted is over
before (`TimeSound`). So requests on their way are among the counted leases, and these
are bounded because the count and the insert share the lock (`LeasesBounded`).

**Webhooks.** A delivery that a scan holds can only stay attempting or become unknown under
it; no two scans hold one; a pending row has only been asked to come again.

**Staged publication.** What makes a second final request impossible is spread over
three places: what the callback is about to do, the phase of its stage, and the claim of the
row. `StagedInv` says of a callback what its position still allows, whatever became of its
stage meanwhile (`WorkerSound`: one that may still send has a claim without a post, and its lease or
a stage that is over), of a stage that its claim is of its own attempt and a published one has a
published claim (`StageSound`), and of a receipt that may be public that it is in flight, the last
word of a failed delivery, or the end of a published one (`HistorySound`). At most one receipt since
the last "not delivered" is of that sort (`OnePublic`), and nobody shares a claim (`OneSender`).
Recovery decides from the phase and writes later: `RecoveredSound` is what stays true in between.

**Row locks.** `LocksInv` says which locks a session may hold at its point of the order
(`LocksSound`), that what it read stays true while it holds the lock it read it under (`RowSound`,
`ItemSound`), because no other session can hold a conflicting one (`Excluded`), and that an item
follows its rows (`Follows`). A commit that ends the last channel holds the item's lock and has seen
every earlier verdict, so that it writes what all rows say. For `NobodyWaitsInACircle`, take a circle of waits. Whoever waits for an
adaptation waits for someone who goes on in the order of ids; the waiter for the largest one
(`Largest`) therefore waits for one who waits for something later, a channel or an item. Who holds a
channel has all its adaptations, and who holds an item asks for no adaptation or channel again. So
someone waits for an item whose holder also waits for an item; only a sweep does, and only for
the item of a second one.

**Telegram.** One callback works on the post; where it stands, what it remembers tells how many
messages are there and what the receipt has (`SendersSound`), also after the sweep closed the
receipt over it. **Autopilot.** A step leaves the dispatches alone and closes no verdict as
"dispatched", or it is the one transaction of the trigger (`WordsMove`, `RunsMove`);
the rest is counting, with the room the advisory lock keeps for its holder (`Room`, `Counted`).

**The suite.** A step of `AllSpec` is a step of one part and a stutter of every other
(`PartsRun`), so each part's theorem holds of `AllSpec`. `AroundProofs` instantiates each part with
its proofs under the substitution of `AroundDelivery`; `SSame` to `ASame` say that both
instances are one specification.

### Only model-checked

Liveness under fairness, `EventuallyDecided` and `EverythingEnds`, is beyond the prover and stays with
TLC. So do the six findings: what a run refutes is not a theorem. The two excepted cases of the
theorems (a claim closed as unknown after its attempt had lost the row, in `AtMostOnePost`; two
overlapping sweeps, in `NoDeadlock`) are part of the statements, and finding 1 shows that the first occurs.

## Plan

Done: the delivery core, its contract and the refinement with proof; generation runs,
staged publication, row locks, Telegram parts, webhooks, AI calls, autopilot; the theorems above.

Next, in this order: staged publication and the Telegram callback as implementations of
`DeliveryContract`, with proof, so that what the contract promises holds of every way to send; that
an ended transaction's roll-up in `Publish` is what the locks of `RowLocks` make of it; claims
orphaned by the deletion of a channel; admission of members and resources; the notification outbox; the
posting queue's revisions.

## Not modelled, and why

Platform adapters, prompts, feeds, screens and the MCP front end are I/O with no
protocol state of their own, and they are most of the repository's lines: what is modelled is
the part whose correctness depends on order. The posting queue, client review and
Telegram decisions are doors to approve and reject whose own guards only refuse. Billing is
reconciled with an external provider and independent of delivery. See `components` in
`PROJECT.json` for each, and for what a partly modelled one leaves out.

## Running

    tlc -workers 2 -config PublishOverlap.cfg MCPublish
    tlc -workers 2 -config AroundDelivery.cfg AroundDelivery
    tlapm PublishProofs.tla

Every proof module is checked by itself: `PublishProofs`, `StagedProofs`, `RowLocksProofs`,
`TelegramProofs`, `WebhookProofs`, `AiCallProofs`, `AutopilotProofs`, `AroundProofs`. Each takes
between seconds and some minutes.
