# Webhook platform: TLA+ verification project

The platform is a NestJS service (MySQL through TypeORM, Redis and BullMQ) in
which tenants log events, subscribe HTTP destinations to them and are sent each
event as a webhook, with retries, dead letters and replays; around that stand
tenants with paid plans, API keys, users and invitations. This directory holds
TLA+ models of its core, the TLC configurations that check them and proofs
checked by TLAPS. Paths below are relative to the repository
(`src/modules/...`); `PROJECT.json` maps every definition to its source lines.

Contents: [inventory](#inventory), [modules](#modules),
[runs](#runs), [fairness](#fairness), [proofs](#proofs),
[observations](#observations), [assumptions and limits](#assumptions-and-limits),
[plan](#plan).

## Inventory

| Part | State | Operations | Hard behaviour |
|---|---|---|---|
| Delivery rows (`deliveries/delivery.service.ts`) | table `deliveries`: status, attemptCount, ... | create, markInProgress, markSuccess, markFailure, markDeadLetter | the last three read a row and save the whole copy later; two workers or an administrator may overlap |
| DeliveryWorker (`deliveries/delivery.worker.ts`) | locals across seven awaits; the BullMQ job of the delivery | process() | crash between POST and save, stalled jobs run twice, failing statements inside and outside the try, two retry counters |
| WebhookProcessor (`webhooks/webhook.worker.ts`) | same job and row | process() of the class bound to the queue | calls a method that does not exist; it checks for SUCCESS before it POSTs |
| Event log and fan-out (`events/event.service.ts`, `event.event-fanout.service.ts`) | table `events`, unique index on idempotencyKey, `deliveries`, queue `webhook-delivery` | logEvent, fanout | racing calls with one key, branches of `Promise.all` that outlive a rejection, a crash half way |
| Event registry (`events/event.registry.ts`) | constant table | validate, webhookEnabled, replayable | calls whose payload the registry refuses |
| Destinations (`destinations/destination.service.ts`) | table `destinations` | create, findActiveForEvent, disable | change while a fan-out runs |
| Event replay (`events/eventReplay.worker.ts`, `replayEvent.service.ts`) | table `event_failures`, queue `event-replay` | recordFailure, enqueueReplayBatch, process() | overlapping batches, a crash between the fan-out and the update |
| Payments and plans (`payment/service/*`, `tenants/tenant.service.ts`) | tables `payments`, `tenants` | initializeTenantUpgrade, handleWebhook, upgradeTenantPlan, downgradeTenantPlan | Paystack repeats webhooks; four saves in three tables without a transaction |
| API keys (`api-keys/api-key.service.ts`) | table `api_keys` | createTestAPIkey, createApiKey, revokeApiKey, revokeTenantKeys | keys made while others are revoked |
| Tenant membership (`tenants/tenant.service.ts`, `users/user.service.ts`) | tables `tenants`, `tenant_users`, `users`, `tenant_invitations` | createTenant, add/remove user, invite/accept, deleteTenant, setCurrentTenant, the plan changes | one relation read, changed and saved from both of its sides |
| Accounts (`auth/auth.service.ts`, `users/user.service.ts`) | table `users`, queue `authentication` | createUser, login, verifyEmail, resetPassword, setCurrentTenant | racing registrations, rows saved from stale copies, adds that nobody awaits |
| Guards, rate limit (`shared/guards`) | a Redis counter per API key and day | canActivate, intercept, check | INCR and EXPIRE are two commands; revocations and midnights in between |
| Notification queues (`shared/background_runners`, `nodemailer.setup.ts`) | two queues of e-mail jobs, one shared transporter | enqueue, process, getOrCreateTransporter | enqueue hides its error; jobs race to make the transporter; a mail sent may look failed |
| Webhook service, payment queue, dashboards, controllers, bootstrap | none that matters | | |

How they interact:

```
logEvent --insert--> events                    enqueueReplayBatch --> queue event-replay
   |                                                 ^                       |
   +--> fanout --create--> deliveries                |               EventReplayWorker
            |                  ^ |                   |                       |
            +--add--> queue    | | getById      event_failures <--+          +--> fanout
              webhook-delivery | v                                |
                     +--> DeliveryWorker / WebhookProcessor ------+
                                |  POST
                                v
                          destination

initializeTenantUpgrade --> payments, Paystack --charge.success--> handleWebhook
   --> payments.verified --> upgradeTenantPlan --> api_keys, tenants <-- downgradeTenantPlan

request --> AuthGuard, TenantGuard --> ApiKeyGuard --reads--> api_keys, tenants
   --> RateLimitInterceptor --INCR, EXPIRE--> Redis

AuthService, TenantService --> queues authentication, tenant --> workers --> transporter --> mail
```

What makes each part correct:

* **Deliveries**: POSTs stay within the budget of attempts; SUCCESS means the
  destination accepted; a dead letter was earned by that many attempts; row
  and job agree; every job ends; counts are never rolled back.
* **Fan-out**: one event per key; one row per destination and fan-out; the flag
  `fanoutCompleted` implies a job for each destination; no job refers to a row
  that is missing or to another tenant's destination.
* **Replay**: a failure is marked replayed only after its event is queued again.
* **The pipeline**: what a fan-out owes a destination is settled once, delivered
  or given up; what was given up and recorded is replayed once.
* **Billing**: nobody gets a plan that was not paid; a paid plan comes with a
  key; a downgrade to FREE leaves no key.
* **Membership**: an owner stays a member of his tenant while members are added and
  removed; a user is made active only
  where he is a member; an invitation counts as accepted only after its own user
  joined; no two tenants have one name.
* **Accounts**: one account per address and phone; the password a user registered
  with opens the account until it is reset; what an answered call saved stays
  unless an overlapping call takes it back.
* **Guards**: of the requests counted on the day they came, a key gets no more than
  its plan allows; a refusal was earned; every counter ends.
* **Mails**: no mail is sent more often than the queue has attempts; a completed
  job has left its mail; every job ends.

`PROJECT.json` lists under "hazards" each place of the source where one of
these could break, with the properties that would notice.

## Modules

| Module | Models | Form |
|---|---|---|
| `DeliveryQueue` | the row of a delivery with the five writes of DeliveryService, and its BullMQ job | operators only; variables `delivery`, `job` |
| `DeliveryWorker` | `DeliveryWorker.process`, administrators calling `markDeadLetter`, faults | extends DeliveryQueue; one action per await |
| `DeliveryLifecycle` | the life a row promises: pending, tried, success or dead letter | abstract; implemented by DeliveryWorker |
| `WebhookProcessor` | the processor bound to the queue, beside DeliveryWorkers | extends DeliveryWorker |
| `EventRegistry` | the entries of `EVENT_REGISTRY` | constants |
| `EventFanout` | `logEvent`, `fanout`, destinations | extends EventRegistry |
| `EventReplay` | `recordFailure`, `enqueueReplayBatch`, `EventReplayWorker.process` | extends EventFanout: a replay job runs its fan-out |
| `TenantBilling` | payments, Paystack's webhooks, upgrades, downgrades, API keys | self-contained |
| `TenantMembership` | tenants, members, current tenants, invitations, plan changes beside deletions | extends EventRegistry |
| `EventPromise` | what the platform promises about an event: owed, delivered or given up, replayed | abstract; implemented by Pipeline |
| `Pipeline` | EventFanout, EventReplay and DeliveryWorker composed | extends EventReplay, INSTANCEs DeliveryWorker |
| `Accounts` | registration, login, verification, password reset, setCurrentTenant | self-contained |
| `RequestGuards` | the global guards, ApiKeyGuard, RateLimitInterceptor, revocations | self-contained |
| `NotificationQueues` | the queues `tenant` and `authentication`, their workers, the transporter | self-contained |
| `MC*` | instances for TLC | constants only |
| `DeliveryProofs` | the safety properties of DeliveryWorker and WebhookProcessor, the refinement of DeliveryLifecycle | TLAPS |
| `PipelineProofs` | those of Pipeline, the refinement of EventPromise; INSTANCEs DeliveryProofs | TLAPS |
| `EventFanoutProofs`, `TenantBillingProofs`, `TenantMembershipProofs`, `AccountsProofs`, `RequestGuardsProofs`, `NotificationProofs` | the safety properties of the modules they are named after; EventFanoutProofs also that of EventReplay | TLAPS |

**Deliveries.** `delivery[d]` keeps the two columns the program branches on,
`status` and `attemptCount`. `job[d]` is BullMQ's record: state, holder of the
lock, `attemptsMade`, `stalledCounter`. A worker's `pc` names the await it is at;
`task` is its job's delivery, `seen` the attemptCount loaded at the top of
`process()` (the final-failure test uses it), `copy` the row a `mark...` method
read and will save in full. `MarkSuccessRead`/`MarkSuccessSave` and the like are
the two halves of these methods; `markInProgress` is one UPDATE and one step.
`posts` and `accepted` observe the outside world and influence nothing.
Every await may fail ("dbError"), take effect but look failed ("dbAckLost"), or
be the last thing a process does ("crash"); "lockLoss" lets BullMQ hand a job to
a second worker while the first goes on. BullMQ lets only the lock's owner
finish a job, retries while `attemptsMade + 1 < attempts`, re-queues a stalled
job `maxStalledCount` times and then fails it; that is what `JobFetched`,
`JobCompleted`, `JobFailed`, `JobStalled` do.

**Processor.** `ProcessorPost` stands for the POST and everything after it: each
branch calls `deliveryService.recordAttempt`, which no class defines, so the
branch throws, the catch block calls it again and throws out of `process()`.

**Fan-out.** A request is a call of `logEvent`; its event is named after it.
`LogEvent` is the code up to the first await; `FindExisting` and `InsertEvent`
are separate, so calls with one key race and the unique index decides.
`FindDestinations` starts a branch per active destination; `CreateDelivery` and
`AddJob` are a branch's awaits; `Await` resumes the caller when all are done or as soon
as one rejected, and the others keep running. Deliveries are a sequence,
because ids count up and identical rows are possible.

**Replay.** The job that batch `b` adds for failure `f` is `<<b, f>>`, one more
runner of `fanout` next to the requests. The job has no `attempts`: it runs once,
and once more if its worker died.

**Pipeline.** The rows a run can make are numbered by `Slots`; `work[i]` and
`jobs[i]` are the worker's half of row `i` and its job, the variables `delivery` and
`job` of the instance `Worker`. A worker takes any job a fan-out added
with a number in `Slots` (`FetchJob`); the step of `process()` that calls `recordFailure` is joined with the
insert of the row that `FindFailures` of EventReplay reads (`RecordEventFailure`).
`RetriesOf` gives each slot the maxRetries of its destination; `RetryJob` ends a backoff.
`EventPromise` knows none of this: a debt is a fan-out and a destination, and it is
settled by delivery or by giving up. The mapping reads it off the rows: owed is
what `targets` chose, delivered and given up are the rows that say success
and dead_letter.

**Billing.** A payment names its initiation; hooks are the requests of Paystack
that run at the same time, and a hook that is over may serve another. Paystack
itself (`Charge`, and `HandleWebhook` choosing what to report) is external: it
reports any announced payment any number of times, `charge.success` only when it
was charged. `tenantRepository.save(copy)` writes the columns of the copy. In
`downgradeTenantPlan` the tenant was loaded with its keys, so the save also
writes the relation back and is refused when a key was made since: TypeORM would
set its `tenantId`, which is NOT NULL, to null.

**Membership.** A tenant is named by the `createTenant` call that makes it. `members`
is the table tenant_users, which TypeORM maintains from both sides:
`tenantRepository.save` of a tenant loaded with `users` (`SaveTenant`) and
`userRepository.save` of a user loaded with `tenants` (`SaveUser`) compare the copy
with the rows of the moment and write the difference, so each restores the
relation, and the plan, to what was loaded (`copy`, `mine`). A tenant deleted in between is
inserted again by `SaveTenant`; the foreign key refuses a `SaveUser` that would
name it. acceptTenantInvitation runs the steps of addUserToTenant (`FindForAdd`
to `LogEvent`) between its own. upgradeTenantPlan and downgradeTenantPlan load a tenant
without its users (`FindForUpgrade`, `FindForDowngrade`) and save that copy one or two
awaits later (`CreateApiKey`, `SavePlan`); TenantBilling has which plan, the payments and
the revocation, here they matter for a tenant that is deleted meanwhile. A failed statement or a crash has no action: it ends a call
without writing, and since no call must go on, the behaviours have it already. For
the same reason a refusal before the first write is a guard; later ones throw.

**Accounts.** A registration names its account, every other call is about one
(`AccountOf`). A password is its text and how often bcrypt hashed it: only the
insert hashes (`HashPassword`), so a reset stores the text as it came.
verifyEmail, resetPassword and setCurrentTenant load the row, change a column of
their copy and save it (`Save...`), each an await apart. The adds to the queue are not
awaited: the call is done while `adding` still holds it, and an add that fails is an
unhandled rejection, which ends the process and every running call.

**Guards.** A request goes through `AuthGuard`, `TenantGuard` and `ApiKeyGuard`
in the order Nest runs them, then through `check()` of the interceptor: the date,
INCR, and EXPIRE when the answer was 1, each a step. `counter` and `expiry` are the
keys of Redis and the day of their EXPIRE; a counter ends on a later day, also while a
request that read the old date waits for its INCR (`late` observes those). Keys are
revoked, plans change and days end at any time. "resend" is the retry of ioredis, after which an
INCR may have counted twice.

**Mails.** A job is one call of a method of a queue. The transporter is made by the
first job that needs it, and each await of `getOrCreateTransporter` is a step, so
that jobs of one process can make several; once making one fails, the JSON
transport stays. `mails` and `dropped` observe what was sent or swallowed.

## Runs

TLC finishes each run in well under five minutes. Deadlock is not checked: in every
model the system rightly stops once all jobs, calls or batches are over.

| Run | Instance | What it shows |
|---|---|---|
| `MCDeliveryQuiet` | 2 deliveries (maxRetries 3 and 0), 2 workers, no faults; 909 states | `TypeOK`; `RowMirrorsJob`: row and job, two programs with two counters and two comparisons, agree whenever no worker holds the delivery; `ImplementsFairLifecycle`: the refinement of `DeliveryLifecycle` with its liveness |
| `MCDeliveryCrash` | 2 deliveries (2 and 1), a DeliveryWorker and a WebhookProcessor, an administrator for one delivery, failing statements, lost answers, crashes; 1.7 million states | `PostBudget`, `CompletedMeansDelivered`, `EventFailureBeyondBudget`, `AttemptCountNeverDrops`, and `ProcessorHonoursSuccess`: the row does not say SUCCESS when the processor POSTs, a step after its check; all while locks hold |
| `MCDeliveryFaults` | 1 delivery (3), 2 workers, every fault, lock loss included; 145,000 states | `SuccessIsTruthful`, `DeadLetterEarned` although stale copies overwrite rows; `JobsSettle`: every job ends |
| `MCFanoutFaults` | 3 calls (two tenants racing on a key, one without), 2 destinations that appear and are disabled, every fault; 1.2 million states | `TypeOK`, `OneEventPerKey`, `CompletedFanoutQueued`, `JobsAreLoadable`, `OneDeliveryPerDestination` |
| `MCReplayFaults` | 1 event, a refused call, 1 failure, 2 batches, 2 replay workers, every fault; 1.0 million states | `ReplayedMeansRequeued` |
| `MCPipeline` | 1 event, 1 destination, 2 batches of at most one failure, 1 delivery worker, 1 replay worker, no faults. The first two rows have no retries, so that a replay fails and is replayed; the third is made only after the second was given up and has maxRetries 2, as if the column was raised by then; 15,200 states | `RecordedIfUnretried`; `ImplementsEventPromise`: the refinement of `EventPromise` with its liveness; `PickedUpIsReplayed`, `EventsFanOut` |
| `MCBillingFaults` | 1 tenant, 2 payments, 2 concurrent webhooks (symmetric), 2 downgrades, every fault; 1.6 million states | `TypeOK`, `PlanIsPaid`, `PaidPlanHasKey`, `DowngradeLeavesNoKey` |
| `MCMembership` | 2 creations of one name, 3 users, one of whom is invited, added and removed while the tenant is upgraded, downgraded and deleted, 2 uses of a token (one by somebody else); 1.4 million states | `TypeOK`, `OneTenantPerName`, `ActiveWhereMember`, `AcceptedIsAnnounced`, `OwnerIsMember` |
| `MCAccounts` | 3 registrations (two share an address, two a phone), a login, a verification, a reset and a change of tenant of one account, every fault; 795,000 states | `TypeOK`, `OneAccountPerAddress`, `RegisteredPasswordWorks`, `AnsweredSavesKept` |
| `MCRequestGuards` | 4 requests with one key (symmetric) and one for a route that wants a JWT, limits 2, 3 and none, 2 days, counters that end, every fault; 1.1 million states | `DailyLimit`, `RefusalEarned`, `CountersEnd` |
| `MCNotification` | 2 mails of tenants, one without an address, and one to a user, every fault; 261,000 states | `MailBudget`, `CompletedMeansMailed`; `MailJobsEnd`: every job ends |
| `MCDeliveryFinalFailure` | 1 delivery, no faults | **violated**: `FinalFailureRecorded`. The code compares the count it loaded before `markFailure` added one; the last attempt dead-letters the row and records no event failure, so no batch ever replays it |

Why the bounds are enough. What may go wrong with a row needs at most two
holders of a job (BullMQ re-queues a stalled job once by default) and its
counters are those of one delivery; deliveries share only the workers, so a second delivery
matters where a worker moves between jobs, and the runs without lock loss have
it. Retry limits 0, 1, 2 and 3 cover both sides of each comparison. Two calls
show any race on a key and two destinations any partial fan-out. Two batches
show any overlap. In the pipeline two batches let a replay be given up and replayed
in turn; that needs a destination without retries, which the first two rows have. The
third has the limit 2, with an attempt that fails and is not the last. Two hooks, two payments and two downgrades show every pair of
conflicting saves of a tenant. Membership has one call of each kind that changes a
tenant, and two creations, whose check may be overtaken by their twin; accounts
likewise. Four requests pass a limit of two by
two, and the real limits, 4 and 5000, differ only in size: `RequestGuardsProofs`
has them all. Three mails fill one queue beside another. No counter is cut off: retries, stalls, one-shot
calls and batches bound the state space themselves.

Every property of a passing run has a seeded fault: an operator in the model that
changes one definition as a plausible bug would ("Seeded fault of ..."), listed
under "mutants"; with it TLC finds the property violated.

## Fairness

* DeliveryWorker: weak fairness of each handler (every await settles; axios ends
  the POST after 10 seconds), of idle workers fetching, of the backoff and
  stalled-job timers of BullMQ. Faults and administrators have none. Crashes and
  stalls are bounded by the job's own counters, so weak fairness is enough.
* Fan-out and replay: weak fairness of a call that began, of the branches, of a
  batch that began and of the replay worker. Nobody has to call `logEvent` or
  `enqueueReplayBatch`, and destinations owe nothing. Pipeline takes these and
  those of DeliveryWorker, joined where the code has one scheduler: one event loop
  for the calls, one for the batches, one queue for the jobs.
* Mails: weak fairness of taking a job, of each handler, of backoffs and of the
  stalled-job checker; nobody has to enqueue and nothing has to fail. Crashes are
  bounded by the stalls of the jobs they hit.
* Billing, membership, accounts and guards: none; their properties are safety
  properties.

## Proofs

`DeliveryProofs` is about DeliveryWorkers alone (`Spec`) and beside
WebhookProcessors (`ProcessorSpec`), for any set of deliveries, any finite set of
workers, any administrators, retry limits, `MaxStalledCount` and faults. Both
specifications take only steps of the action `Step`, and the invariants are shown of
that:

* `TypeCorrect`: `Spec \/ ProcessorSpec => []TypeOK`.
* `PostsWithinBudget` (`PostBudget`): however often locks are lost, processes die
  and statements fail, a delivery is POSTed at most `maxRetries + MaxStalledCount`
  times (one attempt if maxRetries is 0).
* `SuccessTruthful` (`SuccessIsTruthful`): a row says SUCCESS only when a worker saw
  the destination accept the POST.
* `DeadLettersEarned` (`DeadLetterEarned`): a row becomes a dead letter
  only after the job was started as often as the destination allows attempts.
  The property leaves out the rows in `Administered`, which an administrator may
  dead-letter at any time; the proof needs that they save no others (`AdminInv`).
* `CompletedDelivered`, `CountsNeverDrop`, `FailuresBeyondBudget`: a completed job
  belongs to a SUCCESS row, `attemptCount` never decreases, a failure is recorded only
  past `maxRetries`. They assume `LocksHold` ("lockLoss" is not in `Env`); every
  other fault is admitted.
* `ProcessorHonours` (`ProcessorHonoursSuccess`, of `ProcessorSpec`): the processor
  sends no delivery whose row says SUCCESS at that moment. It assumes `LocksHold` too.
* `RowsMirrorJobs`, `WorkerImplementsLifecycle`, of `Spec`: row and job tell one
  story, and `Spec => Lifecycle!Spec`, the refinement of DeliveryLifecycle without its
  fairness. They assume `NoFaults` (no fault in `Env`, no administered row).

`PipelineProofs` proves of `PipeSpec`, for any requests, destinations, slots,
retry limits, batches and failures and any finite set of workers:

* `UnretriedRecorded` (`RecordedIfUnretried`), for any limits: a job that failed has its
  failure on record, with the event of its row, if its destination has maxRetries 0,
  and has none otherwise; every recorded failure is of a dead letter.
* `PipeJobsLoad` (`JobsAreLoadable`), `PipeReplayedIsRequeued`
  (`ReplayedMeansRequeued`): what a worker takes can be loaded and goes where its
  event may go; a failure marked replayed was queued again.
* `PipeDeliveriesAreSingle` (`OneDeliveryPerDestination`): also the fan-outs of
  replays make one row for a destination.
* `PipeImplementsEventPromise`: `PipeSpec => Promise!Spec`, the refinement of
  EventPromise without its fairness. It assumes `OneAtATime`: no fault in `Env`, and
  one replay job at a time (`ReplayWorkers = 1`, BullMQ's default concurrency in one
  process). With two, both may see a failure unreplayed and fan its event out.

The assumptions are those of the modules: limits are naturals, `None` is no actor
or delivery, workers and administrators are different, workers are finitely many;
in Pipeline, that a failure has the number of its delivery.

The argument. `TypeOK` is not inductive: that the number of starts is bounded
needs facts about jobs. `QueueInv` supplies them: only active jobs have an
owner, an unfinished job has attempts left and stalled at most
`MaxStalledCount` times. Then `Started(d) <= Attempts(d) + MaxStalledCount`
(`StartedBound`), starting a job adds one to `Started` (`FetchStep`) and no other
step of the queue changes it (`QueueStepKeeps`: what leaves "active" is added to
`attemptsMade` or to `stalledCounter`). `PostBudget` itself is not inductive
either, because workers that lost their lock still have a POST ahead. `PostInv`
counts them: POSTs sent plus workers of `d` that stand before their POST are at
most the starts of `d`. A fetch adds one to both sides, a POST moves one from the
second number to the first, every other step keeps or lowers the left side.
`BusyMove` does that arithmetic once: a step moves one actor, so the cardinality
of a set of busy workers changes by that actor alone.

`SuccessIsTruthful` needs the workers between an accepted POST and their save:
`TruthInv` adds that they handle an accepted delivery. `DeadLetterEarned` needs
more, since rows are saved from copies that may be out of date: `CountInv` says
that the attempts a row counts, plus the workers that may still count one
(`Pending`), are at most the starts of the job, and the same of each copy that
is going to be saved. A save of `markFailure` adds one to a copy and takes its
worker out of `Pending`; a stale copy can only lower the count, so attemptCount
never overtakes the starts, and `attemptCount >= maxRetries` was earned.

While locks hold, `HeldInv` says that a worker in a handler owns the lock of its
job, so no two handle one delivery (`HandledAlone`) and the row a worker read is
still the row it saves over: `KnownInv` says that the copy equals the row, and what
`seen` may be. A row comes to say SUCCESS only by the save of a worker that holds
the job, so none the processor is about to send does (`HonourInv`). Without faults
`StepInv` adds how row and job stand at each await
(`InStep`) and when nobody holds the job (`AtRest`, `Mirrors`); `Lived` lists what a
step may make of a row, which is an action of DeliveryLifecycle or a stutter.

In Pipeline the two halves keep their invariants: what a worker does is a step of
DeliveryWorker (`WorkerHalf`), what happens to events and failures is a step of
EventReplay (`ReplayHalf`), so `Facts` of DeliveryProofs, as `Proved!Facts`, and
`ReplayInv` and `SharedInv` of EventFanoutProofs hold of the composition, and with them
`PipeJobsLoad` and `PipeReplayedIsRequeued`. `GivenUpInv` joins the halves:
nobody touches a slot before its job is queued, a worker records the failure only of a
delivery with maxRetries 0, and has done so when it is going to let its job fail. The
count a worker loaded is the attempts made, so it is below maxRetries unless that is 0
(`LoadedIsBelowAttempts`), and the record is what follows exactly then (`WhatIsRecorded`). For the refinement, `DebtInv` says that every branch and row is
for a destination its fan-out chose, one for each, and that a fan-out still to look
for destinations has chosen none, which is why it takes on its debts once. `OnceInv`
is why an overlapping batch does no harm: at most one job runs, between its check
of `replayed` and its update nobody else marks the failure, and a job that fanned
out and is over has marked it. `SettledStays`: no step of a worker changes a row that
says success or dead_letter. Then a look for destinations is `FanOut` or `Replay` of
EventPromise (`FindMaps`), the save of a worker `Deliver` or `GiveUp` (`WorkMaps`),
every other step a stutter.

The other proof modules rest on invariants that say what a call knows at each of
its awaits, and hold for any calls, rows and faults.

* `EventFanoutProofs` (`TypeCorrect`, `EventsAreUnique`, `CompletedIsQueued`,
  `JobsLoad`, `DeliveriesAreSingle`; with replays `ReplayedIsRequeued`,
  `ReplayEventsAreUnique`, `ReplayCompletedIsQueued`, `ReplayJobsLoad`). `Inv` relates
  branches, rows and callers.
  `MeantInv`: whatever a branch or a row is about is a stored event and a
  destination the fan-out was meant for. `SingleInv`: a destination has one branch
  or one row, so the row a branch still has to create is not there; the rows
  without a branch are why `OneDeliveryPerDestination` is not inductive alone.
  `QueuedInv`: while the caller awaits and nobody rejected, each target has a job or
  a branch; when it goes on, each has a job.
  `ReplayedIsRequeued` is about `ReplaySpec` and has an invariant of its own, since a
  job that died runs `fanout()` again and may make a second row for a destination:
  `JobInv` says that what a job waits for is a branch or a queued row of its event
  and `ReplayedInv` that a job which got through stays done, for `AddedInv`: a batch
  adds a job once.
  The other three keep what holds without replays, all but `DeliveriesAreSingle`. There
  `MeantInv` says what a row is about through the caller that makes it; a replay has no
  caller, so `AddressedInv` closes the circle instead: the event of a failure is that of
  a row, and a row that of a call or of a failure (`SharedInv`; TLC checked it as an
  invariant of the instance of `MCReplayFaults`).
* `TenantBillingProofs` (`TypeCorrect`, `PlansArePaid`, `PaidPlansHaveKeys`,
  `DowngradesLeaveNoKey`). `HookInv` carries what a webhook checked to its save: the
  payment stays charged and verified (`Monotone`), the copy is the plan paid for, the
  key exists. `PlanChanges` lists whose save changed a plan; `KeyInv` says that only
  downgrades revoke; `LoadedInv` that what a downgrade loaded is revoked before it
  saves FREE, which with the refused save gives `DowngradeLeavesNoKey`.
* `TenantMembershipProofs` (`TypeCorrect`, `NamesAreUnique`, `ActiveMeansMember`,
  `AcceptedWasAnnounced`, `OwnersAreMembers`). `NewTenants`: at most one tenant comes
  to be in a step, under a free name. `TargetInv`: a user about to be saved was loaded
  as a member of his target. `OwnerInv` adds to `OwnerIsMember` that every copy
  of the tenant about to be saved with its users holds the owner, that he is in no other
  copy, unless a plan change inserted the tenant again (`ReinsertedStays`), and that no call removes him; `StepsHaveOwners` makes it enough to look at
  the call that moves.
* `AccountsProofs` (`TypeCorrect`, `AddressesUnique`, `RegisteredPasswordKept`,
  `AnsweredSavesLast`). `AccountInv` has the unique indexes and that a loaded row exists,
  `PasswordInv` that each copy still to be saved opens with the password too; for
  `AnsweredSavesKept` a lemma says that a save by another call keeps a
  column when its copy agrees with it.
* `RequestGuardsProofs` (`TypeCorrect`, `LimitsHold`, `RefusalsEarned`, `CountersDoEnd`).
  INCR hands out numbers: those counted on a counter are different and at most
  its value, so as many requests as have a number up to the limit are at most the limit (an
  injection into 1 .. limit). A counter may end only after its day (`CountInv`), so this
  is said of the requests counted on that day, and the later ones are `late`; without a
  resent command the numbers are dense, also those of a counter that began again, so a
  number above the limit has that many others below it.
  `VerdictInv` ties the verdict to the number.
* `NotificationProofs` (`MailTypeCorrect`, `MailsWithinBudget`, `NoMailForgotten`).
  `MailBudget` is not inductive: the mails sent are bounded by the attempts and
  stalls spent plus the one under way, and those by what the queue gives.

Only model-checked: everything under fairness (`JobsSettle`, `MailJobsEnd`,
`EventsFanOut`, `PickedUpIsReplayed` and the fair halves of `ImplementsFairLifecycle`
and `ImplementsEventPromise`), because ENABLED and leads-to are out of the prover's
reach here, and `FinalFailureRecorded`, which is violated.

## Observations

Behaviour of the code met while modelling that no run is about:

* **A job can fail while its row says retrying.** `getById` (delivery.worker.ts:23)
  is outside the try, and `markFailure` may fail itself; BullMQ then counts an
  attempt the row does not. `findRetryable` has no caller that would pick such a
  row up. `EventFailureBeyondBudget` and `RowMirrorsJob` are stated accordingly.
* **SUCCESS can be overwritten.** DeliveryWorker does not look at the status
  before it POSTs. After a crash between `markSuccess` and the end of the job, the
  second run may fail and turn the row to RETRYING. The refinement is therefore
  checked without faults, and `CompletedMeansDelivered` speaks of finished jobs.
  With lock loss, a worker that lost its job may even overwrite the row of a
  completed one; the five properties of `MCDeliveryCrash` are checked, and all but
  `PostBudget` claimed, only while locks hold.
* **The processor sends what was delivered.** Its check for SUCCESS reads the row of the
  moment. When a DeliveryWorker saved SUCCESS and died before the job ended, the rerun may
  be another DeliveryWorker's, whose POST fails: markFailure writes RETRYING over
  SUCCESS, and the processor that takes the next attempt POSTs. markDeadLetter may
  overwrite it too. `ProcessorHonoursSuccess` says only that the check is not
  stale when the POST goes out.
* **The processor never writes a row and POSTs again**: by the missing
  `recordAttempt` (webhook.worker.ts:120, 137) a POST that was accepted throws, BullMQ
  retries the job, and the check meant to "prevent duplicate execution" (29-31) finds
  no SUCCESS to stop at. In the end the job is failed and the row says pending.
* **Failures without faults are never recorded** unless maxRetries is 0: the comparison
  that `MCDeliveryFinalFailure` shows wrong leaves no event failure. With the default
  of 3 a delivery that was given up is never replayed (`RecordedIfUnretried`); `MCPipeline`
  therefore gives its first two rows maxRetries 0, so that replays happen.
* **A replay is blind to what was delivered**: it fans out to every active
  destination again, also those that accepted the event, and it may
  start before the job that caused it has ended.
* **`replayable` has no effect**: neither enqueueReplayBatch nor the replay
  worker reads it.
* **Overlapping webhooks of one payment can make two keys**:
  `payment.verified` is checked and set by separate statements
  (paystack.webhook.ts:26-31).
* **A payment can be used up without a plan**: `verified` is saved before
  upgradeTenantPlan runs (paystack.webhook.ts:30-34). When a statement of the upgrade
  fails, Paystack's next webhook returns at line 26.
* **Subscriptions end nowhere**: only isSubscriptionActive reads the expiry
  (tenant.service.ts:151), and no step changes the plan or the keys when it has passed.
* **The route that revokes a key passes no id**: `ApiKey[id]` in
  api-key.controller.ts:18 reads a property of the class.
* **`downgradeTenantPlan(ENTERPRISE)` raises a PRO tenant**
  (tenant.service.ts:286): only FREE is compared.
* **Joining a tenant can cost an owner another one.** `setCurrentTenant` saves a
  user with the tenants it loaded. While it runs for a user who is added to a
  tenant, a tenant that he creates loses him: the save deletes the row
  createTenant inserted. `OwnerIsMember` is therefore stated for owners who make and join one tenant
  only; without that premise, and two tenants of different names, TLC finds a
  counterexample of nine steps (tenant.entity.ts:87 says members include the owner).
* **A plan change can bring a deleted tenant back without members**:
  upgradeTenantPlan loads the tenant without its users (tenant.service.ts:233), makes
  a key (254), and saves its copy (255). When deleteTenant ran after the key was made,
  the save inserts the row of the tenant again and no row of `tenant_users`: nobody is
  a member, not even the owner, although tenant.entity.ts:87 says "Tenant members
  (including the owner)". downgradeTenantPlan does the same (262-289). `OwnerIsMember`
  excepts a tenant inserted again this way; without that premise TLC finds these steps
  in an instance of one creation, one upgrade and one deletion.
* **Membership saves undo what happened meanwhile**: a removed user comes back, an
  added one disappears, a downgrade or an upgrade of the plan is reverted
  (tenant.service.ts:129, 213), a deleted tenant returns without its keys.
* **createTenant always answers with an error**: the registry wants tenantId and
  ownerId, the payload is `{ name }` (tenant.service.ts:86), so logEvent throws after everything
  was saved and the welcome job is never queued.
* **An expired invitation blocks its successors**: inviteUserToTenant looks for any
  row with accepted = false (tenant.service.ts:329) and nothing removes an expired one.
* **deleteTenant leaves currentTenantId** of its members as it is; the column has no
  foreign key.
* **After a reset the new password does not log in**: resetPassword stores it as it
  came (auth.service.ts:112), only the insert hashes (user.entity.ts), and login
  compares with bcrypt. `RegisteredPasswordWorks` is about accounts without a reset.
* **Account saves undo one another**: a stale copy of the row takes back
  a verification or a reset that was already answered. `AnsweredSavesKept` excepts
  the calls that overlap.
* **An add nobody awaits can end the process**: when Redis refuses it, the promise
  rejects unhandled, and Node ends with every call that was running.
* **The guards of API keys are bound to no route**: ApiKeyGuard, RateLimitInterceptor and RolesGuard
  are used nowhere. A request has one Authorization header, a JWT or an API key, so
  routes for keys must be public; and TenantGuard reads `request.tenant`
  (tenant.guard.ts:34), which nothing sets. assertTenantActive has no caller.
* **A counter can lose its lifetime or count twice**: a crash between INCR and
  EXPIRE (rateInterceptor.ts:42) leaves a key for ever, and a command that ioredis
  sends again may have been counted. `CountersEnd` and `RefusalEarned` except these.
* **A day's limit can be passed at midnight**: the lifetime of a counter begins with
  the first request (rateInterceptor.ts:43), not with the day. It may end while a
  request that read the date of the day before (37) still waits for its INCR (40; a
  command waits for as long as Redis is not connected, redisServer.ts:10). That INCR
  returns 1, and one request more than the limit is handled for the old day, although
  api-key.service.ts:40 says "Limited to 4 requests/day". `DailyLimit` excepts
  the requests counted on a later day than the one they are named for; without that
  exception TLC finds these steps in an instance of four requests and no faults.
* **A failed transporter stays**: when making one fails, jobs get the JSON transport
  from then on, and their mails are swallowed as if sent (nodemailer.setup.ts). Jobs
  that start together each make a transporter.
* **Mails that cannot be sent**: no module provides TenantWorkers and
  AuthenticationWorkers; the job for an accepted invitation carries no address
  (tenant.queue.ts:89-91, tenant.worker.ts:122); enqueue logs its own error and
  tells its caller nothing (tenant.queue.ts:53).
* **An idempotency key is global**: `findOne` by key compares neither tenant
  nor type, and a second tenant is handed the first one's event (`OneEventPerKey`
  holds across tenants).
* **An event whose fan-out failed is not resumed**: `fanoutCompleted` stays false
  and nothing reads it; a repeated call with the key returns the event.

## Assumptions and limits

* **Wiring.** At this commit the classes are not all connected: WebhookModule
  imports neither DestinationModule nor DeliveryModule, EventModule does not
  register the EventFailure repository or the queues, DeliveryWorker carries no
  @Processor, EventReplayWorker's repositories lack @InjectRepository, and
  several workers, guards and controllers are in no module. The models take the
  classes as if their dependencies were provided. Since both DeliveryWorker and
  WebhookProcessor are written for the queue `webhook-delivery`, they are modelled
  each and together.
* **Schema.** The models assume the schema the entities declare (unique
  idempotencyKey, NOT NULL foreign keys); the migrations lag behind it.
* **TypeORM.** `save` is one atomic write of the row's columns and of the relations
  loaded with it.
* **BullMQ and Paystack** are outside the repository and are modelled from the
  options and calls of the code and from BullMQ's documented behaviour. Whether
  BullMQ accepts the fan-out's jobId (it contains a colon) is not modelled; nor
  is loss of Redis data.
* **Data.** Payloads are the set of their fields with types, as far as `validate`
  reads them; signatures, headers, amounts, timestamps, response snapshots and
  texts are left out. Subscription expiry is a step that may happen at any time.
* **No callers.** findRetryable, markDeadLetter, enqueueReplayBatch,
  dispatchEvent, disable, EventFailureService.markReplayed and
  downgradeTenantPlan are not called at this commit. Those that change state are
  modelled as calls from outside, except markReplayed (the worker does the same
  update) and dispatchEvent (a fan-out without a jobId).
* **Not modelled**: WebhookService (dispatchEvent has no caller; createWebhook is one
  insert into a table nothing reads), the payment queue (no worker, no caller),
  dashboards (read only), controllers, DTOs, wiring, bootstrap, migrations and
  clients (no state of their own).

## Plan

Done, in order of importance: the delivery of a webhook (DeliveryQueue,
DeliveryWorker, WebhookProcessor, the abstract DeliveryLifecycle), what feeds it
(EventRegistry, EventFanout), what repairs it (EventReplay), the three composed
(Pipeline, the abstract EventPromise), what is paid for it (TenantBilling), who
belongs to it (TenantMembership, Accounts), who may ask (RequestGuards), who is told
(NotificationQueues), and the proofs listed above.

Left: nothing of the list above. What the runs check and no theorem states is what the
provers cannot reach (see "Only model-checked").
