# Verification of the cold-mail backend

TLA+ models of this backend, their TLC runs and TLAPS proofs. Paths are relative to the
repository root; `send-one` stands for
`src/modules/dispatch/application/send-one.use-case.ts` and `ingest` for
`src/modules/webhooks/application/ingest-email-event.use-case.ts`. What each definition translates is in
the `map` of `PROJECT.json`.

## 1. The system

A NestJS application that sends cold mail. Any number of replicas run the same process: the HTTP
API, the crons and a BullMQ worker of concurrency 1 each. They share PostgreSQL (Prisma) and
Redis (BullMQ).

| component | state it keeps | operations | talks to |
|---|---|---|---|
| batch submission (`send-batch`) | none | `execute`: one `addBulk` of jobs with ids and delays | queue |
| dispatch queue (BullMQ, `queue.module.ts`) | jobs, locks, attempts, stall counters (Redis) | take, complete, fail and retry, stalled check | workers |
| dispatch worker (`dispatch.worker.ts`, `send-one`) | the run in memory | `execute`: look up sender, reserve quota, pick template, send, record, roll back | database, providers |
| senders (`modules/senders`) | `sender_emails`: limit, provider, `today_usage` | CRUD, midnight reset | database |
| templates, leads (`modules/templates`, `modules/leads`) | `email_templates`, `emails` | CRUD, `pickRandomVariant`, lookups by address | database |
| email providers (`modules/providers/email`) | breaker and limiter state, per process | `send` under retry, breaker and timeout | HTTP services |
| rate limiter (`shared/http/rate-limiter.ts`) | a window of timestamps, per process | `acquire` | provider strategies |
| webhook ingestion (`modules/webhooks`) | `emails.status`, inbound `email_messages` | reply, bounce, open, delivered | database |
| schedules (`modules/schedules`) | `schedules`: status, `next_run_at` | CRUD, tick each minute, fire, mark | database, `send-batch` |
| schedule clock | none | `nextRunAtFromInput`, `nextRecurring` | schedules |
| warmup pairing | none | `buildWarmupPairs` (called by nobody yet) | - |
| webhook intake (`webhooks.controller.ts`, parsers, `webhook-signature.ts`) | none | verify, parse, answer | ingestion |
| HTTP API (the controllers, guard, pipes, repositories, exception filters) | the tables | list, get, create, update, delete, send a LinkedIn message | database, LinkedIn service |
| analytics | none | three queries over a user's leads | database |

Stubs and start-up wiring (follow-ups, AI, health, configuration) are in section 6.

What is hard here, and what makes each part correct:

* **Quota.** Workers on other machines reserve from one counter, roll back, crash with a
  reservation in hand, and a midnight reset wipes the counter under them. Correct: the counter
  means something exact at every moment, and a sender's mails of a day stay within its limit.
* **Delivery.** A job is retried, stalls, and can be run by a worker that lost its lock. Correct:
  it settles exactly once, is completed only if it was sent and recorded, and its lead gets a
  bounded number of copies.
* **Lead status.** Sends, retries and webhook events write one column without reading it in the
  same transaction. Correct: a reply is never lost, and is recorded once.
* **Schedules.** Ticks overlap, crash between firing and marking, and race with edits. Correct: a
  due schedule fires once per due time, and eventually.
* **Limiter, breaker, timeout.** In-process, shared by the sends of all senders; a try that was given
  up runs on. Correct: no window holds more than its grants and nobody waits in vain; the breaker
  opens only on a streak; every send is answered, and a success is a mail that was taken.
* **API.** Rows are checked by owner and written by id, two awaits apart. Correct: a row changes only
  by its owner, and to others it looks absent.
* **Pure computations.** Next run over zones and weekdays, job ids and pacing, pairing, rates, what
  a provider is told of its notification. Correct: they agree with their reference definitions.

The `hazards` of `PROJECT.json` give each one at its line, with the properties that cover it.

## 2. Modules

| module | what it is |
|---|---|
| `Dispatch` | queue, workers, `send-one`, quota counter, reset and CRUD, with the properties |
| `JobDelivery` | the contract of the queue towards whoever submits a job |
| `MCDispatch` | instances of `Dispatch` for TLC |
| `DispatchProofs` | theorems on types, the counter and over-sending |
| `DeliveryProofs` | theorems on duplicates, on the contract, and on what the tables show of a job |
| `WebhookIngest` | provider events, the handlers that apply them, the other writers of a lead, with the properties |
| `ReplyLog` | the contract of ingestion as regards replies |
| `MCWebhook` | instances of `WebhookIngest` for TLC |
| `WebhookProofs` | theorems on types, replies, statuses and the contract |
| `Schedules` | the cron's ticks and the schedules API, with the properties |
| `MCSchedules` | instances of `Schedules` for TLC |
| `SchedulesProofs` | theorems on types, pauses and batches |
| `RateLimiter` | the sliding window |
| `EmailSend`, `MailContract` | one resilient send, its contract towards the worker |
| `Api` | the HTTP API over one table |
| `ScheduleClock`, `BatchPlan`, `WarmupPairing`, `Analytics`, `WebhookIntake` | the pure parts, each with its reference definition |
| `MCComponents` | these eight parts side by side for TLC |
| `SendingProofs` | theorems on `RateLimiter`, `EmailSend` and `BatchPlan` |
| `ApiProofs` | theorems on `Api` and `WebhookIntake` |
| `ClockProofs` | theorems on `ScheduleClock`; the lemmas on minima, induction and loops |
| `ComponentProofs` | theorems on `Analytics` and `WarmupPairing`, and on `MCComponents` as a whole |

How they fit together: `Submit` of `Dispatch` queues what `BatchPlan` says is kept; `SendMail` of
`Dispatch` is one answer of `MailContract`, which `EmailSend` implements with `MaxTries` as
`MaxCopies`; the phase `"waiting"` of `EmailSend` is a caller of `RateLimiter`; `Occurs` of
`Schedules` is what `ScheduleClock` computes; `Receive` of `WebhookIngest` gets what
`WebhookIntake` lets through.

### Dispatch: state

| variable | code |
|---|---|
| `row[s]` | a row of `sender_emails` (`Senders` are row ids; `AddressOf[s]` is `(user_id, email_address)`): does it exist, `daily_limit`, `provider` in `PROVIDER_NAMES` (`backed`), a template for its platform or for 'any' (`stocked`) |
| `usage[s]` | `today_usage`: an integer or NULL |
| `lead[l]` | a row of `emails`: unsent, sent, deleted |
| `outbound[j]` | outbound `email_messages` written for a job |
| `queue[j]` | BullMQ's record of a job: status, attempts made, stalls, lock holder |
| `pc`, `run` | where the current `execute` stands and what it keeps in memory: the job and the sender columns as first read |
| `hold` | what the run's reservation is worth: counted and unspent, covering an accepted mail, or wiped by a reset |
| `late[j]` | the tries of a job's sends that the timeout abandoned and that may still hand over: a sequence of the rows they send for |
| `mail`, `skipped`, `accepted`, `leaked`, `excess`, `peak`, `upsets` | history: accepted mails per job and per sender and day, refused jobs, the ledger's corrections, the highest limit a row had, the events counted by `MaxUpsets` |

### Dispatch: actions

One action per await of `execute`; other processes may act between any two.

| action | code |
|---|---|
| `Submit` | `addBulk` in `send-batch` |
| `Take`, `Finish`, `FailAttempt`, `StallCheck` | BullMQ with the options of `queue.module.ts` (external) |
| `Lookup` | `send-one` 27-28 |
| `Reserve` | 33-44: the conditional `updateMany`, its refusal, and a lost answer |
| `PickTemplate` | 46-64: the throws that no rollback follows |
| `SendMail(w, n, k, ok)` | 68, with the tries of `resilient-provider.ts`: `n` mails accepted, `k` tries abandoned, then success or an exception |
| `HandOverLate(j)` | an abandoned try, which nothing cancels, hands its mail over (`resend.provider.ts` 26-31 and its like) |
| `Persist` | `persistOutbound`: commit, refusal, or a commit whose answer is lost |
| `Rollback` | the catch block, which may throw itself |
| `Crash` | the process dies with what it holds |
| `ResetDailyUsage` | the midnight cron |
| `CreateSender`, `UpdateSender`, `DeleteSender`, `ChangeTemplates`, `DeleteLead` | the API |

Abstractions. A delay or back-off only orders waiting jobs, and `Take` may take any. The two reads
of `pickRandomVariant` are one. `status` and `isDefault` of a sender are never read by the code
and left out. A PATCH leaves the address alone (`Api` has its change). A day is what lies
between two resets. An abandoned try may hand over at any later moment or never: after its job has
settled, after a reset, and after its process died, whose request may be out. Such a mail
is booked on the row and the day of its hand-over, and no reservation covers it (`excess`).
Which template and which words are sent does not matter here. Rows that exist at the start
come from the legacy system, with a number in `today_usage`; rows made by `SendersService.create` have
NULL.

### JobDelivery

A job is absent, pending, done or failed. While it is pending, tries to hand it over may begin (up to
`MaxHandovers` in all, each taken at once or given up) or it may be declined; it settles once; it is
done only after a hand-over or a refusal. A try that was given up may hand the mail over at any later
time, as nothing cancels it: the contract does not promise that a settled job is at rest, but that
what still comes is a try that was open by then. `Dispatch` implements it with `phase` read off the
queue entry, `copies <- mail`, `declined <- skipped` and `open[j]` the length of `late[j]`. This holds
only while live workers keep their locks: a run whose lock was given to another begins tries after the
job has settled, so `dispatch_delivery` and the theorem leave `lockLoss` out. The properties of
`dispatch_safety` hold with it.

### WebhookIngest

| variable | code |
|---|---|
| `lead[l]` | a row of `emails`: does it exist, has it a `user_id`, address, `status`, the place of `date_sent` among the sends (NULL is `Never`) |
| `inbound[e][l]` | inbound `email_messages` rows that event `e` made for lead `l` |
| `at`, `event`, `seen` | per request: the await it is about to do, the event, the lead found and the status it had |
| `deliveries`, `sends`, `faults` | what the bounds count |
| `applied` | history: events for which a request answered "applied" |

| action | code |
|---|---|
| `Receive` | the controller and `dispatch`: an event arrives for the first time or again |
| `CheckExists` | `ingest` 54-58 |
| `Find` | the lookups and early returns of the four `apply` methods |
| `Ingest` | the transaction of `applyReply`: commit, P2002, a deleted lead, or a commit followed by a failure |
| `Write` | `updateStatus`, on the lead as it was found |
| `Fail` | a query that fails or a process that dies: the provider gets no 200 and may deliver again |
| `RecordSend` | the lead update of `persistOutbound` |
| `CreateLead`, `UpdateLead`, `DeleteLead` | the leads API |

An event is a record: its type, the message ids of the reply and of the mail it is about (each may
be missing), the two addresses, and a number that tells apart payloads which agree in these.
`Key(e)` is the parser's `externalMessageId`. An event of type 'sent' and whatever the parsers
ignore change nothing. Of an edit of a lead only a change of address matters here. Rows that exist
at the start have the column's default status and no messages; only they may lack a `user_id`.

`ReplyLog` keeps pairs of a key and a lead: one lead per key, until that lead is deleted.

### Schedules

| variable | code |
|---|---|
| `row[s]` | a row of `schedules`: not yet created, live or deleted; type, status, timing, sender, lead selection (sound, or malformed: an item without email whose id is no UUID), `next_run_at` |
| `senders` | the rows of `sender_emails` that exist; those in `Foreign` belong to another user |
| `clock` | the time in minutes |
| `at`, `now`, `todo`, `cur` | per tick: the await it is about to do, its `now`, the rows of `due` it has not come to, the one it has fired and not marked |
| `edit[u]` | what a PATCH read: the row, and when |
| `zone`, `batches`, `disturbed`, `upsets` | history: the zone last asked for, batches queued per due minute, schedules that were edited, found while held or left unmarked, and what `MaxUpsets` counts |

| action | code |
|---|---|
| `Start`, `FindDue` | `schedules-tick.cron.ts` 23-25 with `findDue` |
| `Fire` | `FireScheduleUseCase.execute` on the row as it was found: queues a batch, queues nothing, or throws before or after `addBulk`; at each tick (`Throws`) if its sender is gone or another user's, or its selection malformed |
| `Mark` | 32-44: the next run, computed from the row as found, and `markFired` |
| `Crash` | the process dies during a tick, or `findDue` fails |
| `Create`, `Delete`, `DeleteSender` | the API; a deleted sender becomes NULL in the rows that name it |
| `ReadForUpdate`, `Update` | the two awaits of `update`; the second writes what was asked for, or nothing if the row is gone or the zone, date, time or sender does not exist |

A timing and a zone stand for a set of minutes, `Occurs`; `NextRun` picks the first one after a time,
or the only date of a one-time schedule even if it has passed. How days, hours and offsets make these
minutes is in `ScheduleClock`. 'draft' is told from 'paused' nowhere in the code, so
one value stands for both. A PATCH gives a whole timing or none. A tick's query and its reading of the
clock are two steps, so that a tick can be late by any time. What a batch does after `addBulk` is
`Dispatch`. The manual trigger is a stub and changes nothing.

### RateLimiter

| variable or action | code (`rate-limiter.ts`) |
|---|---|
| `now`, `Tick` | `Date.now()`; it never goes back here |
| `timestamps` | the array of taken slots |
| `caller[c]` | outside `acquire`, asleep until a time, or through |
| `Acquire` | one round of the loop: evict the leading expired slots, then take one or go to sleep until the oldest expires, 5 ms later (`Slack`) |
| `grants`, `sleeps` | history |

A timer may fire late by any time, and those awake run in any order.

### EmailSend

| variable | code |
|---|---|
| `provider`, `configured` | the name in the sender's row; whether the keys are in the environment |
| `breaker` | cockatiel's state and its count of failures in a row; open for less than 30 s is `Open`, afterwards `Cooled` |
| `send[s]` | one call of `send`: ready for a try, trying, answered; the number of its try, and whether it tests the breaker |
| `tries[s][n]` | how far the strategy has come in try `n`: waiting for the limiter, request out, mail accepted or rejected |
| `recent` | history: the last outcomes a closed breaker saw |

| action | code |
|---|---|
| `Call` | the worker's `resolve(...)` and `send`; one after another, since a worker has one job |
| `Try`, `Refuse`, `CoolDown` | what `wrap(retry, breaker, timeout)` does before a try |
| `ThrowEarly`, `Request`, `AnswerSuccess`, `AnswerError` | the strategies: no keys or not implemented, the request, a success with or without an id, a status of 400 or above |
| `TimeOut` | 15 s are over; the strategy runs on |
| `Accept` | the provider takes the mail, of an abandoned try as well |

`MailContract` is what the worker may rely on: one answer, a success only after a mail was taken, at
most one copy per try. It promises neither that a failed send handed nothing over nor that no copy
comes after the answer.

### Api

One table at a time: `table` says of which controller. `rows` maps ids to a key (an address, a name) or
`Gone`; `request[r]` and `answer[r]` are a request's await and its HTTP status; `pinned` rows are
restricted by a foreign key; `sent` has the LinkedIn messages that went out.

| action | code |
|---|---|
| `Arrive` | guard, pipes, then `Query` (a list, or a create), or `LookUp` (`findByIdForUser`) |
| `Update`, `Delete` | the write by id alone, which finds its row gone, a key taken, or a row in use; or the body of an update is unfit |
| `Profile`, `Message` | the two calls of `unipile.provider.ts` |

A handler is its operation, its status of success, and the parameters to which it applies a schema.
`UsePipes` on a handler applies to all its parameters, also to `@CurrentUser()`, whose value has none
of the fields the create schemas require. So no create passes validation, nor does `POST /dispatch`
(`CreatesAreRefused`). A body or query is unfit if its schema lets it through and the clock or the
database refuses it: a `PATCH /schedules/:id` with an unknown zone, '99:99', '2026-99-99' or a sender
that does not exist is a 500 by one request alone, and so is a text with a NUL in any table.
The other modules keep their create actions: they are the code's operations,
and rows of the legacy system look the same.

### The pure parts

`ScheduleClock` counts in hours, with zones that may change their offset once. `BatchPlan` counts in
units of 30 s, the draws of the pacing being sets. `WarmupPairing` takes the draws of the
Fisher-Yates shuffle as an argument. `Analytics` evaluates the three SQL queries over a sequence of
rows. `WebhookIntake` has a notification as what its headers prove, the age of its stamp and what its
body has, and gives the status of the answer.

## 3. Runs

| run | shows |
|---|---|
| `dispatch_safety` | with every fault: `UsageBounded`, `Ledger`, `OversendBounded`, `DuplicatesBounded`, `CompletedMeansRecorded`, `HistoryIsReal`, `TypeOK` (4 million states) |
| `dispatch_delivery` | without lock loss: `ImplementsJobDelivery`; under fairness `SubmittedJobsSettle` (0.3 million states) |
| `quota_leak` | **violated** `FailedAttemptsReturnQuota`: an attempt that fails between reservation and try block keeps its slot |
| `quota_oversend` | **violated** `NeverOverLimit`: the rollback returns the slot of a mail that was accepted |
| `quota_null_skip` | **violated** `SkipMeansSpent`: a sender made by `SendersService.create` is refused for ever |
| `webhook_safety` | `ReplyRecordedOnce`, `RepliedHasMessage`, `ReplyLostOnlyToBlindWrites`, `ImplementsReplyLog`, `TypeOK` (0.7 million states) |
| `webhook_redelivery` | **violated** `RedeliveryChangesNothing`: events other than replies are applied again and again |
| `webhook_refused` | **violated** `RefusedMeansIngested`: two different replies can share a key, and the second is lost |
| `schedules_safety` | `BatchedOnceUnlessDisturbed`, `PausedStaysPaused`, `TypeOK` (3.6 million states) |
| `schedules_service` | under fairness `DueIsServed` (0.3 million states) |
| `schedules_zone` | **violated** `DueInUsersZone`: after its first firing a recurring schedule keeps the hours of Sao Paulo |
| `components` | the parts that share no state with the pipelines, 22 properties (0.6 million states), below |

In `components` a behaviour is one of one part, the others keep their initial values: they share no
variable, so nothing is lost by checking them side by side.

| part | properties |
|---|---|
| `RateLimiter` | `WindowBounded`: no window of any start lets more than `MaxRequests` through; `StarvationBounded`: a further sleep is paid for by a slot that somebody took |
| `EmailSend` | `OpensOnlyOnStreak`, `OkIsTraceable`, `ImplementsMailContract`; under fairness `SendsAnswered` |
| `Api` | `OwnRowsOnly`, `ForeignRowsLookAbsent`, `DeletedOnce`, `ServerErrorsHaveCauses`, `CreatesAreRefused` |
| `ScheduleClock` | `NextRunCorrect`: the earliest by the calendar of a zone that keeps its offset near by; `NextRunOffByShift`: at a change off by no more than it, never in the past, but for a skipped day |
| `BatchPlan` | `LostLeadsExplained`: counted and lost exactly if two blocks share a sender; `PacingKept`: how near mails of a mailbox may come |
| `WarmupPairing` | `WarmupFair`, `ShuffleUniform` |
| `Analytics` | `DashboardAgrees`; `ReplyRateBounded`: exact until mails are reported delivered or leads finished, too high then |
| `WebhookIntake` | `RedeliveryAnswered`, `GenuineTaken`: which notifications are answered otherwise when repeated, and which genuine ones are lost |
| all with a state | `ComponentsTypeOK` |

Some of these say what holds where a comment or a document says something else; the run passes, and
the property names the difference:

* `CreatesAreRefused`: `src/README.md:28` lists the CRUD routes and dispatch as functional.
* `PacingKept`: the comment at `send-batch.use-case.ts:14-15` speaks of a cumulative pacing; each index
  draws its sum anew, so of two leads the later may be due first.
* `OpensOnlyOnStreak`: the comment at `resilient-provider.ts:14` says 50 % errors; the code counts five
  failures in a row.
* `ReplyRateBounded`: statuses 'delivered' and 'finished' are missing from the denominator
  (`analytics.service.ts:58-61`).
* `NextRunOffByShift`, `NextRunCorrect`: a date is taken at its midnight in UTC
  (`schedule-clock.ts:29-36`). Where the clocks move from west of Greenwich to it, as on the Azores in
  March, one date is then nobody's candidate (`Skipped`): a schedule of that weekday is a week late,
  and one whose only day it is, looked up on that weekday the week before, has no next run and stops for good.
* `GenuineTaken`: an empty `to` of Resend, and a reply of SmartLead whose time is no date, are answered
  with 500 at each delivery.
* `Filtered` of `Api`: the comment at `app.module.ts:62-64` says the order of the filters does not
  matter; NestJS takes the last registered one that matches, so it does, and the order given is the
  right one.

The violated properties say what comments of `send-one` and `ingest` and the documents say; `findings` in
`PROJECT.json` quotes them. `Ledger` and `OversendBounded` say what holds instead: they account for
every slot, and name the only sources of over-sending. `ReplyLostOnlyToBlindWrites` says what is left of
idempotence: it names the only ways in which a lead stops showing a reply. `BatchedOnceUnlessDisturbed`,
`PausedStaysPaused` and `DueIsServed` do the same for schedules: nothing in the code claims a schedule
for one tick, so each names what must not happen for the schedule to fire once, to stay paused, to be
served.

**Bounds.** In `dispatch_safety` two workers suffice for every race of the code, which involves one row, one job or one
reservation and two actors: reserve against reserve, a run that lost its lock against the new
owner, a rollback against the other worker's reservation. Two jobs to one mailbox compete for one
slot; one has a lead row and one does not. Two rows with the same address let a sender be deleted
and created again during a send. Limits {0, 1} have a slot that is missing, taken or free.
`Attempts = 2` (3 in the code) has a first, a retried and a last attempt; `MaxStalls = 1` is
BullMQ's default; `MaxCopies = 1` (3 tries in the code) has a try that hands over, none that does, and one
that does so late, and with two attempts and a stall a job has up to three of them.
`MaxUpsets = 2` allows any two of crash, lock loss, database failure, API call and reset in one
behaviour, at any points: every finding needs at most one. `dispatch_delivery` has one job, as its two
properties speak of each job alone, limit 1, two rows, `MaxCopies = 2` and three upsets, so that a send has a try that
hands over and one that is open, and a job settles with some of either. Workers are symmetric in the safety run; no
symmetry is used with liveness. Deadlock is not checked: when all jobs are settled and the upsets
used up, the system rests. The theorems lift every bound.

`webhook_safety` has two leads that may share an address or move away from it, two handlers, three
deliveries out of seven events, one recorded send and one fault. A lost or overwritten status takes
two requests and a third event that sets the scene; a race for a key takes two handlers; the choice
among leads takes two. `webhook_redelivery` needs one lead and one handler. Leads and handlers are
symmetric: their identity appears in no constant, and the properties quantify over them. Deadlock is
not checked: when the deliveries are used up, the system rests. No fairness is assumed: there is no
liveness to claim, since a provider may stop delivering.

`schedules_safety` has two schedules, two ticks that may overlap, one PATCH, three minutes of which the
timing takes every other one, a timing that never comes round, a sender of the user's and another
user's, and a batch of one (50 in the code), so that the order of `findDue` decides. Firing twice takes
two ticks or one tick and one upset; a lost pause takes a tick and a PATCH. `schedules_service` keeps one
tick, since overlapping ones only serve sooner, no symmetry, and only the timing that comes round, as
the property is about due minutes; a schedule throws there for a malformed
selection, given at its creation or by a PATCH, and `schedules_safety` also has the sender of another user,
for which `Fire` does the same. `schedules_zone` needs one schedule, one
tick and two zones. Deadlock is not checked: the clock ends.

`components`: four callers for two slots, a window of two units with one of slack and a clock of six
have callers that sleep once and again, two windows that overlap, and competition for the slots of the
second. Two sends, one after the other, have the code's own values, three tries each and a threshold
of five, so that the breaker opens in the second on failures of both. `Api` has two requests of three callers
(one without a token) to two rows and two keys: a race is two requests for one row, a conflict two
rows and one key. The inputs of the pure parts are listed in `MCComponents`: zones east and west of
Greenwich, with and without a change near by, one of them from west of Greenwich to it, two hours of
every six around it, and a local hour that the change leaves out; batches of one and
two blocks; up to four senders of two users and all their shuffles; up to three leads of ten kinds; notifications
of every provider, proof and age at the tolerance. Deadlock is not checked: a pure part has one state
per input, and the others end.

**Fairness.** `FairSpec` of `Dispatch` assumes that each await of a live process returns (the provider call
within its 15 s timeout, a query with an answer or an error), that workers keep polling, so that a
waiting job is taken once a worker is free for ever or again and again enough for weak fairness of
"some worker takes j", and that BullMQ's stalled check runs. It assumes nothing of the API, the
cron, abandoned tries, crashes or lock loss; their number is bounded by `MaxUpsets`. Weak fairness of taking a job
is enough because the other jobs settle and free a worker. `FairSpec` of `Schedules` assumes that each
await of a tick returns and that the cron goes on calling the handler; it assumes nothing of the clock,
of users, or of failures. `MailFairness` assumes that the timers of the retry and of the timeout fire,
so that a try begins, is refused or times out; it assumes nothing of the provider, nor that the breaker
ever cools down.

## 4. Proofs

For all finite sets of workers, all sets of rows, addresses, leads and jobs, all limits, attempts,
stalls, copies and faults (assumptions `FiniteActors`, `TypedMaps`, `Sentinels`, `Bounds`):

| theorem | states |
|---|---|
| `TypeCorrect` | `Spec => []TypeOK` |
| `UsageStaysBounded` | `Spec => []UsageBounded` |
| `LedgerHolds` | `Spec => []Ledger` |
| `OversendIsBounded` | `Spec => []OversendBounded` |
| `DuplicatesAreBounded` | `Spec => []DuplicatesBounded` |
| `DispatchImplementsJobDelivery` | `"lockLoss" \notin Faults` gives `Spec => ImplementsJobDelivery` |

The argument is in layers, each an invariant that may use the ones before.

1. `Shape`: the types, and which program counters go with which entries and reservations. An entry
   has a lock holder exactly while it is active, has attempts and stalls left until it settles, and
   a failed one has spent one of the two. A run holds a reservation from `template` to `rollback`,
   only of a row with a counter; a run at `persist` or `finish` holds no unspent slot. `TypeOK`
   alone is not inductive: that `made` stays within `Attempts` needs that an active entry has
   attempts left.
2. `Counter`: a counter is at most its row's highest limit, for rows that no longer exist too. It
   needs from `Shape` that the limit a run carries was once the row's.
3. `Account`: the ledger's equation, for all rows with a counter. `Unspent(s)` is a set of workers;
   `UnspentStep` says how its cardinality moves when one worker steps.
4. `OversendBounded` follows from the two by arithmetic.
5. `Budget`: the mails of a job and its tries still open, plus `MaxCopies` for each run yet to call the provider, are at
   most `MaxCopies` for each time the job was taken. `DuplicatesBounded` follows with the part of
   `Shape` that bounds attempts and stalls together.
6. `Owned`: while locks are kept, a worker at work is its job's lock holder, at `persist` it has
   handed mail over and at `finish` it has done so or was refused. A send is then a `HandOver` of
   a pending job, and every step a step of `JobDelivery` or a stutter (`DeliveryStep`).

For all sets of leads, addresses, events and handlers, and any number of deliveries, sends and
faults (assumptions `TypedEvents`, `Outsiders`, `Budgets`):

| theorem | states |
|---|---|
| `EventTypesCorrect` | `Spec => []TypeOK` |
| `RepliesAreRecordedOnce` | `Spec => []ReplyRecordedOnce` |
| `RepliedLeadsHaveMessages` | `Spec => []RepliedHasMessage` |
| `RepliesAreLostOnlyToBlindWrites` | `Spec => ReplyLostOnlyToBlindWrites` |
| `IngestImplementsReplyLog` | `Spec => ImplementsReplyLog` |

The invariant `Inv` adds to the types what a request has behind it at each await (`AtWork`: an
event that is a reply before `Ingest`; before `Write` another type, and for 'opened' and
'delivered' a status read that was not 'replied') and that a row not yet created has the default
status. `RowsMove` and `StatusMoves` say how the two tables move in one step; the rest follows
from them.

For all finite sets of schedules and ticks, all sets of editors, senders, timings and zones, any batch
size, horizon and number of upsets (assumptions `Zoned`, `Outside`, `Bounded`, `FiniteRows`):

| theorem | states |
|---|---|
| `ScheduleTypesCorrect` | `Spec => []TypeOK` |
| `PausesAreKept` | `Spec => PausedStaysPaused` |
| `BatchesAreQueuedOnce` | `Spec => []BatchedOnceUnlessDisturbed` |

`Inv` adds to the types that a tick holds rows only between its query and its last mark, that it found
them active, and that they exist or existed (`Holding`). `PausesAreKept` follows from it step by step. For
`BatchesAreQueuedOnce` the invariant `Queueing` says what holds of a schedule while nothing has disturbed
it: one tick holds it, as found once (`Sole`); its row still has the due minute that was found (`AsFound`),
so that marking moves it on and never back; no batch is queued yet for what is still to be fired
(`Unqueued`); and a minute with a batch is about to be marked or left behind (`QueuedOnce`), so that no
later query finds it. The property alone is not inductive: it says nothing of the rows that ticks hold.

What the tables show of a dispatch job (`DeliveryProofs`, from the same assumptions as `DispatchProofs`):

| theorem | states |
|---|---|
| `CompletedJobsAreRecorded` | `Spec => []CompletedMeansRecorded` |
| `HistoryStaysReal` | `Spec => []HistoryIsReal` |

The first is strengthened by what a run has behind it at `persist` (an accepted mail) and at `finish` (a
refusal, or a record) (`RunRecorded`): a run without a lock completes nothing, but it may hold a record
while another run of its job goes on. The second counts the runs at `persist`: rows and such runs together are
at most the accepted mails (`Backed`), since a run comes to `persist` with at least one mail and leaves it with at
most one row, also when the answer of its transaction is lost.

For any number of callers, slots and units of time (`LimiterAssumption`), in `SendingProofs`:

| theorem | states |
|---|---|
| `WindowsAreBounded` | `LimiterSpec => []WindowBounded` |
| `StarvationIsBounded` | `LimiterSpec => []StarvationBounded` |

`LimiterInv` adds that the remembered slots are the last grants and all those forgotten have expired
(`Remembered`), that grants are in order of time (`Ordered`), and that whoever sleeps does so until the
slot is over that was the oldest when it went to sleep, at which time its sleeps were paid for (`Queued`).

For any sets of sends and names and any `MaxTries` and `Threshold` (`EmailSendAssumption`):

| theorem | states |
|---|---|
| `SuccessesAreTraceable` | `MailSpec => []OkIsTraceable` |
| `BreakerOpensOnStreaks` | `MailSpec => OpensOnlyOnStreak` |
| `SendImplementsContract` | `MailSpec => ImplementsMailContract` |

`MailInv`: one send is under way at a time (`OneAtATime`); a try under way is a test of a half-open
breaker or an ordinary one of a closed breaker (`Breaking`); as many outcomes at the end of `recent` are failures as
the breaker counts (`Streak`); and no try is reached before its turn (`Reached`).

For any sets of users, rows, keys and requests (`ApiAssumption`):

| theorem | states |
|---|---|
| `RowsStayWithOwners` | `ApiSpec => OwnRowsOnly` |
| `ForeignRowsStayHidden` | `ApiSpec => []ForeignRowsLookAbsent` |
| `CreatesStayRefused` | `ApiSpec => []CreatesAreRefused` |
| `RowsAreDeletedOnce` | `ApiSpec => []DeletedOnce` |
| `ServerErrorsAreExplained` | `ApiSpec => []ServerErrorsHaveCauses` |

`ApiInv` says that a request which waits for a write or for the LinkedIn service was found to be the owner's; since a
row never changes its owner, that is still so at the write. `Fate` relates requests to each other: a row that
somebody deleted is gone for good (creates being refused), and a request whose row is gone at the write has
somebody who deleted it meanwhile. `Moves` is what one request does in a step, `MovesKeepFate` that it keeps this.

For any input of the pure parts: a clock's hour, days, instant and zone, whose offsets are less than
a day and change by at most a day; any batch of one block or more with one lead or more each, and any draws of
its delays; any list of senders with distinct ids, and any draws of its shuffle; any finite list of leads; any
notification over any set of names. Their fields have the types the schemas and columns give them, nothing else:

| theorem | states |
|---|---|
| `NextRunIsCorrect`, `NextRunIsOffByShift` | `NextRunCorrect`, `NextRunOffByShift` |
| `LostLeadsAreExplained`, `PacingIsAlwaysKept` | `LostLeadsExplained`, `PacingKept` |
| `WarmupIsFair`, `ShuffleIsAlwaysUniform` | `WarmupFair`, `ShuffleUniform` |
| `DashboardsAgree`, `ReplyRatesAreBounded` | `DashboardAgrees`, `ReplyRateBounded` |
| `RedeliveriesAreAnswered`, `GenuineEventsTaken` | `RedeliveryAnswered`, `GenuineTaken` |
| `ComponentsAreTyped` | `MCSpec => []ComponentsTypeOK` |
| `ComponentsAreCorrect` | `MCSpec => [](all ten of the above)` |

The last says that what the others ask of an input (`GeneralInput`) holds of every input of the run, so that their
hypotheses are met. `PartsRun` shows that a behaviour of `MCComponents` is one of each part, from which
`ComponentsAreTyped` follows by the theorems `LimiterIsTyped`, `MailIsTyped` and `ApiIsTyped`.

The loops and searches of these parts need induction over numbers. The library's induction theorems take a predicate
as a parameter, which the provers cannot instantiate; its theorem that a well-founded set has minimal elements (`WFMin`)
does not. From it `LeastNat` says that a set of numbers that is not empty has a least one, and `Induction`, over a set in
place of a predicate, that no number is the first to fail. With these:

1. *Clock.* The candidates are the days `0..13` after the look-up (`Fits`); the run is that of the least. A zone that keeps
   its offset near by gives consecutive dates, one per candidate (`NextRunsAreEarliest`). With a change, the dates still
   advance by one a day but for `Skipped`, and the run of a date shows the wanted hour but for the change. That
   `NextRunOffByShift` and `NextRunCorrect` need the exception of a skipped day came out of this
   proof; the inputs of the run have had a zone with one since.
2. *Batch and intake.* Directly from the definitions, with cardinalities of finite sets.
3. *Dashboard.* A fold over campaigns is whatever satisfies its equation, and the number of rows with a label in
   a set does (`SumOfCounts`): so the fold adds up. Rates compare by `QuotientIsLargest`.
4. *Warm-up.* `LoopRuns`: a recursive function on `0..n` exists. A swap takes an order of the same elements to another (`SwapReorders`);
   a step keeps what lies behind it (`ShufflePlaces`), so the order tells the draws (`ShuffleTells`), and the
   list of a user's senders holds each once (`GroupIsOfUser`), so that the ring is one (`RingIsFair`).

Every invariant and action property of a passing run is a theorem. Only model-checked: `SubmittedJobsSettle`,
`DueIsServed` and `SendsAnswered`, as liveness under fairness is beyond the prover.

## 5. What is left

`Dispatch`, `WebhookIngest` and `Schedules` came first, each with its proofs, then the parts they rely on,
each in its own module with its properties, in one run. What could follow:

1. The composition of `EmailSend` and `RateLimiter`, now joined by an abstraction: `EmailSend` lets a
   waiting try go on at any moment, which includes all that the limiter does.
2. A limiter under a clock that is set back.

Runs: twelve in all, each within five minutes.

## 6. Not modelled

* Follow-ups and the warmup cron are stubs: they log and return. The AI client and the warmup budget
  client forward a request and are called by nobody.
* Configuration, the database and Redis clients, metrics, logging and health are start-up wiring and
  I/O; what they hold appears as state of the modules above. The rate limiting and back-pressure of
  `main.ts` are a library's.
* Verifying a token and hashing a body are a library's; the models have their outcome.
* The content of mails, templates and messages, and the columns no code reads.
* Failures of the database itself in `Api`: each would be a 500.
* Events (`EventEmitter2`) have no listener.

## 7. Running

    tlc -workers 2 -config dispatch_safety.cfg MCDispatch
    tlapm DispatchProofs.tla
    tlapm DeliveryProofs.tla
    tlc -workers 2 -config webhook_safety.cfg MCWebhook
    tlapm WebhookProofs.tla
    tlc -workers 2 -config schedules_safety.cfg MCSchedules
    tlapm SchedulesProofs.tla
    tlc -workers 2 -config components.cfg MCComponents
    tlapm SendingProofs.tla
    tlapm ApiProofs.tla
    tlapm ClockProofs.tla
    tlapm ComponentProofs.tla
