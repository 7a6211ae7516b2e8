# A formal model of the event-driven billing platform

The platform is a set of AWS Lambda handlers around one PostgreSQL database and one SNS topic.
Tenants subscribe to plans and report usage over HTTP; a new subscription is announced on SNS and
fans out to three SQS queues whose consumers write an invoice, a notification and an audit entry;
messages a consumer cannot process end in a dead-letter queue that an operator can replay.  This
directory holds TLA+ modules of the parts with behaviour of their own, TLC configurations that check
them, and proofs, checked by TLAPS, that the main results hold for every size of the system.
Source paths below are relative to `src/`; `js` paths to `src/src/`.

## 1. Inventory

| Part | State | Operations | What is hard |
|---|---|---|---|
| consumer wrapper `shared/sqs-consumer.js`, guard `shared/idempotency.js` | `processed_events` rows (absent, processing, completed) | parse, INSERT lock, process, UPDATE completed, DELETE lock, report failures | lock and business write are separate transactions; any call may fail, or succeed and lose its reply; duplicate delivery; a Lambda that dies; batches |
| SQS queues and mappings `terraform/modules/events/main.tf` | messages, receive counts, visibility | send, receive a batch, delete what was not reported, redrive | at-least-once delivery, maxReceiveCount |
| `create-subscription` | `subscriptions` | check for an active one, insert, publish, answer | check and insert are not one transaction; row and event are two writes |
| `dlq-reprocessor` | dead-letter queue, counters of an invocation | receive, send, delete, count | concurrent replays, visibility timeout, failing deletes, caps |
| `ingest-event` | `billing_events` | look up the key, insert, answer | retries that overlap, unique constraint |
| `list-invoices` | `invoices` (read) | one page of a listing | inserts between pages, precision of the cursor |
| `generate-invoice`, `send-notification`, `audit-log` | `invoices`, `audit_logs` | one write per message | run inside the wrapper |
| `create-tenant` | `tenants` | check the name, insert | check and insert race; case of names; names of deleted tenants |
| `pre-token-generation` | none | claims of a token from tenant and subscription | stale claims, two active subscriptions, fallbacks |
| `shared/middleware.js`, `shared/validation.js` | validator cache | claims, admin check, schema, error answers | cache remembers an absent schema |
| `shared/db.js`, RDS Proxy | pool, cached credentials, server sessions | tenant-scoped query and transaction, system query | sessions shared by tenants, broken connections, rollback that throws, rotation |
| topic and its subscriptions `terraform/modules/events/main.tf` | accepted events | fan out to three queues | duplicates, late delivery, replays that add copies |
| period and price, in `create-subscription` | none | end of the period, amount | months of different lengths |
| logger, metrics, infrastructure, CI | none that other parts read | | |

The handlers interact only through the database, the topic and the queues: `create-subscription`
publishes what the consumers process, `generate-invoice` inserts what `list-invoices` reads,
`dlq-reprocessor` moves messages from a dead-letter queue back to the queue of its consumer, and
`pre-token-generation` reads what `create-tenant` and `create-subscription` wrote.

What makes each part correct: a message is processed once and then deleted, or never and then
dead-lettered; a tenant has one active subscription, announced if and only if it exists; a replay drops
nothing, repeats nothing and stays below its cap; a usage event with a key is billed once; a listing
shows each invoice once; names of tenants are unique; a token says what is true of its tenant; a
statement runs for the tenant of its call and no other, and a database call happens as a whole or not at
all; what was announced is worked by every consumer or waits somewhere.  Where the code reaches this
only under conditions, the properties name the conditions, and section 4 says what happens without them.

## 2. Modules

**How faults are modelled.**  Every module has a variable `faults`, chosen in `Init` from the constant
`FaultSets` and never changed: the kinds of faults its environment is capable of.  `x_fails` means the
call throws and did nothing, `x_reply_lost` that it took effect but the caller sees an error.  A fault
in the set may happen at any call, never must.  Conditional properties read "if the environment lacks
these faults, ...", and one run checks them in several environments at once.

| Module | Models | Correspondence |
|---|---|---|
| `SqsConsumer` | wrapper, guard, queue, dead-letter queue, event source mapping of one consumer | `pc[i]` is the statement of `withSqsConsumer` invocation `i` is about to execute (`loop`, `process`, `mark`, `release`); `processedEvents[m]` the row of the message's key; `effects[m]` how often `processMessage` committed; one action per outcome of each call (`AcquireOk`, `AcquireDuplicate`, `AcquireError`, ...); `Receive`, `Report`, `Redrive` and `Crash` are SQS and Lambda |
| `ExactlyOnce` | what the comments promise of the pipeline, without mechanism, and what is left of it when the environment breaks a part | `status` and `applied` of each message; `slips` names the broken parts; `SqsConsumer` implements it with `status <- queue, applied <- effects, slips <- Slips` |
| `CreateSubscription` | the handler inside the middleware, any number of requests | `pc[r]`; `subscriptions` the committed rows; `published` what SNS accepted; `answer` the status code; `Verdicts[r]` what the middleware may find of a request before its body (0: nothing, 401 or 403) |
| `DlqReprocessor` | concurrent invocations, the two queues, the consumer of the copies | `todo[i]` and `cur[i]` the batch and message of an invocation; `processed`, `replayed` its counters; `sent[m]`, `executed[m]` copies and their work |
| `IngestEvent` | the handler, its clients and the table | attempts `<<e, n>>` of events; `rows` the attempts that inserted; `Verdicts[e]` as above; `Accepted` joins the tests of type and quantity |
| `ListInvoices` | the handler, a paging client, other transactions | `createdAt` in ticks, `pages` what the client got, `cursor` with the precision the JSON string has |
| `BillingPlatform` | `CreateSubscription`, the topic, three queues with their consumers, and replays, composed | the handler's variables and steps are those of `CreateSubscription`, which it extends; `Handle` joins such a step with what SNS accepts in it; the names of the whole begin with `Platform`; `topic` what SNS has still to deliver; `status[c][<<r, k>>]` copy `k` of the event of request `r` in the queue of consumer `c`, `work[c][<<r, k>>]` how often its work was committed, with one step per step of `ExactlyOnce`; `QueueSlips(c)` what the faults that befall consumer `c` can break |
| `DbSession` | `shared/db.js` in several containers, the RDS Proxy and PostgreSQL sessions | `pc[c]` the statement a call executes next; `secret[c]` is `_cachedSecret`; `idle[c]`, `used[c]` the clients of `_pool`; `setting[s]` is `app.tenant_id` in server session `s`; `orphans` sessions whose client is gone |
| `AtomicCall` | what a handler takes a database call for | `phase` and `effect` of each call; `DbSession` implements it |
| `CreateTenant` | the handler inside the middleware, with `validation.js`, in several containers | `pc[r]`; `kind[r]` what the middleware finds of the request (refused for its claims, tenant or JSON, or the caller's group); `tenants` the requests with a row; `cache[c]` is `_schemaCache`; `parameter` what the parameter store holds |
| `Entitlement` | the Cognito trigger next to everything that changes what it reads | `pc[u]` the trigger's next step for user `u`; `details[u]` the row it read; `claims[u]` the token; `subscriptions` the rows, with period and amount |
| `BillingPeriod` | `calculatePeriodEnd`, `PLANS`, the price switch | functions; `EndsAfter` is the reference calendar, `Fits` what the rows of two subscriptions owe each other |
| `SqsConsumerProofs`, `BillingPlatformProofs` (with `CreateSubscription`), `IngestEventProofs`, `DlqReprocessorProofs`, `DbSessionProofs`, `CreateTenantProofs`, `ListInvoicesProofs`, `EntitlementProofs` (with `BillingPeriod`) | theorems | see section 5 |
| `MC...` | instances for TLC | constants only; `MCEntitlement` also has TLC compare `BillingPeriod` with the calendar on every day of 2023-2032 and 2099-2101 |

In the modules of handlers a database call is one atomic step, with the outcomes `AtomicCall` allows:
`db_calls` shows that `db.js` provides it.  None of the transactions reads two rows that a concurrent
one changes together.

In `BillingPlatform` a queue with its consumer does the steps of `ExactlyOnce`, with the slips of its
environment; that these are all a consumer does is what `sqs_promise` checks and `PromiseKept` proves of
`SqsConsumer`.  The correspondence of the faults: `mark_fails` stands for all of `Unlocking`
(the wrapper drops a lock it does not hold or the lock of committed work, so the work may be repeated and a
message whose work is committed may be dead-lettered); `crash` and `duplicate_delivery` stand for
`Orphaning` (a lock that another invocation left or still holds passes for finished work, so a message may
be deleted unworked).  `consumer_fails` and `no_vpc` are environments of `Keeping`, where nothing slips.

`SNS_TOPIC_ARN` is set, as `terraform/modules/api/main.tf:118` does.  A commit that is in flight when a
Lambda dies is counted as done before the crash or not at all.  Definitions marked *Slip* are plausible
mistakes in the code; each shows that some property notices it, and no specification uses them.

## 3. Runs

| Run | Instance | Shows |
|---|---|---|
| `sqs_safety` | 3 messages, one malformed; 2 invocations; batches of 2; 3 receives; 6 environments | `AtMostOnce`, `LockExclusive`, `NoSilentLoss`, `NoStuckLock`, `PoisonIsolated` |
| `sqs_promise` | the same with 2 receives and 5 environments (nothing fails; inserts and work; lost replies and marks; releases and crashes; duplicate deliveries), with fairness | the consumer implements `ExactlyOnce` up to the slips of each environment, liveness included; every well-formed message is processed if nothing fails |
| `sqs_crash_loses` | `crash` only | violation: a message deleted and never processed |
| `create_subscription` | 5 requests of 2 tenants, a bad body that may lack its claims too, a bad cycle; 3 environments | duplicates only by overlap, answers are true, no unannounced row without the faults that separate the writes, every valid request ends in a subscription |
| `dlq_replay` | 2 dead letters, 2 deliveries each; one capped and one unlimited replay; 4 environments | nothing dropped, work done once without Duplicating faults, the cap holds, an undisturbed unlimited replay drains the queue |
| `ingest_retries` | 4 events of 2 tenants (equal keys, no key, a bad quantity with or without claims), 2 attempts each; 3 environments | keyed events billed once, successes counted, failures without traces, races end well |
| `list_pages` | 5 invoices, 4 of the tenant; 2 ticks per millisecond, 4 instants; limits of 1 to 3 and beyond | pages are disjoint and descending; only invoices of a millisecond in which a page ended are missed |
| `db_calls` | 2 containers, 2 tenants, 1 server session, pools of 2, calls of up to 2 statements, 1 rotation; 3 environments | `TenantScoped`, `ClientsReturned`, `RefusedOnlyAfterRotation`; `db.js` implements `AtomicCall`; every call ends |
| `platform_fan_out` | 2 requests of one tenant, 3 consumers, 2 copies of an event per queue, 2 receives, one extra copy in all; 4 environments behind the topic (failing consumers; no VPC, duplicates of SNS and failing deletes; `mark_fails`; `crash` with `duplicate_delivery`), the last two striking `generate-invoice` | `WorkedOnce`, `NothingForgotten`; a committed subscription is settled in time; fan-out and replays leave each queue the one `ExactlyOnce` describes |
| `tenant_names` | 4 requests on 2 containers: one name twice, a variant of it, and one that may be anything, with a bad row; 4 environments | `NamesUnique`, `AnswersExplained`, `JudgedByStoredSchema` |
| `token_claims` | 1 user with or without a tenant, 2 subscriptions, 3 offers, 3 dates, `created_at` of the day of the commit or the day before; 2 environments | `ClaimsWereTrue`, `LoginsSucceed`, `PeriodsFit` |
| `paid_features` | one subscription, no fault | violation: a token of plan `pro` carries the features of the free plan |

**Bounds.**  `MaxReceive`, `MaxDeliveries`, `MaxAttempts`, `MaxTime`, `MaxStatements`, `MaxRotations`,
`MaxCopies`, `MaxExtra` and `MaxSubscriptions` are the only bounds.  Two invocations, requests or attempts
are the fewest that race, and every hazard listed in `PROJECT.json` is a race of two actors or a retry of
one; in `SqsConsumer` three receives allow a message to fail, be retried by a second invocation, and be
duplicated once more; two are the fewest with a retry, for `sqs_promise` and for the queues of
`platform_fan_out`, where a receive commits once at most and the second one is the repetition.  The faults
of `Breaking` strike one consumer, so that the other two show that it does not spread.  A third message or
request is there so that the first two can share a batch or a tenant while another one differs.  One server
session makes every transaction of `db_calls` follow one of another container on it; a second rotation or
statement repeats the first. One extra copy of an event is a duplicate of SNS or a replay; a second one
would be a copy of a copy. `token_claims` has a day whose period overflows February, the day after it, and a
leap day; `created_at` has the granularity of days, the order within a day is arbitrary, and a subscription
may commit a day after its `created_at`, so rows need not commit in its order.  In `tenant_names` one
request may be of any kind, the others come from administrators; in `ingest_retries` and
`create_subscription` one may lack its claims.  The tests of an event (type and quantity) are one
conjunction, tried by the quantity.  `DEFAULT_LIMIT` and `MAX_LIMIT` (20 and 100 in the code) are 2 and 3,
so that four rows need more than one page at each limit.  What the proofs cover holds without any of these
bounds.  `CHECK_DEADLOCK FALSE` is set everywhere: all systems may stop, when all messages are at their end,
all requests answered, or all pages read.

**Fairness.**  `SqsConsumer`: the mapping keeps polling, Lambda runs or kills what it started (an
invocation has a timeout), SQS moves exhausted messages.  Nobody has to publish, crash or fail.
`CreateSubscription`: a request that arrived is served.  `DlqReprocessor`: a started invocation goes on,
visibility timeouts expire, the consumer consumes; nobody has to start a replay.  `DbSession`: a call goes
on (each statement has a timeout, `db.js:117`, and Lambda has one), PostgreSQL notices a client that is
gone, and the proxy lends freed sessions to those who wait in turn - strong fairness of `Borrow`, for the
session is taken by others again and again, and the proxy queues the requests.  `BillingPlatform`:
requests are served, SNS delivers what it accepted, each queue takes its messages to their end; nobody
has to replay.  `Entitlement`: the trigger runs.  Liveness is claimed for environments without faults,
for with endless failures of the same call nothing is promised, except where failures end a call:
`CallsEnd`, `LoginsSucceed` (without `timeout`), `SubscriptionSettled` (a dead letter settles) and
`KeepsPromise`.

## 4. What the runs found

* The lock and the work are two transactions (`idempotency.js:23` says "transactional with the business
  logic"; `sqs-consumer.js:67-81` calls `querySystem` three times).  So `AtMostOnce` needs an environment
  without `acquire_fails`, `acquire_reply_lost`, `process_reply_lost` and `mark_fails`: after each of
  these the wrapper releases a lock it does not hold, or the lock of committed work.  `NoSilentLoss`
  needs one without `crash`, `duplicate_delivery` and `release_fails`: each leaves a `processing` row that
  the next delivery takes for finished work.
  So "only one invoice is created" (`generate-invoice/index.js:16`) fails in the environment `mark_fails`:
  the invoice is committed, the catch block deletes the row, and the retry inserts a second invoice.
  `sqs_crash_loses` shows the opposite, a message that is deleted and never processed.  These are
  preconditions: the properties say in which environments the hazard cannot bite, and `KeepsPromise` how far
  it goes in the others, for `Slips` names for each environment what it may break and nothing else.
  What was announced is *not dropped* (`NothingForgotten`, `SubscriptionSettled`) for the same reason only
  by consumers that neither crash nor get a message twice at the same time.
* `send-notification` is deployed without a VPC (`events/main.tf:145`) and cannot reach the database its
  wrapper needs.  That is the environment `no_route`: every message is dead-lettered
  (`Unreached` in the proofs; `no_vpc` in `BillingPlatform`).
* Two overlapping subscription requests of a tenant both succeed, against
  `create-subscription/index.js:12`; non-overlapping ones never do, even after errors and
  timeouts (`DuplicatesOnlyByOverlap`).  No handler ends or renews a subscription: `current_period_end`
  is written and never read.
* A failed publish leaves a subscription nobody is told about; the retry gets a 409.
* A replayed message has a new `messageId` and hence a new idempotency key.  A dead letter may be work
  that was committed (`dead_but_done`), and then its replay repeats it.  `maxMessages: 0` means
  unlimited (`dlq-reprocessor/index.js:108`).
  When `DeleteMessage` fails after a send, the next replay repeats the work, against
  `dlq-reprocessor/index.js:27-28`; the same holds for a duplicate of SNS.  `WorkedOnce` names both, and
  the faults that strike the consumers: a failing mark, after which one message is worked twice, and all
  of `Breaking`, after which a dead letter or its replay may be.
* The two lists of event types are disjoint in the deployed configuration: the schema
  (`environments/dev/main.tf:209`) admits `usage`, `charge`, `credit` and `refund`, the handler
  (`ingest-event/index.js:36-41`) four others, so every event is refused by one or the other.  A
  reported quantity of 0 is stored as 1 (`ingest-event/index.js:114`); `BilledOnce` excludes that case.  A
  quantity that is no non-negative number is refused, and billed nothing.
* The cursor of `list-invoices` is truncated to milliseconds, while `created_at` has microseconds: invoices
  of the millisecond in which a page ends can be skipped (`MissesOnlyPageEnds`).
* Names of tenants that differ in case only are refused by the check and admitted by the constraint, so
  they coexist after overlapping requests.  The name of a deleted tenant passes the check and fails the
  constraint: 500, not 409, for ever (`AnswersExplained` names the causes of a 500).
* A container that did not find its schema once validates no body for the rest of its life
  (`validation.js:60`); `JudgedByStoredSchema` bounds it by the life of the process and no more.
* After a rotation of the password every new connection of a warm container is refused until its process
  ends, because neither `_cachedSecret` nor `_pool` is ever reset; `terraform/modules/rds/main.tf:20-23`
  expects rotation without changes of the application.
* `plan_id` `pro` has no entry in `PLAN_FEATURES`, which says `professional`: `paid_features`.  The
  claim `tenant_status` is read nowhere: a suspended or deleted tenant's requests are served.
* A period that starts on January 31 ends on March 3, two days after one that starts on February 1
  (`PeriodsFit`: the order is inverted by at most two days).
* `getTenantDetails` reads `subscriptions` without a tenant, which works as long as the database role owns
  the table; under its policy (`001_initial_schema.sql:105`) every such query throws, and every token has
  the default claims.  That is the environment `query_fails`.

## 5. Theorems

Each is proved for all values of the constants, under the named assumptions of its module
(`ConsumerAssumption`, `SubscriptionAssumption`, `IngestAssumption`, `ReprocessorAssumption`,
`PlatformAssumption`, `SessionAssumption`, `TenantAssumption`, `ListAssumption`, `EntitlementAssumption`:
types of the parameters; that a queue holds finitely many messages and the table finitely many invoices;
that dates are dates, `NoDetails` is no row, and no status a tenant can have is a reason for default claims,
by the check constraint of `001_initial_schema.sql:52`; all evaluated by TLC on the instances).  Each
`TypeCorrect` is the inductive type invariant the other proofs start from.  The strengthenings below were
all checked by TLC on the instances of section 3 before they were proved.

**SqsConsumerProofs.**  `TypeCorrect` from `TInv` (types, and a working invocation has a message).
`CompletedHasEffectHolds` and `CompletedIsFinalHolds` from `EInv`: in every environment the record about to
be marked was processed.  (These two, and `EventsHaveRowHolds` below, are proved and in no run.)
`AtMostOnceHolds` and `LockExclusiveHolds` from `OInv`: the property alone is not inductive, for nothing in
it stops a second INSERT; the strengthening says that without Unlocking faults an invocation past the INSERT
*owns* the row, that owners are unique, and that no work is committed for an absent row. `NoSilentLossHolds`
and `NoStuckLockHolds` from `LInv`: without Orphaning faults batches are disjoint, every `processing` row
has its owner among the live invocations, and a record leaves the loop processed or as a failure.
`PromiseKept` is the refinement of `ExactlyOnce`, step by step: processing a record is its `Apply`, the
report of a batch its `Acknowledge` or nothing, everything else a stutter, but for a duplicate delivery,
which is a `Redeliver`.  It holds in every environment, up to `Slips`.  In those of `Keeping` (failing
inserts, failing work, no route) nothing slips, and it needs `PInv`: the database has no trace of a message
that nobody works on, and every message of a batch is untouched, reported as a failure and untouched, at
work, or done.  In the others it needs `AtMostOnce` where `repeated` is no slip, `NoSilentLoss`'s invariant
where `unworked` is none, and `HInv`: without duplicate deliveries what an invocation holds is still in its
queue.  `EndsCleanHolds` follows from the refinement alone: a message is processed once, a deleted message
was processed, and a dead letter may be replayed, for it was not - each in the environments that do not
break it.  `PoisonIsolatedHolds` from `QInv`: without faults a well-formed message is received once, and
only malformed records are failures.

**IngestEventProofs.**  `BilledOnceHolds` from the unique constraint (`UniqueKeys`), from `AcceptedRows` (a
row is of an event that passed the tests) and two facts about cardinalities; the lookup is not used.
`FailureLeavesNothingHolds` from `FInv`. `SuccessIsCountedHolds` from `AInv`: only keyed events are looked
up, equal keys are one event (`SameKeySameEvent`), and a patient client has one attempt open, so that the
row that a 200 stands for is an earlier attempt's.  `EndedIsCountedHolds` on top of it (`EndedHasRow`).

**DlqReprocessorProofs.**  `TypeCorrect` is a counting argument: every copy stands for one delivery, so
`sent[m]` and the number of invocations that have `m` still before them (`Pending`) never exceed
`deliveries[m]` (`Counted`).  `NothingDroppedHolds` from `NInv`: what is about to be deleted was sent.
`WorkDoneOnceHolds` from `HInv`: without Duplicating faults a hidden message is held by one invocation,
its receiver, and sent only when it is about to be deleted.  `CapHoldsAlways`: the messages an invocation
holds and those behind it never exceed the cap, for the last batch is cut to the rest.

**BillingPlatformProofs.**  First the handler alone.  `AnswersTruthfulHolds` and
`CommittedIsAnnouncedHolds`, and `EventsHaveRowHolds`, from `RowEventInv`: they together with `RowInv`,
which says where a request with a row, an event or an answer is. `DuplicatesOnlyByOverlapHolds` from
`DupInv`: the check is stale when the insert runs, but what it saw of requests that had *ended* is not, for
they insert nothing any more (`EndedIsOver`, `CheckStillValid`). What `AnswersTruthful` says of an answer it
says of any but a 500.  Then the platform.  `HandlerKept`: each of its steps is a step of
`CreateSubscription` or leaves the handler's variables alone, so it implements `CreateSubscription`; hence
`HandlerPromises` takes over the handler's theorems instead of proving them again.  `NothingForgottenHolds`
from `TInv`: a copy exists only of events that were accepted and delivered (`NotYet`), and a consumer that
loses nothing deletes what it worked.  `WorkedOnceHolds` from `OInv` and the handler's `EventsHaveRow`:
without the faults of `Multiplied` at most one copy of an event is in the system of a consumer (`OneCopy`),
and without `mark_fails` no copy is worked twice.  It says of `mark_fails` what section 4 does: the work may
then be repeated.  `QueuesKeepPromiseHolds` is the refinement of `ExactlyOnce` by each queue, with
deliveries and replays as its publications and with `QueueSlips` as its slips.  `EndToEndHolds` puts handler
and queues together: who was answered 201 has a subscription that every consumer works for, or has waiting,
but for one that crashes or gets messages twice.  It is what `SubscriptionSettled` says without its
*eventually*.

**ListInvoicesProofs.**  `DescendingHolds` and `MissesOnlyPageEndsHolds` from `LInv`: all that is below
the cursor comes after all that was listed (`Behind`), and an invoice that was there at the beginning is
listed, still below the cursor, or of the millisecond of a page's last row (`Accounted`).  They rest on
lemmas about the query: the order has a first and a last row in every set of rows (`LastIsLast`, by
the well-foundedness of finite sets), `LIMIT` returns a prefix of the order of at most that size
(`TopIsPrefix`, `TopSize`), and on the arithmetic of the truncation (`Truncated`).
`CoarseClockMissesNothing` adds that the lost precision is the only cause of a miss: with
`TicksPerMs = 1` nothing is.

**DbSessionProofs.**  `TypeCorrect` and `ClientsReturnedHolds` from `TInv`: a container has exactly one
client in its hands between connect and release, a broken connection belongs to that client or to the
one idle client, and a server session is in one transaction at a time, of a container or of a client
that is gone.  `TenantScopedHolds` from `ScopedInv` on top of it, for a setting that is gone when a
session becomes free can only be found by the transaction that holds the session.
`RefusedOnlyAfterRotationHolds` from `RInv`: what a process has cached is no older than the process.
`CallsAreAtomicHolds` is the refinement of `AtomicCall`, every step mapped (`AtomicSteps`), from
`EffectInv`: nothing of a call is durable before its commit.  `AnswersAreTrueHolds` follows from that
refinement alone, by an invariant of `AtomicCall` (`AnswersTrue`): what the modules of handlers assume of
a call that returned rows, and of one that threw.

**CreateTenantProofs.**  `NamesUniqueHolds` from `NInv`: the check is stale when the insert runs, but
what it saw of ended requests is not.  `AnswersExplainedHolds` from `AInv` on top of it, and
`JudgedByStoredSchemaHolds` from `JInv`: a container serves one request at a time, and its cache holds
nothing that was not the parameter while its process ran.

**EntitlementProofs.**  First the period and the price: `PeriodEndsOnItsDay`, `PeriodsKeepOrder` and
`BilledRowsFit`, for every date of the Gregorian calendar, where TLC compares some decades.  Months are
numbered through (`IndexOf`); `FirstDay` of such a number is strictly monotonic (`MonthsInOrder`, from the
lengths of years and months), and `setMonth` adds to it.  `PeriodsFitHolds` from `RowsBilled`: every row
is as `create-subscription` wrote it, whatever happened to its status.
Then the trigger.  `ClaimsWereTrueHolds` from `HInv`, with `truths[u]` as the auxiliary variable that
remembers what was true since the login began: as long as a login runs, what is true now is among it
(`TruthKept`), and so is the row the trigger has read (`ReadTrue`).  The query returns a truth
(`RowsTrue`), no other step loses one (`WitnessKeeps`), and a token is issued from the row that was read,
however stale it is by then, or is a default with its reason (`IssueIsTrue`).
`OnlyProLacksFeatures` says how far the finding of `paid_features` goes: of the plans on offer `pro` is
the only one.  `QueryIsDetermined`: what `LIMIT 1` picks is a choice only where requests overlapped.

**Only model-checked.**  Liveness under fairness, where the prover cannot reason about ENABLED:
`EventuallyProcessed`, the fairness of `KeepsPromise`, `EventuallySubscribed`, `Drains`,
`SubscriptionSettled`, `CallsEnd`, `LoginsSucceed`.  All invariants and action properties of the passing
runs are proved.  `CompletedHasEffect`, `CompletedIsFinal`, `EventsHaveRow` and the type invariants of
`CreateTenant`, `DlqReprocessor`, `BillingPlatform`, `ListInvoices` and `Entitlement` are the reverse:
proved and in no run.

## 6. Plan

Done, in this order, the most important behaviour first: `SqsConsumer` with `ExactlyOnce` and its
proofs, `CreateSubscription` with proofs, `DlqReprocessor`, `IngestEvent` with proofs, `ListInvoices`;
then `DbSession` with `AtomicCall`, `BillingPlatform`, `CreateTenant`, `Entitlement` with `BillingPeriod`.

Then the proofs of `DbSession` with the refinement of `AtomicCall`, and of `CreateTenant`; the steps of the
refinement of `ExactlyOnce` by `SqsConsumer` and `PoisonIsolated`; the rest of `IngestEvent`;
`DlqReprocessor`; `BillingPlatform` on top of the handler's theorems; `ListInvoices`; the calendar;
`Entitlement`; and what holds from end to end.

Nothing that the provers can reach is left of this plan.  What a change of the code would ask for next: a
step that marks a record in the transaction of its work would remove the conditions of `AtMostOnce`, and
`OInv` of `SqsConsumerProofs` is where to begin.

## 7. Not modelled

Formatting, logging and metrics; the text of notifications and audit entries; numbers and due dates of
invoices; message retention of SQS (4 and 14 days); the cleanup of `processed_events`, which is not in the
repository; the check constraints of the schema, beyond rows that are bad; limits on the number of
connections and of concurrent Lambdas; whether the database role is subject to the policies at all, for
no file of the repository says who runs the migrations.  Retries of API clients are modelled for
`POST /v1/events` only.  Network, identity and observability
infrastructure and the CI workflows, which are declarative and have no state the handlers share.

