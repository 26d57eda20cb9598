# TLA+ model of Pulse Pager

Pulse Pager is an uptime monitor: a scheduler plans checks, workers in several
regions run them, an alerting service turns their results into incidents, and
a notifier tells the people. An api serves the configuration, the history and
the accounts; a billing service follows a payment provider. The services share
Postgres and Redis and talk over an event bus, Kafka or Redis streams
(`PULSE_BUS`). This directory holds TLA+ modules for these services, the TLC
instances that check them, an abstract specification of the alerting service
with the refinement, and TLAPS proofs of the refinement and of the safety
properties for every size of the system.

## 1. Inventory

| component | state | operations | interacts with |
|---|---|---|---|
| alerting state machine (`internal/alerting/alerting.go`) | none (pure) | `Engine.Apply` | called by the alerting service |
| alerting service (`internal/alerting/service.go`, `store/incidents.go`) | `check_results`, `incidents`, alert columns of `monitors` | `handle` per result | consumes `check.results`, produces `notify.events` |
| event bus (`internal/bus`) | offsets, pending entries, trimmed streams | `Produce`, `Poll` | every service |
| notifier (`internal/notify`) | Redis dedup keys, `notify_dedup`, `notify_deliveries` | `handle` per event, fan-out, retries | consumes `notify.events`; providers, webhooks |
| transactional email (`notify/emailintent.go`) | invitation tokens | `handle` per intent | consumes `email.events`; SMTP |
| scheduler (`internal/scheduler`) | next runs, in memory | tick, dispatch | Postgres, `check.jobs`, live state |
| worker, live check state (`internal/worker`, `internal/checkstate`) | Redis hash per monitor, a field per region | run a job, publish, roll up | `check.jobs`, `check.results` |
| checker (`internal/checker`) | none | one HTTP or certificate check | network |
| api: monitors, channels, webhooks, status pages | their tables, sealed secrets | create, read, update, delete, publish, test | Postgres, `email.events` |
| api: histories | `check_results`, `incidents`, notes | lists by page, detail, note, manual close | Postgres |
| authorization, entitlements (`internal/authz`, `internal/entitlements`) | none (tables) | `Can`, plan lookups | every handler |
| sign-in (`internal/authn`, `internal/maglink`) | users, identities, flows and links in Redis | OAuth start and callback, link, unlink, magic link | identity providers |
| sessions (`authn/refresh.go`, `store/refreshtokens.go`) | token families, cookies | issue, rotate, log out | browsers |
| API keys (`authn/apikey.go`) | keys, a cache in Redis | create, revoke, verify | api |
| rate limits (`api/monitors.go`, `api/maglink.go`) | counters in Redis | check now, request a link | `internal/kv` |
| members, invitations (`api/members.go`, `store/memberships.go`) | memberships, invitations, a role cache | change role, remove, leave, transfer, invite, accept | `email.events` |
| billing (`internal/billing`) | subscriptions, payments, received events | ingest an event, check out, cancel, override | payment provider |
| runtime, configuration (`internal/runtime`, `internal/config`, `cmd/*`) | connections, closers | start, serve, shut down | all of the above |

What is hard here:

* A result is handled in **four transactions and one produce**, with no
  transaction around them. Another consumer, an operator or a crash may come
  between any two, and the decision is computed from a state that was read in an
  earlier transaction than the one that applies it. The api's handlers have the
  same shape: they count, read and check in one transaction and write in another.
* Delivery is **at least once** on Redis and, because of the client's
  autocommit, neither at least nor at most once on Kafka. A Kafka rebalance lets
  two consumers work on one monitor's results at the same time.
* The **answer of a commit can be lost**: the handler returns an error for work
  that is done.
* **Two stores** back one decision (Redis and Postgres in the notifier's gate,
  the caches of keys and roles, counter and expiry of a rate limit), and either
  fails by itself.
* State that lives **in memory only** (next runs) or is written late (the live
  check state), with processes that restart.
* A payment provider that repeats and reorders its events.

Correct means: one incident open per monitor; counters that match the history;
each fact announced at most once and only if it is true; nothing acked that was
not applied; the stream never stuck; every enabled monitor checked for ever with
the right verdict; orgs and secrets kept apart; one live token per login; plan caps
that slip by no more than the requests in flight; an owner in every org; a
plan that follows the provider; services that drain, stop and come back. The
hazards behind these, each at its line, are in `PROJECT.json`.

## 2. Modules

```
AlertEngine ----+                       AlertService
                +--> Alerting --> AlertingRefinement --> MCAlerting
ConsumerGroup --+--> Notifier --> MCNotifier

Providers --> Delivery --> MCDelivery          Checker --> Checks --> MCChecks

Authz, Entitlements --> Tenant --> MonitorsApi, ChannelsApi (with Providers),
                                   StatusPagesApi --> TenantApi --> MCTenantApi
Authz, Entitlements --> Limits --+
Accounts --> Sessions -----------+--> ApiParts --> MCApiParts
Authz --> ApiKeys, History ------+
Authz, Entitlements --> Members --> Billing --> MCBilling
Services --> MCServices
```

`XProofs` extends module `X` with theorems about it (AlertingProofs the refinement);
`AlertingProofs` and `NotifierProofs` also extend `ConsumerGroupProofs`, which has what
every step of a consumer group preserves. `RuntimeProofs` holds the theorems about two
specifications that share nothing, Services and Checks.

In each module a definition marked `Mutant` is a variant of the one behind it with
a plausible bug. No specification uses it; `PROJECT.json` names the property that
finds the bug when it takes the other's place.

### From a result to a notification

**ConsumerGroup** is the consuming side of `internal/bus` over one ordered
stream. `pos` is the record a consumer handles next, `fetched` the end of the
batch it holds, `committed` what the group has behind it. On Kafka a handler
error skips the rest of the fetch and the next poll commits it (`ReturnErr`,
`AutoCommit`); on Redis the failed entry is the first of the next poll. `Restart`
and `Rebalance` read on from `committed`. A service's module conjoins these
operators with what its handler does, and gives the steps of the handler as
values of `pc`. What franz-go and the brokers do is marked external.

**AlertEngine** is `Engine.Apply` with every branch, and `domain.SSLWarnLevel`.
A certificate expiry is the number of days left when the check ran.

**Alerting** is `Runner.handle` for one monitor (results are keyed by monitor, so
its results are one stream), with the tables it writes:

| action | code |
|---|---|
| `Receive`, `DropMalformed` | decoding the record |
| `UpsertCheckResult`, `UpsertOrphan` | insert or find the row; the foreign key of a deleted monitor |
| `GetMonitor`, `GetAlertState`, `GetOpenIncident`, `MonitorGone` | the reads, then `Apply` |
| `ApplyAlertDecision`, `ApplySkipped`, `ApplyGone` | the transaction under the row lock: watermark, insert or close, counters |
| `ApplyUnsure`, `StoreFail` | a commit whose answer is lost; a call that fails |
| `Emit`, `EmitFail` | the produce of the notify event, which is only logged when it fails |
| `PollLoop`, `PollFault`, `Crash` | `Run` outside `handle` |
| `Publish`, `ManualCloseIncident`, `UpdateMonitor`, `DeleteMonitor` | the workers and the api |

Rows are kept after `DeleteMonitor` as history and hidden by `mon.exists`: ids are
never reused. The monitor's lock makes `ApplyAlertDecision` atomic; a manual close,
which does not take it, either precedes the conditional `UPDATE` or finds the row
closed, and both orders are steps of the model.

**AlertService** says what alerting promises, without transactions, ids or a
watermark: a result is applied in one step, in the order of the stream, once; a
run of failures that reaches the threshold gets an incident; a healthy result ends
it; announcements are made for these steps only. **AlertingRefinement** instantiates
it: `upto` is the stream position of the row at the watermark, `covered` that an
incident began in the failing run, `life` what became of each incident, `hand`
and `said` the event held and the events produced.

**Notifier** is the notifier's `Runner.handle` over several events and consumers:
`SET NX`, the claim, the channel list, sends and retries, the delivery records, the
org webhooks, and the failures of each. An event is its dedup key.

**Providers** and **Delivery** look at one event from the inside. `Providers` has the
registry of channel types, their fields, their validation and the request each
makes; `Delivery` has `Manager.Dispatch`'s goroutine per channel with attempts and
backoff, the collector, the Team email that goes through the active members one by
one, `deliverOrgWebhooks` under its time budget, a shutdown at any point, and a mail
server that accepts the connection and then says nothing (`Hang`).
`remote` is what the on-call tool does with the requests.

### From a monitor to a result

**Checker** is `Check`: the verdict as a function of the monitor and of a world (what
lookup, dials, server and certificate answer). **Checks** joins the scheduler
(`dispatchDue`, `dispatch`, next runs counted down to zero), one trimmed stream per
region, the worker of each region (`handle`: running mark, check, publish, result
mark, ack), the persisted result and the live state, with edits, failed calls,
restarts and crashes. `MaxStream` stands for the trim length.

### The api

**Tenant** is what org-scoped handlers share: the principal, the plan, the
transaction bound to an org, the cipher, and a request held between its
transactions (`req`). **MonitorsApi**, **ChannelsApi** and **StatusPagesApi** have one
action per handler and one per later transaction of it; `Pool_X` is the store
method X. **TenantApi** composes them, with the cascade of a deleted monitor to
the pages, with the pipeline writing live states and with plan changes.
**Authz** and **Entitlements** are the tables of roles and plans.

**Accounts** and **Sessions** are sign-in and token rotation over browsers with
cookies; **ApiKeys** the key cache; **Limits** the counters with every Redis command
a step, where a command that fails may have been carried out and may be sent again by
the client; **History** the lists read page by page and the incident desk. They share no
row and no key, so **ApiParts** explores each for itself (`part`); steps of two of
them commute.

**Members** has role changes up to the commit, with the trigger counting committed
rows, the role cache, invitations and the consumers that mail them, on either bus:
on Redis one consumer takes an intent at a time and gets it again after an error
(`HandlerErr`), on Kafka each handles a batch, reads past all of it after an error, and
may share it with another after a rebalance. **Billing** adds the provider's events
(`sent`), the ingest handler step by step, and the requests of owners and operators.
The clients of a behaviour work on one of two topics: roles, or invitations, mail,
plans and billing together (`topic`); `Starts` says what an org is like at first.

**Services** is `cmd/*/main.go`: settings, connections in order, serving, readiness,
then the closers last to first within ten seconds, while requests and loops go on.

Histories that the code does not keep (`signins`, `peak`, `spent`, `inbox`, ...) are
marked `history` where they are declared; they are there for the properties.

## 3. Runs

| run | instance | shows |
|---|---|---|
| AlertingRedis | an ssl monitor, 3 results with 7, 2 or no days left, 2 faults, 1 request, thresholds 1 and 2 | `ActsAtomically` (the refinement), `CountersMatchHistory`, `OpenIncidentIsCurrent`, `AckedIsApplied`: on Redis the tables are exactly what the acked results say; each certificate level is announced once (`NotifyOnce`), and the stream never stops (`AllProcessed`) |
| AlertingKafka | 2 consumers, 2 results, malformed ones too, 3 faults, 1 request, http and ssl | `OneOpenIncident`, `PlainOnce`, `UpOnlyIfRecovered`, `ClosedIsFinal` through rebalance overlaps |
| NotifierKafka | 2 consumers, one event produced twice, a webhook, malformed payloads, a lost key | `DeliveredOnce`, `SoleDispatcher`, `EveryAlertTried` |
| Delivery | a down and its recovery on Team email, SMTP, an on-call tool and a disabled channel, 2 webhooks, 2 attempts | `RowsAreTrue`, `EmailReachesTeam`, `RecoveryClosesAlert`, `HandlingEnds` |
| TenantApi | 2 orgs, 3 principals, 2 requests at once, 3 in all, caps of one row | `CapSlack`, `OrgsApart`, `SecretsConfined`, `ChannelsSendable`, `SigningSecretIsCurrent` |
| Checks | 1 monitor as http and as ssl, 2 regions, a stream of one entry, 1 fault, 1 edit | `VerdictIsRight`, `KeepsChecking`, `LiveStateHeals` |
| ApiParts | 2 clients, 3 requests, 4 tokens, 1 link, limits of 1 and 2, 3 rows | `ChainIntact`, `OneSignInPerLink`, `WithinLimits`, `WindowReopens`, `RevocationTakesHold`, `ListedOnce`, `AnswersHold` |
| Members | two owners; a full org whose mail goes over Kafka, and one with room, on Redis, that loses its plan, each with an invitation out; 2 mailers, 2 requests, 3 tokens | `OwnerKept`, `InviteReachable`, `SeatsBounded` |
| Billing | a buyer with 2 events of the stub or 3 of Paddle, 2 handlers, an operator, 1 fault | `MirrorsProvider`, `EventsSettle` |
| Services | each of the six services in five environments, sound and unsound, 2 faults | `DrainedBeforeClosed`, `ComesBack` |

Some properties name an exception. It is the exact condition under which the
code breaks them, found by TLC, and the property says that nothing else does:

* `ChainIntact`: two rotations of one family that overlap;
* `OwnerKept`: two owners whose departures overlap;
* `SeatsBounded`: a request for an invitation that an acceptance overtakes between its
  two counts, or another insert or a smaller plan between its counts and its insert. The
  property is about taking a seat, which needs room under the plan of that moment. An
  org has more members and invitations than seats whenever its plan is lowered
  afterwards (a canceled subscription, `billing/ingest.go:147`, or an operator): nothing
  is taken away then, as RFC-009 says of a forced drop, and no seat can be added;
* `InviteReachable`: on Kafka, an intent that was read past after an error, or that two
  consumers held at once. On Redis there is none;
* `HandlingEnds`: a mail server that holds its connection. `realSMTPSend`
  (`notify/smtp.go:289`) sets no deadline and leaves the context aside once it has
  dialled, so `wg.Wait` (`notify.go:238`) never returns and the notifier handles no later
  event; the other channels of the event end;
* `SecretsConfined`: the answer to a channel test that failed, which names the URL of the
  channel tested (see the counterexamples below). It is a channel of the caller's own org;
* `WindowReopens`: an `EXPIRE` that was lost, or a first `INCR` that was carried out and
  whose answer was lost or came from a retry that returned 2;
* `ListedOnce`: rows that share the cursor's time;
* `MirrorsProvider`: an event applied after a newer one or without an org;
* `EventsSettle`: events that name an org the database does not have (`Foreign`), which
  are answered with an error for ever when they are about a subscription;
* `AllProcessed`: a deleted monitor.

`RevocationTakesHold` says that a revoked key is refused in the end; that it is not at
once, as the code's comments have it, is among the counterexamples.

Two runs are expected to be violated. Each checks a sentence of the repository
that the code does not keep; the quotations are under `findings`.

| run | property | what happens |
|---|---|---|
| AlertLost | `NotificationNotLost` | the process dies, or the produce fails, between the commit and the emit: the redelivery is dropped by the watermark before it could emit again |
| SealedHeaders | `HeadersDecrypted` | the scheduler runs without a key: its jobs carry a secret header's ciphertext |

Three more sentences of the repository that TLC refutes, with the formula it violates:

* "Secrets are write-only over the API and never returned: channel webhook URLs, SMTP
  passwords, ..." (`docs/prd/PRD-005-public-api-and-webhooks.md:144`), "no secret value is
  ever present in any response or log" (`docs/prd/PRD-003-notifications.md:287`). The
  request of a channel test fails, and the 422 has `err.Error()` (`api/channels.go:240`),
  which for a request is net/http's `url.Error` with the whole URL (`notify/slack.go:33`):
  the `webhook_url` of Discord, Slack and Teams, or Telegram's bot token. In TenantApi
  `\A t \in out.told : t[2] \notin Values` is violated.
* A revoked key "fails auth immediately", "the next request misses the cache and re-reads
  the revoked row" (`api/apikeys.go:116`); 'so "next request" holds'
  (`docs/rfc/RFC-003-authn-authz.md:387`); "A revoked key fails the very next request"
  (`docs-site/guides/authentication.html:128`). A verification reads the row, the key is
  revoked and its entry dropped, and the verification then caches the key as good
  (`authn/apikey.go:118`); or the drop fails. In ApiKeys, with the revocation answered
  (`busting # k`), `keys[k].revoked => kcache[k] # "ok"` is violated.
* "a returned error leaves the offset for redelivery" (`notify/emailintent.go:62`), "A
  send/mint/store failure returns an error so the intent redelivers (at-least-once)"
  (`notify/emailintent.go:89`), "a send that failed before is retried rather than lost"
  (`store/invitations.go:170`). On Kafka the token is replaced, the send fails, and the
  consumer reads past the intent and commits it (`bus/kafka.go:90`): the invitation waits
  for a token that was mailed to nobody. In Members `InviteReachable` without `dropped` is
  violated, with one consumer too.

Other counterexamples met while modelling, not kept as runs:

* Kafka: after a failed handler the client reads on behind the fetch and commits
  it, so a result is acked and never applied (`bus/kafka.go:90`; the comment on `Run`
  says that a blip retries cleanly). After a rebalance a result may be applied
  after its successor, and a recovery may be produced before its down.
* On Redis a result of a deleted monitor fails its foreign key at every poll and
  nothing behind it is handled (`alerting/service.go:166`).
* An ssl incident opened by a failure without a certificate stores level -1, and
  no later expiry warning is sent on it (`alerting.go:149`).
* The notifier claims an event before it loads the channels; a crash or a failed
  read in between suppresses it for good. Redis takes the key, the Postgres claim
  fails, and the redelivery meets its own key (RFC-007 calls Redis advisory).
* Disabling a monitor leaves its incident open, although RFC-006 and PRD-002 say
  that the api closes it.
* `orgEventID` leaves out the certificate level, so two warnings of one incident
  reach a webhook with one id.
* Two refreshes of a token at once fork its family; a logout that falls into a
  rotation leaves a live token (`store/refreshtokens.go:82`).
* Two owners stepping down at once leave an org without an owner, although
  `schema.sql:157` says that the trigger holds "even under a race".
* A publish that races an edit of a status page is undone by the edit, which
  writes the row it read (`api/statuspages.go:183`).
* A plan cap is passed by requests at once; members and invitations are counted apart.
* An older subscription event that is applied late overwrites the newer state; an
  event without an org id before the first subscription is acknowledged and lost.
* A lost `EXPIRE` after the first `INCR`, or a lost or retried answer of that `INCR`,
  leaves a counter without an end: once it is full the rate limit stays shut for good
  (`api/monitors.go:393`, `api/maglink.go:135`).
* Two consumers of one invitation's intent each replace the token; the mail that
  arrives may be the one whose token was replaced (`notify/emailintent.go:144`).
* A webhook or an invitation created with an API key fails on a foreign key and
  answers 500: `created_by` is 0.
* A start with a Google client id and no secret passes `config.Load` and then ends
  at once, at every restart (`api/build.go:212`).

### Bounds

Names that begin with `Max` bound the environment (results, faults, edits,
requests, events, rows), never the services; `MaxStream`, `PageCaps`, `MonitorResolver` and the limits
of ApiParts are small values of parameters the code has. Three results and two
thresholds reach every branch of `Apply`, a blip that resets the counters, an open,
a renotify and a close; two faults allow a failure of the recovery from a failure;
three on Kafka allow a rebalance, a crash and a failed call in one behaviour. On Redis
the monitor is an ssl one because `Apply` treats its failures as those of an http
monitor, with the certificate levels on top. The results come from one region, so
their times grow; that results of several regions may arrive out of the order of their
times, which no decision looks at, is left to the theorems, as every safety property
of these two runs is one. Two
clients with two transactions each reach every interleaving of two handlers,
and a third request comes after both. Three provider events are one too many for
the order to be kept. Consumers, regions and channels are interchangeable
(`SYMMETRY`), which is used for safety only. `CHECK_DEADLOCK FALSE`, everywhere but in
Checks, whose clock never stops: once the bounds are used up and the work is done,
the instance has nothing left to do.

### Fairness

* Alerting, Delivery: weak fairness of what a live consumer does by itself. `Run`
  polls in a loop for as long as the process lives, and a call in a handler returns,
  with an answer or with an error: Redis by its client's default timeouts, the providers
  by the 15 seconds of their `http.Client` (`notify.go:74`); that Postgres answers or its
  connection breaks is assumed of the database. The one call that need not
  return is a send over SMTP; `Hang` is that case, a step of its own outside the fair
  part.
* Checks: weak fairness of the scheduler's ticks, of each region's worker and of the
  alerting service that persists results.
* ApiKeys, Limits: requests that were begun go on, and Redis keys with an expiry
  expire.
* Billing: a handler that was begun goes on (weak); the provider repeats an event
  that was not answered with 200 whenever a handler is free (strong, because another
  event may take the handler in between).
* Services: each process goes on, the ten seconds pass, an outage ends, and the
  platform starts a process again that has ended (Kubernetes, external).

Nothing is assumed of faults, users or operators. The number of faults is finite,
so the liveness properties say what happens after the last one. Sessions, Members,
TenantApi and History have safety properties only and need none.

## 4. Proofs

Each theorem holds for every value of the constants that satisfies the module's
assumptions: any number of consumers, clients, orgs, channels, rows and events, and
any values of the bounds. The inductive invariants were checked by TLC on the runs'
instances before they were proved.

| module | theorem | states |
|---|---|---|
| AlertingProofs | `TypeCorrect`, `AtMostOneOpenIncident`, `AnnouncedOnce`, `RecoveryIsTrue` | `TypeOK`, `OneOpenIncident`, `PlainOnce`, `UpOnlyIfRecovered`, on either bus |
| | `ClosedStaysClosed`, `NoResultTwice` | `ClosedIsFinal`, `CountedOnce`, on either bus |
| | `CountersAreTrue`, `IncidentOfThisRun`, `NothingAckedUnapplied` | on Redis: `CountersMatchHistory`, `OpenIncidentIsCurrent`, `AckedIsApplied` |
| | `HandlesAtomically` | on Redis: `ActsAtomically`, the refinement of AlertService |
| | `EachLevelOnce` | on Redis, for monitors that keep their type: `NotifyOnce` |
| NotifierProofs | `NothingDeliveredTwice`, `OneDispatcher`, `NothingSuppressed` | `DeliveredOnce`, `SoleDispatcher`, `EveryAlertTried` |
| DeliveryProofs | `LogIsTrue`, `TeamIsReached`, `RecoveryCloses`, `HandlingGoesOn` | `RowsAreTrue`, `EmailReachesTeam`, `RecoveryClosesAlert`, `HandlingAdvances` |
| TenantApiProofs | `CapsSlip`, `OrgsStayApart`, `SecretsStayIn`, `StoredChannelsSend`, `SecretsRotate` | `CapSlack`, `OrgsApart`, `SecretsConfined`, `ChannelsSendable`, `SigningSecretIsCurrent` |
| ApiPartsProofs | `LimitsHold`, `OneTokenWorks`, `LinksSignInOnce`, `PagesComplete`, `DeskAnswersHold` | `WithinLimits`, `ChainIntact`, `OneSignInPerLink`, `ListedOnce`, `AnswersHold` |
| | `WindowsDoEnd`, `RevokedStaysRefused` | `WindowsEnd`, `RefusedForGood` |
| BillingProofs | `OwnersStay`, `SeatsFit`, `InvitesArrive`, `PlanFollowsProvider` | `OwnerKept`, `SeatsBounded`, `InviteReachable`, `MirrorsProvider` |
| RuntimeProofs | `RequestsDrain` | `DrainedBeforeClosed` |
| | `VerdictsAreRight` | `VerdictIsRight` |

`Invariance`, `NotifierInvariance`, `DeliveryInvariance`, `MembersInvariance` and
`JobsAreStored` state the inductive invariants themselves. `ConsumerGroupProofs` has, once for both services
that consume, that every step of a consumer group keeps its type.

### Alerting, on either bus

The inductive invariant is `Inv`:

* `TypeOK`, with the indices of the consumer group inside the stream;
* `LocalsOK`: what the steps of `handle` up to `pc[c]` have left in memory. Without
  it a step reads a local that has no value;
* `DecisionOK`, part of it: a decision that announces a recovery closes, one that
  announces a down opens, or renotifies with a level (`ApplyDecision` proves it of
  `Apply` for every input);
* `IncidentsOK`: `OneOpenIncident`, and a recovered incident is closed;
* `EventsOK`: an event, **produced or still in a consumer's memory**, names an
  incident, and a recovery names a recovered one. The properties speak of produced
  events; the strengthening to pending ones is what makes them inductive;
* `PlainOnce`.

The argument for `PlainOnce`: an announced down without a level comes with an
insert, whose id no event has named (`EventsOK`); a recovery comes with the close of
an open row, which no recovery has named, since a recovered row is closed. It does
not matter how stale the decision is (`PersistStep`).

### Alerting on Redis

One consumer with a stable name reads the stream, so between two calls of `handle`
the tables are those of the acked results, and perhaps the row of the one at hand.
`RedisInv` says so:

* `TablesOK`: the rows are in stream order and none is ahead of the entry at hand
  (`RowsOK`); every acked entry was applied; the current failing run is an interval of
  rows that ends at the watermark, whose length and first time are the counters
  (`RunOK`); an incident's first failure is at or behind the watermark, and an open
  one began with the run.
* `Inside(c)`: at each step the locals are those of the tables as they are, except
  that the incident read may have been closed by an operator since (`Decided`).

`CountersMatchHistory` follows with the size of an interval, for runs of any length.

The refinement maps a step by what it writes: `Persist` is AlertService's `Recovers`,
`Counts`, `Opens` or `Warns`, depending on the decision; a successful emit is
`Announce`; an emit that fails, or a crash before it, is `Lose`; a result
published is `Arrives`; an operator's close is `ClosesByHand`; every other step changes
nothing that the abstract service has. `Inside` is what makes the decision, computed
in earlier transactions, the one AlertService takes now.

`EachLevelOnce` adds `LevelsOK`: for an open incident the levels announced are never
below `last_warned_days`, which only gets smaller, so that a new warning is not an old
one. It assumes `TypeKept`: all types of the instance are equal. An edit of a monitor
from ssl to http and back would reset the level it remembers.

### Notifier and Delivery

The gate of `Notifier` is proved with `GateHolds` (a Redis key or a claimed row stands
for an event that was dispatched, or is by one consumer), `FreshUntouched` (an event
that nobody claimed was sent nowhere) and `ProgressOK` (where a fan-out is tells what
its channels have got). Losing a Redis key is harmless because the row is claimed
too. `EveryAlertTried` needs a second invariant, `CalmInv`, about behaviours in which
nothing but receivers failed.

In `Delivery` the goroutines share the collector only, so `DeliveryInv` speaks of one
channel at a time and `OneChannel` frames its steps: the attempts are the sends made,
the collector holds the last, a goroutine goes on only after an error (`GoFits`);
everybody a Team email selects is waiting for a mail of this attempt or has one, and
has at most one per attempt (`MailFits`); a recovery that was accepted has closed the
alert (`AlertFits`). Rows are written only when all goroutines are done (`RowsLate`).

`HandlingGoesOn` is the part of `HandlingEnds` that needs no fairness: every step of
the notifier makes a measure of the event smaller. Its stages come in order; a
goroutine either uses up an attempt of the policy or does the next thing in the
attempt it is at (`Left`: backoff, send, one address after the other; none when its
mail server went silent), and the
addresses are at most the members (`EmailsOf`); the posts are those of one list, each
with `HookAttempts` tries. What is left for TLC is that a step is always taken.

### The api

* TenantApi: what a request carries from its first transaction to its second is well
  formed; stored secrets are ciphertexts; the merge of a stored and a new channel
  configuration that were accepted is one that is accepted; a page's entries are
  monitors of its org; the stored signing secret is the one issued last. What the error
  of a channel test tells belongs to a channel of the org the request was made in, and
  the row is there when the answer is given. The caps:
  the enabled monitors and those that requests are about to enable or insert
  (`Soon` with `Inserting`; pages with `Paging`) are at most the highest cap and one
  for each client but the one that counts.
* Limits: a counter is at least what the window has let through and what callers
  that incremented it are about to be let through with. Sessions: a login outside
  `raced` has one chain (`LoneChain`), of which only the last token works. Links: a
  link that signed in, or that a request carries, is gone from Redis, so one request
  has it (`LinkOK`). `WindowsDoEnd`: an `INCR` that answers 1
  makes its caller the one that sets the expiry, and one that answers more came after
  such a caller in the same window; only a lost `EXPIRE`, or a first `INCR` whose answer
  nobody got, breaks the chain.
* ApiKeys: a row that is revoked stays so, and what a verification reads from it from
  then on is "revoked". An entry that lets the key in can only come from a verification
  that already held "ok", which is why `Admits` counts those too
  (`RevokedStaysRefused`). That the last one goes is `RevocationTakesHold`.
* History: rows of a list only age, never move past a cursor or change place
  (`Ages`); each row a walk still owes is beyond its cursor, a tie or one that
  stopped matching (`WalksFit`). A desk's request knows of the incident what can
  only grow (`DesksFit`).
* Members: the trigger takes no lock on the rows it counts; an `UPDATE` holds its own row
  only (`RowsLocked`). So some owner stays who is not about to go (`OwnerStays`), unless
  two left in transactions that overlapped. A count made by a request that was not
  overtaken is still right at its insert, also when the org's plan changes: a smaller
  plan overtakes whoever waits (`SeatInv`). Each pending invitation whose token was not
  mailed has an intent that carries it (`Carries`): one that is delivered again and that
  whoever holds it has yet to handle, or handles with this token (`Ahead`), or one that
  Kafka lost; an intent has two holders only on Kafka, and is then lost too
  (`HeldOnce`, `ReachInv`).
* Billing: an org's plan is that of its newest event among the processed ones
  (`MirrorInv`), whatever the order, duplicates and two handlers at once, and whatever
  invitations and operators do in between (`OrderFits`).

### Services

The server's closer is added behind those of the connections it needs and closers
run in reverse: as long as it has not returned they are open, and when it has, no
request is left, or the ten seconds are over.

### Checks

A worker's verdict is a function of its job, so `VerdictsAreRight` has two halves.
`ChecksInv` says where jobs come from: the scheduler's list, each stream and each
worker's hands hold rows that the table held when the scheduler read it, however many
edits, trims, restarts and crashes came since; waits are within an interval. It
carries the types along (`SchedFits`, `WorkFits`). The other half is about `Check` and
quantifies over every row and every world:

* the connections made are the longest prefix of the dials whose addresses are all
  allowed (`MadeOf`), so none goes to a blocked one, and one is refused exactly if a
  dial is blocked (`BlockedDials`); without blocking none is (`FreeDials`);
* a parsed list of codes, classes and ranges matches exactly the set it denotes
  (`CodesMatch`);
* `HttpVerdict` and `SslVerdict` go through the checker's returns one by one: the check
  is healthy exactly if the target was reached and all assertions hold, and has a
  failure reason exactly if it is not.

### Assumptions

Every constant has a named assumption in the module that declares it; TLC evaluates
them on every run. They give the parameters their types (finite sets of clients and
members, bounds in `Nat`, nil different from the values it stands beside), and what
the code guarantees: one consumer on Redis (`BusAssumption`), plan caps that do not
fall with a higher plan (`MonitorsAssumption`, `PagesAssumption`), secrets that are not
among the non-secret values (`ChannelsAssumption`), an org that has an owner when a
behaviour begins, and any members and any plan (`StartsAssumption`), a test event without a type
(`DeliveryAssumption`), monitor rows as the api validates them and networks that answer
in one of the ways the checker tells apart (`ChecksAssumption`), a nil that is neither
an answer of a verification (`KeysAssumption`) nor a call (`LimitsAssumption`).

### Model-checked only

* Liveness, which is out of the prover's reach: `AllProcessed`, `HandlingEnds`,
  `KeepsChecking`, `LiveStateHeals`, `WindowReopens`, `RevocationTakesHold`,
  `EventsSettle`, `ComesBack`. Where a liveness property rests on a fact that one step
  can break, that fact is a theorem: `HandlingAdvances` for `HandlingEnds`, `WindowsEnd`
  for `WindowReopens`, `RefusedForGood` for `RevocationTakesHold`, the bounds in
  `ChecksInv` for `KeepsChecking`. TLC agrees with these facts on the instances of the
  runs, which check the liveness property itself.

Every other property of a passing run is a theorem, `NotifyOnce` for monitors that keep
their type, which is also what the run checks.

## 5. What is not modelled

* Payloads beyond what the properties tell apart: texts, causes, rendering,
  signatures, hashes, traces. Monitors other than the one followed by Alerting, which
  share the stream but no row with it.
* Retention of old rows and `ExpireInvitations`, which nothing calls; the uptime
  figures of the public page; operator metrics; profile edits.
* `monitor.changed` and `audit.events`: they are produced and nobody consumes them.
* The errors of `SetupTracing` and `SetupLogging` in `runtime.Run`, and the health
  server's share of the ten seconds of a shutdown.
* The schema tool, the email preview and the price listing; the generated api; the
  in-memory development api; the web client; observability.
* Sign-in of operators through an access proxy (`authn/cfaccess.go`): signature
  checks over a fetched key set.

## 6. Open ends

1. The order of an incident's down and recovery on Kafka after a rebalance (listed under
   `hazards`) and the webhook event id without the certificate level are known; a property for them would state what the code does not promise.
2. The remaining action facts behind `EventsSettle` (an event answered with 200 stays
   processed) and `ComesBack` (a closed connection is opened anew by the next start).
3. The part of the development api that repeats the rules of the real one.
