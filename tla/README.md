# A TLA+ development of the distributed ML inference platform

The platform serves driving-event classifiers to a fleet of vehicles. This
directory models the parts whose correctness depends on order, failure and
concurrency, checks them with TLC on small instances, and proves with TLAPS, for
instances of any size, every invariant and every action property that the runs check;
liveness stays with TLC.

## 1. Inventory

| Component | State | Operations | Interacts with |
|---|---|---|---|
| Gateway (`services/gateway-go`) | key set, token buckets per client, in-flight gauge | middleware chain, `POST /v1/infer`, `POST /v1/jobs`, shutdown | calls the router; writes the jobs topic |
| Job queue (`shared/pkg/queue`) | streams, one consumer group, pending list (Redis); partitions, offsets, a writers map (Kafka); channels (memory) | `Enqueue`, `Consume`, `DeadLetter` | shared by gateway and scheduler |
| Scheduler (`services/scheduler-go`) | none but counters; the batch it holds | `Dispatcher.handle`: call, retry, requeue, publish, dead-letter | reads jobs; calls the router; writes results and dead letters |
| Router (`services/router-go`) | worker records in memory | `Predict`, `RegisterWorker`, `Health` | forwards to workers over HTTP |
| Inference worker (`ml/serving/server.py`) | its model | `/predict`, registration loop every 10 s | registers with the router |
| Model registry (`services/model-deployer-go`) | two Postgres tables | `Register`, `Deploy`, `Rollback`, `SetTraffic`, `List`, `Production` | used by operators and the pipeline below |
| Retrain and promote (`ml/pipelines`) | none | train, evaluate, register, compare, deploy | client of the registry |
| Fleet simulator | a goroutine per vehicle, a bounded channel of statistics | send requests, aggregate, shut down | client of the gateway |
| Load test | measurements | send requests | client of the gateway |
| Machine learning code | model files | training, evaluation, quantization, drift | produces what workers load |

What is hard here, and what makes each part correct:

- **Jobs.** Redis commands fail with or without effect, replicas stop between any
  two of them, all replicas share one consumer name, nothing claims pending
  entries. Correct means: an accepted job is never forgotten silently, no entry is
  handled twice at once, attempts and outcomes are bounded, an entry is acknowledged
  only after its outcome is on record, every job comes to an end.
- **Registry.** Deploy and Rollback are several statements under READ COMMITTED and
  run concurrently. Correct means: one version serves, the audit log tells which,
  requests finish, and a failed request leaves nothing behind.
- **Router.** Registrations, heartbeats, staleness and call timeouts race; selection
  reads records without the lock. Correct means: dead workers expire, healthy ones do
  not, a request goes to a capable worker with the best score read.
- **Promotion.** Training, registration, comparison and deploy are separate requests,
  between which other clients write. Correct means: a version is promoted only over one
  it beats, and exit code 0 means that it was deployed.
- **Gateway and fleet.** Every request is a goroutine; buckets and metrics are shared;
  clients time out while the gateway goes on. Correct means: no client gets more through
  than its limit, the limiter's map does not grow without bound, gauge and counters tell
  the truth, and the simulator always shuts down.
- **Other queue backends.** Kafka: the committed offset against crashes, rebalances and
  nacked messages. Memory: consumers that feed the bounded channel they read from.

`PROJECT.json` lists the hazards line by line with the properties that cover them.

## 2. Modules and how they correspond to the code

**RedisQueue.** The jobs stream is a sequence of payloads (job, attempt); an entry is
its index. `cursor` is the group's last-delivered entry, `pending` its pending list,
`group` whether XGROUP CREATE has succeeded. `XAddReply` lists what an XADD through
go-redis can come to: appended and confirmed, not appended with an error, appended
with an error, appended twice by a re-sent command. Redis itself is external.

**JobPipeline** extends it with `Handler.SubmitJob`, and per replica the loop of
`Redis.Consume` with `Dispatcher.handle` as handler. One action is one interaction with
the outside, so everything can happen between two of them:

| Action | Code |
|---|---|
| `SubmitJob` | `Handler.SubmitJob`: 202 or 503 |
| `Start`, `StartUngrouped`, `Stop` | start of `Consume`; SIGTERM or kill: `main` does not wait for the loop |
| `Read`, `ReadLost` | XREADGROUP; its reply lost |
| `Handle` | unmarshal, `Attempt++`, start of the router call |
| `PredictSucceeds`, `PredictFails` | end of the call: counters, then publish, dead letter or back-off |
| `Requeue`, `Publish`, `DeadLetter` | the XADD each ends in, and what its error does |
| `Ack`, `AckLost` | XACK, result ignored |

The job's payload is abstracted to its identity and attempt number; the router is
abstracted to success or failure of a call. History variables `calls`, `logged` and
`doubled` only record; no guard reads them.

**ModelRegistry** models one model's rows (every statement filters by model name).
Register and SetTraffic are one statement each; Deploy and Rollback proceed row by row:
`BeginDeploy`/`BeginRollback`, `Select`, `DemoteRow` per row of the statement's
snapshot (waiting for row locks, the WHERE clause evaluated again after the wait),
`StartPromote`, `PromoteRow` or `PromoteNotFound`, `Commit`; `Fail` and `DeadlockAbort`
undo. Postgres' isolation and locking are external. The history variables `archivedAt` and
`registeredAt` hold the length of the audit log when a version was last archived and last
registered, the two ways out of production that log no event of it. **RegistryPromise** is
the abstract specification: the serving version switches in one step that is also logged.

**Promotion** extends it with runs of `retrain_and_promote.py`: `RegisterCandidate`
(steps 1 to 3, with any accuracy), `CompareWithNone` and `CompareWith` (the GET and the
threshold), `Promote` (the POST, a transaction of ModelRegistry), `Raise` (an exception,
a timeout; the registry works on) and `RegistryMove` (a transaction goes on, and the run
that waits for it is told). The history variable `overtaken` holds the runs during which
somebody else wrote: `PromotesOnlyBetter` is about the others, and about what is in
production at the commit. The model keeps what the code does at the edges: without a
version in production (404), or with one whose metrics have no accuracy, the candidate is
promoted unconditionally; a null metrics column raises; registering the serving version
again resets it to staging, after which the GET finds nothing to beat. Section 5 says what
this makes of the script's docstring.

**Selector** holds the routing policy as operators, with the conversions a client's
precision and priority pass through (a name the enum does not have becomes its
default). **Router** adds the worker registry, concurrent Predict calls and the
workers' registration loops over discrete time. Time is kept as ages up to the point
where they stop mattering, so behaviours have no bounded length. One tick is 5 s: the
RPC and call timeouts are 1, the registration interval 2, staleAfter 6. A call holds
pointers to records: `Shared` while the map holds the record, the old record once a
registration has replaced it; the scan reads one record per step, without the lock.

**Gateway** is one gateway process. A connection goes through `Arrive` (the metrics
middleware counts it in), `Authenticate` (`KeySet.Middleware`), `Lookup` and `Create`
(`limiterFor` takes the mutex and looks for the bucket; it adds one and lets the mutex go),
`Allow` (`rate.Limiter.Allow`, outside the mutex), `Handle` (Infer or SubmitJob decides on
its status) and `Finish` (the metrics middleware counts it out, net/http flushes); `Answer`
ends the chain at any of them. `Tick` is the clock of `x/time/rate`, with whole tokens;
`Shutdown` and `Restart` replace the process. Statuses are kept as classes: success, client error
(401 and 429 included), failure behind. `excess[k]` is the largest, over all periods
ending now, of what k got through less what the rate allows, and goes on over a restart:
RateLimited bounds it by one burst for each process started so far (`Lives`), since a
restart empties the limiter. Each gateway replica has a limiter of its own, so a client's
limit is per replica.

**Fleet** composes it with the simulator: `TelemetryTick`, `SendInfer`, `Answered`,
`SendFails`, `SendStats` and `StopVehicle` are the steps of `vehicle.Run`, `Aggregate`
and `StopAggregator` those of the aggregator goroutine. A request whose vehicle has given
up goes on in the gateway without a reader. Vehicles share one API key, so one bucket.

**KafkaPipeline** is the job pipeline over the other backend. A delivery is three steps:
`Fetch`, the handler's message (`Publish`, `Requeue` or `DeadLetter`) and `Commit` or
`CommitFails`; what may happen between the handler's own calls is JobPipeline's subject.
`MissWriter` and `ConcurrentMapWrite` are the unsynchronized `writers` map. `Assign` and
`Stop` move a partition while its old owner may still work and commit. `WriteReply` has
the outcomes of a write without acknowledgement. The broker and kafka-go are external.

**MemoryPipeline** is the scheduler standalone over Go channels: `Enqueue`, `Send` and
`GiveUp` for a sender's select, `Receive` and `Return` for the consumer's, `RouterFails`,
`Requeue`, `Publish` and `Abandon` for the handler, whose Enqueue ends with the send or
with the context.

**MCJobPipeline**, **MCPromotion**, **MCRouter** and **MCFleet** give the constants their
values for TLC. **JobPipelineProofs**, **JobCounterProofs**, **RegistryProofs**,
**PromotionProofs**, **RouterProofs**, **FleetProofs**, **KafkaProofs** and
**MemoryProofs** hold the theorems, each of the module it extends. A definition whose
comment begins with "Mutant of" is not used by the specification: it is a plausible bug,
which the property named in `PROJECT.json` is known to catch when it takes the
definition's place.

## 3. Runs

| Run | Instance | Shows |
|---|---|---|
| `pipeline` | 2 jobs, 2 replicas, 2 attempts, batches of 2, one failed command, one stop, one malformed payload | all safety properties of the pipeline |
| `pipeline_live` | 1 job, 3 attempts, otherwise the same | `EveryJobSettles`, `AcceptedJobCompletes` |
| `pipeline_nack` | 1 job | a failed dead letter is never redelivered (finding) |
| `pipeline_group` | 1 replica, one failed command | a failed XGROUP CREATE is never made good (finding) |
| `registry` | 2 versions, 2 transactions, 4 requests, 4 statements, 1 fault | log and table agree; requests finish |
| `promotion` | 3 versions, 1 transaction, 1 run, 3 requests, 3 statements, 1 fault | refinement of RegistryPromise; one version in production; what a run promotes |
| `registry_rollback` | 3 versions | Rollback goes by creation time (finding) |
| `registry_overlap` | 3 versions, 2 transactions | two versions in production (finding) |
| `router` | 2 workers of which 1 may die, one at int4 and one registered as fp32, 3 kinds of request, 1 call slot, the default times | expiry, liveness of healthy workers, capability, the best of what was read |
| `fleet` | 1 vehicle, 1 stranger, 2 connections, 3 requests, rate and burst 1, 1 restart, with and without keys | rate limits over races and a restart, bucket map, gauge, counters, shutdown |
| `kafka` | 2 jobs, 1 partition, 2 replicas, 2 attempts, 2 faults | offsets, losses, every job settles |
| `memory` | 4 jobs, 2 consumers, channels of 2, 2 attempts | one fate per job, jams and how they end |

**Bounds.** In `pipeline`, one fault and one stop can each fall between any two steps
of any replica, before and after a requeue; the proofs below have no such bound. Two
jobs and a malformed payload with batches of two give a batch with every kind of
neighbour and a backlog that spans two batches. Four registry requests and four
statements suffice to deploy each version, roll back and re-register; `promotion` has
one transaction, because with two the finding of `registry_overlap` is what TLC
reports, and three requests are the run's own deploy with one before and one in
between. In `router` the three requests are for the precision that ranks 0 like an
unknown key, for one above the first worker's, and for a name the enum does not have;
one call at a time is enough for the clock and the scan to interleave with every
registration, death and restart, and the proofs cover any number of calls; deadlock is
checked. In `fleet` three requests race for one bucket on both connections, exhaust a
burst and go on after a restart. In `kafka` one budget pays for all faults and moves:
two of them suffice for a nacked entry passed over, a stale commit after a rebalance,
and a stop before a failed commit. With two partitions the state space no longer fits
a run of some minutes; the proof covers any number. In `memory` four jobs with
channels of two fill the jobs channel with all consumers holding retries, and the
results channel with a backlog behind it; the code's capacity is 1024. Symmetry is
used in runs of safety properties only. Deadlock is not checked where budgets end all
behaviour.

**Fairness.** `JobPipeline`: weak fairness of each replica's step. The dispatch
goroutine runs as long as the process does, a call ends by `CallTimeout`, and the
orchestrator restarts a stopped process. Nothing is assumed about submissions,
successes or failures: a router that always fails is allowed. `ModelRegistry`: weak
fairness of each transaction's step and of Postgres' deadlock detector. `KafkaPipeline`:
weak fairness of each replica's step, and of the coordinator giving an unassigned
partition to some live replica. `MemoryPipeline`: weak fairness of each consumer's step,
nothing about senders. `Fleet`: a vehicle's request ends by the client's timeout and its
report goes on (weak); a vehicle that comes back to its select again and again takes
`ctx.Done` in the end (strong): between two ticks that case alone is ready, and a ticker
of half a second or more leaves time for it. Nothing is assumed of the gateway or the
aggregator. `Router` and `Promotion` have safety properties only.

**Findings.** Four places where a comment or document says something else than the
code does; each is a run whose single property states what was written. Section 5 has
those without a run of their own.

## 4. What is proved

`JobPipelineProofs`, for any jobs, replicas, `ReadCount > 0`, `MaxAttempts > 0` and any
number of failures: `TypeCorrect`, `EntriesAreExclusive`, `NoJobIsLost`,
`AttemptsAreBounded`, `OutcomeIsSingle`, `DeadLettersAreExhausted`,
`AcksFollowOutcomes`. All follow from `Invariance`, `Spec => []IInv`. None of the
properties is inductive alone; `IInv` adds:

- `BatchInv`: what a replica holds is pending and delivered, and only a busy one holds
  anything. Exclusiveness follows since a new batch lies beyond the shared cursor.
- `AttemptInv`: attempts on the stream are below the limit and never ahead of the calls.
- `FreshInv`: a job not yet submitted has left no trace.
- `AckInv`: a replica about to acknowledge has put the outcome on record.
- `LossInv`: a job is settled or has an entry that is neither acknowledged nor about to
  be. `NoSilentLoss` alone would not survive an Ack.
- `OnceInv`: unless an XADD was doubled, at most one entry of a job is still to be
  worked on, then the job has no outcome, and the entry's attempt number is the number
  of calls. This carries `SingleOutcome` and `AttemptBudget` through requeues.

`JobCounterProofs`, in the same generality: `CountersAreAhead`. `CountersCoverTopics` is
not inductive, since nothing in it says that a replica about to write has been counted;
`CounterInv` adds the replicas at each XADD to what is on its topic. No set is assumed
finite: that the topics hold finitely many jobs is part of the invariant.

`RegistryProofs`, for any versions and any number of open requests and faults:
`TypeCorrect`, `LastEventServes`, `ProductionHasEvent` (the log tells exactly which versions
serve; `HistoryInv` adds that no version was registered or archived after more events than
there are, so that a commit's event is the newest). The invariant says what each open
transaction has written and holds locked (`WritesInv`: the rows it demoted, and the one
it is about to commit), what it knows at each statement (`TxInv`), and that creation
times are bounded by the number of versions (`RowsInv`), so that Rollback's latest
archived version exists. `OneServes` and `RegistryKeepsPromise`, the refinement of
RegistryPromise, need the hypothesis `[]OneAtATime`: no two requests are open at the same
time. The code does not enforce it, and the run `registry_overlap` shows that without it
two versions may serve; an operator who deploys one version at a time gets it. Under it
`SoleInv` follows: while a transaction demotes, every version in production as it sees it
is still on its list, and when it promotes none is left. A step that commits then maps to
the abstract switch, every other step to a stutter.

`PromotionProofs`, for any runs of the pipeline beside any other clients:
`PromotionTypeCorrect` and `ExitZeroHasEvent` without a hypothesis (`AnswerInv`: the
transaction a run waits for is open and deploys its candidate, so its end is the run's
answer), `OneServesRuns` and `BetterPromoted` under `[]OneAtATime`. `BeatInv` carries the
comparison from the GET to the commit: until somebody overtakes a run, its candidate's
accuracy is as registered and clears whatever is in production.

`RouterProofs`, for any number of workers, calls and requests and any times:
`DeadWorkersExpire`, `CapableIsChosen`, `BestIsChosen`, `TypeCorrect`, and
`HealthyWorkersStay` under its one assumption, that an interval and two RPC timeouts are
shorter than staleAfter (20 s against 30 s by default). The invariant bounds the age of
every record by what its worker's loop and the calls in flight can still do to it, and
keeps, per call, the set of records read so far with the best of them.

`FleetProofs`, for any clients, keys, connections, vehicles, rates and bursts, over
Fleet's specification: `RateIsLimited` (a bucket's tokens and the excess add up to at most
one burst per process so far, a missing bucket counting as a full one; `MutexInv` says that
one request at a time is about to add a bucket, and one that is not there, so that adding it
gives nobody tokens; `LivesInv` counts the processes), `BucketsAreBounded` (whoever is past
the key check sent a configured key), `GaugeStaysExact` (by the cardinality of the set of
connections in the chain), `TypeCorrect` and `SuccessesAreServed`. A success is on its way
from the gateway's counter to the simulator's total in one of four places: an answer
nobody has read (`Unread`), a vehicle that has read it and not reported (`Claims`), the
statistics channel, the total. `SuccessInv` bounds the sum of the four by the counter; a
timeout, a full channel or a shutdown only makes it smaller. `StatusInv` says that an
answer has a status, so that no vehicle counts a stale one. The vehicles are assumed
finite (`VehiclesAssumption`: the simulator starts a number of them), like connections.

`KafkaProofs`, for any jobs, partitions, replicas and number of faults:
`CommitsAreHandled`, `NothingElseIsLost`, `TypeCorrect`. The invariant adds that all
entries before the one a replica holds were handled (`HeldOrder`), that the owner of a
partition has handled what it fetched but for the entry in its hands (`OwnerOrder`), and
that an accepted job that is not settled is on an entry no handler has finished
(`LossInv`): `NoSilentLoss` speaks of the committed offset, which may move back.

`MemoryProofs`, for any jobs, consumers, capacity and attempts: `TypeCorrect`,
`EveryJobOneFate` and `RetriesHaveRoom`. The properties count; the invariant says instead
where a job is: no place has a job twice (`OnceInv`), and an accepted job is in one place
of five, any other in none (`PlaceInv`). `HandInv` says when a consumer has a job at all.
`OneFate`'s cardinalities are then one or zero, and `NeverBlockedWithinCapacity` follows
because the positions of the full channel map one to one to accepted jobs, and the job
that is to be put back is one more.

Each conjunct has a lemma with one case per action, or per kind of action. The assumptions
are the named ASSUMEs of the modules, which TLC evaluates in the runs. Every inductive
invariant was also checked by TLC on a small instance.

Only model-checked: the liveness properties `EveryJobSettles` (both pipelines),
`AcceptedJobCompletes`, `RequestsFinish`, `ShutdownCompletes`, `SettlesOrIsStuck` and
`ShutdownUnjams`, since fairness and ENABLED are out of the prover's reach.

## 5. Where documents and code differ, without a run

- `shared/pkg/models/models.go:16` says "Priority controls job-queue ordering."; all
  backends keep the order of submission (`redis.go:43`), and only the router's score
  reads the priority.
- `docs/architecture.md:98-103` bases the choice of a worker on the "current in-flight
  load"; `InFlight` is only ever written with the value read from the same record
  (`grpc.go:116`), so it stays 0.
- `ml/pipelines/retrain_and_promote.py:11-12` promotes "ONLY if it beats the current
  production version's accuracy by --min-improvement". The accuracy is read in one request
  (line 87) and the deploy is another, so a version deployed in between is replaced without
  a comparison, however good it is. And the candidate is registered first (line 84): under
  the name of the serving version that takes it out of production (`registry.go:42-43`),
  and the candidate is then promoted uncompared. `PromotesOnlyBetter` therefore speaks of
  runs nobody overtakes, and of what is in production when the deploy commits.
- `shared/pkg/queue/kafka.go:62` says of a message whose handler failed "not committed;
  redelivered on next fetch after rebalance". Committing the next message of the partition
  moves the offset past it, and no rebalance brings it back. `NoSilentLoss` confines this
  to an entry whose own dead letter failed and which nobody finished afterwards.
- `README.md:57` of the repository calls the path to the scheduler "Async, durable,
  retryable". The Kafka writer asks for no acknowledgement (`kafka.go:31` leaves
  `RequiredAcks` at zero), so a client may get 202 for a job the broker never stored; the
  pipeline's properties name such a write as one of the ways a job may be lost.
- With `QUEUE_BACKEND=memory`, gateway and scheduler are two processes with a queue each,
  so no job reaches the dispatcher. MemoryPipeline models the scheduler standalone; after
  1024 results its consumers block, since nothing reads the results topic.

## 6. What is not modelled

The machine learning code (floating-point computation), generated protocol code,
configuration, logging, tracing, manifests, dashboards and the load test. Queue messages
carry no content beyond job and attempt. HTTP validation errors change no state; they are
left out, or a status class in Gateway. The router is a nondeterministic answer in the
job pipelines. Close of the queues, message numbers of the memory backend, and its
put-back (no handler error can reach it) are left out. The simulator's metrics server has
no state of its own.

## 7. Plan

1. Job pipeline on Redis, its proofs (done).
2. Model registry with its abstract promise, the promotion pipeline as its client, the
   proofs of both with the refinement (done).
3. Router and its proofs (done).
4. Gateway's chain with the fleet as its client, and their proofs (done).
5. Kafka and in-memory backends and their proofs (done).
6. Scheduler and router composed: retries against the staleness window; further
   theorems about it.
