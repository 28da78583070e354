# NexusQueue in TLA+

NexusQueue is a distributed task queue on Redis and PostgreSQL: an API server
that accepts jobs, worker processes that execute them, a scheduler and a janitor
inside every worker, and a dashboard. This directory specifies what those parts
do to the two stores, model-checks it with TLC, and proves part of it with TLAPS.

All specifications are written from the TypeScript under `src/`. They are at the
grain of **one store command per step**: the code between two `await`s is one
action, together with the command it ends in. Nothing is atomic across Redis and
PostgreSQL, nor across two commands of one client outside a `MULTI`, and this is
what makes the system hard.

## 1. Inventory

| component (source) | state | operations | hard behaviour | what makes it correct |
|---|---|---|---|---|
| job store (`shared/`, `infra/postgres/`) | audit rows; per-job hash; queue lists by priority, `delayed` sorted set, `dlq`, one `processing` list per worker; worker registry, heartbeats (15 s TTL), worker metadata | the DAO's UPDATEs, Redis commands | two stores without a common transaction | row, hash and lists agree once nobody works on a job |
| producer (`server/src/producer.ts`) | none of its own | `enqueue`, immediate or delayed, with or without idempotency key | failure between row and push, retries of the caller, expiring keys | one job per key; an answered job is in both stores |
| worker (`worker/src/worker.ts`) | life cycle, pull loop, heartbeat timer, up to `concurrency` jobs at once | `start`, `stop`, `writeHeartbeat`, `loop`, `processOne`, `complete`, `handleFailure` | crash anywhere; failing commands inside and outside the `try`; stop while pulling | no job lost or stranded; retries and dead letters counted right; stop ends |
| scheduler (`worker/src/scheduler.ts`) | the list of due ids of its tick | `promoteDelayedJobs`, `fireCronJobs` | several schedulers with the same due list; crash between ZREM and LPUSH/ZADD | promoted or fired exactly once |
| cron schedules (`worker/src/cron.ts`) | definition hashes, schedule sorted set | `addJob`, `removeJob`, `listJobs` | interleaving with a firing scheduler | a defined cron keeps firing, a removed one vanishes |
| janitor (`worker/src/janitor.ts`) | the lists its tick has read | `tick` | heartbeat and registry are read apart; stale LRANGE; two janitors | recovers all jobs of dead workers and none of living ones |
| rate limiter (`worker/src/rate-limiter.ts`) | one bucket per queue in Redis | `checkLimit` (Lua), `checkLimitFallback` | clock skew; read and write in two commands | no window of time sees more jobs than allowed |
| retry and requeue (`server/src/routes.ts`) | none | `POST /jobs/:id/retry`, `POST /queues/:name/dlq/requeue` | status checked, not claimed; failure in the middle | no token lost |
| process lifecycle (`worker/src/index.ts`) | which processes run | launch, SIGTERM, exit; crash | restart under the same `WORKER_ID` | see worker and janitor |
| event bus (`server/src/websocket.ts`, `server/src/index.ts`) | subscription to the PUB/SUB channel, the open sockets | publish, broadcast, `close` | subscribers that come and go, a server that drains or restarts | events reach a socket in order |
| dashboard socket (`dashboard/src/ws.ts`, `JobTable.tsx`, `ThroughputChart.tsx`) | socket, reconnection timers, listeners; the events each view keeps | `connect` and its four handlers, `disconnect`, `subscribe` | late close events, timers that outlive a disconnect, views that mount while a timer is pending | one socket; never without socket and timer; no event twice; reconnects |
| read endpoints, authentication, metrics, logging, configuration, other dashboard pages, examples | none that the stores depend on | | | |

Interaction: server and workers never call each other. They share the two
stores; a job travels `queue -> processing -> (gone | delayed | dlq)`, the
scheduler moves `delayed -> queue`, the janitor `processing of a dead worker ->
queue`, the API `dlq -> queue`. Workers announce themselves by the registry and
a heartbeat key. Events for the dashboard go over PUB/SUB, from server and
workers to the server's event bus and from there to every open socket; their
failures are swallowed and they change no state of the job stores.

`PROJECT.json` lists the hazards of this code line by line, each with the
properties that would notice if it went wrong, or with the reason why none does.

## 2. Modules

| module | what it is |
|---|---|
| `JobStore` | rows, hashes, lists, registry, heartbeats; the commands and DAO updates on them |
| `Producer`, `Worker`, `Scheduler`, `Janitor`, `DlqApi` | one module per component of the pipeline, each with its variables and one action per command |
| `NexusQueue` | composes the six; launch, crash, exit, expiry of heartbeats, crash of the API server; a budget for every kind of fault; fairness |
| `NexusProperties` | invariants, action properties and liveness of the pipeline |
| `JobLife` | abstract: what the pipeline promises of each job when nothing fails; `NexusProperties!Life` maps the stores and slots to it |
| `MCNexus` | process, slot and job names, budgets and the symmetry of the runs |
| `NexusProofs` | theorems about the pipeline under every fault: types, attempts |
| `CustodyProofs` | theorems about where jobs are when processes crash, commands fail and heartbeats lapse |
| `JobLifeProofs` | theorems about runs without faults, and the refinement of `JobLife` |
| `Idempotency`, `MCIdempotency` | `enqueue` as its callers see it, with its proofs |
| `WindowLimiter` | abstract: what a rate limit promises, by remembering every allowed check |
| `RateLimiter`, `MCRateLimiter`, `RateLimiterProofs` | the token bucket, its refinement of `WindowLimiter`, and the proofs |
| `CronSchedule`, `CronScheduleProofs` | `addJob`, `removeJob` and `fireCronJobs` |
| `PriorityPull`, `MCPriorityPull`, `PriorityPullProofs` | the three lists of a queue and the weighted rotation in which workers pull from them |
| `EventStream`, `EventStreamProofs` | channel, event bus, sockets, the dashboard's `WebSocketManager` and its views |

Correspondence. A `pc` or `phase` value names the command that comes next: in
`Worker`, `slot[s].pc = "ackCompleted"` is the slot suspended before the LREM of
`complete()` (worker.ts:355). Local variables that survive an `await` are fields:
`slot[s].seen` is `hash.attempts` read at worker.ts:268 and written back, plus
one, at 307; `jan[p].todo` is the LRANGE of janitor.ts:60; `sched[p].due` the
ZRANGEBYSCORE of scheduler.ts:57. What a process holds in memory is lost when it
crashes (`Kill`). In `PriorityPull`, `turn` is `pullIndex % 10` and `pull[w].next`
the list that `pullJob` tries next, 4 being the BLMOVE. In `EventStream`, `ws`,
`want` and `timers` are the manager's `ws`, `shouldReconnect` and the pending
`setTimeout`s; a socket carries on after the manager has forgotten it, as the
WebSocket object does with its handlers. `PROJECT.json` maps every definition to
its lines.

`JobLife` has two variables, the stage of each job and how often it was started.
The mapping takes the number of starts from the hash; a job is "running" while a
slot runs its handler, "done" when the handler has succeeded, "dead" when it has
failed for the last time allowed, and "waiting" wherever else it is. That every
other step of the pipeline (promotions, push-backs, acknowledgements, writes of
rows and hashes) is a stutter of it, and that no job is started while it runs or
after its end, is `ImplementsJobLife`.

### Abstractions

* A list of ids is a bag, and the three priority lists are one bag: a job's list
  is a function of its immutable priority. The only place that tells them apart,
  the BLMOVE on the normal list, uses `NormalJobs`; the three RPOPLPUSHes that
  find nothing are one step (`ScanEmpty`). So the pipeline's properties hold for
  any order of pulls. `PriorityPull` has the order: lists are sequences there,
  and what becomes of a pulled job is not its subject.
* `EventStream`: an event is its number in the order of publication; the
  reconnection delay is left out, as a timer may fire at any time; frames that a
  lost connection had delivered to the browser may still reach the page before
  its close event does. The two views differ in what they make of an event, a
  table or a count; here both keep the newest ones.
* One queue name; one hash field beyond status and attempts (`named`: the hash
  has a `jobName`); payloads, messages and timestamps are left out.
* Times: a delayed job may be due at any time; a heartbeat's TTL may run out
  whenever its process is not up (a process that is up loses it only by a stall);
  a cron is "later" or "due". The rate limiter has real clocks, with skew.
* A bulk requeue takes any array of ids, in which an id occurs at most
  `MaxMentions` times. The runs with requests have one job and `MaxMentions` 1, so
  an array is one id there: as the ids are done one after the other, a longer
  array does to the stores what several requests do. `{ all: true }` meets every
  list of dead letters that can arise. The theorems hold for every `MaxMentions`.
* A handler either succeeds (`done`) or throws, and is assumed to end.
* A process has one scheduler tick and one janitor tick at a time. The janitor
  guards itself against overlap (`ticking`, janitor.ts:30); the scheduler does
  not, but two processes show the interleavings of two ticks.
* A failing command inside `fireCronJobs` or `promoteDelayedJobs` rejects
  `void this.tick()`, which ends the process: a crash.
* In `Worker` the rate limiter's answer is a free choice, so that what holds there
  holds for every limiter. The numbers of the token bucket, floats in the code,
  are exact.
* `processAvailable`, used by tests only, and `markJobFailed`, which has no
  caller, are left out.

History variables: `done` (a handler succeeded), `dropped` and `lost` (what a
dead process had in memory only), `log` and `verdict` of the limiter, `passed` of
`PriorityPull` (it stops counting at `Cap`, above all that is claimed of it), and
`disconnects` of `EventStream`.

## 3. Runs

Faults come out of a budget (`left`): crashes, failing commands (`io`), stops,
drain timeouts, launches, stalls, heartbeat ticks beyond the first, requests.
What a run does not name has budget 0. Each property's comment says under which
faults it is claimed.

| run | instance | shows |
|---|---|---|
| `pipeline` | 2 workers, 2 jobs (one not normal), MaxAttempts 2, rate limit, no fault | `OneCustodian`: an accepted job is in exactly one place; `SettledInPostgres`: once nobody works on it, its row says how it ended; `ImplementsJobLife`: the refinement of `JobLife` |
| `crash` | 2 workers, 1 job, one crash of a worker or of the API | `Recoverable`, `AcknowledgedStays`, and with fairness `Settles` |
| `stop` | 1 worker with 2 slots, 2 jobs, stop, drain timeout, relaunch, heartbeat tick | `StopTerminates` |
| `faults` | 2 workers, one of them with a janitor, 1 job, MaxAttempts 2; one crash and one failing command or pull whose reply is lost; or one stop | `JobHeld`, `JanitorSparesTheLiving`, `AttemptsLag`, `NoPrematureDlq` |
| `requests` | 1 worker, 1 job, 2 requests in flight, one crash and one failing command; or one request and a stall, or a crash and a restart under the same name | `TypeOK`, `JobHeld`, `SurvivesLapse` |
| `idempotency` | 5 calls on 2 keys, one delayed, 2 failures, any number of expiries | `OneJobPerKey`, `AnswersAgree`, `AnsweredIsEnqueued` |
| `rate_limit` | 2 clients on the script or 1 on the fallback, bucket of 2 tokens, skew 1, clock 0..5 | `EveryWindow`, `ImplementsWindow` |
| `cron` | 2 schedulers, 2 crons, 1 caller, 1 crash | `StaysScheduled`, `KeepsFiring`, `GhostsVanish` |
| `priority` | 1 worker with 2 slots, 4 jobs (2 high, 1 normal, 1 low) that arrive again and again, one failing pull | `BoundedBypass`: a waiting list is passed over at most 5, 8 or 10 times (high, normal, low), and 9 more per failed pull; with fairness `NoStarvation` |
| `event_stream` | 3 sockets, 2 views that keep 2 events, 3 events, 3 troubles (lost connections or subscriptions, a server that crashes or drains, a constructor that throws), 3 mounts, one `disconnect()` | `OneLiveSocket`, `InOrderOnce`, `NeverStranded`, and with fairness `Reconnects` |
| `stop_race`, `cron_double` | | where a statement of the documentation does not hold (section 6) |

Why the bounds are enough to be interesting: MaxAttempts 2 gives a job one retry
and one dead-lettering; two workers give two schedulers and two janitors, and one
that survives; two slots in one process give a stop that waits for one job while
the loop takes another; one fault of a kind can fall between any two commands.
Three attempts or a third worker repeat what two do. The constraint `LapsesAlone`
of `requests` explores a lapsed heartbeat with one request and without a failing
command, where `SurvivesLapse` is claimed. `StopsAlone` of `faults` explores a
stop beside no other fault, until the job has been executed or waits for a retry:
long enough for a janitor that had read the registry before the stop to look at
the heartbeat after it, and for the job of the last pull to be handed on while its
slot still runs it. A reply is lost only to a pull; elsewhere a command that fails
had no effect. In `event_stream` a view has seen more events than it keeps. Ten pulls are a full rotation and the
run of `priority` has no bound on pulls, so every turn meets every filling of the
lists; two slots let a pull begin while a job is held and pushed back. Other
workers that take jobs in between are covered by the proof, which has any number
of them. In `event_stream` three troubles let a connection be lost, its successor
refused and the server restart; a third socket exists only after a
`disconnect()`. `Swap` exchanges processes together with their slots, and
requests; runs with liveness properties use no symmetry. A bucket of two tokens and
five ticks can be emptied, refilled beyond its size and emptied again.
`CHECK_DEADLOCK FALSE` stands where the system may really stop: after a SIGTERM
or the failures of every process, or when every call has returned. In the others
timers go on for ever.

### Fairness

Weak fairness of each actor's next step: the event loop of a live process
continues what it has begun and its repeating timers tick; a TTL of a key nobody
renews runs out; time passes. `setInterval`, promises and Redis expiry justify
it. Nothing is assumed of new calls, of operators, or of faults, and a crash
may come at any step. Handlers are assumed to end, as the code has no job
timeout. With several jobs a tick might always find other ones due, so the run
that checks `Settles` has one job.

`PriorityPull`: a worker's pull goes on and its slots are released in the end;
nothing is assumed of arrivals or of the other workers. `EventStream`: timers
fire, handshakes end and close events arrive; a server that ended is started
again (`restart: unless-stopped` in docker-compose.prod.yml), and one that was
told to stop ends, by itself or killed. Nothing is assumed of events, of views,
or of the absence of trouble, which is bounded in number only.

## 4. Proofs

TLAPS checks these for every value of the constants (any number of jobs,
processes, slots, attempts, calls, clients; any budget). A theorem that holds
only while some kind of fault has not occurred says so in its statement
(`~ Used(k)`, `~ Lapsed`, `OnlyCrashes`, `Calm`), never by fixing the budget, so
it also speaks of every behaviour up to the first such fault.

* `NexusProofs!TypeCorrect`: `Spec => []TypeOK`. `TypeOK` is inductive. It also
  ties data to progress: a request, slot or tick that is between two commands has
  a job to do them for, so a bulk requeue never runs past the end of its ids.
* `NexusProofs!AttemptsNeverAhead`, `DeadLettersAreExhausted`: `AttemptsLag`
  and `NoPrematureDlq`, under every kind of fault. The attempts in the hash are a
  read-modify-write from a snapshot (worker.ts:268-307), so neither is inductive.
  `AttemptsInv` adds that a slot's snapshot is never ahead of the row, is strictly
  behind once `markJobActive` is done, and that a slot on its way to the dead
  letters has found the row at its limit; rows only grow. `AttemptsInvariant`
  proves it, one lemma per component and one step per action.
* `CustodyProofs!JanitorsSpareTheLiving`: `JanitorSparesTheLiving` while no
  heartbeat lapses. `FleetInv` adds that every process that may pull has its
  heartbeat, and that `stop()` waits for the loop before it withdraws it.
* `CustodyProofs!JobsAreHeld`: `JobHeld`, under any number of crashes, failing
  commands, stops and requests, while no heartbeat lapses. That a job is in some
  processing list is not inductive, as the next ACK or DEL may be about to remove
  that very token. So `HeldInv` asks for a **safe** one: the list has more tokens
  of the job than slots on the point of an ACK (`Acking`), and every janitor past
  its LRANGE of that list still has the job in hand. A pull makes a safe token
  because the list of a process that pulls has a token for each of its slots that
  has not acknowledged (`ListInv`), which needs `FleetInv`; a slot stores its job
  elsewhere before it acknowledges it (`SlotEffects`: each of its 23 steps, the
  failing command included, works, stores, acknowledges or lets go).
* `CustodyProofs!CrashesStrandNoJob`: `Recoverable` while processes only crash.
  To `JobsAreHeld` it adds `StrandInv`: no token is in the list of a live process
  but for a slot that will remove it, and a process with tokens stays registered
  until a janitor has emptied its list.
* `CustodyProofs!LapsesLoseNoJob`: `SurvivesLapse` when heartbeats lapse as often
  as they like and no process ends, or when none lapses. `HandsInv` does without
  the processing lists, which janitors may delete: a job that has not been
  executed waits, or a slot works on it that has not stored it yet.
* `CustodyProofs!AcknowledgedIsFinal`: `AcknowledgedStays` if no command fails and
  nobody requeues, whatever crashes, stops or lapses. `FreshInv` says that nobody
  knows a job before its first push, and that a pushed job has its hash.
* `JobLifeProofs!OneCustodianEach`, `RowsTellTheEnd`, `PipelineImplementsJobLife`:
  `OneCustodian`, `SettledInPostgres` and the refinement of `JobLife`, while
  nothing fails, stops or is started and nobody requeues (`Calm`). They share
  `CalmInv` (`LifeInvariant`): a job is on one list, with one scheduler or with
  one slot (`Place`), so that slot is the only writer of its hash and row, and the
  snapshot it took at worker.ts:268 is still what the hash says when it writes it
  back; `JobInv` tells what each place and each `pc` imply for row, hash and
  `done`. A job on a list may still be run; a dead letter has used its attempts;
  a completed one is nowhere. For the refinement each step of a slot is shown to
  be `Start`, `Succeed`, `WaitAgain` or `GiveUp` of its job, or a stutter, and
  every step of the others `Submit` or a stutter.
* `Idempotency!JobsAreUnique`, `AnswersAreUnique`, `AnswersAreEnqueued`. The
  invariant `IdemInv` says that a row with a key is the one the unique index
  names, that a call past its INSERT has its row, and that the Redis key, and so
  every answer, names a job in both stores, the indexed one when no delayed call
  gives the key.
* `RateLimiterProofs!EveryWindowIsLimited`, `BucketImplementsWindow`: if no client
  uses the fallback, or there is one client (`Serial`), no window of time sees
  more allowed checks than tokens, and the bucket refines `WindowLimiter`. The
  invariant `LimiterInv` says that at **any** time `t` the bucket, two numbers,
  grants a check iff the whole log does (`Exact`). It holds for clocks that go
  back, because the refill is linear in `t` below the brim.
* `PriorityPullProofs!BypassIsBounded`: `BoundedBypass` for any number of jobs,
  workers, slots and failures. The bound alone is not inductive: `BypassInv` says
  how often a list can have been passed over when each of the ten turns comes
  (`Since`), that the order of the pull in flight is that of the last turn, that a
  list this pull preferred and found empty is owed nothing, and that an empty list
  never is.
* `EventStreamProofs!OneSocketNeverStranded`, `ViewsNeverStranded`,
  `EventsInOrderOnce`: `OneLiveSocket`, `NeverStranded` and `InOrderOnce` for any
  number of sockets, views, events and failures. The first two are inductive together with the types. For the third,
  `OrderInv` orders the whole path: what a view shows comes before what is on
  any wire, that before what is in the channel, and each of them rises. It needs
  `OneLiveSocket`: two sockets would show every event twice.
* `CronScheduleProofs!CronsStayScheduled`: `StaysScheduled` for any number of crons,
  schedulers and crashes, with one caller of `addJob` and `removeJob` at a time
  (`OneCaller`): overlapping calls can leave a definition without an entry. It is
  inductive together with the types and `CallerInv`, by which nobody defines again
  the cron that a call is about to unschedule.

The assumptions are the named ones of each module (`ConstantsAssumption`,
`IdempotencyAssumption`, `LimiterAssumption`, ...); TLC evaluates them in the runs.

`ConstantsAssumption` includes that processes and slots are finitely many, as the
invariants count them.

Only model-checked: all liveness (`Settles`, `StopTerminates`, `KeepsFiring`,
`GhostsVanish`, `NoStarvation`, `Reconnects`), as fairness and ENABLED are beyond
the prover; and `SurvivesLapse` for a crash that is followed by a restart under the
same name (run `requests`). For other processes that end after a lapse it is not
claimed: a worker whose list a janitor has deleted takes the jobs it works on with
it. The two runs that expect a violation are about single behaviours.

## 5. Plan

Done, in this order: store and pipeline with crash, stop, faults and requests;
type correctness and attempts; idempotency; rate limiter; cron; the order of
pulls; the event stream; the refinement of `JobLife`.

Proved, in this order: types and attempts; idempotency; rate limiter; crons;
pulls; the event stream; janitors and held jobs; crashes and lapses; calm runs and
the refinement of `JobLife`.

Next: `SurvivesLapse` with the one crash that precedes a restart, for any number
of processes; an abstract specification of what a view is shown, implemented by
`EventStream`.

Not modelled, and why: the read endpoints (`GET /queues`, `/jobs`, `/workers`,
`/dlq`) and the pages that show their answers change no store, and nothing else
reads what they return; authentication decides which requests arrive, not what
they do; metrics, logging, configuration and the API description are data the
models take as given or leave out. `processAvailable` and `pullJobNonBlocking`
serve tests only, `markJobFailed` has no caller, and `listJobs` only reads.

## 6. Where the code and its documentation disagree

Shown by a run:

* `stop_race`. ARCHITECTURE.md:297 and 313: the drain flag keeps the loop from
  pulling, no job is lost in a shutdown. `stop()` snapshots the active jobs before
  it waits for the loop, whose pull in flight may take one more; it then
  deregisters and exits, and no janitor looks at that processing list again.
* `cron_double`. scheduler.ts:84-85: the ZREM prevents a double fire. It removes
  whatever entry the cron has by then, also that of the next run.

Met while modelling, and described here only. The models contain
most of them; the properties that fail in them are claimed without the fault in
question:

* ARCHITECTURE.md:172 promises that every submitted job is executed at least once.
  The scheduler removes a due job (ZREM, scheduler.ts:62) and pushes it (LPUSH, 71)
  in two commands: a crash between them loses it. `JobHeld` excepts these jobs
  (`dropped`), and no others.
* ARCHITECTURE.md:246 and rate-limiter.ts:84: the atomic script is used in
  production. `processOne` calls the fallback only (worker.ts:280), so two slots
  that read the bucket before either writes it back exceed the limit;
  `EveryWindow` is claimed for the script, or for one client on the fallback.
* A worker that stalls for 15 s is taken out of the registry by a janitor and never
  enters it again; when it crashes later its jobs are not recovered (worker.ts:175).
  The janitor also deletes the list in which it keeps what it pulls meanwhile, so
  a command that fails in such a slot loses the job (`SurvivesLapse` is claimed
  without that).
* A worker restarted under its `WORKER_ID` renews the heartbeat before it expires,
  and never reads its former processing list (worker.ts:78).
* A failing command outside the `try` of `processOne` leaves the job in the
  processing list of a worker that lives on (worker.ts:214-218).
* A failing HGETALL *after* the ACK is caught by the `try` and schedules a completed
  job for a retry (worker.ts:357).
* The scheduler writes `pending` after the LPUSH: a fast worker's `completed` is
  overwritten (scheduler.ts:72). Promotion does not touch the row, which says
  `delayed` while the job is queued or runs (001_init.sql:5 says otherwise).
* `stop()` clears the heartbeat timer after it deletes the keys; a tick in flight
  writes the metadata, which have no TTL, again (worker.ts:133-138).
* Two janitors that find one worker dead push its jobs twice (janitor.ts:74), and
  two retries of one job, or a retry of a job whose dead-lettering is not finished,
  leave two tokens (routes.ts:187).
* producer.ts:37-38 and 36: the janitor does not look for pending rows, and a
  caller that retries with the same idempotency key is rejected by the unique
  index for ever, as the failed call has left the key in its row.
* ARCHITECTURE.md:123-132: the SET has no NX, and the unique violation is not
  caught: a concurrent duplicate gets an error, not the existing id. Delayed jobs
  do not store the key in their row at all.
* A cron whose scheduler dies between ZREM and ZADD is never fired again.
* The comment at worker.ts:286 says that a denied job goes back to the front of its
  list. LPUSH puts it at the end that is pulled last (worker.ts:294), so every
  other job of the list overtakes it.
* ws.ts:42: `onerror` and `onclose` mean the manager's current socket, not their
  own. After `disconnect()` and a new `subscribe`, the late events of the old
  socket close and forget the new one, and two sockets can go on replacing each
  other for ever. `disconnect()` has no caller.
* server/src/index.ts:82-86: on SIGTERM `server.close()` waits for every
  connection, and `wss.close()` does not close those of the dashboards: with a
  dashboard open the server neither accepts nor exits until it is killed.
* QueueDetail.tsx:22-25: an answer to an older filter or page that arrives late
  replaces the newer one; the table then does not match the selected filter.
