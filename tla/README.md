# Zebrunner ESG in TLA+

ESG (the Elastic Selenium Grid router) starts browsers, Playwright servers, Cypress runs and
"generic" executors as AWS ECS tasks, proxies clients to them, and stops and accounts for them.
Several **router** processes serve HTTP requests; one **scaler** process runs periodic loops; one
**task-definitions** process keeps ECS task definitions up to date. They share nothing but Redis,
Postgres and AWS. The interesting behaviour is what happens to one session record when a starter
goroutine, HTTP requests on several routers and the scaler's loops read it, decide, and write back
a copy some time later, and any of them may fail or die in between.

All paths below are relative to `src/`.

## Inventory

| Part | State | Operations | What is hard |
|---|---|---|---|
| Batching Redis worker (`cachemaps/cacheutil.go`, `cachemaps/mapper/mapperWorker.go`) | a map of items by id, an error channel, one goroutine per process | `AppendToWorker`, `Start`, `flush`, `SendMessageToAllChannels` | hand-over of a batch while callers append; answering everybody who waits; items replaced within a batch |
| Session record (`cachemaps/mapper/mapper.go`) | one Redis key per session with a TTL; the sets `sessions-set`, `taskmap-set` | `CreateEntity`, `Write`, `WritedByWorker`, `UpdateSession`, `Find`, `WriteChild`, `ExpireChildren` | whole-record writes of stale copies; TTLs; a record and its sets on different nodes |
| Redis lock (`cachemaps/utilsmap/utilsmap.go`) | the set `utils-set`; keys with a TTL | `AcquireLock`, `ReleaseLock`, the expiring lock | no owner and no TTL on the first; expiry under a live owner on the second |
| Starter (`starter/starter.go`) | one goroutine per start, the entity it builds | phases register, start, network, driver or ready; retry; finalize; fail | timeouts against late answers; an abort meanwhile; a retry that gives a task up |
| Registrar (`starter/taskRegistrar.go`) and `cachemaps/resourcesToAllocate` | the allocation entity of a start that waits for capacity | RunTask with retries, add and remove the entity | a variable shared with a goroutine without synchronisation; add and remove out of order |
| Waiters (`starter/wait.go`, `starter/instance.go`) | maps of requests, one polling goroutine each | `waitFor`, `start` | batches that fail as a whole, answers nobody listens to |
| Routes (`handlers`, `cmd/router`) | none of their own | create, proxy, close, abort, finish, refresh, definitions, users | what they read in a middleware is used after a wait for a lock |
| Playwright refresh (`handlers/playwright.go`, `playwright`, `selenium/recorder.go`) | expiring lock, child sessions, generation of the browser | refresh, attach, keep-alive | four remote calls each of which can fail; a lock that can lapse |
| Scaler loops (`cmd/scaler/main.go`) | none of their own | stop lost, unhealthy and idle; track usage | snapshots that are minutes old when written back |
| Capacity (`service/scaling.go`, `service/sdk.go`) | the desired capacity of an autoscaling group | scale up, scale down, zombies | arithmetic of weights and reserves; describe, then drain |
| Task definitions (`cmd/task-definitions`, `definitions`, `db/definitions.go`, `cachemaps/definitionmap`) | Postgres rows, the Redis definition set, a local map per router | update, refresh, insert, find | expire-then-refill; unsynchronised local map |
| Users (`db/users.go`, `handlers/users.go`) | the users table | create, activate, refresh token, delete, check | check-then-insert |
| Images and environment (`images`, `environment`) | none | `ListImages`, the builders of a container environment, `calculateResources`, two hashes of a definition | order and preference of images; which hash a request is looked up by; rounding of resources that are scaled down |
| Capabilities, configuration, AWS wrappers, utilities | none | parsing and I/O | otherwise sequential |

`PROJECT.json` lists every component with its status, and every hazard with the line where it bites.

The hazards listed there are those that a property covers or a module is planned for. Known beside them,
and without a property: usage that is never sent when the scaler dies between shaping a record and
sending it (`cmd/scaler/main.go:308`); a generic task that ends by itself (below); `InsertDefinition`,
which does not roll back the transaction that failed (`db/definitions.go:30`); the check before the insert of a
user (`db/users.go:40`); the shutdown of a router, which ranges over the generic contexts while
goroutines change them (`cmd/router/main.go:389`).

## Modules

| Module | Models | Checked with | Proofs |
|---|---|---|---|
| `RedisWorker` | one process's batching worker and its callers | `MCRedisWorker*` | `RedisWorker_proofs` |
| `Session` | one session: starter, requests, scaler loops, record, lock, ECS tasks, failures | `MCSession*` | `Session_proofs`, `SessionStart_proofs` |
| `SessionLife` | what a session promises: queued, served at most once, stopped for good, forgotten, reported at most once | as `ImplementsLife` of `Session` | `SessionLife_proofs` |
| `PlaywrightRefresh` | browser refreshes of one session: lock with a TTL, heartbeat, supervisor, child sessions, recorder, `UpdateSession`, and those who stop the session meanwhile | `MCPlaywrightRefresh*` | `PlaywrightRefresh_proofs` |
| `Provisioning` | starts that ask ECS for a task, their reservations in Redis, the scaler of one capacity provider, its autoscaling group, the loop that stops instances outside the cluster | `MCProvisioning` | `Provisioning_proofs` |
| `TaskResources` | the CPU and memory the containers of a task are given (pure operators) | through `Catalogue` | `TaskResources_proofs` |
| `Images` | the supported repositories, the order of images, auto-update repositories, exclusions (pure operators) | through `Catalogue` | |
| `Environment` | what every builder makes of an image or of a request: family, containers, resources, both hashes (pure operators; extends `Images` and `TaskResources`) | through `Catalogue` | |
| `Catalogue` | from published images to the definition a router starts: passes of the task-definitions service, Postgres, Redis, the routers' maps (extends `Environment`) | `MCCatalogue` | `Catalogue_proofs` |

### RedisWorker

A call of `AppendToWorker` is a member of `Calls`; it is also its item. `items` is `w.items`; an error
channel is represented by the set of calls that copied it (`holders` for the current one, `takers`
for the one the worker took). `Append` is the critical section, `Receive` the moment the call
blocks on its channel *after* the unlock, `Take` one critical section of `Start` that found work,
`Execute` the pipeline (which may fail after part of it was applied), `Send`/`SendNone` the
non-blocking sends of `SendMessageToAllChannels`. `written` and `winner` are history variables.

### Session

| State | Code |
|---|---|
| `rec`, `ttl` | the JSON record under the uuid: status, stop reason, task id, whether SessionID is set, `UsageTracked`, whether AccessedAt is older than the idle timeout; and whether the key has a TTL |
| `sets` | membership in `sessions-set` and `taskmap-set` |
| `lock` | membership in `utils-set` |
| `batch` | what each process's `writeWorker` will write for this uuid, and who waits for it |
| `ecs`, `old` | the ECS tasks RunTask created, and which have run longer than `LostTaskCooldownTimeout` |
| `st` | the starter goroutine: where it is, its phase, its entity, what its finalizer read, a RunTask in flight |
| `proc` | each request and the idle and unhealthy loops: where it is and the copy of the record it holds |
| `usageLoop`, `lostLoop` | `trackResourceUsage`, `stopLostTasks` |
| `usage`, `faults` | how often `TrackResourcesUsage` was called; faults so far |

Every read of Redis, every wait for the lock, every AWS call and every write is a step of its own, so
that any other process can act in between; what a function does without touching shared state is
part of the step before or after it. `FlushBatch` is an iteration of the writer of one process and
answers everybody who waits; that answers can be missed (below) is studied in `RedisWorker` only,
where the window is a few instructions long, and left out here.

A fault is a failed Redis or AWS call, a router that is killed (`RouterCrash`), a scaler that is
killed and restarted (`ScalerCrash`), or a pipeline that fails, having been applied in part when
`Torn`. Reads whose error the code takes for an absent record (`mapper.Find`, `me, _ :=`) are
modelled so; other reads that fail make the loop try again later and are not distinguished from a
loop that is slow. A `SADD` whose reply is lost (the lock is taken and its owner does not know) is
not modelled.

### PlaywrightRefresh

| State | Code |
|---|---|
| `rec`, `watching` | the record of a session that is served: status, the settings a refresh can change, `Children`, the age of AccessedAt; and which optimistic updates would still pass their EXEC |
| `childTTL` | the pointer records of `WriteChild`: what is left of each key, in passes of the task loop; zero is no key |
| `lock` | the key of `AcquireExpiringLock`: its owner and the minutes it has left |
| `ref`, `hb` | the handler of each refresh, a step per call it makes, and the heartbeat goroutine it starts |
| `stopper` | the idle loop, the task loop (`stopUnhealthyTasks`), or a close, with the copy of the record it will write |
| `supervisor`, `browser`, `recorder`, `alive` | the task: whose browser is being started, what runs, which id artifacts are collected under, whether they are |
| `age` | of the task while it serves the session, in passes of the task loop |

Time is counted in minutes: `Tick` ages the lock, the calls with a deadline and AccessedAt together,
and cannot pass while a request is in a step that takes no time (a Redis call) or is at its limit.
`SwapLimit`, `RotateLimit` and `LockTTL` are the constants of `handlers/playwright.go` and
`selenium/recorder.go` (2, 2 and 5 minutes); `RecordLimit` is how long a recorder takes that does answer
`StartRecording`, a call for which the code has no limit; `RecorderAnswers` FALSE lets it take for
ever. A heartbeat's timer fires in every minute, since its interval is at most 30 seconds. That also
says what `RefreshHoldsSessionOpen` assumes of a deployment: an idle timeout of at least one interval,
which is never shorter than 5 seconds.

What takes hours has a clock of its own, `TaskLoopTimer`, a pass of the task loop every ten minutes: it ages
the task and takes from the keys of its children. The two clocks run independently, so that a pass may
come at any moment of a refresh. `MaxTimeout` is the session's own capability, by which the
task loop finds the task `Overdue` (`cmd/scaler/main.go:186`); `ConfMaxTimeout` is the configured maximum, and
`ChildGrace` the half hour on top of it, which is three passes (`handlers/playwright.go:247`). Nothing in the code
relates the two maxima, nor does the model: a request sets the first (`capabilities/capabilities.go:525`), and
its default is the second (`:498`). An overdue task is stopped in the pass that finds it so, or the pass
has failed. A stopped session's keys get `stoppedSessionTTL`, ten minutes.

A rotation that timed out has taken effect before the recorder is started again, or never does. A recorder that
completes it after the start that follows would be left off, or under the new id: that depends on the
recorder, which is outside this repository, and is not modelled.

A request stands for the child id it creates and for the value it sets, so that the record tells
whose settings it has. The supervisor and the recorder are containers outside this repository:
the supervisor starts one browser at a time, answers 409 or an error without replacing the browser,
and goes on when its caller has given up; the recorder stops at a rotation and records again when it
is started. `Touch` is `UpdateAccessedAt` in one step where nobody is at stake but the caller; the
heartbeat has its read and its EXEC as steps of their own. A refresh whose last step fails still
answers 200 (`handlers/playwright.go:181-210`); it is `doubtful` in the model, and
`RecordMatchesBrowser` leaves it out. A queued session cannot be refreshed, and
`Session` covers what happens before.

### Provisioning

| State | Code |
|---|---|
| `reg`, `entity` | the registrar of a start, and its `allocationEntity`, which a goroutine assigns |
| `batch`, `stored` | what the resource worker of the router will do for the start's key; the keys in Redis |
| `task`, `host` | the ECS task of a start and the instance it is placed on |
| `inst` | an EC2 instance with its container instance: booting, ACTIVE within the cooldown or past it, DRAINING; its protection from scale-in; whether it has been outside the cluster for too long |
| `desired` | the desired capacity of the autoscaling group |
| `scale`, `zombie` | `AdjustCapacity` and `StopEc2ZombieInstances`: where they are, and what they read |
| `killed`, `exposed` | history: tasks that ran on an instance when it was stopped; tasks a loop could not see |

`ReadTasks` to `Lower` are the calls `AdjustCapacity` makes, one step each, with what it computes from
them: `Plan` is `calculateResources` (first fit, in the order ECS lists the tasks), `RaisedCapacity` and
`Deletable` the arithmetic of `ScaleUp` and `ScaleDown` in exact fractions, `Candidates` and `Victims`
the two loops over instances, whose order ECS and a Go map choose. Placement by ECS and launches of the
group go on in between.

A fault is a failed call, a list that breaks off and counts as complete, a router or scaler that dies,
an instance that does not join the cluster in time, a goroutine that has not run within the five
seconds a registrar sleeps, or a pass of the zombie loop (ten minutes) that comes between two calls of
`AdjustCapacity` about the same instance. A page of a paginated call is not a step of its own, and a
`TerminateInstances` that fails, which the loop repeats, is not modelled. An instance id is used again only when no
loop remembers it.

### Catalogue, Environment, Images, TaskResources

| State | Code |
|---|---|
| `published`, `conf` | what ECR and the public gallery hold; the configuration a refresh may change |
| `pass` | `environmentRefresh`, `environmentUpdate` and each requested `RefreshDefinitions`: phase, images, environments left, what was found |
| `rows` | the definitions table |
| `store`, `members` | the definitions in Redis with their TTL, and the set of hashes |
| `done`, `ready`, `known`, `scanned` | the flag of the first pass; routers that saw it; `definitionsMap` of each; the hashes it is about to look up |
| `due`, `settled` | history: hashes that have to be there once all passes are over; images of the last pass that ran alone |

A revision stands for the environment it was registered with, since ECS never changes one. A hash is the
record of what it is computed from. Reading a row and registering a revision are one step, as no other call in
between matters to both. `First` takes environments in the order of the images, which is
`imageComparator`. Exclusions are regular expressions in the code and the set of images they match in
the model. Of the containers, what the properties tell apart is kept: which there are, their images,
minimum and requested resources. `Share` is `calculateResources` of `container.go` in integers; the code
divides floating-point numbers, where an exact quotient may come out one lower.

Modelled as they are, and worth knowing:

* A pass empties the set and then fills it, without a lock. If it fails in between, routers have no
  definitions until a later pass of the loop. If a refresh and the loop overlap, one may empty what the other wrote;
  `WrittenDefinitionsStay` is therefore about those whose set nobody emptied, and the loop's next pass
  repairs the rest. The loop may also write back what it listed before a refresh changed the
  configuration.
* Family and schema are not unique in the table. Two passes that both find no row, with different
  images of one family, insert two (`Doubled`); from then on what a pass finds is left to chance. The
  liveness properties and `UnchangedImagesAreNotRegistered` except that state.
* Two tags that differ in a dot and a dash share a family: listed together they are registered again
  by every pass. The listings of the run have one of them at a time.
* An error of the public gallery is a repository without tags (`images.go:249`), so its definitions are
  taken from the routers until the next pass.
* Tags with capital letters cannot be asked for, except on cypress (`Askable`).
* A start looks in a router's map when it selects the environment and once more when it registers the task
  (`starter/taskRegistrar.go:56`); both looks see the same map in the model.
* `ListImages` of the public gallery fails for all repositories at once, where the code asks one by one.
* A definition that is expired stays for an hour and a half, but only for a reader that has already
  read the set. Hashes without a value stay in the set.
* A restart of the service forgets the configuration a refresh set.

## Runs

| Run | Bounds | What it asks |
|---|---|---|
| `redis_worker` | three calls, two of one id | no call is lost between batches; nil means the id was written |
| `redis_worker_lost_wakeup` | the same, fair | *violated*: a call is not always answered |
| `session_races` | all kinds, two tasks, two requests on two routers, the usage loop, one fault, torn pipelines | the lock of #1056, usage at most once, a rejected start stops its task, refinement of `SessionLife` |
| `session_live` | generic, cypress and browser sessions, one task, all loops, one fault | usage at most once with every loop; no task runs for ever; nothing of the session stays in Redis; a served session is reported |
| `session_stale_abort`, `session_stale_finish` | a generic session, one request, no loops | *violated*: see Findings |
| `playwright_refresh` | two refreshes that change different settings, the idle loop, one fault; limits 1 and 1, TTL 3, two attempts | refreshes exclude each other, the record follows the browser, recording goes on, a stopped session stays stopped, a refresh holds the session open |
| `playwright_refresh_live` | one refresh, a close, the task loop, one fault; limits 1 and 1, TTL 3; `maxTimeout` as configured, a grace of three passes | a refresh ends and its lock is freed; the ids of a served session resolve |
| `playwright_refresh_stall` | one refresh, no faults, a recorder that may never answer | *violated*: the refresh does not end |
| `playwright_refresh_outlived` | one refresh, the task loop, no faults; `maxTimeout` of five passes, one configured, a grace of three | *violated*: an id the recorder publishes under does not resolve |
| `provisioning` | two starts, instances of weight 1 and 2, a group of 0 to 2, a reserve of 25 % and at most 1, no room in the pool of ECS, one fault | only exposed tasks are killed; desired capacity within the group's limits; every start is placed, reservations and idle capacity are released |
| `catalogue` | a playwright image that moves to another registry or is retagged with a dash (two disturbances), a chrome image that gets a dedicated auto-update repository (one); the loop, one refresh with another configuration, one router | hashes, rows and maps agree; what is started is what was asked for and fits; what is published is served, what is gone is forgotten |

Why the bounds are enough. One session is modelled because records of different sessions never
share a key; what they share, a batch, is `RedisWorker`. Two tasks are the fewest with which a retry
can leave one behind. Two requests are the fewest that compete for the lock with each other and
the starter. The loops read, decide and write independently, so each run takes the loops whose
writes meet in it (`Watch`); the liveness run takes all of them. Requests beside the idle and the
unhealthy loop are in no run: they are in the theorems, which hold for every `Watch`. One fault at any
point reaches every single-failure schedule; two faults make the state space about ten times
larger and were only sampled. `usage` is not bounded: `UsageReportedAtMostOnce` bounds it.

Two refreshes are the fewest that can lose each other's settings or children. A limit of one minute,
with a TTL that is one minute longer than the limits together, has the same order of deadlines as
2 + 2 < 5. A session of no pass, with a grace of three, is overdue at the first pass and
outlived by its keys if one pass fails, whatever the maximum is that both have in common. An idle
timeout of one minute is shorter than a refresh, which is when the heartbeat is needed. Two attempts of `UpdateSession` let it lose once
and win, and lose for good; the theorems do not depend on their number.

The `provisioning` instances are the fewest with which weights differ, one task fits where another does
not, and one is drained while the other serves; both starts together need more than the light instance has,
so that the group has to grow from one and from none. With `PoolLimit` 0 every start needs its reservation.
The lightest weight is 1: with 2 or more a small group can keep an idle instance, since capacity is
compared in instances and counted in weight (`scaling.go:194`). In `catalogue` a
disturbance is a change of what is published, a refresh, a failed call or a crash; two of them let a pass
fail in the middle of a change, or a refresh overlap the loop with different images. The requests ask for every
kind of environment, with and without mitm, for less than the minimum, for a fitting amount and for more than
an instance has.

### Fairness

`FairSpec` assumes that goroutines and loops go on (weak fairness of each), that ECS starts and stops
what it accepted, that time passes (`Expire`, `GoIdle`, `TaskAges`) and that a task that runs on is
at some pass of the unhealthy loop older than its max timeout (strong fairness of `UnhealthyStop`:
each pass may find another reason to skip, but the age only grows). Nobody has to send a request,
a task need not end by itself, no fault has to happen. `LostTaskCooldownTimeout` being longer than a
startup is a guard of `TaskAges`; the fifteen minutes of a queued record being longer than a startup is
a guard of `Expire`. `OnTime` adds that the usage loop makes a pass within the TTL of a stopped
record (one minute against five or ten): without it a uuid can stay in `taskmap-set` for ever. The
liveness run takes `Torn` FALSE: a pipeline that stores the record and loses the SADD leaves a
record in no set, without a TTL, which no loop ever visits.

For `PlaywrightRefresh`, `FairSpec` assumes that handlers and heartbeats go on, that time passes, that a
swap or a rotation whose deadline is over returns, and that a recorder that answers does so. No
fairness is needed of the supervisor, of an arriving request or of those who stop the session.

For `Provisioning`, every loop and goroutine goes on, ECS starts what it can place and tasks that run end,
the group launches what it is short of, and instances become ACTIVE, settle or grow late. `Settle` may
not overtake a waiting start that fits the instance: `InstanceCooldownTimeout` is longer than a placement
or the registrar's sleep. `EveryStartIsPlaced` excepts a start that is `Forgotten`: a pipeline that loses
its reservation is not repeated, and with an empty group such a start waits for its startup timeout.
`ReservationIsReleased` is claimed for runs without a fault: no entity has a TTL, so a router that dies,
a late goroutine or a lost pipeline leaves one for ever. `IdleCapacityIsReleased` excepts such an entity too
(`Quiet`). These three defects of the code are steps of the run that no property reports.

For `Catalogue`, the loop of the service and the reads of the routers go on; nobody has to publish or
to ask for a refresh. `Wake` waits until the routers have read what was written: an
assumption about the two intervals.

A generic session is not claimed to be forgotten: a generic task that ends without calling
MarkAsFinished leaves an active record without a TTL. That call is made by the executor image,
which is not part of this repository.

## Findings

* **Lost wake-up** (`cacheutil.go:152`). `AppendToWorker` unlocks before it receives; the worker
  stops sending at the first moment nobody receives. A caller in between blocks for ever.
* **Stale abort** (`middlewares.go:113`). The record is read before the lock. An abort that waits for
  the finalizer sees an empty TaskId afterwards, stops nothing, and answers 204.
* **Stale finish** (`tasks.go:291`). MarkAsFinished checks a fresh record under the lock and writes the
  copy from before it, which may have no TaskId; the usage of the task is then never reported.
* **Stalled recorder** (`selenium/recorder.go:29`). A rotation has a deadline, so that "a stalled recorder" is
  kept "off the refresh path", but the start that always follows it has none. A recorder that does not
  answer there keeps the handler and its heartbeat for ever: the client gets no reply, the session never
  becomes idle, and after five minutes the lock is free for a second refresh beside the first.
* **Children that expire before their session** (`handlers/playwright.go:247`). "A child id outlives its session
  because the scaler caps every task at MaxTimeout", its comment says; but the scaler stops a task by the
  session's own `maxTimeout`, which a request may set above the configured one: only `idleTimeout` is capped
  (`capabilities/capabilities.go:475`). Such a session is served on when the ids it lists, and the one its recorder
  publishes under, have expired.

## Proofs

`RedisWorker_proofs` proves type correctness, `NilMeansWritten` and `NothingIsLost` for any sets of
calls and ids. The inductive invariant relates the three places a call can be: in `items` with the
current channel, in `taken` with the taken one, or answered.

`Session_proofs` proves type correctness and `UsageIsReportedAtMostOnce` for any number of routers,
requests, tasks and faults, every kind of session and torn pipelines. `usage <= 1` is not inductive:
stale copies of the record with `UsageTracked` unset are written back at any time. The
strengthening (`Accounting`) says who can still add the uuid to `taskmap-set`: only the starter's last
write does, and once; so as long as that write is outstanding nothing has been reported, and once the
usage loop has taken the uuid out of the set — which it does before it reports — it never finds it
again. Torn pipelines are the reason why the flag alone would not do: the proof uses only that
the report follows a pipeline that succeeded.

`SessionStart_proofs` proves `FinalizerOverwritesWhatItSaw` and `RejectedTaskIsStopped`, and
`SessionLife_proofs` that `Session` implements `SessionLife`. All three are about the time in which the
starter may still write (`Open`), and need to know who else writes then. `StartInv` says so in three parts,
each proved from the ones before. `Base`: who waits on which batch, and that the loops have nothing to
scan before the last write of the starter fills the sets. `GenericStart`: while the starter of a generic task
is open, every copy of the record, in Redis, in a request or in a batch, is from before its publication
(`Unpublished`); the lock excludes the finalizer and the requests (`Mutex`), which nothing in the lock itself
guarantees, as it has no owner; hence the record is the finalizer's between its read and its write
(`Window`). `Reasoned`: a reason on the way out of a start means that its task was asked to stop. It needs
`Unpublished`, because the finalizer does not stop the task of a record that is stopped already. The steps
that the property is not about are dealt with in groups (`StepKinds` and the `Frame` lemmas).

The refinement maps the record's status, with active and cypress as one, `Open`, and the usage; a generic
session, to which the promise does not apply, maps to one state. `Lived` is what makes each write a
step of `SessionLife`: before the publication nobody else is at work on the session (`Queued`), and what
requests, loops and batches hold afterwards is a stopped record (`Stops`, `Items`). It holds under
`KindRoutes`, the theorem's premise: only generic tasks are addressed by the generic routes.
`ValidateGenericMapperPresence` (`handlers/middlewares.go:109`) accepts a record of any kind, so this is up to
the clients; without it an abort can take a browser's record back to the copy it read, queued or served.
`MCSession` states the same as an assumption, which TLC evaluates.

`PlaywrightRefresh_proofs` proves type correctness and all the safety properties of its runs, for any number
of refreshes, settings, faults and attempts:

* `RefreshesExclude` is an argument about time and not inductive: the lock may expire under its owner.
  `Leased` is the strengthening: while a refresh goes on, its lock has more left than the steps ahead of it may
  take (`Remaining`), which `Tick` preserves because both sides lose a minute. It holds under
  `LeaseOutlastsRefresh`, the premise of the theorem: the recorder answers, and
  `SwapLimit + RotateLimit + RecordLimit < LockTTL`. With the code's 2 + 2 < 5 a recorder has to start within
  the minute; the stalled recorder above is the case the premise leaves out.
* `StoppedIsFinal` rests on `Watched`: an update whose WATCH is intact has read the record as it is now, so it
  writes back the status it finds.
* `RecordFollowsBrowser` has the same premise. The record lags behind the browser only between the supervisor's
  answer and the refresh's EXEC, in one refresh at a time; `Followed` says by exactly what.
* `ArtifactsResolve` (`Resolving`): an id has its key before the recorder is told of it; from then on the key has
  lost no more time than the task has lived, and the keys are cut short only after the task has ended. So
  they outlast the task under `ChildOutlivesTask`, the premise of the theorem:
  `MaxTimeout + 1 + MaxFaults < ConfMaxTimeout + ChildGrace`, where one pass finds the task overdue and each fault may
  be a pass that fails to stop it. A session with the default `maxTimeout` and one failed pass is within it. Nothing
  in the code holds a session to it; the finding above is the case it leaves out.
* `RecordingResumes` (`Recorded`): without faults, a stopper that has taken the recorder off goes on to end the
  task.
* `HeartbeatHolds` (`Beating`), for an idle timeout above zero: as long as the heartbeat has not lost all its
  attempts, the last access is of this minute, or of the last one with the heartbeat due.

`Provisioning_proofs` proves `OnlyExposedTasksAreKilled` for any starts, instances, weights, reserve and
number of faults. An instance is stopped by the group only when it has lost its protection, and then it
is draining (`Protected`); by the zombie loop only when its list does not hold it. A task can be on an
instance of the first kind only if it was placed after `AdjustCapacity` looked (`Chosen`, then
`Draining`), on one of the second kind only if it came after the list, or the list broke off (`Listed`).
`Outside` says that nothing runs on an instance that has not joined.

It also proves `DesiredWithinGroup` (`CapacityStaysWithinGroup`) and the types, with the invariant `Within`
on top of that one: a pass that is about to raise or to lower has a target within the group's limits, and
one that has chosen victims leaves the minimum (`Targets`). Nobody else sets the desired capacity while
a pass goes on, so a target chosen against it is sound at the call. What `ScaleUp` requires is a fold over the
tasks in ECS's order, and what instances weigh is a sum: `FoldExists` and `FoldInto` show, by the well-founded
orders on numbers and finite sets, that such a fold is defined and stays in what its step does not leave.
From them follow that no chunk of free resources gets negative (`FitType`, `PlanTyped`) and that what `ScaleUp` asks for
is between the present capacity and the maximum (`RaisedWithinGroup`). Two conditions of
`ProvisioningAssumption` serve here: the lightest type has a unit of CPU and of memory for each of its weight,
or the scaler would divide by zero, and the instances of the beginning do not exceed `MaxSize`.

`TaskResources_proofs` proves `GrantFits`: every container is given at least its minimum, no more than was
asked for, all of that if it fits, and together no more than what is left. The core is integer division: each part
divided by a factor rounded up is at most its share. `Catalogue_proofs` lifts it to
`AcceptedTaskFitsAnyInstance` for all images, requests and instance sizes, and proves
`RevisionsRunTheirHash` for any number of passes, routers and disturbances. The invariant there
is that a row holds a revision of its own family, registered as the row says (`Holds`), and that a pass about
to update a row means one of the family it looked for (`Sound`), although the row is found by what it
registered and another pass may have changed it. Reusing a row whose register hash is equal is then safe,
because environments that register alike are of one image, hence of one family and override hash.

Four more theorems of `Catalogue_proofs`, with an invariant each on top of that one:

* `TypesCorrect` (`Checked`, `Scalars`): of the images it has listed a pass has the current one in front, and
  none left when it writes.
* `WrittenStays` (`DueDone`): every hash a pass has to write is still to be looked for, in what it has collected,
  or in the set without a time to live, unless another pass emptied the set.
* `UnchangedNotRegistered` (`Alone`): while a pass runs alone, the environments it is done with have rows that are
  up to date, and stay so until another pass runs. Its premise is `OnlyTwinsShareFamilies`: published
  images generate definitions of one family only when one is the dedicated auto-update image and the other the
  one it replaces. `preferAutoUpdateRepositories` drops the second of such twins. Images outside the premise,
  one name and tag from two registries, or tags that differ in dots and dashes only, replace each other's
  revision in every pass.
* `StartsWhatWasAskedFor`: what the builders compute for a request meets what they computed for an image, by the
  names and tags. Its premises, `DedicatedAreNamed` and `DedicatedAreTagged`, are the naming of the dedicated
  repositories and their images, which the code takes for granted when it looks for the suffix.

TLC evaluates the three conditions on its instance (`MCCatalogue`), so that its universe is within the theorems.

Each module's assumptions about its constants (`RedisWorkerAssumption`, `SessionAssumption`,
`RefreshAssumption`, `ProvisioningAssumption`, `TagsAssumption`, `EnvironmentAssumption`, `CatalogueAssumption`,
`RevisionAssumption`) and the premises above are all that is assumed. Model-checked only are the liveness
properties, which are beyond the prover: they rest on fairness.

## Not modelled

* Parsing, validation and merging of capabilities: sequential text handling. What they yield is the
  input of `Environment`.
* Commands, mounts, ports and variables of containers, the discovery of instance types, the HTTP and ECR
  calls that list images: no property depends on them.
* Proxying, vnc, logs, screenshots, the reporting proxies and the HTTP clients: pure I/O.
* The waiters' maps and batches (`StartWaiter`), among them the instances a router terminates because EC2
  finds them impaired, users, the life cycle of a router process: planned.

See `components` in `PROJECT.json`.

## Plan

1. Done: `RedisWorker`, `Session`, `SessionLife`, with type correctness and the first safety theorem.
2. Done: `PlaywrightRefresh`, with the exclusion of refreshes proved.
3. Done: `Provisioning`, allocation and capacity in one module, with the safety of busy instances proved.
4. Done: `TaskResources`, `Images`, `Environment`, `Catalogue`, with the resources and the hashes proved.
5. `StartWaiter`: the polling workers of tasks and instances.
6. `Users`; `RouterLifecycle`: startup retries, graceful shutdown, the generic contexts.
7. Done: the theorems of `Session` beyond type correctness, the refinement of `SessionLife`, and all safety
   properties of `PlaywrightRefresh` and `Catalogue`.
8. Done: the types of `Provisioning`, and the limits of the group.
