--------------------------- MODULE PlaywrightRefresh ---------------------------
(***************************************************************************)
(* Browser refreshes of one Playwright session.  A refresh takes a lock that *)
(* expires, has the supervisor in the task replace the browser, registers a  *)
(* child session id, has the recorder change its artifact scope, and stores   *)
(* the outcome in the session record, which others touch and stop meanwhile.  *)
(*                                                                          *)
(* Time passes in Tick, a minute at a time.  A step whose limit is zero is   *)
(* over within the minute in which it began.  What takes hours, the life of  *)
(* the task and of the keys of its children, is counted in the passes of the *)
(* scaler's task loop, ten minutes each; the two clocks run independently.   *)
(* A request stands for the child id it creates, and for the value it gives  *)
(* to the settings it changes.                                              *)
(***************************************************************************)
EXTENDS Naturals, FiniteSets

CONSTANTS Requests,        \* refresh requests, each on a router of its own
          Settings,        \* browser name, arguments, headless
          Changes,         \* the settings each request names
          Original,        \* what the session was started with
          Nobody,
          Stoppers,        \* who may stop the session: a bound on interleavings
          SwapLimit,       \* playwrightRefreshTimeout
          RotateLimit,     \* recorderRotateTimeout
          RecordLimit,     \* how long a recorder that answers takes to start
          LockTTL,         \* playwrightRefreshLockTTL
          RecorderAnswers, \* FALSE: the recorder may never answer a start
          IdleTimeout,
          MaxAttempts,     \* maxAttempts of UpdateSession
          MaxTimeout,      \* the maxTimeout capability of the session
          ConfMaxTimeout,  \* config.Conf.MaxTimeout
          ChildGrace,      \* childSessionGrace
          MaxFaults        \* bound: crashes and failed calls, together

ASSUME RefreshAssumption ==
    /\ Original \notin Requests /\ Nobody \notin Requests
    /\ Changes \in [Requests -> SUBSET Settings]
    /\ Stoppers \subseteq {"idleLoop", "taskLoop", "close"}
    /\ {SwapLimit, RotateLimit, RecordLimit, IdleTimeout, MaxFaults} \subseteq Nat
    /\ {MaxTimeout, ConfMaxTimeout} \subseteq Nat
    /\ {LockTTL, MaxAttempts, ChildGrace} \subseteq Nat \ {0}
    /\ RecorderAnswers \in BOOLEAN

VARIABLES
    rec,         \* the session record
    watching,    \* optimistic updates of rec whose WATCH is intact
    childTTL,    \* what is left of each child's key, zero without a key
    lock,        \* the refresh lock
    ref,         \* the refresh requests
    hb,          \* the heartbeat goroutine of each refresh
    stopper,     \* those who stop the session
    supervisor,  \* the request whose browser the supervisor is starting
    browser,     \* the settings of the running browser
    recorder,    \* the recorder's artifact scope, and whether it records
    alive,       \* whether the task runs
    age,         \* of the task, for as long as it serves the session
    faults       \* faults injected so far

session == <<rec, watching, childTTL>>
task == <<supervisor, browser, recorder>>
vars == <<rec, watching, childTTL, lock, ref, hb, stopper,
          supervisor, browser, recorder, alive, age, faults>>

-----------------------------------------------------------------------------
(* Types *)

Config == [Settings -> Requests \cup {Original}]

\* `unused` is the age of AccessedAt, as far as IsIdle tells ages apart.
Record == [status : {"absent", "active", "stopped"}, cfg : Config,
           children : SUBSET Requests, unused : 0 .. IdleTimeout + 1]

OriginalConfig == [s \in Settings |-> Original]

Active == [status |-> "active", cfg |-> OriginalConfig, children |-> {}, unused |-> 0]
Absent == [Active EXCEPT !.status = "absent"]

\* What each step of PlaywrightRefresh, in the order of the code, may take.
Timed == {"swap", "rotate", "record"}
Steps == Timed \cup {"child", "persist", "exec"}
Attempt == 1 .. MaxAttempts
LongestStep == SwapLimit + RotateLimit + RecordLimit

Refresh == [pc : Steps \cup {"arrive", "touch", "lock", "release", "done"},
            elapsed : 0 .. LongestStep, child : BOOLEAN, try : Attempt, seen : Record,
            outcome : {"none", "ok", "refused", "doubtful"}]

Heartbeat == [pc : {"off", "wait", "retry", "exec", "gaveUp"}, due : BOOLEAN,
              try : Attempt, seen : Record]

Stopper == [pc : {"watch", "stop", "write", "expire", "force", "done"}, snap : Record,
            overdue : BOOLEAN]

Updaters == Requests \X {"persist", "heartbeat"}

TypeOK ==
    /\ rec \in Record
    /\ watching \subseteq Updaters
    /\ childTTL \in [Requests -> 0 .. ConfMaxTimeout + ChildGrace]
    /\ lock \in [owner : Requests \cup {Nobody}, left : 0 .. LockTTL]
    /\ ref \in [Requests -> Refresh]
    /\ hb \in [Requests -> Heartbeat]
    /\ stopper \in [Stoppers -> Stopper]
    /\ supervisor \in Requests \cup {Nobody}
    /\ browser \in Config
    /\ recorder \in [scope : Requests \cup {Original}, on : BOOLEAN]
    /\ alive \in BOOLEAN
    /\ age \in Nat
    /\ faults \in 0 .. MaxFaults

Free == [owner |-> Nobody, left |-> 0]

Init ==
    /\ rec = Active
    /\ watching = {}
    /\ childTTL = [r \in Requests |-> 0]
    /\ lock = Free
    /\ ref = [r \in Requests |-> [pc |-> "arrive", elapsed |-> 0, child |-> FALSE, try |-> 1,
                                  seen |-> Absent, outcome |-> "none"]]
    /\ hb = [r \in Requests |-> [pc |-> "off", due |-> FALSE, try |-> 1, seen |-> Absent]]
    /\ stopper = [p \in Stoppers |-> [pc |-> "watch", snap |-> Absent, overdue |-> FALSE]]
    /\ supervisor = Nobody
    /\ browser = OriginalConfig
    /\ recorder = [scope |-> Original, on |-> TRUE]
    /\ alive = TRUE
    /\ age = 0
    /\ faults = 0

-----------------------------------------------------------------------------
(* Helpers *)

Fault == /\ faults < MaxFaults
         /\ faults' = faults + 1

At(r, step) == ref[r].pc = step

InProgress(r) == ref[r].pc \in Steps

\* The steps the heartbeat holds the session open for.
HeldOpen(r) == ref[r].pc \in {"swap", "child", "rotate", "record"}

Served == alive /\ rec.status = "active"

\* The age the task loop compares with the session's own maxTimeout.
Overdue == age > MaxTimeout

\* Every write of the record breaks every WATCH on it.
Store(e) == /\ rec' = e
            /\ watching' = {}

\* mapper.UpdateAccessedAt in one go.
Touch == IF rec.status = "active" THEN Store([rec EXCEPT !.unused = 0])
                                  ELSE UNCHANGED <<rec, watching>>

IsIdle(e) == e.status = "active" /\ e.unused > IdleTimeout

Changed(r, cfg) == [s \in Settings |-> IF s \in Changes[r] THEN r ELSE cfg[s]]

GoTo(r, step) == ref' = [ref EXCEPT ![r].pc = step, ![r].elapsed = 0]

\* The handler returns: the deferred stopHeartbeat, then the deferred release.
Leave(r, outcome) ==
    ref' = [ref EXCEPT ![r].pc = "release", ![r].elapsed = 0, ![r].seen = Absent,
                       ![r].outcome = outcome]

\* stopHeartbeat: an update that is under way is not interrupted.
StopHeartbeat(r) ==
    hb' = IF hb[r].pc = "wait" THEN [hb EXCEPT ![r].pc = "off", ![r].due = FALSE] ELSE hb

-----------------------------------------------------------------------------
(* The refresh: routing and the lock *)

\* ValidateMapperPresence and ValidateSessionStatus
Arrive(r) ==
    /\ At(r, "arrive")
    /\ ref' = IF rec.status = "active"
              THEN [ref EXCEPT ![r].pc = "touch"]
              ELSE [ref EXCEPT ![r].pc = "done", ![r].outcome = "refused"]
    /\ UNCHANGED <<session, lock, hb, stopper, task, alive, age, faults>>

\* UpdateLastAccessTime, whose failure is only logged.
UpdateLastAccessTime(r) ==
    /\ At(r, "touch")
    /\ GoTo(r, "lock")
    /\ \/ Touch /\ UNCHANGED faults
       \/ UNCHANGED <<rec, watching>> /\ Fault
    /\ UNCHANGED <<childTTL, lock, hb, stopper, task, alive, age>>

\* AcquireExpiringLock, and the start of the heartbeat.
Acquire(r) ==
    /\ At(r, "lock")
    /\ lock.owner = Nobody
    /\ lock' = [owner |-> r, left |-> LockTTL]
    /\ GoTo(r, "swap")
    /\ hb' = [hb EXCEPT ![r].pc = "wait"]
    /\ UNCHANGED <<session, stopper, task, alive, age, faults>>

\* Somebody else holds the lock, or the call fails, perhaps after SETNX.
AcquireRefused(r) ==
    /\ At(r, "lock")
    /\ \/ lock.owner # Nobody /\ UNCHANGED <<lock, faults>>
       \/ UNCHANGED lock /\ Fault
       \/ lock.owner = Nobody /\ lock' = [owner |-> r, left |-> LockTTL] /\ Fault
    /\ ref' = [ref EXCEPT ![r].pc = "done", ![r].outcome = "refused"]
    /\ UNCHANGED <<session, hb, stopper, task, alive, age>>

\* ReleaseExpiringLock deletes the key only for its owner.
Released(r) == IF lock.owner = r THEN Free ELSE lock

Release(r) ==
    /\ At(r, "release")
    /\ \/ lock' = Released(r) /\ UNCHANGED faults
       \/ UNCHANGED lock /\ Fault
    /\ GoTo(r, "done")
    /\ UNCHANGED <<session, hb, stopper, task, alive, age>>

-----------------------------------------------------------------------------
(* The refresh: the browser *)

\* The supervisor takes the call, one at a time ...
SupervisorTakes(r) ==
    /\ At(r, "swap")
    /\ alive
    /\ supervisor = Nobody
    /\ supervisor' = r
    /\ UNCHANGED <<session, lock, ref, hb, stopper, browser, recorder, alive, age, faults>>

\* ... or answers that it is busy, or that the settings are wrong.
SwapRefused(r) ==
    /\ At(r, "swap")
    /\ alive
    /\ \/ supervisor \notin {Nobody, r} /\ UNCHANGED supervisor
       \/ supervisor = r /\ supervisor' = Nobody
    /\ Leave(r, "refused")
    /\ StopHeartbeat(r)
    /\ UNCHANGED <<session, lock, stopper, browser, recorder, alive, age, faults>>

\* The new browser is up.  The answer is of use to a call that still waits.
SupervisorDone(r) ==
    /\ alive
    /\ supervisor = r
    /\ supervisor' = Nobody
    /\ browser' = Changed(r, browser)
    /\ IF At(r, "swap")
       THEN \/ GoTo(r, "child") /\ UNCHANGED <<hb, faults>>
            \/ Leave(r, "doubtful") /\ StopHeartbeat(r) /\ Fault
       ELSE UNCHANGED <<ref, hb, faults>>
    /\ UNCHANGED <<session, lock, stopper, recorder, alive, age>>

\* The request's context ends, by its deadline or because the client leaves,
\* or the task is gone.  The supervisor goes on with what it has begun.
SwapGivenUp(r) ==
    /\ At(r, "swap")
    /\ Leave(r, "doubtful")
    /\ StopHeartbeat(r)
    /\ UNCHANGED <<session, lock, stopper, task, alive, age, faults>>

-----------------------------------------------------------------------------
(* The refresh: the child session and the recorder *)

\* Ten minutes: up to the next pass of the task loop.
stoppedSessionTTL == 1

\* A plausible bug: the grace of a session that has stopped.
TTLWithShortGrace == ConfMaxTimeout + stoppedSessionTTL

childSessionTTL == ConfMaxTimeout + ChildGrace

\* mapper.WriteChild
WriteChild(r) ==
    /\ At(r, "child")
    /\ childTTL' = [childTTL EXCEPT ![r] = childSessionTTL]
    /\ ref' = [ref EXCEPT ![r].pc = "rotate", ![r].child = TRUE]
    /\ UNCHANGED <<rec, watching, lock, hb, stopper, task, alive, age, faults>>

WriteChildUncertain(r) ==
    /\ At(r, "child")
    /\ childTTL' \in {childTTL, [childTTL EXCEPT ![r] = childSessionTTL]}
    /\ Fault

\* Without the child the recorder is left alone.
WriteChildFails(r) ==
    /\ WriteChildUncertain(r)
    /\ GoTo(r, "persist")
    /\ StopHeartbeat(r)
    /\ UNCHANGED <<rec, watching, lock, stopper, task, alive, age>>

\* selenium.RotateRecording.  The recorder stops, reopens under the new id, and
\* waits to be started.
Rotated(r) == [scope |-> r, on |-> FALSE]

Rotate(r) ==
    /\ At(r, "rotate")
    /\ alive
    /\ recorder' = Rotated(r)
    /\ GoTo(r, "record")
    /\ UNCHANGED <<session, lock, hb, stopper, supervisor, browser, alive, age, faults>>

\* A call that fails, or is out of time, may have got there.
RotateUncertain(r) ==
    /\ At(r, "rotate")
    /\ recorder' \in {recorder, Rotated(r)}
    /\ \/ (ref[r].elapsed = RotateLimit \/ ~alive) /\ UNCHANGED faults
       \/ Fault

\* A plausible bug: the recorder is only started after a rotation that worked.
RotateGivesUp(r) ==
    /\ RotateUncertain(r)
    /\ GoTo(r, "persist")
    /\ StopHeartbeat(r)
    /\ UNCHANGED <<session, lock, stopper, supervisor, browser, alive, age>>

RotateFails(r) ==
    /\ RotateUncertain(r)
    /\ GoTo(r, "record")
    /\ UNCHANGED <<session, lock, hb, stopper, supervisor, browser, alive, age>>

\* selenium.StartRecording, whatever came of the rotation; then stopHeartbeat.
StartRecording(r) ==
    /\ At(r, "record")
    /\ \/ recorder' = [recorder EXCEPT !.on = alive] /\ UNCHANGED faults
       \/ UNCHANGED recorder /\ Fault
    /\ GoTo(r, "persist")
    /\ StopHeartbeat(r)
    /\ UNCHANGED <<session, lock, stopper, supervisor, browser, alive, age>>

-----------------------------------------------------------------------------
(* The refresh: the record *)

\* UpdateSession: WATCH and GET, and the update function on what was read.
PersistRead(r) ==
    /\ At(r, "persist")
    /\ IF rec.status = "active"
       THEN /\ ref' = [ref EXCEPT ![r].pc = "exec", ![r].seen = rec]
            /\ watching' = watching \cup {<<r, "persist">>}
       ELSE Leave(r, "doubtful") /\ UNCHANGED watching
    /\ UNCHANGED <<rec, childTTL, lock, hb, stopper, task, alive, age, faults>>

\* A plausible bug: the children of earlier refreshes are dropped.
RefreshedAlone(r) ==
    [ref[r].seen EXCEPT !.cfg = Changed(r, ref[r].seen.cfg), !.unused = 0,
                        !.children = IF ref[r].child THEN {r} ELSE @]

Refreshed(r) ==
    [ref[r].seen EXCEPT !.cfg = Changed(r, ref[r].seen.cfg), !.unused = 0,
                        !.children = IF ref[r].child THEN @ \cup {r} ELSE @]

\* A plausible bug: a plain SET.
NotWatched(u) == TRUE

\* Whether EXEC goes through.
Intact(u) == u \in watching

PersistExec(r) ==
    /\ At(r, "exec")
    /\ Intact(<<r, "persist">>)
    /\ Store(Refreshed(r))
    /\ Leave(r, "ok")
    /\ UNCHANGED <<childTTL, lock, hb, stopper, task, alive, age, faults>>

\* A plausible bug: no bound on the attempts.
PersistForever(r) ==
    /\ At(r, "exec")
    /\ ~Intact(<<r, "persist">>)
    /\ ref' = [ref EXCEPT ![r].pc = "persist", ![r].seen = Absent]
    /\ UNCHANGED <<session, lock, hb, stopper, task, alive, age, faults>>

PersistRetry(r) ==
    /\ At(r, "exec")
    /\ ~Intact(<<r, "persist">>)
    /\ IF ref[r].try < MaxAttempts
       THEN ref' = [ref EXCEPT ![r].pc = "persist", ![r].try = @ + 1, ![r].seen = Absent]
       ELSE Leave(r, "doubtful")
    /\ UNCHANGED <<session, lock, hb, stopper, task, alive, age, faults>>

PersistFails(r) ==
    /\ ref[r].pc \in {"persist", "exec"}
    /\ Fault
    /\ Leave(r, "doubtful")
    /\ watching' = watching \ {<<r, "persist">>}
    /\ UNCHANGED <<rec, childTTL, lock, hb, stopper, task, alive, age>>

-----------------------------------------------------------------------------
(* The heartbeat: keepPlaywrightSessionAlive *)

HeartbeatIs(r, pc) ==
    hb' = [hb EXCEPT ![r] = [pc |-> pc, due |-> FALSE, try |-> 1, seen |-> Absent]]

\* After an update: wait for the next tick of the timer, or find the context done.
HeartbeatGoesOn(r) == HeartbeatIs(r, IF HeldOpen(r) THEN "wait" ELSE "off")

HeartbeatRead(r) ==
    /\ hb[r].pc = "retry" \/ (hb[r].pc = "wait" /\ hb[r].due)
    /\ IF rec.status = "active"
       THEN /\ hb' = [hb EXCEPT ![r].pc = "exec", ![r].due = FALSE, ![r].seen = rec]
            /\ watching' = watching \cup {<<r, "heartbeat">>}
       ELSE HeartbeatIs(r, "gaveUp") /\ UNCHANGED watching
    /\ UNCHANGED <<rec, childTTL, lock, ref, stopper, task, alive, age, faults>>

HeartbeatExec(r) ==
    /\ hb[r].pc = "exec"
    /\ Intact(<<r, "heartbeat">>)
    /\ Store([hb[r].seen EXCEPT !.unused = 0])
    /\ HeartbeatGoesOn(r)
    /\ UNCHANGED <<childTTL, lock, ref, stopper, task, alive, age, faults>>

\* A plausible bug: one attempt too many.
HeartbeatRetryOnceMore(r) ==
    /\ hb[r].pc = "exec"
    /\ ~Intact(<<r, "heartbeat">>)
    /\ IF hb[r].try <= MaxAttempts
       THEN hb' = [hb EXCEPT ![r].pc = "retry", ![r].try = @ + 1, ![r].seen = Absent]
       ELSE HeartbeatIs(r, "gaveUp")
    /\ UNCHANGED <<session, lock, ref, stopper, task, alive, age, faults>>

HeartbeatRetry(r) ==
    /\ hb[r].pc = "exec"
    /\ ~Intact(<<r, "heartbeat">>)
    /\ IF hb[r].try < MaxAttempts
       THEN hb' = [hb EXCEPT ![r].pc = "retry", ![r].try = @ + 1, ![r].seen = Absent]
       ELSE HeartbeatIs(r, "gaveUp")
    /\ UNCHANGED <<session, lock, ref, stopper, task, alive, age, faults>>

\* The first failure ends it.
HeartbeatFails(r) ==
    /\ hb[r].pc \in {"retry", "exec"}
    /\ Fault
    /\ HeartbeatIs(r, "gaveUp")
    /\ watching' = watching \ {<<r, "heartbeat">>}
    /\ UNCHANGED <<rec, childTTL, lock, ref, stopper, task, alive, age>>

\* The router that serves the request is killed.
Crash(r) ==
    /\ ref[r].pc \notin {"arrive", "done"}
    /\ Fault
    /\ ref' = [ref EXCEPT ![r].pc = "done", ![r].elapsed = 0, ![r].seen = Absent,
                          ![r].outcome = "doubtful"]
    /\ HeartbeatIs(r, "off")
    /\ watching' = watching \ {<<r, "persist">>, <<r, "heartbeat">>}
    /\ UNCHANGED <<rec, childTTL, lock, stopper, task, alive, age>>

-----------------------------------------------------------------------------
(* What happens to the session meanwhile *)

\* UpdateLastAccessTime of any other request, and the keep-alive of an attach.
Use ==
    /\ rec.status = "active"
    /\ Touch
    /\ UNCHANGED <<childTTL, lock, ref, hb, stopper, task, alive, age, faults>>

\* Nobody looks at the age of the copy that is kept.
BeginStop(p, overdue) ==
    stopper' = [stopper EXCEPT ![p] = [pc |-> "stop", snap |-> [rec EXCEPT !.unused = 0],
                                       overdue |-> overdue]]

\* stopIdleSessions, down to the second look at the record; stopUnhealthyTasks,
\* for a task that is overdue or, by a fault, UNHEALTHY; a close, which stops the
\* session it found in ValidateMapperPresence, used or not.
FindToStop(p) ==
    /\ stopper[p].pc = "watch"
    /\ rec.status = "active"
    /\ \/ /\ \/ p = "idleLoop" /\ IsIdle(rec) /\ BeginStop(p, FALSE)
             \/ p = "taskLoop" /\ alive /\ Overdue /\ BeginStop(p, TRUE)
          /\ UNCHANGED <<rec, watching, faults>>
       \/ p = "taskLoop" /\ alive /\ BeginStop(p, FALSE) /\ Fault /\ UNCHANGED <<rec, watching>>
       \/ p = "close" /\ Touch /\ BeginStop(p, FALSE) /\ UNCHANGED faults
    /\ UNCHANGED <<childTTL, lock, ref, hb, task, alive, age>>

StopperEnds(p) ==
    stopper' = [stopper EXCEPT ![p] = [pc |-> IF p = "close" THEN "done" ELSE "watch",
                                       snap |-> Absent, overdue |-> FALSE]]

\* service.StopTask returns an error.  For an overdue task there is a second try.
StopTaskFails(p) ==
    /\ Fault
    /\ IF stopper[p].overdue THEN stopper' = [stopper EXCEPT ![p].pc = "force"]
                             ELSE StopperEnds(p)

\* The goroutine of selenium.CloseSession that finishes the recording.
FinishRecording(p) ==
    /\ stopper[p].pc = "stop"
    /\ p # "taskLoop"
    /\ recorder' = [recorder EXCEPT !.on = FALSE]
    /\ UNCHANGED <<session, lock, ref, hb, stopper, supervisor, browser, alive, age, faults>>

TaskEnds ==
    /\ alive' = FALSE
    /\ recorder' = [recorder EXCEPT !.on = FALSE]
    /\ supervisor' = Nobody

\* service.StopTask
StopTaskForcibly(p) ==
    /\ stopper[p].pc = "stop"
    /\ \/ TaskEnds /\ stopper' = [stopper EXCEPT ![p].pc = "write"] /\ UNCHANGED faults
       \/ StopTaskFails(p) /\ UNCHANGED <<alive, recorder, supervisor>>
    /\ UNCHANGED <<session, lock, ref, hb, browser, age>>

StopTaskWrite(p) ==
    /\ stopper[p].pc = "write"
    /\ \/ /\ Store([stopper[p].snap EXCEPT !.status = "stopped"])
          /\ stopper' = [stopper EXCEPT ![p].pc = "expire"]
          /\ UNCHANGED faults
       \/ StopTaskFails(p) /\ UNCHANGED <<rec, watching>>
    /\ UNCHANGED <<childTTL, lock, ref, hb, task, alive, age>>

\* The second try of the task loop leaves the record as it is.
ForceAgain(p) ==
    /\ stopper[p].pc = "force"
    /\ \/ TaskEnds /\ UNCHANGED faults
       \/ Fault /\ UNCHANGED <<alive, recorder, supervisor>>
    /\ StopperEnds(p)
    /\ UNCHANGED <<session, lock, ref, hb, browser, age>>

\* mapper.ExpireChildren of the children in the copy; a failure is only logged.
ExpireChildren(p) ==
    /\ stopper[p].pc = "expire"
    /\ \/ /\ childTTL' = [r \in Requests |->
                            IF r \in stopper[p].snap.children /\ childTTL[r] # 0
                            THEN stoppedSessionTTL ELSE childTTL[r]]
          /\ UNCHANGED faults
       \/ UNCHANGED childTTL /\ Fault
    /\ StopperEnds(p)
    /\ UNCHANGED <<rec, watching, lock, ref, hb, task, alive, age>>

\* Ten minutes, or five, after the session was stopped.
ExpireRecord ==
    /\ rec.status = "stopped"
    /\ Store(Absent)
    /\ UNCHANGED <<childTTL, lock, ref, hb, stopper, task, alive, age, faults>>

-----------------------------------------------------------------------------
(* Time *)

\* How long a request may stay where it is.
Limit(step) == CASE step = "swap" -> SwapLimit
                 [] step = "rotate" -> RotateLimit
                 [] step = "record" -> RecordLimit
                 [] OTHER -> 0

\* Nothing bounds a StartRecording that stalls: its request has no context.
Unbounded(step) == step = "record" /\ ~RecorderAnswers

\* A plausible bug: a rotation without its deadline.
MayWaitForRotation(r) ==
    \/ ref[r].pc \in {"arrive", "release", "done", "rotate"}
    \/ Unbounded(ref[r].pc)
    \/ ref[r].elapsed < Limit(ref[r].pc)

MayWait(r) ==
    \/ ref[r].pc \in {"arrive", "release", "done"}
    \/ Unbounded(ref[r].pc)
    \/ ref[r].elapsed < Limit(ref[r].pc)

Aged(r) == IF ref[r].pc \in Timed /\ ref[r].elapsed < Limit(ref[r].pc)
           THEN [ref[r] EXCEPT !.elapsed = @ + 1] ELSE ref[r]

\* A plausible bug: a lock without an expiration.
LockKept == lock

\* The lock's key expires with its last minute.
LockAged == IF lock.left <= 1 THEN Free ELSE [lock EXCEPT !.left = @ - 1]

\* A plausible bug: an interval longer than the idle timeout.
FiresLate(r) == FALSE

\* The interval of a heartbeat is at most half a minute.
Fires(r) == hb[r].pc = "wait"

\* A heartbeat whose timer has fired is not a minute late.
Tick ==
    /\ \A r \in Requests : MayWait(r) /\ hb[r].pc \notin {"retry", "exec"} /\ ~hb[r].due
    /\ ref' = [r \in Requests |-> Aged(r)]
    /\ lock' = LockAged
    /\ hb' = [r \in Requests |-> [hb[r] EXCEPT !.due = Fires(r)]]
    /\ rec' = IF rec.status = "active" /\ rec.unused <= IdleTimeout
              THEN [rec EXCEPT !.unused = @ + 1] ELSE rec
    /\ UNCHANGED <<watching, childTTL, stopper, task, alive, age, faults>>

\* The timer of stopUnhealthyTasks, every ten minutes.  A pass that leaves an
\* overdue task running has failed.  Without its loop this clock stands still.
TaskLoopTimer ==
    /\ "taskLoop" \in Stoppers
    /\ IF Served /\ Overdue THEN Fault ELSE UNCHANGED faults
    /\ age' = IF Served THEN age + 1 ELSE age
    /\ childTTL' = [r \in Requests |-> IF childTTL[r] = 0 THEN 0 ELSE childTTL[r] - 1]
    /\ UNCHANGED <<rec, watching, lock, ref, hb, stopper, task, alive>>

-----------------------------------------------------------------------------
(* Specification *)

\* Steps of the handler that wait for nobody.
HandlerStep(r) ==
    \/ UpdateLastAccessTime(r) \/ Acquire(r) \/ AcquireRefused(r)
    \/ WriteChild(r) \/ WriteChildFails(r) \/ PersistRead(r) \/ PersistExec(r) \/ PersistRetry(r)
    \/ Release(r)

SwapStep(r) == SupervisorTakes(r) \/ SwapRefused(r) \/ SupervisorDone(r) \/ SwapGivenUp(r)

HeartbeatStep(r) ==
    HeartbeatRead(r) \/ HeartbeatExec(r) \/ HeartbeatRetry(r)

StopperStep(p) ==
    \/ FindToStop(p) \/ FinishRecording(p)
    \/ StopTaskForcibly(p) \/ StopTaskWrite(p) \/ ForceAgain(p) \/ ExpireChildren(p)

Next ==
    \/ \E r \in Requests :
          \/ Arrive(r) \/ HandlerStep(r) \/ SwapStep(r) \/ Rotate(r) \/ RotateFails(r)
          \/ StartRecording(r) \/ HeartbeatStep(r) \/ PersistFails(r) \/ HeartbeatFails(r) \/ Crash(r)
    \/ \E p \in Stoppers : StopperStep(p)
    \/ Use \/ ExpireRecord \/ Tick \/ TaskLoopTimer

Spec == Init /\ [][Next]_vars

\* Goroutines go on, time passes, and a swap or a rotation that is out of time
\* returns.  The recorder's start is only sure to return if it answers.
FairSpec ==
    /\ Spec
    /\ WF_vars(Tick)
    /\ \A r \in Requests :
          /\ WF_vars(HandlerStep(r))
          /\ WF_vars(HeartbeatStep(r))
          /\ WF_vars(ref[r].elapsed = SwapLimit /\ SwapGivenUp(r))
          /\ WF_vars(ref[r].elapsed = RotateLimit /\ RotateFails(r))
          /\ WF_vars(RecorderAnswers /\ StartRecording(r))

-----------------------------------------------------------------------------
(* Properties *)

\* Two refreshes of a session never replace the browser, rotate the recorder or
\* write the record at the same time: the lock does not expire under its owner.
OneRefreshAtATime ==
    \A r, s \in Requests : InProgress(r) /\ InProgress(s) => r = s

\* Once every refresh has ended, and none of them with a failure that leaves the
\* outcome open, be it answered by an error or, when only the record could not be
\* stored, by 200, the record has the settings of the browser that runs and lists
\* every child id that was handed out.
RecordMatchesBrowser ==
    (/\ alive
     /\ rec.status = "active"
     /\ \A r \in Requests : ref[r].pc \in {"arrive", "done"} /\ ref[r].outcome # "doubtful")
    => /\ rec.cfg = browser
       /\ rec.children = {r \in Requests : ref[r].outcome = "ok" /\ ref[r].child}

\* The recorder publishes under an id only after the id resolves, and as long as
\* the session is served every id it lists resolves: keys that were written with
\* a TTL once, and are never renewed, outlast the task.
ArtifactsAreReachable ==
    Served => \A r \in Requests : r = recorder.scope \/ r \in rec.children => childTTL[r] > 0

\* Without failed calls a session that nobody stops is recorded again after
\* each refresh, also when the rotation ran out of time.
RecordingGoesOn ==
    (/\ faults = 0 /\ alive
     /\ \A p \in Stoppers : stopper[p].pc = "watch"
     /\ \A r \in Requests : ref[r].pc \notin {"rotate", "record"})
    => recorder.on

\* Neither a heartbeat nor a refresh brings a stopped session back.
StoppedStaysStopped ==
    [][rec.status # "active" => rec'.status # "active"]_vars

\* Without failed calls the idle loop finds a session that is being refreshed
\* idle only if its heartbeat has lost all its attempts to others who use it.
RefreshHoldsSessionOpen ==
    [][\A p \in Stoppers :
          (p = "idleLoop" /\ stopper[p].pc = "watch" /\ stopper'[p].pc = "stop" /\ faults = 0)
          => \A r \in Requests : HeldOpen(r) => hb[r].pc = "gaveUp"]_vars

\* A refresh that holds the lock ends: no stalled call keeps it for ever.
RefreshEnds ==
    \A r \in Requests : InProgress(r) ~> ~InProgress(r)

\* The lock of a refresh is free again some time, also when its router dies or
\* the reply to the acquisition is lost.
LockIsFreed ==
    \A r \in Requests : lock.owner = r ~> lock.owner # r

=============================================================================
