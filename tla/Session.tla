------------------------------- MODULE Session -------------------------------
(***************************************************************************)
(* The life of one session: the starter goroutine that provisions it, the   *)
(* requests that abort, finish, use and close it, the scaler's loops that    *)
(* watch it, the session record they share in Redis, and the ECS tasks that  *)
(* run it.                                                                   *)
(*                                                                          *)
(* A record carries what the control flow reads: AccessedAt is reduced to    *)
(* whether it is older than the idle timeout, SessionID to whether it is     *)
(* set, and a TTL to whether the key has one.  Writes through the batching   *)
(* worker wait in `batch` until FlushBatch; see RedisWorker for the handoff. *)
(***************************************************************************)
EXTENDS Naturals, FiniteSets, Sequences

CONSTANTS Kinds,      \* what env.Type of the session may be
          Tasks,      \* the ECS tasks RunTask can create for it
          Requests,   \* HTTP requests that carry its uuid
          OpsOf,      \* what clients ask of a session of each kind
          Routers,    \* router processes
          Home,       \* the router whose starter provisions the session
          RouterOf,   \* the router that serves each request
          NoTask,     \* an empty TaskId
          Watch,      \* the scaler loops that run: a bound on interleavings
          MaxFaults,  \* bound: crashes and failed AWS or Redis calls, together
          Torn,       \* TRUE: a Redis pipeline that fails may have been written in part
          OnTime      \* TRUE: a stopped record outlives the usage loop's next pass

GenericOps == {"abort", "finish"}     \* the genericHub routes
SessionOps == {"close", "use"}        \* the cachedSeleniumSession routes
Ops == GenericOps \cup SessionOps

Starter == "starter"
IdleLoop == "idleLoop"
UnhealthyLoop == "unhealthyLoop"
Scaler == "scaler"
Loops == {IdleLoop, UnhealthyLoop}
Hosts == Routers \cup {Scaler}
Procs == Requests \cup Loops

ASSUME SessionAssumption ==
    /\ Kinds \subseteq {"generic", "cypress", "playwright", "browser"}
    /\ OpsOf \in [Kinds -> SUBSET Ops]
    /\ Home \in Routers
    /\ Scaler \notin Routers
    /\ RouterOf \in [Requests -> Routers]
    /\ Requests \cap {Starter, IdleLoop, UnhealthyLoop} = {}
    /\ NoTask \notin Tasks
    /\ Watch \subseteq {"idle", "unhealthy", "usage", "lost"}
    /\ MaxFaults \in Nat
    /\ Torn \in BOOLEAN
    /\ OnTime \in BOOLEAN

\* The condition of a theorem: clients use the routes of their session's kind.  The
\* routes for generic sessions take the uuid of any session, so this is up to clients.
KindRoutes == \A kind \in Kinds \ {"generic"} : OpsOf[kind] \subseteq SessionOps

VARIABLES
    rec,        \* the record under the session's uuid
    ttl,        \* whether that key has a TTL
    sets,       \* the Redis sets that hold the uuid
    lock,       \* whether utils-set holds the uuid
    batch,      \* per process: the item its RedisWorker holds for the uuid
    ecs,        \* the state of each ECS task
    old,        \* tasks running for longer than LostTaskCooldownTimeout
    st,         \* the starter goroutine
    proc,       \* requests, and the two scaler loops that call StopTask
    usageLoop,  \* trackResourceUsage
    lostLoop,   \* stopLostTasks
    usage,      \* how often TrackResourcesUsage was called for the session
    faults      \* faults injected so far

redis == <<rec, ttl, sets>>
cloud == <<ecs, old>>
actors == <<st, proc, usageLoop, lostLoop>>
vars == <<rec, ttl, sets, lock, batch, ecs, old, st, proc, usageLoop, lostLoop, usage, faults>>

-----------------------------------------------------------------------------
(* Types *)

Sets == {"SESSION", "TASK"}
Status == {"absent", "queued", "cypress", "active", "stopped"}
Reasons == {"none", "startupFailure", "unhealthy", "maxTimeout", "aborted",
            "finished", "idleTimeout"}
NotTracked == {"startupFailure", "unhealthy"}

Entity == [status : Status, reason : Reasons, task : Tasks \cup {NoTask},
           sid : BOOLEAN, tracked : BOOLEAN, idle : BOOLEAN]

Absent == [status |-> "absent", reason |-> "none", task |-> NoTask,
           sid |-> FALSE, tracked |-> FALSE, idle |-> FALSE]

\* What CreateEntity builds.
QueuedEntity == [Absent EXCEPT !.status = "queued"]

Item == [waiters : SUBSET (Procs \cup {Starter}), ent : Entity,
         attach : SUBSET Sets, detach : SUBSET Sets, expires : BOOLEAN]

NoItem == [waiters |-> {}, ent |-> Absent, attach |-> {}, detach |-> {}, expires |-> FALSE]

StarterPc == {"create", "createWait", "taskdef", "phase", "check", "retry",
              "failStop", "failWrite", "lock", "find", "finStop", "finWrite",
              "failAwait", "await", "unlock", "done", "crashed"}
ProcPc == {"arrive", "rejected", "lock", "handler", "finishWrite", "touch", "idle",
           "listed", "described", "stop", "force", "append", "await",
           "failed", "unlock", "done", "crashed"}

StarterState == [kind : Kinds, pc : StarterPc, ph : Nat, out : {"ok", "essential", "retry"},
                 ent : Entity, seen : Entity, late : {"no", "inflight"}]
ProcState == [pc : ProcPc, op : Ops \cup {"none"}, snap : Entity]
UsageState == [pc : {"idle", "described", "shape", "send"}, snap : Entity]
LostState == [pc : {"idle", "list"}, known : SUBSET Tasks]
TaskState == {"unborn", "pending", "running", "stopping", "stopped"}

TypeOK ==
    /\ rec \in Entity
    /\ ttl \in BOOLEAN
    /\ sets \subseteq Sets
    /\ lock \in BOOLEAN
    /\ batch \in [Hosts -> Item]
    /\ ecs \in [Tasks -> TaskState]
    /\ old \subseteq Tasks
    /\ st \in StarterState
    /\ proc \in [Procs -> ProcState]
    /\ usageLoop \in UsageState
    /\ lostLoop \in LostState
    /\ usage \in Nat
    /\ faults \in 0 .. MaxFaults

Init ==
    /\ rec = Absent
    /\ ttl = FALSE
    /\ sets = {}
    /\ lock = FALSE
    /\ batch = [h \in Hosts |-> NoItem]
    /\ ecs = [t \in Tasks |-> "unborn"]
    /\ old = {}
    /\ \E kind \in Kinds :
           st = [kind |-> kind, pc |-> "create", ph |-> 1, out |-> "ok", ent |-> QueuedEntity,
                 seen |-> Absent, late |-> "no"]
    /\ proc = [p \in Procs |-> [pc |-> IF p \in Loops THEN "idle" ELSE "arrive",
                                op |-> "none", snap |-> Absent]]
    /\ usageLoop = [pc |-> "idle", snap |-> Absent]
    /\ lostLoop = [pc |-> "idle", known |-> {}]
    /\ usage = 0
    /\ faults = 0

-----------------------------------------------------------------------------
(* Helpers *)

Fault == /\ faults < MaxFaults
         /\ faults' = faults + 1

\* A pipeline of one record and the sets it joins or leaves.  The keys live on
\* different nodes of the cluster.
Pipeline(e, expires, newSets) ==
    /\ rec' = e
    /\ ttl' = expires
    /\ sets' = newSets
    /\ UNCHANGED faults

PipelineFails(e, expires, newSets) ==
    /\ Fault
    /\ \/ UNCHANGED redis
       \/ Torn /\ rec' = e /\ ttl' = expires /\ UNCHANGED sets
       \/ Torn /\ sets' = newSets /\ UNCHANGED <<rec, ttl>>

\* mapper.Find, where the caller takes an error for a missing record.
Find(e) == \/ e = rec /\ UNCHANGED faults
           \/ e = Absent /\ Fault

HostOf(p) == CASE p = Starter -> Home
               [] p \in Loops -> Scaler
               [] OTHER -> RouterOf[p]

\* A plausible bug: the answer is addressed to the process, not to the call.
WritedByHost(p, e, attach, detach, expires) ==
    batch' = [batch EXCEPT ![HostOf(p)] =
                 [waiters |-> batch[HostOf(p)].waiters \cup {HostOf(p)}, ent |-> e,
                  attach |-> attach, detach |-> detach, expires |-> expires]]

\* mapper.WritedByWorker: the newest item replaces what the batch held.
WritedByWorker(p, e, attach, detach, expires) ==
    batch' = [batch EXCEPT ![HostOf(p)] =
                 [waiters |-> batch[HostOf(p)].waiters \cup {p}, ent |-> e,
                  attach |-> attach, detach |-> detach, expires |-> expires]]

\* The caller's channel has been answered.
Answered(p) == p \notin batch[HostOf(p)].waiters

\* ECS accepts StopTask: a task that has not stopped begins to.
Stopping(t) ==
    [u \in Tasks |-> IF u = t /\ ecs[u] \in {"pending", "running"} THEN "stopping" ELSE ecs[u]]

\* service.StopTaskForcibly: five tries, then the error.  An empty task id
\* always ends in the error.
StopTaskForcibly(t) == /\ ecs' = Stopping(t)
                       /\ UNCHANGED faults

StopTaskFails == /\ Fault
                 /\ UNCHANGED ecs

\* A mapper.Find that returns an entity.
Present == rec.status # "absent"

\* Mapper.IsIdle
IsIdle(e) == e.status = "active" /\ e.idle

Kind == st.kind

Phases == CASE Kind = "generic"    -> <<"register", "start">>
            [] Kind = "cypress"    -> <<"register", "start", "network">>
            [] Kind = "playwright" -> <<"register", "start", "network", "playwright">>
            [] OTHER               -> <<"register", "start", "network", "driver">>

-----------------------------------------------------------------------------
(* The starter: creation and the phases *)

\* GetServiceStarter: the queued record, with its 15 minute TTL.
CreateEntity ==
    /\ st.pc = "create"
    /\ WritedByWorker(Starter, QueuedEntity, {}, {}, TRUE)
    /\ st' = [st EXCEPT !.pc = "createWait"]
    /\ UNCHANGED <<redis, lock, cloud, proc, usageLoop, lostLoop, usage, faults>>

\* A generic session first gets a task definition of its own.
Created ==
    /\ st.pc = "createWait"
    /\ Answered(Starter)
    /\ st' = [st EXCEPT !.pc = IF Kind = "generic" THEN "taskdef" ELSE "phase"]
    /\ UNCHANGED <<redis, lock, batch, cloud, proc, usageLoop, lostLoop, usage, faults>>

\* genericStarter.StartService: without it the start ends here, and nothing
\* but the TTL removes the record.
TaskDefinition ==
    /\ st.pc = "taskdef"
    /\ \/ st' = [st EXCEPT !.pc = "phase"] /\ UNCHANGED faults
       \/ st' = [st EXCEPT !.pc = "done"] /\ Fault
    /\ UNCHANGED <<redis, lock, batch, cloud, proc, usageLoop, lostLoop, usage>>

PhaseIs(name) == st.pc = "phase" /\ Phases[st.ph] = name

PhaseReturns(out, ent, late) ==
    st' = [st EXCEPT !.pc = "check", !.out = out, !.ent = ent, !.late = late]

PhaseFrame == UNCHANGED <<redis, lock, batch, old, proc, usageLoop, lostLoop, usage, faults>>

\* registerTaskPhase: RunTask answers in time ...
Register(t) ==
    /\ PhaseIs("register")
    /\ ecs[t] = "unborn"
    /\ ecs' = [ecs EXCEPT ![t] = "pending"]
    /\ PhaseReturns("ok", [st.ent EXCEPT !.task = t], st.late)
    /\ PhaseFrame

\* ... or the startup context ends first, with a RunTask perhaps in flight ...
RegisterFails ==
    /\ PhaseIs("register")
    /\ \E late \in {"no", "inflight"} : PhaseReturns("essential", st.ent, late)
    /\ UNCHANGED ecs
    /\ PhaseFrame

\* ... whose task is stopped if its arn arrives while somebody still listens,
\* and dropped by SendToChanIfNotBlocked, or lost with the router, otherwise.
LateRegister(t) ==
    /\ st.late = "inflight"
    /\ ecs[t] = "unborn"
    /\ \/ st.pc # "crashed" /\ ecs' = [ecs EXCEPT ![t] = "stopping"]
       \/ ecs' = [ecs EXCEPT ![t] = "pending"]
    /\ st' = [st EXCEPT !.late = "no"]
    /\ PhaseFrame

\* startTaskPhase and the waitWorker behind it.
StartTask ==
    /\ PhaseIs("start")
    /\ LET state == ecs[st.ent.task]
           healthy == state = "running" \/ (Kind = "generic" /\ state = "stopped")
       IN  \/ healthy /\ PhaseReturns("ok", [st.ent EXCEPT !.idle = FALSE], st.late)
           \/ state \in {"running", "stopped"} /\ PhaseReturns("retry", st.ent, st.late)
           \/ PhaseReturns("essential", st.ent, st.late)
    /\ UNCHANGED ecs
    /\ PhaseFrame

\* setNetworkPhase: an EC2 instance that is impaired fails the attempt.
SetNetwork ==
    /\ PhaseIs("network")
    /\ \E out \in {"ok", "essential", "retry"} : PhaseReturns(out, st.ent, st.late)
    /\ UNCHANGED ecs
    /\ PhaseFrame

\* startDriverPhase
StartDriver ==
    /\ PhaseIs("driver")
    /\ \/ PhaseReturns("ok", [st.ent EXCEPT !.sid = TRUE], st.late)
       \/ \E out \in {"essential", "retry"} : PhaseReturns(out, st.ent, st.late)
    /\ UNCHANGED ecs
    /\ PhaseFrame

\* waitPlaywrightReadyPhase
PlaywrightReady ==
    /\ PhaseIs("playwright")
    /\ \E out \in {"ok", "essential"} : PhaseReturns(out, st.ent, st.late)
    /\ UNCHANGED ecs
    /\ PhaseFrame

-----------------------------------------------------------------------------
(* The starter: after each phase *)

\* A plausible bug: a failed start only records that it failed.
FailWithoutStop(reason) ==
    st' = [st EXCEPT !.pc = "failWrite", !.ent.status = "stopped", !.ent.reason = reason]

\* finalizeOnFailure begins by stopping the entity.
FailWith(reason) ==
    st' = [st EXCEPT !.pc = IF st.ent.task = NoTask THEN "failWrite" ELSE "failStop",
                     !.ent.status = "stopped", !.ent.reason = reason]

\* basicStarter.StartService, below the call of the phase.  A generic start
\* runs under a context of its own, which nobody cancels before it ends.
Check ==
    /\ st.pc = "check"
    /\ \E me \in {rec, Absent} :
       /\ Find(me)
       /\ IF st.out = "essential" THEN FailWith("startupFailure")
          ELSE IF me.reason \in {"aborted", "finished"} THEN FailWith(me.reason)
          ELSE \/ Kind # "generic" /\ FailWith("startupFailure")
               \/ st.out = "retry" /\ st' = [st EXCEPT !.pc = "retry"]
               \/ /\ st.out = "ok"
                  /\ st.ph < Len(Phases)
                  /\ st' = [st EXCEPT !.pc = "phase", !.ph = st.ph + 1]
               \/ /\ st.out = "ok"
                  /\ st.ph = Len(Phases)
                  /\ st' = [st EXCEPT !.pc = IF Kind = "generic" THEN "lock" ELSE "finWrite"]
    /\ UNCHANGED <<redis, lock, batch, cloud, proc, usageLoop, lostLoop, usage>>

\* A failed attempt gives its task up and restores the entity it started with.
Retry ==
    /\ st.pc = "retry"
    /\ StopTaskForcibly(st.ent.task) \/ StopTaskFails
    /\ st' = [st EXCEPT !.pc = "phase", !.ph = 1, !.ent = QueuedEntity]
    /\ UNCHANGED <<redis, lock, batch, old, proc, usageLoop, lostLoop, usage>>

\* finalizeOnFailure of a start that has a task.  A failed stop is logged.
FailStop ==
    /\ st.pc = "failStop"
    /\ StopTaskForcibly(st.ent.task) \/ StopTaskFails
    /\ st' = [st EXCEPT !.pc = "failWrite"]
    /\ UNCHANGED <<redis, lock, batch, old, proc, usageLoop, lostLoop, usage>>

FailWrite ==
    /\ st.pc = "failWrite"
    /\ IF st.ent.task = NoTask
       THEN WritedByWorker(Starter, st.ent, {}, {}, TRUE)
       ELSE WritedByWorker(Starter, st.ent, {"TASK"}, {}, FALSE)
    /\ st' = [st EXCEPT !.pc = "failAwait"]
    /\ UNCHANGED <<redis, lock, cloud, proc, usageLoop, lostLoop, usage, faults>>

-----------------------------------------------------------------------------
(* The starter: finalize *)

\* A plausible bug: AcquireLock reports a key that is already there as taken
\* by the caller.
AcquireLockAnyway == lock' = TRUE

\* utilsmap.AcquireLock, which SADDs the uuid and fails when it was there.
AcquireLock == lock = FALSE /\ lock' = TRUE

\* utilsmap.ReleaseLock.  Its error is logged, and the key stays.
ReleaseLock == \/ lock' = FALSE /\ UNCHANGED faults
               \/ Fault /\ UNCHANGED lock

FinalizeLock ==
    /\ st.pc = "lock"
    /\ AcquireLock
    /\ st' = [st EXCEPT !.pc = "find"]
    /\ UNCHANGED <<redis, batch, cloud, proc, usageLoop, lostLoop, usage, faults>>

\* The generic finalizer looks at what happened to the record meanwhile.
FinalizeFind ==
    /\ st.pc = "find"
    /\ \E actual \in {rec, Absent} :
       /\ Find(actual)
       /\ st' = [st EXCEPT
              !.seen = actual,
              !.ent = IF actual.reason = "none"
                      THEN [st.ent EXCEPT !.status = "active"]
                      ELSE [st.ent EXCEPT !.status = "stopped", !.reason = actual.reason],
              !.pc = IF actual.reason # "none" /\ actual.status # "stopped"
                     THEN "finStop" ELSE "finWrite"]
    /\ UNCHANGED <<redis, lock, batch, cloud, proc, usageLoop, lostLoop, usage>>

FinalizeStop ==
    /\ st.pc = "finStop"
    /\ StopTaskForcibly(st.ent.task) \/ StopTaskFails
    /\ st' = [st EXCEPT !.pc = "finWrite"]
    /\ UNCHANGED <<redis, lock, batch, old, proc, usageLoop, lostLoop, usage>>

\* What finalizeFunc of each kind writes, and the sets it joins.
FinalEntity ==
    CASE Kind = "generic"    -> st.ent
      [] Kind = "cypress"    -> [st.ent EXCEPT !.status = "cypress", !.idle = FALSE]
      [] Kind = "playwright" -> [st.ent EXCEPT !.status = "active", !.idle = FALSE, !.sid = TRUE]
      [] OTHER               -> [st.ent EXCEPT !.status = "active", !.idle = FALSE]

FinalSets == IF Kind \in {"playwright", "browser"} THEN {"SESSION", "TASK"} ELSE {"TASK"}

FinalizeWrite ==
    /\ st.pc = "finWrite"
    /\ WritedByWorker(Starter, FinalEntity, FinalSets, {}, FALSE)
    /\ st' = [st EXCEPT !.pc = "await", !.ent = FinalEntity]
    /\ UNCHANGED <<redis, lock, cloud, proc, usageLoop, lostLoop, usage, faults>>

FinalizeWritten ==
    /\ st.pc \in {"failAwait", "await"}
    /\ Answered(Starter)
    /\ st' = [st EXCEPT !.pc = IF st.pc = "await" /\ Kind = "generic" THEN "unlock" ELSE "done",
                        !.seen = Absent]
    /\ UNCHANGED <<redis, lock, batch, cloud, proc, usageLoop, lostLoop, usage, faults>>

FinalizeUnlock ==
    /\ st.pc = "unlock"
    /\ ReleaseLock
    /\ st' = [st EXCEPT !.pc = "done"]
    /\ UNCHANGED <<redis, batch, cloud, proc, usageLoop, lostLoop, usage>>

-----------------------------------------------------------------------------
(* Requests *)

Goto(p, pc, snap) == proc' = [proc EXCEPT ![p].pc = pc, ![p].snap = snap]

\* ValidateGenericMapperPresence, which runs before the lock is taken.
ValidateGenericMapperPresence(r, op) ==
    /\ proc[r].pc = "arrive"
    /\ op \in GenericOps
    /\ proc' = [proc EXCEPT ![r] =
                   IF rec.status \in {"absent", "stopped"}
                   THEN [proc[r] EXCEPT !.pc = "rejected"]
                   ELSE [pc |-> "lock", op |-> op, snap |-> rec]]
    /\ UNCHANGED <<redis, lock, batch, cloud, st, usageLoop, lostLoop, usage, faults>>

\* LockGenericTaskCache, up to c.Next().
LockGenericTaskCache(r) ==
    /\ proc[r].pc = "lock"
    /\ AcquireLock
    /\ Goto(r, "handler", proc[r].snap)
    /\ UNCHANGED <<redis, batch, cloud, st, usageLoop, lostLoop, usage, faults>>

\* MarkAsFinished reads the record again, but writes the one it came with.
MarkAsFinished(r) ==
    /\ proc[r].pc = "handler"
    /\ proc[r].op = "finish"
    /\ \E m \in {rec, Absent} :
       /\ Find(m)
       /\ IF m.status \notin {"absent", "stopped"}
          THEN Goto(r, "finishWrite",
                    [proc[r].snap EXCEPT !.status = "stopped", !.reason = "finished"])
          ELSE Goto(r, "unlock", Absent)
    /\ UNCHANGED <<redis, lock, batch, cloud, st, usageLoop, lostLoop, usage>>

\* mapper.Write with KeepTTL: a key that is gone meanwhile comes back with none.
MarkAsFinishedWrite(r) ==
    /\ proc[r].pc = "finishWrite"
    /\ \/ rec' = proc[r].snap /\ ttl' = (Present /\ ttl) /\ UNCHANGED faults
       \/ Fault /\ UNCHANGED <<rec, ttl>>
    /\ Goto(r, "unlock", Absent)
    /\ UNCHANGED <<sets, lock, batch, cloud, st, usageLoop, lostLoop, usage>>

\* AbortTask of a record with a task is StopTask; without one, the stop reason
\* is left for the starter to find.
AbortTask(r) ==
    /\ proc[r].pc = "handler"
    /\ proc[r].op = "abort"
    /\ LET snap == [proc[r].snap EXCEPT !.reason = "aborted"]
       IN  IF snap.task = NoTask
           THEN WritedByWorker(r, snap, {}, {}, FALSE) /\ Goto(r, "await", Absent)
           ELSE UNCHANGED batch /\ Goto(r, "stop", snap)
    /\ UNCHANGED <<redis, lock, cloud, st, usageLoop, lostLoop, usage, faults>>

\* LockGenericTaskCache, after c.Next() has returned.
UnlockGenericTaskCache(r) ==
    /\ proc[r].pc = "unlock"
    /\ ReleaseLock
    /\ Goto(r, "done", Absent)
    /\ UNCHANGED <<redis, batch, cloud, st, usageLoop, lostLoop, usage>>

\* ValidateMapperPresence and ValidateSessionStatus.
ValidateSession(r, op) ==
    /\ proc[r].pc = "arrive"
    /\ op \in SessionOps
    /\ LET rejected == rec.status \in {"absent", "queued", "stopped"} \/ ~rec.sid
       IN  proc' = [proc EXCEPT ![r] =
                      IF rejected THEN [proc[r] EXCEPT !.pc = "rejected"]
                      ELSE [pc |-> "touch", op |-> op, snap |-> rec]]
    /\ UNCHANGED <<redis, lock, batch, cloud, st, usageLoop, lostLoop, usage, faults>>

\* A plausible bug: the access time is stored with the record the request
\* read when it arrived.
AccessedBlindly(snap) == [snap EXCEPT !.idle = FALSE]

\* What UpdateAccessedAt makes of the record: a watched read and write, which
\* leaves a stopped or missing one as it is.
Accessed(snap) == IF rec.status \in {"absent", "stopped"} THEN rec ELSE [rec EXCEPT !.idle = FALSE]

\* UpdateLastAccessTime.  Its error, after five lost races or a failed call,
\* is only logged.  CloseSession follows with StopTask, the other routes with
\* a proxied request that changes nothing here.
UpdateLastAccessTime(r) ==
    /\ proc[r].pc = "touch"
    /\ \/ rec' = Accessed(proc[r].snap) /\ UNCHANGED faults
       \/ Fault /\ UNCHANGED rec
    /\ IF proc[r].op = "close"
       THEN Goto(r, "stop", [proc[r].snap EXCEPT !.reason = "finished", !.idle = FALSE])
       ELSE Goto(r, "done", Absent)
    /\ UNCHANGED <<ttl, sets, lock, batch, cloud, st, usageLoop, lostLoop, usage>>

-----------------------------------------------------------------------------
(* service.StopTask, on the entity its caller holds *)

\* Where a process goes when its StopTask returns.
AfterStop(p) == IF p \in Loops THEN "idle"
                ELSE IF proc[p].op \in GenericOps THEN "unlock" ELSE "done"

\* Where a process goes when its StopTask returns an error.
AfterFailedStop(p) == IF proc[p].snap.reason = "maxTimeout"
                      THEN Goto(p, "force", proc[p].snap)
                      ELSE Goto(p, AfterStop(p), Absent)

StopTask(p) ==
    /\ proc[p].pc = "stop"
    /\ LET snap == proc[p].snap
       IN  \/ StopTaskForcibly(snap.task) /\ Goto(p, "append", [snap EXCEPT !.status = "stopped"])
           \/ StopTaskFails /\ AfterFailedStop(p)
    /\ UNCHANGED <<redis, lock, batch, old, st, usageLoop, lostLoop, usage>>

\* A plausible bug: a stopped session leaves the tasks set too, before it is accounted for.
StopTaskWriteUntracked(p) ==
    /\ proc[p].pc = "append"
    /\ WritedByWorker(p, proc[p].snap, {}, Sets, TRUE)
    /\ Goto(p, "await", proc[p].snap)
    /\ UNCHANGED <<redis, lock, cloud, st, usageLoop, lostLoop, usage, faults>>

\* The stopped entity, for ten minutes, out of the sessions set.  It stays in
\* the tasks set until its usage is tracked.
StopTaskWrite(p) ==
    /\ proc[p].pc = "append"
    /\ LET snap == proc[p].snap
       IN  /\ WritedByWorker(p, snap, {}, IF snap.sid THEN {"SESSION"} ELSE {}, TRUE)
           /\ Goto(p, "await", snap)
    /\ UNCHANGED <<redis, lock, cloud, st, usageLoop, lostLoop, usage, faults>>

Written(p) ==
    /\ proc[p].pc = "await"
    /\ Answered(p)
    /\ Goto(p, AfterStop(p), Absent)
    /\ UNCHANGED <<redis, lock, batch, cloud, st, usageLoop, lostLoop, usage, faults>>

WriteFailed(p) ==
    /\ proc[p].pc = "failed"
    /\ AfterFailedStop(p)
    /\ UNCHANGED <<redis, lock, batch, cloud, st, usageLoop, lostLoop, usage, faults>>

-----------------------------------------------------------------------------
(* The scaler *)

\* stopIdleSessions: the sessions set, its records and the first check ...
IdleScan ==
    /\ "idle" \in Watch
    /\ proc[IdleLoop].pc = "idle"
    /\ "SESSION" \in sets
    /\ IsIdle(rec)
    /\ Goto(IdleLoop, "listed", Absent)
    /\ UNCHANGED <<redis, lock, batch, cloud, st, usageLoop, lostLoop, usage, faults>>

\* ... then the actual record, checked once more, which StopTask is given.
IdleRecheck ==
    /\ proc[IdleLoop].pc = "listed"
    /\ \E m \in {rec, Absent} :
       /\ Find(m)
       /\ IF IsIdle(m)
          THEN Goto(IdleLoop, "stop", [m EXCEPT !.reason = "idleTimeout"])
          ELSE Goto(IdleLoop, "idle", Absent)
    /\ UNCHANGED <<redis, lock, batch, cloud, st, usageLoop, lostLoop, usage>>

\* GetKeys(TASK), FindAll: a record the task loops can work on.
Cached == "TASK" \in sets /\ Present /\ rec.task # NoTask

UnhealthyScan ==
    /\ "unhealthy" \in Watch
    /\ proc[UnhealthyLoop].pc = "idle"
    /\ Cached
    /\ Goto(UnhealthyLoop, "described", rec)
    /\ UNCHANGED <<redis, lock, batch, cloud, st, usageLoop, lostLoop, usage, faults>>

\* The described task is unhealthy, or older than its max timeout ...
UnhealthyStop ==
    /\ proc[UnhealthyLoop].pc = "described"
    /\ LET snap == proc[UnhealthyLoop].snap
       IN  /\ ecs[snap.task] = "running"
           /\ snap.status # "queued"
           /\ \E reason \in {"unhealthy", "maxTimeout"} :
                  Goto(UnhealthyLoop, "stop", [snap EXCEPT !.reason = reason])
    /\ UNCHANGED <<redis, lock, batch, cloud, st, usageLoop, lostLoop, usage, faults>>

\* ... or there is nothing to do for it yet.
UnhealthySkip ==
    /\ proc[UnhealthyLoop].pc = "described"
    /\ Goto(UnhealthyLoop, "idle", Absent)
    /\ UNCHANGED <<redis, lock, batch, cloud, st, usageLoop, lostLoop, usage, faults>>

\* A StopTask that failed at the max timeout is followed by StopTaskForcibly.
ForceStop ==
    /\ proc[UnhealthyLoop].pc = "force"
    /\ StopTaskForcibly(proc[UnhealthyLoop].snap.task) \/ StopTaskFails
    /\ Goto(UnhealthyLoop, "idle", Absent)
    /\ UNCHANGED <<redis, lock, batch, old, st, usageLoop, lostLoop, usage>>

\* trackResourceUsage: the cached records ...
UsageScan ==
    /\ "usage" \in Watch
    /\ usageLoop.pc = "idle"
    /\ Cached
    /\ usageLoop' = [pc |-> "described", snap |-> rec]
    /\ UNCHANGED <<redis, lock, batch, cloud, st, proc, lostLoop, usage, faults>>

\* A plausible bug: the exception for cypress is forgotten.
ToShapeStopped(snap) == ~snap.tracked /\ snap.status = "stopped"

\* ... those worth shaping once ECS reports their task stopped ...
ToShape(snap) == ~snap.tracked /\ snap.status \in {"stopped", "cypress"}

Shaped(snap) == IF snap.status = "cypress"
                THEN [snap EXCEPT !.tracked = TRUE, !.status = "stopped", !.reason = "finished"]
                ELSE [snap EXCEPT !.tracked = TRUE]

UsageDescribe ==
    /\ usageLoop.pc = "described"
    /\ LET snap == usageLoop.snap
       IN  usageLoop' = IF ecs[snap.task] = "stopped" /\ ToShape(snap)
                        THEN [pc |-> "shape", snap |-> Shaped(snap)]
                        ELSE [pc |-> "idle", snap |-> Absent]
    /\ UNCHANGED <<redis, lock, batch, cloud, st, proc, lostLoop, usage, faults>>

\* A plausible bug: the shaped record is left in the tasks set.
SetsAfterShapingKept == sets

\* WriteWithExpire takes the shaped uuid out of the tasks set.
SetsAfterShaping == sets \ {"TASK"}

\* A plausible bug: the usage is reported even if the shaped record was not
\* written.
UsageShapeIgnoresError ==
    /\ usageLoop.pc = "shape"
    /\ \/ Pipeline(usageLoop.snap, TRUE, SetsAfterShaping)
       \/ PipelineFails(usageLoop.snap, TRUE, SetsAfterShaping)
    /\ usageLoop' = IF usageLoop.snap.reason \in NotTracked
                    THEN [pc |-> "idle", snap |-> Absent]
                    ELSE [usageLoop EXCEPT !.pc = "send"]
    /\ UNCHANGED <<lock, batch, cloud, st, proc, lostLoop, usage>>

\* ... WriteShapedEntities, five minutes ...
UsageShape ==
    /\ usageLoop.pc = "shape"
    /\ \/ /\ Pipeline(usageLoop.snap, TRUE, SetsAfterShaping)
          /\ usageLoop' = IF usageLoop.snap.reason \in NotTracked
                          THEN [pc |-> "idle", snap |-> Absent]
                          ELSE [usageLoop EXCEPT !.pc = "send"]
       \/ /\ PipelineFails(usageLoop.snap, TRUE, SetsAfterShaping)
          /\ usageLoop' = [pc |-> "idle", snap |-> Absent]
    /\ UNCHANGED <<lock, batch, cloud, st, proc, lostLoop, usage>>

\* ... and the report, unless the write failed.
TrackResourcesUsage ==
    /\ usageLoop.pc = "send"
    /\ usage' = usage + 1
    /\ usageLoop' = [pc |-> "idle", snap |-> Absent]
    /\ UNCHANGED <<redis, lock, batch, cloud, st, proc, lostLoop, faults>>

\* stopLostTasks: the tasks cached records refer to ...
KnownTasks == IF Cached THEN {rec.task} ELSE {}

\* A plausible bug: the early return of the other loops, which have nothing
\* to do when no record is cached.
LostScanOfCached ==
    /\ "lost" \in Watch
    /\ lostLoop.pc = "idle"
    /\ Cached
    /\ lostLoop' = [pc |-> "list", known |-> KnownTasks]
    /\ UNCHANGED <<redis, lock, batch, cloud, st, proc, usageLoop, usage, faults>>

LostScan ==
    /\ "lost" \in Watch
    /\ lostLoop.pc = "idle"
    /\ lostLoop' = [pc |-> "list", known |-> KnownTasks]
    /\ UNCHANGED <<redis, lock, batch, cloud, st, proc, usageLoop, usage, faults>>

Lost(t) == t \notin lostLoop.known /\ ecs[t] = "running" /\ t \in old

\* ... and the running ones nothing refers to for too long.
LostStop(t) ==
    /\ lostLoop.pc = "list"
    /\ Lost(t)
    /\ StopTaskForcibly(t) \/ StopTaskFails
    /\ lostLoop' = [lostLoop EXCEPT !.known = @ \cup {t}]
    /\ UNCHANGED <<redis, lock, batch, old, st, proc, usageLoop, usage>>

LostDone ==
    /\ lostLoop.pc = "list"
    /\ ~\E t \in Tasks : Lost(t)
    /\ lostLoop' = [pc |-> "idle", known |-> {}]
    /\ UNCHANGED <<redis, lock, batch, cloud, st, proc, usageLoop, usage, faults>>

-----------------------------------------------------------------------------
(* Redis, ECS, time and crashes *)

\* One iteration of a process's writeWorker: take, write, and answer every
\* waiter with the error.  The starter does not look at it.
FlushBatch(h) ==
    /\ batch[h].waiters # {}
    /\ LET item == batch[h]
           newSets == (sets \cup item.attach) \ item.detach
       IN  \/ /\ Pipeline(item.ent, item.expires, newSets)
              /\ UNCHANGED proc
           \/ /\ PipelineFails(item.ent, item.expires, newSets)
              /\ proc' = [p \in Procs |-> IF p \in item.waiters
                                         THEN [proc[p] EXCEPT !.pc = "failed"] ELSE proc[p]]
    /\ batch' = [batch EXCEPT ![h] = NoItem]
    /\ UNCHANGED <<lock, cloud, st, usageLoop, lostLoop, usage>>

\* Startup is over: the 10 minutes of the startup context have passed.
\* What remains of a generic start may wait for the lock for ever.
StartupOver == st.pc \in {"lock", "done", "crashed"}

\* A TTL runs out: 15 minutes for a queued record, so not during the startup;
\* 5 or 10 for a stopped one, which is longer than the minute between two
\* passes of the usage loop when that is on time.
Expire ==
    /\ Present /\ ttl
    /\ StartupOver
    /\ OnTime => ~(Cached /\ ToShape(rec))
    /\ rec' = Absent
    /\ ttl' = FALSE
    /\ UNCHANGED <<sets, lock, batch, cloud, actors, usage, faults>>

\* The idle timeout passes without an access.
GoIdle ==
    /\ rec.status = "active" /\ ~rec.idle
    /\ rec' = [rec EXCEPT !.idle = TRUE]
    /\ UNCHANGED <<ttl, sets, lock, batch, cloud, actors, usage, faults>>

TaskStarts(t) ==
    /\ ecs[t] = "pending"
    /\ ecs' = [ecs EXCEPT ![t] = "running"]
    /\ UNCHANGED <<redis, lock, batch, old, actors, usage, faults>>

\* A task ends by itself, or could not be placed.
TaskExits(t) ==
    /\ ecs[t] \in {"pending", "running"}
    /\ ecs' = [ecs EXCEPT ![t] = "stopped"]
    /\ UNCHANGED <<redis, lock, batch, old, actors, usage, faults>>

TaskStops(t) ==
    /\ ecs[t] = "stopping"
    /\ ecs' = [ecs EXCEPT ![t] = "stopped"]
    /\ UNCHANGED <<redis, lock, batch, old, actors, usage, faults>>

\* LostTaskCooldownTimeout, an hour, is longer than a startup and than a pass
\* of the lost loop.
TaskAges(t) ==
    /\ ecs[t] = "running"
    /\ t \notin old
    /\ StartupOver
    /\ lostLoop.pc = "idle"
    /\ old' = old \cup {t}
    /\ UNCHANGED <<redis, lock, batch, ecs, actors, usage, faults>>

\* A router is killed: its goroutines and its batch are gone, a lock one of
\* them held in Redis is not.
RouterCrash(h) ==
    /\ Fault
    /\ batch' = [batch EXCEPT ![h] = NoItem]
    /\ proc' = [p \in Procs |->
                   IF /\ p \in Requests /\ HostOf(p) = h
                      /\ proc[p].pc \notin {"arrive", "rejected", "done"}
                   THEN [proc[p] EXCEPT !.pc = "crashed", !.snap = Absent] ELSE proc[p]]
    /\ st' = IF h = Home /\ st.pc # "done"
             THEN [st EXCEPT !.pc = "crashed", !.seen = Absent,
                             !.late = IF PhaseIs("register") THEN "inflight" ELSE @]
             ELSE st
    /\ UNCHANGED <<redis, lock, cloud, usageLoop, lostLoop, usage>>

\* The scaler is killed and started again.
ScalerCrash ==
    /\ Fault
    /\ batch' = [batch EXCEPT ![Scaler] = NoItem]
    /\ proc' = [p \in Procs |->
                   IF p \in Loops THEN [proc[p] EXCEPT !.pc = "idle", !.snap = Absent] ELSE proc[p]]
    /\ usageLoop' = [pc |-> "idle", snap |-> Absent]
    /\ lostLoop' = [pc |-> "idle", known |-> {}]
    /\ UNCHANGED <<redis, lock, cloud, st, usage>>

-----------------------------------------------------------------------------
(* Specification *)

StarterStep ==
    \/ CreateEntity \/ Created \/ TaskDefinition
    \/ \E t \in Tasks : Register(t)
    \/ RegisterFails \/ StartTask \/ SetNetwork \/ StartDriver \/ PlaywrightReady
    \/ Check \/ Retry \/ FailStop \/ FailWrite
    \/ FinalizeLock \/ FinalizeFind \/ FinalizeStop
    \/ FinalizeWrite \/ FinalizeWritten \/ FinalizeUnlock

Arrive(r) == \E op \in OpsOf[Kind] :
                 ValidateGenericMapperPresence(r, op) \/ ValidateSession(r, op)

StopTaskStep(p) == StopTask(p) \/ StopTaskWrite(p) \/ Written(p) \/ WriteFailed(p)

RequestStep(r) ==
    \/ LockGenericTaskCache(r)
    \/ MarkAsFinished(r) \/ MarkAsFinishedWrite(r) \/ AbortTask(r)
    \/ UnlockGenericTaskCache(r)
    \/ UpdateLastAccessTime(r)
    \/ StopTaskStep(r)

IdleStep == IdleScan \/ IdleRecheck \/ StopTaskStep(IdleLoop)

UnhealthyStep == \/ UnhealthyScan \/ UnhealthyStop \/ UnhealthySkip \/ ForceStop
                 \/ StopTaskStep(UnhealthyLoop)

UsageStep == UsageScan \/ UsageDescribe \/ UsageShape \/ TrackResourcesUsage

LostStep == LostScan \/ LostDone \/ \E t \in Tasks : LostStop(t)

Next ==
    \/ StarterStep
    \/ \E t \in Tasks : LateRegister(t)
    \/ \E r \in Requests : Arrive(r) \/ RequestStep(r)
    \/ IdleStep \/ UnhealthyStep \/ UsageStep \/ LostStep
    \/ \E h \in Hosts : FlushBatch(h)
    \/ Expire \/ GoIdle
    \/ \E t \in Tasks : TaskStarts(t) \/ TaskExits(t) \/ TaskStops(t) \/ TaskAges(t)
    \/ \E h \in Routers : RouterCrash(h)
    \/ ScalerCrash

Spec == Init /\ [][Next]_vars

\* Goroutines and loops keep running, ECS carries out what it accepted and
\* time passes.  Nobody is obliged to send a request, a task need not end by
\* itself, and nothing has to fail.  A task that runs on is at some pass of
\* the unhealthy loop older than its max timeout.
Fairness ==
    /\ WF_vars(StarterStep)
    /\ \A r \in Requests : WF_vars(RequestStep(r))
    /\ WF_vars(IdleStep) /\ WF_vars(UnhealthyStep) /\ SF_vars(UnhealthyStop)
    /\ WF_vars(UsageStep) /\ WF_vars(LostStep)
    /\ \A h \in Hosts : WF_vars(FlushBatch(h))
    /\ WF_vars(Expire) /\ WF_vars(GoIdle)
    /\ \A t \in Tasks : WF_vars(TaskStarts(t)) /\ WF_vars(TaskStops(t)) /\ SF_vars(TaskAges(t))

FairSpec == Spec /\ Fairness

-----------------------------------------------------------------------------
(* Properties *)

\* The resource usage of a session is reported at most once, whatever stale
\* copies of its record are written back after it was shaped: the tasks set,
\* which a session joins once, decides, and not the UsageTracked flag.
UsageReportedAtMostOnce == usage <= 1

\* "#1056": between its Find and its write the finalizer of a generic session
\* holds the lock, so nothing it has not seen is overwritten.  Only the TTL
\* of the queued record can run out under it, and a Find that fails finds
\* nothing.
FinalizerOverwritesWhatItSaw ==
    /\ Kind = "generic"
    /\ st.pc \in {"finStop", "finWrite"} \/ (st.pc = "await" /\ ~Answered(Starter))
    => rec = st.seen \/ ~Present \/ (faults > 0 /\ st.seen = Absent)

\* A start that ends with a task it reported as failed or aborted has asked
\* ECS to stop that task.
RejectedTaskIsStopped ==
    /\ faults = 0
    /\ st.pc = "done"
    /\ st.ent.reason \in {"aborted", "startupFailure"}
    /\ st.ent.task # NoTask
    => ecs[st.ent.task] \in {"stopping", "stopped"}

\* No task runs for ever: whatever crashes, fails or is written stale, either
\* the unhealthy loop or the lost loop gets to it.
NoTaskRunsForever == \A t \in Tasks : (ecs[t] = "running") ~> (ecs[t] = "stopped")

\* Nothing of a session stays in Redis.  A generic task that ends without
\* MarkAsFinished leaves an active record behind.
SessionIsForgotten == <>[](Kind = "generic" \/ (~Present /\ sets = {}))

\* A session that was served is accounted for, unless it ended for a reason
\* that is not tracked, or something failed.
ServedIsAccounted ==
    (Kind # "generic" /\ rec.status \in {"active", "cypress"})
        ~> (usage = 1 \/ rec.reason \in NotTracked \/ faults > 0)

\* The abstract session.  A generic session makes no promise beyond the queue:
\* MarkAsFinished may write an older copy of its record.
Open == /\ st.pc \notin {"unlock", "done", "crashed"}
        /\ st.pc \in {"await", "failAwait"} => ~Answered(Starter)

Life == INSTANCE SessionLife WITH
            record <- IF Kind = "generic" THEN "absent"
                      ELSE IF rec.status \in {"active", "cypress"} THEN "served" ELSE rec.status,
            open <- Kind = "generic" \/ Open,
            usage <- IF Kind = "generic" THEN 0 ELSE usage

ImplementsLife == Life!Spec

-----------------------------------------------------------------------------
(* Statements of the repository that the code does not keep *)

\* cmd/router/main.go: DELETE /tasks/:uuid is there "to be able to abort
\* generic tasks by uuid".
AbortedTaskIsStopped ==
    \A r \in Requests :
        /\ proc[r].pc = "done" /\ proc[r].op = "abort"
        /\ faults = 0 /\ st.pc = "done" /\ st.ent.task # NoTask
        => ecs[st.ent.task] \in {"stopping", "stopped"}

\* cmd/scaler/main.go: "track resources usage for STOPPED tasks".  The usage
\* loop finds the task of a record in the tasks set by its TaskId.
FinishedTaskIsAccounted ==
    /\ "TASK" \in sets /\ rec.status = "stopped" /\ rec.reason = "finished"
    /\ st.pc = "done" /\ st.ent.status = "active"
    => rec.task = st.ent.task
=============================================================================
