------------------------ MODULE SessionStart_proofs ------------------------
(****************************************************************************)
(* What the starter may still write about a session (starter/starter.go),   *)
(* against the routes, the loops and the write batches that touch the same  *)
(* record.  Two theorems about the steps of Session:                        *)
(*                                                                          *)
(*  - FinalizerIsExclusive: when the finalizer writes a generic session     *)
(*    back, the record is the one it read under the task's lock;            *)
(*  - RejectedTasksStop: a start that was aborted or that failed has asked  *)
(*    ECS to stop its task before it ends.                                  *)
(*                                                                          *)
(* Type correctness (Inv, of Session_proofs) is not enough for either: the  *)
(* invariant StartInv adds three parts, each proved from those before it.   *)
(*                                                                          *)
(*  - Base: who waits on which batch item, and that nothing but the starter *)
(*    and the requests is under way while the starter has not published     *)
(*    (Open): the sets the loops scan are filled by its last write.         *)
(*  - GenericStart, while a generic start is Open: no copy of the record    *)
(*    says more than queued, or finished by a request (Unpublished); the    *)
(*    lock of utils-set excludes the finalizer and the requests (Mutex); so *)
(*    the record cannot change between the finalizer's read and its write   *)
(*    (Window).                                                             *)
(*  - Reasoned: the entity carries a reason only on the way out, and then   *)
(*    its task was asked to stop.  This needs Unpublished: the finalizer    *)
(*    takes the reason from the record, and does not stop the task of one   *)
(*    that is stopped already: such a record must not say aborted.          *)
(*                                                                          *)
(* A step of the system falls into one of the groups of StepKinds; most of  *)
(* them change little, which is stated once (the Frame lemmas), and each    *)
(* part of the invariant is carried through the groups one by one.          *)
(****************************************************************************)
EXTENDS Session_proofs

\* Who waits on the write of a batch (WritedByWorker blocks its caller): the starter on
\* its own router's, a request or a loop on that of the process it runs in, each in the
\* step that waits.
Waiters ==
    \A h \in Hosts :
        /\ Starter \in batch[h].waiters =>
               h = Home /\ st.pc \in {"createWait", "failAwait", "await"}
        /\ \A p \in Procs : p \in batch[h].waiters => HostOf(p) = h /\ proc[p].pc = "await"

\* Only the starter's last write carries set members to add: a batch that has them is
\* one the starter waits on.
Attached ==
    \A h \in Hosts : batch[h].attach # {} =>
        Starter \in batch[h].waiters /\ st.pc \in {"failAwait", "await"}

\* Until the starter publishes, the idle, unhealthy and running sets are empty, so that
\* the loops that scan them have nothing in hand.
Early ==
    Open => /\ sets = {}
            /\ usageLoop.pc = "idle"
            /\ \A p \in Loops : proc[p].pc = "idle"

\* A copy of a generic record from before its publication: absent, queued, aborted
\* while queued or finished by a request, and without a task.
Unserved(e) ==
    /\ e.status \in {"absent", "queued", "stopped"}
    /\ e.reason \in {"none", "aborted", "finished"}
    /\ e.status = "stopped" => e.reason = "finished"
    /\ e.task = NoTask

\* Every copy of the record is from before the publication: in Redis, in the hands of
\* the requests, in the pending batches but for the starter's own.
Unpublished ==
    /\ Unserved(rec)
    /\ \A r \in Requests :
           /\ proc[r].pc \notin {"touch", "stop", "append", "force"}
           /\ Unserved(proc[r].snap)
           /\ proc[r].pc \in {"lock", "handler"} => proc[r].snap.status # "stopped"
    /\ \A h \in Hosts :
           (Starter \in batch[h].waiters => st.pc = "createWait") => Unserved(batch[h].ent)

\* The steps of a request between LockGenericTaskCache and UnlockGenericTaskCache, and
\* those of the finalizer between its lock and its unlock.
Holds(r) == proc[r].pc \in {"handler", "finishWrite", "await", "failed", "unlock"}
StarterHolds == st.pc \in {"find", "finStop", "finWrite", "await"}

\* The lock of the generic task excludes the finalizer and the requests from each
\* other.
Mutex ==
    /\ StarterHolds => lock = TRUE /\ \A r \in Requests : ~Holds(r)
    /\ \A r \in Requests : Holds(r) => lock = TRUE
    /\ \A q, r \in Requests : Holds(q) /\ Holds(r) => q = r

\* From the finalizer's read to its write, the record is the one it read, or it is
\* gone, or the read itself failed.
Window ==
    st.pc \in {"finStop", "finWrite", "await"} =>
        rec = st.seen \/ ~Present \/ (faults > 0 /\ st.seen = Absent)

\* All three hold as long as the starter of a generic task may still publish.
GenericStart == Kind = "generic" /\ Open => Unpublished /\ Mutex /\ Window

\* What holds of every kind of session.
Base == Waiters /\ Attached /\ Early

-----------------------------------------------------------------------------
(* What the steps leave alone *)

\* A starter between two writes changes nothing but itself and ECS.
StarterMoves ==
    \/ Created \/ TaskDefinition \/ (\E t \in Tasks : Register(t)) \/ RegisterFails
    \/ StartTask \/ SetNetwork \/ StartDriver \/ PlaywrightReady \/ Check \/ Retry
    \/ FailStop \/ FinalizeLock \/ FinalizeFind \/ FinalizeStop \/ FinalizeWritten
    \/ FinalizeUnlock \/ (\E t \in Tasks : LateRegister(t))

\* A request or a loop that reads, waits or stops a task changes nothing but
\* itself, the lock and ECS.
ProcMoves(p) ==
    \/ (\E op \in OpsOf[Kind] : ValidateGenericMapperPresence(p, op) \/ ValidateSession(p, op))
    \/ LockGenericTaskCache(p) \/ MarkAsFinished(p) \/ UnlockGenericTaskCache(p)
    \/ StopTask(p) \/ Written(p) \/ WriteFailed(p)
    \/ p = IdleLoop /\ (IdleScan \/ IdleRecheck)
    \/ p = UnhealthyLoop /\ (UnhealthyScan \/ UnhealthyStop \/ UnhealthySkip \/ ForceStop)

\* ECS, the clock and the lost loop.
CloudMoves ==
    \/ LostScan \/ LostDone \/ (\E t \in Tasks : LostStop(t))
    \/ \E t \in Tasks : TaskStarts(t) \/ TaskExits(t) \/ TaskStops(t) \/ TaskAges(t)
    \/ UNCHANGED vars

\* The end of a process: the scaler's, or one router's.
Crash == ScalerCrash \/ \E h \in Routers : RouterCrash(h)

\* A starter between two writes leaves Redis, the batches, the requests and the loops
\* alone, and moves on from a wait only when its batch was written.
LEMMA StarterMovesFrame ==
    ASSUME Inv, StarterMoves
    PROVE  /\ UNCHANGED <<rec, ttl, sets, batch, proc, usageLoop, usage>>
           /\ st'.kind = st.kind
           /\ Open' => Open
           /\ Starter \in batch[Home].waiters =>
                  st.pc \notin {"createWait", "failAwait", "await"} \/ st'.pc = st.pc
  <1>0. st \in StarterState
    BY DEF Inv, TypeOK
  <1>h. Answered(Starter) <=> Starter \notin batch[Home].waiters
    BY HostOfType DEF Answered
  <1> USE DEF redis, StarterState, PhaseReturns, PhaseIs, PhaseFrame
  <1>1. UNCHANGED <<rec, ttl, sets, batch, proc, usageLoop, usage>>
    BY DEF StarterMoves, Created, TaskDefinition, Register, RegisterFails, StartTask,
       SetNetwork, StartDriver, PlaywrightReady, Check, Retry, FailStop, FinalizeLock,
       FinalizeFind, FinalizeStop, FinalizeWritten, FinalizeUnlock, LateRegister
  <1>2. UNCHANGED Answered(Starter)
    BY <1>1 DEF Answered
  <1>a. CASE Created
    BY <1>0, <1>1, <1>2, <1>h, <1>a DEF Created, Open
  <1>b. CASE TaskDefinition
    BY <1>0, <1>1, <1>2, <1>h, <1>b DEF TaskDefinition, Open
  <1>c. CASE \E t \in Tasks : Register(t)
    BY <1>0, <1>1, <1>2, <1>h, <1>c DEF Register, Open
  <1>d. CASE RegisterFails
    BY <1>0, <1>1, <1>2, <1>h, <1>d DEF RegisterFails, Open
  <1>e. CASE StartTask
    BY <1>0, <1>1, <1>2, <1>h, <1>e DEF StartTask, Open
  <1>f. CASE SetNetwork
    BY <1>0, <1>1, <1>2, <1>h, <1>f DEF SetNetwork, Open
  <1>g. CASE StartDriver
    BY <1>0, <1>1, <1>2, <1>h, <1>g DEF StartDriver, Open
  <1>i. CASE PlaywrightReady
    BY <1>0, <1>1, <1>2, <1>h, <1>i DEF PlaywrightReady, Open
  <1>j. CASE Check
    BY <1>0, <1>1, <1>2, <1>h, <1>j DEF Check, FailWith, Open
  <1>k. CASE Retry \/ FailStop \/ FinalizeStop
    BY <1>0, <1>1, <1>2, <1>h, <1>k DEF Retry, FailStop, FinalizeStop, Open
  <1>l. CASE FinalizeLock \/ FinalizeFind \/ FinalizeUnlock
    BY <1>0, <1>1, <1>2, <1>h, <1>l DEF FinalizeLock, FinalizeFind, FinalizeUnlock, Open
  <1>m. CASE FinalizeWritten
    BY <1>0, <1>1, <1>2, <1>h, <1>m DEF FinalizeWritten, Open
  <1>n. CASE \E t \in Tasks : LateRegister(t)
    BY <1>0, <1>1, <1>2, <1>h, <1>n DEF LateRegister, Open
  <1> QED
    BY <1>1, <1>a, <1>b, <1>c, <1>d, <1>e, <1>f, <1>g, <1>i, <1>j, <1>k, <1>l, <1>m, <1>n
       DEF StarterMoves

\* A request or a loop between two writes leaves the record, the batches and everyone
\* else alone, and leaves a wait only when it was answered.
LEMMA ProcMovesFrame ==
    ASSUME Inv, NEW p \in Procs, ProcMoves(p)
    PROVE  /\ UNCHANGED <<rec, ttl, sets, batch, st, usageLoop, usage>>
           /\ \A q \in Procs \ {p} : proc'[q] = proc[q]
           /\ proc[p].pc = "await" => Answered(p)
           /\ proc'[p].pc # "await"
  <1>0. proc \in [Procs -> ProcState]
    BY DEF Inv, TypeOK
  <1> USE DEF redis, ProcMoves, ValidateGenericMapperPresence, ValidateSession,
              LockGenericTaskCache, MarkAsFinished, UnlockGenericTaskCache, StopTask, Written,
              WriteFailed, IdleScan, IdleRecheck, UnhealthyScan, UnhealthyStop, UnhealthySkip,
              ForceStop
  <1>1. UNCHANGED <<rec, ttl, sets, batch, st, usageLoop, usage>>
    OBVIOUS
  <1>2. \A q \in Procs \ {p} : proc'[q] = proc[q]
    BY <1>0 DEF Goto, AfterFailedStop
  <1>3. proc[p].pc = "await" => Answered(p)
    OBVIOUS
  <1>4. proc'[p].pc # "await"
    BY <1>0 DEF Goto, AfterFailedStop, AfterStop, ProcState
  <1> QED
    BY <1>1, <1>2, <1>3, <1>4

\* While the starter has not published, the loops find nothing in the sets.
LEMMA LoopsIdle ==
    ASSUME Early, Open, NEW p \in Loops
    PROVE  ~ProcMoves(p) /\ ~StopTaskWrite(p)
  BY DEF Early, ProcMoves, ValidateGenericMapperPresence, ValidateSession,
         LockGenericTaskCache, MarkAsFinished, UnlockGenericTaskCache, StopTask, Written,
         WriteFailed, IdleScan, IdleRecheck, UnhealthyScan, UnhealthyStop, UnhealthySkip,
         ForceStop, StopTaskWrite, Cached, Loops, IdleLoop, UnhealthyLoop

\* ECS and the lost loop touch neither Redis nor any process.
LEMMA CloudMovesFrame ==
    ASSUME CloudMoves
    PROVE  UNCHANGED <<rec, ttl, sets, lock, batch, st, proc, usageLoop, usage>>
  BY DEF CloudMoves, LostScan, LostDone, LostStop, TaskStarts, TaskExits, TaskStops, TaskAges,
         vars, redis, actors

-----------------------------------------------------------------------------

\* Base is kept by the starter's moves: whoever waits stays where it is.
LEMMA StarterMovesBase == ASSUME Inv, Base, StarterMoves PROVE Base'
  BY StarterMovesFrame DEF Base, Waiters, Attached, Early

\* Base is kept by the requests and the loops that read, wait or stop a task.
LEMMA ProcMovesBase == ASSUME Inv, Base, NEW p \in Procs, ProcMoves(p) PROVE Base'
  <1>1. UNCHANGED Open
    BY ProcMovesFrame DEF Open, Answered
  <1>2. Waiters' /\ Attached'
    BY ProcMovesFrame DEF Base, Waiters, Attached, Answered
  <1>3. Early'
    BY <1>1, ProcMovesFrame, LoopsIdle DEF Base, Early, Procs
  <1> QED
    BY <1>2, <1>3 DEF Base

\* Base is kept by ECS, the clock and the lost loop.
LEMMA CloudMovesBase == ASSUME Inv, Base, CloudMoves PROVE Base'
  <1>1. UNCHANGED Open
    BY CloudMovesFrame DEF Open, Answered
  <1> QED
    BY <1>1, CloudMovesFrame DEF Base, Waiters, Attached, Early

\* Base is kept by the usage loop, which has nothing to scan before the publication.
LEMMA UsageStepBase == ASSUME Inv, Base, UsageStep PROVE Base'
  <1>1. UNCHANGED <<batch, st, proc>>
    BY DEF UsageStep, UsageScan, UsageDescribe, UsageShape, TrackResourcesUsage
  <1>2. UNCHANGED Open
    BY <1>1 DEF Open, Answered
  <1>3. ~Open
    BY DEF Base, Early, UsageStep, UsageScan, UsageDescribe, UsageShape, TrackResourcesUsage, Cached
  <1> QED
    BY <1>1, <1>2, <1>3 DEF Base, Waiters, Attached, Early

\* Base is kept by the writes made outside the batch: the expiry of a record,
\* MarkAsFinished and UpdateLastAccessTime.
LEMMA RecordMovesBase ==
    ASSUME Inv, Base, \/ Expire \/ GoIdle
                      \/ \E r \in Requests : MarkAsFinishedWrite(r) \/ UpdateLastAccessTime(r)
    PROVE  Base'
  <1>0. proc \in [Procs -> ProcState]
    BY DEF Inv, TypeOK
  <1>1. UNCHANGED <<batch, st, sets, usageLoop>>
    BY DEF Expire, GoIdle, MarkAsFinishedWrite, UpdateLastAccessTime, actors
  <1>2. UNCHANGED Open
    BY <1>1 DEF Open, Answered
  <1>3. \A p \in Procs : /\ proc[p].pc = "await" => proc'[p] = proc[p]
                         /\ p \in Loops => proc'[p] = proc[p]
    BY <1>0, SessionAssumption
       DEF Expire, GoIdle, MarkAsFinishedWrite, UpdateLastAccessTime, actors, Goto, Procs, Loops
  <1> QED
    BY <1>1, <1>2, <1>3 DEF Base, Waiters, Attached, Early, Procs

\* The item of WritedByWorker.
LEMMA WritedByWorkerItem ==
    ASSUME TypeOK, NEW p \in Procs \cup {Starter}, NEW e, NEW attach, NEW detach, NEW expires,
           WritedByWorker(p, e, attach, detach, expires)
    PROVE  /\ batch'[HostOf(p)] = [waiters |-> batch[HostOf(p)].waiters \cup {p}, ent |-> e,
                                   attach |-> attach, detach |-> detach, expires |-> expires]
           /\ \A h \in Hosts \ {HostOf(p)} : batch'[h] = batch[h]
  BY HostOfType DEF TypeOK, WritedByWorker

\* Base is kept by the three writes of the starter, which join it to its router's
\* batch: the queued record, the failed one and the published one.
LEMMA StarterWritesBase ==
    ASSUME Inv, Base, CreateEntity \/ FailWrite \/ FinalizeWrite
    PROVE  Base'
  <1>0. st \in StarterState
    BY DEF Inv, TypeOK
  <1>1. UNCHANGED <<rec, ttl, sets, proc, usageLoop, usage, lock>>
    BY DEF CreateEntity, FailWrite, FinalizeWrite, redis
  <1>2. batch \in [Hosts -> Item] /\ Home \in Hosts /\ HostOf(Starter) = Home
    BY HostOfType DEF Inv, TypeOK
  <1>3. /\ batch'[Home].waiters = batch[Home].waiters \cup {Starter}
        /\ CreateEntity => batch'[Home].attach = {}
        /\ \A h \in Hosts \ {Home} : batch'[h] = batch[h]
    BY <1>0, <1>2 DEF CreateEntity, FailWrite, FinalizeWrite, WritedByWorker
  <1>4. /\ st.pc \in {"create", "failWrite", "finWrite"}
        /\ st'.pc \in {"createWait", "failAwait", "await"}
        /\ CreateEntity \/ st'.pc \in {"failAwait", "await"}
    BY <1>0 DEF CreateEntity, FailWrite, FinalizeWrite, StarterState
  <1>5. Open
    BY <1>4 DEF Open
  <1>6. Starter \notin Procs
    BY SessionAssumption DEF Starter, Procs, Loops, IdleLoop, UnhealthyLoop
  <1>7. Waiters'
    BY <1>1, <1>3, <1>4, <1>6, HostOfType DEF Base, Waiters
  <1>8. Attached'
    BY <1>3, <1>4 DEF Base, Attached
  <1>9. Early'
    BY <1>1, <1>5 DEF Base, Early
  <1> QED
    BY <1>7, <1>8, <1>9 DEF Base

\* The batched write of a request or a loop (an abort, a stop) joins it to the batch of
\* its own process, with nothing to attach, and changes nobody else.
LEMMA ProcWritesFrame ==
    ASSUME Inv, NEW p \in Procs, AbortTask(p) \/ StopTaskWrite(p)
    PROVE  /\ UNCHANGED <<rec, ttl, sets, lock, st, usageLoop, usage, faults>>
           /\ UNCHANGED Open
           /\ \/ /\ batch'[HostOf(p)].waiters = batch[HostOf(p)].waiters \cup {p}
                 /\ batch'[HostOf(p)].attach = {}
                 /\ \A h \in Hosts \ {HostOf(p)} : batch'[h] = batch[h]
                 /\ proc'[p].pc = "await"
              \/ UNCHANGED batch
           /\ proc[p].pc \in {"handler", "append"}
           /\ \A q \in Procs \ {p} : proc'[q] = proc[q]
  <1>0. proc \in [Procs -> ProcState] /\ batch \in [Hosts -> Item] /\ HostOf(p) \in Hosts
    BY HostOfType DEF Inv, TypeOK
  <1>1. UNCHANGED <<rec, ttl, sets, lock, st, usageLoop, usage, faults>>
    BY DEF AbortTask, StopTaskWrite, redis
  <1>2. \/ /\ batch'[HostOf(p)].waiters = batch[HostOf(p)].waiters \cup {p}
           /\ batch'[HostOf(p)].attach = {}
           /\ \A h \in Hosts \ {HostOf(p)} : batch'[h] = batch[h]
           /\ proc'[p].pc = "await"
        \/ UNCHANGED batch
    BY <1>0 DEF AbortTask, StopTaskWrite, WritedByWorker, Goto, ProcState
  <1>3. /\ proc[p].pc \in {"handler", "append"}
        /\ \A q \in Procs \ {p} : proc'[q] = proc[q]
    BY <1>0 DEF AbortTask, StopTaskWrite, Goto
  <1>4. Starter \notin Procs
    BY SessionAssumption DEF Starter, Procs, Loops, IdleLoop, UnhealthyLoop
  <1>5. UNCHANGED Open
    BY <1>0, <1>1, <1>2, <1>4, HostOfType DEF Open, Answered
  <1> QED
    BY <1>1, <1>2, <1>3, <1>5

\* Base is kept by the batched writes of the requests and the loops.
LEMMA ProcWritesBase ==
    ASSUME Inv, Base, NEW p \in Procs, AbortTask(p) \/ StopTaskWrite(p)
    PROVE  Base'
  <1>4. Starter \notin Procs
    BY SessionAssumption DEF Starter, Procs, Loops, IdleLoop, UnhealthyLoop
  <1>6. Waiters'
    BY <1>4, ProcWritesFrame DEF Base, Waiters
  <1>7. Attached'
    BY ProcWritesFrame DEF Base, Attached
  <1>8. Early'
    BY ProcWritesFrame DEF Base, Early, Loops, Procs
  <1> QED
    BY <1>6, <1>7, <1>8 DEF Base

\* Base is kept by a batch that is written or fails: its waiters are answered, and the
\* members it attaches are those of a start that is now published.
LEMMA FlushBatchBase == ASSUME Inv, Base, NEW h \in Hosts, FlushBatch(h) PROVE Base'
  <1>0. /\ proc \in [Procs -> ProcState]
        /\ batch \in [Hosts -> Item]
        /\ NoItem.waiters = {}
        /\ NoItem.attach = {}
    BY DEF Inv, TypeOK, NoItem
  <1>1. /\ UNCHANGED <<st, usageLoop>>
        /\ batch'[h] = NoItem
        /\ \A g \in Hosts \ {h} : batch'[g] = batch[g]
    BY <1>0 DEF FlushBatch
  <1>2. \A p \in Procs : p \notin batch[h].waiters => proc'[p] = proc[p]
    BY <1>0 DEF FlushBatch
  <1>3. Waiters' /\ Attached'
    BY <1>0, <1>1, <1>2 DEF Base, Waiters, Attached
  <1>4. ASSUME Open' PROVE Open /\ batch[h].attach = {}
    BY <1>0, <1>1, <1>4, HostOfType DEF Open, Answered, Base, Waiters, Attached
  <1>5. ASSUME Open' PROVE UNCHANGED sets
    <2>1. sets' \subseteq sets \cup batch[h].attach
      BY DEF FlushBatch, Pipeline, PipelineFails, redis
    <2> QED
      BY <1>4, <1>5, <2>1 DEF Base, Early
  <1>6. ASSUME Open', NEW p \in Loops PROVE proc'[p] = proc[p]
    BY <1>2, <1>4, <1>6 DEF Base, Early, Waiters, Procs
  <1>7. Early'
    BY <1>1, <1>4, <1>5, <1>6 DEF Base, Early
  <1> QED
    BY <1>3, <1>7 DEF Base

\* Base is kept when a router dies with its batch, its requests and, at home, the
\* starter.
LEMMA RouterCrashBase == ASSUME Inv, Base, NEW h \in Routers, RouterCrash(h) PROVE Base'
  <1>0. /\ proc \in [Procs -> ProcState] /\ batch \in [Hosts -> Item] /\ st \in StarterState
        /\ NoItem.waiters = {} /\ NoItem.attach = {}
        /\ h \in Hosts
    BY DEF Inv, TypeOK, NoItem, Hosts
  <1>1. /\ UNCHANGED <<sets, usageLoop>>
        /\ batch'[h] = NoItem
        /\ \A g \in Hosts \ {h} : batch'[g] = batch[g]
    BY <1>0 DEF RouterCrash, redis
  <1>2. \A p \in Procs : p \in Loops \/ HostOf(p) # h => proc'[p] = proc[p]
    BY <1>0, SessionAssumption DEF RouterCrash, Loops
  <1>3. \/ h = Home /\ st'.pc \in {"done", "crashed"}
        \/ h # Home /\ UNCHANGED st
    BY <1>0 DEF RouterCrash, StarterState
  <1>4. Waiters' /\ Attached'
    BY <1>0, <1>1, <1>2, <1>3, HostOfType DEF Base, Waiters, Attached
  <1>5. Open' => Open
    BY <1>0, <1>1, <1>3, HostOfType DEF Open, Answered
  <1>7. Early'
    BY <1>1, <1>2, <1>5 DEF Base, Early, Procs
  <1> QED
    BY <1>4, <1>7 DEF Base

\* Base is kept when the scaler dies with its batch and its loops.
LEMMA ScalerCrashBase == ASSUME Inv, Base, ScalerCrash PROVE Base'
  <1>0. /\ proc \in [Procs -> ProcState] /\ batch \in [Hosts -> Item]
        /\ NoItem.waiters = {} /\ NoItem.attach = {}
    BY DEF Inv, TypeOK, NoItem, Hosts
  <1>1. /\ UNCHANGED <<sets, st>>
        /\ batch'[Scaler] = NoItem
        /\ \A g \in Hosts \ {Scaler} : batch'[g] = batch[g]
    BY <1>0, HostOfType DEF ScalerCrash, redis
  <1>2. \A p \in Procs : IF p \in Loops THEN proc'[p].pc = "idle" ELSE proc'[p] = proc[p]
    BY <1>0 DEF ScalerCrash, ProcState
  <1>3. usageLoop'.pc = "idle"
    BY DEF ScalerCrash
  <1>4. Home # Scaler /\ \A p \in Loops : HostOf(p) = Scaler
    BY SessionAssumption DEF HostOf, Loops, Starter, IdleLoop, UnhealthyLoop
  <1>5. Waiters' /\ Attached'
    BY <1>0, <1>1, <1>2, <1>4 DEF Base, Waiters, Attached
  <1>6. Open' => Open
    BY <1>1, <1>4, HostOfType DEF Open, Answered
  <1>7. Early'
    BY <1>1, <1>2, <1>3, <1>6 DEF Base, Early, Procs
  <1> QED
    BY <1>5, <1>7 DEF Base

-----------------------------------------------------------------------------

\* Every step of the system is of one of these kinds: the cases the proofs below go
\* through.
LEMMA StepKinds ==
    ASSUME Inv, [Next]_vars
    PROVE  \/ StarterMoves
           \/ CreateEntity \/ FailWrite \/ FinalizeWrite
           \/ \E p \in Procs : ProcMoves(p)
           \/ \E p \in Procs : StopTaskWrite(p)
           \/ \E r \in Requests : AbortTask(r)
           \/ \E r \in Requests : MarkAsFinishedWrite(r) \/ UpdateLastAccessTime(r)
           \/ Expire \/ GoIdle
           \/ UsageStep
           \/ CloudMoves
           \/ \E h \in Hosts : FlushBatch(h)
           \/ Crash
  <1>0. IdleLoop \in Procs /\ UnhealthyLoop \in Procs /\ Requests \subseteq Procs
    BY DEF Procs, Loops
  <1>1. CASE StarterStep
    BY <1>1 DEF StarterStep, StarterMoves
  <1>2. ASSUME NEW r \in Requests, Arrive(r) \/ RequestStep(r)
        PROVE  \/ ProcMoves(r) \/ StopTaskWrite(r) \/ AbortTask(r)
               \/ MarkAsFinishedWrite(r) \/ UpdateLastAccessTime(r)
    BY <1>2 DEF Arrive, RequestStep, StopTaskStep, ProcMoves
  <1>3. CASE IdleStep \/ UnhealthyStep
    BY <1>0, <1>3 DEF IdleStep, UnhealthyStep, StopTaskStep, ProcMoves
  <1>4. CASE LostStep \/ UNCHANGED vars
    BY <1>4 DEF LostStep, CloudMoves
  <1>5. ASSUME NEW t \in Tasks, TaskStarts(t) \/ TaskExits(t) \/ TaskStops(t) \/ TaskAges(t)
        PROVE  CloudMoves
    BY <1>5 DEF CloudMoves
  <1>6. ASSUME NEW t \in Tasks, LateRegister(t) PROVE StarterMoves
    BY <1>6 DEF StarterMoves
  <1> QED
    BY <1>0, <1>1, <1>2, <1>3, <1>4, <1>5, <1>6 DEF Next, Crash

\* Base is inductive, given the types.
LEMMA StepBase == Inv /\ Base /\ [Next]_vars => Base'
  <1> SUFFICES ASSUME Inv, Base, [Next]_vars PROVE Base'
    OBVIOUS
  <1>0. Requests \subseteq Procs
    BY DEF Procs
  <1> QED
    BY <1>0, StepKinds, StarterMovesBase, StarterWritesBase, ProcMovesBase, ProcWritesBase,
       RecordMovesBase, UsageStepBase, CloudMovesBase, FlushBatchBase, RouterCrashBase,
       ScalerCrashBase DEF Crash

-----------------------------------------------------------------------------

\* How the starter of a generic task moves through its lock: it holds it only by having
\* taken it free, and what it has seen is the record of the read, or nothing when the
\* read failed.
LEMMA StarterMovesLock ==
    ASSUME Inv, StarterMoves, Kind = "generic", Open, Open', Unpublished
    PROVE  /\ lock' = lock \/ (lock = FALSE /\ lock' = TRUE)
           /\ StarterHolds' => StarterHolds \/ (lock = FALSE /\ lock' = TRUE)
           /\ st'.pc \in {"finStop", "finWrite", "await"} =>
                  \/ st.pc \in {"finStop", "finWrite", "await"} /\ st'.seen = st.seen
                  \/ st'.seen = rec \/ (st'.seen = Absent /\ faults' > 0)
           /\ faults > 0 => faults' > 0
  <1>0. st \in StarterState /\ faults \in Nat
    BY SessionAssumption DEF Inv, TypeOK
  <1> USE DEF StarterState, PhaseReturns, PhaseIs, PhaseFrame, StarterHolds
  <1>1. CASE Created \/ TaskDefinition
    BY <1>0, <1>1 DEF Created, TaskDefinition, Fault
  <1>2. CASE (\E t \in Tasks : Register(t)) \/ RegisterFails \/ (\E t \in Tasks : LateRegister(t))
    BY <1>0, <1>2 DEF Register, RegisterFails, LateRegister
  <1>3. CASE StartTask \/ SetNetwork \/ StartDriver \/ PlaywrightReady
    BY <1>0, <1>3 DEF StartTask, SetNetwork, StartDriver, PlaywrightReady
  <1>4. CASE Check
    <2>1. UNCHANGED lock /\ (faults > 0 => faults' > 0)
      BY <1>0, <1>4 DEF Check, Find, Fault
    <2>2. st.pc = "check" /\ st'.pc \in {"phase", "retry", "failStop", "failWrite", "lock"}
      BY <1>0, <1>4 DEF Check, FailWith
    <2> QED
      BY <2>1, <2>2
  <1>5. CASE Retry \/ FailStop \/ FinalizeStop
    <2>1. UNCHANGED lock /\ (faults > 0 => faults' > 0)
      BY <1>0, <1>5 DEF Retry, FailStop, FinalizeStop, StopTaskForcibly, StopTaskFails, Fault
    <2>2. \/ st'.pc \in {"phase", "failWrite"}
          \/ st.pc = "finStop" /\ st'.pc = "finWrite" /\ st'.seen = st.seen
      BY <1>0, <1>5 DEF Retry, FailStop, FinalizeStop
    <2> QED
      BY <2>1, <2>2
  <1>6. CASE FinalizeLock \/ FinalizeUnlock \/ FinalizeWritten
    BY <1>0, <1>6 DEF Open, FinalizeLock, FinalizeUnlock, FinalizeWritten, AcquireLock
  <1>7. CASE FinalizeFind
    BY <1>0, <1>7 DEF FinalizeFind, Find, Fault
  <1> QED
    BY <1>1, <1>2, <1>3, <1>4, <1>5, <1>6, <1>7 DEF StarterMoves

\* GenericStart is kept by the starter's moves.
LEMMA StarterMovesGeneric == ASSUME Inv, Base, GenericStart, StarterMoves PROVE GenericStart'
  <1> SUFFICES ASSUME Kind' = "generic", Open' PROVE Unpublished' /\ Mutex' /\ Window'
    BY DEF GenericStart
  <1>1. /\ UNCHANGED <<rec, batch, proc>>
        /\ Kind = "generic" /\ Open
        /\ \A h \in Hosts : Starter \in batch[h].waiters => st'.pc = st.pc
    BY StarterMovesFrame DEF Kind, Base, Waiters
  <1>2. Unpublished /\ Mutex /\ Window
    BY <1>1 DEF GenericStart
  <1>3. Unpublished'
    BY <1>1, <1>2 DEF Unpublished
  <1>4. Mutex'
    <2>1. \A r \in Requests : Holds(r)' = Holds(r)
      BY <1>1 DEF Holds
    <2> QED
      BY <1>1, <1>2, <2>1, StarterMovesLock DEF Mutex
  <1>5. Window'
    BY <1>1, <1>2, StarterMovesLock DEF Window, Present
  <1> QED
    BY <1>3, <1>4, <1>5

\* GenericStart is kept by the requests: one takes the lock only when it is free, and
\* reads no more than the record says.
LEMMA ProcMovesGeneric ==
    ASSUME Inv, Base, GenericStart, NEW p \in Procs, ProcMoves(p)
    PROVE  GenericStart'
  <1>0. proc \in [Procs -> ProcState] /\ faults \in Nat
    BY SessionAssumption DEF Inv, TypeOK
  <1> SUFFICES ASSUME Kind' = "generic", Open' PROVE Unpublished' /\ Mutex' /\ Window'
    BY DEF GenericStart
  <1>1. /\ UNCHANGED <<rec, batch, st>> /\ \A q \in Procs \ {p} : proc'[q] = proc[q]
        /\ Kind = "generic" /\ Open
    BY ProcMovesFrame DEF Kind, Open, Answered
  <1>2. Unpublished /\ Mutex /\ Window
    BY <1>1 DEF GenericStart
  <1>3. p \in Requests
    BY <1>1, LoopsIdle DEF Base, Procs
  <1>4. /\ proc'[p].pc \notin {"touch", "stop", "append", "force"}
        /\ Unserved(proc'[p].snap)
        /\ proc'[p].pc \in {"lock", "handler"} => proc'[p].snap.status # "stopped"
        /\ lock' = lock \/ (Holds(p) /\ ~Holds(p)') \/ (lock = FALSE /\ lock' = TRUE)
        /\ Holds(p)' => Holds(p) \/ (lock = FALSE /\ lock' = TRUE)
        /\ faults > 0 => faults' > 0
    <2>0. /\ Unserved(rec) /\ Unserved(proc[p].snap) /\ Unserved(Absent)
          /\ proc[p].pc \notin {"touch", "stop", "append", "force"}
          /\ proc[p].pc \in {"lock", "handler"} => proc[p].snap.status # "stopped"
      BY <1>2, <1>3 DEF Unpublished, Unserved, Absent
    <2> USE <1>0, <1>3, <2>0 DEF Holds, ProcState, Goto
    <2>1. CASE \E op \in OpsOf[Kind] : ValidateGenericMapperPresence(p, op)
      BY <2>1 DEF ValidateGenericMapperPresence
    <2>2. CASE \E op \in OpsOf[Kind] : ValidateSession(p, op)
      BY <2>2 DEF ValidateSession, Unserved
    <2>3. CASE LockGenericTaskCache(p)
      BY <2>3 DEF LockGenericTaskCache, AcquireLock
    <2>4. CASE MarkAsFinished(p)
      BY <2>4 DEF MarkAsFinished, Find, Fault, Unserved, Entity, Inv, TypeOK
    <2>5. CASE UnlockGenericTaskCache(p)
      BY <2>5 DEF UnlockGenericTaskCache, ReleaseLock, Fault
    <2>6. CASE Written(p)
      BY <2>6 DEF Written, AfterStop
    <2>7. CASE WriteFailed(p)
      BY <2>7 DEF WriteFailed, AfterFailedStop, AfterStop, Unserved
    <2>8. p \notin Loops
      BY SessionAssumption DEF Loops
    <2> QED
      BY <2>1, <2>2, <2>3, <2>4, <2>5, <2>6, <2>7, <2>8 DEF ProcMoves, StopTask, Loops
  <1>5. Unpublished'
    BY <1>1, <1>2, <1>4 DEF Unpublished, Procs
  <1>6. Mutex'
    <2>1. \A r \in Requests \ {p} : Holds(r)' = Holds(r)
      BY <1>1 DEF Holds, Procs
    <2> QED
      BY <1>1, <1>2, <1>3, <1>4, <2>1 DEF Mutex, StarterHolds
  <1>7. Window'
    BY <1>1, <1>2, <1>4 DEF Window, Present
  <1> QED
    BY <1>5, <1>6, <1>7

\* GenericStart is kept by ECS, the clock and the lost loop.
LEMMA CloudMovesGeneric == ASSUME Inv, Base, GenericStart, CloudMoves PROVE GenericStart'
  <1>0. faults \in Nat
    BY SessionAssumption DEF Inv, TypeOK
  <1>1. UNCHANGED <<rec, lock, batch, st, proc>>
    BY CloudMovesFrame
  <1>2. faults > 0 => faults' > 0
    BY <1>0
       DEF CloudMoves, LostScan, LostDone, LostStop, TaskStarts, TaskExits, TaskStops, TaskAges,
         vars, StopTaskForcibly, StopTaskFails, Fault
  <1>3. UNCHANGED Open
    BY <1>1 DEF Open, Answered
  <1> QED
    BY <1>1, <1>2, <1>3
       DEF GenericStart, Kind, Unpublished, Mutex, Holds, StarterHolds, Window, Present

\* GenericStart is kept by the usage loop, which is idle before the publication.
LEMMA UsageStepGeneric == ASSUME Inv, Base, GenericStart, UsageStep PROVE GenericStart'
  <1>1. UNCHANGED <<batch, st>>
    BY DEF UsageStep, UsageScan, UsageDescribe, UsageShape, TrackResourcesUsage
  <1>2. UNCHANGED Open
    BY <1>1 DEF Open, Answered
  <1>3. ~Open
    BY DEF Base, Early, UsageStep, UsageScan, UsageDescribe, UsageShape, TrackResourcesUsage, Cached
  <1> QED
    BY <1>2, <1>3 DEF GenericStart

\* GenericStart is kept when a record expires: the finalizer's window allows an absent
\* record.
LEMMA ExpireGeneric == ASSUME Inv, Base, GenericStart, Expire \/ GoIdle PROVE GenericStart'
  <1> SUFFICES ASSUME Kind' = "generic", Open' PROVE Unpublished' /\ Mutex' /\ Window'
    BY DEF GenericStart
  <1>1. UNCHANGED <<lock, batch, st, proc, faults>>
    BY DEF Expire, GoIdle, actors
  <1>2. Kind = "generic" /\ Open
    BY <1>1 DEF Kind, Open, Answered
  <1>3. Unpublished /\ Mutex /\ Window
    BY <1>2 DEF GenericStart
  <1>4. rec' = Absent
    BY <1>3 DEF Expire, GoIdle, Unpublished, Unserved
  <1>5. Unpublished'
    BY <1>1, <1>3, <1>4 DEF Unpublished, Unserved, Absent
  <1>6. Mutex' /\ Window'
    BY <1>1, <1>3, <1>4 DEF Mutex, Holds, StarterHolds, Window, Present, Absent
  <1> QED
    BY <1>5, <1>6

\* GenericStart is kept by MarkAsFinished, whose write is made under the lock and so
\* never inside the finalizer's window.
LEMMA MarkAsFinishedWriteGeneric ==
    ASSUME Inv, Base, GenericStart, NEW r \in Requests,
           MarkAsFinishedWrite(r) \/ UpdateLastAccessTime(r)
    PROVE  GenericStart'
  <1>0. proc \in [Procs -> ProcState] /\ r \in Procs
    BY DEF Inv, TypeOK, Procs
  <1> SUFFICES ASSUME Kind' = "generic", Open' PROVE Unpublished' /\ Mutex' /\ Window'
    BY DEF GenericStart
  <1>1. UNCHANGED <<lock, batch, st>> /\ \A q \in Procs \ {r} : proc'[q] = proc[q]
    BY <1>0 DEF MarkAsFinishedWrite, UpdateLastAccessTime, Goto
  <1>2. Kind = "generic" /\ Open
    BY <1>1 DEF Kind, Open, Answered
  <1>3. Unpublished /\ Mutex /\ Window
    BY <1>2 DEF GenericStart
  <1>4. MarkAsFinishedWrite(r)
    BY <1>3 DEF Unpublished, UpdateLastAccessTime
  <1>5. /\ rec' = rec \/ rec' = proc[r].snap
        /\ proc'[r].pc = "unlock" /\ proc'[r].snap = Absent
        /\ Holds(r)
    BY <1>0, <1>4 DEF MarkAsFinishedWrite, Goto, ProcState, Holds
  <1>6. Unpublished'
    BY <1>1, <1>3, <1>5 DEF Unpublished, Unserved, Absent, Procs
  <1>7. Mutex'
    <2>1. \A q \in Requests : Holds(q)' = Holds(q)
      BY <1>1, <1>5 DEF Holds, Procs
    <2> QED
      BY <1>1, <1>3, <2>1 DEF Mutex, StarterHolds
  <1>8. Window'
    BY <1>1, <1>3, <1>5 DEF Window, Mutex, StarterHolds
  <1> QED
    BY <1>6, <1>7, <1>8

\* GenericStart is kept by the starter's writes.
LEMMA StarterWritesGeneric ==
    ASSUME Inv, Base, GenericStart, CreateEntity \/ FailWrite \/ FinalizeWrite
    PROVE  GenericStart'
  <1>0. st \in StarterState /\ batch \in [Hosts -> Item] /\ Home \in Hosts /\ HostOf(Starter) = Home
    BY HostOfType DEF Inv, TypeOK
  <1> SUFFICES ASSUME Kind' = "generic", Open' PROVE Unpublished' /\ Mutex' /\ Window'
    BY DEF GenericStart
  <1>1. /\ UNCHANGED <<rec, lock, proc, faults>>
        /\ st'.kind = st.kind /\ st'.seen = st.seen
        /\ \/ CreateEntity /\ st.pc = "create" /\ st'.pc = "createWait"
           \/ st.pc = "failWrite" /\ st'.pc = "failAwait"
           \/ st.pc = "finWrite" /\ st'.pc = "await"
    BY <1>0 DEF CreateEntity, FailWrite, FinalizeWrite, redis, StarterState
  <1>w. /\ Starter \in batch'[Home].waiters
        /\ \A h \in Hosts \ {Home} : batch'[h] = batch[h]
    BY <1>0 DEF CreateEntity, FailWrite, FinalizeWrite, WritedByWorker
  <1>q. CreateEntity => Unserved(batch'[Home].ent)
    <2>1. CreateEntity => batch'[Home].ent = QueuedEntity
      BY <1>0 DEF CreateEntity, WritedByWorker
    <2> QED
      BY <2>1 DEF Unserved, QueuedEntity, Absent
  <1>2. Kind = "generic" /\ Open
    BY <1>1 DEF Kind, Open
  <1>3. Unpublished /\ Mutex /\ Window
    BY <1>2 DEF GenericStart
  <1>4. \A h \in Hosts \ {Home} : Unserved(batch[h].ent)
    BY <1>3 DEF Base, Waiters, Unpublished
  <1>5. Unpublished'
    BY <1>0, <1>1, <1>w, <1>q, <1>3, <1>4 DEF Unpublished
  <1>6. Mutex'
    BY <1>1, <1>3 DEF Mutex, Holds, StarterHolds
  <1>7. Window'
    BY <1>1, <1>3 DEF Window, Present
  <1> QED
    BY <1>5, <1>6, <1>7

\* GenericStart is kept by an abort, whose write is queued under the lock; the loops
\* have nothing to write before the publication.
LEMMA ProcWritesGeneric ==
    ASSUME Inv, Base, GenericStart,
           (\E p \in Procs : StopTaskWrite(p)) \/ (\E r \in Requests : AbortTask(r))
    PROVE  GenericStart'
  <1> SUFFICES ASSUME Kind' = "generic", Open' PROVE Unpublished' /\ Mutex' /\ Window'
    BY DEF GenericStart
  <1>1. UNCHANGED <<rec, lock, st, faults>> /\ UNCHANGED Open
    BY ProcWritesFrame DEF Procs
  <1>0. proc \in [Procs -> ProcState] /\ batch \in [Hosts -> Item]
    BY DEF Inv, TypeOK
  <1>a. Starter \notin Procs
    BY SessionAssumption DEF Starter, Procs, Loops, IdleLoop, UnhealthyLoop
  <1>2. Kind = "generic" /\ Open
    BY <1>1 DEF Kind
  <1>3. Unpublished /\ Mutex /\ Window
    BY <1>2 DEF GenericStart
  <1>4. ~\E p \in Procs : StopTaskWrite(p)
    BY <1>2, <1>3, LoopsIdle DEF Base, Procs, Unpublished, StopTaskWrite
  <1>5. PICK r \in Requests : AbortTask(r)
    BY <1>4
  <1>6. r \in Procs /\ HostOf(r) \in Hosts /\ proc[r].pc = "handler" /\ proc[r].snap.task = NoTask
    BY <1>3, <1>5, HostOfType DEF Procs, AbortTask, Unpublished, Unserved
  <1>7. Unserved([proc[r].snap EXCEPT !.reason = "aborted"])
    BY <1>0, <1>3, <1>6 DEF Unpublished, Unserved, ProcState, Entity
  <1>8. /\ proc'[r].pc = "await" /\ proc'[r].snap = Absent
        /\ \A q \in Procs \ {r} : proc'[q] = proc[q]
        /\ batch'[HostOf(r)].ent = [proc[r].snap EXCEPT !.reason = "aborted"]
        /\ batch'[HostOf(r)].waiters = batch[HostOf(r)].waiters \cup {r}
        /\ \A h \in Hosts \ {HostOf(r)} : batch'[h] = batch[h]
    <2>1. /\ WritedByWorker(r, [proc[r].snap EXCEPT !.reason = "aborted"], {}, {}, FALSE)
          /\ Goto(r, "await", Absent)
      BY <1>0, <1>5, <1>6 DEF AbortTask, ProcState, Entity
    <2> QED
      BY <1>0, <1>6, <2>1 DEF WritedByWorker, Goto, ProcState
  <1>9. Unpublished'
    <2>1. Unserved(Absent)
      BY DEF Unserved, Absent
    <2> QED
      BY <1>1, <1>3, <1>6, <1>7, <1>8, <1>a, <2>1 DEF Unpublished, Procs
  <1>10. Mutex'
    <2>1. \A q \in Requests : Holds(q)' = Holds(q)
      BY <1>6, <1>8 DEF Holds, Procs
    <2> QED
      BY <1>1, <1>3, <2>1 DEF Mutex, StarterHolds
  <1>11. Window'
    BY <1>1, <1>3 DEF Window, Present
  <1> QED
    BY <1>9, <1>10, <1>11

\* GenericStart is kept by a batch: one that a request waits on is written while that
\* request holds the lock, one the starter waits on after its window ends its say.
LEMMA FlushBatchGeneric ==
    ASSUME Inv, Base, GenericStart, NEW h \in Hosts, FlushBatch(h)
    PROVE  GenericStart'
  <1> SUFFICES ASSUME Kind' = "generic", Open' PROVE Unpublished' /\ Mutex' /\ Window'
    BY DEF GenericStart
  <1>0. /\ proc \in [Procs -> ProcState] /\ batch \in [Hosts -> Item]
        /\ NoItem.waiters = {} /\ Unserved(NoItem.ent)
    BY DEF Inv, TypeOK, NoItem, Unserved, Absent
  <1>1. /\ UNCHANGED <<lock, st>> /\ batch'[h] = NoItem /\ batch[h].waiters # {}
        /\ \A g \in Hosts \ {h} : batch'[g] = batch[g]
        /\ rec' = rec \/ rec' = batch[h].ent
        /\ \A p \in Procs : \/ proc'[p] = proc[p]
                             \/ /\ p \in batch[h].waiters
                                /\ proc'[p].pc = "failed" /\ proc'[p].snap = proc[p].snap
    BY <1>0 DEF FlushBatch, Pipeline, PipelineFails, redis, ProcState
  <1>2. Kind = "generic" /\ Open /\ (Starter \in batch[h].waiters => st.pc = "createWait")
    BY <1>0, <1>1, HostOfType DEF Kind, Open, Answered, Base, Waiters
  <1>3. Unpublished /\ Mutex /\ Window
    BY <1>2 DEF GenericStart
  <1>4. Unpublished'
    BY <1>0, <1>1, <1>2, <1>3 DEF Unpublished, Procs
  <1>5. \A p \in Procs : p \in batch[h].waiters => p \in Requests /\ Holds(p)
    BY <1>2 DEF Base, Waiters, Early, Holds, Procs
  <1>6. Mutex'
    <2>1. \A q \in Requests : Holds(q)' = Holds(q)
      BY <1>1, <1>5 DEF Holds, Procs
    <2> QED
      BY <1>1, <1>3, <2>1 DEF Mutex, StarterHolds
  <1>7. ~StarterHolds
    <2>1. batch[h].waiters \subseteq Procs \cup {Starter}
      BY DEF Inv, TypeOK, Item
    <2> QED
      BY <1>1, <1>2, <1>3, <1>5, <2>1 DEF Mutex, StarterHolds
  <1>8. Window'
    BY <1>1, <1>7 DEF Window, StarterHolds
  <1> QED
    BY <1>4, <1>6, <1>8

\* What a crash leaves: the record and the lock as they are, empty batches, dead
\* requests and loops, and a fault counted.
LEMMA CrashFrame ==
    ASSUME Inv, Base, Crash
    PROVE  /\ UNCHANGED <<rec, ttl, sets, lock, usage>>
           /\ faults' > 0
           /\ \A g \in Hosts : batch'[g] = batch[g] \/ batch'[g] = NoItem
           /\ \A r \in Requests : \/ proc'[r] = proc[r]
                                   \/ /\ proc[r].pc \notin {"arrive", "rejected"}
                                      /\ proc'[r].pc = "crashed"
                                      /\ proc'[r].snap = Absent
                                      /\ proc'[r].op = proc[r].op
           /\ \A p \in Loops : proc'[p] = proc[p] \/ proc'[p].pc = "idle"
           /\ usageLoop' = usageLoop \/ usageLoop'.pc = "idle"
           /\ st'.kind = st.kind /\ st'.ent = st.ent /\ st'.pc \in {st.pc, "crashed"}
           /\ \A g \in Hosts : Starter \in batch'[g].waiters => st'.pc = st.pc
           /\ Open' => Open
  <1>0. /\ proc \in [Procs -> ProcState] /\ batch \in [Hosts -> Item] /\ st \in StarterState
        /\ NoItem.waiters = {}
    BY DEF Inv, TypeOK, NoItem
  <1>1. UNCHANGED <<rec, ttl, sets, lock, usage>> /\ Fault
    BY DEF Crash, ScalerCrash, RouterCrash, redis
  <1>2. faults' > 0
    BY <1>1, SessionAssumption DEF Inv, TypeOK, Fault
  <1>3. \A g \in Hosts : batch'[g] = batch[g] \/ batch'[g] = NoItem
    <2>1. PICK g \in Hosts : batch' = [batch EXCEPT ![g] = NoItem]
      BY HostOfType DEF Crash, ScalerCrash, RouterCrash, Hosts
    <2> QED
      BY <1>0, <2>1
  <1>4. ASSUME NEW r \in Requests
        PROVE  \/ proc'[r] = proc[r]
               \/ /\ proc[r].pc \notin {"arrive", "rejected"}
                  /\ proc'[r] = [proc[r] EXCEPT !.pc = "crashed", !.snap = Absent]
    <2>1. r \in Procs /\ r \notin Loops
      BY SessionAssumption DEF Procs, Loops
    <2>2. CASE ScalerCrash
      BY <2>1, <2>2 DEF ScalerCrash
    <2>3. ASSUME NEW h \in Routers, RouterCrash(h)
          PROVE  \/ proc'[r] = proc[r]
                 \/ /\ proc[r].pc \notin {"arrive", "rejected"}
                    /\ proc'[r] = [proc[r] EXCEPT !.pc = "crashed", !.snap = Absent]
      BY <2>1, <2>3 DEF RouterCrash
    <2> QED
      BY <2>2, <2>3 DEF Crash
  <1>5. ASSUME NEW p \in Loops
        PROVE  proc'[p] = proc[p] \/ proc'[p].pc = "idle"
    <2>1. p \in Procs /\ p \notin Requests
      BY SessionAssumption DEF Procs, Loops
    <2>2. CASE ScalerCrash
      BY <1>0, <2>1, <2>2 DEF ScalerCrash, ProcState
    <2>3. ASSUME NEW h \in Routers, RouterCrash(h) PROVE proc'[p] = proc[p]
      BY <1>0, <2>1, <2>3 DEF RouterCrash
    <2> QED
      BY <2>2, <2>3 DEF Crash
  <1>6. usageLoop' = usageLoop \/ usageLoop'.pc = "idle"
    <2>1. CASE ScalerCrash
      BY <2>1 DEF ScalerCrash
    <2>2. ASSUME NEW h \in Routers, RouterCrash(h) PROVE usageLoop' = usageLoop
      BY <2>2 DEF RouterCrash
    <2> QED
      BY <2>1, <2>2 DEF Crash
  <1>7. \/ UNCHANGED st
        \/ /\ st'.kind = st.kind /\ st'.ent = st.ent /\ st'.pc = "crashed"
           /\ batch'[Home] = NoItem
    <2>1. CASE ScalerCrash
      BY <2>1 DEF ScalerCrash
    <2>2. ASSUME NEW h \in Routers, RouterCrash(h), h = Home, st.pc # "done"
          PROVE  /\ st'.kind = st.kind /\ st'.ent = st.ent /\ st'.pc = "crashed"
                 /\ batch'[Home] = NoItem
      BY <1>0, <2>2, HostOfType DEF RouterCrash, StarterState
    <2>3. ASSUME NEW h \in Routers, RouterCrash(h), ~(h = Home /\ st.pc # "done")
          PROVE  UNCHANGED st
      BY <2>3 DEF RouterCrash
    <2> QED
      BY <2>1, <2>2, <2>3 DEF Crash
  <1>8. \A g \in Hosts : Starter \in batch'[g].waiters => st'.pc = st.pc
    BY <1>0, <1>3, <1>7 DEF Base, Waiters
  <1>9. Open' => Open
    BY <1>0, <1>3, <1>7, HostOfType DEF Open, Answered
  <1>10. \A r \in Requests : proc[r] \in ProcState
    BY DEF Inv, TypeOK, Procs
  <1>11. \A r \in Requests : \/ proc'[r] = proc[r]
                              \/ /\ proc[r].pc \notin {"arrive", "rejected"}
                                 /\ proc'[r].pc = "crashed"
                                 /\ proc'[r].snap = Absent
                                 /\ proc'[r].op = proc[r].op
    BY <1>4, <1>10 DEF ProcState
  <1> QED
    BY <1>1, <1>2, <1>3, <1>5, <1>6, <1>7, <1>8, <1>9, <1>11

\* GenericStart is kept by a crash: the lock of a dead request stays taken, which only
\* excludes more.
LEMMA CrashGeneric ==
    ASSUME Inv, Base, GenericStart, Crash
    PROVE  GenericStart'
  <1> SUFFICES ASSUME Kind' = "generic", Open' PROVE Unpublished' /\ Mutex' /\ Window'
    BY DEF GenericStart
  <1>0. /\ proc \in [Procs -> ProcState] /\ batch \in [Hosts -> Item] /\ st \in StarterState
        /\ NoItem.waiters = {} /\ Unserved(NoItem.ent)
        /\ faults \in Nat
    BY SessionAssumption DEF Inv, TypeOK, NoItem, Unserved, Absent
  <1>1. /\ UNCHANGED <<rec, lock>>
        /\ faults' > 0
        /\ \A g \in Hosts : batch'[g] = batch[g] \/ batch'[g] = NoItem
        /\ \A r \in Requests : \/ proc'[r] = proc[r]
                               \/ proc'[r].pc = "crashed" /\ proc'[r].snap = Absent
    BY CrashFrame
  <1>2. UNCHANGED st
    BY <1>0 DEF Crash, ScalerCrash, RouterCrash, StarterState, Open
  <1>3. Kind = "generic" /\ Open
    BY <1>0, <1>1, <1>2, HostOfType DEF Kind, Open, Answered
  <1>4. Unpublished /\ Mutex /\ Window
    BY <1>3 DEF GenericStart
  <1>5. Unpublished'
    <2>1. \A g \in Hosts : Starter \in batch[g].waiters => batch'[g] = batch[g] \/ st.pc = "createWait"
      BY <1>0, <1>1, <1>2, HostOfType DEF Base, Waiters, Open, Answered
    <2> QED
      BY <1>0, <1>1, <1>2, <1>4, <2>1 DEF Unpublished, Unserved, Absent
  <1>6. Mutex'
    <2>1. \A r \in Requests : Holds(r)' => Holds(r)
      BY <1>1 DEF Holds
    <2> QED
      BY <1>1, <1>2, <1>4, <2>1 DEF Mutex, StarterHolds
  <1>7. Window'
    BY <1>1, <1>2, <1>4 DEF Window, Present
  <1> QED
    BY <1>5, <1>6, <1>7

\* GenericStart is inductive, given the types and Base.
LEMMA StepGeneric == Inv /\ Base /\ GenericStart /\ [Next]_vars => GenericStart'
  <1> SUFFICES ASSUME Inv, Base, GenericStart, [Next]_vars PROVE GenericStart'
    OBVIOUS
  <1> QED
    BY StepKinds, StarterMovesGeneric, StarterWritesGeneric, ProcMovesGeneric,
       ProcWritesGeneric, MarkAsFinishedWriteGeneric, ExpireGeneric, UsageStepGeneric,
       CloudMovesGeneric, FlushBatchGeneric, CrashGeneric

\* Both hold initially: nothing is written, nobody waits, the lock is free.
LEMMA InitStart == Init => Base /\ GenericStart
  <1> SUFFICES ASSUME Init PROVE Base /\ GenericStart
    OBVIOUS
  <1>1. NoItem.waiters = {} /\ NoItem.attach = {} /\ Unserved(NoItem.ent) /\ Unserved(Absent)
    BY DEF NoItem, Unserved, Absent
  <1>2. Base
    BY <1>1, SessionAssumption DEF Init, Base, Waiters, Attached, Early, Procs
  <1>3. Unpublished
    BY <1>1 DEF Init, Unpublished, Procs
  <1>4. Mutex /\ Window
    BY SessionAssumption DEF Init, Mutex, Holds, StarterHolds, Window, Procs, Loops
  <1> QED
    BY <1>2, <1>3, <1>4 DEF GenericStart

-----------------------------------------------------------------------------
(* A rejected task is stopped *)

\* ECS was asked to stop the task, or the task is gone.
Asked(t) == ecs[t] \in {"stopping", "stopped"}

\* The steps of the starter after its stop of the task, up to its end.
Rejecting == {"failWrite", "failAwait", "finWrite", "await", "unlock", "done"}

\* The starter's entity has no reason on the way in; it has a task only when ECS
\* created it; and, when no call failed, a reason on the way out means that its task
\* was asked to stop.
Reasoned ==
    /\ st.pc \in {"create", "createWait", "taskdef", "phase", "check", "retry", "lock", "find"}
           => st.ent.reason = "none"
    /\ st.pc \in {"lock", "find", "finStop"} => Kind = "generic"
    /\ st.ent.task # NoTask => ecs[st.ent.task] # "unborn"
    /\ /\ faults = 0
       /\ st.pc \in Rejecting
       /\ st.ent.reason \in {"aborted", "startupFailure"}
       /\ st.ent.task # NoTask
       => Asked(st.ent.task)

\* Stopping any task keeps every other one created, and asked to stop if it was.
LEMMA StoppingKeeps ==
    ASSUME TypeOK, NEW u
    PROVE  \A t \in Tasks : /\ ecs[t] # "unborn" => Stopping(u)[t] # "unborn"
                            /\ Asked(t) => Stopping(u)[t] \in {"stopping", "stopped"}
  BY DEF TypeOK, Stopping, Asked, TaskState

\* A task that was created stays created, one that was asked to stop stays so.
Grows == \A t \in Tasks : /\ ecs[t] # "unborn" => ecs'[t] # "unborn"
                          /\ Asked(t) => Asked(t)'

\* No step of the system takes back a task's creation or the request to stop it.
LEMMA EcsGrows == ASSUME Inv, [Next]_vars PROVE Grows
  <1>0. TypeOK
    BY DEF Inv
  <1>1. ASSUME UNCHANGED ecs PROVE Grows
    BY <1>1 DEF Grows, Asked
  <1>2. ASSUME NEW u, ecs' = Stopping(u) PROVE Grows
    BY <1>0, <1>2, StoppingKeeps DEF Grows, Asked
  <1>3. CASE StarterMoves
    <2>1. CASE (\E t \in Tasks : Register(t)) \/ \E t \in Tasks : LateRegister(t)
      BY <1>0, <2>1 DEF Register, LateRegister, TypeOK, Asked, Grows
    <2>2. CASE Retry \/ FailStop \/ FinalizeStop
      BY <1>1, <1>2, <2>2 DEF Retry, FailStop, FinalizeStop, StopTaskForcibly, StopTaskFails
    <2>3. CASE \/ Created \/ TaskDefinition \/ RegisterFails \/ StartTask \/ SetNetwork
               \/ StartDriver \/ PlaywrightReady \/ Check \/ FinalizeLock \/ FinalizeFind
               \/ FinalizeWritten \/ FinalizeUnlock
      <3>1. UNCHANGED ecs
        BY <2>3 DEF Created, TaskDefinition, RegisterFails, StartTask, SetNetwork, StartDriver,
                    PlaywrightReady, Check, FinalizeLock, FinalizeFind, FinalizeWritten,
                    FinalizeUnlock, cloud
      <3> QED
        BY <1>1, <3>1
    <2> QED
      BY <1>3, <2>1, <2>2, <2>3 DEF StarterMoves
  <1>4. ASSUME NEW p \in Procs, ProcMoves(p) PROVE Grows
    <2>1. CASE StopTask(p) \/ ForceStop
      BY <1>1, <1>2, <2>1 DEF StopTask, ForceStop, StopTaskForcibly, StopTaskFails
    <2>2. CASE ~(StopTask(p) \/ ForceStop)
      <3>1. UNCHANGED ecs
        BY <1>4, <2>2 DEF ProcMoves, ValidateGenericMapperPresence, ValidateSession,
              LockGenericTaskCache, MarkAsFinished, UnlockGenericTaskCache, Written,
              WriteFailed, IdleScan, IdleRecheck, UnhealthyScan, UnhealthyStop, UnhealthySkip, cloud
      <3> QED
        BY <1>1, <3>1
    <2> QED
      BY <2>1, <2>2
  <1>5. CASE CloudMoves
    <2>1. CASE \E t \in Tasks : LostStop(t)
      BY <1>1, <1>2, <2>1 DEF LostStop, StopTaskForcibly, StopTaskFails
    <2>2. CASE \E t \in Tasks : TaskStarts(t) \/ TaskExits(t) \/ TaskStops(t)
      BY <1>0, <2>2 DEF TaskStarts, TaskExits, TaskStops, TypeOK, Asked, Grows
    <2>3. CASE LostScan \/ LostDone \/ (\E t \in Tasks : TaskAges(t)) \/ UNCHANGED vars
      BY <1>1, <2>3 DEF LostScan, LostDone, TaskAges, vars, cloud
    <2> QED
      BY <1>5, <2>1, <2>2, <2>3 DEF CloudMoves
  <1>6. CASE \/ CreateEntity \/ FailWrite \/ FinalizeWrite \/ (\E p \in Procs : StopTaskWrite(p))
             \/ (\E r \in Requests : AbortTask(r))
             \/ (\E r \in Requests : MarkAsFinishedWrite(r) \/ UpdateLastAccessTime(r))
             \/ Expire \/ GoIdle \/ UsageStep \/ (\E h \in Hosts : FlushBatch(h)) \/ Crash
    <2>1. UNCHANGED ecs
      BY <1>6 DEF CreateEntity, FailWrite, FinalizeWrite, StopTaskWrite, AbortTask,
          MarkAsFinishedWrite, UpdateLastAccessTime, Expire, GoIdle, UsageStep, UsageScan,
          UsageDescribe, UsageShape, TrackResourcesUsage, FlushBatch, Crash, RouterCrash,
          ScalerCrash, cloud
    <2> QED
      BY <1>1, <2>1
  <1> QED
    BY <1>3, <1>4, <1>5, <1>6, StepKinds

\* No step of the system takes back a fault.
LEMMA FaultsGrow == ASSUME Inv, [Next]_vars PROVE faults' = 0 => faults = 0
  <1>0. faults \in Nat
    BY SessionAssumption DEF Inv, TypeOK
  <1>1. faults' = faults \/ faults' = faults + 1
    <2> USE DEF Fault, Find, StopTaskForcibly, StopTaskFails, ReleaseLock, Pipeline, PipelineFails
    <2>1. CASE StarterMoves
      BY <2>1 DEF StarterMoves, Created, TaskDefinition, Register, RegisterFails, StartTask,
                  SetNetwork, StartDriver, PlaywrightReady, Check, Retry, FailStop,
                  FinalizeLock, FinalizeFind, FinalizeStop, FinalizeWritten,
                  FinalizeUnlock, LateRegister, PhaseFrame
    <2>2. ASSUME NEW p \in Procs, ProcMoves(p) PROVE faults' = faults \/ faults' = faults + 1
      BY <2>2 DEF ProcMoves, ValidateGenericMapperPresence, ValidateSession,
              LockGenericTaskCache, MarkAsFinished, UnlockGenericTaskCache, StopTask, Written,
              WriteFailed, IdleScan, IdleRecheck, UnhealthyScan, UnhealthyStop, UnhealthySkip, ForceStop
    <2>3. CASE CloudMoves
      BY <2>3 DEF CloudMoves, LostScan, LostDone, LostStop, TaskStarts, TaskExits, TaskStops,
         TaskAges, vars
    <2>4. CASE \/ CreateEntity \/ FailWrite \/ FinalizeWrite \/ (\E p \in Procs : StopTaskWrite(p))
             \/ (\E r \in Requests : AbortTask(r))
             \/ (\E r \in Requests : MarkAsFinishedWrite(r) \/ UpdateLastAccessTime(r))
             \/ Expire \/ GoIdle \/ UsageStep \/ (\E h \in Hosts : FlushBatch(h)) \/ Crash
      BY <2>4 DEF CreateEntity, FailWrite, FinalizeWrite, StopTaskWrite, AbortTask,
          MarkAsFinishedWrite, UpdateLastAccessTime, Expire, GoIdle, UsageStep, UsageScan,
          UsageDescribe, UsageShape, TrackResourcesUsage, FlushBatch, Crash, RouterCrash,
          ScalerCrash
    <2> QED
      BY <2>1, <2>2, <2>3, <2>4, StepKinds
  <1> QED
    BY <1>0, <1>1

\* Whoever leaves the starter alone can only bring its task closer to its end.
LEMMA ReasonedFrame ==
    ASSUME Inv, Reasoned, Grows, faults' = 0 => faults = 0,
           st'.kind = st.kind, st'.ent = st.ent, st'.pc \in {st.pc, "crashed"}
    PROVE  Reasoned'
  <1>1. st.ent.task \in Tasks \cup {NoTask}
    BY DEF Inv, TypeOK, StarterState, Entity
  <1> QED
    BY <1>1 DEF Reasoned, Grows, Rejecting, Kind

\* The stop of a failed or aborted start.
LEMMA StoppingAsks ==
    ASSUME TypeOK, NEW t \in Tasks, ecs[t] # "unborn"
    PROVE  Stopping(t)[t] \in {"stopping", "stopped"}
  BY DEF TypeOK, Stopping, TaskState

\* Reasoned is kept by the starter's moves: FailWith goes through FailStop when there
\* is a task, and the finalizer stops the task of an aborted record before it writes.
LEMMA StarterMovesReasoned ==
    ASSUME Inv, Base, GenericStart, Reasoned, StarterMoves, [Next]_vars
    PROVE  Reasoned'
  <1>0. /\ TypeOK /\ st \in StarterState /\ st.ent \in Entity
        /\ st.ent.task \in Tasks \cup {NoTask}
        /\ NoTask \notin Tasks
        /\ faults \in Nat /\ ecs \in [Tasks -> TaskState]
    BY SessionAssumption DEF Inv, TypeOK, StarterState, Entity
  <1>g. Grows /\ (faults' = 0 => faults = 0)
    BY EcsGrows, FaultsGrow
  <1> USE DEF StarterState, PhaseReturns, PhaseIs, PhaseFrame
  <1>1. CASE Created \/ TaskDefinition
    BY <1>0, <1>g, <1>1 DEF Created, TaskDefinition, Fault, Reasoned, Rejecting, Grows, Kind
  <1>2. CASE \E t \in Tasks : Register(t)
    BY <1>0, <1>g, <1>2 DEF Register, Reasoned, Rejecting, Entity
  <1>3. CASE RegisterFails \/ SetNetwork \/ PlaywrightReady
    BY <1>0, <1>g, <1>3 DEF RegisterFails, SetNetwork, PlaywrightReady, Reasoned, Rejecting
  <1>4. CASE StartTask \/ StartDriver
    <2>1. /\ st.pc = "phase" /\ st'.pc = "check" /\ UNCHANGED ecs
          /\ st'.ent.reason = st.ent.reason /\ st'.ent.task = st.ent.task
      <3>1. /\ [st.ent EXCEPT !.idle = FALSE].reason = st.ent.reason
            /\ [st.ent EXCEPT !.idle = FALSE].task = st.ent.task
            /\ [st.ent EXCEPT !.sid = TRUE].reason = st.ent.reason
            /\ [st.ent EXCEPT !.sid = TRUE].task = st.ent.task
        BY <1>0 DEF Entity
      <3>2. CASE StartTask
        BY <1>0, <3>1, <3>2 DEF StartTask
      <3>3. CASE StartDriver
        BY <1>0, <3>1, <3>3 DEF StartDriver
      <3> QED
        BY <1>4, <3>2, <3>3
    <2> QED
      BY <2>1 DEF Reasoned, Rejecting
  <1>6. CASE \E t \in Tasks : LateRegister(t)
    BY <1>0, <1>g, <1>6, ReasonedFrame DEF LateRegister
  <1>7. CASE Check
    <2>1. /\ st.pc = "check" /\ UNCHANGED ecs
          /\ st'.kind = st.kind /\ st'.ent.task = st.ent.task
          /\ \/ st'.pc = "failStop"
             \/ st'.pc = "failWrite" /\ st.ent.task = NoTask
             \/ /\ st'.pc \in {"retry", "phase", "lock", "finWrite"}
                /\ st'.ent = st.ent
                /\ st'.pc = "lock" => Kind = "generic"
      <3>1. ASSUME NEW reason, FailWith(reason)
            PROVE  /\ st'.kind = st.kind /\ st'.ent.task = st.ent.task
                   /\ \/ st'.pc = "failStop"
                      \/ st'.pc = "failWrite" /\ st.ent.task = NoTask
        BY <1>0, <3>1 DEF FailWith, Entity
      <3>2. st.pc = "check" /\ UNCHANGED ecs
        BY <1>7 DEF Check, cloud
      <3>3. CASE \E reason \in Reasons : FailWith(reason)
        BY <3>1, <3>2, <3>3
      <3>4. CASE ~\E reason \in Reasons : FailWith(reason)
        BY <1>0, <1>7, <3>2, <3>4 DEF Check, Reasons
      <3> QED
        BY <3>3, <3>4
    <2> QED
      BY <2>1 DEF Reasoned, Rejecting, Kind
  <1>8. CASE Retry
    BY <1>0, <1>g, <1>8 DEF Retry, Reasoned, Rejecting, QueuedEntity, Absent
  <1>9. CASE FailStop \/ FinalizeStop
    BY <1>0, <1>g, <1>9, StoppingAsks DEF FailStop, FinalizeStop, StopTaskForcibly,
       StopTaskFails, Fault, Reasoned, Rejecting, Grows, Asked, Kind
  <1>10. CASE FinalizeLock \/ FinalizeUnlock \/ FinalizeWritten
    BY <1>0, <1>g, <1>10
       DEF FinalizeLock, FinalizeUnlock, FinalizeWritten, Reasoned, Rejecting, Grows, Kind
  <1>11. CASE FinalizeFind
    <2>1. Unserved(rec) /\ Kind = "generic"
      BY <1>11 DEF FinalizeFind, GenericStart, Unpublished, Reasoned, Open
    <2> QED
      BY <1>0, <1>g, <1>11, <2>1
         DEF FinalizeFind, Find, Reasoned, Rejecting, Grows, Entity, Unserved, Absent, Kind
  <1> QED
    BY <1>1, <1>2, <1>3, <1>4, <1>6, <1>7, <1>8, <1>9, <1>10, <1>11 DEF StarterMoves

\* Reasoned is kept by the starter's writes, which keep the entity's reason and task.
LEMMA StarterWritesReasoned ==
    ASSUME Inv, Reasoned, CreateEntity \/ FailWrite \/ FinalizeWrite, [Next]_vars
    PROVE  Reasoned'
  <1>0. /\ st \in StarterState /\ st.ent \in Entity
        /\ st.ent.task \in Tasks \cup {NoTask}
    BY DEF Inv, TypeOK, StarterState, Entity
  <1>g. Grows /\ (faults' = 0 => faults = 0)
    BY EcsGrows, FaultsGrow
  <1>f. FinalEntity.reason = st.ent.reason /\ FinalEntity.task = st.ent.task
    BY <1>0 DEF FinalEntity, Entity
  <1> QED
    BY <1>0, <1>g, <1>f DEF CreateEntity, FailWrite, FinalizeWrite, StarterState, Reasoned,
                            Rejecting, Grows, Kind

\* Reasoned is inductive, given the parts before it.
LEMMA StepReasoned == Inv /\ Base /\ GenericStart /\ Reasoned /\ [Next]_vars => Reasoned'
  <1> SUFFICES ASSUME Inv, Base, GenericStart, Reasoned, [Next]_vars PROVE Reasoned'
    OBVIOUS
  <1>0. Requests \subseteq Procs
    BY DEF Procs
  <1>g. Grows /\ (faults' = 0 => faults = 0)
    BY EcsGrows, FaultsGrow
  <1>1. CASE UNCHANGED st
    BY <1>1, <1>g, ReasonedFrame
  <1>2. CASE Crash
    <2>1. st'.kind = st.kind /\ st'.ent = st.ent /\ st'.pc \in {st.pc, "crashed"}
      BY <1>2 DEF Crash, ScalerCrash, RouterCrash, Inv, TypeOK, StarterState
    <2> QED
      BY <1>g, <2>1, ReasonedFrame
  <1>3. CASE UsageStep \/ Expire \/ GoIdle \/ \E h \in Hosts : FlushBatch(h)
    BY <1>1, <1>3 DEF UsageStep, UsageScan, UsageDescribe, UsageShape, TrackResourcesUsage,
                      Expire, GoIdle, FlushBatch, actors
  <1>4. CASE \/ (\E p \in Procs : ProcMoves(p) \/ StopTaskWrite(p))
             \/ \E r \in Requests : AbortTask(r) \/ MarkAsFinishedWrite(r) \/ UpdateLastAccessTime(r)
    BY <1>0, <1>1, <1>4, ProcMovesFrame, ProcWritesFrame
       DEF MarkAsFinishedWrite, UpdateLastAccessTime
  <1>5. CASE CloudMoves
    BY <1>1, <1>5, CloudMovesFrame
  <1> QED
    BY <1>2, <1>3, <1>4, <1>5, StepKinds, StarterMovesReasoned, StarterWritesReasoned

-----------------------------------------------------------------------------

\* The invariant of a start.
StartInv == Base /\ GenericStart /\ Reasoned

\* It holds of every reachable state.
LEMMA StartInvariance == Spec => [](Inv /\ StartInv)
  <1>1. Init => Inv /\ StartInv
    <2>1. Init => Reasoned
      BY SessionAssumption DEF Init, Reasoned, Rejecting, QueuedEntity, Absent
    <2> QED
      BY <2>1, InitInv, InitStart DEF StartInv
  <1>2. Inv /\ StartInv /\ [Next]_vars => (Inv /\ StartInv)'
    BY StepInv, StepBase, StepGeneric, StepReasoned DEF StartInv
  <1> QED
    BY <1>1, <1>2, PTL DEF Spec

\* When the finalizer of a generic task (the generic finalizer of starter/starter.go)
\* writes the record, the record is what it read under the lock, or gone, or the read
\* failed: no abort and no finish of the routes slips in between and is lost under the
\* write.
THEOREM FinalizerIsExclusive == Spec => []FinalizerOverwritesWhatItSaw
  <1>1. StartInv => FinalizerOverwritesWhatItSaw
    BY DEF StartInv, GenericStart, Window, FinalizerOverwritesWhatItSaw, Open
  <1> QED
    BY <1>1, StartInvariance, PTL

\* A start that ends with the reason aborted or startupFailure (starter/starter.go)
\* leaves no task running that ECS was not asked to stop, when no call of it failed:
\* the task a client will never reach does not go on costing.
THEOREM RejectedTasksStop == Spec => []RejectedTaskIsStopped
  <1>1. StartInv => RejectedTaskIsStopped
    BY DEF StartInv, Reasoned, Rejecting, Asked, RejectedTaskIsStopped
  <1> QED
    BY <1>1, StartInvariance, PTL
=============================================================================
