------------------------- MODULE SessionLife_proofs -------------------------
(****************************************************************************)
(* Session implements SessionLife (see ImplementsLife in Session): what a   *)
(* client sees of a session started by the selenium, playwright, cypress    *)
(* and similar routes is a small life cycle, whatever batches, loops,       *)
(* requests and crashes do below it.                                        *)
(*                                                                          *)
(* The refinement mapping reads four things of Session's state: whether the *)
(* starter still has the word (Open), the record's status with active and   *)
(* cypress taken together, the usage reported, and the kind, which for      *)
(* a generic task maps every state to one.  Each concrete step is then a    *)
(* stutter or one step of SessionLife (LifeStep), for which the invariant   *)
(* Lived says what the pending writes hold:                                 *)
(*                                                                          *)
(*  - Queued: until the starter publishes, the record is absent or queued   *)
(*    and nobody else writes (Alone);                                       *)
(*  - Routes: no request holds the generic routes' lock;                    *)
(*  - Stops: whatever a request or a loop is about to write is a stop;      *)
(*  - Items: so is what a batch holds, unless the starter waits on it.      *)
(*                                                                          *)
(* KindRoutes is the theorem's premise: only generic tasks are addressed    *)
(* through the generic routes.  The router does not check it                *)
(* (ValidateGenericMapperPresence finds a record of any kind), it is what   *)
(* Zebrunner's clients do; without it an abort may write an older copy      *)
(* back over a session that was published since.                            *)
(****************************************************************************)
EXTENDS SessionStart_proofs

\* A session clients can use; SessionLife does not tell the two apart.
Served(e) == e.status \in {"active", "cypress"}

\* Nobody but the starter has anything under way on the session.
Alone ==
    /\ \A r \in Requests : proc[r].pc \in {"arrive", "rejected"}
    /\ \A p \in Loops : proc[p].pc = "idle"
    /\ usageLoop.pc = "idle"
    /\ \A h \in Hosts : batch[h].waiters \subseteq {Starter}

\* Until the starter publishes, and as long as the record is still queued, the record
\* has no task and nobody else is at work on it.
Queued ==
    /\ Open => rec.status \in {"absent", "queued"}
    /\ rec.status = "queued" => rec.task = NoTask
    /\ Open \/ rec.status = "queued" => Alone

\* No request of another kind is inside the generic routes' lock.
Routes == \A r \in Requests : /\ proc[r].pc \notin {"lock", "handler", "finishWrite", "unlock"}
                              /\ proc[r].op \notin GenericOps

\* A served record never expires, and what the requests and the usage loop carry to
\* their next write is a stopped session.
Stops ==
    /\ Served(rec) => ttl = FALSE
    /\ \A p \in Procs : proc[p].pc = "append" => proc[p].snap.status = "stopped"
    /\ usageLoop.pc = "shape" => usageLoop.snap.status = "stopped"
    /\ usageLoop.pc = "send" => rec.status \in {"stopped", "absent"}

\* What the starter publishes: a stopped record, or one that is served and does not
\* expire.
ItemOf(e, expires) == e.status = "stopped" \/ (Served(e) /\ expires = FALSE)

\* What a batch will write: a stop, unless the starter waits on it; then its queued
\* record or what it publishes.
Items ==
    /\ st.pc \in {"failStop", "failWrite"} => st.ent.status = "stopped"
    /\ \A h \in Hosts : batch[h].waiters # {} =>
           IF Starter \notin batch[h].waiters THEN batch[h].ent.status = "stopped"
           ELSE IF st.pc = "createWait" THEN batch[h].ent = QueuedEntity
           ELSE ItemOf(batch[h].ent, batch[h].expires)

\* The invariant of the sessions that are not generic.
Lived == Kind # "generic" => Queued /\ Routes /\ Stops /\ Items

\* What Session_proofs and SessionStart_proofs have shown of every reachable state.
Reached == Inv /\ StartInv

\* Lived is kept by the starter's moves: every way to failStop goes through FailWith,
\* which makes the entity a stopped one.
LEMMA StarterMovesLived == ASSUME Reached, Lived, StarterMoves PROVE Lived'
  <1> SUFFICES ASSUME Kind' # "generic" PROVE Queued' /\ Routes' /\ Stops' /\ Items'
    BY DEF Lived
  <1>1. /\ UNCHANGED <<rec, ttl, batch, proc, usageLoop>>
        /\ Kind # "generic" /\ (Open' => Open)
        /\ \A h \in Hosts : Starter \in batch[h].waiters => st'.pc = st.pc
    BY StarterMovesFrame DEF Kind, Reached, StartInv, Base, Waiters
  <1>2. Queued /\ Routes /\ Stops /\ Items
    BY <1>1 DEF Lived
  <1>3. Queued' /\ Routes' /\ Stops'
    BY <1>1, <1>2 DEF Queued, Alone, Routes, Stops, Served
  <1>4. st'.pc \in {"failStop", "failWrite"} => st'.ent.status = "stopped"
    <2>0. st \in StarterState /\ st.ent \in Entity
      BY DEF Reached, Inv, TypeOK, StarterState
    <2> USE DEF StarterState, PhaseReturns, PhaseIs, PhaseFrame
    <2>1. CASE Created \/ TaskDefinition
      BY <2>0, <2>1 DEF Created, TaskDefinition
    <2>2. CASE \/ \E t \in Tasks : Register(t)
               \/ RegisterFails \/ StartTask \/ SetNetwork \/ StartDriver \/ PlaywrightReady
      BY <2>0, <2>2 DEF Register, RegisterFails, StartTask, SetNetwork, StartDriver, PlaywrightReady
    <2>3. CASE \E t \in Tasks : LateRegister(t)
      BY <1>2, <2>0, <2>3 DEF LateRegister, Items
    <2>4. CASE Check
      <3>1. ASSUME NEW reason \in Reasons, FailWith(reason) PROVE st'.ent.status = "stopped"
        BY <2>0, <3>1 DEF FailWith, Entity
      <3>2. \/ \E reason \in Reasons : FailWith(reason)
            \/ st'.pc \in {"retry", "phase", "lock", "finWrite"}
        BY <2>0, <2>4 DEF Check, Reasons
      <3> QED
        BY <3>1, <3>2
    <2>5. CASE Retry \/ FailStop \/ FinalizeStop
      BY <1>2, <2>0, <2>5 DEF Retry, FailStop, FinalizeStop, Items
    <2>6. CASE FinalizeLock \/ FinalizeUnlock \/ FinalizeWritten \/ FinalizeFind
      BY <2>0, <2>6 DEF FinalizeLock, FinalizeUnlock, FinalizeWritten, FinalizeFind
    <2> QED
      BY <2>1, <2>2, <2>3, <2>4, <2>5, <2>6 DEF StarterMoves
  <1>5. Items'
    BY <1>1, <1>2, <1>4 DEF Items, ItemOf, Served
  <1> QED
    BY <1>3, <1>5

\* Lived is kept by the starter's writes, whose items are of the three kinds Items
\* allows.
LEMMA StarterWritesLived ==
    ASSUME Reached, Lived, CreateEntity \/ FailWrite \/ FinalizeWrite
    PROVE  Lived'
  <1> SUFFICES ASSUME Kind' # "generic" PROVE Queued' /\ Routes' /\ Stops' /\ Items'
    BY DEF Lived
  <1>0. /\ st \in StarterState /\ batch \in [Hosts -> Item] /\ Home \in Hosts
        /\ HostOf(Starter) = Home /\ st.ent \in Entity
    BY HostOfType DEF Reached, Inv, TypeOK, StarterState
  <1>1. /\ UNCHANGED <<rec, ttl, proc, usageLoop>>
        /\ st'.kind = st.kind
        /\ \/ CreateEntity /\ st.pc = "create" /\ st'.pc = "createWait"
           \/ FailWrite /\ st.pc = "failWrite" /\ st'.pc = "failAwait"
           \/ FinalizeWrite /\ st.pc = "finWrite" /\ st'.pc = "await"
    BY <1>0 DEF CreateEntity, FailWrite, FinalizeWrite, redis, StarterState
  <1>2. Kind # "generic" /\ Open
    BY <1>1 DEF Kind, Open
  <1>3. Queued /\ Routes /\ Stops /\ Items
    BY <1>2 DEF Lived
  <1>4. /\ batch'[Home].waiters = batch[Home].waiters \cup {Starter}
        /\ \A h \in Hosts \ {Home} : batch'[h] = batch[h]
    BY <1>0 DEF CreateEntity, FailWrite, FinalizeWrite, WritedByWorker
  <1>5. /\ CreateEntity => batch'[Home].ent = QueuedEntity
        /\ FailWrite => batch'[Home].ent = st.ent
        /\ FinalizeWrite => batch'[Home].ent = FinalEntity /\ batch'[Home].expires = FALSE
    BY <1>0 DEF CreateEntity, FailWrite, FinalizeWrite, WritedByWorker
  <1>6. Served(FinalEntity)
    BY <1>0, <1>2 DEF FinalEntity, Served, Entity
  <1>7. Queued' /\ Routes' /\ Stops'
    BY <1>1, <1>2, <1>3, <1>4 DEF Queued, Alone, Routes, Stops, Served
  <1>8. \A h \in Hosts \ {Home} : Starter \notin batch[h].waiters
    BY DEF Reached, StartInv, Base, Waiters
  <1>9. Items'
    BY <1>1, <1>3, <1>4, <1>5, <1>6, <1>8 DEF Items, ItemOf
  <1> QED
    BY <1>7, <1>9

\* Lived is kept by the requests and the loops that read, wait or stop a task: a route
\* finds no session before the publication, and what it will append is a stop.
LEMMA ProcMovesLived ==
    ASSUME Reached, Lived, KindRoutes, NEW p \in Procs, ProcMoves(p)
    PROVE  Lived'
  <1> SUFFICES ASSUME Kind' # "generic" PROVE Queued' /\ Routes' /\ Stops' /\ Items'
    BY DEF Lived
  <1>0. proc \in [Procs -> ProcState] /\ Kind \in Kinds
    BY DEF Reached, Inv, TypeOK, StarterState, Kind
  <1>1. /\ UNCHANGED <<rec, ttl, batch, st, usageLoop>> /\ \A q \in Procs \ {p} : proc'[q] = proc[q]
        /\ Kind # "generic" /\ UNCHANGED Open
    BY ProcMovesFrame DEF Kind, Open, Answered, Reached
  <1>2. Queued /\ Routes /\ Stops /\ Items
    BY <1>1 DEF Lived
  <1>3. OpsOf[Kind] \cap GenericOps = {}
    BY <1>0, <1>1 DEF KindRoutes, SessionOps, GenericOps
  <1> USE DEF ProcMoves, ValidateGenericMapperPresence, ValidateSession,
              LockGenericTaskCache, MarkAsFinished, UnlockGenericTaskCache, StopTask, Written,
              WriteFailed, IdleScan, IdleRecheck, UnhealthyScan, UnhealthyStop, UnhealthySkip,
              ForceStop, Goto, AfterFailedStop, AfterStop, ProcState
  <1>4. ASSUME p \in Requests
        PROVE  /\ proc'[p].pc \notin {"lock", "handler", "finishWrite", "unlock"}
               /\ proc'[p].op \notin GenericOps
    BY <1>0, <1>2, <1>3, <1>4, SessionAssumption DEF Routes, Loops
  <1>5. proc'[p].pc = "append" => proc'[p].snap.status = "stopped"
    BY <1>0 DEF Entity
  <1>6. ASSUME Alone, rec.status \in {"absent", "queued"}, rec.status = "queued" => rec.task = NoTask
        PROVE  p \in Requests /\ proc'[p].pc \in {"arrive", "rejected"}
    BY <1>0, <1>3, <1>6 DEF Alone, Cached, IsIdle, Present, Procs, Loops
  <1>7. Queued'
    BY <1>1, <1>2, <1>6 DEF Queued, Alone, Procs, Loops
  <1>8. Routes'
    BY <1>1, <1>2, <1>4 DEF Routes, Procs
  <1>9. Stops'
    BY <1>1, <1>2, <1>5 DEF Stops, Served
  <1>10. Items'
    BY <1>1, <1>2 DEF Items
  <1> QED
    BY <1>7, <1>8, <1>9, <1>10

\* Lived is kept by the batched writes: only stops are left, as AbortTask is the
\* generic routes'.
LEMMA ProcWritesLived ==
    ASSUME Reached, Lived,
           (\E p \in Procs : StopTaskWrite(p)) \/ (\E r \in Requests : AbortTask(r))
    PROVE  Lived'
  <1> SUFFICES ASSUME Kind' # "generic" PROVE Queued' /\ Routes' /\ Stops' /\ Items'
    BY DEF Lived
  <1>0. /\ proc \in [Procs -> ProcState] /\ batch \in [Hosts -> Item]
        /\ Starter \notin Procs
        /\ \A p \in Loops : p \notin Requests
    BY SessionAssumption DEF Reached, Inv, TypeOK, Starter, Procs, Loops, IdleLoop, UnhealthyLoop
  <1>1. UNCHANGED <<rec, ttl, st, usageLoop>> /\ UNCHANGED Open
    BY ProcWritesFrame DEF Procs, Reached
  <1>2. Kind # "generic"
    BY <1>1 DEF Kind
  <1>3. Queued /\ Routes /\ Stops /\ Items
    BY <1>2 DEF Lived
  <1>4. PICK p \in Procs : StopTaskWrite(p)
    BY <1>3 DEF AbortTask, Routes
  <1>5. /\ proc[p].pc = "append" /\ HostOf(p) \in Hosts
        /\ proc'[p].pc = "await" /\ proc'[p].op = proc[p].op
        /\ \A q \in Procs \ {p} : proc'[q] = proc[q]
        /\ batch'[HostOf(p)].ent = proc[p].snap
        /\ batch'[HostOf(p)].waiters = batch[HostOf(p)].waiters \cup {p}
        /\ \A h \in Hosts \ {HostOf(p)} : batch'[h] = batch[h]
    BY <1>0, <1>4, HostOfType DEF StopTaskWrite, WritedByWorker, Goto, ProcState
  <1>6. ~Alone
    BY <1>5 DEF Alone, Procs
  <1>7. ~Open /\ rec.status # "queued"
    BY <1>3, <1>6 DEF Queued
  <1>8. Queued'
    BY <1>1, <1>7 DEF Queued
  <1>9. Routes'
    BY <1>3, <1>5 DEF Routes, Procs
  <1>10. Stops'
    BY <1>1, <1>3, <1>5 DEF Stops, Served
  <1>11. \A h \in Hosts : Starter \notin batch[h].waiters
    BY <1>7, HostOfType DEF Open, Answered, Reached, StartInv, Base, Waiters
  <1>12. Items'
    BY <1>0, <1>1, <1>3, <1>5, <1>11 DEF Items, Stops
  <1> QED
    BY <1>8, <1>9, <1>10, <1>12

\* Lived is kept by expiry, idleness and UpdateLastAccessTime.
LEMMA RecordMovesLived ==
    ASSUME Reached, Lived,
           \/ Expire \/ GoIdle
           \/ \E r \in Requests : MarkAsFinishedWrite(r) \/ UpdateLastAccessTime(r)
    PROVE  Lived'
  <1> SUFFICES ASSUME Kind' # "generic" PROVE Queued' /\ Routes' /\ Stops' /\ Items'
    BY DEF Lived
  <1>0. proc \in [Procs -> ProcState] /\ rec \in Entity
    BY DEF Reached, Inv, TypeOK
  <1>1. UNCHANGED <<batch, st, usageLoop>>
    BY DEF Expire, GoIdle, MarkAsFinishedWrite, UpdateLastAccessTime, actors
  <1>2. Kind # "generic" /\ UNCHANGED Open
    BY <1>1 DEF Kind, Open, Answered
  <1>3. Queued /\ Routes /\ Stops /\ Items
    BY <1>2 DEF Lived
  <1>4. CASE Expire
    BY <1>1, <1>2, <1>3, <1>4
       DEF Expire, actors, Absent, Queued, Alone, Routes, Stops, Served, Items
  <1>5. CASE GoIdle
    BY <1>0, <1>1, <1>2, <1>3, <1>5
       DEF GoIdle, actors, Entity, Queued, Alone, Routes, Stops, Served, Items
  <1>6. ASSUME NEW r \in Requests, UpdateLastAccessTime(r)
        PROVE  Queued' /\ Routes' /\ Stops' /\ Items'
    <2>1. ~Open /\ rec.status # "queued"
      BY <1>3, <1>6 DEF UpdateLastAccessTime, Queued, Alone
    <2>2. rec'.status = rec.status /\ UNCHANGED ttl
      BY <1>0, <1>6 DEF UpdateLastAccessTime, Accessed, Entity
    <2>3. /\ proc'[r].pc \in {"stop", "done"} /\ proc'[r].op = proc[r].op
          /\ \A q \in Procs \ {r} : proc'[q] = proc[q]
      <3>1. \E pc \in {"stop", "done"} : \E snap : Goto(r, pc, snap)
        BY <1>6 DEF UpdateLastAccessTime
      <3> QED
        BY <1>0, <3>1 DEF Goto, ProcState, Procs
    <2>4. Queued'
      BY <1>2, <2>1, <2>2 DEF Queued
    <2>5. Routes' /\ Stops' /\ Items'
      BY <1>1, <1>3, <2>2, <2>3 DEF Routes, Stops, Items, Served, Procs
    <2> QED
      BY <2>4, <2>5
  <1>7. \A r \in Requests : ~MarkAsFinishedWrite(r)
    BY <1>3 DEF MarkAsFinishedWrite, Routes
  <1> QED
    BY <1>4, <1>5, <1>6, <1>7

\* Lived is kept by the usage loop, which shapes stopped records only.
LEMMA UsageStepLived == ASSUME Reached, Lived, UsageStep PROVE Lived'
  <1> SUFFICES ASSUME Kind' # "generic" PROVE Queued' /\ Routes' /\ Stops' /\ Items'
    BY DEF Lived
  <1>0. usageLoop \in UsageState /\ rec \in Entity
    BY DEF Reached, Inv, TypeOK
  <1>1. UNCHANGED <<batch, st, proc>>
    BY DEF UsageStep, UsageScan, UsageDescribe, UsageShape, TrackResourcesUsage
  <1>2. Kind # "generic" /\ UNCHANGED Open
    BY <1>1 DEF Kind, Open, Answered
  <1>3. Queued /\ Routes /\ Stops /\ Items
    BY <1>2 DEF Lived
  <1>4. ~Open /\ rec.status # "queued"
    <2>1. CASE usageLoop.pc = "idle"
      BY <1>3, <2>1
         DEF Queued, UsageStep, UsageScan, UsageDescribe, UsageShape, TrackResourcesUsage,
                 Cached, Reached, StartInv, Base, Early
    <2>2. CASE usageLoop.pc # "idle"
      BY <1>3, <2>2 DEF Queued, Alone
    <2> QED
      BY <2>1, <2>2
  <1>5. /\ (rec' = rec /\ ttl' = ttl) \/ rec'.status = "stopped"
        /\ usageLoop'.pc = "shape" => usageLoop'.snap.status = "stopped"
        /\ usageLoop'.pc = "send" => rec'.status = "stopped"
    <2>1. CASE UsageScan \/ TrackResourcesUsage
      BY <2>1 DEF UsageScan, TrackResourcesUsage, redis
    <2>2. CASE UsageDescribe
      BY <1>0, <2>2 DEF UsageDescribe, ToShape, Shaped, UsageState, Entity, redis
    <2>3. CASE UsageShape
      BY <1>0, <1>3, <2>3 DEF UsageShape, Pipeline, PipelineFails, UsageState, Stops, redis
    <2> QED
      BY <2>1, <2>2, <2>3 DEF UsageStep
  <1>6. Queued'
    BY <1>2, <1>4, <1>5 DEF Queued
  <1>7. Routes' /\ Stops' /\ Items'
    BY <1>1, <1>3, <1>5 DEF Routes, Stops, Served, Items
  <1> QED
    BY <1>6, <1>7

\* Lived is kept by ECS, the clock and the lost loop.
LEMMA CloudMovesLived == ASSUME Reached, Lived, CloudMoves PROVE Lived'
  <1>1. UNCHANGED <<rec, ttl, batch, st, proc, usageLoop>>
    BY CloudMovesFrame
  <1>2. UNCHANGED Open
    BY <1>1 DEF Open, Answered
  <1> QED
    BY <1>1, <1>2 DEF Lived, Kind, Queued, Alone, Routes, Stops, Served, Items

\* Lived is kept by a batch: the starter's write ends its say unless it is the queued
\* record, anyone else's is a stop.
LEMMA FlushBatchLived == ASSUME Reached, Lived, NEW h \in Hosts, FlushBatch(h) PROVE Lived'
  <1> SUFFICES ASSUME Kind' # "generic" PROVE Queued' /\ Routes' /\ Stops' /\ Items'
    BY DEF Lived
  <1>0. /\ proc \in [Procs -> ProcState] /\ batch \in [Hosts -> Item] /\ NoItem.waiters = {}
        /\ batch[h].waiters \subseteq Procs \cup {Starter} /\ batch[h].waiters # {}
        /\ Starter \notin Procs
    BY SessionAssumption DEF FlushBatch, Reached, Inv, TypeOK, Item, NoItem, Starter, Procs,
       Loops, IdleLoop, UnhealthyLoop
  <1>1. /\ UNCHANGED <<st, usageLoop>> /\ batch'[h] = NoItem
        /\ \A g \in Hosts \ {h} : batch'[g] = batch[g]
        /\ \/ rec' = rec /\ ttl' = ttl
           \/ rec' = batch[h].ent /\ ttl' = batch[h].expires
    BY <1>0 DEF FlushBatch, Pipeline, PipelineFails, redis
  <1>p. \A p \in Procs : \/ proc'[p] = proc[p]
                          \/ /\ p \in batch[h].waiters
                             /\ proc'[p].pc = "failed" /\ proc'[p].op = proc[p].op
    BY <1>0 DEF FlushBatch, ProcState
  <1>2. Kind # "generic" /\ (Open' => Open)
    BY <1>0, <1>1, HostOfType DEF Kind, Open, Answered, Reached, StartInv, Base, Waiters
  <1>3. Queued /\ Routes /\ Stops /\ Items
    BY <1>2 DEF Lived
  <1>4. Routes'
    BY <1>p, <1>3 DEF Routes, Procs
  <1>5. Items'
    BY <1>0, <1>1, <1>3 DEF Items
  <1>6. CASE Starter \in batch[h].waiters
    <2>1. h = Home /\ Open /\ Alone
      BY <1>3, <1>6, HostOfType DEF Reached, StartInv, Base, Waiters, Open, Answered, Queued
    <2>2. UNCHANGED proc
      BY <1>0, <1>p, <2>1 DEF FlushBatch, Alone
    <2>3. Alone'
      BY <1>0, <1>1, <2>1, <2>2 DEF Alone
    <2>4. \/ rec' = rec /\ ttl' = ttl
          \/ rec' = QueuedEntity /\ Open'
          \/ ~Open' /\ ItemOf(rec', ttl')
      <3>1. CASE st.pc = "createWait"
        BY <1>1, <1>3, <1>6, <3>1 DEF Items, Open
      <3>2. CASE st.pc # "createWait"
        BY <1>0, <1>1, <1>3, <1>6, <2>1, <3>2, HostOfType
           DEF Items, Open, Answered, Reached, StartInv, Base, Waiters
      <3> QED
        BY <3>1, <3>2
    <2>5. Queued'
      BY <1>2, <1>3, <2>1, <2>3, <2>4 DEF Queued, QueuedEntity, Absent, ItemOf, Served
    <2>6. Stops'
      BY <1>1, <1>3, <2>1, <2>2, <2>4 DEF Stops, Served, ItemOf, QueuedEntity, Absent, Alone
    <2> QED
      BY <1>4, <1>5, <2>5, <2>6
  <1>7. CASE Starter \notin batch[h].waiters
    <2>1. ~Open /\ rec.status # "queued"
      BY <1>0, <1>3, <1>7 DEF Queued, Alone
    <2>2. (rec' = rec /\ ttl' = ttl) \/ rec'.status = "stopped"
      BY <1>0, <1>1, <1>3, <1>7 DEF Items
    <2>3. Queued'
      BY <1>2, <2>1, <2>2 DEF Queued
    <2>4. Stops'
      BY <1>1, <1>p, <1>3, <2>2 DEF Stops, Served
    <2> QED
      BY <1>4, <1>5, <2>3, <2>4
  <1> QED
    BY <1>6, <1>7

\* Lived is kept by a crash, which only takes pending work away.
LEMMA CrashLived == ASSUME Reached, Lived, Crash PROVE Lived'
  <1> SUFFICES ASSUME Kind' # "generic" PROVE Queued' /\ Routes' /\ Stops' /\ Items'
    BY DEF Lived
  <1>0. NoItem.waiters = {} /\ Base /\ Inv
    BY DEF NoItem, Reached, StartInv
  <1>1. Kind # "generic" /\ (Open' => Open)
    BY <1>0, CrashFrame DEF Kind
  <1>2. Queued /\ Routes /\ Stops /\ Items
    BY <1>1 DEF Lived
  <1>3. Alone => Alone'
    BY <1>0, CrashFrame DEF Alone
  <1>4. Queued'
    BY <1>0, <1>1, <1>2, <1>3, CrashFrame DEF Queued
  <1>5. Routes'
    BY <1>0, <1>2, CrashFrame DEF Routes
  <1>6. Stops'
    BY <1>0, <1>2, CrashFrame DEF Stops, Served, Procs
  <1>7. Items'
    BY <1>0, <1>2, CrashFrame DEF Items
  <1> QED
    BY <1>4, <1>5, <1>6, <1>7

\* Lived is inductive, given what is already known of the reachable states.
LEMMA StepLived == KindRoutes /\ Reached /\ Lived /\ [Next]_vars => Lived'
  <1> SUFFICES ASSUME KindRoutes, Reached, Lived, [Next]_vars PROVE Lived'
    OBVIOUS
  <1>0. Requests \subseteq Procs /\ Inv
    BY DEF Procs, Reached
  <1> QED
    BY <1>0, StepKinds, StarterMovesLived, StarterWritesLived, ProcMovesLived, ProcWritesLived,
       RecordMovesLived, UsageStepLived, CloudMovesLived, FlushBatchLived, CrashLived

-----------------------------------------------------------------------------

\* A step that changes nothing the mapping reads is a stutter of SessionLife; a generic
\* task's steps are all such.
LEMMA LifeStutters ==
    ASSUME st'.kind = st.kind, usage' = usage,
           Kind # "generic" => rec'.status = rec.status \/ (Served(rec) /\ Served(rec')),
           UNCHANGED Open
    PROVE  UNCHANGED Life!vars
  BY DEF Life!vars, Kind, Served

\* A starter that ends without a write gives up.
LEMMA LifeGivesUp ==
    ASSUME Kind # "generic", st'.kind = st.kind, usage' = usage, rec'.status = rec.status,
           Open, ~Open'
    PROVE  Life!GiveUp
  BY DEF Life!GiveUp, Kind

\* Its last write publishes the session or its failure.
LEMMA LifePublishes ==
    ASSUME Kind # "generic", st'.kind = st.kind, usage' = usage, Open, ~Open',
           rec'.status = "stopped" \/ Served(rec')
    PROVE  \E outcome \in {"served", "stopped"} : Life!Publish(outcome)
  BY DEF Life!Publish, Kind, Served

\* A stop after the publication stops the session, or records the stop of one that is
\* already gone.
LEMMA LifeStops ==
    ASSUME Kind # "generic", st'.kind = st.kind, usage' = usage, ~Open, ~Open',
           rec.status = "absent" \/ Served(rec), rec'.status = "stopped"
    PROVE  Life!Stop
  BY DEF Life!Stop, Kind, Served

\* The first write of the starter queues the session.
LEMMA LifeQueues ==
    ASSUME Kind # "generic", st'.kind = st.kind, usage' = usage, Open, Open',
           rec.status = "absent", rec'.status = "queued"
    PROVE  Life!Queue
  BY DEF Life!Queue, Kind

\* The expiry of a stopped or a forsaken record forgets it.
LEMMA LifeForgets ==
    ASSUME Kind # "generic", st'.kind = st.kind, usage' = usage, ~Open, ~Open',
           rec.status \in {"queued", "stopped"}, rec'.status = "absent"
    PROVE  Life!Forget
  BY DEF Life!Forget, Kind

\* The usage is reported once, of a session that is stopped or gone.
LEMMA LifeReports ==
    ASSUME Kind # "generic", st'.kind = st.kind, usage = 0, usage' = 1, ~Open, ~Open',
           rec' = rec, rec.status \in {"stopped", "absent"}
    PROVE  Life!Report
  BY DEF Life!Report, Kind

\* A step that leaves the record's status and the usage as they are either
\* keeps the starter's say or ends it.
LEMMA LifeKeeps ==
    ASSUME st'.kind = st.kind, usage' = usage, rec'.status = rec.status, Open' => Open
    PROVE  [Life!Next]_Life!vars
  <1>1. CASE Kind = "generic"
    <2>1. UNCHANGED Life!vars
      BY <1>1 DEF Life!vars, Kind
    <2> QED
      BY <2>1
  <1>2. CASE Kind # "generic" /\ UNCHANGED Open
    BY <1>2, LifeStutters
  <1>3. CASE Kind # "generic" /\ Open /\ ~Open'
    BY <1>3, LifeGivesUp DEF Life!Next
  <1>4. UNCHANGED Open \/ (Open /\ ~Open')
    BY DEF Open
  <1> QED
    BY <1>1, <1>2, <1>3, <1>4

\* A batch that is written queues, publishes or stops the session; one that fails may
\* end the starter's say.
LEMMA FlushBatchLife ==
    ASSUME Reached, Lived, NEW h \in Hosts, FlushBatch(h), Kind # "generic"
    PROVE  [Life!Next]_Life!vars
  <1>0. /\ batch \in [Hosts -> Item] /\ NoItem.waiters = {}
        /\ batch[h].waiters \subseteq Procs \cup {Starter} /\ batch[h].waiters # {}
        /\ Starter \notin Procs
    BY SessionAssumption DEF FlushBatch, Reached, Inv, TypeOK, Item, NoItem, Starter, Procs,
       Loops, IdleLoop, UnhealthyLoop
  <1>1. /\ UNCHANGED <<st, usage>> /\ batch'[h] = NoItem
        /\ \A g \in Hosts \ {h} : batch'[g] = batch[g]
        /\ rec' = rec \/ rec' = batch[h].ent
    BY <1>0 DEF FlushBatch, Pipeline, PipelineFails, redis
  <1>2. Queued /\ Items
    BY DEF Lived
  <1>3. Open' => Open
    BY <1>0, <1>1, HostOfType DEF Open, Answered, Reached, StartInv, Base, Waiters
  <1>4. CASE rec' = rec
    BY <1>1, <1>3, <1>4, LifeKeeps
  <1>5. CASE rec' = batch[h].ent /\ Starter \in batch[h].waiters
    <2>1. h = Home /\ Open
      BY <1>5, HostOfType DEF Reached, StartInv, Base, Waiters, Open, Answered
    <2>2. CASE st.pc = "createWait"
      <3>1. rec'.status = "queued" /\ Open'
        BY <1>1, <1>2, <1>5, <2>2 DEF Items, QueuedEntity, Absent, Open
      <3>2. rec.status \in {"absent", "queued"}
        BY <1>2, <2>1 DEF Queued
      <3> QED
        BY <1>1, <2>1, <3>1, <3>2, LifeQueues, LifeKeeps DEF Life!Next
    <2>3. CASE st.pc # "createWait"
      <3>1. ~Open'
        BY <1>0, <1>1, <1>5, <2>1, <2>3, HostOfType
           DEF Open, Answered, Reached, StartInv, Base, Waiters
      <3>2. rec'.status = "stopped" \/ Served(rec')
        BY <1>2, <1>5, <2>3 DEF Items, ItemOf
      <3> QED
        BY <1>1, <2>1, <3>1, <3>2, LifePublishes DEF Life!Next
    <2> QED
      BY <2>2, <2>3
  <1>6. CASE rec' = batch[h].ent /\ Starter \notin batch[h].waiters
    <2>1. ~Open /\ rec.status # "queued"
      BY <1>0, <1>2, <1>6 DEF Queued, Alone
    <2>2. rec'.status = "stopped"
      BY <1>0, <1>2, <1>6 DEF Items
    <2>3. rec.status \in {"absent", "active", "cypress", "stopped"}
      BY <2>1 DEF Reached, Inv, TypeOK, Entity, Status
    <2> QED
      BY <1>1, <1>3, <2>1, <2>2, <2>3, LifeStops, LifeKeeps DEF Life!Next, Served
  <1> QED
    BY <1>1, <1>4, <1>5, <1>6

\* The usage loop stutters, stops the session of a lost task, or reports.
LEMMA UsageStepLife ==
    ASSUME Reached, Lived, UsageStep, Kind # "generic"
    PROVE  [Life!Next]_Life!vars
  <1>0. usageLoop \in UsageState /\ rec.status \in Status /\ Queued /\ Stops
    BY DEF Reached, Inv, TypeOK, Entity, Lived
  <1>1. UNCHANGED <<batch, st>>
    BY DEF UsageStep, UsageScan, UsageDescribe, UsageShape, TrackResourcesUsage
  <1>2. UNCHANGED Open
    BY <1>1 DEF Open, Answered
  <1>3. CASE UsageScan \/ UsageDescribe
    BY <1>1, <1>2, <1>3, LifeKeeps DEF UsageScan, UsageDescribe, redis
  <1>4. CASE UsageShape
    <2>1. ~Open /\ rec.status # "queued"
      BY <1>0, <1>4 DEF Queued, Alone, UsageShape
    <2>2. usage' = usage /\ (rec' = rec \/ rec'.status = "stopped")
      BY <1>0, <1>4 DEF UsageShape, Pipeline, PipelineFails, Stops, redis
    <2> QED
      BY <1>0, <1>1, <1>2, <2>1, <2>2, LifeStops, LifeKeeps DEF Life!Next, Served, Status
  <1>5. CASE TrackResourcesUsage
    <2>1. ~Open /\ rec.status \in {"stopped", "absent"} /\ usage = 0
      BY <1>0, <1>5 DEF Queued, Alone, Stops, TrackResourcesUsage, Reached, Inv, Accounting
    <2>2. rec' = rec /\ usage' = 1
      BY <1>5, <2>1 DEF TrackResourcesUsage, redis
    <2> QED
      BY <1>1, <1>2, <2>1, <2>2, LifeReports DEF Life!Next
  <1> QED
    BY <1>3, <1>4, <1>5 DEF UsageStep

\* An expiry forgets the session, an access leaves its status.
LEMMA RecordMovesLife ==
    ASSUME Reached, Lived, Kind # "generic",
           \/ Expire \/ GoIdle
           \/ \E r \in Requests : MarkAsFinishedWrite(r) \/ UpdateLastAccessTime(r)
    PROVE  [Life!Next]_Life!vars
  <1>0. rec \in Entity /\ Queued /\ Routes /\ Stops
    BY DEF Reached, Inv, TypeOK, Lived
  <1>1. UNCHANGED <<batch, st, usage>>
    BY DEF Expire, GoIdle, MarkAsFinishedWrite, UpdateLastAccessTime, actors
  <1>2. UNCHANGED Open
    BY <1>1 DEF Open, Answered
  <1>3. CASE Expire
    <2>1. ~Open
      BY <1>3 DEF Expire, StartupOver, Open, Reached, StartInv, Reasoned
    <2>2. rec.status \in {"queued", "stopped"} /\ rec'.status = "absent"
      BY <1>0, <1>3 DEF Expire, Present, Stops, Served, Entity, Status, Absent
    <2> QED
      BY <1>1, <1>2, <2>1, <2>2, LifeForgets DEF Life!Next
  <1>4. CASE GoIdle
    BY <1>0, <1>1, <1>2, <1>4, LifeKeeps DEF GoIdle, Entity
  <1>5. ASSUME NEW r \in Requests, UpdateLastAccessTime(r)
        PROVE  [Life!Next]_Life!vars
    BY <1>0, <1>1, <1>2, <1>5, LifeKeeps DEF UpdateLastAccessTime, Accessed, Entity
  <1>6. \A r \in Requests : ~MarkAsFinishedWrite(r)
    BY <1>0 DEF MarkAsFinishedWrite, Routes
  <1> QED
    BY <1>3, <1>4, <1>5, <1>6

\* Every step of Session is a step of SessionLife or a stutter.
LEMMA LifeStep ==
    KindRoutes /\ Reached /\ Lived /\ [Next]_vars => [Life!Next]_Life!vars
  <1> SUFFICES ASSUME KindRoutes, Reached, Lived, [Next]_vars PROVE [Life!Next]_Life!vars
    OBVIOUS
  <1>0. Requests \subseteq Procs /\ Inv /\ Base
    BY DEF Procs, Reached, StartInv
  <1>1. CASE StarterMoves
    BY <1>0, <1>1, StarterMovesFrame, LifeKeeps
  <1>2. CASE CreateEntity \/ FailWrite \/ FinalizeWrite
    <2>1. Open /\ st'.kind = st.kind /\ UNCHANGED <<rec, usage>>
      BY <1>0, <1>2
         DEF CreateEntity, FailWrite, FinalizeWrite, Open, redis, Inv, TypeOK, StarterState
    <2> QED
      BY <2>1, LifeKeeps
  <1>3. CASE Crash
    BY <1>0, <1>3, CrashFrame, LifeKeeps
  <1>4. CASE (\E p \in Procs : StopTaskWrite(p)) \/ (\E r \in Requests : AbortTask(r))
    BY <1>0, <1>4, ProcWritesFrame, LifeKeeps
  <1>5. CASE \E p \in Procs : ProcMoves(p)
    <2>1. UNCHANGED <<rec, batch, st, usage>>
      BY <1>0, <1>5, ProcMovesFrame
    <2>2. UNCHANGED Open
      BY <2>1 DEF Open, Answered
    <2> QED
      BY <2>1, <2>2, LifeKeeps
  <1>6. CASE CloudMoves
    <2>1. UNCHANGED <<rec, batch, st, usage>>
      BY <1>6, CloudMovesFrame
    <2>2. UNCHANGED Open
      BY <2>1 DEF Open, Answered
    <2> QED
      BY <2>1, <2>2, LifeKeeps
  <1>7. CASE /\ Kind = "generic"
             /\ \/ UsageStep \/ Expire \/ GoIdle \/ (\E h \in Hosts : FlushBatch(h))
                \/ \E r \in Requests : MarkAsFinishedWrite(r) \/ UpdateLastAccessTime(r)
    <2>1. UNCHANGED st
      BY <1>7 DEF UsageStep, UsageScan, UsageDescribe, UsageShape, TrackResourcesUsage, Expire,
                  GoIdle, FlushBatch, MarkAsFinishedWrite, UpdateLastAccessTime, actors
    <2>2. UNCHANGED Life!vars
      BY <1>7, <2>1 DEF Life!vars, Kind
    <2> QED
      BY <2>2
  <1>8. CASE /\ Kind # "generic"
             /\ \/ UsageStep \/ Expire \/ GoIdle \/ (\E h \in Hosts : FlushBatch(h))
                \/ \E r \in Requests : MarkAsFinishedWrite(r) \/ UpdateLastAccessTime(r)
    BY <1>8, FlushBatchLife, UsageStepLife, RecordMovesLife
  <1> QED
    BY <1>0, <1>1, <1>2, <1>3, <1>4, <1>5, <1>6, <1>7, <1>8, StepKinds

\* The initial states map to initial states.
LEMMA InitLife == Init => Lived /\ Life!Init
  <1> SUFFICES ASSUME Init PROVE Lived /\ Life!Init
    OBVIOUS
  <1>1. NoItem.waiters = {} /\ Absent.status = "absent" /\ Absent.task = NoTask
    BY DEF NoItem, Absent
  <1>2. Queued
    BY <1>1, SessionAssumption DEF Init, Queued, Alone, Procs, Loops
  <1>3. Routes
    BY SessionAssumption DEF Init, Routes, Procs, Loops, GenericOps
  <1>4. Stops /\ Items
    BY <1>1 DEF Init, Stops, Items, Served
  <1>5. Life!Init
    BY <1>1 DEF Init, Life!Init, Open
  <1> QED
    BY <1>2, <1>3, <1>4, <1>5 DEF Lived

\* Every behaviour of the router's and the scaler's code on a session that is not a
\* generic task (starter/starter.go, the mapper, the routes, the scaler's loops) is,
\* seen through the record's status, a behaviour of SessionLife: queued once, published
\* once, stopped only afterwards, never served again after a stop, its usage reported
\* at most once.
THEOREM SessionImplementsLife == ASSUME KindRoutes PROVE Spec => ImplementsLife
  <1>1. Spec => [](Reached /\ Lived)
    <2>1. Init => Lived
      BY InitLife
    <2>2. Reached /\ Lived /\ [Next]_vars => Lived'
      BY KindRoutes, StepLived
    <2>3. Spec => []Reached
      BY StartInvariance, PTL DEF Reached
    <2> QED
      BY <2>1, <2>2, <2>3, PTL DEF Spec
  <1>2. Init => Life!Init
    BY InitLife
  <1>3. Reached /\ Lived /\ [Next]_vars => [Life!Next]_Life!vars
    BY KindRoutes, LifeStep
  <1> QED
    BY <1>1, <1>2, <1>3, PTL DEF Spec, ImplementsLife, Life!Spec
=============================================================================
