-------------------------- MODULE Session_proofs --------------------------
(***************************************************************************)
(* Type correctness of Session, and the proof that the resource usage of a  *)
(* session is reported at most once.  The argument follows the tasks set:    *)
(* only the starter's last write adds the uuid to it, the usage loop reports *)
(* nothing it did not find there, and it removes the uuid before it reports. *)
(***************************************************************************)
EXTENDS Session, TLAPS

\* Where the starter no longer adds the uuid to a set.
Decided == {"failAwait", "await", "unlock", "done", "crashed"}

\* The uuid will not be added to the tasks set again.
Joined == /\ st.pc \in Decided
          /\ \A h \in Hosts : "TASK" \notin batch[h].attach

Accounting ==
    /\ \A h \in Hosts : "TASK" \in batch[h].attach => h = Home /\ st.pc \in Decided
    /\ "TASK" \in sets \/ usageLoop.pc # "idle" \/ usage > 0 => Joined
    /\ usageLoop.pc = "send" => usage = 0 /\ "TASK" \notin sets
    /\ usage > 0 => usage = 1 /\ usageLoop.pc = "idle" /\ "TASK" \notin sets

Inv == TypeOK /\ Accounting

-----------------------------------------------------------------------------
(* What the helpers return *)

\* Every process writes through the worker of a known host; the starter
\* through that of its own router.
LEMMA HostOfType ==
    /\ Home \in Hosts
    /\ Scaler \in Hosts
    /\ HostOf(Starter) = Home
    /\ \A p \in Procs \cup {Starter} : HostOf(p) \in Hosts
  <1>1. Home \in Hosts /\ Scaler \in Hosts
    BY SessionAssumption DEF Hosts
  <1>2. HostOf(Starter) = Home
    BY DEF HostOf, Starter, Loops, IdleLoop, UnhealthyLoop
  <1>3. ASSUME NEW p \in Loops PROVE HostOf(p) = Scaler
    BY DEF HostOf, Loops, Starter, IdleLoop, UnhealthyLoop
  <1>4. ASSUME NEW p \in Requests PROVE HostOf(p) = RouterOf[p]
    BY SessionAssumption DEF HostOf, Loops
  <1>5. \A p \in Procs \cup {Starter} : HostOf(p) \in Hosts
    BY <1>1, <1>2, <1>3, <1>4, SessionAssumption DEF Procs, Hosts
  <1> QED
    BY <1>1, <1>2, <1>5

\* The records and items the actions start from are well formed.
LEMMA EmptyTypes == /\ Absent \in Entity
                    /\ QueuedEntity \in Entity
                    /\ NoItem \in Item
                    /\ "TASK" \notin NoItem.attach
  BY DEF Absent, QueuedEntity, NoItem, Item, Entity, Status, Reasons

\* WritedByWorker replaces the item of one host, and no set but those it is
\* given is joined.
LEMMA WritedByWorkerType ==
    ASSUME TypeOK, NEW p \in Procs \cup {Starter}, NEW e \in Entity,
           NEW attach \in SUBSET Sets, NEW detach \in SUBSET Sets, NEW expires \in BOOLEAN,
           WritedByWorker(p, e, attach, detach, expires)
    PROVE  /\ batch' \in [Hosts -> Item]
           /\ \A h \in Hosts : "TASK" \in batch'[h].attach =>
                  \/ "TASK" \in batch[h].attach
                  \/ h = HostOf(p) /\ "TASK" \in attach
  <1> USE DEF TypeOK, WritedByWorker
  <1>1. HostOf(p) \in Hosts
    BY HostOfType
  <1>2. batch' \in [Hosts -> Item]
    BY <1>1 DEF Item
  <1>3. ASSUME NEW h \in Hosts, "TASK" \in batch'[h].attach, h # HostOf(p)
        PROVE  "TASK" \in batch[h].attach
    BY <1>1, <1>3
  <1>4. batch'[HostOf(p)].attach = attach
    BY <1>1
  <1> QED
    BY <1>2, <1>3, <1>4

\* Moving a process keeps the type of proc.
LEMMA GotoType ==
    ASSUME TypeOK, NEW p \in Procs, NEW pc \in ProcPc, NEW snap \in Entity, Goto(p, pc, snap)
    PROVE  proc' \in [Procs -> ProcState]
  BY DEF Goto, TypeOK, ProcState

\* A failed start keeps the type of the starter.
LEMMA FailWithType ==
    ASSUME TypeOK, NEW reason \in Reasons, FailWith(reason)
    PROVE  st' \in StarterState
  <1>1. [st.ent EXCEPT !.status = "stopped", !.reason = reason] \in Entity
    BY DEF TypeOK, StarterState, Entity, Status
  <1> QED
    BY <1>1 DEF FailWith, TypeOK, StarterState, StarterPc

\* ECS states stay ECS states.
LEMMA StoppingType == ASSUME TypeOK, NEW t \in Tasks \cup {NoTask}
                      PROVE  Stopping(t) \in [Tasks -> TaskState]
  BY DEF Stopping, TypeOK, TaskState

\* A fault is counted, up to the bound.
LEMMA FaultType == ASSUME TypeOK, Fault PROVE faults' \in 0 .. MaxFaults
  BY SessionAssumption DEF TypeOK, Fault

\* Most steps leave the accounting alone: they neither report, nor scan, nor
\* join the tasks set, and a starter that has decided stays so.
LEMMA AccountingFrame ==
    ASSUME Accounting,
           usage' = usage,
           usageLoop' = usageLoop \/ usageLoop'.pc = "idle",
           "TASK" \in sets' => "TASK" \in sets,
           st.pc \in Decided => st'.pc \in Decided,
           \A h \in Hosts : "TASK" \in batch'[h].attach => "TASK" \in batch[h].attach
    PROVE  Accounting'
  BY DEF Accounting, Joined

-----------------------------------------------------------------------------
(* The starter *)

\* The queued record of GetServiceStarter joins no set.
LEMMA CreateEntityInv == ASSUME Inv, CreateEntity PROVE Inv'
  <1> USE DEF Inv, CreateEntity, redis, cloud
  <1>0. /\ batch' \in [Hosts -> Item]
        /\ \A h \in Hosts : "TASK" \in batch'[h].attach => "TASK" \in batch[h].attach
    BY EmptyTypes, WritedByWorkerType, {} \in SUBSET Sets, TRUE \in BOOLEAN
  <1>1. TypeOK'
    BY EmptyTypes, <1>0 DEF TypeOK, StarterState, StarterPc
  <1>2. Accounting'
    BY <1>0, AccountingFrame DEF Decided
  <1> QED
    BY <1>1, <1>2

\* Waiting for that write moves only the starter.
LEMMA CreatedInv == ASSUME Inv, Created PROVE Inv'
  <1> USE DEF Inv, Created, redis, cloud
  <1>1. TypeOK'
    BY SessionAssumption DEF TypeOK, StarterState, StarterPc
  <1>2. Accounting'
    BY AccountingFrame DEF Decided
  <1> QED
    BY <1>1, <1>2

\* So does the task definition of a generic session, made or not.
LEMMA TaskDefinitionInv == ASSUME Inv, TaskDefinition PROVE Inv'
  <1> USE DEF Inv, TaskDefinition, redis, cloud, Fault
  <1>1. TypeOK'
    BY SessionAssumption DEF TypeOK, StarterState, StarterPc
  <1>2. Accounting'
    BY AccountingFrame DEF Decided
  <1> QED
    BY <1>1, <1>2

\* registerTaskPhase creates a task the starter then knows.
LEMMA RegisterInv == ASSUME Inv, NEW t \in Tasks, Register(t) PROVE Inv'
  <1> USE DEF Inv, Register, PhaseIs, PhaseReturns, PhaseFrame, redis
  <1>1. TypeOK'
    BY DEF TypeOK, StarterState, StarterPc, TaskState, Entity
  <1>2. Accounting'
    BY AccountingFrame DEF Decided
  <1> QED
    BY <1>1, <1>2

\* Without an answer of RunTask the starter knows none.
LEMMA RegisterFailsInv == ASSUME Inv, RegisterFails PROVE Inv'
  <1> USE DEF Inv, RegisterFails, PhaseIs, PhaseReturns, PhaseFrame, redis
  <1>1. TypeOK'
    BY DEF TypeOK, StarterState, StarterPc
  <1>2. Accounting'
    BY AccountingFrame DEF Decided
  <1> QED
    BY <1>1, <1>2

\* The task of a late RunTask changes ECS only.
LEMMA LateRegisterInv == ASSUME Inv, NEW t \in Tasks, LateRegister(t) PROVE Inv'
  <1> USE DEF Inv, LateRegister, PhaseIs, PhaseReturns, PhaseFrame, redis
  <1>1. TypeOK'
    BY DEF TypeOK, StarterState, StarterPc, TaskState
  <1>2. Accounting'
    BY AccountingFrame DEF Decided
  <1> QED
    BY <1>1, <1>2

\* startTaskPhase looks at ECS and touches no shared state.
LEMMA StartTaskInv == ASSUME Inv, StartTask PROVE Inv'
  <1> USE DEF Inv, StartTask, PhaseIs, PhaseReturns, PhaseFrame, redis
  <1>0. [st.ent EXCEPT !.idle = FALSE] \in Entity
    BY DEF TypeOK, StarterState, Entity
  <1>1. TypeOK'
    BY <1>0 DEF TypeOK, StarterState, StarterPc
  <1>2. Accounting'
    BY AccountingFrame DEF Decided
  <1> QED
    BY <1>1, <1>2

\* Nor does setNetworkPhase ...
LEMMA SetNetworkInv == ASSUME Inv, SetNetwork PROVE Inv'
  <1> USE DEF Inv, SetNetwork, PhaseIs, PhaseReturns, PhaseFrame, redis
  <1>1. TypeOK'
    BY DEF TypeOK, StarterState, StarterPc
  <1>2. Accounting'
    BY AccountingFrame DEF Decided
  <1> QED
    BY <1>1, <1>2

\* ... nor startDriverPhase, which learns the session id ...
LEMMA StartDriverInv == ASSUME Inv, StartDriver PROVE Inv'
  <1> USE DEF Inv, StartDriver, PhaseIs, PhaseReturns, PhaseFrame, redis
  <1>0. [st.ent EXCEPT !.sid = TRUE] \in Entity
    BY DEF TypeOK, StarterState, Entity
  <1>1. TypeOK'
    BY <1>0 DEF TypeOK, StarterState, StarterPc
  <1>2. Accounting'
    BY AccountingFrame DEF Decided
  <1> QED
    BY <1>1, <1>2

\* ... nor waitPlaywrightReadyPhase.
LEMMA PlaywrightReadyInv == ASSUME Inv, PlaywrightReady PROVE Inv'
  <1> USE DEF Inv, PlaywrightReady, PhaseIs, PhaseReturns, PhaseFrame, redis
  <1>1. TypeOK'
    BY DEF TypeOK, StarterState, StarterPc
  <1>2. Accounting'
    BY AccountingFrame DEF Decided
  <1> QED
    BY <1>1, <1>2

\* After a phase the loop of StartService reads the record and only chooses where
\* to go on: to a failure, a retry, the next phase or finalizeFunc.
LEMMA CheckInv == ASSUME Inv, Check PROVE Inv'
  <1> USE DEF Inv, Check, redis, cloud
  <1>a. faults' \in 0 .. MaxFaults
    BY SessionAssumption DEF TypeOK, Find, Fault
  <1>b. st' \in StarterState
    <2>1. PICK me \in {rec, Absent} :
             IF st.out = "essential" THEN FailWith("startupFailure")
             ELSE IF me.reason \in {"aborted", "finished"} THEN FailWith(me.reason)
             ELSE \/ Kind # "generic" /\ FailWith("startupFailure")
                  \/ st.out = "retry" /\ st' = [st EXCEPT !.pc = "retry"]
                  \/ /\ st.out = "ok"
                     /\ st.ph < Len(Phases)
                     /\ st' = [st EXCEPT !.pc = "phase", !.ph = st.ph + 1]
                  \/ /\ st.out = "ok"
                     /\ st.ph = Len(Phases)
                     /\ st' = [st EXCEPT !.pc = IF Kind = "generic" THEN "lock" ELSE "finWrite"]
      OBVIOUS
    <2>2. \A reason \in {"startupFailure", "aborted", "finished"} :
             FailWith(reason) => st' \in StarterState
      BY FailWithType DEF Reasons
    <2>3. CASE FailWith("startupFailure") \/ (me.reason \in {"aborted", "finished"} /\ FailWith(me.reason))
      BY <2>2, <2>3
    <2>4. CASE st' = [st EXCEPT !.pc = "retry"]
      BY <2>4 DEF TypeOK, StarterState, StarterPc
    <2>5. CASE st' = [st EXCEPT !.pc = "phase", !.ph = st.ph + 1]
      <3>1. st.ph + 1 \in Nat
        BY DEF TypeOK, StarterState
      <3> QED
        BY <2>5, <3>1 DEF TypeOK, StarterState, StarterPc
    <2>6. CASE st' = [st EXCEPT !.pc = IF Kind = "generic" THEN "lock" ELSE "finWrite"]
      BY <2>6 DEF TypeOK, StarterState, StarterPc
    <2> QED
      BY <2>1, <2>3, <2>4, <2>5, <2>6
  <1>1. TypeOK'
    BY <1>a, <1>b DEF TypeOK
  <1>2. Accounting'
    BY AccountingFrame DEF Decided
  <1> QED
    BY <1>1, <1>2

\* A retry stops the task of the attempt and starts over.
LEMMA RetryInv == ASSUME Inv, Retry PROVE Inv'
  <1> USE DEF Inv, Retry, redis, StopTaskForcibly, StopTaskFails, Fault
  <1>s. st' \in StarterState
    BY EmptyTypes DEF TypeOK, StarterState, StarterPc
  <1>0. Stopping(st.ent.task) \in [Tasks -> TaskState]
    BY StoppingType DEF TypeOK, StarterState, Entity
  <1>1. TypeOK'
    BY <1>0, <1>s, SessionAssumption DEF TypeOK
  <1>2. Accounting'
    BY AccountingFrame DEF Decided
  <1> QED
    BY <1>1, <1>2

\* finalizeOnFailure stops the task first, before it decides the record.
LEMMA FailStopInv == ASSUME Inv, FailStop PROVE Inv'
  <1> USE DEF Inv, FailStop, redis, StopTaskForcibly, StopTaskFails, Fault
  <1>s. st' \in StarterState
    BY EmptyTypes DEF TypeOK, StarterState, StarterPc
  <1>0. Stopping(st.ent.task) \in [Tasks -> TaskState]
    BY StoppingType DEF TypeOK, StarterState, Entity
  <1>1. TypeOK'
    BY <1>0, <1>s, SessionAssumption DEF TypeOK
  <1>2. Accounting'
    BY AccountingFrame DEF Decided
  <1> QED
    BY <1>1, <1>2

\* The generic finalizer stops the task of an aborted session.
LEMMA FinalizeStopInv == ASSUME Inv, FinalizeStop PROVE Inv'
  <1> USE DEF Inv, FinalizeStop, redis, StopTaskForcibly, StopTaskFails, Fault
  <1>s. st' \in StarterState
    BY EmptyTypes DEF TypeOK, StarterState, StarterPc
  <1>0. Stopping(st.ent.task) \in [Tasks -> TaskState]
    BY StoppingType DEF TypeOK, StarterState, Entity
  <1>1. TypeOK'
    BY <1>0, <1>s, SessionAssumption DEF TypeOK
  <1>2. Accounting'
    BY AccountingFrame DEF Decided
  <1> QED
    BY <1>1, <1>2

\* Taking the lock in utils touches neither the record nor the sets.
LEMMA FinalizeLockInv == ASSUME Inv, FinalizeLock PROVE Inv'
  <1> USE DEF Inv, FinalizeLock, AcquireLock, redis, cloud
  <1>1. TypeOK'
    BY DEF TypeOK, StarterState, StarterPc
  <1>2. Accounting'
    BY AccountingFrame DEF Decided
  <1> QED
    BY <1>1, <1>2

\* Under the lock the generic finalizer merges the record it finds into its own.
LEMMA FinalizeFindInv == ASSUME Inv, FinalizeFind PROVE Inv'
  <1> USE DEF Inv, FinalizeFind, Find, Fault, redis, cloud
  <1>e. \A e \in Entity : /\ [st.ent EXCEPT !.status = "active"] \in Entity
                           /\ [st.ent EXCEPT !.status = "stopped", !.reason = e.reason] \in Entity
    BY DEF TypeOK, StarterState, Entity, Status
  <1>0. st' \in StarterState
    <2>1. PICK actual \in {rec, Absent} :
             st' = [st EXCEPT
                 !.seen = actual,
                 !.ent = IF actual.reason = "none"
                         THEN [st.ent EXCEPT !.status = "active"]
                         ELSE [st.ent EXCEPT !.status = "stopped", !.reason = actual.reason],
                 !.pc = IF actual.reason # "none" /\ actual.status # "stopped"
                        THEN "finStop" ELSE "finWrite"]
      OBVIOUS
    <2>2. actual \in Entity
      BY EmptyTypes DEF TypeOK
    <2> QED
      BY <1>e, <2>1, <2>2 DEF TypeOK, StarterState, StarterPc
  <1>1. TypeOK'
    BY <1>0, SessionAssumption DEF TypeOK
  <1>2. Accounting'
    BY AccountingFrame DEF Decided
  <1> QED
    BY <1>1, <1>2

\* The answer of the worker ends the starter's part in the sets.
LEMMA FinalizeWrittenInv == ASSUME Inv, FinalizeWritten PROVE Inv'
  <1> USE DEF Inv, FinalizeWritten, redis, cloud
  <1>1. TypeOK'
    BY EmptyTypes DEF TypeOK, StarterState, StarterPc
  <1>2. Accounting'
    BY AccountingFrame DEF Decided
  <1> QED
    BY <1>1, <1>2

\* The release of the lock, which may fail, follows it.
LEMMA FinalizeUnlockInv == ASSUME Inv, FinalizeUnlock PROVE Inv'
  <1> USE DEF Inv, FinalizeUnlock, redis, cloud
  <1>l. lock' \in BOOLEAN
    BY DEF TypeOK, ReleaseLock
  <1>f. faults' \in 0 .. MaxFaults
    BY SessionAssumption DEF TypeOK, ReleaseLock, Fault
  <1>0. st' \in StarterState
    BY DEF TypeOK, StarterState, StarterPc
  <1>1. TypeOK'
    BY <1>0, <1>l, <1>f DEF TypeOK
  <1>2. Accounting'
    BY AccountingFrame DEF Decided
  <1> QED
    BY <1>1, <1>2

-----------------------------------------------------------------------------
(* Requests *)

\* A generic request copies the record, or is rejected.
LEMMA ValidateGenericMapperPresenceInv ==
    ASSUME Inv, NEW r \in Requests, NEW op, ValidateGenericMapperPresence(r, op)
    PROVE  Inv'
  <1> USE DEF Inv, ValidateGenericMapperPresence, redis, cloud
  <1>1. TypeOK'
    BY DEF TypeOK, Ops, ProcState, ProcPc, Procs
  <1>2. Accounting'
    BY AccountingFrame DEF Decided
  <1> QED
    BY <1>1, <1>2

\* It takes the lock after that copy.
LEMMA LockGenericTaskCacheInv == ASSUME Inv, NEW r \in Requests, LockGenericTaskCache(r) PROVE Inv'
  <1> USE DEF Inv, LockGenericTaskCache, AcquireLock, redis, cloud
  <1>s. proc[r].snap \in Entity /\ rec \in Entity
    BY DEF TypeOK, ProcState, Procs
  <1>0. proc' \in [Procs -> ProcState]
    BY <1>s, GotoType, EmptyTypes DEF ProcPc, Procs
  <1>1. TypeOK'
    BY <1>0, EmptyTypes, SessionAssumption, <1>s DEF TypeOK
  <1>2. Accounting'
    BY AccountingFrame DEF Decided
  <1> QED
    BY <1>1, <1>2

\* MarkAsFinished changes its copy only ...
LEMMA MarkAsFinishedInv == ASSUME Inv, NEW r \in Requests, MarkAsFinished(r) PROVE Inv'
  <1> USE DEF Inv, MarkAsFinished, Find, Fault, redis, cloud
  <1>s. proc[r].snap \in Entity /\ rec \in Entity
    BY DEF TypeOK, ProcState, Procs
  <1>t. [proc[r].snap EXCEPT !.status = "stopped", !.reason = "finished"] \in Entity
    BY <1>s DEF Entity, Status, Reasons
  <1>0. proc' \in [Procs -> ProcState]
    BY <1>t, GotoType, EmptyTypes DEF ProcPc, Procs
  <1>1. TypeOK'
    BY <1>0, EmptyTypes, SessionAssumption, <1>s DEF TypeOK
  <1>2. Accounting'
    BY AccountingFrame DEF Decided
  <1> QED
    BY <1>1, <1>2

\* ... and writes it to the record alone, not to the sets.
LEMMA MarkAsFinishedWriteInv == ASSUME Inv, NEW r \in Requests, MarkAsFinishedWrite(r) PROVE Inv'
  <1> USE DEF Inv, MarkAsFinishedWrite, redis, cloud
  <1>s. proc[r].snap \in Entity /\ rec \in Entity
    BY DEF TypeOK, ProcState, Procs
  <1>l. ttl' \in BOOLEAN
    BY DEF TypeOK
  <1>f. rec' \in Entity /\ faults' \in 0 .. MaxFaults
    BY <1>s, SessionAssumption DEF TypeOK, Fault
  <1>0. proc' \in [Procs -> ProcState]
    BY <1>s, GotoType, EmptyTypes DEF ProcPc, Procs
  <1>1. TypeOK'
    BY <1>0, EmptyTypes, <1>l, <1>f DEF TypeOK
  <1>2. Accounting'
    BY AccountingFrame DEF Decided
  <1> QED
    BY <1>1, <1>2

\* The lock is released after the handler.
LEMMA UnlockGenericTaskCacheInv ==
    ASSUME Inv, NEW r \in Requests, UnlockGenericTaskCache(r)
    PROVE  Inv'
  <1> USE DEF Inv, UnlockGenericTaskCache, redis, cloud
  <1>l. lock' \in BOOLEAN
    BY DEF TypeOK, ReleaseLock
  <1>f. faults' \in 0 .. MaxFaults
    BY SessionAssumption DEF TypeOK, ReleaseLock, Fault
  <1>0. proc' \in [Procs -> ProcState]
    BY GotoType, EmptyTypes DEF ProcPc, Procs
  <1>1. TypeOK'
    BY <1>0, EmptyTypes, <1>l, <1>f DEF TypeOK
  <1>2. Accounting'
    BY AccountingFrame DEF Decided
  <1> QED
    BY <1>1, <1>2

\* A session request copies the record, or is rejected.
LEMMA ValidateSessionInv ==
    ASSUME Inv, NEW r \in Requests, NEW op, ValidateSession(r, op)
    PROVE  Inv'
  <1> USE DEF Inv, ValidateSession, redis, cloud
  <1>1. TypeOK'
    BY DEF TypeOK, Ops, ProcState, ProcPc, Procs
  <1>2. Accounting'
    BY AccountingFrame DEF Decided
  <1> QED
    BY <1>1, <1>2

\* The access time goes to the record, not to the sets.
LEMMA UpdateLastAccessTimeInv == ASSUME Inv, NEW r \in Requests, UpdateLastAccessTime(r) PROVE Inv'
  <1> USE DEF Inv, UpdateLastAccessTime, Fault, redis, cloud
  <1>s. proc[r].snap \in Entity /\ rec \in Entity
    BY DEF TypeOK, ProcState, Procs
  <1>t. /\ [proc[r].snap EXCEPT !.reason = "finished", !.idle = FALSE] \in Entity
        /\ Accessed(proc[r].snap) \in Entity
    BY <1>s DEF Accessed, Entity, Reasons
  <1>0. proc' \in [Procs -> ProcState]
    BY <1>t, GotoType, EmptyTypes DEF ProcPc, Procs
  <1>1. TypeOK'
    BY <1>0, EmptyTypes, SessionAssumption, <1>t DEF TypeOK
  <1>2. Accounting'
    BY AccountingFrame DEF Decided
  <1> QED
    BY <1>1, <1>2

-----------------------------------------------------------------------------
(* service.StopTask and the scaler *)

\* An answered StopTask moves its caller only.
LEMMA WrittenInv == ASSUME Inv, NEW p \in Procs, Written(p) PROVE Inv'
  <1> USE DEF Inv, Written, redis, cloud
  <1>0. proc' \in [Procs -> ProcState]
    BY GotoType, EmptyTypes DEF ProcPc, Procs, AfterStop
  <1>1. TypeOK'
    BY <1>0, EmptyTypes, SessionAssumption DEF TypeOK
  <1>2. Accounting'
    BY AccountingFrame DEF Decided
  <1> QED
    BY <1>1, <1>2

\* So does one that is answered with an error.
LEMMA WriteFailedInv == ASSUME Inv, NEW p \in Procs, WriteFailed(p) PROVE Inv'
  <1> USE DEF Inv, WriteFailed, AfterFailedStop, redis, cloud
  <1>s. proc[p].snap \in Entity /\ rec \in Entity
    BY DEF TypeOK, ProcState
  <1>0. proc' \in [Procs -> ProcState]
    BY <1>s, GotoType, EmptyTypes DEF ProcPc, Procs, AfterStop
  <1>1. TypeOK'
    BY <1>0, EmptyTypes, SessionAssumption, <1>s DEF TypeOK
  <1>2. Accounting'
    BY AccountingFrame DEF Decided
  <1> QED
    BY <1>1, <1>2

\* The idle loop reads the sessions set ...
LEMMA IdleScanInv == ASSUME Inv, IdleScan PROVE Inv'
  <1> USE DEF Inv, IdleScan, redis, cloud
  <1>0. proc' \in [Procs -> ProcState]
    BY GotoType, EmptyTypes DEF ProcPc, Procs, Loops
  <1>1. TypeOK'
    BY <1>0, EmptyTypes, SessionAssumption DEF TypeOK
  <1>2. Accounting'
    BY AccountingFrame DEF Decided
  <1> QED
    BY <1>1, <1>2

\* The unhealthy loop reads the tasks set.
LEMMA UnhealthyScanInv == ASSUME Inv, UnhealthyScan PROVE Inv'
  <1> USE DEF Inv, UnhealthyScan, redis, cloud
  <1>s. rec \in Entity
    BY DEF TypeOK
  <1>0. proc' \in [Procs -> ProcState]
    BY <1>s, GotoType, EmptyTypes DEF ProcPc, Procs, Loops
  <1>1. TypeOK'
    BY <1>0, EmptyTypes, SessionAssumption, <1>s DEF TypeOK
  <1>2. Accounting'
    BY AccountingFrame DEF Decided
  <1> QED
    BY <1>1, <1>2

\* A healthy task is left alone.
LEMMA UnhealthySkipInv == ASSUME Inv, UnhealthySkip PROVE Inv'
  <1> USE DEF Inv, UnhealthySkip, redis, cloud
  <1>0. proc' \in [Procs -> ProcState]
    BY GotoType, EmptyTypes DEF ProcPc, Procs, Loops
  <1>1. TypeOK'
    BY <1>0, EmptyTypes, SessionAssumption DEF TypeOK
  <1>2. Accounting'
    BY AccountingFrame DEF Decided
  <1> QED
    BY <1>1, <1>2

\* ... and reads the record again before it stops the session.
LEMMA IdleRecheckInv == ASSUME Inv, IdleRecheck PROVE Inv'
  <1> USE DEF Inv, IdleRecheck, Find, Fault, redis, cloud
  <1>s. \A m \in Entity : [m EXCEPT !.reason = "idleTimeout"] \in Entity
    BY DEF Entity, Reasons
  <1>0. proc' \in [Procs -> ProcState]
    BY <1>s, GotoType, EmptyTypes DEF ProcPc, Procs, Loops, TypeOK
  <1>1. TypeOK'
    BY <1>0, EmptyTypes, SessionAssumption, <1>s DEF TypeOK
  <1>2. Accounting'
    BY AccountingFrame DEF Decided
  <1> QED
    BY <1>1, <1>2

\* An unhealthy or expired task is handed to StopTask.
LEMMA UnhealthyStopInv == ASSUME Inv, UnhealthyStop PROVE Inv'
  <1> USE DEF Inv, UnhealthyStop, redis, cloud
  <1>u. proc[UnhealthyLoop].snap \in Entity
    BY DEF TypeOK, ProcState, Procs, Loops
  <1>s. \A reason \in {"unhealthy", "maxTimeout"} :
            [proc[UnhealthyLoop].snap EXCEPT !.reason = reason] \in Entity
    BY <1>u DEF Entity, Reasons
  <1>0. proc' \in [Procs -> ProcState]
    BY <1>s, GotoType, EmptyTypes DEF ProcPc, Procs, Loops
  <1>1. TypeOK'
    BY <1>0, EmptyTypes, SessionAssumption, <1>s DEF TypeOK
  <1>2. Accounting'
    BY AccountingFrame DEF Decided
  <1> QED
    BY <1>1, <1>2

\* The lost loop reads the tasks the records refer to ...
LEMMA LostScanInv == ASSUME Inv, LostScan PROVE Inv'
  <1> USE DEF Inv, LostScan, redis, cloud
  <1>1. TypeOK'
    BY DEF TypeOK, LostState, KnownTasks, Cached, Entity
  <1>2. Accounting'
    BY AccountingFrame DEF Decided
  <1> QED
    BY <1>1, <1>2

\* ... and starts over when it has stopped the others.
LEMMA LostDoneInv == ASSUME Inv, LostDone PROVE Inv'
  <1> USE DEF Inv, LostDone, redis, cloud
  <1>1. TypeOK'
    BY DEF TypeOK, LostState
  <1>2. Accounting'
    BY AccountingFrame DEF Decided
  <1> QED
    BY <1>1, <1>2

\* A TTL removes the record; the sets keep the uuid.
LEMMA ExpireInv == ASSUME Inv, Expire PROVE Inv'
  <1> USE DEF Inv, Expire, cloud, actors
  <1>1. TypeOK'
    BY EmptyTypes DEF TypeOK
  <1>2. Accounting'
    BY AccountingFrame DEF Decided
  <1> QED
    BY <1>1, <1>2

\* An access time grows old without anybody's doing.
LEMMA GoIdleInv == ASSUME Inv, GoIdle PROVE Inv'
  <1> USE DEF Inv, GoIdle, cloud, actors
  <1>1. TypeOK'
    BY DEF TypeOK, Entity
  <1>2. Accounting'
    BY AccountingFrame DEF Decided
  <1> QED
    BY <1>1, <1>2

\* Tasks start, exit, stop and age in ECS only.
LEMMA TaskStartsInv == ASSUME Inv, NEW t \in Tasks, TaskStarts(t) PROVE Inv'
  <1> USE DEF Inv, TaskStarts, redis, actors
  <1>1. TypeOK'
    BY DEF TypeOK, TaskState
  <1>2. Accounting'
    BY AccountingFrame DEF Decided
  <1> QED
    BY <1>1, <1>2

\* See TaskStartsInv.
LEMMA TaskExitsInv == ASSUME Inv, NEW t \in Tasks, TaskExits(t) PROVE Inv'
  <1> USE DEF Inv, TaskExits, redis, actors
  <1>1. TypeOK'
    BY DEF TypeOK, TaskState
  <1>2. Accounting'
    BY AccountingFrame DEF Decided
  <1> QED
    BY <1>1, <1>2

\* See TaskStartsInv.
LEMMA TaskStopsInv == ASSUME Inv, NEW t \in Tasks, TaskStops(t) PROVE Inv'
  <1> USE DEF Inv, TaskStops, redis, actors
  <1>1. TypeOK'
    BY DEF TypeOK, TaskState
  <1>2. Accounting'
    BY AccountingFrame DEF Decided
  <1> QED
    BY <1>1, <1>2

\* See TaskStartsInv.
LEMMA TaskAgesInv == ASSUME Inv, NEW t \in Tasks, TaskAges(t) PROVE Inv'
  <1> USE DEF Inv, TaskAges, redis, actors
  <1>1. TypeOK'
    BY DEF TypeOK, TaskState
  <1>2. Accounting'
    BY AccountingFrame DEF Decided
  <1> QED
    BY <1>1, <1>2


\* The failed starter joins the tasks set with its last write.
LEMMA FailWriteInv == ASSUME Inv, FailWrite PROVE Inv'
  <1> USE DEF Inv, FailWrite
  <1>0. st.ent \in Entity
    BY DEF TypeOK, StarterState
  <1>1. /\ batch' \in [Hosts -> Item]
        /\ \A h \in Hosts : "TASK" \in batch'[h].attach =>
                "TASK" \in batch[h].attach \/ h = Home
    BY <1>0, WritedByWorkerType, HostOfType,
       {} \in SUBSET Sets, {"TASK"} \in SUBSET Sets, TRUE \in BOOLEAN, FALSE \in BOOLEAN
       DEF Sets
  <1>2. TypeOK'
    BY <1>1 DEF TypeOK, StarterState, StarterPc, redis, cloud
  <1>3. ~Joined
    BY DEF Joined, Decided
  <1>4. Accounting'
    BY <1>1, <1>3 DEF Accounting, Decided, redis
  <1> QED
    BY <1>2, <1>4

\* So does the finalizer.
LEMMA FinalizeWriteInv == ASSUME Inv, FinalizeWrite PROVE Inv'
  <1> USE DEF Inv, FinalizeWrite
  <1>0. FinalEntity \in Entity
    BY DEF FinalEntity, TypeOK, StarterState, Entity, Status
  <1>1. /\ batch' \in [Hosts -> Item]
        /\ \A h \in Hosts : "TASK" \in batch'[h].attach =>
                "TASK" \in batch[h].attach \/ h = Home
    BY <1>0, WritedByWorkerType, HostOfType, FinalSets \in SUBSET Sets,
       {} \in SUBSET Sets, FALSE \in BOOLEAN
       DEF Sets, FinalSets
  <1>2. TypeOK'
    BY <1>0, <1>1 DEF TypeOK, StarterState, StarterPc, redis, cloud
  <1>3. ~Joined
    BY DEF Joined, Decided
  <1>4. Accounting'
    BY <1>1, <1>3 DEF Accounting, Decided, redis
  <1> QED
    BY <1>2, <1>4

\* AbortTask writes, or goes on to StopTask; it joins no set.
LEMMA AbortTaskInv == ASSUME Inv, NEW r \in Requests, AbortTask(r) PROVE Inv'
  <1> USE DEF Inv, AbortTask
  <1>0. [proc[r].snap EXCEPT !.reason = "aborted"] \in Entity
    BY DEF TypeOK, ProcState, Procs, Entity, Reasons
  <1>1. proc' \in [Procs -> ProcState]
    BY <1>0, GotoType, EmptyTypes DEF ProcPc, Procs
  <1>2. /\ batch' \in [Hosts -> Item]
        /\ \A h \in Hosts : "TASK" \in batch'[h].attach => "TASK" \in batch[h].attach
    BY <1>0, WritedByWorkerType, {} \in SUBSET Sets, FALSE \in BOOLEAN DEF TypeOK, Procs
  <1>3. TypeOK'
    BY <1>1, <1>2 DEF TypeOK, redis, cloud
  <1>4. Accounting'
    BY <1>2, AccountingFrame DEF redis
  <1> QED
    BY <1>3, <1>4

\* StopTask reaches ECS, or fails.
LEMMA StopTaskInv == ASSUME Inv, NEW p \in Procs, StopTask(p) PROVE Inv'
  <1> USE DEF Inv, StopTask
  <1>0. /\ proc[p].snap \in Entity
        /\ [proc[p].snap EXCEPT !.status = "stopped"] \in Entity
        /\ proc[p].snap.task \in Tasks \cup {NoTask}
    BY DEF TypeOK, ProcState, Entity, Status
  <1>1. proc' \in [Procs -> ProcState]
    BY <1>0, GotoType, EmptyTypes DEF ProcPc, AfterFailedStop, AfterStop
  <1>2. ecs' \in [Tasks -> TaskState]
    BY <1>0, StoppingType DEF TypeOK, StopTaskForcibly, StopTaskFails
  <1>3. faults' \in 0 .. MaxFaults
    BY SessionAssumption DEF TypeOK, StopTaskForcibly, StopTaskFails, Fault
  <1>4. TypeOK'
    BY <1>1, <1>2, <1>3 DEF TypeOK, redis
  <1>5. Accounting'
    BY AccountingFrame DEF redis
  <1> QED
    BY <1>4, <1>5

\* StopTask's write leaves the tasks set as it is.
LEMMA StopTaskWriteInv == ASSUME Inv, NEW p \in Procs, StopTaskWrite(p) PROVE Inv'
  <1> USE DEF Inv, StopTaskWrite
  <1>0. proc[p].snap \in Entity
    BY DEF TypeOK, ProcState
  <1>1. proc' \in [Procs -> ProcState]
    BY <1>0, GotoType DEF ProcPc
  <1>2. /\ batch' \in [Hosts -> Item]
        /\ \A h \in Hosts : "TASK" \in batch'[h].attach => "TASK" \in batch[h].attach
    BY <1>0, WritedByWorkerType, {} \in SUBSET Sets, {"SESSION"} \in SUBSET Sets,
       TRUE \in BOOLEAN DEF Sets
  <1>3. TypeOK'
    BY <1>1, <1>2 DEF TypeOK, redis, cloud
  <1>4. Accounting'
    BY <1>2, AccountingFrame DEF redis
  <1> QED
    BY <1>3, <1>4

\* The forced stop after a failed one.
LEMMA ForceStopInv == ASSUME Inv, ForceStop PROVE Inv'
  <1> USE DEF Inv, ForceStop
  <1>1. proc' \in [Procs -> ProcState]
    BY GotoType, EmptyTypes DEF ProcPc, Procs, Loops
  <1>2. ecs' \in [Tasks -> TaskState]
    BY DEF TypeOK, StopTaskForcibly, StopTaskFails, Stopping, TaskState
  <1>3. faults' \in 0 .. MaxFaults
    BY SessionAssumption DEF TypeOK, StopTaskForcibly, StopTaskFails, Fault
  <1>4. TypeOK'
    BY <1>1, <1>2, <1>3 DEF TypeOK, redis
  <1>5. Accounting'
    BY AccountingFrame DEF redis
  <1> QED
    BY <1>4, <1>5

\* A task nothing refers to is stopped, or not.
LEMMA LostStopInv == ASSUME Inv, NEW t \in Tasks, LostStop(t) PROVE Inv'
  <1> USE DEF Inv, LostStop
  <1>1. ecs' \in [Tasks -> TaskState]
    BY StoppingType DEF TypeOK, StopTaskForcibly, StopTaskFails
  <1>2. faults' \in 0 .. MaxFaults
    BY SessionAssumption DEF TypeOK, StopTaskForcibly, StopTaskFails, Fault
  <1>3. TypeOK'
    BY <1>1, <1>2 DEF TypeOK, redis, LostState
  <1>4. Accounting'
    BY AccountingFrame DEF redis
  <1> QED
    BY <1>3, <1>4

\* The usage loop works on a session it found in the tasks set, and which is
\* therefore not joining it any more.
LEMMA UsageScanInv == ASSUME Inv, UsageScan PROVE Inv'
  <1> USE DEF Inv, UsageScan
  <1>1. TypeOK'
    BY DEF TypeOK, UsageState, redis, cloud
  <1>2. Accounting'
    BY DEF Accounting, Joined, Cached, redis
  <1> QED
    BY <1>1, <1>2

\* A cached record whose task has stopped becomes one to shape; whoever is past
\* the scan is not joining the tasks set.
LEMMA UsageDescribeInv == ASSUME Inv, UsageDescribe PROVE Inv'
  <1> USE DEF Inv, UsageDescribe
  <1>0. Shaped(usageLoop.snap) \in Entity
    BY DEF Shaped, TypeOK, UsageState, Entity, Status, Reasons
  <1>1. TypeOK'
    BY <1>0, EmptyTypes DEF TypeOK, UsageState, redis, cloud
  <1>2. Accounting'
    BY DEF Accounting, Joined, redis
  <1> QED
    BY <1>1, <1>2

\* The uuid leaves the tasks set before the usage is reported.
LEMMA UsageShapeInv == ASSUME Inv, UsageShape PROVE Inv'
  <1> USE DEF Inv, UsageShape
  <1>0. /\ usageLoop \in UsageState /\ sets \subseteq Sets /\ usage \in Nat
        /\ usageLoop.snap \in Entity
        /\ TRUE \in BOOLEAN
    BY DEF TypeOK, UsageState
  <1>1. rec' \in Entity /\ ttl' \in BOOLEAN /\ sets' \subseteq sets
    BY <1>0 DEF TypeOK, Pipeline, PipelineFails, SetsAfterShaping, redis
  <1>2. faults' \in 0 .. MaxFaults
    BY SessionAssumption DEF TypeOK, Pipeline, PipelineFails, Fault
  <1>a. \/ usageLoop' = [pc |-> "idle", snap |-> Absent]
        \/ usageLoop' = [usageLoop EXCEPT !.pc = "send"] /\ sets' = sets \ {"TASK"}
    BY DEF Pipeline, SetsAfterShaping
  <1>3. usageLoop' \in UsageState
    BY <1>0, <1>a, EmptyTypes DEF UsageState
  <1>4. TypeOK'
    BY <1>1, <1>2, <1>3 DEF TypeOK, cloud
  <1>5. usageLoop'.pc \in {"idle", "send"} /\ (usageLoop'.pc = "send" => "TASK" \notin sets')
    BY <1>0, <1>a DEF UsageState
  <1>b. usage = 0 /\ Joined /\ UNCHANGED <<usage, st, batch>>
    BY <1>0 DEF Accounting
  <1>6. Accounting'
    BY <1>b, <1>5 DEF Accounting, Joined
  <1> QED
    BY <1>4, <1>6

\* The report follows a shaping that took the uuid out of the tasks set.
LEMMA TrackResourcesUsageInv == ASSUME Inv, TrackResourcesUsage PROVE Inv'
  <1> USE DEF Inv, TrackResourcesUsage
  <1>1. TypeOK'
    BY EmptyTypes DEF TypeOK, UsageState, redis, cloud
  <1>2. Accounting'
    BY DEF Accounting, Joined, redis
  <1> QED
    BY <1>1, <1>2

\* A batch that joins the tasks set is the last one that does.
LEMMA FlushBatchInv == ASSUME Inv, NEW h \in Hosts, FlushBatch(h) PROVE Inv'
  <1> USE DEF Inv, FlushBatch
  <1>0. batch[h] \in Item
    BY DEF TypeOK
  <1>1. batch' \in [Hosts -> Item] /\ batch'[h] = NoItem
        /\ \A g \in Hosts : g # h => batch'[g] = batch[g]
    BY EmptyTypes DEF TypeOK
  <1>2. rec' \in Entity /\ ttl' \in BOOLEAN /\ sets' \subseteq Sets
    BY <1>0 DEF TypeOK, Item, Pipeline, PipelineFails, redis
  <1>3. faults' \in 0 .. MaxFaults
    BY SessionAssumption DEF TypeOK, Pipeline, PipelineFails, Fault
  <1>4. proc' \in [Procs -> ProcState]
    BY DEF TypeOK, ProcState, ProcPc
  <1>5. TypeOK'
    BY <1>1, <1>2, <1>3, <1>4 DEF TypeOK, cloud
  <1>6. "TASK" \in sets' => "TASK" \in sets \/ "TASK" \in batch[h].attach
    BY DEF Pipeline, PipelineFails, redis
  <1>7. ASSUME "TASK" \in batch[h].attach PROVE Joined'
    BY <1>1, <1>7, EmptyTypes DEF Accounting, Joined
  <1>8. Joined => Joined'
    BY <1>1, EmptyTypes DEF Joined
  <1>9. "TASK" \in batch[h].attach => ~Joined
    BY DEF Joined
  <1>10. Accounting'
    BY <1>1, <1>6, <1>7, <1>8, <1>9, EmptyTypes DEF Accounting
  <1> QED
    BY <1>5, <1>10

\* A crash loses a batch, and takes a starter that had not decided out.
LEMMA RouterCrashInv == ASSUME Inv, NEW h \in Routers, RouterCrash(h) PROVE Inv'
  <1> USE DEF Inv, RouterCrash
  <1>1. batch' \in [Hosts -> Item]
    BY EmptyTypes DEF TypeOK
  <1>2. proc' \in [Procs -> ProcState]
    BY EmptyTypes DEF TypeOK, ProcState, ProcPc
  <1>3. st' \in StarterState
    BY EmptyTypes DEF TypeOK, StarterState, StarterPc
  <1>a. faults' \in 0 .. MaxFaults
    BY FaultType
  <1>4. TypeOK'
    BY <1>1, <1>2, <1>3, <1>a DEF TypeOK, redis, cloud
  <1>5. \A g \in Hosts : "TASK" \in batch'[g].attach => "TASK" \in batch[g].attach
    BY EmptyTypes DEF TypeOK
  <1>6. st.pc \in Decided => st'.pc \in Decided
    BY DEF TypeOK, StarterState, Decided
  <1>7. Accounting'
    BY <1>5, <1>6, AccountingFrame DEF redis
  <1> QED
    BY <1>4, <1>7

\* A restarted scaler forgets its batch and what its loops had read.
LEMMA ScalerCrashInv == ASSUME Inv, ScalerCrash PROVE Inv'
  <1> USE DEF Inv, ScalerCrash
  <1>1. batch' \in [Hosts -> Item]
    BY EmptyTypes DEF TypeOK
  <1>2. proc' \in [Procs -> ProcState]
    BY EmptyTypes DEF TypeOK, ProcState, ProcPc
  <1>a. usageLoop' \in UsageState /\ lostLoop' \in LostState
    BY EmptyTypes DEF UsageState, LostState
  <1>b. faults' \in 0 .. MaxFaults
    BY FaultType
  <1>3. TypeOK'
    BY <1>1, <1>2, <1>a, <1>b DEF TypeOK, redis, cloud
  <1>4. \A g \in Hosts : "TASK" \in batch'[g].attach => "TASK" \in batch[g].attach
    BY EmptyTypes DEF TypeOK
  <1>5. Accounting'
    BY <1>4, AccountingFrame DEF redis
  <1> QED
    BY <1>3, <1>5

-----------------------------------------------------------------------------
(* The invariant and the theorems *)

\* The invariant holds before anything happened.
LEMMA InitInv == Init => Inv
  <1> SUFFICES ASSUME Init PROVE Inv
    OBVIOUS
  <1> USE DEF Init
  <1>a. batch \in [Hosts -> Item] /\ ecs \in [Tasks -> TaskState]
    BY EmptyTypes DEF TaskState
  <1>b. st \in StarterState
    BY EmptyTypes DEF StarterState, StarterPc
  <1>c. proc \in [Procs -> ProcState]
    BY EmptyTypes DEF ProcState, ProcPc
  <1>d. usageLoop \in UsageState /\ lostLoop \in LostState
    BY EmptyTypes DEF UsageState, LostState
  <1>e. faults \in 0 .. MaxFaults
    BY SessionAssumption
  <1>f. ttl \in BOOLEAN /\ lock \in BOOLEAN
    OBVIOUS
  <1>1. TypeOK
    BY EmptyTypes, <1>a, <1>b, <1>c, <1>d, <1>e, <1>f DEF TypeOK
  <1>2. Accounting
    BY EmptyTypes DEF Init, Accounting
  <1> QED
    BY <1>1, <1>2 DEF Inv

\* Every step of the starter keeps the invariant.
LEMMA StarterStepInv == ASSUME Inv, StarterStep PROVE Inv'
  BY CreateEntityInv, CreatedInv, TaskDefinitionInv, RegisterInv, RegisterFailsInv,
     StartTaskInv, SetNetworkInv, StartDriverInv, PlaywrightReadyInv, CheckInv, RetryInv,
     FailStopInv, FailWriteInv, FinalizeLockInv, FinalizeFindInv, FinalizeStopInv,
     FinalizeWriteInv, FinalizeWrittenInv, FinalizeUnlockInv
     DEF StarterStep

\* Every step of service.StopTask keeps it, whoever calls.
LEMMA StopTaskStepInv == ASSUME Inv, NEW p \in Procs, StopTaskStep(p) PROVE Inv'
  BY StopTaskInv, StopTaskWriteInv, WrittenInv, WriteFailedInv DEF StopTaskStep

\* The middlewares keep it for every request.
LEMMA ArriveInv == ASSUME Inv, NEW r \in Requests, Arrive(r) PROVE Inv'
  <1>1. PICK op \in OpsOf[Kind] : ValidateGenericMapperPresence(r, op) \/ ValidateSession(r, op)
    BY DEF Arrive
  <1> QED
    BY <1>1, ValidateGenericMapperPresenceInv, ValidateSessionInv

\* So do the handlers.
LEMMA RequestStepInv == ASSUME Inv, NEW r \in Requests, RequestStep(r) PROVE Inv'
  BY LockGenericTaskCacheInv, MarkAsFinishedInv, MarkAsFinishedWriteInv, AbortTaskInv,
     UnlockGenericTaskCacheInv, UpdateLastAccessTimeInv, StopTaskStepInv
     DEF RequestStep, Procs

\* So do the four loops of the scaler.
LEMMA ScalerStepInv ==
    ASSUME Inv, IdleStep \/ UnhealthyStep \/ UsageStep \/ LostStep
    PROVE  Inv'
  <1>1. IdleLoop \in Procs /\ UnhealthyLoop \in Procs
    BY DEF Procs, Loops
  <1>2. CASE IdleStep
    BY <1>1, <1>2, IdleScanInv, IdleRecheckInv, StopTaskStepInv DEF IdleStep
  <1>3. CASE UnhealthyStep
    BY <1>1, <1>3, UnhealthyScanInv, UnhealthyStopInv, UnhealthySkipInv, ForceStopInv,
       StopTaskStepInv DEF UnhealthyStep
  <1>4. CASE UsageStep
    BY <1>4, UsageScanInv, UsageDescribeInv, UsageShapeInv, TrackResourcesUsageInv
       DEF UsageStep
  <1>5. CASE LostStep
    BY <1>5, LostScanInv, LostDoneInv, LostStopInv DEF LostStep
  <1> QED
    BY <1>2, <1>3, <1>4, <1>5

\* The invariant is inductive: every step of the system keeps it.
LEMMA StepInv == Inv /\ [Next]_vars => Inv'
  <1> SUFFICES ASSUME Inv, [Next]_vars PROVE Inv'
    OBVIOUS
  <1>1. CASE StarterStep
    BY <1>1, StarterStepInv
  <1>2. ASSUME NEW t \in Tasks, LateRegister(t) PROVE Inv'
    BY <1>2, LateRegisterInv
  <1>3. ASSUME NEW r \in Requests, Arrive(r) \/ RequestStep(r) PROVE Inv'
    BY <1>3, ArriveInv, RequestStepInv
  <1>4. CASE IdleStep \/ UnhealthyStep \/ UsageStep \/ LostStep
    BY <1>4, ScalerStepInv
  <1>5. ASSUME NEW h \in Hosts, FlushBatch(h) PROVE Inv'
    BY <1>5, FlushBatchInv
  <1>6. CASE Expire \/ GoIdle
    BY <1>6, ExpireInv, GoIdleInv
  <1>7. ASSUME NEW t \in Tasks, TaskStarts(t) \/ TaskExits(t) \/ TaskStops(t) \/ TaskAges(t)
        PROVE  Inv'
    BY <1>7, TaskStartsInv, TaskExitsInv, TaskStopsInv, TaskAgesInv
  <1>8. ASSUME NEW h \in Routers, RouterCrash(h) PROVE Inv'
    BY <1>8, RouterCrashInv
  <1>9. CASE ScalerCrash
    BY <1>9, ScalerCrashInv
  <1>10. CASE UNCHANGED vars
    BY <1>10 DEF vars, Inv, TypeOK, Accounting, Joined
  <1> QED
    BY <1>1, <1>2, <1>3, <1>4, <1>5, <1>6, <1>7, <1>8, <1>9, <1>10 DEF Next

\* It therefore holds in every reachable state.
LEMMA Invariance == Spec => []Inv
  BY InitInv, StepInv, PTL DEF Spec

\* Every variable keeps its type, for any number of routers, requests and
\* tasks.
THEOREM TypeCorrect == Spec => []TypeOK
  <1>1. Inv => TypeOK
    BY DEF Inv
  <1> QED
    BY <1>1, Invariance, PTL

\* However many requests, crashes, failed and torn writes and stale copies of
\* the record there are, TrackResourcesUsage is called at most once.
THEOREM UsageIsReportedAtMostOnce == Spec => []UsageReportedAtMostOnce
  <1>1. Inv => UsageReportedAtMostOnce
    BY DEF Inv, TypeOK, Accounting, UsageReportedAtMostOnce
  <1> QED
    BY <1>1, Invariance, PTL
=============================================================================
