------------------------- MODULE Provisioning_proofs -------------------------
(***************************************************************************)
(* A task is lost with its instance only if a loop could not have seen it,   *)
(* for any starts, instances, weights, reserve and number of faults.          *)
(*                                                                          *)
(* An instance can only be stopped after it left the ACTIVE ones: the group  *)
(* takes those without protection, and they are draining; the other loop    *)
(* takes those its list does not hold.  In both cases what still runs there *)
(* was placed after the look that judged the instance, or hidden from it.    *)
(*                                                                          *)
(* And the group is never asked for a capacity beyond its limits.  The        *)
(* arithmetic of the scaler is folds over the tasks, which are shown to be    *)
(* well-defined first; then a pass is followed from what it reads to the call. *)
(***************************************************************************)
EXTENDS Provisioning, FiniteSetTheorems, SequenceTheorems, WellFoundedInduction, TLAPS

Shape ==
    /\ task \in [Starts -> TaskStatus]
    /\ host \in [Starts -> Instances \cup {Nowhere}]
    /\ inst \in [Instances -> Instance]
    /\ scale.victims \subseteq Instances
    /\ zombie.active \subseteq Instances

\* Whatever runs on the instance was placed where a loop did not see it.
Unseen(i) == OnInstance(i) \subseteq exposed

\* Nothing runs on an instance that is not in the cluster.
Outside == \A i \in Instances : inst[i].state \in {"gone", "booting"} => OnInstance(i) = {}

Draining == \A i \in Instances : inst[i].state = "draining" => Unseen(i)

\* Only what is draining has lost its protection.
Protected == \A i \in Instances : inst[i].state # "gone" /\ ~inst[i].protected => inst[i].state = "draining"

\* A pass about to drain its victims saw all that runs there but what is exposed; one
\* that drained them finds them draining, or gone.
Chosen ==
    \A i \in scale.victims : /\ scale.pc = "drain" => Unseen(i)
                             /\ scale.pc = "unprotect" => inst[i].state \in {"gone", "draining"}

\* The list of the zombie loop holds all instances with tasks that are not exposed.
Listed == zombie.pc = "listed" => \A i \in Instances \ zombie.active : Unseen(i)

Inv ==
    /\ Shape
    /\ Outside
    /\ Draining
    /\ Protected
    /\ Chosen
    /\ Listed
    /\ OnlyExposedTasksAreKilled

-----------------------------------------------------------------------------
\* Nothing runs, nothing is registered.
LEMMA InvInit == Init => Inv
<1> SUFFICES ASSUME Init PROVE Inv
    OBVIOUS
<1> USE ProvisioningAssumption DEF Init
<1>1. Shape
    BY DEF Shape, TaskStatus, Instance, InstanceState, Gone, IdleScaler, IdleZombies
<1>2. Outside
    BY DEF Outside, OnInstance, Gone
<1>3. Draining /\ Protected
    BY DEF Draining, Protected, Gone
<1>4. Chosen /\ Listed
    BY DEF Chosen, Listed, IdleScaler, IdleZombies
<1>5. OnlyExposedTasksAreKilled
    BY DEF OnlyExposedTasksAreKilled
<1> QED BY <1>1, <1>2, <1>3, <1>4, <1>5 DEF Inv

\* What the invariant speaks of.
scope == <<task, host, inst, scale, zombie, killed, exposed>>

\* A step that leaves alone what the invariant reads keeps it.
LEMMA InvFrame == Inv /\ UNCHANGED scope => Inv'
BY DEF Inv, scope, Shape, Outside, Draining, Protected, Chosen, Listed, Unseen, OnInstance,
       OnlyExposedTasksAreKilled

\* Tasks may end, or be taken by ECS, without a look at the instances.
LEMMA InvShrink ==
    ASSUME Inv, Shape', UNCHANGED <<inst, scale, zombie, killed, exposed>>,
           \A i \in Instances : OnInstance(i)' \subseteq OnInstance(i)
    PROVE  Inv'
BY DEF Inv, Shape, Outside, Draining, Protected, Chosen, Listed, Unseen, OnlyExposedTasksAreKilled

\* The invariant through RunTask,
LEMMA InvRunTask == ASSUME NEW s \in Starts, Inv, RunTask(s) PROVE Inv'
<1>1. Shape'
    BY DEF Inv, Shape, RunTask, TaskStatus
<1>2. \A i \in Instances : OnInstance(i)' \subseteq OnInstance(i)
    BY DEF Inv, Shape, RunTask, OnInstance
<1> QED BY <1>1, <1>2, InvShrink DEF RunTask

\* through ECS's start of a task
LEMMA InvTaskRuns == ASSUME NEW s \in Starts, Inv, TaskRuns(s) PROVE Inv'
<1>1. Shape'
    BY DEF Inv, Shape, TaskRuns, TaskStatus
<1>2. \A i \in Instances : OnInstance(i)' \subseteq OnInstance(i)
    BY DEF Inv, Shape, TaskRuns, OnInstance
<1> QED BY <1>1, <1>2, InvShrink DEF TaskRuns

\* and its end, which leaves less to see on its instance,
LEMMA InvTaskEnds == ASSUME NEW s \in Starts, Inv, TaskEnds(s) PROVE Inv'
<1>1. Shape'
    BY DEF Inv, Shape, TaskEnds, TaskStatus
<1>2. \A i \in Instances : OnInstance(i)' \subseteq OnInstance(i)
    BY DEF Inv, Shape, TaskEnds, OnInstance
<1> QED BY <1>1, <1>2, InvShrink DEF TaskEnds

\* The one step that puts a task on an instance says so when a loop has looked there already.
LEMMA InvPlace == ASSUME NEW s \in Starts, NEW i \in Instances, Inv, Place(s, i) PROVE Inv'
<1> USE DEF Inv, Shape, Place
<1>1. Shape'
    BY DEF TaskStatus
<1>2. /\ OnInstance(i)' \subseteq OnInstance(i) \cup {s}
      /\ \A j \in Instances \ {i} : OnInstance(j)' \subseteq OnInstance(j)
    BY DEF OnInstance
<1>3. inst[i].state \in {"fresh", "settled"}
    BY DEF Active
<1>4. exposed \subseteq exposed' /\ (Overlooked(i) => s \in exposed')
    OBVIOUS
<1>5. Outside'
    BY <1>2, <1>3 DEF Outside
<1>6. Draining'
    BY <1>2, <1>3, <1>4 DEF Draining, Unseen
<1>7. Protected'
    BY DEF Protected
<1>8. Chosen'
    BY <1>2, <1>4 DEF Chosen, Unseen, Overlooked
<1>9. Listed'
    BY <1>2, <1>4 DEF Listed, Unseen, Overlooked
<1>10. OnlyExposedTasksAreKilled'
    BY <1>4 DEF OnlyExposedTasksAreKilled
<1> QED BY <1>1, <1>5, <1>6, <1>7, <1>8, <1>9, <1>10

-----------------------------------------------------------------------------
(* The autoscaling group *)

\* Instances come and go through their states, without a task more or less.
LEMMA InvInstance ==
    ASSUME Inv, UNCHANGED <<task, host, scale, zombie, killed, exposed>>,
           inst' \in [Instances -> Instance],
           \A i \in Instances :
               \/ inst'[i] = inst[i]
               \/ /\ inst'[i].state # "gone" /\ ~inst'[i].protected => inst'[i].state = "draining"
                  /\ inst'[i].state \in {"gone", "booting"} => inst[i].state \in {"gone", "booting"}
                  /\ inst'[i].state = "draining" => inst[i].state = "draining"
                  /\ \/ i \notin scale.victims
                     \/ inst[i].state \notin {"gone", "draining"}
                     \/ inst'[i].state = inst[i].state
    PROVE  Inv'
<1> USE DEF Inv, Shape
<1>0. \A i \in Instances : OnInstance(i)' = OnInstance(i) /\ (Unseen(i)' <=> Unseen(i))
    BY DEF OnInstance, Unseen
<1>1. Shape'
    OBVIOUS
<1>2. Outside'
    BY <1>0 DEF Outside
<1>3. Draining' /\ Protected'
    BY <1>0 DEF Draining, Protected
<1>4. Chosen'
    BY <1>0 DEF Chosen
<1>5. Listed' /\ OnlyExposedTasksAreKilled'
    BY <1>0 DEF Listed, OnlyExposedTasksAreKilled
<1> QED BY <1>1, <1>2, <1>3, <1>4, <1>5

\* through the launch of an instance,
LEMMA InvLaunch == ASSUME NEW i \in Instances, Inv, Launch(i) PROVE Inv'
<1> USE DEF Inv, Shape, Launch
<1>1. inst' \in [Instances -> Instance]
    BY DEF Instance, InstanceState
<1> QED BY <1>1, InvInstance DEF Gone

\* its registration in the cluster,
LEMMA InvRegister == ASSUME NEW i \in Instances, Inv, Register(i) PROVE Inv'
<1> USE DEF Inv, Shape, Register
<1>1. inst[i].protected
    BY DEF Protected, Instance
<1>2. inst' \in [Instances -> Instance]
    BY DEF Instance, InstanceState
<1>3. inst'[i].state = "fresh" /\ inst'[i].protected /\ \A j \in Instances \ {i} : inst'[j] = inst[j]
    BY <1>1 DEF Instance
<1> QED BY <1>2, <1>3, InvInstance

\* the end of its cooldown,
LEMMA InvSettle == ASSUME NEW i \in Instances, Inv, Settle(i) PROVE Inv'
<1> USE DEF Inv, Shape, Settle
<1>1. inst[i].protected
    BY DEF Protected, Instance
<1>2. inst' \in [Instances -> Instance]
    BY DEF Instance, InstanceState
<1>3. inst'[i].state = "settled" /\ inst'[i].protected /\ \A j \in Instances \ {i} : inst'[j] = inst[j]
    BY <1>1 DEF Instance
<1> QED BY <1>2, <1>3, InvInstance

\* through an instance that is up for long, or is late to come up,
LEMMA InvGrowLate == ASSUME NEW i \in Instances, Inv, GrowLate(i) PROVE Inv'
<1> USE DEF Inv, Shape, GrowLate
<1>1. inst' \in [Instances -> Instance]
    BY DEF Instance
<1>2. /\ inst'[i].state = inst[i].state /\ inst'[i].protected = inst[i].protected
      /\ \A j \in Instances \ {i} : inst'[j] = inst[j]
    BY DEF Instance
<1> QED BY <1>1, <1>2, InvInstance DEF Protected

\* Instances whose tasks are exposed may be stopped.
LEMMA InvStop ==
    ASSUME NEW gone \in SUBSET Instances, Inv, Stop(gone), \A i \in gone : Unseen(i),
           UNCHANGED <<scale, exposed>>, zombie' = zombie \/ zombie' = IdleZombies
    PROVE  Inv'
<1> USE DEF Inv, Shape
<1> DEFINE lost == UNION {OnInstance(i) : i \in gone}
<1>1. lost \subseteq exposed /\ lost \subseteq Starts
    BY DEF Unseen, OnInstance
<1>2. Shape'
  <2>1. task' \in [Starts -> TaskStatus] /\ host' \in [Starts -> Instances \cup {Nowhere}]
    BY DEF Stop, TaskStatus
  <2>2. inst' \in [Instances -> Instance]
    BY DEF Stop, Gone, Instance, InstanceState
  <2>3. zombie'.active \subseteq Instances
    BY DEF IdleZombies
  <2> QED BY <2>1, <2>2, <2>3
<1>3. \A i \in Instances : OnInstance(i)' \subseteq OnInstance(i)
    BY DEF Stop, OnInstance
<1>4. \A i \in gone : OnInstance(i)' = {}
    BY DEF Stop, OnInstance
<1>5. \A i \in Instances : inst'[i] = inst[i] \/ (i \in gone /\ inst'[i].state = "gone")
    BY DEF Stop, Gone
<1>6. Outside'
    BY <1>3, <1>4, <1>5 DEF Outside
<1>7. Draining' /\ Protected'
    BY <1>3, <1>5 DEF Draining, Protected, Unseen
<1>8. Chosen'
    BY <1>3, <1>5 DEF Chosen, Unseen
<1>9. Listed'
    BY <1>3 DEF Listed, Unseen, IdleZombies
<1>10. OnlyExposedTasksAreKilled'
    BY <1>1 DEF Stop, OnlyExposedTasksAreKilled
<1> QED BY <1>2, <1>6, <1>7, <1>8, <1>9, <1>10

\* through the group's choice of an instance to terminate, which is never a protected
\* one,
LEMMA InvScaleIn == ASSUME NEW i \in Instances, Inv, ScaleIn(i) PROVE Inv'
<1>1. Unseen(i)
    BY DEF Inv, ScaleIn, InGroup, Protected, Draining
<1> QED BY <1>1, InvStop DEF ScaleIn

-----------------------------------------------------------------------------
(* The loops *)

\* A pass that has chosen nothing, or not to drain.
LEMMA InvPass ==
    ASSUME Inv, scale'.victims \subseteq Instances, scale'.pc \notin {"drain", "unprotect"},
           UNCHANGED <<task, host, inst, killed, exposed>>,
           zombie' = zombie \/ zombie' = IdleZombies
    PROVE  Inv'
BY DEF Inv, Shape, Outside, Draining, Protected, Chosen, Listed, Unseen, OnInstance,
       OnlyExposedTasksAreKilled, IdleZombies

\* through the scaler's reads,
LEMMA InvReading ==
    ASSUME Inv, ReadTasks \/ Decide \/ Raise \/ ReadInstances \/ Lower \/ ScalerCrash
    PROVE  Inv'
<1>1. CASE ReadTasks
    BY <1>1, InvPass DEF ReadTasks, cluster, IdleScaler
<1>2. CASE Decide
  <2>1. PICK judgement \in Judgements :
           scale' = IF judgement.enough
                    THEN [IdleScaler EXCEPT !.pc = "down", !.allowed = judgement.spare]
                    ELSE IF judgement.target = desired THEN IdleScaler
                    ELSE [IdleScaler EXCEPT !.pc = "raising", !.target = judgement.target]
    BY <1>2 DEF Decide
  <2>2. scale'.victims = {} /\ scale'.pc \in {"down", "idle", "raising"}
    BY <2>1 DEF IdleScaler
  <2> QED BY <1>2, <2>2, InvPass DEF Decide, cluster
<1>3. CASE Raise
    BY <1>3, InvPass DEF Raise, cluster, IdleScaler
<1>4. CASE ReadInstances
    BY <1>4, InvPass DEF ReadInstances, cluster, IdleScaler
<1>5. CASE Lower
    BY <1>5, InvPass DEF Lower, cluster, IdleScaler
<1>6. CASE ScalerCrash
    BY <1>6, InvPass DEF ScalerCrash, cluster, IdleScaler
<1> QED BY <1>1, <1>2, <1>3, <1>4, <1>5, <1>6

\* Victims are idle when they are picked.
LEMMA InvPick == ASSUME Inv, Pick PROVE Inv'
<1> USE DEF Inv, Shape
<1>1. UNCHANGED <<task, host, inst, zombie, killed, exposed>>
    BY DEF Pick, cluster
<1>2. CASE scale' = IdleScaler
    BY <1>1, <1>2, InvPass DEF IdleScaler
<1>3. CASE scale' # IdleScaler
  <2>1. PICK listed \in SUBSET Active, candidates \in SUBSET Instances, victims \in SUBSET Instances :
           /\ victims \subseteq candidates
           /\ candidates \subseteq {i \in listed \cap scale.members : inst[i].state = "settled" /\ Idle(i)}
           /\ scale'.pc = "drain" /\ scale'.victims = victims
    BY <1>3 DEF Pick, Candidates, Victims, IdleScaler, Active
  <2>2. \A i \in scale'.victims : i \in Instances /\ OnInstance(i)' = {}
    BY <2>1, <1>1 DEF Idle, OnInstance
  <2>3. Shape' /\ Chosen'
    BY <2>1, <2>2, <1>1 DEF Chosen, Unseen
  <2>4. Outside' /\ Draining' /\ Protected' /\ Listed' /\ OnlyExposedTasksAreKilled'
    BY <1>1 DEF Outside, Draining, Protected, Listed, Unseen, OnInstance, OnlyExposedTasksAreKilled
  <2> QED BY <2>3, <2>4
<1> QED BY <1>2, <1>3

\* its drain of the victims it has chosen,
LEMMA InvDrain == ASSUME Inv, Drain PROVE Inv'
<1> USE DEF Inv, Shape
<1>1. UNCHANGED <<task, host, zombie, killed, exposed>> /\ scale.pc = "drain"
    BY DEF Drain
<1>2. CASE inst' = inst /\ scale' = IdleScaler
    BY <1>1, <1>2, InvPass DEF IdleScaler
<1>3. CASE /\ inst' = [i \in Instances |-> IF i \in scale.victims
                                          THEN [inst[i] EXCEPT !.state = "draining"] ELSE inst[i]]
           /\ scale' = [IdleScaler EXCEPT !.pc = "unprotect", !.victims = scale.victims,
                                          !.target = scale.target]
  <2>1. scale'.victims = scale.victims /\ scale'.pc = "unprotect"
    BY <1>3 DEF IdleScaler
  <2>2. /\ inst' \in [Instances -> Instance]
        /\ \A i \in scale.victims : inst'[i].state = "draining"
        /\ \A i \in Instances \ scale.victims : inst'[i] = inst[i]
    BY <1>3 DEF Instance, InstanceState
  <2>3. \A i \in Instances : OnInstance(i)' = OnInstance(i) /\ (Unseen(i)' <=> Unseen(i))
    BY <1>1 DEF OnInstance, Unseen
  <2>4. Shape'
    BY <1>1, <2>1, <2>2
  <2>5. Outside'
    BY <2>2, <2>3 DEF Outside
  <2>6. Draining' /\ Protected'
    BY <1>1, <2>2, <2>3 DEF Draining, Protected, Chosen
  <2>7. Chosen'
    BY <2>1, <2>2 DEF Chosen
  <2>8. Listed' /\ OnlyExposedTasksAreKilled'
    BY <1>1, <2>3 DEF Listed, OnlyExposedTasksAreKilled
  <2> QED BY <2>4, <2>5, <2>6, <2>7, <2>8
<1> QED BY <1>2, <1>3 DEF Drain

\* its removal of their protection, which only draining instances lose,
LEMMA InvUnprotect == ASSUME Inv, Unprotect PROVE Inv'
<1> USE DEF Inv, Shape
<1>1. UNCHANGED <<task, host, zombie, killed, exposed>> /\ scale.pc = "unprotect"
    BY DEF Unprotect
<1>2. scale'.victims = {} /\ scale'.pc \in {"idle", "lowering"}
  <2>1. CASE scale' = IdleScaler
    BY <2>1 DEF IdleScaler
  <2>2. CASE scale' = [IdleScaler EXCEPT !.pc = "lowering", !.target = scale.target]
    BY <2>2 DEF IdleScaler
  <2> QED BY <2>1, <2>2, Zenon DEF Unprotect
<1>3. CASE inst' = inst
    BY <1>1, <1>2, <1>3, InvPass
<1>4. CASE inst' = [i \in Instances |-> IF i \in scale.victims
                                       THEN [inst[i] EXCEPT !.protected = FALSE] ELSE inst[i]]
  <2>1. /\ inst' \in [Instances -> Instance]
        /\ \A i \in Instances : inst'[i].state = inst[i].state
        /\ \A i \in Instances \ scale.victims : inst'[i] = inst[i]
    BY <1>4 DEF Instance
  <2>2. \A i \in Instances : OnInstance(i)' = OnInstance(i) /\ (Unseen(i)' <=> Unseen(i))
    BY <1>1 DEF OnInstance, Unseen
  <2>3. Shape' /\ Outside' /\ Draining' /\ Chosen' /\ Listed' /\ OnlyExposedTasksAreKilled'
    BY <1>1, <1>2, <2>1, <2>2 DEF Outside, Draining, Chosen, Listed, OnlyExposedTasksAreKilled
  <2>4. Protected'
    BY <1>1, <2>1 DEF Protected, Chosen
  <2> QED BY <2>3, <2>4
<1> QED BY <1>3, <1>4 DEF Unprotect

\* What the list does not hold is exposed, or was not ACTIVE.
LEMMA InvListActive == ASSUME Inv, ListActive PROVE Inv'
<1> USE DEF Inv, Shape
<1>1. PICK listed \in SUBSET Active :
         /\ zombie' = [pc |-> "listed", active |-> listed]
         /\ exposed' = exposed \cup UNION {OnInstance(i) : i \in Active \ listed}
         /\ UNCHANGED <<task, host, inst, scale, killed>>
    BY DEF ListActive
<1>2. \A i \in Instances : /\ OnInstance(i)' = OnInstance(i)
                           /\ Unseen(i) => Unseen(i)'
    BY <1>1 DEF OnInstance, Unseen
<1>3. \A i \in Instances \ Active : Unseen(i)
    BY DEF Active, Outside, Draining, Instance, InstanceState, Unseen
<1>4. \A i \in Active \ listed : Unseen(i)'
    BY <1>1, <1>2 DEF Unseen, Active
<1>5. Listed'
    BY <1>1, <1>2, <1>3, <1>4 DEF Listed
<1>6. Shape'
    BY <1>1 DEF Active
<1>7. Outside' /\ Draining' /\ Protected' /\ Chosen'
    BY <1>1, <1>2 DEF Outside, Draining, Protected, Chosen
<1>8. OnlyExposedTasksAreKilled'
    BY <1>1 DEF OnlyExposedTasksAreKilled
<1> QED BY <1>5, <1>6, <1>7, <1>8

\* and its stop of zombies.
LEMMA InvStopZombies == ASSUME Inv, StopZombies PROVE Inv'
<1> DEFINE zombies == {i \in InGroup \ zombie.active : inst[i].late}
<1>1. zombies \in SUBSET Instances /\ \A i \in zombies : Unseen(i)
    BY DEF Inv, StopZombies, InGroup, Listed
<1> QED BY <1>1, InvStop DEF StopZombies

-----------------------------------------------------------------------------
\* So every step keeps the invariant.
LEMMA InvStep == Inv /\ [Next]_vars => Inv'
<1> SUFFICES ASSUME Inv, [Next]_vars PROVE Inv'
    OBVIOUS
<1>1. ASSUME NEW s \in Starts, Start(s) PROVE Inv'
  <2>1. CASE RunTask(s)
    BY <2>1, InvRunTask
  <2>2. CASE \/ Arrive(s) \/ RunTaskRefused(s) \/ AddEntity(s) \/ Retry(s) \/ GiveUp(s)
             \/ FlushResources(s) \/ RouterCrash(s)
    BY <2>2, InvFrame DEF Arrive, RunTaskRefused, AddEntity, Retry, GiveUp, FlushResources,
                          RouterCrash, scope, cluster
  <2> QED BY <1>1, <2>1, <2>2 DEF Start
<1>2. ASSUME NEW s \in Starts, Ecs(s) PROVE Inv'
    BY <1>2, InvTaskRuns, InvTaskEnds, InvPlace DEF Ecs
<1>3. ASSUME NEW i \in Instances, Group(i) PROVE Inv'
    BY <1>3, InvLaunch, InvRegister, InvSettle, InvGrowLate, InvScaleIn DEF Group
<1>4. CASE AdjustCapacity
    BY <1>4, InvReading, InvPick, InvDrain, InvUnprotect DEF AdjustCapacity
<1>5. CASE ZombieLoop
    BY <1>5, InvListActive, InvStopZombies DEF ZombieLoop
<1>6. CASE ScalerCrash
    BY <1>6, InvReading
<1>7. CASE UNCHANGED vars
    BY <1>7, InvFrame DEF vars, scope
<1> QED BY <1>1, <1>2, <1>3, <1>4, <1>5, <1>6, <1>7 DEF Next

\* A scaler never takes an instance from under a task it could have seen there: not AdjustCapacity,
\* nor the loop that stops instances outside the cluster, however they interleave with ECS and
\* with each other, and whichever calls fail.
THEOREM TasksKilledWereExposed == Spec => []OnlyExposedTasksAreKilled
<1>1. Inv => OnlyExposedTasksAreKilled
    BY DEF Inv
<1> QED BY <1>1, InvInit, InvStep, PTL DEF Spec

-----------------------------------------------------------------------------
(* Folds *)

\* The plan of a pass and the weight of a set of instances are folds, defined by a chosen function
\* on subsets.  That there is such a function, and that it stays in a set its step does not leave,
\* follows from the well-founded orders on numbers and on finite sets.

\* There is a least number in a set of numbers.
LEMMA LeastNatural ==
    ASSUME NEW T \in SUBSET Nat, T # {}
    PROVE  \E x \in T : \A y \in T : x <= y
<1> DEFINE Less == {ss \in Nat \X Nat : ss[1] < ss[2]}
<1>1. IsWellFoundedOn(Less, Nat)
    BY NatLessThanWellFounded DEF OpToRel
<1>2. PICK x \in T : \A y \in T : <<y, x>> \notin Less
    BY <1>1, WFMin, Zenon
<1>3. \A y \in T : ~(y < x)
    BY <1>2
<1> QED BY <1>3

\* c chooses a member of each nonempty subset of S; f folds with it, from base, by g.
Chooses(c, S) == \A s \in SUBSET S : s # {} => c[s] \in s

Folds(f, base, c, g, S) ==
    /\ f[{}] = base
    /\ \A s \in SUBSET S : s # {} => f[s] = g[<<c[s], f[s \ {c[s]}]>>]

\* A step that stays in V can be folded over a finite set, whatever the choice: SumFunctionOnSet and
\* FoldLeft denote what they are read as.
LEMMA FoldExists ==
    ASSUME NEW S, IsFiniteSet(S), NEW V, NEW base \in V,
           NEW c, Chooses(c, S), NEW g \in [S \X V -> V]
    PROVE  \E f \in [SUBSET S -> V] : Folds(f, base, c, g, S)
<1> USE DEF Chooses
<1> DEFINE Small(n) == {s \in SUBSET S : Cardinality(s) <= n}
           Step(f, s) == IF s = {} THEN base ELSE g[<<c[s], f[s \ {c[s]}]>>]
           Good(n) == \E f \in [Small(n) -> V] : \A s \in Small(n) : f[s] = Step(f, s)
           Bad == {n \in Nat : ~Good(n)}
<1>0. \A s \in SUBSET S : /\ IsFiniteSet(s) /\ Cardinality(s) \in Nat
                          /\ Cardinality(s) <= Cardinality(S)
    BY FS_Subset, FS_CardinalityType
<1>1. Good(0)
  <2> DEFINE f == [s \in Small(0) |-> base]
  <2>1. \A s \in Small(0) : s = {}
    BY <1>0, FS_EmptySet
  <2>2. f \in [Small(0) -> V] /\ \A s \in Small(0) : f[s] = Step(f, s)
    BY <2>1
  <2> QED BY <2>2
<1>2. ASSUME NEW n \in Nat, Good(n) PROVE Good(n + 1)
  <2>1. PICK f \in [Small(n) -> V] : \A s \in Small(n) : f[s] = Step(f, s)
    BY <1>2
  <2>2. \A s \in Small(n + 1) : s # {} => s \ {c[s]} \in Small(n) /\ c[s] \in S
    <3> SUFFICES ASSUME NEW s \in Small(n + 1), s # {} PROVE s \ {c[s]} \in Small(n) /\ c[s] \in S
        OBVIOUS
    <3>1. Cardinality(s \ {c[s]}) = Cardinality(s) - 1
        BY <1>0, FS_RemoveElement
    <3> QED BY <1>0, <3>1
  <2>3. Small(n) \subseteq Small(n + 1)
    BY <1>0
  <2> DEFINE h == [s \in Small(n + 1) |-> Step(f, s)]
  <2>4. h \in [Small(n + 1) -> V]
    BY <2>2
  <2>5. \A s \in Small(n) : h[s] = f[s]
    BY <2>1, <2>3
  <2>6. \A s \in Small(n + 1) : h[s] = Step(h, s)
    BY <2>2, <2>5
  <2> QED BY <2>4, <2>6
<1>3. \A n \in Nat : Good(n)
  <2> HIDE DEF Good
  <2>1. CASE Bad # {}
    <3>1. PICK n \in Bad : \A m \in Bad : n <= m
        BY <2>1, LeastNatural
    <3>2. n # 0 /\ n - 1 \in Nat /\ n - 1 \notin Bad
        BY <1>1, <3>1
    <3> QED BY <1>2, <3>1, <3>2
  <2> QED BY <2>1
<1>4. PICK f \in [Small(Cardinality(S)) -> V] : \A s \in Small(Cardinality(S)) : f[s] = Step(f, s)
    BY <1>3, FS_CardinalityType
<1>5. Small(Cardinality(S)) = SUBSET S
    BY <1>0
<1> QED BY <1>4, <1>5 DEF Folds

\* What holds of the empty fold, and through each step, holds of the fold.
LEMMA FoldInto ==
    ASSUME NEW S, IsFiniteSet(S), NEW V, NEW c, NEW h,
           h[{}] \in V,
           \A s \in SUBSET S : s # {} => c[s] \in s /\ (h[s \ {c[s]}] \in V => h[s] \in V)
    PROVE  \A s \in SUBSET S : h[s] \in V
<1> DEFINE Bad == {s \in SUBSET S : h[s] \notin V}
<1> SUFFICES ASSUME Bad # {} PROVE FALSE
    OBVIOUS
<1>1. IsWellFoundedOn(StrictSubsetOrdering(S), SUBSET S)
  <2>1. FiniteSubsetsOf(S) = SUBSET S
    BY FS_FiniteSubsetsOfFinite, Zenon
  <2>2. IsWellFoundedOn(StrictSubsetOrdering(S), FiniteSubsetsOf(S))
    BY FS_StrictSubsetOrderingWellFounded, Zenon
  <2> QED BY <2>1, <2>2, Zenon
<1>2. PICK s \in Bad : \A t \in Bad : <<t, s>> \notin StrictSubsetOrdering(S)
    BY <1>1, WFMin, Zenon
<1>3. s # {} /\ c[s] \in s
    BY <1>2
<1>4. s \ {c[s]} \in SUBSET S /\ s \ {c[s]} \subseteq s /\ s \ {c[s]} # s
    BY <1>2, <1>3
<1>5. s \ {c[s]} \notin Bad
    BY <1>2, <1>4 DEF StrictSubsetOrdering
<1> QED BY <1>2, <1>3, <1>4, <1>5

-----------------------------------------------------------------------------
(* Capacity *)

\* Min, of a set of numbers, is its least member,
LEMMA MinOfNaturals ==
    ASSUME NEW T \in SUBSET Nat, T # {}
    PROVE  Min(T) \in T /\ \A y \in T : Min(T) <= y
BY LeastNatural DEF Min

\* and Max, of a bounded set, its greatest.
LEMMA MaxOfNaturals ==
    ASSUME NEW n \in Nat, NEW T \in SUBSET (0..n), T # {}
    PROVE  Max(T) \in T /\ \A y \in T : Max(T) >= y
<1> DEFINE Mirror == {n - x : x \in T}
<1>1. PICK m \in Mirror : \A y \in Mirror : m <= y
  <2>1. \A x \in T : n - x \in Nat
    OBVIOUS
  <2>2. Mirror \in SUBSET Nat /\ Mirror # {}
    BY <2>1
  <2> HIDE DEF Mirror
  <2> QED BY <2>2, LeastNatural
<1>2. PICK x \in T : m = n - x
    BY <1>1
<1>3. \A y \in T : n - y \in Mirror
    OBVIOUS
<1>4. \A y \in T : x >= y
    BY <1>1, <1>2, <1>3
<1> QED BY <1>4 DEF Max

\* The integer division of the code, of numbers that are not negative.
LEMMA Quotients ==
    ASSUME NEW a \in Nat, NEW b \in Nat \ {0}
    PROVE  /\ a \div b \in Nat /\ a % b \in Nat
           /\ b * (a \div b) <= a /\ a < b * (a \div b) + b
<1>1. a \div b \in Nat /\ a % b \in Nat
    OBVIOUS
<1>2. b * (a \div b) <= a
    OBVIOUS
<1>3. a < b * (a \div b) + b
    OBVIOUS
<1> QED BY <1>1, <1>2, <1>3

\* math.Ceil of a quotient that is at least k.
LEMMA CeilDivAtLeast ==
    ASSUME NEW a \in Nat, NEW b \in Nat \ {0}, NEW k \in Nat, k * b <= a
    PROVE  CeilDiv(a, b) \in Nat /\ k <= CeilDiv(a, b)
<1> DEFINE q == (a + b - 1) \div b
<1>1. q \in Nat /\ a + b - 1 < b * q + b
    BY Quotients
<1>2. CASE q < k
  <2>1. q + 1 <= k
    BY <1>1, <1>2
  <2>2. b * (q + 1) <= b * k
    BY <2>1, <1>1
  <2>3. b * (q + 1) = b * q + b
    BY <1>1
  <2> QED BY <1>1, <2>2, <2>3
<1> QED BY <1>1, <1>2 DEF CeilDiv

\* The weights of instances add up to a number,
LEMMA SumOfWeights ==
    ASSUME NEW S \in SUBSET Instances
    PROVE  SumFunctionOnSet(Weight, S) \in Nat
<1> USE ProvisioningAssumption
<1> DEFINE Iter(f) == f = [s \in SUBSET S |->
                              IF s = {} THEN 0
                              ELSE LET x == CHOOSE x \in s : TRUE IN Weight[x] + f[s \ {x}]]
           iter == CHOOSE f : Iter(f)
<1>0. IsFiniteSet(S) /\ 0 \in Nat
    BY FS_Subset
<1>1. PICK c : c = [s \in SUBSET S |-> CHOOSE x \in s : TRUE]
    OBVIOUS
<1>2. PICK g : g = [p \in S \X Nat |-> Weight[p[1]] + p[2]]
    OBVIOUS
<1>3. \A s \in SUBSET S : s # {} => c[s] \in s
    BY <1>1
<1>4. g \in [S \X Nat -> Nat]
    BY <1>2
<1>5. Chooses(c, S)
    BY <1>3 DEF Chooses
<1>6. PICK f \in [SUBSET S -> Nat] : Folds(f, 0, c, g, S)
    BY <1>0, <1>5, <1>4, FoldExists, Zenon
<1>7. f[{}] = 0 /\ \A s \in SUBSET S : s # {} => f[s] = Weight[c[s]] + f[s \ {c[s]}]
    BY <1>2, <1>3, <1>6 DEF Folds
<1>8. Iter(f)
  <2>1. ASSUME NEW s \in SUBSET S
        PROVE  f[s] = IF s = {} THEN 0 ELSE LET x == CHOOSE x \in s : TRUE IN Weight[x] + f[s \ {x}]
    <3>1. CASE s = {}
        BY <3>1, <1>7
    <3>2. CASE s # {}
        BY <3>2, <1>1, <1>7
    <3> QED BY <3>1, <3>2
  <2> QED BY <2>1, <1>6
<1>9. Iter(iter)
  <2> HIDE DEF Iter
  <2> QED BY <1>8, Zenon
<1>10. \A s \in SUBSET S : s # {} => iter[s] = Weight[c[s]] + iter[s \ {c[s]}]
  <2> HIDE DEF iter
  <2> QED BY <1>9, <1>1
<1>11. \A s \in SUBSET S : iter[s] \in Nat
  <2> HIDE DEF iter
  <2>1. iter[{}] \in Nat
    BY <1>9
  <2>2. ASSUME NEW s \in SUBSET S, s # {}
        PROVE  c[s] \in s /\ (iter[s \ {c[s]}] \in Nat => iter[s] \in Nat)
    <3>1. c[s] \in s /\ Weight[c[s]] \in Nat
        BY <2>2, <1>3
    <3>2. iter[s] = Weight[c[s]] + iter[s \ {c[s]}]
        BY <2>2, <1>10
    <3> QED BY <3>1, <3>2
  <2> QED BY <1>0, <2>1, <2>2, FoldInto
<1>12. SumFunctionOnSet(Weight, S) = iter[S]
    BY DEF SumFunctionOnSet, FoldFunctionOnSet, MapThenFoldSet
<1> HIDE DEF iter
<1> QED BY <1>11, <1>12

\* which is the capacity they make.
LEMMA WeightType == ASSUME NEW S \in SUBSET Instances PROVE TotalWeight(S) \in Nat
BY SumOfWeights DEF TotalWeight, Weights

\* The lightest instance type is lighter than all, and weighs something.
LEMMA MinWeightType == MinWeight \in Nat \ {0} /\ \A i \in Instances : MinWeight <= Weight[i]
<1> DEFINE W == {Weight[i] : i \in Instances}
<1>1. W \in SUBSET Nat /\ W # {}
    BY ProvisioningAssumption
<1>2. Min(W) \in W /\ \A y \in W : Min(W) <= y
    BY <1>1, MinOfNaturals
<1> QED BY <1>2, ProvisioningAssumption DEF MinWeight

\* A weight stands for some CPU and some memory: ScaleUp does not divide by zero.
LEMMA PerWeightType == PerWeight \in [cpu : Nat \ {0}, memory : Nat \ {0}]
<1> DEFINE both == {InstanceResources.cpu, InstanceResources.memory}
<1>1. InstanceResources.cpu \in Nat /\ InstanceResources.memory \in Nat
    BY ProvisioningAssumption
<1>2. Min(both) <= InstanceResources.cpu /\ Min(both) <= InstanceResources.memory /\ Min(both) \in Nat
    BY <1>1, MinOfNaturals
<1>3. MinWeight <= InstanceResources.cpu /\ MinWeight <= InstanceResources.memory
    BY <1>1, <1>2, MinWeightType, ProvisioningAssumption
<1>4. ASSUME NEW a \in Nat, MinWeight <= a PROVE a \div MinWeight \in Nat \ {0}
    BY <1>4, MinWeightType, Quotients
<1> QED BY <1>1, <1>3, <1>4 DEF PerWeight

\* generateEmptyResources makes chunks that are not negative.
LEMMA EmptyResourcesType ==
    ASSUME NEW capacity \in Nat
    PROVE  EmptyResources(capacity) \in Seq(Resources)
<1> DEFINE whole == capacity \div MinWeight
           left == capacity % MinWeight
           rest == [cpu |-> (PerWeight.cpu * left) \div MinWeight,
                    memory |-> (PerWeight.memory * left) \div MinWeight]
           full == [k \in 1..whole |-> InstanceResources]
<1>1. whole \in Nat /\ left \in Nat
    BY MinWeightType, Quotients
<1>2. full \in Seq(Resources)
  <2>1. InstanceResources \in Resources
    BY ProvisioningAssumption DEF Resources
  <2>2. full \in [1..whole -> Resources]
    BY <2>1
  <2> HIDE DEF full, whole
  <2> QED BY <1>1, <2>2
<1>3. PerWeight.cpu * left \in Nat /\ PerWeight.memory * left \in Nat
    BY <1>1, PerWeightType
<1>4. rest \in Resources
  <2> HIDE DEF left
  <2> QED BY <1>3, MinWeightType, Quotients DEF Resources
<1>5. (IF left > 0 THEN <<rest>> ELSE <<>>) \in Seq(Resources)
    BY <1>4
<1> HIDE DEF full, rest, left, whole
<1>6. full \o (IF left > 0 THEN <<rest>> ELSE <<>>) \in Seq(Resources)
    BY <1>2, <1>5
<1> QED BY <1>6 DEF EmptyResources, full, rest, left, whole

\* Free chunks, none negative, and what is required on top.
PlanType == [free : Seq(Resources), cpu : Nat, memory : Nat]

\* calculateResources takes a need from a chunk that has enough of both, so that no chunk gets negative,
LEMMA FitType ==
    ASSUME NEW plan \in PlanType, NEW s \in Starts
    PROVE  Fit(plan, s) \in PlanType
<1> DEFINE fitting == {k \in DOMAIN plan.free : Enough(plan.free[k], Demand[s])}
<1>1. Demand[s].cpu \in Nat /\ Demand[s].memory \in Nat
    BY ProvisioningAssumption
<1>2. plan.free \in Seq(Resources) /\ plan.cpu \in Nat /\ plan.memory \in Nat
    BY DEF PlanType
<1>3. CASE fitting # {}
  <2> DEFINE first == Min(fitting)
             chunk == plan.free[first]
             cpu == chunk.cpu - Demand[s].cpu
             memory == chunk.memory - Demand[s].memory
             rest == [cpu |-> cpu, memory |-> memory]
  <2>1. first \in 1..Len(plan.free) /\ Enough(chunk, Demand[s])
    <3>1. fitting \in SUBSET Nat
        BY <1>2
    <3>2. Min(fitting) \in fitting
        BY <3>1, <1>3, MinOfNaturals
    <3> QED BY <1>2, <3>2
  <2>2. chunk \in Resources
    BY <1>2, <2>1, ElementOfSeq
  <2>3. cpu \in Nat /\ memory \in Nat
    <3> HIDE DEF chunk
    <3> QED BY <1>1, <2>1, <2>2 DEF Enough, Resources
  <2>4. Fit(plan, s) = [plan EXCEPT !.free[first].cpu = @ - Demand[s].cpu,
                                    !.free[first].memory = @ - Demand[s].memory]
    BY <1>3, Zenon DEF Fit
  <2> HIDE DEF first
  <2>5. Fit(plan, s) = [plan EXCEPT !.free = [plan.free EXCEPT ![first] = rest]]
    <3>1. [plan EXCEPT !.free[first].cpu = @ - Demand[s].cpu]
          = [plan EXCEPT !.free = [plan.free EXCEPT ![first] = [chunk EXCEPT !.cpu = cpu]]]
        OBVIOUS
    <3>2. [chunk EXCEPT !.cpu = cpu, !.memory = memory] = rest
      <4> HIDE DEF chunk, cpu, memory
      <4>1. [chunk EXCEPT !.cpu = cpu, !.memory = memory] \in Resources /\ rest \in Resources
        BY <2>2, <2>3 DEF Resources
      <4>2. \A a, b \in Resources : a.cpu = b.cpu /\ a.memory = b.memory => a = b
        BY DEF Resources
      <4> QED BY <2>2, <4>1, <4>2 DEF Resources
    <3>3. [plan EXCEPT !.free[first].cpu = @ - Demand[s].cpu,
                       !.free[first].memory = @ - Demand[s].memory]
          = [plan EXCEPT !.free = [plan.free EXCEPT ![first] =
                                      [chunk EXCEPT !.cpu = cpu, !.memory = memory]]]
        BY <1>2, <2>1, <2>2 DEF PlanType, Resources
    <3> QED BY <2>4, <3>2, <3>3
  <2>6. [plan.free EXCEPT ![first] = rest] \in Seq(Resources)
    <3>1. rest \in Resources
        BY <2>3 DEF Resources
    <3> QED BY <1>2, <2>1, <3>1, ExceptSeq
  <2> HIDE DEF rest
  <2> QED BY <2>5, <2>6 DEF PlanType
<1>4. CASE fitting = {}
  <2>1. Fit(plan, s) = [plan EXCEPT !.cpu = @ + Demand[s].cpu, !.memory = @ + Demand[s].memory]
    BY <1>4, Zenon DEF Fit
  <2>2. plan.cpu + Demand[s].cpu \in Nat /\ plan.memory + Demand[s].memory \in Nat
    BY <1>1, <1>2
  <2>3. \A x, y \in Nat : [plan EXCEPT !.cpu = x, !.memory = y] \in PlanType
    BY DEF PlanType
  <2> QED BY <2>1, <2>2, <2>3
<1> QED BY <1>3, <1>4

\* however many needs there are, in whichever order.
LEMMA PlanTyped ==
    ASSUME NEW capacity \in Nat, NEW order \in Seq(Starts)
    PROVE  Plan(capacity, order) \in PlanType
<1> DEFINE S == DOMAIN order
           base == [free |-> EmptyResources(capacity), cpu |-> 0, memory |-> 0]
           Iter(f) == f = [s \in SUBSET S |-> IF s = {} THEN base
                                              ELSE LET x == Max(s) IN Fit(f[s \ {x}], order[x])]
           iter == CHOOSE f : Iter(f)
<1>0. IsFiniteSet(S) /\ base \in PlanType
  <2>1. S = 1..Len(order) /\ Len(order) \in Nat
    BY LenProperties
  <2>2. IsFiniteSet(S)
    BY <2>1, FS_Interval
  <2> QED BY <2>2, EmptyResourcesType DEF PlanType
<1>1. PICK c : c = [s \in SUBSET S |-> Max(s)]
    OBVIOUS
<1>2. PICK g : g = [p \in S \X PlanType |-> Fit(p[2], order[p[1]])]
    OBVIOUS
<1>3. \A s \in SUBSET S : s # {} => c[s] \in s
  <2>1. S = 1..Len(order) /\ Len(order) \in Nat
    BY LenProperties
  <2>2. ASSUME NEW s \in SUBSET S, s # {} PROVE Max(s) \in s
    <3>1. s \in SUBSET (0..Len(order))
        BY <2>1
    <3> QED BY <2>1, <2>2, <3>1, MaxOfNaturals
  <2> QED BY <1>1, <2>2
<1>4. g \in [S \X PlanType -> PlanType]
  <2>1. \A p \in S \X PlanType : order[p[1]] \in Starts /\ p[2] \in PlanType
    BY LenProperties, ElementOfSeq
  <2>2. \A p \in S \X PlanType : Fit(p[2], order[p[1]]) \in PlanType
    BY <2>1, FitType
  <2> QED BY <1>2, <2>2
<1> HIDE DEF base
<1>5. Chooses(c, S)
    BY <1>3 DEF Chooses
<1>6. PICK f \in [SUBSET S -> PlanType] : Folds(f, base, c, g, S)
    BY <1>0, <1>5, <1>4, FoldExists, Zenon
<1>7. \A s \in SUBSET S : s # {} => f[s] = Fit(f[s \ {c[s]}], order[c[s]])
    BY <1>2, <1>3, <1>6 DEF Folds
<1>8. Iter(f)
  <2>1. ASSUME NEW s \in SUBSET S
        PROVE  f[s] = IF s = {} THEN base ELSE LET x == Max(s) IN Fit(f[s \ {x}], order[x])
    <3>1. CASE s = {}
        BY <3>1, <1>6 DEF Folds
    <3>2. CASE s # {}
        BY <3>2, <1>1, <1>7
    <3> QED BY <3>1, <3>2
  <2> QED BY <2>1, <1>6
<1>9. Iter(iter)
  <2> HIDE DEF Iter
  <2> QED BY <1>8, Zenon
<1>10. \A s \in SUBSET S : s # {} => iter[s] = Fit(iter[s \ {c[s]}], order[c[s]])
  <2> HIDE DEF iter
  <2> QED BY <1>9, <1>1
<1>11. \A s \in SUBSET S : iter[s] \in PlanType
  <2> HIDE DEF iter
  <2>1. iter[{}] \in PlanType
    BY <1>0, <1>9
  <2>2. ASSUME NEW s \in SUBSET S, s # {}
        PROVE  c[s] \in s /\ (iter[s \ {c[s]}] \in PlanType => iter[s] \in PlanType)
    <3>1. c[s] \in s /\ order[c[s]] \in Starts
        BY <2>2, <1>3, LenProperties, ElementOfSeq
    <3>2. iter[s] = Fit(iter[s \ {c[s]}], order[c[s]])
        BY <2>2, <1>10
    <3> QED BY <3>1, <3>2, FitType
  <2> QED BY <1>0, <2>1, <2>2, FoldInto
<1>12. Plan(capacity, order) = iter[S]
    BY DEF Plan, FoldLeft, MapThenFoldSet, base
<1> HIDE DEF iter
<1> QED BY <1>11, <1>12

\* ScaleUp asks for no less than the group has, and for no more than its maximum, whatever is required
\* and whatever the reserve.
THEOREM RaisedWithinGroup ==
    ASSUME NEW capacity \in Nat, capacity <= MaxSize, NEW plan \in PlanType
    PROVE  RaisedCapacity(capacity, plan) \in capacity..MaxSize
<1> DEFINE unit == PerWeight.cpu * PerWeight.memory
           more == Max({plan.cpu * PerWeight.memory, plan.memory * PerWeight.cpu})
           wanted == capacity * unit + more
           reserve == Min({wanted * ReservePercent, ReserveMaxCapacity * unit * 100})
           raised == CeilDiv(wanted * 100 + reserve, unit * 100)
<1>0. MaxSize \in Nat /\ ReservePercent \in Nat /\ ReserveMaxCapacity \in Nat
    BY ProvisioningAssumption
<1>1. unit \in Nat \ {0}
    BY PerWeightType
<1>2. more \in Nat
  <2>1. plan.cpu * PerWeight.memory \in Nat /\ plan.memory * PerWeight.cpu \in Nat
    BY PerWeightType DEF PlanType
  <2>2. \A a, b \in Nat : Max({a, b}) \in Nat
    BY DEF Max
  <2> QED BY <2>1, <2>2
<1> HIDE DEF unit, more
<1>3. wanted \in Nat /\ capacity * unit <= wanted
    BY <1>1, <1>2
<1>4. reserve \in Nat
  <2>1. wanted * ReservePercent \in Nat /\ ReserveMaxCapacity * unit * 100 \in Nat
    BY <1>0, <1>1, <1>3
  <2>2. \A a, b \in Nat : Min({a, b}) \in Nat
    BY DEF Min
  <2> QED BY <2>1, <2>2
<1> HIDE DEF wanted, reserve
<1>5. capacity * (unit * 100) <= wanted * 100 + reserve
    BY <1>1, <1>3, <1>4
<1>6. raised \in Nat /\ capacity <= raised
    BY <1>1, <1>3, <1>4, <1>5, CeilDivAtLeast
<1> HIDE DEF raised
<1>7. Min({raised, MaxSize}) \in capacity..MaxSize
    BY <1>0, <1>6 DEF Min
<1> QED BY <1>7 DEF RaisedCapacity, raised, reserve, wanted, more, unit

\* The chunks that have a whole weight left are counted.
LEMMA SpareType == ASSUME NEW chunks \in Seq(Resources) PROVE Spare(chunks) \in Nat
<1> DEFINE whole == {k \in DOMAIN chunks : Enough(chunks[k], PerWeight)}
<1>1. DOMAIN chunks = 1..Len(chunks) /\ Len(chunks) \in Nat
    BY LenProperties
<1>2. IsFiniteSet(DOMAIN chunks)
    BY <1>1, FS_Interval
<1>3. IsFiniteSet(whole)
    BY <1>2, FS_Subset
<1> QED BY <1>3, FS_CardinalityType DEF Spare

\* The tasks and the reservations of a pass, in an order.
LEMMA OrdersTyped ==
    ASSUME NEW running \in SUBSET Starts, NEW provisioning \in SUBSET Starts,
           NEW reserved \in SUBSET Starts,
           NEW order \in Orders(running, provisioning, reserved)
    PROVE  order \in Seq(Starts)
<1>1. ASSUME NEW S \in SUBSET Starts, NEW a \in SetToSeqs(S)
      PROVE  a \in Seq(Starts)
  <2>1. Cardinality(S) \in Nat
    BY ProvisioningAssumption, FS_Subset, FS_CardinalityType
  <2>2. a \in [1..Cardinality(S) -> S]
    BY DEF SetToSeqs
  <2>3. a \in [1..Cardinality(S) -> Starts]
    BY <2>2
  <2> QED BY <2>1, <2>3
<1>2. PICK a \in SetToSeqs(running), b \in SetToSeqs(provisioning), c \in SetToSeqs(reserved) :
         order = a \o b \o c
    BY DEF Orders
<1>3. a \in Seq(Starts) /\ b \in Seq(Starts) /\ c \in Seq(Starts)
    BY <1>1
<1> QED BY <1>2, <1>3

\* So much for any conclusion AdjustCapacity may come to.
LEMMA JudgementBounds ==
    ASSUME NEW judgement \in Judgements
    PROVE  /\ judgement.spare \in Nat
           /\ judgement.target \in judgement.capacity..MaxSize
<1>1. PICK capacity \in 0..MaxSize, running \in SUBSET Starts, provisioning \in SUBSET Starts,
           reserved \in SUBSET Starts :
         \E order \in Orders(running, provisioning, reserved) :
            judgement = Judgement(capacity, running, provisioning, reserved, order)
    BY DEF Judgements
<1>0. PICK order \in Orders(running, provisioning, reserved) :
         judgement = Judgement(capacity, running, provisioning, reserved, order)
    BY <1>1
<1> DEFINE plan == Plan(capacity, order)
<1>2. capacity \in Nat /\ capacity <= MaxSize
    BY ProvisioningAssumption
<1>3. plan \in PlanType
    BY <1>2, OrdersTyped, PlanTyped
<1>4. Spare(plan.free) \in Nat
    BY <1>3, SpareType DEF PlanType
<1>5. RaisedCapacity(capacity, plan) \in capacity..MaxSize
    BY <1>2, <1>3, RaisedWithinGroup
<1>6. judgement = [capacity |-> capacity, running |-> running, provisioning |-> provisioning,
                   reserved |-> reserved, enough |-> plan.cpu = 0, spare |-> Spare(plan.free),
                   target |-> RaisedCapacity(capacity, plan)]
    BY <1>0 DEF Judgement
<1> HIDE DEF plan
<1> QED BY <1>4, <1>5, <1>6

-----------------------------------------------------------------------------
(* The capacity of the group *)

\* What a pass of AdjustCapacity keeps.
Pass == [pc : ScaleState, running : SUBSET Starts, provisioning : SUBSET Starts,
         allowed : Nat, members : SUBSET Instances, victims : SUBSET Instances, target : Nat]

\* A pass that is about to set the capacity does so within the group's limits; one that has victims
\* will leave the minimum, and only lowers.
Targets ==
    /\ scale.pc \in {"raising", "lowering"} => scale.target <= MaxSize
    /\ scale.pc \in {"raising", "drain", "unprotect", "lowering"} => scale.target >= MinSize

\* The inductive invariant.
Within == TypeOK /\ DesiredWithinGroup /\ Targets

\* The instances of the beginning fit into the group.
LEMMA WithinInit == Init => Within
<1> SUFFICES ASSUME Init PROVE Within
    OBVIOUS
<1> USE ProvisioningAssumption DEF Init
<1> DEFINE hosts == {i \in Instances : inst[i] # Gone}
<1>1. hosts = {FirstHost[s] : s \in Starts} \ {Nowhere}
    BY DEF Gone
<1>2. TotalWeight(hosts) \in Nat /\ TotalWeight(hosts) <= MaxSize
    BY <1>1, WeightType DEF TotalWeight, Weights
<1>3. desired \in MinSize..MaxSize
  <2>1. desired = Max({MinSize, TotalWeight(hosts)})
    OBVIOUS
  <2>2. \A a, b \in Nat : Max({a, b}) \in {a, b} /\ Max({a, b}) >= a
    BY DEF Max
  <2> HIDE DEF hosts, Init
  <2> QED BY <1>2, <2>1, <2>2
<1>4. IdleScaler \in Pass
    BY DEF IdleScaler, Pass, ScaleState
<1>5. TypeOK
    BY <1>3, <1>4 DEF TypeOK, Pass, RegistrarState, TaskStatus, Instance, InstanceState, Gone,
                      IdleZombies
<1>6. Targets
    BY DEF Targets, IdleScaler
<1> QED BY <1>3, <1>5, <1>6 DEF Within, DesiredWithinGroup

\* Steps of starts, of ECS, of the group and of the zombie loop leave the capacity alone.
LEMMA WithinCluster ==
    ASSUME Within, Shape', UNCHANGED <<desired, scale>>,
           reg' \in [Starts -> RegistrarState], entity' \in [Starts -> {"nil", "spawned", "set"}],
           batch' \in [Starts -> {"none", "add", "delete"}], stored' \subseteq Starts,
           killed' \subseteq Starts, exposed' \subseteq Starts, faults' \in 0..MaxFaults,
           zombie'.active \subseteq Instances
              => zombie' \in [pc : {"idle", "listed"}, active : SUBSET Instances]
    PROVE  Within'
BY DEF Within, TypeOK, Shape, DesiredWithinGroup, Targets

\* Faults stay within their bound.
LEMMA FaultBound ==
    ASSUME faults \in 0..MaxFaults, Fault \/ UNCHANGED faults
    PROVE  faults' \in 0..MaxFaults
BY ProvisioningAssumption DEF Fault

\* Within through the steps of a start,
LEMMA WithinStart == ASSUME NEW s \in Starts, Inv', Within, Start(s) PROVE Within'
<1> USE DEF Within, TypeOK
<1>1. UNCHANGED <<desired, scale, zombie, killed, exposed>> /\ (Fault \/ UNCHANGED faults)
    BY DEF Start, Arrive, RunTask, RunTaskRefused, AddEntity, Retry, GiveUp, FlushResources,
           RouterCrash, cluster
<1>2. faults' \in 0..MaxFaults
    BY <1>1, FaultBound
<1>3. reg' \in [Starts -> RegistrarState]
    BY DEF Start, Arrive, RunTask, RunTaskRefused, AddEntity, Retry, GiveUp, FlushResources,
           RouterCrash, RegistrarState
<1>4. /\ entity' \in [Starts -> {"nil", "spawned", "set"}]
      /\ batch' \in [Starts -> {"none", "add", "delete"}]
    BY DEF Start, Arrive, RunTask, RunTaskRefused, AddEntity, Retry, GiveUp, FlushResources,
           RouterCrash, DropReservation, reservation
<1>5. stored' \subseteq Starts
    BY DEF Start, Arrive, RunTask, RunTaskRefused, AddEntity, Retry, GiveUp, FlushResources,
           RouterCrash, reservation
<1> HIDE DEF Within, TypeOK
<1>6. zombie' \in [pc : {"idle", "listed"}, active : SUBSET Instances]
    BY <1>1 DEF Within, TypeOK
<1> QED BY <1>1, <1>2, <1>3, <1>4, <1>5, <1>6, WithinCluster DEF Within, TypeOK, Inv

\* of ECS, of the group and of StopEc2ZombieInstances,
LEMMA WithinGroup ==
    ASSUME Inv', Within,
           (\E s \in Starts : Ecs(s)) \/ (\E i \in Instances : Group(i)) \/ ZombieLoop
    PROVE  Within'
<1> USE DEF Within, TypeOK
<1>1. UNCHANGED <<reg, reservation, desired, scale>> /\ (Fault \/ UNCHANGED faults)
    BY DEF Ecs, TaskRuns, TaskEnds, Place, Group, Launch, Register, Settle, GrowLate, ScaleIn,
           ZombieLoop, ListActive, ListContainerInstances, StopZombies
<1>2. faults' \in 0..MaxFaults
    BY <1>1, FaultBound
<1>3. /\ killed' \subseteq Starts /\ exposed' \subseteq Starts
      /\ zombie' \in [pc : {"idle", "listed"}, active : SUBSET Instances]
  <2>1. CASE \E s \in Starts : Ecs(s)
    BY <2>1 DEF Ecs, TaskRuns, TaskEnds, Place
  <2>2. CASE \E i \in Instances : Group(i)
    BY <2>2 DEF Group, Launch, Register, Settle, GrowLate, ScaleIn, Stop, OnInstance
  <2>3. CASE ListActive
    BY <2>3 DEF ListActive, Active, OnInstance
  <2>4. CASE StopZombies
    BY <2>4 DEF StopZombies, Stop, OnInstance, IdleZombies
  <2> QED BY <2>1, <2>2, <2>3, <2>4 DEF ZombieLoop
<1> HIDE DEF Within, TypeOK
<1> QED BY <1>1, <1>2, <1>3, WithinCluster DEF Within, TypeOK, Inv, reservation

\* and through a step of a pass that sets itself a sound target.
LEMMA WithinPass ==
    ASSUME Within, Shape', UNCHANGED <<reg, reservation, killed, exposed>>,
           Fault \/ UNCHANGED faults, desired' \in MinSize..MaxSize,
           zombie' = zombie \/ zombie' = IdleZombies,
           scale' \in Pass, Targets'
    PROVE  Within'
<1>1. faults' \in 0..MaxFaults
    BY FaultBound DEF Within, TypeOK
<1>2. zombie' \in [pc : {"idle", "listed"}, active : SUBSET Instances]
    BY DEF Within, TypeOK, IdleZombies
<1>3. desired' \in Nat
    BY ProvisioningAssumption
<1> QED BY <1>1, <1>2, <1>3 DEF Within, TypeOK, Shape, Pass, reservation, DesiredWithinGroup

\* A pass that is over has none.
LEMMA WithinIdle ==
    ASSUME scale' = IdleScaler
    PROVE  scale' \in Pass /\ Targets'
BY DEF IdleScaler, Pass, ScaleState, Targets

\* The pass through GetCapacityProviderTasks,
LEMMA WithinReadTasks == ASSUME Inv', Within, ReadTasks PROVE Within'
<1>1. PICK seen \in SUBSET Starts :
         scale' = [IdleScaler EXCEPT !.pc = "tasks",
                                     !.running = {s \in seen : task[s] = "running"},
                                     !.provisioning = {s \in seen : task[s] = "provisioning"}]
    BY DEF ReadTasks
<1> DEFINE running == {s \in seen : task[s] = "running"}
           provisioning == {s \in seen : task[s] = "provisioning"}
<1>2. running \in SUBSET Starts /\ provisioning \in SUBSET Starts
    OBVIOUS
<1>3. scale' \in Pass /\ Targets'
  <2> HIDE DEF running, provisioning
  <2>1. scale' = [IdleScaler EXCEPT !.pc = "tasks", !.running = running, !.provisioning = provisioning]
    BY <1>1 DEF running, provisioning
  <2> QED BY <1>2, <2>1 DEF IdleScaler, Pass, ScaleState, Targets
<1> QED BY <1>3, WithinPass DEF ReadTasks, Inv, cluster, Within, DesiredWithinGroup

\* its decision to raise the capacity, or to look for some to release,
LEMMA WithinDecide == ASSUME Inv', Within, Decide PROVE Within'
<1>1. PICK judgement \in Judgements :
         /\ judgement.capacity = desired
         /\ scale' = IF judgement.enough
                     THEN [IdleScaler EXCEPT !.pc = "down", !.allowed = judgement.spare]
                     ELSE IF judgement.target = desired THEN IdleScaler
                     ELSE [IdleScaler EXCEPT !.pc = "raising", !.target = judgement.target]
    BY DEF Decide
<1>2. judgement.spare \in Nat /\ judgement.target \in MinSize..MaxSize
    BY <1>1, JudgementBounds, ProvisioningAssumption DEF Within, DesiredWithinGroup
<1>3. judgement.target \in Nat
    BY <1>2, ProvisioningAssumption
<1>4. scale' \in Pass /\ Targets'
  <2>1. CASE scale' = [IdleScaler EXCEPT !.pc = "down", !.allowed = judgement.spare]
    BY <1>2, <2>1 DEF IdleScaler, Pass, ScaleState, Targets
  <2>2. CASE scale' = IdleScaler
    BY <2>2, WithinIdle
  <2>3. CASE scale' = [IdleScaler EXCEPT !.pc = "raising", !.target = judgement.target]
    <3>1. judgement.target >= MinSize /\ judgement.target <= MaxSize
        BY <1>2, ProvisioningAssumption
    <3> QED BY <1>3, <2>3, <3>1 DEF IdleScaler, Pass, ScaleState, Targets
  <2> QED BY <1>1, <2>1, <2>2, <2>3
<1> QED BY <1>4, WithinPass DEF Decide, ReadReservations, Inv, cluster, Within, DesiredWithinGroup

\* the capacity it may release,
LEMMA WithinReadInstances == ASSUME Inv', Within, ReadInstances PROVE Within'
<1> DEFINE members == {i \in InGroup : inst[i].protected}
           over == TotalWeight(members) - desired
           more == IF over > 0 THEN Spare(EmptyResources(over)) ELSE 0
           allowed == scale.allowed + more
<1>1. members \in SUBSET Instances
    BY DEF InGroup
<1>2. over \in Int
    BY <1>1, WeightType DEF Within, TypeOK
<1>3. more \in Nat
  <2> HIDE DEF over
  <2> QED BY <1>2, EmptyResourcesType, SpareType
<1>4. allowed \in Nat
    BY <1>3 DEF Within, TypeOK
<1>5. scale' = IF allowed = 0 THEN IdleScaler
               ELSE [IdleScaler EXCEPT !.pc = "instances", !.members = members, !.allowed = allowed]
    BY DEF ReadInstances
<1> HIDE DEF members, allowed
<1>6. scale' \in Pass /\ Targets'
    BY <1>1, <1>4, <1>5 DEF IdleScaler, Pass, ScaleState, Targets
<1> QED BY <1>6, WithinPass DEF ReadInstances, Inv, cluster, Within, DesiredWithinGroup

\* its choice of victims, which leaves the minimum even when the last one exceeds what may go,
LEMMA WithinPick == ASSUME Inv', Within, Pick PROVE Within'
<1> DEFINE current == TotalWeight(scale.members)
<1>1. PICK candidates \in SUBSET Instances, victims \in SUBSET Instances :
         /\ victims \in Victims(candidates, current)
         /\ scale' = IF victims = {} THEN IdleScaler
                     ELSE [IdleScaler EXCEPT !.pc = "drain", !.victims = victims,
                                             !.target = Max({current - TotalWeight(victims), 0})]
    BY DEF Pick, Candidates, Active, Victims
<1>2. victims \in SUBSET Instances
    BY <1>1
<1>3. MinSize # 0 /\ victims # {} => current - TotalWeight(victims) >= MinSize
    BY <1>1 DEF Victims
<1>4. current \in Nat /\ TotalWeight(victims) \in Nat
    BY <1>2, WeightType DEF Within, TypeOK
<1> DEFINE left == Max({current - TotalWeight(victims), 0})
<1>5. left \in Nat /\ (victims # {} => left >= MinSize)
  <2>1. \A x \in Int : Max({x, 0}) \in Nat /\ Max({x, 0}) >= x
    BY DEF Max
  <2> QED BY <1>3, <1>4, <2>1, ProvisioningAssumption
<1> HIDE DEF left, current
<1>6. scale' \in Pass /\ Targets'
    BY <1>1, <1>2, <1>5 DEF left, IdleScaler, Pass, ScaleState, Targets
<1>7. Fault \/ UNCHANGED faults
    BY DEF Pick, ListContainerInstances
<1> QED BY <1>6, <1>7, WithinPass DEF Pick, Inv, cluster, Within, DesiredWithinGroup

\* their drain
LEMMA WithinDrain == ASSUME Inv', Within, Drain PROVE Within'
<1>1. scale' \in Pass /\ Targets'
  <2>1. CASE scale' = IdleScaler
    BY <2>1, WithinIdle
  <2>2. CASE scale' = [IdleScaler EXCEPT !.pc = "unprotect", !.victims = scale.victims,
                                         !.target = scale.target]
    BY <2>2 DEF Drain, Within, TypeOK, IdleScaler, Pass, ScaleState, Targets
  <2> QED BY <2>1, <2>2 DEF Drain
<1> QED BY <1>1, WithinPass DEF Drain, Inv, Within, DesiredWithinGroup

\* and the loss of their protection, after which the capacity is only lowered,
LEMMA WithinUnprotect == ASSUME Inv', Within, Unprotect PROVE Within'
<1>1. scale' \in Pass /\ Targets'
  <2>1. CASE scale' = IdleScaler
    BY <2>1, WithinIdle
  <2>2. CASE /\ ~(scale.target >= desired)
             /\ scale' = [IdleScaler EXCEPT !.pc = "lowering", !.target = scale.target]
    <3>1. scale.target \in Nat /\ scale.target >= MinSize /\ scale.target <= MaxSize
        BY <2>2, ProvisioningAssumption DEF Unprotect, Within, TypeOK, Targets, DesiredWithinGroup
    <3> QED BY <2>2, <3>1 DEF IdleScaler, Pass, ScaleState, Targets
  <2> QED BY <2>1, <2>2, Zenon DEF Unprotect
<1> QED BY <1>1, WithinPass DEF Unprotect, Inv, Within, DesiredWithinGroup

\* and the call that sets it, for which the group is as it was when the target was chosen.
LEMMA WithinEnd == ASSUME Inv', Within, Raise \/ Lower \/ ScalerCrash PROVE Within'
<1>1. scale' \in Pass /\ Targets'
    BY WithinIdle DEF Raise, Lower, ScalerCrash
<1>2. desired' \in MinSize..MaxSize
    BY ProvisioningAssumption DEF Raise, Lower, ScalerCrash, Within, TypeOK, Targets, DesiredWithinGroup
<1>3. UNCHANGED <<reg, reservation, killed, exposed>> /\ (zombie' = zombie \/ zombie' = IdleZombies)
    BY DEF Raise, Lower, ScalerCrash, cluster
<1>4. Fault \/ UNCHANGED faults
    BY DEF Raise, Lower, ScalerCrash
<1> QED BY <1>1, <1>2, <1>3, <1>4, WithinPass DEF Inv

\* So every step keeps within the group.
LEMMA WithinStep == Inv /\ Within /\ [Next]_vars => Within'
<1> SUFFICES ASSUME Inv, Within, [Next]_vars PROVE Within'
    OBVIOUS
<1>0. Inv'
    BY InvStep
<1>1. CASE \E s \in Starts : Start(s)
    BY <1>0, <1>1, WithinStart
<1>2. CASE (\E s \in Starts : Ecs(s)) \/ (\E i \in Instances : Group(i)) \/ ZombieLoop
    BY <1>0, <1>2, WithinGroup
<1>3. CASE AdjustCapacity \/ ScalerCrash
    BY <1>0, <1>3, WithinReadTasks, WithinDecide, WithinReadInstances, WithinPick, WithinDrain,
       WithinUnprotect, WithinEnd DEF AdjustCapacity
<1>4. CASE UNCHANGED vars
    BY <1>4 DEF vars, Within, TypeOK, DesiredWithinGroup, Targets
<1> QED BY <1>1, <1>2, <1>3, <1>4 DEF Next

\* Every variable keeps its type, the records of the pass and of the zombie loop included.
THEOREM TypesCorrect == Spec => []TypeOK
<1>1. Within => TypeOK
    BY DEF Within
<1> QED BY <1>1, InvInit, InvStep, WithinInit, WithinStep, PTL DEF Spec

\* SetDesiredCapacity never asks the group for less than its minimum or more than its maximum, for any
\* weights, demands, reserve and orders of the tasks, and whichever calls fail or processes die.
THEOREM CapacityStaysWithinGroup == Spec => []DesiredWithinGroup
<1>1. Within => DesiredWithinGroup
    BY DEF Within
<1> QED BY <1>1, InvInit, InvStep, WithinInit, WithinStep, PTL DEF Spec

=============================================================================
