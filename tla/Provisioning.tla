----------------------------- MODULE Provisioning -----------------------------
(***************************************************************************)
(* Who gets an instance to run on.  The registrar of each start calls RunTask *)
(* until ECS takes the task, and keeps a reservation in Redis meanwhile.  The *)
(* scaler of one capacity provider compares tasks and reservations with the   *)
(* desired capacity of its autoscaling group, and raises it, or drains idle   *)
(* instances and lowers it; a second loop stops instances that never joined   *)
(* the cluster.  ECS and the autoscaling group are modelled as they are used. *)
(*                                                                          *)
(* Capacity is counted in weight.  Weights differ between instance types;     *)
(* resources are a pair of CPU and memory.                                  *)
(***************************************************************************)
EXTENDS Naturals, Integers, FiniteSets, Sequences, FiniteSetsExt, SequencesExt

CONSTANTS Starts,              \* starts, each on a router of its own
          Demand,              \* the CPU and memory a start's task asks for
          FirstHost,           \* the instance its task runs on at the beginning, if it does
          Instances,           \* EC2 instances the group may launch
          Weight,              \* the weight of each one's instance type
          InstanceResources,   \* CPU and memory of the lightest instance type
          MinSize, MaxSize,    \* of the autoscaling group
          ReservePercent,      \* ReserveInstancesPercent, in percent
          ReserveMaxCapacity,
          PoolLimit,           \* tasks ECS keeps in PROVISIONING
          Nowhere,             \* the host of a task that has none
          MaxFaults            \* bound: failed calls, late goroutines, crashes

ASSUME ProvisioningAssumption ==
    /\ IsFiniteSet(Starts) /\ IsFiniteSet(Instances)
    /\ Demand \in [Starts -> [cpu : Nat \ {0}, memory : Nat \ {0}]]
    /\ FirstHost \in [Starts -> Instances \cup {Nowhere}]
    /\ Weight \in [Instances -> Nat \ {0}]
    /\ InstanceResources \in [cpu : Nat \ {0}, memory : Nat \ {0}]
    /\ {MinSize, MaxSize, ReservePercent, ReserveMaxCapacity, PoolLimit, MaxFaults} \subseteq Nat
    /\ MinSize <= MaxSize
    /\ ReservePercent <= 100
    /\ Nowhere \notin Instances
    \* The scaler divides by the CPU and the memory of a weight.
    /\ \E i \in Instances : Weight[i] <= Min({InstanceResources.cpu, InstanceResources.memory})
    \* The group is not over its maximum at the beginning.
    /\ SumFunctionOnSet(Weight, {FirstHost[s] : s \in Starts} \ {Nowhere}) <= MaxSize

VARIABLES
    reg,       \* the registrar of each start
    entity,    \* its allocation entity: nil, being assigned by a goroutine, set
    batch,     \* what the resource worker of its router will do for its key
    stored,    \* starts whose reservation is in Redis
    task,      \* the ECS task of each start
    host,      \* the instance it was placed on
    inst,      \* EC2 and container instance, in one
    desired,   \* the desired capacity of the group
    scale,     \* AdjustCapacity: where it is and what it has read
    zombie,    \* StopEc2ZombieInstances: likewise
    killed,    \* starts whose task was running on an instance that was stopped
    exposed,   \* history: tasks that were placed where a loop did not see them
    faults     \* faults so far

reservation == <<entity, batch, stored>>
cluster == <<task, host, inst, killed, exposed>>
vars == <<reg, entity, batch, stored, task, host, inst, desired, scale, zombie,
          killed, exposed, faults>>

-----------------------------------------------------------------------------
(* Types *)

Resources == [cpu : Nat, memory : Nat]

\* new: not asked for; trying: about to call RunTask; sleeping: between two
\* calls; registered: it has a task; failed: it gave up.
RegistrarState == {"new", "trying", "sleeping", "registered", "failed"}

TaskStatus == {"none", "provisioning", "pending", "running", "stopped"}

\* booting: in the group, not in the cluster; fresh: an ACTIVE container instance
\* within InstanceCooldownTimeout; settled: past it.
InstanceState == {"gone", "booting", "fresh", "settled", "draining"}

Instance == [state : InstanceState, protected : BOOLEAN, late : BOOLEAN]

\* A plausible bug: an instance that is stopped loses only its state.
GoneWithoutFlags == [state |-> "gone"]

Gone == [state |-> "gone", protected |-> FALSE, late |-> FALSE]

ScaleState == {"idle", "tasks", "raising", "down", "instances", "drain", "unprotect", "lowering"}

IdleScaler == [pc |-> "idle", running |-> {}, provisioning |-> {}, allowed |-> 0,
               members |-> {}, victims |-> {}, target |-> 0]

IdleZombies == [pc |-> "idle", active |-> {}]

TypeOK ==
    /\ reg \in [Starts -> RegistrarState]
    /\ entity \in [Starts -> {"nil", "spawned", "set"}]
    /\ batch \in [Starts -> {"none", "add", "delete"}]
    /\ stored \subseteq Starts
    /\ task \in [Starts -> TaskStatus]
    /\ host \in [Starts -> Instances \cup {Nowhere}]
    /\ inst \in [Instances -> Instance]
    /\ desired \in Nat
    /\ scale \in [pc : ScaleState, running : SUBSET Starts, provisioning : SUBSET Starts,
                  allowed : Nat, members : SUBSET Instances, victims : SUBSET Instances,
                  target : Nat]
    /\ zombie \in [pc : {"idle", "listed"}, active : SUBSET Instances]
    /\ killed \subseteq Starts
    /\ exposed \subseteq Starts
    /\ faults \in 0..MaxFaults

-----------------------------------------------------------------------------
(* Capacity *)

\* Of every set of instances at once, so that it is computed once.
Weights == [S \in SUBSET Instances |-> SumFunctionOnSet(Weight, S)]

TotalWeight(S) == Weights[S]

MinWeight == Min({Weight[i] : i \in Instances})

\* resourcesPerWeight, integer division as in the code.
PerWeight == [cpu |-> InstanceResources.cpu \div MinWeight,
              memory |-> InstanceResources.memory \div MinWeight]

InGroup == {i \in Instances : inst[i].state # "gone"}
Active == {i \in Instances : inst[i].state \in {"fresh", "settled"}}

OnInstance(i) == {s \in Starts : host[s] = i /\ task[s] \in {"pending", "running"}}

Waiting(s) == reg[s] \in {"trying", "sleeping"} \/ task[s] = "provisioning"

Enough(chunk, need) == chunk.cpu >= need.cpu /\ chunk.memory >= need.memory

RoomOn(i) ==
    LET used(field) == MapThenSumSet(LAMBDA s : Demand[s][field], OnInstance(i))
    IN [cpu |-> PerWeight.cpu * Weight[i] - used("cpu"),
        memory |-> PerWeight.memory * Weight[i] - used("memory")]

\* A chunk for every MinWeight of the capacity, and one for what is left.
EmptyResources(capacity) ==
    LET whole == capacity \div MinWeight
        left == capacity % MinWeight
        rest == [cpu |-> (PerWeight.cpu * left) \div MinWeight,
                 memory |-> (PerWeight.memory * left) \div MinWeight]
    IN [k \in 1..whole |-> InstanceResources] \o (IF left > 0 THEN <<rest>> ELSE <<>>)

\* First fit: the need goes to the first chunk with enough of both, or is required.
Fit(plan, s) ==
    LET fitting == {k \in DOMAIN plan.free : Enough(plan.free[k], Demand[s])}
    IN IF fitting # {}
       THEN [plan EXCEPT !.free[Min(fitting)].cpu = @ - Demand[s].cpu,
                         !.free[Min(fitting)].memory = @ - Demand[s].memory]
       ELSE [plan EXCEPT !.cpu = @ + Demand[s].cpu, !.memory = @ + Demand[s].memory]

\* calculateResources, and the same for the reservations, in the order given.
Plan(capacity, order) ==
    FoldLeft(Fit, [free |-> EmptyResources(capacity), cpu |-> 0, memory |-> 0], order)

CeilDiv(a, b) == (a + b - 1) \div b

\* A plausible bug: no look at MaxSize.
RaisedWithoutLimit(capacity, plan) ==
    LET unit == PerWeight.cpu * PerWeight.memory
    IN CeilDiv((capacity * unit + Max({plan.cpu * PerWeight.memory, plan.memory * PerWeight.cpu}))
                  * (100 + ReservePercent), unit * 100)

\* ScaleUp: max of the two quotients on top of the desired capacity, plus the reserve,
\* rounded up, at most MaxSize.  The fractions are exact, over one denominator.
RaisedCapacity(capacity, plan) ==
    LET unit == PerWeight.cpu * PerWeight.memory
        wanted == capacity * unit + Max({plan.cpu * PerWeight.memory, plan.memory * PerWeight.cpu})
        reserve == Min({wanted * ReservePercent, ReserveMaxCapacity * unit * 100})
    IN Min({CeilDiv(wanted * 100 + reserve, unit * 100), MaxSize})

\* A plausible bug: more than a whole weight has to be free.
SpareStrictly(chunks) ==
    Cardinality({k \in DOMAIN chunks : chunks[k].cpu > PerWeight.cpu /\ chunks[k].memory > PerWeight.memory})

\* Chunks from which a whole weight could be given back.
Spare(chunks) == Cardinality({k \in DOMAIN chunks : Enough(chunks[k], PerWeight)})

\* The tasks come in an order ECS chose: those that run, those in PROVISIONING, then the
\* reservations.  A task that is PENDING is not counted.
Orders(running, provisioning, reserved) ==
    {a \o b \o c : a \in SetToSeqs(running), b \in SetToSeqs(provisioning), c \in SetToSeqs(reserved)}

Judgement(capacity, running, provisioning, reserved, order) ==
    LET plan == Plan(capacity, order)
    IN [capacity |-> capacity, running |-> running, provisioning |-> provisioning,
        reserved |-> reserved,
        enough |-> plan.cpu = 0,
        spare |-> Spare(plan.free),
        target |-> RaisedCapacity(capacity, plan)]

\* What AdjustCapacity may conclude from what it has read.  A relation, so that it is
\* computed once.
Judgements ==
    UNION {{Judgement(capacity, running, provisioning, reserved, order) :
                order \in Orders(running, provisioning, reserved)} :
           capacity \in 0..MaxSize,
           running \in SUBSET Starts, provisioning \in SUBSET Starts, reserved \in SUBSET Starts}

\* A plausible bug: PendingTasksCount is not looked at.
IdleIgnoringPending(i) == \A s \in OnInstance(i) : task[s] = "pending"

Idle(i) == OnInstance(i) = {}

\* Instances that may go, whichever order ECS lists them in: while some of the allowed
\* capacity is left, which the last one may exceed.
Candidates(eligible, allowed) ==
    {C \in SUBSET eligible :
        /\ C = {} \/ \E last \in C : TotalWeight(C \ {last}) < allowed
        /\ C = eligible \/ TotalWeight(C) >= allowed}

\* What of the weight may go once the reserve is kept back.
Deletable(weight) ==
    LET kept == Min({weight * ReservePercent, ReserveMaxCapacity * 100})
    IN CeilDiv(weight * 100 - kept, 100)

\* Those that do go, in the random order of a Go map: until the group is at its minimum or the
\* deletable weight is used up, and passing over one that would leave less than the minimum.
Victims(candidates, current) ==
    LET limit == Deletable(TotalWeight(candidates))
        after(V) == current - TotalWeight(V)
        passedOver(V, i) == MinSize # 0 /\ after(V) - Weight[i] < MinSize
    IN {V \in SUBSET candidates :
           /\ V # {} => \E last \in V : /\ after(V \ {last}) > MinSize
                                        /\ TotalWeight(V \ {last}) < limit
           /\ MinSize # 0 /\ V # {} => after(V) >= MinSize
           /\ \/ after(V) <= MinSize
              \/ TotalWeight(V) >= limit
              \/ \A i \in candidates \ V : passedOver(V, i)}

-----------------------------------------------------------------------------
\* A grid at work: some starts have their task, on instances that have been up for a while.
Init ==
    /\ reg = [s \in Starts |-> IF FirstHost[s] = Nowhere THEN "new" ELSE "registered"]
    /\ entity = [s \in Starts |-> "nil"]
    /\ batch = [s \in Starts |-> "none"]
    /\ stored = {}
    /\ task = [s \in Starts |-> IF FirstHost[s] = Nowhere THEN "none" ELSE "running"]
    /\ host = FirstHost
    /\ inst = [i \in Instances |->
                  IF \E s \in Starts : FirstHost[s] = i
                  THEN [state |-> "settled", protected |-> TRUE, late |-> FALSE] ELSE Gone]
    /\ desired = Max({MinSize, TotalWeight({i \in Instances : inst[i] # Gone})})
    /\ scale = IdleScaler
    /\ zombie = IdleZombies
    /\ killed = {}
    /\ exposed = {}
    /\ faults = 0

Fault == faults < MaxFaults /\ faults' = faults + 1

-----------------------------------------------------------------------------
(* The registrar of a start *)

\* A start asks for a task.  One whose image has no revision ends at once and is not of
\* interest here.
Arrive(s) ==
    /\ reg[s] = "new"
    /\ reg' = [reg EXCEPT ![s] = "trying"]
    /\ UNCHANGED <<reservation, cluster, desired, scale, zombie, faults>>

\* A plausible bug: a start that got its task leaves its reservation to the scaler.
KeepReservation(s) == UNCHANGED <<entity, batch>>

\* RemoveEntity in a goroutine, if an entity was assigned.  The variable is gone with
\* the function; a goroutine that has yet to assign it will still do so.
DropReservation(s) ==
    IF entity[s] = "set"
    THEN /\ entity' = [entity EXCEPT ![s] = "nil"]
         /\ batch' = [batch EXCEPT ![s] = "delete"]
    ELSE UNCHANGED <<entity, batch>>

\* ECS takes a task when an instance has room, or its pool of tasks in PROVISIONING does.
EcsTakes(s) ==
    \/ \E i \in Active : Enough(RoomOn(i), Demand[s])
    \/ Cardinality({t \in Starts : task[t] = "provisioning"}) < PoolLimit

RunTask(s) ==
    /\ reg[s] = "trying"
    /\ EcsTakes(s)
    /\ task' = [task EXCEPT ![s] = "provisioning"]
    /\ reg' = [reg EXCEPT ![s] = "registered"]
    /\ DropReservation(s)
    /\ UNCHANGED <<stored, host, inst, desired, scale, zombie, killed, exposed, faults>>

\* A failure to call ECS is a fault; a full pool, or no room, is an ordinary answer.
RunTaskRefused(s) ==
    /\ reg[s] = "trying"
    /\ reg' = [reg EXCEPT ![s] = "sleeping"]
    /\ entity' = [entity EXCEPT ![s] = IF @ = "nil" THEN "spawned" ELSE @]
    /\ IF EcsTakes(s) THEN Fault ELSE UNCHANGED faults
    /\ UNCHANGED <<batch, stored, cluster, desired, scale, zombie>>

\* The goroutine assigns the entity and appends it to the worker.
AddEntity(s) ==
    /\ entity[s] = "spawned"
    /\ entity' = [entity EXCEPT ![s] = IF reg[s] \in {"trying", "sleeping"} THEN "set" ELSE "nil"]
    /\ batch' = [batch EXCEPT ![s] = "add"]
    /\ UNCHANGED <<reg, stored, cluster, desired, scale, zombie, faults>>

\* The sleep takes five seconds at least: a goroutine that has not run by then is a fault.
Retry(s) ==
    /\ reg[s] = "sleeping"
    /\ \/ entity[s] # "spawned" /\ UNCHANGED faults
       \/ entity[s] = "spawned" /\ Fault
    /\ reg' = [reg EXCEPT ![s] = "trying"]
    /\ UNCHANGED <<reservation, cluster, desired, scale, zombie>>

\* The startup context is over, or the task definition is gone.
GiveUp(s) ==
    /\ reg[s] = "trying"
    /\ reg' = [reg EXCEPT ![s] = "failed"]
    /\ DropReservation(s)
    /\ UNCHANGED <<stored, cluster, desired, scale, zombie, faults>>

\* writeRecords.  A pipeline that fails leaves Redis as it is; AddEntity and
\* RemoveEntity log the error and do not try again.
FlushResources(s) ==
    /\ batch[s] # "none"
    /\ batch' = [batch EXCEPT ![s] = "none"]
    /\ \/ /\ stored' = IF batch[s] = "add" THEN stored \cup {s} ELSE stored \ {s}
          /\ UNCHANGED faults
       \/ /\ Fault
          /\ UNCHANGED stored
    /\ UNCHANGED <<reg, entity, cluster, desired, scale, zombie>>

\* The router dies: its registrar, its goroutines and its batch are gone.
RouterCrash(s) ==
    /\ reg[s] \in {"trying", "sleeping"}
    /\ Fault
    /\ reg' = [reg EXCEPT ![s] = "failed"]
    /\ entity' = [entity EXCEPT ![s] = "nil"]
    /\ batch' = [batch EXCEPT ![s] = "none"]
    /\ UNCHANGED <<stored, cluster, desired, scale, zombie>>

-----------------------------------------------------------------------------
(* ECS *)

\* The pass of a loop that is going on has looked at i before, and will act on what it saw.
Overlooked(i) ==
    \/ scale.pc = "drain" /\ i \in scale.victims
    \/ zombie.pc = "listed" /\ i \notin zombie.active

\* A task is placed on an ACTIVE instance with room.
Place(s, i) ==
    /\ task[s] = "provisioning"
    /\ i \in Active
    /\ Enough(RoomOn(i), Demand[s])
    /\ task' = [task EXCEPT ![s] = "pending"]
    /\ host' = [host EXCEPT ![s] = i]
    /\ exposed' = IF Overlooked(i) THEN exposed \cup {s} ELSE exposed
    /\ UNCHANGED <<reg, reservation, inst, desired, scale, zombie, killed, faults>>

TaskRuns(s) ==
    /\ task[s] = "pending"
    /\ task' = [task EXCEPT ![s] = "running"]
    /\ UNCHANGED <<reg, reservation, host, inst, desired, scale, zombie, killed, exposed, faults>>

\* The session is over, or its start is given up.
TaskEnds(s) ==
    /\ task[s] \in {"provisioning", "pending", "running"}
    /\ task' = [task EXCEPT ![s] = "stopped"]
    /\ host' = [host EXCEPT ![s] = Nowhere]
    /\ UNCHANGED <<reg, reservation, inst, desired, scale, zombie, killed, exposed, faults>>

-----------------------------------------------------------------------------
(* The autoscaling group *)

\* Instances are launched protected from scale-in.  An id is never used again: a member of
\* Instances stands for a new one once nobody remembers the last.
Launch(i) ==
    /\ inst[i] = Gone
    /\ i \notin scale.members \cup scale.victims \cup zombie.active
    /\ TotalWeight(InGroup) < desired
    /\ inst' = [inst EXCEPT ![i] = [state |-> "booting", protected |-> TRUE, late |-> FALSE]]
    /\ UNCHANGED <<reg, reservation, task, host, desired, scale, zombie, killed, exposed, faults>>

\* The instance joins the cluster.
Register(i) ==
    /\ inst[i].state = "booting"
    /\ inst' = [inst EXCEPT ![i].state = "fresh"]
    /\ UNCHANGED <<reg, reservation, task, host, desired, scale, zombie, killed, exposed, faults>>

\* InstanceCooldownTimeout after registration.  That is longer than ECS takes to place a task,
\* or a registrar to call again: whoever waits for this room has it by then.
Settle(i) ==
    /\ inst[i].state = "fresh"
    /\ \A s \in Starts : Waiting(s) => ~Enough(RoomOn(i), Demand[s])
    /\ inst' = [inst EXCEPT ![i].state = "settled", ![i].late = FALSE]
    /\ UNCHANGED <<reg, reservation, task, host, desired, scale, zombie, killed, exposed, faults>>

\* ContainerInstanceInitTimeout after launch: an instance that is not in the cluster by then
\* has a fault.  Of one that is in the cluster it is not tracked any more.
GrowLate(i) ==
    /\ inst[i].state \in {"booting", "draining"}
    /\ ~inst[i].late
    /\ inst' = [inst EXCEPT ![i].late = TRUE]
    /\ IF inst[i].state = "booting" THEN Fault ELSE UNCHANGED faults
    /\ UNCHANGED <<reg, reservation, task, host, desired, scale, zombie, killed, exposed>>

\* The instance is stopped, and with it what runs on it.
Stop(gone) ==
    LET lost == UNION {OnInstance(i) : i \in gone}
    IN /\ inst' = [i \in Instances |-> IF i \in gone THEN Gone ELSE inst[i]]
       /\ killed' = killed \cup lost
       /\ task' = [s \in Starts |-> IF s \in lost THEN "stopped" ELSE task[s]]
       /\ host' = [s \in Starts |-> IF s \in lost THEN Nowhere ELSE host[s]]

\* The group has more than it should and may stop an instance without protection.
ScaleIn(i) ==
    /\ i \in InGroup
    /\ ~inst[i].protected
    /\ TotalWeight(InGroup) > desired
    /\ Stop({i})
    /\ UNCHANGED <<reg, reservation, desired, scale, zombie, exposed, faults>>

-----------------------------------------------------------------------------
(* AdjustCapacity *)

\* GetCapacityProviderTasks: when a page cannot be described, what was read so far counts.
ReadTasks ==
    /\ scale.pc = "idle"
    /\ \E seen \in SUBSET Starts :
          /\ \/ seen = Starts /\ UNCHANGED faults
             \/ seen # Starts /\ Fault
          /\ scale' = [IdleScaler EXCEPT
                          !.pc = "tasks",
                          !.running = {s \in seen : task[s] = "running"},
                          !.provisioning = {s \in seen : task[s] = "provisioning"}]
    /\ UNCHANGED <<reg, reservation, cluster, desired, zombie>>

\* Reservations that cannot be read count as none.
ReadReservations(reserved) ==
    \/ reserved = stored /\ UNCHANGED faults
    \/ reserved = {} /\ stored # {} /\ Fault

\* A list of container instances that breaks off counts as the whole list.
ListContainerInstances(listed) ==
    \/ listed = Active /\ UNCHANGED faults
    \/ listed # Active /\ Fault

\* The group's desired capacity, which nobody else changes, and the reservations.
Decide ==
    /\ scale.pc = "tasks"
    /\ \E reserved \in {stored, {}} :
          /\ ReadReservations(reserved)
          /\ \E judgement \in Judgements :
                /\ judgement.capacity = desired
                /\ judgement.running = scale.running
                /\ judgement.provisioning = scale.provisioning
                /\ judgement.reserved = reserved
                /\ scale' = IF judgement.enough
                            THEN [IdleScaler EXCEPT !.pc = "down", !.allowed = judgement.spare]
                            ELSE IF judgement.target = desired THEN IdleScaler
                            ELSE [IdleScaler EXCEPT !.pc = "raising", !.target = judgement.target]
    /\ UNCHANGED <<reg, reservation, cluster, desired, zombie>>

\* SetDesiredCapacity, which may fail: the pass is over either way.
Raise ==
    /\ scale.pc = "raising"
    /\ \/ desired' = scale.target /\ UNCHANGED faults
       \/ Fault /\ UNCHANGED desired
    /\ scale' = IdleScaler
    /\ UNCHANGED <<reg, reservation, cluster, zombie>>

\* getInstancesInAutoscalingGroup keeps what is pending or protected.  Capacity above the
\* desired one counts as free.
ReadInstances ==
    /\ scale.pc = "down"
    /\ LET members == {i \in InGroup : inst[i].protected}
           over == TotalWeight(members) - desired
           allowed == scale.allowed + (IF over > 0 THEN Spare(EmptyResources(over)) ELSE 0)
       IN scale' = IF allowed = 0 THEN IdleScaler
                   ELSE [IdleScaler EXCEPT !.pc = "instances", !.members = members, !.allowed = allowed]
    /\ UNCHANGED <<reg, reservation, cluster, desired, zombie, faults>>

\* Container instances that are ACTIVE, idle and past the cooldown.
Pick ==
    /\ scale.pc = "instances"
    /\ \E listed \in SUBSET Active :
          /\ ListContainerInstances(listed)
          /\ LET eligible == {i \in listed \cap scale.members : inst[i].state = "settled" /\ Idle(i)}
                 current == TotalWeight(scale.members)
             IN \E candidates \in Candidates(eligible, scale.allowed) :
                \E victims \in Victims(candidates, current) :
                   scale' = IF victims = {} THEN IdleScaler
                            ELSE [IdleScaler EXCEPT
                                     !.pc = "drain",
                                     !.victims = victims,
                                     !.target = Max({current - TotalWeight(victims), 0})]
    /\ UNCHANGED <<reg, reservation, cluster, desired, zombie>>

\* UpdateContainerInstancesState.  An instance that is gone fails the call.
Drain ==
    /\ scale.pc = "drain"
    /\ \/ /\ scale.victims \subseteq Active
          /\ inst' = [i \in Instances |-> IF i \in scale.victims
                                          THEN [inst[i] EXCEPT !.state = "draining"]
                                          ELSE inst[i]]
          /\ scale' = [IdleScaler EXCEPT !.pc = "unprotect", !.victims = scale.victims, !.target = scale.target]
          /\ UNCHANGED faults
       \/ /\ \/ ~(scale.victims \subseteq Active) /\ UNCHANGED faults
             \/ Fault
          /\ scale' = IdleScaler
          /\ UNCHANGED inst
    /\ UNCHANGED <<reg, reservation, task, host, desired, zombie, killed, exposed>>

\* SetInstanceProtection, and the end of the pass when the desired capacity stays.
Unprotect ==
    /\ scale.pc = "unprotect"
    /\ \/ /\ scale.victims \subseteq InGroup
          /\ inst' = [i \in Instances |-> IF i \in scale.victims
                                          THEN [inst[i] EXCEPT !.protected = FALSE]
                                          ELSE inst[i]]
          /\ scale' = IF scale.target >= desired THEN IdleScaler
                      ELSE [IdleScaler EXCEPT !.pc = "lowering", !.target = scale.target]
          /\ UNCHANGED faults
       \/ /\ \/ ~(scale.victims \subseteq InGroup) /\ UNCHANGED faults
             \/ Fault
          /\ scale' = IdleScaler
          /\ UNCHANGED inst
    /\ UNCHANGED <<reg, reservation, task, host, desired, zombie, killed, exposed>>

Lower ==
    /\ scale.pc = "lowering"
    /\ \/ desired' = scale.target /\ UNCHANGED faults
       \/ Fault /\ UNCHANGED desired
    /\ scale' = IdleScaler
    /\ UNCHANGED <<reg, reservation, cluster, zombie>>

-----------------------------------------------------------------------------
(* StopEc2ZombieInstances *)

\* A plausible bug: an instance that is draining counts as one in the cluster.
ListWithDraining ==
    /\ zombie.pc = "idle"
    /\ zombie' = [pc |-> "listed", active |-> {i \in InGroup : inst[i].state # "booting"}]
    /\ UNCHANGED <<reg, reservation, cluster, desired, scale, faults>>

\* The ACTIVE container instances; what runs on those a broken-off list hides is then at stake.
ListActive ==
    /\ zombie.pc = "idle"
    /\ \E listed \in SUBSET Active :
          /\ ListContainerInstances(listed)
          /\ zombie' = [pc |-> "listed", active |-> listed]
          /\ exposed' = exposed \cup UNION {OnInstance(i) : i \in Active \ listed}
    /\ UNCHANGED <<reg, reservation, task, host, inst, desired, scale, killed>>

\* Instances that have been up for long and were not in the list are stopped, and replaced:
\* the desired capacity stays.  To come between two calls of AdjustCapacity about the same
\* instance is a coincidence for a loop of ten minutes, and counted as a fault.
StopZombies ==
    /\ zombie.pc = "listed"
    /\ LET zombies == {i \in InGroup \ zombie.active : inst[i].late}
       IN /\ Stop(zombies)
          /\ IF scale.victims \cap zombies = {} THEN UNCHANGED faults ELSE Fault
    /\ zombie' = IdleZombies
    /\ UNCHANGED <<reg, reservation, desired, scale, exposed>>

\* The scaler is killed and started again.
ScalerCrash ==
    /\ scale.pc # "idle"
    /\ Fault
    /\ scale' = IdleScaler
    /\ zombie' = IdleZombies
    /\ UNCHANGED <<reg, reservation, cluster, desired>>

-----------------------------------------------------------------------------
Start(s) ==
    \/ Arrive(s) \/ RunTask(s) \/ RunTaskRefused(s) \/ AddEntity(s) \/ Retry(s) \/ GiveUp(s)
    \/ FlushResources(s) \/ RouterCrash(s)

Ecs(s) == TaskRuns(s) \/ TaskEnds(s) \/ \E i \in Instances : Place(s, i)

Group(i) == Launch(i) \/ Register(i) \/ Settle(i) \/ GrowLate(i) \/ ScaleIn(i)

AdjustCapacity == ReadTasks \/ Decide \/ Raise \/ ReadInstances \/ Pick \/ Drain \/ Unprotect \/ Lower

ZombieLoop == ListActive \/ StopZombies

Next ==
    \/ \E s \in Starts : Start(s) \/ Ecs(s)
    \/ \E i \in Instances : Group(i)
    \/ AdjustCapacity \/ ZombieLoop \/ ScalerCrash

Spec == Init /\ [][Next]_vars

Fairness ==
    /\ \A s \in Starts :
          /\ WF_vars(RunTask(s) \/ RunTaskRefused(s) \/ Retry(s))
          /\ WF_vars(AddEntity(s) \/ FlushResources(s))
          /\ WF_vars(TaskRuns(s) \/ (task[s] = "running" /\ TaskEnds(s)) \/ \E i \in Instances : Place(s, i))
    /\ WF_vars(\E i \in Instances : Launch(i))
    /\ \A i \in Instances : WF_vars(Register(i) \/ Settle(i) \/ GrowLate(i) \/ ScaleIn(i))
    /\ WF_vars(AdjustCapacity)
    /\ WF_vars(ZombieLoop)

FairSpec == Spec /\ Fairness

-----------------------------------------------------------------------------
(* Properties *)

\* A task is lost with its instance only if a loop could not have seen it: it was placed between the
\* look at the instance and the decision that followed from it, or a list of container instances broke
\* off before it (ScaleDown, StopEc2ZombieInstances).
OnlyExposedTasksAreKilled == killed \subseteq exposed

\* Whatever the weights, the reserve and the races, the group is never asked for less than its minimum or
\* more than its maximum, which the autoscaling service would refuse (ScaleUp, ScaleDown).
DesiredWithinGroup == desired \in MinSize..MaxSize

\* An entity whose pipeline failed is not written again, however long its start waits.
Forgotten(s) == entity[s] = "set" /\ batch[s] = "none" /\ s \notin stored

\* A start that waits for capacity gets an instance, or gives up, unless its reservation was lost: the
\* reservation makes the scaler raise the capacity, from an empty group if need be, and a pass that failed
\* half-way, which leaves drained instances in the group, is made good by the loop that stops instances
\* outside the cluster.
EveryStartIsPlaced == []<>(\A s \in Starts : Waiting(s) => Forgotten(s))

\* A start that is over reserves nothing, unless its router died, its goroutine was late or a pipeline
\* failed (RemoveEntity follows AddEntity).
Over(s) == reg[s] \in {"registered", "failed"}

ReservationIsReleased == []<>(faults > 0 \/ \A s \in Starts : Over(s) => s \notin stored)

Quiet ==
    /\ stored = {}
    /\ \A s \in Starts : /\ reg[s] \in {"new", "registered", "failed"}
                         /\ task[s] \in {"none", "stopped"}
                         /\ batch[s] # "add" /\ entity[s] # "spawned"

Released == \A i \in InGroup : TotalWeight(InGroup \ {i}) < MinSize

\* When nothing runs and nothing waits, the group shrinks until no instance can be spared
\* (ScaleDown and its reserve).
IdleCapacityIsReleased == <>[]Quiet => <>[]Released
=============================================================================
