----------------------- MODULE PlaywrightRefresh_proofs -----------------------
(****************************************************************************)
(* What the refreshes of a Playwright session keep, for any number of them, *)
(* any settings, limits and number of faults:                               *)
(*                                                                          *)
(*  - RefreshesExclude, StoppedIsFinal: refreshes exclude each other, and   *)
(*    nothing brings a stopped session back;                                *)
(*  - RecordFollowsBrowser: once every refresh has ended with an outcome    *)
(*    that is known, the record has the settings of the browser that runs   *)
(*    and the child ids that were handed out;                               *)
(*  - ArtifactsResolve: as long as the task may live no longer than the     *)
(*    keys of its children, what is recorded of it can be found;            *)
(*  - RecordingResumes: without failed calls, a session that nobody stops   *)
(*    is recorded again after each refresh;                                 *)
(*  - HeartbeatHolds: without failed calls, the idle loop does not take a   *)
(*    session that is being refreshed for an idle one.                      *)
(*                                                                          *)
(* The exclusion is an argument about time: as long as a refresh goes on,   *)
(* its lock has more left than the steps ahead of it may take.  That only   *)
(* holds if the recorder answers and the limits add up to less than the TTL *)
(* (LeaseOutlastsRefresh), so that what follows from the exclusion has this *)
(* premise.  The other theorems add an invariant each to Inv: Followed (the *)
(* record lags the browser only inside a refresh), Resolving (a child's key *)
(* has lost no more time than the task has lived, which is enough where     *)
(* ChildOutlivesTask holds), Recorded, and Beating (an age of the last      *)
(* access that the next heartbeat comes in time for).                       *)
(****************************************************************************)
EXTENDS PlaywrightRefresh, TLAPS

\* The settings under which the TTL of the refresh lock covers the longest refresh.
LeaseOutlastsRefresh ==
    RecorderAnswers /\ SwapLimit + RotateLimit + RecordLimit < LockTTL

\* What is ahead of a refresh, at most.
Remaining(r) ==
    CASE ref[r].pc = "swap"   -> SwapLimit + RotateLimit + RecordLimit - ref[r].elapsed
      [] ref[r].pc = "child"  -> RotateLimit + RecordLimit
      [] ref[r].pc = "rotate" -> RotateLimit + RecordLimit - ref[r].elapsed
      [] ref[r].pc = "record" -> RecordLimit - ref[r].elapsed
      [] OTHER                -> 0

Leased ==
    \A r \in Requests :
        InProgress(r) => /\ ref[r].elapsed <= Limit(ref[r].pc)
                         /\ LeaseOutlastsRefresh => lock.owner = r /\ lock.left > Remaining(r)

\* An update whose WATCH is intact has read the record as it is.
Watched ==
    \A r \in Requests :
        /\ <<r, "persist">> \in watching => ref[r].pc = "exec" /\ ref[r].seen = rec
        /\ <<r, "heartbeat">> \in watching => hb[r].pc = "exec" /\ hb[r].seen = rec

\* The heartbeat starts with the lock.
Unstarted ==
    \A r \in Requests : ref[r].pc \in {"arrive", "touch", "lock"} => hb[r].pc = "off"

Inv == /\ TypeOK
       /\ Unstarted
       /\ Leased
       /\ Watched

-----------------------------------------------------------------------------
(* Types *)

Pc == {"arrive", "touch", "lock", "swap", "child", "rotate", "record", "persist", "exec",
       "release", "done"}
Outcome == {"none", "ok", "refused", "doubtful"}
HeartbeatPc == {"off", "wait", "retry", "exec", "gaveUp"}

\* The records the actions store.
LEMMA RecordType ==
    /\ Active \in Record /\ Active.status = "active"
    /\ Absent \in Record /\ Absent.status = "absent"
    /\ \A e \in Record : /\ [e EXCEPT !.unused = 0] \in Record
                         /\ [e EXCEPT !.status = "stopped"] \in Record
  BY RefreshAssumption DEF OriginalConfig, Config, Active, Absent, Record

\* A refresh's change of the configuration is a configuration.
LEMMA ChangedType == ASSUME NEW r \in Requests, NEW cfg \in Config
                     PROVE  Changed(r, cfg) \in Config
  BY DEF Changed, Config

\* A request after each kind of step.
LEMMA RefreshType ==
    ASSUME NEW old \in Refresh, NEW pc \in Pc, NEW outcome \in Outcome
    PROVE  /\ [old EXCEPT !.pc = pc] \in Refresh
           /\ [old EXCEPT !.pc = pc, !.outcome = outcome] \in Refresh
           /\ [old EXCEPT !.pc = pc, !.elapsed = 0] \in Refresh
           /\ [old EXCEPT !.pc = pc, !.elapsed = 0, !.seen = Absent, !.outcome = outcome] \in Refresh
           /\ [old EXCEPT !.pc = pc, !.child = TRUE] \in Refresh
           /\ \A e \in Record : [old EXCEPT !.pc = pc, !.seen = e] \in Refresh
           /\ \A n \in Attempt : [old EXCEPT !.pc = pc, !.try = n, !.seen = Absent] \in Refresh
           /\ \A n \in 0 .. LongestStep : [old EXCEPT !.elapsed = n] \in Refresh
  <1>1. 0 \in 0 .. LongestStep /\ Absent \in Record
    BY RefreshAssumption, RecordType DEF LongestStep
  <1>2. pc \in Steps \cup {"arrive", "touch", "lock", "release", "done"}
    BY DEF Pc, Steps, Timed
  <1>3. /\ [old EXCEPT !.pc = pc] \in Refresh
        /\ [old EXCEPT !.pc = pc, !.outcome = outcome] \in Refresh
        /\ [old EXCEPT !.pc = pc, !.child = TRUE] \in Refresh
    BY <1>2 DEF Refresh, Outcome
  <1>4. /\ [old EXCEPT !.pc = pc, !.elapsed = 0] \in Refresh
        /\ [old EXCEPT !.pc = pc, !.elapsed = 0, !.seen = Absent, !.outcome = outcome] \in Refresh
    BY <1>1, <1>2 DEF Refresh, Outcome
  <1>5. /\ \A e \in Record : [old EXCEPT !.pc = pc, !.seen = e] \in Refresh
        /\ \A n \in Attempt : [old EXCEPT !.pc = pc, !.try = n, !.seen = Absent] \in Refresh
        /\ \A n \in 0 .. LongestStep : [old EXCEPT !.elapsed = n] \in Refresh
    BY <1>1, <1>2 DEF Refresh
  <1> QED
    BY <1>3, <1>4, <1>5

\* The steps of the refreshes keep the states of the refreshes of their type.
LEMMA RefType ==
    ASSUME TypeOK, NEW r \in Requests, NEW pc \in Pc, NEW outcome \in Outcome
    PROVE  /\ [ref EXCEPT ![r].pc = pc] \in [Requests -> Refresh]
           /\ [ref EXCEPT ![r].pc = pc, ![r].outcome = outcome] \in [Requests -> Refresh]
           /\ [ref EXCEPT ![r].pc = pc, ![r].child = TRUE] \in [Requests -> Refresh]
           /\ [ref EXCEPT ![r].pc = pc, ![r].seen = rec] \in [Requests -> Refresh]
           /\ [ref EXCEPT ![r].pc = pc, ![r].elapsed = 0, ![r].seen = Absent,
                          ![r].outcome = outcome] \in [Requests -> Refresh]
           /\ ref[r].try < MaxAttempts =>
                [ref EXCEPT ![r].pc = pc, ![r].try = @ + 1, ![r].seen = Absent]
                    \in [Requests -> Refresh]
           /\ GoTo(r, pc) => ref' \in [Requests -> Refresh]
           /\ Leave(r, outcome) => ref' \in [Requests -> Refresh]
  <1>1. ref \in [Requests -> Refresh] /\ ref[r] \in Refresh /\ rec \in Record
    BY DEF TypeOK
  <1>2. [ref EXCEPT ![r] = [ref[r] EXCEPT !.pc = pc]] \in [Requests -> Refresh]
    BY <1>1, RefreshType
  <1>3. [ref EXCEPT ![r] = [ref[r] EXCEPT !.pc = pc, !.outcome = outcome]] \in [Requests -> Refresh]
    BY <1>1, RefreshType
  <1>4. [ref EXCEPT ![r] = [ref[r] EXCEPT !.pc = pc, !.child = TRUE]] \in [Requests -> Refresh]
    BY <1>1, RefreshType
  <1>5. [ref EXCEPT ![r] = [ref[r] EXCEPT !.pc = pc, !.seen = rec]] \in [Requests -> Refresh]
    BY <1>1, RefreshType
  <1>6. [ref EXCEPT ![r] = [ref[r] EXCEPT !.pc = pc, !.elapsed = 0, !.seen = Absent,
                                          !.outcome = outcome]] \in [Requests -> Refresh]
    BY <1>1, RefreshType
  <1>7. ASSUME ref[r].try < MaxAttempts
        PROVE  [ref EXCEPT ![r] = [ref[r] EXCEPT !.pc = pc, !.try = ref[r].try + 1, !.seen = Absent]]
                   \in [Requests -> Refresh]
    <2>1. ref[r].try + 1 \in Attempt
      BY <1>1, <1>7, RefreshAssumption DEF Refresh, Attempt
    <2> QED
      BY <1>1, <2>1, RefreshType
  <1>8. [ref EXCEPT ![r] = [ref[r] EXCEPT !.pc = pc, !.elapsed = 0]] \in [Requests -> Refresh]
    BY <1>1, RefreshType
  <1>9. [ref EXCEPT ![r] = [ref[r] EXCEPT !.pc = "release", !.elapsed = 0, !.seen = Absent,
                                          !.outcome = outcome]] \in [Requests -> Refresh]
    BY <1>1, RefreshType DEF Pc
  <1>10. GoTo(r, pc) => ref' \in [Requests -> Refresh]
    BY <1>8 DEF GoTo
  <1>11. Leave(r, outcome) => ref' \in [Requests -> Refresh]
    BY <1>9 DEF Leave
  <1>12. [ref EXCEPT ![r].pc = pc] \in [Requests -> Refresh]
    BY <1>2
  <1>13. [ref EXCEPT ![r].pc = pc, ![r].outcome = outcome] \in [Requests -> Refresh]
    BY <1>3
  <1>14. [ref EXCEPT ![r].pc = pc, ![r].child = TRUE] \in [Requests -> Refresh]
    BY <1>4
  <1>15. [ref EXCEPT ![r].pc = pc, ![r].seen = rec] \in [Requests -> Refresh]
    BY <1>5
  <1>16. [ref EXCEPT ![r].pc = pc, ![r].elapsed = 0, ![r].seen = Absent,
                     ![r].outcome = outcome] \in [Requests -> Refresh]
    BY <1>6
  <1>17. ref[r].try < MaxAttempts =>
           [ref EXCEPT ![r].pc = pc, ![r].try = @ + 1, ![r].seen = Absent] \in [Requests -> Refresh]
    BY <1>7
  <1> QED
    BY <1>10, <1>11, <1>12, <1>13, <1>14, <1>15, <1>16, <1>17

\* Likewise for the heartbeats.
LEMMA HeartbeatType ==
    ASSUME TypeOK, NEW r \in Requests, NEW pc \in HeartbeatPc
    PROVE  /\ [hb EXCEPT ![r].pc = pc] \in [Requests -> Heartbeat]
           /\ [hb EXCEPT ![r].pc = pc, ![r].due = FALSE] \in [Requests -> Heartbeat]
           /\ [hb EXCEPT ![r].pc = pc, ![r].due = FALSE, ![r].seen = rec] \in [Requests -> Heartbeat]
           /\ hb[r].try < MaxAttempts =>
                [hb EXCEPT ![r].pc = pc, ![r].try = @ + 1, ![r].seen = Absent]
                    \in [Requests -> Heartbeat]
           /\ HeartbeatIs(r, pc) => hb' \in [Requests -> Heartbeat]
           /\ StopHeartbeat(r) => hb' \in [Requests -> Heartbeat]
  <1>1. hb \in [Requests -> Heartbeat] /\ hb[r] \in Heartbeat /\ rec \in Record /\ Absent \in Record
    BY RecordType DEF TypeOK
  <1>2. 1 \in Attempt /\ hb[r].try \in Attempt
    BY <1>1, RefreshAssumption DEF Attempt, Heartbeat
  <1>3. \A old \in Heartbeat, p \in HeartbeatPc, n \in Attempt :
           /\ [old EXCEPT !.pc = p] \in Heartbeat
           /\ [old EXCEPT !.pc = p, !.due = FALSE] \in Heartbeat
           /\ [old EXCEPT !.pc = p, !.due = FALSE, !.seen = rec] \in Heartbeat
           /\ [old EXCEPT !.pc = p, !.try = n, !.seen = Absent] \in Heartbeat
           /\ [pc |-> p, due |-> FALSE, try |-> n, seen |-> Absent] \in Heartbeat
    BY <1>1 DEF Heartbeat, HeartbeatPc
  <1>4. [hb EXCEPT ![r] = [hb[r] EXCEPT !.pc = pc]] \in [Requests -> Heartbeat]
    BY <1>1, <1>2, <1>3
  <1>5. \A p \in HeartbeatPc : [hb EXCEPT ![r] = [hb[r] EXCEPT !.pc = p, !.due = FALSE]]
           \in [Requests -> Heartbeat]
    BY <1>1, <1>2, <1>3
  <1>6. [hb EXCEPT ![r] = [hb[r] EXCEPT !.pc = pc, !.due = FALSE, !.seen = rec]]
           \in [Requests -> Heartbeat]
    BY <1>1, <1>2, <1>3
  <1>7. ASSUME hb[r].try < MaxAttempts
        PROVE  [hb EXCEPT ![r] = [hb[r] EXCEPT !.pc = pc, !.try = hb[r].try + 1, !.seen = Absent]]
                   \in [Requests -> Heartbeat]
    <2>1. hb[r].try + 1 \in Attempt
      BY <1>2, <1>7, RefreshAssumption DEF Attempt
    <2> QED
      BY <1>1, <1>3, <2>1
  <1>8. [hb EXCEPT ![r] = [pc |-> pc, due |-> FALSE, try |-> 1, seen |-> Absent]]
            \in [Requests -> Heartbeat]
    BY <1>1, <1>2, <1>3
  <1>9. HeartbeatIs(r, pc) => hb' \in [Requests -> Heartbeat]
    BY <1>8 DEF HeartbeatIs
  <1>10. [hb EXCEPT ![r].pc = "off", ![r].due = FALSE] \in [Requests -> Heartbeat]
    BY <1>5 DEF HeartbeatPc
  <1>11. StopHeartbeat(r) => hb' \in [Requests -> Heartbeat]
    BY <1>1, <1>10 DEF StopHeartbeat
  <1>12. [hb EXCEPT ![r].pc = pc] \in [Requests -> Heartbeat]
    BY <1>4
  <1>13. [hb EXCEPT ![r].pc = pc, ![r].due = FALSE] \in [Requests -> Heartbeat]
    BY <1>5
  <1>14. [hb EXCEPT ![r].pc = pc, ![r].due = FALSE, ![r].seen = rec] \in [Requests -> Heartbeat]
    BY <1>6
  <1>15. hb[r].try < MaxAttempts =>
           [hb EXCEPT ![r].pc = pc, ![r].try = @ + 1, ![r].seen = Absent] \in [Requests -> Heartbeat]
    BY <1>7
  <1> QED
    BY <1>9, <1>11, <1>12, <1>13, <1>14, <1>15

\* Likewise for the routes and loops that stop the session.
LEMMA StopperType ==
    ASSUME TypeOK, NEW p \in Stoppers
    PROVE  /\ \A pc \in {"watch", "stop", "write", "expire", "force", "done"} :
                 [stopper EXCEPT ![p].pc = pc] \in [Stoppers -> Stopper]
           /\ \A overdue \in BOOLEAN : BeginStop(p, overdue) => stopper' \in [Stoppers -> Stopper]
           /\ StopperEnds(p) => stopper' \in [Stoppers -> Stopper]
           /\ StopTaskFails(p) => stopper' \in [Stoppers -> Stopper]
  <1>1. stopper \in [Stoppers -> Stopper] /\ stopper[p] \in Stopper /\ rec \in Record
    BY DEF TypeOK
  <1>2. \A old \in Stopper, pc \in {"watch", "stop", "write", "expire", "force", "done"} :
           [old EXCEPT !.pc = pc] \in Stopper
    BY DEF Stopper
  <1>3. \A pc \in {"watch", "stop", "write", "expire", "force", "done"} :
           [stopper EXCEPT ![p] = [stopper[p] EXCEPT !.pc = pc]] \in [Stoppers -> Stopper]
    BY <1>1, <1>2
  <1>4. \A pc \in {"watch", "stop", "write", "expire", "force", "done"} :
           [stopper EXCEPT ![p].pc = pc] \in [Stoppers -> Stopper]
    BY <1>3
  <1>5. \A overdue \in BOOLEAN :
           [pc |-> "stop", snap |-> [rec EXCEPT !.unused = 0], overdue |-> overdue] \in Stopper
    BY <1>1, RecordType DEF Stopper
  <1>6. \A overdue \in BOOLEAN : BeginStop(p, overdue) => stopper' \in [Stoppers -> Stopper]
    BY <1>1, <1>5 DEF BeginStop
  <1>7. StopperEnds(p) => stopper' \in [Stoppers -> Stopper]
    BY <1>1, RecordType DEF StopperEnds, Stopper
  <1>8. StopTaskFails(p) => stopper' \in [Stoppers -> Stopper]
    BY <1>4, <1>7 DEF StopTaskFails
  <1> QED
    BY <1>4, <1>6, <1>7, <1>8

\* The key of a child that is written, or written again.
LEMMA ChildTTLType ==
    ASSUME TypeOK, NEW r \in Requests
    PROVE  [childTTL EXCEPT ![r] = childSessionTTL] \in [Requests -> 0 .. ConfMaxTimeout + ChildGrace]
  <1>1. childSessionTTL \in 0 .. ConfMaxTimeout + ChildGrace
    BY RefreshAssumption DEF childSessionTTL
  <1> QED
    BY <1>1 DEF TypeOK

\* The helpers that write the record, and the settings of a browser.
LEMMA StoreType ==
    ASSUME TypeOK
    PROVE  /\ \A e \in Record : Store(e) => rec' \in Record /\ watching' = {}
           /\ Touch => rec' \in Record /\ watching' \in {watching, {}}
           /\ \A r \in Requests : Changed(r, browser) \in Config
           /\ \A r \in Requests : ref[r].seen \in Record /\ hb[r].seen \in Record
           /\ \A r \in Requests : Refreshed(r) \in Record
  <1>1. rec \in Record /\ browser \in Config /\ ref \in [Requests -> Refresh]
        /\ hb \in [Requests -> Heartbeat]
    BY DEF TypeOK
  <1>2. \A e \in Record : Store(e) => rec' \in Record /\ watching' = {}
    BY DEF Store
  <1>3. Touch => rec' \in Record /\ watching' \in {watching, {}}
    BY <1>1, RecordType DEF Touch, Store
  <1>4. \A r \in Requests : ref[r].seen \in Record /\ hb[r].seen \in Record
    BY <1>1 DEF Refresh, Heartbeat
  <1>5. ASSUME NEW r \in Requests PROVE Refreshed(r) \in Record
    <2>1. ref[r].seen \in Record /\ Changed(r, ref[r].seen.cfg) \in Config
      BY <1>4, ChangedType DEF Record
    <2>2. 0 \in 0 .. IdleTimeout + 1
      BY RefreshAssumption
    <2> QED
      BY <2>1, <2>2 DEF Refreshed, Record
  <1> QED
    BY <1>1, <1>2, <1>3, <1>4, <1>5, ChangedType

\* Nothing is under way, nothing is locked or watched.
LEMMA InitInv == Init => Inv
  <1> SUFFICES ASSUME Init PROVE Inv
    OBVIOUS
  <1> USE DEF Init
  <1>1. [pc |-> "arrive", elapsed |-> 0, child |-> FALSE, try |-> 1, seen |-> Absent,
         outcome |-> "none"] \in Refresh
    BY RecordType, RefreshAssumption DEF Refresh, Attempt, LongestStep
  <1>2. [pc |-> "off", due |-> FALSE, try |-> 1, seen |-> Absent] \in Heartbeat
    BY RecordType, RefreshAssumption DEF Heartbeat, Attempt
  <1>3. [pc |-> "watch", snap |-> Absent, overdue |-> FALSE] \in Stopper
    BY RecordType DEF Stopper
  <1>4. lock \in [owner : Requests \cup {Nobody}, left : 0 .. LockTTL] /\ OriginalConfig \in Config
    BY RefreshAssumption DEF Free, OriginalConfig, Config
  <1>5. TypeOK
    BY <1>1, <1>2, <1>3, <1>4, RecordType, RefreshAssumption DEF TypeOK, Updaters
  <1>6. Leased /\ Watched /\ Unstarted
    BY DEF Leased, Watched, Unstarted, InProgress, Steps, Timed
  <1> QED
    BY <1>5, <1>6 DEF Inv

\* Types and leases through the lookup of the session,
LEMMA ArriveInv == ASSUME Inv, NEW r \in Requests, Arrive(r) PROVE Inv'
  <1> USE DEF Inv, Arrive, At, session, task
  <1>1. TypeOK'
    <2>1. ref' \in [Requests -> Refresh]
      BY RefType DEF Pc, Outcome, TypeOK, Intact
    <2>2. hb' \in [Requests -> Heartbeat]
      BY DEF TypeOK
    <2> QED
      BY <2>1, <2>2, RecordType, StoreType, StopperType, RefreshAssumption DEF TypeOK, Updaters
  <1>2. Leased'
    BY RefreshAssumption
       DEF Leased, InProgress, Steps, Timed, Remaining, LeaseOutlastsRefresh, Limit,
           Refresh, LongestStep, TypeOK
  <1>3. Watched'
    BY DEF Watched, Refresh, Heartbeat, TypeOK
  <1>4. Unstarted'
    BY DEF Unstarted, TypeOK
  <1> QED
    BY <1>1, <1>2, <1>3, <1>4

\* through the touch that comes before every refresh,
LEMMA UpdateLastAccessTimeInv == ASSUME Inv, NEW r \in Requests, UpdateLastAccessTime(r) PROVE Inv'
  <1> USE DEF Inv, UpdateLastAccessTime, At, session, task
  <1>1. TypeOK'
    <2>1. ref' \in [Requests -> Refresh]
      BY RefType DEF Pc, Outcome, TypeOK, Intact
    <2>2. hb' \in [Requests -> Heartbeat]
      BY DEF TypeOK
    <2> QED
      BY <2>1, <2>2, RecordType, StoreType, StopperType, RefreshAssumption DEF TypeOK, Fault
  <1>2. Leased'
    BY RefreshAssumption
       DEF Leased, InProgress, Steps, Timed, Remaining, LeaseOutlastsRefresh, Limit,
           Refresh, LongestStep, TypeOK, GoTo, Touch, Store, Fault
  <1>3. Watched'
    BY DEF Watched, Refresh, Heartbeat, TypeOK, GoTo, Touch, Store, Fault
  <1>4. Unstarted'
    BY DEF Unstarted, TypeOK, GoTo, Touch, Store, Fault
  <1> QED
    BY <1>1, <1>2, <1>3, <1>4

\* through SET NX: the owner's lease starts whole and its first step at no time,
LEMMA AcquireInv == ASSUME Inv, NEW r \in Requests, Acquire(r) PROVE Inv'
  <1> USE DEF Inv, Acquire, At, session, task
  <1>1. TypeOK'
    <2>1. ref' \in [Requests -> Refresh]
      BY RefType DEF Pc, Outcome, TypeOK, Intact
    <2>2. hb' \in [Requests -> Heartbeat]
      BY HeartbeatType DEF HeartbeatPc, TypeOK
    <2> QED
      BY <2>1, <2>2, RecordType, StoreType, StopperType, RefreshAssumption DEF TypeOK, Updaters
  <1>2. Leased'
    BY RefreshAssumption
       DEF Leased, InProgress, Steps, Timed, Remaining, LeaseOutlastsRefresh, Limit,
           Refresh, LongestStep, TypeOK, GoTo
  <1>3. Watched'
    BY DEF Watched, Unstarted, Refresh, Heartbeat, TypeOK, GoTo
  <1>4. Unstarted'
    BY DEF Unstarted, TypeOK, GoTo
  <1> QED
    BY <1>1, <1>2, <1>3, <1>4

\* through a refused SET NX,
LEMMA AcquireRefusedInv == ASSUME Inv, NEW r \in Requests, AcquireRefused(r) PROVE Inv'
  <1> USE DEF Inv, AcquireRefused, At, session, task
  <1>1. TypeOK'
    <2>1. ref' \in [Requests -> Refresh]
      BY RefType DEF Pc, Outcome, TypeOK, Intact
    <2>2. hb' \in [Requests -> Heartbeat]
      BY DEF TypeOK
    <2>3. faults' \in 0 .. MaxFaults
      BY RefreshAssumption DEF TypeOK, Fault
    <2>4. lock' \in [owner : Requests \cup {Nobody}, left : 0 .. LockTTL]
      BY RefreshAssumption DEF TypeOK
    <2> QED
      BY <2>1, <2>2, <2>3, <2>4 DEF TypeOK
  <1>2. Leased'
    BY RefreshAssumption
       DEF Leased, InProgress, Steps, Timed, Remaining, LeaseOutlastsRefresh, Limit,
           Refresh, LongestStep, TypeOK, Fault
  <1>3. Watched'
    BY DEF Watched, Refresh, Heartbeat, TypeOK, Fault
  <1>4. Unstarted'
    BY DEF Unstarted, TypeOK, Fault
  <1> QED
    BY <1>1, <1>2, <1>3, <1>4

\* through the compare-and-delete of the lock, by whoever ends its refresh,
LEMMA ReleaseInv == ASSUME Inv, NEW r \in Requests, Release(r) PROVE Inv'
  <1> USE DEF Inv, Release, At, session, task
  <1>1. TypeOK'
    <2>1. ref' \in [Requests -> Refresh]
      BY RefType DEF Pc, Outcome, TypeOK, Intact
    <2>2. hb' \in [Requests -> Heartbeat]
      BY DEF TypeOK
    <2> QED
      BY <2>1, <2>2, RecordType, StoreType, StopperType, RefreshAssumption
         DEF TypeOK, Updaters, Released, Fault, Free
  <1>2. Leased'
    BY RefreshAssumption
       DEF Leased, InProgress, Steps, Timed, Remaining, LeaseOutlastsRefresh, Limit,
           Refresh, LongestStep, TypeOK, Released, GoTo, Fault, Free
  <1>3. Watched'
    BY DEF Watched, Refresh, Heartbeat, TypeOK, Released, GoTo, Fault, Free
  <1>4. Unstarted'
    BY DEF Unstarted, TypeOK, Released, GoTo, Fault, Free
  <1> QED
    BY <1>1, <1>2, <1>3, <1>4

\* through the supervisor's change of the browser,
LEMMA SupervisorTakesInv == ASSUME Inv, NEW r \in Requests, SupervisorTakes(r) PROVE Inv'
  <1> USE DEF Inv, SupervisorTakes, At, session, task
  <1>1. TypeOK'
    <2>1. ref' \in [Requests -> Refresh]
      BY DEF TypeOK
    <2>2. hb' \in [Requests -> Heartbeat]
      BY DEF TypeOK
    <2> QED
      BY <2>1, <2>2, RecordType, StoreType, StopperType, RefreshAssumption DEF TypeOK, Updaters
  <1>2. Leased'
    BY RefreshAssumption
       DEF Leased, InProgress, Steps, Timed, Remaining, LeaseOutlastsRefresh, Limit,
           Refresh, LongestStep, TypeOK
  <1>3. Watched'
    BY DEF Watched, Refresh, Heartbeat, TypeOK
  <1>4. Unstarted'
    BY DEF Unstarted, TypeOK
  <1> QED
    BY <1>1, <1>2, <1>3, <1>4

\* through its refusal,
LEMMA SwapRefusedInv == ASSUME Inv, NEW r \in Requests, SwapRefused(r) PROVE Inv'
  <1> USE DEF Inv, SwapRefused, At, session, task
  <1>1. TypeOK'
    <2>1. ref' \in [Requests -> Refresh]
      BY RefType DEF Pc, Outcome, TypeOK, Intact
    <2>2. hb' \in [Requests -> Heartbeat]
      BY HeartbeatType DEF HeartbeatPc, TypeOK
    <2> QED
      BY <2>1, <2>2, RecordType, StoreType, StopperType, RefreshAssumption DEF TypeOK, Updaters
  <1>2. Leased'
    BY RefreshAssumption
       DEF Leased, InProgress, Steps, Timed, Remaining, LeaseOutlastsRefresh, Limit,
           Refresh, LongestStep, TypeOK, Leave, StopHeartbeat
  <1>3. Watched'
    BY DEF Watched, Refresh, Heartbeat, TypeOK, Leave, StopHeartbeat
  <1>4. Unstarted'
    BY DEF Unstarted, TypeOK, Leave, StopHeartbeat
  <1> QED
    BY <1>1, <1>2, <1>3, <1>4

\* through its answer: what is ahead is the rotation and the recorder,
LEMMA SupervisorDoneInv == ASSUME Inv, NEW r \in Requests, SupervisorDone(r) PROVE Inv'
  <1> USE DEF Inv, SupervisorDone, At, session, task
  <1>1. TypeOK'
    <2>1. ref' \in [Requests -> Refresh]
      BY RefType DEF Pc, Outcome, TypeOK, Intact
    <2>2. hb' \in [Requests -> Heartbeat]
      BY HeartbeatType DEF HeartbeatPc, TypeOK
    <2> QED
      BY <2>1, <2>2, RecordType, StoreType, StopperType, RefreshAssumption DEF TypeOK, Updaters, Fault
  <1>2. Leased'
    BY RefreshAssumption
       DEF Leased, InProgress, Steps, Timed, Remaining, LeaseOutlastsRefresh, Limit,
           Refresh, LongestStep, TypeOK, GoTo, Leave, StopHeartbeat, Fault
  <1>3. Watched'
    <2>1. CASE At(r, "swap")
      <3>1. \A s \in Requests :
               /\ ref[s].pc = "exec" => ref'[s] = ref[s]
               /\ hb[s].pc = "exec" => hb'[s] = hb[s]
        BY <2>1 DEF TypeOK, GoTo, Leave, StopHeartbeat, Refresh
      <3> QED
        BY <3>1 DEF Watched
    <2>2. CASE ~At(r, "swap")
      BY <2>2 DEF Watched
    <2> QED
      BY <2>1, <2>2
  <1>4. Unstarted'
    <2>1. \A s \in Requests :
             ref'[s].pc \in {"arrive", "touch", "lock"} => ref'[s] = ref[s] /\ hb'[s] = hb[s]
      <3>1. CASE At(r, "swap")
        BY <3>1 DEF TypeOK, GoTo, Leave, StopHeartbeat, Refresh
      <3>2. CASE ~At(r, "swap")
        BY <3>2 DEF TypeOK
      <3> QED
        BY <3>1, <3>2
    <2> QED
      BY <2>1 DEF Unstarted
  <1> QED
    BY <1>1, <1>2, <1>3, <1>4

\* through the client's timeout,
LEMMA SwapGivenUpInv == ASSUME Inv, NEW r \in Requests, SwapGivenUp(r) PROVE Inv'
  <1> USE DEF Inv, SwapGivenUp, At, session, task
  <1>1. TypeOK'
    <2>1. ref' \in [Requests -> Refresh]
      BY RefType DEF Pc, Outcome, TypeOK, Intact
    <2>2. hb' \in [Requests -> Heartbeat]
      BY HeartbeatType DEF HeartbeatPc, TypeOK
    <2> QED
      BY <2>1, <2>2, RecordType, StoreType, StopperType, RefreshAssumption DEF TypeOK, Updaters
  <1>2. Leased'
    BY RefreshAssumption
       DEF Leased, InProgress, Steps, Timed, Remaining, LeaseOutlastsRefresh, Limit,
           Refresh, LongestStep, TypeOK, Leave, StopHeartbeat
  <1>3. Watched'
    BY DEF Watched, Refresh, Heartbeat, TypeOK, Leave, StopHeartbeat
  <1>4. Unstarted'
    BY DEF Unstarted, TypeOK, Leave, StopHeartbeat
  <1> QED
    BY <1>1, <1>2, <1>3, <1>4

\* through the write of the child record,
LEMMA WriteChildInv == ASSUME Inv, NEW r \in Requests, WriteChild(r) PROVE Inv'
  <1> USE DEF Inv, WriteChild, At, session, task
  <1>1. TypeOK'
    <2>1. ref' \in [Requests -> Refresh]
      BY RefType DEF Pc, Outcome, TypeOK, Intact
    <2>2. hb' \in [Requests -> Heartbeat]
      BY DEF TypeOK
    <2>3. childTTL' \in [Requests -> 0 .. ConfMaxTimeout + ChildGrace]
      BY ChildTTLType DEF TypeOK
    <2> QED
      BY <2>1, <2>2, <2>3 DEF TypeOK
  <1>2. Leased'
    BY RefreshAssumption
       DEF Leased, InProgress, Steps, Timed, Remaining, LeaseOutlastsRefresh, Limit,
           Refresh, LongestStep, TypeOK, childSessionTTL
  <1>3. Watched'
    BY DEF Watched, Refresh, Heartbeat, TypeOK, childSessionTTL
  <1>4. Unstarted'
    BY DEF Unstarted, TypeOK, childSessionTTL
  <1> QED
    BY <1>1, <1>2, <1>3, <1>4

\* and its failure,
LEMMA WriteChildFailsInv == ASSUME Inv, NEW r \in Requests, WriteChildFails(r) PROVE Inv'
  <1> USE DEF Inv, WriteChildFails, At, session, task
  <1>1. TypeOK'
    <2>1. ref' \in [Requests -> Refresh]
      BY RefType DEF Pc, Outcome, TypeOK, Intact
    <2>2. hb' \in [Requests -> Heartbeat]
      BY HeartbeatType DEF HeartbeatPc, TypeOK
    <2>3. childTTL' \in [Requests -> 0 .. ConfMaxTimeout + ChildGrace]
      BY ChildTTLType DEF TypeOK, WriteChildUncertain
    <2>4. faults' \in 0 .. MaxFaults
      BY RefreshAssumption DEF TypeOK, WriteChildUncertain, Fault
    <2> QED
      BY <2>1, <2>2, <2>3, <2>4 DEF TypeOK
  <1>2. Leased'
    BY RefreshAssumption
       DEF Leased, InProgress, Steps, Timed, Remaining, LeaseOutlastsRefresh, Limit,
           Refresh, LongestStep, TypeOK, WriteChildUncertain, GoTo, StopHeartbeat, Fault,
           childSessionTTL
  <1>3. Watched'
    BY DEF Watched, Refresh, Heartbeat, TypeOK, WriteChildUncertain, GoTo, StopHeartbeat, Fault
  <1>4. Unstarted'
    BY DEF Unstarted, TypeOK, WriteChildUncertain, GoTo, StopHeartbeat, Fault, childSessionTTL
  <1> QED
    BY <1>1, <1>2, <1>3, <1>4

\* through the recorder's rotation: what is ahead is one more call to it,
LEMMA RotateInv == ASSUME Inv, NEW r \in Requests, Rotate(r) PROVE Inv'
  <1> USE DEF Inv, Rotate, At, session, task
  <1>1. TypeOK'
    <2>1. ref' \in [Requests -> Refresh]
      BY RefType DEF Pc, Outcome, TypeOK, Intact
    <2>2. hb' \in [Requests -> Heartbeat]
      BY DEF TypeOK
    <2> QED
      BY <2>1, <2>2, RecordType, StoreType, StopperType, RefreshAssumption DEF TypeOK, Updaters, Rotated
  <1>2. Leased'
    BY RefreshAssumption
       DEF Leased, InProgress, Steps, Timed, Remaining, LeaseOutlastsRefresh, Limit,
           Refresh, LongestStep, TypeOK, Rotated, GoTo
  <1>3. Watched'
    BY DEF Watched, Refresh, Heartbeat, TypeOK, Rotated, GoTo
  <1>4. Unstarted'
    BY DEF Unstarted, TypeOK, Rotated, GoTo
  <1> QED
    BY <1>1, <1>2, <1>3, <1>4

\* and its failure,
LEMMA RotateFailsInv == ASSUME Inv, NEW r \in Requests, RotateFails(r) PROVE Inv'
  <1> USE DEF Inv, RotateFails, At, session, task
  <1>1. TypeOK'
    <2>1. ref' \in [Requests -> Refresh]
      BY RefType DEF Pc, Outcome, TypeOK, Intact
    <2>2. hb' \in [Requests -> Heartbeat]
      BY DEF TypeOK
    <2>3. recorder' \in [scope : Requests \cup {Original}, on : BOOLEAN]
      <3>1. Rotated(r) \in [scope : Requests \cup {Original}, on : BOOLEAN]
        BY DEF Rotated
      <3> QED
        BY <3>1 DEF TypeOK, RotateUncertain
    <2>4. faults' \in 0 .. MaxFaults
      BY RefreshAssumption DEF TypeOK, RotateUncertain, Fault
    <2> QED
      BY <2>1, <2>2, <2>3, <2>4 DEF TypeOK
  <1>2. Leased'
    BY RefreshAssumption
       DEF Leased, InProgress, Steps, Timed, Remaining, LeaseOutlastsRefresh, Limit,
           Refresh, LongestStep, TypeOK, RotateUncertain, Rotated, GoTo, Fault
  <1>3. Watched'
    BY DEF Watched, Refresh, Heartbeat, TypeOK, RotateUncertain, Rotated, GoTo, Fault
  <1>4. Unstarted'
    BY DEF Unstarted, TypeOK, RotateUncertain, Rotated, GoTo, Fault
  <1> QED
    BY <1>1, <1>2, <1>3, <1>4

\* through the recorder's restart: nothing timed is ahead,
LEMMA StartRecordingInv == ASSUME Inv, NEW r \in Requests, StartRecording(r) PROVE Inv'
  <1> USE DEF Inv, StartRecording, At, session, task
  <1>1. TypeOK'
    <2>1. ref' \in [Requests -> Refresh]
      BY RefType DEF Pc, Outcome, TypeOK, Intact
    <2>2. hb' \in [Requests -> Heartbeat]
      BY HeartbeatType DEF HeartbeatPc, TypeOK
    <2>3. faults' \in 0 .. MaxFaults
      BY RefreshAssumption DEF TypeOK, Fault
    <2> QED
      BY <2>1, <2>2, <2>3 DEF TypeOK, Updaters
  <1>2. Leased'
    BY RefreshAssumption
       DEF Leased, InProgress, Steps, Timed, Remaining, LeaseOutlastsRefresh, Limit,
           Refresh, LongestStep, TypeOK, GoTo, StopHeartbeat, Fault
  <1>3. Watched'
    BY DEF Watched, Refresh, Heartbeat, TypeOK, GoTo, StopHeartbeat, Fault
  <1>4. Unstarted'
    BY DEF Unstarted, TypeOK, GoTo, StopHeartbeat, Fault
  <1> QED
    BY <1>1, <1>2, <1>3, <1>4

\* through the read under WATCH, whose copy is the record as it is,
LEMMA PersistReadInv == ASSUME Inv, NEW r \in Requests, PersistRead(r) PROVE Inv'
  <1> USE DEF Inv
  <1>1. /\ UNCHANGED <<rec, childTTL, lock, hb, stopper, supervisor, browser, recorder, alive,
                       age, faults>>
        /\ ref[r].pc = "persist" /\ ref \in [Requests -> Refresh] /\ watching \subseteq Updaters
    BY DEF PersistRead, task, At, TypeOK
  <1>2. \/ /\ ref' = [ref EXCEPT ![r].pc = "exec", ![r].seen = rec]
           /\ watching' = watching \cup {<<r, "persist">>}
        \/ Leave(r, "doubtful") /\ watching' = watching
    BY Zenon DEF PersistRead
  <1>3. ref' \in [Requests -> Refresh] /\ watching' \subseteq Updaters
    <2>1. "exec" \in Pc /\ "doubtful" \in Outcome
      BY DEF Pc, Outcome
    <2>2. ASSUME Leave(r, "doubtful") PROVE ref' \in [Requests -> Refresh]
      BY <2>1, <2>2, RefType
    <2>3. ASSUME ref' = [ref EXCEPT ![r].pc = "exec", ![r].seen = rec]
          PROVE  ref' \in [Requests -> Refresh]
      <3>1. [ref EXCEPT ![r].pc = "exec", ![r].seen = rec] \in [Requests -> Refresh]
        BY <2>1, RefType
      <3> QED
        BY <2>3, <3>1, Zenon
    <2>4. ref' \in [Requests -> Refresh]
      BY <1>2, <2>2, <2>3
    <2> QED
      BY <1>1, <1>2, <2>4 DEF Updaters
  <1>4. TypeOK'
    BY <1>1, <1>3 DEF TypeOK
  <1>5. \A s \in Requests :
           /\ s # r => ref'[s] = ref[s]
           /\ \/ ref'[r].pc = "exec" /\ ref'[r].seen = rec /\ ref'[r].elapsed = ref[r].elapsed
              \/ ref'[r].pc = "release" /\ watching' = watching
    <2>1. ref[r] \in Refresh
      BY <1>1
    <2>2. CASE Leave(r, "doubtful") /\ watching' = watching
      BY <1>1, <2>1, <2>2 DEF Leave, Refresh
    <2>3. CASE ref' = [ref EXCEPT ![r].pc = "exec", ![r].seen = rec]
      <3>1. ref' = [ref EXCEPT ![r] = [ref[r] EXCEPT !.pc = "exec", !.seen = rec]]
        BY <2>3
      <3>2. ref'[r] = [ref[r] EXCEPT !.pc = "exec", !.seen = rec]
        BY <1>1, <3>1, Zenon
      <3>3. ref'[r].pc = "exec" /\ ref'[r].seen = rec /\ ref'[r].elapsed = ref[r].elapsed
        BY <2>1, <3>2 DEF Refresh
      <3>4. \A s \in Requests : s # r => ref'[s] = ref[s]
        BY <1>1, <3>1, Zenon
      <3> QED
        BY <3>3, <3>4
    <2> QED
      BY <1>2, <2>2, <2>3
  <1>6. Leased'
    BY <1>1, <1>5, RefreshAssumption
       DEF Leased, InProgress, Steps, Timed, Remaining, LeaseOutlastsRefresh, Limit
  <1>7. Watched'
    <2> SUFFICES ASSUME NEW s \in Requests
                 PROVE  /\ <<s, "persist">> \in watching' => ref'[s].pc = "exec" /\ ref'[s].seen = rec
                        /\ <<s, "heartbeat">> \in watching' => hb[s].pc = "exec" /\ hb[s].seen = rec
      BY <1>1 DEF Watched
    <2>1. <<s, "heartbeat">> \in watching' => <<s, "heartbeat">> \in watching
      BY <1>2
    <2>2. <<s, "persist">> \in watching' =>
             \/ s = r /\ ref'[r].pc = "exec" /\ ref'[r].seen = rec
             \/ s # r /\ <<s, "persist">> \in watching
      <3>1. <<r, "persist">> \notin watching
        BY <1>1 DEF Watched
      <3>2. watching' = watching \/ watching' = watching \cup {<<r, "persist">>}
        BY <1>2
      <3> QED
        BY <1>5, <3>1, <3>2
    <2> QED
      BY <1>5, <2>1, <2>2 DEF Watched
  <1>8. Unstarted'
    BY <1>1, <1>5 DEF Unstarted
  <1> QED
    BY <1>4, <1>6, <1>7, <1>8

\* through its EXEC, which breaks every other watch,
LEMMA PersistExecInv == ASSUME Inv, NEW r \in Requests, PersistExec(r) PROVE Inv'
  <1> USE DEF Inv, PersistExec, At, session, task
  <1>1. TypeOK'
    <2>1. ref' \in [Requests -> Refresh]
      BY RefType DEF Pc, Outcome, TypeOK, Intact
    <2>2. hb' \in [Requests -> Heartbeat]
      BY DEF TypeOK
    <2> QED
      BY <2>1, <2>2, RecordType, StoreType, StopperType, RefreshAssumption DEF TypeOK, Updaters
  <1>2. Leased'
    BY RefreshAssumption
       DEF Leased, InProgress, Steps, Timed, Remaining, LeaseOutlastsRefresh, Limit,
           Refresh, LongestStep, TypeOK, Intact, Store, Refreshed, Leave
  <1>3. Watched'
    BY DEF Watched, Refresh, Heartbeat, TypeOK, Intact, Store, Refreshed, Leave
  <1>4. Unstarted'
    BY DEF Unstarted, TypeOK, Intact, Store, Refreshed, Leave
  <1> QED
    BY <1>1, <1>2, <1>3, <1>4

\* through an EXEC that another write refused,
LEMMA PersistRetryInv == ASSUME Inv, NEW r \in Requests, PersistRetry(r) PROVE Inv'
  <1> USE DEF Inv
  <1>1. /\ UNCHANGED <<rec, watching, childTTL, lock, hb, stopper,
                       supervisor, browser, recorder, alive, age, faults>>
        /\ ref[r].pc = "exec" /\ <<r, "persist">> \notin watching /\ ref \in [Requests -> Refresh]
    BY DEF PersistRetry, session, task, At, TypeOK, Intact
  <1>2. \/ /\ ref[r].try < MaxAttempts
           /\ ref' = [ref EXCEPT ![r].pc = "persist", ![r].try = @ + 1, ![r].seen = Absent]
        \/ Leave(r, "doubtful")
    BY Zenon DEF PersistRetry
  <1>3. ref' \in [Requests -> Refresh]
    <2>1. "persist" \in Pc /\ "doubtful" \in Outcome
      BY DEF Pc, Outcome
    <2>2. CASE Leave(r, "doubtful")
      BY <2>1, <2>2, RefType
    <2>3. CASE /\ ref[r].try < MaxAttempts
               /\ ref' = [ref EXCEPT ![r].pc = "persist", ![r].try = @ + 1, ![r].seen = Absent]
      <3>1. [ref EXCEPT ![r].pc = "persist", ![r].try = @ + 1, ![r].seen = Absent]
                \in [Requests -> Refresh]
        BY <2>1, <2>3, RefType
      <3> QED
        BY <2>3, <3>1, Zenon
    <2> QED
      BY <1>2, <2>2, <2>3
  <1>4. TypeOK'
    BY <1>1, <1>3 DEF TypeOK
  <1>5. \A s \in Requests :
           /\ s # r => ref'[s] = ref[s]
           /\ \/ ref'[r].pc = "persist" /\ ref'[r].elapsed = ref[r].elapsed
              \/ ref'[r].pc = "release"
    BY <1>1, <1>2 DEF Leave, Refresh
  <1>6. Leased'
    BY <1>1, <1>5, RefreshAssumption
       DEF Leased, InProgress, Steps, Timed, Remaining, LeaseOutlastsRefresh, Limit
  <1>7. Watched'
    BY <1>1, <1>5 DEF Watched
  <1>8. Unstarted'
    BY <1>1, <1>5 DEF Unstarted
  <1> QED
    BY <1>4, <1>6, <1>7, <1>8

\* through one that failed,
LEMMA PersistFailsInv == ASSUME Inv, NEW r \in Requests, PersistFails(r) PROVE Inv'
  <1> USE DEF Inv, PersistFails, At, session, task
  <1>1. TypeOK'
    <2>1. ref' \in [Requests -> Refresh]
      BY RefType DEF Pc, Outcome, TypeOK, Intact
    <2>2. hb' \in [Requests -> Heartbeat]
      BY DEF TypeOK
    <2> QED
      BY <2>1, <2>2, RecordType, StoreType, StopperType, RefreshAssumption DEF TypeOK, Updaters, Fault
  <1>2. Leased'
    BY RefreshAssumption
       DEF Leased, InProgress, Steps, Timed, Remaining, LeaseOutlastsRefresh, Limit,
           Refresh, LongestStep, TypeOK, Fault, Leave
  <1>3. Watched'
    BY DEF Watched, Refresh, Heartbeat, TypeOK, Fault, Leave
  <1>4. Unstarted'
    BY DEF Unstarted, TypeOK, Fault, Leave
  <1> QED
    BY <1>1, <1>2, <1>3, <1>4

\* through the heartbeat's read under WATCH,
LEMMA HeartbeatReadInv == ASSUME Inv, NEW r \in Requests, HeartbeatRead(r) PROVE Inv'
  <1> USE DEF Inv
  <1>1. /\ UNCHANGED <<rec, childTTL, lock, ref, stopper, supervisor, browser, recorder, alive,
                       age, faults>>
        /\ hb[r].pc \in {"retry", "wait"} /\ hb \in [Requests -> Heartbeat]
        /\ watching \subseteq Updaters
    BY DEF HeartbeatRead, task, TypeOK
  <1>2. \/ /\ hb' = [hb EXCEPT ![r].pc = "exec", ![r].due = FALSE, ![r].seen = rec]
           /\ watching' = watching \cup {<<r, "heartbeat">>}
        \/ HeartbeatIs(r, "gaveUp") /\ watching' = watching
    BY Zenon DEF HeartbeatRead
  <1>3. hb' \in [Requests -> Heartbeat] /\ watching' \subseteq Updaters
    <2>1. "exec" \in HeartbeatPc /\ "gaveUp" \in HeartbeatPc
      BY DEF HeartbeatPc
    <2>2. ASSUME HeartbeatIs(r, "gaveUp") PROVE hb' \in [Requests -> Heartbeat]
      BY <2>1, <2>2, HeartbeatType
    <2>3. ASSUME hb' = [hb EXCEPT ![r].pc = "exec", ![r].due = FALSE, ![r].seen = rec]
          PROVE  hb' \in [Requests -> Heartbeat]
      <3>1. [hb EXCEPT ![r].pc = "exec", ![r].due = FALSE, ![r].seen = rec]
                \in [Requests -> Heartbeat]
        BY <2>1, HeartbeatType
      <3> QED
        BY <2>3, <3>1, Zenon
    <2>4. hb' \in [Requests -> Heartbeat]
      BY <1>2, <2>2, <2>3
    <2> QED
      BY <1>1, <1>2, <2>4 DEF Updaters
  <1>4. TypeOK'
    BY <1>1, <1>3 DEF TypeOK
  <1>5. \A s \in Requests :
           /\ s # r => hb'[s] = hb[s]
           /\ \/ hb'[r].pc = "exec" /\ hb'[r].seen = rec
              \/ hb'[r].pc = "gaveUp" /\ watching' = watching
    <2>1. CASE HeartbeatIs(r, "gaveUp") /\ watching' = watching
      BY <1>1, <2>1 DEF HeartbeatIs
    <2>2. CASE hb' = [hb EXCEPT ![r].pc = "exec", ![r].due = FALSE, ![r].seen = rec]
      <3>1. hb' = [hb EXCEPT ![r] = [hb[r] EXCEPT !.pc = "exec", !.due = FALSE, !.seen = rec]]
        BY <2>2
      <3>2. hb'[r] = [hb[r] EXCEPT !.pc = "exec", !.due = FALSE, !.seen = rec]
        BY <1>1, <3>1, Zenon
      <3>3. hb'[r].pc = "exec" /\ hb'[r].seen = rec
        BY <1>1, <3>2 DEF Heartbeat
      <3>4. \A s \in Requests : s # r => hb'[s] = hb[s]
        BY <1>1, <3>1, Zenon
      <3> QED
        BY <3>3, <3>4
    <2> QED
      BY <1>2, <2>1, <2>2
  <1>6. Leased'
    BY <1>1 DEF Leased, InProgress, Remaining, LeaseOutlastsRefresh
  <1>7. Watched'
    <2> SUFFICES ASSUME NEW s \in Requests
                 PROVE  /\ <<s, "persist">> \in watching' => ref[s].pc = "exec" /\ ref[s].seen = rec
                        /\ <<s, "heartbeat">> \in watching' => hb'[s].pc = "exec" /\ hb'[s].seen = rec
      BY <1>1 DEF Watched
    <2>1. <<s, "persist">> \in watching' => <<s, "persist">> \in watching
      BY <1>2
    <2>2. <<s, "heartbeat">> \in watching' =>
             \/ s = r /\ hb'[r].pc = "exec" /\ hb'[r].seen = rec
             \/ s # r /\ <<s, "heartbeat">> \in watching
      <3>1. <<r, "heartbeat">> \notin watching
        BY <1>1 DEF Watched
      <3>2. watching' = watching \/ watching' = watching \cup {<<r, "heartbeat">>}
        BY <1>2
      <3> QED
        BY <1>5, <3>1, <3>2
    <2> QED
      BY <1>5, <2>1, <2>2 DEF Watched
  <1>8. Unstarted'
    BY <1>1, <1>5 DEF Unstarted
  <1> QED
    BY <1>4, <1>6, <1>7, <1>8

\* its EXEC,
LEMMA HeartbeatExecInv == ASSUME Inv, NEW r \in Requests, HeartbeatExec(r) PROVE Inv'
  <1> USE DEF Inv, HeartbeatExec, At, session, task
  <1>1. TypeOK'
    <2>1. ref' \in [Requests -> Refresh]
      BY DEF TypeOK
    <2>2. hb' \in [Requests -> Heartbeat]
      BY HeartbeatType DEF HeartbeatPc, TypeOK, HeartbeatGoesOn, HeldOpen
    <2> QED
      BY <2>1, <2>2, RecordType, StoreType, StopperType, RefreshAssumption DEF TypeOK, Updaters
  <1>2. Leased'
    BY RefreshAssumption
       DEF Leased, InProgress, Steps, Timed, Remaining, LeaseOutlastsRefresh, Limit,
           Refresh, LongestStep, TypeOK, Intact, Store, HeartbeatGoesOn, HeartbeatIs, HeldOpen
  <1>3. Watched'
    BY DEF Watched, Refresh, Heartbeat, TypeOK, Intact, Store, HeartbeatGoesOn, HeartbeatIs, HeldOpen
  <1>4. Unstarted'
    BY DEF Unstarted, TypeOK, Intact, Store, HeartbeatGoesOn, HeartbeatIs, HeldOpen
  <1> QED
    BY <1>1, <1>2, <1>3, <1>4

\* its refused EXEC
LEMMA HeartbeatRetryInv == ASSUME Inv, NEW r \in Requests, HeartbeatRetry(r) PROVE Inv'
  <1> USE DEF Inv
  <1>1. /\ UNCHANGED <<rec, watching, childTTL, lock, ref, stopper,
                       supervisor, browser, recorder, alive, age, faults>>
        /\ hb[r].pc = "exec" /\ <<r, "heartbeat">> \notin watching /\ hb \in [Requests -> Heartbeat]
    BY DEF HeartbeatRetry, session, task, TypeOK, Intact
  <1>2. \/ /\ hb[r].try < MaxAttempts
           /\ hb' = [hb EXCEPT ![r].pc = "retry", ![r].try = @ + 1, ![r].seen = Absent]
        \/ HeartbeatIs(r, "gaveUp")
    BY Zenon DEF HeartbeatRetry
  <1>3. hb' \in [Requests -> Heartbeat]
    <2>1. "retry" \in HeartbeatPc /\ "gaveUp" \in HeartbeatPc
      BY DEF HeartbeatPc
    <2>2. CASE HeartbeatIs(r, "gaveUp")
      BY <2>1, <2>2, HeartbeatType
    <2>3. CASE /\ hb[r].try < MaxAttempts
               /\ hb' = [hb EXCEPT ![r].pc = "retry", ![r].try = @ + 1, ![r].seen = Absent]
      <3>1. [hb EXCEPT ![r].pc = "retry", ![r].try = @ + 1, ![r].seen = Absent]
                \in [Requests -> Heartbeat]
        BY <2>1, <2>3, HeartbeatType
      <3> QED
        BY <2>3, <3>1, Zenon
    <2> QED
      BY <1>2, <2>2, <2>3
  <1>4. TypeOK'
    BY <1>1, <1>3 DEF TypeOK
  <1>5. \A s \in Requests : s # r => hb'[s] = hb[s]
    BY <1>1, <1>2 DEF HeartbeatIs, Heartbeat
  <1>6. Leased'
    BY <1>1 DEF Leased, InProgress, Remaining, LeaseOutlastsRefresh
  <1>7. Watched'
    BY <1>1, <1>5 DEF Watched
  <1>8. Unstarted'
    BY <1>1, <1>5 DEF Unstarted
  <1> QED
    BY <1>4, <1>6, <1>7, <1>8

\* and its failed one,
LEMMA HeartbeatFailsInv == ASSUME Inv, NEW r \in Requests, HeartbeatFails(r) PROVE Inv'
  <1> USE DEF Inv, HeartbeatFails, At, session, task
  <1>1. TypeOK'
    <2>1. ref' \in [Requests -> Refresh]
      BY DEF TypeOK
    <2>2. hb' \in [Requests -> Heartbeat]
      BY HeartbeatType DEF HeartbeatPc, TypeOK
    <2> QED
      BY <2>1, <2>2, RecordType, StoreType, StopperType, RefreshAssumption DEF TypeOK, Updaters, Fault
  <1>2. Leased'
    BY RefreshAssumption
       DEF Leased, InProgress, Steps, Timed, Remaining, LeaseOutlastsRefresh, Limit,
           Refresh, LongestStep, TypeOK, HeartbeatIs, Fault
  <1>3. Watched'
    BY DEF Watched, Refresh, Heartbeat, TypeOK, HeartbeatIs, Fault
  <1>4. Unstarted'
    BY DEF Unstarted, TypeOK, HeartbeatIs, Fault
  <1> QED
    BY <1>1, <1>2, <1>3, <1>4

\* through a router's crash, after which only the TTL ends its lease,
LEMMA CrashInv == ASSUME Inv, NEW r \in Requests, Crash(r) PROVE Inv'
  <1> USE DEF Inv, Crash, At, session, task
  <1>1. TypeOK'
    <2>1. ref' \in [Requests -> Refresh]
      BY RefType DEF Pc, Outcome, TypeOK, Intact
    <2>2. hb' \in [Requests -> Heartbeat]
      BY HeartbeatType DEF HeartbeatPc, TypeOK
    <2>3. faults' \in 0 .. MaxFaults
      BY RefreshAssumption DEF TypeOK, Fault
    <2> QED
      BY <2>1, <2>2, <2>3 DEF TypeOK, Updaters
  <1>2. Leased'
    BY RefreshAssumption
       DEF Leased, InProgress, Steps, Timed, Remaining, LeaseOutlastsRefresh, Limit,
           Refresh, LongestStep, TypeOK, HeartbeatIs, Fault
  <1>3. Watched'
    BY DEF Watched, Refresh, Heartbeat, TypeOK, HeartbeatIs, Fault
  <1>4. Unstarted'
    BY DEF Unstarted, TypeOK, HeartbeatIs, Fault
  <1> QED
    BY <1>1, <1>2, <1>3, <1>4

\* through a client's request,
LEMMA UseInv == ASSUME Inv, Use PROVE Inv'
  <1> USE DEF Inv, Use, At, session, task
  <1>1. TypeOK'
    <2>1. ref' \in [Requests -> Refresh]
      BY DEF TypeOK
    <2>2. hb' \in [Requests -> Heartbeat]
      BY DEF TypeOK
    <2> QED
      BY <2>1, <2>2, RecordType, StoreType, StopperType, RefreshAssumption DEF TypeOK
  <1>2. Leased'
    BY RefreshAssumption
       DEF Leased, InProgress, Steps, Timed, Remaining, LeaseOutlastsRefresh, Limit,
           Refresh, LongestStep, TypeOK, Touch, Store
  <1>3. Watched'
    BY DEF Watched, Refresh, Heartbeat, TypeOK, Touch, Store
  <1>4. Unstarted'
    BY DEF Unstarted, TypeOK, Touch, Store
  <1> QED
    BY <1>1, <1>2, <1>3, <1>4

\* through the read of a route or loop that is about to stop the session,
LEMMA FindToStopInv == ASSUME Inv, NEW p \in Stoppers, FindToStop(p) PROVE Inv'
  <1> USE DEF Inv, session, task
  <1>1. /\ UNCHANGED <<childTTL, lock, ref, hb, task, alive, age>>
        /\ BeginStop(p, FALSE) \/ BeginStop(p, TRUE)
        /\ Touch \/ UNCHANGED <<rec, watching>>
    BY Zenon DEF FindToStop
  <1>2. faults' \in 0 .. MaxFaults
    <2>1. Fault \/ faults' = faults
      BY Zenon DEF FindToStop
    <2> QED
      BY <2>1, RefreshAssumption DEF Fault, TypeOK
  <1>3. TypeOK'
    <2>1. rec' \in Record /\ watching' \subseteq Updaters
      BY <1>1, StoreType DEF TypeOK
    <2>2. stopper' \in [Stoppers -> Stopper]
      BY <1>1, StopperType
    <2> QED
      BY <1>1, <1>2, <2>1, <2>2 DEF TypeOK
  <1>4. Leased'
    BY <1>1 DEF Leased, InProgress, Remaining
  <1>5. Watched'
    BY <1>1 DEF Watched, Touch, Store
  <1>6. Unstarted'
    BY <1>1 DEF Unstarted
  <1> QED
    BY <1>3, <1>4, <1>5, <1>6

\* its finish of the recording,
LEMMA FinishRecordingInv == ASSUME Inv, NEW p \in Stoppers, FinishRecording(p) PROVE Inv'
  <1> USE DEF Inv, FinishRecording, At, session, task
  <1>1. TypeOK'
    <2>1. ref' \in [Requests -> Refresh]
      BY DEF TypeOK
    <2>2. hb' \in [Requests -> Heartbeat]
      BY DEF TypeOK
    <2> QED
      BY <2>1, <2>2, RecordType, StoreType, StopperType, RefreshAssumption DEF TypeOK, Updaters
  <1>2. Leased'
    BY RefreshAssumption
       DEF Leased, InProgress, Steps, Timed, Remaining, LeaseOutlastsRefresh, Limit,
           Refresh, LongestStep, TypeOK
  <1>3. Watched'
    BY DEF Watched, Refresh, Heartbeat, TypeOK
  <1>4. Unstarted'
    BY DEF Unstarted, TypeOK
  <1> QED
    BY <1>1, <1>2, <1>3, <1>4

\* its call to ECS,
LEMMA StopTaskForciblyInv == ASSUME Inv, NEW p \in Stoppers, StopTaskForcibly(p) PROVE Inv'
  <1> USE DEF Inv, StopTaskForcibly, At, session, task
  <1>1. TypeOK'
    <2>1. ref' \in [Requests -> Refresh]
      BY DEF TypeOK
    <2>2. hb' \in [Requests -> Heartbeat]
      BY DEF TypeOK
    <2>3. stopper' \in [Stoppers -> Stopper]
      <3>1. CASE stopper' = [stopper EXCEPT ![p].pc = "write"]
        BY <3>1, StopperType, Zenon
      <3>2. CASE StopTaskFails(p)
        BY <3>2, StopperType
      <3> QED
        BY <3>1, <3>2
    <2>4. faults' \in 0 .. MaxFaults
      BY RefreshAssumption DEF TypeOK, StopTaskFails, Fault
    <2>5. rec' \in Record /\ watching' \subseteq Updaters
      BY StoreType, RecordType DEF TypeOK, Stopper
    <2> QED
      BY <2>1, <2>2, <2>3, <2>4, <2>5 DEF TypeOK, TaskEnds
  <1>2. Leased'
    BY RefreshAssumption
       DEF Leased, InProgress, Steps, Timed, Remaining, LeaseOutlastsRefresh, Limit,
           Refresh, LongestStep, TypeOK, StopTaskFails, TaskEnds
  <1>3. Watched'
    BY DEF Watched, Refresh, Heartbeat, TypeOK, StopTaskFails, TaskEnds
  <1>4. Unstarted'
    BY DEF Unstarted, TypeOK, StopTaskFails, TaskEnds
  <1> QED
    BY <1>1, <1>2, <1>3, <1>4

\* its write of the record, which breaks every watch,
LEMMA StopTaskWriteInv == ASSUME Inv, NEW p \in Stoppers, StopTaskWrite(p) PROVE Inv'
  <1> USE DEF Inv, StopTaskWrite, At, session, task
  <1>1. TypeOK'
    <2>1. ref' \in [Requests -> Refresh]
      BY DEF TypeOK
    <2>2. hb' \in [Requests -> Heartbeat]
      BY DEF TypeOK
    <2>3. stopper' \in [Stoppers -> Stopper]
      BY StopperType
    <2>4. faults' \in 0 .. MaxFaults
      BY RefreshAssumption DEF TypeOK, StopTaskFails, Fault
    <2>5. rec' \in Record /\ watching' \subseteq Updaters
      BY StoreType, RecordType DEF TypeOK, Stopper
    <2> QED
      BY <2>1, <2>2, <2>3, <2>4, <2>5, RecordType, RefreshAssumption DEF TypeOK, StopTaskFails, Fault
  <1>2. Leased'
    BY RefreshAssumption
       DEF Leased, InProgress, Steps, Timed, Remaining, LeaseOutlastsRefresh, Limit,
           Refresh, LongestStep, TypeOK, StopTaskFails, Store
  <1>3. Watched'
    BY DEF Watched, Refresh, Heartbeat, TypeOK, StopTaskFails, Store
  <1>4. Unstarted'
    BY DEF Unstarted, TypeOK, StopTaskFails, Store
  <1> QED
    BY <1>1, <1>2, <1>3, <1>4

\* the second try of the task loop,
LEMMA ForceAgainInv == ASSUME Inv, NEW p \in Stoppers, ForceAgain(p) PROVE Inv'
  <1> USE DEF Inv, ForceAgain, session, task
  <1>1. TypeOK'
    <2>1. stopper' \in [Stoppers -> Stopper]
      BY StopperType
    <2>2. faults' \in 0 .. MaxFaults
      BY RefreshAssumption DEF TypeOK, Fault
    <2> QED
      BY <2>1, <2>2 DEF TypeOK, TaskEnds
  <1>2. Leased'
    BY DEF Leased, InProgress, Remaining
  <1>3. Watched'
    BY DEF Watched
  <1>4. Unstarted'
    BY DEF Unstarted
  <1> QED
    BY <1>1, <1>2, <1>3, <1>4

\* its TTLs on the child records,
LEMMA ExpireChildrenInv == ASSUME Inv, NEW p \in Stoppers, ExpireChildren(p) PROVE Inv'
  <1> USE DEF Inv, ExpireChildren, At, session, task
  <1>1. TypeOK'
    <2>1. ref' \in [Requests -> Refresh]
      BY DEF TypeOK
    <2>2. hb' \in [Requests -> Heartbeat]
      BY DEF TypeOK
    <2>3. stopper' \in [Stoppers -> Stopper]
      BY StopperType
    <2>4. faults' \in 0 .. MaxFaults
      BY RefreshAssumption DEF TypeOK, Fault
    <2>5. rec' \in Record /\ watching' \subseteq Updaters
      BY StoreType, RecordType DEF TypeOK, Stopper
    <2>6. childTTL' \in [Requests -> 0 .. ConfMaxTimeout + ChildGrace]
      BY RefreshAssumption DEF TypeOK, stoppedSessionTTL
    <2> QED
      BY <2>1, <2>2, <2>3, <2>4, <2>5, <2>6, RecordType, RefreshAssumption DEF TypeOK, Fault
  <1>2. Leased'
    BY RefreshAssumption
       DEF Leased, InProgress, Steps, Timed, Remaining, LeaseOutlastsRefresh, Limit,
           Refresh, LongestStep, TypeOK, Fault, StopperEnds
  <1>3. Watched'
    BY DEF Watched, Refresh, Heartbeat, TypeOK, Fault, StopperEnds
  <1>4. Unstarted'
    BY DEF Unstarted, TypeOK, Fault, StopperEnds
  <1> QED
    BY <1>1, <1>2, <1>3, <1>4

\* through the expiry of the record, which breaks every watch too,
LEMMA ExpireRecordInv == ASSUME Inv, ExpireRecord PROVE Inv'
  <1> USE DEF Inv, ExpireRecord, At, session, task
  <1>1. TypeOK'
    <2>1. ref' \in [Requests -> Refresh]
      BY DEF TypeOK
    <2>2. hb' \in [Requests -> Heartbeat]
      BY DEF TypeOK
    <2> QED
      BY <2>1, <2>2, RecordType, StoreType, StopperType, RefreshAssumption DEF TypeOK, Updaters
  <1>2. Leased'
    BY RefreshAssumption
       DEF Leased, InProgress, Steps, Timed, Remaining, LeaseOutlastsRefresh, Limit,
           Refresh, LongestStep, TypeOK, Store
  <1>3. Watched'
    BY DEF Watched, Refresh, Heartbeat, TypeOK, Store
  <1>4. Unstarted'
    BY DEF Unstarted, TypeOK, Store
  <1> QED
    BY <1>1, <1>2, <1>3, <1>4

\* through a pass of the task loop, which brings the keys of the children nearer
\* to their end,
LEMMA TaskLoopTimerInv == ASSUME Inv, TaskLoopTimer PROVE Inv'
  <1> USE DEF Inv, TaskLoopTimer, task
  <1>1. TypeOK'
    <2>1. childTTL' \in [Requests -> 0 .. ConfMaxTimeout + ChildGrace]
      BY RefreshAssumption DEF TypeOK
    <2>2. faults' \in 0 .. MaxFaults /\ age' \in Nat
      BY RefreshAssumption DEF TypeOK, Fault
    <2> QED
      BY <2>1, <2>2 DEF TypeOK
  <1>2. Leased'
    BY DEF Leased, InProgress, Remaining
  <1>3. Watched'
    BY DEF Watched
  <1>4. Unstarted'
    BY DEF Unstarted
  <1> QED
    BY <1>1, <1>2, <1>3, <1>4

\* and through time: a tick takes from a lease exactly what it takes from the steps
\* ahead, and no step outlasts its limit.
LEMMA TickInv == ASSUME Inv, Tick PROVE Inv'
  <1> USE DEF Inv, Tick, session, task
  <1>1. ref' \in [Requests -> Refresh]
    <2> SUFFICES ASSUME NEW r \in Requests PROVE Aged(r) \in Refresh
      BY Zenon
    <2>1. ref[r] \in Refresh
      BY DEF TypeOK
    <2>2. CASE ref[r].pc \in Timed /\ ref[r].elapsed < Limit(ref[r].pc)
      <3>1. ref[r].elapsed + 1 \in 0 .. LongestStep
        BY <2>1, <2>2, RefreshAssumption DEF Refresh, LongestStep, Limit, Timed
      <3>2. ref[r].pc \in Pc /\ ref[r].outcome \in Outcome
        BY <2>1 DEF Refresh, Pc, Outcome, Steps, Timed
      <3>3. [ref[r] EXCEPT !.elapsed = ref[r].elapsed + 1] \in Refresh
        BY <2>1, <3>1, <3>2, RefreshType
      <3> QED
        BY <2>2, <3>3 DEF Aged
    <2>3. CASE ~(ref[r].pc \in Timed /\ ref[r].elapsed < Limit(ref[r].pc))
      BY <2>1, <2>3 DEF Aged
    <2> QED
      BY <2>2, <2>3
  <1>2. hb' \in [Requests -> Heartbeat]
    <2> SUFFICES ASSUME NEW r \in Requests PROVE [hb[r] EXCEPT !.due = Fires(r)] \in Heartbeat
      BY Zenon
    <2>1. hb[r] \in Heartbeat /\ Fires(r) \in BOOLEAN
      BY DEF TypeOK, Fires
    <2> QED
      BY <2>1 DEF Heartbeat
  <1>3. rec' \in Record
    <2>1. rec \in Record
      BY DEF TypeOK
    <2>2. CASE rec' = rec
      BY <2>1, <2>2
    <2>3. CASE rec.unused <= IdleTimeout /\ rec' = [rec EXCEPT !.unused = @ + 1]
      <3> HIDE DEF Tick, Inv
      <3>1. rec.unused + 1 \in 0 .. IdleTimeout + 1
        BY <2>1, <2>3, RefreshAssumption DEF Record
      <3> QED
        BY <2>1, <2>3, <3>1 DEF Record
    <2> QED
      BY <2>2, <2>3
  <1>4. lock' \in [owner : Requests \cup {Nobody}, left : 0 .. LockTTL]
    BY RefreshAssumption DEF TypeOK, LockAged, Free
  <1>5. TypeOK'
    BY <1>1, <1>2, <1>3, <1>4 DEF TypeOK
  <1>6. Leased'
    <2> SUFFICES ASSUME NEW r \in Requests, InProgress(r)'
                 PROVE  (/\ ref[r].elapsed <= Limit(ref[r].pc)
                         /\ LeaseOutlastsRefresh => lock.owner = r /\ lock.left > Remaining(r))'
      BY DEF Leased
    <2>1. /\ ref[r] \in Refresh /\ ref[r].elapsed \in Nat /\ lock.left \in Nat
          /\ {SwapLimit, RotateLimit, RecordLimit} \subseteq Nat
      BY RefreshAssumption DEF TypeOK, Refresh, LongestStep
    <2>2. ref'[r].pc = ref[r].pc /\ ref[r].pc \in Steps
      BY <2>1 DEF Aged, Refresh, InProgress
    <2>3. /\ ref[r].elapsed <= Limit(ref[r].pc)
          /\ LeaseOutlastsRefresh => lock.owner = r /\ lock.left > Remaining(r)
      BY <2>2 DEF Leased, InProgress
    \* Time only passes while the request is in a call with a limit, and has some left.
    <2>4. ref[r].pc \in Timed /\ (RecorderAnswers => ref[r].elapsed < Limit(ref[r].pc))
      BY <2>1, <2>2 DEF MayWait, Unbounded, Limit, Steps, Timed
    <2>5. CASE ref[r].elapsed < Limit(ref[r].pc)
      <3>1. ref'[r].elapsed = ref[r].elapsed + 1
        BY <2>1, <2>4, <2>5 DEF Aged, Refresh
      <3>2. ref'[r].elapsed <= Limit(ref'[r].pc)
        BY <2>1, <2>2, <2>4, <2>5, <3>1 DEF Limit, Timed
      <3>3. ASSUME LeaseOutlastsRefresh PROVE lock'.owner = r /\ lock'.left > Remaining(r)'
        <4>1. Remaining(r) = Remaining(r)' + 1 /\ Remaining(r)' \in Nat
          <5>1. CASE ref[r].pc = "swap"
            <6>1. ref[r].elapsed < SwapLimit
              BY <2>5, <5>1 DEF Limit
            <6>2. Remaining(r) = SwapLimit + RotateLimit + RecordLimit - ref[r].elapsed
              BY <5>1 DEF Remaining
            <6>3. Remaining(r)' = SwapLimit + RotateLimit + RecordLimit - (ref[r].elapsed + 1)
              BY <2>2, <3>1, <5>1 DEF Remaining
            <6> HIDE DEF Tick, Inv
            <6> QED
              BY <2>1, <6>1, <6>2, <6>3
          <5>2. CASE ref[r].pc = "rotate"
            <6>1. ref[r].elapsed < RotateLimit
              BY <2>5, <5>2 DEF Limit
            <6>2. Remaining(r) = RotateLimit + RecordLimit - ref[r].elapsed
              BY <5>2 DEF Remaining
            <6>3. Remaining(r)' = RotateLimit + RecordLimit - (ref[r].elapsed + 1)
              BY <2>2, <3>1, <5>2 DEF Remaining
            <6> HIDE DEF Tick, Inv
            <6> QED
              BY <2>1, <6>1, <6>2, <6>3
          <5>3. CASE ref[r].pc = "record"
            <6>1. ref[r].elapsed < RecordLimit
              BY <2>5, <5>3 DEF Limit
            <6>2. Remaining(r) = RecordLimit - ref[r].elapsed
              BY <5>3 DEF Remaining
            <6>3. Remaining(r)' = RecordLimit - (ref[r].elapsed + 1)
              BY <2>2, <3>1, <5>3 DEF Remaining
            <6> HIDE DEF Tick, Inv
            <6> QED
              BY <2>1, <6>1, <6>2, <6>3
          <5> QED
            BY <2>4, <5>1, <5>2, <5>3 DEF Timed
        <4>2. lock.left > 1 /\ lock.left > Remaining(r)
          BY <2>1, <2>3, <3>3, <4>1
        <4>3. lock' = [lock EXCEPT !.left = lock.left - 1]
          BY <2>1, <4>2 DEF LockAged
        <4>4. lock'.owner = r /\ lock'.left = lock.left - 1
          BY <2>3, <3>3, <4>3 DEF TypeOK
        <4> QED
          BY <2>1, <4>1, <4>2, <4>4
      <3> QED
        BY <3>2, <3>3 DEF LeaseOutlastsRefresh
    <2>6. CASE ~(ref[r].elapsed < Limit(ref[r].pc))
      <3>1. ref'[r] = ref[r] /\ ~RecorderAnswers
        BY <2>4, <2>6 DEF Aged
      <3> QED
        BY <2>3, <3>1 DEF LeaseOutlastsRefresh
    <2> QED
      BY <2>5, <2>6
  <1>7. \A r \in Requests : /\ ref'[r].pc = ref[r].pc /\ ref[r].pc # "exec"
                            /\ hb'[r].pc = hb[r].pc /\ hb[r].pc # "exec"
    <2> SUFFICES ASSUME NEW r \in Requests
                 PROVE  /\ Aged(r).pc = ref[r].pc /\ ref[r].pc # "exec"
                        /\ [hb[r] EXCEPT !.due = Fires(r)].pc = hb[r].pc /\ hb[r].pc # "exec"
      BY Zenon
    <2>1. ref[r] \in Refresh /\ hb[r] \in Heartbeat
      BY DEF TypeOK
    <2>2. ref[r].elapsed \in Nat
      BY <2>1, RefreshAssumption DEF Refresh, LongestStep
    <2>3. ref[r].pc # "exec"
      BY <2>2 DEF MayWait, Unbounded, Limit
    <2>4. Aged(r).pc = ref[r].pc
      BY <2>1 DEF Aged, Refresh
    <2> QED
      BY <2>1, <2>3, <2>4 DEF Heartbeat
  <1>8. Watched'
    BY <1>7 DEF Watched
  <1>9. Unstarted'
    BY <1>7 DEF Unstarted
  <1> QED
    BY <1>5, <1>6, <1>8, <1>9

\* So every step keeps the invariant.
LEMMA StepInv == ASSUME Inv, [Next]_vars PROVE Inv'
  <1>1. CASE UNCHANGED vars
    BY <1>1 DEF Inv, TypeOK, Unstarted, Leased, Watched, InProgress, Remaining, vars
  <1>2. CASE \E p \in Stoppers : StopperStep(p)
    BY <1>2, FindToStopInv, FinishRecordingInv, StopTaskForciblyInv, StopTaskWriteInv,
       ForceAgainInv, ExpireChildrenInv DEF StopperStep
  <1>3. CASE Use \/ ExpireRecord \/ Tick \/ TaskLoopTimer
    BY <1>3, UseInv, ExpireRecordInv, TickInv, TaskLoopTimerInv
  <1>4. ASSUME NEW r \in Requests, HandlerStep(r) PROVE Inv'
    BY <1>4, UpdateLastAccessTimeInv, AcquireInv, AcquireRefusedInv, WriteChildInv,
       WriteChildFailsInv, PersistReadInv, PersistExecInv, PersistRetryInv, ReleaseInv
       DEF HandlerStep
  <1>5. ASSUME NEW r \in Requests, SwapStep(r) PROVE Inv'
    BY <1>5, SupervisorTakesInv, SwapRefusedInv, SupervisorDoneInv, SwapGivenUpInv DEF SwapStep
  <1>6. ASSUME NEW r \in Requests, HeartbeatStep(r) PROVE Inv'
    BY <1>6, HeartbeatReadInv, HeartbeatExecInv, HeartbeatRetryInv DEF HeartbeatStep
  <1>7. ASSUME NEW r \in Requests,
               \/ Arrive(r) \/ Rotate(r) \/ RotateFails(r) \/ StartRecording(r)
               \/ PersistFails(r) \/ HeartbeatFails(r) \/ Crash(r)
        PROVE  Inv'
    BY <1>7, ArriveInv, RotateInv, RotateFailsInv, StartRecordingInv, PersistFailsInv,
       HeartbeatFailsInv, CrashInv
  <1> QED
    BY <1>1, <1>2, <1>3, <1>4, <1>5, <1>6, <1>7 DEF Next

\* The invariant holds of every reachable state.
LEMMA Invariance == Spec => []Inv
  BY InitInv, StepInv, PTL DEF Spec

-----------------------------------------------------------------------------
(* Types, and the lock *)

\* Every variable keeps to its type, whatever the limits are.
THEOREM TypeCorrect == Spec => []TypeOK
  <1>1. Inv => TypeOK
    BY DEF Inv
  <1> QED
    BY <1>1, Invariance, PTL

\* Whoever works on the session owns the lock.
LEMMA Exclusion ==
    ASSUME LeaseOutlastsRefresh, Inv
    PROVE  OneRefreshAtATime
  <1> SUFFICES ASSUME NEW r \in Requests, NEW s \in Requests, InProgress(r), InProgress(s)
               PROVE  r = s
    BY DEF OneRefreshAtATime
  <1>1. lock.owner = r /\ lock.owner = s
    BY LeaseOutlastsRefresh DEF Inv, Leased
  <1> QED
    BY <1>1

\* When the limits of the steps add up to less than the TTL of the lock, and
\* the recorder answers, two refreshes never work on a session at a time: not
\* after a crash, a lost reply or a release that fails, and for any number of
\* refreshes.
THEOREM RefreshesExclude ==
    ASSUME LeaseOutlastsRefresh
    PROVE  Spec => []OneRefreshAtATime
  <1>1. Inv => OneRefreshAtATime
    BY LeaseOutlastsRefresh, Exclusion
  <1> QED
    BY <1>1, Invariance, PTL

-----------------------------------------------------------------------------
(* What a step writes *)

\* The steps of the handler of a refresh, and the death of its router.
RequestStep(r) ==
    \/ Arrive(r) \/ HandlerStep(r) \/ SwapStep(r) \/ Rotate(r) \/ RotateFails(r)
    \/ StartRecording(r) \/ PersistFails(r) \/ Crash(r)

\* The steps of everything else, and of time.
SideStep ==
    \/ \E r \in Requests : HeartbeatStep(r) \/ HeartbeatFails(r)
    \/ \E p \in Stoppers : StopperStep(p)
    \/ Use \/ ExpireRecord \/ Tick \/ TaskLoopTimer

\* There are no other steps.
LEMMA StepKinds == Next => SideStep \/ \E r \in Requests : RequestStep(r)
  BY DEF Next, RequestStep, SideStep

\* The record is still of the same session, with nothing but its age changed.
SameSession ==
    /\ rec'.status = rec.status /\ rec'.cfg = rec.cfg /\ rec'.children = rec.children
    /\ rec'.unused \in {0, rec.unused} \/ Tick

\* The one step that stores something else in an active record, on top of what
\* is there.
Persisted(r) ==
    /\ PersistExec(r)
    /\ rec'.status = rec.status /\ rec'.unused = 0
    /\ rec'.cfg = Changed(r, rec.cfg)
    /\ rec'.children = IF ref[r].child THEN rec.children \cup {r} ELSE rec.children

\* EXEC only goes through on the record that the update function was given.
LEMMA ExecPersists == ASSUME Inv, NEW r \in Requests, PersistExec(r) PROVE Persisted(r)
  <1>1. rec \in Record
    BY DEF Inv, TypeOK
  <1>2. ref[r].seen = rec /\ rec' = Refreshed(r)
    BY DEF PersistExec, Intact, Inv, Watched, Store
  <1> QED
    BY <1>1, <1>2 DEF Persisted, Refreshed, Record

\* Whoever writes an active record touches it, stops it, or adds a refresh: no
\* write loses another, and none is to a record that is gone.
LEMMA RecordMoves ==
    ASSUME Inv, [Next]_vars
    PROVE  SameSession \/ rec'.status # "active" \/ \E r \in Requests : Persisted(r)
  <1>1. rec \in Record /\ \A r \in Requests : ref[r].seen \in Record /\ hb[r].seen \in Record
    BY StoreType DEF Inv, TypeOK
  <1>2. ASSUME rec' = rec PROVE SameSession
    BY <1>2 DEF SameSession
  <1>3. ASSUME rec' = [rec EXCEPT !.unused = 0] PROVE SameSession
    BY <1>1, <1>3 DEF SameSession, Record
  <1>4. CASE Tick
    BY <1>1, <1>4 DEF Tick, SameSession, Record
  <1>5. CASE Use
    BY <1>2, <1>3, <1>5 DEF Use, Touch, Store
  <1>6. CASE ExpireRecord
    BY <1>6, RecordType DEF ExpireRecord, Store
  <1>7. ASSUME NEW p \in Stoppers, StopperStep(p) PROVE SameSession \/ rec'.status # "active"
    <2>1. CASE FindToStop(p)
      BY <1>2, <1>3, <2>1 DEF FindToStop, Touch, Store
    <2>2. CASE FinishRecording(p) \/ StopTaskForcibly(p) \/ ForceAgain(p) \/ ExpireChildren(p)
      BY <1>2, <2>2 DEF FinishRecording, StopTaskForcibly, ForceAgain, ExpireChildren, session
    <2>3. CASE StopTaskWrite(p)
      <3>1. stopper[p].snap \in Record
        BY DEF Inv, TypeOK, Stopper
      <3> QED
        BY <1>2, <2>3, <3>1 DEF StopTaskWrite, Store, Record
    <2> QED
      BY <1>7, <2>1, <2>2, <2>3 DEF StopperStep
  <1>8. ASSUME NEW r \in Requests, UpdateLastAccessTime(r) PROVE SameSession
    BY <1>2, <1>3, <1>8 DEF UpdateLastAccessTime, Touch, Store
  <1>9. ASSUME NEW r \in Requests, PersistExec(r) PROVE Persisted(r)
    BY <1>9, ExecPersists
  <1>10. ASSUME NEW r \in Requests, HeartbeatExec(r) PROVE SameSession
    <2>1. hb[r].seen = rec /\ rec' = [hb[r].seen EXCEPT !.unused = 0]
      BY <1>10 DEF HeartbeatExec, Intact, Inv, Watched, Store
    <2> QED
      BY <1>3, <2>1
  <1>11. ASSUME NEW r \in Requests,
                \/ Arrive(r) \/ Acquire(r) \/ AcquireRefused(r) \/ WriteChild(r)
                \/ WriteChildFails(r) \/ PersistRead(r) \/ PersistRetry(r) \/ Release(r)
                \/ SwapStep(r) \/ Rotate(r) \/ RotateFails(r) \/ StartRecording(r)
                \/ HeartbeatRead(r) \/ HeartbeatRetry(r) \/ PersistFails(r)
                \/ HeartbeatFails(r) \/ Crash(r)
         PROVE  rec' = rec
    BY <1>11, Zenon
       DEF Arrive, Acquire, AcquireRefused, WriteChild, WriteChildFails, PersistRead,
           PersistRetry, Release, SwapStep, SupervisorTakes, SwapRefused, SupervisorDone,
           SwapGivenUp, Rotate, RotateFails, StartRecording, HeartbeatRead, HeartbeatRetry,
           PersistFails, HeartbeatFails, Crash, session
  <1>12. CASE TaskLoopTimer \/ UNCHANGED vars
    BY <1>2, <1>12 DEF TaskLoopTimer, vars
  <1> QED
    BY <1>2, <1>4, <1>5, <1>6, <1>7, <1>8, <1>9, <1>10, <1>11, <1>12
       DEF Next, HandlerStep, HeartbeatStep

\* Everything else leaves the requests where they are, and the browser alone.
LEMMA SideFrame ==
    ASSUME Inv, SideStep \/ UNCHANGED vars
    PROVE  /\ \A r \in Requests : /\ ref'[r].pc = ref[r].pc
                                  /\ ref'[r].outcome = ref[r].outcome
                                  /\ ref'[r].child = ref[r].child
           /\ browser' = browser
           /\ supervisor' \in {supervisor, Nobody}
  <1>1. CASE Tick
    <2> SUFFICES ASSUME NEW r \in Requests
                 PROVE  /\ Aged(r).pc = ref[r].pc /\ Aged(r).outcome = ref[r].outcome
                        /\ Aged(r).child = ref[r].child
      BY <1>1, Zenon DEF Tick, task
    <2>1. ref[r] \in Refresh
      BY DEF Inv, TypeOK
    <2> QED
      BY <2>1 DEF Aged, Refresh
  <1>2. CASE Use \/ ExpireRecord \/ TaskLoopTimer \/ UNCHANGED vars
    BY <1>2 DEF Use, ExpireRecord, TaskLoopTimer, vars, task
  <1>3. ASSUME NEW p \in Stoppers, StopperStep(p)
        PROVE  UNCHANGED <<ref, browser>> /\ supervisor' \in {supervisor, Nobody}
    BY <1>3 DEF StopperStep, FindToStop, BeginStop, FinishRecording, StopTaskForcibly,
                StopTaskWrite, ForceAgain, ExpireChildren, TaskEnds, task, session
  <1>4. ASSUME NEW r \in Requests, HeartbeatStep(r) \/ HeartbeatFails(r)
        PROVE  UNCHANGED <<ref, browser, supervisor>>
    BY <1>4 DEF HeartbeatStep, HeartbeatRead, HeartbeatExec, HeartbeatRetry, HeartbeatFails, task
  <1> QED
    BY <1>1, <1>2, <1>3, <1>4 DEF SideStep

\* A handler, or its router's death, is nothing to the other requests.
LEMMA RequestFrame ==
    ASSUME Inv, NEW r \in Requests, RequestStep(r)
    PROVE  /\ \A s \in Requests \ {r} : ref'[s] = ref[s] /\ hb'[s] = hb[s]
           /\ UNCHANGED <<stopper, alive, age>>
           /\ faults' \in {faults, faults + 1}
  <1> USE DEF Inv, TypeOK
  <1>1. CASE Arrive(r) \/ UpdateLastAccessTime(r) \/ Acquire(r) \/ AcquireRefused(r) \/ Release(r)
    BY <1>1 DEF Arrive, UpdateLastAccessTime, Acquire, AcquireRefused, Release, GoTo, Fault
  <1>2. CASE SwapStep(r)
    BY <1>2 DEF SwapStep, SupervisorTakes, SwapRefused, SupervisorDone, SwapGivenUp, GoTo, Leave,
                StopHeartbeat, Fault, task, session
  <1>3. CASE WriteChild(r) \/ WriteChildFails(r) \/ Rotate(r) \/ RotateFails(r) \/ StartRecording(r)
    BY <1>3 DEF WriteChild, WriteChildFails, WriteChildUncertain, Rotate, RotateFails,
                RotateUncertain, StartRecording, GoTo, StopHeartbeat, Fault
  <1>4. CASE PersistRead(r) \/ PersistExec(r) \/ PersistRetry(r) \/ PersistFails(r) \/ Crash(r)
    BY <1>4 DEF PersistRead, PersistExec, PersistRetry, PersistFails, Crash, Leave, HeartbeatIs,
                Fault
  <1> QED
    BY <1>1, <1>2, <1>3, <1>4 DEF RequestStep, HandlerStep

\* Faults are counted one at a time, and no step takes one back.
LEMMA FaultsGrow ==
    ASSUME Inv, [Next]_vars
    PROVE  faults' \in {faults, faults + 1} /\ (faults' = 0 => faults = 0)
  <1>1. faults \in Nat
    BY RefreshAssumption DEF Inv, TypeOK
  <1>2. CASE Tick \/ Use \/ ExpireRecord \/ TaskLoopTimer \/ UNCHANGED vars
    BY <1>1, <1>2 DEF Tick, Use, ExpireRecord, TaskLoopTimer, Fault, vars
  <1>3. ASSUME NEW r \in Requests, HeartbeatStep(r) \/ HeartbeatFails(r)
        PROVE  faults' \in {faults, faults + 1}
    BY <1>3 DEF HeartbeatStep, HeartbeatRead, HeartbeatExec, HeartbeatRetry, HeartbeatFails, Fault
  <1>4. ASSUME NEW p \in Stoppers, StopperStep(p) PROVE faults' \in {faults, faults + 1}
    BY <1>4 DEF StopperStep, FindToStop, BeginStop, FinishRecording, StopTaskForcibly,
                StopTaskWrite, ForceAgain, ExpireChildren, StopTaskFails, Fault
  <1>5. ASSUME NEW r \in Requests, RequestStep(r) PROVE faults' \in {faults, faults + 1}
    BY <1>5, RequestFrame
  <1> QED
    BY <1>1, <1>2, <1>3, <1>4, <1>5, StepKinds DEF SideStep

\* Nothing brings a stopped session back: an optimistic update whose EXEC goes
\* through has read the record as it is, hence an active one, and a stop only
\* ever writes a stopped one.
THEOREM StoppedIsFinal == Spec => StoppedStaysStopped
  <1>1. Inv /\ [Next]_vars => [rec.status # "active" => rec'.status # "active"]_vars
    BY RecordMoves DEF SameSession, Persisted
  <1> QED
    BY <1>1, Invariance, PTL DEF Spec, StoppedStaysStopped

-----------------------------------------------------------------------------
(* The record and the browser *)

\* The supervisor has answered, and the record has yet to follow.
Swapped(r) == ref[r].pc \in {"child", "rotate", "record", "persist", "exec"}

\* An outcome is given once, when the handler returns or its router dies.
Undecided == \A r \in Requests : ref[r].pc \notin {"release", "done"} => ref[r].outcome = "none"

\* A browser that comes up after its request has gone leaves an open outcome.
Answered == \A r \in Requests : supervisor = r => At(r, "swap") \/ ref[r].outcome = "doubtful"

Listed == {r \in Requests : ref[r].outcome = "ok" /\ ref[r].child}

\* Unless an outcome is open, the record is behind the browser by the settings
\* of the refresh that is under way, and by nothing when there is none.
Matching ==
    (rec.status = "active" /\ \A r \in Requests : ref[r].outcome # "doubtful")
    => /\ \A r \in Requests : Swapped(r) => browser = Changed(r, rec.cfg)
       /\ (\A r \in Requests : ~Swapped(r)) => browser = rec.cfg
       /\ rec.children = Listed

Followed == Undecided /\ Answered /\ Matching

\* A handler ends without an answer for certain ...
Doubts(r) ==
    /\ ref'[r].outcome = "doubtful" /\ ref'[r].pc \in {"release", "done"}
    /\ supervisor' \in {supervisor, Nobody}

\* ... or goes on to the supervisor's answer, or is refused; ...
Waits(r) ==
    /\ ref[r].pc \in {"arrive", "touch", "lock", "swap"}
    /\ \/ ref'[r].pc \in {"touch", "lock", "swap"} /\ ref'[r].outcome = "none"
       \/ ref'[r].pc \in {"release", "done"} /\ ref'[r].outcome = "refused"
    /\ browser' = browser
    /\ supervisor' \in {supervisor, r, Nobody} /\ (supervisor' = r => ref'[r].pc = "swap")

\* ... has the browser, or had it asked for; ...
GetsBrowser(r) ==
    /\ supervisor = r /\ supervisor' = Nobody
    /\ browser' = Changed(r, browser)
    /\ \/ ref[r].pc = "swap" /\ ref'[r].pc = "child" /\ ref'[r].outcome = "none"
       \/ ref[r].pc # "swap" /\ ref'[r] = ref[r]

\* ... goes on after that; ...
GoesOn(r) ==
    /\ \/ Swapped(r) /\ Swapped(r)'
       \/ ref[r].pc = "release" /\ ref'[r].pc = "done" /\ ref'[r].child = ref[r].child
    /\ ref'[r].outcome = ref[r].outcome
    /\ UNCHANGED <<browser, supervisor>>

\* ... or stores what it did.
Succeeds(r) ==
    /\ PersistExec(r)
    /\ ref[r].pc = "exec" /\ ref'[r].pc = "release"
    /\ ref'[r].outcome = "ok" /\ ref'[r].child = ref[r].child
    /\ UNCHANGED <<browser, supervisor>>

\* A step of a handler is of one of these kinds.
LEMMA RequestMoves ==
    ASSUME Inv, Undecided, Answered, NEW r \in Requests, RequestStep(r)
    PROVE  Doubts(r) \/ Waits(r) \/ GetsBrowser(r) \/ GoesOn(r) \/ Succeeds(r)
  <1>1. ref \in [Requests -> Refresh] /\ r # Nobody
    BY RefreshAssumption DEF Inv, TypeOK
  <1>2. CASE ref[r].pc \in {"arrive", "touch", "lock"}
    <2>1. ref[r].outcome = "none" /\ supervisor # r
      BY <1>2 DEF Undecided, Answered, At
    <2>2. CASE Arrive(r)
      BY <1>1, <2>1, <2>2 DEF Arrive, At, Refresh, Waits, task
    <2>3. CASE UpdateLastAccessTime(r)
      BY <1>1, <2>1, <2>3 DEF UpdateLastAccessTime, At, GoTo, Refresh, Waits, task
    <2>4. CASE Acquire(r)
      BY <1>1, <2>1, <2>4 DEF Acquire, At, GoTo, Refresh, Waits, task
    <2>5. CASE AcquireRefused(r)
      BY <1>1, <2>1, <2>5 DEF AcquireRefused, At, Refresh, Waits, task
    <2>6. CASE SupervisorDone(r)
      BY <2>1, <2>6 DEF SupervisorDone
    <2>7. CASE Crash(r)
      BY <1>1, <2>7 DEF Crash, Refresh, Doubts, task
    <2> QED
      BY <1>2, <2>2, <2>3, <2>4, <2>5, <2>6, <2>7
         DEF RequestStep, HandlerStep, SwapStep, Release, SupervisorTakes, SwapRefused, SwapGivenUp,
             WriteChild, WriteChildFails, WriteChildUncertain, Rotate, RotateFails, RotateUncertain,
             StartRecording, PersistRead, PersistExec, PersistRetry, PersistFails, At
  <1>3. CASE SwapStep(r)
    <2>1. CASE SupervisorTakes(r)
      <3>1. ref[r].outcome = "none"
        BY <2>1 DEF SupervisorTakes, At, Undecided
      <3> QED
        BY <1>1, <2>1, <3>1 DEF SupervisorTakes, At, Waits
    <2>2. CASE SwapRefused(r)
      BY <1>1, <2>2 DEF SwapRefused, At, Leave, Refresh, Waits
    <2>3. CASE SupervisorDone(r) /\ At(r, "swap")
      <3>1. ref[r].outcome = "none"
        BY <2>3 DEF At, Undecided
      <3>2. CASE GoTo(r, "child")
        BY <1>1, <2>3, <3>1, <3>2 DEF SupervisorDone, At, GoTo, Refresh, GetsBrowser
      <3>3. CASE Leave(r, "doubtful")
        BY <1>1, <2>3, <3>3 DEF SupervisorDone, Leave, Refresh, Doubts
      <3> QED
        BY <2>3, <3>2, <3>3 DEF SupervisorDone
    <2>4. CASE SupervisorDone(r) /\ ~At(r, "swap")
      BY <2>4 DEF SupervisorDone, At, GetsBrowser
    <2>5. CASE SwapGivenUp(r)
      BY <1>1, <2>5 DEF SwapGivenUp, Leave, Refresh, Doubts, task
    <2> QED
      BY <1>3, <2>1, <2>2, <2>3, <2>4, <2>5 DEF SwapStep
  <1>4. CASE WriteChild(r) \/ WriteChildFails(r)
    BY <1>1, <1>4 DEF WriteChild, WriteChildFails, WriteChildUncertain, At, GoTo, Refresh, GoesOn,
                      Swapped, task
  <1>5. CASE Rotate(r) \/ RotateFails(r) \/ StartRecording(r)
    BY <1>1, <1>5 DEF Rotate, RotateFails, RotateUncertain, StartRecording, At, GoTo, Refresh,
                      GoesOn, Swapped
  <1>6. CASE PersistRead(r)
    <2>1. CASE Leave(r, "doubtful")
      BY <1>1, <1>6, <2>1 DEF PersistRead, Leave, Refresh, Doubts, task
    <2>2. CASE ref' = [ref EXCEPT ![r].pc = "exec", ![r].seen = rec]
      BY <1>1, <1>6, <2>2 DEF PersistRead, At, Refresh, GoesOn, Swapped, task
    <2> QED
      BY <1>6, <2>1, <2>2 DEF PersistRead
  <1>7. CASE PersistExec(r)
    BY <1>1, <1>7 DEF PersistExec, At, Leave, Refresh, Succeeds, task
  <1>8. CASE PersistRetry(r)
    <2>1. UNCHANGED <<browser, supervisor>> /\ ref[r].pc = "exec"
      BY <1>8 DEF PersistRetry, task, At
    <2>2. CASE Leave(r, "doubtful")
      BY <1>1, <2>1, <2>2 DEF Leave, Refresh, Doubts
    <2>3. CASE ref' = [ref EXCEPT ![r].pc = "persist", ![r].try = @ + 1, ![r].seen = Absent]
      <3>1. ref'[r].pc = "persist" /\ ref'[r].outcome = ref[r].outcome
        BY <1>1, <2>3 DEF Refresh
      <3> QED
        BY <2>1, <3>1 DEF GoesOn, Swapped
    <2> QED
      BY <1>8, <2>2, <2>3, Zenon DEF PersistRetry
  <1>9. CASE PersistFails(r)
    BY <1>1, <1>9 DEF PersistFails, Leave, Refresh, Doubts, task
  <1>10. CASE Crash(r)
    BY <1>1, <1>10 DEF Crash, Refresh, Doubts, task
  <1>11. CASE Release(r)
    BY <1>1, <1>11 DEF Release, At, GoTo, Refresh, GoesOn, task
  <1> QED
    BY <1>2, <1>3, <1>4, <1>5, <1>6, <1>7, <1>8, <1>9, <1>10, <1>11
       DEF RequestStep, HandlerStep, Arrive, UpdateLastAccessTime, Acquire, AcquireRefused, At

\* Nothing is under way in the beginning.
LEMMA InitFollowed == Init => Followed
  BY RefreshAssumption
     DEF Init, Followed, Undecided, Answered, Matching, Swapped, Listed, Active, OriginalConfig

\* The record stays as far behind the browser while heartbeats, stops and time
\* go on beside the refreshes.
LEMMA SideFollowed ==
    ASSUME Inv, Followed, [Next]_vars, SideStep \/ UNCHANGED vars
    PROVE  Followed'
  <1>1. /\ \A r \in Requests : /\ ref'[r].pc = ref[r].pc
                               /\ ref'[r].outcome = ref[r].outcome
                               /\ ref'[r].child = ref[r].child
        /\ browser' = browser
        /\ supervisor' \in {supervisor, Nobody}
    BY SideFrame
  <1>2. SameSession \/ rec'.status # "active"
    <2>1. ASSUME NEW r \in Requests, Persisted(r) PROVE FALSE
      <3>1. ref[r].pc = "exec" /\ ref'[r].pc = "release"
        BY <2>1 DEF Persisted, PersistExec, At, Leave, Inv, TypeOK, Refresh
      <3> QED
        BY <1>1, <3>1
    <2> QED
      BY <2>1, RecordMoves
  <1>3. Undecided' /\ Answered'
    BY <1>1, RefreshAssumption DEF Followed, Undecided, Answered, At
  <1>4. Matching'
    <2>1. Listed' = Listed /\ \A r \in Requests : Swapped(r)' <=> Swapped(r)
      BY <1>1 DEF Listed, Swapped
    <2> QED
      BY <1>1, <1>2, <2>1 DEF Followed, Matching, SameSession, Changed
  <1> QED
    BY <1>3, <1>4 DEF Followed

\* A refresh that starts a browser is the only one at work, and it is the one
\* that brings the record up to date.
LEMMA RequestFollowed ==
    ASSUME LeaseOutlastsRefresh, Inv, Followed, NEW r \in Requests, RequestStep(r)
    PROVE  Followed'
  <1>1. \A s \in Requests \ {r} : ref'[s] = ref[s]
    BY RequestFrame
  <1>2. Doubts(r) \/ Waits(r) \/ GetsBrowser(r) \/ GoesOn(r) \/ Succeeds(r)
    BY RequestMoves DEF Followed
  <1>3. SameSession \/ rec'.status # "active" \/ (Persisted(r) /\ Succeeds(r))
    <2>1. [Next]_vars
      BY DEF Next, RequestStep
    <2>2. ASSUME NEW s \in Requests, Persisted(s) PROVE s = r
      <3>1. ref[s].pc = "exec" /\ ref'[s].pc = "release"
        BY <2>2 DEF Persisted, PersistExec, At, Leave, Inv, TypeOK, Refresh
      <3> QED
        BY <1>1, <3>1
    <2>3. ASSUME Persisted(r) PROVE Succeeds(r)
      BY <2>3 DEF Persisted, PersistExec, At, Leave, Inv, TypeOK, Refresh, Succeeds, task
    <2> QED
      BY <2>1, <2>2, <2>3, RecordMoves
  <1>4. Undecided'
    BY <1>1, <1>2 DEF Followed, Undecided, Doubts, Waits, GetsBrowser, GoesOn, Swapped, Succeeds
  <1>5. Answered'
    BY <1>1, <1>2, RefreshAssumption
       DEF Followed, Answered, Undecided, At, Doubts, Waits, GetsBrowser, GoesOn, Swapped, Succeeds
  \* While a refresh is past the lock, no other has a browser to record.
  <1>6. ASSUME InProgress(r), NEW s \in Requests \ {r} PROVE ~Swapped(s)
    BY <1>6, Exclusion DEF OneRefreshAtATime, InProgress, Swapped, Steps, Timed
  <1>7. Matching'
    <2> SUFFICES ASSUME rec'.status = "active", \A s \in Requests : ref'[s].outcome # "doubtful"
                 PROVE  /\ \A s \in Requests : Swapped(s)' => browser' = Changed(s, rec'.cfg)
                        /\ (\A s \in Requests : ~Swapped(s)') => browser' = rec'.cfg
                        /\ rec'.children = Listed'
      BY DEF Matching
    <2>1. \A s \in Requests \ {r} : (Swapped(s)' <=> Swapped(s)) /\ (s \in Listed' <=> s \in Listed)
      BY <1>1 DEF Swapped, Listed
    <2>2. ~Doubts(r) /\ \A s \in Requests : ref[s].outcome # "doubtful"
      BY <1>1, <1>2 DEF Followed, Undecided, Doubts, Waits, GetsBrowser, GoesOn, Succeeds
    <2>3. rec.status = "active" => /\ \A s \in Requests : Swapped(s) => browser = Changed(s, rec.cfg)
                                   /\ (\A s \in Requests : ~Swapped(s)) => browser = rec.cfg
                                   /\ rec.children = Listed
      BY <2>2 DEF Followed, Matching
    <2>4. CASE Waits(r) \/ GoesOn(r)
      <3>1. SameSession
        BY <1>3, <2>4 DEF Waits, GoesOn, Succeeds, Swapped
      <3>2. (Swapped(r)' <=> Swapped(r)) /\ (r \in Listed' <=> r \in Listed)
        BY <2>4 DEF Waits, GoesOn, Swapped, Listed, Followed, Undecided
      <3>3. Listed' = Listed
        BY <2>1, <3>2 DEF Listed
      <3>4. browser' = browser
        BY <2>4 DEF Waits, GoesOn
      <3> QED
        BY <2>1, <2>3, <3>1, <3>2, <3>3, <3>4 DEF SameSession
    <2>5. CASE GetsBrowser(r)
      <3>1. SameSession /\ rec.status = "active"
        BY <1>3, <2>5 DEF GetsBrowser, Succeeds, SameSession
      <3>2. At(r, "swap")
        BY <2>2, <2>5 DEF Followed, Answered, GetsBrowser
      <3>3. \A s \in Requests : ~Swapped(s)
        BY <1>6, <3>2 DEF At, InProgress, Steps, Timed, Swapped
      <3>4. browser = rec.cfg /\ browser' = Changed(r, rec'.cfg)
        BY <2>3, <2>5, <3>1, <3>3 DEF GetsBrowser, SameSession
      <3>5. Swapped(r)' /\ ref'[r].outcome = "none" /\ ref[r].outcome = "none"
        BY <2>5, <3>2 DEF GetsBrowser, At, Swapped, Followed, Undecided
      <3>6. Listed' = Listed
        BY <2>1, <3>5 DEF Listed
      <3> QED
        BY <2>1, <2>3, <3>1, <3>3, <3>4, <3>5, <3>6 DEF SameSession
    <2>6. CASE Succeeds(r)
      <3>1. Persisted(r) /\ rec.status = "active"
        BY <2>6, ExecPersists DEF Succeeds, Persisted
      <3>2. Swapped(r) /\ ~Swapped(r)' /\ InProgress(r)
        BY <2>6 DEF Succeeds, Swapped, InProgress, Steps, Timed
      <3>3. \A s \in Requests : ~Swapped(s)'
        BY <1>6, <2>1, <3>2
      <3>4. browser' = rec'.cfg
        BY <2>3, <2>6, <3>1, <3>2 DEF Persisted, Succeeds
      <3>5. Listed' = IF ref[r].child THEN Listed \cup {r} ELSE Listed
        BY <2>1, <2>6 DEF Listed, Succeeds, Followed, Undecided
      <3> QED
        BY <2>3, <3>1, <3>3, <3>4, <3>5 DEF Persisted
    <2> QED
      BY <1>2, <2>2, <2>4, <2>5, <2>6
  <1> QED
    BY <1>4, <1>5, <1>7 DEF Followed

\* When the lease covers the limits, the record of an active session has the
\* settings of the browser that runs and lists the ids that were handed out,
\* once every refresh has ended and none with an open outcome: whatever else
\* touched the record between the read and the EXEC of UpdateSession.
THEOREM RecordFollowsBrowser ==
    ASSUME LeaseOutlastsRefresh
    PROVE  Spec => []RecordMatchesBrowser
  <1>1. Inv /\ Followed /\ [Next]_vars => Followed'
    BY LeaseOutlastsRefresh, StepKinds, SideFollowed, RequestFollowed
  <1>2. Followed => RecordMatchesBrowser
    BY DEF Followed, Matching, RecordMatchesBrowser, Swapped, Listed
  <1> QED
    BY <1>1, <1>2, InitFollowed, Invariance, PTL DEF Spec

-----------------------------------------------------------------------------
(* The children and the recorder *)

\* The settings under which the key of a child outlasts the task: its TTL is the
\* configured maximum and a grace, the task's limit is a maximum of its own, which
\* the task may exceed by the pass that finds it overdue and by every pass that
\* fails to stop it.
ChildOutlivesTask == MaxTimeout + 1 + MaxFaults < ConfMaxTimeout + ChildGrace

\* Whose id the session has handed to anyone.
HandedOut(r) == ref[r].child \/ r \in rec.children \/ r = recorder.scope

\* While the session is served its task is hardly overdue, no stop is past the end
\* of the task, and a key in use has lost no more than the task has lived.
Resolving ==
    /\ \A r \in Requests : At(r, "rotate") => ref[r].child
    /\ Served =>
          /\ age <= MaxTimeout + 1 + faults
          /\ \A p \in Stoppers : stopper[p].pc \notin {"write", "expire"}
          /\ \A r \in Requests : HandedOut(r) => childTTL[r] + age >= childSessionTTL

\* What a request does to its child, and to the recorder's scope.
LEMMA RequestChild ==
    ASSUME Inv, NEW r \in Requests, RequestStep(r)
    PROVE  /\ childTTL' \in {childTTL, [childTTL EXCEPT ![r] = childSessionTTL]}
           /\ \/ ref'[r].child = ref[r].child /\ (At(r, "rotate")' => At(r, "rotate"))
              \/ ref'[r].child /\ childTTL' = [childTTL EXCEPT ![r] = childSessionTTL]
           /\ \/ recorder'.scope = recorder.scope
              \/ recorder'.scope = r /\ At(r, "rotate") /\ ref'[r].child = ref[r].child
  <1>1. ref \in [Requests -> Refresh] /\ recorder \in [scope : Requests \cup {Original}, on : BOOLEAN]
    BY DEF Inv, TypeOK
  <1>2. CASE Arrive(r) \/ UpdateLastAccessTime(r) \/ Acquire(r) \/ AcquireRefused(r) \/ Release(r)
    BY <1>1, <1>2 DEF Arrive, UpdateLastAccessTime, Acquire, AcquireRefused, Release, At, GoTo,
                      Refresh, task, session
  <1>3. CASE SwapStep(r)
    BY <1>1, <1>3 DEF SwapStep, SupervisorTakes, SwapRefused, SupervisorDone, SwapGivenUp, At, GoTo,
                      Leave, Refresh, task, session
  <1>4. CASE WriteChild(r) \/ WriteChildFails(r)
    BY <1>1, <1>4 DEF WriteChild, WriteChildFails, WriteChildUncertain, At, GoTo,
                      Refresh, task, session
  <1>5. CASE Rotate(r) \/ RotateFails(r) \/ StartRecording(r)
    BY <1>1, <1>5 DEF Rotate, RotateFails, RotateUncertain, Rotated, StartRecording, At, GoTo,
                      Refresh, task, session
  <1>6. CASE PersistRead(r) \/ PersistExec(r) \/ PersistFails(r) \/ Crash(r)
    BY <1>1, <1>6 DEF PersistRead, PersistExec, PersistFails, Crash, At, Leave, Refresh, task, session
  <1>7. CASE PersistRetry(r)
    <2>1. UNCHANGED <<childTTL, recorder>>
      BY <1>7 DEF PersistRetry, task, session
    <2>2. \/ Leave(r, "doubtful")
          \/ ref' = [ref EXCEPT ![r].pc = "persist", ![r].try = @ + 1, ![r].seen = Absent]
      BY <1>7, Zenon DEF PersistRetry
    <2> QED
      BY <1>1, <2>1, <2>2 DEF At, Leave, Refresh
  <1> QED
    BY <1>2, <1>3, <1>4, <1>5, <1>6, <1>7 DEF RequestStep, HandlerStep

\* There are no ids but the original one in the beginning.
LEMMA InitResolving == Init => Resolving
  BY RefreshAssumption DEF Init, Resolving, HandedOut, At, Active

\* A session that is not served any more is never served again.
LEMMA ServedOnce == ASSUME Inv, [Next]_vars, Served' PROVE Served
  <1>1. rec.status = "active"
    BY RecordMoves DEF Served, SameSession, Persisted
  <1>2. alive' \in {alive, FALSE}
    <2>1. CASE Tick \/ Use \/ ExpireRecord \/ TaskLoopTimer \/ UNCHANGED vars
      BY <2>1 DEF Tick, Use, ExpireRecord, TaskLoopTimer, vars
    <2>2. ASSUME NEW r \in Requests, HeartbeatStep(r) \/ HeartbeatFails(r) PROVE alive' = alive
      BY <2>2 DEF HeartbeatStep, HeartbeatRead, HeartbeatExec, HeartbeatRetry, HeartbeatFails
    <2>3. ASSUME NEW p \in Stoppers, StopperStep(p) PROVE alive' \in {alive, FALSE}
      BY <2>3 DEF StopperStep, FindToStop, FinishRecording, StopTaskForcibly, StopTaskWrite,
                  ForceAgain, ExpireChildren, TaskEnds
    <2>4. ASSUME NEW r \in Requests, RequestStep(r) PROVE alive' = alive
      BY <2>4, RequestFrame
    <2> QED
      BY <2>1, <2>2, <2>3, <2>4, StepKinds DEF SideStep
  <1> QED
    BY <1>1, <1>2 DEF Served

\* A pass of the task loop takes from a key what it adds to the age of the task,
\* and the key has that much left.
LEMMA TimerResolving == ASSUME ChildOutlivesTask, Inv, Resolving, TaskLoopTimer PROVE Resolving'
  <1>1. /\ {MaxTimeout, ConfMaxTimeout, ChildGrace, MaxFaults, age, faults} \subseteq Nat
        /\ faults <= MaxFaults
        /\ childTTL \in [Requests -> Nat]
    BY RefreshAssumption DEF Inv, TypeOK
  <1>2. /\ UNCHANGED <<rec, recorder, ref, stopper, alive>>
        /\ \A r \in Requests : At(r, "rotate")' => ref'[r].child
    BY DEF TaskLoopTimer, task, Resolving, At
  <1>3. CASE Served
    <2>1. /\ age <= MaxTimeout + 1 + faults
          /\ \A r \in Requests : HandedOut(r) => childTTL[r] + age >= childSessionTTL
      BY <1>3 DEF Resolving
    <2>2. age' = age + 1 /\ faults' \in Nat /\ age' <= MaxTimeout + 1 + faults'
      BY <1>1, <1>3, <2>1 DEF TaskLoopTimer, Overdue, Fault
    <2>3. ASSUME NEW r \in Requests, HandedOut(r) PROVE childTTL'[r] + age' >= childSessionTTL
      <3>1. childTTL[r] \in Nat /\ childTTL[r] + age >= ConfMaxTimeout + ChildGrace
        BY <1>1, <2>1, <2>3 DEF childSessionTTL
      <3>2. childTTL[r] # 0
        BY <1>1, <2>1, <3>1 DEF ChildOutlivesTask
      <3>3. childTTL'[r] = childTTL[r] - 1
        BY <3>2 DEF TaskLoopTimer
      <3> QED
        BY <1>1, <2>2, <3>1, <3>2, <3>3 DEF childSessionTTL
    <2> QED
      BY <1>2, <1>3, <2>2, <2>3 DEF Resolving, HandedOut
  <1>4. CASE ~Served
    BY <1>2, <1>4 DEF Resolving, Served
  <1> QED
    BY <1>3, <1>4

\* Of those who stop the session, nobody touches a key before the task has ended.
LEMMA StopperResolving ==
    ASSUME Inv, Resolving, NEW p \in Stoppers, StopperStep(p), Served, alive'
    PROVE  /\ UNCHANGED <<childTTL, age>> /\ recorder'.scope = recorder.scope
           /\ \A q \in Stoppers : stopper'[q].pc \notin {"write", "expire"}
  <1>1. /\ stopper \in [Stoppers -> Stopper]
        /\ recorder \in [scope : Requests \cup {Original}, on : BOOLEAN]
    BY DEF Inv, TypeOK
  <1>2. \A q \in Stoppers : stopper[q].pc \notin {"write", "expire"}
    BY DEF Resolving
  <1>3. CASE FindToStop(p)
    BY <1>1, <1>2, <1>3 DEF FindToStop, BeginStop, task
  <1>4. CASE FinishRecording(p)
    BY <1>1, <1>2, <1>4 DEF FinishRecording, session
  <1>5. CASE StopTaskForcibly(p)
    BY <1>1, <1>2, <1>5 DEF StopTaskForcibly, StopTaskFails, TaskEnds, StopperEnds, session, Stopper
  <1>6. CASE ForceAgain(p)
    BY <1>1, <1>2, <1>6 DEF ForceAgain, TaskEnds, StopperEnds, session, Stopper
  <1>7. CASE StopTaskWrite(p) \/ ExpireChildren(p)
    BY <1>2, <1>7 DEF StopTaskWrite, ExpireChildren
  <1> QED
    BY <1>3, <1>4, <1>5, <1>6, <1>7 DEF StopperStep

\* Beside the refreshes, only the task loop's clock takes anything from the keys.
LEMMA SideResolving ==
    ASSUME ChildOutlivesTask, Inv, Resolving, [Next]_vars, SideStep \/ UNCHANGED vars
    PROVE  Resolving'
  <1>1. \A r \in Requests : ref'[r].pc = ref[r].pc /\ ref'[r].child = ref[r].child
    BY SideFrame
  <1>2. SameSession \/ rec'.status # "active"
    <2>1. ASSUME NEW r \in Requests, Persisted(r) PROVE FALSE
      <3>1. ref[r].pc = "exec" /\ ref'[r].pc = "release"
        BY <2>1 DEF Persisted, PersistExec, At, Leave, Inv, TypeOK, Refresh
      <3> QED
        BY <1>1, <3>1
    <2> QED
      BY <2>1, RecordMoves
  <1>3. ASSUME Served', ~TaskLoopTimer
        PROVE  /\ UNCHANGED <<childTTL, age>> /\ recorder'.scope = recorder.scope
               /\ \A p \in Stoppers : stopper'[p].pc \notin {"write", "expire"}
    <2>1. Served /\ \A p \in Stoppers : stopper[p].pc \notin {"write", "expire"}
      BY <1>3, ServedOnce DEF Resolving
    <2>2. CASE Tick \/ Use \/ ExpireRecord \/ UNCHANGED vars
      BY <2>1, <2>2 DEF Tick, Use, ExpireRecord, vars, task
    <2>3. ASSUME NEW p \in Stoppers, StopperStep(p)
          PROVE  /\ UNCHANGED <<childTTL, age>> /\ recorder'.scope = recorder.scope
                 /\ \A q \in Stoppers : stopper'[q].pc \notin {"write", "expire"}
      BY <1>3, <2>1, <2>3, StopperResolving DEF Served
    <2>4. ASSUME NEW r \in Requests, HeartbeatStep(r) \/ HeartbeatFails(r)
          PROVE  UNCHANGED <<childTTL, age, recorder, stopper>>
      BY <2>4 DEF HeartbeatStep, HeartbeatRead, HeartbeatExec, HeartbeatRetry, HeartbeatFails,
                  task, session
    <2> QED
      BY <1>3, <2>1, <2>2, <2>3, <2>4 DEF SideStep
  <1>4. CASE ~TaskLoopTimer
    <2>1. \A r \in Requests : At(r, "rotate")' => ref'[r].child
      BY <1>1 DEF Resolving, At
    <2>2. ASSUME Served'
          PROVE  /\ age' <= MaxTimeout + 1 + faults'
                 /\ \A r \in Requests : HandedOut(r)' => childTTL'[r] + age' >= childSessionTTL
      <3>1. /\ Served /\ rec'.children = rec.children
            /\ UNCHANGED <<childTTL, age>> /\ recorder'.scope = recorder.scope
        BY <1>2, <1>3, <1>4, <2>2, ServedOnce DEF SameSession, Served
      <3>2. {age, faults, MaxTimeout} \subseteq Nat /\ faults' \in {faults, faults + 1}
        BY FaultsGrow, RefreshAssumption DEF Inv, TypeOK
      <3>3. /\ age <= MaxTimeout + 1 + faults
            /\ \A r \in Requests : HandedOut(r) => childTTL[r] + age >= childSessionTTL
        BY <3>1 DEF Resolving
      <3>4. age' <= MaxTimeout + 1 + faults'
        BY <3>1, <3>2, <3>3
      <3>5. \A r \in Requests : HandedOut(r)' => HandedOut(r)
        BY <1>1, <3>1 DEF HandedOut
      <3> QED
        BY <3>1, <3>3, <3>4, <3>5
    <2> QED
      BY <1>3, <1>4, <2>1, <2>2 DEF Resolving, childSessionTTL
  <1> QED
    BY <1>4, TimerResolving

\* A handler writes the key before it hands the id to the recorder or the record.
LEMMA RequestResolving ==
    ASSUME Inv, Resolving, NEW r \in Requests, RequestStep(r)
    PROVE  Resolving'
  <1>1. /\ \A s \in Requests \ {r} : ref'[s] = ref[s]
        /\ UNCHANGED <<stopper, age>>
    BY RequestFrame
  <1>2. /\ childTTL' \in {childTTL, [childTTL EXCEPT ![r] = childSessionTTL]}
        /\ \/ ref'[r].child = ref[r].child /\ (At(r, "rotate")' => At(r, "rotate"))
           \/ ref'[r].child /\ childTTL' = [childTTL EXCEPT ![r] = childSessionTTL]
        /\ \/ recorder'.scope = recorder.scope
           \/ recorder'.scope = r /\ At(r, "rotate") /\ ref'[r].child = ref[r].child
    BY RequestChild
  <1>3. /\ childTTL \in [Requests -> Nat]
        /\ {age, faults, MaxTimeout, childSessionTTL} \subseteq Nat
    BY RefreshAssumption DEF Inv, TypeOK, childSessionTTL
  <1>4. [Next]_vars
    BY DEF Next, RequestStep
  <1>5. \A s \in Requests : At(s, "rotate")' => ref'[s].child
    BY <1>1, <1>2 DEF Resolving, At
  <1>6. ASSUME Served'
        PROVE  /\ age' <= MaxTimeout + 1 + faults'
               /\ \A p \in Stoppers : stopper'[p].pc \notin {"write", "expire"}
               /\ \A s \in Requests : HandedOut(s)' => childTTL'[s] + age' >= childSessionTTL
    <2>1. Served
      BY <1>4, <1>6, ServedOnce
    <2>2. age' <= MaxTimeout + 1 + faults'
      <3>1. faults' \in {faults, faults + 1} /\ age <= MaxTimeout + 1 + faults
        BY <1>4, <2>1, FaultsGrow DEF Resolving
      <3> QED
        BY <1>1, <1>3, <3>1
    <2>3. ASSUME NEW s \in rec'.children
          PROVE  s \in rec.children \/ (s \in Requests /\ ref[s].child)
      BY <1>4, <1>6, <2>3, RecordMoves DEF SameSession, Persisted, Served
    <2>4. ASSUME NEW s \in Requests, HandedOut(s)'
          PROVE  HandedOut(s) \/ childTTL'[s] = childSessionTTL
      BY <1>1, <1>2, <1>3, <2>3, <2>4 DEF HandedOut, Resolving, At
    <2>5. \A s \in Requests : childTTL'[s] = childTTL[s] \/ childTTL'[s] = childSessionTTL
      BY <1>2, <1>3
    <2>6. ASSUME NEW s \in Requests, HandedOut(s)'
          PROVE  childTTL'[s] + age' >= childSessionTTL
      <3>1. CASE childTTL'[s] = childSessionTTL
        BY <1>1, <1>3, <3>1
      <3>2. CASE HandedOut(s) /\ childTTL'[s] = childTTL[s]
        BY <1>1, <2>1, <3>2 DEF Resolving
      <3> QED
        BY <2>4, <2>5, <2>6, <3>1, <3>2
    <2> QED
      BY <1>1, <2>1, <2>2, <2>6 DEF Resolving
  <1> QED
    BY <1>5, <1>6 DEF Resolving, childSessionTTL

\* If the session's own maxTimeout, with one more pass for each that fails, stays
\* below the configured maximum and the grace, then the recorder publishes under
\* an id, and the record lists it, only while its key exists: for any number of
\* refreshes and for every order of rotations that fail half-way, crashes, stops
\* and expirations, and whether or not refreshes exclude each other.  Nothing in
\* the code makes a session keep to the premise.
THEOREM ArtifactsResolve ==
    ASSUME ChildOutlivesTask
    PROVE  Spec => []ArtifactsAreReachable
  <1>1. Inv /\ Resolving /\ [Next]_vars => Resolving'
    BY StepKinds, SideResolving, RequestResolving
  <1>2. Inv /\ Resolving => ArtifactsAreReachable
    <2> SUFFICES ASSUME Inv, Resolving, Served, NEW r \in Requests,
                        r = recorder.scope \/ r \in rec.children
                 PROVE  childTTL[r] > 0
      BY DEF ArtifactsAreReachable
    <2>1. /\ {MaxTimeout, ConfMaxTimeout, ChildGrace, MaxFaults, age, faults} \subseteq Nat
          /\ faults <= MaxFaults /\ childTTL[r] \in Nat
      BY RefreshAssumption DEF Inv, TypeOK
    <2>2. childTTL[r] + age >= ConfMaxTimeout + ChildGrace /\ age <= MaxTimeout + 1 + faults
      BY DEF Resolving, HandedOut, childSessionTTL
    <2> QED
      BY <2>1, <2>2 DEF ChildOutlivesTask
  <1> QED
    BY <1>1, <1>2, InitResolving, Invariance, PTL DEF Spec

\* Unless a call failed, a stop that has begun ends with the task.
Undisturbed ==
    (faults = 0 /\ alive) => \A p \in Stoppers : stopper[p].pc \in {"watch", "stop"}

Recorded == Undisturbed /\ RecordingGoesOn

\* A handler that has stopped the recorder is on its way to start it again.
LEMMA RequestRecorder ==
    ASSUME Inv, NEW r \in Requests, RequestStep(r), faults' = 0, faults = 0, alive
    PROVE  \/ recorder' = recorder /\ (ref[r].pc \in {"rotate", "record"} =>
                                           ref'[r].pc \in {"rotate", "record"})
           \/ ref'[r].pc \in {"rotate", "record"}
           \/ recorder'.on
  <1>1. /\ ref \in [Requests -> Refresh]
        /\ recorder \in [scope : Requests \cup {Original}, on : BOOLEAN]
        /\ ~Fault
    BY DEF Inv, TypeOK, Fault
  <1>2. CASE Arrive(r) \/ UpdateLastAccessTime(r) \/ Acquire(r) \/ AcquireRefused(r) \/ Release(r)
    BY <1>1, <1>2 DEF Arrive, UpdateLastAccessTime, Acquire, AcquireRefused, Release, At, task
  <1>3. CASE SwapStep(r)
    BY <1>1, <1>3 DEF SwapStep, SupervisorTakes, SwapRefused, SupervisorDone, SwapGivenUp, At, task
  <1>4. CASE WriteChild(r) \/ WriteChildFails(r)
    BY <1>1, <1>4 DEF WriteChild, WriteChildFails, WriteChildUncertain, At, task
  <1>5. CASE Rotate(r) \/ RotateFails(r)
    BY <1>1, <1>5 DEF Rotate, RotateFails, RotateUncertain, At, GoTo, Refresh
  <1>6. CASE StartRecording(r)
    BY <1>1, <1>6 DEF StartRecording
  <1>7. CASE PersistRead(r) \/ PersistExec(r) \/ PersistRetry(r)
    BY <1>1, <1>7 DEF PersistRead, PersistExec, PersistRetry, At, task
  <1>8. CASE PersistFails(r) \/ Crash(r)
    BY <1>1, <1>8 DEF PersistFails, Crash
  <1> QED
    BY <1>2, <1>3, <1>4, <1>5, <1>6, <1>7, <1>8 DEF RequestStep, HandlerStep

\* The recorder runs in the beginning.
LEMMA InitRecorded == Init => Recorded
  BY DEF Init, Recorded, Undisturbed, RecordingGoesOn

\* The recorder is only off for a rotation under way, or for a stop.
LEMMA StepRecorded == ASSUME Inv, Recorded, [Next]_vars PROVE Recorded'
  <1> SUFFICES ASSUME faults' = 0, alive' PROVE Recorded'
    BY DEF Recorded, Undisturbed, RecordingGoesOn
  <1>1. faults = 0 /\ ~Fault
    BY FaultsGrow DEF Inv, TypeOK, Fault
  <1>2. ASSUME NEW r \in Requests, RequestStep(r) PROVE Recorded'
    <2>1. UNCHANGED <<stopper, alive>> /\ \A s \in Requests \ {r} : ref'[s] = ref[s]
      BY <1>2, RequestFrame
    <2>2. \/ recorder' = recorder /\ (ref[r].pc \in {"rotate", "record"} =>
                                           ref'[r].pc \in {"rotate", "record"})
          \/ ref'[r].pc \in {"rotate", "record"}
          \/ recorder'.on
      BY <1>1, <1>2, <2>1, RequestRecorder
    <2> QED
      BY <1>1, <2>1, <2>2 DEF Recorded, Undisturbed, RecordingGoesOn
  <1>3. ASSUME NEW p \in Stoppers, StopperStep(p) PROVE Recorded'
    <2>1. stopper \in [Stoppers -> Stopper]
      BY DEF Inv, TypeOK
    <2>2. alive /\ ref' = ref /\ stopper[p].pc \in {"watch", "stop"}
      <3>1. ref' = ref /\ (alive' = alive \/ alive' = FALSE)
        BY <1>3 DEF StopperStep, FindToStop, BeginStop, FinishRecording, StopTaskForcibly,
                    StopTaskWrite, ForceAgain, ExpireChildren, TaskEnds
      <3> QED
        BY <1>1, <3>1 DEF Recorded, Undisturbed
    <2>3. CASE FindToStop(p)
      BY <1>1, <2>1, <2>2, <2>3 DEF FindToStop, BeginStop, Recorded, Undisturbed, RecordingGoesOn, task
    <2>4. CASE FinishRecording(p)
      BY <1>1, <2>1, <2>2, <2>4 DEF FinishRecording, Recorded, Undisturbed, RecordingGoesOn
    <2>5. CASE StopTaskForcibly(p) \/ StopTaskWrite(p) \/ ForceAgain(p) \/ ExpireChildren(p)
      BY <1>1, <2>2, <2>5 DEF StopTaskForcibly, StopTaskWrite, ForceAgain, ExpireChildren,
                              StopTaskFails, TaskEnds
    <2> QED
      BY <1>3, <2>3, <2>4, <2>5 DEF StopperStep
  <1>4. ASSUME UNCHANGED <<recorder, stopper, alive>>, SideStep \/ UNCHANGED vars PROVE Recorded'
    <2>1. \A r \in Requests : ref'[r].pc = ref[r].pc
      BY <1>4, SideFrame
    <2> QED
      BY <1>1, <1>4, <2>1 DEF Recorded, Undisturbed, RecordingGoesOn
  <1>5. CASE Tick \/ Use \/ ExpireRecord \/ TaskLoopTimer \/ UNCHANGED vars
    BY <1>4, <1>5 DEF Tick, Use, ExpireRecord, TaskLoopTimer, SideStep, vars, task
  <1>6. ASSUME NEW r \in Requests, HeartbeatStep(r) \/ HeartbeatFails(r)
        PROVE  Recorded'
    <2>1. UNCHANGED <<recorder, stopper, alive>>
      BY <1>6 DEF HeartbeatStep, HeartbeatRead, HeartbeatExec, HeartbeatRetry, HeartbeatFails, task
    <2> QED
      BY <1>4, <1>6, <2>1 DEF SideStep
  <1> QED
    BY <1>2, <1>3, <1>5, <1>6, StepKinds DEF SideStep

\* Without failed calls a session that nobody stops is recorded whenever no
\* refresh is between its rotation and its start of the recorder, also when
\* rotations ran out of time half-way.
THEOREM RecordingResumes == Spec => []RecordingGoesOn
  <1>1. Inv /\ Recorded /\ [Next]_vars => Recorded'
    BY StepRecorded
  <1>2. Recorded => RecordingGoesOn
    BY DEF Recorded
  <1> QED
    BY <1>1, <1>2, InitRecorded, Invariance, PTL DEF Spec

-----------------------------------------------------------------------------
(* The heartbeat *)

\* A heartbeat that has not given up is never more than a minute behind.
Fresh(r) ==
    \/ hb[r].pc = "gaveUp"
    \/ hb[r].pc = "wait" /\ ~hb[r].due /\ rec.unused = 0
    \/ hb[r].pc \in {"wait", "retry", "exec"} /\ (hb[r].pc = "wait" => hb[r].due) /\ rec.unused <= 1

Beating ==
    (faults = 0 /\ rec.status = "active") =>
        \A r \in Requests : /\ At(r, "lock") => rec.unused = 0
                            /\ HeldOpen(r) => Fresh(r)

\* How a request comes to wait for the lock, and to hold the session open.
LEMMA RequestHeartbeat ==
    ASSUME Inv, NEW r \in Requests, RequestStep(r), faults = 0, faults' = 0,
           rec.status = "active"
    PROVE  /\ At(r, "lock")' => rec'.unused = 0 \/ (At(r, "lock") /\ rec' = rec)
           /\ HeldOpen(r)' => \/ HeldOpen(r) /\ hb'[r] = hb[r]
                              \/ At(r, "lock") /\ hb'[r].pc = "wait" /\ hb'[r].due = hb[r].due
                                 /\ rec' = rec
  <1>1. /\ ref \in [Requests -> Refresh] /\ hb \in [Requests -> Heartbeat] /\ rec \in Record
        /\ ~Fault
    BY DEF Inv, TypeOK, Fault
  <1>2. CASE Arrive(r) \/ AcquireRefused(r) \/ Release(r)
    BY <1>1, <1>2 DEF Arrive, AcquireRefused, Release, At, GoTo, HeldOpen, Refresh
  <1>3. CASE UpdateLastAccessTime(r)
    BY <1>1, <1>3 DEF UpdateLastAccessTime, At, GoTo, Touch, Store, HeldOpen, Refresh, Record
  <1>4. CASE Acquire(r)
    BY <1>1, <1>4 DEF Acquire, At, GoTo, HeldOpen, Refresh, Heartbeat, session
  <1>5. CASE SwapStep(r)
    <2>1. CASE SupervisorTakes(r)
      BY <1>1, <2>1 DEF SupervisorTakes, At, HeldOpen
    <2>2. CASE SwapRefused(r) \/ SwapGivenUp(r)
      BY <1>1, <2>2 DEF SwapRefused, SwapGivenUp, At, Leave, HeldOpen, Refresh
    <2>3. CASE SupervisorDone(r) /\ At(r, "swap")
      BY <1>1, <2>3 DEF SupervisorDone, At, GoTo, HeldOpen, Refresh
    <2>4. CASE SupervisorDone(r) /\ ~At(r, "swap")
      BY <1>1, <2>4, RequestFrame DEF SupervisorDone, At, HeldOpen, session
    <2> QED
      BY <1>5, <2>1, <2>2, <2>3, <2>4 DEF SwapStep
  <1>6. CASE WriteChild(r) \/ WriteChildFails(r)
    BY <1>1, <1>6 DEF WriteChild, WriteChildFails, WriteChildUncertain, At, HeldOpen, Refresh
  <1>7. CASE Rotate(r) \/ RotateFails(r) \/ StartRecording(r)
    BY <1>1, <1>7 DEF Rotate, RotateFails, StartRecording, RotateUncertain, At, GoTo, HeldOpen,
                      Refresh
  <1>8. CASE PersistRead(r) \/ PersistExec(r)
    BY <1>1, <1>8 DEF PersistRead, PersistExec, At, Leave, HeldOpen, Refresh
  <1>9. CASE PersistRetry(r)
    <2>1. \/ Leave(r, "doubtful")
          \/ ref' = [ref EXCEPT ![r].pc = "persist", ![r].try = @ + 1, ![r].seen = Absent]
      BY <1>9, Zenon DEF PersistRetry
    <2> QED
      BY <1>1, <2>1 DEF At, Leave, HeldOpen, Refresh
  <1>10. CASE PersistFails(r) \/ Crash(r)
    BY <1>1, <1>10 DEF PersistFails, Crash
  <1> QED
    BY <1>2, <1>3, <1>4, <1>5, <1>6, <1>7, <1>8, <1>9, <1>10 DEF RequestStep, HandlerStep

\* Nobody holds the session open in the beginning.
LEMMA InitBeating == Init => Beating
  BY DEF Init, Beating, At, HeldOpen

\* Time passes only when every heartbeat has done its last touch.
LEMMA TickBeating == ASSUME Inv, Beating, Tick PROVE Beating'
  <1> SUFFICES ASSUME faults' = 0, rec'.status = "active", NEW r \in Requests
               PROVE  (At(r, "lock") => rec.unused = 0)' /\ (HeldOpen(r) => Fresh(r))'
    BY DEF Beating
  <1>1. /\ hb \in [Requests -> Heartbeat] /\ rec \in Record /\ rec.unused \in Nat
        /\ ref \in [Requests -> Refresh] /\ ref[r].elapsed \in Nat
    BY RefreshAssumption DEF Inv, TypeOK, Record, Refresh, LongestStep
  <1>2. faults = 0 /\ rec.status = "active" /\ rec'.unused \in {rec.unused, rec.unused + 1}
    BY <1>1 DEF Tick, Record
  <1>3. ref'[r].pc = ref[r].pc
    BY SideFrame DEF SideStep
  <1>4. ~At(r, "lock")
    BY <1>1 DEF Tick, MayWait, Unbounded, Limit, At
  <1>5. /\ hb[r].pc \notin {"retry", "exec"} /\ ~hb[r].due
        /\ hb'[r].pc = hb[r].pc /\ (hb[r].pc = "wait" => hb'[r].due)
    BY <1>1 DEF Tick, Heartbeat, Fires
  <1>6. HeldOpen(r) => Fresh(r)
    BY <1>2 DEF Beating
  <1> QED
    BY <1>1, <1>2, <1>3, <1>4, <1>5, <1>6 DEF HeldOpen, Fresh, At

\* A heartbeat touches the record, tries again, or gives up.
LEMMA HeartbeatBeating ==
    ASSUME Inv, Beating, NEW r \in Requests, HeartbeatStep(r) \/ HeartbeatFails(r)
    PROVE  Beating'
  <1> SUFFICES ASSUME faults' = 0, rec'.status = "active" PROVE Beating'
    BY DEF Beating
  <1>1. hb \in [Requests -> Heartbeat] /\ rec \in Record /\ rec.unused \in Nat
    BY RefreshAssumption DEF Inv, TypeOK, Record
  <1>2. [Next]_vars
    BY DEF Next, HeartbeatStep
  <1>3. faults = 0 /\ ~HeartbeatFails(r)
    BY <1>2, FaultsGrow DEF Inv, TypeOK, HeartbeatFails, Fault
  <1>4. ref' = ref
    BY <1>3 DEF HeartbeatStep, HeartbeatRead, HeartbeatExec, HeartbeatRetry
  <1>5. CASE HeartbeatRead(r)
    <2>1. rec' = rec
      BY <1>5 DEF HeartbeatRead
    <2>2. /\ \A s \in Requests \ {r} : hb'[s] = hb[s]
          /\ hb'[r].pc = "exec" /\ (hb[r].pc = "retry" \/ (hb[r].pc = "wait" /\ hb[r].due))
      BY <1>1, <1>5, <2>1 DEF HeartbeatRead, Heartbeat
    <2> QED
      BY <1>1, <1>3, <1>4, <2>1, <2>2 DEF Beating, Fresh, HeldOpen, At
  <1>6. CASE HeartbeatExec(r)
    <2>1. rec'.unused = 0 /\ rec.status = "active"
      <3>1. hb[r].seen = rec
        BY <1>6 DEF HeartbeatExec, Intact, Inv, Watched
      <3> QED
        BY <1>1, <1>6, <3>1 DEF HeartbeatExec, Store, Record
    <2>2. /\ \A s \in Requests \ {r} : hb'[s] = hb[s]
          /\ HeldOpen(r) => hb'[r].pc = "wait" /\ ~hb'[r].due
      BY <1>1, <1>6 DEF HeartbeatExec, HeartbeatGoesOn, HeartbeatIs
    <2> QED
      BY <1>1, <1>3, <1>4, <2>1, <2>2 DEF Beating, Fresh, HeldOpen, At
  <1>7. CASE HeartbeatRetry(r)
    <2>1. rec' = rec /\ hb[r].pc = "exec"
      BY <1>7 DEF HeartbeatRetry, session
    <2>2. \/ hb' = [hb EXCEPT ![r].pc = "retry", ![r].try = @ + 1, ![r].seen = Absent]
          \/ HeartbeatIs(r, "gaveUp")
      BY <1>7, Zenon DEF HeartbeatRetry
    <2>3. /\ \A s \in Requests \ {r} : hb'[s] = hb[s]
          /\ hb'[r].pc \in {"retry", "gaveUp"}
      BY <1>1, <2>2 DEF HeartbeatIs, Heartbeat
    <2> QED
      BY <1>1, <1>3, <1>4, <2>1, <2>3 DEF Beating, Fresh, HeldOpen, At
  <1> QED
    BY <1>3, <1>5, <1>6, <1>7 DEF HeartbeatStep

\* No other step makes the record look older.
LEMMA StepBeating == ASSUME Inv, Beating, [Next]_vars PROVE Beating'
  <1> SUFFICES ASSUME faults' = 0, rec'.status = "active", ~Tick PROVE Beating'
    BY TickBeating DEF Beating
  <1>1. faults = 0 /\ rec.status = "active" /\ rec'.unused \in {0, rec.unused}
    BY FaultsGrow, RecordMoves DEF SameSession, Persisted
  <1>2. ASSUME ref' = ref, hb' = hb PROVE Beating'
    BY <1>1, <1>2, RefreshAssumption
       DEF Beating, Fresh, HeldOpen, At, Inv, TypeOK, Record
  <1>3. ASSUME NEW r \in Requests, RequestStep(r) PROVE Beating'
    <2>1. \A s \in Requests \ {r} : ref'[s] = ref[s] /\ hb'[s] = hb[s]
      BY <1>3, RequestFrame
    <2>2. rec.unused \in Nat
      BY RefreshAssumption DEF Inv, TypeOK, Record
    <2> QED
      BY <1>1, <1>3, <2>1, <2>2, RequestHeartbeat DEF Beating, Fresh, HeldOpen, At
  <1>4. ASSUME NEW r \in Requests, HeartbeatStep(r) \/ HeartbeatFails(r) PROVE Beating'
    BY <1>4, HeartbeatBeating
  <1>5. ASSUME NEW p \in Stoppers, StopperStep(p) PROVE UNCHANGED <<ref, hb>>
    BY <1>5 DEF StopperStep, FindToStop, BeginStop, FinishRecording, StopTaskForcibly,
                StopTaskWrite, ForceAgain, ExpireChildren
  <1>6. CASE Use \/ ExpireRecord \/ TaskLoopTimer \/ UNCHANGED vars
    BY <1>2, <1>6 DEF Use, ExpireRecord, TaskLoopTimer, vars
  <1> QED
    BY <1>2, <1>3, <1>4, <1>5, <1>6, StepKinds DEF SideStep

\* When the idle timeout is at least a minute, the idle loop finds no session
\* idle that a refresh holds open, unless the heartbeat lost all its attempts
\* or a call failed: the touch that comes before the lock, and the heartbeat
\* from then on, always leave the record younger than the timeout.
THEOREM HeartbeatHolds ==
    ASSUME IdleTimeout > 0
    PROVE  Spec => RefreshHoldsSessionOpen
  <1>1. Inv /\ Beating /\ [Next]_vars => Beating'
    BY StepBeating
  <1>2. ASSUME Inv, Beating, [Next]_vars, NEW p \in Stoppers,
               p = "idleLoop" /\ stopper[p].pc = "watch" /\ stopper'[p].pc = "stop" /\ faults = 0,
               NEW r \in Requests, HeldOpen(r)
        PROVE  hb[r].pc = "gaveUp"
    <2>1. IsIdle(rec)
      <3>1. stopper \in [Stoppers -> Stopper] /\ stopper' # stopper
        BY <1>2 DEF Inv, TypeOK
      <3>2. CASE Use \/ ExpireRecord \/ Tick \/ TaskLoopTimer \/ UNCHANGED vars
        BY <3>1, <3>2 DEF Use, ExpireRecord, Tick, TaskLoopTimer, vars
      <3>3. ASSUME NEW s \in Requests, HeartbeatStep(s) \/ HeartbeatFails(s)
            PROVE  FALSE
        BY <3>1, <3>3 DEF HeartbeatStep, HeartbeatRead, HeartbeatExec, HeartbeatRetry,
                          HeartbeatFails
      <3>4. ASSUME NEW s \in Requests, RequestStep(s) PROVE FALSE
        BY <1>2, <3>1, <3>4, RequestFrame
      <3>5. ASSUME NEW q \in Stoppers, StopperStep(q) PROVE IsIdle(rec)
        <4>1. CASE FindToStop(q)
          BY <1>2, <3>1, <4>1 DEF FindToStop, BeginStop
        <4>2. CASE ~FindToStop(q)
          BY <1>2, <3>1, <3>5, <4>2
             DEF StopperStep, FinishRecording, StopTaskForcibly, StopTaskWrite, ForceAgain,
                 ExpireChildren, StopTaskFails, StopperEnds
        <4> QED
          BY <4>1, <4>2
      <3> QED
        BY <1>2, <3>2, <3>3, <3>4, <3>5, StepKinds DEF SideStep
    <2>2. rec.status = "active" /\ ~(rec.unused <= 1)
      BY <2>1, RefreshAssumption, IdleTimeout > 0, <1>2 DEF IsIdle, Inv, TypeOK, Record
    <2>3. rec.unused \in Nat
      BY <1>2, RefreshAssumption DEF Inv, TypeOK, Record
    <2> QED
      BY <1>2, <2>2, <2>3 DEF Beating, Fresh
  <1>3. Inv /\ Beating /\ [Next]_vars =>
           [\A p \in Stoppers :
               (p = "idleLoop" /\ stopper[p].pc = "watch" /\ stopper'[p].pc = "stop" /\ faults = 0)
               => \A r \in Requests : HeldOpen(r) => hb[r].pc = "gaveUp"]_vars
    BY <1>2
  <1> QED
    BY <1>1, <1>3, InitBeating, Invariance, PTL DEF Spec, RefreshHoldsSessionOpen

=============================================================================
