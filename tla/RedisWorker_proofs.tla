------------------------ MODULE RedisWorker_proofs ------------------------
(***************************************************************************)
(* Type correctness and the two safety invariants of RedisWorker, for any   *)
(* number of calls and ids.  What makes them inductive is the bookkeeping   *)
(* of one exchange: the calls that hold a channel are the calls whose ids   *)
(* are in the map that is answered on it.                                   *)
(***************************************************************************)
EXTENDS RedisWorker, TLAPS

\* The current batch: everything in the map was put there by a call that
\* holds the channel, and every call that holds it has its id in the map.
CurrentBatch ==
    /\ \A i \in Ids : items[i] # NoCall => items[i] \in holders /\ IdOf[items[i]] = i
    /\ \A c \in holders : pc[c] # "new" /\ winner[c] = NoCall /\ items[IdOf[c]] # NoCall
    /\ \A c \in Calls : pc[c] = "new" => winner[c] = NoCall

\* The batch that is being written or answered, likewise.
TakenBatch ==
    /\ \A i \in Ids : taken[i] # NoCall => IdOf[taken[i]] = i
    /\ \A c \in takers : /\ pc[c] # "new"
                         /\ winner[c] # NoCall
                         /\ winner[c] = taken[IdOf[c]]
    /\ worker = "sleep" => takers = {}
    /\ worker = "send" /\ result = "ok" => TakenItems \subseteq written

Inv == /\ TypeOK
       /\ CurrentBatch
       /\ TakenBatch
       /\ AnsweredIdIsWritten
       /\ UntakenCallIsQueued

\* The state Init describes satisfies the invariant.
LEMMA InitInv == Init => Inv
  BY RedisWorkerAssumption
     DEF Init, Inv, TypeOK, CurrentBatch, TakenBatch, AnsweredIdIsWritten,
         UntakenCallIsQueued, Slot, NoItems

\* AppendToWorker keeps the current batch together: the item and the channel
\* are taken up in one critical section.
LEMMA AppendInv == ASSUME Inv, NEW c \in Calls, Append(c) PROVE Inv'
  <1> USE RedisWorkerAssumption DEF Inv, Append, workerVars
  <1>1. TypeOK'
    BY DEF TypeOK, Slot
  <1>2. CurrentBatch'
    <2> USE DEF TypeOK, CurrentBatch
    <2>1. ASSUME NEW i \in Ids, items'[i] # NoCall
          PROVE  items'[i] \in holders' /\ IdOf[items'[i]] = i
      BY <2>1
    <2>2. ASSUME NEW d \in Calls, d \in holders'
          PROVE  pc'[d] # "new" /\ winner'[d] = NoCall /\ items'[IdOf[d]] # NoCall
      <3>1. IdOf[d] \in Ids
        OBVIOUS
      <3>2. CASE d = c
        BY <3>1, <3>2
      <3>3. CASE d # c
        BY <2>2, <3>1, <3>3
      <3> QED
        BY <3>2, <3>3
    <2>3. ASSUME NEW d \in Calls, pc'[d] = "new" PROVE winner'[d] = NoCall
      BY <2>3
    <2>4. holders' \subseteq Calls
      OBVIOUS
    <2> QED
      BY <2>1, <2>2, <2>3, <2>4
  <1>3. TakenBatch'
    BY DEF TypeOK, TakenBatch, TakenItems, Slot
  <1>4. AnsweredIdIsWritten'
    BY DEF TypeOK, AnsweredIdIsWritten, Slot
  <1>5. UntakenCallIsQueued'
    BY DEF TypeOK, UntakenCallIsQueued, Slot
  <1> QED
    BY <1>1, <1>2, <1>3, <1>4, <1>5

\* Reaching the receive changes nothing a batch depends on.
LEMMA ReceiveInv == ASSUME Inv, NEW c \in Calls, Receive(c) PROVE Inv'
  <1> USE RedisWorkerAssumption DEF Inv, Receive, workerVars
  <1>1. TypeOK'
    BY DEF TypeOK, Slot
  <1>2. CurrentBatch'
    BY DEF TypeOK, CurrentBatch
  <1>3. TakenBatch'
    BY DEF TypeOK, TakenBatch, TakenItems
  <1>4. AnsweredIdIsWritten'
    BY DEF AnsweredIdIsWritten
  <1>5. UntakenCallIsQueued'
    BY DEF TypeOK, UntakenCallIsQueued
  <1> QED
    BY <1>1, <1>2, <1>3, <1>4, <1>5

\* Start takes the batch and renews it in one critical section: the current
\* batch becomes the taken one, and an empty one follows it.
LEMMA TakeInv == ASSUME Inv, Take PROVE Inv'
  <1> USE RedisWorkerAssumption DEF Inv, Take, Flushed
  <1>1. TypeOK'
    BY DEF TypeOK, Slot, NoItems
  <1>2. CurrentBatch'
    BY DEF TypeOK, CurrentBatch, NoItems
  <1>3. TakenBatch'
    BY DEF TypeOK, CurrentBatch, TakenBatch
  <1>4. AnsweredIdIsWritten'
    <2> SUFFICES ASSUME NEW c \in Calls, answer'[c] = "ok"
                 PROVE  winner'[c] \in written' /\ IdOf[winner'[c]] = IdOf[c]
      BY DEF AnsweredIdIsWritten
    <2>1. answer[c] = "ok" /\ winner[c] \in written
      BY DEF AnsweredIdIsWritten
    <2>2. c \notin holders
      BY <2>1 DEF TypeOK, CurrentBatch
    <2> QED
      BY <2>1, <2>2 DEF TypeOK, AnsweredIdIsWritten
  <1>5. UntakenCallIsQueued'
    BY DEF TypeOK, CurrentBatch, UntakenCallIsQueued
  <1> QED
    BY <1>1, <1>2, <1>3, <1>4, <1>5

\* executFunc: an iteration whose result is "ok" has written all it took.
LEMMA ExecuteInv == ASSUME Inv, Execute PROVE Inv'
  <1> USE RedisWorkerAssumption DEF Inv, Execute
  <1>0. TakenItems \subseteq Calls /\ written \subseteq written'
    BY DEF TakenItems
  <1>1. TypeOK'
    BY <1>0 DEF TypeOK
  <1>2. CurrentBatch'
    BY DEF CurrentBatch
  <1>3. TakenBatch'
    BY DEF TakenBatch, TakenItems
  <1>4. AnsweredIdIsWritten'
    BY <1>0 DEF AnsweredIdIsWritten
  <1>5. UntakenCallIsQueued'
    BY DEF UntakenCallIsQueued
  <1> QED
    BY <1>1, <1>2, <1>3, <1>4, <1>5

\* A caller that is answered "ok" had its id written by the item it finds
\* under it in the map that was taken.
LEMMA SendInv == ASSUME Inv, NEW c \in Calls, Send(c) PROVE Inv'
  <1> USE RedisWorkerAssumption DEF Inv, Send, workerVars
  <1>1. TypeOK'
    BY DEF TypeOK
  <1>2. CurrentBatch'
    BY DEF TypeOK, CurrentBatch
  <1>3. TakenBatch'
    BY DEF TypeOK, TakenBatch, TakenItems
  <1>4. AnsweredIdIsWritten'
    <2> SUFFICES ASSUME result = "ok"
                 PROVE  winner[c] \in written /\ IdOf[winner[c]] = IdOf[c]
      BY DEF TypeOK, AnsweredIdIsWritten
    <2>1. winner[c] = taken[IdOf[c]] /\ winner[c] # NoCall
      BY DEF TakenBatch
    <2>2. winner[c] \in Calls /\ IdOf[winner[c]] = IdOf[c]
      BY <2>1 DEF TypeOK, TakenBatch, Slot
    <2>3. winner[c] \in TakenItems
      BY <2>1, <2>2 DEF TakenItems
    <2> QED
      BY <2>2, <2>3 DEF TakenBatch
  <1>5. UntakenCallIsQueued'
    BY DEF TypeOK, UntakenCallIsQueued
  <1> QED
    BY <1>1, <1>2, <1>3, <1>4, <1>5

\* The channel is dropped when nobody is receiving on it.
LEMMA SendNoneInv == ASSUME Inv, SendNone PROVE Inv'
  <1> USE RedisWorkerAssumption DEF Inv, SendNone
  <1>1. TypeOK'
    BY DEF TypeOK, Slot, NoItems
  <1>2. CurrentBatch'
    BY DEF CurrentBatch
  <1>3. TakenBatch'
    BY DEF TakenBatch, NoItems
  <1>4. AnsweredIdIsWritten'
    BY DEF AnsweredIdIsWritten
  <1>5. UntakenCallIsQueued'
    BY DEF UntakenCallIsQueued
  <1> QED
    BY <1>1, <1>2, <1>3, <1>4, <1>5

\* The invariant is inductive.
LEMMA StepInv == Inv /\ [Next]_vars => Inv'
  <1> SUFFICES ASSUME Inv, [Next]_vars PROVE Inv'
    OBVIOUS
  <1>1. ASSUME NEW c \in Calls, Append(c) PROVE Inv'
    BY <1>1, AppendInv
  <1>2. ASSUME NEW c \in Calls, Receive(c) PROVE Inv'
    BY <1>2, ReceiveInv
  <1>3. ASSUME NEW c \in Calls, Send(c) PROVE Inv'
    BY <1>3, SendInv
  <1>4. CASE Take
    BY <1>4, TakeInv
  <1>5. CASE Execute
    BY <1>5, ExecuteInv
  <1>6. CASE SendNone
    BY <1>6, SendNoneInv
  <1>7. CASE UNCHANGED vars
    BY <1>7 DEF vars, Inv, TypeOK, CurrentBatch, TakenBatch, TakenItems,
                AnsweredIdIsWritten, UntakenCallIsQueued
  <1> QED
    BY <1>1, <1>2, <1>3, <1>4, <1>5, <1>6, <1>7 DEF Next

\* The invariant holds in every state of every behaviour.
LEMMA Invariance == Spec => []Inv
  BY InitInv, StepInv, PTL DEF Spec

\* Every variable keeps its type.
THEOREM TypeCorrect == Spec => []TypeOK
  <1>1. Inv => TypeOK
    BY DEF Inv
  <1> QED
    BY <1>1, Invariance, PTL

\* Whoever appends, replaces and reads at the same time, a caller of
\* AppendToWorker that is told nil finds its id written by its batch.
THEOREM NilMeansWritten == Spec => []AnsweredIdIsWritten
  <1>1. Inv => AnsweredIdIsWritten
    BY DEF Inv
  <1> QED
    BY <1>1, Invariance, PTL

\* No item appended is lost between two iterations of the worker.
THEOREM NothingIsLost == Spec => []UntakenCallIsQueued
  <1>1. Inv => UntakenCallIsQueued
    BY DEF Inv
  <1> QED
    BY <1>1, Invariance, PTL
=============================================================================
