---------------------------- MODULE RedisWorker ----------------------------
(***************************************************************************)
(* The batching writer of cachemaps/cacheutil.go.  Goroutines hand a        *)
(* record to AppendToWorker and block on the error channel they copied      *)
(* under the mutex; one worker goroutine periodically takes everything      *)
(* appended so far, writes it in one Redis pipeline and offers the result   *)
(* to whoever is receiving on that batch's channel.                         *)
(*                                                                          *)
(* A call of AppendToWorker is a member of Calls, and it is also the item   *)
(* it appends.  An error channel is known only to the calls that copied it  *)
(* and to the worker, so it is represented by the set of those calls.       *)
(***************************************************************************)
EXTENDS FiniteSets

CONSTANTS Calls,      \* invocations of AppendToWorker
          Ids,        \* record ids: keys of the worker's map
          IdOf,       \* the id each call writes
          NoCall      \* an empty slot of the map

ASSUME RedisWorkerAssumption ==
    /\ IdOf \in [Calls -> Ids]
    /\ NoCall \notin Calls

VARIABLES
    items,     \* w.items: what the current batch will write under each id
    holders,   \* the calls that copied the current w.errCh
    worker,    \* where Start is: "sleep", "exec" or "send"
    taken,     \* the map Start took from w.items in this iteration
    takers,    \* the calls that hold the channel taken with it
    result,    \* the error executFunc returned: "ok" or "err"
    pc,        \* where each call is
    answer,    \* what each call received from its channel
    written,   \* history: the calls whose item reached Redis
    winner     \* history: the item that carried the id of a call in its batch

workerVars == <<worker, taken, takers, result>>
vars == <<items, holders, worker, taken, takers, result, pc, answer, written, winner>>

Slot == Calls \cup {NoCall}
NoItems == [i \in Ids |-> NoCall]

TypeOK ==
    /\ items \in [Ids -> Slot]
    /\ holders \subseteq Calls
    /\ worker \in {"sleep", "exec", "send"}
    /\ taken \in [Ids -> Slot]
    /\ takers \subseteq Calls
    /\ result \in {"ok", "err"}
    /\ pc \in [Calls -> {"new", "unlocked", "receiving", "returned"}]
    /\ answer \in [Calls -> {"none", "ok", "err"}]
    /\ written \subseteq Calls
    /\ winner \in [Calls -> Slot]

Init ==
    /\ items = NoItems
    /\ holders = {}
    /\ worker = "sleep"
    /\ taken = NoItems
    /\ takers = {}
    /\ result = "ok"
    /\ pc = [c \in Calls |-> "new"]
    /\ answer = [c \in Calls |-> "none"]
    /\ written = {}
    /\ winner = [c \in Calls |-> NoCall]

-----------------------------------------------------------------------------
(* AppendToWorker *)

\* The critical section: put the item in the map, copy the channel.  An item
\* already waiting under the same id is replaced.
Append(c) ==
    /\ pc[c] = "new"
    /\ items' = [items EXCEPT ![IdOf[c]] = c]
    /\ holders' = holders \cup {c}
    /\ pc' = [pc EXCEPT ![c] = "unlocked"]
    /\ UNCHANGED <<workerVars, answer, written, winner>>

\* The call reaches <-errCh, after the mutex has been released.
Receive(c) ==
    /\ pc[c] = "unlocked"
    /\ pc' = [pc EXCEPT ![c] = "receiving"]
    /\ UNCHANGED <<items, holders, workerVars, answer, written, winner>>

-----------------------------------------------------------------------------
(* Start *)

\* A plausible bug: the map is set to nil and not made again.
FlushedToNil == /\ items' = [i \in {} |-> NoCall]
                /\ holders' = {}

\* A plausible bug: the map is renewed and the error channel is not.
FlushedKeepsChannel == /\ items' = NoItems
                       /\ holders' = holders

\* What flush leaves for the next batch.
Flushed == /\ items' = NoItems
           /\ holders' = {}

\* A plausible bug: a single item is not worth a pipeline and waits for more.
TakeSeveral ==
    /\ worker = "sleep"
    /\ \A i \in Ids : items[i] # NoCall
    /\ taken' = items
    /\ takers' = holders
    /\ winner' = [c \in Calls |-> IF c \in holders THEN items[IdOf[c]] ELSE winner[c]]
    /\ Flushed
    /\ worker' = "exec"
    /\ UNCHANGED <<result, pc, answer, written>>

\* One wake-up with items to write.  A wake-up that finds the map empty only
\* replaces a channel nobody holds, which this representation cannot see.
Take ==
    /\ worker = "sleep"
    /\ items # NoItems
    /\ taken' = items
    /\ takers' = holders
    /\ winner' = [c \in Calls |-> IF c \in holders THEN items[IdOf[c]] ELSE winner[c]]
    /\ Flushed
    /\ worker' = "exec"
    /\ UNCHANGED <<result, pc, answer, written>>

TakenItems == {c \in Calls : taken[IdOf[c]] = c}

\* A plausible bug: the error of a pipeline that was written in part is
\* taken for a success.
ExecuteIgnoresError ==
    /\ worker = "exec"
    /\ \E some \in SUBSET TakenItems : written' = written \cup some
    /\ result' = "ok"
    /\ worker' = "send"
    /\ UNCHANGED <<items, holders, taken, takers, pc, answer, winner>>

\* executFunc: the pipeline writes every item, or fails after some of them.
Execute ==
    /\ worker = "exec"
    /\ \/ /\ written' = written \cup TakenItems
          /\ result' = "ok"
       \/ /\ \E some \in SUBSET TakenItems : written' = written \cup some
          /\ result' = "err"
    /\ worker' = "send"
    /\ UNCHANGED <<items, holders, taken, takers, pc, answer, winner>>

\* SendMessageToAllChannels: one non-blocking send that finds a receiver ...
Send(c) ==
    /\ worker = "send"
    /\ c \in takers
    /\ pc[c] = "receiving"
    /\ pc' = [pc EXCEPT ![c] = "returned"]
    /\ answer' = [answer EXCEPT ![c] = result]
    /\ UNCHANGED <<items, holders, workerVars, written, winner>>

\* ... and the one that finds none and takes the default branch.  The channel
\* is dropped with the iteration.
SendNone ==
    /\ worker = "send"
    /\ \A c \in takers : pc[c] # "receiving"
    /\ worker' = "sleep"
    /\ taken' = NoItems
    /\ takers' = {}
    /\ UNCHANGED <<items, holders, result, pc, answer, written, winner>>

-----------------------------------------------------------------------------
Next ==
    \/ \E c \in Calls : Append(c) \/ Receive(c) \/ Send(c)
    \/ Take
    \/ Execute
    \/ SendNone

Spec == Init /\ [][Next]_vars

\* The runtime schedules every goroutine that can run, and the worker's loop
\* never exits.  No caller is obliged to start a call.
Fairness ==
    /\ \A c \in Calls : WF_vars(Receive(c)) /\ WF_vars(Send(c))
    /\ WF_vars(Take) /\ WF_vars(Execute) /\ WF_vars(SendNone)

FairSpec == Spec /\ Fairness

-----------------------------------------------------------------------------
(* Properties *)

\* A caller that is told nil finds its id written by the batch it joined: by
\* its own item, or by the item that replaced it there.  The comment on errCh,
\* "If nil -> successfully executed", promises no more than that: a replaced
\* item is dropped, with the sets it joins and leaves, and its caller told nil.  Append and Start
\* exchange the map and the channel under one mutex to guarantee it.
AnsweredIdIsWritten ==
    \A c \in Calls : answer[c] = "ok" => /\ winner[c] \in written
                                         /\ IdOf[winner[c]] = IdOf[c]

\* A call whose id no iteration has taken yet is in the current batch: its
\* slot is filled and it holds the channel that batch will be answered on.
\* Taking the map and renewing it in one critical section guarantees it.
UntakenCallIsQueued ==
    \A c \in Calls : pc[c] # "new" /\ winner[c] = NoCall =>
        c \in holders /\ items[IdOf[c]] # NoCall

\* Every id appended is handed to executFunc, whoever appends meanwhile.
EveryAppendIsExecuted ==
    \A c \in Calls : (pc[c] = "unlocked" /\ winner[c] = NoCall) ~>
                          (winner[c] # NoCall /\ worker = "send")

\* The comment on AppendToWorker: the call "waits for reponse from err
\* channel", which it "would recieve [...] on the next worker iteration".
EveryAppendIsAnswered ==
    \A c \in Calls : (pc[c] = "unlocked") ~> (pc[c] = "returned")
=============================================================================
