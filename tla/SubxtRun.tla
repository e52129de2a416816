------------------------------- MODULE SubxtRun -------------------------------
(***************************************************************************)
(* The runner against SubxtTransactionsSink (src/subxt_transaction.rs) and *)
(* a node: the count of pending extrinsics is the node's, cached for       *)
(* 1000 ms.  The node's pool is external; a transaction enters it before   *)
(* its submission is answered and leaves it, for a block or because the    *)
(* pool drops it, before a status says so.                                 *)
(***************************************************************************)
EXTENDS Runner

CONSTANTS
  MaxForeign,  \* bound: pending extrinsics of other senders
  LossyLink    \* answers to submissions get lost and streams just end

(* What the node may count is among what the runner has to expect. *)
ASSUME SubxtAssumption ==
  /\ MaxForeign \in Nat
  /\ LossyLink \in BOOLEAN
  /\ 0..(Cardinality(Tx) + MaxForeign) \subseteq PendingCounts

VARIABLES
  node,     \* where each transaction is on the node: "unknown", "pool", "out"
  foreign,  \* pending extrinsics of other senders
  count,    \* current_pending_extrinsics: the cached count
  age,      \* and its age: "none" (never counted), "fresh" or "old"
  answer    \* author_pendingExtrinsics' answer on its way, <<>> if none

nodeVars  == <<node, foreign>>
cacheVars == <<count, age, answer>>
allVars   == <<vars, nodeVars, cacheVars>>

Pool == {t \in Tx : node[t] = "pool"}

SubxtInit ==
  /\ Init
  /\ node = [t \in Tx |-> "unknown"]
  /\ foreign = 0
  /\ count = 0
  /\ age = "none"
  /\ answer = <<>>

-------------------------------------------------------------------------------
(* The node. *)

NodeAccepts(t) ==
  /\ workers[t] = "submitting"
  /\ node[t] = "unknown"
  /\ node' = [node EXCEPT ![t] = "pool"]
  /\ UNCHANGED <<vars, foreign, cacheVars>>

NodeReleases(t) ==
  /\ node[t] = "pool"
  /\ node' = [node EXCEPT ![t] = "out"]
  /\ UNCHANGED <<vars, foreign, cacheVars>>

ForeignChanges ==
  /\ foreign' \in 0..MaxForeign
  /\ foreign' # foreign
  /\ UNCHANGED <<vars, node, cacheVars>>

(* What an event logged for t says of the node. *)
Consistent(t, event) ==
  /\ event \in {"SubmitOk", "WatchOk"} => node[t] # "unknown"
  /\ event \in {"SubmitErr", "WatchErr"} => node[t] = "unknown" \/ LossyLink
  /\ is_terminal(event) \/ event \in {"InBlock", "FinalizedMonitor", "MortalDroppedMonitor"}
       => node[t] = "out"

(* A step of a task.  One that logs nothing and yields a result is the end of
   its stream. *)
TaskAdvances(t) ==
  /\ TaskStep(t)
  /\ IF events'[t] # events[t]
     THEN Consistent(t, events'[t][Len(events'[t])])
     ELSE result' # result => node[t] = "out" \/ LossyLink
  /\ UNCHANGED <<nodeVars, cacheVars>>

-------------------------------------------------------------------------------
(* pending_extrinsics. *)

(* The time stamp is taken before the request: it may be old on arrival. *)
GrowsOld ==
  /\ age = "fresh"
  /\ age' = "old"
  /\ UNCHANGED <<vars, nodeVars, count, answer>>

NodeCounts ==
  /\ pc = "query"
  /\ age # "fresh"
  /\ answer = <<>>
  /\ answer' = <<Cardinality(Pool) + foreign>>
  /\ UNCHANGED <<vars, nodeVars, count, age>>

(* Mutant: an answer does not replace the count in the cache. *)
update_count_Once(n) ==
  /\ count' = IF age = "none" THEN n ELSE count
  /\ age' = "fresh"
  /\ answer' = <<>>

update_count(n) == count' = n /\ age' = "fresh" /\ answer' = <<>>

pending_extrinsics ==
  /\ \/ age = "fresh" /\ UNCHANGED cacheVars
     \/ answer # <<>> /\ update_count(answer[1])
  /\ PendingExtrinsics(count')
  /\ UNCHANGED nodeVars

(* update_count: expect("author_pendingExtrinsics should not fail"). *)
UpdateFails == age # "fresh" /\ PendingFails /\ UNCHANGED <<nodeVars, cacheVars>>

-------------------------------------------------------------------------------
(* A tick ends a sleep longer than a count stays fresh. *)
TickAges ==
  /\ Tick
  /\ age' = IF age = "fresh" THEN "old" ELSE age
  /\ UNCHANGED <<nodeVars, count, answer>>

RunnerOnly ==
  /\ Pop \/ StartLoop \/ LapEnds \/ TimeoutReached \/ Stop \/ AllFuturesDone \/ StopSignal
  /\ UNCHANGED <<nodeVars, cacheVars>>

SubxtOver == Over /\ UNCHANGED <<nodeVars, cacheVars>>

SubxtNext ==
  \/ \E t \in Tx : NodeAccepts(t) \/ NodeReleases(t) \/ TaskAdvances(t)
  \/ ForeignChanges
  \/ GrowsOld
  \/ NodeCounts
  \/ pending_extrinsics
  \/ UpdateFails
  \/ TickAges
  \/ RunnerOnly
  \/ SubxtOver

SubxtSpec == SubxtInit /\ [][SubxtNext]_allVars

-------------------------------------------------------------------------------
(* Properties. *)

(* A lap whose count the node has just answered pops no more than what keeps
   its transactions in the pool and the unanswered ones within send_threshold,
   although the pool changes while the answer travels (runner.rs:281-287,
   subxt_transaction.rs:298-310). *)
FreshCountKeepsThreshold ==
  [][(pc = "query" /\ pc' = "pop" /\ answer # <<>> /\ to_consume' > 0)
       => to_consume' + Cardinality(Pool \cup Unsubmitted) <= SendThreshold]_allVars

(* The run completes with transactions left only after a count that filled
   the threshold: nothing else keeps the last lap from popping one
   (runner.rs:282-287, 405-410). *)
LeftBehindOnlyWhenFull ==
  pc = "completed" /\ transactions # <<>> => count >= SendThreshold

(* "Executes the set of transaction sending tasks, and follows a transaction
   status on the node side until a final state is reached" (scenario.rs:137):
   a run that is neither stopped nor timed out sent the whole batch. *)
DrainsBatch == pc = "completed" => transactions = <<>>
===============================================================================
