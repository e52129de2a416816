------------------------------ MODULE SubxtProofs ------------------------------
(***************************************************************************)
(* That the runner with the subxt sink is the runner with a sink of its    *)
(* own choosing, so that what holds for the one holds for the other, and   *)
(* what a run that completes early says of the node's pool: for every      *)
(* batch, threshold and node.                                              *)
(***************************************************************************)
EXTENDS SubxtRun, RunnerProofs

-------------------------------------------------------------------------------
(* What the node can count. *)
Countable == 0..(Cardinality(Tx) + MaxForeign)

CountsInv ==
  /\ node \in [Tx -> {"unknown", "pool", "out"}]
  /\ foreign \in 0..MaxForeign
  /\ count \in Countable
  /\ answer = <<>> \/ \E n \in Countable : answer = <<n>>

LEMMA CountableCounts == Countable \subseteq PendingCounts /\ 0 \in Countable
<1>1. Cardinality(Tx) \in Nat
  BY RunnerAssumption, FS_CardinalityType
<1> QED
  BY <1>1, SubxtAssumption DEF Countable

LEMMA CountsInit == SubxtInit => CountsInv
  BY CountableCounts, SubxtAssumption DEF SubxtInit, CountsInv

(* The pool holds no more than the batch. *)
LEMMA PoolIsCountable ==
  ASSUME CountsInv
  PROVE  Cardinality(Pool) + foreign \in Countable
<1>1. /\ IsFiniteSet(Pool) /\ Cardinality(Pool) <= Cardinality(Tx)
      /\ Cardinality(Pool) \in Nat /\ Cardinality(Tx) \in Nat
  BY RunnerAssumption, FS_Subset, FS_CardinalityType DEF Pool
<1> QED
  BY <1>1, SubxtAssumption DEF CountsInv, Countable

LEMMA CountsInductive == CountsInv /\ [SubxtNext]_allVars => CountsInv'
<1> SUFFICES ASSUME CountsInv, [SubxtNext]_allVars PROVE CountsInv'
  OBVIOUS
<1> USE DEF CountsInv
<1>1. ASSUME UNCHANGED <<node, foreign, count, answer>> PROVE CountsInv'
  BY <1>1
<1>2. ASSUME NEW t \in Tx, NodeAccepts(t) \/ NodeReleases(t) PROVE CountsInv'
  <2>1. node' \in [Tx -> {"unknown", "pool", "out"}]
    BY <1>2 DEF NodeAccepts, NodeReleases
  <2> QED
    BY <1>2, <2>1 DEF NodeAccepts, NodeReleases, cacheVars
<1>3. ASSUME NEW t \in Tx, TaskAdvances(t) PROVE CountsInv'
  BY <1>3, <1>1 DEF TaskAdvances, nodeVars, cacheVars
<1>4. CASE ForeignChanges
  BY <1>4 DEF ForeignChanges, cacheVars
<1>5. CASE GrowsOld \/ TickAges \/ UpdateFails \/ RunnerOnly \/ SubxtOver \/ UNCHANGED allVars
  BY <1>5, <1>1 DEF GrowsOld, TickAges, UpdateFails, RunnerOnly, SubxtOver, allVars, nodeVars, cacheVars
<1>6. CASE NodeCounts
  BY <1>6, PoolIsCountable DEF NodeCounts, nodeVars
<1>7. CASE pending_extrinsics
  BY <1>7 DEF pending_extrinsics, update_count, nodeVars, cacheVars
<1> QED
  BY <1>2, <1>3, <1>4, <1>5, <1>6, <1>7 DEF SubxtNext

-------------------------------------------------------------------------------
(* Every step is one of the runner, or none. *)
LEMMA SubxtStepIsRunnerStep ==
  ASSUME CountsInv, [SubxtNext]_allVars
  PROVE  [Next]_vars
<1>1. ASSUME NEW t \in Tx, NodeAccepts(t) \/ NodeReleases(t) PROVE UNCHANGED vars
  BY <1>1 DEF NodeAccepts, NodeReleases
<1>2. ASSUME NEW t \in Tx, TaskAdvances(t) PROVE TaskStep(t)
  BY <1>2 DEF TaskAdvances
<1>3. CASE ForeignChanges \/ GrowsOld \/ NodeCounts \/ UNCHANGED allVars
  BY <1>3 DEF ForeignChanges, GrowsOld, NodeCounts, allVars
<1>4. CASE pending_extrinsics
  <2>1. count' \in Countable
    BY <1>4 DEF pending_extrinsics, update_count, cacheVars, CountsInv
  <2>2. PendingExtrinsics(count') /\ count' \in PendingCounts
    BY <1>4, <2>1, CountableCounts DEF pending_extrinsics
  <2> QED
    BY <2>2 DEF Next, Consume
<1>5. CASE UpdateFails
  BY <1>5 DEF UpdateFails, Next, Consume
<1>6. CASE TickAges
  BY <1>6 DEF TickAges, Next
<1>7. CASE RunnerOnly
  BY <1>7 DEF RunnerOnly, Next, Consume
<1>8. CASE SubxtOver
  BY <1>8 DEF SubxtOver, Next
<1> QED
  BY <1>1, <1>2, <1>3, <1>4, <1>5, <1>6, <1>7, <1>8 DEF SubxtNext, Next

(* The runner with the subxt sink implements the runner with the most general
   one: whatever is proved of Runner holds of it (subxt_transaction.rs:298-310,
   340-390 under the contract of transaction.rs). *)
THEOREM SubxtRunImplementsRunner == SubxtSpec => Spec
<1>1. SubxtInit => Init
  BY DEF SubxtInit
<1>2. CountsInv /\ [SubxtNext]_allVars => [Next]_vars
  BY SubxtStepIsRunnerStep
<1> QED
  BY <1>1, <1>2, CountsInit, CountsInductive, PTL DEF SubxtSpec, Spec

-------------------------------------------------------------------------------
(* Transactions left behind. *)

(* A popping loop that has nothing in flight and may pop nothing, and a run
   that has nothing in flight but transactions left, found a count that fills
   the threshold. *)
LeftInv ==
  /\ pc \in {"fill", "pop"} /\ InWorkers = {} /\ to_consume = 0 => count >= SendThreshold
  /\ pc \in {"select", "completed"} /\ InWorkers = {} /\ transactions # <<>>
       => count >= SendThreshold
  /\ pc = "completed" => InWorkers = {}

LEMMA LeftInit == SubxtInit => LeftInv
  BY RunnerAssumption DEF SubxtInit, Init, LeftInv

(* A step that leaves these alone. *)
LEMMA LeftSame ==
  ASSUME LeftInv, UNCHANGED <<pc, workers, transactions, to_consume, count>>
  PROVE  LeftInv'
  BY DEF LeftInv, InWorkers

(* A lap in which nothing is in flight may pop what the count leaves. *)
LEMMA NothingBuffered ==
  ASSUME BufferInv, InWorkers = {}
  PROVE  buffered = 0
<1>1. Unsubmitted = {}
  BY DEF Unsubmitted, InWorkers
<1>2. Unanswered = 0
  BY <1>1, FS_EmptySet DEF BufferInv
<1> QED
  BY <1>2 DEF buffered

LEMMA NothingShort ==
  ASSUME NEW a \in Nat, NEW b \in Nat, SaturatingSub(SaturatingSub(a, b), 0) = 0
  PROVE  b >= a
<1>1. CASE a > b
  <2>1. SaturatingSub(a, b) = a - b /\ a - b > 0
    BY <1>1 DEF SaturatingSub
  <2>2. SaturatingSub(a - b, 0) = a - b
    BY <2>1 DEF SaturatingSub
  <2> QED
    BY <2>1, <2>2
<1> QED
  BY <1>1

(* The steps of a task. *)
LEMMA LeftTaskStep ==
  ASSUME TypeOK, LeftInv, NEW t \in Tx, TaskStep(t), UNCHANGED count
  PROVE  LeftInv'
<1>0. workers \in [Tx -> WorkerState] /\ UsizeMax > 0
  BY UsizeMaxAssumption DEF TypeOK, RunTypeOK
<1>1. ASSUME NEW what \in WorkerState \ {"none"}, Await(t, what), pc = "select" PROVE LeftInv'
  <2>1. t \in InWorkers' /\ pc' = "select"
    BY <1>0, <1>1 DEF Await, InWorkers
  <2> QED
    BY <2>1 DEF LeftInv
<1>2. ASSUME NEW kind \in {"Done", "Error"}, Finish(t, kind) PROVE LeftInv'
  BY <1>0, <1>2 DEF Finish, BeginConsume, LeftInv
<1>3. ASSUME Panic PROVE LeftInv'
  BY <1>3 DEF Panic, LeftInv
<1> QED
  BY <1>1, <1>2, <1>3
  DEF TaskStep, Send, WatchReturns, SubmitReturns, StreamNext, StreamEnds, StreamFails, Register,
      RegisterFails, MonitorFinalized, MonitorMortalDropped, MonitorClosed, AtSelect, WorkerState

LEMMA LeftInductive ==
  ASSUME TypeOK, BufferInv, CountsInv, LeftInv, [SubxtNext]_allVars
  PROVE  LeftInv'
<1>0. /\ workers \in [Tx -> WorkerState] /\ to_consume \in Nat
      /\ SendThreshold \in Nat /\ UsizeMax \in Nat \ {0}
      /\ transactions \in Seq(Tx) /\ count \in Nat
  <2>1. Cardinality(Tx) + MaxForeign \in Nat
    BY RunnerAssumption, SubxtAssumption, FS_CardinalityType
  <2>2. count \in Nat
    BY <2>1 DEF CountsInv, Countable
  <2> QED
    BY <2>2, RunnerAssumption, UsizeMaxAssumption DEF TypeOK, RunTypeOK
<1>1. ASSUME NEW t \in Tx, NodeAccepts(t) \/ NodeReleases(t) PROVE LeftInv'
  BY <1>1, LeftSame DEF NodeAccepts, NodeReleases, cacheVars, vars, runVars
<1>2. ASSUME NEW t \in Tx, TaskAdvances(t) PROVE LeftInv'
  BY <1>2, LeftTaskStep DEF TaskAdvances, cacheVars
<1>3. CASE ForeignChanges \/ GrowsOld \/ NodeCounts \/ UNCHANGED allVars
  BY <1>3, LeftSame DEF ForeignChanges, GrowsOld, NodeCounts, allVars, cacheVars, vars, runVars
<1>4. CASE pending_extrinsics
  <2>1. PendingExtrinsics(count') /\ count' \in Nat
    <3>1. CountsInv'
      BY CountsInductive
    <3>2. Cardinality(Tx) + MaxForeign \in Nat
      BY RunnerAssumption, SubxtAssumption, FS_CardinalityType
    <3> QED
      BY <1>4, <3>1, <3>2 DEF pending_extrinsics, CountsInv, Countable
  <2>2. CASE pc' = "panicked"
    BY <2>2 DEF LeftInv
  <2>3. CASE pc' = "pop" /\ to_consume' = Shortfall(count')
    <3>1. ASSUME InWorkers' = {}, to_consume' = 0 PROVE count' >= SendThreshold
      <4>1. InWorkers = {}
        BY <2>1, <3>1 DEF PendingExtrinsics, InWorkers
      <4>2. SaturatingSub(SaturatingSub(SendThreshold, count'), 0) = 0
        BY <2>3, <3>1, <4>1, NothingBuffered DEF Shortfall
      <4> QED
        BY <1>0, <2>1, <4>2, NothingShort
    <3> QED
      BY <2>3, <3>1 DEF LeftInv
  <2> QED
    BY <2>1, <2>2, <2>3 DEF PendingExtrinsics
<1>5. CASE UpdateFails
  BY <1>5 DEF UpdateFails, PendingFails, Panic, LeftInv
<1>6. CASE TickAges
  BY <1>6, <1>0 DEF TickAges, Tick, BeginConsume, LeftInv
<1>7. CASE Pop /\ UNCHANGED count
  <2>1. transactions[Len(transactions)] \in Tx
    BY <1>0, <1>7, LastOfQueue DEF Pop
  <2>2. transactions[Len(transactions)] \in InWorkers'
    BY <1>0, <1>7, <2>1 DEF Pop, InWorkers
  <2> QED
    BY <1>7, <2>2 DEF Pop, LeftInv
<1>8. CASE (StartLoop \/ LapEnds) /\ UNCHANGED count
  <2>1. /\ pc \in {"fill", "pop"} /\ pc' = "select" /\ LoopOver
        /\ UNCHANGED <<workers, transactions, to_consume, count>>
    BY <1>8 DEF StartLoop, LapEnds
  <2> QED
    BY <2>1 DEF LoopOver, LeftInv, InWorkers
<1>9. CASE AllFuturesDone /\ UNCHANGED count
  BY <1>9 DEF AllFuturesDone, Break, LeftInv, InWorkers
<1>10. CASE (TimeoutReached \/ Stop) /\ UNCHANGED count
  BY <1>10 DEF TimeoutReached, Stop, Break, LeftInv
<1>11. CASE StopSignal /\ UNCHANGED count
  BY <1>11, LeftSame DEF StopSignal
<1>12. CASE SubxtOver
  BY <1>12, LeftSame DEF SubxtOver, Over, vars, runVars, cacheVars
<1> QED
  BY <1>1, <1>2, <1>3, <1>4, <1>5, <1>6, <1>7, <1>8, <1>9, <1>10, <1>11, <1>12
  DEF SubxtNext, RunnerOnly, cacheVars

(* A run that completes with transactions left has read a count that fills the
   threshold: no interleaving of its tasks, ticks and laps holds any back
   otherwise (runner.rs:274-305, 405-410). *)
THEOREM OnlyAFullPoolLeavesBehind ==
  ASSUME "monitor_dies" \notin Environment
  PROVE  SubxtSpec => []LeftBehindOnlyWhenFull
<1>1. TypeOK /\ BufferInv /\ CountsInv /\ LeftInv /\ [SubxtNext]_allVars => LeftInv'
  BY LeftInductive
<1>2. LeftInv => LeftBehindOnlyWhenFull
  BY DEF LeftInv, LeftBehindOnlyWhenFull
<1>3. SubxtSpec => []BufferInv /\ []TypeOK
  BY SubxtRunImplementsRunner, BufferInvariant, TypeCorrect, PTL
<1>4. SubxtSpec => []CountsInv
  BY CountsInit, CountsInductive, PTL DEF SubxtSpec
<1> QED
  BY <1>1, <1>2, <1>3, <1>4, LeftInit, PTL DEF SubxtSpec
-------------------------------------------------------------------------------
(* A count that was just answered. *)

(* While an answer travels no task moves, so that what enters the pool was
   unanswered all the time: the rest of the pool only shrinks. *)
TravelInv ==
  answer # <<>> =>
    /\ pc \in {"query", "panicked"}
    /\ age # "fresh"
    /\ Cardinality(Pool \ Unsubmitted) <= answer[1]

LEMMA SmallerPool ==
  ASSUME NEW S, NEW R, S \subseteq Tx, R \subseteq S
  PROVE  /\ IsFiniteSet(R) /\ Cardinality(R) \in Nat
         /\ Cardinality(S) \in Nat
         /\ Cardinality(R) <= Cardinality(S)
  BY RunnerAssumption, FS_Subset, FS_CardinalityType

(* A step that sends no answer and lets nothing into the pool that is not
   unanswered. *)
LEMMA AnswerTravels ==
  ASSUME TravelInv, CountsInv,
         UNCHANGED <<answer, workers>>,
         answer # <<>> => pc' \in {"query", "panicked"} /\ age' # "fresh",
         Pool' \ Unsubmitted \subseteq Pool
  PROVE  TravelInv'
<1>1. Unsubmitted' = Unsubmitted
  BY DEF Unsubmitted
<1> SUFFICES ASSUME answer # <<>> PROVE Cardinality(Pool' \ Unsubmitted) <= answer[1]
  BY <1>1 DEF TravelInv
<1>2. Pool' \ Unsubmitted \subseteq Pool \ Unsubmitted /\ Pool \ Unsubmitted \subseteq Tx
  BY DEF Pool
<1>3. /\ Cardinality(Pool' \ Unsubmitted) <= Cardinality(Pool \ Unsubmitted)
      /\ Cardinality(Pool' \ Unsubmitted) \in Nat /\ Cardinality(Pool \ Unsubmitted) \in Nat
  BY <1>2, SmallerPool
<1>4. answer[1] \in Int
  <2>1. Cardinality(Tx) + MaxForeign \in Nat
    BY RunnerAssumption, SubxtAssumption, FS_CardinalityType
  <2> QED
    BY <2>1 DEF CountsInv, Countable
<1> QED
  BY <1>3, <1>4 DEF TravelInv

LEMMA TravelInductive ==
  ASSUME TypeOK, CountsInv, TravelInv, [SubxtNext]_allVars
  PROVE  TravelInv'
<1>1. ASSUME NEW t \in Tx, NodeAccepts(t) PROVE TravelInv'
  <2>1. Pool' \ Unsubmitted \subseteq Pool
    BY <1>1 DEF NodeAccepts, Pool, Unsubmitted, CountsInv
  <2> QED
    BY <1>1, <2>1, AnswerTravels DEF NodeAccepts, TravelInv, vars, runVars, cacheVars
<1>2. ASSUME NEW t \in Tx, NodeReleases(t) PROVE TravelInv'
  <2>1. Pool' \ Unsubmitted \subseteq Pool
    BY <1>2 DEF NodeReleases, Pool, CountsInv
  <2> QED
    BY <1>2, <2>1, AnswerTravels DEF NodeReleases, TravelInv, vars, runVars, cacheVars
<1>3. ASSUME pc \notin {"query", "panicked"}, UNCHANGED answer PROVE TravelInv'
  BY <1>3 DEF TravelInv
<1>4. ASSUME NEW t \in Tx, TaskAdvances(t) PROVE TravelInv'
  <2>1. pc = "select"
    BY <1>4 DEF TaskAdvances, TaskStep, Send, WatchReturns, SubmitReturns, StreamNext, StreamEnds,
                StreamFails, Register, RegisterFails, MonitorFinalized, MonitorMortalDropped,
                MonitorClosed, AtSelect
  <2> QED
    BY <1>3, <1>4, <2>1 DEF TaskAdvances, cacheVars
<1>5. CASE ForeignChanges \/ GrowsOld \/ SubxtOver \/ UNCHANGED allVars
  <2>1. UNCHANGED <<answer, workers, pc, node>> /\ (age' = age \/ age' = "old")
    BY <1>5 DEF ForeignChanges, GrowsOld, SubxtOver, Over, allVars, vars, runVars, nodeVars, cacheVars
  <2>2. Pool' = Pool
    BY <2>1 DEF Pool
  <2> QED
    BY <2>1, <2>2, AnswerTravels DEF TravelInv
<1>6. CASE NodeCounts
  <2>1. /\ pc = "query" /\ pc' = pc /\ age # "fresh" /\ age' = age /\ workers' = workers
        /\ node' = node /\ answer' = <<Cardinality(Pool) + foreign>>
    BY <1>6 DEF NodeCounts, vars, runVars, nodeVars
  <2>2. Pool' = Pool /\ Unsubmitted' = Unsubmitted
    BY <2>1 DEF Pool, Unsubmitted
  <2>3. /\ Cardinality(Pool \ Unsubmitted) <= Cardinality(Pool)
        /\ Cardinality(Pool \ Unsubmitted) \in Nat /\ Cardinality(Pool) \in Nat
    BY SmallerPool DEF Pool
  <2>4. foreign \in Nat
    BY SubxtAssumption DEF CountsInv
  <2>5. Cardinality(Pool \ Unsubmitted) <= answer'[1]
    BY <2>1, <2>3, <2>4
  <2> QED
    BY <2>1, <2>2, <2>5 DEF TravelInv
<1>7. CASE pending_extrinsics
  BY <1>7 DEF pending_extrinsics, update_count, cacheVars, TravelInv
<1>8. CASE UpdateFails
  <2>1. UNCHANGED <<answer, workers, node, age>> /\ pc' = "panicked"
    BY <1>8 DEF UpdateFails, PendingFails, Panic, nodeVars, cacheVars
  <2>2. Pool' = Pool
    BY <2>1 DEF Pool
  <2> QED
    BY <2>1, <2>2, AnswerTravels DEF TravelInv
<1>9. CASE TickAges
  BY <1>3, <1>9 DEF TickAges, Tick
<1>10. CASE RunnerOnly
  <2>1. CASE StopSignal
    <3>1. UNCHANGED <<answer, workers, node, age, pc>>
      BY <1>10, <2>1 DEF RunnerOnly, StopSignal, nodeVars, cacheVars
    <3>2. Pool' = Pool
      BY <3>1 DEF Pool
    <3> QED
      BY <3>1, <3>2, AnswerTravels DEF TravelInv
  <2>2. CASE ~StopSignal
    <3>1. pc \notin {"query", "panicked"}
      BY <1>10, <2>2 DEF RunnerOnly, Pop, StartLoop, LapEnds, TimeoutReached, Stop,
                         AllFuturesDone, Break
    <3> QED
      BY <1>3, <1>10, <3>1 DEF RunnerOnly, cacheVars
  <2> QED
    BY <2>1, <2>2
<1> QED
  BY <1>1, <1>2, <1>4, <1>5, <1>6, <1>7, <1>8, <1>9, <1>10 DEF SubxtNext

(* Only an answer lets a lap pop. *)
LEMMA QueryAnswered ==
  ASSUME [SubxtNext]_allVars, pc = "query", pc' = "pop"
  PROVE  pending_extrinsics
<1>1. ASSUME NEW t \in Tx, TaskAdvances(t) PROVE FALSE
  BY <1>1 DEF TaskAdvances, TaskStep, Send, WatchReturns, SubmitReturns, StreamNext, StreamEnds,
              StreamFails, Register, RegisterFails, MonitorFinalized, MonitorMortalDropped,
              MonitorClosed, AtSelect
<1>2. ASSUME UNCHANGED vars PROVE FALSE
  BY <1>2 DEF vars, runVars
<1> QED
  BY <1>1, <1>2 DEF SubxtNext, NodeAccepts, NodeReleases, ForeignChanges, GrowsOld, NodeCounts,
     UpdateFails, PendingFails, Panic, TickAges, Tick, RunnerOnly, Pop, StartLoop, LapEnds,
     TimeoutReached, Stop, AllFuturesDone, Break, StopSignal, SubxtOver, Over, allVars

(* A lap whose count the node has just answered keeps the pool's transactions
   of the batch and the unanswered ones within send_threshold, whatever the
   pool does while the answer travels (subxt_transaction.rs:298-310,
   runner.rs:281-287). *)
THEOREM FreshCountsKeepTheThreshold ==
  ASSUME "monitor_dies" \notin Environment
  PROVE  SubxtSpec => FreshCountKeepsThreshold
<1> DEFINE Kept == (pc = "query" /\ pc' = "pop" /\ answer # <<>> /\ to_consume' > 0)
                     => to_consume' + Cardinality(Pool \cup Unsubmitted) <= SendThreshold
<1>1. TypeOK /\ BufferInv /\ CountsInv /\ TravelInv /\ [SubxtNext]_allVars => [Kept]_allVars
  <2> SUFFICES ASSUME TypeOK, BufferInv, CountsInv, TravelInv, [SubxtNext]_allVars,
                      pc = "query", pc' = "pop", answer # <<>>, to_consume' > 0
               PROVE  to_consume' + Cardinality(Pool \cup Unsubmitted) <= SendThreshold
    OBVIOUS
  <2> DEFINE n == answer[1]
             rest == Cardinality(Pool \ Unsubmitted)
             open == Cardinality(Unsubmitted)
  <2>1. count' = n /\ to_consume' = Shortfall(n) /\ rest <= n
    BY QueryAnswered DEF pending_extrinsics, update_count, PendingExtrinsics, TravelInv
  <2>2. n \in Nat
    <3>1. Cardinality(Tx) + MaxForeign \in Nat
      BY RunnerAssumption, SubxtAssumption, FS_CardinalityType
    <3> QED
      BY <3>1 DEF CountsInv, Countable
  <2>3. rest \in Nat /\ open \in Nat /\ IsFiniteSet(Pool \ Unsubmitted) /\ IsFiniteSet(Unsubmitted)
    BY SmallerPool DEF Pool, Unsubmitted
  <2>4. buffered = open
    BY <2>3 DEF BufferInv, buffered
  <2>5. Cardinality(Pool \cup Unsubmitted) = rest + open
    <3>1. (Pool \ Unsubmitted) \cap Unsubmitted = {}
      OBVIOUS
    <3>2. Cardinality((Pool \ Unsubmitted) \cap Unsubmitted) = 0
      BY <3>1, FS_EmptySet
    <3>3. Pool \cup Unsubmitted = (Pool \ Unsubmitted) \cup Unsubmitted
      OBVIOUS
    <3>4. Cardinality((Pool \ Unsubmitted) \cup Unsubmitted)
            = Cardinality(Pool \ Unsubmitted) + Cardinality(Unsubmitted)
                - Cardinality((Pool \ Unsubmitted) \cap Unsubmitted)
      BY <2>3, FS_Union
    <3>5. Cardinality(Pool \cup Unsubmitted) = rest + open - 0
      BY <3>2, <3>3, <3>4
    <3> QED
      BY <2>3, <3>5
  <2>6. SendThreshold \in Nat
    BY RunnerAssumption, UsizeMaxAssumption
  <2>7. Shortfall(n) = SaturatingSub(SaturatingSub(SendThreshold, n), open)
    BY <2>4 DEF Shortfall
  <2>8. Shortfall(n) > 0
    BY <2>1
  <2> HIDE DEF n, rest, open
  <2>9. Shortfall(n) = SendThreshold - n - open
    BY <2>2, <2>3, <2>6, <2>7, <2>8 DEF SaturatingSub
  <2> QED
    BY <2>1, <2>2, <2>3, <2>5, <2>6, <2>9
<1>2. TypeOK /\ CountsInv /\ TravelInv /\ [SubxtNext]_allVars => TravelInv'
  BY TravelInductive
<1>3. SubxtInit => TravelInv
  BY DEF SubxtInit, TravelInv
<1>4. SubxtSpec => []BufferInv /\ []TypeOK
  BY SubxtRunImplementsRunner, BufferInvariant, TypeCorrect, PTL
<1>5. SubxtSpec => []CountsInv
  BY CountsInit, CountsInductive, PTL DEF SubxtSpec
<1> QED
  BY <1>1, <1>2, <1>3, <1>4, <1>5, PTL DEF SubxtSpec, FreshCountKeepsThreshold
===============================================================================
