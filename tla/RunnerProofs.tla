----------------------------- MODULE RunnerProofs -----------------------------
(***************************************************************************)
(* Theorems about module Runner, for every batch, threshold, timeout and   *)
(* sink.                                                                   *)
(***************************************************************************)
EXTENDS Runner, TLAPS, FiniteSetTheorems, SequenceTheorems

-------------------------------------------------------------------------------
(* Recording an event keeps the logs and the counters in their types. *)
LEMMA PushEventType ==
  ASSUME LogTypeOK, NEW t \in Tx, NEW e \in ExecutionEvent, push_event(t, e)
  PROVE  LogTypeOK'
<1>1. events' \in [Tx -> Seq(ExecutionEvent)]
  BY DEF LogTypeOK, push_event
<1>2. total_counters' \in [Counter -> Nat]
  BY DEF LogTypeOK, push_event, count_event
<1> QED
  BY <1>1, <1>2 DEF LogTypeOK

(* Beginning consume_pending leaves to_consume a usize. *)
LEMMA BeginConsumeType ==
  ASSUME RunTypeOK, BeginConsume
  PROVE  to_consume' \in 0..UsizeMax /\ pc' \in Running
  BY RunnerAssumption, UsizeMaxAssumption DEF RunTypeOK, BeginConsume, Running

(* A task that returns leaves the run in its type. *)
LEMMA FinishType ==
  ASSUME RunTypeOK, NEW t \in Tx, NEW kind \in {"Done", "Error"}, Finish(t, kind)
  PROVE  RunTypeOK'
  BY BeginConsumeType DEF RunTypeOK, Finish, ExecutionResult, WorkerState

(* A task that goes on waiting leaves the run in its type. *)
LEMMA AwaitType ==
  ASSUME RunTypeOK, NEW t \in Tx, NEW what \in WorkerState, Await(t, what)
  PROVE  RunTypeOK'
  BY DEF RunTypeOK, Await

(* Unwinding changes only where run() is. *)
LEMMA PanicType ==
  ASSUME TypeOK, Panic
  PROVE  TypeOK'
  BY DEF TypeOK, RunTypeOK, Panic, logVars, LogTypeOK

(* Runner::new and the start of run() establish the types. *)
LEMMA TypeInit == Init => TypeOK
<1> SUFFICES ASSUME Init PROVE TypeOK
  OBVIOUS
<1>1. LogTypeOK
  BY DEF Init, LogInit, LogTypeOK
<1>2. RunTypeOK
  BY RunnerAssumption, UsizeMaxAssumption
     DEF Init, RunTypeOK, Running, WorkerState
<1> QED
  BY <1>1, <1>2 DEF TypeOK

(* Every step of a task preserves the types. *)
LEMMA TypeTaskStep ==
  ASSUME TypeOK, NEW t \in Tx, TaskStep(t)
  PROVE  TypeOK'
<1> USE DEF TypeOK
<1>1. CASE Send(t)
  BY <1>1, PushEventType, AwaitType DEF Send, ExecutionEvent, WorkerState
<1>2. ASSUME NEW ok \in BOOLEAN, WatchReturns(t, ok) PROVE TypeOK'
  BY <1>2, PushEventType, AwaitType, FinishType
     DEF WatchReturns, ExecutionEvent, WorkerState
<1>3. ASSUME NEW ok \in BOOLEAN, SubmitReturns(t, ok) PROVE TypeOK'
  BY <1>3, PushEventType, AwaitType, FinishType
     DEF SubmitReturns, ExecutionEvent, WorkerState
<1>4. ASSUME NEW status \in Reported, StreamNext(t, status) PROVE TypeOK'
  BY <1>4, RunnerAssumption, PushEventType, AwaitType, FinishType
     DEF StreamNext, ExecutionEvent, WorkerState
<1>5. CASE StreamEnds(t)
  BY <1>5, FinishType DEF StreamEnds, logVars, LogTypeOK
<1>6. CASE StreamFails(t)
  BY <1>6, PanicType DEF StreamFails
<1>7. CASE Register(t)
  BY <1>7, AwaitType DEF Register, logVars, LogTypeOK, WorkerState
<1>8. CASE RegisterFails(t)
  BY <1>8, PanicType DEF RegisterFails
<1>9. CASE MonitorFinalized(t)
  BY <1>9, PushEventType, FinishType DEF MonitorFinalized, ExecutionEvent
<1>10. CASE MonitorMortalDropped(t)
  BY <1>10, PushEventType, FinishType DEF MonitorMortalDropped, ExecutionEvent
<1>11. CASE MonitorClosed(t)
  BY <1>11, PushEventType, FinishType DEF MonitorClosed, ExecutionEvent
<1> QED
  BY <1>1, <1>2, <1>3, <1>4, <1>5, <1>6, <1>7, <1>8, <1>9, <1>10, <1>11 DEF TaskStep

(* The transaction to pop, and what the popping leaves. *)
LEMMA LastOfQueue ==
  ASSUME NEW seq \in Seq(Tx), seq # <<>>
  PROVE  /\ Len(seq) \in Nat \ {0}
         /\ Len(seq) \in DOMAIN seq
         /\ seq[Len(seq)] \in Tx
         /\ SubSeq(seq, 1, Len(seq) - 1) \in Seq(Tx)
         /\ Len(SubSeq(seq, 1, Len(seq) - 1)) = Len(seq) - 1
         /\ \A i \in 1..(Len(seq) - 1) : SubSeq(seq, 1, Len(seq) - 1)[i] = seq[i]
<1>1. Len(seq) \in Nat \ {0} /\ Len(seq) \in DOMAIN seq
  OBVIOUS
<1>2. seq[Len(seq)] \in Tx
  BY <1>1
<1> DEFINE rest == SubSeq(seq, 1, Len(seq) - 1)
<1>3. /\ rest \in Seq(Tx)
      /\ Len(rest) = (IF 1 <= Len(seq) - 1 THEN Len(seq) - 1 - 1 + 1 ELSE 0)
      /\ \A i \in 1..(Len(seq) - 1 - 1 + 1) : rest[i] = seq[1 + i - 1]
  <2>1. \A i \in 1..(Len(seq) - 1) : seq[i] \in Tx
    OBVIOUS
  <2>2. 1 \in Int /\ Len(seq) - 1 \in Int
    BY <1>1
  <2> QED
    BY ONLY <2>1, <2>2, SubSeqProperties
<1> HIDE DEF rest
<1>4. Len(rest) = Len(seq) - 1
  <2>1. \A n \in Nat \ {0} : n - 1 = IF 1 <= n - 1 THEN n - 1 - 1 + 1 ELSE 0
    OBVIOUS
  <2> QED
    BY <1>1, <1>3, <2>1, Zenon
<1>5. ASSUME NEW i \in 1..(Len(seq) - 1) PROVE rest[i] = seq[i]
  <2>1. i \in 1..(Len(seq) - 1 - 1 + 1) /\ 1 + i - 1 = i
    BY <1>1
  <2> QED
    BY <2>1, <1>3
<1> QED
  BY <1>1, <1>2, <1>3, <1>4, <1>5 DEF rest

(* Every step of the system preserves the types. *)
LEMMA TypeStep == TypeOK /\ [Next]_vars => TypeOK'
<1> SUFFICES ASSUME TypeOK, [Next]_vars PROVE TypeOK'
  OBVIOUS
<1> USE DEF TypeOK
<1>1. CASE Pop
  <2>0. /\ transactions[Len(transactions)] \in Tx
        /\ SubSeq(transactions, 1, Len(transactions) - 1) \in Seq(Tx)
    BY <1>1, LastOfQueue DEF Pop, RunTypeOK
  <2>1. LogTypeOK'
    BY <1>1, <2>0, PushEventType DEF Pop, ExecutionEvent
  <2>2. RunTypeOK'
    BY <1>1, <2>0, UsizeMaxAssumption DEF Pop, RunTypeOK, WorkerState
  <2> QED
    BY <2>1, <2>2
<1>2. CASE StartLoop
  BY <1>2 DEF StartLoop, RunTypeOK, LogTypeOK, logVars, Running
<1>3. CASE LapEnds
  <2>1. timeout' \in Nat \cup {NoTimeout}
    BY <1>3, RunnerAssumption DEF LapEnds, Remaining, SaturatingSub, RunTypeOK
  <2>2. done' \in Seq(Tx) /\ errors' \in Seq(Tx)
    BY <1>3 DEF LapEnds, RunTypeOK, ExecutionResult, NoResult
  <2> QED
    BY <1>3, <2>1, <2>2 DEF LapEnds, RunTypeOK, LogTypeOK, logVars, Running
<1>4. ASSUME NEW n \in PendingCounts, PendingExtrinsics(n) PROVE TypeOK'
  <2>1. Unanswered \in Int
    BY DEF Unanswered, LogTypeOK, Counter, ExecutionEvent, TransactionStatus
  <2>2. buffered \in Nat
    BY <2>1, UsizeMaxAssumption DEF buffered
  <2>3. to_consume' \in 0..UsizeMax
    BY <1>4, <2>2, RunnerAssumption, UsizeMaxAssumption
       DEF PendingExtrinsics, Shortfall, SaturatingSub, RunTypeOK
  <2> QED
    BY <1>4, <2>3 DEF PendingExtrinsics, RunTypeOK, LogTypeOK, logVars, Running
<1>5. CASE PendingFails
  BY <1>5, PanicType DEF PendingFails
<1>6. ASSUME NEW t \in Tx, TaskStep(t) PROVE TypeOK'
  BY <1>6, TypeTaskStep
<1>7. CASE Tick
  BY <1>7, BeginConsumeType DEF Tick, RunTypeOK, LogTypeOK, logVars
<1>8. CASE TimeoutReached
  BY <1>8 DEF TimeoutReached, Break, RunTypeOK, LogTypeOK, logVars, Ended
<1>9. CASE Stop
  BY <1>9 DEF Stop, Break, RunTypeOK, LogTypeOK, logVars, Ended, SaturatingSub
<1>10. CASE AllFuturesDone
  BY <1>10 DEF AllFuturesDone, Break, RunTypeOK, LogTypeOK, logVars, Ended
<1>11. CASE StopSignal
  BY <1>11 DEF StopSignal, RunTypeOK, LogTypeOK, logVars
<1>12. CASE UNCHANGED vars
  BY <1>12 DEF vars, runVars, logVars, RunTypeOK, LogTypeOK
<1> QED
  BY <1>1, <1>2, <1>3, <1>4, <1>5, <1>6, <1>7, <1>8, <1>9, <1>10, <1>11, <1>12
     DEF Next, Consume, Over

(* Type correctness of run(), its tasks and their logs: in particular
   to_consume stays a usize and the outcomes are transactions of the batch. *)
THEOREM TypeCorrect == Spec => []TypeOK
<1>1. Init => TypeOK
  BY TypeInit
<1>2. TypeOK /\ [Next]_vars => TypeOK'
  BY TypeStep
<1> QED
  BY <1>1, <1>2, PTL DEF Spec

-------------------------------------------------------------------------------
(* Where the transactions are. *)

(* What pushing an element of done or errors does to its elements. *)
LEMMA RangeAppend ==
  ASSUME NEW seq \in Seq(Tx), NEW t \in Tx
  PROVE  /\ Range(Append(seq, t)) = Range(seq) \cup {t}
         /\ Len(Append(seq, t)) = Len(seq) + 1
<1> DEFINE longer == Append(seq, t)
<1>1. /\ Len(longer) = Len(seq) + 1
      /\ DOMAIN longer = 1..Len(seq) + 1
      /\ longer[Len(seq) + 1] = t
      /\ \A i \in 1..Len(seq) : longer[i] = seq[i]
      /\ DOMAIN seq = 1..Len(seq)
      /\ Len(seq) \in Nat
  OBVIOUS
<1> HIDE DEF longer
<1>2. 1..Len(seq) + 1 = 1..Len(seq) \cup {Len(seq) + 1}
  BY <1>1
<1>3. Range(longer) = Range(seq) \cup {t}
  <2>1. ASSUME NEW u \in Range(longer) PROVE u \in Range(seq) \cup {t}
    <3>1. PICK i \in 1..Len(seq) + 1 : longer[i] = u
      BY <1>1 DEF Range
    <3>2. CASE i \in 1..Len(seq)
      BY <3>1, <3>2, <1>1 DEF Range
    <3>3. CASE i = Len(seq) + 1
      BY <3>1, <3>3, <1>1
    <3> QED
      BY <3>2, <3>3, <1>2
  <2>2. ASSUME NEW u \in Range(seq) PROVE u \in Range(longer)
    <3>1. PICK i \in 1..Len(seq) : seq[i] = u
      BY <1>1 DEF Range
    <3>2. i \in DOMAIN longer /\ longer[i] = u
      BY <3>1, <1>1, <1>2
    <3> QED
      BY <3>2 DEF Range
  <2>3. t \in Range(longer)
    BY <1>1, <1>2 DEF Range
  <2> QED
    BY <2>1, <2>2, <2>3
<1> QED
  BY <1>1, <1>3 DEF longer

(* What popping the end of the queue does to its elements. *)
LEMMA RangeFront ==
  ASSUME NEW seq \in Seq(Tx), seq # <<>>, IsInjective(seq)
  PROVE  LET front == SubSeq(seq, 1, Len(seq) - 1) IN
           /\ Range(front) = Range(seq) \ {seq[Len(seq)]}
           /\ seq[Len(seq)] \in Range(seq)
           /\ IsInjective(front)
<1> DEFINE front == SubSeq(seq, 1, Len(seq) - 1)
<1>1. /\ Len(seq) \in Nat \ {0}
      /\ front \in Seq(Tx)
      /\ Len(front) = Len(seq) - 1
      /\ \A i \in 1..(Len(seq) - 1) : front[i] = seq[i]
  BY LastOfQueue
<1>2. DOMAIN seq = 1..Len(seq) /\ DOMAIN front = 1..(Len(seq) - 1)
  BY <1>1
<1> HIDE DEF front
<1>3. /\ 1..Len(seq) = 1..(Len(seq) - 1) \cup {Len(seq)}
      /\ Len(seq) \notin 1..(Len(seq) - 1)
      /\ Len(seq) \in DOMAIN seq
  BY <1>1, <1>2
<1>4. Range(front) = Range(seq) \ {seq[Len(seq)]}
  <2>1. ASSUME NEW u \in Range(front)
        PROVE  u \in Range(seq) /\ u # seq[Len(seq)]
    <3>1. PICK i \in 1..(Len(seq) - 1) : front[i] = u
      BY <1>2 DEF Range
    <3>2. i \in DOMAIN seq /\ seq[i] = u /\ i # Len(seq)
      BY <3>1, <1>1, <1>2, <1>3
    <3> QED
      BY <3>2, <1>3 DEF Range, IsInjective
  <2>2. ASSUME NEW u \in Range(seq), u # seq[Len(seq)]
        PROVE  u \in Range(front)
    <3>1. PICK i \in 1..Len(seq) : seq[i] = u
      BY <1>2 DEF Range
    <3>2. i \in DOMAIN front /\ front[i] = u
      BY <3>1, <2>2, <1>1, <1>2, <1>3
    <3> QED
      BY <3>2 DEF Range
  <2> QED
    BY <2>1, <2>2
<1>5. IsInjective(front)
  BY <1>1, <1>2, <1>3, Zenon DEF IsInjective
<1> QED
  BY <1>3, <1>4, <1>5 DEF Range, front

(* Sets of transactions are finite and no larger than the batch. *)
LEMMA FiniteParts ==
  ASSUME NEW S \in SUBSET Tx
  PROVE  IsFiniteSet(S) /\ Cardinality(S) \in Nat /\ Cardinality(S) <= Cardinality(Tx)
  BY RunnerAssumption, FS_Subset, FS_CardinalityType

(* The batch holds every transaction exactly once. *)
LEMMA BatchSize == Len(Batch) = Cardinality(Tx)
<1>1. /\ Batch \in [1..Len(Batch) -> Tx]
      /\ Len(Batch) \in Nat
      /\ DOMAIN Batch = 1..Len(Batch)
  BY RunnerAssumption
<1>2. Batch \in Bijection(1..Len(Batch), Tx)
  <2>1. Batch \in Injection(1..Len(Batch), Tx)
    BY <1>1, RunnerAssumption DEF Injection
  <2>2. Batch \in Surjection(1..Len(Batch), Tx)
    BY <1>1, RunnerAssumption DEF Surjection, Range
  <2> QED
    BY <2>1, <2>2 DEF Bijection
<1>3. Cardinality(Tx) = Cardinality(1..Len(Batch))
  BY <1>1, <1>2, FS_Interval, FS_Bijection DEF ExistsBijection
<1>4. Cardinality(1..Len(Batch)) = Len(Batch)
  <2>1. \A n \in Nat : (IF 1 > n THEN 0 ELSE n - 1 + 1) = n
    OBVIOUS
  <2>2. 1 \in Int /\ Len(Batch) \in Int
    BY <1>1
  <2>3. Cardinality(1..Len(Batch)) = IF 1 > Len(Batch) THEN 0 ELSE Len(Batch) - 1 + 1
    BY ONLY <2>2, FS_Interval
  <2> QED
    BY <1>1, <2>1, <2>3, Zenon
<1> QED
  BY <1>3, <1>4, RunnerAssumption

(* At the start every transaction is in the queue. *)
LEMMA PlaceInit == Init => PlaceInv
<1> SUFFICES ASSUME Init PROVE PlaceInv
  OBVIOUS
<1>1. TypeOK
  BY TypeInit
<1>2. /\ Queued = Tx
      /\ InWorkers = {}
      /\ Yielded = {}
      /\ Recorded = {}
      /\ Range(done) = {} /\ Range(errors) = {}
  BY RunnerAssumption DEF Init, Queued, InWorkers, Yielded, Recorded, Range
<1>3. PlacesDisjoint
  BY <1>2, RunnerAssumption DEF Init, PlacesDisjoint
<1>4. Len(transactions) = Cardinality(Tx) /\ Cardinality(Tx) \in Nat
  BY BatchSize, RunnerAssumption, FS_CardinalityType DEF Init
<1>5. Len(done) = 0 /\ Len(errors) = 0 /\ Cardinality({}) = 0
  BY FS_EmptySet DEF Init
<1>6. ExactlyOnce
  BY <1>2, <1>4, <1>5 DEF ExactlyOnce
<1> QED
  BY <1>1, <1>3, <1>6 DEF PlaceInv

(* A step that moves no transaction. *)
LEMMA PlaceSame ==
  ASSUME PlaceInv, TypeOK',
         UNCHANGED <<transactions, done, errors, result>>,
         InWorkers' = InWorkers,
         pc' \in {"fill", "select"} => pc \in {"fill", "select"}
  PROVE  PlaceInv'
<1>1. /\ Queued' = Queued
      /\ Yielded' = Yielded
      /\ Recorded' = Recorded
  BY DEF Queued, Yielded, Recorded
<1> QED
  BY <1>1 DEF PlaceInv, PlacesDisjoint, ExactlyOnce

(* A task that goes on waiting stays where it is. *)
LEMMA PlaceAwait ==
  ASSUME PlaceInv, TypeOK', NEW t \in InWorkers, NEW what \in WorkerState \ {"none"},
         Await(t, what)
  PROVE  PlaceInv'
<1>1. InWorkers' = InWorkers
  BY DEF Await, InWorkers, PlaceInv, TypeOK, RunTypeOK
<1> QED
  BY <1>1, PlaceSame DEF Await

(* Unwinding moves no transaction. *)
LEMMA PlacePanic ==
  ASSUME PlaceInv, TypeOK', Panic
  PROVE  PlaceInv'
<1>1. InWorkers' = InWorkers
  BY DEF Panic, InWorkers
<1> QED
  BY <1>1, PlaceSame DEF Panic

(* A task that returns moves from the workers to the pending result. *)
LEMMA PlaceFinish ==
  ASSUME PlaceInv, TypeOK', pc = "select", NEW t \in InWorkers,
         NEW kind \in {"Done", "Error"}, Finish(t, kind)
  PROVE  PlaceInv'
<1>1. t \in Tx /\ workers \in [Tx -> WorkerState]
  BY DEF InWorkers, PlaceInv, TypeOK, RunTypeOK
<1>2. /\ Queued' = Queued
      /\ Recorded' = Recorded
      /\ InWorkers' = InWorkers \ {t}
  BY <1>1 DEF Finish, Queued, Recorded, InWorkers, WorkerState
<1>3. Yielded = {}
  BY DEF Yielded, PlaceInv, PlacesDisjoint
<1>4. Yielded' = {t}
  BY <1>1 DEF Finish, Yielded, NoResult
<1>5. pc' \notin {"fill", "select"}
  BY DEF Finish, BeginConsume
<1>6. PlacesDisjoint'
  BY <1>2, <1>3, <1>4, <1>5 DEF PlaceInv, PlacesDisjoint, Finish
<1>7. Cardinality(InWorkers') = Cardinality(InWorkers) - 1
  BY <1>2, FiniteParts, FS_RemoveElement DEF InWorkers
<1>8. Cardinality(Yielded) = 0 /\ Cardinality(Yielded') = 1
  BY <1>3, <1>4, FS_EmptySet, FS_Singleton
<1>9. Cardinality(InWorkers) \in Nat
  BY FiniteParts DEF InWorkers
<1>10. /\ Len(transactions) \in Nat /\ Len(done) \in Nat /\ Len(errors) \in Nat
       /\ UNCHANGED <<transactions, done, errors>>
  BY DEF Finish, PlaceInv, TypeOK, RunTypeOK
<1>11. ExactlyOnce'
  BY <1>2, <1>3, <1>4, <1>7, <1>8, <1>9, <1>10 DEF PlaceInv, ExactlyOnce
<1> QED
  BY <1>6, <1>11 DEF PlaceInv

(* A popped transaction moves from the queue to the workers. *)
LEMMA PlacePop ==
  ASSUME PlaceInv, TypeOK', Pop
  PROVE  PlaceInv'
<1> DEFINE t == transactions[Len(transactions)]
           rest == SubSeq(transactions, 1, Len(transactions) - 1)
<1>1. /\ t \in Tx
      /\ workers \in [Tx -> WorkerState]
      /\ Len(rest) = Len(transactions) - 1
      /\ Len(transactions) \in Nat \ {0}
  BY LastOfQueue DEF Pop, PlaceInv, TypeOK, RunTypeOK
<1>2. Range(rest) = Queued \ {t} /\ t \in Queued /\ IsInjective(rest)
  BY RangeFront DEF Pop, PlaceInv, PlacesDisjoint, TypeOK, RunTypeOK, Queued
<1>3. transactions' = rest /\ workers' = [workers EXCEPT ![t] = "pushed"]
  BY DEF Pop
<1> HIDE DEF t, rest
<1>4. /\ Queued' = Queued \ {t}
      /\ InWorkers' = InWorkers \cup {t}
      /\ Yielded' = Yielded
      /\ Recorded' = Recorded
      /\ UNCHANGED <<done, errors, result, pc>>
  BY <1>1, <1>2, <1>3 DEF Pop, Queued, InWorkers, Yielded, Recorded
<1>5. t \notin InWorkers
  BY <1>2 DEF PlaceInv, PlacesDisjoint
<1>6. PlacesDisjoint'
  BY <1>2, <1>3, <1>4 DEF PlaceInv, PlacesDisjoint
<1>7. /\ Cardinality(InWorkers') = Cardinality(InWorkers) + 1
      /\ Cardinality(InWorkers) \in Nat
      /\ Cardinality(Yielded) \in Nat
  BY <1>4, <1>5, FiniteParts, FS_AddElement DEF InWorkers, Yielded
<1>8. Len(transactions') = Len(transactions) - 1
  BY <1>1, <1>3
<1>9. Len(done) \in Nat /\ Len(errors) \in Nat
  BY DEF PlaceInv, TypeOK, RunTypeOK
<1>10. ExactlyOnce'
  BY <1>1, <1>2, <1>4, <1>7, <1>8, <1>9 DEF PlaceInv, ExactlyOnce
<1> QED
  BY <1>6, <1>10 DEF PlaceInv

(* The pending result moves to done or to errors. *)
LEMMA PlaceLapEnds ==
  ASSUME PlaceInv, TypeOK', LapEnds
  PROVE  PlaceInv'
<1>1. /\ Queued' = Queued
      /\ InWorkers' = InWorkers
      /\ Yielded' = {}
      /\ UNCHANGED transactions
  BY DEF LapEnds, Queued, InWorkers, Yielded
<1>2. CASE result = NoResult
  <2>1. UNCHANGED <<done, errors, result>>
    BY <1>2 DEF LapEnds, NoResult
  <2> QED
    BY <1>1, <1>2, <2>1 DEF PlaceInv, PlacesDisjoint, ExactlyOnce, Yielded, Recorded
<1>3. CASE result \in ExecutionResult
  <2> DEFINE t == result.hash
  <2>1. /\ t \in Tx
        /\ Yielded = {t}
        /\ done \in Seq(Tx) /\ errors \in Seq(Tx)
        /\ result.kind \in {"Done", "Error"}
    BY <1>3 DEF ExecutionResult, NoResult, Yielded, PlaceInv, TypeOK, RunTypeOK
  <2>2. t \notin Queued \cup InWorkers \cup Recorded
    BY <2>1 DEF PlaceInv, PlacesDisjoint
  <2>3. /\ Range(Append(done, t)) = Range(done) \cup {t}
        /\ Len(Append(done, t)) = Len(done) + 1
        /\ Range(Append(errors, t)) = Range(errors) \cup {t}
        /\ Len(Append(errors, t)) = Len(errors) + 1
        /\ Len(done) \in Nat /\ Len(errors) \in Nat
    BY <2>1, RangeAppend
  <2>4. \/ done' = Append(done, t) /\ errors' = errors
        \/ done' = done /\ errors' = Append(errors, t)
    BY <2>1 DEF LapEnds
  <2> HIDE DEF t
  <2>5. /\ Recorded' = Recorded \cup {t}
        /\ Len(done') + Len(errors') = Len(done) + Len(errors) + 1
        /\ Len(done') \in Nat /\ Len(errors') \in Nat
    <3>1. CASE done' = Append(done, t) /\ errors' = errors
      BY ONLY <2>3, <3>1 DEF Recorded
    <3>2. CASE done' = done /\ errors' = Append(errors, t)
      BY ONLY <2>3, <3>2 DEF Recorded
    <3> QED
      BY <2>4, <3>1, <3>2
  <2>6. Range(done') \cap Range(errors') = {}
    BY <2>2, <2>3, <2>4 DEF PlaceInv, PlacesDisjoint, Recorded
  <2>7. PlacesDisjoint'
    BY <1>1, <2>2, <2>5, <2>6 DEF PlaceInv, PlacesDisjoint, LapEnds
  <2>8. /\ Cardinality(Yielded) = 1
        /\ Cardinality(Yielded') = 0
        /\ Cardinality(InWorkers) \in Nat
        /\ Len(transactions) \in Nat
    <3>1. Cardinality(Yielded) = 1 /\ Cardinality(Yielded') = 0
      BY <1>1, <2>1, FS_Singleton, FS_EmptySet, Zenon
    <3>2. Cardinality(InWorkers) \in Nat
      BY FiniteParts DEF InWorkers
    <3>3. Len(transactions) \in Nat
      BY DEF PlaceInv, TypeOK, RunTypeOK
    <3> QED
      BY <3>1, <3>2, <3>3
  <2>9. ExactlyOnce'
    <3>1. /\ Queued \cup InWorkers \cup Yielded \cup Recorded = Tx
          /\ Len(transactions) + Cardinality(InWorkers) + Cardinality(Yielded)
               + Len(done) + Len(errors) = Cardinality(Tx)
      BY DEF PlaceInv, ExactlyOnce
    <3>2. Queued' \cup InWorkers' \cup Yielded' \cup Recorded' = Tx
      BY <1>1, <2>1, <2>5, <3>1
    <3>3. Len(transactions') + Cardinality(InWorkers') + Cardinality(Yielded')
            + Len(done') + Len(errors') = Cardinality(Tx)
      BY <1>1, <2>3, <2>5, <2>8, <3>1
    <3> QED
      BY <3>2, <3>3 DEF ExactlyOnce
  <2> QED
    BY <2>7, <2>9 DEF PlaceInv
<1> QED
  BY <1>2, <1>3 DEF PlaceInv, TypeOK, RunTypeOK

(* Every step of a task keeps each transaction in one place. *)
LEMMA PlaceTaskStep ==
  ASSUME PlaceInv, TypeOK', NEW t \in Tx, TaskStep(t)
  PROVE  PlaceInv'
<1> USE DEF AtSelect, InWorkers, WorkerState
<1>1. CASE Send(t)
  BY <1>1, PlaceAwait DEF Send
<1>2. ASSUME NEW ok \in BOOLEAN, WatchReturns(t, ok) PROVE PlaceInv'
  BY <1>2, PlaceAwait, PlaceFinish DEF WatchReturns
<1>3. ASSUME NEW ok \in BOOLEAN, SubmitReturns(t, ok) PROVE PlaceInv'
  BY <1>3, PlaceAwait, PlaceFinish DEF SubmitReturns
<1>4. ASSUME NEW status \in Reported, StreamNext(t, status) PROVE PlaceInv'
  BY <1>4, PlaceAwait, PlaceFinish DEF StreamNext
<1>5. CASE StreamEnds(t)
  BY <1>5, PlaceFinish DEF StreamEnds
<1>6. CASE StreamFails(t)
  BY <1>6, PlacePanic DEF StreamFails
<1>7. CASE Register(t)
  BY <1>7, PlaceAwait DEF Register
<1>8. CASE RegisterFails(t)
  BY <1>8, PlacePanic DEF RegisterFails
<1>9. CASE MonitorFinalized(t)
  BY <1>9, PlaceFinish DEF MonitorFinalized
<1>10. CASE MonitorMortalDropped(t)
  BY <1>10, PlaceFinish DEF MonitorMortalDropped
<1>11. CASE MonitorClosed(t)
  BY <1>11, PlaceFinish DEF MonitorClosed
<1> QED
  BY <1>1, <1>2, <1>3, <1>4, <1>5, <1>6, <1>7, <1>8, <1>9, <1>10, <1>11 DEF TaskStep

(* Every step of the system keeps each transaction in one place. *)
LEMMA PlaceStep == PlaceInv /\ [Next]_vars => PlaceInv'
<1> SUFFICES ASSUME PlaceInv, [Next]_vars PROVE PlaceInv'
  OBVIOUS
<1>0. TypeOK'
  BY TypeStep DEF PlaceInv
<1> USE <1>0
<1>1. CASE Pop
  BY <1>1, PlacePop
<1>2. CASE StartLoop
  BY <1>2, PlaceSame DEF StartLoop, InWorkers
<1>3. CASE LapEnds
  BY <1>3, PlaceLapEnds
<1>4. ASSUME NEW n \in PendingCounts, PendingExtrinsics(n) PROVE PlaceInv'
  BY <1>4, PlaceSame DEF PendingExtrinsics, InWorkers
<1>5. CASE PendingFails
  BY <1>5, PlacePanic DEF PendingFails
<1>6. ASSUME NEW t \in Tx, TaskStep(t) PROVE PlaceInv'
  BY <1>6, PlaceTaskStep
<1>7. CASE Tick
  BY <1>7, PlaceSame DEF Tick, BeginConsume, InWorkers
<1>8. CASE TimeoutReached
  BY <1>8, PlaceSame DEF TimeoutReached, Break, InWorkers
<1>9. CASE Stop
  BY <1>9, PlaceSame DEF Stop, Break, InWorkers
<1>10. CASE AllFuturesDone
  <2>1. InWorkers' = InWorkers
    BY <1>10 DEF AllFuturesDone, Break, InWorkers
  <2> QED
    BY <1>10, <2>1, PlaceSame DEF AllFuturesDone, Break
<1>11. CASE StopSignal
  BY <1>11, PlaceSame DEF StopSignal, InWorkers
<1>12. CASE UNCHANGED vars
  BY <1>12, PlaceSame DEF vars, runVars, InWorkers
<1> QED
  BY <1>1, <1>2, <1>3, <1>4, <1>5, <1>6, <1>7, <1>8, <1>9, <1>10, <1>11, <1>12
     DEF Next, Consume, Over

(* The inductive invariant behind NoneLostNoneTwice. *)
LEMMA PlaceInvariant == Spec => []PlaceInv
  BY PlaceInit, PlaceStep, PTL DEF Spec

(* No transaction of the batch is lost, sent twice or recorded twice, in any
   interleaving and whatever fails: at every moment it is in exactly one of
   the queue, the workers, the pending result, done and errors. *)
THEOREM NoneLostNoneTwice == Spec => []ExactlyOnce
<1>1. PlaceInv => ExactlyOnce
  BY DEF PlaceInv
<1> QED
  BY <1>1, PlaceInvariant, PTL

-------------------------------------------------------------------------------
(* The counters against the workers. *)

(* What recording an event does to the difference Counters::buffered computes. *)
LEMMA PushUnanswered ==
  ASSUME LogTypeOK, NEW t \in Tx, NEW e \in ExecutionEvent, push_event(t, e)
  PROVE  /\ e = "Popped" => Unanswered' = Unanswered + 1
         /\ e \in {"WatchOk", "WatchErr", "SubmitOk", "SubmitErr"}
              => Unanswered' = Unanswered - 1
         /\ e \notin {"Popped", "WatchOk", "WatchErr", "SubmitOk", "SubmitErr"}
              => Unanswered' = Unanswered
<1> DEFINE Used == {"Popped", "WatchOk", "WatchErr", "SubmitOk", "SubmitErr"}
<1>1. \A c \in Counter : total_counters[c] \in Nat
  BY DEF LogTypeOK
<1>2. Used \subseteq Counter
  BY DEF Counter, ExecutionEvent, TransactionStatus
<1>3. CASE e \in Used
  <2>1. total_counters' = [total_counters EXCEPT ![e] = @ + 1]
    BY <1>2, <1>3 DEF push_event, count_event
  <2>2. \A c \in Used : total_counters'[c] =
                          IF c = e THEN total_counters[c] + 1 ELSE total_counters[c]
    BY <1>2, <2>1 DEF LogTypeOK
  <2> QED
    BY <1>1, <1>2, <1>3, <2>2 DEF Unanswered
<1>4. CASE e \notin Used
  <2>1. \A c \in Used : total_counters'[c] = total_counters[c]
    BY <1>2, <1>4 DEF push_event, count_event, LogTypeOK
  <2> QED
    BY <1>4, <2>1 DEF Unanswered
<1> QED
  BY <1>3, <1>4

(* At the start nothing is unsubmitted and the fill may pop the threshold. *)
LEMMA BufferInit == Init => BufferInv
<1> SUFFICES ASSUME Init PROVE BufferInv
  OBVIOUS
<1>1. Unsubmitted = {} /\ Cardinality({}) = 0
  BY FS_EmptySet DEF Init, Unsubmitted
<1>2. Unanswered = 0
  BY DEF Init, LogInit, Unanswered, Counter, ExecutionEvent, TransactionStatus
<1> QED
  BY <1>1, <1>2, RunnerAssumption DEF Init, BufferInv, UnsubmittedWithinThreshold

(* A step that changes neither what is unsubmitted nor what is unanswered and
   does not enter a popping loop under a threshold. *)
LEMMA BufferSame ==
  ASSUME BufferInv, Unsubmitted' = Unsubmitted, Unanswered' = Unanswered,
         pc' \in {"fill", "pop"} => SendThreshold = UsizeMax
  PROVE  BufferInv'
  BY DEF BufferInv, UnsubmittedWithinThreshold

(* A submission is answered. *)
LEMMA BufferAnswer ==
  ASSUME PlaceInv, BufferInv, NEW t \in Unsubmitted,
         NEW e \in {"WatchOk", "WatchErr", "SubmitOk", "SubmitErr"},
         push_event(t, e), Unsubmitted' = Unsubmitted \ {t},
         pc' \in {"fill", "pop"} => SendThreshold = UsizeMax
  PROVE  BufferInv'
<1>1. Unanswered' = Unanswered - 1
  BY PushUnanswered DEF PlaceInv, TypeOK, Unsubmitted, ExecutionEvent
<1>2. /\ Cardinality(Unsubmitted') = Cardinality(Unsubmitted) - 1
      /\ Cardinality(Unsubmitted) \in Nat
  BY FiniteParts, FS_RemoveElement DEF Unsubmitted
<1> QED
  BY <1>1, <1>2, RunnerAssumption DEF BufferInv, UnsubmittedWithinThreshold

(* A popped transaction takes one from what the loop may still pop. *)
LEMMA BufferPop ==
  ASSUME PlaceInv, BufferInv, Pop
  PROVE  BufferInv'
<1> DEFINE t == transactions[Len(transactions)]
<1>1. t \in Tx /\ t \in Queued
  BY LastOfQueue, RangeFront DEF Pop, PlaceInv, PlacesDisjoint, TypeOK, RunTypeOK, Queued
<1>2. /\ push_event(t, "Popped")
      /\ workers' = [workers EXCEPT ![t] = "pushed"]
      /\ to_consume > 0 /\ to_consume' = to_consume - 1
      /\ pc \in {"fill", "pop"} /\ pc' = pc
  BY DEF Pop
<1> HIDE DEF t
<1>3. t \notin Unsubmitted
  BY <1>1 DEF PlaceInv, PlacesDisjoint, InWorkers, Unsubmitted
<1>4. Unsubmitted' = Unsubmitted \cup {t}
  BY <1>1, <1>2 DEF Unsubmitted, PlaceInv, TypeOK, RunTypeOK
<1>5. /\ Cardinality(Unsubmitted') = Cardinality(Unsubmitted) + 1
      /\ Cardinality(Unsubmitted) \in Nat
      /\ Cardinality(Unsubmitted') <= Cardinality(Tx)
      /\ Cardinality(Tx) \in Nat
  <2>1. IsFiniteSet(Unsubmitted) /\ Cardinality(Unsubmitted) \in Nat
    BY FiniteParts DEF Unsubmitted
  <2>2. Unsubmitted \cup {t} \in SUBSET Tx
    BY <1>1 DEF Unsubmitted
  <2> QED
    BY <1>3, <1>4, <2>1, <2>2, FiniteParts, FS_AddElement
<1>6. Unanswered' = Unanswered + 1
  BY <1>1, <1>2, PushUnanswered DEF PlaceInv, TypeOK, ExecutionEvent
<1>7. to_consume \in Nat
  BY DEF PlaceInv, TypeOK, RunTypeOK
<1>8. CASE SendThreshold = UsizeMax
  BY <1>5, <1>6, <1>8, RunnerAssumption, UsizeMaxAssumption
     DEF BufferInv, UnsubmittedWithinThreshold
<1>9. CASE SendThreshold # UsizeMax
  BY <1>2, <1>5, <1>6, <1>7, <1>9, RunnerAssumption, UsizeMaxAssumption
     DEF BufferInv, UnsubmittedWithinThreshold
<1> QED
  BY <1>8, <1>9

(* The steps of a task but the second result of a submission, which only a
   monitor that died brings. *)
OneResultStep(t) ==
  \/ Send(t)
  \/ \E ok \in BOOLEAN : WatchReturns(t, ok) \/ SubmitReturns(t, ok)
  \/ \E status \in Reported : StreamNext(t, status)
  \/ StreamEnds(t)
  \/ StreamFails(t)
  \/ Register(t)
  \/ RegisterFails(t)
  \/ MonitorFinalized(t)
  \/ MonitorMortalDropped(t)

(* They preserve BufferInv. *)
LEMMA BufferTaskStep ==
  ASSUME PlaceInv, BufferInv, NEW t \in Tx, OneResultStep(t)
  PROVE  BufferInv'
<1>1. /\ workers \in [Tx -> WorkerState]
      /\ LogTypeOK
      /\ pc = "select"
  BY DEF PlaceInv, TypeOK, RunTypeOK, OneResultStep, Send, WatchReturns, SubmitReturns,
         StreamNext, StreamEnds, StreamFails, Register, RegisterFails,
         MonitorFinalized, MonitorMortalDropped, AtSelect
(* Where the two ways of going on lead. *)
<1>2. ASSUME NEW what \in WorkerState, Await(t, what)
      PROVE  /\ pc' = "select"
             /\ workers' = [workers EXCEPT ![t] = what]
  BY <1>1, <1>2 DEF Await
<1>3. ASSUME NEW kind \in {"Done", "Error"}, Finish(t, kind)
      PROVE  /\ pc' \in {"fill", "pop"} => SendThreshold = UsizeMax
             /\ workers' = [workers EXCEPT ![t] = "none"]
  BY <1>3 DEF Finish, BeginConsume
<1>4. ASSUME Panic PROVE BufferInv'
  BY <1>4, BufferSame DEF Panic, Unsubmitted, Unanswered, logVars
(* A step of a task whose submission was answered before. *)
<1>5. ASSUME workers[t] \notin {"pushed", "submitting"},
             \E what \in WorkerState \ {"pushed", "submitting"} :
               workers' = [workers EXCEPT ![t] = what]
      PROVE  Unsubmitted' = Unsubmitted
  BY <1>1, <1>5 DEF Unsubmitted
<1>6. CASE Send(t)
  <2>1. Unsubmitted' = Unsubmitted
    BY <1>1, <1>2, <1>6 DEF Send, AtSelect, Unsubmitted, WorkerState
  <2>2. Unanswered' = Unanswered
    BY <1>1, <1>6, PushUnanswered DEF Send, ExecutionEvent
  <2> QED
    BY <1>2, <1>6, <2>1, <2>2, BufferSame DEF Send, WorkerState
<1>7. ASSUME NEW ok \in BOOLEAN, WatchReturns(t, ok) PROVE BufferInv'
  <2>1. t \in Unsubmitted /\ Unsubmitted' = Unsubmitted \ {t}
    BY <1>1, <1>2, <1>3, <1>7 DEF WatchReturns, AtSelect, Unsubmitted, WorkerState
  <2> QED
    BY <1>2, <1>3, <1>7, <2>1, BufferAnswer DEF WatchReturns, WorkerState
<1>8. ASSUME NEW ok \in BOOLEAN, SubmitReturns(t, ok) PROVE BufferInv'
  <2>1. t \in Unsubmitted /\ Unsubmitted' = Unsubmitted \ {t}
    BY <1>1, <1>2, <1>3, <1>8 DEF SubmitReturns, AtSelect, Unsubmitted, WorkerState
  <2> QED
    BY <1>2, <1>3, <1>8, <2>1, BufferAnswer DEF SubmitReturns, WorkerState
<1>9. ASSUME NEW status \in Reported, StreamNext(t, status) PROVE BufferInv'
  <2>1. status \in TransactionStatus
    BY RunnerAssumption
  <2>2. Unanswered' = Unanswered
    BY <1>1, <1>9, <2>1, PushUnanswered DEF StreamNext, ExecutionEvent, TransactionStatus
  <2>3. Unsubmitted' = Unsubmitted
    BY <1>2, <1>3, <1>5, <1>9 DEF StreamNext, AtSelect, WorkerState
  <2> QED
    BY <1>2, <1>3, <1>9, <2>2, <2>3, BufferSame DEF StreamNext, WorkerState
<1>10. CASE StreamEnds(t)
  <2>1. Unsubmitted' = Unsubmitted
    BY <1>3, <1>5, <1>10 DEF StreamEnds, AtSelect, WorkerState
  <2> QED
    BY <1>3, <1>10, <2>1, BufferSame DEF StreamEnds, Unanswered, logVars
<1>11. CASE Register(t)
  <2>1. Unsubmitted' = Unsubmitted
    BY <1>2, <1>5, <1>11 DEF Register, AtSelect, WorkerState
  <2> QED
    BY <1>2, <1>11, <2>1, BufferSame DEF Register, Unanswered, logVars, WorkerState
<1>12. CASE MonitorFinalized(t)
  <2>1. Unsubmitted' = Unsubmitted
    BY <1>3, <1>5, <1>12 DEF MonitorFinalized, AtSelect, WorkerState
  <2>2. Unanswered' = Unanswered
    BY <1>1, <1>12, PushUnanswered DEF MonitorFinalized, ExecutionEvent
  <2> QED
    BY <1>3, <1>12, <2>1, <2>2, BufferSame DEF MonitorFinalized
<1>13. CASE MonitorMortalDropped(t)
  <2>1. Unsubmitted' = Unsubmitted
    BY <1>3, <1>5, <1>13 DEF MonitorMortalDropped, AtSelect, WorkerState
  <2>2. Unanswered' = Unanswered
    BY <1>1, <1>13, PushUnanswered DEF MonitorMortalDropped, ExecutionEvent
  <2> QED
    BY <1>3, <1>13, <2>1, <2>2, BufferSame DEF MonitorMortalDropped
<1> QED
  BY <1>4, <1>6, <1>7, <1>8, <1>9, <1>10, <1>11, <1>12, <1>13
     DEF OneResultStep, StreamFails, RegisterFails

(* So does every step of run() itself. *)
LEMMA BufferRunStep ==
  ASSUME PlaceInv, BufferInv,
         \/ Consume \/ Tick \/ TimeoutReached \/ Stop \/ AllFuturesDone
         \/ StopSignal \/ UNCHANGED vars
  PROVE  BufferInv'
<1> USE DEF Unsubmitted, Unanswered, logVars
<1>1. CASE Pop
  BY <1>1, BufferPop
<1>2. CASE StartLoop \/ LapEnds
  BY <1>2, BufferSame DEF StartLoop, LapEnds
<1>3. ASSUME NEW n \in PendingCounts, PendingExtrinsics(n) PROVE BufferInv'
  <2>1. UNCHANGED <<Unsubmitted, Unanswered>>
    BY <1>3 DEF PendingExtrinsics
  <2>2. Cardinality(Unsubmitted) \in Nat
    BY FiniteParts
  <2>3. buffered = Cardinality(Unsubmitted)
    BY <2>2 DEF BufferInv, buffered
  <2>4. n \in Nat /\ SendThreshold \in Nat
    BY RunnerAssumption, UsizeMaxAssumption
  <2>5. CASE pc' = "panicked"
    BY <2>1, <2>5, BufferSame
  <2>6. CASE to_consume' = Shortfall(n)
    <3>1. to_consume' > 0 => to_consume' + Cardinality(Unsubmitted) <= SendThreshold
      BY <2>2, <2>3, <2>4, <2>6 DEF Shortfall, SaturatingSub
    <3> QED
      BY <2>1, <3>1 DEF BufferInv, UnsubmittedWithinThreshold
  <2> QED
    BY <1>3, <2>5, <2>6 DEF PendingExtrinsics
<1>4. CASE PendingFails
  BY <1>4, BufferSame DEF PendingFails, Panic
<1>5. CASE Tick
  BY <1>5, BufferSame DEF Tick, BeginConsume
<1>6. CASE TimeoutReached \/ Stop \/ AllFuturesDone
  BY <1>6, BufferSame DEF TimeoutReached, Stop, AllFuturesDone, Break
<1>7. CASE StopSignal
  BY <1>7 DEF StopSignal, BufferInv, UnsubmittedWithinThreshold
<1>8. CASE UNCHANGED vars
  BY <1>8 DEF vars, runVars, BufferInv, UnsubmittedWithinThreshold
<1> QED
  BY <1>1, <1>2, <1>3, <1>4, <1>5, <1>6, <1>7, <1>8 DEF Consume

LEMMA BufferStep ==
  ASSUME PlaceInv, BufferInv, [Next]_vars, \A t \in Tx : ~MonitorClosed(t)
  PROVE  BufferInv'
<1>1. ASSUME NEW t \in Tx, TaskStep(t) PROVE OneResultStep(t)
  BY <1>1 DEF TaskStep, OneResultStep
<1> QED
  BY <1>1, BufferTaskStep, BufferRunStep DEF Next, Over

(* The inductive invariant behind BufferedIsExact and ThresholdIsKept. *)
LEMMA BufferInvariant ==
  ASSUME "monitor_dies" \notin Environment
  PROVE  Spec => []BufferInv
<1>1. PlaceInv /\ BufferInv /\ [Next]_vars => BufferInv'
  BY BufferStep DEF MonitorClosed
<1> QED
  BY <1>1, PlaceInvariant, BufferInit, PTL DEF Spec

(* While the monitor lives, Counters::buffered is exact at every point where
   the runner may read it, and never underflows. *)
THEOREM BufferedIsExact ==
  ASSUME "monitor_dies" \notin Environment
  PROVE  Spec => []BufferedExact
<1>1. BufferInv => BufferedExact
  BY FiniteParts DEF BufferInv, BufferedExact, buffered, Unsubmitted
<1> QED
  BY <1>1, BufferInvariant, PTL

(* While the monitor lives, no more than send_threshold submissions are ever
   without an answer, whatever counts the node reports. *)
THEOREM ThresholdIsKept ==
  ASSUME "monitor_dies" \notin Environment
  PROVE  Spec => []UnsubmittedWithinThreshold
<1>1. BufferInv => UnsubmittedWithinThreshold
  BY DEF BufferInv
<1> QED
  BY <1>1, BufferInvariant, PTL

-------------------------------------------------------------------------------
(* Runs without a threshold. *)

(* The initial fill has room for the whole batch. *)
LEMMA UnlimitedInit ==
  ASSUME SendThreshold = UsizeMax
  PROVE  Init => UnlimitedInv
<1>1. Len(Batch) <= UsizeMax
  BY BatchSize, RunnerAssumption
<1> QED
  BY <1>1 DEF Init, UnlimitedInv, UnlimitedDrainsBatch

(* Every lap has room for the whole queue, which only popping changes. *)
LEMMA UnlimitedStep ==
  ASSUME SendThreshold = UsizeMax
  PROVE  TypeOK /\ UnlimitedInv /\ [Next]_vars => UnlimitedInv'
<1> SUFFICES ASSUME TypeOK, UnlimitedInv, [Next]_vars PROVE UnlimitedInv'
  OBVIOUS
<1> USE DEF UnlimitedInv, UnlimitedDrainsBatch
<1>0. /\ transactions \in Seq(Tx) /\ to_consume \in Nat
      /\ transactions = <<>> => Len(transactions) = 0
      /\ Len(transactions) = 0 => transactions = <<>>
      /\ UsizeMax \in Nat
  BY UsizeMaxAssumption DEF TypeOK, RunTypeOK
<1>1. CASE Pop
  <2>1. Len(transactions') = Len(transactions) - 1
    BY <1>0, <1>1, LastOfQueue DEF Pop
  <2> QED
    BY <1>0, <1>1, <2>1 DEF Pop
<1>2. CASE StartLoop \/ LapEnds
  BY <1>0, <1>2 DEF StartLoop, LapEnds, LoopOver
<1>3. ASSUME BeginConsume, pc = "select", UNCHANGED transactions PROVE UnlimitedInv'
  BY <1>0, <1>3 DEF BeginConsume
<1>4. ASSUME NEW n \in PendingCounts, PendingExtrinsics(n) PROVE UnlimitedInv'
  BY <1>4 DEF PendingExtrinsics
<1>5. CASE PendingFails
  BY <1>5 DEF PendingFails, Panic
<1>6. ASSUME NEW t \in Tx, TaskStep(t) PROVE UnlimitedInv'
  <2>1. /\ pc = "select"
        /\ UNCHANGED transactions
        /\ BeginConsume \/ UNCHANGED pc \/ pc' = "panicked"
    BY <1>6 DEF TaskStep, Send, WatchReturns, SubmitReturns, StreamNext, StreamEnds,
                StreamFails, Register, RegisterFails, MonitorFinalized,
                MonitorMortalDropped, MonitorClosed, AtSelect, Await, Finish, Panic
  <2> QED
    BY <2>1, <1>3
<1>7. CASE Tick
  BY <1>7, <1>3 DEF Tick
<1>8. CASE TimeoutReached \/ Stop \/ AllFuturesDone
  BY <1>8 DEF TimeoutReached, Stop, AllFuturesDone, Break
<1>9. CASE StopSignal
  BY <1>9 DEF StopSignal
<1>10. CASE UNCHANGED vars
  BY <1>10 DEF vars, runVars
<1> QED
  BY <1>1, <1>2, <1>4, <1>5, <1>6, <1>7, <1>8, <1>9, <1>10 DEF Next, Consume, Over

(* Without a threshold nothing is left in the queue when run() looks at its
   tasks, and so nothing when it finds all of them done. *)
THEOREM UnlimitedRunDrainsBatch ==
  ASSUME SendThreshold = UsizeMax
  PROVE  Spec => []UnlimitedDrainsBatch
<1>1. UnlimitedInv => UnlimitedDrainsBatch
  BY DEF UnlimitedInv
<1> QED
  BY <1>1, UnlimitedInit, UnlimitedStep, TypeCorrect, PTL DEF Spec

-------------------------------------------------------------------------------
(* The outcomes against the logs. *)

(* What recording an event does to what the logs show. *)
LEMMA LoggedPush ==
  ASSUME LogTypeOK, NEW t \in Tx, NEW e \in ExecutionEvent, push_event(t, e),
         NEW u \in Tx, NEW f
  PROVE  Logged(u, f)' <=> Logged(u, f) \/ (u = t /\ f = e)
<1>1. events' = [events EXCEPT ![t] = Append(events[t], e)]
  BY DEF push_event
<1>2. CASE u # t
  BY <1>1, <1>2 DEF Logged, LogTypeOK
<1>3. CASE u = t
  <2> DEFINE longer == Append(events[t], e)
             n == Len(events[t])
  <2>1. events'[t] = longer
    BY <1>1 DEF LogTypeOK
  <2>2. /\ DOMAIN longer = 1..n + 1
        /\ DOMAIN events[t] = 1..n
        /\ n \in Nat
        /\ longer[n + 1] = e
        /\ \A i \in 1..n : longer[i] = events[t][i]
    BY DEF LogTypeOK
  <2> HIDE DEF longer, n
  <2>3. 1..n + 1 = 1..n \cup {n + 1}
    BY <2>2
  <2>4. (\E i \in DOMAIN longer : longer[i] = f)
          <=> (\E i \in DOMAIN events[t] : events[t][i] = f) \/ f = e
    BY <2>2, <2>3
  <2> QED
    BY <1>3, <2>1, <2>4 DEF Logged
<1> QED
  BY <1>2, <1>3

(* An event that is no success leaves Succeeded as it is. *)
LEMMA SucceededPush ==
  ASSUME LogTypeOK, NEW t \in Tx, NEW e \in ExecutionEvent, push_event(t, e)
  PROVE  \A u \in Tx : Succeeded(u)' <=>
           \/ Succeeded(u)
           \/ /\ u = t
              /\ \/ e \in {"Finalized", "FinalizedMonitor"}
                 \/ e = "SubmitOk" /\ t \notin Watched /\ ~HasMonitor
<1> TAKE u \in Tx
<1>1. \A f \in {"Finalized", "FinalizedMonitor", "SubmitOk"} :
        Logged(u, f)' <=> Logged(u, f) \/ (u = t /\ f = e)
  BY LoggedPush
<1> QED
  BY <1>1 DEF Succeeded

(* At the start no log shows a success and nothing is done. *)
LEMMA OutcomeInit == Init => OutcomeMatchesLog
<1> SUFFICES ASSUME Init, NEW t \in Tx PROVE ~Succeeded(t) /\ ~CountedDone(t)
  BY DEF OutcomeMatchesLog
<1>1. events[t] = <<>> /\ done = <<>> /\ result = NoResult
  BY DEF Init, LogInit
<1>2. \A f : ~Logged(t, f)
  BY <1>1 DEF Logged
<1> QED
  BY <1>1, <1>2 DEF Succeeded, CountedDone, Yielded, Range

(* A step that changes no log and no outcome. *)
LEMMA OutcomeSame ==
  ASSUME OutcomeMatchesLog, UNCHANGED <<events, done, result>>
  PROVE  OutcomeMatchesLog'
  BY DEF OutcomeMatchesLog, Succeeded, Logged, CountedDone, Yielded

(* A step of a task in flight that records no success and yields no Done. *)
LEMMA OutcomeGoesOn ==
  ASSUME PlaceInv, OutcomeMatchesLog, NEW t \in InWorkers,
         NEW e \in ExecutionEvent, push_event(t, e),
         e \notin {"Finalized", "FinalizedMonitor"},
         e = "SubmitOk" => t \in Watched \/ HasMonitor,
         pc = "select", UNCHANGED done,
         result' = result \/ result' = [kind |-> "Error", hash |-> t]
  PROVE  OutcomeMatchesLog'
<1>1. \A u \in Tx : Succeeded(u)' <=> Succeeded(u)
  BY SucceededPush DEF PlaceInv, TypeOK, InWorkers
<1>2. result = NoResult
  BY DEF PlaceInv, PlacesDisjoint
<1>3. \A u \in Tx : CountedDone(u)' <=> CountedDone(u)
  BY <1>2 DEF CountedDone, Yielded, NoResult
<1> QED
  BY <1>1, <1>3 DEF OutcomeMatchesLog

(* A task in flight records its success and yields Done. *)
LEMMA OutcomeSucceeds ==
  ASSUME PlaceInv, OutcomeMatchesLog, NEW t \in InWorkers,
         NEW e \in ExecutionEvent, push_event(t, e),
         \/ e \in {"Finalized", "FinalizedMonitor"}
         \/ e = "SubmitOk" /\ t \notin Watched /\ ~HasMonitor,
         pc = "select", UNCHANGED done,
         result' = [kind |-> "Done", hash |-> t]
  PROVE  OutcomeMatchesLog'
<1>1. \A u \in Tx : Succeeded(u)' <=> Succeeded(u) \/ u = t
  BY SucceededPush DEF PlaceInv, TypeOK, InWorkers
<1>2. result = NoResult
  BY DEF PlaceInv, PlacesDisjoint
<1>3. \A u \in Tx : CountedDone(u)' <=> CountedDone(u) \/ u = t
  <2>1. result'.kind = "Done" /\ result'.hash = t /\ NoResult.kind = "None"
    BY DEF NoResult
  <2>2. result' # NoResult
    BY <2>1
  <2>3. \A u \in Tx : u \in Yielded' <=> u = t
    BY <2>1, <2>2 DEF Yielded
  <2>4. Yielded = {} /\ Range(done)' = Range(done)
    BY <1>2 DEF Yielded
  <2> QED
    BY <2>1, <2>3, <2>4 DEF CountedDone
<1> QED
  BY <1>1, <1>3 DEF OutcomeMatchesLog

(* Every step of a task keeps outcomes and logs in agreement. *)
LEMMA OutcomeTaskStep ==
  ASSUME PlaceInv, OutcomeMatchesLog, NEW t \in Tx, TaskStep(t)
  PROVE  OutcomeMatchesLog'
<1> USE DEF AtSelect, InWorkers, Finish, Await
<1>1. CASE Send(t)
  BY <1>1, OutcomeGoesOn DEF Send, ExecutionEvent
<1>2. ASSUME NEW ok \in BOOLEAN, WatchReturns(t, ok) PROVE OutcomeMatchesLog'
  BY <1>2, OutcomeGoesOn DEF WatchReturns, ExecutionEvent
<1>3. ASSUME NEW ok \in BOOLEAN, SubmitReturns(t, ok) PROVE OutcomeMatchesLog'
  <2>1. CASE ok /\ ~HasMonitor
    BY <1>3, <2>1, OutcomeSucceeds DEF SubmitReturns, ExecutionEvent
  <2>2. CASE ~(ok /\ ~HasMonitor)
    BY <1>3, <2>2, OutcomeGoesOn DEF SubmitReturns, ExecutionEvent
  <2> QED
    BY <2>1, <2>2
<1>4. ASSUME NEW status \in Reported, StreamNext(t, status) PROVE OutcomeMatchesLog'
  <2>1. status \in ExecutionEvent
    BY RunnerAssumption DEF ExecutionEvent
  <2>2. status # "SubmitOk"
    BY RunnerAssumption DEF TransactionStatus
  <2>3. CASE is_finalized(status)
    BY <1>4, <2>1, <2>3, OutcomeSucceeds DEF StreamNext, is_finalized
  <2>4. CASE ~is_finalized(status)
    <3>1. status \notin {"Finalized", "FinalizedMonitor"}
      BY <2>4, RunnerAssumption DEF is_finalized, TransactionStatus
    <3> QED
      BY <1>4, <2>1, <2>2, <2>4, <3>1, OutcomeGoesOn DEF StreamNext
  <2> QED
    BY <2>3, <2>4
<1>5. CASE StreamEnds(t)
  <2>1. result = NoResult
    BY <1>5 DEF StreamEnds, PlaceInv, PlacesDisjoint
  <2> QED
    BY <1>5, <2>1 DEF StreamEnds, logVars, OutcomeMatchesLog, Succeeded, Logged,
                      CountedDone, Yielded, NoResult
<1>6. CASE StreamFails(t)
  BY <1>6, OutcomeSame DEF StreamFails, Panic, logVars
<1>7. CASE Register(t)
  BY <1>7, OutcomeSame DEF Register, logVars
<1>8. CASE RegisterFails(t)
  BY <1>8, OutcomeSame DEF RegisterFails, Panic, logVars
<1>9. CASE MonitorFinalized(t)
  BY <1>9, OutcomeSucceeds DEF MonitorFinalized, ExecutionEvent
<1>10. CASE MonitorMortalDropped(t)
  BY <1>10, OutcomeGoesOn DEF MonitorMortalDropped, ExecutionEvent
<1>11. CASE MonitorClosed(t)
  BY <1>11, OutcomeGoesOn DEF MonitorClosed, ExecutionEvent
<1> QED
  BY <1>1, <1>2, <1>3, <1>4, <1>5, <1>6, <1>7, <1>8, <1>9, <1>10, <1>11 DEF TaskStep

(* Every step of the system keeps outcomes and logs in agreement. *)
LEMMA OutcomeStep == PlaceInv /\ OutcomeMatchesLog /\ [Next]_vars => OutcomeMatchesLog'
<1> SUFFICES ASSUME PlaceInv, OutcomeMatchesLog, [Next]_vars PROVE OutcomeMatchesLog'
  OBVIOUS
<1>1. CASE Pop
  <2>1. transactions[Len(transactions)] \in Tx
    BY <1>1, LastOfQueue DEF Pop, PlaceInv, TypeOK, RunTypeOK
  <2>2. \A u \in Tx : Succeeded(u)' <=> Succeeded(u)
    BY <1>1, <2>1, SucceededPush DEF Pop, PlaceInv, TypeOK, ExecutionEvent
  <2> QED
    BY <1>1, <2>2 DEF Pop, OutcomeMatchesLog, CountedDone, Yielded
<1>2. CASE LapEnds
  <2>1. \A u \in Tx : Succeeded(u)' <=> Succeeded(u)
    BY <1>2 DEF LapEnds, logVars, Succeeded, Logged
  <2>2. \A u \in Tx : CountedDone(u)' <=> CountedDone(u)
    <3>1. CASE result \in ExecutionResult /\ result.kind = "Done"
      <4>1. done' = Append(done, result.hash) /\ result.hash \in Tx /\ result # NoResult
        BY <1>2, <3>1 DEF LapEnds, ExecutionResult, NoResult
      <4>2. Range(done') = Range(done) \cup {result.hash}
        BY <4>1, RangeAppend DEF PlaceInv, TypeOK, RunTypeOK
      <4>3. Yielded' = {}
        BY <1>2 DEF LapEnds, Yielded
      <4>4. \A u \in Tx : u \in Yielded <=> u = result.hash
        BY <4>1 DEF Yielded
      <4>5. Range(done)' = Range(done')
        OBVIOUS
      <4> QED
        BY <3>1, <4>2, <4>3, <4>4, <4>5 DEF CountedDone
    <3>2. CASE result.kind # "Done"
      <4>1. Yielded' = {} /\ done' = done
        BY <1>2, <3>2 DEF LapEnds, Yielded
      <4> QED
        BY <3>2, <4>1 DEF CountedDone
    <3> QED
      BY <3>1, <3>2 DEF PlaceInv, TypeOK, RunTypeOK, NoResult
  <2> QED
    BY <2>1, <2>2 DEF OutcomeMatchesLog
<1>3. ASSUME NEW t \in Tx, TaskStep(t) PROVE OutcomeMatchesLog'
  BY <1>3, OutcomeTaskStep
<1>4. ASSUME NEW n \in PendingCounts, PendingExtrinsics(n) PROVE OutcomeMatchesLog'
  BY <1>4, OutcomeSame DEF PendingExtrinsics, logVars
<1>5. CASE StartLoop \/ PendingFails \/ Tick \/ StopSignal
  BY <1>5, OutcomeSame DEF StartLoop, PendingFails, Panic, Tick, StopSignal, logVars
<1>6. CASE TimeoutReached \/ Stop \/ AllFuturesDone
  BY <1>6, OutcomeSame DEF TimeoutReached, Stop, AllFuturesDone, Break, logVars
<1>7. CASE UNCHANGED vars
  BY <1>7, OutcomeSame DEF vars, runVars, logVars
<1> QED
  BY <1>1, <1>2, <1>3, <1>4, <1>5, <1>6, <1>7 DEF Next, Consume, Over

(* A transaction is filed under done exactly when its log shows that it
   succeeded; nothing that failed or is still in flight shows a success. *)
THEOREM OutcomesAreTrue == Spec => []OutcomeMatchesLog
  BY PlaceInvariant, OutcomeInit, OutcomeStep, PTL DEF Spec

-------------------------------------------------------------------------------
(* Implementing the abstract batch. *)

Active == InWorkers \cup Yielded
Outcome == [t \in Tx |-> OutcomeOf(t)]

(* The initial states of the run are initial states of the batch. *)
LEMMA PromiseInit == Init => Promise!Init
<1> SUFFICES ASSUME Init PROVE Promise!Init
  OBVIOUS
<1>1. InWorkers = {} /\ Yielded = {}
  BY DEF Init, InWorkers, Yielded
<1>2. \A t \in Tx : OutcomeOf(t) = "none"
  BY DEF Init, OutcomeOf, Range
<1> QED
  BY <1>1, <1>2 DEF Promise!Init, Init, Running

(* A step that leaves the batch alone and does not end the run is a stutter,
   one that only ends it is the abstract End. *)
LEMMA PromiseStutter ==
  ASSUME UNCHANGED <<transactions, done, errors>>, Active' = Active,
         pc \in Running <=> pc' \in Running
  PROVE  [Promise!Next]_(Promise!vars)
<1>1. \A t \in Tx : OutcomeOf(t)' = OutcomeOf(t)
  BY DEF OutcomeOf
<1> QED
  BY <1>1 DEF Promise!vars, Active

(* A step that only ends the run is the abstract End. *)
LEMMA PromiseEnd ==
  ASSUME UNCHANGED <<transactions, done, errors>>, Active' = Active,
         pc \in Running, pc' \notin Running
  PROVE  Promise!Next
<1>1. \A t \in Tx : OutcomeOf(t)' = OutcomeOf(t)
  BY DEF OutcomeOf
<1> QED
  BY <1>1 DEF Promise!Next, Promise!End, Active

(* A step of a task maps to Conclude, to End or to a stutter. *)
LEMMA PromiseTaskStep ==
  ASSUME PlaceInv, NEW t \in Tx, TaskStep(t)
  PROVE  [Promise!Next]_(Promise!vars)
<1>1. /\ workers \in [Tx -> WorkerState]
      /\ pc = "select"
      /\ result = NoResult
      /\ t \in InWorkers
  <2>1. AtSelect(t, workers[t]) /\ workers[t] # "none"
    BY DEF TaskStep, Send, WatchReturns, SubmitReturns, StreamNext, StreamEnds,
           StreamFails, Register, RegisterFails, MonitorFinalized,
           MonitorMortalDropped, MonitorClosed, AtSelect
  <2> QED
    BY <2>1 DEF AtSelect, InWorkers, PlaceInv, PlacesDisjoint, TypeOK, RunTypeOK
<1>2. ASSUME NEW what \in WorkerState \ {"none"}, Await(t, what)
      PROVE  [Promise!Next]_(Promise!vars)
  <2>1. Active' = Active
    BY <1>1, <1>2 DEF Await, Active, InWorkers, Yielded
  <2> QED
    BY <1>2, <2>1, PromiseStutter DEF Await
<1>3. ASSUME NEW kind \in {"Done", "Error"}, Finish(t, kind)
      PROVE  [Promise!Next]_(Promise!vars)
  <2>1. Yielded = {} /\ Yielded' = {t} /\ InWorkers' = InWorkers \ {t}
    BY <1>1, <1>3 DEF Finish, InWorkers, Yielded, NoResult
  <2>2. Active' = Active
    BY <1>1, <2>1 DEF Active
  <2> QED
    BY <1>1, <1>3, <2>2, PromiseStutter DEF Finish, BeginConsume, Running
<1>4. ASSUME Panic PROVE [Promise!Next]_(Promise!vars)
  <2>1. Active' = Active
    BY <1>4 DEF Panic, Active, InWorkers, Yielded
  <2> QED
    BY <1>1, <1>4, <2>1, PromiseEnd DEF Panic, Running
<1> QED
  BY <1>2, <1>3, <1>4
     DEF TaskStep, Send, WatchReturns, SubmitReturns, StreamNext, StreamEnds,
         StreamFails, Register, RegisterFails, MonitorFinalized,
         MonitorMortalDropped, MonitorClosed, WorkerState

(* A pop maps to Launch. *)
LEMMA PromisePop ==
  ASSUME PlaceInv, Pop
  PROVE  Promise!Next
<1> DEFINE t == transactions[Len(transactions)]
<1>1. t \in Tx /\ workers' = [workers EXCEPT ![t] = "pushed"]
  BY LastOfQueue DEF Pop, PlaceInv, TypeOK, RunTypeOK
<1>2. InWorkers' = InWorkers \cup {t} /\ Yielded' = Yielded
  BY <1>1 DEF Pop, InWorkers, Yielded, PlaceInv, TypeOK, RunTypeOK
<1>3. \A u \in Tx : OutcomeOf(u)' = OutcomeOf(u)
  BY DEF Pop, OutcomeOf
<1>4. Promise!Launch
  BY <1>2, <1>3 DEF Promise!Launch, Pop, Running
<1> QED
  BY <1>4 DEF Promise!Next

(* Recording the result maps to Conclude, and to a stutter when there is none. *)
LEMMA PromiseLapEnds ==
  ASSUME PlaceInv, LapEnds
  PROVE  [Promise!Next]_(Promise!vars)
<1>1. InWorkers' = InWorkers /\ Yielded' = {} /\ pc \in Running /\ pc' \in Running
  BY DEF LapEnds, InWorkers, Yielded, Running
<1>2. CASE result = NoResult
  <2>1. UNCHANGED <<transactions, done, errors>> /\ Active' = Active
    BY <1>1, <1>2 DEF LapEnds, NoResult, Active, Yielded
  <2> QED
    BY <1>1, <2>1, PromiseStutter
<1>3. CASE result \in ExecutionResult
  <2> DEFINE t == result.hash
             kind == result.kind
  <2>1. /\ t \in Tx
        /\ Yielded = {t}
        /\ kind \in {"Done", "Error"}
        /\ done \in Seq(Tx) /\ errors \in Seq(Tx)
    BY <1>3 DEF ExecutionResult, NoResult, Yielded, PlaceInv, TypeOK, RunTypeOK
  <2>2. t \notin InWorkers \cup Range(done) \cup Range(errors)
    BY <2>1 DEF PlaceInv, PlacesDisjoint, Recorded
  <2>3. /\ Range(done') = IF kind = "Done" THEN Range(done) \cup {t} ELSE Range(done)
        /\ Range(errors') = IF kind = "Error" THEN Range(errors) \cup {t} ELSE Range(errors)
    BY <2>1, RangeAppend DEF LapEnds
  <2> HIDE DEF t, kind
  <2>4. Outcome' = [Outcome EXCEPT ![t] = kind]
    <3>1. \A u \in Tx : OutcomeOf(u)' = IF u = t THEN kind ELSE OutcomeOf(u)
      BY <2>1, <2>2, <2>3 DEF OutcomeOf
    <3> QED
      BY <3>1 DEF Outcome
  <2>5. Active' = Active \ {t} /\ t \in Active
    BY <1>1, <2>1, <2>2 DEF Active
  <2>6. Promise!Conclude(t, kind)
    BY <1>1, <2>4, <2>5 DEF Promise!Conclude, LapEnds, Active, Outcome
  <2> QED
    BY <2>1, <2>6 DEF Promise!Next
<1> QED
  BY <1>2, <1>3 DEF PlaceInv, TypeOK, RunTypeOK

(* Every step of the run maps to a step of the batch or a stutter. *)
LEMMA PromiseStep == PlaceInv /\ [Next]_vars => [Promise!Next]_(Promise!vars)
<1> SUFFICES ASSUME PlaceInv, [Next]_vars PROVE [Promise!Next]_(Promise!vars)
  OBVIOUS
<1>1. CASE Pop
  BY <1>1, PromisePop
<1>2. CASE LapEnds
  BY <1>2, PromiseLapEnds
<1>3. ASSUME NEW t \in Tx, TaskStep(t) PROVE [Promise!Next]_(Promise!vars)
  BY <1>3, PromiseTaskStep
<1>4. ASSUME UNCHANGED <<transactions, workers, done, errors, result>>,
             pc \in Running \/ pc' = pc
      PROVE  [Promise!Next]_(Promise!vars)
  <2>1. Active' = Active
    BY <1>4 DEF Active, InWorkers, Yielded
  <2> QED
    BY <1>4, <2>1, PromiseStutter, PromiseEnd
<1>5. ASSUME NEW n \in PendingCounts, PendingExtrinsics(n)
      PROVE  [Promise!Next]_(Promise!vars)
  BY <1>4, <1>5 DEF PendingExtrinsics, Running
<1>6. CASE StartLoop \/ PendingFails \/ Tick \/ StopSignal
  BY <1>4, <1>6 DEF StartLoop, PendingFails, Panic, Tick, StopSignal, Running
<1>7. CASE TimeoutReached \/ Stop \/ AllFuturesDone
  BY <1>4, <1>7 DEF TimeoutReached, Stop, AllFuturesDone, Break, Running
<1>8. CASE UNCHANGED vars
  BY <1>4, <1>8 DEF vars, runVars
<1> QED
  BY <1>1, <1>2, <1>3, <1>5, <1>6, <1>7, <1>8 DEF Next, Consume, Over

(* run() implements the abstract batch: transactions are launched in order,
   each gets at most one outcome, and nothing changes after the end. *)
THEOREM RunnerImplementsTxBatch == Spec => ImplementsTxBatch
<1>1. Init => Promise!Init
  BY PromiseInit
<1>2. PlaceInv /\ [Next]_vars => [Promise!Next]_(Promise!vars)
  BY PromiseStep
<1> QED
  BY <1>1, <1>2, PlaceInvariant, PTL DEF Spec, ImplementsTxBatch, Promise!Spec

-------------------------------------------------------------------------------
(* The statistics line: recording an event keeps the counters shared by all logs
   in agreement with what the logs say. *)

(* Where e stands in the logs. *)
Places(e) == UNION {{<<t, i>> : i \in {j \in DOMAIN events[t] : events[t][j] = e}} : t \in Tx}

(* The counters agree, and what they count is finite. *)
CountInv ==
  /\ CountersMatchLogs
  /\ \A e \in Counter : IsFiniteSet(Places(e))

LEMMA InPlaces ==
  ASSUME NEW e, NEW x
  PROVE  x \in Places(e) <=>
           \E t \in Tx : \E i \in DOMAIN events[t] : x = <<t, i>> /\ events[t][i] = e
  BY DEF Places

(* Empty logs, and every counter at zero. *)
LEMMA CountInit == LogInit => CountInv
<1> SUFFICES ASSUME LogInit PROVE CountInv
  OBVIOUS
<1>1. \A t \in Tx : DOMAIN events[t] = {}
  <2>1. DOMAIN <<>> = {}
    OBVIOUS
  <2> QED
    BY <2>1 DEF LogInit
<1>2. \A e : Places(e) = {}
  BY <1>1, InPlaces
<1>3. {t \in Tx : Logged(t, "InBlock")} = {}
  BY <1>1 DEF Logged
<1>4. \A e \in Counter : Occurrences(e) = 0
  BY <1>2, <1>3, FS_EmptySet DEF Occurrences, Places
<1>5. \A e \in Counter : total_counters[e] = 0
  BY DEF LogInit
<1> QED
  BY <1>2, <1>4, <1>5, FS_EmptySet DEF CountInv, CountersMatchLogs

(* An event is one more place for its kind, and none for the others. *)
LEMMA PushPlaces ==
  ASSUME LogTypeOK, NEW t \in Tx, NEW e \in ExecutionEvent, push_event(t, e)
  PROVE  /\ Places(e)' = Places(e) \cup {<<t, Len(events[t]) + 1>>}
         /\ <<t, Len(events[t]) + 1>> \notin Places(e)
         /\ \A c : c # e => Places(c)' = Places(c)
<1> DEFINE last == Len(events[t]) + 1
<1>1. /\ events[t] \in Seq(ExecutionEvent)
      /\ events' = [events EXCEPT ![t] = Append(events[t], e)]
      /\ events \in [Tx -> Seq(ExecutionEvent)]
  BY DEF LogTypeOK, push_event
<1>2. /\ Len(events[t]) \in Nat /\ DOMAIN events[t] = 1..Len(events[t])
      /\ DOMAIN events'[t] = 1..last
      /\ \A i \in 1..Len(events[t]) : events'[t][i] = events[t][i]
      /\ events'[t][last] = e
  BY <1>1
<1>3. \A u \in Tx : u # t => events'[u] = events[u]
  BY <1>1
<1>4. /\ last \notin DOMAIN events[t] /\ last \in DOMAIN events'[t]
      /\ \A i \in DOMAIN events'[t] : (i \in DOMAIN events[t] \/ i = last)
      /\ \A i \in DOMAIN events[t] : i \in DOMAIN events'[t] /\ events'[t][i] = events[t][i]
  BY <1>2
<1>5. events'[t][last] = e
  BY <1>2
<1> HIDE DEF last
<1>6. ASSUME NEW c, NEW x
      PROVE  x \in Places(c)' <=> x \in Places(c) \/ (c = e /\ x = <<t, last>>)
  <2>1. x \in Places(c)' <=>
          \E u \in Tx : \E i \in DOMAIN events'[u] : x = <<u, i>> /\ events'[u][i] = c
    BY DEF Places
  <2>2. x \in Places(c) <=>
          \E u \in Tx : \E i \in DOMAIN events[u] : x = <<u, i>> /\ events[u][i] = c
    BY InPlaces
  <2>3. ASSUME NEW u \in Tx, NEW i \in DOMAIN events'[u], x = <<u, i>>, events'[u][i] = c
        PROVE  x \in Places(c) \/ (c = e /\ x = <<t, last>>)
    BY <2>3, <2>2, <1>3, <1>4, <1>5
  <2>4. ASSUME NEW u \in Tx, NEW i \in DOMAIN events[u], x = <<u, i>>, events[u][i] = c
        PROVE  x \in Places(c)'
    BY <2>4, <2>1, <1>3, <1>4
  <2>5. c = e /\ x = <<t, last>> => x \in Places(c)'
    BY <2>1, <1>4, <1>5
  <2> QED
    BY <2>1, <2>2, <2>3, <2>4, <2>5
<1>7. <<t, last>> \notin Places(e)
  <2> SUFFICES ASSUME <<t, last>> \in Places(e) PROVE FALSE
    OBVIOUS
  <2>1. PICK u \in Tx : \E i \in DOMAIN events[u] : <<t, last>> = <<u, i>>
    BY InPlaces
  <2> QED
    BY <2>1, <1>4
<1>8. Places(e)' = Places(e) \cup {<<t, last>>}
  BY <1>6
<1>9. ASSUME NEW c, c # e PROVE Places(c)' = Places(c)
  <2>1. \A x : x \in Places(c)' <=> x \in Places(c)
    BY <1>6, <1>9
  <2> QED
    BY <2>1
<1> QED
  BY <1>7, <1>8, <1>9 DEF last

(* push_event keeps the agreement, for an InBlock because it is counted only
   when its log has none. *)
LEMMA PushCounts ==
  ASSUME IsFiniteSet(Tx), LogTypeOK, CountInv,
         NEW t \in Tx, NEW e \in ExecutionEvent, push_event(t, e)
  PROVE  CountInv'
<1> DEFINE inblock == {u \in Tx : Logged(u, "InBlock")}
<1>1. \A c \in Counter : total_counters[c] \in Nat /\ total_counters[c] = Occurrences(c)
                         /\ IsFiniteSet(Places(c))
  BY DEF CountInv, CountersMatchLogs, LogTypeOK
<1>2. \A c \in Counter : c # "InBlock" => Occurrences(c) = Cardinality(Places(c))
  BY DEF Occurrences, Places
<1>3. \A c \in Counter : c # "InBlock" => Occurrences(c)' = Cardinality(Places(c))'
  BY DEF Occurrences, Places
<1>4. "InBlock" \in Counter
  BY DEF Counter, ExecutionEvent, TransactionStatus
<1>5. Occurrences("InBlock") = Cardinality(inblock) /\ Occurrences("InBlock")' = Cardinality(inblock')
  BY DEF Occurrences
<1>6. IsFiniteSet(inblock) /\ IsFiniteSet(inblock')
  BY FS_Subset
<1>7. \A c : c # e => Places(c)' = Places(c)
  BY PushPlaces
<1>8. ASSUME NEW c, NEW u \in Tx PROVE Logged(u, c) <=> \E i : <<u, i>> \in Places(c)
  BY DEF Logged, Places
<1>9. ASSUME NEW c, NEW u \in Tx PROVE Logged(u, c)' <=> \E i : <<u, i>> \in Places(c)'
  BY DEF Logged, Places
<1> DEFINE place == <<t, Len(events[t]) + 1>>
<1>14. Places(e)' = Places(e) \cup {place} /\ place \notin Places(e)
  BY PushPlaces
<1> HIDE DEF place
<1>15. ASSUME e \in Counter
       PROVE  IsFiniteSet(Places(e)') /\ Cardinality(Places(e)') = Cardinality(Places(e)) + 1
  BY <1>1, <1>14, <1>15, FS_AddElement
<1>10. ASSUME NEW c \in Counter PROVE IsFiniteSet(Places(c)')
  BY <1>1, <1>7, <1>15
<1>11. ASSUME NEW c \in Counter, c # e PROVE total_counters'[c] = Occurrences(c)'
  <2>1. total_counters'[c] = total_counters[c]
    BY <1>11 DEF push_event, count_event, LogTypeOK
  <2>2. CASE c # "InBlock"
    BY <2>1, <2>2, <1>1, <1>2, <1>3, <1>7, <1>11
  <2>3. CASE c = "InBlock"
    <3>1. inblock' = inblock
      BY <2>3, <1>7, <1>8, <1>9, <1>11
    <3> QED
      BY <3>1, <2>1, <2>3, <1>1, <1>5
  <2> QED
    BY <2>2, <2>3
<1>12. ASSUME e \in Counter, e # "InBlock" PROVE total_counters'[e] = Occurrences(e)'
  <2>1. total_counters'[e] = total_counters[e] + 1
    BY <1>12 DEF push_event, count_event, LogTypeOK
  <2> QED
    BY <2>1, <1>1, <1>2, <1>3, <1>12, <1>15
<1>13. ASSUME e = "InBlock" PROVE total_counters'[e] = Occurrences(e)'
  <2>1. in_blocks(t) = {} <=> t \notin inblock
    BY DEF in_blocks, Logged
  <2>2. ASSUME NEW u \in Tx PROVE Logged(u, "InBlock")' <=> Logged(u, "InBlock") \/ u = t
    <3>1. (\E i : <<u, i>> \in Places(e)') <=> (\E i : <<u, i>> \in Places(e)) \/ u = t
      BY <1>14 DEF place
    <3> QED
      BY <3>1, <1>8, <1>9, <1>13
  <2>5. inblock' = inblock \cup {t}
    BY <2>2
  <2>3. CASE in_blocks(t) = {}
    <3>1. total_counters'[e] = total_counters[e] + 1
      BY <2>3, <1>4, <1>13 DEF push_event, count_event, LogTypeOK
    <3>2. inblock' = inblock \cup {t} /\ t \notin inblock
      BY <2>1, <2>5, <2>3
    <3>3. Cardinality(inblock') = Cardinality(inblock) + 1
      BY <3>2, <1>6, FS_AddElement
    <3> QED
      BY <3>1, <3>3, <1>1, <1>4, <1>5, <1>13
  <2>4. CASE in_blocks(t) # {}
    <3>1. total_counters'[e] = total_counters[e]
      BY <2>4, <1>13 DEF push_event
    <3>2. inblock' = inblock
      BY <2>1, <2>5, <2>4
    <3> QED
      BY <3>1, <3>2, <1>1, <1>4, <1>5, <1>13
  <2> QED
    BY <2>3, <2>4
<1> QED
  BY <1>10, <1>11, <1>12, <1>13 DEF CountInv, CountersMatchLogs

(* Nothing is counted when nothing is recorded. *)
LEMMA CountSame == CountInv /\ UNCHANGED logVars => CountInv'
<1> SUFFICES ASSUME CountInv, UNCHANGED logVars PROVE CountInv'
  OBVIOUS
<1>1. events' = events /\ total_counters' = total_counters
  BY DEF logVars
<1>2. \A e : Places(e)' = Places(e)
  BY <1>1 DEF Places
<1>3. \A e : Occurrences(e)' = Occurrences(e)
  BY <1>1 DEF Occurrences, Logged
<1> QED
  BY <1>1, <1>2, <1>3 DEF CountInv, CountersMatchLogs

(* Every step records at most one event. *)
LEMMA RecordsOneEvent ==
  ASSUME TypeOK, [Next]_vars
  PROVE  \/ UNCHANGED logVars
         \/ \E t \in Tx, e \in ExecutionEvent : push_event(t, e)
<1> USE DEF ExecutionEvent
<1>1. CASE Pop
  <2>1. transactions[Len(transactions)] \in Tx
    BY <1>1, LastOfQueue DEF Pop, TypeOK, RunTypeOK
  <2> QED
    BY <1>1, <2>1 DEF Pop
<1>2. CASE StartLoop \/ LapEnds \/ PendingFails \/ Tick \/ TimeoutReached \/ Stop
           \/ AllFuturesDone \/ StopSignal \/ UNCHANGED vars
  BY <1>2 DEF StartLoop, LapEnds, PendingFails, Panic, Tick, TimeoutReached, Stop,
              AllFuturesDone, Break, StopSignal, vars, runVars
<1>3. ASSUME NEW n \in PendingCounts, PendingExtrinsics(n) PROVE UNCHANGED logVars
  BY <1>3 DEF PendingExtrinsics
<1>4. ASSUME NEW t \in Tx, TaskStep(t)
      PROVE  UNCHANGED logVars \/ \E e \in ExecutionEvent : push_event(t, e)
  <2>1. CASE Send(t) \/ MonitorFinalized(t) \/ MonitorMortalDropped(t) \/ MonitorClosed(t)
    BY <2>1 DEF Send, MonitorFinalized, MonitorMortalDropped, MonitorClosed
  <2>2. ASSUME NEW ok \in BOOLEAN, WatchReturns(t, ok) \/ SubmitReturns(t, ok)
        PROVE  \E e \in ExecutionEvent : push_event(t, e)
    BY <2>2 DEF WatchReturns, SubmitReturns
  <2>3. ASSUME NEW status \in Reported, StreamNext(t, status)
        PROVE  \E e \in ExecutionEvent : push_event(t, e)
    BY <2>3, RunnerAssumption DEF StreamNext
  <2>4. CASE StreamEnds(t) \/ StreamFails(t) \/ Register(t) \/ RegisterFails(t)
    BY <2>4 DEF StreamEnds, StreamFails, Register, RegisterFails, Panic
  <2> QED
    BY <1>4, <2>1, <2>2, <2>3, <2>4 DEF TaskStep
<1> QED
  BY <1>1, <1>2, <1>3, <1>4 DEF Next, Consume, Over

LEMMA CountInvariant == Spec => []CountInv
<1>1. Init => CountInv
  BY CountInit DEF Init
<1>2. TypeOK /\ CountInv /\ [Next]_vars => CountInv'
  BY RecordsOneEvent, PushCounts, CountSame, RunnerAssumption DEF TypeOK
<1> QED
  BY <1>1, <1>2, TypeCorrect, PTL DEF Spec

(* The counters the statistics line prints say what the logs say, whatever
   tasks interleave (execution_log.rs:113-149, 312-325). *)
THEOREM StatisticsLineIsTrue == Spec => []CountersMatchLogs
<1>1. CountInv => CountersMatchLogs
  BY DEF CountInv
<1> QED
  BY <1>1, CountInvariant, PTL
===============================================================================
