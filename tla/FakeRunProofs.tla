----------------------------- MODULE FakeRunProofs -----------------------------
(***************************************************************************)
(* That the runner with the fake sink is the runner with a sink of its own *)
(* choosing, what the sink's count of transactions amounts to, and what    *)
(* becomes of a transaction under the script it brings: for every batch,   *)
(* threshold and script.                                                   *)
(***************************************************************************)
EXTENDS FakeRun, RunnerProofs

-------------------------------------------------------------------------------
(* Every step is one of the runner, or none. *)

TxsType == txs \subseteq Tx

LEMMA ScriptType ==
  ASSUME NEW t \in Tx
  PROVE  /\ Script(t) \in Seq(Reported)
         /\ Len(Script(t)) \in Nat /\ DOMAIN Script(t) = 1..Len(Script(t))
         /\ Len(Script(t)) <= MaxStatuses
         /\ t \notin Watched => Script(t) # <<>> /\ is_terminal(Last(Script(t)))
  BY FakeAssumption DEF Script

(* An event that is played is one the sink may report. *)
LEMMA PlayedIsReported ==
  ASSUME TypeOK, NEW t \in Tx, Play(t), Len(events[t]) >= 3
  PROVE  /\ Played(t) + 1 \in DOMAIN Script(t)
         /\ next_event(t) = Script(t)[Played(t) + 1]
         /\ next_event(t) \in Reported
<1>1. Len(events[t]) \in Nat
  BY DEF TypeOK, LogTypeOK
<1>2. Played(t) \in Nat /\ Played(t) < Len(Script(t))
  BY <1>1 DEF Play, Played, Script
<1>3. Played(t) + 1 \in DOMAIN Script(t)
  BY <1>2, ScriptType
<1> QED
  BY <1>3, ScriptType DEF next_event, Script

(* How far a task is shows in its log, and a task that watches has met no
   terminal status yet.  Nothing waits for a block monitor. *)
FollowsScript(t) ==
  /\ workers[t] \notin {"registering", "waiting"}
  /\ t \in Queued => Len(events[t]) = 0
  /\ workers[t] = "pushed" => Len(events[t]) = 1
  /\ workers[t] = "submitting" => Len(events[t]) = 2
  /\ workers[t] = "watching" =>
       /\ t \in Watched
       /\ Len(events[t]) \in 3..(3 + Len(Script(t)))
       /\ \A i \in 1..Played(t) : ~is_terminal(Script(t)[i])

ScriptInv == \A t \in Tx : FollowsScript(t)

LEMMA FakeStepIsRunnerStep ==
  ASSUME TypeOK, TxsType, ScriptInv, [FakeNext]_fakeVars
  PROVE  [Next]_vars
<1>1. ASSUME NEW t \in Tx, Polled(t) PROVE TaskStep(t)
  <2>1. CASE FakeSend(t)
    BY <2>1 DEF FakeSend, TaskStep
  <2>2. CASE Subscribe(t)
    BY <2>2 DEF Subscribe, TaskStep
  <2>3. CASE Submitted(t)
    BY <2>3 DEF Submitted, TaskStep, submit_result, is_finalized
  <2>4. CASE Play(t)
    <3>1. Len(events[t]) >= 3
      BY <2>4, ScriptType DEF Play, AtSelect, ScriptInv, FollowsScript
    <3>2. next_event(t) \in Reported
      BY <2>4, <3>1, PlayedIsReported
    <3> QED
      BY <2>4, <3>2 DEF Play, TaskStep
  <2>5. CASE PlayEnds(t)
    BY <2>5 DEF PlayEnds, TaskStep
  <2> QED
    BY <1>1, <2>1, <2>2, <2>3, <2>4, <2>5 DEF Polled
<1>2. CASE pending_extrinsics
  <2>1. Cardinality(txs) \in 0..Cardinality(Tx)
    BY FiniteParts, RunnerAssumption, FS_CardinalityType DEF TxsType
  <2>2. Cardinality(txs) \in PendingCounts
    BY <2>1, FakeAssumption
  <2> QED
    BY <1>2, <2>2 DEF pending_extrinsics, Next, Consume
<1>3. CASE PopLoop
  BY <1>3 DEF PopLoop, Next, Consume
<1>4. CASE FakeTick \/ FakeEnd \/ FakeAllDone \/ FakeStopSignal \/ FakeOver \/ UNCHANGED fakeVars
  BY <1>4 DEF FakeTick, FakeEnd, FakeAllDone, FakeStopSignal, FakeOver, fakeVars, Next
<1> QED
  BY <1>1, <1>2, <1>3, <1>4 DEF FakeNext, FakeConsume, Next

LEMMA TxsTypeStep ==
  ASSUME TxsType, [FakeNext]_fakeVars
  PROVE  TxsType'
<1>1. ASSUME NEW t \in Tx, Polled(t) PROVE TxsType'
  BY <1>1 DEF Polled, FakeSend, Subscribe, Submitted, Play, PlayEnds, TxsAfter, TxsType
<1> QED
  BY <1>1 DEF FakeNext, FakeConsume, pending_extrinsics, PopLoop, FakeTick, FakeEnd, FakeAllDone,
              FakeStopSignal, FakeOver, fakeVars, TxsType

-------------------------------------------------------------------------------
(* The logs follow the scripts. *)

(* A log grows by one event, the others do not. *)
LEMMA PushLength ==
  ASSUME LogTypeOK, NEW t \in Tx, NEW e, push_event(t, e)
  PROVE  /\ events' = [events EXCEPT ![t] = Append(events[t], e)]
         /\ \A u \in Tx : u # t => events'[u] = events[u]
         /\ Len(events[t]) \in Nat
         /\ Len(events'[t]) = Len(events[t]) + 1
<1>1. /\ events' = [events EXCEPT ![t] = Append(events[t], e)]
      /\ events \in [Tx -> Seq(ExecutionEvent)]
  BY DEF LogTypeOK, push_event
<1>2. events'[t] = Append(events[t], e) /\ events[t] \in Seq(ExecutionEvent)
  BY <1>1
<1> QED
  BY <1>1, <1>2

(* A step that touches no task, log or queue, and neither the sink. *)
Quiet == UNCHANGED <<events, workers, transactions, txs>>

LEMMA QuietSteps ==
  ASSUME [FakeNext]_fakeVars
  PROVE  \/ Quiet
         \/ Pop /\ UNCHANGED txs
         \/ \E t \in Tx : Polled(t)
  BY DEF FakeNext, FakeConsume, pending_extrinsics, PendingExtrinsics, PopLoop, StartLoop, LapEnds,
         FakeTick, Tick, FakeEnd, TimeoutReached, Stop, Break, FakeAllDone, AllFuturesDone,
         FakeStopSignal, StopSignal, FakeOver, Over, fakeVars, vars, runVars, logVars, Quiet

LEMMA ScriptInit == Init => ScriptInv
<1> SUFFICES ASSUME Init, NEW t \in Tx PROVE FollowsScript(t)
  BY DEF ScriptInv
<1> QED
  BY DEF Init, LogInit, FollowsScript

(* A step of one task leaves the others where they are. *)
LEMMA ScriptOfOthers ==
  ASSUME TypeOK, ScriptInv, UNCHANGED transactions,
         NEW t \in Tx, NEW what, workers' = [workers EXCEPT ![t] = what],
         \A u \in Tx : u # t => events'[u] = events[u],
         FollowsScript(t)'
  PROVE  ScriptInv'
<1> SUFFICES ASSUME NEW u \in Tx, u # t PROVE FollowsScript(u)'
  BY DEF ScriptInv
<1>1. workers'[u] = workers[u] /\ events'[u] = events[u] /\ Queued' = Queued
  BY DEF TypeOK, RunTypeOK, Queued
<1>2. Played(u)' = Played(u)
  BY <1>1 DEF Played
<1> QED
  BY <1>1, <1>2 DEF ScriptInv, FollowsScript

(* A task that has returned follows nothing. *)
LEMMA ScriptFinish ==
  ASSUME PlaceInv, ScriptInv, NEW t \in InWorkers, NEW kind, Finish(t, kind),
         \A u \in Tx : u # t => events'[u] = events[u]
  PROVE  ScriptInv'
<1>1. t \in Tx /\ t \notin Queued /\ workers \in [Tx -> WorkerState]
  BY DEF InWorkers, PlaceInv, PlacesDisjoint, TypeOK, RunTypeOK
<1>2. workers' = [workers EXCEPT ![t] = "none"] /\ UNCHANGED transactions /\ workers'[t] = "none"
  BY <1>1 DEF Finish
<1>3. FollowsScript(t)'
  BY <1>1, <1>2 DEF FollowsScript, Queued
<1> QED
  BY <1>1, <1>2, <1>3, ScriptOfOthers DEF PlaceInv

LEMMA ScriptPolled ==
  ASSUME PlaceInv, ScriptInv, NEW t \in Tx, Polled(t)
  PROVE  ScriptInv'
<1>0. /\ workers \in [Tx -> WorkerState] /\ LogTypeOK
      /\ pc = "select" /\ workers[t] # "none" /\ t \in InWorkers /\ t \notin Queued
  BY DEF PlaceInv, PlacesDisjoint, TypeOK, RunTypeOK, InWorkers, Polled, FakeSend, Send, Subscribe,
         WatchReturns, Submitted, SubmitReturns, Play, PlayEnds, AtSelect
<1>1. CASE FakeSend(t)
  <2>1. /\ push_event(t, "Sent") /\ workers' = [workers EXCEPT ![t] = "submitting"]
        /\ UNCHANGED transactions /\ workers[t] = "pushed"
    BY <1>1 DEF FakeSend, Send, Await, AtSelect
  <2>2. workers'[t] = "submitting" /\ Len(events'[t]) = 2
    <3>1. Len(events[t]) = 1
      BY <2>1 DEF ScriptInv, FollowsScript
    <3>2. Len(events'[t]) = Len(events[t]) + 1
      BY <1>0, <2>1, PushLength
    <3>3. workers'[t] = "submitting"
      BY <1>0, <2>1
    <3> QED
      BY <3>1, <3>2, <3>3
  <2>3. FollowsScript(t)'
    BY <1>0, <2>1, <2>2 DEF FollowsScript, Queued
  <2> QED
    BY <1>0, <2>1, <2>3, PushLength, ScriptOfOthers DEF PlaceInv
<1>2. CASE Subscribe(t)
  <2>1. /\ push_event(t, "WatchOk") /\ workers' = [workers EXCEPT ![t] = "watching"]
        /\ UNCHANGED transactions /\ workers[t] = "submitting" /\ t \in Watched
    BY <1>2 DEF Subscribe, WatchReturns, Await, AtSelect
  <2>2. workers'[t] = "watching" /\ Len(events'[t]) = 3
    <3>1. Len(events[t]) = 2
      BY <2>1 DEF ScriptInv, FollowsScript
    <3>2. Len(events'[t]) = Len(events[t]) + 1
      BY <1>0, <2>1, PushLength
    <3>3. workers'[t] = "watching"
      BY <1>0, <2>1
    <3> QED
      BY <3>1, <3>2, <3>3
  <2>3. Played(t)' = 0 /\ Len(events'[t]) \in 3..(3 + Len(Script(t)))
    BY <2>2, ScriptType DEF Played
  <2>4. FollowsScript(t)'
    BY <1>0, <2>1, <2>2, <2>3 DEF FollowsScript, Queued
  <2> QED
    BY <1>0, <2>1, <2>4, PushLength, ScriptOfOthers DEF PlaceInv
<1>3. CASE Submitted(t)
  <2>1. \E e : push_event(t, e)
    BY <1>3 DEF Submitted, SubmitReturns
  <2>2. \E kind : Finish(t, kind)
    BY <1>3, FakeAssumption DEF Submitted, SubmitReturns
  <2> QED
    BY <1>0, <2>1, <2>2, PushLength, ScriptFinish
<1>4. CASE Play(t)
  <2> DEFINE e == next_event(t)
             k == Played(t)
  <2>1. /\ workers[t] = "watching" /\ StreamNext(t, e) /\ push_event(t, e)
    BY <1>4 DEF Play, StreamNext, AtSelect
  <2>2. /\ t \in Watched
        /\ Len(events[t]) \in 3..(3 + Len(Script(t)))
        /\ \A i \in 1..k : ~is_terminal(Script(t)[i])
    BY <2>1 DEF ScriptInv, FollowsScript
  <2>3. Len(Script(t)) \in Nat /\ k \in Nat /\ k = Len(events[t]) - 3
    BY <2>2, ScriptType DEF Played
  <2>4. k + 1 \in DOMAIN Script(t) /\ e = Script(t)[k + 1]
    BY <1>4, <2>2, <2>3, PlayedIsReported DEF PlaceInv
  <2> HIDE DEF e
  <2>5. CASE is_terminal(e)
    <3>1. \E kind : Finish(t, kind)
      BY <2>1, <2>5 DEF StreamNext, is_terminal
    <3> QED
      BY <1>0, <2>1, <3>1, PushLength, ScriptFinish
  <2>6. CASE ~is_terminal(e)
    <3>1. workers' = [workers EXCEPT ![t] = "watching"] /\ UNCHANGED transactions
      BY <2>1, <2>6 DEF StreamNext, is_terminal, Await
    <3>2. workers'[t] = "watching" /\ Len(events'[t]) = Len(events[t]) + 1 /\ Len(events[t]) \in Nat
      BY <1>0, <2>1, <3>1, PushLength
    <3>3. Played(t)' = k + 1
      BY <2>3, <3>2 DEF Played
    <3> HIDE DEF k
    <3>4. Len(events'[t]) \in 3..(3 + Len(Script(t)))
      BY <2>2, <2>3, <2>4, <3>2, ScriptType
    <3>5. \A i \in 1..(k + 1) : ~is_terminal(Script(t)[i])
      BY <2>2, <2>3, <2>4, <2>6
    <3>6. FollowsScript(t)'
      BY <1>0, <2>2, <3>1, <3>2, <3>3, <3>4, <3>5 DEF FollowsScript, Queued
    <3> QED
      BY <1>0, <2>1, <3>1, <3>6, PushLength, ScriptOfOthers DEF PlaceInv
  <2> QED
    BY <2>5, <2>6
<1>5. CASE PlayEnds(t)
  <2>1. Finish(t, "Error") /\ events' = events
    BY <1>5 DEF PlayEnds, StreamEnds, logVars
  <2> QED
    BY <1>0, <2>1, ScriptFinish
<1> QED
  BY <1>1, <1>2, <1>3, <1>4, <1>5 DEF Polled

LEMMA ScriptStep ==
  ASSUME PlaceInv, ScriptInv, [FakeNext]_fakeVars
  PROVE  ScriptInv'
<1>1. CASE Quiet
  <2>1. \A t \in Tx : FollowsScript(t)' <=> FollowsScript(t)
    BY <1>1 DEF Quiet, FollowsScript, Played, Queued
  <2> QED
    BY <2>1 DEF ScriptInv
<1>2. CASE Pop
  <2>1. /\ transactions \in Seq(Tx) /\ transactions # <<>> /\ IsInjective(transactions)
        /\ workers \in [Tx -> WorkerState] /\ LogTypeOK
    BY <1>2 DEF Pop, PlaceInv, PlacesDisjoint, TypeOK, RunTypeOK
  <2>2. PICK t \in Tx : t = transactions[Len(transactions)]
    BY <2>1, LastOfQueue
  <2>3. /\ t \in Queued /\ Queued' = Queued \ {t}
        /\ push_event(t, "Popped") /\ workers' = [workers EXCEPT ![t] = "pushed"]
    BY <1>2, <2>1, <2>2, RangeFront DEF Pop, Queued
  <2>4. workers'[t] = "pushed" /\ Len(events'[t]) = 1
    <3>1. Len(events[t]) = 0
      BY <2>3 DEF ScriptInv, FollowsScript
    <3>2. Len(events'[t]) = Len(events[t]) + 1
      BY <2>1, <2>3, PushLength
    <3>3. workers'[t] = "pushed"
      BY <2>1, <2>3
    <3> QED
      BY <3>1, <3>2, <3>3
  <2>5. FollowsScript(t)'
    BY <2>3, <2>4 DEF FollowsScript
  <2>6. ASSUME NEW u \in Tx, u # t PROVE FollowsScript(u)'
    <3>1. workers'[u] = workers[u] /\ events'[u] = events[u]
      BY <2>1, <2>3, <2>6, PushLength
    <3>2. Played(u)' = Played(u)
      BY <3>1 DEF Played
    <3> QED
      BY <2>3, <3>1, <3>2 DEF ScriptInv, FollowsScript
  <2> QED
    BY <2>5, <2>6 DEF ScriptInv
<1> QED
  BY <1>1, <1>2, QuietSteps, ScriptPolled

(* From here on the runner's theorems are those of the fake sink, too. *)
LEMMA FakeInvariants == FakeSpec => [](PlaceInv /\ TxsType /\ ScriptInv)
<1>1. FakeInit => PlaceInv /\ TxsType /\ ScriptInv
  BY PlaceInit, ScriptInit DEF FakeInit, TxsType
<1>2. PlaceInv /\ TxsType /\ ScriptInv /\ [FakeNext]_fakeVars
        => (PlaceInv /\ TxsType /\ ScriptInv)'
  BY FakeStepIsRunnerStep, PlaceStep, TxsTypeStep, ScriptStep DEF PlaceInv
<1> QED
  BY <1>1, <1>2, PTL DEF FakeSpec

(* The runner with the fake sink implements the runner with the most general
   sink: whatever is proved of Runner holds of the tests' runs
   (fake_transaction_sink.rs:36-64 under the contract of transaction.rs). *)
THEOREM FakeRunImplementsRunner == FakeSpec => Spec
<1>1. FakeInit => Init
  BY DEF FakeInit
<1>2. PlaceInv /\ TxsType /\ ScriptInv /\ [FakeNext]_fakeVars => [Next]_vars
  BY FakeStepIsRunnerStep DEF PlaceInv
<1> QED
  BY <1>1, <1>2, FakeInvariants, PTL DEF FakeSpec, Spec

-------------------------------------------------------------------------------
(* What the sink is working on, and what becomes of a transaction. *)

InSink == {t \in Tx : workers[t] \in {"submitting", "watching"}}
Concluded == Tx \ (Queued \cup InWorkers)

LEMMA ConcludedIsOver == PlaceInv => Yielded \cup Recorded = Concluded
  BY DEF PlaceInv, PlacesDisjoint, ExactlyOnce, Concluded

(* The verdict is the first terminal status. *)
LEMMA FirstTerminal ==
  ASSUME NEW t \in Tx, NEW k \in DOMAIN Script(t), is_terminal(Script(t)[k]),
         \A j \in 1..(k - 1) : ~is_terminal(Script(t)[j])
  PROVE  ~Endless(t) /\ Verdict(t) = Script(t)[k]
<1> DEFINE First(i) == /\ is_terminal(Script(t)[i])
                       /\ \A j \in 1..(i - 1) : ~is_terminal(Script(t)[j])
<1>1. ~Endless(t)
  BY DEF Endless
<1>2. DOMAIN Script(t) = 1..Len(Script(t)) /\ Len(Script(t)) \in Nat
  BY ScriptType
<1>3. ASSUME NEW i \in DOMAIN Script(t), First(i) PROVE i = k
  <2>1. i \in Nat /\ k \in Nat /\ i >= 1 /\ k >= 1
    BY <1>2
  <2>2. ~(i < k) /\ ~(k < i)
    BY <1>3, <2>1
  <2> QED
    BY <2>1, <2>2
<1>4. (CHOOSE i \in DOMAIN Script(t) : First(i)) = k
  BY <1>3
<1> QED
  BY <1>1, <1>4 DEF Verdict

(* A script that says one thing: no terminal status before the last. *)
LEMMA LastIsVerdict ==
  ASSUME OneVerdict, NEW t \in Tx \ Watched
  PROVE  ~Endless(t) /\ Verdict(t) = Last(Script(t))
<1> DEFINE k == Len(Script(t))
<1>1. k \in Nat \ {0} /\ k \in DOMAIN Script(t) /\ Last(Script(t)) = Script(t)[k]
      /\ is_terminal(Script(t)[k]) /\ DOMAIN Script(t) = 1..k
  BY ScriptType DEF Last
<1>2. \A j \in 1..(k - 1) : ~is_terminal(Script(t)[j])
  BY <1>1 DEF OneVerdict
<1> QED
  BY <1>1, <1>2, FirstTerminal

(* Where a step of a task leaves its transaction. *)
LEMMA PolledEffects ==
  ASSUME PlaceInv, ScriptInv, OutcomeMatchesLog, TxsExact, NEW t \in Tx, Polled(t)
  PROVE  /\ Queued' = Queued /\ t \in InWorkers
         /\ \A u \in Tx : u # t => (Succeeded(u)' <=> Succeeded(u))
         /\ \/ /\ InWorkers' = InWorkers
               /\ InSink' = InSink \cup {t} /\ txs' = txs \cup {t}
            \/ /\ InWorkers' = InWorkers \ {t} /\ t \in InSink /\ InSink' = InSink \ {t}
               /\ txs' = IF t \in Watched /\ Endless(t) THEN txs ELSE txs \ {t}
               /\ OneVerdict => (Succeeded(t)' <=> is_finalized(Verdict(t)))
<1>0. /\ workers \in [Tx -> WorkerState] /\ LogTypeOK
      /\ pc = "select" /\ workers[t] # "none" /\ t \in InWorkers
      /\ UNCHANGED transactions
  BY DEF PlaceInv, PlacesDisjoint, TypeOK, RunTypeOK, InWorkers, Polled, FakeSend, Send, Subscribe,
         WatchReturns, Submitted, SubmitReturns, Play, PlayEnds, AtSelect, StreamNext, StreamEnds,
         Await, Finish
<1>1. Queued' = Queued
  BY <1>0 DEF Queued
<1>2. ~Succeeded(t)
  BY <1>0 DEF OutcomeMatchesLog, CountedDone, PlaceInv, PlacesDisjoint, Recorded
<1>3. InSink \subseteq txs
  BY DEF TxsExact, InSink
<1>4. ASSUME NEW what \in {"submitting", "watching"}, Await(t, what)
      PROVE  InWorkers' = InWorkers /\ InSink' = InSink \cup {t}
  BY <1>0, <1>4 DEF Await, InWorkers, InSink
<1>5. ASSUME NEW kind, Finish(t, kind)
      PROVE  InWorkers' = InWorkers \ {t} /\ InSink' = InSink \ {t}
  BY <1>0, <1>5 DEF Finish, InWorkers, InSink
<1>6. ASSUME UNCHANGED events
      PROVE  \A u \in Tx : Succeeded(u)' <=> Succeeded(u)
  BY <1>6 DEF Succeeded, Logged
<1>7. CASE FakeSend(t)
  <2>1. push_event(t, "Sent") /\ Await(t, "submitting") /\ txs' = txs \cup {t}
    BY <1>7 DEF FakeSend, Send
  <2> QED
    BY <1>0, <1>1, <1>4, <2>1, SucceededPush DEF ExecutionEvent
<1>8. CASE Subscribe(t)
  <2>1. push_event(t, "WatchOk") /\ Await(t, "watching") /\ UNCHANGED txs /\ t \in InSink
    BY <1>8 DEF Subscribe, WatchReturns, AtSelect, InSink
  <2> QED
    BY <1>0, <1>1, <1>3, <1>4, <2>1, SucceededPush DEF ExecutionEvent
<1>9. CASE Submitted(t)
  <2> DEFINE e == IF submit_result(t) THEN "SubmitOk" ELSE "SubmitErr"
  <2>1. /\ push_event(t, e) /\ e \in {"SubmitOk", "SubmitErr"} /\ t \notin Watched
        /\ \E kind : Finish(t, kind)
        /\ txs' = txs \ {t} /\ ~HasMonitor /\ t \in InSink
    BY <1>9, FakeAssumption DEF Submitted, SubmitReturns, AtSelect, InSink
  <2>2. \A u \in Tx : Succeeded(u)' <=> Succeeded(u) \/ (u = t /\ e = "SubmitOk")
    BY <1>0, <2>1, SucceededPush DEF ExecutionEvent
  <2>3. OneVerdict => (e = "SubmitOk" <=> is_finalized(Verdict(t)))
    BY <2>1, LastIsVerdict DEF submit_result, Script
  <2> HIDE DEF e
  <2> QED
    BY <1>0, <1>1, <1>2, <1>5, <2>1, <2>2, <2>3
<1>10. CASE Play(t)
  <2> DEFINE e == next_event(t)
             k == Played(t)
  <2>1. /\ workers[t] = "watching" /\ StreamNext(t, e) /\ push_event(t, e)
        /\ txs' = TxsAfter(t, e) /\ t \in InSink
    BY <1>10 DEF Play, StreamNext, AtSelect, InSink
  <2>2. /\ t \in Watched
        /\ Len(events[t]) >= 3 /\ k \in Nat
        /\ \A i \in 1..k : ~is_terminal(Script(t)[i])
    BY <2>1, ScriptType DEF ScriptInv, FollowsScript, Played
  <2>3. k + 1 \in DOMAIN Script(t) /\ e = Script(t)[k + 1] /\ e \in Reported
    BY <1>10, <2>2, PlayedIsReported DEF PlaceInv
  <2>4. e \in TransactionStatus /\ e \in ExecutionEvent
    BY <2>3, RunnerAssumption DEF ExecutionEvent
  <2> HIDE DEF e, k
  <2>5. \A u \in Tx : Succeeded(u)' <=> Succeeded(u) \/ (u = t /\ is_finalized(e))
    BY <1>0, <2>1, <2>4, SucceededPush DEF TransactionStatus, is_finalized
  <2>6. CASE is_terminal(e)
    <3>1. \E kind : Finish(t, kind)
      BY <2>1, <2>6 DEF StreamNext, is_terminal
    <3>2. ~Endless(t) /\ Verdict(t) = e
      BY <2>2, <2>3, <2>6, FirstTerminal
    <3> QED
      BY <1>0, <1>1, <1>2, <1>5, <2>1, <2>5, <2>6, <3>1, <3>2 DEF TxsAfter
  <2>7. CASE ~is_terminal(e)
    <3>1. Await(t, "watching") /\ txs' = txs
      BY <2>1, <2>7 DEF StreamNext, is_terminal, TxsAfter
    <3>2. ~is_finalized(e)
      BY <2>7 DEF is_terminal
    <3> QED
      BY <1>0, <1>1, <1>3, <1>4, <2>1, <2>5, <3>1, <3>2
  <2> QED
    BY <2>6, <2>7
<1>11. CASE PlayEnds(t)
  <2>1. /\ Finish(t, "Error") /\ UNCHANGED <<events, txs>>
        /\ workers[t] = "watching" /\ Played(t) = Len(Script(t)) /\ t \in InSink
    BY <1>11 DEF PlayEnds, StreamEnds, logVars, AtSelect, Script, InSink
  <2>2. t \in Watched /\ \A i \in 1..Len(Script(t)) : ~is_terminal(Script(t)[i])
    BY <2>1 DEF ScriptInv, FollowsScript
  <2>3. Endless(t) /\ ~is_finalized(Verdict(t))
    BY <2>2, ScriptType DEF Endless, Verdict, is_finalized
  <2> QED
    BY <1>0, <1>1, <1>2, <1>5, <1>6, <2>1, <2>2, <2>3
<1> QED
  BY <1>7, <1>8, <1>9, <1>10, <1>11 DEF Polled

(* What is in the sink, and what leaked from it. *)
LEMMA TxsExactMeans ==
  ASSUME PlaceInv
  PROVE  /\ TxsExact <=> txs = InSink \cup {t \in Watched : Endless(t) /\ t \in Concluded}
         /\ Leaked = {t \in Watched : Endless(t) /\ t \in Concluded}
         /\ Leaked \cap InWorkers = {} /\ InSink \subseteq InWorkers
  BY ConcludedIsOver DEF TxsExact, InSink, Leaked, Concluded, InWorkers

(* A step that touches no task moves no transaction in or out of the sink. *)
LEMMA OthersMoveNothing ==
  ASSUME PlaceInv, Quiet \/ (Pop /\ UNCHANGED txs)
  PROVE  /\ InSink' = InSink /\ Concluded' = Concluded /\ txs' = txs
         /\ \A t \in Tx : Succeeded(t)' <=> Succeeded(t)
<1>1. CASE Quiet
  BY <1>1 DEF Quiet, InSink, Concluded, Queued, InWorkers, Succeeded, Logged
<1>2. CASE Pop /\ UNCHANGED txs
  <2>1. /\ transactions \in Seq(Tx) /\ transactions # <<>> /\ IsInjective(transactions)
        /\ workers \in [Tx -> WorkerState] /\ LogTypeOK
    BY <1>2 DEF Pop, PlaceInv, PlacesDisjoint, TypeOK, RunTypeOK
  <2>2. PICK t \in Tx : t = transactions[Len(transactions)]
    BY <2>1, LastOfQueue
  <2>3. /\ t \in Queued /\ Queued' = Queued \ {t}
        /\ push_event(t, "Popped") /\ workers' = [workers EXCEPT ![t] = "pushed"]
    BY <1>2, <2>1, <2>2, RangeFront DEF Pop, Queued
  <2>4. workers[t] = "none"
    BY <2>3 DEF PlaceInv, PlacesDisjoint, InWorkers
  <2>5. InSink' = InSink
    BY <2>1, <2>3, <2>4 DEF InSink
  <2>6. InWorkers' = InWorkers \cup {t}
    BY <2>1, <2>3 DEF InWorkers
  <2>7. Concluded' = Concluded
    BY <2>3, <2>6 DEF Concluded
  <2>8. \A u \in Tx : Succeeded(u)' <=> Succeeded(u)
    BY <2>1, <2>3, SucceededPush DEF ExecutionEvent
  <2> QED
    BY <1>2, <2>5, <2>7, <2>8
<1> QED
  BY <1>1, <1>2

(* Where the transactions are, said of the next state. *)
LEMMA TxsExactMeansNext ==
  ASSUME PlaceInv'
  PROVE  TxsExact' <=> txs' = InSink' \cup {t \in Watched : Endless(t) /\ t \in Concluded'}
<1>1. (Yielded \cup Recorded)' = Concluded'
  BY DEF PlaceInv, PlacesDisjoint, ExactlyOnce, Concluded
<1> QED
  BY <1>1 DEF TxsExact, InSink, Leaked, Concluded, InWorkers, Endless, Script, get_current_stream_def

LEMMA TxsStep ==
  ASSUME PlaceInv, PlaceInv', ScriptInv, OutcomeMatchesLog, TxsExact, [FakeNext]_fakeVars
  PROVE  TxsExact'
<1> DEFINE Lost(C) == {t \in Watched : Endless(t) /\ t \in C}
<1>1. txs = InSink \cup Lost(Concluded)
  BY TxsExactMeans
<1>2. txs' = InSink' \cup Lost(Concluded')
  <2>1. CASE Quiet \/ (Pop /\ UNCHANGED txs)
    BY <1>1, <2>1, OthersMoveNothing
  <2>2. ASSUME NEW t \in Tx, Polled(t) PROVE txs' = InSink' \cup Lost(Concluded')
    <3>1. t \notin Concluded /\ Queued' = Queued /\ t \in InWorkers
      BY <2>2, PolledEffects DEF Concluded
    <3>2. CASE InWorkers' = InWorkers /\ InSink' = InSink \cup {t} /\ txs' = txs \cup {t}
      <4>1. Concluded' = Concluded
        BY <3>1, <3>2 DEF Concluded
      <4> QED
        BY <1>1, <3>2, <4>1
    <3>3. CASE /\ InWorkers' = InWorkers \ {t} /\ t \in InSink /\ InSink' = InSink \ {t}
               /\ txs' = IF t \in Watched /\ Endless(t) THEN txs ELSE txs \ {t}
      <4>1. Concluded' = Concluded \cup {t}
        BY <3>1, <3>3 DEF Concluded, PlaceInv, PlacesDisjoint
      <4> QED
        BY <1>1, <3>1, <3>3, <4>1
    <3> QED
      BY <2>2, <3>2, <3>3, PolledEffects
  <2> QED
    BY <2>1, <2>2, QuietSteps
<1> QED
  BY <1>2, TxsExactMeansNext

(* Every invariant of the runner, and what the sink counts. *)
FakeInv == PlaceInv /\ TxsType /\ ScriptInv /\ OutcomeMatchesLog /\ BufferInv /\ TxsExact

LEMMA NoMonitorCloses == ScriptInv => \A t \in Tx : ~MonitorClosed(t)
  BY DEF ScriptInv, FollowsScript, MonitorClosed, AtSelect

LEMMA FakeInvariant == FakeSpec => []FakeInv
<1>1. FakeInit => TxsExact
  <2> SUFFICES ASSUME FakeInit PROVE TxsExact
    OBVIOUS
  <2>1. Init /\ txs = {} /\ PlaceInv
    BY PlaceInit DEF FakeInit
  <2>2. InSink = {} /\ Concluded = {}
    BY <2>1, PlaceInit DEF Init, InSink, Concluded, PlaceInv, ExactlyOnce, InWorkers, Yielded,
                           Recorded, NoResult, Range
  <2> QED
    BY <2>1, <2>2, TxsExactMeans
<1>2. FakeInit => BufferInv /\ OutcomeMatchesLog
  BY BufferInit, OutcomeInit DEF FakeInit
<1>3. /\ PlaceInv /\ TxsType /\ ScriptInv /\ BufferInv /\ OutcomeMatchesLog /\ TxsExact
      /\ [FakeNext]_fakeVars /\ PlaceInv'
      => (BufferInv /\ OutcomeMatchesLog /\ TxsExact)'
  BY FakeStepIsRunnerStep, NoMonitorCloses, BufferStep, OutcomeStep, TxsStep DEF PlaceInv
<1> QED
  BY <1>1, <1>2, <1>3, FakeInvariants, PTL DEF FakeSpec, FakeInv

(* The sink's count is exact: what insertion, streams and submit leave in txs
   is what the tasks are waiting for, and what leaked
   (fake_transaction_sink.rs:36-60). *)
THEOREM SinkCountIsExact == FakeSpec => []TxsExact
<1>1. FakeInv => TxsExact
  BY DEF FakeInv
<1> QED
  BY <1>1, FakeInvariant, PTL

(* Nothing but the block monitor makes Counters::buffered inexact: with this
   sink it never is. *)
THEOREM FakeBufferedIsExact == FakeSpec => []BufferedExact
<1>1. FakeInv => BufferedExact
  BY FiniteParts DEF FakeInv, BufferInv, BufferedExact, buffered, Unsubmitted
<1> QED
  BY <1>1, FakeInvariant, PTL

-------------------------------------------------------------------------------
(* Which outcome a script has. *)

VerdictInv == \A t \in Concluded : Succeeded(t) <=> is_finalized(Verdict(t))

LEMMA VerdictStep ==
  ASSUME OneVerdict, FakeInv, VerdictInv, [FakeNext]_fakeVars
  PROVE  VerdictInv'
<1>0. \A t \in Tx : Verdict(t)' = Verdict(t)
  BY DEF Verdict, Endless, Script, get_current_stream_def
<1>1. CASE Quiet \/ (Pop /\ UNCHANGED txs)
  <2>1. Concluded' = Concluded /\ \A t \in Tx : Succeeded(t)' <=> Succeeded(t)
    BY <1>1, OthersMoveNothing DEF FakeInv
  <2> QED
    BY <1>0, <2>1 DEF VerdictInv, Concluded, is_finalized
<1>2. ASSUME NEW t \in Tx, Polled(t) PROVE VerdictInv'
  <2>1. /\ Queued' = Queued /\ t \in InWorkers
        /\ \A u \in Tx : u # t => (Succeeded(u)' <=> Succeeded(u))
        /\ \/ InWorkers' = InWorkers
           \/ /\ InWorkers' = InWorkers \ {t}
              /\ Succeeded(t)' <=> is_finalized(Verdict(t))
    BY <1>2, PolledEffects DEF FakeInv
  <2>2. \A u \in Concluded' : u = t \/ u \in Concluded
    BY <2>1 DEF Concluded
  <2>3. t \in Concluded' => InWorkers' = InWorkers \ {t}
    BY <2>1 DEF Concluded
  <2>4. t \notin Concluded
    BY <2>1 DEF Concluded
  <2>5. ASSUME NEW u \in Concluded' PROVE Succeeded(u)' <=> is_finalized(Verdict(u))
    <3>1. CASE u = t
      BY <2>1, <2>3, <2>5, <3>1
    <3>2. CASE u # t
      BY <2>1, <2>2, <3>2 DEF VerdictInv, Concluded
    <3> QED
      BY <3>1, <3>2
  <2>6. Concluded' \subseteq Tx
    BY DEF Concluded
  <2> QED
    BY <1>0, <2>5, <2>6 DEF VerdictInv, is_finalized
<1> QED
  BY <1>1, <1>2, QuietSteps

(* A transaction is filed under done exactly when its script says Finalized
   first, watched or not, if a script that is not watched says one thing
   (fake_transaction.rs:293-334, runner.rs:106-179, 393-401). *)
THEOREM ScriptsDecide ==
  ASSUME OneVerdict
  PROVE  FakeSpec => []OutcomeFollowsStream
<1>1. FakeInit => VerdictInv
  <2> SUFFICES ASSUME FakeInit PROVE VerdictInv
    OBVIOUS
  <2>1. Concluded = {}
    BY PlaceInit DEF FakeInit, Init, Concluded, PlaceInv, ExactlyOnce, InWorkers, Yielded,
                     Recorded, NoResult, Range
  <2> QED
    BY <2>1 DEF VerdictInv
<1>2. FakeInv /\ VerdictInv /\ [FakeNext]_fakeVars => VerdictInv'
  BY VerdictStep
<1>3. FakeInv /\ VerdictInv => OutcomeFollowsStream
  <2> SUFFICES ASSUME FakeInv, VerdictInv, NEW t \in Recorded
               PROVE  t \in Range(done) <=> is_finalized(Verdict(t))
    BY DEF OutcomeFollowsStream
  <2>1. t \in Concluded /\ t \in Tx /\ t \notin Yielded
    BY ConcludedIsOver DEF FakeInv, Concluded, PlaceInv, PlacesDisjoint
  <2> QED
    BY <2>1 DEF VerdictInv, FakeInv, OutcomeMatchesLog, CountedDone
<1> QED
  BY <1>1, <1>2, <1>3, FakeInvariant, PTL DEF FakeSpec

-------------------------------------------------------------------------------
(* The threshold against this sink. *)

(* A task that was polled waits on, or returns and opens a lap. *)
LEMMA PolledGoes ==
  ASSUME TypeOK, NEW t \in Tx, Polled(t)
  PROVE  /\ pc = "select" /\ t \in InWorkers
         /\ \/ InWorkers' = InWorkers /\ pc' = "select" /\ UNCHANGED transactions
            \/ \E kind \in {"Done", "Error"} :
                 Finish(t, kind) /\ InWorkers' = InWorkers \ {t}
<1>0. /\ workers \in [Tx -> WorkerState] /\ pc = "select" /\ workers[t] # "none"
      /\ t \in InWorkers
  BY DEF TypeOK, RunTypeOK, InWorkers, Polled, FakeSend, Send, Subscribe, WatchReturns, Submitted,
         SubmitReturns, Play, PlayEnds, AtSelect
<1>1. \/ \E what \in {"submitting", "watching"} : Await(t, what)
      \/ \E kind \in {"Done", "Error"} : Finish(t, kind)
  BY FakeAssumption
  DEF Polled, FakeSend, Send, Subscribe, WatchReturns, Submitted, SubmitReturns, Play, StreamNext,
      PlayEnds, StreamEnds
<1>2. ASSUME NEW what \in {"submitting", "watching"}, Await(t, what)
      PROVE  InWorkers' = InWorkers /\ pc' = "select" /\ UNCHANGED transactions
  BY <1>0, <1>2 DEF Await, InWorkers
<1>3. ASSUME NEW kind, Finish(t, kind)
      PROVE  InWorkers' = InWorkers \ {t}
  BY <1>0, <1>3 DEF Finish, InWorkers
<1> QED
  BY <1>0, <1>1, <1>2, <1>3

LEMMA PopGoes ==
  ASSUME PlaceInv, Pop
  PROVE  \E t \in Tx \ InWorkers : InWorkers' = InWorkers \cup {t}
<1>1. /\ transactions \in Seq(Tx) /\ transactions # <<>> /\ IsInjective(transactions)
      /\ workers \in [Tx -> WorkerState]
  BY DEF Pop, PlaceInv, PlacesDisjoint, TypeOK, RunTypeOK
<1>2. PICK t \in Tx : t = transactions[Len(transactions)]
  BY <1>1, LastOfQueue
<1>3. t \in Queued /\ workers' = [workers EXCEPT ![t] = "pushed"]
  BY <1>1, <1>2, RangeFront DEF Pop, Queued
<1>4. t \notin InWorkers
  BY <1>3 DEF PlaceInv, PlacesDisjoint
<1>5. InWorkers' = InWorkers \cup {t}
  BY <1>1, <1>3 DEF InWorkers
<1> QED
  BY <1>4, <1>5

(* What a lap finds: the sink knows everything in flight but what is not
   sent, and that is buffered. *)
LEMMA CountCoversFlight ==
  ASSUME FakeInv
  PROVE  /\ Cardinality(InWorkers) <= Cardinality(txs) + buffered
         /\ Cardinality(InWorkers) \in Nat /\ Cardinality(txs) \in Nat /\ buffered \in Nat
<1>1. IsFiniteSet(txs) /\ IsFiniteSet(Unsubmitted) /\ IsFiniteSet(InWorkers)
  BY FiniteParts DEF FakeInv, TxsType, Unsubmitted, InWorkers
<1>2. buffered = Cardinality(Unsubmitted)
  BY FiniteParts DEF FakeInv, BufferInv, buffered, Unsubmitted
<1>3. InWorkers \subseteq txs \cup Unsubmitted
  <2> SUFFICES ASSUME NEW t \in InWorkers PROVE t \in txs \cup Unsubmitted
    OBVIOUS
  <2>1. t \in Tx /\ workers[t] \in {"pushed", "submitting", "watching"}
    BY DEF FakeInv, PlaceInv, TypeOK, RunTypeOK, WorkerState, InWorkers, ScriptInv, FollowsScript
  <2> QED
    BY <2>1 DEF FakeInv, TxsExact, Unsubmitted
<1>4. IsFiniteSet(txs \cup Unsubmitted) /\
      Cardinality(txs \cup Unsubmitted) <= Cardinality(txs) + Cardinality(Unsubmitted)
  <2>1. /\ Cardinality(txs \cup Unsubmitted)
             = Cardinality(txs) + Cardinality(Unsubmitted) - Cardinality(txs \cap Unsubmitted)
        /\ IsFiniteSet(txs \cup Unsubmitted)
    BY <1>1, FS_Union
  <2>2. Cardinality(txs \cap Unsubmitted) \in Nat
    BY <1>1, FS_Intersection, FS_CardinalityType
  <2>3. Cardinality(txs) \in Nat /\ Cardinality(Unsubmitted) \in Nat
    BY <1>1, FS_CardinalityType
  <2> QED
    BY <2>1, <2>2, <2>3
<1>5. Cardinality(InWorkers) <= Cardinality(txs \cup Unsubmitted)
  BY <1>3, <1>4, FS_Subset
<1>6. /\ Cardinality(txs) \in Nat /\ Cardinality(Unsubmitted) \in Nat
      /\ Cardinality(InWorkers) \in Nat /\ Cardinality(txs \cup Unsubmitted) \in Nat
  BY <1>1, <1>4, FS_CardinalityType
<1> QED
  BY <1>2, <1>4, <1>5, <1>6

(* While the loop runs, what it may still pop fits under the threshold with
   what is in flight. *)
FlightInv ==
  /\ InFlightWithinThreshold
  /\ pc \in {"fill", "pop"} /\ SendThreshold # UsizeMax /\ to_consume > 0
       => to_consume + Cardinality(InWorkers) <= SendThreshold

LEMMA FlightSame ==
  ASSUME FlightInv, InWorkers' = InWorkers,
         \/ UNCHANGED <<pc, to_consume>>
         \/ pc' \in {"fill", "pop"} => SendThreshold = UsizeMax
  PROVE  FlightInv'
  BY DEF FlightInv, InFlightWithinThreshold

LEMMA FlightStep ==
  ASSUME FakeInv, FlightInv, [FakeNext]_fakeVars
  PROVE  FlightInv'
<1>0. /\ SendThreshold \in Nat /\ UsizeMax \in Nat /\ Cardinality(Tx) <= UsizeMax
      /\ Cardinality(Tx) \in Nat /\ to_consume \in Nat
      /\ InWorkers \in SUBSET Tx /\ InWorkers' \in SUBSET Tx
  BY RunnerAssumption, UsizeMaxAssumption, FS_CardinalityType
  DEF FakeInv, PlaceInv, TypeOK, RunTypeOK, InWorkers
<1>1. Cardinality(InWorkers) \in Nat /\ IsFiniteSet(InWorkers)
      /\ Cardinality(InWorkers') \in Nat /\ Cardinality(InWorkers') <= Cardinality(Tx)
  BY <1>0, FiniteParts
<1>2. CASE Pop
  <2>1. Cardinality(InWorkers') = Cardinality(InWorkers) + 1
    BY <1>1, <1>2, PopGoes, FS_AddElement DEF FakeInv
  <2>2. pc \in {"fill", "pop"} /\ to_consume > 0 /\ to_consume' = to_consume - 1 /\ pc' = pc
    BY <1>2 DEF Pop
  <2> QED
    BY <1>0, <1>1, <2>1, <2>2 DEF FlightInv, InFlightWithinThreshold
<1>3. ASSUME NEW t \in Tx, Polled(t) PROVE FlightInv'
  <2>1. CASE InWorkers' = InWorkers /\ pc' = "select"
    BY <2>1, FlightSame
  <2>2. ASSUME NEW kind, Finish(t, kind), InWorkers' = InWorkers \ {t}, t \in InWorkers
        PROVE  FlightInv'
    <3>1. Cardinality(InWorkers') = Cardinality(InWorkers) - 1
      BY <1>1, <2>2, FS_RemoveElement
    <3>2. pc' \in {"fill", "pop"} => SendThreshold = UsizeMax
      BY <2>2 DEF Finish, BeginConsume
    <3> QED
      BY <1>0, <1>1, <3>1, <3>2 DEF FlightInv, InFlightWithinThreshold
  <2> QED
    BY <1>3, <2>1, <2>2, PolledGoes DEF FakeInv, PlaceInv
<1>4. CASE pending_extrinsics
  <2> DEFINE n == Cardinality(txs)
             f == Cardinality(InWorkers)
  <2>1. InWorkers' = InWorkers
    BY <1>4 DEF pending_extrinsics, PendingExtrinsics, InWorkers
  <2>2. f <= n + buffered /\ f \in Nat /\ n \in Nat /\ buffered \in Nat
    BY CountCoversFlight
  <2>3. CASE pc' = "panicked"
    BY <2>1, <2>3, FlightSame
  <2>4. CASE to_consume' = Shortfall(n)
    <3> HIDE DEF n
    <3>1. to_consume' > 0 => to_consume' + f <= SendThreshold
      BY <1>0, <2>2, <2>4 DEF Shortfall, SaturatingSub
    <3> QED
      BY <2>1, <3>1 DEF FlightInv, InFlightWithinThreshold
  <2> QED
    BY <1>4, <2>3, <2>4 DEF pending_extrinsics, PendingExtrinsics
<1>5. CASE StartLoop \/ LapEnds \/ FakeTick \/ FakeEnd \/ FakeAllDone
  BY <1>5, FlightSame
  DEF StartLoop, LapEnds, FakeTick, Tick, BeginConsume, FakeEnd, TimeoutReached, Stop, FakeAllDone,
      AllFuturesDone, Break, InWorkers
<1>6. CASE FakeStopSignal \/ FakeOver \/ UNCHANGED fakeVars
  BY <1>6, FlightSame
  DEF FakeStopSignal, StopSignal, FakeOver, Over, fakeVars, vars, runVars, InWorkers
<1> QED
  BY <1>2, <1>3, <1>4, <1>5, <1>6 DEF FakeNext, FakeConsume, PopLoop

(* With the sink's exact count no more than send_threshold transactions are
   ever in flight, queued tasks included, whatever the scripts and the order
   in which tasks, ticks and laps interleave (runner.rs:281-287 against
   fake_transaction_sink.rs:62-64). *)
THEOREM FlightIsBounded == FakeSpec => []InFlightWithinThreshold
<1>1. FakeInit => FlightInv
  <2> SUFFICES ASSUME FakeInit PROVE FlightInv
    OBVIOUS
  <2>1. InWorkers = {} /\ to_consume = SendThreshold
    BY DEF FakeInit, Init, InWorkers
  <2> QED
    BY <2>1, FS_EmptySet, RunnerAssumption DEF FlightInv, InFlightWithinThreshold
<1>2. FakeInv /\ FlightInv /\ [FakeNext]_fakeVars => FlightInv'
  BY FlightStep
<1>3. FlightInv => InFlightWithinThreshold
  BY DEF FlightInv
<1> QED
  BY <1>1, <1>2, <1>3, FakeInvariant, PTL DEF FakeSpec

-------------------------------------------------------------------------------
(* What a run that completes leaves behind. *)

(* A popping loop with nothing in flight that may pop nothing, and a run with
   nothing in flight but transactions left, found a full threshold of leaked
   hashes. *)
DrainInv ==
  /\ pc \in {"fill", "pop"} /\ InWorkers = {} /\ to_consume = 0
       => Cardinality(Leaked) >= SendThreshold
  /\ pc \in {"select", "completed"} /\ InWorkers = {} /\ transactions # <<>>
       => Cardinality(Leaked) >= SendThreshold
  /\ pc = "completed" => InWorkers = {}

(* What leaked stays leaked. *)
LEMMA LeakedGrows ==
  ASSUME FakeInv, PlaceInv', [FakeNext]_fakeVars
  PROVE  /\ Cardinality(Leaked') >= Cardinality(Leaked)
         /\ Cardinality(Leaked) \in Nat /\ Cardinality(Leaked') \in Nat
<1>1. Leaked = {t \in Watched : Endless(t) /\ t \in Concluded}
  BY TxsExactMeans DEF FakeInv
<1>2. Leaked' = {t \in Watched : Endless(t) /\ t \in Concluded'}
  <2>1. (Yielded \cup Recorded)' = Concluded'
    BY DEF PlaceInv, PlacesDisjoint, ExactlyOnce, Concluded
  <2> QED
    BY <2>1 DEF Leaked, Endless, Script, get_current_stream_def
<1>3. Concluded \subseteq Concluded'
  <2>1. CASE Quiet \/ (Pop /\ UNCHANGED txs)
    BY <2>1, OthersMoveNothing DEF FakeInv
  <2>2. ASSUME NEW t \in Tx, Polled(t) PROVE Concluded \subseteq Concluded'
    <3>1. Queued' = Queued /\ InWorkers' \subseteq InWorkers
      BY <2>2, PolledEffects DEF FakeInv
    <3> QED
      BY <3>1 DEF Concluded
  <2> QED
    BY <2>1, <2>2, QuietSteps
<1>4. Leaked \subseteq Leaked' /\ Leaked \in SUBSET Tx /\ Leaked' \in SUBSET Tx
  BY <1>1, <1>2, <1>3, RunnerAssumption
<1>5. Cardinality(Leaked) <= Cardinality(Leaked')
  BY <1>4, FiniteParts, FS_Subset
<1> QED
  BY <1>4, <1>5, FiniteParts

LEMMA DrainStep ==
  ASSUME FakeInv, PlaceInv', DrainInv, [FakeNext]_fakeVars
  PROVE  DrainInv'
<1>0. /\ SendThreshold \in Nat /\ UsizeMax \in Nat \ {0} /\ to_consume \in Nat
      /\ Cardinality(Leaked') >= Cardinality(Leaked)
      /\ Cardinality(Leaked) \in Nat /\ Cardinality(Leaked') \in Nat
  BY RunnerAssumption, UsizeMaxAssumption, LeakedGrows DEF FakeInv, PlaceInv, TypeOK, RunTypeOK
<1>1. CASE Pop
  <2>1. InWorkers' # {}
    BY <1>1, PopGoes DEF FakeInv
  <2>2. pc' \in {"fill", "pop"}
    BY <1>1 DEF Pop
  <2> QED
    BY <2>1, <2>2 DEF DrainInv
<1>2. ASSUME NEW t \in Tx, Polled(t) PROVE DrainInv'
  <2>1. CASE InWorkers' = InWorkers /\ pc' = "select" /\ t \in InWorkers
    BY <2>1 DEF DrainInv
  <2>2. ASSUME NEW kind, Finish(t, kind) PROVE DrainInv'
    BY <1>0, <2>2 DEF Finish, BeginConsume, DrainInv
  <2> QED
    BY <1>2, <2>1, <2>2, PolledGoes DEF FakeInv, PlaceInv
<1>3. CASE pending_extrinsics
  <2>1. InWorkers' = InWorkers
    BY <1>3 DEF pending_extrinsics, PendingExtrinsics, InWorkers
  <2>2. CASE pc' = "panicked"
    BY <2>2 DEF DrainInv
  <2>3. CASE pc' = "pop" /\ to_consume' = Shortfall(Cardinality(txs))
    <3>1. ASSUME InWorkers' = {}, to_consume' = 0 PROVE Cardinality(Leaked) >= SendThreshold
      <4>1. InWorkers = {} /\ txs = Leaked
        BY <2>1, <3>1, TxsExactMeans DEF FakeInv, TxsExact, InSink
      <4>2. buffered = 0
        <5>1. Unsubmitted = {}
          BY <4>1 DEF Unsubmitted, InWorkers
        <5> QED
          BY <5>1, FS_EmptySet DEF FakeInv, BufferInv, buffered
      <4>3. SaturatingSub(SaturatingSub(SendThreshold, Cardinality(Leaked)), 0) = 0
        BY <2>3, <3>1, <4>1, <4>2 DEF Shortfall
      <4> QED
        BY <1>0, <4>3 DEF SaturatingSub
    <3> QED
      BY <1>0, <2>3, <3>1 DEF DrainInv
  <2> QED
    BY <1>3, <2>2, <2>3 DEF pending_extrinsics, PendingExtrinsics
<1>4. CASE StartLoop \/ LapEnds
  <2>1. /\ pc \in {"fill", "pop"} /\ pc' = "select" /\ LoopOver
        /\ UNCHANGED <<workers, transactions, to_consume>>
    BY <1>4 DEF StartLoop, LapEnds
  <2> QED
    BY <1>0, <2>1 DEF LoopOver, DrainInv, InWorkers
<1>5. CASE FakeTick
  BY <1>0, <1>5 DEF FakeTick, Tick, BeginConsume, DrainInv
<1>6. CASE FakeEnd
  BY <1>6 DEF FakeEnd, TimeoutReached, Stop, Break, DrainInv
<1>7. CASE FakeAllDone
  BY <1>0, <1>7 DEF FakeAllDone, AllFuturesDone, Break, DrainInv, InWorkers
<1>8. CASE FakeStopSignal \/ FakeOver \/ UNCHANGED fakeVars
  <2>1. UNCHANGED <<pc, workers, transactions, to_consume>>
    BY <1>8 DEF FakeStopSignal, StopSignal, FakeOver, Over, fakeVars, vars, runVars
  <2> QED
    BY <1>0, <2>1 DEF DrainInv, InWorkers
<1> QED
  BY <1>1, <1>2, <1>3, <1>4, <1>5, <1>6, <1>7, <1>8 DEF FakeNext, FakeConsume, PopLoop

(* A run that completes with transactions left has a threshold of leaked
   hashes: no interleaving of tasks, ticks and laps holds any back otherwise
   (runner.rs:391, 405-410). *)
THEOREM OnlyLeaksLeaveBehind == FakeSpec => []FakeDrainsBatch
<1>1. FakeInit => DrainInv
  <2> SUFFICES ASSUME FakeInit PROVE DrainInv
    OBVIOUS
  <2>1. PlaceInv /\ Leaked \in SUBSET Tx
    BY PlaceInit, RunnerAssumption DEF FakeInit, Leaked
  <2>2. Cardinality(Leaked) \in Nat
    BY <2>1, FiniteParts
  <2> QED
    BY <2>2, RunnerAssumption DEF FakeInit, Init, DrainInv
<1>2. FakeInv /\ FakeInv' /\ DrainInv /\ [FakeNext]_fakeVars => DrainInv'
  BY DrainStep DEF FakeInv
<1>3. DrainInv => FakeDrainsBatch
  BY DEF DrainInv, FakeDrainsBatch
<1> QED
  BY <1>1, <1>2, <1>3, FakeInvariant, PTL DEF FakeSpec
===============================================================================
