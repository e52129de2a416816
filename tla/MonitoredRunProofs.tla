-------------------------- MODULE MonitoredRunProofs --------------------------
(***************************************************************************)
(* That what a run followed by the block monitor records is true, and that *)
(* nothing but a monitor that is gone unwinds it, for every batch, chain,  *)
(* lifetime, channel and number of errors of the subscription.             *)
(***************************************************************************)
EXTENDS MonitoredRun, RunnerProofs

-------------------------------------------------------------------------------
(* The runner's side. *)

LEMMA MonitoredStepIsRunnerStep ==
  ASSUME [MonitoredNext]_monitoredVars
  PROVE  [Next]_vars
<1>1. ASSUME NEW t \in Tx, TaskMoves(t) PROVE TaskStep(t)
  BY <1>1 DEF TaskMoves, RunnerAlone, Accepted, RegisterAtMonitor, AnswerArrives, TaskStep
<1>2. CASE \E t \in Tx : TaskMoves(t)
  BY <1>1, <1>2 DEF Next
<1>3. CASE RunnerAlone(Consume \/ Tick \/ TimeoutReached)
  BY <1>3 DEF RunnerAlone, Next
<1>4. CASE RunnerAlone(Stop \/ AllFuturesDone) \/ RunnerAlone(StopSignal)
  BY <1>4 DEF RunnerAlone, Next
<1>5. CASE \/ TasksDropped \/ TakesRequest \/ TakesBlock \/ BlockBodyFails \/ ItemIsError
           \/ SubscriptionEnds \/ Finalizes \/ MonitoredOver \/ UNCHANGED monitoredVars
  BY <1>5 DEF TasksDropped, TakesRequest, TakesBlock, BlockBodyFails, ItemIsError, SubscriptionEnds,
              Finalizes, MonitoredOver, monitoredVars
<1> QED
  BY <1>2, <1>3, <1>4, <1>5 DEF MonitoredNext

(* The run with the real monitor implements the runner with the most general
   sink and monitor: whatever is proved of Runner holds of it
   (runner.rs:149-170 with block_monitor.rs). *)
THEOREM MonitoredRunImplementsRunner == MonitoredSpec => Spec
<1>1. MonitoredInit => Init
  BY DEF MonitoredInit
<1>2. [MonitoredNext]_monitoredVars => [Next]_vars
  BY MonitoredStepIsRunnerStep
<1> QED
  BY <1>1, <1>2, PTL DEF MonitoredSpec, Spec

(* Transactions whose submission is not answered yet, popped or not. *)
Fresh == Queued \cup Unsubmitted

(* A step of the run writes one event to one log, or none; the answer to a
   submission comes once, and what the monitor's answer makes it write is
   what the listener holds. *)
Writes(t, e) ==
  /\ e \in ExecutionEvent /\ push_event(t, e)
  /\ \/ e \in {"Popped", "Sent"}
     \/ e \in {"SubmitOk", "SubmitErr"} /\ t \in Fresh /\ t \notin Fresh'
     \/ e = "FinalizedMonitor" /\ listener[t] = "Ok"
     \/ e = "MortalDroppedMonitor" /\ listener[t] = "MortalLifetimeSurpassed"
     \/ e = "SubmitErr" /\ listener[t] = "Closed" /\ t \notin Fresh

LEMMA PopWrites ==
  ASSUME PlaceInv, Pop
  PROVE  Fresh' \subseteq Fresh /\ \E t \in Tx : Writes(t, "Popped")
<1>1. /\ transactions \in Seq(Tx) /\ transactions # <<>> /\ IsInjective(transactions)
      /\ workers \in [Tx -> WorkerState]
  BY DEF Pop, PlaceInv, PlacesDisjoint, TypeOK, RunTypeOK
<1>2. PICK t \in Tx : t = transactions[Len(transactions)]
  BY <1>1, LastOfQueue
<1>3. /\ t \in Queued /\ Queued' = Queued \ {t}
      /\ push_event(t, "Popped") /\ workers' = [workers EXCEPT ![t] = "pushed"]
  BY <1>1, <1>2, RangeFront DEF Pop, Queued
<1>4. Unsubmitted' = Unsubmitted \cup {t}
  BY <1>1, <1>3 DEF Unsubmitted
<1> QED
  BY <1>3, <1>4 DEF Fresh, Writes, ExecutionEvent

LEMMA TaskWrites ==
  ASSUME PlaceInv, NEW t \in Tx, TaskMoves(t)
  PROVE  /\ Fresh' \subseteq Fresh
         /\ UNCHANGED events \/ \E e \in ExecutionEvent : Writes(t, e)
<1>0. /\ workers \in [Tx -> WorkerState]
      /\ \A u \in Tx : workers[u] # "none" => u \notin Queued
      /\ HasMonitor /\ Watched = {}
  BY MonitoredAssumption DEF PlaceInv, PlacesDisjoint, TypeOK, RunTypeOK, InWorkers
(* Where a step of the task leaves what is fresh. *)
<1>1. ASSUME NEW what, workers' = [workers EXCEPT ![t] = what], UNCHANGED transactions,
             workers[t] # "none", what \in {"pushed", "submitting"} => t \in Unsubmitted
      PROVE  /\ Fresh' \subseteq Fresh
             /\ what \notin {"pushed", "submitting"} => t \notin Fresh'
  <2>1. Queued' = Queued /\ t \notin Queued
    BY <1>0, <1>1 DEF Queued
  <2>2. /\ workers'[t] = what
        /\ \A u \in Tx : u # t => workers'[u] = workers[u]
    BY <1>0, <1>1
  <2> QED
    BY <1>1, <2>1, <2>2 DEF Fresh, Unsubmitted
<1>2. CASE Send(t)
  <2>1. /\ workers' = [workers EXCEPT ![t] = "submitting"] /\ UNCHANGED transactions
        /\ workers[t] = "pushed" /\ push_event(t, "Sent")
    BY <1>2 DEF Send, Await, AtSelect
  <2>2. t \in Unsubmitted
    BY <2>1 DEF Unsubmitted
  <2> QED
    BY <1>1, <2>1, <2>2 DEF Writes, ExecutionEvent
<1>3. ASSUME NEW ok \in BOOLEAN, SubmitReturns(t, ok)
      PROVE  Fresh' \subseteq Fresh /\ \E e \in ExecutionEvent : Writes(t, e)
  <2>1. /\ workers[t] = "submitting" /\ UNCHANGED transactions
        /\ push_event(t, IF ok THEN "SubmitOk" ELSE "SubmitErr")
        /\ \E what \in {"registering", "none"} : workers' = [workers EXCEPT ![t] = what]
    BY <1>0, <1>3 DEF SubmitReturns, AtSelect, Await, Finish
  <2>2. t \in Fresh
    BY <2>1 DEF Fresh, Unsubmitted
  <2>3. Fresh' \subseteq Fresh /\ t \notin Fresh'
    BY <1>1, <2>1
  <2> QED
    BY <2>1, <2>2, <2>3 DEF Writes, ExecutionEvent
<1>4. CASE RegisterAtMonitor(t)
  <2>1. CASE monitor = "dead"
    BY <1>4, <2>1 DEF RegisterAtMonitor, RegisterFails, Panic, logVars, Fresh, Queued, Unsubmitted
  <2>2. CASE monitor # "dead"
    <3>1. /\ workers' = [workers EXCEPT ![t] = "waiting"] /\ UNCHANGED <<transactions, events>>
          /\ workers[t] = "registering"
      BY <1>4, <2>2 DEF RegisterAtMonitor, Register, Await, AtSelect, logVars
    <3> QED
      BY <1>1, <3>1
  <2> QED
    BY <2>1, <2>2
<1>5. CASE AnswerArrives(t)
  <2>1. /\ workers' = [workers EXCEPT ![t] = "none"] /\ UNCHANGED transactions
        /\ workers[t] = "waiting"
        /\ \/ push_event(t, "FinalizedMonitor") /\ listener[t] = "Ok"
           \/ push_event(t, "MortalDroppedMonitor") /\ listener[t] = "MortalLifetimeSurpassed"
           \/ push_event(t, "SubmitErr") /\ listener[t] = "Closed"
    BY <1>5 DEF AnswerArrives, MonitorFinalized, MonitorMortalDropped, MonitorClosed, Finish, AtSelect
  <2>2. Fresh' \subseteq Fresh
    BY <1>1, <2>1
  <2>3. t \notin Fresh
    BY <1>0, <2>1 DEF Fresh, Unsubmitted
  <2> QED
    BY <2>1, <2>2, <2>3 DEF Writes, ExecutionEvent
<1> QED
  BY <1>2, <1>3, <1>4, <1>5 DEF TaskMoves, RunnerAlone, Accepted

LEMMA RunWrites ==
  ASSUME PlaceInv, [MonitoredNext]_monitoredVars
  PROVE  /\ Fresh' \subseteq Fresh
         /\ \/ UNCHANGED events
            \/ \E t \in Tx : \E e \in ExecutionEvent : Writes(t, e)
<1>1. CASE UNCHANGED <<events, workers, transactions>>
  BY <1>1 DEF Fresh, Queued, Unsubmitted
<1>2. CASE Pop
  BY <1>2, PopWrites DEF ExecutionEvent
<1>3. CASE \E t \in Tx : TaskMoves(t)
  BY <1>3, TaskWrites
<1>4. CASE RunnerAlone(Consume \/ Tick \/ TimeoutReached)
  <2>1. UNCHANGED <<events, workers, transactions>> \/ Pop
    BY <1>4 DEF RunnerAlone, Consume, StartLoop, LapEnds, PendingExtrinsics, PendingFails, Panic, Tick,
                TimeoutReached, Break, logVars
  <2> QED
    BY <1>1, <1>2, <2>1
<1>5. CASE RunnerAlone(Stop \/ AllFuturesDone) \/ RunnerAlone(StopSignal)
  BY <1>1, <1>5 DEF RunnerAlone, Stop, AllFuturesDone, StopSignal, Break, logVars
<1>6. CASE \/ TasksDropped \/ TakesRequest \/ TakesBlock \/ BlockBodyFails \/ ItemIsError
           \/ SubscriptionEnds \/ Finalizes \/ MonitoredOver \/ UNCHANGED monitoredVars
  BY <1>1, <1>6
  DEF TasksDropped, TakesRequest, TakesBlock, BlockBodyFails, ItemIsError, SubscriptionEnds,
      Finalizes, MonitoredOver, monitoredVars, vars, runVars, logVars
<1> QED
  BY <1>3, <1>4, <1>5, <1>6 DEF MonitoredNext

-------------------------------------------------------------------------------
(* The monitor's side: types and listeners. *)

(* An error stands for a block that was not handled. *)
MonitorTypeOK == M!TypeOK /\ missed \subseteq 1..seen

(* What a step of the system is to the monitor. *)
Misses ==
  /\ seen < Len(chain) /\ seen' = seen + 1 /\ missed' = missed \cup {seen + 1}
  /\ UNCHANGED <<chain, listener, listener_request, callbacks, mortal_accounting, monitor, since>>

MonitorStep ==
  \/ \E t \in Tx : M!Submit(t) \/ M!RegisterListener(t)
  \/ \E txs \in SUBSET Tx : M!FinalizeBlock(txs)
  \/ M!RunnerEnds \/ M!TakeRequest \/ M!HandleFinalized \/ M!Die
  \/ UNCHANGED mVars

LEMMA MonitorMoves ==
  ASSUME [MonitoredNext]_monitoredVars
  PROVE  (MonitorStep /\ missed' = missed) \/ Misses
<1>1. ASSUME NEW t \in Tx, TaskMoves(t) PROVE MonitorStep /\ missed' = missed
  BY <1>1 DEF TaskMoves, RunnerAlone, Accepted, RegisterAtMonitor, AnswerArrives, MonitorStep, subVars
<1>2. CASE \/ RunnerAlone(Consume \/ Tick \/ TimeoutReached)
           \/ RunnerAlone(Stop \/ AllFuturesDone) \/ RunnerAlone(StopSignal)
  BY <1>2 DEF RunnerAlone, MonitorStep, subVars
<1>3. CASE Finalizes
  <2>1. M!Includable \subseteq Tx
    BY DEF M!Includable
  <2> QED
    BY <1>3, <2>1 DEF Finalizes, MonitorStep, subVars
<1>4. CASE ItemIsError
  BY <1>4 DEF ItemIsError, Misses
<1>5. CASE TasksDropped \/ TakesRequest \/ TakesBlock \/ BlockBodyFails
  BY <1>5 DEF TasksDropped, TakesRequest, TakesBlock, M!HandleFinalizedPanics, BlockBodyFails,
              M!HandleFails, MonitorStep, subVars
<1>6. CASE SubscriptionEnds \/ MonitoredOver \/ UNCHANGED monitoredVars
  BY <1>6 DEF SubscriptionEnds, MonitoredOver, monitoredVars, MonitorStep, subVars
<1> QED
  BY <1>1, <1>2, <1>3, <1>4, <1>5, <1>6 DEF MonitoredNext

LEMMA MonitorTypeInit == M!Init /\ missed = {} => MonitorTypeOK
<1> SUFFICES ASSUME M!Init, missed = {} PROVE MonitorTypeOK
  OBVIOUS
<1>1. chain \in Seq(SUBSET Tx) /\ listener_request \in Seq(Tx) /\ Len(chain) = 0
      /\ Len(listener_request) = 0
  BY DEF M!Init
<1>2. Capacity \in Nat /\ MaxBlocks \in Nat
  BY MonitoredAssumption
<1>3. listener \in [Tx -> M!ListenerState]
  BY DEF M!Init, M!ListenerState
<1> QED
  BY <1>1, <1>2, <1>3 DEF M!Init, M!TypeOK, MonitorTypeOK

LEMMA MonitorTypeStep ==
  ASSUME MonitorTypeOK, (MonitorStep /\ missed' = missed) \/ Misses
  PROVE  MonitorTypeOK'
<1> USE MonitoredAssumption
<1>0. /\ chain \in Seq(SUBSET Tx) /\ Len(chain) \in Nat /\ Len(chain) <= MaxBlocks
      /\ seen \in 0..Len(chain)
      /\ listener \in [Tx -> M!ListenerState]
      /\ listener_request \in Seq(Tx) /\ Len(listener_request) <= Capacity
      /\ Len(listener_request) \in Nat
      /\ callbacks \subseteq Tx
      /\ mortal_accounting \in [M!Blocks -> SUBSET Tx]
      /\ monitor \in {"running", "dead"}
      /\ since \in [Tx -> 0..MaxBlocks]
      /\ missed \subseteq 1..seen
  BY DEF MonitorTypeOK, M!TypeOK
<1>01. \A n \in Nat : seen <= n => missed \subseteq 1..n
  BY <1>0
<1>1. ASSUME NEW t \in Tx, M!Submit(t), missed' = missed PROVE MonitorTypeOK'
  <2>1. listener' \in [Tx -> M!ListenerState]
    BY <1>0, <1>1 DEF M!Submit, M!ListenerState
  <2> QED
    BY <2>1, <1>0, <1>1 DEF M!Submit, M!monitorVars, M!TypeOK, MonitorTypeOK
<1>2. ASSUME NEW t \in Tx, M!RegisterListener(t), missed' = missed PROVE MonitorTypeOK'
  <2>1. listener' \in [Tx -> M!ListenerState]
    BY <1>0, <1>2 DEF M!RegisterListener, M!ListenerState, M!Answers
  <2>2. listener_request' \in Seq(Tx) /\ Len(listener_request') <= Capacity
    <3>1. CASE monitor = "dead"
      BY <3>1, <1>0, <1>2 DEF M!RegisterListener
    <3>2. CASE monitor # "dead"
      <4>1. listener_request' = Append(listener_request, t) /\ Len(listener_request) < Capacity
        BY <3>2, <1>2 DEF M!RegisterListener
      <4> QED
        BY <4>1, <1>0
    <3> QED
      BY <3>1, <3>2
  <2> QED
    BY <2>1, <2>2, <1>0, <1>2 DEF M!RegisterListener, M!monitorVars, M!TypeOK, MonitorTypeOK
<1>3. ASSUME NEW txs \in SUBSET Tx, M!FinalizeBlock(txs), missed' = missed PROVE MonitorTypeOK'
  <2>1. chain' \in Seq(SUBSET Tx) /\ Len(chain') = Len(chain) + 1 /\ Len(chain) < MaxBlocks
    BY <1>0, <1>3 DEF M!FinalizeBlock
  <2> QED
    BY <2>1, <1>0, <1>3 DEF M!FinalizeBlock, M!monitorVars, M!TypeOK, MonitorTypeOK
<1>4. CASE M!RunnerEnds /\ missed' = missed
  <2>1. listener' \in [Tx -> M!ListenerState]
    BY <1>0, <1>4 DEF M!RunnerEnds, M!ListenerState
  <2> QED
    BY <2>1, <1>0, <1>4 DEF M!RunnerEnds, M!monitorVars, M!TypeOK, MonitorTypeOK
<1>5. CASE M!TakeRequest /\ missed' = missed
  <2>1. Head(listener_request) \in Tx /\ Tail(listener_request) \in Seq(Tx)
        /\ Len(Tail(listener_request)) = Len(listener_request) - 1
    BY <1>0, <1>5 DEF M!TakeRequest
  <2>2. since' \in [Tx -> 0..MaxBlocks]
    BY <1>0, <1>5 DEF M!TakeRequest
  <2>3. mortal_accounting' \in [M!Blocks -> SUBSET Tx]
    BY <2>1, <1>0, <1>5 DEF M!TakeRequest
  <2>4. listener_request' \in Seq(Tx) /\ Len(listener_request') <= Capacity
    BY <2>1, <1>0, <1>5 DEF M!TakeRequest
  <2> QED
    BY <2>1, <2>2, <2>3, <2>4, <1>0, <1>5 DEF M!TakeRequest, M!TypeOK, MonitorTypeOK
<1>6. CASE M!HandleFinalized /\ missed' = missed
  <2>1. seen' = seen + 1 /\ seen' \in 0..Len(chain) /\ missed' \subseteq 1..seen'
    BY <1>0, <1>01, <1>6 DEF M!HandleFinalized
  <2>2. listener' \in [Tx -> M!ListenerState]
    BY <1>0, <1>6 DEF M!HandleFinalized, M!ListenerState, M!Answers
  <2>3. callbacks' \subseteq Tx
    BY <1>0, <1>6 DEF M!HandleFinalized, M!Untriggered
  <2>4. mortal_accounting' \in [M!Blocks -> SUBSET Tx]
    BY <1>0, <1>6 DEF M!HandleFinalized
  <2> QED
    BY <2>1, <2>2, <2>3, <2>4, <1>0, <1>6 DEF M!HandleFinalized, M!TypeOK, MonitorTypeOK
<1>7. CASE M!Die /\ missed' = missed
  <2>1. listener' \in [Tx -> M!ListenerState]
    BY <1>0, <1>7 DEF M!Die, M!ListenerState, M!Answers
  <2>2. listener_request' \in Seq(Tx) /\ Len(listener_request') <= Capacity
    BY <1>7 DEF M!Die
  <2> QED
    BY <2>1, <2>2, <1>0, <1>7 DEF M!Die, M!TypeOK, MonitorTypeOK
<1>8. CASE Misses
  <2>1. seen' \in 0..Len(chain) /\ missed' \subseteq 1..seen'
    BY <1>0, <1>01, <1>8 DEF Misses
  <2> QED
    BY <2>1, <1>0, <1>8 DEF Misses, M!TypeOK, MonitorTypeOK
<1>9. CASE UNCHANGED mVars /\ missed' = missed
  BY <1>0, <1>9 DEF mVars, M!TypeOK, MonitorTypeOK
<1> QED
  BY <1>1, <1>2, <1>3, <1>4, <1>5, <1>6, <1>7, <1>8, <1>9 DEF MonitorStep

(* Whoever waits is known, and a transaction registers once. *)
NoOrphanedListener ==
  /\ \A t \in Tx : listener[t] = "waiting" => t \in callbacks \cup Range(listener_request)
  /\ \A t \in callbacks \cup Range(listener_request) : listener[t] \in {"waiting", "abandoned"}
  /\ callbacks \cap Range(listener_request) = {}

ListenerInv == NoOrphanedListener /\ IsInjective(listener_request)

(* Taking a registration out of the channel. *)
LEMMA RangeTail ==
  ASSUME NEW seq \in Seq(Tx), seq # <<>>, IsInjective(seq)
  PROVE  /\ Head(seq) \in Tx
         /\ Range(seq) = {Head(seq)} \cup Range(Tail(seq))
         /\ Head(seq) \notin Range(Tail(seq))
         /\ IsInjective(Tail(seq))
<1> DEFINE rest == Tail(seq)
<1>1. /\ rest \in Seq(Tx) /\ Len(rest) = Len(seq) - 1 /\ Len(seq) \in Nat \ {0}
      /\ \A i \in 1..(Len(seq) - 1) : rest[i] = seq[i + 1]
      /\ Head(seq) = seq[1] /\ Head(seq) \in Tx
  OBVIOUS
<1>2. DOMAIN rest = 1..(Len(seq) - 1) /\ DOMAIN seq = 1..Len(seq)
  BY <1>1
<1> HIDE DEF rest
<1>3. \A i \in 1..Len(seq) : i # 1 => (i - 1) \in DOMAIN rest /\ rest[i - 1] = seq[i]
  <2> SUFFICES ASSUME NEW i \in 1..Len(seq), i # 1
               PROVE  (i - 1) \in DOMAIN rest /\ rest[i - 1] = seq[i]
    OBVIOUS
  <2>1. (i - 1) \in 1..(Len(seq) - 1) /\ (i - 1) + 1 = i
    BY <1>1
  <2> QED
    BY <2>1, <1>1, <1>2
<1>4. \A i \in DOMAIN rest : (i + 1) \in 1..Len(seq) /\ i + 1 # 1 /\ rest[i] = seq[i + 1]
  BY <1>1, <1>2
<1>5. 1 \in DOMAIN seq
  BY <1>1, <1>2
<1>6. Range(seq) = {Head(seq)} \cup Range(rest)
  <2>1. ASSUME NEW u \in Range(seq) PROVE u \in {Head(seq)} \cup Range(rest)
    <3>1. PICK i \in 1..Len(seq) : u = seq[i]
      BY <1>2 DEF Range
    <3> QED
      BY <3>1, <1>1, <1>3 DEF Range
  <2>2. ASSUME NEW u \in Range(rest) PROVE u \in Range(seq)
    BY <1>2, <1>4 DEF Range
  <2>3. Head(seq) \in Range(seq)
    BY <1>1, <1>5 DEF Range
  <2> QED
    BY <2>1, <2>2, <2>3
<1>7. \A i, j \in DOMAIN seq : seq[i] = seq[j] => i = j
  BY DEF IsInjective
<1>8. Head(seq) \notin Range(rest)
  BY <1>1, <1>2, <1>4, <1>5, <1>7 DEF Range
<1>9. \A i, j \in DOMAIN rest : rest[i] = rest[j] => i = j
  <2> TAKE i, j \in DOMAIN rest
  <2> HAVE rest[i] = rest[j]
  <2>1. i + 1 = j + 1
    BY <1>2, <1>4, <1>7
  <2> QED
    BY <1>1, <1>2, <2>1
<1> QED
  BY <1>1, <1>6, <1>8, <1>9 DEF rest, IsInjective

(* Adding one. *)
LEMMA InjectiveAppend ==
  ASSUME NEW seq \in Seq(Tx), NEW t \in Tx, t \notin Range(seq), IsInjective(seq)
  PROVE  IsInjective(Append(seq, t))
<1> DEFINE longer == Append(seq, t)
<1>1. /\ DOMAIN longer = 1..Len(seq) + 1
      /\ longer[Len(seq) + 1] = t
      /\ \A i \in 1..Len(seq) : longer[i] = seq[i]
      /\ DOMAIN seq = 1..Len(seq)
      /\ Len(seq) \in Nat
  OBVIOUS
<1> HIDE DEF longer
<1>2. 1..Len(seq) + 1 = 1..Len(seq) \cup {Len(seq) + 1}
  BY <1>1
<1>3. \A i \in 1..Len(seq) : longer[i] # t
  BY <1>1 DEF Range
<1>4. \A i, j \in DOMAIN longer : longer[i] = longer[j] => i = j
  BY <1>1, <1>2, <1>3 DEF IsInjective
<1> QED
  BY <1>4 DEF longer, IsInjective

LEMMA EmptyChannel == Range(<<>>) = {} /\ IsInjective(<<>>)
  BY DEF Range, IsInjective

LEMMA ListenerInit == M!Init => ListenerInv
  BY EmptyChannel DEF M!Init, ListenerInv, NoOrphanedListener

LEMMA ListenerStep ==
  ASSUME MonitorTypeOK, ListenerInv, MonitorStep \/ Misses
  PROVE  ListenerInv'
<1> DEFINE asked == Range(listener_request)
<1>0. /\ listener \in [Tx -> M!ListenerState]
      /\ listener_request \in Seq(Tx) /\ callbacks \subseteq Tx
      /\ \A t \in Tx : listener[t] = "waiting" => t \in callbacks \cup asked
      /\ \A t \in callbacks \cup asked : listener[t] \in {"waiting", "abandoned"}
      /\ callbacks \cap asked = {}
      /\ IsInjective(listener_request)
  BY DEF MonitorTypeOK, M!TypeOK, ListenerInv, NoOrphanedListener
<1>01. asked \subseteq Tx
  BY <1>0 DEF Range
<1>02. ASSUME UNCHANGED <<listener, listener_request, callbacks>> PROVE ListenerInv'
  BY <1>02, <1>0 DEF ListenerInv, NoOrphanedListener
<1>1. ASSUME NEW t \in Tx, M!Submit(t) PROVE ListenerInv'
  <2>1. /\ listener[t] = "none" /\ listener' = [listener EXCEPT ![t] = "accepted"]
        /\ listener_request' = listener_request /\ callbacks' = callbacks
    BY <1>1 DEF M!Submit, M!monitorVars
  <2> QED
    BY <2>1, <1>0, <1>01 DEF ListenerInv, NoOrphanedListener
<1>2. ASSUME NEW t \in Tx, M!RegisterListener(t) PROVE ListenerInv'
  <2>1. listener[t] = "accepted" /\ callbacks' = callbacks
    BY <1>2 DEF M!RegisterListener, M!monitorVars
  <2>2. t \notin callbacks \cup asked
    BY <2>1, <1>0
  <2>3. CASE monitor = "dead"
    <3>1. /\ listener' = [listener EXCEPT ![t] = "Panicked"]
          /\ listener_request' = listener_request
      BY <2>3, <1>2 DEF M!RegisterListener
    <3> QED
      BY <2>1, <2>2, <3>1, <1>0, <1>01 DEF ListenerInv, NoOrphanedListener
  <2>4. CASE monitor # "dead"
    <3>1. /\ listener' = [listener EXCEPT ![t] = "waiting"]
          /\ listener_request' = Append(listener_request, t)
      BY <2>4, <1>2 DEF M!RegisterListener
    <3>2. Range(listener_request') = asked \cup {t}
      BY <3>1, <1>0, RangeAppend
    <3>3. IsInjective(listener_request')
      BY <3>1, <2>2, <1>0, InjectiveAppend
    <3>4. NoOrphanedListener'
      BY <3>1, <3>2, <2>1, <2>2, <1>0, <1>01 DEF NoOrphanedListener
    <3> QED
      BY <3>3, <3>4 DEF ListenerInv
  <2> QED
    BY <2>3, <2>4
<1>3. ASSUME NEW txs \in SUBSET Tx, M!FinalizeBlock(txs) PROVE ListenerInv'
  BY <1>02, <1>3 DEF M!FinalizeBlock, M!monitorVars
<1>4. CASE M!RunnerEnds
  <2>1. /\ listener' = [t \in Tx |-> IF listener[t] \in M!Answers THEN listener[t] ELSE "abandoned"]
        /\ listener_request' = listener_request /\ callbacks' = callbacks
    BY <1>4 DEF M!RunnerEnds, M!monitorVars
  <2>2. \A t \in Tx : listener'[t] # "waiting"
    BY <2>1 DEF M!Answers
  <2>3. \A t \in callbacks \cup asked : listener'[t] = "abandoned"
    BY <2>1, <1>0, <1>01 DEF M!Answers
  <2> QED
    BY <2>1, <2>2, <2>3, <1>0 DEF ListenerInv, NoOrphanedListener
<1>5. CASE M!TakeRequest
  <2> DEFINE head == Head(listener_request)
  <2>1. /\ listener_request # <<>> /\ listener' = listener
        /\ callbacks' = callbacks \cup {head}
        /\ listener_request' = Tail(listener_request)
    BY <1>5 DEF M!TakeRequest
  <2>2. /\ asked = {head} \cup Range(Tail(listener_request))
        /\ head \notin Range(Tail(listener_request))
        /\ IsInjective(Tail(listener_request))
    BY <2>1, <1>0, RangeTail
  <2>3. NoOrphanedListener'
    BY <2>1, <2>2, <1>0 DEF NoOrphanedListener
  <2> QED
    BY <2>1, <2>2, <2>3 DEF ListenerInv
<1>6. CASE M!HandleFinalized
  <2> DEFINE n == seen + 1
             told == M!Found(n) \cup M!Expired(n)
  <2>1. /\ listener' = [t \in Tx |-> IF t \in M!Found(n) THEN "Ok"
                                    ELSE IF t \in M!Expired(n) THEN "MortalLifetimeSurpassed"
                                    ELSE listener[t]]
        /\ callbacks' = callbacks \ told
        /\ listener_request' = listener_request
    BY <1>6 DEF M!HandleFinalized, M!Untriggered
  <2>2. told \subseteq callbacks
    BY DEF M!Found, M!Expired
  <2> HIDE DEF told
  <2>3. \A t \in Tx : /\ t \notin told => listener'[t] = listener[t]
                      /\ t \in told => listener'[t] \in {"Ok", "MortalLifetimeSurpassed"}
    BY <2>1 DEF told
  <2>4. NoOrphanedListener'
    BY <2>1, <2>2, <2>3, <1>0, <1>01 DEF NoOrphanedListener
  <2> QED
    BY <2>1, <2>4, <1>0 DEF ListenerInv
<1>7. CASE M!Die
  <2>1. /\ listener' = [t \in Tx |-> IF listener[t] = "waiting" THEN "Closed" ELSE listener[t]]
        /\ callbacks' = {} /\ Range(listener_request') = {} /\ IsInjective(listener_request')
    BY <1>7, EmptyChannel DEF M!Die
  <2>2. \A t \in Tx : listener'[t] # "waiting"
    BY <2>1
  <2> QED
    BY <2>1, <2>2 DEF ListenerInv, NoOrphanedListener
<1>8. CASE Misses
  BY <1>02, <1>8 DEF Misses
<1>9. CASE UNCHANGED mVars
  BY <1>02, <1>9 DEF mVars
<1> QED
  BY <1>1, <1>2, <1>3, <1>4, <1>5, <1>6, <1>7, <1>8, <1>9 DEF MonitorStep

-------------------------------------------------------------------------------
(* The monitor's side: what the listeners are told. *)

Unseen(t, first, last) == \A n \in first..last : n \in missed \/ t \notin chain[n]
Settled(t) == \E n \in 1..seen : n \notin missed /\ t \in chain[n]
Lapsed(t) == ValidUntil[t] \in since[t] + 1..seen /\ Unseen(t, since[t] + 1, ValidUntil[t])

(* Answers are true, of the blocks that were handled.  What makes this
   inductive: lifetimes are accounted for at their last block, and no handled
   block since a registration was taken has a transaction that still has its
   trigger. *)
TellsInv ==
  /\ \A t \in Tx : since[t] <= seen
  /\ \A n \in M!Blocks : \A t \in mortal_accounting[n] : ValidUntil[t] = n
  /\ \A t \in callbacks : Unseen(t, since[t] + 1, seen)
  /\ \A t \in Tx : listener[t] = "Ok" => Settled(t)
  /\ \A t \in Tx : listener[t] = "MortalLifetimeSurpassed" => Lapsed(t)
  /\ \A t \in Tx : listener[t] \in {"Closed", "Panicked"} => monitor = "dead"

LEMMA TellsInit == M!Init => TellsInv
<1> SUFFICES ASSUME M!Init PROVE TellsInv
  OBVIOUS
<1>1. /\ \A t \in Tx : since[t] = 0 /\ listener[t] = "none"
      /\ callbacks = {} /\ seen = 0
      /\ \A n \in M!Blocks : mortal_accounting[n] = {}
  BY DEF M!Init
<1> QED
  BY <1>1 DEF TellsInv

(* What is settled stays settled, and what blocks did not have they never
   will. *)
LEMMA BlocksStay ==
  ASSUME MonitorTypeOK, (MonitorStep /\ missed' = missed) \/ Misses
  PROVE  /\ seen \in Nat /\ seen' \in {seen, seen + 1}
         /\ \A n \in 1..seen : chain'[n] = chain[n] /\ (n \in missed' <=> n \in missed)
         /\ \A t \in Tx : Settled(t) => Settled(t)'
         /\ \A t \in Tx : since[t] = since'[t] /\ Lapsed(t) => Lapsed(t)'
<1>0. /\ chain \in Seq(SUBSET Tx) /\ Len(chain) \in Nat /\ seen \in 0..Len(chain)
      /\ seen \in Nat /\ ValidUntil \in [Tx -> Nat] /\ since \in [Tx -> 0..MaxBlocks]
      /\ MaxBlocks \in Nat
  BY MonitoredAssumption DEF MonitorTypeOK, M!TypeOK
<1>1. /\ seen' \in {seen, seen + 1}
      /\ missed' \in {missed, missed \cup {seen + 1}}
      /\ chain' = chain \/ \E txs \in SUBSET Tx : chain' = Append(chain, txs)
  BY DEF MonitorStep, M!Submit, M!RegisterListener, M!FinalizeBlock, M!RunnerEnds, M!TakeRequest,
         M!HandleFinalized, M!Die, M!monitorVars, mVars, Misses
<1>2. \A n \in 1..Len(chain) : chain'[n] = chain[n]
  <2>1. ASSUME NEW txs \in SUBSET Tx, chain' = Append(chain, txs), NEW n \in 1..Len(chain)
        PROVE  chain'[n] = chain[n]
    BY <1>0, <2>1
  <2> QED
    BY <1>1, <2>1
<1>3. \A n \in 1..seen : chain'[n] = chain[n] /\ (n \in missed' <=> n \in missed)
  BY <1>0, <1>1, <1>2
<1>4. \A t \in Tx : Settled(t) => Settled(t)'
  <2> SUFFICES ASSUME NEW t \in Tx, Settled(t) PROVE Settled(t)'
    OBVIOUS
  <2>1. PICK n \in 1..seen : n \notin missed /\ t \in chain[n]
    BY DEF Settled
  <2>2. n \in 1..seen' /\ n \notin missed' /\ t \in chain'[n]
    BY <2>1, <1>0, <1>1, <1>3
  <2> QED
    BY <2>2 DEF Settled
<1>5. \A t \in Tx : since[t] = since'[t] /\ Lapsed(t) => Lapsed(t)'
  <2> SUFFICES ASSUME NEW t \in Tx, since[t] = since'[t], Lapsed(t) PROVE Lapsed(t)'
    OBVIOUS
  <2>1. since[t] \in Nat /\ ValidUntil[t] \in Nat
    BY <1>0
  <2>2. ValidUntil[t] \in since[t] + 1..seen'
    BY <2>1, <1>0, <1>1 DEF Lapsed
  <2>3. \A n \in since[t] + 1..ValidUntil[t] : n \in 1..seen
    BY <2>1, <1>0 DEF Lapsed
  <2>4. \A n \in since[t] + 1..ValidUntil[t] : n \in missed' \/ t \notin chain'[n]
    BY <2>3, <1>3 DEF Lapsed, Unseen
  <2> QED
    BY <2>2, <2>4 DEF Lapsed, Unseen
<1> QED
  BY <1>0, <1>1, <1>3, <1>4, <1>5

LEMMA TellsStep ==
  ASSUME MonitorTypeOK, ListenerInv, TellsInv, (MonitorStep /\ missed' = missed) \/ Misses
  PROVE  TellsInv'
<1>0. /\ chain \in Seq(SUBSET Tx) /\ Len(chain) \in Nat
      /\ Len(chain) <= MaxBlocks /\ MaxBlocks \in Nat
      /\ seen \in 0..Len(chain) /\ seen \in Nat
      /\ listener \in [Tx -> M!ListenerState]
      /\ listener_request \in Seq(Tx)
      /\ callbacks \subseteq Tx
      /\ mortal_accounting \in [M!Blocks -> SUBSET Tx]
      /\ since \in [Tx -> 0..MaxBlocks]
      /\ ValidUntil \in [Tx -> Nat]
      /\ missed \subseteq 1..seen
  BY MonitoredAssumption DEF MonitorTypeOK, M!TypeOK
<1>01. /\ \A t \in Tx : since[t] <= seen /\ since[t] \in Nat
       /\ \A n \in M!Blocks : \A t \in mortal_accounting[n] : ValidUntil[t] = n
       /\ \A t \in callbacks : Unseen(t, since[t] + 1, seen)
       /\ \A t \in Tx : listener[t] = "Ok" => Settled(t)
       /\ \A t \in Tx : listener[t] = "MortalLifetimeSurpassed" => Lapsed(t)
       /\ \A t \in Tx : listener[t] \in {"Closed", "Panicked"} => monitor = "dead"
  BY <1>0 DEF TellsInv
<1>02. /\ seen' \in {seen, seen + 1}
       /\ \A n \in 1..seen : chain'[n] = chain[n] /\ (n \in missed' <=> n \in missed)
       /\ \A t \in Tx : Settled(t) => Settled(t)'
       /\ \A t \in Tx : since[t] = since'[t] /\ Lapsed(t) => Lapsed(t)'
  BY BlocksStay
(* What the blocks handled so far did not have they still do not. *)
<1>03. \A t \in Tx : Unseen(t, since[t] + 1, seen)
         => \A n \in since[t] + 1..seen : n \in missed' \/ t \notin chain'[n]
  <2> SUFFICES ASSUME NEW t \in Tx, Unseen(t, since[t] + 1, seen), NEW n \in since[t] + 1..seen
               PROVE  n \in missed' \/ t \notin chain'[n]
    OBVIOUS
  <2>1. n \in 1..seen
    BY <1>0, <1>01
  <2> QED
    BY <2>1, <1>02 DEF Unseen
(* A step that handles no block, takes no request and gives no answer but
   those of a monitor that is gone. *)
<1>04. ASSUME /\ seen' = seen /\ since' = since
              /\ callbacks' \subseteq callbacks /\ mortal_accounting' = mortal_accounting
              /\ monitor = "dead" => monitor' = "dead"
              /\ \A t \in Tx : \/ listener'[t] = listener[t]
                               \/ listener'[t] \notin M!Answers
                               \/ listener'[t] \in {"Closed", "Panicked"} /\ monitor' = "dead"
       PROVE  TellsInv'
  <2>1. \A t \in callbacks' : Unseen(t, since[t] + 1, seen)'
    BY <1>0, <1>01, <1>03, <1>04 DEF Unseen
  <2>2. \A t \in Tx : /\ listener'[t] = "Ok" => Settled(t)'
                      /\ listener'[t] = "MortalLifetimeSurpassed" => Lapsed(t)'
                      /\ listener'[t] \in {"Closed", "Panicked"} => monitor' = "dead"
    BY <1>01, <1>02, <1>04 DEF M!Answers
  <2> QED
    BY <2>1, <2>2, <1>01, <1>04 DEF TellsInv
<1>1. ASSUME NEW t \in Tx, M!Submit(t) PROVE TellsInv'
  <2>1. \A u \in Tx : listener'[u] = listener[u] \/ listener'[u] = "accepted"
    BY <1>0, <1>1 DEF M!Submit
  <2> QED
    BY <2>1, <1>1, <1>04 DEF M!Submit, M!monitorVars, M!Answers
<1>2. ASSUME NEW t \in Tx, M!RegisterListener(t) PROVE TellsInv'
  <2>1. \A u \in Tx : \/ listener'[u] = listener[u]
                      \/ listener'[u] = "waiting"
                      \/ listener'[u] = "Panicked" /\ monitor = "dead"
    BY <1>0, <1>2 DEF M!RegisterListener
  <2> QED
    BY <2>1, <1>2, <1>04 DEF M!RegisterListener, M!monitorVars, M!Answers
<1>3. ASSUME NEW txs \in SUBSET Tx, M!FinalizeBlock(txs) PROVE TellsInv'
  BY <1>3, <1>04 DEF M!FinalizeBlock, M!monitorVars
<1>4. CASE M!RunnerEnds
  <2>1. \A t \in Tx : listener'[t] = listener[t] \/ listener'[t] = "abandoned"
    BY <1>4 DEF M!RunnerEnds
  <2> QED
    BY <2>1, <1>4, <1>04 DEF M!RunnerEnds, M!monitorVars, M!Answers
<1>5. CASE M!TakeRequest
  <2> DEFINE head == Head(listener_request)
  <2>1. /\ listener_request # <<>> /\ listener' = listener /\ seen' = seen
        /\ callbacks' = callbacks \cup {head} /\ monitor' = monitor
        /\ mortal_accounting' =
             IF ValidUntil[head] = 0 THEN mortal_accounting
             ELSE [mortal_accounting EXCEPT ![ValidUntil[head]] = @ \cup {head}]
        /\ since' = [since EXCEPT ![head] = seen]
    BY <1>5 DEF M!TakeRequest
  <2>2. head \in Tx /\ head \in Range(listener_request)
    BY <2>1, <1>0, RangeTail DEF ListenerInv
  <2>3. listener[head] \in {"waiting", "abandoned"}
    BY <2>2 DEF ListenerInv, NoOrphanedListener
  <2> HIDE DEF head
  <2>4. since'[head] = seen /\ \A t \in Tx : t # head => since'[t] = since[t]
    BY <2>1, <2>2, <1>0
  <2>5. \A n \in M!Blocks : \A t \in mortal_accounting'[n] : ValidUntil[t] = n
    BY <2>1, <2>2, <1>0, <1>01
  <2>6. ASSUME NEW t \in callbacks' PROVE Unseen(t, since[t] + 1, seen)'
    <3>1. CASE t = head
      <4>1. since'[t] + 1..seen' = {}
        BY <3>1, <2>1, <2>4, <1>0
      <4> QED
        BY <4>1 DEF Unseen
    <3>2. CASE t # head
      BY <3>2, <2>1, <2>4, <1>0, <1>01, <1>03 DEF Unseen
    <3> QED
      BY <3>1, <3>2
  <2>7. \A t \in Tx : since'[t] <= seen'
    BY <2>1, <2>4, <1>0, <1>01
  <2>8. \A t \in Tx : /\ listener'[t] = "Ok" => Settled(t)'
                      /\ listener'[t] = "MortalLifetimeSurpassed" => Lapsed(t)'
                      /\ listener'[t] \in {"Closed", "Panicked"} => monitor' = "dead"
    BY <2>1, <2>3, <2>4, <1>01, <1>02
  <2> QED
    BY <2>5, <2>6, <2>7, <2>8 DEF TellsInv
<1>6. CASE M!HandleFinalized /\ missed' = missed
  <2> DEFINE n == seen + 1
  <2>1. /\ chain' = chain /\ since' = since /\ seen' = n /\ n \in 1..Len(chain) /\ monitor' = monitor
        /\ listener' = [t \in Tx |-> IF t \in M!Found(n) THEN "Ok"
                                    ELSE IF t \in M!Expired(n) THEN "MortalLifetimeSurpassed"
                                    ELSE listener[t]]
        /\ callbacks' = callbacks \ (M!Found(n) \cup M!Expired(n))
        /\ mortal_accounting' = [mortal_accounting EXCEPT ![n] = {}]
    BY <1>6, <1>0 DEF M!HandleFinalized, M!Untriggered
  <2>2. /\ M!Found(n) = callbacks \cap chain[n]
        /\ M!Expired(n) = (callbacks \cap mortal_accounting[n]) \ M!Found(n)
        /\ n \in M!Blocks /\ n \notin missed
    BY <2>1, <1>0 DEF M!Found, M!Expired, M!Blocks
  <2>3. \A t \in callbacks : t \notin chain[n] => Unseen(t, since[t] + 1, n)
    <3> SUFFICES ASSUME NEW t \in callbacks, t \notin chain[n], NEW i \in since[t] + 1..n
                 PROVE  i \in missed \/ t \notin chain[i]
      BY DEF Unseen
    <3>1. i = n \/ i \in since[t] + 1..seen
      BY <1>0, <1>01
    <3> QED
      BY <3>1, <1>01 DEF Unseen
  <2>4. \A t \in callbacks' : Unseen(t, since[t] + 1, seen)'
    BY <2>1, <2>2, <2>3, <1>6 DEF Unseen
  <2>5. \A m \in M!Blocks : \A t \in mortal_accounting'[m] : ValidUntil[t] = m
    BY <2>1, <1>0, <1>01
  <2>6. \A t \in Tx : since'[t] <= seen'
    BY <2>1, <1>0, <1>01
  <2>7. ASSUME NEW t \in Tx, listener'[t] = "Ok" PROVE Settled(t)'
    <3>1. CASE t \in M!Found(n)
      <4>1. n \in 1..seen' /\ n \notin missed' /\ t \in chain'[n]
        BY <3>1, <2>1, <2>2, <1>0, <1>6
      <4> QED
        BY <4>1 DEF Settled
    <3>2. CASE t \notin M!Found(n)
      BY <3>2, <2>1, <2>7, <1>01, <1>02
    <3> QED
      BY <3>1, <3>2
  <2>8. ASSUME NEW t \in Tx, listener'[t] = "MortalLifetimeSurpassed" PROVE Lapsed(t)'
    <3>1. CASE t \in M!Expired(n)
      <4>1. ValidUntil[t] = n /\ t \notin chain[n] /\ t \in callbacks
        BY <3>1, <2>2, <1>01
      <4>2. Unseen(t, since[t] + 1, n)
        BY <4>1, <2>3
      <4>3. ValidUntil[t] \in since'[t] + 1..seen'
        BY <4>1, <2>1, <1>0, <1>01
      <4>4. Unseen(t, since[t] + 1, ValidUntil[t])'
        BY <4>1, <4>2, <2>1, <1>6 DEF Unseen
      <4> QED
        BY <4>3, <4>4, <2>1 DEF Lapsed
    <3>2. CASE t \notin M!Expired(n)
      <4>1. listener[t] = "MortalLifetimeSurpassed"
        BY <3>2, <2>1, <2>8
      <4> QED
        BY <4>1, <2>1, <1>01, <1>02
    <3> QED
      BY <3>1, <3>2
  <2>9. \A t \in Tx : listener'[t] \in {"Closed", "Panicked"} => monitor' = "dead"
    BY <2>1, <1>01
  <2> QED
    BY <2>4, <2>5, <2>6, <2>7, <2>8, <2>9 DEF TellsInv
<1>7. CASE M!Die
  <2>1. /\ \A t \in Tx : listener'[t] = listener[t] \/ listener'[t] = "Closed"
        /\ callbacks' \subseteq callbacks /\ monitor' = "dead"
    BY <1>7 DEF M!Die
  <2>2. seen' = seen /\ since' = since /\ mortal_accounting' = mortal_accounting
    BY <1>7 DEF M!Die
  <2> QED
    BY <2>1, <2>2, <1>04
<1>8. CASE Misses
  <2>1. /\ seen' = seen + 1 /\ missed' = missed \cup {seen + 1}
        /\ UNCHANGED <<chain, listener, callbacks, mortal_accounting, monitor, since>>
    BY <1>8 DEF Misses
  <2>2. ASSUME NEW t \in callbacks' PROVE Unseen(t, since[t] + 1, seen)'
    <3> SUFFICES ASSUME NEW i \in since[t] + 1..seen' PROVE i \in missed' \/ t \notin chain'[i]
      BY <2>1 DEF Unseen
    <3>1. i = seen + 1 \/ i \in since[t] + 1..seen
      BY <2>1, <1>0, <1>01
    <3> QED
      BY <3>1, <2>1, <1>0, <1>01, <1>03
  <2>3. \A t \in Tx : since'[t] <= seen'
    BY <2>1, <1>0, <1>01
  <2> QED
    BY <2>1, <2>2, <2>3, <1>01, <1>02 DEF TellsInv
<1>9. CASE UNCHANGED mVars
  BY <1>9, <1>04 DEF mVars
<1> QED
  BY <1>1, <1>2, <1>3, <1>4, <1>5, <1>6, <1>7, <1>8, <1>9 DEF MonitorStep, Misses

-------------------------------------------------------------------------------
(* The two sides together. *)

(* What a log says its listener held, and a submission has one result before
   its answer comes. *)
LogsInv ==
  \A t \in Tx :
    /\ t \in Fresh => ~Logged(t, "SubmitOk") /\ ~Logged(t, "SubmitErr")
    /\ ~Logged(t, "Finalized")
    /\ Logged(t, "FinalizedMonitor") => listener[t] = "Ok"
    /\ Logged(t, "MortalDroppedMonitor") => listener[t] = "MortalLifetimeSurpassed"
    /\ Logged(t, "SubmitOk") /\ Logged(t, "SubmitErr") => listener[t] = "Closed"

LEMMA LogsInit == Init => LogsInv
<1> SUFFICES ASSUME Init, NEW t \in Tx, NEW f PROVE ~Logged(t, f)
  BY DEF LogsInv
<1>1. events[t] = <<>>
  BY DEF Init, LogInit
<1> QED
  BY <1>1 DEF Logged

(* An answer is never taken back. *)
LEMMA AnswersStay ==
  ASSUME MonitorTypeOK, ListenerInv, MonitorStep \/ Misses,
         NEW t \in Tx, listener[t] \in M!Answers
  PROVE  listener'[t] = listener[t]
<1>0. listener \in [Tx -> M!ListenerState] /\ callbacks \subseteq Tx
  BY DEF MonitorTypeOK, M!TypeOK
<1>1. listener[t] \notin {"none", "accepted", "waiting", "abandoned"}
  BY DEF M!Answers
<1>2. t \notin callbacks
  BY <1>1 DEF ListenerInv, NoOrphanedListener
<1>3. ASSUME NEW u \in Tx, M!Submit(u) \/ M!RegisterListener(u) PROVE listener'[t] = listener[t]
  <2>1. u # t /\ \E what : listener' = [listener EXCEPT ![u] = what]
    BY <1>1, <1>3 DEF M!Submit, M!RegisterListener
  <2> QED
    BY <2>1, <1>0
<1>4. CASE M!HandleFinalized
  BY <1>2, <1>4 DEF M!HandleFinalized, M!Found, M!Expired
<1> QED
  BY <1>1, <1>3, <1>4
  DEF MonitorStep, Misses, M!FinalizeBlock, M!RunnerEnds, M!TakeRequest, M!Die, mVars

LEMMA LogsStep ==
  ASSUME PlaceInv, MonitorTypeOK, ListenerInv, LogsInv, [MonitoredNext]_monitoredVars
  PROVE  LogsInv'
<1>0. LogTypeOK /\ Fresh' \subseteq Fresh
  BY RunWrites DEF PlaceInv, TypeOK
<1>1. \A t \in Tx : listener[t] \in M!Answers => listener'[t] = listener[t]
  BY MonitorMoves, AnswersStay
<1>2. {"Ok", "MortalLifetimeSurpassed", "Closed"} \subseteq M!Answers
  BY DEF M!Answers
<1>3. CASE UNCHANGED events
  <2>1. \A t \in Tx, f \in ExecutionEvent : Logged(t, f)' <=> Logged(t, f)
    BY <1>3 DEF Logged
  <2> QED
    BY <1>0, <1>1, <1>2, <2>1 DEF LogsInv, ExecutionEvent, TransactionStatus
<1>4. ASSUME NEW t \in Tx, NEW e \in ExecutionEvent, Writes(t, e) PROVE LogsInv'
  <2>1. \A u \in Tx, f \in ExecutionEvent : Logged(u, f)' <=> Logged(u, f) \/ (u = t /\ f = e)
    BY <1>0, <1>4, LoggedPush DEF Writes
  <2>2. ASSUME NEW u \in Tx, u # t
        PROVE  /\ u \in Fresh' => ~Logged(u, "SubmitOk")' /\ ~Logged(u, "SubmitErr")'
               /\ ~Logged(u, "Finalized")'
               /\ Logged(u, "FinalizedMonitor")' => listener'[u] = "Ok"
               /\ Logged(u, "MortalDroppedMonitor")' => listener'[u] = "MortalLifetimeSurpassed"
               /\ Logged(u, "SubmitOk")' /\ Logged(u, "SubmitErr")' => listener'[u] = "Closed"
    <3>1. \A f \in ExecutionEvent : Logged(u, f)' <=> Logged(u, f)
      BY <2>1, <2>2
    <3> QED
      BY <1>0, <1>1, <1>2, <3>1 DEF LogsInv, ExecutionEvent, TransactionStatus
  <2>3. /\ t \in Fresh' => ~Logged(t, "SubmitOk")' /\ ~Logged(t, "SubmitErr")'
        /\ ~Logged(t, "Finalized")'
        /\ Logged(t, "FinalizedMonitor")' => listener'[t] = "Ok"
        /\ Logged(t, "MortalDroppedMonitor")' => listener'[t] = "MortalLifetimeSurpassed"
        /\ Logged(t, "SubmitOk")' /\ Logged(t, "SubmitErr")' => listener'[t] = "Closed"
    <3>1. \A f \in ExecutionEvent : Logged(t, f)' <=> Logged(t, f) \/ f = e
      BY <2>1
    <3>2. {"SubmitOk", "SubmitErr", "Finalized", "FinalizedMonitor", "MortalDroppedMonitor"}
            \subseteq ExecutionEvent
      BY DEF ExecutionEvent, TransactionStatus
    <3>3. CASE e \in {"Popped", "Sent"}
      BY <1>0, <1>1, <1>2, <3>1, <3>2, <3>3 DEF LogsInv
    <3>4. CASE e \in {"SubmitOk", "SubmitErr"} /\ t \in Fresh /\ t \notin Fresh'
      BY <1>1, <1>2, <3>1, <3>2, <3>4 DEF LogsInv
    <3>5. CASE e = "FinalizedMonitor" /\ listener[t] = "Ok"
      BY <1>0, <1>1, <1>2, <3>1, <3>2, <3>5 DEF LogsInv
    <3>6. CASE e = "MortalDroppedMonitor" /\ listener[t] = "MortalLifetimeSurpassed"
      BY <1>0, <1>1, <1>2, <3>1, <3>2, <3>6 DEF LogsInv
    <3>7. CASE e = "SubmitErr" /\ listener[t] = "Closed" /\ t \notin Fresh
      BY <1>0, <1>1, <1>2, <3>1, <3>2, <3>7 DEF LogsInv
    <3> QED
      BY <1>4, <3>3, <3>4, <3>5, <3>6, <3>7 DEF Writes
  <2> QED
    BY <2>2, <2>3 DEF LogsInv
<1> QED
  BY <1>3, <1>4, RunWrites

(* Everything that is invariant on both sides. *)
MonitoredInv ==
  PlaceInv /\ OutcomeMatchesLog /\ MonitorTypeOK /\ ListenerInv /\ TellsInv /\ LogsInv

LEMMA MonitoredInvariant == MonitoredSpec => []MonitoredInv
<1>1. MonitoredInit => MonitorTypeOK /\ ListenerInv /\ TellsInv /\ LogsInv
  BY MonitorTypeInit, ListenerInit, TellsInit, LogsInit DEF MonitoredInit
<1>2. /\ PlaceInv /\ MonitorTypeOK /\ ListenerInv /\ TellsInv /\ LogsInv
      /\ [MonitoredNext]_monitoredVars
      => (MonitorTypeOK /\ ListenerInv /\ TellsInv /\ LogsInv)'
  BY MonitorMoves, MonitorTypeStep, ListenerStep, TellsStep, LogsStep
<1>3. MonitoredSpec => []PlaceInv /\ []OutcomeMatchesLog
  BY MonitoredRunImplementsRunner, PlaceInvariant, OutcomesAreTrue, PTL
<1> QED
  BY <1>1, <1>2, <1>3, PTL DEF MonitoredSpec, MonitoredInv

(* What a run records of a transaction is what became of it on the chain, as
   far as the monitor heard of the chain: a success is in a finalized block it
   handled, an ended lifetime in none it handled since the registration, and
   a second result of a submission comes of a monitor that is gone
   (runner.rs:149-170 with block_monitor.rs:64-72, 110-141, 160-163). *)
THEOREM RecordsAreTrue == MonitoredSpec => []OutcomeTrue
<1>1. MonitoredInv => OutcomeTrue
  <2> SUFFICES ASSUME MonitoredInv, NEW t \in Tx
               PROVE  /\ CountedDone(t) => Settled(t)
                      /\ Logged(t, "MortalDroppedMonitor") => Lapsed(t)
                      /\ Logged(t, "SubmitOk") /\ Logged(t, "SubmitErr") => monitor = "dead"
    BY DEF OutcomeTrue, Settled, Lapsed, Unseen
  <2>1. CountedDone(t) => Logged(t, "FinalizedMonitor")
    BY MonitoredAssumption DEF MonitoredInv, OutcomeMatchesLog, Succeeded, LogsInv
  <2> QED
    BY <2>1 DEF MonitoredInv, LogsInv, TellsInv
<1> QED
  BY <1>1, MonitoredInvariant, PTL

(* As long as the monitor lives the counters are exact and the run goes on. *)
AliveInv == monitor = "running" => BufferInv /\ pc # "panicked"

LEMMA AliveStep ==
  ASSUME "rpc_fails" \notin Environment,
         MonitoredInv, AliveInv, [MonitoredNext]_monitoredVars
  PROVE  AliveInv'
<1> SUFFICES ASSUME monitor' = "running" PROVE BufferInv' /\ pc' # "panicked"
  BY DEF AliveInv
<1>1. monitor = "running"
  BY MonitorMoves
  DEF MonitorStep, M!Submit, M!RegisterListener, M!FinalizeBlock, M!RunnerEnds, M!TakeRequest,
      M!HandleFinalized, M!Die, M!monitorVars, mVars, Misses
<1>2. PlaceInv /\ BufferInv /\ pc # "panicked" /\ \A t \in Tx : listener[t] # "Closed"
  BY <1>1 DEF AliveInv, MonitoredInv, TellsInv
<1>3. ASSUME NEW t \in Tx, TaskMoves(t) PROVE BufferInv' /\ pc' # "panicked"
  <2>1. \/ Send(t) \/ Register(t) \/ MonitorFinalized(t) \/ MonitorMortalDropped(t)
        \/ \E ok \in BOOLEAN : SubmitReturns(t, ok)
    BY <1>1, <1>2, <1>3 DEF TaskMoves, RunnerAlone, Accepted, RegisterAtMonitor, AnswerArrives
  <2>2. OneResultStep(t)
    BY <2>1 DEF OneResultStep
  <2>3. pc' # "panicked"
    BY <2>1 DEF Send, Register, MonitorFinalized, MonitorMortalDropped, SubmitReturns, AtSelect, Await,
                Finish, BeginConsume
  <2> QED
    BY <1>2, <2>2, <2>3, BufferTaskStep
<1>4. CASE RunnerAlone(Consume \/ Tick \/ TimeoutReached)
  <2>1. ~(Unanswered < 0)
    <3>1. Unanswered = Cardinality(Unsubmitted) /\ Cardinality(Unsubmitted) \in Nat
      BY <1>2, FiniteParts DEF BufferInv, Unsubmitted
    <3> QED
      BY <3>1
  <2>2. pc' # "panicked"
    <3>1. ASSUME NEW n \in PendingCounts, PendingExtrinsics(n) PROVE pc' = "pop"
      BY <2>1, <3>1 DEF PendingExtrinsics
    <3>2. ASSUME Pop \/ StartLoop \/ LapEnds PROVE pc' # "panicked"
      BY <1>2, <3>2 DEF Pop, StartLoop, LapEnds
    <3>3. ASSUME Tick \/ TimeoutReached PROVE pc' # "panicked"
      BY <3>3 DEF Tick, BeginConsume, TimeoutReached, Break
    <3> QED
      BY <1>4, <3>1, <3>2, <3>3 DEF RunnerAlone, Consume, PendingFails
  <2> QED
    BY <1>2, <1>4, <2>2, BufferRunStep DEF RunnerAlone
<1>5. CASE RunnerAlone(Stop \/ AllFuturesDone) \/ RunnerAlone(StopSignal)
  <2>1. pc' # "panicked"
    BY <1>2, <1>5 DEF RunnerAlone, Stop, AllFuturesDone, StopSignal, Break
  <2> QED
    BY <1>2, <1>5, <2>1, BufferRunStep DEF RunnerAlone
<1>6. CASE \/ TasksDropped \/ TakesRequest \/ TakesBlock \/ BlockBodyFails \/ ItemIsError
           \/ SubscriptionEnds \/ Finalizes \/ MonitoredOver \/ UNCHANGED monitoredVars
  <2>1. UNCHANGED vars
    BY <1>6 DEF TasksDropped, TakesRequest, TakesBlock, BlockBodyFails, ItemIsError,
                SubscriptionEnds, Finalizes, MonitoredOver, monitoredVars
  <2>2. UNCHANGED pc
    BY <2>1 DEF vars, runVars
  <2> QED
    BY <1>2, <2>1, <2>2, BufferRunStep
<1> QED
  BY <1>3, <1>4, <1>5, <1>6 DEF MonitoredNext

(* Where no RPC of the run fails, only a monitor that is gone unwinds it: the
   overflow of Counters::buffered and the unwrap of a closed channel both need
   one, and a full channel, an error in place of a block or the end of the
   subscription do not (block_monitor.rs:105, 160-178; execution_log.rs:117-123). *)
THEOREM OnlyADeadMonitorUnwinds ==
  ASSUME "rpc_fails" \notin Environment
  PROVE  MonitoredSpec => []PanicMeansMonitorDead
<1>1. MonitoredInit => AliveInv
  BY BufferInit DEF MonitoredInit, Init, AliveInv
<1>2. MonitoredInv /\ AliveInv /\ [MonitoredNext]_monitoredVars => AliveInv'
  BY AliveStep
<1>3. MonitoredInv /\ AliveInv => PanicMeansMonitorDead
  BY DEF AliveInv, PanicMeansMonitorDead, MonitoredInv, MonitorTypeOK, M!TypeOK
<1> QED
  BY <1>1, <1>2, <1>3, MonitoredInvariant, PTL DEF MonitoredSpec
===============================================================================
