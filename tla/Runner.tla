-------------------------------- MODULE Runner --------------------------------
(***************************************************************************)
(* src/runner.rs: Runner::run, the tasks it drives (DefaultTxTask) and the *)
(* logs they write, against the most general TransactionsSink: every call  *)
(* to the sink may answer anything its signature allows.                   *)
(*                                                                         *)
(* run() and all the tasks are one tokio task: a task's future is polled   *)
(* only by workers.next() in the select!, so it makes no step while the    *)
(* runner is inside consume_pending.                                       *)
(***************************************************************************)
EXTENDS ExecutionLog, Functions

CONSTANTS
  Batch,          \* the Vec given to Runner::new; its last element goes first
  Watched,        \* the transactions whose task is new_watched
  SendThreshold,  \* send_threshold; UsizeMax means no throttling
  Timeout,        \* the timeout in whole 3000 ms ticks, or NoTimeout
  NoTimeout,      \* timeout: None
  HasMonitor,     \* the sink has a transaction_monitor
  PendingCounts,  \* answers of pending_extrinsics
  Reported,       \* the statuses the sink streams
  MaxStatuses,    \* bound: statuses streamed for one transaction
  Environment     \* what may happen around the run, see below

(* "ctrl_c"         a stop request is sent
   "sender_dropped" the stop Sender is dropped before run() starts
   "rpc_fails"      pending_extrinsics or a status stream fails: both unwrap
   "monitor_dies"   the block monitor's task ends
   "debug_build"    arithmetic overflow panics                              *)
ASSUME RunnerAssumption ==
  /\ IsFiniteSet(Tx)
  /\ Batch \in Seq(Tx)
  /\ Range(Batch) = Tx
  /\ IsInjective(Batch)
  /\ Watched \subseteq Tx
  /\ Cardinality(Tx) <= UsizeMax
  /\ SendThreshold \in 0..UsizeMax
  /\ NoTimeout \notin Nat
  /\ Timeout \in Nat \cup {NoTimeout}
  /\ HasMonitor \in BOOLEAN
  /\ PendingCounts \subseteq Nat
  /\ Reported \subseteq TransactionStatus
  /\ MaxStatuses \in Nat
  /\ Environment \subseteq {"ctrl_c", "sender_dropped", "rpc_fails",
                            "monitor_dies", "debug_build"}

VARIABLES
  pc,            \* where run() is
  transactions,  \* the transactions not popped yet
  workers,       \* the FuturesUnordered: what each task is waiting for
  done, errors,  \* the outcomes recorded so far
  result,        \* what workers.next() yielded, until it is recorded
  to_consume,    \* iterations left of the popping loop
  timeout,       \* ticks left before the timeout
  stop_rx        \* stop requests in the channel(1)

runVars == <<pc, transactions, workers, done, errors, result, to_consume,
             timeout, stop_rx>>
vars == <<runVars, logVars>>

-------------------------------------------------------------------------------
(* The task of a transaction: not in workers ("none"), pushed but not polled,
   waiting for the answer to its submission, for the next status of its
   stream, for room in the block monitor's channel, or for its answer. *)
WorkerState ==
  {"none", "pushed", "submitting", "watching", "registering", "waiting"}
InWorkers == {t \in Tx : workers[t] # "none"}

ExecutionResult == [kind : {"Done", "Error"}, hash : Tx]
NoResult == [kind |-> "None"]

Ended   == {"timeout", "stopped", "completed"}   \* run() returned the logs
Running == {"fill", "select", "query", "pop"}

(* Mutant: a plain subtraction. *)
SaturatingSub_Plain(a, b) == a - b

SaturatingSub(a, b) == IF a > b THEN a - b ELSE 0

Init ==
  /\ LogInit
  /\ pc = "fill"
  /\ transactions = Batch
  /\ workers = [t \in Tx |-> "none"]
  /\ done = <<>>
  /\ errors = <<>>
  /\ result = NoResult
  /\ to_consume = SendThreshold
  /\ timeout = Timeout
  /\ stop_rx = 0

-------------------------------------------------------------------------------
(* The popping loop, of the initial fill and of consume_pending. *)

(* Mutant: takes the front of the Vec. *)
Pop_FromFront ==
  /\ pc \in {"fill", "pop"}
  /\ to_consume > 0
  /\ transactions # <<>>
  /\ push_event(Head(transactions), "Popped")
  /\ workers' = [workers EXCEPT ![Head(transactions)] = "pushed"]
  /\ transactions' = Tail(transactions)
  /\ to_consume' = to_consume - 1
  /\ UNCHANGED <<pc, done, errors, result, timeout, stop_rx>>

Pop ==
  /\ pc \in {"fill", "pop"}
  /\ to_consume > 0
  /\ transactions # <<>>
  /\ LET t == transactions[Len(transactions)] IN
       /\ push_event(t, "Popped")
       /\ workers' = [workers EXCEPT ![t] = "pushed"]
  /\ transactions' = SubSeq(transactions, 1, Len(transactions) - 1)
  /\ to_consume' = to_consume - 1
  /\ UNCHANGED <<pc, done, errors, result, timeout, stop_rx>>

LoopOver == to_consume = 0 \/ transactions = <<>>

StartLoop ==
  /\ pc = "fill"
  /\ LoopOver
  /\ pc' = "select"
  /\ UNCHANGED <<logVars, transactions, workers, done, errors, result,
                 to_consume, timeout, stop_rx>>

(* Mutant: the timeout starts again in every lap. *)
Remaining_Restarted(ticks) == {timeout}

(* The remaining timeout after a lap that took at least that many ticks. *)
Remaining(ticks) ==
  IF timeout = NoTimeout THEN {NoTimeout} ELSE 0..SaturatingSub(timeout, ticks)

(* consume_pending returns: the result that opened the lap is recorded, and
   the time the lap took is taken off the timeout. *)
LapEnds ==
  /\ pc = "pop"
  /\ LoopOver
  /\ done' = IF result.kind = "Done" THEN Append(done, result.hash) ELSE done
  /\ errors' = IF result.kind = "Error" THEN Append(errors, result.hash) ELSE errors
  /\ result' = NoResult
  /\ timeout' \in Remaining(IF result = NoResult THEN 1 ELSE 0)
  /\ pc' = "select"
  /\ UNCHANGED <<logVars, transactions, workers, to_consume, stop_rx>>

-------------------------------------------------------------------------------
(* consume_pending up to its loop. *)

BeginConsume ==
  IF SendThreshold = UsizeMax
  THEN pc' = "pop" /\ to_consume' = UsizeMax
  ELSE pc' = "query" /\ UNCHANGED to_consume

(* Mutant: only what the node knows is taken off the threshold. *)
Shortfall_IgnoringBuffered(n) == SaturatingSub(SendThreshold, n)

Shortfall(n) == SaturatingSub(SaturatingSub(SendThreshold, n), buffered)

(* Unanswered < 0 is the overflow of Counters::buffered. *)
PendingExtrinsics(n) ==
  /\ pc = "query"
  /\ IF Unanswered < 0 /\ "debug_build" \in Environment
     THEN pc' = "panicked" /\ UNCHANGED to_consume
     ELSE /\ to_consume' = Shortfall(n)
          /\ pc' = "pop"
  /\ UNCHANGED <<logVars, transactions, workers, done, errors, result, timeout,
                 stop_rx>>

Panic ==
  /\ pc' = "panicked"
  /\ UNCHANGED <<logVars, transactions, workers, done, errors, result,
                 to_consume, timeout, stop_rx>>

PendingFails ==
  /\ "rpc_fails" \in Environment
  /\ pc = "query"
  /\ Panic

-------------------------------------------------------------------------------
(* The branches of the select!. *)

(* The 3000 ms sleep ends before sleep(timeout) does: a whole tick is left. *)
Tick ==
  /\ pc = "select"
  /\ timeout # 0
  /\ BeginConsume
  /\ UNCHANGED <<logVars, transactions, workers, done, errors, result, timeout,
                 stop_rx>>

(* Leaving the loop saves the journal and prints the statistics. *)
Break(reason) ==
  /\ pc = "select"
  /\ pc' = reason
  /\ UNCHANGED <<logVars, transactions, workers, done, errors, result,
                 to_consume, timeout>>

TimeoutReached == timeout = 0 /\ Break("timeout") /\ UNCHANGED stop_rx

(* Mutant: the request is received and the loop goes on. *)
Stop_Ignored ==
  /\ stop_rx > 0
  /\ pc = "select"
  /\ stop_rx' = 0
  /\ UNCHANGED <<logVars, pc, transactions, workers, done, errors, result,
                 to_consume, timeout>>

(* recv() is also ready, with None, once the Sender is gone. *)
Stop ==
  /\ stop_rx > 0 \/ "sender_dropped" \in Environment
  /\ Break("stopped")
  /\ stop_rx' = SaturatingSub(stop_rx, 1)

AllFuturesDone == InWorkers = {} /\ Break("completed") /\ UNCHANGED stop_rx

(* A task returns: workers.next() yields it and the lap's consume_pending
   begins. *)
Finish(t, kind) ==
  /\ workers' = [workers EXCEPT ![t] = "none"]
  /\ result' = [kind |-> kind, hash |-> t]
  /\ BeginConsume
  /\ UNCHANGED <<transactions, done, errors, timeout, stop_rx>>

(* A task goes on waiting, for something else. *)
Await(t, what) ==
  /\ workers' = [workers EXCEPT ![t] = what]
  /\ UNCHANGED <<pc, transactions, done, errors, result, to_consume, timeout,
                 stop_rx>>

AtSelect(t, state) == pc = "select" /\ workers[t] = state

-------------------------------------------------------------------------------
(* The steps of a task. *)

Send(t) ==
  /\ AtSelect(t, "pushed")
  /\ push_event(t, "Sent")
  /\ Await(t, "submitting")

WatchReturns(t, ok) ==
  /\ AtSelect(t, "submitting")
  /\ t \in Watched
  /\ push_event(t, IF ok THEN "WatchOk" ELSE "WatchErr")
  /\ IF ok THEN Await(t, "watching") ELSE Finish(t, "Error")

SubmitReturns(t, ok) ==
  /\ AtSelect(t, "submitting")
  /\ t \notin Watched
  /\ push_event(t, IF ok THEN "SubmitOk" ELSE "SubmitErr")
  /\ IF ok /\ HasMonitor
     THEN Await(t, "registering")
     ELSE Finish(t, IF ok THEN "Done" ELSE "Error")

StreamNext(t, status) ==
  /\ AtSelect(t, "watching")
  /\ Len(events[t]) < 3 + MaxStatuses
  /\ push_event(t, status)
  /\ IF is_finalized(status) THEN Finish(t, "Done")
     ELSE IF is_error(status) THEN Finish(t, "Error")
     ELSE Await(t, "watching")

(* Mutant: the task ends without a result. *)
StreamEnds_Silently(t) ==
  /\ AtSelect(t, "watching")
  /\ UNCHANGED logVars
  /\ Await(t, "none")

(* "shall not happen to be here, return error" *)
StreamEnds(t) ==
  /\ AtSelect(t, "watching")
  /\ UNCHANGED logVars
  /\ Finish(t, "Error")

StreamFails(t) ==
  /\ "rpc_fails" \in Environment
  /\ AtSelect(t, "watching")
  /\ Panic

Register(t) ==
  /\ AtSelect(t, "registering")
  /\ UNCHANGED logVars
  /\ Await(t, "waiting")

(* The monitor is gone: send().await.unwrap(). *)
RegisterFails(t) ==
  /\ "monitor_dies" \in Environment
  /\ AtSelect(t, "registering")
  /\ Panic

MonitorFinalized(t) ==
  /\ AtSelect(t, "waiting")
  /\ push_event(t, "FinalizedMonitor")
  /\ Finish(t, "Done")

MonitorMortalDropped(t) ==
  /\ AtSelect(t, "waiting")
  /\ push_event(t, "MortalDroppedMonitor")
  /\ Finish(t, "Error")

(* Mutant: whatever the monitor says counts as done. *)
MonitorClosed_Done(t) ==
  /\ "monitor_dies" \in Environment
  /\ AtSelect(t, "waiting")
  /\ push_event(t, "SubmitErr")
  /\ Finish(t, "Done")

(* The listener's channel is closed: a second result of the submission. *)
MonitorClosed(t) ==
  /\ "monitor_dies" \in Environment
  /\ AtSelect(t, "waiting")
  /\ push_event(t, "SubmitErr")
  /\ Finish(t, "Error")

-------------------------------------------------------------------------------
(* The ctrl-c handler of src/scenario.rs; a second one waits for room in the
   channel. *)
StopSignal ==
  /\ "ctrl_c" \in Environment
  /\ stop_rx = 0
  /\ pc \in Running
  /\ stop_rx' = 1
  /\ UNCHANGED <<logVars, pc, transactions, workers, done, errors, result,
                 to_consume, timeout>>

TaskStep(t) ==
  \/ Send(t)
  \/ \E ok \in BOOLEAN : WatchReturns(t, ok) \/ SubmitReturns(t, ok)
  \/ \E status \in Reported : StreamNext(t, status)
  \/ StreamEnds(t)
  \/ StreamFails(t)
  \/ Register(t)
  \/ RegisterFails(t)
  \/ MonitorFinalized(t)
  \/ MonitorMortalDropped(t)
  \/ MonitorClosed(t)

Consume ==
  \/ Pop
  \/ StartLoop
  \/ LapEnds
  \/ \E n \in PendingCounts : PendingExtrinsics(n)
  \/ PendingFails

(* run() has returned or unwound. *)
Over == pc \notin Running /\ UNCHANGED vars

Next ==
  \/ Consume
  \/ \E t \in Tx : TaskStep(t)
  \/ Tick
  \/ TimeoutReached
  \/ Stop
  \/ AllFuturesDone
  \/ StopSignal
  \/ Over

Spec == Init /\ [][Next]_vars

(* The runner's own code is always scheduled and its timers fire; the count
   of pending extrinsics is answered (the RPC client gives up on a request
   after a while); the select! polls its branches in random order, so a stop
   request that is ready again and again is taken.  A sender that is gone may
   end the run, but is not assumed to.  Nothing is assumed of the answers to
   submissions, of the streams and of the monitor. *)
Fairness ==
  /\ WF_vars(Consume)
  /\ WF_vars(Tick \/ TimeoutReached)
  /\ SF_vars(stop_rx > 0 /\ Stop)
  /\ WF_vars(AllFuturesDone)
  /\ \A t \in Tx : WF_vars(Send(t))

FairSpec == Spec /\ Fairness

-------------------------------------------------------------------------------
(***************************************************************************)
(* Properties.                                                             *)
(***************************************************************************)

RunTypeOK ==
  /\ pc \in Running \cup Ended \cup {"panicked"}
  /\ transactions \in Seq(Tx)
  /\ workers \in [Tx -> WorkerState]
  /\ done \in Seq(Tx)
  /\ errors \in Seq(Tx)
  /\ result \in ExecutionResult \cup {NoResult}
  /\ to_consume \in 0..UsizeMax
  /\ timeout \in Nat \cup {NoTimeout}
  /\ stop_rx \in 0..1

(* Every variable stays in its type: to_consume stays a usize whatever the
   node answers, and the outcomes are transactions of the batch. *)
TypeOK == LogTypeOK /\ RunTypeOK

Queued   == Range(transactions)
Yielded  == {t \in Tx : result # NoResult /\ result.hash = t}
Recorded == Range(done) \cup Range(errors)

(* Every transaction of the batch is in exactly one place: the queue, the
   workers, the result of the current lap, done or errors.  None is dropped
   and none is sent or recorded twice, whatever the sink answers and in
   whatever order tasks, ticks and laps interleave (runner.rs:267-272,
   292-305, 387-403). *)
ExactlyOnce ==
  /\ Queued \cup InWorkers \cup Yielded \cup Recorded = Tx
  /\ Len(transactions) + Cardinality(InWorkers) + Cardinality(Yielded)
       + Len(done) + Len(errors) = Cardinality(Tx)

(* What makes ExactlyOnce inductive: the places are disjoint, and a result is
   pending only while the lap it opened consumes. *)
PlacesDisjoint ==
  /\ IsInjective(transactions)
  /\ Queued \cap (InWorkers \cup Yielded \cup Recorded) = {}
  /\ InWorkers \cap (Yielded \cup Recorded) = {}
  /\ Yielded \cap Recorded = {}
  /\ Range(done) \cap Range(errors) = {}
  /\ pc \in {"fill", "select"} => result = NoResult

PlaceInv == TypeOK /\ PlacesDisjoint /\ ExactlyOnce

Unsubmitted == {t \in Tx : workers[t] \in {"pushed", "submitting"}}

(* Counters::buffered, computed from five shared counters, is the number of
   transactions popped whose submission is not answered yet, at every point
   where consume_pending may read it: it never underflows
   (execution_log.rs:117-123, runner.rs:282-285). *)
BufferedExact == buffered = Cardinality(Unsubmitted)

(* No more than send_threshold submissions are ever without an answer: the
   laps top up what is missing and never overshoot, though each of them adds
   to what earlier laps left unanswered (runner.rs:282-287, 360). *)
UnsubmittedWithinThreshold == Cardinality(Unsubmitted) <= SendThreshold

(* The inductive form of the two properties above: while the loop runs, what
   it may still pop fits under the threshold. *)
BufferInv ==
  /\ Unanswered = Cardinality(Unsubmitted)
  /\ UnsubmittedWithinThreshold
  /\ pc \in {"fill", "pop"} /\ SendThreshold # UsizeMax /\ to_consume > 0
       => to_consume + Cardinality(Unsubmitted) <= SendThreshold

Succeeded(t) ==
  \/ Logged(t, "Finalized")
  \/ Logged(t, "FinalizedMonitor")
  \/ t \notin Watched /\ ~HasMonitor /\ Logged(t, "SubmitOk")

CountedDone(t) == t \in Range(done) \/ (t \in Yielded /\ result.kind = "Done")

(* What run() files under done is what the logs show to have succeeded: a
   finalized status, the monitor's answer, or an accepted submission nobody
   follows; a transaction in flight or filed under errors shows no success
   (runner.rs:106-179, 393-401 against execution_log.rs:312-325). *)
OutcomeMatchesLog == \A t \in Tx : Succeeded(t) <=> CountedDone(t)

(* Without a threshold the whole batch is popped before run() can find its
   workers drained: completing means nothing is left (runner.rs:360, 405-410). *)
UnlimitedDrainsBatch == pc \in {"select", "completed"} => transactions = <<>>

(* Its inductive form: the popping loop has room for all that is queued, and
   no count is asked for. *)
UnlimitedInv ==
  /\ pc \in {"fill", "pop"} => Len(transactions) <= to_consume
  /\ pc # "query"
  /\ UnlimitedDrainsBatch

OutcomeOf(t) ==
  IF t \in Range(done) THEN "Done"
  ELSE IF t \in Range(errors) THEN "Error"
  ELSE "none"

(* run() implements the abstract batch: launches in batch order from its end,
   one outcome each, nothing after the end.  A panic ends the run, too. *)
Promise == INSTANCE TxBatch WITH
  queued  <- transactions,
  active  <- InWorkers \cup Yielded,
  outcome <- [t \in Tx |-> OutcomeOf(t)],
  ended   <- pc \notin Running

ImplementsTxBatch == Promise!Spec

(* "ensuring the executor returns with logs if the duration is reached"
   (scenario.rs:413-417): what a configured timeout is said to guarantee. *)
TimeoutReturnsLogs == timeout # NoTimeout ~> pc \in Ended

(* With a timeout configured run() comes to an end, with its logs or, if the
   node or the monitor fails it, by unwinding: every lap rebuilds the timeout
   from what is left of it, and nothing is assumed of submissions, streams and
   monitor (runner.rs:374-382, 416). *)
TimeoutEndsRun == timeout # NoTimeout ~> pc \in Ended \cup {"panicked"}

(* A stop request is never swallowed: the run stops for it, or has ended for
   another reason before it was read, while tasks, ticks and the timeout compete
   with it for the select! (runner.rs:374-386). *)
StopEndsRun ==
  stop_rx > 0 ~> pc \in {"stopped", "panicked"} \/ (pc \in Ended /\ stop_rx > 0)
===============================================================================
