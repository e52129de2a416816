----------------------------- MODULE MonitoredRun -----------------------------
(***************************************************************************)
(* A run whose transactions are followed by the block monitor: the tasks   *)
(* of Runner and the monitor's task of BlockMonitor, two tokio tasks that  *)
(* meet at the channel of registrations and at a oneshot per transaction.  *)
(* Here the subscription to finalized blocks may fail, too: an item that   *)
(* is an error, and the end of the stream, do not match the pattern        *)
(* Some(Ok(block)) of the monitor's select!, which goes on without.        *)
(***************************************************************************)
EXTENDS Runner

CONSTANTS
  ValidUntil,          \* as in BlockMonitor
  MaxBlocks,           \* bound: finalized blocks
  Capacity,            \* capacity of the channel of registrations
  MonitorEnvironment,  \* what may happen around the monitor
  MaxMissed            \* bound: items of the subscription that are errors

ASSUME MonitoredAssumption ==
  /\ HasMonitor /\ Watched = {}
  /\ "monitor_dies" \in Environment
  /\ ValidUntil \in [Tx -> Nat]
  /\ MaxBlocks \in Nat
  /\ Capacity \in Nat \ {0}
  /\ MonitorEnvironment \subseteq {"block_fails", "runner_ends"}
  /\ MaxMissed \in Nat

VARIABLES
  chain, seen, listener, listener_request, callbacks, mortal_accounting,
  monitor, since,        \* as in BlockMonitor
  finalized_blocks_sub,  \* the subscription: "open" or "ended"
  missed                 \* history: the blocks an error stood for

M == INSTANCE BlockMonitor WITH Environment <- MonitorEnvironment

mVars == <<chain, seen, listener, listener_request, callbacks, mortal_accounting, monitor, since>>
subVars == <<finalized_blocks_sub, missed>>
monitoredVars == <<vars, mVars, subVars>>

MonitoredInit ==
  /\ Init /\ M!Init
  /\ finalized_blocks_sub = "open"
  /\ missed = {}

-------------------------------------------------------------------------------
(* The runner by itself. *)
RunnerAlone(A) == A /\ UNCHANGED <<mVars, subVars>>

(* Where a task and the monitor meet. *)
Accepted(t) == SubmitReturns(t, TRUE) /\ M!Submit(t) /\ UNCHANGED subVars

(* Mutant: a full channel is taken for a closed one. *)
RegisterAtMonitor_TrySend(t) ==
  /\ IF monitor = "dead" \/ Len(listener_request) = Capacity
     THEN RegisterFails(t) /\ listener' = [listener EXCEPT ![t] = "Panicked"] /\ UNCHANGED listener_request
     ELSE Register(t) /\ listener' = [listener EXCEPT ![t] = "waiting"]
          /\ listener_request' = Append(listener_request, t)
  /\ UNCHANGED <<chain, seen, callbacks, mortal_accounting, monitor, since, subVars>>

RegisterAtMonitor(t) ==
  /\ IF monitor = "dead" THEN RegisterFails(t) ELSE Register(t)
  /\ M!RegisterListener(t)
  /\ UNCHANGED subVars

(* wait() returns what the oneshot holds, when the task is polled. *)
AnswerArrives(t) ==
  /\ \/ listener[t] = "Ok" /\ MonitorFinalized(t)
     \/ listener[t] = "MortalLifetimeSurpassed" /\ MonitorMortalDropped(t)
     \/ listener[t] = "Closed" /\ MonitorClosed(t)
  /\ UNCHANGED <<mVars, subVars>>

(* run() returned or unwound: its futures are dropped. *)
TasksDropped == pc \notin Running /\ M!RunnerEnds /\ UNCHANGED <<vars, subVars>>

-------------------------------------------------------------------------------
(* The monitor and the chain. *)

TakesRequest == M!TakeRequest /\ UNCHANGED <<vars, subVars>>

TakesBlock ==
  /\ finalized_blocks_sub = "open"
  /\ M!HandleFinalized \/ M!HandleFinalizedPanics
  /\ UNCHANGED <<vars, subVars>>

BlockBodyFails == M!HandleFails /\ UNCHANGED <<vars, subVars>>

(* An error in a block's place: the branch is disabled for this select!, and
   the block is never handled. *)
ItemIsError ==
  /\ finalized_blocks_sub = "open"
  /\ monitor = "running"
  /\ seen < Len(chain)
  /\ Cardinality(missed) < MaxMissed
  /\ seen' = seen + 1
  /\ missed' = missed \cup {seen + 1}
  /\ UNCHANGED <<chain, listener, listener_request, callbacks, mortal_accounting,
                 monitor, since, finalized_blocks_sub, vars>>

(* The stream ends: next() is None from now on, the monitor keeps taking
   registrations. *)
SubscriptionEnds ==
  /\ MaxMissed > 0
  /\ finalized_blocks_sub = "open"
  /\ monitor = "running"
  /\ finalized_blocks_sub' = "ended"
  /\ UNCHANGED <<vars, mVars, missed>>

Finalizes ==
  /\ \E txs \in SUBSET M!Includable : M!FinalizeBlock(txs)
  /\ UNCHANGED <<vars, subVars>>

MonitoredOver == pc \notin Running /\ Len(chain) = MaxBlocks /\ UNCHANGED monitoredVars

TaskMoves(t) ==
  \/ RunnerAlone(Send(t) \/ SubmitReturns(t, FALSE))
  \/ Accepted(t)
  \/ RegisterAtMonitor(t)
  \/ AnswerArrives(t)

MonitoredNext ==
  \/ RunnerAlone(Consume \/ Tick \/ TimeoutReached)
  \/ RunnerAlone(Stop \/ AllFuturesDone)
  \/ RunnerAlone(StopSignal)
  \/ \E t \in Tx : TaskMoves(t)
  \/ TasksDropped
  \/ TakesRequest \/ TakesBlock \/ BlockBodyFails
  \/ ItemIsError \/ SubscriptionEnds
  \/ Finalizes
  \/ MonitoredOver

MonitoredSpec == MonitoredInit /\ [][MonitoredNext]_monitoredVars

(* Both tokio tasks are scheduled and submissions are answered (the RPC client
   gives up on a request after a while); the select! polls its branches in
   random order, so what is ready again and again is taken; the chain goes on
   finalizing.  As tasks and blocks are finitely many, fairness of the
   disjunction leaves none of them behind. *)
MonitoredFairSpec ==
  /\ MonitoredSpec
  /\ WF_monitoredVars(RunnerAlone(Consume \/ Tick \/ TimeoutReached))
  /\ SF_monitoredVars(RunnerAlone(Stop \/ AllFuturesDone))
  /\ SF_monitoredVars(\E t \in Tx : TaskMoves(t))
  /\ WF_monitoredVars(TakesRequest \/ TakesBlock)
  /\ WF_monitoredVars(Finalizes)

-------------------------------------------------------------------------------
(* Properties. *)

(* What the run records is what became of the transaction: a success is in a
   finalized block the monitor handled; an ended lifetime means that none of
   the blocks it handled since the registration has the transaction; and a
   submission with two results means that the monitor is gone
   (runner.rs:149-170 with block_monitor.rs:64-72, 110-141, 160-163). *)
OutcomeTrue ==
  \A t \in Tx :
    /\ CountedDone(t) => \E n \in 1..seen : n \notin missed /\ t \in chain[n]
    /\ Logged(t, "MortalDroppedMonitor") =>
         /\ ValidUntil[t] \in since[t] + 1..seen
         /\ \A n \in since[t] + 1..ValidUntil[t] : n \in missed \/ t \notin chain[n]
    /\ Logged(t, "SubmitOk") /\ Logged(t, "SubmitErr") => monitor = "dead"

(* Only a monitor that is gone unwinds the run: a full channel makes a task
   wait, a subscription that ends or errs does not show in the run at all
   (block_monitor.rs:105, 160-178). *)
PanicMeansMonitorDead == pc = "panicked" => monitor = "dead"

(* The monitor hears every block, and takes a registration before it handles
   the last block of the transaction's lifetime. *)
Heard == finalized_blocks_sub = "open" /\ missed = {}
InTime == \A t \in callbacks : since[t] < ValidUntil[t]

(* With a monitor that hears every block and gets every registration in time,
   a run of mortal transactions ends by itself; nothing else ends it, without
   a timeout and a stop request (runner.rs:149-170, 405-410 with
   block_monitor.rs:110-141, 160-163). *)
HeardRunEnds == [](Heard /\ InTime) => <>(pc \notin Running)
===============================================================================
