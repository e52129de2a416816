-------------------------------- MODULE FakeRun --------------------------------
(***************************************************************************)
(* The runner against FakeTransactionsSink (src/fake_transaction_sink.rs), *)
(* the sink of the crate's tests: every transaction brings the statuses    *)
(* that will be played for it (src/fake_transaction.rs).  Delays are left  *)
(* out: an event may come at any time.                                     *)
(***************************************************************************)
EXTENDS Runner, SequencesExt

CONSTANT StreamDefs  \* stream_def of each transaction: a list of streams

(* Statuses are all there is to an event. *)
new_finalizable ==
  <<"Broadcasted", "Validated", "InBlock", "InBlock", "InBlock", "Finalized">>
new_droppable == <<"Dropped">>
new_inblock_then_droppable_2nd_success ==
  << <<"Broadcasted", "Validated", "InBlock", "InBlock", "InBlock", "Dropped">>,
     new_finalizable>>
new_droppable_2nd_success == <<new_droppable, new_finalizable>>

(* current_stream_def starts at 0 and nothing advances it: what follows the
   first stream is never played. *)
get_current_stream_def(t) == StreamDefs[t][1]

(* submit_result is todo!() for a stream whose last status is not terminal.
   What the sink answers and plays is among what the runner has to expect. *)
ASSUME FakeAssumption ==
  /\ StreamDefs \in [Tx -> Seq(Seq(TransactionStatus))]
  /\ 0..Cardinality(Tx) \subseteq PendingCounts
  /\ \A t \in Tx :
       /\ StreamDefs[t] # <<>>
       /\ get_current_stream_def(t) \in Seq(Reported)
       /\ Len(get_current_stream_def(t)) <= MaxStatuses
       /\ t \notin Watched =>
            /\ get_current_stream_def(t) # <<>>
            /\ is_terminal(Last(get_current_stream_def(t)))
  /\ ~HasMonitor

VARIABLE txs  \* the hashes the sink is processing

fakeVars == <<vars, txs>>

FakeInit == Init /\ txs = {}

-------------------------------------------------------------------------------
(* submit_and_watch awaits nothing: it returns its stream in the poll that
   called it, before run() looks at anything else. *)
Subscribing == \E t \in Watched : workers[t] = "submitting"

FakeSend(t) ==
  /\ ~Subscribing
  /\ Send(t)
  /\ txs' = txs \cup {t}

Subscribe(t) == WatchReturns(t, TRUE) /\ UNCHANGED txs

(* Mutant: the first event of the stream decides. *)
submit_result_First(t) == is_finalized(Head(get_current_stream_def(t)))

submit_result(t) == is_finalized(Last(get_current_stream_def(t)))

Submitted(t) ==
  /\ ~Subscribing
  /\ SubmitReturns(t, submit_result(t))
  /\ txs' = txs \ {t}

(* Events played so far; the log also holds Popped, Sent and WatchOk. *)
Played(t) == Len(events[t]) - 3

next_event(t) == get_current_stream_def(t)[Played(t) + 1]

(* Mutant: only a finalized transaction leaves the sink. *)
TxsAfter_Finalized(t, event) == IF is_finalized(event) THEN txs \ {t} ELSE txs

TxsAfter(t, event) == IF is_terminal(event) THEN txs \ {t} ELSE txs

Play(t) ==
  /\ ~Subscribing
  /\ AtSelect(t, "watching")
  /\ Played(t) < Len(get_current_stream_def(t))
  /\ StreamNext(t, next_event(t))
  /\ txs' = TxsAfter(t, next_event(t))

(* Mutant: a stream that is over stays pending. *)
PlayEnds_Pending(t) ==
  /\ AtSelect(t, "watching")
  /\ Played(t) = Len(get_current_stream_def(t))
  /\ UNCHANGED fakeVars

(* A stream without a terminal event ends: its hash stays in txs. *)
PlayEnds(t) ==
  /\ ~Subscribing
  /\ AtSelect(t, "watching")
  /\ Played(t) = Len(get_current_stream_def(t))
  /\ StreamEnds(t)
  /\ UNCHANGED txs

Polled(t) == FakeSend(t) \/ Subscribe(t) \/ Submitted(t) \/ Play(t) \/ PlayEnds(t)

-------------------------------------------------------------------------------
pending_extrinsics == PendingExtrinsics(Cardinality(txs)) /\ UNCHANGED txs

PopLoop == (Pop \/ StartLoop \/ LapEnds) /\ UNCHANGED txs

FakeConsume == pending_extrinsics \/ PopLoop

FakeTick == ~Subscribing /\ Tick /\ UNCHANGED txs

FakeEnd ==
  /\ ~Subscribing
  /\ (TimeoutReached \/ Stop)
  /\ UNCHANGED txs

FakeAllDone == AllFuturesDone /\ UNCHANGED txs

FakeStopSignal == StopSignal /\ UNCHANGED txs

FakeOver == Over /\ UNCHANGED txs

FakeNext ==
  \/ \E t \in Tx : Polled(t)
  \/ FakeConsume
  \/ FakeTick
  \/ FakeEnd
  \/ FakeAllDone
  \/ FakeStopSignal
  \/ FakeOver

FakeSpec == FakeInit /\ [][FakeNext]_fakeVars

(* Every delay passes, and a task that is ready is polled although laps keep
   interrupting the select!, whose branches are polled in random order.
   Neither a timeout nor a stop request is needed for the run to end. *)
FakeFairness ==
  /\ WF_fakeVars(FakeConsume)
  /\ SF_fakeVars(FakeAllDone)
  /\ \A t \in Tx : SF_fakeVars(Polled(t))

FakeFairSpec == FakeSpec /\ FakeFairness

-------------------------------------------------------------------------------
(* Properties. *)

(* The last event that is played for t: its first terminal one, or none. *)
Script(t)    == get_current_stream_def(t)
Endless(t)   == \A i \in DOMAIN Script(t) : ~is_terminal(Script(t)[i])
Verdict(t)   ==
  IF Endless(t) THEN "Error"
  ELSE Script(t)[CHOOSE i \in DOMAIN Script(t) :
                   /\ is_terminal(Script(t)[i])
                   /\ \A j \in 1..(i - 1) : ~is_terminal(Script(t)[j])]
(* A script that says one thing: what is terminal is the last status. *)
OneVerdict ==
  \A t \in Tx \ Watched : \A i \in DOMAIN Script(t) :
    is_terminal(Script(t)[i]) => i = Len(Script(t))
Leaked == {t \in Watched : Endless(t) /\ t \in Yielded \cup Recorded}

(* pending_extrinsics counts the transactions the sink is working on, and
   those whose stream ended without a terminal event: insertion, removal by
   the stream and removal by submit never disagree with where the tasks are
   (fake_transaction_sink.rs:36-60). *)
TxsExact ==
  txs = {t \in Tx : workers[t] \in {"submitting", "watching"}} \cup Leaked

(* With the sink's exact count the threshold bounds everything in flight,
   queued tasks included (runner.rs:281-287 against
   fake_transaction_sink.rs:62-64). *)
InFlightWithinThreshold == Cardinality(InWorkers) <= SendThreshold

(* Against this sink a run that finds no task in flight has sent its batch,
   unless leaked hashes fill the threshold: the count never includes what
   has just finished (runner.rs:391, 405-410). *)
FakeDrainsBatch ==
  pc = "completed" /\ transactions # <<>> => Cardinality(Leaked) >= SendThreshold

(* A transaction is filed as its stream decides, whether its task is watched
   and plays the events or is not and waits for the last of them
   (fake_transaction.rs:293-334, runner.rs:106-179, 393-401). *)
OutcomeFollowsStream ==
  \A t \in Recorded : t \in Range(done) <=> is_finalized(Verdict(t))

(* Streams are finite, so a run ends by itself: ticks, laps and the other
   tasks starve nobody (runner.rs:373-413). *)
FakeRunEnds == <>(pc \in Ended)
===============================================================================
