----------------------------- MODULE ExecutionLog -----------------------------
(***************************************************************************)
(* src/execution_log.rs and the statuses of src/transaction.rs: one        *)
(* append-only log of events per transaction, and the counters every log   *)
(* of a run shares.  Time stamps, hashes inside events and error texts are *)
(* left out: an event is its kind, a Result carried by an event is Ok/Err. *)
(***************************************************************************)
EXTENDS Integers, Sequences, FiniteSets

CONSTANTS
  Tx,         \* transactions, identified by their hash
  UsizeMax    \* usize::MAX

ASSUME UsizeMaxAssumption == UsizeMax \in Nat \ {0}

VARIABLES
  events,         \* TransactionExecutionLog.events, per transaction
  total_counters  \* Arc<Counters>, shared by all logs

logVars == <<events, total_counters>>

-------------------------------------------------------------------------------
(* Statuses a watched submission streams. *)
TransactionStatus ==
  {"Validated", "Broadcasted", "InBlock", "NoLongerInBestBlock",
   "Finalized", "Dropped", "Invalid", "Error"}

is_finalized(s) == s = "Finalized"
is_error(s)     == s \in {"Dropped", "Invalid", "Error"}
is_terminal(s)  == is_finalized(s) \/ is_error(s)

(* SubmitResult and SubmitAndWatchResult are split on the Result they carry;
   Resubmitted is never constructed. *)
ExecutionEvent ==
  {"Popped", "Sent", "SubmitOk", "SubmitErr", "WatchOk", "WatchErr",
   "FinalizedMonitor", "MortalDroppedMonitor"} \cup TransactionStatus

(* One AtomicUsize for each kind of event that is counted. *)
Counter == ExecutionEvent \ {"NoLongerInBestBlock"}

LogInit ==
  /\ events = [t \in Tx |-> <<>>]
  /\ total_counters = [c \in Counter |-> 0]

-------------------------------------------------------------------------------
in_blocks(t) == {i \in DOMAIN events[t] : events[t][i] = "InBlock"}

count_event(e) ==
  total_counters' = IF e \in Counter THEN [total_counters EXCEPT ![e] = @ + 1]
                                     ELSE total_counters

(* Mutant: every InBlock is counted. *)
push_event_EveryInBlock(t, e) ==
  /\ count_event(e)
  /\ events' = [events EXCEPT ![t] = Append(@, e)]

(* Only the first InBlock of a transaction is counted. *)
push_event(t, e) ==
  /\ IF e = "InBlock" => in_blocks(t) = {}
     THEN count_event(e)
     ELSE UNCHANGED total_counters
  /\ events' = [events EXCEPT ![t] = Append(@, e)]

(* Mutant: a refused submission stays counted as unanswered. *)
Unanswered_WithoutErrors ==
  total_counters["Popped"] - total_counters["WatchOk"] - total_counters["SubmitOk"]

(* Counters::buffered subtracts in usize: an overflow-checked build panics
   when the difference is negative, any other build wraps it. *)
Unanswered ==
  total_counters["Popped"]
    - (total_counters["WatchOk"] + total_counters["WatchErr"])
    - (total_counters["SubmitOk"] + total_counters["SubmitErr"])

buffered == IF Unanswered >= 0 THEN Unanswered ELSE Unanswered % (UsizeMax + 1)

-------------------------------------------------------------------------------
LogTypeOK ==
  /\ events \in [Tx -> Seq(ExecutionEvent)]
  /\ total_counters \in [Counter -> Nat]

Logged(t, e) == \E i \in DOMAIN events[t] : events[t][i] = e

(* Occurrences of e in all the logs, InBlock counted once per transaction. *)
Occurrences(e) ==
  IF e = "InBlock"
  THEN Cardinality({t \in Tx : Logged(t, e)})
  ELSE Cardinality(UNION {{<<t, i>> : i \in {j \in DOMAIN events[t] : events[t][j] = e}}
                           : t \in Tx})

(* The statistics line prints the shared counters: they must say what the
   logs say, transaction by transaction (push_event counts before it appends,
   and counts InBlock only once: execution_log.rs:314-323). *)
CountersMatchLogs == \A c \in Counter : total_counters[c] = Occurrences(c)
===============================================================================
