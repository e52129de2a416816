------------------------------- MODULE RunReport -------------------------------
(***************************************************************************)
(* What a run leaves behind: the time stamps of its events, the journal    *)
(* that run() saves and the statistics it prints before it returns its     *)
(* logs (end of Runner::run in src/runner.rs), and the command that loads  *)
(* a journal again (src/execution_log.rs, LoadLog in src/bin/main.rs).     *)
(* Stamps are read from the wall clock, which may be set back.  Another    *)
(* executor in the same directory saves a journal of its own.              *)
(***************************************************************************)
EXTENDS Runner, SequencesExt

CONSTANTS
  MaxClock,  \* bound: seconds on the wall clock
  Namings,   \* what names this run's journal and the other executor's: pairs
  None,      \* an Option that is not set
  Mishaps    \* what may happen to the report, see below

(* "clock_set_back"  the wall clock is set back
   "disk_fails"      the journal cannot be created, or not be written
   "killed"          the process is killed after the loop of run() *)
ASSUME ReportAssumption ==
  /\ MaxClock \in Nat
  /\ \A pair \in Namings : \A k \in 1..2 :
       DOMAIN pair[k] = {"base_dir_path", "log_file_name", "executor_id"}
  /\ Mishaps \subseteq {"clock_set_back", "disk_fails", "killed"}

VARIABLES
  clock,      \* SystemTime::now()
  set_back,   \* history: the clock was set back
  stamps,     \* the stamp of each event, per transaction
  naming,     \* the pair of Namings of this execution
  phase,      \* what run() does once its loop is left
  path,       \* this run's journal file, <<>> before it is created
  other,      \* how far the other executor is with its journal
  file,       \* what is in this run's journal file
  journal,    \* the logs this run wrote into it
  printed     \* the statistics run() printed: <<>> or <<report>>

clockVars  == <<clock, set_back, stamps>>
fileVars   == <<path, other, file, journal>>
reportVars == <<clockVars, naming, phase, fileVars, printed>>
allVars    == <<vars, reportVars>>

NotRunning == {"returned", "unwound", "save_failed", "killed"}

ReportInit ==
  /\ Init
  /\ clock = 0
  /\ set_back = FALSE
  /\ stamps = [t \in Tx |-> <<>>]
  /\ naming \in Namings
  /\ phase = "running"
  /\ path = <<>>
  /\ other = "before"
  /\ file = "absent"
  /\ journal = <<>>
  /\ printed = <<>>

-------------------------------------------------------------------------------
(* The wall clock: what the next reading may be.  It is set back once. *)
Readings ==
  {s \in 0..MaxClock : \/ s \in {clock, clock + 1}
                       \/ s < clock /\ "clock_set_back" \in Mishaps /\ ~set_back}

(* Mutant: a log keeps one stamp. *)
Stamped_Last ==
  [t \in Tx |-> IF events'[t] = events[t] THEN stamps[t] ELSE <<clock'>>]

(* Every event is constructed with SystemTime::now(). *)
Stamped ==
  [t \in Tx |-> IF events'[t] = events[t] THEN stamps[t] ELSE Append(stamps[t], clock')]

(* A step of the run. *)
RunStep ==
  /\ \/ Consume
     \/ \E t \in Tx : TaskStep(t)
     \/ Tick \/ TimeoutReached \/ Stop \/ AllFuturesDone \/ StopSignal
  /\ IF events' = events
     THEN UNCHANGED clockVars
     ELSE /\ clock' \in Readings
          /\ set_back' = (set_back \/ clock' < clock)
          /\ stamps' = Stamped
  /\ UNCHANGED <<naming, phase, fileVars, printed>>

-------------------------------------------------------------------------------
(* What the statistics read of the logs, l = [events, stamps]. *)
Logs == [events |-> events, stamps |-> stamps]

(* The statistics on times to an event, and the events they look for. *)
Stat == [dropped           |-> {"Dropped"},
         error             |-> {"Error"},
         invalid           |-> {"Invalid"},
         result            |-> {"SubmitOk", "SubmitErr", "WatchOk", "WatchErr"},
         validated         |-> {"Validated"},
         broadcasted       |-> {"Broadcasted"},
         in_block          |-> {"InBlock"},
         finalized         |-> {"Finalized"},
         finalized_monitor |-> {"FinalizedMonitor"},
         dropped_monitor   |-> {"MortalDroppedMonitor"}]

(* Where the first event of some kinds is, 0 if there is none. *)
find(l, t, kinds) == SelectInSeq(l.events[t], LAMBDA e : e \in kinds)

is_sent(l, t) == find(l, t, {"Sent"}) # 0
is_some(l, t, stat) == is_sent(l, t) /\ find(l, t, Stat[stat]) # 0

(* Mutant: the operands are swapped. *)
time_to_Swapped(l, t, stat) ==
  l.stamps[t][find(l, t, {"Sent"})] - l.stamps[t][find(l, t, Stat[stat])]

(* The time from the submission to the first such event, if is_some. *)
time_to(l, t, stat) ==
  l.stamps[t][find(l, t, Stat[stat])] - l.stamps[t][find(l, t, {"Sent"})]

(* A time that cannot be computed panics: "time goes forward." *)
Panics(l, stats) == \E t \in Tx, s \in stats : is_some(l, t, s) /\ time_to(l, t, s) < 0

(* Mutant: a time of zero counts like no time. *)
Measured_NonZero(l, stat) == {t \in Tx : is_some(l, t, stat) /\ time_to(l, t, stat) # 0}

Measured(l, stat) == {t \in Tx : is_some(l, t, stat)}

(* Mean and quantile are left out. *)
single_stat(l, stat) ==
  LET times == {time_to(l, t, stat) : t \in Measured(l, stat)}
  IN [count |-> Cardinality(Measured(l, stat)),
      min   |-> IF times = {} THEN 0 ELSE Min(times),
      max   |-> IF times = {} THEN 0 ELSE Max(times)]

(* The failures whose reasons are listed, and how many reasons there are. *)
Failure == {"Dropped", "Error", "Invalid", "SubmitErr", "WatchErr"}
failure_reason_stats(l, e) ==
  MapThenSumSet(LAMBDA t : Cardinality({i \in DOMAIN l.events[t] : l.events[t][i] = e}), Tx)

(* How often each sequence of statuses occurs among the submitted. *)
inpool_events(l, t) == SelectSeq(l.events[t], LAMBDA e : e \in TransactionStatus)
timeline(l) ==
  LET submitted == {t \in Tx : is_sent(l, t)}
  IN [s \in {inpool_events(l, t) : t \in submitted} |->
        Cardinality({t \in submitted : inpool_events(l, t) = s})]

make_stats(l) ==
  [total_recorded_count |-> Cardinality(Tx),
   times    |-> [s \in DOMAIN Stat |-> single_stat(l, s)],
   failures |-> [e \in Failure |-> failure_reason_stats(l, e)],
   timeline |-> timeline(l)]

CsvColumn == {"finalized", "result", "validated", "broadcasted", "in_block",
              "finalized_monitor"}

(* Mutant: what took no time did not happen. *)
CsvEntry_ZeroIsNone(l, t) ==
  LET time(c) == IF is_some(l, t, c) THEN time_to(l, t, c) ELSE 0
  IN [finalized |-> time("finalized") > 0,
      in_block  |-> time("in_block") > 0,
      time_to   |-> [c \in CsvColumn |-> time(c)]]

(* A row of the CSV file; a time that is None is written as 0. *)
CsvEntry(l, t) ==
  [finalized |-> is_some(l, t, "finalized"),
   in_block  |-> is_some(l, t, "in_block"),
   time_to   |-> [c \in CsvColumn |-> IF is_some(l, t, c) THEN time_to(l, t, c) ELSE 0]]

-------------------------------------------------------------------------------
(* The end of run(). *)

(* Mutant: the executor is not named. *)
log_file_path_Anonymous(n, second) ==
  <<n.base_dir_path, IF n.base_dir_path # None THEN n.log_file_name ELSE None, None, second>>

(* A prefix counts only with a directory, an executor's id only without the
   two of them. *)
log_file_path(n, second) ==
  IF n.base_dir_path # None /\ n.log_file_name # None
  THEN <<n.base_dir_path, n.log_file_name, None, second>>
  ELSE <<n.base_dir_path, None, n.executor_id, second>>

Ending(from, to) ==
  /\ phase = from
  /\ phase' = to
  /\ UNCHANGED <<vars, clockVars, naming>>

(* save_logs: the path is made of the time at the end of the run, and what is
   there is truncated. *)
CreateJournal ==
  /\ pc \in Ended
  /\ Ending("running", "writing")
  /\ \E second \in Readings : path' = log_file_path(naming[1], second)
  /\ file' = "empty"
  /\ UNCHANGED <<other, journal, printed>>

(* Each of two open files is written from its beginning: the longer text shows
   behind the shorter one. *)
Overwritten(mine, theirs) == IF file = theirs THEN {mine, "broken"} ELSE {mine}

WriteJournal ==
  /\ Ending("writing", "stats")
  /\ file' \in Overwritten("own", "other")
  /\ journal' = <<Logs>>
  /\ UNCHANGED <<path, other, printed>>

MakeStats ==
  /\ IF Panics(Logs, DOMAIN Stat)
     THEN Ending("stats", "unwound") /\ UNCHANGED printed
     ELSE Ending("stats", "returned") /\ printed' = <<make_stats(Logs)>>
  /\ UNCHANGED fileVars

(* The unwraps of save_logs. *)
SaveFails ==
  /\ "disk_fails" \in Mishaps
  /\ \/ pc \in Ended /\ Ending("running", "save_failed") /\ UNCHANGED file
     \/ Ending("writing", "save_failed") /\ file' \in {file, "broken"}
  /\ UNCHANGED <<path, other, journal, printed>>

Kill ==
  /\ "killed" \in Mishaps
  /\ \/ Ending("writing", "killed") /\ file' \in {file, "broken"}
     \/ Ending("stats", "killed") /\ UNCHANGED file
  /\ UNCHANGED <<path, other, journal, printed>>

-------------------------------------------------------------------------------
(* The other executor saves its journal, too.  What it created before this run
   creates its file would be truncated then. *)

OtherCreates ==
  /\ path # <<>>
  /\ other = "before"
  /\ \E second \in Readings :
       IF log_file_path(naming[2], second) = path
       THEN other' = "writing" /\ file' = "empty"
       ELSE other' = "elsewhere" /\ UNCHANGED file
  /\ UNCHANGED <<vars, clockVars, naming, phase, path, journal, printed>>

OtherWrites ==
  /\ other = "writing"
  /\ other' = "over"
  /\ file' \in Overwritten("other", "own")
  /\ UNCHANGED <<vars, clockVars, naming, phase, path, journal, printed>>

-------------------------------------------------------------------------------
(* What LoadLog makes of the file: the CSV rows first, then the statistics. *)
LoadLog ==
  LET l == journal[1]
      rows == IF Panics(l, CsvColumn) THEN <<>> ELSE [t \in Tx |-> CsvEntry(l, t)]
  IN IF file = "other" THEN [outcome |-> "foreign", csv |-> <<>>, stats |-> <<>>]
     ELSE IF file # "own" THEN [outcome |-> "panicked", csv |-> <<>>, stats |-> <<>>]
     ELSE IF Panics(l, DOMAIN Stat)
     THEN [outcome |-> "panicked", csv |-> rows, stats |-> <<>>]
     ELSE [outcome |-> "printed", csv |-> rows, stats |-> <<make_stats(l)>>]

-------------------------------------------------------------------------------
(* The process is gone, or has unwound before the journal. *)
ReportOver ==
  /\ phase \in NotRunning \/ pc = "panicked"
  /\ UNCHANGED allVars

ReportNext ==
  \/ RunStep
  \/ CreateJournal
  \/ WriteJournal
  \/ MakeStats
  \/ SaveFails
  \/ Kill
  \/ OtherCreates
  \/ OtherWrites
  \/ ReportOver

ReportSpec == ReportInit /\ [][ReportNext]_allVars

-------------------------------------------------------------------------------
(* Properties. *)

(* Every variable stays in its type; an event has one stamp. *)
ReportTypeOK ==
  /\ TypeOK
  /\ clock \in 0..MaxClock
  /\ set_back \in BOOLEAN
  /\ stamps \in [Tx -> Seq(0..MaxClock)]
  /\ \A t \in Tx : Len(stamps[t]) = Len(events[t])
  /\ naming \in Namings
  /\ phase \in {"running", "writing", "stats"} \cup NotRunning
  /\ other \in {"before", "elsewhere", "writing", "over"}
  /\ file \in {"absent", "empty", "own", "other", "broken"}
  /\ Len(journal) <= 1 /\ Len(printed) <= 1

(* The statistics run() prints agree with the counters of its statistics line,
   though they are computed from the logs, in three ways: transactions by their
   first event of a kind, reasons by every event, the timeline by whole
   sequences of statuses; and whoever has no result is still unanswered.  A
   status a stream may repeat without ending is counted each time and measured
   once, so of Validated and Broadcasted there may be fewer transactions than
   the line says, and never more
   (execution_log.rs:312-325, 516-615 against 137-161, 117-124). *)
SummaryAgrees ==
  \A r \in Range(printed) :
    LET count(stat) == r.times[stat].count IN
      /\ r.total_recorded_count = Len(transactions) + total_counters["Popped"]
      /\ count("result") + buffered = total_counters["Popped"]
      /\ count("in_block") = total_counters["InBlock"]
      /\ count("finalized") = total_counters["Finalized"]
      /\ count("finalized_monitor") = total_counters["FinalizedMonitor"]
      /\ count("dropped_monitor") = total_counters["MortalDroppedMonitor"]
      /\ count("validated") <= total_counters["Validated"]
      /\ count("broadcasted") <= total_counters["Broadcasted"]
      /\ count("dropped") = r.failures["Dropped"]
      /\ \A e \in Failure : r.failures[e] = total_counters[e]
      /\ SumFunction(r.timeline) = total_counters["Sent"]

(* Executors told apart by their ids, unless this one's journal is named by a
   prefix in a directory. *)
Distinguished ==
  /\ naming[1].executor_id # naming[2].executor_id
  /\ naming[1].base_dir_path = None \/ naming[1].log_file_name = None

(* Once saved, the journal keeps the logs run() returns or dies with, whatever
   happens to the statistics, at whatever time, on a clock that may be set back,
   another executor saves (runner.rs:317-335, 419-422). *)
JournalSurvives ==
  phase \in {"stats", "returned", "unwound"} /\ Distinguished
    => file = "own" /\ journal = <<Logs>>

Rows(csv, column) == {t \in DOMAIN csv : csv[t][column]}

(* LoadLog tells of a run what the run told: the same statistics, as many
   finalized and included rows in the CSV file, and a panic where the run
   panicked; of a run that was killed it tells nothing or what the run would
   have (execution_log.rs:658-689, main.rs:196-212). *)
LoadTellsTheSame ==
  phase \in NotRunning /\ Distinguished =>
    CASE phase = "returned" ->
           LET load == LoadLog IN
             /\ load.stats = printed
             /\ \A column \in {"finalized", "in_block"} :
                  Cardinality(Rows(load.csv, column)) = printed[1].times[column].count
      [] phase = "killed" ->
           LoadLog.outcome = "printed" <=> journal = <<Logs>> /\ ~Panics(Logs, DOMAIN Stat)
      [] OTHER -> LoadLog.outcome = "panicked"

(* A run that leaves its loop and can save its journal returns its logs: only a
   clock that was set back keeps the statistics from being computed
   (runner.rs:419-422, execution_log.rs:297-307). *)
UnwindsOnlySetBack == phase = "unwound" => set_back
===============================================================================
