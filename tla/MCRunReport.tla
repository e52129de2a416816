------------------------------ MODULE MCRunReport ------------------------------
(* RunReport on a batch of two transactions. *)
EXTENDS RunReport

CONSTANTS t1, t2

PairTx == {t1, t2}
PairBatch == <<t2, t1>>
OneWatched == {t1}
Statuses == {"InBlock", "Finalized", "Dropped"}
NoCounts == {}
StopsAtOnce == {"sender_dropped"}

Named(dir, prefix, id) ==
  [base_dir_path |-> dir, log_file_name |-> prefix, executor_id |-> id]

(* Two executors of one directory, told apart by id alone or by id behind a
   prefix. *)
SomeNamings ==
  {<<Named("logs", None, "a"), Named("logs", None, "b")>>,
   <<Named("logs", "run", "a"), Named("logs", "run", "b")>>}

AllMishaps == {"clock_set_back", "disk_fails", "killed"}
===============================================================================
