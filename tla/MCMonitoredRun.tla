---------------------------- MODULE MCMonitoredRun ----------------------------
(* MonitoredRun with a mortal transaction of one block and one of two. *)
EXTENDS MonitoredRun, TLC

CONSTANTS m1, m2

Both == {m1, m2}
BothBatch == <<m2, m1>>
None == {}
Lifetimes == m1 :> 1 @@ m2 :> 2

AroundRun == {"ctrl_c", "monitor_dies", "debug_build"}
AroundMonitor == {"block_fails", "runner_ends"}
===============================================================================
