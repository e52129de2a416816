---------------------------- MODULE MCBlockMonitor ----------------------------
(* BlockMonitor with a mortal transaction of two blocks, one of three, and an
   immortal one. *)
EXTENDS BlockMonitor, TLC

CONSTANTS m2, m3, forever

AllTx == {m2, m3, forever}
Lifetimes == m2 :> 2 @@ m3 :> 3 @@ forever :> 0

PairTx == {m2, forever}
PairLifetimes == m2 :> 2 @@ forever :> 0

Calm == {}
Faulty == {"block_fails", "runner_ends"}
===============================================================================
