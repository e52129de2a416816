------------------------------ MODULE MCSubxtRun ------------------------------
(* SubxtRun on small batches: the constants the .cfg files choose from. *)
EXTENDS SubxtRun

CONSTANTS t1, t2, t3

MixedBatch == <<t3, t2, t1>>
PairBatch  == <<t2, t1>>
AllTx   == {t1, t2, t3}
PairTx  == {t1, t2}

OneWatched  == {t1}
NoneWatched == {}

FinalizedOnly == {"Finalized"}
Outcomes == {"Broadcasted", "Finalized", "Invalid"}

Counts == 0..4
Calm     == {}
RpcFails == {"rpc_fails"}
===============================================================================
