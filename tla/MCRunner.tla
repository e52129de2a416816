------------------------------- MODULE MCRunner -------------------------------
(* Runner on small batches: the constants the .cfg files choose from. *)
EXTENDS Runner

CONSTANTS t1, t2, t3

MixedBatch == <<t3, t2, t1>>
PairBatch  == <<t2, t1>>
OneWatched == {t1}
TwoWatched == {t1, t2}
NoneWatched == {}

AllTx  == {t1, t2, t3}
PairTx == {t1, t2}

(* The statuses that matter to the counters and to the outcome. *)
ForkStatuses == {"InBlock", "NoLongerInBestBlock", "Finalized", "Invalid"}
ShortStatuses == {"InBlock", "Finalized", "Dropped"}

ZeroToTwo == 0..2
ZeroAndTwo == {0, 2}

Calm    == {}
CtrlC   == {"ctrl_c"}
RpcFails == {"rpc_fails"}
Faulty  == {"ctrl_c", "rpc_fails", "monitor_dies", "sender_dropped"}
===============================================================================
