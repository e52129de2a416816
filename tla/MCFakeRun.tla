------------------------------- MODULE MCFakeRun -------------------------------
(* FakeRun on five transactions: the constants of FakeCompletes.cfg. *)
EXTENDS FakeRun

CONSTANTS t1, t2, t3, t4, t5

AllTx       == {t1, t2, t3, t4, t5}
FullBatch   == <<t1, t2, t3, t4, t5>>
SomeWatched == {t1, t3, t5}

(* t1 is finalized after six events, t2's submission too; t3's stream ends
   early; t4 is dropped although its second stream would succeed; t5 is in a
   block and dropped nevertheless. *)
MixedStreams ==
  [t \in AllTx |->
     CASE t \in {t1, t2} -> <<new_finalizable>>
       [] t = t3 -> << <<"Broadcasted">> >>
       [] t = t4 -> new_droppable_2nd_success
       [] t = t5 -> new_inblock_then_droppable_2nd_success]

AnyStatus == TransactionStatus
AnyCount  == 0..5
CtrlC     == {"ctrl_c"}
===============================================================================
