------------------------------- MODULE TxBatch -------------------------------
(***************************************************************************)
(* What the runner promises for a batch of transactions: each of them is   *)
(* launched at most once, in the order of the batch from its last element  *)
(* to its first, and gets at most one outcome; when the run has ended      *)
(* nothing changes any more.                                               *)
(***************************************************************************)
EXTENDS Naturals, Sequences

CONSTANTS Tx, Batch

VARIABLES
  queued,   \* the transactions not launched yet
  active,   \* launched, without an outcome
  outcome,  \* [Tx -> {"none", "Done", "Error"}]
  ended

vars == <<queued, active, outcome, ended>>

Init ==
  /\ queued = Batch
  /\ active = {}
  /\ outcome = [t \in Tx |-> "none"]
  /\ ended = FALSE

Launch ==
  /\ ~ended
  /\ queued # <<>>
  /\ active' = active \cup {queued[Len(queued)]}
  /\ queued' = SubSeq(queued, 1, Len(queued) - 1)
  /\ UNCHANGED <<outcome, ended>>

Conclude(t, kind) ==
  /\ ~ended
  /\ t \in active
  /\ active' = active \ {t}
  /\ outcome' = [outcome EXCEPT ![t] = kind]
  /\ UNCHANGED <<queued, ended>>

End ==
  /\ ~ended
  /\ ended' = TRUE
  /\ UNCHANGED <<queued, active, outcome>>

Next == Launch \/ End \/ \E t \in Tx, kind \in {"Done", "Error"} : Conclude(t, kind)

Spec == Init /\ [][Next]_vars
==============================================================================
