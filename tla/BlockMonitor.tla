----------------------------- MODULE BlockMonitor -----------------------------
(***************************************************************************)
(* src/block_monitor.rs: the task that follows finalized blocks and tells  *)
(* the tasks of the runner what became of their transactions.  A task      *)
(* registers a oneshot listener over a bounded channel after its           *)
(* submission was accepted (runner.rs:149-152); the monitor's select!      *)
(* takes registrations, finalized blocks and best blocks in any order.     *)
(* The chain is external: its finalized blocks are a growing sequence of   *)
(* sets of transactions, block n being element n.                          *)
(***************************************************************************)
EXTENDS Integers, Sequences, FiniteSets, Functions

CONSTANTS
  Tx,          \* transactions, identified by their hash
  ValidUntil,  \* [Tx -> the last block of a mortal transaction, 0: immortal]
  MaxBlocks,   \* bound: finalized blocks
  Capacity,    \* capacity of the channel of registrations
  Environment  \* what may happen around the monitor, see below

(* "block_fails"  the body of a block cannot be fetched
   "runner_ends"  the runner drops its listeners at a timeout or a stop *)
ASSUME MonitorAssumption ==
  /\ ValidUntil \in [Tx -> Nat]
  /\ MaxBlocks \in Nat
  /\ Capacity \in Nat \ {0}
  /\ Environment \subseteq {"block_fails", "runner_ends"}

VARIABLES
  chain,              \* the finalized blocks
  seen,               \* how many of them handle_block has handled
  listener,           \* state of each transaction's task and of its oneshot
  listener_request,   \* the channel of registrations
  callbacks,          \* the hashes with a trigger
  mortal_accounting,  \* block number -> hashes
  monitor,            \* the monitor's task: "running" or "dead"
  since               \* history: seen, when the registration was taken

monitorVars == <<seen, callbacks, mortal_accounting, monitor, since>>
vars == <<chain, listener, listener_request, monitorVars>>

-------------------------------------------------------------------------------
(* "none"        not submitted
   "accepted"    submitted; its task is about to register, or waits for room
   "waiting"     registered, the oneshot is pending
   "abandoned"   the receiver was dropped
   "Panicked"    send().unwrap() found the channel closed
   "Ok", "MortalLifetimeSurpassed", "Closed"   what wait() returned *)
Answers == {"Ok", "MortalLifetimeSurpassed", "Closed", "Panicked"}
ListenerState == {"none", "accepted", "waiting", "abandoned"} \cup Answers

Blocks == 1..MaxBlocks
Finalized(t, first, last) == \E n \in first..last : n \in DOMAIN chain /\ t \in chain[n]
OnChain(t) == Finalized(t, 1, Len(chain))

Init ==
  /\ chain = <<>>
  /\ seen = 0
  /\ listener = [t \in Tx |-> "none"]
  /\ listener_request = <<>>
  /\ callbacks = {}
  /\ mortal_accounting = [n \in Blocks |-> {}]
  /\ monitor = "running"
  /\ since = [t \in Tx |-> 0]

-------------------------------------------------------------------------------
(* The node. *)

Submit(t) ==
  /\ listener[t] = "none"
  /\ ValidUntil[t] = 0 \/ Len(chain) < ValidUntil[t]
  /\ listener' = [listener EXCEPT ![t] = "accepted"]
  /\ UNCHANGED <<chain, listener_request, monitorVars>>

(* Whatever the pool holds may be in a block, a mortal transaction only up to
   its last block. *)
Includable ==
  {t \in Tx : /\ listener[t] # "none"
              /\ ~OnChain(t)
              /\ ValidUntil[t] = 0 \/ Len(chain) < ValidUntil[t]}

FinalizeBlock(txs) ==
  /\ Len(chain) < MaxBlocks
  /\ chain' = Append(chain, txs)
  /\ UNCHANGED <<listener, listener_request, monitorVars>>

-------------------------------------------------------------------------------
(* The task of the runner. *)

(* Mutant: a registration never waits for room in the channel. *)
RegisterListener_Unbounded(t) ==
  /\ listener[t] = "accepted"
  /\ monitor = "running"
  /\ listener' = [listener EXCEPT ![t] = "waiting"]
  /\ listener_request' = Append(listener_request, t)
  /\ UNCHANGED <<chain, monitorVars>>

RegisterListener(t) ==
  /\ listener[t] = "accepted"
  /\ IF monitor = "dead"
     THEN /\ listener' = [listener EXCEPT ![t] = "Panicked"]
          /\ UNCHANGED listener_request
     ELSE /\ Len(listener_request) < Capacity
          /\ listener' = [listener EXCEPT ![t] = "waiting"]
          /\ listener_request' = Append(listener_request, t)
  /\ UNCHANGED <<chain, monitorVars>>

(* The tasks of the runner are dropped, wherever they are. *)
RunnerEnds ==
  /\ "runner_ends" \in Environment
  /\ listener' = [t \in Tx |-> IF listener[t] \in Answers THEN listener[t] ELSE "abandoned"]
  /\ listener' # listener
  /\ UNCHANGED <<chain, listener_request, monitorVars>>

-------------------------------------------------------------------------------
(* The monitor. *)

TakeRequest ==
  /\ monitor = "running"
  /\ listener_request # <<>>
  /\ LET t == Head(listener_request) IN
       /\ callbacks' = callbacks \cup {t}
       /\ mortal_accounting' =
            IF ValidUntil[t] = 0 THEN mortal_accounting
            ELSE [mortal_accounting EXCEPT ![ValidUntil[t]] = @ \cup {t}]
       /\ since' = [since EXCEPT ![t] = seen]
  /\ listener_request' = Tail(listener_request)
  /\ UNCHANGED <<chain, listener, seen, monitor>>

(* Mutant: a lifetime that ends with the block is over before the block's
   own transactions are looked at. *)
Found_MortalFirst(n) == (callbacks \cap chain[n]) \ mortal_accounting[n]

(* handle_block of a finalized block n: the triggers of its transactions get
   Ok, then those of the transactions that live no longer than n the error. *)
Found(n) == callbacks \cap chain[n]

(* Mutant: lifetimes are accounted for and never looked at. *)
Expired_Never(n) == {}

Expired(n) == (callbacks \cap mortal_accounting[n]) \ Found(n)

(* Mutants: a trigger is not removed when it fires; a block clears them all. *)
Untriggered_KeepsFound(n) == callbacks \ Expired(n)
Untriggered_None(n) == {}

Untriggered(n) == callbacks \ (Found(n) \cup Expired(n))

HandleFinalized ==
  /\ monitor = "running"
  /\ seen < Len(chain)
  /\ LET n == seen + 1 IN
       /\ \A t \in Found(n) \cup Expired(n) : listener[t] # "abandoned"
       /\ listener' = [t \in Tx |-> IF t \in Found(n) THEN "Ok"
                                   ELSE IF t \in Expired(n) THEN "MortalLifetimeSurpassed"
                                   ELSE listener[t]]
       /\ callbacks' = Untriggered(n)
       /\ mortal_accounting' = [mortal_accounting EXCEPT ![n] = {}]
       /\ seen' = n
  /\ UNCHANGED <<chain, listener_request, monitor, since>>

(* Mutant: the listeners still in the channel are forgotten. *)
Die_ForgetsChannel ==
  /\ monitor' = "dead"
  /\ callbacks' = {}
  /\ listener_request' = <<>>
  /\ listener' = [t \in Tx |-> IF listener[t] = "waiting" /\ t \in callbacks
                               THEN "Closed" ELSE listener[t]]
  /\ UNCHANGED <<chain, seen, mortal_accounting, since>>

(* The monitor's task ends: the triggers it holds and those in the channel
   are dropped with it. *)
Die ==
  /\ monitor' = "dead"
  /\ callbacks' = {}
  /\ listener_request' = <<>>
  /\ listener' = [t \in Tx |-> IF listener[t] = "waiting" THEN "Closed" ELSE listener[t]]
  /\ UNCHANGED <<chain, seen, mortal_accounting, since>>

(* trigger.send().unwrap() panics when the receiver is gone. *)
HandleFinalizedPanics ==
  /\ monitor = "running"
  /\ seen < Len(chain)
  /\ \E t \in Found(seen + 1) \cup Expired(seen + 1) : listener[t] = "abandoned"
  /\ Die

(* Mutant: a best block triggers like a finalized one. *)
HandleBest_Notifies(txs) ==
  /\ monitor = "running"
  /\ listener' = [t \in Tx |-> IF t \in callbacks \cap txs THEN "Ok" ELSE listener[t]]
  /\ callbacks' = callbacks \ txs
  /\ UNCHANGED <<chain, listener_request, seen, mortal_accounting, monitor, since>>

(* handle_block of a best block only displays it. *)
HandleBest(txs) == monitor = "running" /\ UNCHANGED vars

(* extrinsics().await? of a finalized or of a best block. *)
HandleFails ==
  /\ "block_fails" \in Environment
  /\ monitor = "running"
  /\ Die

-------------------------------------------------------------------------------
Monitor == TakeRequest \/ HandleFinalized \/ HandleFinalizedPanics \/ HandleFails

(* All the blocks came and were handled, or the monitor is gone. *)
Over == /\ Len(chain) = MaxBlocks /\ (seen = MaxBlocks \/ monitor = "dead")
        /\ UNCHANGED vars

Next ==
  \/ \E t \in Tx : Submit(t) \/ RegisterListener(t)
  \/ \E txs \in SUBSET Includable : FinalizeBlock(txs) \/ HandleBest(txs)
  \/ RunnerEnds
  \/ Monitor
  \/ Over

Spec == Init /\ [][Next]_vars

(* The monitor's task and the tasks that register are scheduled. *)
FairSpec ==
  /\ Spec
  /\ WF_vars(HandleFinalized \/ HandleFinalizedPanics)
  /\ WF_vars(TakeRequest)
  /\ \A t \in Tx : WF_vars(RegisterListener(t))

-------------------------------------------------------------------------------
(***************************************************************************)
(* Properties.                                                             *)
(***************************************************************************)

(* Every variable stays in its type, and the channel within its capacity: a
   task that finds it full waits (block_monitor.rs:81, 105). *)
TypeOK ==
  /\ chain \in Seq(SUBSET Tx) /\ Len(chain) <= MaxBlocks
  /\ seen \in 0..Len(chain)
  /\ listener \in [Tx -> ListenerState]
  /\ listener_request \in Seq(Tx) /\ Len(listener_request) <= Capacity
  /\ callbacks \subseteq Tx
  /\ mortal_accounting \in [Blocks -> SUBSET Tx]
  /\ monitor \in {"running", "dead"}
  /\ since \in [Tx -> 0..MaxBlocks]

(* A pending listener is never orphaned: its trigger is in the channel or
   among the callbacks, so it is answered or closed when the monitor dies,
   and an answered one is in neither (block_monitor.rs:66-71, 125-137). *)
NoOrphanedListener ==
  LET known == callbacks \cup Range(listener_request) IN
    /\ \A t \in Tx : listener[t] = "waiting" => t \in known
    /\ \A t \in known : listener[t] \in {"waiting", "abandoned"}
    /\ callbacks \cap Range(listener_request) = {}

(* Among the callbacks are only transactions that no block handled since the
   registration was taken has settled, by containing them or by ending their
   lifetime (block_monitor.rs:122-138). *)
NoMissedBlock ==
  \A t \in callbacks :
    /\ ~Finalized(t, since[t] + 1, seen)
    /\ ValidUntil[t] \notin since[t] + 1..seen

(* wait() tells the truth: Ok only for a transaction in a finalized block (a
   best block that contains it, and may be abandoned, notifies nobody), and a
   surpassed lifetime only when the last block of the lifetime was handled and
   none since the registration, that one included, contains the transaction
   (block_monitor.rs:122-138, 143-145). *)
OkMeansFinalized ==
  \A t \in Tx : listener[t] = "Ok" => Finalized(t, since[t] + 1, seen)
MortalMeansLifetimeOver ==
  \A t \in Tx : listener[t] = "MortalLifetimeSurpassed" =>
    /\ ValidUntil[t] \in since[t] + 1..seen
    /\ ~Finalized(t, since[t] + 1, ValidUntil[t])
AnswersAreTrue == OkMeansFinalized /\ MortalMeansLifetimeOver

(* A transaction among the callbacks that is in a block still to be handled is
   reported finalized, unless its listener or the monitor goes first
   (block_monitor.rs:123-129, 161-163). *)
TakenIsNotified ==
  \A t \in Tx : (t \in callbacks /\ Finalized(t, seen + 1, Len(chain)))
    ~> listener[t] \in {"Ok", "abandoned"} \/ monitor = "dead"

(* "a notification is sent if the transaction with the given hash is found in
   a finalized block" (block_monitor.rs:96-97): whoever waits for a finalized
   transaction is answered. *)
FinalizedIsNotified ==
  \A t \in Tx : (listener[t] = "waiting" /\ OnChain(t)) ~> listener[t] # "waiting"
===============================================================================
