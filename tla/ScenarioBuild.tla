---------------------------- MODULE ScenarioBuild ----------------------------
(***************************************************************************)
(* How a scenario gets its transactions: build_transactions                *)
(* (src/scenario.rs) splits their parameters among concurrent tokio tasks, *)
(* each of which takes a nonce for every transaction of its chunk from the *)
(* sink's shared allocator and builds it (src/subxt_transaction.rs); the   *)
(* tasks are joined in order, and what they built is sorted and reversed   *)
(* for Runner::new, which pops from the end.                               *)
(* A transaction is its account and nonce; payload, tip and signature are  *)
(* left out.                                                               *)
(***************************************************************************)
EXTENDS Integers, Sequences, FiniteSets, SequencesExt

CONSTANTS
  AccountIds,    \* start_id..=last_id, or the only account: a sequence
  TxsCount,      \* txs_count, for each account
  NonceFrom,     \* nonce_from, or NoNonce
  NoNonce,       \* None
  Mortalities,   \* blocks a transaction may be asked to live for, or Immortal
  Immortal,      \* None
  Parallelism,   \* available_parallelism
  Retries,       \* DEFAULT_RETRIES_FOR_PARTIAL_TX_CREATION
  FirstNonces,   \* nonces an account has on the node before the build
  MaxAdvance,    \* bound: transactions of an account others get into blocks
  MaxFinalized,  \* bound: blocks finalized during the build
  NodeFails      \* requests to the node may fail

N == Len(AccountIds) * TxsCount

ASSUME BuildAssumption ==
  /\ AccountIds \in Seq(Range(AccountIds))
  /\ IsInjective(AccountIds)
  /\ TxsCount \in Nat
  /\ NoNonce \notin Nat
  /\ NonceFrom \in Nat \cup {NoNonce}
  /\ Immortal \notin Nat
  /\ Mortalities \subseteq Nat \cup {Immortal}
  /\ Parallelism \in Nat \ {0}
  /\ Retries \in Nat \ {0}
  /\ FirstNonces \subseteq Nat
  /\ MaxAdvance \in Nat
  /\ MaxFinalized \in Nat
  /\ NodeFails \in BOOLEAN

VARIABLES
  remote,       \* each account's nonce on the node
  finalized,    \* the node's last finalized block
  nonces,       \* SubxtTransactionsSink.nonces: the last one given, or NoNonce
  at,           \* the parameters each task works on
  step,         \* where the task is
  fetched,      \* remote_nonce, as the task read it
  tries,        \* attempts left to create the transaction
  nonce,        \* the nonce each transaction was given, or NoNonce
  mortality,    \* with_mortality: blocks the transactions live for, or Immortal
  born,         \* the first block of its era, or Immortal
  valid_until,  \* what the monitor is told of its last block, or Immortal
  joined,       \* tasks joined
  results,      \* what the joined tasks built
  batch,        \* the Vec for Runner::new
  pc            \* build(): "joining", "built" or "panicked"

nodeVars  == <<remote, finalized>>
taskVars  == <<at, step, fetched, tries>>
lifeVars  == <<mortality, born, valid_until>>
buildVars == <<joined, results, batch, pc>>
vars == <<nodeVars, nonces, nonce, taskVars, lifeVars, buildVars>>

Accounts == Range(AccountIds)
TxIndex == 1..N
Mortal == mortality # Immortal

(* tx_build_params: account by account, nonces counting up from nonce_from. *)
AccountOf(i) == AccountIds[(i - 1) \div TxsCount + 1]
NonceParam(i) == IF NonceFrom = NoNonce THEN NoNonce ELSE NonceFrom + ((i - 1) % TxsCount)

Threads == IF N < Parallelism THEN N ELSE Parallelism
Task == 1..Threads

ChunkFirst(k) == ((k - 1) * N) \div Threads + 1
ChunkLast(k)  == (k * N) \div Threads

Init ==
  /\ remote \in [Accounts -> FirstNonces]
  /\ finalized = 0
  /\ nonces = [a \in Accounts |-> NoNonce]
  /\ at = [k \in Task |-> ChunkFirst(k)]
  /\ step = [k \in Task |-> "next"]
  /\ fetched = [k \in Task |-> NoNonce]
  /\ tries = [k \in Task |-> Retries]
  /\ nonce = [i \in TxIndex |-> NoNonce]
  /\ mortality \in Mortalities
  /\ born = [i \in TxIndex |-> Immortal]
  /\ valid_until = [i \in TxIndex |-> Immortal]
  /\ joined = 0
  /\ results = <<>>
  /\ batch = <<>>
  /\ pc = "joining"

-------------------------------------------------------------------------------
(* The era the library makes of a mortality: a power of two of blocks, and of
   the long ones only some begin at the block they are asked for at. *)
EraPeriods ==
  {4, 8, 16, 32, 64, 128, 256, 512, 1024, 2048, 4096, 8192, 16384, 32768, 65536}
EraPeriod(blocks) ==
  IF blocks > 65536 THEN 65536
  ELSE CHOOSE p \in EraPeriods : blocks <= p /\ \A q \in EraPeriods : blocks <= q => p <= q
EraBegin(blocks, current) ==
  LET quantum == IF EraPeriod(blocks) > 4096 THEN EraPeriod(blocks) \div 4096 ELSE 1
  IN current - (current % quantum)

(* The last block the transaction may get into. *)
LastBlock(i) == born[i] + EraPeriod(mortality) - 1

-------------------------------------------------------------------------------
(* A task. *)

Go(k, where) == step' = [step EXCEPT ![k] = where]

(* The next transaction of the chunk: a given nonce is used as it is; else the
   read lock is held just long enough to see whether the account has one. *)
TakeParams(k) ==
  /\ step[k] = "next"
  /\ at[k] <= ChunkLast(k)
  /\ nonce' = [nonce EXCEPT ![at[k]] = NonceParam(at[k])]
  /\ tries' = [tries EXCEPT ![k] = Retries]
  /\ Go(k, IF NonceFrom # NoNonce THEN "create"
           ELSE IF nonces[AccountOf(at[k])] = NoNonce THEN "fetch"
           ELSE "allocate")
  /\ UNCHANGED <<nodeVars, nonces, at, fetched, lifeVars, buildVars>>

Fetch(k) ==
  /\ step[k] = "fetch"
  /\ fetched' = [fetched EXCEPT ![k] = remote[AccountOf(at[k])]]
  /\ Go(k, "allocate")
  /\ UNCHANGED <<nodeVars, nonces, at, tries, nonce, lifeVars, buildVars>>

(* Mutant: what was read decides, whatever happened since. *)
Allocate_AsRead(k) ==
  /\ step[k] = "allocate"
  /\ LET a == AccountOf(at[k])
         given == IF fetched[k] = NoNonce THEN nonces[a] + 1 ELSE fetched[k]
     IN /\ nonces' = [nonces EXCEPT ![a] = given]
        /\ nonce' = [nonce EXCEPT ![at[k]] = given]
  /\ fetched' = [fetched EXCEPT ![k] = NoNonce]
  /\ Go(k, "create")
  /\ UNCHANGED <<nodeVars, at, tries, lifeVars, buildVars>>

(* Under the write lock: whoever comes first inserts the nonce it fetched,
   everybody else takes the next one. *)
Allocate(k) ==
  /\ step[k] = "allocate"
  /\ LET a == AccountOf(at[k])
         given == IF nonces[a] = NoNonce THEN fetched[k] ELSE nonces[a] + 1
     IN /\ nonces' = [nonces EXCEPT ![a] = given]
        /\ nonce' = [nonce EXCEPT ![at[k]] = given]
  /\ fetched' = [fetched EXCEPT ![k] = NoNonce]
  /\ Go(k, "create")
  /\ UNCHANGED <<nodeVars, at, tries, lifeVars, buildVars>>

(* Offline, without mortality. *)
Create(k) ==
  /\ ~Mortal
  /\ step[k] = "create"
  /\ at' = [at EXCEPT ![k] = @ + 1]
  /\ Go(k, "next")
  /\ UNCHANGED <<nodeVars, nonces, fetched, tries, nonce, lifeVars, buildVars>>

(* create_partial: the library asks for the last finalized block and makes an
   era of the mortality from there. *)
CreatePartial(k) ==
  /\ Mortal
  /\ step[k] = "create"
  /\ born' = [born EXCEPT ![at[k]] = EraBegin(mortality, finalized)]
  /\ Go(k, "sign")
  /\ UNCHANGED <<nodeVars, nonces, at, fetched, tries, nonce, mortality, valid_until, buildVars>>

(* Mutant: the block is asked for once, for the first transaction of a chunk. *)
Sign_OldBlock(k) ==
  /\ step[k] = "sign"
  /\ valid_until' = [valid_until EXCEPT
       ![at[k]] = IF at[k] = ChunkFirst(k) THEN finalized + mortality ELSE valid_until[ChunkFirst(k)]]
  /\ at' = [at EXCEPT ![k] = @ + 1]
  /\ Go(k, "next")
  /\ UNCHANGED <<nodeVars, nonces, fetched, tries, nonce, mortality, born, buildVars>>

(* subxt_transaction asks for that block again, and adds the mortality as it was
   given: this is what the block monitor is told. *)
Sign(k) ==
  /\ step[k] = "sign"
  /\ valid_until' = [valid_until EXCEPT ![at[k]] = finalized + mortality]
  /\ at' = [at EXCEPT ![k] = @ + 1]
  /\ Go(k, "next")
  /\ UNCHANGED <<nodeVars, nonces, fetched, tries, nonce, mortality, born, buildVars>>

(* Mutant: after the last attempt it starts over. *)
CreateFails_StartOver(k) ==
  /\ NodeFails
  /\ Mortal
  /\ step[k] = "create"
  /\ tries' = [tries EXCEPT ![k] = IF @ = 1 THEN Retries ELSE @ - 1]
  /\ UNCHANGED <<nodeVars, nonces, at, step, fetched, nonce, lifeVars, buildVars>>

(* create_partial fails; after the last attempt the task panics. *)
CreateFails(k) ==
  /\ NodeFails
  /\ Mortal
  /\ step[k] = "create"
  /\ tries' = [tries EXCEPT ![k] = @ - 1]
  /\ Go(k, IF tries[k] = 1 THEN "panicked" ELSE "create")
  /\ UNCHANGED <<nodeVars, nonces, at, fetched, nonce, lifeVars, buildVars>>

(* The expects: no nonce for the account, no finalized block. *)
RequestFails(k) ==
  /\ NodeFails
  /\ step[k] \in {"fetch", "sign"}
  /\ Go(k, "panicked")
  /\ UNCHANGED <<nodeVars, nonces, at, fetched, tries, nonce, lifeVars, buildVars>>

TaskStep(k) ==
  \/ TakeParams(k) \/ Fetch(k) \/ Allocate(k)
  \/ Create(k) \/ CreatePartial(k) \/ Sign(k)
  \/ CreateFails(k) \/ RequestFails(k)

(* A transaction another sender signed with the account gets into a block. *)
Advance(a) ==
  /\ \E n \in FirstNonces : remote[a] < n + MaxAdvance
  /\ remote' = [remote EXCEPT ![a] = @ + 1]
  /\ UNCHANGED <<finalized, nonces, nonce, taskVars, lifeVars, buildVars>>

BlockFinalized ==
  /\ finalized < MaxFinalized
  /\ finalized' = finalized + 1
  /\ UNCHANGED <<remote, nonces, nonce, taskVars, lifeVars, buildVars>>

-------------------------------------------------------------------------------
(* build_transactions and build. *)

Built(i) == [account |-> AccountOf(i), nonce |-> nonce[i]]

(* The handles are awaited in order; a task's panic unwinds build(). *)
Join ==
  /\ pc = "joining"
  /\ joined < Threads
  /\ LET k == joined + 1 IN
       \/ /\ step[k] = "next" /\ at[k] > ChunkLast(k)
          /\ results' = results \o [i \in 1..(ChunkLast(k) - ChunkFirst(k) + 1) |-> Built(ChunkFirst(k) + i - 1)]
          /\ joined' = k
          /\ UNCHANGED pc
       \/ /\ step[k] = "panicked"
          /\ pc' = "panicked"
          /\ UNCHANGED <<results, joined>>
  /\ UNCHANGED <<nodeVars, nonces, nonce, taskVars, lifeVars, batch>>

(* sort_by_key is stable: as many come before one as have a smaller nonce, or
   the same and stood before it. *)
Before(txs, i, j) == txs[i].nonce < txs[j].nonce \/ (txs[i].nonce = txs[j].nonce /\ i < j)
Rank(txs, j) == Cardinality({i \in DOMAIN txs : Before(txs, i, j)}) + 1
SortedByNonce(txs) ==
  [r \in DOMAIN txs |-> txs[CHOOSE i \in DOMAIN txs : Rank(txs, i) = r]]

(* Mutant: the sorted Vec is handed over as it is. *)
ForRunner_Ascending(txs) == SortedByNonce(txs)

ForRunner(txs) == Reverse(SortedByNonce(txs))

Finish ==
  /\ pc = "joining"
  /\ joined = Threads
  /\ batch' = ForRunner(results)
  /\ pc' = "built"
  /\ UNCHANGED <<nodeVars, nonces, nonce, taskVars, lifeVars, joined, results>>

Over == pc # "joining" /\ UNCHANGED vars

Next ==
  \/ \E k \in Task : TaskStep(k)
  \/ \E a \in Accounts : Advance(a)
  \/ BlockFinalized
  \/ Join
  \/ Finish
  \/ Over

Spec == Init /\ [][Next]_vars

(* The tasks run on tokio's workers and the node answers, if only with an
   error: the RPC client gives up on a request after a while. *)
FairSpec ==
  /\ Spec
  /\ \A k \in Task : WF_vars(TaskStep(k))
  /\ WF_vars(Join \/ Finish)

-------------------------------------------------------------------------------
(* Properties. *)

(* The types the proofs rest on; a task never leaves its chunk
   (scenario.rs:504-533). *)
AllocatorTypeOK ==
  /\ remote \in [Accounts -> Nat]
  /\ nonces \in [Accounts -> Nat \cup {NoNonce}]
  /\ at \in [Task -> Nat]
  /\ \A k \in Task : at[k] \in ChunkFirst(k)..(ChunkLast(k) + 1)
  /\ step \in [Task -> {"next", "fetch", "allocate", "create", "sign", "panicked"}]
  /\ fetched \in [Task -> Nat \cup {NoNonce}]
  /\ nonce \in [TxIndex -> Nat \cup {NoNonce}]

LifetimeTypeOK ==
  /\ finalized \in Nat
  /\ mortality \in Mortalities
  /\ born \in [TxIndex -> Nat \cup {Immortal}]
  /\ valid_until \in [TxIndex -> Nat \cup {Immortal}]

Given(a) == {i \in TxIndex : AccountOf(i) = a /\ nonce[i] # NoNonce}

(* What the allocator gave out for an account are distinct nonces without a
   gap, whichever tasks asked in whatever order and however many of them
   fetched the account's nonce from a node that moved on in between
   (subxt_transaction.rs:273-296). *)
NoncesContiguous ==
  NonceFrom = NoNonce =>
    \A a \in Accounts :
      /\ \A i, j \in Given(a) : nonce[i] = nonce[j] => i = j
      /\ IF nonces[a] = NoNonce
         THEN Given(a) = {}
         ELSE \E first \in 0..nonces[a] : {nonce[i] : i \in Given(a)} = first..nonces[a]

(* What makes it inductive: a task that works on a transaction is within its
   chunk; what a task has not come to has no nonce yet; who may have to insert
   a nonce has fetched one. *)
InChunk(k) == step[k] \in {"fetch", "allocate", "create", "sign"} => at[k] <= ChunkLast(k)
RestUngiven(k) ==
  \A i \in at[k]..ChunkLast(k) :
    nonce[i] # NoNonce => i = at[k] /\ step[k] \in {"create", "sign", "panicked"}
HasFetched(k) ==
  step[k] = "allocate" /\ nonces[AccountOf(at[k])] = NoNonce => fetched[k] \in Nat

AllocatorInv ==
  /\ AllocatorTypeOK
  /\ \A k \in Task : InChunk(k)
  /\ NonceFrom = NoNonce => \A k \in Task : RestUngiven(k) /\ HasFetched(k)
  /\ NoncesContiguous

(* The runner pops the batch from its end: it gets every account's
   transactions, all of them, one nonce after the other, and no account gets
   ahead of another by nonce (scenario.rs:504-541, 601, 637). *)
Popped == Reverse(batch)
BatchInOrder ==
  pc = "built" =>
    /\ \A i, j \in DOMAIN Popped : i < j => Popped[i].nonce <= Popped[j].nonce
    /\ \A a \in Accounts :
         LET own == {i \in DOMAIN Popped : Popped[i].account = a} IN
           /\ Cardinality(own) = TxsCount
           /\ \A i, j \in own :
                i < j /\ own \cap ((i + 1)..(j - 1)) = {} => Popped[j].nonce = Popped[i].nonce + 1

(* The block monitor is told to give a transaction up before its era is over
   only by what the library rounds the mortality up by, and never if the
   mortality is an era's length or longer: the two blocks they are counted from
   are asked for one after the other, by requests that other tasks' requests
   and new blocks come between (subxt_transaction.rs:559-561, 582-606, 613-617). *)
EarlyOnlyByRounding ==
  \A i \in TxIndex :
    valid_until[i] # Immortal => LastBlock(i) - valid_until[i] < EraPeriod(mortality) - mortality

(* "Mortal transaction lifetime surpassed" (error.rs:16-17) is said at the block
   the monitor is told: no later block may contain the transaction. *)
LifetimeIsSurpassed ==
  \A i \in TxIndex : valid_until[i] # Immortal => LastBlock(i) <= valid_until[i]

(* What makes EarlyOnlyByRounding inductive: eras begin in the past, and a
   transaction a task has not finished has not been told of. *)
BornInThePast ==
  /\ \A i \in TxIndex : born[i] # Immortal => born[i] <= finalized
  /\ \A k \in Task : step[k] = "sign" => Mortal /\ born[at[k]] # Immortal
RestUntold == \A k \in Task : \A i \in at[k]..ChunkLast(k) : valid_until[i] = Immortal

LifetimeInv == LifetimeTypeOK /\ BornInThePast /\ RestUntold /\ EarlyOnlyByRounding

(* A build ends, with a batch or by unwinding: attempts to create a
   transaction online are counted (subxt_transaction.rs:613-620). *)
BuildEnds == <>(pc # "joining")
===============================================================================
