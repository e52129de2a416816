------------------------- MODULE ScenarioBuildProofs -------------------------
(***************************************************************************)
(* The nonce allocator of the build: however many tasks share it, what it  *)
(* gives out for an account are distinct nonces without a gap; the         *)
(* lifetimes; and the batch that is joined, sorted and reversed from it.   *)
(***************************************************************************)
EXTENDS ScenarioBuild, FiniteSetTheorems, TLAPS

-------------------------------------------------------------------------------
(* What integer division does to products (scenario.rs:505). *)

(* Integer division by a positive number. *)
LEMMA Division ==
  ASSUME NEW m \in Nat, NEW d \in Nat \ {0}
  PROVE  /\ m \div d \in Nat
         /\ d * (m \div d) <= m
         /\ m < d * (m \div d) + d
<1>1. m = d * (m \div d) + (m % d) /\ m % d \in 0..(d - 1) /\ m \div d \in Int
  OBVIOUS
<1>2. m \div d >= 0
  <2> DEFINE q == m \div d
  <2>1. q \in Int /\ d * q + d > m
    BY <1>1
  <2> HIDE DEF q
  <2>2. ASSUME q <= -1 PROVE FALSE
    <3>1. d * q <= d * (-1)
      BY <2>1, <2>2
    <3> QED
      BY <2>1, <3>1
  <2>3. q >= 0
    BY <2>1, <2>2
  <2> QED
    BY <2>3 DEF q
<1> QED
  BY <1>1, <1>2

(* Division keeps the order. *)
LEMMA DivisionMonotone ==
  ASSUME NEW m \in Nat, NEW n \in Nat, m <= n, NEW d \in Nat \ {0}
  PROVE  m \div d <= n \div d
<1> DEFINE p == m \div d
           q == n \div d
<1>1. p \in Nat /\ q \in Nat /\ d * p <= m /\ n < d * q + d
  BY Division
<1> HIDE DEF p, q
<1>2. ASSUME p >= q + 1 PROVE FALSE
  <2>1. d * p >= d * (q + 1)
    BY <1>1, <1>2
  <2>2. d * (q + 1) = d * q + d
    BY <1>1
  <2> QED
    BY <1>1, <2>1, <2>2
<1>3. p <= q
  BY <1>1, <1>2
<1> QED
  BY <1>3 DEF p, q

(* Multiplication keeps the order. *)
LEMMA ProductMonotone ==
  ASSUME NEW m \in Int, NEW n \in Int, m <= n, NEW d \in Nat
  PROVE  m * d <= n * d /\ d * m <= d * n
OBVIOUS

-------------------------------------------------------------------------------

(* The sizes of the batch and of the pool of tasks. *)
LEMMA Sizes ==
  /\ Len(AccountIds) \in Nat /\ TxsCount \in Nat /\ N \in Nat
  /\ Threads \in Nat
<1>1. Len(AccountIds) \in Nat /\ TxsCount \in Nat
  BY BuildAssumption
<1>2. N \in Nat
  BY <1>1 DEF N
<1> QED
  BY <1>1, <1>2, BuildAssumption DEF Threads

(* Every transaction is of one of the accounts. *)
LEMMA AccountOfTx ==
  ASSUME NEW i \in TxIndex
  PROVE  AccountOf(i) \in Accounts
<1> DEFINE q == (i - 1) \div TxsCount
<1>1. i \in Nat \ {0} /\ i - 1 \in Nat /\ TxsCount \in Nat \ {0} /\ i <= Len(AccountIds) * TxsCount
  <2>1. i \in Nat \ {0} /\ i <= N
    BY Sizes DEF TxIndex
  <2>2. TxsCount # 0
    BY <2>1, Sizes DEF N
  <2> QED
    BY <2>1, <2>2, Sizes DEF N
<1>2. q \in Nat /\ TxsCount * q <= i - 1
  BY <1>1, Division
<1> HIDE DEF q
<1>3. ASSUME q >= Len(AccountIds) PROVE FALSE
  <2>1. TxsCount * q >= TxsCount * Len(AccountIds)
    BY <1>1, <1>2, <1>3, Sizes, ProductMonotone
  <2>2. TxsCount * Len(AccountIds) = Len(AccountIds) * TxsCount
    BY Sizes
  <2>3. TxsCount * q \in Nat /\ Len(AccountIds) * TxsCount \in Nat
    BY <1>2, Sizes
  <2> QED
    BY <1>1, <1>2, <2>1, <2>2, <2>3
<1>4. q + 1 \in 1..Len(AccountIds)
  BY <1>2, <1>3, Sizes
<1>5. AccountIds[q + 1] \in Range(AccountIds)
  BY <1>4, BuildAssumption DEF Range
<1> QED
  BY <1>5 DEF q, AccountOf, Accounts

(* A chunk is an interval of the parameters, perhaps empty. *)
LEMMA ChunkBounds ==
  ASSUME NEW k \in Task
  PROVE  /\ ChunkFirst(k) \in Nat \ {0}
         /\ ChunkLast(k) \in Nat
         /\ ChunkFirst(k) <= ChunkLast(k) + 1
         /\ ChunkLast(k) <= N
<1>1. /\ k \in Nat /\ k - 1 \in Nat /\ k <= Threads /\ Threads \in Nat \ {0}
      /\ N \in Nat
  BY Sizes DEF Task
<1>2. k * N \in Nat /\ (k - 1) * N \in Nat /\ (k - 1) * N <= k * N /\ k * N <= Threads * N
  <2>1. (k - 1) * N <= k * N /\ k * N <= Threads * N
    BY <1>1, ProductMonotone
  <2>2. k * N \in Nat /\ (k - 1) * N \in Nat
    BY <1>1
  <2> QED
    BY <2>1, <2>2
<1>3. /\ (k * N) \div Threads \in Nat
      /\ ((k - 1) * N) \div Threads \in Nat
      /\ ((k - 1) * N) \div Threads <= (k * N) \div Threads
      /\ Threads * ((k * N) \div Threads) <= k * N
  <2> DEFINE lower == (k - 1) * N
             upper == k * N
  <2>1. lower \in Nat /\ upper \in Nat /\ lower <= upper
    BY <1>2
  <2> HIDE DEF lower, upper
  <2>2. /\ upper \div Threads \in Nat
        /\ lower \div Threads \in Nat
        /\ lower \div Threads <= upper \div Threads
        /\ Threads * (upper \div Threads) <= upper
    BY <1>1, <2>1, Division, DivisionMonotone
  <2> QED
    BY <2>2 DEF lower, upper
<1>4. (k * N) \div Threads <= N
  <2> DEFINE q == (k * N) \div Threads
  <2>1. q \in Nat /\ Threads * q <= Threads * N
    <3>1. Threads * N \in Nat
      BY <1>1
    <3> QED
      BY <1>1, <1>2, <1>3, <3>1
  <2> HIDE DEF q
  <2>2. ASSUME q >= N + 1 PROVE FALSE
    <3>1. Threads * q >= Threads * (N + 1)
      BY <1>1, <2>1, <2>2, ProductMonotone
    <3>2. Threads * (N + 1) = Threads * N + Threads
      BY <1>1
    <3>3. Threads * N \in Nat /\ Threads * q \in Nat
      BY <1>1, <2>1
    <3> QED
      BY <1>1, <2>1, <3>1, <3>2, <3>3
  <2>3. q <= N
    BY <1>1, <2>1, <2>2
  <2> QED
    BY <2>3 DEF q
<1> QED
  BY <1>1, <1>3, <1>4 DEF ChunkFirst, ChunkLast

(* No two tasks share a transaction. *)
LEMMA ChunksDisjoint ==
  ASSUME NEW j \in Task, NEW k \in Task, j < k
  PROVE  ChunkLast(j) < ChunkFirst(k)
<1>1. /\ j \in Nat /\ k - 1 \in Nat /\ j <= k - 1 /\ Threads \in Nat \ {0}
      /\ N \in Nat
  BY Sizes DEF Task
<1> DEFINE lower == j * N
           upper == (k - 1) * N
<1>2. lower \in Nat /\ upper \in Nat /\ lower <= upper
  BY <1>1, ProductMonotone
<1> HIDE DEF lower, upper
<1>3. /\ upper \div Threads \in Nat
      /\ lower \div Threads \in Nat
      /\ lower \div Threads <= upper \div Threads
  BY <1>1, <1>2, Division, DivisionMonotone
<1> QED
  BY <1>3 DEF lower, upper, ChunkFirst, ChunkLast

-------------------------------------------------------------------------------
(* What a task works on is one of the transactions, and nobody else's. *)
LEMMA WorksOn ==
  ASSUME AllocatorTypeOK, NEW k \in Task, at[k] <= ChunkLast(k)
  PROVE  /\ at[k] \in TxIndex
         /\ at[k] \in ChunkFirst(k)..ChunkLast(k)
         /\ AccountOf(at[k]) \in Accounts
         /\ \A j \in Task \ {k} : at[k] \notin at[j]..ChunkLast(j)
<1>1. at[k] \in TxIndex /\ at[k] \in ChunkFirst(k)..ChunkLast(k)
  BY ChunkBounds, Sizes DEF AllocatorTypeOK, TxIndex
<1>2. ASSUME NEW j \in Task, j # k PROVE at[k] \notin at[j]..ChunkLast(j)
  <2>1. /\ at[j] \in Nat /\ at[j] >= ChunkFirst(j) /\ at[k] \in Nat
        /\ j \in Int /\ k \in Int
    BY ChunkBounds DEF AllocatorTypeOK, Task
  <2>2. CASE j < k
    <3>1. ChunkLast(j) < at[k]
      BY <1>1, <2>1, <2>2, ChunkBounds, ChunksDisjoint
    <3> QED
      BY <2>1, <3>1, ChunkBounds
  <2>3. CASE k < j
    <3>1. at[k] < at[j]
      BY <1>1, <2>1, <2>3, ChunkBounds, ChunksDisjoint
    <3> QED
      BY <2>1, <3>1, ChunkBounds
  <2> QED
    BY <1>2, <2>1, <2>2, <2>3
<1> QED
  BY <1>1, <1>2, AccountOfTx

(* At the start no nonce is given. *)
LEMMA AllocatorInit == Init => AllocatorInv
<1> SUFFICES ASSUME Init PROVE AllocatorInv
  OBVIOUS
<1>1. AllocatorTypeOK
  <2>1. \A k \in Task : ChunkFirst(k) \in Nat /\ ChunkFirst(k) \in ChunkFirst(k)..(ChunkLast(k) + 1)
    BY ChunkBounds
  <2> QED
    BY <2>1, BuildAssumption DEF Init, AllocatorTypeOK
<1>2. \A k \in Task : InChunk(k) /\ HasFetched(k)
  BY DEF Init, InChunk, HasFetched
<1>3. ASSUME NEW i \in TxIndex PROVE nonce[i] = NoNonce
  BY DEF Init
<1>4. \A k \in Task : RestUngiven(k)
  <2>1. \A k \in Task : at[k]..ChunkLast(k) \subseteq TxIndex
    BY ChunkBounds, Sizes DEF Init, TxIndex
  <2> QED
    BY <1>3, <2>1 DEF RestUngiven
<1>5. NoncesContiguous
  <2>1. \A a \in Accounts : nonces[a] = NoNonce /\ Given(a) = {}
    BY <1>3 DEF Init, Given
  <2> QED
    BY <2>1 DEF NoncesContiguous
<1> QED
  BY <1>1, <1>2, <1>4, <1>5 DEF AllocatorInv

(* A step that gives no nonce and moves no task. *)
LEMMA AllocatorSame ==
  ASSUME AllocatorInv, UNCHANGED <<nonces, nonce, at, fetched>>,
         remote' \in [Accounts -> Nat],
         step' \in [Task -> {"next", "fetch", "allocate", "create", "sign", "panicked"}],
         \A k \in Task :
           \/ step'[k] \in {step[k], "panicked"}
           \/ step[k] = "create" /\ step'[k] = "sign"
  PROVE  AllocatorInv'
<1>1. AllocatorTypeOK'
  BY DEF AllocatorInv, AllocatorTypeOK, ChunkFirst, ChunkLast
<1>2. ASSUME NEW k \in Task PROVE InChunk(k)'
  BY DEF AllocatorInv, InChunk
<1>3. ASSUME NonceFrom = NoNonce, NEW k \in Task PROVE (RestUngiven(k) /\ HasFetched(k))'
  BY <1>3 DEF AllocatorInv, RestUngiven, HasFetched
<1>4. NoncesContiguous'
  BY DEF AllocatorInv, NoncesContiguous, Given
<1> QED
  BY <1>1, <1>2, <1>3, <1>4 DEF AllocatorInv

(* Taking the next parameters gives a nonce only if one is configured. *)
LEMMA AllocatorTakeParams ==
  ASSUME AllocatorInv, NEW k \in Task, TakeParams(k)
  PROVE  AllocatorInv'
<1>1. at[k] <= ChunkLast(k) /\ step[k] = "next" /\ at' = at /\ AllocatorTypeOK
  BY DEF TakeParams, AllocatorInv
<1>2. at[k] \in TxIndex /\ at[k] \in at[k]..ChunkLast(k)
  BY <1>1, WorksOn, ChunkBounds DEF AllocatorTypeOK
<1>3. NonceParam(at[k]) \in Nat \cup {NoNonce}
  <2>1. CASE NonceFrom # NoNonce
    <3>1. TxsCount \in Nat \ {0} /\ at[k] - 1 \in Nat
      BY <1>2, Sizes DEF TxIndex, N
    <3>2. (at[k] - 1) % TxsCount \in Nat
      BY <3>1
    <3> QED
      BY <2>1, <3>2, BuildAssumption DEF NonceParam
  <2> QED
    BY <2>1 DEF NonceParam
<1>4. AllocatorTypeOK'
  BY <1>1, <1>2, <1>3 DEF TakeParams, Go, AllocatorTypeOK, ChunkFirst, ChunkLast, nodeVars
<1>5. ASSUME NEW j \in Task PROVE InChunk(j)'
  BY <1>1, <1>4 DEF TakeParams, Go, AllocatorInv, AllocatorTypeOK, InChunk
<1>6. ASSUME NonceFrom = NoNonce PROVE nonce' = nonce
  <2>1. nonce[at[k]] = NoNonce
    BY <1>1, <1>2, <1>6 DEF AllocatorInv, RestUngiven
  <2> QED
    BY <1>1, <1>2, <1>6, <2>1 DEF TakeParams, NonceParam, AllocatorTypeOK
<1>7. ASSUME NonceFrom = NoNonce, NEW j \in Task PROVE (RestUngiven(j) /\ HasFetched(j))'
  <2>1. RestUngiven(j)'
    BY <1>1, <1>6, <1>7 DEF TakeParams, Go, AllocatorInv, AllocatorTypeOK, RestUngiven
  <2>2. HasFetched(j)'
    BY <1>1, <1>7 DEF TakeParams, Go, AllocatorInv, AllocatorTypeOK, HasFetched
  <2> QED
    BY <2>1, <2>2
<1>8. NoncesContiguous'
  BY <1>6 DEF TakeParams, AllocatorInv, NoncesContiguous, Given
<1> QED
  BY <1>4, <1>5, <1>7, <1>8 DEF AllocatorInv

(* The answer of the node is only kept by the task. *)
LEMMA AllocatorFetch ==
  ASSUME AllocatorInv, NEW k \in Task, Fetch(k)
  PROVE  AllocatorInv'
<1>1. /\ AllocatorTypeOK /\ step[k] = "fetch" /\ at[k] <= ChunkLast(k)
      /\ UNCHANGED <<remote, nonces, at, nonce>>
  BY DEF Fetch, AllocatorInv, InChunk, nodeVars
<1>2. remote[AccountOf(at[k])] \in Nat
  BY <1>1, WorksOn DEF AllocatorTypeOK
<1>3. AllocatorTypeOK'
  BY <1>1, <1>2 DEF Fetch, Go, AllocatorTypeOK, ChunkFirst, ChunkLast
<1>4. ASSUME NEW j \in Task PROVE InChunk(j)'
  BY <1>1 DEF Fetch, Go, AllocatorInv, AllocatorTypeOK, InChunk
<1>5. ASSUME NonceFrom = NoNonce, NEW j \in Task PROVE (RestUngiven(j) /\ HasFetched(j))'
  <2>1. RestUngiven(j)'
    BY <1>1, <1>5 DEF Fetch, Go, AllocatorInv, AllocatorTypeOK, RestUngiven
  <2>2. HasFetched(j)'
    BY <1>1, <1>2, <1>5 DEF Fetch, Go, AllocatorInv, AllocatorTypeOK, HasFetched
  <2> QED
    BY <2>1, <2>2
<1>6. NoncesContiguous'
  BY <1>1 DEF AllocatorInv, NoncesContiguous, Given
<1> QED
  BY <1>3, <1>4, <1>5, <1>6 DEF AllocatorInv

(* Under the write lock a task gets the fetched nonce or the next one. *)
LEMMA AllocatorAllocate ==
  ASSUME AllocatorInv, NEW k \in Task, Allocate(k)
  PROVE  AllocatorInv'
<1> DEFINE a == AccountOf(at[k])
           given == IF nonces[a] = NoNonce THEN fetched[k] ELSE nonces[a] + 1
<1>1. /\ AllocatorTypeOK /\ step[k] = "allocate" /\ at[k] <= ChunkLast(k)
      /\ UNCHANGED <<remote, at>>
      /\ nonces' = [nonces EXCEPT ![a] = given]
      /\ nonce' = [nonce EXCEPT ![at[k]] = given]
      /\ fetched' = [fetched EXCEPT ![k] = NoNonce]
      /\ step' = [step EXCEPT ![k] = "create"]
  BY DEF Allocate, Go, AllocatorInv, InChunk, nodeVars
<1>2. /\ at[k] \in TxIndex /\ a \in Accounts
      /\ at[k] \in at[k]..ChunkLast(k)
      /\ \A j \in Task \ {k} : at[k] \notin at[j]..ChunkLast(j)
  BY <1>1, WorksOn, ChunkBounds DEF AllocatorTypeOK
<1>3. given \in Nat \cup {NoNonce} /\ (nonces[a] # NoNonce => nonces[a] \in Nat)
  BY <1>1, <1>2 DEF AllocatorTypeOK
<1>4. AllocatorTypeOK'
  BY <1>1, <1>2, <1>3 DEF AllocatorTypeOK, ChunkFirst, ChunkLast
<1>5. ASSUME NEW j \in Task PROVE InChunk(j)'
  BY <1>1 DEF AllocatorInv, AllocatorTypeOK, InChunk
<1>6. ASSUME NonceFrom = NoNonce
      PROVE  /\ nonce[at[k]] = NoNonce
             /\ given \in Nat
             /\ nonces[a] = NoNonce => Given(a) = {}
             /\ NoNonce \notin Nat
  <2>1. nonce[at[k]] = NoNonce
    BY <1>1, <1>2, <1>6 DEF AllocatorInv, RestUngiven
  <2>2. given \in Nat
    BY <1>1, <1>2, <1>3, <1>6 DEF AllocatorInv, HasFetched
  <2>3. nonces[a] = NoNonce => Given(a) = {}
    BY <1>2, <1>6 DEF AllocatorInv, NoncesContiguous
  <2> QED
    BY <2>1, <2>2, <2>3, BuildAssumption
<1> HIDE DEF given
<1>7. ASSUME NonceFrom = NoNonce, NEW j \in Task PROVE (RestUngiven(j) /\ HasFetched(j))'
  <2>1. RestUngiven(j)'
    <3>1. SUFFICES ASSUME NEW i \in at[j]..ChunkLast(j), nonce'[i] # NoNonce
                   PROVE  i = at[j] /\ step'[j] \in {"create", "sign", "panicked"}
      BY <1>1 DEF RestUngiven, ChunkLast
    <3>2. i \in TxIndex
      BY <1>1, ChunkBounds, Sizes DEF AllocatorTypeOK, TxIndex
    <3>3. CASE j = k
      <4>1. i # at[k] => nonce'[i] = nonce[i]
        BY <1>1, <3>2 DEF AllocatorTypeOK
      <4>2. i = at[k]
        BY <1>1, <1>7, <3>1, <3>3, <4>1 DEF AllocatorInv, RestUngiven
      <4> QED
        BY <1>1, <3>3, <4>2 DEF AllocatorTypeOK
    <3>4. CASE j # k
      <4>1. nonce'[i] = nonce[i] /\ step'[j] = step[j]
        BY <1>1, <1>2, <3>2, <3>4 DEF AllocatorTypeOK
      <4> QED
        BY <1>7, <3>1, <4>1 DEF AllocatorInv, RestUngiven
    <3> QED
      BY <3>3, <3>4
  <2>2. HasFetched(j)'
    <3>1. ASSUME nonces'[AccountOf(at[j])] = NoNonce, step'[j] = "allocate"
          PROVE  fetched'[j] \in Nat
      <4>1. j # k /\ step[j] = "allocate" /\ fetched'[j] = fetched[j]
        BY <1>1, <3>1 DEF AllocatorTypeOK
      <4>2. AccountOf(at[j]) \in Accounts
        BY <1>1, <4>1, WorksOn DEF AllocatorInv, InChunk
      <4>3. nonces[AccountOf(at[j])] = NoNonce
        BY <1>1, <1>2, <1>6, <1>7, <3>1, <4>2 DEF AllocatorTypeOK
      <4> QED
        BY <1>7, <4>1, <4>3 DEF AllocatorInv, HasFetched
    <3> QED
      BY <1>1, <3>1 DEF HasFetched, AccountOf
  <2> QED
    BY <2>1, <2>2
<1>8. NoncesContiguous'
  <2>1. SUFFICES ASSUME NonceFrom = NoNonce, NEW b \in Accounts
                 PROVE  /\ \A i, j \in Given(b)' : nonce'[i] = nonce'[j] => i = j
                        /\ IF nonces'[b] = NoNonce
                           THEN Given(b)' = {}
                           ELSE \E first \in 0..nonces'[b] :
                                  {nonce'[i] : i \in Given(b)'} = first..nonces'[b]
    BY DEF NoncesContiguous, Accounts
  <2>2. /\ \A i, j \in Given(b) : nonce[i] = nonce[j] => i = j
        /\ IF nonces[b] = NoNonce
           THEN Given(b) = {}
           ELSE \E first \in 0..nonces[b] : {nonce[i] : i \in Given(b)} = first..nonces[b]
    BY <2>1 DEF AllocatorInv, NoncesContiguous
  <2>3. CASE b # a
    <3>1. nonces'[b] = nonces[b]
      BY <1>1, <2>3 DEF AllocatorTypeOK
    <3>2. /\ Given(b)' = Given(b)
          /\ \A i \in Given(b) : nonce'[i] = nonce[i]
      <4>1. ASSUME NEW i \in TxIndex, AccountOf(i) = b PROVE nonce'[i] = nonce[i]
        BY <1>1, <2>3, <4>1 DEF AllocatorTypeOK
      <4> QED
        BY <4>1 DEF Given, AccountOf, TxIndex
    <3> QED
      BY <2>2, <3>1, <3>2
  <2>4. CASE b = a
    <3>1. /\ at[k] \notin Given(b)
          /\ Given(b)' = Given(b) \cup {at[k]}
          /\ nonce'[at[k]] = given
          /\ nonces'[b] = given
          /\ \A i \in Given(b) : nonce'[i] = nonce[i]
      <4>1. nonce'[at[k]] = given /\ nonces'[b] = given /\ given # NoNonce
        BY <1>1, <1>2, <1>6, <2>1, <2>4 DEF AllocatorTypeOK
      <4>2. \A i \in TxIndex : i # at[k] => nonce'[i] = nonce[i]
        BY <1>1 DEF AllocatorTypeOK
      <4>3. at[k] \notin Given(b)
        BY <1>6, <2>1 DEF Given
      <4>4. Given(b)' = {i \in TxIndex : AccountOf(i) = b /\ nonce'[i] # NoNonce}
        BY DEF Given, AccountOf, TxIndex
      <4>5. Given(b)' = Given(b) \cup {at[k]}
        BY <1>2, <2>4, <4>1, <4>2, <4>4 DEF Given
      <4> QED
        BY <4>1, <4>2, <4>3, <4>5 DEF Given
    <3>2. given \in Nat /\ given # NoNonce
      BY <1>6, <2>1
    <3>3. CASE nonces[b] = NoNonce
      <4>1. Given(b)' = {at[k]}
        BY <1>6, <2>1, <2>4, <3>1, <3>3
      <4>2. {nonce'[i] : i \in Given(b)'} = given..given
        <5>1. {nonce'[i] : i \in Given(b)'} = {given}
          BY <3>1, <4>1
        <5> QED
          BY <3>2, <5>1
      <4>3. given \in 0..given
        BY <3>2
      <4>4. \E first \in 0..nonces'[b] : {nonce'[i] : i \in Given(b)'} = first..nonces'[b]
        BY <3>1, <4>2, <4>3
      <4> QED
        BY <3>1, <3>2, <4>1, <4>4
    <3>4. CASE nonces[b] # NoNonce
      <4>1. PICK first \in 0..nonces[b] : {nonce[i] : i \in Given(b)} = first..nonces[b]
        BY <2>2, <3>4
      <4>2. nonces[b] \in Nat /\ given = nonces[b] + 1
        BY <1>3, <2>4, <3>4 DEF given
      <4>3. {nonce'[i] : i \in Given(b)'} = {nonce[i] : i \in Given(b)} \cup {given}
        BY <3>1
      <4>4. (first..nonces[b]) \cup {given} = first..given /\ first \in 0..given
        BY <4>2
      <4>5. \A i \in Given(b) : nonce[i] # given
        <5>1. given \notin first..nonces[b]
          BY <4>2
        <5> QED
          BY <4>1, <5>1
      <4>6. \A i, j \in Given(b)' : nonce'[i] = nonce'[j] => i = j
        BY <2>2, <3>1, <4>5
      <4>7. \E m \in 0..nonces'[b] : {nonce'[i] : i \in Given(b)'} = m..nonces'[b]
        BY <3>1, <4>1, <4>3, <4>4
      <4> QED
        BY <3>1, <3>2, <4>6, <4>7
    <3> QED
      BY <3>3, <3>4
  <2> QED
    BY <2>3, <2>4
<1> QED
  BY <1>4, <1>5, <1>7, <1>8 DEF AllocatorInv

(* A transaction that is created, or signed, keeps its nonce, and the task
   moves on. *)
LEMMA AllocatorCreate ==
  ASSUME AllocatorInv, NEW k \in Task, Create(k) \/ Sign(k)
  PROVE  AllocatorInv'
<1>1. /\ AllocatorTypeOK /\ step[k] \in {"create", "sign"} /\ at[k] <= ChunkLast(k)
      /\ UNCHANGED <<remote, nonces, fetched, nonce>>
      /\ at' = [at EXCEPT ![k] = @ + 1]
      /\ step' = [step EXCEPT ![k] = "next"]
  BY DEF Create, Sign, Go, AllocatorInv, InChunk, nodeVars
<1>2. AllocatorTypeOK'
  <2>1. \A j \in Task : at'[j] \in ChunkFirst(j)..(ChunkLast(j) + 1)
    BY <1>1, ChunkBounds DEF AllocatorTypeOK
  <2> QED
    BY <1>1, <2>1 DEF AllocatorTypeOK, ChunkFirst, ChunkLast
<1>3. ASSUME NEW j \in Task PROVE InChunk(j)'
  BY <1>1 DEF AllocatorInv, AllocatorTypeOK, InChunk, ChunkLast
<1>4. ASSUME NonceFrom = NoNonce, NEW j \in Task PROVE (RestUngiven(j) /\ HasFetched(j))'
  <2>1. RestUngiven(j) /\ HasFetched(j)
    BY <1>4 DEF AllocatorInv
  <2>2. CASE j = k
    <3>1. at'[k] = at[k] + 1 /\ step'[k] = "next" /\ at[k] \in Nat
      BY <1>1 DEF AllocatorTypeOK
    <3>2. \A i \in (at[k] + 1)..ChunkLast(k) : nonce[i] = NoNonce
      BY <2>1, <2>2, <3>1, ChunkBounds DEF RestUngiven
    <3> QED
      BY <1>1, <2>2, <3>1, <3>2 DEF RestUngiven, HasFetched, ChunkLast
  <2>3. CASE j # k
    <3>1. at'[j] = at[j] /\ step'[j] = step[j]
      BY <1>1, <2>3 DEF AllocatorTypeOK
    <3> QED
      BY <1>1, <2>1, <3>1 DEF RestUngiven, HasFetched, ChunkLast, AccountOf
  <2> QED
    BY <2>2, <2>3
<1>5. NoncesContiguous'
  BY <1>1 DEF AllocatorInv, NoncesContiguous, Given
<1> QED
  BY <1>2, <1>3, <1>4, <1>5 DEF AllocatorInv

(* Every step of the build preserves the allocator's invariant. *)
LEMMA AllocatorStep == AllocatorInv /\ [Next]_vars => AllocatorInv'
<1> SUFFICES ASSUME AllocatorInv, [Next]_vars PROVE AllocatorInv'
  OBVIOUS
<1>1. AllocatorTypeOK
  BY DEF AllocatorInv
<1>2. ASSUME NEW k \in Task, TaskStep(k) PROVE AllocatorInv'
  <2>1. CASE CreatePartial(k) \/ CreateFails(k) \/ RequestFails(k)
    <3>1. /\ UNCHANGED <<nonces, nonce, at, fetched>>
          /\ remote' = remote
      BY <2>1 DEF CreatePartial, CreateFails, RequestFails, nodeVars
    <3>2. /\ step' \in [Task -> {"next", "fetch", "allocate", "create", "sign", "panicked"}]
          /\ \A j \in Task :
               \/ step'[j] \in {step[j], "panicked"}
               \/ step[j] = "create" /\ step'[j] = "sign"
      BY <1>1, <2>1 DEF CreatePartial, CreateFails, RequestFails, Go, AllocatorTypeOK
    <3> QED
      BY <1>1, <3>1, <3>2, AllocatorSame DEF AllocatorTypeOK
  <2> QED
    BY <1>2, <2>1, AllocatorTakeParams, AllocatorFetch, AllocatorAllocate, AllocatorCreate
       DEF TaskStep
<1>3. ASSUME NEW a \in Accounts, Advance(a) PROVE AllocatorInv'
  <2>1. remote' \in [Accounts -> Nat]
    BY <1>1, <1>3 DEF Advance, AllocatorTypeOK
  <2> QED
    BY <1>1, <1>3, <2>1, AllocatorSame DEF Advance, taskVars, AllocatorTypeOK
<1>4. CASE BlockFinalized \/ Join \/ Finish \/ Over \/ UNCHANGED vars
  <2>1. UNCHANGED <<remote, nonces, nonce, at, fetched, step>>
    BY <1>4 DEF BlockFinalized, Join, Finish, Over, vars, nodeVars, taskVars
  <2> QED
    BY <1>1, <2>1, AllocatorSame DEF AllocatorTypeOK
<1> QED
  BY <1>2, <1>3, <1>4 DEF Next

(* The sink's allocator gives every account distinct nonces without a gap,
   for any number of accounts, transactions and tasks, in any interleaving of
   their reads, requests and writes, and however the node's nonces move. *)
THEOREM NoncesAreContiguous == Spec => []NoncesContiguous
<1>1. Init => AllocatorInv
  BY AllocatorInit
<1>2. AllocatorInv /\ [Next]_vars => AllocatorInv'
  BY AllocatorStep
<1>3. AllocatorInv => NoncesContiguous
  BY DEF AllocatorInv
<1> QED
  BY <1>1, <1>2, <1>3, PTL DEF Spec

-------------------------------------------------------------------------------
(* Every mortality has an era, of one of the lengths. *)
LEMMA EraPeriodExists ==
  ASSUME NEW blocks \in Nat
  PROVE  EraPeriod(blocks) \in EraPeriods
<1>1. CASE blocks > 65536
  BY <1>1 DEF EraPeriod, EraPeriods
<1>2. CASE blocks <= 65536
  <2> DEFINE Least(p) == blocks <= p /\ \A q \in EraPeriods : blocks <= q => p <= q
  <2>1. \E p \in EraPeriods : Least(p)
    BY <1>2, SMTT(30) DEF EraPeriods
  <2>2. (CHOOSE p \in EraPeriods : Least(p)) \in EraPeriods
    BY <2>1
  <2> QED
    BY <1>2, <2>2 DEF EraPeriod
<1> QED
  BY <1>1, <1>2

(* An era begins at the block it is asked for at, or before. *)
LEMMA EraBeginsInThePast ==
  ASSUME NEW blocks \in Nat, NEW current \in Nat
  PROVE  EraBegin(blocks, current) \in Nat /\ EraBegin(blocks, current) <= current
<1> DEFINE quantum == IF EraPeriod(blocks) > 4096 THEN EraPeriod(blocks) \div 4096 ELSE 1
<1>1. quantum \in Nat \ {0}
  BY EraPeriodExists DEF EraPeriods
<1>2. EraBegin(blocks, current) = current - (current % quantum)
  BY DEF EraBegin
<1> HIDE DEF quantum
<1>3. /\ current = quantum * (current \div quantum) + (current % quantum)
      /\ current % quantum \in Nat /\ current \div quantum \in Nat
  BY <1>1, Division
<1>4. quantum * (current \div quantum) \in Nat
  BY <1>1, <1>3
<1> QED
  BY <1>2, <1>3, <1>4

(* At the start nothing is born. *)
LEMMA LifetimeInit == Init => LifetimeInv
<1> SUFFICES ASSUME Init PROVE LifetimeInv
  OBVIOUS
<1>1. LifetimeTypeOK /\ BornInThePast /\ EarlyOnlyByRounding
  BY DEF Init, LifetimeTypeOK, BornInThePast, EarlyOnlyByRounding
<1>2. RestUntold
  <2>1. \A k \in Task : at[k]..ChunkLast(k) \subseteq TxIndex
    BY ChunkBounds, Sizes DEF Init, TxIndex
  <2> QED
    BY <2>1 DEF Init, RestUntold
<1> QED
  BY <1>1, <1>2 DEF LifetimeInv

(* A step that tells of nothing, moves no task and brings none to signing. *)
LEMMA LifetimeSame ==
  ASSUME LifetimeInv, UNCHANGED <<at, mortality, born, valid_until>>,
         finalized' \in Nat, finalized <= finalized',
         \A k \in Task : step'[k] = "sign" => step[k] = "sign"
  PROVE  LifetimeInv'
<1>1. LifetimeTypeOK'
  BY DEF LifetimeInv, LifetimeTypeOK, TxIndex
<1>2. BornInThePast'
  <2>1. ASSUME NEW i \in TxIndex, born[i] # Immortal PROVE born[i] <= finalized'
    <3>1. born[i] \in Nat /\ born[i] <= finalized /\ finalized \in Nat
      BY <2>1 DEF LifetimeInv, LifetimeTypeOK, BornInThePast
    <3> QED
      BY <3>1
  <2> QED
    BY <2>1 DEF LifetimeInv, BornInThePast, Mortal, TxIndex
<1>3. RestUntold' /\ EarlyOnlyByRounding'
  BY DEF LifetimeInv, RestUntold, EarlyOnlyByRounding, LastBlock, ChunkLast, TxIndex
<1> QED
  BY <1>1, <1>2, <1>3 DEF LifetimeInv

(* A transaction's era begins at a block that is finalized already. *)
LEMMA LifetimeCreatePartial ==
  ASSUME AllocatorInv, LifetimeInv, NEW k \in Task, CreatePartial(k)
  PROVE  LifetimeInv'
<1>1. /\ AllocatorTypeOK /\ step[k] = "create" /\ at[k] <= ChunkLast(k) /\ Mortal
      /\ UNCHANGED <<finalized, at, mortality, valid_until>>
      /\ born' = [born EXCEPT ![at[k]] = EraBegin(mortality, finalized)]
      /\ step' = [step EXCEPT ![k] = "sign"]
  BY DEF CreatePartial, Go, AllocatorInv, InChunk, nodeVars
<1>2. /\ at[k] \in TxIndex /\ at[k] \in at[k]..ChunkLast(k)
      /\ finalized \in Nat /\ Immortal \notin Nat
      /\ born \in [TxIndex -> Nat \cup {Immortal}]
  BY <1>1, WorksOn, ChunkBounds, BuildAssumption DEF AllocatorTypeOK, LifetimeInv, LifetimeTypeOK
<1> DEFINE begin == EraBegin(mortality, finalized)
<1>3. begin \in Nat /\ begin <= finalized
  <2>1. mortality \in Nat
    BY <1>1, BuildAssumption DEF LifetimeInv, LifetimeTypeOK, Mortal
  <2> QED
    BY <1>2, <2>1, EraBeginsInThePast
<1> HIDE DEF begin
<1>4. born' = [born EXCEPT ![at[k]] = begin]
  BY <1>1 DEF begin
<1>5. LifetimeTypeOK'
  BY <1>1, <1>2, <1>3, <1>4 DEF LifetimeInv, LifetimeTypeOK, TxIndex
<1>6. BornInThePast'
  <2>1. ASSUME NEW i \in TxIndex, born'[i] # Immortal PROVE born'[i] <= finalized
    BY <1>2, <1>3, <1>4, <2>1 DEF LifetimeInv, BornInThePast
  <2>2. ASSUME NEW j \in Task, step'[j] = "sign" PROVE born'[at[j]] # Immortal
    <3>1. CASE j = k
      BY <1>1, <1>2, <1>3, <1>4, <3>1
    <3>2. CASE j # k
      <4>1. step[j] = "sign"
        BY <1>1, <2>2, <3>2 DEF AllocatorTypeOK
      <4>2. at[j] \in TxIndex /\ born[at[j]] # Immortal
        BY <1>1, <4>1, WorksOn DEF AllocatorInv, InChunk, LifetimeInv, BornInThePast
      <4> QED
        BY <1>1, <1>2, <1>3, <1>4, <4>2
    <3> QED
      BY <3>1, <3>2
  <2> QED
    BY <1>1, <2>1, <2>2 DEF BornInThePast, Mortal, TxIndex
<1>7. RestUntold'
  BY <1>1 DEF LifetimeInv, RestUntold, ChunkLast
<1>8. EarlyOnlyByRounding'
  <2>1. valid_until[at[k]] = Immortal
    BY <1>2 DEF LifetimeInv, RestUntold
  <2>2. ASSUME NEW i \in TxIndex, valid_until[i] # Immortal PROVE born'[i] = born[i]
    BY <1>1, <1>2, <2>1, <2>2
  <2> QED
    BY <1>1, <2>2 DEF LifetimeInv, EarlyOnlyByRounding, LastBlock, TxIndex
<1> QED
  BY <1>5, <1>6, <1>7, <1>8 DEF LifetimeInv

(* What the monitor is told is counted from a block no older than that. *)
LEMMA LifetimeFinish ==
  ASSUME AllocatorInv, LifetimeInv, NEW k \in Task, Create(k) \/ Sign(k)
  PROVE  LifetimeInv'
<1> DEFINE told == finalized + mortality
<1>1. /\ AllocatorTypeOK /\ step[k] \in {"create", "sign"} /\ at[k] <= ChunkLast(k)
      /\ UNCHANGED <<finalized, mortality, born>>
      /\ at' = [at EXCEPT ![k] = @ + 1]
      /\ step' = [step EXCEPT ![k] = "next"]
      /\ \/ valid_until' = valid_until
         \/ step[k] = "sign" /\ valid_until' = [valid_until EXCEPT ![at[k]] = told]
  BY DEF Create, Sign, Go, AllocatorInv, InChunk, nodeVars, lifeVars
<1>2. /\ at[k] \in TxIndex
      /\ \A j \in Task \ {k} : at[k] \notin at[j]..ChunkLast(j)
      /\ finalized \in Nat /\ Immortal \notin Nat
      /\ born \in [TxIndex -> Nat \cup {Immortal}]
      /\ valid_until \in [TxIndex -> Nat \cup {Immortal}]
      /\ mortality \in Nat \cup {Immortal}
  BY <1>1, WorksOn, BuildAssumption DEF LifetimeInv, LifetimeTypeOK
<1>3. ASSUME step[k] = "sign"
      PROVE  /\ mortality \in Nat /\ told \in Nat
             /\ LastBlock(at[k]) - told < EraPeriod(mortality) - mortality
  <2>1. mortality \in Nat /\ born[at[k]] \in Nat /\ born[at[k]] <= finalized
    BY <1>2, <1>3 DEF LifetimeInv, BornInThePast, Mortal
  <2>2. EraPeriod(mortality) \in Nat
    BY <2>1, EraPeriodExists DEF EraPeriods
  <2> QED
    BY <1>2, <2>1, <2>2 DEF LastBlock
<1> HIDE DEF told
<1>4. LifetimeTypeOK'
  BY <1>1, <1>2, <1>3 DEF LifetimeInv, LifetimeTypeOK, TxIndex
<1>5. BornInThePast'
  <2>1. ASSUME NEW j \in Task, step'[j] = "sign" PROVE step[j] = "sign" /\ at'[j] = at[j]
    BY <1>1, <2>1 DEF AllocatorTypeOK
  <2> QED
    BY <1>1, <2>1 DEF LifetimeInv, BornInThePast, Mortal, TxIndex
<1>6. RestUntold'
  <2>1. SUFFICES ASSUME NEW j \in Task, NEW i \in at'[j]..ChunkLast(j)
                 PROVE  valid_until'[i] = Immortal
    BY <1>1 DEF RestUntold, ChunkLast
  <2>2. at[j] \in Nat /\ at'[j] \in {at[j], at[j] + 1} /\ (j = k => at'[j] = at[j] + 1)
    BY <1>1 DEF AllocatorTypeOK
  <2>3. i \in at[j]..ChunkLast(j) /\ i # at[k]
    <3>1. i \in at[j]..ChunkLast(j)
      BY <2>2, ChunkBounds
    <3>2. CASE j = k
      BY <2>2, <3>1, <3>2, ChunkBounds
    <3>3. CASE j # k
      BY <1>2, <3>1, <3>3
    <3> QED
      BY <3>1, <3>2, <3>3
  <2>4. i \in TxIndex
    BY <1>1, <2>3, ChunkBounds, Sizes DEF AllocatorTypeOK, TxIndex
  <2>5. valid_until[i] = Immortal
    BY <2>3 DEF LifetimeInv, RestUntold
  <2> QED
    BY <1>1, <1>2, <2>3, <2>4, <2>5
<1>7. EarlyOnlyByRounding'
  <2>1. SUFFICES ASSUME NEW i \in TxIndex, valid_until'[i] # Immortal
                 PROVE  LastBlock(i) - valid_until'[i] < EraPeriod(mortality) - mortality
    BY <1>1 DEF EarlyOnlyByRounding, LastBlock, TxIndex
  <2>2. CASE valid_until'[i] = valid_until[i]
    BY <2>1, <2>2 DEF LifetimeInv, EarlyOnlyByRounding
  <2>3. CASE valid_until'[i] # valid_until[i]
    <3>1. step[k] = "sign" /\ i = at[k] /\ valid_until'[i] = told
      BY <1>1, <1>2, <2>3
    <3> QED
      BY <1>3, <3>1
  <2> QED
    BY <2>2, <2>3
<1> QED
  BY <1>4, <1>5, <1>6, <1>7 DEF LifetimeInv

(* Every step of the build preserves it. *)
LEMMA LifetimeStep == AllocatorInv /\ LifetimeInv /\ [Next]_vars => LifetimeInv'
<1> SUFFICES ASSUME AllocatorInv, LifetimeInv, [Next]_vars PROVE LifetimeInv'
  OBVIOUS
<1>1. AllocatorTypeOK /\ finalized \in Nat
  BY DEF AllocatorInv, LifetimeInv, LifetimeTypeOK
<1>2. ASSUME NEW k \in Task, TaskStep(k) PROVE LifetimeInv'
  <2>1. CASE TakeParams(k) \/ Fetch(k) \/ Allocate(k) \/ CreateFails(k) \/ RequestFails(k)
    <3>1. UNCHANGED <<finalized, at, mortality, born, valid_until>>
      BY <2>1 DEF TakeParams, Fetch, Allocate, CreateFails, RequestFails, nodeVars, lifeVars
    <3>2. \A j \in Task : step'[j] = "sign" => step[j] = "sign"
      BY <1>1, <2>1
         DEF TakeParams, Fetch, Allocate, CreateFails, RequestFails, Go, AllocatorTypeOK
    <3> QED
      BY <1>1, <3>1, <3>2, LifetimeSame
  <2> QED
    BY <1>2, <2>1, LifetimeCreatePartial, LifetimeFinish DEF TaskStep
<1>3. CASE BlockFinalized \/ Join \/ Finish \/ Over \/ UNCHANGED vars
  <2>1. /\ UNCHANGED <<at, mortality, born, valid_until, step>>
        /\ finalized' \in {finalized, finalized + 1}
    BY <1>3 DEF BlockFinalized, Join, Finish, Over, vars, nodeVars, taskVars, lifeVars
  <2> QED
    BY <1>1, <2>1, LifetimeSame
<1>4. ASSUME NEW a \in Accounts, Advance(a) PROVE LifetimeInv'
  <2>1. UNCHANGED <<finalized, at, mortality, born, valid_until, step>>
    BY <1>4 DEF Advance, taskVars, lifeVars
  <2> QED
    BY <1>1, <2>1, LifetimeSame
<1> QED
  BY <1>2, <1>3, <1>4 DEF Next

(* The block monitor is told to give a transaction up no more blocks too early
   than the library rounds its mortality up by, for every mortality and whatever
   comes between the two requests for a block (subxt_transaction.rs:559-606). *)
THEOREM GivenUpEarlyOnlyByRounding == Spec => []EarlyOnlyByRounding
<1>1. Init => AllocatorInv /\ LifetimeInv
  BY AllocatorInit, LifetimeInit
<1>2. AllocatorInv /\ LifetimeInv /\ [Next]_vars => (AllocatorInv /\ LifetimeInv)'
  BY AllocatorStep, LifetimeStep
<1>3. LifetimeInv => EarlyOnlyByRounding
  BY DEF LifetimeInv
<1> QED
  BY <1>1, <1>2, <1>3, PTL DEF Spec

-------------------------------------------------------------------------------
(* What sorting computes (scenario.rs:541). *)

(* Ranks are in 1..n, in the order of the nonces, and no two are the same. *)
LEMMA Ranks ==
  ASSUME NEW n \in Nat, NEW txs, DOMAIN txs = 1..n, \A i \in 1..n : txs[i].nonce \in Nat
  PROVE  /\ \A i \in 1..n : Rank(txs, i) \in 1..n
         /\ \A i, j \in 1..n : Before(txs, i, j) => Rank(txs, i) < Rank(txs, j)
         /\ \A i, j \in 1..n : i # j => Rank(txs, i) # Rank(txs, j)
<1> DEFINE P(j) == {i \in 1..n : Before(txs, i, j)}
<1>1. \A j \in 1..n : Rank(txs, j) = Cardinality(P(j)) + 1
  BY DEF Rank
<1>2. IsFiniteSet(1..n) /\ Cardinality(1..n) = n
  BY FS_Interval
<1>3. \A i, j \in 1..n : i # j => Before(txs, i, j) \/ Before(txs, j, i)
  BY DEF Before
<1>4. \A i \in 1..n : ~Before(txs, i, i)
  BY DEF Before
<1>5. \A h, i, j \in 1..n : Before(txs, h, i) /\ Before(txs, i, j) => Before(txs, h, j)
  BY DEF Before
<1>6. ASSUME NEW j \in 1..n
      PROVE  IsFiniteSet(P(j)) /\ Cardinality(P(j)) \in 0..(n - 1)
  <2>1. P(j) \in SUBSET ((1..n) \ {j})
    BY <1>4
  <2>2. IsFiniteSet((1..n) \ {j}) /\ Cardinality((1..n) \ {j}) = n - 1
    BY <1>2, FS_RemoveElement
  <2>3. IsFiniteSet(P(j)) /\ Cardinality(P(j)) <= n - 1
    BY <2>1, <2>2, FS_Subset, Zenon
  <2>4. Cardinality(P(j)) \in Nat
    BY <2>3, FS_CardinalityType
  <2> HIDE DEF P
  <2> QED
    BY <2>3, <2>4
<1>7. ASSUME NEW i \in 1..n, NEW j \in 1..n, Before(txs, i, j)
      PROVE  Cardinality(P(i)) < Cardinality(P(j))
  <2>1. P(i) \in SUBSET P(j)
    BY <1>5, <1>7
  <2>2. i \in P(j) /\ i \notin P(i)
    BY <1>4, <1>7
  <2> HIDE DEF P
  <2>3. Cardinality(P(i)) <= Cardinality(P(j)) /\ Cardinality(P(i)) # Cardinality(P(j))
    BY <1>6, <2>1, <2>2, FS_Subset
  <2> QED
    BY <1>6, <2>3
<1> HIDE DEF P
<1>8. \A i \in 1..n : Rank(txs, i) \in 1..n
  BY <1>1, <1>6
<1>9. \A i, j \in 1..n : Before(txs, i, j) => Rank(txs, i) < Rank(txs, j)
  BY <1>1, <1>6, <1>7
<1>10. ASSUME NEW i \in 1..n, NEW j \in 1..n, i # j
       PROVE  Rank(txs, i) # Rank(txs, j)
  <2>1. Rank(txs, i) \in Int /\ Rank(txs, j) \in Int
    BY <1>8
  <2>2. Rank(txs, i) < Rank(txs, j) \/ Rank(txs, j) < Rank(txs, i)
    BY <1>3, <1>9, <1>10
  <2> QED
    BY <2>1, <2>2
<1> QED
  BY <1>8, <1>9, <1>10, Zenon

(* The sorted sequence has all of them, once each, in the order of their
   nonces. *)
LEMMA Sorting ==
  ASSUME NEW n \in Nat, NEW txs, DOMAIN txs = 1..n, \A i \in 1..n : txs[i].nonce \in Nat
  PROVE  \E order \in Bijection(1..n, 1..n) :
           /\ SortedByNonce(txs) = [r \in 1..n |-> txs[order[r]]]
           /\ \A q, r \in 1..n : q < r => txs[order[q]].nonce <= txs[order[r]].nonce
<1> DEFINE rank  == [i \in 1..n |-> Rank(txs, i)]
           order == [r \in 1..n |-> CHOOSE i \in 1..n : Rank(txs, i) = r]
<1>1. IsFiniteSet(1..n)
  BY FS_Interval
<1>2. rank \in Injection(1..n, 1..n)
  BY Ranks DEF Injection, IsInjective
<1>3. rank \in Surjection(1..n, 1..n)
  BY <1>1, <1>2, FS_Injection
<1>4. \A r \in 1..n : \E i \in 1..n : Rank(txs, i) = r
  BY <1>3 DEF Surjection
<1>5. \A r \in 1..n : order[r] \in 1..n /\ Rank(txs, order[r]) = r
  BY <1>4
<1>6. SortedByNonce(txs) = [r \in 1..n |-> txs[order[r]]]
  BY DEF SortedByNonce
<1>7. \A i \in 1..n : order[Rank(txs, i)] = i
  BY <1>5, Ranks
<1>8. order \in [1..n -> 1..n]
  BY <1>5
<1> HIDE DEF order
<1>9. order \in Bijection(1..n, 1..n)
  <2>1. order \in Injection(1..n, 1..n)
    BY <1>5, <1>8 DEF Injection, IsInjective
  <2>2. order \in Surjection(1..n, 1..n)
    BY <1>7, <1>8, Ranks DEF Surjection
  <2> QED
    BY <2>1, <2>2 DEF Bijection
<1>10. ASSUME NEW q \in 1..n, NEW r \in 1..n, q < r
       PROVE  txs[order[q]].nonce <= txs[order[r]].nonce
  <2>1. /\ order[q] \in 1..n /\ Rank(txs, order[q]) = q
        /\ order[r] \in 1..n /\ Rank(txs, order[r]) = r
    BY <1>5
  <2> HIDE DEF rank
  <2>2. Before(txs, order[r], order[q]) => r < q
    <3>1. Before(txs, order[r], order[q]) => Rank(txs, order[r]) < Rank(txs, order[q])
      BY <2>1, Ranks, Zenon
    <3> QED
      BY <2>1, <3>1
  <2>3. ~Before(txs, order[r], order[q])
    BY <1>10, <2>2
  <2> QED
    BY <2>1, <2>3 DEF Before
<1> QED
  BY <1>6, <1>9, <1>10

-------------------------------------------------------------------------------
(* An account's transactions (scenario.rs:473-491). *)

OfAccount(a) == {i \in TxIndex : AccountOf(i) = a}

(* They stand one after the other, as many as txs_count. *)
LEMMA OwnInterval ==
  ASSUME NEW a \in Accounts
  PROVE  /\ IsFiniteSet(OfAccount(a)) /\ Cardinality(OfAccount(a)) = TxsCount
         /\ \E before \in Nat :
              /\ OfAccount(a) = (before + 1)..(before + TxsCount)
              /\ \A i \in OfAccount(a) : (i - 1) % TxsCount = i - 1 - before
<1>1. PICK p \in 1..Len(AccountIds) : AccountIds[p] = a
  BY BuildAssumption DEF Accounts, Range
<1> DEFINE before == TxsCount * (p - 1)
<1>2. /\ p \in Nat \ {0} /\ TxsCount \in Nat /\ before \in Nat /\ N \in Nat
      /\ Len(AccountIds) \in Nat
  BY Sizes
<1>3. before + TxsCount <= N
  <2>1. before + TxsCount = p * TxsCount
    BY <1>2
  <2>2. p * TxsCount <= Len(AccountIds) * TxsCount
    BY <1>2, ProductMonotone
  <2> QED
    BY <2>1, <2>2 DEF N
<1>4. ASSUME NEW i \in TxIndex
      PROVE  /\ AccountOf(i) = a <=> i \in (before + 1)..(before + TxsCount)
             /\ AccountOf(i) = a => (i - 1) % TxsCount = i - 1 - before
  <2> DEFINE q == (i - 1) \div TxsCount
             past == TxsCount * q
  <2>1. i - 1 \in Nat /\ i \in Nat /\ TxsCount \in Nat \ {0}
    BY <1>2 DEF TxIndex, N
  <2>2. /\ q \in Nat /\ past \in Nat /\ past <= i - 1 /\ i - 1 < past + TxsCount
        /\ (i - 1) % TxsCount = i - 1 - past
    <3>1. q \in Nat /\ TxsCount * q <= i - 1 /\ i - 1 < TxsCount * q + TxsCount
      BY <2>1, Division
    <3>2. (i - 1) % TxsCount = i - 1 - TxsCount * q
      BY <2>1
    <3>3. TxsCount * q \in Nat
      BY <2>1, <3>1
    <3> QED
      BY <3>1, <3>2, <3>3
  <2>3. q + 1 \in 1..Len(AccountIds)
    <3>1. ASSUME q >= Len(AccountIds) PROVE FALSE
      <4>1. TxsCount * Len(AccountIds) <= past
        BY <1>2, <2>1, <2>2, <3>1, ProductMonotone
      <4>2. i <= TxsCount * Len(AccountIds) /\ TxsCount * Len(AccountIds) \in Nat
        BY <1>2 DEF TxIndex, N
      <4> QED
        BY <2>1, <2>2, <4>1, <4>2
    <3> QED
      BY <1>2, <2>2, <3>1
  <2>4. AccountOf(i) = a <=> q = p - 1
    <3>1. AccountOf(i) = AccountIds[q + 1]
      BY DEF AccountOf
    <3>2. AccountIds[q + 1] = AccountIds[p] <=> q + 1 = p
      <4>1. DOMAIN AccountIds = 1..Len(AccountIds)
        BY BuildAssumption
      <4> QED
        BY <2>3, <4>1, BuildAssumption DEF IsInjective
    <3> QED
      BY <1>1, <1>2, <2>2, <3>1, <3>2
  <2>5. q = p - 1 => past = before
    OBVIOUS
  <2> HIDE DEF past, before
  <2>6. ASSUME q < p - 1 PROVE past + TxsCount <= before
    <3>1. TxsCount * (q + 1) <= TxsCount * (p - 1)
      BY <1>2, <2>1, <2>2, <2>6, ProductMonotone
    <3>2. TxsCount * (q + 1) = TxsCount * q + TxsCount
      BY <2>1, <2>2
    <3> QED
      BY <3>1, <3>2 DEF past, before
  <2>7. ASSUME q > p - 1 PROVE before + TxsCount <= past
    <3>1. TxsCount * p <= TxsCount * q
      BY <1>2, <2>1, <2>2, <2>7, ProductMonotone
    <3>2. TxsCount * p = TxsCount * (p - 1) + TxsCount
      BY <1>2, <2>1
    <3> QED
      BY <3>1, <3>2 DEF past, before
  <2> HIDE DEF q
  <2> QED
    BY <1>2, <2>1, <2>2, <2>4, <2>5, <2>6, <2>7
<1> HIDE DEF before
<1>5. OfAccount(a) = (before + 1)..(before + TxsCount)
  <2>1. (before + 1)..(before + TxsCount) \subseteq TxIndex
    BY <1>2, <1>3 DEF TxIndex
  <2> QED
    BY <1>4, <2>1 DEF OfAccount
<1>6. /\ IsFiniteSet((before + 1)..(before + TxsCount))
      /\ Cardinality((before + 1)..(before + TxsCount)) = TxsCount
  <2> DEFINE low  == before + 1
             high == before + TxsCount
  <2>1. low \in Int /\ high \in Int
    BY <1>2
  <2>2. (IF low > high THEN 0 ELSE high - low + 1) = TxsCount
    BY <1>2
  <2> HIDE DEF low, high
  <2>3. /\ IsFiniteSet(low..high)
        /\ Cardinality(low..high) = IF low > high THEN 0 ELSE high - low + 1
    BY <2>1, FS_Interval
  <2> QED
    BY <2>2, <2>3 DEF low, high
<1>7. \A i \in OfAccount(a) : (i - 1) % TxsCount = i - 1 - before
  BY <1>4 DEF OfAccount
<1> QED
  BY <1>2, <1>5, <1>6, <1>7

(* The transaction has the nonce it was to get: the configured one, or one from
   the allocator. *)
HasNonce(i) ==
  IF NonceFrom = NoNonce THEN nonce[i] \in Nat ELSE nonce[i] = NonceParam(i)

(* Once all have their nonces, those of an account have no gap. *)
LEMMA OwnContiguous ==
  ASSUME AllocatorInv, \A i \in TxIndex : HasNonce(i), NEW a \in Accounts
  PROVE  /\ \A i \in OfAccount(a) : nonce[i] \in Nat
         /\ \A i, j \in OfAccount(a) : nonce[i] = nonce[j] => i = j
         /\ \A i, j \in OfAccount(a) :
              nonce[i] < nonce[j] => \E l \in OfAccount(a) : nonce[l] = nonce[i] + 1
<1>1. CASE NonceFrom = NoNonce
  <2>1. Given(a) = OfAccount(a) /\ \A i \in OfAccount(a) : nonce[i] \in Nat
    BY <1>1, BuildAssumption DEF Given, OfAccount, HasNonce
  <2>2. \A i, j \in OfAccount(a) : nonce[i] = nonce[j] => i = j
    BY <1>1, <2>1 DEF AllocatorInv, NoncesContiguous
  <2>3. ASSUME NEW i \in OfAccount(a), NEW j \in OfAccount(a), nonce[i] < nonce[j]
        PROVE  \E l \in OfAccount(a) : nonce[l] = nonce[i] + 1
    <3>1. nonces[a] # NoNonce /\ nonces[a] \in Nat
      BY <1>1, <2>1 DEF AllocatorInv, AllocatorTypeOK, NoncesContiguous
    <3>2. PICK first \in 0..nonces[a] : {nonce[l] : l \in OfAccount(a)} = first..nonces[a]
      BY <1>1, <2>1, <3>1 DEF AllocatorInv, NoncesContiguous
    <3>3. nonce[i] \in first..nonces[a] /\ nonce[j] \in first..nonces[a]
      BY <3>2
    <3>4. nonce[i] + 1 \in first..nonces[a]
      BY <2>3, <3>1, <3>2, <3>3
    <3> QED
      BY <3>2, <3>4
  <2> QED
    BY <2>1, <2>2, <2>3
<1>2. CASE NonceFrom # NoNonce
  <2>1. PICK before \in Nat :
          /\ OfAccount(a) = (before + 1)..(before + TxsCount)
          /\ \A i \in OfAccount(a) : (i - 1) % TxsCount = i - 1 - before
    BY OwnInterval
  <2>2. NonceFrom \in Nat /\ TxsCount \in Nat
    BY <1>2, BuildAssumption
  <2>3. \A i \in OfAccount(a) : nonce[i] = NonceFrom + (i - 1 - before)
    BY <1>2, <2>1 DEF OfAccount, HasNonce, NonceParam
  <2>4. \A i \in OfAccount(a) : i \in Nat /\ i >= before + 1 /\ i <= before + TxsCount
    BY <2>1, <2>2
  <2>5. \A i \in OfAccount(a) : nonce[i] \in Nat
    BY <2>2, <2>3, <2>4
  <2>6. ASSUME NEW i \in OfAccount(a), NEW j \in OfAccount(a), nonce[i] < nonce[j]
        PROVE  \E l \in OfAccount(a) : nonce[l] = nonce[i] + 1
    <3>1. i < j
      BY <2>2, <2>3, <2>4, <2>6
    <3>2. i + 1 \in OfAccount(a)
      BY <2>1, <2>2, <2>4, <3>1
    <3>3. nonce[i + 1] = nonce[i] + 1
      BY <2>2, <2>3, <2>4, <3>2
    <3> QED
      BY <3>2, <3>3
  <2>7. \A i, j \in OfAccount(a) : nonce[i] = nonce[j] => i = j
    BY <2>2, <2>3, <2>4
  <2> QED
    BY <2>5, <2>6, <2>7
<1> QED
  BY <1>1, <1>2

-------------------------------------------------------------------------------
(* What has been built and joined (scenario.rs:531-540). *)

Through == IF joined = 0 THEN 0 ELSE ChunkLast(joined)

JoinInv ==
  /\ joined \in 0..Threads
  /\ \A k \in Task :
       /\ NonceFrom # NoNonce => step[k] \notin {"fetch", "allocate"}
       /\ step[k] \in {"create", "sign"} => HasNonce(at[k])
       /\ \A i \in ChunkFirst(k)..(at[k] - 1) : HasNonce(i)
  /\ \A k \in 1..joined : step[k] = "next" /\ at[k] > ChunkLast(k)
  /\ results = [i \in 1..Through |-> Built(i)]
  /\ \A i \in 1..Through : HasNonce(i)
  /\ pc = "built" => joined = Threads /\ batch = ForRunner(results)

(* A chunk begins where the one before it ends; the last one ends with the last
   transaction. *)
LEMMA ChunksMeet ==
  /\ joined \in 0..Threads /\ joined < Threads =>
       joined + 1 \in Task /\ ChunkFirst(joined + 1) = Through + 1
  /\ joined \in 0..Threads => Through \in Nat /\ Through <= N
  /\ joined = Threads => Through = N
<1>1. ASSUME joined \in 0..Threads, joined < Threads
      PROVE  joined + 1 \in Task /\ ChunkFirst(joined + 1) = Through + 1
  <2>1. joined \in Nat /\ joined + 1 \in Task /\ Threads \in Nat \ {0} /\ N \in Nat
    BY <1>1, Sizes DEF Task
  <2>2. ChunkFirst(joined + 1) = (joined * N) \div Threads + 1
    <3>1. (joined + 1) - 1 = joined
      BY <2>1
    <3> QED
      BY <3>1 DEF ChunkFirst
  <2>3. CASE joined = 0
    <3>1. 0 * N = 0
      BY <2>1
    <3>2. 0 \div Threads = 0
      BY <2>1
    <3> QED
      BY <2>1, <2>2, <2>3, <3>1, <3>2 DEF Through
  <2>4. CASE joined # 0
    BY <2>1, <2>2, <2>4 DEF Through, ChunkLast
  <2> QED
    BY <2>1, <2>3, <2>4
<1>2. ASSUME joined \in 0..Threads PROVE Through \in Nat /\ Through <= N
  <2>1. joined # 0 => joined \in Task
    BY <1>2, Sizes DEF Task
  <2> QED
    BY <2>1, ChunkBounds, Sizes DEF Through
<1>3. ASSUME joined = Threads PROVE Through = N
  <2>1. CASE Threads = 0
    <3>1. N = 0
      BY <2>1, Sizes, BuildAssumption DEF Threads
    <3> QED
      BY <1>3, <2>1, <3>1 DEF Through
  <2>2. CASE Threads # 0
    <3>1. Threads \in Nat \ {0} /\ N \in Nat /\ Threads * N \in Nat
      BY <2>2, Sizes
    <3> DEFINE q == (Threads * N) \div Threads
    <3>2. q \in Nat /\ Threads * q <= Threads * N /\ Threads * N < Threads * q + Threads
      BY <3>1, Division
    <3> HIDE DEF q
    <3>3. ASSUME q < N PROVE FALSE
      <4>1. Threads * (q + 1) <= Threads * N
        BY <3>1, <3>2, <3>3, ProductMonotone
      <4>2. Threads * (q + 1) = Threads * q + Threads /\ Threads * q \in Nat
        BY <3>1, <3>2
      <4> QED
        BY <3>1, <3>2, <4>1, <4>2
    <3>4. ASSUME q > N PROVE FALSE
      <4>1. Threads * (N + 1) <= Threads * q
        BY <3>1, <3>2, <3>4, ProductMonotone
      <4>2. Threads * (N + 1) = Threads * N + Threads /\ Threads * q \in Nat
        BY <3>1, <3>2
      <4> QED
        BY <3>1, <3>2, <4>1, <4>2
    <3>5. q = N
      BY <3>1, <3>2, <3>3, <3>4
    <3> QED
      BY <1>3, <2>2, <3>5 DEF q, Through, ChunkLast
  <2> QED
    BY <2>1, <2>2
<1> QED
  BY <1>1, <1>2, <1>3

(* At the start no task has built anything. *)
LEMMA JoinInit == Init => JoinInv
<1> SUFFICES ASSUME Init PROVE JoinInv
  OBVIOUS
<1>1. /\ joined = 0 /\ results = <<>> /\ pc = "joining" /\ Through = 0
      /\ \A k \in Task : step[k] = "next" /\ at[k] = ChunkFirst(k)
  BY DEF Init, Through
<1>2. \A k \in Task : ChunkFirst(k)..(at[k] - 1) = {}
  BY <1>1, ChunkBounds
<1>3. joined \in 0..Threads
  BY <1>1, Sizes
<1> QED
  BY <1>1, <1>2, <1>3 DEF JoinInv

(* What a task does that is not joined yet leaves the nonces of the others
   alone, and those of what it has built. *)
LEMMA JoinSame ==
  ASSUME AllocatorInv, JoinInv, NEW k \in Task, k \notin 1..joined,
         UNCHANGED <<joined, results, batch, pc>>,
         \A j \in Task \ {k} : step'[j] = step[j] /\ at'[j] = at[j],
         \A i \in TxIndex : i # at[k] \/ at[k] > ChunkLast(k) => nonce'[i] = nonce[i],
         NonceFrom # NoNonce => step'[k] \notin {"fetch", "allocate"},
         step'[k] \in {"create", "sign"} => HasNonce(at[k])' /\ at'[k] = at[k],
         \/ at'[k] = at[k]
         \/ at'[k] = at[k] + 1 /\ \A i \in {at[k]} : HasNonce(i)'
  PROVE  JoinInv'
<1>1. AllocatorTypeOK /\ joined \in 0..Threads /\ k \in Nat /\ k > joined
  BY Sizes DEF AllocatorInv, JoinInv, Task
<1>2. ASSUME NEW j \in Task
      PROVE  /\ at[j] \in ChunkFirst(j)..(ChunkLast(j) + 1)
             /\ ChunkFirst(j) \in Nat \ {0} /\ ChunkLast(j) \in Nat /\ ChunkLast(j) <= N
  BY <1>1, ChunkBounds DEF AllocatorTypeOK
<1>3. ASSUME NEW i \in TxIndex, i # at[k] \/ at[k] > ChunkLast(k), HasNonce(i)
      PROVE  HasNonce(i)'
  BY <1>3 DEF HasNonce, NonceParam
<1>4. ASSUME NEW j \in Task, NEW i \in ChunkFirst(j)..(at[j] - 1) PROVE HasNonce(i)'
  <2>1. i \in TxIndex /\ i \in ChunkFirst(j)..ChunkLast(j) /\ HasNonce(i)
    BY <1>2, Sizes DEF TxIndex, JoinInv
  <2>2. CASE j = k
    BY <1>2, <1>3, <2>1, <2>2
  <2>3. CASE j < k
    <3>1. ChunkLast(j) < ChunkFirst(k)
      BY <2>3, ChunksDisjoint
    <3> QED
      BY <1>2, <1>3, <2>1, <3>1
  <2>4. CASE k < j
    <3>1. ChunkLast(k) < ChunkFirst(j)
      BY <2>4, ChunksDisjoint
    <3> QED
      BY <1>2, <1>3, <2>1, <3>1
  <2> QED
    BY <2>2, <2>3, <2>4 DEF Task
<1>5. ASSUME NEW j \in Task, NEW i \in ChunkFirst(j)..(at'[j] - 1) PROVE HasNonce(i)'
  <2>1. CASE i \in ChunkFirst(j)..(at[j] - 1)
    BY <1>4, <2>1
  <2>2. CASE i \notin ChunkFirst(j)..(at[j] - 1)
    <3>1. j = k /\ at'[k] = at[k] + 1
      BY <1>2, <2>2
    <3>2. i = at[k]
      BY <1>2, <2>2, <3>1
    <3> QED
      BY <1>2, <3>1, <3>2
  <2> QED
    BY <2>1, <2>2
<1>6. ASSUME NEW j \in Task, step'[j] \in {"create", "sign"} PROVE HasNonce(at[j])' /\ at'[j] = at[j]
  <2>1. CASE j = k
    BY <1>6, <2>1
  <2>2. CASE j # k
    <3>1. step[j] = step'[j] /\ at[j] <= ChunkLast(j) /\ HasNonce(at[j])
      BY <1>6, <2>2 DEF AllocatorInv, InChunk, JoinInv
    <3>2. at[j] \in TxIndex /\ (at[k] <= ChunkLast(k) => at[k] \notin at[j]..ChunkLast(j))
      BY <1>1, <2>2, <3>1, WorksOn
    <3>3. at[j] # at[k] \/ at[k] > ChunkLast(k)
      BY <1>2, <3>1, <3>2
    <3> QED
      BY <1>3, <2>2, <3>1, <3>2, <3>3
  <2> QED
    BY <2>1, <2>2
<1>7. ASSUME NEW i \in 1..Through
      PROVE  i \in TxIndex /\ (i # at[k] \/ at[k] > ChunkLast(k))
  <2>1. i \in Nat \ {0} /\ i <= Through /\ Through \in Nat /\ Through <= N /\ joined # 0
    BY <1>1, ChunksMeet DEF Through
  <2>2. joined \in Task
    BY <1>1, <2>1, Sizes DEF Task
  <2>3. Through < ChunkFirst(k)
    BY <1>1, <2>1, <2>2, ChunksDisjoint DEF Through
  <2> QED
    BY <1>2, <2>1, <2>3, Sizes DEF TxIndex
<1>8. Through' = Through
  BY DEF Through, ChunkLast
<1>9. /\ results' = [i \in 1..Through |-> Built(i)']
      /\ \A i \in 1..Through : HasNonce(i)'
  <2>1. \A i \in 1..Through : Built(i)' = Built(i)
    BY <1>7 DEF Built, AccountOf
  <2> QED
    BY <1>3, <1>7, <2>1 DEF JoinInv
<1>10. \A j \in 1..joined : step'[j] = "next" /\ at'[j] > ChunkLast(j)
  <2>1. ASSUME NEW j \in 1..joined PROVE j \in Task /\ j # k
    BY <1>1, Sizes DEF Task
  <2> QED
    BY <2>1 DEF JoinInv
<1>11. \A j \in Task : NonceFrom # NoNonce => step'[j] \notin {"fetch", "allocate"}
  BY DEF JoinInv
<1>12. (pc = "built" => joined = Threads /\ batch = ForRunner(results))'
  BY DEF JoinInv, ForRunner, SortedByNonce, Rank, Before
<1>13. \A j \in Task : ChunkFirst(j)' = ChunkFirst(j) /\ ChunkLast(j)' = ChunkLast(j)
  BY DEF ChunkFirst, ChunkLast
<1>14. \A j \in Task : step'[j] \in {"create", "sign"} => HasNonce(at[j])' /\ at'[j] = at[j]
  BY <1>6
<1> QED
  BY <1>1, <1>5, <1>8, <1>9, <1>10, <1>11, <1>12, <1>14 DEF JoinInv, ChunkFirst, ChunkLast, HasNonce, NonceParam

(* A step of a task. *)
LEMMA JoinTask ==
  ASSUME AllocatorInv, JoinInv, NEW k \in Task, TaskStep(k)
  PROVE  JoinInv'
<1>1. /\ AllocatorTypeOK
      /\ at \in [Task -> Nat]
      /\ step \in [Task -> {"next", "fetch", "allocate", "create", "sign", "panicked"}]
      /\ nonce \in [TxIndex -> Nat \cup {NoNonce}]
  BY DEF AllocatorInv, AllocatorTypeOK
<1>2. UNCHANGED <<joined, results, batch, pc>>
  BY DEF TaskStep, TakeParams, Fetch, Allocate, Create, CreatePartial, Sign, CreateFails,
         RequestFails, buildVars
<1>3. k \notin 1..joined
  BY <1>1, ChunkBounds DEF TaskStep, TakeParams, Fetch, Allocate, Create, CreatePartial, Sign, CreateFails,
         RequestFails, JoinInv
<1>4. \A j \in Task \ {k} : step'[j] = step[j] /\ at'[j] = at[j]
  BY <1>1 DEF TaskStep, TakeParams, Fetch, Allocate, Create, CreatePartial, Sign, CreateFails,
         RequestFails, Go
<1>5. CASE TakeParams(k)
  <2>1. /\ at' = at /\ at[k] <= ChunkLast(k)
        /\ nonce' = [nonce EXCEPT ![at[k]] = NonceParam(at[k])]
        /\ step'[k] = IF NonceFrom # NoNonce THEN "create"
                      ELSE IF nonces[AccountOf(at[k])] = NoNonce THEN "fetch" ELSE "allocate"
    BY <1>1, <1>5 DEF TakeParams, Go
  <2>2. at[k] \in TxIndex
    BY <1>1, <2>1, WorksOn
  <2>3. nonce'[at[k]] = NonceParam(at[k])
    BY <1>1, <2>1, <2>2
  <2>4. step'[k] \in {"create", "sign"} => HasNonce(at[k])'
    BY <2>1, <2>3 DEF HasNonce, NonceParam
  <2>5. \A i \in TxIndex : i # at[k] \/ at[k] > ChunkLast(k) => nonce'[i] = nonce[i]
    <3>1. ~(at[k] > ChunkLast(k))
      BY <1>1, <2>1, ChunkBounds
    <3> QED
      BY <1>1, <2>1, <3>1
  <2>6. NonceFrom # NoNonce => step'[k] \notin {"fetch", "allocate"}
    BY <2>1
  <2> QED
    BY <1>2, <1>3, <1>4, <2>1, <2>4, <2>5, <2>6, JoinSame
<1>6. CASE Allocate(k)
  <2> DEFINE a == AccountOf(at[k])
             given == IF nonces[a] = NoNonce THEN fetched[k] ELSE nonces[a] + 1
  <2>1. /\ at' = at /\ step[k] = "allocate" /\ step'[k] = "create" /\ at[k] <= ChunkLast(k)
        /\ nonce' = [nonce EXCEPT ![at[k]] = given]
        /\ NonceFrom = NoNonce
    BY <1>1, <1>6 DEF Allocate, Go, JoinInv, AllocatorInv, InChunk
  <2>2. at[k] \in TxIndex /\ a \in Accounts
    BY <1>1, <2>1, WorksOn
  <2>3. given \in Nat
    BY <1>1, <2>1, <2>2 DEF AllocatorInv, AllocatorTypeOK, HasFetched
  <2> HIDE DEF given
  <2>4. HasNonce(at[k])'
    BY <1>1, <2>1, <2>2, <2>3 DEF HasNonce
  <2>5. \A i \in TxIndex : i # at[k] \/ at[k] > ChunkLast(k) => nonce'[i] = nonce[i]
    <3>1. ~(at[k] > ChunkLast(k))
      BY <1>1, <2>1, ChunkBounds
    <3> QED
      BY <1>1, <2>1, <3>1
  <2> QED
    BY <1>2, <1>3, <1>4, <2>1, <2>4, <2>5, JoinSame
<1>7. CASE Create(k) \/ Sign(k)
  <2>1. /\ nonce' = nonce /\ step[k] \in {"create", "sign"} /\ step'[k] = "next"
        /\ at'[k] = at[k] + 1
    BY <1>1, <1>7 DEF Create, Sign, Go
  <2>2. \A i \in {at[k]} : HasNonce(i)'
    BY <2>1 DEF JoinInv, HasNonce, NonceParam
  <2>3. \A i \in TxIndex : i # at[k] \/ at[k] > ChunkLast(k) => nonce'[i] = nonce[i]
    BY <2>1
  <2> QED
    BY <1>2, <1>3, <1>4, <2>1, <2>2, <2>3, JoinSame
<1>8. CASE Fetch(k) \/ CreatePartial(k) \/ CreateFails(k) \/ RequestFails(k)
  <2>1. /\ nonce' = nonce /\ at' = at
        /\ step'[k] \in {"create", "sign"} => step[k] = "create"
        /\ step'[k] \in {"fetch", "allocate"} => step[k] = "fetch"
    BY <1>1, <1>8 DEF Fetch, CreatePartial, CreateFails, RequestFails, Go
  <2>2. step'[k] \in {"create", "sign"} => HasNonce(at[k])'
    BY <2>1 DEF JoinInv, HasNonce, NonceParam
  <2>3. NonceFrom # NoNonce => step'[k] \notin {"fetch", "allocate"}
    BY <2>1 DEF JoinInv
  <2>4. \A i \in TxIndex : i # at[k] \/ at[k] > ChunkLast(k) => nonce'[i] = nonce[i]
    BY <2>1
  <2> QED
    BY <1>2, <1>3, <1>4, <2>1, <2>2, <2>3, <2>4, JoinSame
<1> QED
  BY <1>5, <1>6, <1>7, <1>8 DEF TaskStep

(* Joining a task that is done appends its chunk. *)
LEMMA JoinJoin ==
  ASSUME AllocatorInv, JoinInv, Join
  PROVE  JoinInv'
<1>1. /\ UNCHANGED <<at, step, nonce, batch>> /\ pc = "joining" /\ joined < Threads
      /\ joined \in 0..Threads /\ pc' \in {"joining", "panicked"}
  BY DEF Join, JoinInv, taskVars
<1>2. ASSUME NEW i, HasNonce(i) PROVE HasNonce(i)'
  BY <1>1, <1>2 DEF HasNonce, NonceParam
<1>3. \A k \in Task :
        /\ NonceFrom # NoNonce => step'[k] \notin {"fetch", "allocate"}
        /\ step'[k] \in {"create", "sign"} => HasNonce(at[k])'
        /\ \A i \in ChunkFirst(k)..(at'[k] - 1) : HasNonce(i)'
  BY <1>1 DEF JoinInv, HasNonce, NonceParam
<1>4. \A i : Built(i)' = Built(i)
  BY <1>1 DEF Built, AccountOf
<1>5. CASE results' = results /\ joined' = joined
  <2>1. Through' = Through
    BY <1>5 DEF Through, ChunkLast
  <2>2. results' = [i \in 1..Through |-> Built(i)'] /\ \A i \in 1..Through : HasNonce(i)'
    BY <1>2, <1>4, <1>5 DEF JoinInv
  <2> QED
    BY <1>1, <1>3, <1>5, <2>1, <2>2 DEF JoinInv, ChunkFirst, ChunkLast
<1>6. CASE ~(results' = results /\ joined' = joined)
  <2> DEFINE k == joined + 1
             size == ChunkLast(k) - ChunkFirst(k) + 1
  <2>1. /\ step[k] = "next" /\ at[k] > ChunkLast(k) /\ joined' = k
        /\ results' = results \o [i \in 1..size |-> Built(ChunkFirst(k) + i - 1)]
        /\ pc' = "joining"
    BY <1>1, <1>6 DEF Join
  <2>2. /\ k \in Task /\ ChunkFirst(k) = Through + 1 /\ Through \in Nat
        /\ joined' \in 0..Threads /\ joined \in Nat
    BY <1>1, <2>1, ChunksMeet, Sizes
  <2>3. /\ ChunkLast(k) \in Nat /\ size \in Nat /\ ChunkLast(k) = Through + size
        /\ at[k] - 1 = ChunkLast(k)
    BY <2>1, <2>2, ChunkBounds DEF AllocatorInv, AllocatorTypeOK
  <2>4. Through' = ChunkLast(k)
    BY <2>1, <2>2 DEF Through, ChunkLast
  <2> HIDE DEF k, size
  <2>5. \A i \in 1..ChunkLast(k) : HasNonce(i)
    BY <2>2, <2>3 DEF JoinInv
  <2>6. results' = [i \in 1..ChunkLast(k) |-> Built(i)]
    <3> DEFINE chunk == [i \in 1..size |-> Built(ChunkFirst(k) + i - 1)]
    <3>1. results = [i \in 1..Through |-> Built(i)]
      BY DEF JoinInv
    <3>2. Len(results) = Through /\ Len(chunk) = size
      BY <2>2, <2>3, <3>1
    <3>3. results' = [i \in 1..(Through + size) |->
                        IF i <= Through THEN results[i] ELSE chunk[i - Through]]
      BY <2>1, <2>2, <2>3, <3>1, <3>2
    <3>4. ASSUME NEW i \in 1..(Through + size)
          PROVE  (IF i <= Through THEN results[i] ELSE chunk[i - Through]) = Built(i)
      <4>1. CASE i <= Through
        BY <2>2, <2>3, <3>1, <4>1
      <4>2. CASE ~(i <= Through)
        <5>1. i - Through \in 1..size /\ ChunkFirst(k) + (i - Through) - 1 = i
          BY <2>2, <2>3, <4>2
        <5> QED
          BY <4>2, <5>1
      <4> QED
        BY <4>1, <4>2
    <3> HIDE DEF chunk
    <3> QED
      BY <2>3, <3>3, <3>4
  <2>7. \A j \in 1..joined' : step'[j] = "next" /\ at'[j] > ChunkLast(j)
    <3>1. \A j \in 1..joined' : j \in 1..joined \/ j = k
      BY <2>1, <2>2 DEF k
    <3> QED
      BY <1>1, <2>1, <3>1 DEF JoinInv
  <2>8. results' = [i \in 1..Through' |-> Built(i)'] /\ \A i \in 1..Through' : HasNonce(i)'
    BY <1>2, <1>4, <2>4, <2>5, <2>6
  <2> QED
    BY <1>1, <1>3, <2>1, <2>2, <2>7, <2>8 DEF JoinInv, ChunkFirst, ChunkLast
<1> QED
  BY <1>5, <1>6

(* Every step of the build preserves it. *)
LEMMA JoinStep == AllocatorInv /\ JoinInv /\ [Next]_vars => JoinInv'
<1> SUFFICES ASSUME AllocatorInv, JoinInv, [Next]_vars PROVE JoinInv'
  OBVIOUS
<1>1. ASSUME NEW k \in Task, TaskStep(k) PROVE JoinInv'
  BY <1>1, JoinTask
<1>2. CASE Join
  BY <1>2, JoinJoin
<1>3. ASSUME \/ \E a \in Accounts : Advance(a)
             \/ BlockFinalized \/ Finish \/ Over \/ UNCHANGED vars
      PROVE  JoinInv'
  <2>1. UNCHANGED <<at, step, nonce, joined, results>>
    BY <1>3 DEF Advance, BlockFinalized, Finish, Over, vars, taskVars, buildVars
  <2>2. (pc = "built" => joined = Threads /\ batch = ForRunner(results))'
    <3>1. \/ pc' = "built" /\ joined = Threads /\ batch' = ForRunner(results)
          \/ UNCHANGED <<pc, batch>>
      BY <1>3 DEF Advance, BlockFinalized, Finish, Over, vars, buildVars
    <3>2. (ForRunner(results))' = ForRunner(results)
      BY <2>1 DEF ForRunner, SortedByNonce, Rank, Before
    <3> QED
      BY <2>1, <3>1, <3>2 DEF JoinInv
  <2>3. Through' = Through
    BY <2>1 DEF Through, ChunkLast
  <2> QED
    BY <2>1, <2>2, <2>3
       DEF JoinInv, HasNonce, NonceParam, Built, AccountOf, ChunkFirst, ChunkLast
<1> QED
  BY <1>1, <1>2, <1>3 DEF Next

(* What Runner::new is given is, popped from its end, everything that was built,
   in the order of the nonces. *)
LEMMA WhatIsPopped ==
  ASSUME AllocatorInv, JoinInv, pc = "built"
  PROVE  /\ \A i \in TxIndex : HasNonce(i) /\ nonce[i] \in Nat
         /\ \E order \in Bijection(TxIndex, TxIndex) :
              /\ Popped = [r \in TxIndex |-> Built(order[r])]
              /\ \A q, r \in TxIndex : q < r => nonce[order[q]] <= nonce[order[r]]
<1>1. /\ N \in Nat /\ TxIndex = 1..N
      /\ results = [i \in 1..N |-> Built(i)] /\ batch = Reverse(SortedByNonce(results))
      /\ \A i \in TxIndex : HasNonce(i)
  BY ChunksMeet, Sizes DEF JoinInv, ForRunner, TxIndex
<1>2. ASSUME NEW i \in TxIndex PROVE nonce[i] \in Nat
  <2>1. i \in OfAccount(AccountOf(i)) /\ AccountOf(i) \in Accounts
    BY AccountOfTx DEF OfAccount
  <2> QED
    BY <1>1, <2>1, OwnContiguous
<1>3. /\ DOMAIN results = 1..N /\ \A i \in 1..N : results[i].nonce = nonce[i]
      /\ \A i \in 1..N : results[i].nonce \in Nat
  BY <1>1, <1>2 DEF Built
<1>4. PICK order \in Bijection(1..N, 1..N) :
        /\ SortedByNonce(results) = [r \in 1..N |-> results[order[r]]]
        /\ \A q, r \in 1..N : q < r => results[order[q]].nonce <= results[order[r]].nonce
  <2> DEFINE txs == results
             n   == N
  <2>1. n \in Nat /\ DOMAIN txs = 1..n /\ \A i \in 1..n : txs[i].nonce \in Nat
    BY <1>1, <1>3
  <2> HIDE DEF txs, n
  <2>2. \E order \in Bijection(1..n, 1..n) :
          /\ SortedByNonce(txs) = [r \in 1..n |-> txs[order[r]]]
          /\ \A q, r \in 1..n : q < r => txs[order[q]].nonce <= txs[order[r]].nonce
    BY <2>1, Sorting
  <2> QED
    BY <2>2 DEF txs, n
<1>5. order \in [1..N -> 1..N]
  BY <1>4 DEF Bijection, Injection
<1>6. SortedByNonce(results) = [r \in 1..N |-> Built(order[r])]
  BY <1>1, <1>4, <1>5
<1>7. Popped = SortedByNonce(results)
  <2> DEFINE sorted == SortedByNonce(results)
  <2>1. DOMAIN sorted = 1..N /\ sorted = [r \in 1..N |-> sorted[r]]
    BY <1>6
  <2> HIDE DEF sorted
  <2>2. Len(sorted) = N
    BY <1>1, <2>1
  <2>3. batch = [r \in 1..N |-> sorted[N - r + 1]]
    BY <1>1, <2>2 DEF Reverse, sorted
  <2>4. Len(batch) = N
    BY <1>1, <2>3
  <2>5. Popped = [r \in 1..N |-> batch[N - r + 1]]
    BY <2>4 DEF Popped, Reverse
  <2>6. \A r \in 1..N : N - r + 1 \in 1..N /\ N - (N - r + 1) + 1 = r
    BY <1>1
  <2>7. \A r \in 1..N : batch[N - r + 1] = sorted[r]
    BY <2>3, <2>6
  <2>8. Popped = [r \in 1..N |-> sorted[r]]
    BY <2>5, <2>7
  <2> QED
    BY <2>1, <2>8 DEF sorted
<1>8. \A q, r \in TxIndex : q < r => nonce[order[q]] <= nonce[order[r]]
  <2>1. \A r \in 1..N : results[order[r]].nonce = nonce[order[r]]
    BY <1>3, <1>5
  <2> QED
    BY <1>1, <1>4, <2>1
<1> QED
  BY <1>1, <1>2, <1>4, <1>6, <1>7, <1>8

(* So the runner gets it in order. *)
LEMMA BatchIsInOrder ==
  ASSUME AllocatorInv, JoinInv
  PROVE  BatchInOrder
<1> SUFFICES ASSUME pc = "built"
             PROVE  /\ \A i, j \in DOMAIN Popped : i < j => Popped[i].nonce <= Popped[j].nonce
                    /\ \A a \in Accounts :
                         LET own == {i \in DOMAIN Popped : Popped[i].account = a} IN
                           /\ Cardinality(own) = TxsCount
                           /\ \A i, j \in own :
                                i < j /\ own \cap ((i + 1)..(j - 1)) = {} =>
                                  Popped[j].nonce = Popped[i].nonce + 1
  BY DEF BatchInOrder
<1>1. TxIndex \subseteq Nat /\ \A i \in TxIndex : HasNonce(i) /\ nonce[i] \in Nat
  BY WhatIsPopped DEF TxIndex
<1>2. PICK order \in Bijection(TxIndex, TxIndex) :
        /\ Popped = [r \in TxIndex |-> Built(order[r])]
        /\ \A q, r \in TxIndex : q < r => nonce[order[q]] <= nonce[order[r]]
  BY WhatIsPopped
<1>3. /\ order \in [TxIndex -> TxIndex]
      /\ \A q, r \in TxIndex : order[q] = order[r] => q = r
      /\ \A i \in TxIndex : \E r \in TxIndex : order[r] = i
  BY <1>2 DEF Bijection, Injection, Surjection, IsInjective
<1>4. /\ DOMAIN Popped = TxIndex
      /\ \A r \in TxIndex : /\ Popped[r].account = AccountOf(order[r])
                            /\ Popped[r].nonce = nonce[order[r]]
  BY <1>2, <1>3 DEF Built
<1>5. ASSUME NEW a \in Accounts
      PROVE  LET own == {i \in DOMAIN Popped : Popped[i].account = a} IN
               /\ Cardinality(own) = TxsCount
               /\ \A i, j \in own :
                    i < j /\ own \cap ((i + 1)..(j - 1)) = {} =>
                      Popped[j].nonce = Popped[i].nonce + 1
  <2> DEFINE own == {i \in DOMAIN Popped : Popped[i].account = a}
  <2>1. /\ own \subseteq TxIndex
        /\ \A r \in TxIndex : r \in own <=> order[r] \in OfAccount(a)
    BY <1>3, <1>4 DEF OfAccount
  <2> HIDE DEF own
  <2>2. Cardinality(own) = TxsCount
    <3> DEFINE f == [r \in own |-> order[r]]
    <3>1. f \in [own -> OfAccount(a)]
      BY <2>1
    <3>2. \A q, r \in own : f[q] = f[r] => q = r
      BY <1>3, <2>1
    <3>3. \A i \in OfAccount(a) : \E r \in own : f[r] = i
      BY <1>3, <2>1 DEF OfAccount
    <3> HIDE DEF f
    <3>4. f \in Injection(own, OfAccount(a)) /\ f \in Surjection(own, OfAccount(a))
      BY <3>1, <3>2, <3>3 DEF Injection, Surjection, IsInjective
    <3>5. IsFiniteSet(OfAccount(a)) /\ Cardinality(OfAccount(a)) = TxsCount
      BY OwnInterval
    <3>6. Cardinality(own) = Cardinality(OfAccount(a))
      BY <3>4, <3>5, FS_Injection
    <3> QED
      BY <3>5, <3>6
  <2>3. ASSUME NEW i \in own, NEW j \in own, i < j, own \cap ((i + 1)..(j - 1)) = {}
        PROVE  nonce[order[j]] = nonce[order[i]] + 1
    <3>1. /\ i \in TxIndex /\ j \in TxIndex /\ i \in Nat /\ j \in Nat
          /\ order[i] \in OfAccount(a) /\ order[j] \in OfAccount(a)
          /\ nonce[order[i]] \in Nat /\ nonce[order[j]] \in Nat
      BY <1>1, <1>3, <2>1
    <3>2. nonce[order[i]] < nonce[order[j]]
      <4>1. nonce[order[i]] # nonce[order[j]]
        BY <1>1, <1>3, <2>3, <3>1, OwnContiguous
      <4> QED
        BY <1>2, <2>3, <3>1, <4>1
    <3>3. PICK l \in OfAccount(a) : nonce[l] = nonce[order[i]] + 1
      BY <1>1, <3>1, <3>2, OwnContiguous
    <3>4. PICK r \in TxIndex : order[r] = l
      BY <1>3, <3>3 DEF OfAccount
    <3>5. r \in own /\ r \in Nat
      BY <1>1, <2>1, <3>3, <3>4
    <3>6. i < r
      <4>1. r # i /\ ~(r < i)
        BY <1>2, <3>1, <3>3, <3>4
      <4> QED
        BY <3>1, <3>5, <4>1
    <3>7. ~(r < j)
      BY <2>3, <3>1, <3>5, <3>6
    <3>8. r # j => nonce[order[j]] <= nonce[order[r]]
      BY <1>2, <3>1, <3>5, <3>7
    <3> QED
      BY <3>1, <3>2, <3>3, <3>4, <3>8
  <2>4. \A i \in own : Popped[i].nonce = nonce[order[i]]
    BY <1>4, <2>1
  <2> QED
    BY <2>2, <2>3, <2>4 DEF own
<1> QED
  BY <1>2, <1>4, <1>5

(* For any number of accounts, transactions and tasks, with given nonces or
   with the node's, the runner pops every account's transactions, all of them,
   one nonce after the other, and never a greater nonce before a smaller one. *)
THEOREM BatchComesInOrder == Spec => []BatchInOrder
<1>1. Init => AllocatorInv /\ JoinInv
  BY AllocatorInit, JoinInit
<1>2. AllocatorInv /\ JoinInv /\ [Next]_vars => (AllocatorInv /\ JoinInv)'
  BY AllocatorStep, JoinStep
<1>3. AllocatorInv /\ JoinInv => BatchInOrder
  BY BatchIsInOrder
<1> QED
  BY <1>1, <1>2, <1>3, PTL DEF Spec
==============================================================================
