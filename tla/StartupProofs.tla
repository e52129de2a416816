---------------------------- MODULE StartupProofs ----------------------------
(***************************************************************************)
(* What threads derive of a range of accounts, that a scenario which gets  *)
(* as far as a runner signs for exactly what it was asked for, why others  *)
(* do not get that far, and that funds reach the scenarios they are for:   *)
(* whatever the widths of the integers and the number of threads.          *)
(***************************************************************************)
EXTENDS Startup, FiniteSetTheorems, TLAPS

-------------------------------------------------------------------------------
(* What integer division does to products: when n items are split among t
   threads the k-th gets (k * n) / t and what follows, up to
   ((k + 1) * n) / t (subxt_transaction.rs:469-508). *)

(* Integer division by a positive number. *)
LEMMA Division ==
  ASSUME NEW m \in Nat, NEW d \in Nat \ {0}
  PROVE  /\ m \div d \in Nat
         /\ d * (m \div d) <= m
         /\ m < d * (m \div d) + d
<1>1. m = d * (m \div d) + (m % d) /\ m % d \in 0..(d - 1) /\ m \div d \in Int
  OBVIOUS
<1>2. m \div d >= 0
  <2> DEFINE q == m \div d
  <2>1. q \in Int /\ d * q + d > m
    BY <1>1
  <2> HIDE DEF q
  <2>2. ASSUME q <= -1 PROVE FALSE
    <3>1. d * q <= d * (-1)
      BY <2>1, <2>2
    <3> QED
      BY <2>1, <3>1
  <2>3. q >= 0
    BY <2>1, <2>2
  <2> QED
    BY <2>3 DEF q
<1> QED
  BY <1>1, <1>2

(* Division keeps the order. *)
LEMMA DivisionMonotone ==
  ASSUME NEW m \in Nat, NEW n \in Nat, m <= n, NEW d \in Nat \ {0}
  PROVE  m \div d <= n \div d
<1> DEFINE p == m \div d
           q == n \div d
<1>1. p \in Nat /\ q \in Nat /\ d * p <= m /\ n < d * q + d
  BY Division
<1> HIDE DEF p, q
<1>2. ASSUME p >= q + 1 PROVE FALSE
  <2>1. d * p >= d * (q + 1)
    BY <1>1, <1>2
  <2>2. d * (q + 1) = d * q + d
    BY <1>1
  <2> QED
    BY <1>1, <2>1, <2>2
<1>3. p <= q
  BY <1>1, <1>2
<1> QED
  BY <1>3 DEF p, q

(* Multiplication keeps the order. *)
LEMMA ProductMonotone ==
  ASSUME NEW m \in Int, NEW n \in Int, m <= n, NEW d \in Nat
  PROVE  m * d <= n * d /\ d * m <= d * n
OBVIOUS

(* A common factor can be taken out of an inequality. *)
LEMMA ProductCancel ==
  ASSUME NEW m \in Int, NEW n \in Int, NEW d \in Nat \ {0}, d * m < d * n
  PROVE  m < n
<1>1. ASSUME m >= n PROVE FALSE
  <2>1. d * n <= d * m
    BY <1>1, ProductMonotone
  <2>2. d * n \in Int /\ d * m \in Int
    OBVIOUS
  <2> QED
    BY <2>1, <2>2
<1> QED
  BY <1>1

(* The border between two workers' shares lies within the items, and borders
   do not come before one another. *)
LEMMA SplitBounds ==
  ASSUME NEW n \in Nat, NEW t \in Nat \ {0}, NEW k \in 0..t
  PROVE  /\ k * n \in 0..(t * n)
         /\ (k * n) \div t \in 0..n
         /\ k = 0 => (k * n) \div t = 0
         /\ k = t => (k * n) \div t = n
<1> DEFINE p == k * n
           q == p \div t
<1>1. p \in Nat /\ t * n \in Nat /\ p <= t * n
  BY ProductMonotone
<1>2. q \in Nat /\ t * q <= p /\ p < t * q + t
  <2> HIDE DEF p
  <2> QED
    BY <1>1, Division
<1> HIDE DEF q
<1>3. t * q < t * (n + 1)
  <2>1. t * (n + 1) = t * n + t /\ t * q \in Nat
    BY <1>2
  <2> HIDE DEF p
  <2> QED
    BY <1>1, <1>2, <2>1
<1>4. q < n + 1
  BY <1>2, <1>3, ProductCancel
<1>5. ASSUME k = 0 PROVE q = 0
  <2>1. p = 0
    BY <1>5
  <2> HIDE DEF p
  <2>2. t * q < t * 1
    BY <1>2, <2>1
  <2>3. q < 1
    BY <1>2, <2>2, ProductCancel
  <2> QED
    BY <1>2, <2>3
<1>6. ASSUME k = t PROVE q = n
  <2>1. t * n < t * (q + 1)
    <3>1. p = t * n /\ t * (q + 1) = t * q + t /\ t * q \in Nat
      BY <1>2, <1>6
    <3> HIDE DEF p
    <3> QED
      BY <1>1, <1>2, <3>1
  <2>2. n < q + 1
    BY <1>2, <2>1, ProductCancel
  <2> QED
    BY <1>2, <1>4, <2>2
<1>7. q \in 0..n
  BY <1>2, <1>4
<1>8. p \in 0..(t * n)
  BY <1>1
<1> QED
  BY <1>5, <1>6, <1>7, <1>8 DEF q

(* Borders do not come before one another. *)
LEMMA SplitOrdered ==
  ASSUME NEW n \in Nat, NEW t \in Nat \ {0}, NEW j \in 0..t, NEW k \in 0..t, j <= k
  PROVE  (j * n) \div t <= (k * n) \div t
<1> DEFINE lower == j * n
           upper == k * n
<1>1. lower \in Nat /\ upper \in Nat /\ lower <= upper
  BY ProductMonotone
<1> HIDE DEF lower, upper
<1>2. lower \div t <= upper \div t
  BY <1>1, DivisionMonotone
<1> QED
  BY <1>2 DEF lower, upper

(* Every item is in somebody's share. *)
LEMMA SplitCovers ==
  ASSUME NEW n \in Nat \ {0}, NEW t \in Nat \ {0}, NEW i \in 0..(n - 1)
  PROVE  \E k \in 0..(t - 1) : (k * n) \div t <= i /\ i < ((k + 1) * n) \div t
<1> DEFINE m == (i + 1) * t - 1
           k == m \div n
<1>1. m \in Nat /\ m < n * t
  <2>1. 1 * t <= (i + 1) * t /\ (i + 1) * t <= n * t
    BY ProductMonotone
  <2>2. (i + 1) * t \in Nat /\ n * t \in Nat
    OBVIOUS
  <2> QED
    BY <2>1, <2>2
<1>2. k \in Nat /\ n * k <= m /\ m < n * k + n
  <2> HIDE DEF m
  <2> QED
    BY <1>1, Division
<1> HIDE DEF k
<1>3. k \in 0..(t - 1)
  <2>1. n * k \in Nat /\ n * t \in Nat
    BY <1>2
  <2> HIDE DEF m
  <2>2. n * k < n * t
    BY <1>1, <1>2, <2>1
  <2>3. k < t
    BY <1>2, <2>2, ProductCancel
  <2> QED
    BY <1>2, <2>3
<1>4. (k * n) \div t <= i
  <2> DEFINE p == k * n
             q == p \div t
  <2>1. p \in Nat /\ p = n * k /\ p < t * (i + 1)
    <3>1. m + 1 = t * (i + 1) /\ p = n * k /\ p \in Nat
      BY <1>2
    <3> HIDE DEF m, p
    <3> QED
      BY <1>1, <1>2, <3>1
  <2> HIDE DEF p
  <2>2. q \in Nat /\ t * q <= p
    BY <2>1, Division
  <2> HIDE DEF q
  <2>3. t * q < t * (i + 1)
    <3>1. t * q \in Nat /\ t * (i + 1) \in Nat
      BY <2>2
    <3> QED
      BY <2>1, <2>2, <3>1
  <2>4. q < i + 1
    BY <2>2, <2>3, ProductCancel
  <2>5. q <= i
    BY <2>2, <2>4
  <2> QED
    BY <2>5 DEF p, q
<1>5. i < ((k + 1) * n) \div t
  <2> DEFINE p == (k + 1) * n
             q == p \div t
  <2>1. p \in Nat /\ t * (i + 1) <= p
    <3>1. m + 1 = t * (i + 1) /\ p = n * k + n /\ p \in Nat /\ n * k \in Nat
      BY <1>2
    <3> HIDE DEF m, p
    <3> QED
      BY <1>1, <1>2, <3>1
  <2> HIDE DEF p
  <2>2. q \in Nat /\ p < t * q + t
    BY <2>1, Division
  <2> HIDE DEF q
  <2>3. t * (i + 1) < t * (q + 1)
    <3>1. t * (q + 1) = t * q + t /\ t * q \in Nat /\ t * (i + 1) \in Nat
      BY <2>2
    <3> QED
      BY <2>1, <2>2, <3>1
  <2>4. i + 1 < q + 1
    BY <2>2, <2>3, ProductCancel
  <2>5. i < q
    BY <2>2, <2>4
  <2> QED
    BY <2>5 DEF p, q
<1> QED
  BY <1>3, <1>4, <1>5

-------------------------------------------------------------------------------
(* The machine and the command are of their types. *)
CommandInv ==
  /\ machine \in Machines
  /\ session \in Sessions
  /\ current \in 1..Len(session)

LEMMA CommandInit == Init => CommandInv
<1> SUFFICES ASSUME Init PROVE CommandInv
  OBVIOUS
<1>1. session \in Seq(Command) /\ session # <<>>
  BY StartupAssumption DEF Init
<1>2. 1 \in 1..Len(session)
  BY <1>1
<1> QED
  BY <1>2 DEF Init, CommandInv

LEMMA CommandInductive == CommandInv /\ [Next]_vars => CommandInv'
<1> SUFFICES ASSUME CommandInv, [Next]_vars PROVE CommandInv'
  OBVIOUS
<1>1. CASE NextCommand
  <2>1. session' = session /\ machine' = machine /\ current' = current + 1 /\ current < Len(session)
    BY <1>1 DEF NextCommand, HasNext
  <2>2. Len(session) \in Nat
    BY StartupAssumption DEF CommandInv
  <2> QED
    BY <2>1, <2>2 DEF CommandInv
<1>2. CASE ~NextCommand
  <2>1. machine' = machine /\ session' = session /\ current' = current
    BY <1>2 DEF Next, Step, Configure, ConnectMonitor, Derive, Connect, FromBackend,
                ConnectClient, BuildTransactions, InstallHook, AnswerNonce, WriteEndowed,
                NodeStarts, NodeServes, NodeLost, StartupOver, vars, commandVars
  <2> QED
    BY <2>1 DEF CommandInv
<1> QED
  BY <1>1, <1>2

(* The number of threads, and what fits a usize. *)
LEMMA MachineFacts ==
  ASSUME CommandInv
  PROVE  /\ machine.available_parallelism \in Nat \ {0}
         /\ machine.debug_build \in BOOLEAN
         /\ UsizeSpan \in Nat /\ U32Max \in Nat /\ MaxAccounts \in Nat
         /\ machine.available_parallelism * (U32Max + 1 + MaxAccounts) + U32Max < UsizeSpan
<1>1. machine \in [debug_build : BOOLEAN, available_parallelism : Nat \ {0}]
  BY StartupAssumption DEF CommandInv
<1> QED
  BY <1>1, StartupAssumption DEF CommandInv

LEMMA CommandType ==
  ASSUME CommandInv
  PROVE  command \in Command
<1>1. session \in Seq(Command) /\ current \in 1..Len(session)
  BY StartupAssumption DEF CommandInv
<1> QED
  BY <1>1 DEF command

LEMMA SessionType ==
  ASSUME CommandInv
  PROVE  /\ session \in Seq(Command) /\ Len(session) \in Nat
         /\ current \in Nat \ {0} /\ current <= Len(session)
<1>1. session \in Seq(Command)
  BY StartupAssumption DEF CommandInv
<1>2. Len(session) \in Nat /\ current \in 1..Len(session)
  BY <1>1 DEF CommandInv
<1> QED
  BY <1>1, <1>2

(* The ends of a range are ids. *)
LEMMA RangeOf ==
  ASSUME NEW c \in Command, IsRange(c)
  PROVE  /\ StartId(c) \in 0..U32Max
         /\ LastId(c) \in 0..U32Max
         /\ RangeEnd(c) = IF LastId(c) = U32Max THEN 0 ELSE LastId(c) + 1
         /\ RangeEnd(c) \in 0..U32Max
<1>1. /\ c.start_id \in Id \cup {None} /\ c.last_id \in Id \cup {None}
      /\ c.account_id \in Names \cup {None}
      /\ Parse \in [Names -> Id \cup {None}] /\ U32Max \in Nat
  BY StartupAssumption DEF Command
<1>2. StartId(c) \in Id
  BY <1>1 DEF StartId, IsRange
<1>3. LastId(c) \in Id
  BY <1>1, <1>2 DEF LastId
<1> DEFINE last == LastId(c)
<1>4. last \in 0..U32Max
  BY <1>3 DEF Id
<1> HIDE DEF last
<1>5. (last + 1) % (U32Max + 1) = IF last = U32Max THEN 0 ELSE last + 1
  BY <1>1, <1>4
<1> QED
  BY <1>1, <1>2, <1>4, <1>5 DEF last, RangeEnd, Id

LEMMA RangeType ==
  ASSUME CommandInv, IsRange(command)
  PROVE  /\ StartId(command) \in 0..U32Max
         /\ LastId(command) \in 0..U32Max
         /\ RangeEnd(command) = IF LastId(command) = U32Max THEN 0 ELSE LastId(command) + 1
         /\ RangeEnd(command) \in 0..U32Max
BY CommandType, RangeOf

(* On a range that is in order nothing wraps, and chunks are what their
   formula says. *)
LEMMA ChunkBorders ==
  ASSUME CommandInv, NEW from \in 0..U32Max, NEW to \in 0..U32Max, from <= to
  PROVE  /\ Length(from, to) = to - from
         /\ Threads(from, to) \in 0..(to - from)
         /\ to > from => Threads(from, to) # 0
         /\ Threads(from, to) # 0 => \A k \in 0..Threads(from, to) :
              ChunkStart(k, from, to) = from + (k * (to - from)) \div Threads(from, to)
<1> DEFINE n == to - from
           t == Threads(from, to)
           cores == machine.available_parallelism
<1>1. cores \in Nat \ {0} /\ UsizeSpan \in Nat /\ U32Max \in Nat
      /\ cores * (U32Max + 1 + MaxAccounts) + U32Max < UsizeSpan /\ MaxAccounts \in Nat
  BY MachineFacts
<1> HIDE DEF cores
<1>2. n \in Nat /\ n <= U32Max /\ from + n = to
  BY <1>1
<1>3. cores * n <= cores * (U32Max + 1 + MaxAccounts) /\ cores * n \in Nat
      /\ cores * (U32Max + 1 + MaxAccounts) \in Nat
  BY <1>1, <1>2, ProductMonotone
<1>4. cores * n < UsizeSpan /\ to < UsizeSpan /\ n < UsizeSpan
  BY <1>1, <1>2, <1>3
<1>5. Length(from, to) = n
  BY <1>2, <1>4, <1>1 DEF Length
<1> HIDE DEF n
<1>6. t \in 0..n /\ t <= cores /\ (n > 0 => t # 0)
  BY <1>1, <1>2, <1>5 DEF Threads, cores
<1> HIDE DEF t
<1>7. ASSUME t # 0, NEW k \in 0..t
      PROVE  ChunkStart(k, from, to) = from + (k * n) \div t
  <2>1. t \in Nat \ {0}
    BY <1>2, <1>6, <1>7
  <2> DEFINE p == k * n
             q == p \div t
  <2>2. p \in 0..(t * n) /\ q \in 0..n
    BY <1>2, <1>7, <2>1, SplitBounds
  <2>3. t * n <= cores * n /\ t * n \in Nat
    BY <1>1, <1>2, <1>6, <2>1, ProductMonotone
  <2>4. k * Length(from, to) = p
    BY <1>5
  <2> HIDE DEF p
  <2>5. p % UsizeSpan = p
    BY <1>1, <1>3, <1>4, <2>2, <2>3
  <2>6. ChunkStart(k, from, to) = (from + q) % UsizeSpan
    BY <2>4, <2>5 DEF ChunkStart, t
  <2> HIDE DEF q
  <2>7. from + q \in Nat /\ from + q < UsizeSpan
    BY <1>1, <1>2, <1>4, <2>2
  <2>8. (from + q) % UsizeSpan = from + q
    BY <1>1, <2>7
  <2> QED
    BY <2>6, <2>8 DEF p, q
<1> QED
  BY <1>2, <1>5, <1>6, <1>7 DEF n, t

(* A range that is in order is split among the threads without a gap and
   without an overlap. *)
LEMMA SplitOnce ==
  ASSUME CommandInv, NEW from \in 0..U32Max, NEW to \in 0..U32Max, from <= to
  PROVE  DerivedOnce(from, to)
<1> DEFINE n == to - from
           t == Threads(from, to)
           border(k) == (k * n) \div t
<1>1. n \in Nat /\ t \in 0..n /\ (n > 0 => t # 0) /\ from \in Nat /\ to = from + n
  BY ChunkBorders, MachineFacts
<1>2. ASSUME t # 0, NEW k \in 0..t
      PROVE  ChunkStart(k, from, to) = from + border(k)
  BY <1>2, ChunkBorders
<1> HIDE DEF n, t, border
<1>3. ASSUME NEW k \in 0..t, t # 0 PROVE border(k) \in 0..n
  BY <1>1, <1>3, SplitBounds DEF border
<1>4. ASSUME NEW k \in 0..(t - 1)
      PROVE  Chunk(k, from, to) = (from + border(k))..(from + border(k + 1) - 1)
  <2>1. t # 0 /\ k \in 0..t /\ k + 1 \in 0..t
    BY <1>1, <1>4
  <2>2. /\ ChunkStart(k, from, to) = from + border(k)
        /\ ChunkStart(k + 1, from, to) = from + border(k + 1)
    BY <1>2, <2>1
  <2> QED
    BY <1>1, <1>3, <2>1, <2>2 DEF Chunk
<1>5. DerivedIds(from, to) = from..(to - 1)
  <2>1. ASSUME NEW id \in DerivedIds(from, to) PROVE id \in from..(to - 1)
    <3>1. PICK k \in 0..(t - 1) : id \in Chunk(k, from, to)
      BY <2>1 DEF DerivedIds, t
    <3>2. t # 0 /\ k \in 0..t /\ k + 1 \in 0..t
      BY <1>1, <3>1
    <3>3. border(k) \in 0..n /\ border(k + 1) \in 0..n
      BY <1>3, <3>2
    <3> QED
      BY <1>1, <1>4, <3>1, <3>3
  <2>2. ASSUME NEW id \in from..(to - 1) PROVE id \in DerivedIds(from, to)
    <3>1. id - from \in 0..(n - 1) /\ n \in Nat \ {0} /\ t \in Nat \ {0} /\ id \in Int
      BY <1>1, <2>2
    <3>2. PICK k \in 0..(t - 1) : border(k) <= id - from /\ id - from < border(k + 1)
      BY <3>1, SplitCovers DEF border
    <3>3. border(k) \in 0..n /\ border(k + 1) \in 0..n
      BY <1>1, <1>3, <3>1, <3>2
    <3>4. Chunk(k, from, to) = (from + border(k))..(from + border(k + 1) - 1)
      BY <1>4
    <3>5. id \in Chunk(k, from, to)
      BY <1>1, <3>1, <3>2, <3>3, <3>4
    <3> QED
      BY <3>5 DEF DerivedIds, t
  <2> QED
    BY <2>1, <2>2
<1>6. ASSUME NEW j \in 0..(t - 1), NEW k \in 0..(t - 1), j < k
      PROVE  Chunk(j, from, to) \cap Chunk(k, from, to) = {}
  <2>1. t # 0 /\ t \in Nat \ {0} /\ j + 1 \in 0..t /\ k \in 0..t /\ j + 1 <= k
    BY <1>1, <1>6
  <2>2. border(j + 1) <= border(k)
    BY <1>1, <2>1, SplitOrdered DEF border
  <2>3. border(j) \in Int /\ border(j + 1) \in Int /\ border(k) \in Int /\ border(k + 1) \in Int
    <3>1. j \in 0..t /\ k + 1 \in 0..t
      BY <1>1, <1>6
    <3> QED
      BY <1>3, <2>1, <3>1
  <2>4. /\ Chunk(j, from, to) = (from + border(j))..(from + border(j + 1) - 1)
        /\ Chunk(k, from, to) = (from + border(k))..(from + border(k + 1) - 1)
    BY <1>4
  <2> QED
    BY <1>1, <2>2, <2>3, <2>4
<1>7. ASSUME NEW j \in 0..(t - 1), NEW k \in 0..(t - 1), j # k
      PROVE  Chunk(j, from, to) \cap Chunk(k, from, to) = {}
  BY <1>6, <1>7
<1> QED
  BY <1>5, <1>7 DEF DerivedOnce, t

(* RangeDerivedOnce holds on every machine, for every range. *)
THEOREM RangesAreSplitOnce == Spec => []RangeDerivedOnce
<1>1. CommandInv => RangeDerivedOnce
  <2> SUFFICES ASSUME CommandInv, IsRange(command), StartId(command) <= RangeEnd(command)
               PROVE  DerivedOnce(StartId(command), RangeEnd(command))
    BY DEF RangeDerivedOnce
  <2> QED
    BY RangeType, SplitOnce
<1> QED
  BY <1>1, CommandInit, CommandInductive, PTL DEF Spec
-------------------------------------------------------------------------------
(* A range that is out of order, or that ends at the largest id, wraps.  It
   asks for more accounts than the memory has room for or, on one core, for
   none: either is the end of the command. *)
LEMMA WrappedRange ==
  ASSUME CommandInv, NEW from \in 0..U32Max, NEW to \in 0..U32Max, to < from
  PROVE  DerivedIds(from, to) = {} \/ Cardinality(DerivedIds(from, to)) > MaxAccounts
<1> DEFINE cores == machine.available_parallelism
           n == UsizeSpan - (from - to)
           q == n \div cores
<1>1. cores \in Nat \ {0} /\ UsizeSpan \in Nat /\ U32Max \in Nat /\ MaxAccounts \in Nat
      /\ cores * (U32Max + 1 + MaxAccounts) + U32Max < UsizeSpan
  BY MachineFacts
<1> HIDE DEF cores
<1>2. 1 * (U32Max + 1 + MaxAccounts) <= cores * (U32Max + 1 + MaxAccounts)
      /\ cores * 1 <= cores * (U32Max + 1 + MaxAccounts)
      /\ cores * (U32Max + 1 + MaxAccounts) \in Nat
  BY <1>1, ProductMonotone
<1>3. n \in Nat /\ n < UsizeSpan /\ n >= cores /\ from + n = UsizeSpan + to
      /\ cores * (U32Max + 1 + MaxAccounts) < n /\ from \in Nat /\ to \in Nat
      /\ from < UsizeSpan /\ to < UsizeSpan
  BY <1>1, <1>2
<1>4. Length(from, to) = n
  <2>1. (to - from) % UsizeSpan = UsizeSpan - (from - to)
    BY <1>1, <1>3
  <2> QED
    BY <2>1 DEF Length
<1> HIDE DEF n
<1>5. Threads(from, to) = cores
  BY <1>1, <1>3, <1>4 DEF Threads, cores
<1>6. ChunkStart(0, from, to) = from
  <2>1. 0 * n = 0 /\ 0 % UsizeSpan = 0 /\ 0 \div cores = 0 /\ (from + 0) % UsizeSpan = from
    BY <1>1, <1>3
  <2> QED
    BY <1>4, <1>5, <2>1 DEF ChunkStart
<1>7. ChunkStart(1, from, to) = (from + q) % UsizeSpan
  <2>1. 1 * n = n /\ n % UsizeSpan = n
    BY <1>1, <1>3
  <2> QED
    BY <1>4, <1>5, <2>1 DEF ChunkStart
<1>8. q \in Nat /\ cores * q <= n /\ n < cores * q + cores
  BY <1>1, <1>3, Division
<1> HIDE DEF q
<1>9. CASE cores = 1
  <2>1. q = n /\ (UsizeSpan + to) % UsizeSpan = to
    BY <1>1, <1>3, <1>8, <1>9
  <2>2. ChunkStart(1, from, to) = to
    BY <1>3, <1>7, <2>1
  <2>3. Chunk(0, from, to) = {}
    BY <1>1, <1>3, <1>6, <2>2 DEF Chunk
  <2>4. \A k \in 0..(Threads(from, to) - 1) : k = 0
    BY <1>5, <1>9
  <2>5. DerivedIds(from, to) = {}
    BY <2>3, <2>4 DEF DerivedIds
  <2> QED
    BY <2>5
<1>10. CASE cores # 1
  <2>1. U32Max + 1 + MaxAccounts < q + 1
    <3>1. cores * (q + 1) = cores * q + cores /\ cores * q \in Nat
      BY <1>1, <1>8
    <3>2. cores * (U32Max + 1 + MaxAccounts) < cores * (q + 1)
      BY <1>2, <1>3, <1>8, <3>1, <1>1
    <3> QED
      BY <1>1, <1>8, <3>2, ProductCancel
  <2>2. from + q < UsizeSpan
    <3>1. 2 * q <= cores * q /\ cores * q \in Nat
      BY <1>1, <1>8, <1>10, ProductMonotone
    <3> QED
      BY <1>1, <1>3, <1>8, <2>1, <3>1
  <2>3. ChunkStart(1, from, to) = from + q
    <3>1. (from + q) % UsizeSpan = from + q
      BY <1>1, <1>3, <1>8, <2>2
    <3> QED
      BY <1>7, <3>1
  <2>4. Chunk(0, from, to) = from..(from + q - 1)
    BY <1>3, <1>6, <1>8, <2>3 DEF Chunk
  <2>5. Cardinality(Chunk(0, from, to)) = q
    <3>1. from \in Int /\ from + q - 1 \in Int /\ q > 0 /\ (from + q - 1) - from + 1 = q
      BY <1>1, <1>3, <1>8, <2>1
    <3>2. ~(from > from + q - 1)
      BY <3>1
    <3> QED
      BY <2>4, <3>1, <3>2, FS_Interval
  <2>6. IsFiniteSet(DerivedIds(from, to))
    <3>1. ASSUME NEW k \in 0..cores PROVE ChunkStart(k, from, to) \in 0..UsizeSpan
      <4> DEFINE p == (k * n) % UsizeSpan
      <4>1. k * n \in Int
        BY <1>1, <1>3
      <4>2. p \in Nat
        BY <1>1, <1>3, <4>1
      <4> HIDE DEF p
      <4>3. from + p \div cores \in Nat
        BY <1>1, <1>3, <4>2, Division
      <4>4. (from + p \div cores) % UsizeSpan \in 0..UsizeSpan
        BY <1>1, <1>3, <4>3
      <4> QED
        BY <1>4, <1>5, <4>4 DEF ChunkStart, p
    <3>2. ASSUME NEW k \in 0..(cores - 1) PROVE Chunk(k, from, to) \subseteq 0..UsizeSpan
      <4>1. k \in 0..cores /\ k + 1 \in 0..cores
        BY <1>1
      <4>2. ChunkStart(k, from, to) \in 0..UsizeSpan /\ ChunkStart(k + 1, from, to) \in 0..UsizeSpan
        BY <3>1, <4>1
      <4> QED
        BY <1>1, <4>2 DEF Chunk
    <3>3. DerivedIds(from, to) \subseteq 0..UsizeSpan
      BY <1>5, <3>2 DEF DerivedIds
    <3>4. IsFiniteSet(0..UsizeSpan)
      BY <1>1, FS_Interval
    <3> QED
      BY <3>3, <3>4, FS_Subset
  <2>7. Chunk(0, from, to) \in SUBSET DerivedIds(from, to)
    <3>1. 0 \in 0..(Threads(from, to) - 1)
      BY <1>1, <1>5
    <3> QED
      BY <3>1 DEF DerivedIds
  <2>8. Cardinality(DerivedIds(from, to)) >= q
    BY <2>5, <2>6, <2>7, FS_Subset
  <2>9. Cardinality(DerivedIds(from, to)) \in Nat
    BY <2>6, FS_CardinalityType
  <2> QED
    BY <1>1, <1>8, <2>1, <2>8, <2>9
<1> QED
  BY <1>9, <1>10
-------------------------------------------------------------------------------
(* What has been found out when a command is past its configuration. *)
Configured == {"monitor", "derive", "connect", "backend", "client", "transactions", "hook", "built"}
Derived == Configured \ {"monitor", "derive"}

(* What derive_accounts returned. *)
AccountsDerived ==
  LET ids == DerivedIds(StartId(command), RangeEnd(command))
  IN IF IsRange(command)
     THEN ~(Cardinality(ids) > MaxAccounts) /\ accounts = {to_string[i] : i \in ids}
     ELSE command.account_id \in Keyring /\ accounts = {command.account_id}

(* Why a scenario that is built is sound: it passed the builder's checks, has
   what was derived, and found its accounts among it; and as long as the
   connection lives, the chain is the one their nonces were fetched from. *)
BuiltInv ==
  /\ CommandInv
  /\ phase \in Configured => ~Misconfigured(command)
  /\ phase \in Derived => AccountsDerived
  /\ phase \in {"transactions", "hook", "built"} => command.name = "tx"
  /\ phase \in {"hook", "built"} =>
       /\ Signers(command) \subseteq accounts
       /\ api_up /\ ~command.nonce_from => Signers(command) \subseteq endowed
  /\ api_up => node # "down"

(* A range that was derived, and is not empty, was in order. *)
LEMMA DerivedInOrder ==
  ASSUME CommandInv, AccountsDerived, IsRange(command), accounts # {}
  PROVE  /\ LastId(command) < U32Max
         /\ StartId(command) <= LastId(command)
         /\ DerivedIds(StartId(command), RangeEnd(command)) = StartId(command)..LastId(command)
<1> DEFINE from == StartId(command)
           to == RangeEnd(command)
           ids == DerivedIds(from, to)
<1>1. U32Max \in Nat /\ MaxAccounts \in Nat
  BY StartupAssumption
<1>2. from \in 0..U32Max /\ LastId(command) \in 0..U32Max /\ to \in 0..U32Max
      /\ to = IF LastId(command) = U32Max THEN 0 ELSE LastId(command) + 1
  BY RangeType
<1>3. ids # {} /\ ~(Cardinality(ids) > MaxAccounts)
  BY DEF AccountsDerived
<1>4. from <= to
  BY <1>1, <1>2, <1>3, WrappedRange
<1>5. ids = from..(to - 1)
  BY <1>2, <1>4, SplitOnce DEF DerivedOnce
<1> HIDE DEF ids, from, to
<1>6. from < to
  BY <1>1, <1>2, <1>3, <1>5
<1>7. LastId(command) < U32Max /\ to = LastId(command) + 1
  BY <1>1, <1>2, <1>6
<1> QED
  BY <1>2, <1>5, <1>6, <1>7 DEF ids, from, to

(* Nobody signs for accounts that are none: what an account is looked up as is
   what it was derived as. *)
LEMMA FoundIsSound ==
  ASSUME CommandInv, AccountsDerived, Signers(command) # {}, Signers(command) \subseteq accounts,
         ~(command.start_id = None /\ command.account_id = None)
  PROVE  SoundAccounts(command) /\ NamedAsDerived(command)
<1> DEFINE c == command
           from == StartId(c)
           ids == DerivedIds(from, RangeEnd(c))
<1>1. U32Max \in Nat /\ MaxAccounts \in Nat
  BY StartupAssumption
<1>2. CASE ~IsRange(c)
  <2>1. c.start_id = None /\ c.account_id \in Keyring
    BY <1>2 DEF AccountsDerived, IsRange
  <2> QED
    BY <2>1 DEF SoundAccounts, NamedAsDerived
<1>3. CASE IsRange(c)
  <2>1. from \in 0..U32Max /\ LastId(c) \in 0..U32Max
    BY <1>3, RangeType
  <2>2. accounts = {to_string[i] : i \in ids} /\ ~(Cardinality(ids) > MaxAccounts)
    BY <1>3 DEF AccountsDerived
  <2>3. LastId(c) < U32Max /\ from <= LastId(c) /\ ids = from..LastId(c)
    BY <1>3, DerivedInOrder
  <2> HIDE DEF ids, from
  <2>4. CASE c.start_id # None
    <3>1. c.start_id = from
      BY <2>4 DEF from, StartId
    <3>2. Cardinality(ids) = LastId(c) - from + 1
      <4>1. from \in Int /\ LastId(c) \in Int /\ ~(from > LastId(c))
        BY <1>1, <2>1, <2>3
      <4> QED
        BY <2>3, <4>1, FS_Interval
    <3>3. LastId(c) - from < MaxAccounts
      BY <1>1, <2>1, <2>2, <3>2
    <3> QED
      BY <1>1, <2>1, <2>3, <2>4, <3>1, <3>3 DEF SoundAccounts, NamedAsDerived
  <2>5. CASE c.start_id = None
    <3>1. LastId(c) = from
      BY <2>5 DEF LastId, from
    <3>2. ids = {from}
      BY <2>1, <2>3, <3>1
    <3>3. Signers(c) = {c.account_id}
      BY <2>5 DEF Signers
    <3>4. c.account_id = to_string[from]
      BY <2>2, <3>2, <3>3
    <3>5. from \in Id \ {U32Max}
      BY <2>1, <2>3, <3>1 DEF Id
    <3>6. from = Parse[c.account_id]
      BY <2>5 DEF from, StartId
    <3> QED
      BY <2>5, <3>4, <3>5, <3>6 DEF SoundAccounts, NamedAsDerived
  <2> QED
    BY <2>4, <2>5
<1> QED
  BY <1>2, <1>3

LEMMA BuiltIsSound == BuiltInv => BuiltSignsForAll
<1> SUFFICES ASSUME BuiltInv, phase = "built"
             PROVE  /\ Signers(command) = {} \/ (Sound(command) /\ NamedAsDerived(command))
                    /\ Signers(command) \subseteq accounts
                    /\ api_up /\ ~command.nonce_from => Signers(command) \subseteq endowed
  BY DEF BuiltSignsForAll
<1>1. /\ CommandInv /\ ~Misconfigured(command) /\ AccountsDerived /\ command.name = "tx"
      /\ Signers(command) \subseteq accounts
      /\ api_up /\ ~command.nonce_from => Signers(command) \subseteq endowed
  BY DEF BuiltInv, Configured, Derived
<1>2. /\ command.chain \notin {None, "fake"} /\ command.rpc_uri
      /\ command.payload \in {"recipe", command.chain}
      /\ ~(command.start_id = None /\ command.account_id = None)
  BY <1>1 DEF Misconfigured
<1>3. command.chain \in {"sub", "eth", "fake", None}
  BY <1>1, CommandType DEF Command, Chain
<1>4. ASSUME Signers(command) # {} PROVE Sound(command) /\ NamedAsDerived(command)
  <2>1. SoundAccounts(command) /\ NamedAsDerived(command)
    BY <1>1, <1>2, <1>4, FoundIsSound
  <2> QED
    BY <1>2, <1>3, <2>1 DEF Sound
<1> QED
  BY <1>1, <1>4

(* A step that leaves machine and command alone leaves what is said of them. *)
LEMMA SameCommand ==
  ASSUME machine' = machine, session' = session, current' = current
  PROVE  /\ command' = command
         /\ Misconfigured(command)' <=> Misconfigured(command)
         /\ Signers(command)' = Signers(command)
         /\ Sound(command)' <=> Sound(command)
         /\ NamedAsDerived(command)' <=> NamedAsDerived(command)
         /\ accounts' = accounts => (AccountsDerived' <=> AccountsDerived)
<1> DEFINE ids == DerivedIds(StartId(command), RangeEnd(command))
<1>1. command' = command
  BY DEF command
<1>2. IsRange(command)' <=> IsRange(command)
  BY <1>1 DEF IsRange
<1>3. /\ StartId(command)' = StartId(command)
      /\ LastId(command)' = LastId(command)
      /\ RangeEnd(command)' = RangeEnd(command)
  BY <1>1 DEF StartId, LastId, RangeEnd
<1>4. Misconfigured(command)' <=> Misconfigured(command)
  BY <1>1, <1>2, <1>3 DEF Misconfigured, Overflows
<1>5. Signers(command)' = Signers(command)
  BY <1>1, <1>3 DEF Signers
<1>6. ids' = ids
  BY <1>3 DEF DerivedIds, Chunk, ChunkStart, Threads, Length
<1> HIDE DEF ids
<1>7. /\ Sound(command)' <=> Sound(command)
      /\ NamedAsDerived(command)' <=> NamedAsDerived(command)
  BY <1>1, <1>3 DEF Sound, SoundAccounts, NamedAsDerived
<1>8. ASSUME accounts' = accounts PROVE AccountsDerived' <=> AccountsDerived
  BY <1>1, <1>2, <1>6, <1>8 DEF AccountsDerived, ids
<1> QED
  BY <1>1, <1>4, <1>5, <1>7, <1>8

LEMMA BuiltInductive == BuiltInv /\ [Next]_vars => BuiltInv'
<1> SUFFICES ASSUME BuiltInv, [Next]_vars PROVE BuiltInv'
  OBVIOUS
<1>1. CommandInv'
  BY CommandInductive DEF BuiltInv
<1> DEFINE Same == machine' = machine /\ session' = session /\ current' = current
<1>2. ASSUME Same
      PROVE  /\ command' = command
             /\ Misconfigured(command)' <=> Misconfigured(command)
             /\ Signers(command)' = Signers(command)
             /\ accounts' = accounts => (AccountsDerived' <=> AccountsDerived)
  BY <1>2, SameCommand
<1>3. CASE Configure
  BY <1>1, <1>2, <1>3 DEF BuiltInv, Configured, Derived, Configure, End, Go, nodeVars
<1>4. CASE ConnectMonitor
  BY <1>1, <1>2, <1>4 DEF BuiltInv, Configured, Derived, ConnectMonitor, End, Go, nodeVars
<1>5. CASE Derive
  <2>1. Same /\ phase = "derive" /\ ~Misconfigured(command) /\ api_up' = api_up /\ node' = node
        /\ phase' \in {"panicked", "aborted", "write", "connect"}
    BY <1>5 DEF Derive, BuiltInv, Configured, End, Go, nodeVars
  <2>2. ASSUME phase' = "connect" PROVE AccountsDerived'
    <3>1. CASE IsRange(command)
      <4> DEFINE ids == DerivedIds(StartId(command), RangeEnd(command))
      <4>1. ~(Cardinality(ids) > MaxAccounts) /\ accounts' = {to_string[i] : i \in ids}
        BY <1>5, <2>2, <3>1 DEF Derive, End, Go
      <4>2. IsRange(command)' /\ ids' = ids
        BY <2>1, <3>1 DEF command, IsRange, StartId, LastId, RangeEnd, DerivedIds, Chunk,
                          ChunkStart, Threads, Length
      <4> QED
        BY <4>1, <4>2 DEF AccountsDerived
    <3>2. CASE ~IsRange(command)
      <4>1. command.account_id \in Keyring /\ accounts' = {command.account_id}
        BY <1>5, <2>2, <3>2 DEF Derive, End, Go
      <4>2. ~IsRange(command)' /\ command' = command
        BY <2>1, <3>2 DEF command, IsRange
      <4> QED
        BY <4>1, <4>2 DEF AccountsDerived
    <3> QED
      BY <3>1, <3>2
  <2> QED
    BY <1>1, <1>2, <2>1, <2>2 DEF BuiltInv, Configured, Derived
<1>6. CASE Connect
  BY <1>1, <1>2, <1>6 DEF BuiltInv, Configured, Derived, Connect, End, Go, nodeVars
<1>7. CASE FromBackend
  BY <1>1, <1>2, <1>7 DEF BuiltInv, Configured, Derived, FromBackend, End, Go, nodeVars
<1>8. CASE ConnectClient
  BY <1>1, <1>2, <1>8 DEF BuiltInv, Configured, Derived, ConnectClient, End, Go, nodeVars
<1>9. CASE BuildTransactions
  BY <1>1, <1>2, <1>9 DEF BuiltInv, Configured, Derived, BuildTransactions, End, Go, nodeVars
<1>10. CASE InstallHook
  BY <1>1, <1>2, <1>10 DEF BuiltInv, Configured, Derived, InstallHook, End, Go, nodeVars
<1>11. CASE AnswerNonce
  BY <1>1, <1>2, <1>11 DEF BuiltInv, Configured, Derived, AnswerNonce, End, Go, nodeVars
<1>12. CASE WriteEndowed
  BY <1>1, <1>2, <1>12 DEF BuiltInv, Configured, Derived, WriteEndowed, End, Go, nodeVars
<1>13. CASE NextCommand
  BY <1>1, <1>13 DEF BuiltInv, Configured, Derived, NextCommand, End, Go, nodeVars
<1>14. CASE NodeStarts
  BY <1>1, <1>2, <1>14 DEF BuiltInv, NodeStarts, commandVars
<1>15. CASE NodeServes
  BY <1>1, <1>2, <1>15 DEF BuiltInv, NodeServes, commandVars
<1>16. CASE NodeLost
  BY <1>1, <1>2, <1>16 DEF BuiltInv, NodeLost
<1>17. CASE UNCHANGED vars
  BY <1>1, <1>2, <1>17 DEF BuiltInv, vars, commandVars, nodeVars
<1> QED
  BY <1>3, <1>4, <1>5, <1>6, <1>7, <1>8, <1>9, <1>10, <1>11, <1>12, <1>13, <1>14, <1>15, <1>16, <1>17
     DEF Next, Step, StartupOver

(* BuiltSignsForAll, whatever is asked of whichever machine: a scenario that
   gets as far as a runner signs for the accounts it was asked for, and for no
   others. *)
THEOREM BuiltIsWhatWasAsked == Spec => []BuiltSignsForAll
<1>1. Init => BuiltInv
  BY CommandInit DEF Init, BuiltInv, Configured, Derived
<1> QED
  BY <1>1, BuiltInductive, BuiltIsSound, PTL DEF Spec
-------------------------------------------------------------------------------
(* What derive_accounts makes of a command's accounts if it ends at all. *)
LEMMA DerivedIsNamed ==
  ASSUME CommandInv, IsRange(command),
         ~(Cardinality(DerivedIds(StartId(command), RangeEnd(command))) > MaxAccounts)
  PROVE  {to_string[i] : i \in DerivedIds(StartId(command), RangeEnd(command))} \subseteq Names
<1> DEFINE from == StartId(command)
           to == RangeEnd(command)
           ids == DerivedIds(from, to)
<1>1. from \in 0..U32Max /\ to \in 0..U32Max /\ U32Max \in Nat
  BY RangeType, MachineFacts
<1>2. ids = {} \/ ids = from..(to - 1)
  <2>1. CASE to < from
    BY <1>1, <2>1, WrappedRange
  <2>2. CASE from <= to
    BY <1>1, <2>2, SplitOnce DEF DerivedOnce
  <2> QED
    BY <1>1, <2>1, <2>2
<1> HIDE DEF from, to, ids
<1>3. ids \subseteq Id
  BY <1>1, <1>2 DEF Id
<1>4. to_string \in [Id -> Names]
  BY StartupAssumption
<1>5. {to_string[i] : i \in ids} \subseteq Names
  BY <1>3, <1>4
<1> QED
  BY <1>5 DEF from, to, ids

(* A sound command passes the checks, and its accounts are derived under the
   names they are looked up as, unless a number is written in another way. *)
LEMMA SoundIsConfigured ==
  ASSUME CommandInv, Sound(command)
  PROVE  /\ ~Misconfigured(command)
         /\ IsRange(command) => /\ StartId(command) <= RangeEnd(command)
                                /\ ~(Cardinality(DerivedIds(StartId(command), RangeEnd(command)))
                                       > MaxAccounts)
         /\ ~IsRange(command) => command.account_id \in Keyring
         /\ AccountsDerived /\ NamedAsDerived(command) => Signers(command) \subseteq accounts
<1> DEFINE c == command
           from == StartId(c)
           to == RangeEnd(c)
           ids == DerivedIds(from, to)
<1>1. U32Max \in Nat /\ MaxAccounts \in Nat \ {0} /\ None \notin Nat \cup Names \cup Chain \cup Message
  BY StartupAssumption
<1>2. SoundAccounts(c) /\ c.chain \in {"sub", "eth"}
      /\ (c.name = "tx" => c.rpc_uri /\ c.payload \in {"recipe", c.chain})
      /\ (c.start_id # None \/ c.account_id # None)
      /\ c.chain \notin {None, "fake"}
  <2>1. None \notin {"sub", "eth"}
    BY <1>1 DEF Chain
  <2> QED
    BY <2>1 DEF Sound
<1>3. CASE ~IsRange(c)
  <2>1. c.start_id = None
    BY <1>3 DEF IsRange
  <2>2. Parse[c.account_id] \notin Id
    BY <1>1, <1>2, <1>3, <2>1 DEF IsRange, Id
  <2>3. c.account_id \in Keyring
    BY <1>2, <2>1, <2>2 DEF SoundAccounts
  <2>4. ASSUME AccountsDerived, NamedAsDerived(c) PROVE Signers(c) \subseteq accounts
    <3>1. accounts = {c.account_id}
      BY <1>3, <2>4 DEF AccountsDerived
    <3> QED
      BY <2>1, <3>1 DEF Signers
  <2>5. ~Misconfigured(c)
    BY <1>1, <1>2, <1>3 DEF Misconfigured
  <2> QED
    BY <1>3, <2>3, <2>4, <2>5
<1>4. CASE IsRange(c)
  <2>1. from \in 0..U32Max /\ LastId(c) \in 0..U32Max /\ to \in 0..U32Max
        /\ to = IF LastId(c) = U32Max THEN 0 ELSE LastId(c) + 1
    BY <1>4, RangeType
  <2>2. /\ LastId(c) < U32Max /\ from <= LastId(c) + 1 /\ LastId(c) - from < MaxAccounts
        /\ NamedAsDerived(c) => Signers(c) = {to_string[i] : i \in from..LastId(c)}
    <3>1. CASE c.start_id # None
      BY <1>2, <3>1 DEF SoundAccounts, StartId, Signers
    <3>2. CASE c.start_id = None
      <4>1. c.account_id # None /\ Parse[c.account_id] # None /\ from = Parse[c.account_id]
            /\ LastId(c) = from
        BY <1>4, <3>2 DEF IsRange, StartId, LastId
      <4>2. c.account_id \notin Keyring
        BY <4>1, StartupAssumption
      <4>3. Parse[c.account_id] \in Id \ {U32Max}
        BY <1>2, <3>2, <4>2 DEF SoundAccounts
      <4>4. ASSUME NamedAsDerived(c) PROVE c.account_id = to_string[from]
        <5>1. PICK i \in Id : c.account_id = to_string[i]
          BY <3>2, <4>2, <4>4 DEF NamedAsDerived
        <5> QED
          BY <4>1, <5>1, StartupAssumption
      <4>5. LastId(c) < U32Max
        BY <1>1, <4>1, <4>3 DEF Id
      <4> HIDE DEF from
      <4>6. from..LastId(c) = {from}
        BY <2>1, <4>1
      <4>7. NamedAsDerived(c) => Signers(c) = {to_string[from]}
        BY <3>2, <4>4 DEF Signers
      <4> QED
        BY <1>1, <2>1, <4>1, <4>5, <4>6, <4>7
    <3> QED
      BY <3>1, <3>2
  <2>3. to = LastId(c) + 1 /\ from <= to
    BY <1>1, <2>1, <2>2
  <2>4. ids = from..(to - 1)
    BY <2>1, <2>3, SplitOnce DEF DerivedOnce
  <2> HIDE DEF from, to, ids
  <2>5. ids = from..LastId(c)
    BY <2>1, <2>3, <2>4
  <2>6. ~(Cardinality(ids) > MaxAccounts)
    <3>1. from \in Int /\ LastId(c) \in Int
      BY <2>1
    <3>2. Cardinality(ids) = IF from > LastId(c) THEN 0 ELSE LastId(c) - from + 1
      BY <2>5, <3>1, FS_Interval
    <3> QED
      BY <1>1, <2>2, <3>1, <3>2
  <2>7. ASSUME AccountsDerived, NamedAsDerived(c) PROVE Signers(c) \subseteq accounts
    <3>1. accounts = {to_string[i] : i \in ids}
      BY <1>4, <2>7 DEF AccountsDerived, from, to, ids
    <3> QED
      BY <2>2, <2>5, <2>7, <3>1
  <2>8. ~Misconfigured(c)
    BY <1>1, <1>2, <2>1, <2>2 DEF Misconfigured, Overflows
  <2> QED
    BY <1>4, <2>3, <2>6, <2>7, <2>8 DEF from, to, ids
<1> QED
  BY <1>3, <1>4
-------------------------------------------------------------------------------
(* Why connect() gives up: attempts reach MAX_ATTEMPTS only with the panic
   that ends it, and the monitor connects before any account is derived. *)
AttemptInv ==
  /\ attempts \in 0..MAX_ATTEMPTS
  /\ attempts = MAX_ATTEMPTS => phase = "panicked"
  /\ phase \in {"configure", "monitor"} => accounts = {}
  /\ phase = "monitor" => command.block_monitor
  /\ phase \notin Ended => message = None
  /\ GivesUpForAReason

LEMMA AttemptFacts == None \notin Message /\ MAX_ATTEMPTS \in Nat \ {0}
BY StartupAssumption

LEMMA AttemptInit == Init => AttemptInv
<1>1. 0 \in 0..MAX_ATTEMPTS /\ 0 # MAX_ATTEMPTS
  BY AttemptFacts
<1>2. None # "should connect to rpc client"
  BY AttemptFacts DEF Message
<1> QED
  BY <1>1, <1>2 DEF Init, AttemptInv, GivesUpForAReason, Ended

LEMMA AttemptInductive == AttemptInv /\ [Next]_vars => AttemptInv'
<1> SUFFICES ASSUME AttemptInv, [Next]_vars PROVE AttemptInv'
  OBVIOUS
<1>1. attempts \in Nat /\ MAX_ATTEMPTS \in Nat \ {0}
  BY AttemptFacts DEF AttemptInv
<1>17. None # "should connect to rpc client"
  BY AttemptFacts DEF Message
<1>18. 0 \in 0..MAX_ATTEMPTS /\ 0 # MAX_ATTEMPTS
  BY <1>1
<1>19. attempts # MAX_ATTEMPTS => attempts + 1 \in 0..MAX_ATTEMPTS
  BY <1>1 DEF AttemptInv
<1> USE DEF AttemptInv, GivesUpForAReason, End, Go, Meets, Ended, command
<1>2. CASE Configure
  BY <1>17, <1>2 DEF Configure, metVars
<1>3. CASE ConnectMonitor
  BY <1>17, <1>3 DEF ConnectMonitor
<1>4. CASE Derive
  BY <1>17, <1>4 DEF Derive, metVars
<1>5. CASE Connect
  BY <1>17, <1>5 DEF Connect
<1>6. CASE FromBackend
  <2> DEFINE failed == attempts + 1
  <2>1. attempts # MAX_ATTEMPTS /\ failed \in 0..MAX_ATTEMPTS
    <3>1. phase = "backend"
      BY <1>6 DEF FromBackend
    <3>2. attempts # MAX_ATTEMPTS
      BY <3>1
    <3> QED
      BY <1>19, <3>2
  <2>2. CASE node = "serving"
    <3>1. phase' = "client" /\ message' = None /\ attempts' = attempts
      BY <1>6, <2>2 DEF FromBackend
    <3>2. attempts' # MAX_ATTEMPTS
      BY <2>1, <3>1
    <3> HIDE DEF failed
    <3> QED
      BY <1>17, <3>1, <3>2
  <2>3. CASE node # "serving"
    <3>1. attempts' = failed
      BY <1>6, <2>3 DEF FromBackend
    <3> HIDE DEF failed
    <3> QED
      BY <1>6, <1>17, <2>1, <2>3, <3>1 DEF FromBackend, failed
  <2> QED
    BY <2>2, <2>3
<1>7. CASE ConnectClient
  BY <1>17, <1>7 DEF ConnectClient
<1>8. CASE BuildTransactions
  BY <1>17, <1>8 DEF BuildTransactions, metVars
<1>9. CASE InstallHook
  BY <1>17, <1>9 DEF InstallHook, metVars
<1>10. CASE AnswerNonce
  BY <1>17, <1>10 DEF AnswerNonce, metVars
<1>11. CASE WriteEndowed
  BY <1>17, <1>11 DEF WriteEndowed, metVars
<1>12. CASE NextCommand
  BY <1>12, <1>17, <1>18 DEF NextCommand
<1>13. CASE NodeStarts
  BY <1>17, <1>13 DEF NodeStarts, commandVars, metVars
<1>14. CASE NodeServes
  BY <1>17, <1>14 DEF NodeServes, commandVars, metVars
<1>15. CASE NodeLost
  BY <1>17, <1>15 DEF NodeLost, metVars
<1>16. CASE UNCHANGED vars
  BY <1>17, <1>16 DEF vars, commandVars, metVars
<1> QED
  BY <1>2, <1>3, <1>4, <1>5, <1>6, <1>7, <1>8, <1>9, <1>10, <1>11, <1>12, <1>13, <1>14, <1>15, <1>16
     DEF Next, Step, StartupOver

(* GivesUpForAReason, for every number of attempts. *)
THEOREM GivingUpHasAReason == Spec => []GivesUpForAReason
<1>1. AttemptInv => GivesUpForAReason
  BY DEF AttemptInv
<1> QED
  BY <1>1, AttemptInit, AttemptInductive, PTL DEF Spec
-------------------------------------------------------------------------------
(* What a sound command has found at a node that always answered. *)
SteadyFacts ==
  /\ met # {} => node = "serving"
  /\ phase \in {"backend", "client", "transactions", "hook", "answer"} => met # {}
  /\ phase \in {"client", "transactions", "answer"} => api_up
  /\ phase # "aborted"
  /\ phase = "panicked" =>
       \/ message = "Error setting Ctrl-C handler" /\ command.ctrlc_hook /\ hook_installed
       \/ /\ message = "account nonce shall exists"
          /\ met # {}
          /\ ~command.nonce_from /\ ~(Signers(command) \subseteq endowed)
       \/ message = "to account exists" /\ ~NamedAsDerived(command)

SoundInv ==
  /\ BuiltInv
  /\ losses \in Nat
  /\ Sound(command) /\ losses = 0 /\ met \subseteq {"serving"} => SteadyFacts

LEMMA SoundInductive == SoundInv /\ [Next]_vars => SoundInv'
<1> SUFFICES ASSUME SoundInv, [Next]_vars PROVE SoundInv'
  OBVIOUS
<1>1. BuiltInv' /\ CommandInv
  BY BuiltInductive DEF SoundInv, BuiltInv
<1>2. losses' \in Nat /\ (losses' = 0 => losses' = losses)
  <2>1. losses' = losses \/ losses' = losses + 1
    BY DEF Next, Step, Configure, ConnectMonitor, Derive, Connect, FromBackend, ConnectClient,
           BuildTransactions, InstallHook, AnswerNonce, WriteEndowed, NextCommand,
           NodeStarts, NodeServes, NodeLost, StartupOver, vars, nodeVars
  <2> QED
    BY <2>1 DEF SoundInv
<1> SUFFICES ASSUME Sound(command)', losses' = 0, (met \subseteq {"serving"})'
             PROVE  SteadyFacts'
  BY <1>1, <1>2 DEF SoundInv
<1>3. CASE NextCommand
  BY <1>3 DEF NextCommand, SteadyFacts, Go, End
<1>4. CASE ~NextCommand
  <2>1. machine' = machine /\ session' = session /\ current' = current
    BY <1>4 DEF Next, Step, Configure, ConnectMonitor, Derive, Connect, FromBackend,
                ConnectClient, BuildTransactions, InstallHook, AnswerNonce, WriteEndowed,
                NodeStarts, NodeServes, NodeLost, StartupOver, vars, commandVars
  <2>2. command' = command /\ Signers(command)' = Signers(command) /\ Sound(command)
        /\ (NamedAsDerived(command)' <=> NamedAsDerived(command))
    BY <2>1, SameCommand
  <2>3. met \subseteq met'
    BY <1>4 DEF Next, Step, Configure, ConnectMonitor, Derive, Connect, FromBackend,
                ConnectClient, BuildTransactions, InstallHook, AnswerNonce, WriteEndowed,
                NodeStarts, NodeServes, NodeLost, StartupOver, vars, commandVars, metVars, Meets
  <2>4. SteadyFacts /\ losses = 0
    BY <1>2, <2>2, <2>3 DEF SoundInv
  <2>5. /\ ~Misconfigured(command)
        /\ IsRange(command) => /\ StartId(command) <= RangeEnd(command)
                               /\ ~(Cardinality(DerivedIds(StartId(command), RangeEnd(command)))
                                      > MaxAccounts)
        /\ ~IsRange(command) => command.account_id \in Keyring
        /\ AccountsDerived /\ NamedAsDerived(command) => Signers(command) \subseteq accounts
    BY <1>1, <2>2, SoundIsConfigured
  <2>6. CASE Configure
    BY <2>4, <2>5, <2>6 DEF Configure, SteadyFacts, Go, End, metVars, nodeVars
  <2>7. CASE ConnectMonitor
    <3>1. node = "serving" /\ met' # {}
      BY <2>7 DEF ConnectMonitor, Meets
    <3> QED
      BY <2>4, <2>7, <3>1 DEF ConnectMonitor, SteadyFacts, Go, End, nodeVars
  <2>8. CASE Connect
    <3>1. node = "serving" /\ met' # {}
      BY <2>8 DEF Connect, Meets
    <3> QED
      BY <2>4, <2>8, <3>1 DEF Connect, SteadyFacts, Go, End, nodeVars
  <2>9. CASE FromBackend
    <3>1. node = "serving" /\ met' # {}
      BY <2>9 DEF FromBackend, Meets
    <3> QED
      BY <2>4, <2>9, <3>1 DEF FromBackend, SteadyFacts, Go, End, nodeVars
  <2>10. CASE ConnectClient
    <3>1. node = "serving" /\ met' # {}
      BY <2>10 DEF ConnectClient, Meets
    <3> QED
      BY <2>4, <2>10, <3>1 DEF ConnectClient, SteadyFacts, Go, End, nodeVars
  <2>11. CASE Derive
    <3>1. ~(RangeEnd(command) < StartId(command)) \/ ~IsRange(command)
      <4>1. CASE IsRange(command)
        <5>1. StartId(command) \in Int /\ RangeEnd(command) \in Int
          BY <1>1, <4>1, RangeType, MachineFacts
        <5> QED
          BY <2>5, <4>1, <5>1
      <4> QED
        BY <4>1
    <3>2. phase' \in {"write", "connect"}
      BY <2>5, <2>11, <3>1 DEF Derive, Go, End
    <3> QED
      BY <2>4, <2>11, <3>2 DEF Derive, SteadyFacts, metVars, nodeVars
  <2>12. CASE BuildTransactions
    <3>1. AccountsDerived /\ phase = "transactions"
      BY <2>12 DEF BuildTransactions, SoundInv, BuiltInv, Derived, Configured
    <3>2. NamedAsDerived(command) => Signers(command) \subseteq accounts
      BY <2>5, <3>1
    <3>3. api_up /\ met # {}
      BY <2>4, <3>1 DEF SteadyFacts
    <3> QED
      BY <2>2, <2>4, <2>12, <3>2, <3>3 DEF BuildTransactions, SteadyFacts, Go, End, metVars, nodeVars
  <2>13. CASE InstallHook
    BY <2>2, <2>4, <2>13 DEF InstallHook, SteadyFacts, Go, End, metVars, nodeVars
  <2>14. CASE AnswerNonce
    BY <2>4, <2>14 DEF AnswerNonce, SteadyFacts, Go, End, metVars, nodeVars
  <2>15. CASE WriteEndowed
    BY <2>4, <2>15 DEF WriteEndowed, SteadyFacts, Go, End, metVars, nodeVars
  <2>16. CASE NodeStarts
    BY <2>2, <2>4, <2>16 DEF NodeStarts, SteadyFacts, commandVars, metVars
  <2>17. CASE NodeServes
    BY <2>2, <2>4, <2>17 DEF NodeServes, SteadyFacts, commandVars, metVars
  <2>18. CASE NodeLost
    BY <2>4, <2>18 DEF NodeLost
  <2>19. CASE UNCHANGED vars
    BY <2>2, <2>4, <2>19 DEF SteadyFacts, vars, commandVars, metVars, nodeVars
  <2> QED
    BY <1>4, <2>6, <2>7, <2>8, <2>9, <2>10, <2>11, <2>12, <2>13, <2>14, <2>15, <2>16, <2>17,
       <2>18, <2>19 DEF Next, Step, StartupOver
<1> QED
  BY <1>3, <1>4

(* SoundIsBuilt: what is configured soundly never unwinds at a node that
   answers, on whichever machine. *)
THEOREM SoundCommandsSucceed == Spec => []SoundIsBuilt
<1>1. Init => SoundInv
  <2> SUFFICES ASSUME Init PROVE SoundInv
    OBVIOUS
  <2>1. BuiltInv
    BY CommandInit DEF Init, BuiltInv, Configured, Derived
  <2> QED
    BY <2>1 DEF Init, SoundInv, SteadyFacts
<1>2. SoundInv => SoundIsBuilt
  BY DEF SoundInv, SteadyFacts, SoundIsBuilt, Steady
<1> QED
  BY <1>1, <1>2, SoundInductive, PTL DEF Spec
-------------------------------------------------------------------------------
(* What TypeOK needs to know of the step before: accounts are derived from ids
   a u32 can hold, and attempts end at MAX_ATTEMPTS. *)
TypeInv == CommandInv /\ AttemptInv /\ TypeOK

LEMMA DerivedType ==
  ASSUME CommandInv, accounts \subseteq Names, Derive
  PROVE  accounts' \subseteq Names
<1> DEFINE ids == DerivedIds(StartId(command), RangeEnd(command))
<1>1. CASE IsRange(command) /\ accounts' # accounts
  <2>1. ~(Cardinality(ids) > MaxAccounts) /\ accounts' = {to_string[i] : i \in ids}
    BY <1>1 DEF Derive
  <2> QED
    BY <1>1, <2>1, DerivedIsNamed
<1>2. CASE ~IsRange(command) /\ accounts' # accounts
  <2>1. command.account_id \in Keyring /\ accounts' = {command.account_id}
    BY <1>2 DEF Derive
  <2> QED
    BY <2>1, StartupAssumption
<1> QED
  BY <1>1, <1>2

LEMMA TypeInductive == TypeInv /\ [Next]_vars => TypeInv'
<1> SUFFICES ASSUME TypeInv, [Next]_vars PROVE TypeInv'
  OBVIOUS
<1>1. CommandInv' /\ AttemptInv'
  BY CommandInductive, AttemptInductive DEF TypeInv
<1>2. /\ None \notin Message /\ Keyring \subseteq Names /\ MaxLosses \in Nat
      /\ losses \in 0..MaxLosses
      /\ (losses < MaxLosses => losses + 1 \in 0..MaxLosses)
  BY StartupAssumption DEF TypeInv, TypeOK
<1>3. command.ctrlc_hook \in BOOLEAN
  BY CommandType DEF TypeInv, Command
<1>4. TypeOK /\ CommandInv
  BY DEF TypeInv
<1>5. /\ machine' \in Machines /\ session' \in Sessions /\ current' \in 1..Len(session)'
      /\ attempts' \in 0..MAX_ATTEMPTS
  BY <1>1 DEF CommandInv, AttemptInv
<1> SUFFICES TypeOK'
  BY <1>1 DEF TypeInv
<1> USE DEF TypeOK, Ended, End, Go, Message
<1>6. CASE Configure
  BY <1>2, <1>4, <1>5, <1>6 DEF Configure, nodeVars, metVars
<1>7. CASE ConnectMonitor
  BY <1>2, <1>4, <1>5, <1>7 DEF ConnectMonitor, Meets, nodeVars
<1>8. CASE Derive
  <2>1. accounts' \subseteq Names
    BY <1>4, <1>8, DerivedType
  <2> QED
    BY <1>2, <1>4, <1>5, <1>8, <2>1 DEF Derive, nodeVars, metVars
<1>9. CASE Connect
  BY <1>2, <1>4, <1>5, <1>9 DEF Connect, Meets, nodeVars
<1>10. CASE FromBackend
  BY <1>2, <1>4, <1>5, <1>10 DEF FromBackend, Meets, nodeVars
<1>11. CASE ConnectClient
  BY <1>2, <1>4, <1>5, <1>11 DEF ConnectClient, Meets, nodeVars
<1>12. CASE BuildTransactions
  BY <1>2, <1>4, <1>5, <1>12 DEF BuildTransactions, nodeVars, metVars
<1>13. CASE InstallHook
  BY <1>2, <1>3, <1>4, <1>5, <1>13 DEF InstallHook, nodeVars, metVars
<1>14. CASE AnswerNonce
  BY <1>2, <1>4, <1>5, <1>14 DEF AnswerNonce, nodeVars, metVars
<1>15. CASE WriteEndowed
  BY <1>2, <1>4, <1>5, <1>15 DEF WriteEndowed, nodeVars, metVars
<1>16. CASE NextCommand
  <2>1. session[current + 1].same_process \in BOOLEAN
    <3>1. session \in Seq(Command) /\ current' = current + 1 /\ session' = session
      BY <1>4, <1>16, StartupAssumption DEF CommandInv, NextCommand
    <3>2. session[current + 1] \in Command
      BY <1>5, <3>1
    <3> QED
      BY <3>2 DEF Command
  <2> QED
    BY <1>2, <1>4, <1>5, <1>16, <2>1 DEF NextCommand, nodeVars
<1>17. CASE NodeStarts
  BY <1>2, <1>4, <1>5, <1>17 DEF NodeStarts, commandVars, metVars
<1>18. CASE NodeServes
  BY <1>2, <1>4, <1>5, <1>18 DEF NodeServes, commandVars, metVars
<1>19. CASE NodeLost
  BY <1>2, <1>4, <1>5, <1>19 DEF NodeLost, metVars
<1>20. CASE UNCHANGED vars
  BY <1>4, <1>5, <1>20 DEF vars, commandVars, metVars, nodeVars
<1> QED
  BY <1>6, <1>7, <1>8, <1>9, <1>10, <1>11, <1>12, <1>13, <1>14, <1>15, <1>16, <1>17, <1>18, <1>19,
     <1>20 DEF Next, Step, StartupOver

(* Whatever is asked and whatever the node does, an unwound command says why,
   no account is derived under a name that is none, and a live connection is
   one to a node that served. *)
THEOREM StartupTypeCorrect == Spec => []TypeOK
<1>1. Init => TypeInv
  <2> SUFFICES ASSUME Init PROVE TypeInv
    OBVIOUS
  <2>1. CommandInv /\ AttemptInv /\ Keyring \subseteq Names /\ 0 \in 0..MaxLosses
    BY CommandInit, AttemptInit, StartupAssumption
  <2> QED
    BY <2>1 DEF Init, TypeInv, TypeOK, CommandInv, AttemptInv, Ended
<1>2. TypeInv => TypeOK
  BY DEF TypeInv
<1> QED
  BY <1>1, <1>2, TypeInductive, PTL DEF Spec
-------------------------------------------------------------------------------
(* Whose accounts the chain spec endows, on whichever machine they were
   derived: those of an endowment before, or of the one that runs. *)
Covers(c, keys) ==
  IsRange(c) => keys = {to_string[i] : i \in StartId(c)..LastId(c)}

FundsInv ==
  /\ BuiltInv /\ AttemptInv
  /\ phase = "write" => command.name = "endow" /\ (accounts = {} \/ AccountsDerived)
  /\ phase = "transactions" => message = None
  /\ message = "account nonce shall exists" =>
       AccountsDerived /\ Signers(command) \subseteq accounts
  /\ chain_spec # {} =>
       \E i \in 1..current : session[i].name = "endow" /\ Covers(session[i], chain_spec)

LEMMA DerivedCovers ==
  ASSUME CommandInv, AccountsDerived, accounts # {}
  PROVE  Covers(command, accounts)
<1> SUFFICES ASSUME IsRange(command)
             PROVE  accounts = {to_string[i] : i \in StartId(command)..LastId(command)}
  BY DEF Covers
<1>1. accounts = {to_string[i] : i \in DerivedIds(StartId(command), RangeEnd(command))}
  BY DEF AccountsDerived
<1> QED
  BY <1>1, DerivedInOrder

(* What of FundsInv is about the command alone. *)
Funding ==
  /\ phase = "write" => command.name = "endow" /\ (accounts = {} \/ AccountsDerived)
  /\ phase = "transactions" => message = None
  /\ message = "account nonce shall exists" =>
       AccountsDerived /\ Signers(command) \subseteq accounts

LEMMA FundingStep ==
  ASSUME FundsInv, [Next]_vars
  PROVE  Funding'
<1>0. Funding /\ BuiltInv /\ AttemptInv /\ None # "account nonce shall exists"
  BY StartupAssumption DEF FundsInv, Funding, Message
<1>1. phase \notin Ended => message = None
  BY <1>0 DEF AttemptInv
<1> DEFINE Same == machine' = machine /\ session' = session /\ current' = current
<1>2. ASSUME Same
      PROVE  /\ command' = command
             /\ Signers(command)' = Signers(command)
             /\ accounts' = accounts => (AccountsDerived' <=> AccountsDerived)
  BY <1>2, SameCommand
<1> USE DEF Funding, End, Go
<1>3. CASE Configure
  <2>1. phase = "configure" /\ accounts = {}
    BY <1>0, <1>3 DEF Configure, AttemptInv
  <2> QED
    BY <1>0, <1>2, <1>3, <2>1 DEF Configure
<1>4. CASE ConnectMonitor
  BY <1>0, <1>2, <1>4 DEF ConnectMonitor
<1>5. CASE Derive
  <2>1. Same /\ message' # "account nonce shall exists" /\ phase' # "transactions"
    BY <1>0, <1>5 DEF Derive
  <2>2. phase' = "write" => command.name = "endow" /\ AccountsDerived'
    <3> SUFFICES ASSUME phase' = "write" PROVE command.name = "endow" /\ AccountsDerived'
      OBVIOUS
    <3> DEFINE ids == DerivedIds(StartId(command), RangeEnd(command))
    <3>1. command.name = "endow"
      BY <1>5 DEF Derive
    <3>2. command' = command
      BY <2>1, <1>2
    <3>4. IsRange(command)' <=> IsRange(command)
      BY <3>2 DEF IsRange
    <3>5. StartId(command)' = StartId(command) /\ RangeEnd(command)' = RangeEnd(command)
      BY <3>2 DEF StartId, LastId, RangeEnd
    <3>6. ids' = ids
      BY <2>1, <3>5 DEF DerivedIds, Chunk, ChunkStart, Threads, Length
    <3>3. IF IsRange(command)
          THEN ~(Cardinality(ids) > MaxAccounts) /\ accounts' = {to_string[i] : i \in ids}
          ELSE command.account_id \in Keyring /\ accounts' = {command.account_id}
      BY <1>5 DEF Derive
    <3> QED
      BY <3>1, <3>2, <3>3, <3>4, <3>6 DEF AccountsDerived
  <2> QED
    BY <1>2, <2>1, <2>2
<1>6. CASE Connect
  BY <1>0, <1>2, <1>6 DEF Connect
<1>7. CASE FromBackend
  BY <1>0, <1>2, <1>7 DEF FromBackend
<1>8. CASE ConnectClient
  BY <1>0, <1>2, <1>8 DEF ConnectClient
<1>9. CASE BuildTransactions
  <2>1. Same /\ accounts' = accounts /\ AccountsDerived
        /\ phase' \in {"panicked", "hook"}
        /\ (message' = "account nonce shall exists" => Signers(command) \subseteq accounts)
    BY <1>0, <1>9 DEF BuildTransactions, BuiltInv, Derived, Configured
  <2> QED
    BY <1>2, <2>1
<1>10. CASE InstallHook
  BY <1>0, <1>2, <1>10 DEF InstallHook
<1>11. CASE AnswerNonce
  BY <1>0, <1>2, <1>11 DEF AnswerNonce
<1>12. CASE WriteEndowed
  BY <1>0, <1>2, <1>12 DEF WriteEndowed
<1>13. CASE NextCommand
  BY <1>0, <1>13 DEF NextCommand
<1>14. CASE NodeStarts
  BY <1>0, <1>2, <1>14 DEF NodeStarts, commandVars
<1>15. CASE NodeServes
  BY <1>0, <1>2, <1>15 DEF NodeServes, commandVars
<1>16. CASE NodeLost
  BY <1>0, <1>2, <1>16 DEF NodeLost
<1>17. CASE UNCHANGED vars
  BY <1>0, <1>2, <1>17 DEF vars, commandVars
<1> QED
  BY <1>3, <1>4, <1>5, <1>6, <1>7, <1>8, <1>9, <1>10, <1>11, <1>12, <1>13, <1>14, <1>15, <1>16,
     <1>17 DEF Next, Step, StartupOver

LEMMA FundsInductive == FundsInv /\ [Next]_vars => FundsInv'
<1> SUFFICES ASSUME FundsInv, [Next]_vars PROVE FundsInv'
  OBVIOUS
<1>1. BuiltInv' /\ AttemptInv' /\ Funding'
  BY BuiltInductive, AttemptInductive, FundingStep DEF FundsInv
<1>2. CommandInv /\ current \in Nat /\ session' = session /\ current' \in {current, current + 1}
  <2>1. CommandInv
    BY DEF FundsInv, BuiltInv
  <2>2. session' = session /\ current' \in {current, current + 1}
    BY DEF Next, Step, Configure, ConnectMonitor, Derive, Connect,
           FromBackend, ConnectClient, BuildTransactions, InstallHook, AnswerNonce, WriteEndowed,
           NextCommand, NodeStarts, NodeServes, NodeLost, StartupOver, vars, commandVars
  <2> QED
    BY <2>1, <2>2, SessionType
<1>3. \A i \in 1..current :
        /\ i \in 1..current' /\ session'[i] = session[i]
        /\ \A keys : Covers(session[i], keys) => Covers(session[i], keys)'
  BY <1>2 DEF Covers, IsRange, StartId, LastId
<1>4. ASSUME chain_spec' # {}
      PROVE  \E i \in 1..current' :
               session'[i].name = "endow" /\ Covers(session[i], chain_spec)'
  <2>1. CASE chain_spec' = chain_spec
    <3>1. PICK i \in 1..current : session[i].name = "endow" /\ Covers(session[i], chain_spec)
      BY <1>4, <2>1 DEF FundsInv
    <3>2. IsRange(session[i])' <=> IsRange(session[i])
      BY <1>2 DEF IsRange
    <3>3. StartId(session[i])' = StartId(session[i]) /\ LastId(session[i])' = LastId(session[i])
      BY <1>2 DEF StartId, LastId
    <3>4. Covers(session[i], chain_spec)'
      BY <2>1, <3>1, <3>2, <3>3 DEF Covers
    <3> QED
      BY <1>2, <1>3, <3>1, <3>4
  <2>2. CASE chain_spec' # chain_spec
    <3>1. WriteEndowed
      BY <2>2 DEF Next, Step, Configure, ConnectMonitor, Derive, Connect, FromBackend,
                  ConnectClient, BuildTransactions, InstallHook, AnswerNonce, NextCommand,
                  NodeStarts, NodeServes, NodeLost, StartupOver, vars
    <3>2. chain_spec' = accounts /\ accounts # {} /\ phase = "write" /\ current' = current
      BY <1>4, <2>2, <3>1 DEF WriteEndowed
    <3>3. session[current].name = "endow" /\ Covers(session[current], accounts)
      BY <1>2, <3>2, DerivedCovers DEF FundsInv, command
    <3>4. IsRange(session[current])' <=> IsRange(session[current])
      BY <1>2, <3>2 DEF IsRange
    <3>5. /\ StartId(session[current])' = StartId(session[current])
          /\ LastId(session[current])' = LastId(session[current])
      BY <1>2, <3>2 DEF StartId, LastId
    <3>6. Covers(session[current], chain_spec)'
      BY <3>2, <3>3, <3>4, <3>5 DEF Covers
    <3>7. current \in 1..current' /\ session'[current] = session[current]
      BY <1>2, <3>2 DEF CommandInv
    <3> QED
      BY <3>2, <3>3, <3>6, <3>7
  <2> QED
    BY <2>1, <2>2
<1> QED
  BY <1>1, <1>4 DEF FundsInv, Funding

(* The premise of EndowedSuffices for the command i. *)
Funds(i) ==
  /\ session[i].name = "endow"
  /\ \A j \in 1..(current - 1) : session[j].name = "endow" => j = i
  /\ command.name = "tx" /\ IsRange(command) /\ IsRange(session[i])
  /\ StartId(session[i]) <= StartId(command) /\ LastId(command) <= LastId(session[i])
  /\ chain_spec # {} /\ chain_spec \subseteq endowed
  /\ phase = "built" \/ message = "account nonce shall exists"

LEMMA FundsSuffice == FundsInv => EndowedSuffices
<1> SUFFICES ASSUME FundsInv, NEW i \in 1..(current - 1), Funds(i)
             PROVE  Signers(command) \subseteq endowed
  BY DEF EndowedSuffices, Funds
<1>1. CommandInv /\ BuiltInv
  BY DEF FundsInv, BuiltInv
<1>2. current \in Nat /\ session \in Seq(Command) /\ current <= Len(session) /\ Len(session) \in Nat
  BY <1>1, SessionType
<1>3. AccountsDerived /\ Signers(command) \subseteq accounts
  <2>1. CASE phase = "built"
    BY <1>1, <2>1 DEF BuiltInv, Derived, Configured
  <2>2. CASE message = "account nonce shall exists"
    BY <2>2 DEF FundsInv
  <2> QED
    BY <2>1, <2>2 DEF Funds
<1>4. chain_spec = {to_string[k] : k \in StartId(session[i])..LastId(session[i])}
  <2>1. PICK j \in 1..current : session[j].name = "endow" /\ Covers(session[j], chain_spec)
    BY DEF FundsInv, Funds
  <2>2. j # current
    BY <2>1 DEF command, Funds
  <2>3. j \in 1..(current - 1)
    BY <1>2, <2>2
  <2>4. j = i
    BY <2>1, <2>3 DEF Funds
  <2> QED
    BY <1>1, <2>1, <2>4 DEF Covers, Funds
<1>5. session[i] \in Command /\ command \in Command
  <2>1. i \in 1..Len(session)
    BY <1>2
  <2> QED
    BY <1>1, <1>2, <2>1, CommandType
<1>6. /\ StartId(session[i]) \in Int /\ LastId(session[i]) \in Int
      /\ StartId(command) \in Int /\ LastId(command) \in Int
  <2>1. U32Max \in Nat /\ IsRange(session[i]) /\ IsRange(command)
    BY StartupAssumption DEF Funds
  <2>2. StartId(session[i]) \in 0..U32Max /\ LastId(session[i]) \in 0..U32Max
    BY <1>5, <2>1, RangeOf
  <2>3. StartId(command) \in 0..U32Max /\ LastId(command) \in 0..U32Max
    BY <1>5, <2>1, RangeOf
  <2> QED
    BY <2>1, <2>2, <2>3
<1>7. StartId(command)..LastId(command) \subseteq StartId(session[i])..LastId(session[i])
  <2>1. StartId(session[i]) <= StartId(command) /\ LastId(command) <= LastId(session[i])
    BY DEF Funds
  <2> QED
    BY <1>6, <2>1
<1>8. accounts # {} => accounts = {to_string[k] : k \in StartId(command)..LastId(command)}
  BY <1>1, <1>3, DerivedCovers DEF Covers, Funds
<1> QED
  BY <1>3, <1>4, <1>7, <1>8 DEF Funds

(* EndowedSuffices, whatever else the session does in between and however the
   two commands split their ranges among threads. *)
THEOREM FundsReachTheirScenarios == Spec => []EndowedSuffices
<1>1. Init => FundsInv
  <2> SUFFICES ASSUME Init PROVE FundsInv
    OBVIOUS
  <2>1. CommandInv /\ AttemptInv /\ None # "account nonce shall exists"
    BY CommandInit, AttemptInit, StartupAssumption DEF Message
  <2> QED
    BY <2>1 DEF Init, FundsInv, BuiltInv, Configured, Derived
<1> QED
  BY <1>1, FundsInductive, FundsSuffice, PTL DEF Spec
===============================================================================
