-------------------------- MODULE BlockMonitorProofs --------------------------
(***************************************************************************)
(* That the block monitor forgets nobody who waits and that its answers    *)
(* are true, for any number of transactions, lifetimes, blocks and places  *)
(* in the channel.                                                         *)
(***************************************************************************)
EXTENDS BlockMonitor, TLAPS

-------------------------------------------------------------------------------
(* Facts about the channel. *)

(* Sending adds one element at the end. *)
LEMMA AppendFacts ==
  ASSUME NEW S, NEW s \in Seq(S), NEW e \in S
  PROVE  /\ Append(s, e) \in Seq(S)
         /\ Len(Append(s, e)) = Len(s) + 1
         /\ DOMAIN Append(s, e) = 1..(Len(s) + 1)
         /\ \A i \in 1..Len(s) : Append(s, e)[i] = s[i]
         /\ Append(s, e)[Len(s) + 1] = e
         /\ Range(Append(s, e)) = Range(s) \cup {e}
<1>1. /\ Append(s, e) \in Seq(S)
      /\ Len(Append(s, e)) = Len(s) + 1
      /\ \A i \in 1..Len(s) : Append(s, e)[i] = s[i]
      /\ Append(s, e)[Len(s) + 1] = e
  OBVIOUS
<1>2. DOMAIN Append(s, e) = 1..(Len(s) + 1) /\ DOMAIN s = 1..Len(s) /\ Len(s) \in Nat
  BY <1>1
<1>3. \A x : x \in Range(Append(s, e)) <=> x \in Range(s) \cup {e}
  <2> TAKE x
  <2>1. ASSUME x \in Range(Append(s, e)) PROVE x \in Range(s) \cup {e}
    <3>1. PICK i \in 1..(Len(s) + 1) : x = Append(s, e)[i]
      BY <2>1, <1>2 DEF Range
    <3>2. i \in 1..Len(s) \/ i = Len(s) + 1
      BY <3>1, <1>2
    <3> QED
      BY <3>1, <3>2, <1>1, <1>2 DEF Range
  <2>2. ASSUME x \in Range(s) PROVE x \in Range(Append(s, e))
    <3>1. PICK i \in 1..Len(s) : x = s[i]
      BY <2>2, <1>2 DEF Range
    <3>2. i \in 1..(Len(s) + 1) /\ x = Append(s, e)[i]
      BY <3>1, <1>1, <1>2
    <3> QED
      BY <3>2, <1>2 DEF Range
  <2>3. e \in Range(Append(s, e))
    BY <1>1, <1>2 DEF Range
  <2> QED
    BY <2>1, <2>2, <2>3
<1> QED
  BY <1>1, <1>2, <1>3

(* Taking the first element leaves the others, one place further on. *)
LEMMA TailFacts ==
  ASSUME NEW S, NEW s \in Seq(S), s # <<>>
  PROVE  /\ Tail(s) \in Seq(S)
         /\ Len(Tail(s)) = Len(s) - 1 /\ Len(s) \in Nat \ {0}
         /\ DOMAIN Tail(s) = 1..(Len(s) - 1)
         /\ \A i \in 1..(Len(s) - 1) : Tail(s)[i] = s[i + 1]
         /\ Head(s) = s[1] /\ Head(s) \in S
         /\ Range(s) = {Head(s)} \cup Range(Tail(s))
<1>1. /\ Tail(s) \in Seq(S)
      /\ Len(Tail(s)) = Len(s) - 1 /\ Len(s) \in Nat \ {0}
      /\ \A i \in 1..(Len(s) - 1) : Tail(s)[i] = s[i + 1]
      /\ Head(s) = s[1] /\ Head(s) \in S
  OBVIOUS
<1>2. DOMAIN Tail(s) = 1..(Len(s) - 1) /\ DOMAIN s = 1..Len(s)
  BY <1>1
<1>3. \A x : x \in Range(s) <=> x \in {Head(s)} \cup Range(Tail(s))
  <2> TAKE x
  <2>1. ASSUME x \in Range(s) PROVE x \in {Head(s)} \cup Range(Tail(s))
    <3>1. PICK i \in 1..Len(s) : x = s[i]
      BY <2>1, <1>2 DEF Range
    <3>2. CASE i = 1
      BY <3>1, <3>2, <1>1
    <3>3. CASE i # 1
      <4>1. (i - 1) \in 1..(Len(s) - 1) /\ (i - 1) + 1 = i
        BY <3>1, <3>3, <1>1
      <4>2. Tail(s)[i - 1] = x
        BY <4>1, <1>1, <3>1
      <4> QED
        BY <4>1, <4>2, <1>2 DEF Range
    <3> QED
      BY <3>2, <3>3
  <2>2. ASSUME x \in Range(Tail(s)) PROVE x \in Range(s)
    <3>1. PICK i \in 1..(Len(s) - 1) : x = Tail(s)[i]
      BY <2>2, <1>2 DEF Range
    <3>2. (i + 1) \in 1..Len(s) /\ x = s[i + 1]
      BY <3>1, <1>1
    <3> QED
      BY <3>2, <1>2 DEF Range
  <2>3. Head(s) \in Range(s)
    <3>1. 1 \in 1..Len(s)
      BY <1>1
    <3> QED
      BY <3>1, <1>1, <1>2 DEF Range
  <2> QED
    BY <2>1, <2>2, <2>3
<1> QED
  BY <1>1, <1>2, <1>3

(* The empty channel holds nobody. *)
LEMMA EmptyFacts == Range(<<>>) = {} /\ Len(<<>>) = 0 /\ DOMAIN <<>> = {}
<1>1. Len(<<>>) = 0 /\ DOMAIN <<>> = 1..0
  OBVIOUS
<1>2. 1..0 = {}
  OBVIOUS
<1> QED
  BY <1>1, <1>2 DEF Range

-------------------------------------------------------------------------------
(* Types. *)

LEMMA TypeInit == Init => TypeOK
<1> SUFFICES ASSUME Init PROVE TypeOK
  OBVIOUS
<1>1. chain \in Seq(SUBSET Tx) /\ listener_request \in Seq(Tx) /\ Len(chain) = 0
      /\ Len(listener_request) = 0
  BY DEF Init
<1>2. Capacity \in Nat /\ MaxBlocks \in Nat
  BY MonitorAssumption
<1>3. listener \in [Tx -> ListenerState]
  BY DEF Init, ListenerState
<1> QED
  BY <1>1, <1>2, <1>3 DEF Init, TypeOK

LEMMA TypeInductive == TypeOK /\ [Next]_vars => TypeOK'
<1> SUFFICES ASSUME TypeOK, [Next]_vars PROVE TypeOK'
  OBVIOUS
<1> USE MonitorAssumption
<1>0. /\ chain \in Seq(SUBSET Tx) /\ Len(chain) \in Nat /\ Len(chain) <= MaxBlocks
      /\ seen \in 0..Len(chain)
      /\ listener \in [Tx -> ListenerState]
      /\ listener_request \in Seq(Tx) /\ Len(listener_request) <= Capacity
      /\ callbacks \subseteq Tx
      /\ mortal_accounting \in [Blocks -> SUBSET Tx]
      /\ monitor \in {"running", "dead"}
      /\ since \in [Tx -> 0..MaxBlocks]
  BY DEF TypeOK
<1>1. ASSUME NEW t \in Tx, Submit(t) PROVE TypeOK'
  <2>1. listener' \in [Tx -> ListenerState]
    BY <1>0, <1>1 DEF Submit, ListenerState
  <2> QED
    BY <2>1, <1>0, <1>1 DEF Submit, monitorVars, TypeOK
<1>2. ASSUME NEW t \in Tx, RegisterListener(t) PROVE TypeOK'
  <2>1. listener' \in [Tx -> ListenerState]
    BY <1>0, <1>2 DEF RegisterListener, ListenerState, Answers
  <2>2. listener_request' \in Seq(Tx) /\ Len(listener_request') <= Capacity
    <3>1. CASE monitor = "dead"
      BY <3>1, <1>0, <1>2 DEF RegisterListener
    <3>2. CASE monitor # "dead"
      <4>1. listener_request' = Append(listener_request, t) /\ Len(listener_request) < Capacity
        BY <3>2, <1>2 DEF RegisterListener
      <4>2. Len(listener_request) \in Nat /\ Len(listener_request') = Len(listener_request) + 1
        BY <4>1, <1>0, AppendFacts
      <4> QED
        BY <4>1, <4>2, <1>0, AppendFacts
    <3> QED
      BY <3>1, <3>2
  <2> QED
    BY <2>1, <2>2, <1>0, <1>2 DEF RegisterListener, monitorVars, TypeOK
<1>3. ASSUME NEW txs \in SUBSET Includable, FinalizeBlock(txs) PROVE TypeOK'
  <2>1. txs \in SUBSET Tx
    BY DEF Includable
  <2>2. chain' \in Seq(SUBSET Tx) /\ Len(chain') = Len(chain) + 1 /\ Len(chain) < MaxBlocks
    BY <2>1, <1>0, <1>3, AppendFacts DEF FinalizeBlock
  <2> QED
    BY <2>2, <1>0, <1>3 DEF FinalizeBlock, monitorVars, TypeOK
<1>4. ASSUME NEW txs \in SUBSET Includable, HandleBest(txs) PROVE TypeOK'
  BY <1>0, <1>4 DEF HandleBest, vars, monitorVars, TypeOK
<1>5. CASE RunnerEnds
  <2>1. listener' \in [Tx -> ListenerState]
    BY <1>0, <1>5 DEF RunnerEnds, ListenerState
  <2> QED
    BY <2>1, <1>0, <1>5 DEF RunnerEnds, monitorVars, TypeOK
<1>6. CASE TakeRequest
  <2>1. Head(listener_request) \in Tx /\ Tail(listener_request) \in Seq(Tx)
        /\ Len(Tail(listener_request)) = Len(listener_request) - 1
        /\ Len(listener_request) \in Nat
    BY <1>0, <1>6, TailFacts DEF TakeRequest
  <2>2. since' \in [Tx -> 0..MaxBlocks]
    BY <1>0, <1>6 DEF TakeRequest
  <2>3. mortal_accounting' \in [Blocks -> SUBSET Tx]
    BY <2>1, <1>0, <1>6 DEF TakeRequest
  <2>4. listener_request' \in Seq(Tx) /\ Len(listener_request') <= Capacity
    BY <2>1, <1>0, <1>6 DEF TakeRequest
  <2> QED
    BY <2>1, <2>2, <2>3, <2>4, <1>0, <1>6 DEF TakeRequest, TypeOK
<1>7. CASE HandleFinalized
  <2>1. seen' = seen + 1 /\ seen' \in 0..Len(chain)
    BY <1>0, <1>7 DEF HandleFinalized
  <2>2. listener' \in [Tx -> ListenerState]
    BY <1>0, <1>7 DEF HandleFinalized, ListenerState, Answers
  <2>3. callbacks' \subseteq Tx
    BY <1>0, <1>7 DEF HandleFinalized, Untriggered
  <2>4. mortal_accounting' \in [Blocks -> SUBSET Tx]
    BY <1>0, <1>7 DEF HandleFinalized
  <2> QED
    BY <2>1, <2>2, <2>3, <2>4, <1>0, <1>7 DEF HandleFinalized, TypeOK
<1>8. CASE Die
  <2>1. listener' \in [Tx -> ListenerState]
    BY <1>0, <1>8 DEF Die, ListenerState, Answers
  <2>2. listener_request' \in Seq(Tx) /\ Len(listener_request') <= Capacity
    BY <1>8 DEF Die
  <2> QED
    BY <2>1, <2>2, <1>0, <1>8 DEF Die, TypeOK
<1>9. CASE UNCHANGED vars
  BY <1>0, <1>9 DEF vars, monitorVars, TypeOK
<1> QED
  BY <1>1, <1>2, <1>3, <1>4, <1>5, <1>6, <1>7, <1>8, <1>9
  DEF Next, Monitor, HandleFinalizedPanics, HandleFails, Over

(* Every variable of the monitor, its channel and its listeners stays in its
   type, and the channel within its capacity (block_monitor.rs:81, 105). *)
THEOREM MonitorTypeCorrect == Spec => []TypeOK
<1> QED
  BY TypeInit, TypeInductive, PTL DEF Spec

-------------------------------------------------------------------------------
(* Whoever waits is known. *)

(* A transaction registers once. *)
RegisteredOnce ==
  \A i, j \in 1..Len(listener_request) : i # j => listener_request[i] # listener_request[j]

ListenerInv == NoOrphanedListener /\ RegisteredOnce

LEMMA ListenerInit == Init => ListenerInv
<1> SUFFICES ASSUME Init PROVE ListenerInv
  OBVIOUS
<1>1. callbacks = {} /\ Range(listener_request) = {} /\ Len(listener_request) = 0
  BY EmptyFacts DEF Init
<1>2. \A t \in Tx : listener[t] # "waiting"
  BY DEF Init
<1> QED
  BY <1>1, <1>2 DEF ListenerInv, NoOrphanedListener, RegisteredOnce

LEMMA ListenerInductive == TypeOK /\ ListenerInv /\ [Next]_vars => ListenerInv'
<1> SUFFICES ASSUME TypeOK, ListenerInv, [Next]_vars PROVE ListenerInv'
  OBVIOUS
<1> DEFINE asked == Range(listener_request)
<1>0. /\ listener \in [Tx -> ListenerState]
      /\ listener_request \in Seq(Tx) /\ callbacks \subseteq Tx
      /\ \A t \in Tx : listener[t] = "waiting" => t \in callbacks \cup asked
      /\ \A t \in callbacks \cup asked : listener[t] \in {"waiting", "abandoned"}
      /\ callbacks \cap asked = {}
      /\ RegisteredOnce
  BY DEF TypeOK, ListenerInv, NoOrphanedListener
<1>01. asked \subseteq Tx
  BY <1>0 DEF Range
<1>1. ASSUME NEW t \in Tx, Submit(t) PROVE ListenerInv'
  <2>1. /\ listener[t] = "none" /\ listener' = [listener EXCEPT ![t] = "accepted"]
        /\ listener_request' = listener_request /\ callbacks' = callbacks
    BY <1>1 DEF Submit, monitorVars
  <2> QED
    BY <2>1, <1>0, <1>01 DEF ListenerInv, NoOrphanedListener, RegisteredOnce
<1>2. ASSUME NEW t \in Tx, RegisterListener(t) PROVE ListenerInv'
  <2>1. listener[t] = "accepted" /\ callbacks' = callbacks
    BY <1>2 DEF RegisterListener, monitorVars
  <2>2. t \notin callbacks \cup asked
    BY <2>1, <1>0
  <2>3. CASE monitor = "dead"
    <3>1. /\ listener' = [listener EXCEPT ![t] = "Panicked"]
          /\ listener_request' = listener_request
      BY <2>3, <1>2 DEF RegisterListener
    <3> QED
      BY <2>1, <2>2, <3>1, <1>0, <1>01 DEF ListenerInv, NoOrphanedListener, RegisteredOnce
  <2>4. CASE monitor # "dead"
    <3>1. /\ listener' = [listener EXCEPT ![t] = "waiting"]
          /\ listener_request' = Append(listener_request, t)
      BY <2>4, <1>2 DEF RegisterListener
    <3>2. /\ Range(listener_request') = asked \cup {t}
          /\ Len(listener_request') = Len(listener_request) + 1 /\ Len(listener_request) \in Nat
          /\ \A i \in 1..Len(listener_request) : listener_request'[i] = listener_request[i]
          /\ listener_request'[Len(listener_request) + 1] = t
      BY <3>1, <1>0, AppendFacts
    <3>3. \A i \in 1..Len(listener_request) : listener_request[i] # t
      BY <2>2, <1>0 DEF Range
    <3>4. RegisteredOnce'
      BY <3>2, <3>3, <1>0 DEF RegisteredOnce
    <3>5. NoOrphanedListener'
      BY <3>1, <3>2, <2>1, <2>2, <1>0, <1>01 DEF NoOrphanedListener
    <3> QED
      BY <3>4, <3>5 DEF ListenerInv
  <2> QED
    BY <2>3, <2>4
<1>3. ASSUME NEW txs \in SUBSET Includable, FinalizeBlock(txs) PROVE ListenerInv'
  BY <1>3, <1>0 DEF FinalizeBlock, monitorVars, ListenerInv, NoOrphanedListener, RegisteredOnce
<1>4. ASSUME NEW txs \in SUBSET Includable, HandleBest(txs) PROVE ListenerInv'
  BY <1>4, <1>0 DEF HandleBest, vars, monitorVars, ListenerInv, NoOrphanedListener, RegisteredOnce
<1>5. CASE RunnerEnds
  <2>1. /\ listener' = [t \in Tx |-> IF listener[t] \in Answers THEN listener[t] ELSE "abandoned"]
        /\ listener_request' = listener_request /\ callbacks' = callbacks
    BY <1>5 DEF RunnerEnds, monitorVars
  <2>2. \A t \in Tx : listener'[t] # "waiting"
    BY <2>1 DEF Answers
  <2>3. \A t \in callbacks \cup asked : listener'[t] = "abandoned"
    BY <2>1, <1>0, <1>01 DEF Answers
  <2> QED
    BY <2>1, <2>2, <2>3, <1>0 DEF ListenerInv, NoOrphanedListener, RegisteredOnce
<1>6. CASE TakeRequest
  <2> DEFINE head == Head(listener_request)
  <2>1. /\ listener_request # <<>> /\ listener' = listener
        /\ callbacks' = callbacks \cup {head}
        /\ listener_request' = Tail(listener_request)
    BY <1>6 DEF TakeRequest
  <2>2. /\ Len(Tail(listener_request)) = Len(listener_request) - 1 /\ Len(listener_request) \in Nat \ {0}
        /\ DOMAIN Tail(listener_request) = 1..(Len(listener_request) - 1)
        /\ \A i \in 1..(Len(listener_request) - 1) : Tail(listener_request)[i] = listener_request[i + 1]
        /\ head = listener_request[1]
        /\ asked = {head} \cup Range(Tail(listener_request))
    BY <2>1, <1>0, TailFacts
  <2>3. head \notin Range(Tail(listener_request))
    BY <2>2, <1>0 DEF RegisteredOnce, Range
  <2>4. RegisteredOnce'
    BY <2>1, <2>2, <1>0 DEF RegisteredOnce
  <2>5. NoOrphanedListener'
    BY <2>1, <2>2, <2>3, <1>0 DEF NoOrphanedListener
  <2> QED
    BY <2>4, <2>5 DEF ListenerInv
<1>7. CASE HandleFinalized
  <2> DEFINE n == seen + 1
             told == Found(n) \cup Expired(n)
  <2>1. /\ listener' = [t \in Tx |-> IF t \in Found(n) THEN "Ok"
                                    ELSE IF t \in Expired(n) THEN "MortalLifetimeSurpassed"
                                    ELSE listener[t]]
        /\ callbacks' = callbacks \ told
        /\ listener_request' = listener_request
    BY <1>7 DEF HandleFinalized, Untriggered
  <2>2. told \subseteq callbacks
    BY DEF Found, Expired
  <2> HIDE DEF told
  <2>3. \A t \in Tx : /\ t \notin told => listener'[t] = listener[t]
                      /\ t \in told => listener'[t] \in {"Ok", "MortalLifetimeSurpassed"}
    BY <2>1 DEF told
  <2>4. NoOrphanedListener'
    BY <2>1, <2>2, <2>3, <1>0, <1>01 DEF NoOrphanedListener
  <2> QED
    BY <2>1, <2>4, <1>0 DEF ListenerInv, RegisteredOnce
<1>8. CASE Die
  <2>1. /\ listener' = [t \in Tx |-> IF listener[t] = "waiting" THEN "Closed" ELSE listener[t]]
        /\ callbacks' = {} /\ Range(listener_request') = {} /\ Len(listener_request') = 0
    BY <1>8, EmptyFacts DEF Die
  <2>2. \A t \in Tx : listener'[t] # "waiting"
    BY <2>1
  <2> QED
    BY <2>1, <2>2 DEF ListenerInv, NoOrphanedListener, RegisteredOnce
<1>9. CASE UNCHANGED vars
  BY <1>9, <1>0 DEF vars, monitorVars, ListenerInv, NoOrphanedListener, RegisteredOnce
<1> QED
  BY <1>1, <1>2, <1>3, <1>4, <1>5, <1>6, <1>7, <1>8, <1>9
  DEF Next, Monitor, HandleFinalizedPanics, HandleFails, Over

(* A pending listener's trigger is in the channel or among the callbacks, so
   that it is answered, or closed with the monitor (block_monitor.rs:66-71,
   125-137). *)
THEOREM WaitersAreKnown == Spec => []NoOrphanedListener
<1>1. ListenerInv => NoOrphanedListener
  BY DEF ListenerInv
<1> QED
  BY TypeInit, TypeInductive, ListenerInit, ListenerInductive, <1>1, PTL DEF Spec

-------------------------------------------------------------------------------
(* What it tells them is true. *)

(* A lifetime is accounted for at its last block, and that of a transaction
   among the callbacks as long as the block is to come. *)
AccountingInv ==
  /\ \A n \in Blocks : \A t \in mortal_accounting[n] : ValidUntil[t] = n
  /\ \A t \in callbacks :
       ValidUntil[t] \in seen + 1..MaxBlocks => t \in mortal_accounting[ValidUntil[t]]

AnswerInv ==
  /\ \A t \in Tx : since[t] <= seen
  /\ AccountingInv
  /\ NoMissedBlock
  /\ AnswersAreTrue

LEMMA AnswerInit == Init => AnswerInv
<1> SUFFICES ASSUME Init PROVE AnswerInv
  OBVIOUS
<1>1. /\ \A t \in Tx : since[t] = 0 /\ listener[t] = "none"
      /\ callbacks = {} /\ seen = 0
      /\ \A n \in Blocks : mortal_accounting[n] = {}
  BY DEF Init
<1> QED
  BY <1>1 DEF AnswerInv, AccountingInv, NoMissedBlock, AnswersAreTrue,
              OkMeansFinalized, MortalMeansLifetimeOver

(* Blocks to come do not change what is in those that came. *)
LEMMA FinalizedStays ==
  ASSUME TypeOK, NEW txs \in SUBSET Tx, chain' = Append(chain, txs),
         NEW t \in Tx, NEW a \in Int, NEW b \in Int, b <= Len(chain)
  PROVE  Finalized(t, a, b)' <=> Finalized(t, a, b)
<1>1. /\ DOMAIN chain = 1..Len(chain) /\ Len(chain) \in Nat
      /\ DOMAIN chain' = 1..(Len(chain) + 1)
      /\ \A i \in 1..Len(chain) : chain'[i] = chain[i]
  BY AppendFacts DEF TypeOK
<1>2. \A n \in a..b : n \in DOMAIN chain <=> n \in DOMAIN chain'
  BY <1>1
<1>3. \A n \in a..b : n \in DOMAIN chain => chain'[n] = chain[n]
  BY <1>1
<1> QED
  BY <1>2, <1>3 DEF Finalized

LEMMA AnswerInductive == TypeOK /\ ListenerInv /\ AnswerInv /\ [Next]_vars => AnswerInv'
<1> SUFFICES ASSUME TypeOK, ListenerInv, AnswerInv, [Next]_vars PROVE AnswerInv'
  OBVIOUS
<1>0. /\ chain \in Seq(SUBSET Tx) /\ Len(chain) \in Nat /\ DOMAIN chain = 1..Len(chain)
      /\ Len(chain) <= MaxBlocks /\ MaxBlocks \in Nat
      /\ seen \in 0..Len(chain)
      /\ listener \in [Tx -> ListenerState]
      /\ listener_request \in Seq(Tx)
      /\ callbacks \subseteq Tx
      /\ mortal_accounting \in [Blocks -> SUBSET Tx]
      /\ since \in [Tx -> 0..MaxBlocks]
      /\ ValidUntil \in [Tx -> Nat]
  BY MonitorAssumption DEF TypeOK
<1>01. /\ \A t \in Tx : since[t] <= seen
       /\ \A n \in Blocks : \A t \in mortal_accounting[n] : ValidUntil[t] = n
       /\ \A t \in callbacks :
            ValidUntil[t] \in seen + 1..MaxBlocks => t \in mortal_accounting[ValidUntil[t]]
       /\ \A t \in callbacks : ~Finalized(t, since[t] + 1, seen) /\ ValidUntil[t] \notin since[t] + 1..seen
       /\ \A t \in Tx : listener[t] = "Ok" => Finalized(t, since[t] + 1, seen)
       /\ \A t \in Tx : listener[t] = "MortalLifetimeSurpassed" =>
            /\ ValidUntil[t] \in since[t] + 1..seen
            /\ ~Finalized(t, since[t] + 1, ValidUntil[t])
  BY DEF AnswerInv, AccountingInv, NoMissedBlock, AnswersAreTrue, OkMeansFinalized,
         MortalMeansLifetimeOver
(* A step that handles no block, takes no request and gives no answer of the
   monitor. *)
<1>02. ASSUME /\ chain' = chain /\ seen' = seen /\ since' = since
              /\ callbacks' \subseteq callbacks /\ mortal_accounting' = mortal_accounting
              /\ \A t \in Tx : \/ listener'[t] = listener[t]
                               \/ listener'[t] \notin {"Ok", "MortalLifetimeSurpassed"}
       PROVE  AnswerInv'
  <2>1. \A t \in Tx, a, b \in Int : Finalized(t, a, b)' <=> Finalized(t, a, b)
    BY <1>02 DEF Finalized
  <2>2. NoMissedBlock'
    BY <2>1, <1>02, <1>0, <1>01 DEF NoMissedBlock
  <2>3. AccountingInv'
    BY <1>02, <1>0, <1>01 DEF AccountingInv
  <2>4. AnswersAreTrue'
    BY <2>1, <1>02, <1>0, <1>01 DEF AnswersAreTrue, OkMeansFinalized, MortalMeansLifetimeOver
  <2> QED
    BY <2>2, <2>3, <2>4, <1>02, <1>01 DEF AnswerInv
<1>1. ASSUME NEW t \in Tx, Submit(t) PROVE AnswerInv'
  <2>1. \A u \in Tx : listener'[u] = listener[u] \/ listener'[u] = "accepted"
    BY <1>0, <1>1 DEF Submit
  <2> QED
    BY <2>1, <1>1, <1>02 DEF Submit, monitorVars
<1>2. ASSUME NEW t \in Tx, RegisterListener(t) PROVE AnswerInv'
  <2>1. \A u \in Tx : listener'[u] = listener[u] \/ listener'[u] \in {"Panicked", "waiting"}
    BY <1>0, <1>2 DEF RegisterListener
  <2> QED
    BY <2>1, <1>2, <1>02 DEF RegisterListener, monitorVars
<1>3. ASSUME NEW txs \in SUBSET Includable, FinalizeBlock(txs) PROVE AnswerInv'
  <2>1. /\ chain' = Append(chain, txs) /\ seen' = seen /\ since' = since /\ listener' = listener
        /\ callbacks' = callbacks /\ mortal_accounting' = mortal_accounting
    BY <1>3 DEF FinalizeBlock, monitorVars
  <2>2. txs \in SUBSET Tx
    BY DEF Includable
  <2>3. \A t \in Tx, a, b \in Int : b <= seen => (Finalized(t, a, b)' <=> Finalized(t, a, b))
    <3> SUFFICES ASSUME NEW t \in Tx, NEW a \in Int, NEW b \in Int, b <= seen
                 PROVE  Finalized(t, a, b)' <=> Finalized(t, a, b)
      OBVIOUS
    <3>1. b <= Len(chain)
      BY <1>0
    <3> QED
      BY <3>1, <2>1, <2>2, FinalizedStays
  <2>4. NoMissedBlock'
    BY <2>1, <2>3, <1>0, <1>01 DEF NoMissedBlock
  <2>5. AccountingInv'
    BY <2>1, <1>0, <1>01 DEF AccountingInv
  <2>6. AnswersAreTrue'
    BY <2>1, <2>3, <1>0, <1>01 DEF AnswersAreTrue, OkMeansFinalized, MortalMeansLifetimeOver
  <2> QED
    BY <2>1, <2>4, <2>5, <2>6, <1>01 DEF AnswerInv
<1>4. ASSUME NEW txs \in SUBSET Includable, HandleBest(txs) PROVE AnswerInv'
  BY <1>4, <1>02 DEF HandleBest, vars, monitorVars
<1>5. CASE RunnerEnds
  <2>1. \A t \in Tx : listener'[t] = listener[t] \/ listener'[t] = "abandoned"
    BY <1>5 DEF RunnerEnds
  <2> QED
    BY <2>1, <1>5, <1>02 DEF RunnerEnds, monitorVars
<1>6. CASE TakeRequest
  <2> DEFINE head == Head(listener_request)
  <2>1. /\ listener_request # <<>> /\ listener' = listener /\ chain' = chain /\ seen' = seen
        /\ callbacks' = callbacks \cup {head}
        /\ mortal_accounting' =
             IF ValidUntil[head] = 0 THEN mortal_accounting
             ELSE [mortal_accounting EXCEPT ![ValidUntil[head]] = @ \cup {head}]
        /\ since' = [since EXCEPT ![head] = seen]
    BY <1>6 DEF TakeRequest
  <2>2. head \in Tx /\ head \in Range(listener_request)
    BY <2>1, <1>0, TailFacts
  <2>3. listener[head] \in {"waiting", "abandoned"}
    BY <2>2 DEF ListenerInv, NoOrphanedListener
  <2> HIDE DEF head
  <2>4. \A t \in Tx, a, b \in Int : Finalized(t, a, b)' <=> Finalized(t, a, b)
    BY <2>1 DEF Finalized
  <2>5. since'[head] = seen /\ \A t \in Tx : t # head => since'[t] = since[t]
    BY <2>1, <2>2, <1>0
  <2>6. \A t \in Tx : ~Finalized(t, seen + 1, seen)
    BY <1>0 DEF Finalized
  <2>7. NoMissedBlock'
    BY <2>1, <2>2, <2>4, <2>5, <2>6, <1>0, <1>01 DEF NoMissedBlock
  <2>8. AccountingInv'
    <3>1. \A n \in Blocks : \A t \in mortal_accounting'[n] : ValidUntil[t] = n
      BY <2>1, <2>2, <1>0, <1>01
    <3>2. \A n \in Blocks : mortal_accounting[n] \subseteq mortal_accounting'[n]
      BY <2>1, <2>2, <1>0
    <3>3. \A n \in seen + 1..MaxBlocks : n \in Blocks /\ n # 0
      BY <1>0 DEF Blocks
    <3>4. ValidUntil[head] \in seen + 1..MaxBlocks => head \in mortal_accounting'[ValidUntil[head]]
      BY <3>3, <2>1, <2>2, <1>0
    <3>5. \A t \in callbacks' :
            ValidUntil[t] \in seen + 1..MaxBlocks => t \in mortal_accounting'[ValidUntil[t]]
      BY <3>2, <3>3, <3>4, <2>1, <1>01
    <3> QED
      BY <3>1, <3>5, <2>1 DEF AccountingInv
  <2>9. AnswersAreTrue'
    BY <2>1, <2>3, <2>4, <2>5, <1>0, <1>01 DEF AnswersAreTrue, OkMeansFinalized, MortalMeansLifetimeOver
  <2>10. \A t \in Tx : since'[t] <= seen
    BY <2>5, <1>0, <1>01
  <2> QED
    BY <2>1, <2>7, <2>8, <2>9, <2>10 DEF AnswerInv
<1>7. CASE HandleFinalized
  <2> DEFINE n == seen + 1
  <2>1. /\ chain' = chain /\ since' = since /\ seen' = n /\ n \in 1..Len(chain)
        /\ listener' = [t \in Tx |-> IF t \in Found(n) THEN "Ok"
                                    ELSE IF t \in Expired(n) THEN "MortalLifetimeSurpassed"
                                    ELSE listener[t]]
        /\ callbacks' = callbacks \ (Found(n) \cup Expired(n))
        /\ mortal_accounting' = [mortal_accounting EXCEPT ![n] = {}]
    BY <1>7, <1>0 DEF HandleFinalized, Untriggered
  <2>2. n \in Blocks
    BY <2>1, <1>0 DEF Blocks
  <2>3. /\ Found(n) = callbacks \cap chain[n]
        /\ Expired(n) = (callbacks \cap mortal_accounting[n]) \ Found(n)
    BY DEF Found, Expired
  <2>4. \A t \in Tx, a, b \in Int : Finalized(t, a, b)' <=> Finalized(t, a, b)
    BY <2>1 DEF Finalized
  <2>5. \A t \in Tx, a \in Int : Finalized(t, a, n) => Finalized(t, a, seen) \/ t \in chain[n]
    <3> SUFFICES ASSUME NEW t \in Tx, NEW a \in Int, Finalized(t, a, n), t \notin chain[n]
                 PROVE  Finalized(t, a, seen)
      OBVIOUS
    <3>1. PICK i \in a..n : i \in DOMAIN chain /\ t \in chain[i]
      BY DEF Finalized
    <3>2. i \in a..seen
      BY <3>1, <1>0
    <3> QED
      BY <3>1, <3>2 DEF Finalized
  <2>6. \A t \in Tx, a \in Int : Finalized(t, a, seen) => Finalized(t, a, n)
    BY <1>0 DEF Finalized
  <2>7. \A t \in Tx, a \in Int : a <= n /\ t \in chain[n] => Finalized(t, a, n)
    BY <2>1, <1>0 DEF Finalized
  <2>8. NoMissedBlock'
    <3> SUFFICES ASSUME NEW t \in callbacks'
                 PROVE  ~Finalized(t, since[t] + 1, n) /\ ValidUntil[t] \notin since[t] + 1..n
      BY <2>1, <2>4, <1>0 DEF NoMissedBlock
    <3>1. t \in Tx /\ t \in callbacks /\ t \notin chain[n] /\ t \notin mortal_accounting[n]
      BY <2>1, <2>3, <1>0
    <3>2. ~Finalized(t, since[t] + 1, n)
      BY <3>1, <2>5, <1>0, <1>01
    <3>3. ValidUntil[t] # n
      BY <3>1, <2>2, <1>0, <1>01 DEF Blocks
    <3> QED
      BY <3>1, <3>2, <3>3, <1>0, <1>01
  <2>9. AccountingInv'
    <3>1. \A m \in Blocks : mortal_accounting'[m] \subseteq mortal_accounting[m]
                            /\ (m # n => mortal_accounting'[m] = mortal_accounting[m])
      BY <2>1, <1>0
    <3>2. \A m \in n + 1..MaxBlocks : m \in Blocks /\ m # n /\ m \in seen + 1..MaxBlocks
      BY <1>0 DEF Blocks
    <3> QED
      BY <3>1, <3>2, <2>1, <1>01 DEF AccountingInv
  <2>10. OkMeansFinalized'
    <3> SUFFICES ASSUME NEW t \in Tx, listener'[t] = "Ok"
                 PROVE  Finalized(t, since[t] + 1, n)
      BY <2>1, <2>4, <1>0 DEF OkMeansFinalized
    <3>1. t \in Found(n) \/ listener[t] = "Ok"
      BY <2>1
    <3> QED
      BY <3>1, <2>3, <2>6, <2>7, <1>0, <1>01
  <2>11. MortalMeansLifetimeOver'
    <3> SUFFICES ASSUME NEW t \in Tx, listener'[t] = "MortalLifetimeSurpassed"
                 PROVE  /\ ValidUntil[t] \in since[t] + 1..n
                        /\ ~Finalized(t, since[t] + 1, ValidUntil[t])
      BY <2>1, <2>4, <1>0 DEF MortalMeansLifetimeOver
    <3>1. CASE t \in Expired(n)
      <4>1. ValidUntil[t] = n /\ t \notin chain[n] /\ t \in callbacks
        BY <3>1, <2>2, <2>3, <1>01
      <4>2. ~Finalized(t, since[t] + 1, n)
        BY <4>1, <2>5, <1>0, <1>01
      <4> QED
        BY <4>1, <4>2, <1>0, <1>01
    <3>2. CASE t \notin Expired(n)
      <4>1. listener[t] = "MortalLifetimeSurpassed"
        BY <3>2, <2>1
      <4> QED
        BY <4>1, <1>0, <1>01
    <3> QED
      BY <3>1, <3>2
  <2>12. \A t \in Tx : since[t] <= n
    BY <1>0, <1>01
  <2> QED
    BY <2>1, <2>8, <2>9, <2>10, <2>11, <2>12 DEF AnswerInv, AnswersAreTrue
<1>8. CASE Die
  <2>1. /\ \A t \in Tx : listener'[t] = listener[t] \/ listener'[t] = "Closed"
        /\ callbacks' \subseteq callbacks
    BY <1>8 DEF Die
  <2>2. chain' = chain /\ seen' = seen /\ since' = since /\ mortal_accounting' = mortal_accounting
    BY <1>8 DEF Die
  <2> QED
    BY <2>1, <2>2, <1>02
<1>9. CASE UNCHANGED vars
  BY <1>9, <1>02 DEF vars, monitorVars
<1> QED
  BY <1>1, <1>2, <1>3, <1>4, <1>5, <1>6, <1>7, <1>8, <1>9
  DEF Next, Monitor, HandleFinalizedPanics, HandleFails, Over

(* No block settles a transaction behind the monitor's back once its
   registration was taken (block_monitor.rs:122-138). *)
THEOREM NoBlockIsMissed == Spec => []NoMissedBlock
<1>1. AnswerInv => NoMissedBlock
  BY DEF AnswerInv
<1> QED
  BY TypeInit, TypeInductive, ListenerInit, ListenerInductive, AnswerInit, AnswerInductive, <1>1, PTL
  DEF Spec

(* Ok is said only of a finalized transaction, and a lifetime called over only
   when it is and the transaction in none of the blocks since its
   registration (block_monitor.rs:122-138, 143-145). *)
THEOREM MonitorTellsTheTruth == Spec => []AnswersAreTrue
<1>1. AnswerInv => AnswersAreTrue
  BY DEF AnswerInv
<1> QED
  BY TypeInit, TypeInductive, ListenerInit, ListenerInductive, AnswerInit, AnswerInductive, <1>1, PTL
  DEF Spec
===============================================================================
