--------------------------- MODULE RunReportProofs ---------------------------
(***************************************************************************)
(* What a run leaves behind, for every batch, clock, naming and mishap:    *)
(* that only a clock that was set back keeps the statistics from being     *)
(* computed, that a journal which is saved stays, that a journal which is  *)
(* loaded tells what the run told, and that the statistics agree with the  *)
(* counters.                                                               *)
(***************************************************************************)
EXTENDS RunReport, RunnerProofs, WellFoundedInduction

-------------------------------------------------------------------------------
(* The run is the runner: the report only watches it. *)

LEMMA ReportStepIsRunnerStep ==
  ASSUME [ReportNext]_allVars
  PROVE  [Next]_vars
<1>1. CASE RunStep
  BY <1>1 DEF RunStep, Next
<1>2. CASE ~RunStep
  BY <1>2 DEF ReportNext, CreateJournal, WriteJournal, MakeStats, SaveFails, Kill, Ending,
              OtherCreates, OtherWrites, ReportOver, allVars
<1> QED
  BY <1>1, <1>2

LEMMA ReportedRunImplementsRunner == ReportSpec => Spec
<1>1. ReportInit => Init
  BY DEF ReportInit
<1>2. [ReportNext]_allVars => [Next]_vars
  BY ReportStepIsRunnerStep
<1> QED
  BY <1>1, <1>2, PTL DEF ReportSpec, Spec

-------------------------------------------------------------------------------
(* Where the first event of some kinds is. *)

LEMMA LeastIndex ==
  ASSUME NEW S, S \subseteq Nat, S # {}
  PROVE  Min(S) \in S /\ \A i \in S : Min(S) <= i
<1> DEFINE R == OpToRel(<, Nat)
<1>1. IsWellFoundedOn(R, Nat)
  BY NatLessThanWellFounded, Zenon
<1> HIDE DEF R
<1>2. PICK least \in S : \A i \in S : ~(<<i, least>> \in R)
  BY <1>1, WFMin
<1>3. \A i \in S : ~(i < least)
  BY <1>2 DEF R, OpToRel
<1>4. \A i \in S : least <= i
  BY <1>3
<1> QED
  BY <1>4 DEF Min

LEMMA FindFirst ==
  ASSUME NEW l, NEW t, NEW kinds, l.events[t] \in Seq(ExecutionEvent)
  PROVE  /\ find(l, t, kinds) # 0 =>
              /\ find(l, t, kinds) \in 1..Len(l.events[t])
              /\ l.events[t][find(l, t, kinds)] \in kinds
         /\ \A i \in 1..Len(l.events[t]) : l.events[t][i] \in kinds =>
              find(l, t, kinds) # 0 /\ find(l, t, kinds) <= i
<1> DEFINE I == {i \in 1..Len(l.events[t]) : l.events[t][i] \in kinds}
<1>1. find(l, t, kinds) = IF I # {} THEN Min(I) ELSE 0
  BY DEF find, SelectInSeq
<1>2. I \subseteq Nat /\ 0 \notin I
  OBVIOUS
<1>3. I # {} => Min(I) \in I /\ \A i \in I : Min(I) <= i
  BY <1>2, LeastIndex
<1> QED
  BY <1>1, <1>2, <1>3

-------------------------------------------------------------------------------
(* Nothing but Popped and Sent comes before Sent in a log. *)

SentFirst(t) ==
  \A i \in DOMAIN events[t] :
    events[t][i] \in {"Popped", "Sent"} \/ \E j \in 1..(i - 1) : events[t][j] = "Sent"

SentInv ==
  \A t \in Tx : SentFirst(t) /\ (workers[t] \notin {"none", "pushed"} => Logged(t, "Sent"))

LEMMA SentInit == Init => SentInv
<1> SUFFICES ASSUME Init, NEW t \in Tx
             PROVE  SentFirst(t) /\ (workers[t] \notin {"none", "pushed"} => Logged(t, "Sent"))
  BY DEF SentInv
<1>1. events[t] = <<>> /\ workers[t] = "none"
  BY DEF Init, LogInit
<1> QED
  BY <1>1 DEF SentFirst

(* An event is written by a task that has sent, or by one that sends. *)
LEMMA SentPush ==
  ASSUME TypeOK, SentInv, NEW t \in Tx, NEW e \in ExecutionEvent, push_event(t, e),
         e \in {"Popped", "Sent"} \/ Logged(t, "Sent"),
         NEW what, workers' = [workers EXCEPT ![t] = what],
         what \in {"none", "pushed"} \/ e = "Sent" \/ Logged(t, "Sent")
  PROVE  SentInv'
<1> DEFINE n == Len(events[t])
<1>1. /\ events[t] \in Seq(ExecutionEvent) /\ n \in Nat /\ DOMAIN events[t] = 1..n
      /\ events' = [events EXCEPT ![t] = Append(events[t], e)]
      /\ events \in [Tx -> Seq(ExecutionEvent)] /\ workers \in [Tx -> WorkerState]
  BY DEF TypeOK, LogTypeOK, RunTypeOK, push_event
<1>2. /\ DOMAIN events'[t] = 1..(n + 1) /\ events'[t][n + 1] = e
      /\ \A i \in 1..n : events'[t][i] = events[t][i]
  BY <1>1
<1>3. \A u \in Tx : u # t => events'[u] = events[u] /\ workers'[u] = workers[u]
  BY <1>1
<1>4. workers'[t] = what
  BY <1>1
<1> HIDE DEF n
<1>5. Logged(t, "Sent") => Logged(t, "Sent")'
  BY <1>1, <1>2 DEF Logged
<1>6. e = "Sent" => Logged(t, "Sent")'
  <2>1. n + 1 \in DOMAIN events'[t]
    BY <1>1, <1>2
  <2> QED
    BY <1>2, <2>1 DEF Logged
<1>7. SentFirst(t)'
  <2> SUFFICES ASSUME NEW i \in 1..(n + 1)
               PROVE  \/ events'[t][i] \in {"Popped", "Sent"}
                      \/ \E j \in 1..(i - 1) : events'[t][j] = "Sent"
    BY <1>2 DEF SentFirst
  <2>1. CASE i = n + 1
    <3>1. CASE Logged(t, "Sent")
      <4>1. PICK j \in 1..n : events[t][j] = "Sent"
        BY <1>1, <3>1 DEF Logged
      <4> QED
        BY <1>1, <1>2, <2>1, <4>1
    <3> QED
      BY <1>2, <2>1, <3>1
  <2>2. CASE i # n + 1
    <3>1. i \in 1..n
      BY <1>1, <2>2
    <3>2. events[t][i] \in {"Popped", "Sent"} \/ \E j \in 1..(i - 1) : events[t][j] = "Sent"
      BY <1>1, <3>1 DEF SentInv, SentFirst
    <3> QED
      BY <1>1, <1>2, <3>1, <3>2
  <2> QED
    BY <2>1, <2>2
<1>8. ASSUME NEW u \in Tx, u # t
      PROVE  SentFirst(u)' /\ (workers'[u] \notin {"none", "pushed"} => Logged(u, "Sent")')
  BY <1>3, <1>8 DEF SentInv, SentFirst, Logged
<1>9. workers'[t] \notin {"none", "pushed"} => Logged(t, "Sent")'
  BY <1>4, <1>5, <1>6
<1> QED
  BY <1>7, <1>8, <1>9 DEF SentInv

LEMMA SentSame ==
  ASSUME TypeOK, SentInv, UNCHANGED logVars, NEW t \in Tx, NEW what,
         workers' = [workers EXCEPT ![t] = what],
         what = "none" \/ workers[t] \notin {"none", "pushed"}
  PROVE  SentInv'
<1>1. events' = events /\ workers \in [Tx -> WorkerState]
  BY DEF logVars, TypeOK, RunTypeOK
<1>2. workers'[t] = what /\ \A u \in Tx : u # t => workers'[u] = workers[u]
  BY <1>1
<1> QED
  BY <1>1, <1>2 DEF SentInv, SentFirst, Logged

LEMMA SentStep ==
  ASSUME TypeOK, SentInv, [Next]_vars
  PROVE  SentInv'
<1> USE DEF ExecutionEvent
<1>1. CASE Pop
  <2>1. transactions[Len(transactions)] \in Tx
    BY <1>1, LastOfQueue DEF Pop, TypeOK, RunTypeOK
  <2> QED
    BY <1>1, <2>1, SentPush DEF Pop
<1>2. CASE UNCHANGED <<logVars, workers>>
  BY <1>2 DEF SentInv, SentFirst, Logged, logVars
<1>3. CASE StartLoop \/ LapEnds \/ PendingFails \/ Tick \/ TimeoutReached \/ Stop
           \/ AllFuturesDone \/ StopSignal \/ UNCHANGED vars
  BY <1>2, <1>3 DEF StartLoop, LapEnds, PendingFails, Panic, Tick, TimeoutReached, Stop,
              AllFuturesDone, Break, StopSignal, vars, runVars
<1>4. ASSUME NEW n \in PendingCounts, PendingExtrinsics(n) PROVE SentInv'
  BY <1>2, <1>4 DEF PendingExtrinsics
<1>5. ASSUME NEW t \in Tx, TaskStep(t) PROVE SentInv'
  <2>0. workers[t] \notin {"none", "pushed"} => Logged(t, "Sent")
    BY DEF SentInv
  <2>1. CASE Send(t)
    BY <2>1, SentPush DEF Send, Await
  <2>2. ASSUME NEW ok \in BOOLEAN, WatchReturns(t, ok) PROVE SentInv'
    <3>1. AtSelect(t, "submitting") /\ Logged(t, "Sent")
      BY <2>0, <2>2 DEF WatchReturns, AtSelect
    <3>2. CASE ok
      BY <2>2, <3>1, <3>2, SentPush DEF WatchReturns, Await
    <3>3. CASE ~ok
      BY <2>2, <3>1, <3>3, SentPush DEF WatchReturns, Finish
    <3> QED
      BY <3>2, <3>3
  <2>3. ASSUME NEW ok \in BOOLEAN, SubmitReturns(t, ok) PROVE SentInv'
    <3>1. AtSelect(t, "submitting") /\ Logged(t, "Sent")
      BY <2>0, <2>3 DEF SubmitReturns, AtSelect
    <3>2. PICK e \in ExecutionEvent : push_event(t, e)
      BY <2>3 DEF SubmitReturns
    <3>3. PICK what \in {"none", "registering"} : workers' = [workers EXCEPT ![t] = what]
      BY <2>3 DEF SubmitReturns, Await, Finish
    <3> QED
      BY <3>1, <3>2, <3>3, SentPush
  <2>4. ASSUME NEW status \in Reported, StreamNext(t, status) PROVE SentInv'
    <3>1. Logged(t, "Sent") /\ status \in ExecutionEvent /\ push_event(t, status)
      BY <2>0, <2>4, RunnerAssumption DEF StreamNext, AtSelect
    <3>2. PICK what \in {"none", "watching"} : workers' = [workers EXCEPT ![t] = what]
      BY <2>4 DEF StreamNext, Await, Finish
    <3> QED
      BY <3>1, <3>2, SentPush
  <2>5. CASE StreamEnds(t)
    BY <2>5, SentSame DEF StreamEnds, Finish
  <2>6. CASE StreamFails(t) \/ RegisterFails(t)
    BY <1>2, <2>6 DEF StreamFails, RegisterFails, Panic
  <2>7. CASE Register(t)
    BY <2>7, SentSame DEF Register, AtSelect, Await
  <2>8. CASE MonitorFinalized(t) \/ MonitorMortalDropped(t) \/ MonitorClosed(t)
    <3>1. Logged(t, "Sent") /\ workers' = [workers EXCEPT ![t] = "none"]
      BY <2>0, <2>8 DEF MonitorFinalized, MonitorMortalDropped, MonitorClosed, AtSelect, Finish
    <3>2. PICK e \in ExecutionEvent : push_event(t, e)
      BY <2>8 DEF MonitorFinalized, MonitorMortalDropped, MonitorClosed
    <3> QED
      BY <3>1, <3>2, SentPush
  <2> QED
    BY <1>5, <2>1, <2>2, <2>3, <2>4, <2>5, <2>6, <2>7, <2>8 DEF TaskStep
<1> QED
  BY <1>1, <1>3, <1>4, <1>5 DEF Next, Consume, Over
-------------------------------------------------------------------------------
(* Types, and the stamps of a step. *)

ClockType ==
  /\ clock \in 0..MaxClock
  /\ set_back \in BOOLEAN
  /\ stamps \in [Tx -> Seq(0..MaxClock)]
  /\ \A t \in Tx : Len(stamps[t]) = Len(events[t])

(* A step of the run records nothing, or one event and its stamp. *)
LEMMA RunStamps ==
  ASSUME TypeOK, ClockType, RunStep
  PROVE  \/ UNCHANGED <<events, clockVars>>
         \/ /\ clock' \in 0..MaxClock /\ set_back' = (set_back \/ clock' < clock)
            /\ \E t \in Tx, e \in ExecutionEvent :
                 /\ push_event(t, e)
                 /\ stamps' = [stamps EXCEPT ![t] = Append(stamps[t], clock')]
<1>1. CASE events' = events
  BY <1>1 DEF RunStep
<1>2. CASE events' # events
  <2>1. PICK t \in Tx, e \in ExecutionEvent : push_event(t, e)
    <3>1. [Next]_vars
      BY DEF RunStep, Next
    <3> QED
      BY <1>2, <3>1, RecordsOneEvent DEF logVars
  <2>2. /\ events' = [events EXCEPT ![t] = Append(events[t], e)]
        /\ events \in [Tx -> Seq(ExecutionEvent)]
    BY <2>1 DEF push_event, TypeOK, LogTypeOK
  <2>3. events'[t] # events[t]
    <3>1. events'[t] = Append(events[t], e) /\ events[t] \in Seq(ExecutionEvent)
      BY <2>2
    <3>2. Len(events'[t]) = Len(events[t]) + 1 /\ Len(events[t]) \in Nat
      BY <3>1
    <3> QED
      BY <3>2
  <2>4. \A u \in Tx : u # t => events'[u] = events[u]
    BY <2>2
  <2>5. stamps' = [u \in Tx |-> IF u = t THEN Append(stamps[t], clock') ELSE stamps[u]]
    BY <1>2, <2>3, <2>4 DEF RunStep, Stamped
  <2>6. stamps' = [stamps EXCEPT ![t] = Append(stamps[t], clock')]
    BY <2>5 DEF ClockType
  <2>7. clock' \in 0..MaxClock /\ set_back' = (set_back \/ clock' < clock)
    BY <1>2 DEF RunStep, Readings
  <2> QED
    BY <2>1, <2>6, <2>7
<1> QED
  BY <1>1, <1>2

LEMMA ClockTypeStep ==
  ASSUME TypeOK, ClockType, [ReportNext]_allVars
  PROVE  ClockType'
<1>1. CASE UNCHANGED <<events, clockVars>>
  BY <1>1 DEF ClockType, clockVars
<1>2. CASE RunStep
  <2>1. ASSUME NEW t \in Tx, NEW e \in ExecutionEvent, push_event(t, e),
               clock' \in 0..MaxClock, set_back' = (set_back \/ clock' < clock),
               stamps' = [stamps EXCEPT ![t] = Append(stamps[t], clock')]
        PROVE  ClockType'
    <3>1. /\ stamps[t] \in Seq(0..MaxClock) /\ events[t] \in Seq(ExecutionEvent)
          /\ Len(stamps[t]) = Len(events[t])
      BY DEF ClockType, TypeOK, LogTypeOK
    <3>2. /\ events'[t] = Append(events[t], e) /\ stamps'[t] = Append(stamps[t], clock')
          /\ \A u \in Tx : u # t => events'[u] = events[u] /\ stamps'[u] = stamps[u]
      BY <2>1 DEF push_event, ClockType, TypeOK, LogTypeOK
    <3>3. Len(events'[t]) = Len(stamps'[t])
      BY <2>1, <3>1, <3>2
    <3>4. stamps' \in [Tx -> Seq(0..MaxClock)]
      BY <2>1, <3>1 DEF ClockType
    <3> QED
      BY <2>1, <3>2, <3>3, <3>4 DEF ClockType
  <2> QED
    BY <1>1, <1>2, <2>1, RunStamps
<1>3. CASE ~RunStep
  BY <1>1, <1>3 DEF ReportNext, CreateJournal, WriteJournal, MakeStats, SaveFails, Kill, Ending,
              OtherCreates, OtherWrites, ReportOver, allVars, reportVars, vars, logVars
<1> QED
  BY <1>2, <1>3

LEMMA ReportTypeInit == ReportInit => ReportTypeOK
<1> SUFFICES ASSUME ReportInit PROVE ReportTypeOK
  OBVIOUS
<1>1. TypeOK /\ 0 \in 0..MaxClock
  BY TypeInit, ReportAssumption DEF ReportInit
<1>2. \A t \in Tx : events[t] = <<>> /\ stamps[t] = <<>>
  BY DEF ReportInit, Init, LogInit
<1>3. stamps \in [Tx -> Seq(0..MaxClock)]
  BY DEF ReportInit
<1>4. Len(journal) <= 1 /\ Len(printed) <= 1 /\ \A t \in Tx : Len(stamps[t]) = Len(events[t])
  BY <1>2 DEF ReportInit
<1> QED
  BY <1>1, <1>3, <1>4 DEF ReportInit, ReportTypeOK

LEMMA ReportTypeStep == ReportTypeOK /\ [ReportNext]_allVars => ReportTypeOK'
<1> SUFFICES ASSUME ReportTypeOK, [ReportNext]_allVars PROVE ReportTypeOK'
  OBVIOUS
<1>1. TypeOK'
  BY ReportStepIsRunnerStep, TypeStep DEF ReportTypeOK
<1>2. ClockType'
  BY ClockTypeStep DEF ClockType, ReportTypeOK
<1>3. \A log : Len(<<log>>) <= 1
  OBVIOUS
<1> DEFINE EndType ==
             /\ naming \in Namings
             /\ phase \in {"running", "writing", "stats"} \cup NotRunning
             /\ other \in {"before", "elsewhere", "writing", "over"}
             /\ file \in {"absent", "empty", "own", "other", "broken"}
             /\ Len(journal) <= 1 /\ Len(printed) <= 1
<1>4. EndType
  BY DEF ReportTypeOK
<1> USE DEF NotRunning, Ending, fileVars
<1>5. CASE RunStep \/ ReportOver \/ UNCHANGED allVars
  <2>1. EndType'
    BY <1>4, <1>5 DEF RunStep, ReportOver, allVars, reportVars
  <2> QED
    BY <1>1, <1>2, <2>1 DEF ReportTypeOK, ClockType
<1>6. CASE CreateJournal
  BY <1>1, <1>2, <1>4, <1>6 DEF CreateJournal, ReportTypeOK, ClockType
<1>7. CASE WriteJournal
  BY <1>1, <1>2, <1>3, <1>4, <1>7 DEF WriteJournal, Overwritten, ReportTypeOK, ClockType
<1>8. CASE MakeStats
  BY <1>1, <1>2, <1>3, <1>4, <1>8 DEF MakeStats, ReportTypeOK, ClockType
<1>9. CASE SaveFails \/ Kill
  BY <1>1, <1>2, <1>4, <1>9 DEF SaveFails, Kill, ReportTypeOK, ClockType
<1>10. CASE OtherCreates
  BY <1>1, <1>2, <1>4, <1>10 DEF OtherCreates, ReportTypeOK, ClockType
<1>11. CASE OtherWrites
  BY <1>1, <1>2, <1>4, <1>11 DEF OtherWrites, Overwritten, ReportTypeOK, ClockType
<1> QED
  BY <1>5, <1>6, <1>7, <1>8, <1>9, <1>10, <1>11 DEF ReportNext

(* Whatever happens to clock, disk and process, every event keeps exactly one
   stamp, and what is in the journal file is one of five things
   (execution_log.rs:66-76, 658-689). *)
THEOREM ReportTypeCorrect == ReportSpec => []ReportTypeOK
BY ReportTypeInit, ReportTypeStep, PTL DEF ReportSpec

-------------------------------------------------------------------------------
(* Stamps are in order as long as the clock is not set back. *)

StampInv ==
  ~set_back =>
    \A t \in Tx : \A i \in 1..Len(stamps[t]) :
      stamps[t][i] <= clock /\ \A j \in 1..i : stamps[t][j] <= stamps[t][i]

LEMMA StampStep ==
  ASSUME TypeOK, ClockType, StampInv, [ReportNext]_allVars
  PROVE  StampInv'
<1>1. CASE UNCHANGED <<events, clockVars>>
  BY <1>1 DEF StampInv, clockVars
<1>2. CASE RunStep
  <2>1. ASSUME NEW t \in Tx, NEW e \in ExecutionEvent, push_event(t, e),
               clock' \in 0..MaxClock, set_back' = (set_back \/ clock' < clock),
               stamps' = [stamps EXCEPT ![t] = Append(stamps[t], clock')]
        PROVE  StampInv'
    <3> SUFFICES ASSUME ~set_back', NEW u \in Tx, NEW i \in 1..Len(stamps'[u])
                 PROVE  /\ stamps'[u][i] <= clock'
                        /\ \A j \in 1..i : stamps'[u][j] <= stamps'[u][i]
      BY DEF StampInv
    <3>0. ~set_back /\ ~(clock' < clock)
      BY <2>1, Zenon
    <3>1. ~set_back /\ clock <= clock' /\ clock \in Nat /\ clock' \in Nat
      BY <2>1, <3>0, ReportAssumption DEF ClockType
    <3>6. stamps[u] \in Seq(0..MaxClock)
      BY DEF ClockType
    <3>2. /\ stamps[u] \in Seq(0..MaxClock)
          /\ \A k \in 1..Len(stamps[u]) :
               stamps[u][k] <= clock /\ \A j \in 1..k : stamps[u][j] <= stamps[u][k]
      BY <3>1, <3>6 DEF StampInv
    <3> DEFINE n == Len(stamps[u])
    <3>3. n \in Nat /\ \A k \in 1..n : stamps[u][k] \in 0..MaxClock
      BY <3>6, ElementOfSeq, LenProperties
    <3>4. CASE u # t
      <4>1. stamps'[u] = stamps[u]
        BY <2>1, <3>4 DEF ClockType
      <4>2. stamps[u][i] \in Nat /\ stamps[u][i] <= clock
        BY <3>2, <3>3, <4>1, ReportAssumption
      <4> QED
        BY <3>1, <3>2, <4>1, <4>2
    <3>5. CASE u = t
      <4>1. /\ Len(stamps'[u]) = n + 1 /\ stamps'[u][n + 1] = clock'
            /\ \A k \in 1..n : stamps'[u][k] = stamps[u][k]
        BY <2>1, <3>2, <3>5 DEF ClockType
      <4> HIDE DEF n
      <4>2. \A k \in 1..n : stamps'[u][k] \in Nat /\ stamps'[u][k] <= clock'
        <5> SUFFICES ASSUME NEW k \in 1..n PROVE stamps[u][k] \in Nat /\ stamps[u][k] <= clock'
          BY <4>1
        <5>1. stamps[u][k] \in Nat /\ stamps[u][k] <= clock
          BY <3>2, <3>3, ReportAssumption DEF n
        <5> QED
          BY <3>1, <5>1
      <4>3. CASE i = n + 1
        <5>1. \A j \in 1..i : j = n + 1 \/ j \in 1..n
          BY <3>3, <4>3
        <5> QED
          BY <3>1, <4>1, <4>2, <4>3, <5>1
      <4>4. CASE i # n + 1
        <5>1. i \in 1..n /\ \A j \in 1..i : j \in 1..n
          BY <3>3, <4>1, <4>4
        <5>2. \A j \in 1..i : stamps[u][j] <= stamps[u][i]
          BY <3>2, <5>1 DEF n
        <5> QED
          BY <4>1, <4>2, <5>1, <5>2
      <4> QED
        BY <4>3, <4>4
    <3> QED
      BY <3>4, <3>5
  <2> QED
    BY <1>1, <1>2, <2>1, RunStamps
<1>3. CASE ~RunStep
  BY <1>1, <1>3 DEF ReportNext, CreateJournal, WriteJournal, MakeStats, SaveFails, Kill, Ending,
              OtherCreates, OtherWrites, ReportOver, allVars, reportVars, vars, logVars
<1> QED
  BY <1>2, <1>3

(* A time that would be negative was taken on a clock that was set back. *)
LEMMA PanicNeedsSetBack ==
  ASSUME TypeOK, ClockType, SentInv, StampInv, Panics(Logs, DOMAIN Stat)
  PROVE  set_back
<1> SUFFICES ASSUME ~set_back PROVE FALSE
  OBVIOUS
<1>1. PICK t \in Tx, s \in DOMAIN Stat : is_some(Logs, t, s) /\ time_to(Logs, t, s) < 0
  BY DEF Panics
<1> DEFINE sent == find(Logs, t, {"Sent"})
           it == find(Logs, t, Stat[s])
           n == Len(events[t])
<1>2. /\ Logs.events[t] = events[t] /\ Logs.stamps[t] = stamps[t]
      /\ events[t] \in Seq(ExecutionEvent) /\ n \in Nat /\ DOMAIN events[t] = 1..n
      /\ stamps[t] \in Seq(0..MaxClock) /\ Len(stamps[t]) = n
  BY DEF Logs, TypeOK, LogTypeOK, ClockType
<1>3. sent # 0 /\ it # 0 /\ stamps[t][it] - stamps[t][sent] < 0
  BY <1>1, <1>2 DEF is_some, is_sent, time_to
<1>4. /\ sent \in 1..n /\ it \in 1..n /\ events[t][it] \in Stat[s]
      /\ \A i \in 1..n : events[t][i] \in {"Sent"} => sent <= i
  BY <1>2, <1>3, FindFirst
<1> HIDE DEF sent, it, n
<1>5. "Popped" \notin Stat[s] /\ "Sent" \notin Stat[s]
  BY DEF Stat
<1>6. PICK j \in 1..(it - 1) : events[t][j] = "Sent"
  BY <1>2, <1>4, <1>5 DEF SentInv, SentFirst
<1>7. sent <= j /\ sent \in 1..it
  BY <1>2, <1>4, <1>6
<1>8. stamps[t][sent] <= stamps[t][it]
  BY <1>2, <1>4, <1>7 DEF StampInv
<1>9. stamps[t][sent] \in Nat /\ stamps[t][it] \in Nat
  BY <1>2, <1>4, ReportAssumption
<1> QED
  BY <1>3, <1>8, <1>9
-------------------------------------------------------------------------------
(* The journal and the statistics. *)

(* A journal this run has created has one of its own names. *)
OwnPath == path # <<>> => \E second \in 0..MaxClock : path = log_file_path(naming[1], second)

(* What is in the file, unless the other executor has come between. *)
OwnFile ==
  CASE phase = "running" -> file = "absent"
    [] phase = "writing" -> file = "empty"
    [] phase \in {"stats", "returned", "unwound"} -> file = "own"
    [] phase = "killed" -> IF journal = <<>> THEN file \in {"empty", "broken"} ELSE file = "own"
    [] OTHER -> file \in {"absent", "empty", "broken"}

(* What was written into it are the logs, whose times were computed or not. *)
OwnLogs ==
  /\ phase \in {"running", "writing", "save_failed"} => journal = <<>>
  /\ phase \in {"stats", "returned", "unwound"} => journal = <<Logs>>
  /\ phase = "killed" => journal \in {<<>>, <<Logs>>}
  /\ phase = "returned" => ~Panics(Logs, DOMAIN Stat) /\ printed = <<make_stats(Logs)>>
  /\ phase = "unwound" => Panics(Logs, DOMAIN Stat)

EndInv ==
  /\ phase \in {"running", "writing", "stats"} \cup NotRunning
  /\ phase # "running" => pc \in Ended
  /\ OwnPath
  /\ other \in {"writing", "over"} => ~Distinguished
  /\ Distinguished => OwnFile
  /\ OwnLogs

(* Executors told apart do not meet in one file. *)
LEMMA PathsDiffer ==
  ASSUME Distinguished, NEW first, NEW second
  PROVE  log_file_path(naming[1], first) # log_file_path(naming[2], second)
<1>1. log_file_path(naming[1], first)
        = <<naming[1].base_dir_path, None, naming[1].executor_id, first>>
  BY DEF Distinguished, log_file_path
<1>2. CASE naming[2].base_dir_path # None /\ naming[2].log_file_name # None
  <2>1. log_file_path(naming[2], second)
          = <<naming[2].base_dir_path, naming[2].log_file_name, None, second>>
    BY <1>2 DEF log_file_path
  <2> QED
    BY <1>1, <1>2, <2>1
<1>3. CASE ~(naming[2].base_dir_path # None /\ naming[2].log_file_name # None)
  <2>1. log_file_path(naming[2], second)
          = <<naming[2].base_dir_path, None, naming[2].executor_id, second>>
    BY <1>3 DEF log_file_path
  <2>2. naming[1].executor_id # naming[2].executor_id
    BY DEF Distinguished
  <2> QED
    BY <1>1, <2>1, <2>2
<1> QED
  BY <1>2, <1>3

(* A run that has ended takes no further step. *)
LEMMA EndedIsOver ==
  ASSUME pc \in Ended
  PROVE  ~RunStep
<1>1. pc \notin Running
  BY DEF Ended, Running
<1>2. ~Consume
  BY <1>1 DEF Consume, Pop, StartLoop, LapEnds, PendingExtrinsics, PendingFails, Running
<1>3. ASSUME NEW t \in Tx PROVE ~TaskStep(t)
  BY <1>1 DEF TaskStep, Send, WatchReturns, SubmitReturns, StreamNext, StreamEnds, StreamFails,
              Register, RegisterFails, MonitorFinalized, MonitorMortalDropped, MonitorClosed,
              AtSelect, Running
<1>4. ~(Tick \/ TimeoutReached \/ Stop \/ AllFuturesDone \/ StopSignal)
  BY <1>1 DEF Tick, TimeoutReached, Stop, AllFuturesDone, Break, StopSignal, Running
<1> QED
  BY <1>2, <1>3, <1>4 DEF RunStep

(* What a step that leaves the run alone leaves of what was said of its logs. *)
LEMMA SameLogs ==
  ASSUME UNCHANGED <<vars, clockVars, naming>>
  PROVE  /\ Logs' = Logs /\ pc' = pc
         /\ Distinguished' <=> Distinguished
         /\ Panics(Logs, DOMAIN Stat)' <=> Panics(Logs, DOMAIN Stat)
         /\ make_stats(Logs)' = make_stats(Logs)
<1>1. events' = events /\ stamps' = stamps /\ pc' = pc /\ naming' = naming
  BY DEF vars, logVars, runVars, clockVars
<1>2. Logs' = Logs
  BY <1>1 DEF Logs
<1>3. Distinguished' <=> Distinguished
  BY <1>1 DEF Distinguished
<1>4. Panics(Logs, DOMAIN Stat)' <=> Panics(Logs, DOMAIN Stat)
  BY <1>2
<1>5. make_stats(Logs)' = make_stats(Logs)
  BY <1>2
<1> QED
  BY <1>1, <1>2, <1>3, <1>4, <1>5

LEMMA EndInit == ReportInit => EndInv
BY DEF ReportInit, EndInv, OwnPath, OwnFile, OwnLogs

LEMMA EndStep ==
  ASSUME EndInv, [ReportNext]_allVars
  PROVE  EndInv'
<1> USE DEF NotRunning
<1>1. ASSUME UNCHANGED <<vars, clockVars, naming>>
      PROVE  /\ Logs' = Logs /\ pc' = pc /\ naming' = naming
             /\ Distinguished' <=> Distinguished
             /\ Panics(Logs, DOMAIN Stat)' <=> Panics(Logs, DOMAIN Stat)
             /\ make_stats(Logs)' = make_stats(Logs)
             /\ path' = path => (OwnPath' <=> OwnPath)
  BY <1>1, SameLogs DEF OwnPath
<1>2. CASE RunStep
  <2>1. phase = "running" /\ UNCHANGED <<naming, phase, fileVars, printed>>
    BY <1>2, EndedIsOver DEF EndInv, RunStep
  <2>2. Distinguished' <=> Distinguished
    BY <2>1 DEF Distinguished
  <2> QED
    BY <2>1, <2>2 DEF EndInv, OwnPath, OwnFile, OwnLogs, fileVars
<1>3. CASE CreateJournal
  <2>1. UNCHANGED <<vars, clockVars, naming>> /\ phase = "running" /\ phase' = "writing"
        /\ pc \in Ended /\ file' = "empty" /\ other' = other /\ journal' = journal
    BY <1>3 DEF CreateJournal, Ending
  <2>2. OwnPath'
    <3>1. PICK second \in Readings : path' = log_file_path(naming[1], second)
      BY <1>3 DEF CreateJournal
    <3>2. second \in 0..MaxClock
      BY DEF Readings
    <3>3. naming' = naming
      BY <2>1
    <3>4. log_file_path(naming'[1], second) = log_file_path(naming[1], second)
      BY <3>3
    <3> QED
      BY <3>1, <3>2, <3>4 DEF OwnPath, log_file_path
  <2> QED
    BY <1>1, <2>1, <2>2 DEF EndInv, OwnFile, OwnLogs
<1>4. CASE WriteJournal
  <2>1. UNCHANGED <<vars, clockVars, naming>> /\ phase = "writing" /\ phase' = "stats"
        /\ journal' = <<Logs>> /\ path' = path /\ other' = other
        /\ file' \in Overwritten("own", "other")
    BY <1>4 DEF WriteJournal, Ending
  <2>2. Distinguished => file' = "own"
    BY <2>1 DEF EndInv, OwnFile, Overwritten
  <2> QED
    BY <1>1, <2>1, <2>2 DEF EndInv, OwnFile, OwnLogs
<1>5. CASE MakeStats
  <2>1. UNCHANGED <<vars, clockVars, naming>> /\ phase = "stats" /\ UNCHANGED fileVars
        /\ \/ phase' = "unwound" /\ Panics(Logs, DOMAIN Stat)
           \/ /\ phase' = "returned" /\ ~Panics(Logs, DOMAIN Stat)
              /\ printed' = <<make_stats(Logs)>>
    BY <1>5 DEF MakeStats, Ending
  <2> QED
    BY <1>1, <2>1 DEF EndInv, OwnFile, OwnLogs, fileVars
<1>6. CASE SaveFails
  <2>1. UNCHANGED <<vars, clockVars, naming>> /\ phase' = "save_failed" /\ UNCHANGED <<path, other, journal>>
        /\ \/ phase = "running" /\ pc \in Ended /\ file' = file
           \/ phase = "writing" /\ file' \in {file, "broken"}
    BY <1>6 DEF SaveFails, Ending
  <2> QED
    BY <1>1, <2>1 DEF EndInv, OwnFile, OwnLogs
<1>7. CASE Kill
  <2>1. UNCHANGED <<vars, clockVars, naming>> /\ phase' = "killed" /\ UNCHANGED <<path, other, journal>>
        /\ \/ phase = "writing" /\ file' \in {file, "broken"}
           \/ phase = "stats" /\ file' = file
    BY <1>7 DEF Kill, Ending
  <2> QED
    BY <1>1, <2>1 DEF EndInv, OwnFile, OwnLogs
<1>8. CASE OtherCreates
  <2>1. UNCHANGED <<vars, clockVars, naming>> /\ UNCHANGED <<phase, path, journal, printed>> /\ path # <<>>
    BY <1>8 DEF OtherCreates
  <2>2. PICK second \in 0..MaxClock : path = log_file_path(naming[1], second)
    BY <2>1 DEF EndInv, OwnPath
  <2>3. Distinguished => other' = "elsewhere" /\ file' = file
    BY <1>8, <2>2, PathsDiffer DEF OtherCreates
  <2> QED
    BY <1>1, <2>1, <2>3 DEF EndInv, OwnFile, OwnLogs
<1>9. CASE OtherWrites
  <2>1. UNCHANGED <<vars, clockVars, naming>> /\ UNCHANGED <<phase, path, journal, printed>>
        /\ ~Distinguished /\ other' = "over"
    BY <1>9 DEF OtherWrites, EndInv
  <2> QED
    BY <1>1, <2>1 DEF EndInv, OwnLogs
<1>10. CASE ReportOver \/ UNCHANGED allVars
  <2>1. UNCHANGED <<vars, clockVars, naming>> /\ UNCHANGED <<phase, path, other, file, journal, printed>>
    BY <1>10 DEF ReportOver, allVars, reportVars, fileVars
  <2> QED
    BY <1>1, <2>1 DEF EndInv, OwnFile, OwnLogs
<1> QED
  BY <1>2, <1>3, <1>4, <1>5, <1>6, <1>7, <1>8, <1>9, <1>10 DEF ReportNext

-------------------------------------------------------------------------------
(* The theorems. *)

ReportInv == ReportTypeOK /\ SentInv /\ StampInv /\ EndInv

LEMMA ReportInvariant == ReportSpec => []ReportInv
<1>1. ReportInit => ReportInv
  <2> SUFFICES ASSUME ReportInit PROVE ReportInv
    OBVIOUS
  <2>1. ReportTypeOK /\ SentInv /\ EndInv
    BY ReportTypeInit, SentInit, EndInit DEF ReportInit
  <2>2. \A t \in Tx : stamps[t] = <<>>
    BY DEF ReportInit
  <2>3. StampInv
    BY <2>2 DEF StampInv
  <2> QED
    BY <2>1, <2>3 DEF ReportInv
<1>2. ReportInv /\ [ReportNext]_allVars => ReportInv'
  BY ReportTypeStep, ReportStepIsRunnerStep, SentStep, StampStep, EndStep
     DEF ReportInv, ReportTypeOK, ClockType
<1> QED
  BY <1>1, <1>2, PTL DEF ReportSpec

(* Only a clock that was set back keeps the statistics of a run whose journal
   is saved from being computed: whatever a task records, it has recorded that
   it sends before (runner.rs:106-179, 419-422; execution_log.rs:297-307). *)
THEOREM OnlySetBackUnwinds == ReportSpec => []UnwindsOnlySetBack
<1>1. ReportInv => UnwindsOnlySetBack
  BY PanicNeedsSetBack DEF ReportInv, ReportTypeOK, ClockType, EndInv, OwnLogs, UnwindsOnlySetBack
<1> QED
  BY <1>1, ReportInvariant, PTL

(* A journal that is saved stays what it is, for every clock and every pair of
   executors that are told apart (runner.rs:317-335, 419-422). *)
THEOREM SavedJournalStays == ReportSpec => []JournalSurvives
<1>1. ReportInv => JournalSurvives
  BY DEF ReportInv, EndInv, OwnFile, OwnLogs, JournalSurvives
<1> QED
  BY <1>1, ReportInvariant, PTL

(* What the rows of a CSV file and the statistics count alike. *)
LEMMA RowsAreMeasured ==
  ASSUME NEW l, NEW column \in {"finalized", "in_block"}
  PROVE  Rows([t \in Tx |-> CsvEntry(l, t)], column) = Measured(l, column)
BY DEF Rows, CsvEntry, Measured

LEMMA LoadTells ==
  ASSUME ReportInv
  PROVE  LoadTellsTheSame
<1> SUFFICES ASSUME phase \in NotRunning, Distinguished
             PROVE  CASE phase = "returned" ->
                           /\ LoadLog.stats = printed
                           /\ \A column \in {"finalized", "in_block"} :
                                Cardinality(Rows(LoadLog.csv, column))
                                  = printed[1].times[column].count
                      [] phase = "killed" ->
                           LoadLog.outcome = "printed"
                             <=> journal = <<Logs>> /\ ~Panics(Logs, DOMAIN Stat)
                      [] OTHER -> LoadLog.outcome = "panicked"
  BY DEF LoadTellsTheSame
<1>1. OwnFile /\ OwnLogs
  BY DEF ReportInv, EndInv
<1>2. file # "own" /\ file # "other" => LoadLog.outcome = "panicked"
  BY DEF LoadLog
<1>3. CASE phase = "returned"
  <2>1. file = "own" /\ journal[1] = Logs /\ ~Panics(Logs, DOMAIN Stat) /\ printed = <<make_stats(Logs)>>
    BY <1>1, <1>3 DEF OwnFile, OwnLogs
  <2>2. CsvColumn \subseteq DOMAIN Stat
    BY DEF CsvColumn, Stat
  <2>3. ~Panics(Logs, CsvColumn)
    BY <2>1, <2>2 DEF Panics
  <2>4. LoadLog = [outcome |-> "printed", csv |-> [t \in Tx |-> CsvEntry(Logs, t)],
                   stats |-> <<make_stats(Logs)>>]
    BY <2>1, <2>3 DEF LoadLog
  <2>5. ASSUME NEW column \in {"finalized", "in_block"}
        PROVE  Cardinality(Rows(LoadLog.csv, column)) = printed[1].times[column].count
    <3>1. column \in DOMAIN Stat
      BY DEF Stat
    <3>2. printed[1].times[column].count = Cardinality(Measured(Logs, column))
      BY <2>1, <3>1 DEF make_stats, single_stat
    <3> QED
      BY <2>4, <3>2, RowsAreMeasured
  <2> QED
    BY <1>3, <2>1, <2>4, <2>5
<1>4. CASE phase = "killed"
  <2>1. CASE journal = <<>>
    BY <1>1, <1>2, <1>4, <2>1 DEF OwnFile
  <2>2. CASE journal # <<>>
    <3>1. file = "own" /\ journal = <<Logs>> /\ journal[1] = Logs
      BY <1>1, <1>4, <2>2 DEF OwnFile, OwnLogs
    <3>2. LoadLog.outcome = IF Panics(Logs, DOMAIN Stat) THEN "panicked" ELSE "printed"
      BY <3>1 DEF LoadLog
    <3> QED
      BY <1>4, <3>1, <3>2
  <2> QED
    BY <2>1, <2>2
<1>5. CASE phase = "unwound"
  <2>1. file = "own" /\ journal[1] = Logs /\ Panics(Logs, DOMAIN Stat)
    BY <1>1, <1>5 DEF OwnFile, OwnLogs
  <2>2. LoadLog.outcome = "panicked"
    BY <2>1 DEF LoadLog
  <2> QED
    BY <1>5, <2>2
<1>6. CASE phase = "save_failed"
  <2>1. file \in {"absent", "empty", "broken"}
    BY <1>1, <1>6 DEF OwnFile
  <2> QED
    BY <1>2, <1>6, <2>1
<1> QED
  BY <1>3, <1>4, <1>5, <1>6 DEF NotRunning

(* A journal that is loaded tells what the run told, whatever became of run
   and journal (execution_log.rs:658-689, main.rs:196-212). *)
THEOREM LoadedJournalTellsTheSame == ReportSpec => []LoadTellsTheSame
BY LoadTells, ReportInvariant, PTL

-------------------------------------------------------------------------------
(* Sums (execution_log.rs:516-615). *)

(* A sum over the parts of a finite set, as FoldFunctionOnSet and MapThenFoldSet
   build it. *)
Sums(op, S, g) ==
  [s \in SUBSET S |->
     IF s = {} THEN 0 ELSE op[CHOOSE x \in s : TRUE] + g[s \ {CHOOSE x \in s : TRUE}]]

(* Total is what grows by each element of a part: how a sum is recognised. *)
Totals(op, S, total) ==
  /\ total = [s \in SUBSET S |-> total[s]]
  /\ total[{}] = 0
  /\ \A s \in SUBSET S : \A x \in s : total[s] = op[x] + total[s \ {x}]

(* A total is such a sum. *)
LEMMA TotalIsSums ==
  ASSUME NEW S, NEW op, NEW total, Totals(op, S, total)
  PROVE  total = Sums(op, S, total)
<1> DEFINE chosen(s) == CHOOSE x \in s : TRUE
<1>1. \A s \in SUBSET S : s # {} => chosen(s) \in s
  OBVIOUS
<1> HIDE DEF chosen
<1>2. total = [s \in SUBSET S |-> IF s = {} THEN 0 ELSE op[chosen(s)] + total[s \ {chosen(s)}]]
  BY <1>1 DEF Totals
<1> QED
  BY <1>2 DEF Sums, chosen

(* And the only one: no least part of the set can be summed otherwise. *)
LEMMA SumsAreTotal ==
  ASSUME NEW S, IsFiniteSet(S), NEW op, NEW g, g = Sums(op, S, g),
         NEW total, Totals(op, S, total)
  PROVE  g[S] = total[S]
<1> DEFINE chosen(s) == CHOOSE x \in s : TRUE
<1>1. \A s \in SUBSET S : s # {} => chosen(s) \in s
  OBVIOUS
<1>2. \A s \in SUBSET S : g[s] = IF s = {} THEN 0 ELSE op[chosen(s)] + g[s \ {chosen(s)}]
  BY DEF Sums
<1> HIDE DEF chosen
<1> DEFINE Wrong == {s \in SUBSET S : g[s] # total[s]}
           R     == StrictSubsetOrdering(S)
<1>3. ASSUME Wrong # {} PROVE FALSE
  <2>1. IsWellFoundedOn(R, SUBSET S)
    BY FS_StrictSubsetOrderingWellFounded, FS_FiniteSubsetsOfFinite
  <2> HIDE DEF R
  <2>2. PICK least \in Wrong : \A s \in Wrong : ~(<<s, least>> \in R)
    <3> DEFINE bad == Wrong
    <3>1. bad \subseteq SUBSET S /\ bad # {}
      BY <1>3
    <3> HIDE DEF bad
    <3>2. \E least \in bad : \A s \in bad : ~(<<s, least>> \in R)
      BY <2>1, <3>1, WFMin
    <3> QED
      BY <3>2 DEF bad
  <2>3. least \in SUBSET S /\ g[least] # total[least]
    BY <2>2
  <2>4. CASE least = {}
    BY <1>2, <2>3, <2>4 DEF Totals
  <2>5. CASE least # {}
    <3> DEFINE x    == chosen(least)
               rest == least \ {x}
    <3>1. x \in least /\ rest \in SUBSET S /\ rest # least
      BY <1>1, <2>3, <2>5
    <3>2. <<rest, least>> \in R
      BY <2>3, <3>1 DEF R, StrictSubsetOrdering
    <3>3. g[rest] = total[rest]
      BY <2>2, <3>1, <3>2
    <3>4. g[least] = op[x] + g[rest]
      BY <1>2, <2>3, <2>5
    <3>5. total[least] = op[x] + total[rest]
      BY <2>3, <3>1 DEF Totals
    <3> QED
      BY <2>3, <3>3, <3>4, <3>5
  <2> QED
    BY <2>4, <2>5
<1> QED
  BY <1>3

(* What SumFunction computes. *)
LEMMA SumFunctionIsTotal ==
  ASSUME NEW op, IsFiniteSet(DOMAIN op), NEW total, Totals(op, DOMAIN op, total)
  PROVE  SumFunction(op) = total[DOMAIN op]
<1> DEFINE S == DOMAIN op
<1>1. SumFunction(op) = (CHOOSE g : g = Sums(op, S, g))[S]
  BY Zenon DEF SumFunction, SumFunctionOnSet, FoldFunction, FoldFunctionOnSet, MapThenFoldSet, Sums
<1>2. total = Sums(op, S, total)
  BY TotalIsSums
<1> HIDE DEF S
<1>3. PICK g : g = Sums(op, S, g) /\ SumFunction(op) = g[S]
  BY <1>1, <1>2
<1> QED
  BY <1>3, SumsAreTotal DEF S

(* What MapThenSumSet computes of the reasons. *)
LEMMA ReasonsAreTotal ==
  ASSUME NEW l, NEW e, NEW total,
         Totals([t \in Tx |-> Cardinality({i \in DOMAIN l.events[t] : l.events[t][i] = e})],
                Tx, total)
  PROVE  failure_reason_stats(l, e) = total[Tx]
<1> DEFINE reasons(t) == Cardinality({i \in DOMAIN l.events[t] : l.events[t][i] = e})
           op == [t \in Tx |-> reasons(t)]
           Listed(g) == [s \in SUBSET Tx |->
              IF s = {} THEN 0
              ELSE reasons(CHOOSE x \in s : TRUE) + g[s \ {CHOOSE x \in s : TRUE}]]
<1>1. failure_reason_stats(l, e) = (CHOOSE g : g = Listed(g))[Tx]
  BY Zenon DEF failure_reason_stats, MapThenSumSet, MapThenFoldSet
<1>2. total = Sums(op, Tx, total)
  BY TotalIsSums
<1>3. \A s \in SUBSET Tx : s # {} => (CHOOSE x \in s : TRUE) \in Tx
  OBVIOUS
<1>4. ASSUME NEW g PROVE Sums(op, Tx, g) = Listed(g)
  BY <1>3 DEF Sums
<1> HIDE DEF Listed
<1>5. PICK g : g = Listed(g) /\ failure_reason_stats(l, e) = g[Tx]
  BY <1>1, <1>2, <1>4
<1>6. g = Sums(op, Tx, g)
  BY <1>4, <1>5
<1> HIDE DEF op
<1>7. g[Tx] = total[Tx]
  BY <1>6, SumsAreTotal, RunnerAssumption DEF op
<1> QED
  BY <1>5, <1>7

-------------------------------------------------------------------------------
(* How far a transaction has come is what its log says. *)

Answered(t) == \E e \in {"SubmitOk", "SubmitErr", "WatchOk", "WatchErr"} : Logged(t, e)
Final == {"Finalized", "FinalizedMonitor", "MortalDroppedMonitor", "Dropped"}
Once(t, e) == \A i, j \in DOMAIN events[t] : events[t][i] = e /\ events[t][j] = e => i = j

(* Queued, popped, sent or answered: each shows in the log, and what ends a
   transaction is logged once, by a task that is gone. *)
FollowsLog(t) ==
  /\ Logged(t, "Popped") <=> t \notin Queued
  /\ Logged(t, "Sent") <=> t \notin Queued /\ workers[t] # "pushed"
  /\ Answered(t) <=> t \notin Queued /\ workers[t] \notin {"pushed", "submitting"}
  /\ (\E e \in Final : Logged(t, e)) => t \notin Queued /\ workers[t] = "none"
  /\ \A e \in Final \cup {"Popped", "Sent"} : Once(t, e)

ProgressInv == \A t \in Tx : FollowsLog(t)

(* At the start all logs are empty and everything is queued. *)
LEMMA ProgressInit == Init => ProgressInv
<1> SUFFICES ASSUME Init, NEW t \in Tx PROVE FollowsLog(t)
  BY DEF ProgressInv
<1>1. events[t] = <<>> /\ workers[t] = "none" /\ t \in Queued
  BY RunnerAssumption DEF Init, LogInit, Queued
<1>2. DOMAIN events[t] = {}
  BY <1>1
<1> QED
  BY <1>1, <1>2 DEF FollowsLog, Logged, Answered, Once

(* An event of another kind, or a first one, leaves an event single. *)
LEMMA OncePush ==
  ASSUME LogTypeOK, NEW t \in Tx, NEW e \in ExecutionEvent, push_event(t, e),
         NEW u \in Tx, NEW f, Once(u, f), u # t \/ e # f \/ ~Logged(t, f)
  PROVE  Once(u, f)'
<1>1. events' = [events EXCEPT ![t] = Append(events[t], e)]
  BY DEF push_event
<1>2. CASE u # t
  BY <1>1, <1>2 DEF Once, LogTypeOK
<1>3. CASE u = t
  <2> DEFINE longer == Append(events[t], e)
             n == Len(events[t])
  <2>1. events'[t] = longer
    BY <1>1 DEF LogTypeOK
  <2>2. /\ DOMAIN longer = 1..n + 1 /\ DOMAIN events[t] = 1..n /\ n \in Nat
        /\ longer[n + 1] = e
        /\ \A i \in 1..n : longer[i] = events[t][i]
    BY DEF LogTypeOK
  <2> HIDE DEF longer, n
  <2>3. \A i \in 1..n + 1 : i \in 1..n \/ i = n + 1
    BY <2>2
  <2>4. \A i, j \in 1..n : events[t][i] = f /\ events[t][j] = f => i = j
    BY <1>3, <2>2 DEF Once
  <2>5. e # f \/ \A i \in 1..n : events[t][i] # f
    BY <1>3, <2>2 DEF Logged
  <2>6. \A i, j \in 1..n + 1 : longer[i] = f /\ longer[j] = f => i = j
    BY <2>2, <2>3, <2>4, <2>5
  <2> QED
    BY <1>3, <2>1, <2>2, <2>6 DEF Once
<1> QED
  BY <1>2, <1>3

(* Where a transaction is when an event of its is recorded, and where it goes. *)
Goes(t, e, what) ==
  \/ e = "Popped" /\ t \in Queued /\ what = "pushed"
  \/ t \notin Queued /\
       \/ e = "Sent" /\ workers[t] = "pushed" /\ what = "submitting"
       \/ /\ e \in {"SubmitOk", "SubmitErr", "WatchOk", "WatchErr"}
          /\ \/ workers[t] = "submitting" /\ what \in {"watching", "registering", "none"}
             \/ workers[t] = "waiting" /\ what = "none"
       \/ /\ e \in TransactionStatus /\ workers[t] = "watching"
          /\ what = IF is_terminal(e) THEN "none" ELSE "watching"
       \/ /\ e \in {"FinalizedMonitor", "MortalDroppedMonitor"}
          /\ workers[t] = "waiting" /\ what = "none"

(* An event recorded where its task is keeps the logs in step. *)
LEMMA ProgressPush ==
  ASSUME TypeOK, ProgressInv, NEW t \in Tx, NEW e \in ExecutionEvent, push_event(t, e),
         NEW what, workers' = [workers EXCEPT ![t] = what], Goes(t, e, what),
         Queued' = Queued \ {t}
  PROVE  ProgressInv'
<1> DEFINE Results == {"SubmitOk", "SubmitErr", "WatchOk", "WatchErr"}
<1>1. workers \in [Tx -> WorkerState] /\ LogTypeOK
  BY DEF TypeOK, RunTypeOK
<1>2. workers'[t] = what /\ \A u \in Tx : u # t => workers'[u] = workers[u]
  BY <1>1
<1>3. \A u \in Tx : \A f : Logged(u, f)' <=> Logged(u, f) \/ (u = t /\ f = e)
  BY <1>1, LoggedPush
<1>4. \A u \in Tx : \A f : Once(u, f) /\ (u # t \/ e # f \/ ~Logged(t, f)) => Once(u, f)'
  BY <1>1, OncePush
<1>5. ASSUME NEW u \in Tx, u # t PROVE FollowsLog(u)'
  <2>1. FollowsLog(u)
    BY DEF ProgressInv
  <2>2. \A f : Logged(u, f)' <=> Logged(u, f)
    BY <1>3, <1>5
  <2>3. Answered(u)' <=> Answered(u)
    BY <2>2 DEF Answered
  <2>4. \A f : Once(u, f) => Once(u, f)'
    BY <1>4, <1>5
  <2>5. workers'[u] = workers[u] /\ (u \in Queued' <=> u \in Queued)
    BY <1>2, <1>5
  <2> QED
    BY <2>1, <2>2, <2>3, <2>4, <2>5 DEF FollowsLog
<1>6. FollowsLog(t)'
  <2>1. FollowsLog(t) /\ t \notin Queued'
    BY DEF ProgressInv
  <2>2. \A f : Logged(t, f)' <=> Logged(t, f) \/ f = e
    BY <1>3
  <2>3. Answered(t)' <=> Answered(t) \/ e \in Results
    BY <2>2 DEF Answered
  <2>4. e \in Final \cup {"Popped", "Sent"} => ~Logged(t, e)
    BY <2>1 DEF Goes, FollowsLog, Final, TransactionStatus
  <2>5. \A f \in Final \cup {"Popped", "Sent"} : Once(t, f)'
    BY <1>4, <2>1, <2>4 DEF FollowsLog
  <2>6. Logged(t, "Popped")'
    BY <2>1, <2>2 DEF Goes, FollowsLog
  <2>7. Logged(t, "Sent")' <=> what # "pushed"
    BY <2>1, <2>2 DEF Goes, FollowsLog, TransactionStatus
  <2>8. Answered(t)' <=> what \notin {"pushed", "submitting"}
    BY <2>1, <2>3 DEF Goes, FollowsLog, TransactionStatus
  <2>9. (\E f \in Final : Logged(t, f)') => what = "none"
    <3>1. (\E f \in Final : Logged(t, f)') <=> e \in Final \/ \E f \in Final : Logged(t, f)
      BY <2>2
    <3>2. CASE e \in Final
      BY <3>2 DEF Goes, Final, TransactionStatus, is_terminal, is_finalized, is_error
    <3>3. CASE \E f \in Final : Logged(t, f)
      BY <2>1, <3>3 DEF FollowsLog, Goes
    <3> QED
      BY <3>1, <3>2, <3>3
  <2> QED
    BY <1>2, <2>1, <2>5, <2>6, <2>7, <2>8, <2>9 DEF FollowsLog
<1> QED
  BY <1>5, <1>6 DEF ProgressInv

(* A step that leaves the logs, the queue and the stages that count alone. *)
LEMMA ProgressSame ==
  ASSUME TypeOK, ProgressInv, UNCHANGED logVars, Queued' = Queued,
         NEW t \in Tx, NEW what, workers' = [workers EXCEPT ![t] = what],
         \/ what = workers[t]
         \/ /\ workers[t] \notin {"none", "pushed", "submitting"}
            /\ what \notin {"pushed", "submitting"}
  PROVE  ProgressInv'
<1>1. workers \in [Tx -> WorkerState] /\ events' = events
  BY DEF TypeOK, RunTypeOK, logVars
<1>2. workers'[t] = what /\ \A u \in Tx : u # t => workers'[u] = workers[u]
  BY <1>1
<1>3. ASSUME NEW u \in Tx PROVE FollowsLog(u)'
  <2>1. FollowsLog(u)
    BY DEF ProgressInv
  <2>2. \A f : (Logged(u, f)' <=> Logged(u, f)) /\ (Once(u, f)' <=> Once(u, f))
    BY <1>1 DEF Logged, Once
  <2>3. Answered(u)' <=> Answered(u)
    BY <2>2 DEF Answered
  <2>4. /\ workers'[u] = "pushed" <=> workers[u] = "pushed"
        /\ workers'[u] = "submitting" <=> workers[u] = "submitting"
        /\ workers[u] = "none" => workers'[u] = "none"
    BY <1>2
  <2> QED
    BY <2>1, <2>2, <2>3, <2>4 DEF FollowsLog
<1> QED
  BY <1>3 DEF ProgressInv

(* Every step of the run keeps them in step, one of a monitor that died, too. *)
LEMMA ProgressStep ==
  ASSUME PlaceInv, ProgressInv, [Next]_vars
  PROVE  ProgressInv'
<1> USE DEF ExecutionEvent, Goes
<1>0. /\ TypeOK /\ workers \in [Tx -> WorkerState]
      /\ \A t \in Tx : workers[t] # "none" => t \notin Queued
  BY DEF PlaceInv, TypeOK, RunTypeOK, PlacesDisjoint, InWorkers
<1>1. CASE Pop
  <2> DEFINE t == transactions[Len(transactions)]
  <2>1. t \in Tx /\ t \in Queued /\ Queued' = Queued \ {t}
    BY <1>1, LastOfQueue, RangeFront
       DEF Pop, PlaceInv, PlacesDisjoint, TypeOK, RunTypeOK, Queued
  <2>2. push_event(t, "Popped") /\ workers' = [workers EXCEPT ![t] = "pushed"]
    BY <1>1 DEF Pop
  <2> HIDE DEF t
  <2> QED
    BY <1>0, <2>1, <2>2, ProgressPush
<1>2. CASE UNCHANGED <<logVars, workers, transactions>>
  BY <1>2 DEF ProgressInv, FollowsLog, Answered, Once, Logged, Queued, logVars
<1>3. CASE StartLoop \/ LapEnds \/ PendingFails \/ Tick \/ TimeoutReached \/ Stop
           \/ AllFuturesDone \/ StopSignal \/ UNCHANGED vars
  BY <1>2, <1>3 DEF StartLoop, LapEnds, PendingFails, Panic, Tick, TimeoutReached, Stop,
              AllFuturesDone, Break, StopSignal, vars, runVars
<1>4. ASSUME NEW n \in PendingCounts, PendingExtrinsics(n) PROVE ProgressInv'
  BY <1>2, <1>4 DEF PendingExtrinsics
<1>5. ASSUME NEW t \in Tx, TaskStep(t) PROVE ProgressInv'
  <2>1. ASSUME UNCHANGED transactions, workers[t] # "none"
        PROVE  t \notin Queued /\ Queued' = Queued \ {t} /\ Queued' = Queued
    BY <1>0, <2>1 DEF Queued
  <2>2. CASE Send(t)
    BY <1>0, <2>1, <2>2, ProgressPush DEF Send, AtSelect, Await
  <2>3. ASSUME NEW ok \in BOOLEAN, WatchReturns(t, ok) \/ SubmitReturns(t, ok) PROVE ProgressInv'
    <3>1. UNCHANGED transactions /\ workers[t] = "submitting"
      BY <2>3 DEF WatchReturns, SubmitReturns, AtSelect, Await, Finish
    <3>2. PICK e \in {"SubmitOk", "SubmitErr", "WatchOk", "WatchErr"} : push_event(t, e)
      BY <2>3 DEF WatchReturns, SubmitReturns
    <3>3. PICK what \in {"watching", "registering", "none"} :
            workers' = [workers EXCEPT ![t] = what]
      BY <2>3 DEF WatchReturns, SubmitReturns, Await, Finish
    <3>4. t \notin Queued /\ Queued' = Queued \ {t}
      BY <2>1, <3>1
    <3>5. Goes(t, e, what)
      BY <3>1, <3>4
    <3> HIDE DEF Goes
    <3> QED
      BY <1>0, <3>2, <3>3, <3>4, <3>5, ProgressPush
  <2>4. ASSUME NEW status \in Reported, StreamNext(t, status) PROVE ProgressInv'
    <3> DEFINE what == IF is_terminal(status) THEN "none" ELSE "watching"
    <3>1. UNCHANGED transactions /\ workers[t] = "watching"
      BY <2>4 DEF StreamNext, AtSelect, Await, Finish
    <3>2. status \in TransactionStatus /\ push_event(t, status)
      BY <2>4, RunnerAssumption DEF StreamNext
    <3>3. workers' = [workers EXCEPT ![t] = what]
      BY <2>4 DEF StreamNext, Await, Finish, is_terminal
    <3>4. t \notin Queued /\ Queued' = Queued \ {t}
      BY <2>1, <3>1
    <3>5. Goes(t, status, what)
      BY <3>1, <3>2, <3>4
    <3> HIDE DEF Goes, what
    <3> QED
      BY <1>0, <3>2, <3>3, <3>4, <3>5, ProgressPush
  <2>5. CASE StreamEnds(t) \/ Register(t)
    <3>1. UNCHANGED <<logVars, transactions>> /\ workers[t] \in {"watching", "registering"}
      BY <2>5 DEF StreamEnds, Register, AtSelect, Await, Finish
    <3>2. PICK what \in {"none", "waiting"} : workers' = [workers EXCEPT ![t] = what]
      BY <2>5 DEF StreamEnds, Register, Await, Finish
    <3> HIDE DEF Goes
    <3> QED
      BY <1>0, <2>1, <3>1, <3>2, ProgressSame
  <2>6. CASE StreamFails(t) \/ RegisterFails(t)
    BY <1>2, <2>6 DEF StreamFails, RegisterFails, Panic
  <2>7. CASE MonitorFinalized(t) \/ MonitorMortalDropped(t) \/ MonitorClosed(t)
    <3>1. UNCHANGED transactions /\ workers[t] = "waiting"
          /\ workers' = [workers EXCEPT ![t] = "none"]
      BY <2>7 DEF MonitorFinalized, MonitorMortalDropped, MonitorClosed, AtSelect, Finish
    <3>2. PICK e \in {"FinalizedMonitor", "MortalDroppedMonitor", "SubmitErr"} : push_event(t, e)
      BY <2>7 DEF MonitorFinalized, MonitorMortalDropped, MonitorClosed
    <3> QED
      BY <1>0, <2>1, <3>1, <3>2, ProgressPush
  <2> QED
    BY <1>5, <2>2, <2>3, <2>4, <2>5, <2>6, <2>7 DEF TaskStep
<1> QED
  BY <1>1, <1>3, <1>4, <1>5 DEF Next, Consume, Over

-------------------------------------------------------------------------------
(* Counting. *)

(* A function that pairs off two sets. *)
PairsOff(f, S, T) ==
  /\ f \in [S -> T]
  /\ \A x, y \in S : f[x] = f[y] => x = y
  /\ \A z \in T : \E x \in S : f[x] = z

LEMMA SameSize ==
  ASSUME NEW S, IsFiniteSet(S), NEW T, NEW f, PairsOff(f, S, T)
  PROVE  IsFiniteSet(T) /\ Cardinality(T) = Cardinality(S)
<1>1. f \in Bijection(S, T)
  BY DEF PairsOff, Bijection, Injection, IsInjective, Surjection
<1> QED
  BY <1>1, FS_Bijection DEF ExistsBijection

(* Two parts that do not meet. *)
LEMMA PartsAddUp ==
  ASSUME NEW S, IsFiniteSet(S), NEW T, IsFiniteSet(T), S \cap T = {}
  PROVE  Cardinality(S \cup T) = Cardinality(S) + Cardinality(T)
<1>1. Cardinality(S \cup T) = Cardinality(S) + Cardinality(T) - Cardinality(S \cap T)
  BY FS_Union
<1>2. Cardinality(S \cap T) = 0 /\ Cardinality(S) \in Nat /\ Cardinality(T) \in Nat
  BY FS_EmptySet, FS_CardinalityType
<1> QED
  BY <1>1, <1>2

(* The positions of a log. *)
LEMMA IntervalSize ==
  ASSUME NEW n \in Nat
  PROVE  IsFiniteSet(1..n) /\ Cardinality(1..n) = n
<1>1. 1 \in Int /\ n \in Int
  OBVIOUS
<1>2. IsFiniteSet(1..n) /\ Cardinality(1..n) = IF 1 > n THEN 0 ELSE n - 1 + 1
  BY ONLY <1>1, FS_Interval
<1>3. \A k \in Nat : (IF 1 > k THEN 0 ELSE k - 1 + 1) = k
  OBVIOUS
<1> QED
  BY <1>2, <1>3, Zenon

(* The queue is as long as there are transactions in it. *)
LEMMA QueueSize ==
  ASSUME PlaceInv
  PROVE  Len(transactions) = Cardinality(Queued)
<1>1. /\ transactions \in [1..Len(transactions) -> Tx] /\ Len(transactions) \in Nat
      /\ DOMAIN transactions = 1..Len(transactions) /\ IsInjective(transactions)
  BY DEF PlaceInv, TypeOK, RunTypeOK, PlacesDisjoint
<1>2. PairsOff(transactions, 1..Len(transactions), Queued)
  BY <1>1 DEF PairsOff, IsInjective, Queued, Range
<1>3. IsFiniteSet(1..Len(transactions)) /\ Cardinality(1..Len(transactions)) = Len(transactions)
  BY <1>1, IntervalSize
<1> QED
  BY <1>2, <1>3, SameSize

(* Where a kind stands at most once in each log, its places are as many as the
   transactions that logged it. *)
LEMMA SinglePlaces ==
  ASSUME NEW e, \A t \in Tx : Once(t, e)
  PROVE  Cardinality({t \in Tx : Logged(t, e)}) = Cardinality(Places(e))
<1> DEFINE S == {t \in Tx : Logged(t, e)}
           place(t) == <<t, CHOOSE i \in DOMAIN events[t] : events[t][i] = e>>
           f == [t \in S |-> place(t)]
<1>1. ASSUME NEW t \in S
      PROVE  \E i \in DOMAIN events[t] : events[t][i] = e /\ place(t) = <<t, i>>
  BY DEF Logged
<1> HIDE DEF place
<1>2. ASSUME NEW t \in S PROVE place(t) \in Places(e) /\ place(t)[1] = t
  BY <1>1, InPlaces
<1>3. ASSUME NEW x \in Places(e) PROVE \E t \in S : place(t) = x
  <2>1. PICK t \in Tx : \E i \in DOMAIN events[t] : x = <<t, i>> /\ events[t][i] = e
    BY InPlaces
  <2>2. PICK i \in DOMAIN events[t] : x = <<t, i>> /\ events[t][i] = e
    BY <2>1
  <2>3. t \in S
    BY <2>2 DEF Logged
  <2>4. PICK j \in DOMAIN events[t] : events[t][j] = e /\ place(t) = <<t, j>>
    BY <1>1, <2>3
  <2>5. i = j
    BY <2>2, <2>4 DEF Once
  <2> QED
    BY <2>2, <2>3, <2>4, <2>5
<1>4. PairsOff(f, S, Places(e))
  <2>1. f \in [S -> Places(e)]
    BY <1>2
  <2>2. \A x, y \in S : f[x] = f[y] => x = y
    BY <1>2
  <2>3. \A z \in Places(e) : \E x \in S : f[x] = z
    BY <1>3
  <2> QED
    BY <2>1, <2>2, <2>3 DEF PairsOff
<1>5. IsFiniteSet(S)
  BY FiniteParts
<1> QED
  BY <1>4, <1>5, SameSize

(* What the statistics measure is what the logs show: whatever is timed was
   sent before. *)
LEMMA MeasuredIsLogged ==
  ASSUME LogTypeOK, SentInv, NEW stat \in DOMAIN Stat
  PROVE  Measured(Logs, stat) = {t \in Tx : \E e \in Stat[stat] : Logged(t, e)}
<1> SUFFICES ASSUME NEW t \in Tx
             PROVE  is_some(Logs, t, stat) <=> \E e \in Stat[stat] : Logged(t, e)
  BY DEF Measured
<1>1. /\ Logs.events[t] = events[t] /\ events[t] \in Seq(ExecutionEvent)
      /\ DOMAIN events[t] = 1..Len(events[t]) /\ Len(events[t]) \in Nat
  BY DEF Logs, LogTypeOK
<1>2. ASSUME NEW kinds
      PROVE  find(Logs, t, kinds) # 0 <=> \E i \in DOMAIN events[t] : events[t][i] \in kinds
  BY <1>1, FindFirst
<1>3. ASSUME NEW i \in DOMAIN events[t], events[t][i] \in Stat[stat]
      PROVE  \E j \in DOMAIN events[t] : events[t][j] \in {"Sent"}
  <2>1. events[t][i] \notin {"Popped", "Sent"}
    BY <1>3 DEF Stat
  <2>2. PICK j \in 1..(i - 1) : events[t][j] = "Sent"
    BY <2>1 DEF SentInv, SentFirst
  <2> QED
    BY <1>1, <2>2
<1>4. is_some(Logs, t, stat) <=> \E i \in DOMAIN events[t] : events[t][i] \in Stat[stat]
  BY <1>2, <1>3 DEF is_some, is_sent
<1> QED
  BY <1>4 DEF Logged

(* The submitted, as the timeline sees them. *)
LEMMA SubmittedIsLogged ==
  ASSUME LogTypeOK, NEW t \in Tx
  PROVE  is_sent(Logs, t) <=> Logged(t, "Sent")
<1>1. /\ Logs.events[t] = events[t] /\ events[t] \in Seq(ExecutionEvent)
      /\ DOMAIN events[t] = 1..Len(events[t])
  BY DEF Logs, LogTypeOK
<1> QED
  BY <1>1, FindFirst DEF is_sent, Logged

(* The reasons listed for a failure are the places where it is logged. *)
LEMMA ReasonsArePlaces ==
  ASSUME LogTypeOK, NEW e, IsFiniteSet(Places(e))
  PROVE  failure_reason_stats(Logs, e) = Cardinality(Places(e))
<1> DEFINE at(t)   == {i \in DOMAIN events[t] : events[t][i] = e}
           of(s)   == {x \in Places(e) : x[1] \in s}
           op      == [t \in Tx |->
                         Cardinality({i \in DOMAIN Logs.events[t] : Logs.events[t][i] = e})]
           total   == [s \in SUBSET Tx |-> Cardinality(of(s))]
<1>1. \A t \in Tx : op[t] = Cardinality(at(t))
  BY DEF Logs
<1>2. ASSUME NEW x \in Places(e) PROVE \E t \in Tx : \E i \in at(t) : x = <<t, i>>
  BY InPlaces
<1>3. ASSUME NEW t \in Tx, NEW i \in at(t) PROVE <<t, i>> \in Places(e)
  BY InPlaces
<1>4. \A s \in SUBSET Tx : IsFiniteSet(of(s))
  BY FS_Subset
<1>5. ASSUME NEW t \in Tx PROVE Cardinality(of({t})) = Cardinality(at(t))
  <2> DEFINE f == [i \in at(t) |-> <<t, i>>]
  <2>1. /\ \A i \in at(t) : <<t, i>> \in of({t})
        /\ \A x \in of({t}) : \E i \in at(t) : x = <<t, i>>
    BY <1>2, <1>3
  <2>2. IsFiniteSet(at(t))
    <3>1. events[t] \in Seq(ExecutionEvent)
      BY DEF LogTypeOK
    <3>2. at(t) \in SUBSET (1..Len(events[t])) /\ Len(events[t]) \in Nat
      BY <3>1
    <3> QED
      BY <3>2, IntervalSize, FS_Subset
  <2> HIDE DEF at, of
  <2>3. PairsOff(f, at(t), of({t}))
    BY <2>1 DEF PairsOff
  <2> QED
    BY <2>2, <2>3, SameSize
<1>6. ASSUME NEW s \in SUBSET Tx, NEW t \in s
      PROVE  total[s] = op[t] + total[s \ {t}]
  <2>1. of(s) = of({t}) \cup of(s \ {t}) /\ of({t}) \cap of(s \ {t}) = {}
    BY <1>6
  <2>2. t \in Tx /\ {t} \in SUBSET Tx /\ s \ {t} \in SUBSET Tx
    BY <1>6
  <2>3. IsFiniteSet(of({t})) /\ IsFiniteSet(of(s \ {t}))
    BY <1>4, <2>2
  <2> HIDE DEF of, at, op
  <2>4. Cardinality(of(s)) = Cardinality(of({t})) + Cardinality(of(s \ {t}))
    BY <2>1, <2>3, PartsAddUp
  <2> QED
    BY <1>1, <1>5, <2>2, <2>4
<1>7. total[{}] = 0
  BY FS_EmptySet
<1>8. Totals(op, Tx, total)
  BY <1>6, <1>7 DEF Totals
<1>9. failure_reason_stats(Logs, e) = total[Tx]
  <2> HIDE DEF total
  <2> QED
    BY <1>8, ReasonsAreTotal
<1>10. of(Tx) = Places(e)
  <2>1. \A x \in Places(e) : x[1] \in Tx
    BY <1>2
  <2> QED
    BY <2>1
<1> QED
  BY <1>9, <1>10

(* The lines of the timeline count every submitted transaction once. *)
LEMMA TimelineIsSubmitted ==
  ASSUME NEW l
  PROVE  SumFunction(timeline(l)) = Cardinality({t \in Tx : is_sent(l, t)})
<1> DEFINE submitted == {t \in Tx : is_sent(l, t)}
           line(t)   == inpool_events(l, t)
           Lines     == {line(t) : t \in submitted}
           of(s)     == {t \in submitted : line(t) \in s}
           op        == timeline(l)
           total     == [s \in SUBSET Lines |-> Cardinality(of(s))]
<1> HIDE DEF line
<1>1. op = [s \in Lines |-> Cardinality({t \in submitted : line(t) = s})]
  BY DEF timeline, line
<1>2. IsFiniteSet(submitted)
  BY FiniteParts
<1>3. IsFiniteSet(Lines)
  <2> DEFINE f == [t \in submitted |-> line(t)]
  <2> HIDE DEF submitted
  <2>1. f \in Surjection(submitted, Lines)
    BY DEF Surjection
  <2> QED
    BY <1>2, <2>1, FS_Surjection
<1>4. \A s \in SUBSET Lines : IsFiniteSet(of(s))
  BY <1>2, FS_Subset
<1>5. \A s \in Lines : op[s] = Cardinality(of({s}))
  <2>1. \A s \in Lines : of({s}) = {t \in submitted : line(t) = s}
    OBVIOUS
  <2> QED
    BY <1>1, <2>1
<1> HIDE DEF op, submitted
<1>6. ASSUME NEW s \in SUBSET Lines, NEW x \in s
      PROVE  total[s] = op[x] + total[s \ {x}]
  <2>1. of(s) = of({x}) \cup of(s \ {x}) /\ of({x}) \cap of(s \ {x}) = {}
    BY <1>6
  <2>2. x \in Lines /\ {x} \in SUBSET Lines /\ s \ {x} \in SUBSET Lines
    BY <1>6
  <2> HIDE DEF of, Lines
  <2>3. Cardinality(of(s)) = Cardinality(of({x})) + Cardinality(of(s \ {x}))
    BY <1>4, <2>1, <2>2, PartsAddUp
  <2> QED
    BY <1>5, <2>2, <2>3
<1>7. total[{}] = 0
  BY FS_EmptySet
<1>8. Totals(op, Lines, total) /\ DOMAIN op = Lines
  BY <1>1, <1>6, <1>7 DEF Totals
<1>9. SumFunction(op) = total[Lines]
  <2> HIDE DEF total, Lines
  <2> QED
    BY <1>3, <1>8, SumFunctionIsTotal
<1>10. of(Lines) = submitted
  OBVIOUS
<1> QED
  BY <1>9, <1>10 DEF op, submitted

-------------------------------------------------------------------------------
(* The statistics against the counters. *)

(* Counters are what the logs show: places, or transactions for InBlock. *)
LEMMA CountedPlaces ==
  ASSUME CountInv
  PROVE  /\ total_counters["InBlock"] = Cardinality({t \in Tx : Logged(t, "InBlock")})
         /\ \A e \in Counter \ {"InBlock"} :
              IsFiniteSet(Places(e)) /\ total_counters[e] = Cardinality(Places(e))
<1>1. "InBlock" \in Counter
  BY DEF Counter, ExecutionEvent, TransactionStatus
<1> QED
  BY <1>1 DEF CountInv, CountersMatchLogs, Occurrences, Places

(* What happens at most once in a log is counted once for each transaction. *)
LEMMA SingleCounted ==
  ASSUME CountInv, ProgressInv, NEW e \in Final \cup {"Popped", "Sent"}
  PROVE  Cardinality({t \in Tx : Logged(t, e)}) = total_counters[e]
<1>1. e \in Counter \ {"InBlock"}
  BY DEF Final, Counter, ExecutionEvent, TransactionStatus
<1>2. \A t \in Tx : Once(t, e)
  BY DEF ProgressInv, FollowsLog
<1> QED
  BY <1>1, <1>2, CountedPlaces, SinglePlaces

(* What may happen again and again in a log is counted at least once for each
   transaction. *)
LEMMA RepeatsCounted ==
  ASSUME CountInv, NEW e \in Counter \ {"InBlock"}
  PROVE  Cardinality({t \in Tx : Logged(t, e)}) <= total_counters[e]
<1> DEFINE S == {t \in Tx : Logged(t, e)}
           place(t) == <<t, CHOOSE i \in DOMAIN events[t] : events[t][i] = e>>
           f == [t \in S |-> place(t)]
<1>1. ASSUME NEW t \in S PROVE place(t) \in Places(e) /\ place(t)[1] = t
  BY InPlaces DEF Logged
<1> HIDE DEF place
<1>2. f \in Injection(S, Places(e))
  BY <1>1 DEF Injection, IsInjective
<1>3. IsFiniteSet(Places(e)) /\ total_counters[e] = Cardinality(Places(e))
  BY CountedPlaces
<1> QED
  BY <1>2, <1>3, FS_Injection DEF ExistsInjection

(* What the statistics count of a single kind of event. *)
LEMMA SingleStat ==
  ASSUME LogTypeOK, SentInv, NEW stat \in DOMAIN Stat, NEW e, Stat[stat] = {e}
  PROVE  single_stat(Logs, stat).count = Cardinality({t \in Tx : Logged(t, e)})
<1>1. Measured(Logs, stat) = {t \in Tx : Logged(t, e)}
  BY MeasuredIsLogged
<1> QED
  BY <1>1 DEF single_stat

(* The batch is queued or popped; what is popped is answered or buffered. *)
LEMMA BatchIsAccounted ==
  ASSUME PlaceInv, BufferedExact, CountInv, SentInv, ProgressInv
  PROVE  /\ Cardinality(Tx) = Len(transactions) + total_counters["Popped"]
         /\ single_stat(Logs, "result").count + buffered = total_counters["Popped"]
<1> DEFINE popped   == {t \in Tx : Logged(t, "Popped")}
           answered == {t \in Tx : Answered(t)}
<1>1. Cardinality(popped) = total_counters["Popped"]
  BY SingleCounted
<1>2. /\ popped \in SUBSET Tx /\ answered \in SUBSET Tx
      /\ Unsubmitted \in SUBSET Tx /\ Queued \in SUBSET Tx
  BY DEF Unsubmitted, Queued, Range, PlaceInv, TypeOK, RunTypeOK
<1>3. /\ IsFiniteSet(popped) /\ IsFiniteSet(answered) /\ IsFiniteSet(Unsubmitted)
      /\ IsFiniteSet(Queued) /\ Cardinality(Unsubmitted) \in Nat
  BY <1>2, FiniteParts
<1>4. Tx = Queued \cup popped /\ Queued \cap popped = {}
  BY <1>2 DEF ProgressInv, FollowsLog
<1>5. popped = answered \cup Unsubmitted /\ answered \cap Unsubmitted = {}
  <2>1. \A t \in Unsubmitted : t \notin Queued
    BY DEF PlaceInv, PlacesDisjoint, InWorkers, Unsubmitted
  <2> QED
    BY <2>1 DEF ProgressInv, FollowsLog, Unsubmitted
<1>6. single_stat(Logs, "result").count = Cardinality(answered)
  <2>1. "result" \in DOMAIN Stat /\ Stat["result"] = {"SubmitOk", "SubmitErr", "WatchOk", "WatchErr"}
    BY DEF Stat
  <2>2. Measured(Logs, "result") = answered
    BY <2>1, MeasuredIsLogged DEF Answered, PlaceInv, TypeOK
  <2> QED
    BY <2>2 DEF single_stat
<1>7. buffered = Cardinality(Unsubmitted)
  BY DEF BufferedExact
<1> HIDE DEF popped, answered
<1>8. Cardinality(Tx) = Cardinality(Queued) + Cardinality(popped)
  BY <1>3, <1>4, PartsAddUp
<1>9. Cardinality(popped) = Cardinality(answered) + Cardinality(Unsubmitted)
  BY <1>3, <1>5, PartsAddUp
<1> QED
  BY <1>1, <1>6, <1>7, <1>8, <1>9, QueueSize

(* What SummaryAgrees asks of a report. *)
Agrees(r) ==
  /\ r.total_recorded_count = Len(transactions) + total_counters["Popped"]
  /\ r.times["result"].count + buffered = total_counters["Popped"]
  /\ r.times["in_block"].count = total_counters["InBlock"]
  /\ r.times["finalized"].count = total_counters["Finalized"]
  /\ r.times["finalized_monitor"].count = total_counters["FinalizedMonitor"]
  /\ r.times["dropped_monitor"].count = total_counters["MortalDroppedMonitor"]
  /\ r.times["validated"].count <= total_counters["Validated"]
  /\ r.times["broadcasted"].count <= total_counters["Broadcasted"]
  /\ r.times["dropped"].count = r.failures["Dropped"]
  /\ \A e \in Failure : r.failures[e] = total_counters[e]
  /\ SumFunction(r.timeline) = total_counters["Sent"]

LEMMA StatsAgree ==
  ASSUME PlaceInv, BufferedExact, CountInv, SentInv, ProgressInv
  PROVE  Agrees(make_stats(Logs))
<1> DEFINE r == make_stats(Logs)
           counted(e) == Cardinality({t \in Tx : Logged(t, e)})
<1>1. /\ r.total_recorded_count = Cardinality(Tx)
      /\ \A s \in DOMAIN Stat : r.times[s].count = single_stat(Logs, s).count
      /\ \A e \in Failure : r.failures[e] = failure_reason_stats(Logs, e)
      /\ r.timeline = timeline(Logs)
  BY DEF make_stats
<1> HIDE DEF r
<1>2. LogTypeOK
  BY DEF PlaceInv, TypeOK
<1>3. /\ "result" \in DOMAIN Stat
      /\ "in_block" \in DOMAIN Stat /\ Stat["in_block"] = {"InBlock"}
      /\ "finalized" \in DOMAIN Stat /\ Stat["finalized"] = {"Finalized"}
      /\ "finalized_monitor" \in DOMAIN Stat /\ Stat["finalized_monitor"] = {"FinalizedMonitor"}
      /\ "dropped_monitor" \in DOMAIN Stat /\ Stat["dropped_monitor"] = {"MortalDroppedMonitor"}
      /\ "validated" \in DOMAIN Stat /\ Stat["validated"] = {"Validated"}
      /\ "broadcasted" \in DOMAIN Stat /\ Stat["broadcasted"] = {"Broadcasted"}
      /\ "dropped" \in DOMAIN Stat /\ Stat["dropped"] = {"Dropped"}
  BY DEF Stat
<1>4. \A e \in Final \cup {"Popped", "Sent"} : counted(e) = total_counters[e]
  BY SingleCounted
<1>5. \A stat \in DOMAIN Stat : \A e :
        Stat[stat] = {e} => single_stat(Logs, stat).count = counted(e)
  BY <1>2, SingleStat
<1>6. \A e \in Failure : r.failures[e] = total_counters[e]
  <2>1. Failure \subseteq Counter \ {"InBlock"}
    BY DEF Failure, Counter, ExecutionEvent, TransactionStatus
  <2> QED
    BY <1>1, <1>2, <2>1, CountedPlaces, ReasonsArePlaces
<1>7. SumFunction(r.timeline) = total_counters["Sent"]
  <2>1. {t \in Tx : is_sent(Logs, t)} = {t \in Tx : Logged(t, "Sent")}
    BY <1>2, SubmittedIsLogged
  <2> QED
    BY <1>1, <1>4, <2>1, TimelineIsSubmitted
<1>8. counted("InBlock") = total_counters["InBlock"]
  BY CountedPlaces
<1>9. \A e \in {"Validated", "Broadcasted"} : counted(e) <= total_counters[e]
  <2>1. {"Validated", "Broadcasted"} \subseteq Counter \ {"InBlock"}
    BY DEF Counter, ExecutionEvent, TransactionStatus
  <2> QED
    BY <2>1, RepeatsCounted
<1> HIDE DEF counted
<1>10. /\ r.times["in_block"].count = total_counters["InBlock"]
       /\ r.times["finalized"].count = total_counters["Finalized"]
       /\ r.times["finalized_monitor"].count = total_counters["FinalizedMonitor"]
       /\ r.times["dropped_monitor"].count = total_counters["MortalDroppedMonitor"]
       /\ r.times["dropped"].count = total_counters["Dropped"]
  BY <1>1, <1>3, <1>4, <1>5, <1>8 DEF Final
<1>11. /\ r.times["validated"].count <= total_counters["Validated"]
       /\ r.times["broadcasted"].count <= total_counters["Broadcasted"]
  BY <1>1, <1>3, <1>5, <1>9
<1>12. "Dropped" \in Failure
  BY DEF Failure
<1>13. /\ r.total_recorded_count = Len(transactions) + total_counters["Popped"]
       /\ r.times["result"].count + buffered = total_counters["Popped"]
  BY <1>1, <1>3, BatchIsAccounted
<1> QED
  BY <1>6, <1>7, <1>10, <1>11, <1>12, <1>13 DEF Agrees, r

(* Statistics are printed once, when the run returns. *)
PrintedInv == phase # "returned" => printed = <<>>

(* No other step prints. *)
LEMMA PrintedStep ==
  ASSUME PrintedInv, [ReportNext]_allVars
  PROVE  PrintedInv'
<1>1. CASE UNCHANGED <<phase, printed>>
  BY <1>1 DEF PrintedInv
<1>2. CASE MakeStats
  BY <1>2 DEF MakeStats, Ending, PrintedInv
<1>3. CASE CreateJournal \/ WriteJournal \/ SaveFails \/ Kill
  BY <1>3 DEF CreateJournal, WriteJournal, SaveFails, Kill, Ending, PrintedInv
<1> QED
  BY <1>1, <1>2, <1>3 DEF ReportNext, RunStep, OtherCreates, OtherWrites, ReportOver, allVars,
              reportVars

(* The statistics a run prints agree with the counters of its statistics line
   for every batch, however tasks interleave and whatever the sink answers,
   whenever the number of unanswered submissions is right, which the line prints
   as well (execution_log.rs:312-325, 516-615 against 117-124, 137-161). *)
THEOREM StatisticsAgreeIfBufferedExact == ReportSpec => [](BufferedExact => SummaryAgrees)
<1>1. ReportInit => ProgressInv /\ PrintedInv
  BY ProgressInit DEF ReportInit, PrintedInv
<1>2. PlaceInv /\ ReportInv /\ ProgressInv /\ PrintedInv /\ [ReportNext]_allVars
        => (ProgressInv /\ PrintedInv)'
  BY ReportStepIsRunnerStep, ProgressStep, PrintedStep
<1>3. PlaceInv /\ CountInv /\ ReportInv /\ ProgressInv /\ PrintedInv
        => (BufferedExact => SummaryAgrees)
  <2> SUFFICES ASSUME PlaceInv, BufferedExact, CountInv, ReportInv, ProgressInv, PrintedInv,
                      NEW r \in Range(printed)
               PROVE  Agrees(r)
    BY Zenon DEF SummaryAgrees, Agrees
  <2>1. printed = <<make_stats(Logs)>>
    <3>1. printed # <<>>
      BY DEF Range
    <3> QED
      BY <3>1 DEF PrintedInv, ReportInv, EndInv, OwnLogs
  <2>2. r = make_stats(Logs)
    BY <2>1 DEF Range
  <2> QED
    BY <2>2, StatsAgree DEF ReportInv
<1> QED
  BY <1>1, <1>2, <1>3, ReportedRunImplementsRunner, PlaceInvariant, CountInvariant,
     ReportInvariant, PTL DEF ReportSpec

(* So they agree as long as the block monitor lives: when it dies, a submission
   that was accepted is answered a second time (runner.rs:151-166). *)
THEOREM PrintedStatisticsAgree ==
  ASSUME "monitor_dies" \notin Environment
  PROVE  ReportSpec => []SummaryAgrees
BY StatisticsAgreeIfBufferedExact, BufferedIsExact, ReportedRunImplementsRunner, PTL
===============================================================================
