---------------------------- MODULE TimersProofs ----------------------------
(***************************************************************************)
(* Proofs about Timers, for every number of timers and every capacity of   *)
(* the channel: the inductive invariant IInv, the safety invariants that   *)
(* follow from it, and that Timers implements TimerContract.               *)
(***************************************************************************)
EXTENDS Timers, TLAPS

-----------------------------------------------------------------------------
(* The channel.                                                            *)

\* Receiving takes the oldest closure and leaves the others as they were.
LEMMA TailOfChannel ==
  ASSUME NEW S, NEW q \in Seq(S), q # << >>
  PROVE  /\ Head(q) \in S /\ Head(q) = q[1] /\ 1 \in 1..Len(q)
         /\ Tail(q) \in Seq(S)
         /\ \A i \in 1..Len(Tail(q)) : i + 1 \in 1..Len(q) /\ Tail(q)[i] = q[i + 1]
  OBVIOUS

\* Sending adds a closure at the end and leaves the others as they were.
LEMMA AppendToChannel ==
  ASSUME NEW S, NEW q \in Seq(S), NEW x \in S
  PROVE  /\ Append(q, x) \in Seq(S)
         /\ Len(Append(q, x)) = Len(q) + 1
         /\ \A i \in 1..Len(q) : Append(q, x)[i] = q[i]
         /\ Append(q, x)[Len(q) + 1] = x
  OBVIOUS
-----------------------------------------------------------------------------
(* The invariant.                                                          *)

LEMMA InitEstablishes == Init => IInv
<1> SUFFICES ASSUME Init PROVE IInv
  OBVIOUS
<1>1. /\ pending \in Seq(Ids)
      /\ Len(pending) = 0
  BY DEF Init
<1>2. TypeOK
  <2>1. counter \in 0..MaxTimers
    BY TimersAssumption DEF Init
  <2>2. /\ kind \in [Ids -> Kinds \cup {"none"}]
        /\ canceled \in [Ids -> BOOLEAN]
        /\ refs \in [Ids -> Int]
    BY DEF Init
  <2>3. /\ clock \in [Ids -> {"none", "armed", "fired", "stopped"}]
        /\ gor \in [Ids -> {"none", "select", "check", "exists", "send", "exit"}]
    BY DEF Init
  <2> QED
    BY <1>1, <2>1, <2>2, <2>3 DEF Init, TypeOK
<1>3. MainThread /\ CurrentEntry /\ RefBalance
  BY DEF Init, MainThread, CurrentEntry, RefBalance, Ids
<1>4. IdsInOrder
  BY <1>1, TimersAssumption DEF Init, IdsInOrder, Ids
<1>5. TimeoutPath /\ IntervalOutlived
  BY DEF Init, TimeoutPath, IntervalOutlived, Ids
<1> QED
  BY <1>2, <1>3, <1>4, <1>5 DEF IInv

LEMMA StepPreserves == IInv /\ [Next]_vars => IInv'
<1> SUFFICES ASSUME IInv, [Next]_vars PROVE IInv'
  OBVIOUS
<1> USE TimersAssumption
    DEF IInv, TypeOK, MainThread, IdsInOrder, CurrentEntry, TimeoutPath,
        RefBalance, IntervalOutlived, Alive, Ids, Kinds, data
<1>1. CASE SetTimeout
  BY <1>1 DEF SetTimeout, NewEntry, JSRunning
<1>2. CASE SetInterval
  BY <1>2 DEF SetInterval, NewEntry, JSRunning
<1>3. ASSUME NEW id \in Ids, NEW k \in Kinds, ClearEntry(id, k) PROVE IInv'
  BY <1>3 DEF ClearEntry, Stopped, JSRunning
<1>4. ASSUME NEW id \in Ids, Fire(id) PROVE IInv'
  BY <1>4 DEF Fire
<1>5. ASSUME NEW id \in Ids, Goroutine(id) PROVE IInv'
  <2>1. CASE Send(id)
    BY <2>1, SMTT(20) DEF Send
  <2>2. CASE Quit(id)
    BY <2>2 DEF Quit
  <2>3. CASE Tick(id)
    BY <2>3 DEF Tick
  <2>4. CASE CheckClosed(id)
    BY <2>4 DEF CheckClosed, Proceed
  <2>5. CASE CheckExists(id)
    BY <2>5 DEF CheckExists, Proceed
  <2> QED
    BY <1>5, <2>1, <2>2, <2>3, <2>4, <2>5 DEF Goroutine
<1>6. CASE Receive
  <2> DEFINE id == Head(pending)
  <2>1. /\ id \in Ids
        /\ \A i \in 1..Len(pending') : i + 1 \in 1..Len(pending) /\ pending'[i] = pending[i + 1]
        /\ pending' \in Seq(Ids)
    BY <1>6, TailOfChannel DEF Receive
  <2>2. kind[id] # "none" /\ (kind[id] = "timeout" => gor[id] = "exit" /\ clock[id] # "armed")
    BY <1>6, TailOfChannel DEF Receive
  <2>3. TypeOK'
    <3>1. timers' \subseteq Ids
      BY <1>6, <2>1 DEF Receive, Unmap
    <3>2. refs' = refs \/ refs' = [refs EXCEPT ![id] = refs[id] - 1]
      BY <1>6 DEF Receive
    <3>3. refs' \in [Ids -> Int]
      BY <3>2, <2>1
    <3>4. pc' \in {"loop", "call"} /\ cur' \in Ids \cup {0}
      BY <1>6, <2>1 DEF Receive
    <3>5. UNCHANGED <<counter, kind, canceled, clock, gor, wg, closed, done>>
      BY <1>6 DEF Receive
    <3> QED
      BY <2>1, <3>1, <3>3, <3>4, <3>5
  <2>4. MainThread' /\ CurrentEntry'
    <3>1. MainThread'
      BY <1>6, <2>1, <2>2 DEF Receive, Unmap, Callable
    <3>2. CurrentEntry'
      BY <1>6, <2>1, <2>2 DEF Receive, Unmap, Callable
    <3> QED
      BY <3>1, <3>2
  <2>5. IdsInOrder'
    BY <1>6, <2>1 DEF Receive, Unmap
  <2>6. TimeoutPath'
    BY <1>6, <2>1, <2>2 DEF Receive, Unmap
  <2>7. RefBalance'
    BY <1>6, <2>1, <2>2, SMTT(30) DEF Receive, Unmap, Callable
  <2>8. IntervalOutlived'
    BY <1>6, <2>1 DEF Receive, Unmap
  <2> QED
    BY <2>3, <2>4, <2>5, <2>6, <2>7, <2>8
<1>7. CASE CallReturns
  BY <1>7 DEF CallReturns
<1>8. CASE ProcessPending \/ ProcessPendingReturns
  <2>1. CASE ProcessPending
    BY <2>1 DEF ProcessPending
  <2>2. CASE ProcessPendingReturns
    BY <2>2 DEF ProcessPendingReturns
  <2> QED
    BY <1>8, <2>1, <2>2
<1>9. CASE CloseStore
  BY <1>9 DEF CloseStore
<1>10. CASE Closing
  <2>1. CASE CloseDone
    BY <2>1 DEF CloseDone
  <2>2. CASE CloseWait
    BY <2>2 DEF CloseWait
  <2>3. CASE CloseDrain
    <3>1. CASE pending = << >>
      BY <2>3, <3>1 DEF CloseDrain
    <3>2. CASE pending # << >>
      <4>1. /\ pending' \in Seq(Ids)
            /\ \A i \in 1..Len(pending') : i + 1 \in 1..Len(pending) /\ pending'[i] = pending[i + 1]
        BY <2>3, <3>2, TailOfChannel DEF CloseDrain
      <4> QED
        BY <2>3, <3>2, <4>1 DEF CloseDrain
    <3> QED
      BY <3>1, <3>2
  <2>4. ASSUME NEW id \in Ids, CloseFree(id) PROVE IInv'
    BY <2>4 DEF CloseFree, Stopped
  <2>5. CASE CloseReturns
    BY <2>5 DEF CloseReturns
  <2> QED
    BY <1>10, <2>1, <2>2, <2>3, <2>4, <2>5 DEF Closing
<1>11. CASE UNCHANGED vars
  BY <1>11 DEF vars
<1> QED
  BY <1>1, <1>2, <1>3, <1>4, <1>5, <1>6, <1>7, <1>8, <1>9, <1>10, <1>11
     DEF Next, ClearTimeout, ClearInterval, Terminated

\* Every reachable state satisfies IInv, for any number of timers and any
\* capacity of the channel (timer.go).
THEOREM Invariance == Spec => []IInv
  BY InitEstablishes, StepPreserves, PTL DEF Spec

\* Every variable keeps its type.
THEOREM TypeCorrect == Spec => []TypeOK
  BY Invariance, PTL DEF IInv

\* No function reference is lost, freed twice or used after it was freed,
\* however clears, closures and Close interleave.
THEOREM ReferencesBalance == Spec => []RefBalance
  BY Invariance, PTL DEF IInv

\* An interval's goroutine never outlives its entry, nor the wait in Close.
THEOREM IntervalsAreOutlived == Spec => []IntervalOutlived
  BY Invariance, PTL DEF IInv

\* Close gives every reference back.
THEOREM CloseLeaksNothing == Spec => []NoLeakAtClose
<1>1. IInv => NoLeakAtClose
  BY DEF IInv, MainThread, RefBalance, NoLeakAtClose
<1> QED
  BY <1>1, Invariance, PTL

\* When HasPending is false the event loop forgets nothing by stopping.
THEOREM HasPendingIsComplete == Spec => []HasPendingComplete
<1>1. IInv => HasPendingComplete
  BY DEF IInv, TypeOK, IdsInOrder, TimeoutPath, IntervalOutlived, HasPendingComplete,
         HasPending, Alive, Kinds
<1> QED
  BY <1>1, Invariance, PTL
-----------------------------------------------------------------------------
(* Timers implements TimerContract.                                        *)

LEMMA InitRefines == Init => Contract!Init
  BY DEF Init, Contract!Init, StatusOf, Contract!Ids, Ids

LEMMA StepRefines ==
  IInv /\ [Next]_vars => [Contract!Next]_(Contract!vars)
<1> SUFFICES ASSUME IInv, [Next]_vars
             PROVE  Contract!Next \/ UNCHANGED Contract!vars
  BY DEF Contract!vars
<1> DEFINE status == [id \in Ids |-> StatusOf(id)]
<1> USE TimersAssumption
    DEF IInv, TypeOK, MainThread, IdsInOrder, CurrentEntry, Ids, Kinds, data
<1>1. ASSUME NEW k \in Kinds, JSRunning, counter < MaxTimers,
             NewEntry(counter + 1, k), UNCHANGED <<cur, closed>>
      PROVE  Contract!Set(counter + 1, k)
  <2>1. counter + 1 \in Ids /\ status[counter + 1] = "unset"
    BY <1>1 DEF StatusOf
  <2>2. \A id \in Ids : status'[id] = IF id = counter + 1 THEN k ELSE status[id]
    BY <1>1 DEF NewEntry, StatusOf
  <2>3. status' = [status EXCEPT ![counter + 1] = k]
    BY <2>1, <2>2
  <2>4. \A older \in Ids : older < counter + 1 => status[older] # "unset"
    <3> SUFFICES ASSUME NEW older \in Ids, older < counter + 1 PROVE status[older] # "unset"
      OBVIOUS
    <3>1. kind[older] \in Kinds
      OBVIOUS
    <3> QED
      BY <3>1 DEF StatusOf
  <2>5. ~closed
    BY <1>1 DEF JSRunning
  <2> QED
    BY <1>1, <2>1, <2>3, <2>4, <2>5 DEF Contract!Set, Contract!Ids
<1>2. ASSUME NEW id \in Ids, canceled' = [canceled EXCEPT ![id] = TRUE],
             id \in timers, timers' \in {timers, timers \ {id}},
             UNCHANGED <<kind, cur, closed>>
      PROVE  \/ UNCHANGED Contract!vars
             \/ status[id] \in Kinds /\ status' = [status EXCEPT ![id] = "cleared"]
  <2>1. CASE canceled[id]
    <3>1. \A j \in Ids : status'[j] = status[j]
      BY <1>2, <2>1 DEF StatusOf
    <3> QED
      BY <1>2, <3>1 DEF Contract!vars
  <2>2. CASE ~canceled[id]
    <3>1. status[id] \in Kinds
      BY <1>2, <2>2 DEF StatusOf
    <3>2. \A j \in Ids : status'[j] = IF j = id THEN "cleared" ELSE status[j]
      BY <1>2 DEF StatusOf
    <3> QED
      <4>1. status' = [status EXCEPT ![id] = "cleared"]
        BY <3>2, ZenonT(30)
      <4> QED
        BY <3>1, <4>1
  <2> QED
    BY <2>1, <2>2
<1>3. CASE SetTimeout \/ SetInterval
  BY <1>3, <1>1 DEF SetTimeout, SetInterval, Contract!Next, Contract!Ids, Contract!Kinds
<1>4. ASSUME NEW id \in Ids, NEW k \in Kinds, ClearEntry(id, k)
      PROVE  Contract!Next \/ UNCHANGED Contract!vars
  BY <1>4, <1>2
     DEF ClearEntry, JSRunning, Contract!Next, Contract!Clear, Contract!Ids, Contract!Kinds
<1>5. CASE Receive
  <2> DEFINE id == Head(pending)
  <2>1. id \in Ids
    BY <1>5, TailOfChannel DEF Receive
  <2>2. CASE Callable(id) /\ cur' = id /\ timers' = Unmap(id)
    <3>1. status[id] = kind[id]
      BY <2>1, <2>2 DEF Callable, StatusOf
    <3>2. \A j \in Ids : status'[j] = IF j = id /\ kind[j] = "timeout"
                                    THEN "spent" ELSE status[j]
      BY <1>5, <2>1, <2>2 DEF Receive, Callable, Unmap, StatusOf
    <3>3. status' = IF status[id] = "timeout" THEN [status EXCEPT ![id] = "spent"] ELSE status
      BY <2>1, <3>1, <3>2
    <3> QED
      BY <1>5, <2>1, <2>2, <3>1, <3>3
         DEF Receive, Callable, Contract!Next, Contract!Fire, Contract!Ids, Contract!Kinds
  <2>3. CASE ~Callable(id)
    BY <1>5, <2>1, <2>3 DEF Receive, Callable, Unmap, StatusOf, Contract!vars
  <2> QED
    BY <1>5, <2>2, <2>3 DEF Receive
<1>6. CASE CallReturns
  BY <1>6 DEF CallReturns, StatusOf, Contract!Next, Contract!Return
<1>7. CASE CloseStore
  BY <1>7 DEF CloseStore, StatusOf, Contract!Next, Contract!Close
<1>8. ASSUME NEW id \in Ids, CloseFree(id)
      PROVE  Contract!Next \/ UNCHANGED Contract!vars
  BY <1>8, <1>2 DEF CloseFree, Contract!Next, Contract!Discard, Contract!Ids, Contract!Kinds
<1>9. CASE UNCHANGED <<data, cur, closed>>
  BY <1>9 DEF StatusOf, Contract!vars
<1> QED
  BY <1>3, <1>4, <1>5, <1>6, <1>7, <1>8, <1>9
     DEF Next, vars, ClearTimeout, ClearInterval, Fire, Goroutine, Send, Quit, Tick, CheckClosed,
         CheckExists, Proceed, ProcessPending, ProcessPendingReturns, Closing,
         CloseDone, CloseWait, CloseDrain, CloseReturns, Terminated

\* Every behaviour of the manager is one its contract allows.
THEOREM ImplementsContract == Spec => ContractSpec
  BY InitRefines, StepRefines, Invariance, PTL DEF Spec, ContractSpec, Contract!Spec
=============================================================================
