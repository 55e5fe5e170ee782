--------------------------- MODULE FetchesProofs ---------------------------
(***************************************************************************)
(* Proofs about Fetches, for every number of requests and every capacity   *)
(* of the notify channel: the inductive invariant IInv and the safety      *)
(* invariants that follow from it.                                         *)
(***************************************************************************)
EXTENDS Fetches, TLAPS

-----------------------------------------------------------------------------
(* Lists without repetition.                                               *)

\* append() adds one member.
LEMMA ListAppend ==
  ASSUME NEW q \in Seq(Fetch), NEW x \in Fetch
  PROVE  /\ Append(q, x) \in Seq(Fetch)
         /\ \A f \in Fetch : Listed(f, Append(q, x)) <=> Listed(f, q) \/ f = x
         /\ Once(q) /\ ~Listed(x, q) => Once(Append(q, x))
<1>1. /\ Append(q, x) \in Seq(Fetch)
      /\ DOMAIN Append(q, x) = 1..(Len(q) + 1)
      /\ DOMAIN q = 1..Len(q)
      /\ Len(q) \in Nat
  OBVIOUS
<1>2. \A i \in 1..(Len(q) + 1) : Append(q, x)[i] = IF i = Len(q) + 1 THEN x ELSE q[i]
  OBVIOUS
<1> QED
  BY <1>1, <1>2 DEF Listed, Once

\* Going on to the rest of a list leaves out its first member and no other.
LEMMA ListTail ==
  ASSUME NEW q \in Seq(Fetch), q # << >>
  PROVE  /\ Head(q) \in Fetch /\ Listed(Head(q), q)
         /\ Tail(q) \in Seq(Fetch)
         /\ \A f \in Fetch : Listed(f, Tail(q)) => Listed(f, q)
         /\ \A f \in Fetch : Listed(f, q) => Listed(f, Tail(q)) \/ f = Head(q)
         /\ Once(q) => Once(Tail(q)) /\ ~Listed(Head(q), Tail(q))
<1>1. /\ Head(q) = q[1] /\ Head(q) \in Fetch
      /\ Tail(q) \in Seq(Fetch)
      /\ DOMAIN q = 1..Len(q) /\ DOMAIN Tail(q) = 1..(Len(q) - 1)
      /\ Len(q) \in Nat /\ Len(q) > 0
  OBVIOUS
<1>2. \A i \in 1..(Len(q) - 1) : Tail(q)[i] = q[i + 1]
  OBVIOUS
<1>3. \A i \in 2..Len(q) : q[i] = Tail(q)[i - 1]
  BY <1>1, <1>2
<1>4. \A i \in 1..(Len(q) - 1) : i + 1 \in 1..Len(q) /\ i + 1 # 1
  BY <1>1
<1>5. Listed(Head(q), q)
  BY <1>1 DEF Listed
<1>6. ASSUME NEW f \in Fetch, Listed(f, Tail(q)) PROVE Listed(f, q)
  BY <1>1, <1>2, <1>4, <1>6 DEF Listed
<1>7. ASSUME NEW f \in Fetch, Listed(f, q) PROVE Listed(f, Tail(q)) \/ f = Head(q)
  <2>1. PICK i \in 1..Len(q) : q[i] = f
    BY <1>1, <1>7 DEF Listed
  <2>2. CASE i = 1
    BY <1>1, <2>1, <2>2
  <2>3. CASE i # 1
    <3>1. i - 1 \in DOMAIN Tail(q) /\ Tail(q)[i - 1] = f
      BY <1>1, <1>3, <2>1, <2>3
    <3> QED
      BY <3>1 DEF Listed
  <2> QED
    BY <2>2, <2>3
<1>8. ASSUME Once(q) PROVE Once(Tail(q)) /\ ~Listed(Head(q), Tail(q))
  <2>1. \A i, j \in 1..Len(q) : q[i] = q[j] => i = j
    BY <1>1, <1>8 DEF Once
  <2>2. Once(Tail(q))
    BY <1>1, <1>2, <1>4, <2>1 DEF Once
  <2>3. \A i \in DOMAIN Tail(q) : Tail(q)[i] # Head(q)
    BY <1>1, <1>2, <1>4, <2>1
  <2> QED
    BY <2>2, <2>3 DEF Listed
<1> QED
  BY <1>1, <1>5, <1>6, <1>7, <1>8

\* Joining two lists joins their members.
LEMMA ListJoin ==
  ASSUME NEW p \in Seq(Fetch), NEW q \in Seq(Fetch)
  PROVE  /\ p \o q \in Seq(Fetch)
         /\ \A f \in Fetch : Listed(f, p \o q) <=> Listed(f, p) \/ Listed(f, q)
         /\ Once(p) /\ Once(q) /\ (\A f \in Fetch : ~(Listed(f, p) /\ Listed(f, q)))
              => Once(p \o q)
<1>1. /\ p \o q \in Seq(Fetch)
      /\ DOMAIN (p \o q) = 1..(Len(p) + Len(q))
      /\ DOMAIN p = 1..Len(p) /\ DOMAIN q = 1..Len(q)
      /\ Len(p) \in Nat /\ Len(q) \in Nat
  OBVIOUS
<1>2. \A i \in 1..(Len(p) + Len(q)) :
        (p \o q)[i] = IF i <= Len(p) THEN p[i] ELSE q[i - Len(p)]
  OBVIOUS
<1>3. \A i \in 1..Len(q) : (p \o q)[i + Len(p)] = q[i] /\ i + Len(p) \in 1..(Len(p) + Len(q))
  BY <1>1, <1>2
<1>4. \A f \in Fetch : Listed(f, p \o q) <=> Listed(f, p) \/ Listed(f, q)
  BY <1>1, <1>2, <1>3, SMTT(30) DEF Listed
<1>5. ASSUME Once(p), Once(q), \A f \in Fetch : ~(Listed(f, p) /\ Listed(f, q))
      PROVE  Once(p \o q)
  BY <1>1, <1>2, <1>5 DEF Listed, Once
<1> QED
  BY <1>1, <1>4, <1>5

LEMMA ListEmpty == /\ << >> \in Seq(Fetch) /\ Once(<< >>)
                   /\ \A f \in Fetch : ~Listed(f, << >>)
  BY DEF Listed, Once
-----------------------------------------------------------------------------
(* The invariant.                                                          *)

LEMMA InitEstablishes == Init => IInv
<1> SUFFICES ASSUME Init PROVE IInv
  OBVIOUS
<1>1. TypeOK
  BY ListEmpty, FetchesAssumption DEF Init, TypeOK, Results
<1>2. PollLists /\ RequestPending /\ SignalToCome
  BY DEF Init, PollLists, RequestPending, SignalToCome
<1>3. TrackedOnce /\ HandlesBalance
  BY ListEmpty DEF Init, TrackedOnce, HandlesBalance, Tracked
<1> QED
  BY <1>1, <1>2, <1>3 DEF IInv

LEMMA StepPreserves == IInv /\ [Next]_vars => IInv'
<1> SUFFICES ASSUME IInv, [Next]_vars PROVE IInv'
  OBVIOUS
<1> USE FetchesAssumption
    DEF IInv, TypeOK, PollLists, RequestPending, TrackedOnce, HandlesBalance,
         SignalToCome, Tracked, Results, lists
<1>1. ASSUME NEW f \in Fetch, CallFetch(f) PROVE IInv'
  <2>1. /\ pending' \in Seq(Fetch)
        /\ \A g \in Fetch : Listed(g, pending') <=> Listed(g, pending) \/ g = f
        /\ ~Tracked(f) /\ Once(pending')
    BY <1>1, ListAppend DEF CallFetch
  <2>2. TypeOK'
    BY <1>1, <2>1 DEF CallFetch
  <2>3. PollLists' /\ RequestPending'
    BY <1>1, <2>1, ListTail DEF CallFetch, JSRunning
  <2>4. TrackedOnce' /\ HandlesBalance'
    BY <1>1, <2>1 DEF CallFetch, JSRunning
  <2>5. SignalToCome'
    BY <1>1, <2>1 DEF CallFetch
  <2> QED
    BY <2>2, <2>3, <2>4, <2>5
<1>2. ASSUME NEW f \in Fetch, NEW r \in Results, Complete(f, r) PROVE IInv'
  BY <1>2 DEF Complete
<1>3. ASSUME NEW f \in Fetch, Notify(f) PROVE IInv'
  BY <1>3 DEF Notify
<1>4. CASE Wake
  BY <1>4 DEF Wake
<1>5. CASE ProcessPending
  BY <1>5, ListEmpty DEF ProcessPending
<1>6. CASE Keep
  <2> DEFINE f == Head(snapshot)
  <2>1. /\ f \in Fetch /\ Listed(f, snapshot)
        /\ snapshot' \in Seq(Fetch) /\ Once(snapshot')
        /\ \A g \in Fetch : Listed(g, snapshot') <=> Listed(g, snapshot) /\ g # f
    BY <1>6, ListTail DEF Keep
  <2>2. /\ still' \in Seq(Fetch) /\ Once(still')
        /\ \A g \in Fetch : Listed(g, still') <=> Listed(g, still) \/ g = f
    BY <1>6, <2>1, ListAppend DEF Keep
  <2> QED
    BY <1>6, <2>1, <2>2 DEF Keep
<1>7. CASE Collect
  BY <1>7, ListTail DEF Collect
<1>8. CASE Settle
  <2> DEFINE f == Head(snapshot)
  <2>1. /\ f \in Fetch /\ Listed(f, snapshot)
        /\ snapshot' \in Seq(Fetch) /\ Once(snapshot')
        /\ \A g \in Fetch : Listed(g, snapshot') <=> Listed(g, snapshot) /\ g # f
    BY <1>8, ListTail DEF Settle
  <2>2. promise[f] = "pending" /\ gor[f] \notin {"none", "http"}
    BY <1>8, <2>1 DEF Settle
  <2>3. TypeOK'
    BY <1>8, <2>1 DEF Settle
  <2>4. PollLists' /\ RequestPending'
    BY <1>8, <2>1, <2>2 DEF Settle
  <2>5. TrackedOnce' /\ HandlesBalance'
    BY <1>8, <2>1, <2>2 DEF Settle
  <2>6. SignalToCome'
    BY <1>8, <2>1, <2>2 DEF Settle
  <2> QED
    BY <2>3, <2>4, <2>5, <2>6
<1>9. CASE ProcessPendingReturns
  BY <1>9, ListJoin, ListEmpty DEF ProcessPendingReturns
<1>10. CASE Close
  BY <1>10, ListEmpty DEF Close
<1>11. CASE UNCHANGED vars
  BY <1>11 DEF vars
<1> QED
  BY <1>1, <1>2, <1>3, <1>4, <1>5, <1>6, <1>7, <1>8, <1>9, <1>10, <1>11 DEF Next, Terminated

\* Every reachable state satisfies IInv, for any set of requests and any
\* capacity of the signal channel (fetch.go).
THEOREM Invariance == Spec => []IInv
  BY InitEstablishes, StepPreserves, PTL DEF Spec

\* Every variable keeps its type; fm.notify never holds more than it can.
THEOREM TypeCorrect == Spec => []TypeOK
  BY Invariance, PTL DEF IInv

\* No poll loses or doubles a fetch, whatever a script starts during it.
THEOREM NoFetchLost == Spec => []TrackedOnce
  BY Invariance, PTL DEF IInv

\* Both functions of a promise are freed exactly once.
THEOREM HandlesBalanced == Spec => []HandlesBalance
  BY Invariance, PTL DEF IInv

\* HasPending tells the truth between two polls.
THEOREM HasPendingIsExact == Spec => []HasPendingExact
<1>1. IInv => HasPendingExact
  <2> SUFFICES ASSUME IInv, pc = "idle"
               PROVE  HasPending <=> \E f \in Fetch : promise[f] = "pending"
    BY DEF HasPendingExact
  <2>1. \A f \in Fetch : Listed(f, pending) <=> promise[f] = "pending"
    BY ListEmpty DEF IInv, PollLists, TrackedOnce, Tracked
  <2>2. HasPending => Head(pending) \in Fetch /\ Listed(Head(pending), pending)
    BY ListTail DEF IInv, TypeOK, HasPending
  <2> QED
    BY <2>1, <2>2, ListEmpty DEF HasPending
<1> QED
  BY <1>1, Invariance, PTL

\* The loop never sleeps on a result that nobody will signal.
THEOREM WakeupNotLost == Spec => []NoLostWakeup
<1>1. IInv => NoLostWakeup
  BY ListEmpty DEF IInv, PollLists, SignalToCome, NoLostWakeup
<1> QED
  BY <1>1, Invariance, PTL
=============================================================================
