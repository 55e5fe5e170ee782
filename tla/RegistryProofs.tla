--------------------------- MODULE RegistryProofs ---------------------------
(***************************************************************************)
(* Proofs about Registry: its inductive invariant, and that for any number *)
(* of runtimes, contexts, addresses and functions the two tables hold      *)
(* exactly what is alive and a call reaches the open context it came from, *)
(* unless it is a job's whose settling context was freed.                  *)
(***************************************************************************)
EXTENDS Registry, TLAPS

USE RegistryAssumption DEF Ids

LEMMA InitEstablishes == Init => IInv
BY DEF Init, IInv, TypeOK, ThreadsInPlace, ContextsInPlace, EntriesInPlace,
       ContextsListed, IdsInOrder, JobsInPlace, CallsInPlace, Exists

LEMMA ThreadFacts ==
  ASSUME IInv, NEW r \in Runtime, pc[r] \in {"register", "close", "delete", "free"}
  PROVE  /\ caller[r] \in Context /\ owner[caller[r]] = r
         /\ address[caller[r]] \in Address /\ memory[address[caller[r]]] = caller[r]
BY DEF IInv, TypeOK, ThreadsInPlace, Exists

\* What calls a Go function: a function of caller[r], or the job of settler[r].
LEMMA CallFacts ==
  ASSUME IInv, NEW r \in Runtime, pc[r] \in {"findFn", "findCtx", "inside", "throw"}
  PROVE  /\ Calling(r) \in Context /\ owner[Calling(r)] = r
         /\ address[Calling(r)] \in Address
         /\ caller[r] # None => Exists(Calling(r))
         /\ caller[r] = None => settler[r] \in Context
<1>1. caller[r] # None \/ settler[r] # None
  BY DEF IInv, ThreadsInPlace
<1>2. caller[r] \in Context \cup {None} /\ settler[r] \in Context \cup {None}
  BY DEF IInv, TypeOK
<1>3. /\ caller[r] # None => owner[caller[r]] = r /\ Exists(caller[r])
      /\ settler[r] # None => owner[settler[r]] = r
  BY DEF IInv, ThreadsInPlace
<1>4. \A c \in Context : owner[c] = r => address[c] \in Address
  <2>1. \A c \in Context : owner[c] # None => address[c] # None
    BY DEF IInv, ContextsInPlace
  <2> QED
    BY <2>1 DEF IInv, TypeOK
<1> QED
  BY <1>1, <1>2, <1>3, <1>4 DEF Calling

LEMMA StepPreserves == IInv /\ [Next]_vars => IInv'
<1> SUFFICES ASSUME IInv, [Next]_vars PROVE IInv'
  OBVIOUS
<1> USE DEF IInv, TypeOK, ThreadsInPlace, ContextsInPlace, EntriesInPlace,
            ContextsListed, IdsInOrder, JobsInPlace, CallsInPlace, Exists, Calling,
            Reaches, ctxVars, fnVars, thread, Goto, Rest
<1>1. ASSUME NEW r \in Runtime, NEW c \in Context, NEW a \in Address, NewContext(r, c, a)
      PROVE  IInv'
  BY <1>1 DEF NewContext
<1>2. ASSUME NEW r \in Runtime, RegisterContext(r) PROVE IInv'
  <2>0. /\ caller[r] \in Context /\ owner[caller[r]] = r
        /\ address[caller[r]] \in Address /\ memory[address[caller[r]]] = caller[r]
    <3> HIDE DEF IInv
    <3> QED BY <1>2, ThreadFacts DEF RegisterContext
  <2>1. TypeOK'
    BY <2>0, <1>2 DEF RegisterContext
  <2>2. ThreadsInPlace'
    BY <2>0, <1>2 DEF RegisterContext
  <2>3. ContextsInPlace'
    BY <2>0, <1>2 DEF RegisterContext
  <2>4. EntriesInPlace'
    BY <2>0, <1>2 DEF RegisterContext
  <2>5. ContextsListed'
    BY <2>0, <1>2 DEF RegisterContext
  <2>6. IdsInOrder'
    BY <2>0, <1>2 DEF RegisterContext
  <2>7. JobsInPlace'
    BY <2>0, <1>2 DEF RegisterContext
  <2>8. CallsInPlace'
    BY <2>0, <1>2 DEF RegisterContext
  <2> QED
    BY <2>1, <2>2, <2>3, <2>4, <2>5, <2>6, <2>7, <2>8
<1>3. ASSUME NEW r \in Runtime, NEW c \in Context, Close(r, c) PROVE IInv'
  BY <1>3 DEF Close
<1>4. ASSUME NEW r \in Runtime, NEW c \in Context, RegisterFunction(r, c) PROVE IInv'
  BY <1>4 DEF RegisterFunction, Usable
<1>5. ASSUME NEW r \in Runtime, Unregister(r) PROVE IInv'
  <2>0. /\ caller[r] \in Context /\ owner[caller[r]] = r
        /\ address[caller[r]] \in Address /\ memory[address[caller[r]]] = caller[r]
    <3> HIDE DEF IInv
    <3> QED BY <1>5, ThreadFacts DEF Unregister
  <2>1. CASE /\ fns' = [fns EXCEPT ![caller[r]] = {}] /\ fnRegistry' = fnRegistry
             /\ fns[caller[r]] \cap fnRegistry = {} /\ pc' = [pc EXCEPT ![r] = "delete"]
    <3>1. TypeOK'
      BY <2>0, <2>1, <1>5 DEF Unregister
    <3>2. ThreadsInPlace'
      BY <2>0, <2>1, <1>5 DEF Unregister
    <3>3. ContextsInPlace'
      BY <2>0, <2>1, <1>5 DEF Unregister
    <3>4. EntriesInPlace'
      BY <2>0, <2>1, <1>5 DEF Unregister
    <3>5. ContextsListed'
      BY <2>0, <2>1, <1>5 DEF Unregister
    <3>6. IdsInOrder'
      BY <2>0, <2>1, <1>5 DEF Unregister
    <3>7. JobsInPlace'
      BY <2>0, <2>1, <1>5 DEF Unregister
    <3>8. CallsInPlace'
      BY <2>0, <2>1, <1>5 DEF Unregister
    <3> QED
      BY <3>1, <3>2, <3>3, <3>4, <3>5, <3>6, <3>7, <3>8
  <2>2. ASSUME NEW id \in fns[caller[r]] \cap fnRegistry,
               fnRegistry' = fnRegistry \ {id}, fns' = fns, pc' = pc
        PROVE  IInv'
    <3>1. TypeOK'
      BY <2>0, <2>2, <1>5 DEF Unregister
    <3>2. ThreadsInPlace'
      BY <2>0, <2>2, <1>5 DEF Unregister
    <3>3. ContextsInPlace'
      BY <2>0, <2>2, <1>5 DEF Unregister
    <3>4. EntriesInPlace'
      BY <2>0, <2>2, <1>5 DEF Unregister
    <3>5. ContextsListed'
      BY <2>0, <2>2, <1>5 DEF Unregister
    <3>6. IdsInOrder'
      BY <2>0, <2>2, <1>5 DEF Unregister
    <3>7. JobsInPlace'
      BY <2>0, <2>2, <1>5 DEF Unregister
    <3>8. CallsInPlace'
      BY <2>0, <2>2, <1>5 DEF Unregister
    <3> QED
      BY <3>1, <3>2, <3>3, <3>4, <3>5, <3>6, <3>7, <3>8
  <2> QED
    BY <2>1, <2>2, <1>5 DEF Unregister
<1>6. ASSUME NEW r \in Runtime, DeleteContext(r) PROVE IInv'
  <2>1. TypeOK'
    BY <1>6 DEF DeleteContext
  <2>2. ThreadsInPlace'
    BY <1>6 DEF DeleteContext
  <2>3. ContextsInPlace'
    BY <1>6 DEF DeleteContext
  <2>4. EntriesInPlace'
    BY <1>6 DEF DeleteContext
  <2>5. ContextsListed'
    BY <1>6 DEF DeleteContext
  <2>6. IdsInOrder'
    BY <1>6 DEF DeleteContext
  <2>7. JobsInPlace'
    BY <1>6 DEF DeleteContext
  <2>8. CallsInPlace'
    BY <1>6 DEF DeleteContext
  <2> QED
    BY <2>1, <2>2, <2>3, <2>4, <2>5, <2>6, <2>7, <2>8
<1>7. ASSUME NEW r \in Runtime, FreeContext(r) PROVE IInv'
  <2>0. /\ caller[r] \in Context /\ owner[caller[r]] = r
        /\ address[caller[r]] \in Address /\ memory[address[caller[r]]] = caller[r]
    <3> HIDE DEF IInv
    <3> QED BY <1>7, ThreadFacts DEF FreeContext
  <2>1. TypeOK'
    BY <2>0, <1>7 DEF FreeContext
  <2>2. ThreadsInPlace'
    BY <2>0, <1>7 DEF FreeContext
  <2>3. ContextsInPlace'
    BY <2>0, <1>7 DEF FreeContext
  <2>4. EntriesInPlace'
    BY <2>0, <1>7 DEF FreeContext
  <2>5. ContextsListed'
    <3>1. state' = [state EXCEPT ![caller[r]] = "closed"]
          /\ UNCHANGED <<ctxRegistry, memory, address>>
      BY <1>7 DEF FreeContext
    <3>2. pc[r] = "free" /\ state[caller[r]] = "closing"
      BY <1>7 DEF FreeContext
    <3>3. \A a \in Address : ctxRegistry[a] # caller[r]
      <4> HIDE DEF TypeOK, ThreadsInPlace, ContextsInPlace, ContextsListed, IdsInOrder,
                   JobsInPlace, CallsInPlace, Exists
      <4> QED BY <2>0, <3>2
    <3> QED
      BY <2>0, <3>1, <3>2, <3>3
  <2>6. IdsInOrder'
    BY <2>0, <1>7 DEF FreeContext
  <2>7. JobsInPlace'
    BY <2>0, <1>7 DEF FreeContext
  <2>8. CallsInPlace'
    BY <2>0, <1>7 DEF FreeContext
  <2> QED
    BY <2>1, <2>2, <2>3, <2>4, <2>5, <2>6, <2>7, <2>8
<1>8. ASSUME NEW r \in Runtime, CloseRuntime(r) PROVE IInv'
  BY <1>8 DEF CloseRuntime
<1>9. ASSUME NEW r \in Runtime, NEW s \in Context, NEW c \in Context \cup {None},
             NEW id \in Ids, QueueJob(r, s, c, id)
      PROVE  IInv'
  <2>1. owner[s] = r
    BY <1>9 DEF QueueJob, Settles, Runs
  <2>2. UNCHANGED <<ctxVars, fnVars, thread>> /\ jobs' = jobs \cup {<<s, c, id>>}
    BY <1>9 DEF QueueJob
  <2>3. TypeOK'
    BY <2>2
  <2>4. JobsInPlace'
    BY <1>9, <2>1, <2>2 DEF QueueJob
  <2> QED
    BY <2>2, <2>3, <2>4
<1>10. ASSUME NEW r \in Runtime, NEW s \in Context \cup {None},
              NEW c \in Context \cup {None}, NEW id \in Ids,
              Invoke(r, s, c, id), jobs' \subseteq jobs, s # None \/ c # None,
              s # None => owner[s] = r, c # None => owner[c] = r /\ Exists(c)
       PROVE  IInv'
  <2>0. /\ pc[r] = "idle"
        /\ c # None => owner[c] = r /\ address[c] \in Address /\ memory[address[c]] = c
        /\ maker[id] \in Context /\ owner[maker[id]] = r
    BY <1>10 DEF Invoke
  <2>1. TypeOK'
    BY <2>0, <1>10 DEF Invoke
  <2>2. ThreadsInPlace'
    BY <2>0, <1>10 DEF Invoke
  <2>3. ContextsInPlace'
    BY <2>0, <1>10 DEF Invoke
  <2>4. EntriesInPlace'
    BY <2>0, <1>10 DEF Invoke
  <2>5. ContextsListed'
    BY <2>0, <1>10 DEF Invoke
  <2>6. IdsInOrder'
    BY <2>0, <1>10 DEF Invoke
  <2>7. JobsInPlace'
    BY <2>0, <1>10 DEF Invoke
  <2>8. CallsInPlace'
    BY <2>0, <1>10 DEF Invoke
  <2> QED
    BY <2>1, <2>2, <2>3, <2>4, <2>5, <2>6, <2>7, <2>8
<1>11. ASSUME NEW r \in Runtime, FindFunction(r) PROVE IInv'
  BY <1>11 DEF FindFunction
<1>12. ASSUME NEW r \in Runtime, FindContext(r) PROVE IInv'
  <2>0. /\ Calling(r) \in Context /\ owner[Calling(r)] = r
        /\ address[Calling(r)] \in Address
        /\ caller[r] # None => Exists(Calling(r))
    <3> HIDE DEF IInv, Calling, Exists
    <3> QED BY <1>12, CallFacts DEF FindContext
  <2>1. TypeOK'
    BY <2>0, <1>12 DEF FindContext
  <2>2. ThreadsInPlace'
    BY <2>0, <1>12 DEF FindContext
  <2>3. ContextsInPlace'
    BY <2>0, <1>12 DEF FindContext
  <2>4. EntriesInPlace'
    BY <2>0, <1>12 DEF FindContext
  <2>5. ContextsListed'
    BY <2>0, <1>12 DEF FindContext
  <2>6. IdsInOrder'
    BY <2>0, <1>12 DEF FindContext
  <2>7. JobsInPlace'
    BY <2>0, <1>12 DEF FindContext
  <2>8. CallsInPlace'
    <3> DEFINE found == ctxRegistry[address[Calling(r)]]
    <3>1. found # None =>
            /\ memory[address[Calling(r)]] = found
            /\ \/ state[found] = "open"
               \/ pc[owner[found]] \in {"close", "delete"}
      <4> HIDE DEF TypeOK, ThreadsInPlace, ContextsInPlace, ContextsListed, IdsInOrder,
                   JobsInPlace, CallsInPlace, Exists, Calling
      <4> QED BY <2>0
    <3>2. found # None /\ owner[found] = r => state[found] = "open"
      BY <1>12, <3>1 DEF FindContext
    <3>3. found # None => \/ found = Calling(r) /\ state[found] = "open"
                          \/ caller[r] = None /\ ~Exists(settler[r])
      BY <2>0, <3>1, <3>2 DEF Exists
    <3>4. /\ goCtx' = [goCtx EXCEPT ![r] = found]
          /\ pc' = [pc EXCEPT ![r] = IF found # None THEN "inside" ELSE "throw"]
          /\ UNCHANGED <<ctxVars, fnVars, caller, settler, callee>> /\ pc[r] = "findCtx"
      BY <1>12 DEF FindContext
    <3> HIDE DEF found
    <3> QED
      BY <3>2, <3>3, <3>4
  <2> QED
    BY <2>1, <2>2, <2>3, <2>4, <2>5, <2>6, <2>7, <2>8
<1>13. ASSUME NEW r \in Runtime, Return(r) PROVE IInv'
  BY <1>13 DEF Return
<1>14. ASSUME NEW c \in Context, Reclaim(c) PROVE IInv'
  <2>0. address[c] \in Address /\ memory[address[c]] = c
    BY <1>14 DEF Reclaim
  <2>1. TypeOK'
    BY <2>0, <1>14 DEF Reclaim, Needed
  <2>2. ThreadsInPlace'
    BY <2>0, <1>14 DEF Reclaim, Needed
  <2>3. ContextsInPlace'
    BY <2>0, <1>14 DEF Reclaim, Needed
  <2>4. EntriesInPlace'
    BY <2>0, <1>14 DEF Reclaim, Needed
  <2>5. ContextsListed'
    BY <2>0, <1>14 DEF Reclaim, Needed
  <2>6. IdsInOrder'
    BY <2>0, <1>14 DEF Reclaim, Needed
  <2>7. JobsInPlace'
    <3>1. \A job \in jobs : job[2] # c
      BY <1>14 DEF Reclaim, Needed
    <3> QED
      BY <2>0, <3>1, <1>14 DEF Reclaim
  <2>8. CallsInPlace'
    <3>1. \A d \in Context : ~Exists(d) => ~Exists(d)'
      BY <2>0, <1>14 DEF Reclaim
    <3>2. UNCHANGED <<address, owner, state, fnVars, thread>>
      BY <1>14 DEF Reclaim
    <3>3. \A r \in Runtime : pc[r] = "inside" /\ caller[r] = None => settler[r] \in Context
      <4> HIDE DEF IInv
      <4> QED BY CallFacts
    <3> HIDE DEF Exists
    <3> QED
      BY <3>1, <3>2, <3>3
  <2> QED
    BY <2>1, <2>2, <2>3, <2>4, <2>5, <2>6, <2>7, <2>8
<1>15. CASE UNCHANGED vars
  BY <1>15 DEF vars
<1> QED
  <2> HIDE DEF IInv
  <2>1. ASSUME NEW r \in Runtime, NEW c \in Context, NEW id \in Ids, ScriptCalls(r, c, id)
        PROVE  IInv'
    BY <2>1, <1>10, RegistryAssumption DEF ScriptCalls, Runs
  <2>2. ASSUME NEW r \in Runtime, NEW job \in jobs, ExecutePendingJob(r, job)
        PROVE  IInv'
    <3>1. /\ job[1] \in Context /\ job[2] \in Context \cup {None} /\ job[3] \in Ids
          /\ job[2] # None => owner[job[2]] = owner[job[1]] /\ Exists(job[2])
      BY DEF IInv, TypeOK, JobsInPlace
    <3>2. Invoke(r, job[1], job[2], job[3]) /\ jobs' \subseteq jobs /\ owner[job[1]] = r
      BY <2>2 DEF ExecutePendingJob
    <3> QED
      BY <3>1, <3>2, <1>10, RegistryAssumption
  <2> QED
    BY <1>1, <1>2, <1>3, <1>4, <1>5, <1>6, <1>7, <1>8, <1>9, <2>1, <2>2, <1>11, <1>12,
       <1>13, <1>14, <1>15 DEF Next, Terminated

\* Every reachable state satisfies IInv, for any runtimes, contexts,
\* addresses and functions (function.go, context.go, runtime.go).
THEOREM Invariance == Spec => []IInv
<1>1. Init => IInv
  BY InitEstablishes
<1>2. IInv /\ [Next]_vars => IInv'
  BY StepPreserves
<1> QED
  BY <1>1, <1>2, PTL DEF Spec

LEMMA IInvSuffices == IInv => ContextsListed /\ CallsOpenContext /\ FunctionsTracked
<1> SUFFICES ASSUME IInv PROVE ContextsListed /\ CallsOpenContext /\ FunctionsTracked
  OBVIOUS
<1> USE DEF IInv
<1>1. ContextsListed
  OBVIOUS
<1>2. CallsOpenContext
  <2> SUFFICES ASSUME NEW r \in Runtime, pc[r] = "inside"
               PROVE  /\ state[maker[callee[r]]] = "open"
                      /\ owner[goCtx[r]] = r => state[goCtx[r]] = "open"
                      /\ goCtx[r] # Calling(r) \/ owner[goCtx[r]] # r =>
                           /\ caller[r] = None /\ ~Exists(settler[r])
                           /\ state[settler[r]] = "closed"
    BY DEF CallsOpenContext
  <2>1. /\ callee[r] \in Ids /\ Reaches(r, callee[r]) /\ callee[r] \in fnRegistry
        /\ owner[goCtx[r]] = r => state[goCtx[r]] = "open"
        /\ \/ goCtx[r] = Calling(r)
           \/ caller[r] = None /\ ~Exists(settler[r])
    BY DEF ThreadsInPlace, CallsInPlace
  <2>2. owner[Calling(r)] = r /\ (caller[r] = None => settler[r] \in Context)
    <3> HIDE DEF IInv
    <3> QED BY CallFacts
  <2>3. state[maker[callee[r]]] = "open"
    <3> DEFINE m == maker[callee[r]]
    <3>1. m \in Context /\ owner[m] = r /\ fns[m] # {}
      BY <2>1 DEF IdsInOrder, Reaches
    <3>2. state[m] = "open" \/ pc[owner[m]] = "close"
      BY <3>1 DEF ContextsInPlace
    <3> QED
      BY <3>1, <3>2
  <2>4. ASSUME caller[r] = None, ~Exists(settler[r]) PROVE state[settler[r]] = "closed"
    BY <2>2, <2>4 DEF TypeOK, ContextsInPlace, Calling
  <2> QED
    BY <2>1, <2>2, <2>3, <2>4
<1>3. FunctionsTracked
  <2>1. \A id \in fnRegistry : id \in Ids /\ maker[id] \in Context /\ id \in fns[maker[id]]
    BY DEF TypeOK, IdsInOrder
  <2>2. \A c \in Context : /\ fns[c] # {} => state[c] \in {"open", "closing"}
                           /\ state[c] = "open" => fns[c] \subseteq fnRegistry
    BY DEF TypeOK, ContextsInPlace, IdsInOrder
  <2> QED
    BY <2>1, <2>2 DEF FunctionsTracked
<1> QED
  BY <1>1, <1>2, <1>3

-----------------------------------------------------------------------------
(* The theorems.                                                           *)

\* Every variable keeps its type.
THEOREM TypeCorrect == Spec => []TypeOK
<1>1. IInv => TypeOK
  BY DEF IInv
<1> QED
  BY <1>1, Invariance, PTL

\* An open context is registered under its address and what is registered
\* under an address lives there, for any interleaving of the threads of the
\* runtimes and any reuse of addresses (context.go:34-39).
THEOREM OpenContextsListed == Spec => []ContextsListed
BY Invariance, IInvSuffices, PTL

\* goInvokeFunction runs a Go function while the Context it was made with is
\* open, and with the open Context that called it; it finds another one only
\* for a job whose settling context was closed and freed (bridge.go:59-92).
THEOREM CallsReachOpenContexts == Spec => []CallsOpenContext
BY Invariance, IInvSuffices, PTL

\* fnRegistry holds the functions of the contexts not yet closed, and
\* nothing else (context.go:26-32).
THEOREM FunctionsAreTracked == Spec => []FunctionsTracked
BY Invariance, IInvSuffices, PTL
=============================================================================
