-------------------------------- MODULE Heap --------------------------------
(***************************************************************************)
(* The heap of a JSRuntime (src/qjs/quickjs.c): the reference counts that  *)
(* Go (src/qjs/value.go) and scripts share, the cycle collector JS_RunGC,  *)
(* and what refers to an object without keeping it: WeakRef, WeakMap and   *)
(* FinalizationRegistry.                                                   *)
(*                                                                         *)
(* An object is the block of memory it lives in; a block may be used again *)
(* by an object of the same class once it is freed.  The order of the      *)
(* lists gc_obj_list, gc_zero_ref_count_list and tmp_obj_list is           *)
(* abstracted: every order is explored.                                    *)
(***************************************************************************)
EXTENDS Naturals, Sequences, SequencesExt, FiniteSets

CONSTANTS Plain,       \* objects with properties
          Function,    \* closures over one captured variable
          VarRef,      \* captured variables (JSVarRef, detached)
          WeakMap, WeakRef, Registry,
          Slot,        \* names of the properties of a plain object
          Entry,       \* registrations with a FinalizationRegistry
          None,
          Universes,   \* the sets of objects a script may use
          MaxHandles   \* bound: references to one object held outside the heap

Object == Plain \cup Function \cup VarRef \cup WeakMap \cup WeakRef \cup Registry

ASSUME HeapAssumption ==
  /\ LET class == <<Plain, Function, VarRef, WeakMap, WeakRef, Registry>>
     IN \A i, j \in 1 .. 6 : i # j => class[i] \cap class[j] = {}
  /\ None \notin Object
  /\ Entry \cap (Object \cup Slot \cup {"ref"}) = {}
  /\ IsFiniteSet(Slot) /\ IsFiniteSet(Entry)
  /\ \A U \in Universes : U \subseteq Object /\ IsFiniteSet(U)
  /\ MaxHandles \in Nat \ {0}

VARIABLES state,    \* "absent", "live", or "zombie": freed, its memory kept
          rc,       \* header.ref_count
          mark,     \* header.mark
          list,     \* the list header.link is in
          slot,     \* properties; a closure's variable; a variable's value;
                    \* a registry's callback
          records,  \* the weak maps' records <<map, key, value>>
          target,   \* JSWeakRefData.target, None for the sentinel
          entry,    \* JSFinRecEntry, then the job made of it
          jobs,     \* rt->job_list
          handles,  \* references owned by Go values and running scripts
          frees,    \* what the running C function has still to free
          pc,       \* the loop being executed; gives rt->gc_phase
          todo,     \* gc_scan: the part of gc_obj_list not yet visited
          inFree,   \* rt->in_free
          universe  \* the objects this script uses

vars == <<state, rc, mark, list, slot, records, target, entry, jobs, handles,
          frees, pc, todo, inFree, universe>>
tables == <<records, target, entry, jobs>>

Fields(o) == IF o \in Plain THEN Slot
             ELSE IF o \in WeakMap \cup WeakRef THEN {} ELSE {"ref"}
Value == universe \cup {None}
NoEntry == [st |-> "free", reg |-> None, target |-> None,
            held |-> None, token |-> None, cb |-> None]

TypeOK ==
  /\ state \in [universe -> {"absent", "live", "zombie"}]
  /\ rc \in [universe -> Nat] /\ mark \in [universe -> {0, 1}]
  /\ list \in [universe -> {"none", "gc", "zero", "tmp"}]
  /\ \A o \in universe : slot[o] \in [Fields(o) -> Value]
  /\ records \subseteq WeakMap \X universe \X Value
  /\ target \in [universe \cap WeakRef -> Value]
  /\ entry \in [Entry -> [st : {"free", "registered", "queued"},
                          reg : Registry \cup {None}, target : Value,
                          held : Value, token : Value, cb : Value]]
  /\ jobs \in Seq(Entry) /\ frees \in Seq(Value)
  /\ handles \in [universe -> 0 .. MaxHandles]
  /\ pc \in {"run", "zero", "scan", "cycles", "freed"}
  /\ todo \subseteq universe /\ inFree \in BOOLEAN /\ universe \in Universes

-----------------------------------------------------------------------------
(* The references an object holds.  An edge is <<owner, kind, id, child>>; *)
(* the value of a weak map's record belongs to its key.                    *)

\* Mutant: the collector does not see the values of weak maps.
WeakMapEdgesUnmarked == {}

\* mark_weak_map_value
WeakMapEdges == {<<r[2], "map", r[1], r[3]>> : r \in records}

\* mark_children, js_bytecode_function_mark, js_finrec_mark
Edges ==
  { x \in (UNION {{<<o, "slot", f, slot[o][f]>> : f \in Fields(o)} : o \in universe})
          \cup WeakMapEdges
          \cup (UNION {{<<entry[e].reg, "held", e, entry[e].held>>,
                        <<entry[e].reg, "token", e, entry[e].token>>,
                        <<entry[e].reg, "cb", e, entry[e].cb>>} :
                       e \in {d \in Entry : entry[d].st = "registered"}}) :
      x[4] # None }

Count(edges, o) == Cardinality({x \in edges : x[4] = o})

\* The references owned by the job of a registration.
JobEdges == {x \in UNION {{<<None, "held", e, entry[e].held>>,
                           <<None, "cb", e, entry[e].cb>>} :
                          e \in {d \in Entry : entry[d].st = "queued"}} :
             x[4] # None}

-----------------------------------------------------------------------------
(* Counting.                                                               *)

Dup(o) == IF o = None THEN rc ELSE [rc EXCEPT ![o] = @ + 1]

\* JS_FreeValueRT in JS_GC_PHASE_NONE: the last reference starts
\* free_zero_refcount.
Release(count, o) ==
  IF o = None
  THEN rc' = count /\ UNCHANGED <<list, pc>>
  ELSE /\ rc' = [count EXCEPT ![o] = @ - 1]
       /\ list' = [list EXCEPT ![o] = IF count[o] = 1 THEN "zero" ELSE @]
       /\ pc' = IF count[o] = 1 THEN "zero" ELSE pc

\* Mutant: objects of the cycle being removed are not told from the others.
UsableUnlessFreed(x, p) == x = None \/ (x # p /\ state[x] = "live")

\* A finalization job may still be given x while p is freed (reset_weak_ref).
Usable(x, p) == x = None \/ (x # p /\ state[x] = "live" /\ mark[x] = 0)

\* The captured variables that die with p: free_var_ref of the last closure.
LastUse(p) == {v \in universe \cap VarRef : p \in Function /\ slot[p]["ref"] = v /\ rc[v] = 1}

\* free_object(p), with reset_weak_ref and the finalizer of its class.  While
\* zero counts are being processed an object that loses its last reference
\* joins them; while cycles are removed nothing happens to it (it is garbage,
\* and freed later), and the memory of p is kept if others still count it.
\* What JS_EnqueueJob duplicates, js_finrec_free gives back: the job keeps the
\* references of the registration it is made of.
FreeObject(p) ==
  LET due == {e \in Entry : entry[e].st = "registered" /\ entry[e].target = p}
      queued == IF inFree THEN {}
                ELSE {e \in due : Usable(entry[e].held, p) /\ Usable(entry[e].cb, p)}
      gone == {x \in Edges : \/ x[1] \in {p} \cup LastUse(p)
                             \/ x[2] = "map" /\ x[3] = p
                             \/ x[3] \in due \ queued
                             \/ x[3] \in queued /\ x[2] = "token"}
      count == [o \in universe |-> rc[o] - Count(gone, o)]
      kept == pc = "cycles" /\ count[p] # 0
      freed == LastUse(p) \cup (IF kept THEN {} ELSE {p})
  IN /\ state' = [o \in universe |-> IF o \in freed THEN "absent"
                                ELSE IF o = p THEN "zombie" ELSE state[o]]
     /\ rc' = [o \in universe |-> IF o \in freed THEN 0 ELSE count[o]]
     /\ mark' = [o \in universe |-> IF o \in freed THEN 0 ELSE mark[o]]
     /\ list' = [o \in universe |->
                   IF o \in freed THEN "none"
                   ELSE IF o = p \/ (pc = "zero" /\ count[o] = 0 /\ rc[o] > 0)
                        THEN "zero" ELSE list[o]]
     /\ slot' = [o \in universe |-> IF o \in freed \cup {p}
                               THEN [f \in Fields(o) |-> None] ELSE slot[o]]
     /\ records' = {r \in records : p \notin {r[1], r[2]}}
     /\ target' = [w \in DOMAIN target |-> IF p \in {w, target[w]} THEN None ELSE target[w]]
     /\ entry' = [e \in Entry |->
                    IF e \in queued
                    THEN [entry[e] EXCEPT !.st = "queued", !.reg = None,
                                          !.target = None, !.token = None]
                    ELSE IF e \in due \/ entry[e].reg = p THEN NoEntry ELSE entry[e]]
     /\ \E q \in SetToSeqs(queued) : jobs' = jobs \o q

-----------------------------------------------------------------------------
(* Scripts and the host.  They work on the objects they hold; a job's      *)
(* callback runs while both arguments of the job are still to be freed.    *)

CanRun == pc = "run" /\ ~inFree /\ Len(frees) \in {0, 2}
Held(o) == o # None => handles[o] > 0
Room(o) == o # None => handles[o] < MaxHandles
Take(o) == IF o = None THEN handles ELSE [handles EXCEPT ![o] = @ + 1]

\* A new object of an unused block, with one reference for its maker.
Allocate(o, content, count) ==
  /\ state[o] = "absent"
  /\ state' = [state EXCEPT ![o] = "live"]
  /\ rc' = [count EXCEPT ![o] = 1]
  /\ list' = [list EXCEPT ![o] = "gc"]
  /\ handles' = [handles EXCEPT ![o] = 1]
  /\ slot' = [slot EXCEPT ![o] = [f \in Fields(o) |-> content]]
  /\ UNCHANGED <<mark, records, entry, jobs, frees, pc, todo, inFree, universe>>

NewObject(o) ==
  CanRun /\ o \in Plain \cup WeakMap /\ Allocate(o, None, rc) /\ UNCHANGED target

NewWeakRef(w, o) ==
  /\ CanRun /\ o # None /\ Held(o)
  /\ Allocate(w, None, rc)
  /\ target' = [target EXCEPT ![w] = o]

\* js_finrec_constructor
NewRegistry(r, cb) ==
  CanRun /\ Held(cb) /\ Allocate(r, cb, Dup(cb)) /\ UNCHANGED target

\* A closure that shares the variable of another one.
NewClosure(f, g) ==
  LET v == slot[g]["ref"] IN
  /\ CanRun /\ Held(g) /\ Allocate(f, v, Dup(v)) /\ UNCHANGED target

\* A closure over a new variable, which holds x.
NewVariable(f, v, x) ==
  /\ CanRun /\ Held(x)
  /\ state[f] = "absent" /\ state[v] = "absent"
  /\ state' = [state EXCEPT ![f] = "live", ![v] = "live"]
  /\ rc' = [Dup(x) EXCEPT ![f] = 1, ![v] = 1]
  /\ list' = [list EXCEPT ![f] = "gc", ![v] = "gc"]
  /\ handles' = [handles EXCEPT ![f] = 1]
  /\ slot' = [slot EXCEPT ![f] = [ref |-> v], ![v] = [ref |-> x]]
  /\ UNCHANGED <<mark, tables, frees, pc, todo, inFree, universe>>

\* JS_GetProperty and the like: a new reference to what o has in field f.
Get(o, f) ==
  LET x == slot[o][f] IN
  /\ CanRun /\ Held(o) /\ o \in Plain /\ Room(x)
  /\ rc' = Dup(x) /\ handles' = Take(x)
  /\ UNCHANGED <<state, mark, list, slot, tables, frees, pc, todo, inFree, universe>>

\* Value.Set: the property takes over the caller's reference to x; if it
\* cannot be written (ok is FALSE) the reference is freed all the same.
Set(o, f, x, ok) ==
  /\ CanRun /\ Held(o) /\ Held(x) /\ o \in Plain /\ f \in Slot
  /\ handles' = IF x = None THEN handles ELSE [handles EXCEPT ![x] = @ - 1]
  /\ IF ok THEN /\ slot' = [slot EXCEPT ![o][f] = x]
                /\ Release(rc, slot[o][f])
           ELSE Release(rc, x) /\ UNCHANGED slot
  /\ UNCHANGED <<state, mark, tables, frees, todo, inFree, universe>>

\* A closure reads its variable, or assigns it (set_value).
GetVariable(f) ==
  LET x == slot[slot[f]["ref"]]["ref"] IN
  /\ CanRun /\ f \in Function /\ Held(f) /\ Room(x)
  /\ rc' = Dup(x) /\ handles' = Take(x)
  /\ UNCHANGED <<state, mark, list, slot, tables, frees, pc, todo, inFree, universe>>

SetVariable(f, x) ==
  LET v == slot[f]["ref"] IN
  /\ CanRun /\ f \in Function /\ Held(f) /\ Held(x)
  /\ slot' = [slot EXCEPT ![v]["ref"] = x]
  /\ Release(Dup(x), slot[v]["ref"])
  /\ UNCHANGED <<state, mark, tables, handles, frees, todo, inFree, universe>>

\* Value.Dup and Value.Free
DupValue(o) ==
  /\ CanRun /\ handles[o] > 0 /\ Room(o)
  /\ rc' = Dup(o) /\ handles' = Take(o)
  /\ UNCHANGED <<state, mark, list, slot, tables, frees, pc, todo, inFree, universe>>

FreeValue(o) ==
  /\ CanRun /\ handles[o] > 0
  /\ handles' = [handles EXCEPT ![o] = @ - 1]
  /\ Release(rc, o)
  /\ UNCHANGED <<state, mark, slot, tables, frees, todo, inFree, universe>>

\* js_weakref_deref
Deref(w) ==
  LET x == target[w] IN
  /\ CanRun /\ Held(w) /\ Room(x)
  /\ rc' = Dup(x) /\ handles' = Take(x)
  /\ UNCHANGED <<state, mark, list, slot, tables, frees, pc, todo, inFree, universe>>

\* js_map_get, js_map_set and js_map_delete of a weak map.
MapGet(m, k) ==
  \E r \in records :
    /\ CanRun /\ Held(m) /\ Held(k) /\ r[1] = m /\ r[2] = k /\ Room(r[3])
    /\ rc' = Dup(r[3]) /\ handles' = Take(r[3])
    /\ UNCHANGED <<state, mark, list, slot, tables, frees, pc, todo, inFree, universe>>

\* Mutant: the value that is overwritten or deleted is not freed.
OldValueForgotten(found) == None

MapFind(m, k) == {r \in records : r[1] = m /\ r[2] = k}

OldValue(found) == IF found = {} THEN None ELSE (CHOOSE r \in found : TRUE)[3]

MapSet(m, k, x) ==
  LET found == MapFind(m, k) IN
  /\ CanRun /\ Held(m) /\ Held(k) /\ Held(x)
  /\ records' = (records \ found) \cup {<<m, k, x>>}
  /\ Release(Dup(x), OldValue(found))
  /\ UNCHANGED <<state, mark, slot, target, entry, jobs, handles, frees, todo, inFree, universe>>

MapDelete(m, k) ==
  LET found == MapFind(m, k) IN
  /\ CanRun /\ Held(m) /\ Held(k) /\ found # {}
  /\ records' = records \ found
  /\ Release(rc, OldValue(found))
  /\ UNCHANGED <<state, mark, slot, target, entry, jobs, handles, frees, todo, inFree, universe>>

\* js_finrec_register.  A token is kept like the held value; the usual one is
\* the target itself.
Register(e, r, t, held, token) ==
  LET cb == slot[r]["ref"] IN
  /\ CanRun /\ entry[e].st = "free"
  /\ Held(r) /\ Held(t) /\ Held(held) /\ t \notin {r, held}
  /\ entry' = [entry EXCEPT ![e] =
       [st |-> "registered", reg |-> r, target |-> t,
        held |-> held, token |-> token, cb |-> cb]]
  /\ rc' = [o \in universe |-> rc[o] + Count({<<r, "held", e, held>>, <<r, "token", e, token>>,
                                         <<r, "cb", e, cb>>}, o)]
  /\ UNCHANGED <<state, mark, list, slot, records, target, jobs, handles,
                 frees, pc, todo, inFree, universe>>

\* JS_ExecutePendingJob of a finalization job: the callback is called with the
\* held value, then the job's two references are freed.
RunJob ==
  /\ CanRun /\ frees = <<>> /\ jobs # <<>>
  /\ LET e == Head(jobs) IN
     /\ frees' = <<entry[e].cb, entry[e].held>>
     /\ entry' = [entry EXCEPT ![e] = NoEntry]
     /\ \/ /\ Room(entry[e].held)     \* the callback keeps its argument
           /\ rc' = Dup(entry[e].held) /\ handles' = Take(entry[e].held)
        \/ UNCHANGED <<rc, handles>>
  /\ jobs' = Tail(jobs)
  /\ UNCHANGED <<state, mark, list, slot, records, target, pc, todo, inFree, universe>>

FreeArgument ==
  /\ pc = "run" /\ frees # <<>>
  /\ frees' = Tail(frees)
  /\ Release(rc, Head(frees))
  /\ UNCHANGED <<state, mark, slot, tables, handles, todo, inFree, universe>>

\* JS_FreeRuntime, once the host has given back its references.
FreeRuntime ==
  /\ CanRun /\ frees = <<>> /\ \A o \in universe : handles[o] = 0
  /\ inFree' = TRUE
  /\ frees' = [i \in 1 .. 2 * Len(jobs) |->
                 IF i % 2 = 1 THEN entry[jobs[(i + 1) \div 2]].cb ELSE entry[jobs[i \div 2]].held]
  /\ jobs' = <<>>
  /\ entry' = [e \in Entry |-> IF entry[e].st = "queued" THEN NoEntry ELSE entry[e]]
  /\ UNCHANGED <<state, rc, mark, list, slot, records, target, handles, pc, todo, universe>>

-----------------------------------------------------------------------------
(* The loops.                                                              *)

\* free_zero_refcount, one object.
FreeZero(o) ==
  /\ pc = "zero" /\ list[o] = "zero"
  /\ FreeObject(o)
  /\ pc' = IF \E x \in universe : list'[x] = "zero" THEN "zero" ELSE "run"
  /\ UNCHANGED <<handles, frees, todo, inFree, universe>>

\* JS_RunGC (by the host, by js_trigger_gc, by JS_FreeRuntime), with gc_decref:
\* what is left of a count are the references from outside the heap.
RunGC ==
  LET edges == Edges
      count == [o \in universe |-> rc[o] - Count(edges, o)] IN
  /\ CanRun \/ (pc = "run" /\ inFree /\ frees = <<>>)
  /\ rc' = count
  /\ mark' = [o \in universe |-> IF state[o] = "live" THEN 1 ELSE mark[o]]
  /\ list' = [o \in universe |-> IF state[o] = "live" /\ count[o] = 0 THEN "tmp" ELSE list[o]]
  /\ todo' = {o \in universe : state[o] = "live" /\ count[o] > 0}
  /\ pc' = "scan"
  /\ UNCHANGED <<state, slot, tables, handles, frees, inFree, universe>>

\* Mutants: the children of a child are not visited; the marks stay.
VisitNext(o, reached) == todo \ {o}
KeepMarks(visited) == mark

\* What gc_scan has still to visit: objects that are kept join the list.
ToVisit(o, reached) == (todo \ {o}) \cup reached

\* "reset the mark for the next GC call"
ResetMarks(visited) == [c \in universe |-> IF c \in visited THEN 0 ELSE mark[c]]

\* gc_scan, one object of gc_obj_list: its children are kept.
Scan(o) ==
  LET edges == {x \in Edges : x[1] = o}
      reached == {c \in universe : list[c] = "tmp" /\ Count(edges, c) > 0} IN
  /\ pc = "scan" /\ o \in todo
  /\ rc' = [c \in universe |-> rc[c] + Count(edges, c)]
  /\ mark' = ResetMarks(reached \cup {o})
  /\ list' = [c \in universe |-> IF c \in reached THEN "gc" ELSE list[c]]
  /\ todo' = ToVisit(o, reached)
  /\ UNCHANGED <<state, slot, tables, handles, frees, pc, inFree, universe>>

\* The end of gc_scan: the counts of the garbage are restored.
Restore ==
  LET edges == {x \in Edges : list[x[1]] = "tmp"} IN
  /\ pc = "scan" /\ todo = {}
  /\ rc' = [c \in universe |-> rc[c] + Count(edges, c)]
  /\ pc' = "cycles"
  /\ UNCHANGED <<state, mark, list, slot, tables, handles, frees, todo, inFree, universe>>

\* gc_free_cycles, one object of tmp_obj_list: a variable is left to the
\* closures that share it.
FreeCycle(o) ==
  /\ pc = "cycles" /\ list[o] = "tmp"
  /\ IF o \in VarRef
     THEN /\ list' = [list EXCEPT ![o] = "zero"]
          /\ UNCHANGED <<state, rc, mark, slot, tables>>
     ELSE FreeObject(o)
  /\ UNCHANGED <<handles, frees, pc, todo, inFree, universe>>

\* The end of gc_free_cycles: the memory that was kept is freed.
EndGC ==
  LET kept == {o \in universe : list[o] = "zero"} IN
  /\ pc = "cycles" /\ \A o \in universe : list[o] # "tmp"
  /\ state' = [o \in universe |-> IF o \in kept THEN "absent" ELSE state[o]]
  /\ rc' = [o \in universe |-> IF o \in kept THEN 0 ELSE rc[o]]
  /\ mark' = [o \in universe |-> IF o \in kept THEN 0 ELSE mark[o]]
  /\ list' = [o \in universe |-> IF o \in kept THEN "none" ELSE list[o]]
  /\ pc' = IF inFree THEN "freed" ELSE "run"
  /\ UNCHANGED <<slot, tables, handles, frees, todo, inFree, universe>>

Done == pc = "freed" /\ UNCHANGED vars

-----------------------------------------------------------------------------

Init ==
  /\ universe \in Universes
  /\ state = [o \in universe |-> "absent"]
  /\ rc = [o \in universe |-> 0] /\ mark = [o \in universe |-> 0]
  /\ list = [o \in universe |-> "none"]
  /\ slot = [o \in universe |-> [f \in Fields(o) |-> None]]
  /\ records = {} /\ target = [w \in universe \cap WeakRef |-> None]
  /\ entry = [e \in Entry |-> NoEntry]
  /\ jobs = <<>> /\ frees = <<>>
  /\ handles = [o \in universe |-> 0]
  /\ pc = "run" /\ todo = {} /\ inFree = FALSE

Mutate ==
  \/ \E o \in universe :
       \/ NewObject(o) \/ DupValue(o) \/ FreeValue(o)
       \/ \E f \in Slot : Get(o, f) \/ \E x \in Value, ok \in BOOLEAN : Set(o, f, x, ok)
  \/ \E f, g \in universe \cap Function :
       \/ NewClosure(f, g)
       \/ \E v \in universe \cap VarRef, x \in Value : NewVariable(f, v, x)
  \/ \E f \in universe \cap Function :
       GetVariable(f) \/ \E x \in Value : SetVariable(f, x)
  \/ \E w \in universe \cap WeakRef : Deref(w) \/ \E o \in universe : NewWeakRef(w, o)
  \/ \E m \in universe \cap WeakMap, k \in universe :
       MapGet(m, k) \/ MapDelete(m, k) \/ \E x \in Value : MapSet(m, k, x)
  \/ \E r \in universe \cap Registry :
       \/ \E cb \in Value : NewRegistry(r, cb)
       \/ \E e \in Entry, t \in universe, x \in Value :
            \E token \in {None, t} : Register(e, r, t, x, token)
  \/ RunJob

Collect == \/ RunGC \/ Restore \/ EndGC
           \/ \E o \in universe : Scan(o) \/ FreeCycle(o)

Next == \/ Mutate \/ Collect \/ FreeArgument \/ FreeRuntime \/ Done
        \/ \E o \in universe : FreeZero(o)

Spec == Init /\ [][Next]_vars

-----------------------------------------------------------------------------
(* Properties.                                                             *)

\* The references to o that do not come from an object.
External(o) ==
  handles[o] + Count(JobEdges, o)
  + Cardinality({i \in 1 .. Len(frees) : frees[i] = o})

\* The counts are exact in every step of every loop: a count is what the
\* host, the jobs and the objects hold; while gc_scan runs, only the objects
\* already visited are counted.  (js_free_value_rt, gc_decref, gc_scan)
CountsExact ==
  LET edges == {x \in Edges : pc = "scan" => list[x[1]] = "gc" /\ x[1] \notin todo} IN
  /\ TypeOK
  /\ \A o \in universe : state[o] # "absent" => rc[o] = External(o) + Count(edges, o)

\* Nothing refers to freed memory: no reference, no weak record, and no entry
\* of a list; and a live object outside the garbage refers to no zombie.
\* (free_object, reset_weak_ref, the finalizers, "zombie objects are visible
\* in finalizers when freeing cycles")
NothingDangles ==
  /\ \A x \in Edges \cup JobEdges : state[x[4]] # "absent"
  /\ \A x \in Edges : state[x[4]] = "zombie" => list[x[1]] \in {"tmp", "zero"}
  /\ \A r \in records : state[r[1]] = "live" /\ state[r[2]] = "live"
  /\ \A w \in DOMAIN target : target[w] # None => state[target[w]] = "live"
  /\ \A e \in Entry : entry[e].st = "registered" =>
       state[entry[e].reg] = "live" /\ state[entry[e].target] = "live"
  /\ \A o \in universe : (state[o] = "absent") = (list[o] = "none")

Children(edges, S) == {x[4] : x \in {x \in edges : x[1] \in S}}

ReachableFrom(S) ==
  LET edges == Edges
      reach[n \in 0 .. Cardinality(universe)] ==
        IF n = 0 THEN S ELSE reach[n - 1] \cup Children(edges, reach[n - 1])
  IN reach[Cardinality(universe)]

Reachable == ReachableFrom({o \in universe : External(o) > 0})

\* No step frees an object that the host, a job or a script can still reach.
\* (JS_RunGC, free_zero_refcount)
ReachableKept == [][\A o \in Reachable : state'[o] = "live"]_vars

\* gc_scan leaves in tmp_obj_list exactly the objects that cannot be reached,
\* where a key keeps the values that weak maps have for it (also those of a
\* map that is garbage itself: they wait for the next collection), and
\* gc_free_cycles frees every one of them, whatever the order.  When the
\* runtime is freed nothing is left.
\* (gc_decref, gc_scan, gc_free_cycles, mark_weak_map_value, JS_FreeRuntime)
GarbageCollected ==
  [][/\ pc = "scan" /\ pc' = "cycles" =>
          LET kept == Reachable IN
          \A o \in universe : list[o] = "tmp" <=> state[o] = "live" /\ o \notin kept
     /\ pc = "cycles" /\ pc' # "cycles" =>
          \A o \in universe : mark[o] = 1 \/ inFree => state'[o] = "absent"]_vars

\* When a target dies while its registry can still be reached, the job for
\* its registration is queued, once, unless the runtime is being freed; no job
\* is queued for another reason.
\* (reset_weak_ref, js_finrec_finalizer)
FinalizationDelivered ==
  [][\A e \in Entry :
       LET dies == entry[e].st = "registered" /\ state'[entry[e].target] # "live"
           queued == entry[e].st # "queued" /\ entry'[e].st = "queued" IN
       /\ dies /\ entry[e].reg \in Reachable /\ ~inFree => queued
       /\ queued => dies /\ Cardinality({i \in DOMAIN jobs' : jobs'[i] = e}) = 1]_vars

=============================================================================
