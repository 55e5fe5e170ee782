----------------------------- MODULE HeapProofs -----------------------------
(***************************************************************************)
(* Proofs about the heap, for any classes of objects, any properties and   *)
(* any number of registrations: counts are exact in every step of every    *)
(* loop, nothing refers to freed memory, what can be reached is kept, what *)
(* cannot is gone when a collection ends, and finalizations are queued     *)
(* exactly once.                                                           *)
(***************************************************************************)
EXTENDS Heap, FiniteSetTheorems, FunctionTheorems, TLAPS

-----------------------------------------------------------------------------
(* The invariant.                                                          *)

\* The references counted at present: all of them, except while gc_scan runs.
Counted == {x \in Edges : pc = "scan" => list[x[1]] = "gc" /\ x[1] \notin todo}
Exact == \A o \in universe : rc[o] = External(o) + Count(Counted, o)

\* Closures and captured variables: a variable lives as long as a closure
\* shares it, and nothing else refers to it.
Fielded == DOMAIN slot = universe
Captured ==
  /\ \A f \in universe \cap Function : state[f] = "live" =>
       slot[f]["ref"] \in VarRef /\ state[slot[f]["ref"]] = "live"
  /\ \A v \in universe \cap VarRef : state[v] = "live" => \E f \in universe \cap Function : slot[f]["ref"] = v
  /\ \A o \in universe \ Function : \A f \in Fields(o) : slot[o][f] \notin VarRef
  /\ \A v \in universe \cap VarRef : handles[v] = 0
  /\ \A r \in records : r[2] \notin VarRef /\ r[3] \notin VarRef
  /\ \A e \in Entry : {entry[e].held, entry[e].token, entry[e].cb, entry[e].target} \cap VarRef = {}
  /\ \A i \in DOMAIN frees : frees[i] \notin VarRef
  /\ \A w \in DOMAIN target : target[w] \notin VarRef
\* Only what is alive has contents.
Emptied == \A o \in universe : state[o] # "live" => \A f \in Fields(o) : slot[o][f] = None

\* Weak references are to what is alive, and a record's key is in a map once.
Weak ==
  /\ \A r \in records : r[1] \in universe /\ state[r[1]] = "live" /\ state[r[2]] = "live"
  /\ \A r, s \in records : r[1] = s[1] /\ r[2] = s[2] => r = s
  /\ \A w \in DOMAIN target : target[w] # None => state[target[w]] = "live"
  /\ \A e \in Entry : entry[e].st = "registered" =>
       /\ entry[e].reg \in universe /\ state[entry[e].reg] = "live"
       /\ entry[e].target \in universe /\ state[entry[e].target] = "live"
       /\ entry[e].target # entry[e].reg

\* The queue has a job for each registration that is due, once.
Queue ==
  /\ \A i, j \in DOMAIN jobs : jobs[i] = jobs[j] => i = j
  /\ \A e \in Entry : entry[e].st = "queued" <=> \E i \in DOMAIN jobs : jobs[i] = e
  /\ \A e \in Entry : entry[e].st = "queued" => entry[e].reg = None

\* What is not there is referred to by nobody.
Unreferred == \A o \in universe : state[o] = "absent" => External(o) = 0 /\ Count(Edges, o) = 0

\* The lists and the marks in each of the loops.
Lists == \A o \in universe : (state[o] = "absent") <=> (list[o] = "none")
Running ==
  pc \in {"run", "freed"} => \A o \in universe : state[o] # "zombie" /\ mark[o] = 0 /\ list[o] \in {"none", "gc"}
Zeroing ==
  pc = "zero" => \A o \in universe :
    /\ state[o] # "zombie" /\ mark[o] = 0 /\ list[o] \in {"none", "gc", "zero"}
    /\ list[o] = "zero" => rc[o] = 0
Scanning ==
  pc = "scan" =>
    /\ todo \subseteq {o \in universe : list[o] = "gc"}
    /\ \A o \in universe :
         /\ state[o] # "zombie" /\ list[o] \in {"none", "gc", "tmp"}
         /\ list[o] = "tmp" => mark[o] = 1 /\ rc[o] = 0
         /\ list[o] # "tmp" /\ o \notin todo => mark[o] = 0
\* Garbage is marked; nothing but garbage refers to it.
Cycling ==
  pc = "cycles" =>
    /\ \A o \in universe :
         /\ list[o] \in {"tmp", "zero"} <=> mark[o] = 1
         /\ list[o] = "tmp" => state[o] = "live"
         /\ list[o] = "gc" => state[o] = "live"
         /\ list[o] = "zero" => state[o] = "zombie" \/ o \in VarRef
         /\ mark[o] = 1 => External(o) = 0
    /\ \A x \in Edges : mark[x[4]] = 1 => mark[x[1]] = 1

IInv ==
  /\ TypeOK /\ Fielded /\ Exact
  /\ Captured /\ Emptied /\ Weak /\ Queue /\ Unreferred
  /\ Lists /\ Running /\ Zeroing /\ Scanning /\ Cycling

-----------------------------------------------------------------------------
(* Counting.                                                               *)

\* The references to o in a finite set are finitely many.
LEMMA CountType ==
  ASSUME NEW E, IsFiniteSet(E), NEW o
  PROVE  Count(E, o) \in Nat /\ IsFiniteSet({x \in E : x[4] = o})
<1>1. {x \in E : x[4] = o} \in SUBSET E
  OBVIOUS
<1> QED
  BY <1>1, FS_Subset, FS_CardinalityType DEF Count

\* None are counted exactly when there are none.
LEMMA CountZero ==
  ASSUME NEW E, IsFiniteSet(E), NEW o
  PROVE  Count(E, o) = 0 <=> \A x \in E : x[4] # o
<1>1. IsFiniteSet({x \in E : x[4] = o})
  BY CountType
<1>2. Count(E, o) = 0 <=> {x \in E : x[4] = o} = {}
  BY <1>1, FS_EmptySet DEF Count
<1> QED
  BY <1>2

LEMMA CountNothing == ASSUME NEW o PROVE Count({}, o) = 0
  BY FS_EmptySet, CountZero

\* One reference counts once.
LEMMA CountOne ==
  ASSUME NEW x, NEW o
  PROVE  IsFiniteSet({x}) /\ Count({x}, o) = IF x[4] = o THEN 1 ELSE 0
<1>1. IsFiniteSet({x}) /\ Cardinality({x}) = 1
  BY FS_Singleton
<1>2. CASE x[4] = o
  <2>1. {y \in {x} : y[4] = o} = {x}
    BY <1>2
  <2> QED
    BY <1>1, <1>2, <2>1 DEF Count
<1>3. CASE x[4] # o
  BY <1>1, <1>3, CountZero
<1> QED
  BY <1>2, <1>3

\* What is taken from a set is taken from its count.
LEMMA CountMinus ==
  ASSUME NEW E, IsFiniteSet(E), NEW F, F \subseteq E, NEW o
  PROVE  /\ IsFiniteSet(F) /\ IsFiniteSet(E \ F)
         /\ Count(F, o) \in Nat /\ Count(E, o) \in Nat /\ Count(F, o) <= Count(E, o)
         /\ Count(E \ F, o) = Count(E, o) - Count(F, o)
<1> DEFINE S == {x \in E : x[4] = o}
           T == {x \in F : x[4] = o}
<1>1. IsFiniteSet(F) /\ IsFiniteSet(E \ F)
  BY FS_Subset, FS_Difference
<1>2. IsFiniteSet(S) /\ IsFiniteSet(T) /\ Cardinality(S) \in Nat /\ Cardinality(T) \in Nat
  BY <1>1, CountType DEF Count
<1>3. {x \in E \ F : x[4] = o} = S \ T /\ S \cap T = T
  OBVIOUS
<1> HIDE DEF S, T
<1>4. Cardinality(S \ T) = Cardinality(S) - Cardinality(S \cap T) /\ Cardinality(S \cap T) <= Cardinality(S)
  BY <1>2, FS_Difference, FS_Intersection
<1> QED
  BY <1>1, <1>2, <1>3, <1>4 DEF Count, S, T

\* What is joined adds up.
LEMMA CountJoin ==
  ASSUME NEW E, IsFiniteSet(E), NEW F, IsFiniteSet(F), E \cap F = {}, NEW o
  PROVE  IsFiniteSet(E \cup F) /\ Count(E \cup F, o) = Count(E, o) + Count(F, o)
<1>1. IsFiniteSet(E \cup F)
  BY FS_Union
<1>2. (E \cup F) \ F = E /\ F \subseteq E \cup F
  OBVIOUS
<1>3. PICK G : G = E \cup F
  OBVIOUS
<1>4. Count(G \ F, o) = Count(G, o) - Count(F, o) /\ Count(G, o) \in Nat /\ Count(F, o) \in Nat
  BY SMTT(60), <1>1, <1>2, <1>3, CountMinus
<1>5. Count(E, o) = Count(G, o) - Count(F, o)
  BY <1>2, <1>3, <1>4
<1> QED
  BY <1>1, <1>3, <1>4, <1>5

\* When the references A go and B come, the counts change by theirs.
Replaces(D, E, A, B) == D = (E \ A) \cup B /\ A \subseteq E /\ B \cap (E \ A) = {}
LEMMA CountChange ==
  ASSUME NEW E, IsFiniteSet(E), NEW D, NEW A, NEW B, IsFiniteSet(B), Replaces(D, E, A, B), NEW o
  PROVE  /\ IsFiniteSet(D)
         /\ Count(A, o) \in Nat /\ Count(B, o) \in Nat /\ Count(E, o) \in Nat /\ Count(A, o) <= Count(E, o)
         /\ Count(D, o) = (Count(E, o) - Count(A, o)) + Count(B, o)
<1>0. A \subseteq E /\ IsFiniteSet(E)
  BY DEF Replaces
<1>1. /\ IsFiniteSet(E \ A) /\ Count(A, o) \in Nat /\ Count(E, o) \in Nat /\ Count(A, o) <= Count(E, o)
      /\ Count(E \ A, o) = Count(E, o) - Count(A, o)
  BY ONLY <1>0, CountMinus
<1>2. Count(B, o) \in Nat
  BY CountType
<1>3. PICK C : C = E \ A /\ C \cap B = {} /\ D = C \cup B
  BY DEF Replaces
<1>4. IsFiniteSet(C) /\ IsFiniteSet(B) /\ C \cap B = {}
  BY <1>1, <1>3
<1>5. IsFiniteSet(C \cup B) /\ Count(C \cup B, o) = Count(C, o) + Count(B, o)
  BY ONLY <1>4, CountJoin
<1> QED
  BY <1>1, <1>2, <1>3, <1>5

\* The reference that a field holds, if it holds any.
Reference(a, kind, id, c) == IF c = None THEN {} ELSE {<<a, kind, id, c>>}
One(c, o) == IF c = o THEN 1 ELSE 0

LEMMA CountReference ==
  ASSUME NEW a, NEW kind, NEW id, NEW c, NEW o, o # None
  PROVE  IsFiniteSet(Reference(a, kind, id, c)) /\ Count(Reference(a, kind, id, c), o) = One(c, o)
<1>1. CASE c = None
  BY <1>1, CountNothing, FS_EmptySet DEF Reference, One
<1>2. CASE c # None
  <2>1. PICK x : x = <<a, kind, id, c>>
    OBVIOUS
  <2>2. x[4] = c
    BY <2>1
  <2> QED
    BY <1>2, <2>1, <2>2, CountOne DEF Reference, One
<1> QED
  BY <1>1, <1>2

\* Of two references to an object there is one besides any given one.
LEMMA CountAnother ==
  ASSUME NEW E, IsFiniteSet(E), NEW o, NEW y \in E, y[4] = o, Count(E, o) # 1
  PROVE  \E x \in E : x # y /\ x[4] = o
<1>1. {y} \subseteq E /\ Count({y}, o) = 1
  BY CountOne
<1>2. PICK F : F = {y}
  OBVIOUS
<1>3. F \subseteq E /\ IsFiniteSet(E)
  BY <1>2
<1>4. Count(E, o) \in Nat /\ Count(E \ F, o) = Count(E, o) - Count(F, o) /\ IsFiniteSet(E \ F)
  BY ONLY <1>3, CountMinus
<1>5. Count(E \ F, o) # 0
  BY <1>1, <1>2, <1>4
<1> QED
  BY <1>2, <1>4, <1>5, CountZero

-----------------------------------------------------------------------------
(* References.                                                             *)

\* The references of a heap with the objects U, the contents s, the records r
\* and the registrations n.
EdgesOf(U, s, r, n) ==
  { x \in (UNION {{<<o, "slot", f, s[o][f]>> : f \in Fields(o)} : o \in U})
          \cup {<<y[2], "map", y[1], y[3]>> : y \in r}
          \cup (UNION {{<<n[e].reg, "held", e, n[e].held>>,
                        <<n[e].reg, "token", e, n[e].token>>,
                        <<n[e].reg, "cb", e, n[e].cb>>} :
                       e \in {d \in Entry : n[d].st = "registered"}}) :
      x[4] # None }
JobEdgesOf(n) == {x \in UNION {{<<None, "held", e, n[e].held>>, <<None, "cb", e, n[e].cb>>} :
                               e \in {d \in Entry : n[d].st = "queued"}} :
                  x[4] # None}

Part(g, kind) == IF kind = "held" THEN g.held ELSE IF kind = "token" THEN g.token ELSE g.cb
Tuple(x) == x = <<x[1], x[2], x[3], x[4]>>
OfSlot(x, U, s) == x[2] = "slot" /\ x[1] \in U /\ x[3] \in Fields(x[1]) /\ x[4] = s[x[1]][x[3]]
OfRecord(x, r) == x[2] = "map" /\ <<x[3], x[1], x[4]>> \in r
OfEntry(x, n) ==
  /\ x[2] \in {"held", "token", "cb"} /\ x[3] \in Entry
  /\ n[x[3]].st = "registered" /\ x[1] = n[x[3]].reg /\ x[4] = Part(n[x[3]], x[2])
IsEdge(x, U, s, r, n) ==
  Tuple(x) /\ x[4] # None /\ (OfSlot(x, U, s) \/ OfRecord(x, r) \/ OfEntry(x, n))
IsJobEdge(x, n) ==
  /\ Tuple(x) /\ x[4] # None /\ x[1] = None /\ x[2] \in {"held", "cb"} /\ x[3] \in Entry
  /\ n[x[3]].st = "queued" /\ x[4] = Part(n[x[3]], x[2])
Triples(r) == \A y \in r : y = <<y[1], y[2], y[3]>>

\* Which references a heap has.
LEMMA EdgeIs ==
  ASSUME NEW U, NEW s, NEW r, Triples(r), NEW n, NEW x
  PROVE  x \in EdgesOf(U, s, r, n) <=> IsEdge(x, U, s, r, n)
<1>1. ASSUME x \in EdgesOf(U, s, r, n) PROVE IsEdge(x, U, s, r, n)
  <2>1. CASE \E o \in U : \E f \in Fields(o) : x = <<o, "slot", f, s[o][f]>>
    BY <1>1, <2>1 DEF EdgesOf, IsEdge, OfSlot, Tuple
  <2>2. CASE \E y \in r : x = <<y[2], "map", y[1], y[3]>>
    BY <1>1, <2>2 DEF EdgesOf, IsEdge, OfRecord, Tuple, Triples
  <2>3. CASE \E e \in Entry : n[e].st = "registered" /\ x \in {<<n[e].reg, "held", e, n[e].held>>,
               <<n[e].reg, "token", e, n[e].token>>, <<n[e].reg, "cb", e, n[e].cb>>}
    BY <1>1, <2>3 DEF EdgesOf, IsEdge, OfEntry, Tuple, Part
  <2> QED
    BY <1>1, <2>1, <2>2, <2>3 DEF EdgesOf
<1>2. ASSUME IsEdge(x, U, s, r, n) PROVE x \in EdgesOf(U, s, r, n)
  <2>1. CASE OfSlot(x, U, s)
    BY <1>2, <2>1 DEF EdgesOf, IsEdge, OfSlot, Tuple
  <2>2. CASE OfRecord(x, r)
    <3>1. PICK y \in r : y = <<x[3], x[1], x[4]>>
      BY <2>2 DEF OfRecord
    <3>2. x = <<y[2], "map", y[1], y[3]>>
      BY <1>2, <2>2, <3>1 DEF IsEdge, Tuple, OfRecord
    <3> QED
      BY <1>2, <3>1, <3>2 DEF EdgesOf, IsEdge
  <2>3. CASE OfEntry(x, n)
    <3>1. PICK e \in Entry : e = x[3] /\ n[e].st = "registered"
      BY <2>3 DEF OfEntry
    <3>2. x \in {<<n[e].reg, "held", e, n[e].held>>, <<n[e].reg, "token", e, n[e].token>>, <<n[e].reg, "cb", e, n[e].cb>>}
      BY <1>2, <2>3, <3>1 DEF IsEdge, Tuple, OfEntry, Part
    <3> QED
      BY <1>2, <3>1, <3>2 DEF EdgesOf, IsEdge
  <2> QED
    BY <1>2, <2>1, <2>2, <2>3 DEF IsEdge
<1> QED
  BY <1>1, <1>2

LEMMA JobEdgeIs ==
  ASSUME NEW n, NEW x
  PROVE  x \in JobEdgesOf(n) <=> IsJobEdge(x, n)
<1>1. ASSUME x \in JobEdgesOf(n) PROVE IsJobEdge(x, n)
  BY <1>1 DEF JobEdgesOf, IsJobEdge, Tuple, Part
<1>2. ASSUME IsJobEdge(x, n) PROVE x \in JobEdgesOf(n)
  <2>1. PICK e \in Entry : e = x[3] /\ n[e].st = "queued"
    BY <1>2 DEF IsJobEdge
  <2>2. x \in {<<None, "held", e, n[e].held>>, <<None, "cb", e, n[e].cb>>}
    BY <1>2, <2>1 DEF IsJobEdge, Tuple, Part
  <2> QED
    BY <1>2, <2>1, <2>2 DEF JobEdgesOf, IsJobEdge
<1> QED
  BY <1>1, <1>2

\* The contents have their types.
EntryType(U) == [st : {"free", "registered", "queued"}, reg : Registry \cup {None}, target : U \cup {None},
                 held : U \cup {None}, token : U \cup {None}, cb : U \cup {None}]
Typed(U, s, r, n) ==
  /\ IsFiniteSet(U) /\ U \subseteq Object
  /\ \A o \in U : s[o] \in [Fields(o) -> U \cup {None}]
  /\ r \subseteq WeakMap \X U \X (U \cup {None}) /\ \A y \in r : y[1] \in U
  /\ n \in [Entry -> EntryType(U)] /\ \A e \in Entry : n[e].st = "registered" => n[e].reg \in U

\* There are finitely many references, between objects of the heap.
LEMMA EdgesFinite ==
  ASSUME NEW U, NEW s, NEW r, NEW n, Typed(U, s, r, n)
  PROVE  /\ IsFiniteSet(EdgesOf(U, s, r, n))
         /\ \A x \in EdgesOf(U, s, r, n) : x[1] \in U /\ x[4] \in U
         /\ IsFiniteSet(JobEdgesOf(n))
         /\ \A x \in JobEdgesOf(n) : x[4] \in U
<1> DEFINE Kind == {"slot", "map", "held", "token", "cb"}
           Id == Slot \cup {"ref"} \cup U \cup Entry
           Pairs == ((U \cup {None}) \X Kind) \X (Id \X U)
           E == EdgesOf(U, s, r, n)
           J == JobEdgesOf(n)
           nest(x) == <<<<x[1], x[2]>>, <<x[3], x[4]>>>>
<1>1. Triples(r)
  BY DEF Typed, Triples
<1>2. \A x \in E : Tuple(x) /\ x[1] \in U /\ x[2] \in Kind /\ x[3] \in Id /\ x[4] \in U
  <2> SUFFICES ASSUME NEW x \in E PROVE Tuple(x) /\ x[1] \in U /\ x[2] \in Kind /\ x[3] \in Id /\ x[4] \in U
    OBVIOUS
  <2>1. IsEdge(x, U, s, r, n)
    BY <1>1, EdgeIs
  <2>2. CASE OfSlot(x, U, s)
    <3>1. x[3] \in Slot \cup {"ref"}
      BY <2>2 DEF OfSlot, Fields
    <3>2. s[x[1]][x[3]] \in U \cup {None}
      BY <2>2 DEF OfSlot, Typed
    <3> QED
      BY <2>1, <2>2, <3>1, <3>2 DEF IsEdge, OfSlot
  <2>3. CASE OfRecord(x, r)
    BY <2>1, <2>3 DEF IsEdge, OfRecord, Typed
  <2>4. CASE OfEntry(x, n)
    <3>1. n[x[3]] \in EntryType(U) /\ n[x[3]].reg \in U
      BY <2>4 DEF OfEntry, Typed
    <3>2. Part(n[x[3]], x[2]) \in U \cup {None}
      BY <3>1 DEF EntryType, Part
    <3> QED
      BY <2>1, <2>4, <3>1, <3>2 DEF IsEdge, OfEntry
  <2> QED
    BY <2>1, <2>2, <2>3, <2>4 DEF IsEdge
<1>3. \A x \in J : Tuple(x) /\ x[1] = None /\ x[2] \in Kind /\ x[3] \in Id /\ x[4] \in U
  <2> SUFFICES ASSUME NEW x \in J PROVE Tuple(x) /\ x[1] = None /\ x[2] \in Kind /\ x[3] \in Id /\ x[4] \in U
    OBVIOUS
  <2>1. IsJobEdge(x, n)
    BY JobEdgeIs
  <2>2. n[x[3]] \in EntryType(U)
    BY <2>1 DEF IsJobEdge, Typed
  <2>3. Part(n[x[3]], x[2]) \in U \cup {None}
    BY <2>2 DEF EntryType, Part
  <2> QED
    BY <2>1, <2>3 DEF IsJobEdge
<1>4. IsFiniteSet(Pairs)
  <2>1. IsFiniteSet(Id)
    BY HeapAssumption, FS_Union, FS_AddElement DEF Typed
  <2>2. IsFiniteSet(Kind)
    <3>1. \A x : IsFiniteSet({x})
      BY FS_Singleton
    <3>2. \A S, T : IsFiniteSet(S) /\ IsFiniteSet(T) => IsFiniteSet(S \cup T)
      BY FS_Union
    <3>3. IsFiniteSet({"token"} \cup {"cb"})
      BY ONLY <3>1, <3>2
    <3>4. IsFiniteSet({"held"} \cup ({"token"} \cup {"cb"}))
      BY ONLY <3>1, <3>2, <3>3
    <3>5. IsFiniteSet({"map"} \cup ({"held"} \cup ({"token"} \cup {"cb"})))
      BY ONLY <3>1, <3>2, <3>4
    <3>6. IsFiniteSet({"slot"} \cup ({"map"} \cup ({"held"} \cup ({"token"} \cup {"cb"}))))
      BY ONLY <3>1, <3>2, <3>5
    <3>7. Kind = {"slot"} \cup ({"map"} \cup ({"held"} \cup ({"token"} \cup {"cb"})))
      OBVIOUS
    <3> QED
      BY <3>6, <3>7
  <2>3. IsFiniteSet(U \cup {None}) /\ IsFiniteSet(U)
    BY FS_AddElement DEF Typed
  <2> HIDE DEF Id, Kind
  <2>4. IsFiniteSet((U \cup {None}) \X Kind)
    BY <2>2, <2>3, FS_Product
  <2>5. IsFiniteSet(Id \X U)
    BY <2>1, <2>3, FS_Product
  <2> QED
    BY <2>4, <2>5, FS_Product
<1> HIDE DEF E, J, Kind, Id
<1>5. ASSUME NEW D, \A x \in D : Tuple(x) /\ x[1] \in U \cup {None} /\ x[2] \in Kind /\ x[3] \in Id /\ x[4] \in U
      PROVE  IsFiniteSet(D)
  <2> DEFINE g == [x \in D |-> nest(x)]
  <2>1. g \in [D -> Pairs]
    BY <1>5
  <2>2. \A x, y \in D : g[x] = g[y] => x = y
    <3> SUFFICES ASSUME NEW x \in D, NEW y \in D, nest(x) = nest(y) PROVE x = y
      OBVIOUS
    <3>1. x[1] = y[1] /\ x[2] = y[2] /\ x[3] = y[3] /\ x[4] = y[4]
      OBVIOUS
    <3> QED
      BY <3>1, <1>5 DEF Tuple
  <2> HIDE DEF g, Pairs
  <2>3. g \in Injection(D, Pairs)
    BY <2>1, <2>2 DEF Injection, IsInjective
  <2> QED
    BY <1>4, <2>3, FS_Injection
<1>6. IsFiniteSet(E) /\ IsFiniteSet(J)
  BY <1>2, <1>3, <1>5
<1> QED
  BY <1>2, <1>3, <1>6 DEF E, J

-----------------------------------------------------------------------------
(* Counts of a state.                                                      *)

Pending(s, o) == Cardinality({i \in 1 .. Len(s) : s[i] = o})

LEMMA PendingType ==
  ASSUME NEW V, NEW s \in Seq(V), NEW o
  PROVE  /\ Pending(s, o) \in Nat /\ IsFiniteSet({i \in 1 .. Len(s) : s[i] = o})
         /\ Pending(s, o) = 0 <=> \A i \in DOMAIN s : s[i] # o
<1> DEFINE I == {i \in 1 .. Len(s) : s[i] = o}
<1>1. IsFiniteSet(1 .. Len(s))
  BY FS_Interval
<1>2. I \in SUBSET (1 .. Len(s))
  OBVIOUS
<1>3. IsFiniteSet(I) /\ Cardinality(I) \in Nat /\ (Cardinality(I) = 0 <=> I = {})
  BY <1>1, <1>2, FS_Subset, FS_CardinalityType, FS_EmptySet
<1>4. I = {} <=> \A i \in DOMAIN s : s[i] # o
  OBVIOUS
<1> QED
  BY <1>3, <1>4 DEF Pending

\* The types of what objects and scripts hold, and of what the loops use.
Contents ==
  /\ Fielded
  /\ \A o \in universe : slot[o] \in [Fields(o) -> Value]
  /\ records \subseteq WeakMap \X universe \X Value
  /\ target \in [universe \cap WeakRef -> Value]
  /\ entry \in [Entry -> EntryType(universe)]
  /\ jobs \in Seq(Entry) /\ frees \in Seq(Value)
  /\ handles \in [universe -> 0 .. MaxHandles]
Loops ==
  /\ state \in [universe -> {"absent", "live", "zombie"}]
  /\ rc \in [universe -> Nat] /\ mark \in [universe -> {0, 1}]
  /\ list \in [universe -> {"none", "gc", "zero", "tmp"}]
  /\ pc \in {"run", "zero", "scan", "cycles", "freed"}
  /\ todo \subseteq universe /\ inFree \in BOOLEAN /\ universe \in Universes
Structure == Captured /\ Emptied /\ Weak /\ Queue
Phases == Lists /\ Running /\ Zeroing /\ Scanning /\ Cycling

LEMMA TypesAre == TypeOK /\ Fielded <=> Contents /\ Loops
  BY DEF TypeOK, Contents, Loops, EntryType, Value

LEMMA IInvIs == IInv <=> Contents /\ Loops /\ Exact /\ Structure /\ Unreferred /\ Phases
  BY TypesAre DEF IInv, Structure, Phases

\* All that refers to o.
Total(o) == handles[o] + Count(JobEdgesOf(entry), o) + Pending(frees, o)
              + Count(EdgesOf(universe, slot, records, entry), o)

LEMMA TypedState ==
  ASSUME Contents, universe \in Universes, Weak
  PROVE  Typed(universe, slot, records, entry)
<1>1. IsFiniteSet(universe) /\ universe \subseteq Object
  BY HeapAssumption
<1> QED
  BY <1>1 DEF Typed, Contents, Weak, Value

LEMMA EdgesAre == Edges = EdgesOf(universe, slot, records, entry) /\ JobEdges = JobEdgesOf(entry)
  BY DEF Edges, WeakMapEdges, EdgesOf, JobEdges, JobEdgesOf

LEMMA ExternalIs ==
  ASSUME NEW o
  PROVE  External(o) = handles[o] + Count(JobEdgesOf(entry), o) + Pending(frees, o)
  BY EdgesAre DEF External, Pending

\* The parts of a total.
LEMMA TotalParts ==
  ASSUME Contents, universe \in Universes, Weak, NEW o \in universe
  PROVE  /\ handles[o] \in Nat /\ Count(JobEdges, o) \in Nat /\ Pending(frees, o) \in Nat /\ Count(Edges, o) \in Nat
         /\ External(o) = handles[o] + Count(JobEdges, o) + Pending(frees, o)
         /\ Total(o) = External(o) + Count(Edges, o) /\ External(o) \in Nat
         /\ IsFiniteSet(Edges) /\ IsFiniteSet(JobEdges)
         /\ o # None
<1>1. IsFiniteSet(Edges) /\ IsFiniteSet(JobEdges)
  BY TypedState, EdgesAre, EdgesFinite
<1>2. Count(Edges, o) \in Nat /\ Count(JobEdges, o) \in Nat
  BY <1>1, CountType
<1>3. handles[o] \in 0 .. MaxHandles /\ frees \in Seq(Value)
  BY DEF Contents
<1>4. Pending(frees, o) \in Nat
  BY <1>3, PendingType
<1>5. handles[o] \in Nat
  BY <1>3, HeapAssumption
<1>6. o # None
  BY HeapAssumption
<1>7. External(o) = handles[o] + Count(JobEdges, o) + Pending(frees, o)
  BY ExternalIs, EdgesAre
<1>8. Total(o) = External(o) + Count(Edges, o)
  BY <1>7, EdgesAre DEF Total
<1> QED
  BY <1>1, <1>2, <1>4, <1>5, <1>6, <1>7, <1>8

\* Outside of gc_scan everything is counted.
LEMMA CountedAll == pc # "scan" => Counted = Edges
  BY DEF Counted

\* So a count tells whether an object is referred to, and only what is there
\* is.
LEMMA Referred ==
  ASSUME IInv, pc # "scan", NEW o \in universe
  PROVE  /\ rc[o] \in Nat /\ rc[o] = Total(o)
         /\ handles[o] > 0 => rc[o] > 0
         /\ \A x \in Edges : x[4] = o => rc[o] > 0
         /\ \A x \in JobEdges : x[4] = o => rc[o] > 0
         /\ \A i \in DOMAIN frees : frees[i] = o => rc[o] > 0
         /\ rc[o] > 0 => state[o] # "absent"
<1>1. Contents /\ universe \in Universes /\ Weak /\ rc[o] \in Nat /\ frees \in Seq(Value)
  BY IInvIs DEF Loops, Structure, Contents
<1>2. rc[o] = Total(o)
  <2>1. rc[o] = External(o) + Count(Edges, o)
    BY CountedAll DEF IInv, Exact
  <2> QED
    BY <1>1, <2>1, TotalParts
<1>3. rc[o] = handles[o] + Count(JobEdges, o) + Pending(frees, o) + Count(Edges, o)
  BY <1>1, <1>2, TotalParts
<1>4. /\ handles[o] \in Nat /\ Count(JobEdges, o) \in Nat /\ Pending(frees, o) \in Nat /\ Count(Edges, o) \in Nat
      /\ IsFiniteSet(Edges) /\ IsFiniteSet(JobEdges)
      /\ External(o) = handles[o] + Count(JobEdges, o) + Pending(frees, o)
  BY <1>1, TotalParts
<1>5. handles[o] > 0 => rc[o] > 0
  BY <1>3, <1>4
<1>6. ASSUME NEW x \in Edges, x[4] = o PROVE rc[o] > 0
  <2>1. Count(Edges, o) # 0
    BY <1>4, <1>6, CountZero
  <2> QED
    BY <1>3, <1>4, <2>1
<1>7. ASSUME NEW x \in JobEdges, x[4] = o PROVE rc[o] > 0
  <2>1. Count(JobEdges, o) # 0
    BY <1>4, <1>7, CountZero
  <2> QED
    BY <1>3, <1>4, <2>1
<1>8. ASSUME NEW i \in DOMAIN frees, frees[i] = o PROVE rc[o] > 0
  <2>1. Pending(frees, o) # 0
    BY <1>1, <1>8, PendingType
  <2> QED
    BY <1>3, <1>4, <2>1
<1>9. rc[o] > 0 => state[o] # "absent"
  BY <1>3, <1>4 DEF IInv, Unreferred
<1> QED
  BY <1>1, <1>2, <1>5, <1>6, <1>7, <1>8, <1>9

\* The same of the next state.
PartsOf(o) ==
  /\ handles[o] \in Nat /\ Count(JobEdges, o) \in Nat /\ Pending(frees, o) \in Nat /\ Count(Edges, o) \in Nat
  /\ External(o) = handles[o] + Count(JobEdges, o) + Pending(frees, o)
  /\ Total(o) = External(o) + Count(Edges, o) /\ External(o) \in Nat
  /\ IsFiniteSet(Edges) /\ IsFiniteSet(JobEdges)
LEMMA Parts == Contents /\ universe \in Universes /\ Weak => \A o \in universe : PartsOf(o)
  BY TotalParts DEF PartsOf
LEMMA PartsNext == (Contents /\ universe \in Universes /\ Weak => \A o \in universe : PartsOf(o))'
  BY Parts, PTL
LEMMA IInvNext == (IInv <=> Contents /\ Loops /\ Exact /\ Structure /\ Unreferred /\ Phases)'
  BY IInvIs, PTL
LEMMA CountedNext == (pc # "scan" => Counted = Edges)'
  BY CountedAll, PTL

-----------------------------------------------------------------------------
(* Steps of scripts and of the host.                                       *)

\* When the counts are those of what is left after a step, the invariant
\* holds again.
LEMMA Balances ==
  ASSUME Contents', Structure', Loops', pc' # "scan",
         \A o \in universe' : (rc[o])' = Total(o)' /\ ((state[o])' = "absent" => (rc[o])' = 0)
  PROVE  Exact' /\ Unreferred'
<1>1. universe' \in Universes' /\ Weak'
  BY DEF Loops, Structure
<1>2. \A o \in universe' : PartsOf(o)'
  BY <1>1, PartsNext
<1>3. Counted' = Edges'
  BY CountedNext
<1>4. \A o \in universe' : (rc[o])' = External(o)' + Count(Edges', o)
  BY <1>2 DEF PartsOf
<1>5. Exact'
  BY <1>3, <1>4 DEF Exact
<1>6. ASSUME NEW o \in universe', (state[o])' = "absent" PROVE External(o)' = 0 /\ Count(Edges', o) = 0
  <2>1. External(o)' + Count(Edges', o) = 0
    BY <1>4, <1>6
  <2>2. External(o)' \in Nat /\ Count(Edges', o) \in Nat
    BY <1>2 DEF PartsOf
  <2> QED
    BY <2>1, <2>2
<1>7. Unreferred'
  BY <1>6 DEF Unreferred
<1> QED
  BY <1>5, <1>7

\* A step that frees nothing, and may make objects.
Steady ==
  /\ universe' = universe /\ mark' = mark /\ todo' = todo /\ inFree' \in BOOLEAN /\ pc' = pc
  /\ state' \in [universe -> {"absent", "live", "zombie"}]
  /\ list' \in [universe -> {"none", "gc", "zero", "tmp"}]
  /\ rc' \in [universe -> Nat]
  /\ \A o \in universe : \/ state'[o] = state[o] /\ list'[o] = list[o]
                         \/ state'[o] = "live" /\ list'[o] = "gc"
LEMMA SteadyKeeps ==
  ASSUME IInv, pc = "run", Steady, Contents', Structure',
         \A o \in universe : rc'[o] = Total(o)' /\ (state'[o] = "absent" => rc'[o] = 0)
  PROVE  IInv'
<1>1. Loops /\ Phases
  BY IInvIs
<1>2. Loops'
  BY <1>1 DEF Loops, Steady
<1>3. Exact' /\ Unreferred'
  BY <1>2, Balances DEF Steady
<1>4. Phases'
  BY <1>1 DEF Phases, Steady, Lists, Running, Zeroing, Scanning, Cycling, Loops
<1> QED
  BY <1>2, <1>3, <1>4, IInvNext

\* A step that frees one reference to y, from the counts count.
Freeing(count, y) ==
  /\ universe' = universe /\ mark' = mark /\ todo' = todo /\ inFree' = inFree /\ state' = state
  /\ Release(count, y) /\ count \in [universe -> Nat] /\ y \in Value
  /\ y # None => count[y] > 0
LEMMA FreeingKeeps ==
  ASSUME IInv, pc = "run", NEW count, NEW y, Freeing(count, y), Contents', Structure',
         \A o \in universe : count[o] = Total(o)' + One(y, o) /\ (state[o] = "absent" => count[o] = 0)
  PROVE  IInv'
<1>1. Loops /\ Phases /\ None \notin universe
  BY IInvIs, HeapAssumption DEF Loops
<1>2. /\ rc' \in [universe -> Nat] /\ \A o \in universe : rc'[o] + One(y, o) = count[o]
      /\ list' \in [universe -> {"none", "gc", "zero", "tmp"}]
      /\ \A o \in universe : list'[o] = list[o] \/ (o = y /\ list'[o] = "zero" /\ rc'[o] = 0 /\ pc' = "zero")
      /\ pc' \in {"run", "zero"}
  <2>1. CASE y = None
    BY <1>1, <2>1 DEF Freeing, Release, One, Loops
  <2>2. CASE y # None
    <3>1. y \in universe /\ count[y] \in Nat /\ count[y] > 0
      BY <2>2 DEF Freeing, Value
    <3>2. rc' = [count EXCEPT ![y] = @ - 1] /\ list' = [list EXCEPT ![y] = IF count[y] = 1 THEN "zero" ELSE @]
          /\ pc' = IF count[y] = 1 THEN "zero" ELSE pc
      BY <2>2 DEF Freeing, Release
    <3>3. count \in [universe -> Nat] /\ list \in [universe -> {"none", "gc", "zero", "tmp"}]
      BY <1>1 DEF Freeing, Loops
    <3>4. rc' \in [universe -> Nat] /\ \A o \in universe : rc'[o] = IF o = y THEN count[o] - 1 ELSE count[o]
      BY <3>1, <3>2, <3>3
    <3>5. list' \in [universe -> {"none", "gc", "zero", "tmp"}]
          /\ \A o \in universe : list'[o] = IF o = y /\ count[y] = 1 THEN "zero" ELSE list[o]
      BY <3>1, <3>2, <3>3
    <3>6. \A o \in universe : rc'[o] + One(y, o) = count[o]
      BY <3>1, <3>3, <3>4 DEF One
    <3>7. pc' \in {"run", "zero"} /\ (count[y] = 1 => pc' = "zero" /\ rc'[y] = 0)
      BY <3>1, <3>2, <3>4
    <3> QED
      BY <3>4, <3>5, <3>6, <3>7
  <2> QED
    BY <2>1, <2>2
<1>3. Loops'
  BY <1>1, <1>2 DEF Loops, Freeing
<1>4. \A o \in universe : rc'[o] \in Nat /\ One(y, o) \in Nat
  BY <1>2 DEF One
<1>5. \A o \in universe : PartsOf(o)'
  BY <1>3, PartsNext DEF Structure, Loops, Freeing
<1>6. \A o \in universe : Total(o)' \in Nat
  BY <1>5 DEF PartsOf
<1>7. \A o \in universe : rc'[o] = Total(o)'
  BY <1>2, <1>4, <1>6
<1>8. \A o \in universe : state[o] = "absent" => rc'[o] = 0
  BY <1>2, <1>4
<1>9. Exact' /\ Unreferred'
  BY <1>2, <1>3, <1>7, <1>8, Balances DEF Freeing
<1>10. \A o \in universe : list'[o] = "zero" => state[o] # "absent"
  <2> SUFFICES ASSUME NEW o \in universe, list'[o] = "zero", state[o] = "absent" PROVE FALSE
    OBVIOUS
  <2>1. list[o] # "zero"
    BY <1>1 DEF Phases, Running
  <2>2. o = y /\ o # None
    BY <1>1, <1>2, <2>1
  <2>3. count[o] > 0 /\ count[o] = 0
    BY <2>2 DEF Freeing
  <2> QED
    BY <2>3
<1>11. Phases'
  <2>1. Lists'
    BY <1>1, <1>2, <1>10 DEF Lists, Phases, Freeing
  <2>2. Running'
    BY <1>1, <1>2 DEF Running, Phases, Freeing
  <2>3. Zeroing'
    BY <1>1, <1>2 DEF Running, Zeroing, Phases, Freeing
  <2> QED
    BY <1>2, <2>1, <2>2, <2>3 DEF Phases, Scanning, Cycling
<1> QED
  BY <1>3, <1>9, <1>11, IInvNext

-----------------------------------------------------------------------------
(* How a step changes the references.                                      *)

\* Heaps with the same contents have the same references.
LEMMA EdgesSame ==
  ASSUME NEW U, NEW s, NEW t, NEW r, NEW n, NEW m, Triples(r),
         \A o \in U : \A f \in Fields(o) : s[o][f] = t[o][f],
         \A e \in Entry : n[e].st = "registered" \/ m[e].st = "registered" => n[e] = m[e]
  PROVE  EdgesOf(U, s, r, n) = EdgesOf(U, t, r, m)
<1> SUFFICES ASSUME NEW x PROVE x \in EdgesOf(U, s, r, n) <=> x \in EdgesOf(U, t, r, m)
  OBVIOUS
<1>1. OfSlot(x, U, s) <=> OfSlot(x, U, t)
  BY DEF OfSlot
<1>2. OfEntry(x, n) <=> OfEntry(x, m)
  BY DEF OfEntry
<1>3. IsEdge(x, U, s, r, n) <=> IsEdge(x, U, t, r, m)
  BY <1>1, <1>2 DEF IsEdge
<1> QED
  BY <1>3, EdgeIs

LEMMA JobEdgesSame ==
  ASSUME NEW n, NEW m, \A e \in Entry : n[e].st = "queued" \/ m[e].st = "queued" => n[e] = m[e]
  PROVE  JobEdgesOf(n) = JobEdgesOf(m)
<1> SUFFICES ASSUME NEW x PROVE x \in JobEdgesOf(n) <=> x \in JobEdgesOf(m)
  OBVIOUS
<1>1. IsJobEdge(x, n) <=> IsJobEdge(x, m)
  BY DEF IsJobEdge
<1> QED
  BY <1>1, JobEdgeIs

LEMMA ReplacedCount ==
  ASSUME NEW E, IsFiniteSet(E), NEW D, NEW a, NEW k, NEW i, NEW c, NEW b, NEW l, NEW j, NEW d,
         Replaces(D, E, Reference(a, k, i, c), Reference(b, l, j, d)), NEW o, o # None
  PROVE  Count(D, o) \in Nat /\ Count(E, o) \in Nat /\ Count(D, o) + One(c, o) = Count(E, o) + One(d, o)
<1>1. PICK A, B : A = Reference(a, k, i, c) /\ B = Reference(b, l, j, d)
  OBVIOUS
<1>2. IsFiniteSet(A) /\ IsFiniteSet(B) /\ Count(A, o) = One(c, o) /\ Count(B, o) = One(d, o)
  BY <1>1, CountReference
<1>3. Replaces(D, E, A, B) /\ IsFiniteSet(E)
  BY <1>1
<1>4. /\ IsFiniteSet(D)
      /\ Count(A, o) \in Nat /\ Count(B, o) \in Nat /\ Count(E, o) \in Nat /\ Count(A, o) <= Count(E, o)
      /\ Count(D, o) = (Count(E, o) - Count(A, o)) + Count(B, o)
  BY ONLY <1>2, <1>3, CountChange
<1> QED
  BY <1>2, <1>4 DEF One

\* A field is written.
LEMMA SlotWritten ==
  ASSUME NEW U, NEW s, NEW t, NEW r, NEW n, Typed(U, s, r, n),
         NEW o \in U, NEW f \in Fields(o), NEW v,
         \A p \in U : \A g \in Fields(p) : t[p][g] = IF p = o /\ g = f THEN v ELSE s[p][g],
         NEW z \in U
  PROVE  /\ Count(EdgesOf(U, t, r, n), z) \in Nat /\ Count(EdgesOf(U, s, r, n), z) \in Nat
         /\ Count(EdgesOf(U, t, r, n), z) + One(s[o][f], z) = Count(EdgesOf(U, s, r, n), z) + One(v, z)
<1>1. Triples(r) /\ z # None
  BY HeapAssumption DEF Typed, Triples
<1>2. PICK E, D : E = EdgesOf(U, s, r, n) /\ D = EdgesOf(U, t, r, n)
  OBVIOUS
<1>3. PICK A, B : A = Reference(o, "slot", f, s[o][f]) /\ B = Reference(o, "slot", f, v)
  OBVIOUS
<1>4. \A x : x \in A <=> Tuple(x) /\ x[1] = o /\ x[2] = "slot" /\ x[3] = f /\ x[4] = s[o][f] /\ x[4] # None
  BY <1>3 DEF Reference, Tuple
<1>5. \A x : x \in B <=> Tuple(x) /\ x[1] = o /\ x[2] = "slot" /\ x[3] = f /\ x[4] = v /\ x[4] # None
  BY <1>3 DEF Reference, Tuple
<1>6. ASSUME NEW x PROVE (x \in E <=> IsEdge(x, U, s, r, n)) /\ (x \in D <=> IsEdge(x, U, t, r, n))
  BY <1>1, <1>2, EdgeIs
<1>7. ASSUME NEW x PROVE x \in D <=> x \in (E \ A) \cup B
  <2>1. CASE x[1] = o /\ x[2] = "slot" /\ x[3] = f
    <3>1. x \in D <=> Tuple(x) /\ x[4] # None /\ x[4] = v
      BY <1>6, <2>1 DEF IsEdge, OfSlot, OfRecord, OfEntry
    <3>2. x \in E <=> Tuple(x) /\ x[4] # None /\ x[4] = s[o][f]
      BY <1>6, <2>1 DEF IsEdge, OfSlot, OfRecord, OfEntry
    <3> QED
      BY <1>4, <1>5, <2>1, <3>1, <3>2
  <2>2. CASE ~(x[1] = o /\ x[2] = "slot" /\ x[3] = f)
    <3>1. OfSlot(x, U, t) <=> OfSlot(x, U, s)
      BY <2>2 DEF OfSlot
    <3>2. x \in D <=> x \in E
      BY <1>6, <3>1 DEF IsEdge
    <3> QED
      BY <1>4, <1>5, <2>2, <3>2
  <2> QED
    BY <2>1, <2>2
<1>8. D = (E \ A) \cup B
  BY <1>7
<1>9. A \subseteq E
  <2> SUFFICES ASSUME NEW x \in A PROVE x \in E
    OBVIOUS
  <2>1. OfSlot(x, U, s)
    BY <1>4 DEF OfSlot
  <2> QED
    BY <1>4, <1>6, <2>1 DEF IsEdge
<1>10. B \cap (E \ A) = {}
  <2> SUFFICES ASSUME NEW x \in B, x \in E PROVE x \in A
    OBVIOUS
  <2>1. x[1] = o /\ x[2] = "slot" /\ x[3] = f /\ Tuple(x)
    BY <1>5
  <2>2. x[4] # None /\ x[4] = s[o][f]
    BY <1>6, <2>1 DEF IsEdge, OfSlot, OfRecord, OfEntry
  <2> QED
    BY <1>4, <2>1, <2>2
<1>11. Replaces(D, E, A, B) /\ IsFiniteSet(E)
  BY <1>2, <1>8, <1>9, <1>10, EdgesFinite DEF Replaces
<1>12. Count(D, z) \in Nat /\ Count(E, z) \in Nat /\ Count(D, z) + One(s[o][f], z) = Count(E, z) + One(v, z)
  BY <1>1, <1>3, <1>11, ReplacedCount
<1> QED
  BY <1>2, <1>12

\* The record of a key goes, and one comes.
LEMMA RecordRemoved ==
  ASSUME NEW U, NEW s, NEW r, NEW n, Typed(U, s, r, n), NEW m, NEW k, NEW v, NEW y \in r,
         y = <<m, k, v>>, NEW q, q = r \ {y}, NEW z \in U
  PROVE  /\ Count(EdgesOf(U, s, q, n), z) \in Nat /\ Count(EdgesOf(U, s, r, n), z) \in Nat
         /\ Count(EdgesOf(U, s, q, n), z) + One(v, z) = Count(EdgesOf(U, s, r, n), z)
<1>2. Triples(r) /\ Triples(q) /\ z # None
  BY HeapAssumption DEF Typed, Triples
<1>3. PICK E, D : E = EdgesOf(U, s, r, n) /\ D = EdgesOf(U, s, q, n)
  OBVIOUS
<1>4. PICK A, B : A = Reference(k, "map", m, v) /\ B = Reference(k, "map", m, None)
  OBVIOUS
<1>5. \A x : x \in A <=> Tuple(x) /\ x[1] = k /\ x[2] = "map" /\ x[3] = m /\ x[4] = v /\ x[4] # None
  BY <1>4 DEF Reference, Tuple
<1>6. ASSUME NEW x PROVE (x \in E <=> IsEdge(x, U, s, r, n)) /\ (x \in D <=> IsEdge(x, U, s, q, n))
  BY <1>2, <1>3, EdgeIs
<1>7. ASSUME NEW x PROVE x \in D <=> x \in E \ A
  <2>1. <<x[3], x[1], x[4]>> = <<m, k, v>> <=> x[3] = m /\ x[1] = k /\ x[4] = v
    OBVIOUS
  <2>2. OfRecord(x, q) <=> OfRecord(x, r) /\ ~(x[2] = "map" /\ x[3] = m /\ x[1] = k /\ x[4] = v)
    BY <2>1 DEF OfRecord
  <2>3. x \in A => x[2] = "map" /\ ~OfSlot(x, U, s) /\ ~OfEntry(x, n)
    BY <1>5 DEF OfSlot, OfEntry
  <2>4. x[2] = "map" => ~OfSlot(x, U, s) /\ ~OfEntry(x, n)
    BY DEF OfSlot, OfEntry
  <2> QED
    BY <1>5, <1>6, <2>2, <2>3, <2>4 DEF IsEdge
<1>8. A \subseteq E
  <2> SUFFICES ASSUME NEW x \in A PROVE x \in E
    OBVIOUS
  <2>1. OfRecord(x, r)
    BY <1>5 DEF OfRecord
  <2> QED
    BY <1>5, <1>6, <2>1 DEF IsEdge
<1>9. Replaces(D, E, A, B) /\ IsFiniteSet(E)
  BY <1>3, <1>4, <1>7, <1>8, EdgesFinite DEF Replaces, Reference
<1>10. Count(D, z) \in Nat /\ Count(E, z) \in Nat /\ Count(D, z) + One(v, z) = Count(E, z) + One(None, z)
  BY <1>2, <1>4, <1>9, ReplacedCount
<1>11. One(None, z) = 0 /\ One(v, z) \in Nat
  BY <1>2 DEF One
<1> QED
  BY <1>3, <1>10, <1>11

LEMMA RecordAdded ==
  ASSUME NEW U, NEW s, NEW r, NEW n, Typed(U, s, r, n), NEW m, NEW k, NEW v,
         \A y \in r : ~(y[1] = m /\ y[2] = k), NEW q, q = r \cup {<<m, k, v>>}, Typed(U, s, q, n), NEW z \in U
  PROVE  /\ Count(EdgesOf(U, s, q, n), z) \in Nat /\ Count(EdgesOf(U, s, r, n), z) \in Nat
         /\ Count(EdgesOf(U, s, q, n), z) = Count(EdgesOf(U, s, r, n), z) + One(v, z)
<1>1. PICK y : y = <<m, k, v>>
  OBVIOUS
<1>2. y[1] = m /\ y[2] = k
  BY <1>1
<1>3. y = <<m, k, v>> /\ y \in q /\ r = q \ {y} /\ Typed(U, s, q, n) /\ z \in U
  BY <1>1, <1>2
<1> QED
  BY ONLY <1>3, RecordRemoved

\* An object is registered.
Registering(g, e) == {<<g.reg, "held", e, g.held>>, <<g.reg, "token", e, g.token>>, <<g.reg, "cb", e, g.cb>>}
LEMMA EntryAdded ==
  ASSUME NEW U, NEW s, NEW r, NEW n, Typed(U, s, r, n), NEW e \in Entry, n[e].st = "free",
         NEW g \in EntryType(U), g.st = "registered", g.reg \in U, NEW m,
         m[e] = g, \A d \in Entry : d # e => m[d] = n[d], NEW z \in U
  PROVE  /\ Count(EdgesOf(U, s, r, m), z) \in Nat /\ Count(EdgesOf(U, s, r, n), z) \in Nat
         /\ Count(Registering(g, e), z) \in Nat
         /\ Count(EdgesOf(U, s, r, m), z) = Count(EdgesOf(U, s, r, n), z) + Count(Registering(g, e), z)
<1>1. Triples(r) /\ z # None
  BY HeapAssumption DEF Typed, Triples
<1>2. PICK E, D : E = EdgesOf(U, s, r, n) /\ D = EdgesOf(U, s, r, m)
  OBVIOUS
<1>3. PICK R : R = Registering(g, e)
  OBVIOUS
<1>4. PICK B : B = {x \in R : x[4] # None}
  OBVIOUS
<1>6. ASSUME NEW x PROVE (x \in E <=> IsEdge(x, U, s, r, n)) /\ (x \in D <=> IsEdge(x, U, s, r, m))
  BY <1>1, <1>2, EdgeIs
<1>7. \A x : x \in R <=> Tuple(x) /\ x[1] = g.reg /\ x[2] \in {"held", "token", "cb"} /\ x[3] = e /\ x[4] = Part(g, x[2])
  BY <1>3 DEF Registering, Tuple, Part
<1>8. ASSUME NEW x PROVE OfEntry(x, m) /\ Tuple(x) <=> (OfEntry(x, n) /\ Tuple(x)) \/ x \in R
  <2>1. CASE x[3] = e
    <3>1. ~OfEntry(x, n)
      BY <2>1 DEF OfEntry
    <3>2. OfEntry(x, m) <=> x[2] \in {"held", "token", "cb"} /\ x[1] = g.reg /\ x[4] = Part(g, x[2])
      BY <2>1 DEF OfEntry
    <3> QED
      BY <1>7, <2>1, <3>1, <3>2
  <2>2. CASE x[3] # e
    BY <1>7, <2>2 DEF OfEntry
  <2> QED
    BY <2>1, <2>2
<1>9. D = E \cup B
  BY <1>4, <1>6, <1>7, <1>8 DEF IsEdge
<1>10. E \cap B = {}
  <2> SUFFICES ASSUME NEW x \in E, x \in B PROVE FALSE
    OBVIOUS
  <2>1. x[2] \in {"held", "token", "cb"} /\ x[3] = e
    BY <1>4, <1>7
  <2> QED
    BY <1>6, <2>1 DEF IsEdge, OfSlot, OfRecord, OfEntry
<1>11. IsFiniteSet(R)
  <2>1. \A x : IsFiniteSet({x})
    BY FS_Singleton
  <2>2. \A S, T : IsFiniteSet(S) /\ IsFiniteSet(T) => IsFiniteSet(S \cup T)
    BY FS_Union
  <2>3. PICK a, b, c : R = {a, b, c}
    BY <1>3 DEF Registering
  <2>4. IsFiniteSet({a} \cup {b})
    BY ONLY <2>1, <2>2
  <2>5. IsFiniteSet(({a} \cup {b}) \cup {c})
    BY ONLY <2>1, <2>2, <2>4
  <2>6. R = ({a} \cup {b}) \cup {c}
    BY <2>3
  <2> QED
    BY <2>5, <2>6
<1>12. IsFiniteSet(E) /\ IsFiniteSet(B)
  <2>1. B \in SUBSET R
    BY <1>4
  <2> QED
    BY <1>2, <1>11, <2>1, EdgesFinite, FS_Subset
<1>13. Count(B, z) = Count(R, z)
  <2>1. {x \in B : x[4] = z} = {x \in R : x[4] = z}
    BY <1>1, <1>4
  <2> QED
    BY <2>1 DEF Count
<1>14. Count(E, z) \in Nat /\ Count(B, z) \in Nat
  BY ONLY <1>12, CountType
<1>15. Count(E \cup B, z) = Count(E, z) + Count(B, z)
  BY ONLY <1>10, <1>12, CountJoin
<1>16. Count(D, z) = Count(E, z) + Count(R, z)
  BY <1>9, <1>13, <1>15
<1>17. Count(D, z) \in Nat /\ Count(R, z) \in Nat
  BY <1>13, <1>14, <1>16
<1> QED
  BY <1>2, <1>3, <1>14, <1>16, <1>17

\* A job is taken from the queue.
LEMMA JobTaken ==
  ASSUME NEW U, NEW s, NEW r, NEW n, Typed(U, s, r, n), NEW e \in Entry, n[e].st = "queued",
         NEW m, m[e] = NoEntry, \A d \in Entry : d # e => m[d] = n[d], NEW z \in U
  PROVE  /\ EdgesOf(U, s, r, m) = EdgesOf(U, s, r, n)
         /\ Count(JobEdgesOf(m), z) \in Nat /\ Count(JobEdgesOf(n), z) \in Nat
         /\ (Count(JobEdgesOf(m), z) + One(n[e].held, z)) + One(n[e].cb, z) = Count(JobEdgesOf(n), z)
<1>1. Triples(r) /\ z # None
  BY HeapAssumption DEF Typed, Triples
<1>3. EdgesOf(U, s, r, m) = EdgesOf(U, s, r, n)
  <2>1. /\ \A d \in Entry : m[d].st = "registered" \/ n[d].st = "registered" => m[d] = n[d]
        /\ \A o \in U : \A f \in Fields(o) : s[o][f] = s[o][f]
        /\ Triples(r)
    BY <1>1 DEF NoEntry
  <2> QED
    BY ONLY <2>1, EdgesSame
<1>4. PICK E, D : E = JobEdgesOf(n) /\ D = JobEdgesOf(m)
  OBVIOUS
<1>5. PICK A, B : A = Reference(None, "held", e, n[e].held) /\ B = Reference(None, "cb", e, n[e].cb)
  OBVIOUS
<1>6. \A x : x \in A <=> Tuple(x) /\ x[1] = None /\ x[2] = "held" /\ x[3] = e /\ x[4] = n[e].held /\ x[4] # None
  BY <1>5 DEF Reference, Tuple
<1>7. \A x : x \in B <=> Tuple(x) /\ x[1] = None /\ x[2] = "cb" /\ x[3] = e /\ x[4] = n[e].cb /\ x[4] # None
  BY <1>5 DEF Reference, Tuple
<1>8. ASSUME NEW x PROVE (x \in E <=> IsJobEdge(x, n)) /\ (x \in D <=> IsJobEdge(x, m))
  BY <1>4, JobEdgeIs
<1>9. ASSUME NEW x PROVE x \in D <=> x \in E /\ x \notin A /\ x \notin B
  <2>1. CASE x[3] = e
    <3>1. x \notin D
      BY <1>8, <2>1 DEF IsJobEdge, NoEntry
    <3>2. x \in E => x \in A \/ x \in B
      BY <1>6, <1>7, <1>8, <2>1 DEF IsJobEdge, Part
    <3> QED
      BY <3>1, <3>2
  <2>2. CASE x[3] # e
    BY <1>6, <1>7, <1>8, <2>2 DEF IsJobEdge
  <2> QED
    BY <2>1, <2>2
<1>10. A \subseteq E /\ B \subseteq E /\ A \cap B = {}
  <2>1. \A x : x \in A => x \in E
    BY <1>6, <1>8 DEF IsJobEdge, Part
  <2>2. \A x : x \in B => x \in E
    BY <1>7, <1>8 DEF IsJobEdge, Part
  <2> QED
    BY <1>6, <1>7, <2>1, <2>2
<1>11. PICK C : C = E \ A
  OBVIOUS
<1>12. D = C \ B /\ B \subseteq C /\ IsFiniteSet(E)
  BY <1>4, <1>9, <1>10, <1>11, EdgesFinite
<1>13. /\ IsFiniteSet(C) /\ Count(A, z) \in Nat /\ Count(E, z) \in Nat /\ Count(A, z) <= Count(E, z)
       /\ Count(C, z) = Count(E, z) - Count(A, z)
  BY ONLY <1>10, <1>11, <1>12, CountMinus
<1>14. /\ Count(B, z) \in Nat /\ Count(C, z) \in Nat /\ Count(B, z) <= Count(C, z)
       /\ Count(D, z) = Count(C, z) - Count(B, z)
  <2>1. B \subseteq C /\ IsFiniteSet(C)
    BY <1>12, <1>13
  <2>2. /\ Count(B, z) \in Nat /\ Count(C, z) \in Nat /\ Count(B, z) <= Count(C, z)
        /\ Count(C \ B, z) = Count(C, z) - Count(B, z)
    BY ONLY <2>1, CountMinus
  <2> QED
    BY <1>12, <2>2
<1>15. Count(A, z) = One(n[e].held, z) /\ Count(B, z) = One(n[e].cb, z)
  BY <1>1, <1>5, CountReference
<1> QED
  BY <1>3, <1>4, <1>13, <1>14, <1>15

\* What a function has still to free.
LEMMA PendingTwo ==
  ASSUME NEW a, NEW b, NEW z
  PROVE  Pending(<<a, b>>, z) = One(a, z) + One(b, z)
<1>1. PICK I : I = {i \in 1 .. Len(<<a, b>>) : <<a, b>>[i] = z}
  OBVIOUS
<1>2. \A i : i \in I <=> (i = 1 /\ a = z) \/ (i = 2 /\ b = z)
  BY <1>1
<1>3. CASE a = z /\ b = z
  <2>1. I = {1} \cup {2}
    BY <1>2, <1>3
  <2>2. IsFiniteSet({1}) /\ Cardinality({1}) = 1
    BY FS_Singleton
  <2>3. PICK S : S = {1}
    OBVIOUS
  <2>6. 2 \notin S
    BY <2>3
  <2>4. Cardinality(S \cup {2}) = Cardinality(S) + 1
    BY <2>2, <2>3, <2>6, FS_AddElement
  <2>5. Cardinality(I) = 2
    BY <2>1, <2>2, <2>3, <2>4
  <2> QED
    BY <1>1, <1>3, <2>5 DEF Pending, One
<1>4. CASE a = z /\ b # z
  <2>1. I = {1}
    BY <1>2, <1>4
  <2>2. Cardinality({1}) = 1
    BY FS_Singleton
  <2> QED
    BY <1>1, <1>4, <2>1, <2>2 DEF Pending, One
<1>5. CASE a # z /\ b = z
  <2>1. I = {2}
    BY <1>2, <1>5
  <2>2. Cardinality({2}) = 1
    BY FS_Singleton
  <2> QED
    BY <1>1, <1>5, <2>1, <2>2 DEF Pending, One
<1>6. CASE a # z /\ b # z
  <2>1. I = {}
    BY <1>2, <1>6
  <2> QED
    BY <1>1, <1>6, <2>1, FS_EmptySet DEF Pending, One
<1> QED
  BY <1>3, <1>4, <1>5, <1>6

LEMMA PendingNone == ASSUME NEW z PROVE Pending(<<>>, z) = 0
<1>1. {i \in 1 .. Len(<<>>) : <<>>[i] = z} = {}
  OBVIOUS
<1> QED
  BY <1>1, FS_EmptySet DEF Pending

LEMMA PendingTail ==
  ASSUME NEW V, NEW s \in Seq(V), s # <<>>, NEW z
  PROVE  /\ Pending(s, z) \in Nat /\ Pending(Tail(s), z) \in Nat /\ Tail(s) \in Seq(V) /\ Head(s) \in V
         /\ Pending(s, z) = One(Head(s), z) + Pending(Tail(s), z)
<1>0. PICK t : t = Tail(s)
  OBVIOUS
<1>1. t \in Seq(V) /\ Head(s) = s[1] /\ s[1] \in V /\ Len(s) \in Nat \ {0}
      /\ Len(t) = Len(s) - 1 /\ \A i \in 1 .. Len(t) : t[i] = s[i + 1]
  BY <1>0
<1>2. PICK I : I = {i \in 1 .. Len(s) : s[i] = z}
  OBVIOUS
<1>3. PICK J : J = {i \in 1 .. Len(t) : t[i] = z}
  OBVIOUS
<1>9. Pending(s, z) = Cardinality(I) /\ Pending(t, z) = Cardinality(J)
  BY <1>2, <1>3 DEF Pending
<1>10. IsFiniteSet(I) /\ Pending(s, z) \in Nat
  BY <1>2, PendingType
<1>11. IsFiniteSet(J) /\ Pending(t, z) \in Nat
  <2>1. t \in Seq(V)
    BY ONLY <1>1
  <2>2. Pending(t, z) \in Nat /\ IsFiniteSet({i \in 1 .. Len(t) : t[i] = z})
    BY ONLY <2>1, PendingType
  <2> QED
    BY ONLY <1>3, <2>2
<1>4. IsFiniteSet(I) /\ IsFiniteSet(J) /\ Cardinality(I) \in Nat /\ Cardinality(J) \in Nat
  BY <1>9, <1>10, <1>11
<1>5. PICK K : K = I \ {1}
  OBVIOUS
<1>6. IsFiniteSet(K) /\ Cardinality(K) = IF 1 \in I THEN Cardinality(I) - 1 ELSE Cardinality(I)
  BY <1>4, <1>5, FS_RemoveElement
<1>7. 1 \in I <=> Head(s) = z
  BY <1>1, <1>2
<1>8. Cardinality(J) = Cardinality(K)
  <2> DEFINE h == [i \in J |-> i + 1]
  <2>1. \A i \in J : i + 1 \in K
    BY <1>1, <1>2, <1>3, <1>5
  <2>2. h \in [J -> K]
    BY <2>1
  <2>3. \A i \in K : i - 1 \in J /\ (i - 1) + 1 = i
    BY <1>1, <1>2, <1>3, <1>5
  <2>4. \A i \in K : \E j \in J : h[j] = i
    BY <2>3
  <2>5. J \subseteq Nat
    BY <1>3
  <2>6. \A i, j \in J : h[i] = h[j] => i = j
    BY <2>5
  <2> HIDE DEF h
  <2>7. h \in Bijection(J, K)
    BY <2>2, <2>4, <2>6 DEF Bijection, Injection, Surjection, IsInjective
  <2>8. ExistsBijection(J, K)
    BY <2>7 DEF ExistsBijection
  <2> QED
    BY <1>4, <2>8, FS_Bijection
<1>12. Pending(s, z) = One(Head(s), z) + Pending(t, z)
  BY <1>4, <1>6, <1>7, <1>8, <1>9 DEF One
<1> QED
  BY <1>0, <1>1, <1>10, <1>11, <1>12

-----------------------------------------------------------------------------
(* The calls of scripts and of Go.                                         *)

\* What a call may rely on.
Live(x) == x # None => x \in universe /\ state[x] = "live" /\ rc[x] > 0 /\ x \notin VarRef
LEMMA LiveValues ==
  ASSUME IInv, pc = "run"
  PROVE  /\ \A o \in universe : rc[o] \in Nat /\ rc[o] = Total(o) /\ (rc[o] > 0 => state[o] = "live")
         /\ \A o \in universe : state[o] = "absent" => rc[o] = 0
         /\ \A x \in Value : Held(x) => Live(x)
         /\ \A o \in universe : \A f \in Fields(o) : slot[o][f] \in Value
         /\ \A o \in universe \ Function : \A f \in Fields(o) : Live(slot[o][f])
         /\ \A r \in records : r[2] \in universe /\ r[3] \in Value /\ Live(r[3])
         /\ \A w \in DOMAIN target : target[w] \in Value /\ (target[w] # None => state[target[w]] = "live" /\ target[w] \notin VarRef)
         /\ \A i \in DOMAIN frees : frees[i] \in Value /\ Live(frees[i])
         /\ \A e \in Entry : entry[e].st = "queued" => Live(entry[e].held) /\ Live(entry[e].cb)
         /\ None \notin universe
<1>1. Contents /\ Loops /\ Structure /\ Phases
  BY IInvIs
<1>2. None \notin universe
  BY <1>1, HeapAssumption DEF Loops
<1>3. \A o \in universe : rc[o] \in Nat /\ rc[o] = Total(o) /\ (rc[o] > 0 => state[o] = "live")
  BY <1>1, Referred DEF Phases, Running, Loops
<1>4. \A o \in universe : state[o] = "absent" => rc[o] = 0
  BY <1>3
<1>5. ASSUME NEW x \in Value, Held(x) PROVE Live(x)
  <2>1. x # None => x \in universe /\ handles[x] > 0
    BY <1>5 DEF Held, Value
  <2>2. x # None => rc[x] > 0
    BY <2>1, Referred
  <2>3. x # None => x \notin VarRef
    BY <1>1, <2>1 DEF Structure, Captured
  <2> QED
    BY <1>3, <2>1, <2>2, <2>3 DEF Live
<1>6. \A o \in universe : \A f \in Fields(o) : slot[o][f] \in Value
  BY <1>1 DEF Contents
<1>7. Triples(records)
  BY <1>1 DEF Contents, Triples
<1>8. \A x : x \in Edges <=> IsEdge(x, universe, slot, records, entry)
  BY <1>7, EdgesAre, EdgeIs
<1>9. ASSUME NEW o \in universe, NEW f \in Fields(o), slot[o][f] # None PROVE rc[slot[o][f]] > 0
  <2>1. PICK x : x = <<o, "slot", f, slot[o][f]>>
    OBVIOUS
  <2>2. x[1] = o /\ x[2] = "slot" /\ x[3] = f /\ x[4] = slot[o][f]
    BY <2>1
  <2>3. x \in Edges
    BY <1>8, <1>9, <2>1, <2>2 DEF IsEdge, OfSlot, Tuple
  <2>4. slot[o][f] \in universe
    BY <1>6, <1>9 DEF Value
  <2> QED
    BY <2>2, <2>3, <2>4, Referred
<1>10. \A o \in universe \ Function : \A f \in Fields(o) : Live(slot[o][f])
  BY <1>1, <1>3, <1>6, <1>9 DEF Live, Value, Structure, Captured
<1>11. ASSUME NEW r \in records PROVE r[2] \in universe /\ r[3] \in Value /\ Live(r[3])
  <2>1. r = <<r[1], r[2], r[3]>> /\ r[2] \in universe /\ r[3] \in Value
    BY <1>1 DEF Contents
  <2>2. PICK x : x = <<r[2], "map", r[1], r[3]>>
    OBVIOUS
  <2>3. x[1] = r[2] /\ x[2] = "map" /\ x[3] = r[1] /\ x[4] = r[3]
    BY <2>2
  <2>4. r[3] # None => x \in Edges
    BY <1>8, <2>1, <2>2, <2>3 DEF IsEdge, OfRecord, Tuple
  <2>5. r[3] # None => rc[r[3]] > 0 /\ r[3] \in universe
    BY <2>1, <2>3, <2>4, Referred DEF Value
  <2> QED
    BY <1>1, <1>3, <2>1, <2>5 DEF Live, Structure, Captured
<1>12. ASSUME NEW w \in DOMAIN target
       PROVE  target[w] \in Value /\ (target[w] # None => state[target[w]] = "live" /\ target[w] \notin VarRef)
  BY <1>1 DEF Contents, Structure, Weak, Captured
<1>13. ASSUME NEW i \in DOMAIN frees PROVE frees[i] \in Value /\ Live(frees[i])
  <2>1. frees[i] \in Value /\ frees[i] \notin VarRef
    BY <1>1 DEF Contents, Structure, Captured
  <2>2. frees[i] # None => rc[frees[i]] > 0 /\ frees[i] \in universe
    BY <2>1, Referred DEF Value
  <2> QED
    BY <1>3, <2>1, <2>2 DEF Live
<1>14. ASSUME NEW e \in Entry, entry[e].st = "queued", NEW kind \in {"held", "cb"} PROVE Live(Part(entry[e], kind))
  <2>1. PICK x : x = <<None, kind, e, Part(entry[e], kind)>>
    OBVIOUS
  <2>2. x[1] = None /\ x[2] = kind /\ x[3] = e /\ x[4] = Part(entry[e], kind)
    BY <2>1
  <2>3. x[4] # None => x \in JobEdges
    BY <1>14, <2>1, <2>2, EdgesAre, JobEdgeIs DEF IsJobEdge, Tuple
  <2>4. entry[e] \in EntryType(universe)
    BY <1>1 DEF Contents
  <2>5. x[4] \in Value /\ x[4] \notin VarRef
    BY <1>1, <2>2, <2>4 DEF EntryType, Part, Value, Structure, Captured
  <2>6. x[4] # None => x[4] \in universe /\ rc[x[4]] > 0
    BY <2>3, <2>5, Referred DEF Value
  <2> QED
    BY <1>3, <2>2, <2>5, <2>6 DEF Live
<1>15. \A e \in Entry : entry[e].st = "queued" => Live(entry[e].held) /\ Live(entry[e].cb)
  <2> SUFFICES ASSUME NEW e \in Entry, entry[e].st = "queued" PROVE Live(entry[e].held) /\ Live(entry[e].cb)
    OBVIOUS
  <2>1. Live(Part(entry[e], "held")) /\ Live(Part(entry[e], "cb"))
    BY <1>14
  <2> QED
    BY <2>1 DEF Part
<1> QED
  BY <1>2, <1>3, <1>4, <1>5, <1>6, <1>10, <1>11, <1>12, <1>13, <1>15

\* A call that makes a new reference to x and gives it to its caller.
Taking(x) ==
  /\ x \in Value /\ Room(x) /\ rc' = Dup(x) /\ handles' = Take(x)
  /\ UNCHANGED <<state, mark, list, slot, tables, frees, pc, todo, inFree, universe>>
LEMMA TakingKeeps ==
  ASSUME IInv, pc = "run", NEW x, Taking(x),
         x # None => state[x] = "live" /\ x \notin VarRef
  PROVE  IInv'
<1>1. Contents /\ Loops /\ Structure
  BY IInvIs
<1>2. None \notin universe /\ \A o \in universe : rc[o] \in Nat /\ rc[o] = Total(o) /\ (state[o] = "absent" => rc[o] = 0)
  BY LiveValues
<1>3. handles' \in [universe -> 0 .. MaxHandles] /\ \A o \in universe : handles'[o] = handles[o] + One(x, o)
  BY <1>1, <1>2, HeapAssumption DEF Taking, Take, Room, Contents, One, Value
<1>4. rc' \in [universe -> Nat] /\ \A o \in universe : rc'[o] = rc[o] + One(x, o)
  BY <1>1, <1>2 DEF Taking, Dup, Loops, One, Value
<1>5. Contents'
  BY <1>1, <1>3 DEF Contents, Taking, tables, Fielded, Value
<1>6. \A v \in universe \cap VarRef : One(x, v) = 0
  BY <1>2 DEF One
<1>7. Captured'
  BY <1>1, <1>3, <1>6 DEF Structure, Captured, Taking, tables
<1>8. Structure'
  BY <1>1, <1>7 DEF Structure, Emptied, Weak, Queue, Taking, tables
<1>9. ASSUME NEW o \in universe PROVE rc'[o] = Total(o)' /\ (state'[o] = "absent" => rc'[o] = 0)
  <2>1. PartsOf(o)
    BY <1>1, Parts DEF Loops, Structure
  <2>2. Total(o)' = (handles[o] + One(x, o)) + Count(JobEdges, o) + Pending(frees, o) + Count(Edges, o)
    BY <1>3, EdgesAre DEF Total, Taking, tables
  <2>3. One(x, o) \in Nat /\ Total(o)' = Total(o) + One(x, o)
    BY <2>1, <2>2 DEF PartsOf, One
  <2>4. state'[o] = "absent" => One(x, o) = 0
    BY <1>2 DEF Taking, One
  <2> QED
    BY <1>2, <1>4, <2>3, <2>4 DEF Taking
<1>10. Steady
  BY <1>1, <1>4 DEF Steady, Taking, Loops
<1> QED
  BY <1>5, <1>8, <1>9, <1>10, SteadyKeeps

LEMMA TakersKeep ==
  ASSUME IInv,
         \/ \E o \in universe, f \in Slot : Get(o, f)
         \/ \E o \in universe : DupValue(o)
         \/ \E f \in universe \cap Function : GetVariable(f)
         \/ \E w \in universe \cap WeakRef : Deref(w)
         \/ \E m \in universe \cap WeakMap, k \in universe : MapGet(m, k)
  PROVE  IInv'
<1>1. Contents /\ Loops /\ Structure
  BY IInvIs
<1>2. ASSUME NEW o \in universe, NEW f \in Slot, Get(o, f) PROVE IInv'
  <2>1. o \in Plain /\ o \notin Function /\ f \in Fields(o) /\ pc = "run"
    BY <1>2, HeapAssumption DEF Get, Fields, CanRun
  <2>2. slot[o][f] \in Value /\ Live(slot[o][f])
    BY <2>1, LiveValues
  <2>3. Taking(slot[o][f])
    BY <1>2, <2>2 DEF Get, Taking
  <2> QED
    BY <2>1, <2>2, <2>3, TakingKeeps DEF Live
<1>3. ASSUME NEW o \in universe, DupValue(o) PROVE IInv'
  <2>1. pc = "run" /\ o \in Value /\ Held(o)
    BY <1>3 DEF DupValue, CanRun, Value, Held
  <2>2. Live(o)
    BY <2>1, LiveValues
  <2>3. Taking(o)
    BY <1>3, <2>1 DEF DupValue, Taking
  <2> QED
    BY <2>1, <2>2, <2>3, TakingKeeps DEF Live
<1>4. ASSUME NEW f \in universe \cap Function, GetVariable(f) PROVE IInv'
  <2>1. pc = "run" /\ f \in Value /\ Held(f) /\ f # None
    BY <1>4, HeapAssumption DEF GetVariable, CanRun, Value, Object
  <2>2. state[f] = "live"
    BY <2>1, LiveValues DEF Live
  <2>3. PICK v : v = slot[f]["ref"]
    OBVIOUS
  <2>4. v \in VarRef /\ state[v] = "live"
    BY <1>1, <2>2, <2>3 DEF Structure, Captured
  <2>5. "ref" \in Fields(f) /\ "ref" \in Fields(v) /\ v \notin Function /\ v # None
    BY <2>4, HeapAssumption DEF Fields, Object
  <2>6. v \in universe
    BY <2>3, <2>5, LiveValues, <2>1 DEF Value
  <2>7. slot[v]["ref"] \in Value /\ Live(slot[v]["ref"])
    BY <2>1, <2>5, <2>6, LiveValues
  <2>8. Taking(slot[v]["ref"])
    BY <1>4, <2>3, <2>7 DEF GetVariable, Taking
  <2> QED
    BY <2>1, <2>7, <2>8, TakingKeeps DEF Live
<1>5. ASSUME NEW w \in universe \cap WeakRef, Deref(w) PROVE IInv'
  <2>1. pc = "run" /\ w \in DOMAIN target
    BY <1>1, <1>5 DEF Deref, CanRun, Contents
  <2>2. target[w] \in Value /\ (target[w] # None => state[target[w]] = "live" /\ target[w] \notin VarRef)
    BY <2>1, LiveValues
  <2>3. Taking(target[w])
    BY <1>5, <2>2 DEF Deref, Taking
  <2> QED
    BY <2>1, <2>2, <2>3, TakingKeeps
<1>6. ASSUME NEW m \in universe \cap WeakMap, NEW k \in universe, MapGet(m, k) PROVE IInv'
  <2>1. PICK r \in records :
          /\ CanRun /\ Held(m) /\ Held(k) /\ r[1] = m /\ r[2] = k /\ Room(r[3])
          /\ rc' = Dup(r[3]) /\ handles' = Take(r[3])
          /\ UNCHANGED <<state, mark, list, slot, tables, frees, pc, todo, inFree, universe>>
    BY <1>6 DEF MapGet
  <2>2. pc = "run"
    BY <2>1 DEF CanRun
  <2>3. r[3] \in Value /\ Live(r[3])
    BY <2>2, LiveValues
  <2>4. Taking(r[3])
    BY <2>1, <2>3 DEF Taking
  <2> QED
    BY <2>2, <2>3, <2>4, TakingKeeps DEF Live
<1> QED
  BY <1>2, <1>3, <1>4, <1>5, <1>6

LEMMA WritingSum ==
  ASSUME NEW a \in Nat, NEW b \in Nat, NEW c \in Nat, NEW h \in Nat, NEW i \in Nat, NEW j \in Nat,
         NEW p \in Nat, NEW r \in Nat, NEW u \in Nat, NEW w \in Nat,
         b + u = a + w, c + h = (r + i) + w, r = h + j + p + a
  PROVE  c = (i + j + p + b) + u /\ (r = 0 => h = 0)
<1>1. c = r + i + w - h
  OBVIOUS
<1>2. c = j + p + a + i + w
  BY <1>1
<1> QED
  BY <1>2

\* A field of something that is not a closure is written, and what was in it
\* is freed.
Writing(o, f, x) ==
  /\ o \in universe \ Function /\ f \in Fields(o) /\ state[o] = "live" /\ x \in Value /\ Live(x)
  /\ slot' = [slot EXCEPT ![o][f] = x]
  /\ UNCHANGED <<tables, frees>>
LEMMA WritingKeeps ==
  ASSUME IInv, pc = "run", NEW o, NEW f, NEW x, Writing(o, f, x), NEW count, Freeing(count, slot[o][f]),
         handles' \in [universe -> 0 .. MaxHandles],
         \A z \in universe : handles'[z] <= handles[z] /\ count[z] + handles[z] = (rc[z] + handles'[z]) + One(x, z)
  PROVE  IInv'
<1>1. Contents /\ Loops /\ Structure
  BY IInvIs
<1>2. o \in universe /\ o \notin Function /\ f \in Fields(o) /\ x \in Value /\ universe' = universe /\ state' = state
  BY DEF Writing, Freeing
<1>3. None \notin universe /\ \A z \in universe : rc[z] \in Nat /\ rc[z] = Total(z) /\ (state[z] = "absent" => rc[z] = 0)
  BY LiveValues
<1>4. /\ DOMAIN slot' = universe
      /\ \A p \in universe : \A g \in Fields(p) : slot'[p][g] = IF p = o /\ g = f THEN x ELSE slot[p][g]
      /\ \A p \in universe : slot'[p] \in [Fields(p) -> Value]
  BY <1>1, <1>2 DEF Writing, Contents, Fielded
<1>5. Contents'
  BY <1>1, <1>2, <1>4 DEF Contents, Writing, tables, Fielded, Value
<1>6. \A p \in universe \cap Function : "ref" \in Fields(p) /\ slot'[p]["ref"] = slot[p]["ref"]
  BY <1>2, <1>4, HeapAssumption DEF Fields
<1>7. x \notin VarRef
  <2>1. None \notin VarRef
    BY HeapAssumption DEF Object
  <2> QED
    BY <2>1 DEF Writing, Live
<1>8. Captured'
  <2>1. \A p \in universe \ Function : \A g \in Fields(p) : slot'[p][g] \notin VarRef
    BY <1>1, <1>4, <1>7 DEF Structure, Captured
  <2>2. \A v \in universe \cap VarRef : handles'[v] = 0
    BY <1>1, HeapAssumption DEF Structure, Captured
  <2> QED
    BY <1>1, <1>2, <1>6, <2>1, <2>2 DEF Structure, Captured, Writing, tables
<1>9. Emptied'
  BY <1>1, <1>2, <1>4 DEF Structure, Emptied, Writing
<1>10. Structure'
  BY <1>1, <1>2, <1>8, <1>9 DEF Structure, Weak, Queue, Writing, tables
<1>11. Typed(universe, slot, records, entry)
  BY <1>1, TypedState DEF Loops, Structure
<1>12. ASSUME NEW z \in universe
       PROVE  count[z] = Total(z)' + One(slot[o][f], z) /\ (state[z] = "absent" => count[z] = 0)
  <2>1. PartsOf(z) /\ PartsOf(z)'
    BY <1>1, <1>2, <1>5, <1>10, Parts, PartsNext DEF Loops, Structure
  <2>2. PICK a, b : a = Count(EdgesOf(universe, slot, records, entry), z) /\ b = Count(EdgesOf(universe, slot', records, entry), z)
    OBVIOUS
  <2>3. a \in Nat /\ b \in Nat /\ b + One(slot[o][f], z) = a + One(x, z)
    BY <1>2, <1>4, <1>11, <2>2, SlotWritten
  <2>4. Total(z)' = handles'[z] + Count(JobEdges, z) + Pending(frees, z) + b
    BY <1>2, <2>2, EdgesAre DEF Total, Writing, tables
  <2>5. rc[z] = handles[z] + Count(JobEdges, z) + Pending(frees, z) + a
    BY <1>3, <2>2, EdgesAre DEF Total
  <2>6. handles'[z] \in Nat /\ One(x, z) \in Nat /\ One(slot[o][f], z) \in Nat
    BY HeapAssumption DEF One
  <2>7. count[z] \in Nat /\ handles'[z] <= handles[z] /\ count[z] + handles[z] = (rc[z] + handles'[z]) + One(x, z)
    BY DEF Freeing
  <2>10. Count(JobEdges, z) \in Nat /\ Pending(frees, z) \in Nat /\ handles[z] \in Nat
    BY <2>1 DEF PartsOf
  <2>11. PICK h \in Nat, i \in Nat, j \in Nat, p \in Nat, u \in Nat, w \in Nat, c \in Nat, r \in Nat :
            /\ h = handles[z] /\ i = handles'[z] /\ j = Count(JobEdges, z) /\ p = Pending(frees, z)
            /\ u = One(slot[o][f], z) /\ w = One(x, z) /\ c = count[z] /\ r = rc[z]
    BY <1>3, <2>6, <2>7, <2>10
  <2>12. /\ b + u = a + w /\ i <= h /\ c + h = (r + i) + w
         /\ r = h + j + p + a /\ Total(z)' = i + j + p + b
    BY <2>3, <2>4, <2>5, <2>7, <2>11
  <2>14. /\ a \in Nat /\ b \in Nat /\ c \in Nat /\ h \in Nat /\ i \in Nat /\ j \in Nat /\ p \in Nat
         /\ r \in Nat /\ u \in Nat /\ w \in Nat /\ b + u = a + w /\ c + h = (r + i) + w /\ r = h + j + p + a
    BY <2>3, <2>12
  <2>13. c = (i + j + p + b) + u /\ (r = 0 => h = 0)
    BY ONLY <2>14, WritingSum
  <2>8. count[z] = Total(z)' + One(slot[o][f], z)
    BY <2>11, <2>12, <2>13
  <2>9. state[z] = "absent" => count[z] = 0
    <3>1. state[z] = "absent" => rc[z] = 0
      BY <1>3
    <3>2. state[z] = "absent" => One(x, z) = 0
      BY <1>3 DEF Writing, Live, One
    <3>3. rc[z] = 0 => handles[z] = 0
      BY <2>11, <2>13
    <3> QED
      BY <2>6, <2>7, <3>1, <3>2, <3>3
  <2> QED
    BY <2>8, <2>9
<1> QED
  BY <1>5, <1>10, <1>12, FreeingKeeps

\* A reference of the host or of a script is freed.
GivingBack(x) ==
  /\ x \in Value /\ Held(x) /\ Release(rc, x)
  /\ handles' = IF x = None THEN handles ELSE [handles EXCEPT ![x] = @ - 1]
  /\ UNCHANGED <<state, mark, slot, tables, frees, todo, inFree, universe>>
LEMMA GivenBack ==
  ASSUME Contents, None \notin universe, NEW x \in Value, Held(x),
         handles' = IF x = None THEN handles ELSE [handles EXCEPT ![x] = @ - 1]
  PROVE  /\ handles' \in [universe -> 0 .. MaxHandles]
         /\ \A z \in universe : handles[z] \in Nat /\ handles'[z] \in Nat /\ One(x, z) \in Nat
                                /\ handles[z] = handles'[z] + One(x, z)
<1>1. handles \in [universe -> 0 .. MaxHandles] /\ MaxHandles \in Nat
  BY HeapAssumption DEF Contents
<1>2. CASE x = None
  BY <1>1, <1>2 DEF One
<1>3. CASE x # None
  <2>1. x \in universe /\ handles[x] > 0
    BY <1>3 DEF Held, Value
  <2> QED
    BY <1>1, <1>3, <2>1 DEF One
<1> QED
  BY <1>2, <1>3

LEMMA GivingBackKeeps ==
  ASSUME IInv, pc = "run", NEW x, GivingBack(x)
  PROVE  IInv'
<1>1. Contents /\ Loops /\ Structure
  BY IInvIs
<1>2. None \notin universe /\ Live(x) /\ \A z \in universe : rc[z] \in Nat /\ rc[z] = Total(z) /\ (state[z] = "absent" => rc[z] = 0)
  BY LiveValues DEF GivingBack
<1>3. /\ handles' \in [universe -> 0 .. MaxHandles]
      /\ \A z \in universe : handles[z] \in Nat /\ handles'[z] \in Nat /\ One(x, z) \in Nat /\ handles[z] = handles'[z] + One(x, z)
  BY <1>1, <1>2, GivenBack DEF GivingBack
<1>4. Contents'
  BY <1>1, <1>3 DEF Contents, GivingBack, tables, Fielded, Value
<1>5. \A v \in universe \cap VarRef : handles'[v] = 0
  <2> SUFFICES ASSUME NEW v \in universe \cap VarRef PROVE handles'[v] = 0
    OBVIOUS
  <2>1. handles[v] = 0
    BY <1>1 DEF Structure, Captured
  <2> QED
    BY <1>3, <2>1 DEF One
<1>6. Captured'
  BY <1>1, <1>5 DEF Structure, Captured, GivingBack, tables
<1>7. Structure'
  BY <1>1, <1>6 DEF Structure, Emptied, Weak, Queue, GivingBack, tables
<1>8. Freeing(rc, x)
  BY <1>1, <1>2 DEF Freeing, GivingBack, Live, Loops
<1>9. ASSUME NEW z \in universe PROVE rc[z] = Total(z)' + One(x, z)
  <2>1. PartsOf(z)
    BY <1>1, Parts DEF Loops, Structure
  <2>2. Total(z)' = handles'[z] + Count(JobEdges, z) + Pending(frees, z) + Count(Edges, z)
    BY EdgesAre DEF Total, GivingBack, tables
  <2> QED
    BY <1>2, <1>3, <2>1, <2>2 DEF PartsOf
<1> QED
  BY <1>2, <1>4, <1>7, <1>8, <1>9, FreeingKeeps

\* What a C function had still to free is freed.
LEMMA FreeArgumentKeeps == ASSUME IInv, FreeArgument PROVE IInv'
<1>1. Contents /\ Loops /\ Structure /\ pc = "run"
  BY IInvIs DEF FreeArgument
<1>2. /\ None \notin universe /\ \A z \in universe : rc[z] \in Nat /\ rc[z] = Total(z) /\ (state[z] = "absent" => rc[z] = 0)
      /\ \A i \in DOMAIN frees : frees[i] \in Value /\ Live(frees[i])
  BY <1>1, LiveValues
<1>3. PICK x : x = Head(frees)
  OBVIOUS
<1>4. frees \in Seq(Value) /\ frees # <<>>
  BY <1>1 DEF Contents, FreeArgument
<1>5. x = frees[1] /\ 1 \in DOMAIN frees /\ Tail(frees) \in Seq(Value)
      /\ \A i \in DOMAIN Tail(frees) : i + 1 \in DOMAIN frees /\ Tail(frees)[i] = frees[i + 1]
  BY <1>3, <1>4
<1>6. x \in Value /\ Live(x)
  BY <1>2, <1>5
<1>7. Contents'
  BY <1>1, <1>5 DEF Contents, FreeArgument, tables, Fielded, Value
<1>8. \A i \in DOMAIN frees' : frees'[i] \notin VarRef
  BY <1>1, <1>5 DEF Structure, Captured, FreeArgument
<1>9. Captured'
  BY <1>1, <1>8 DEF Structure, Captured, FreeArgument, tables
<1>10. Structure'
  BY <1>1, <1>9 DEF Structure, Emptied, Weak, Queue, FreeArgument, tables
<1>11. Freeing(rc, x)
  BY <1>1, <1>3, <1>6 DEF Freeing, FreeArgument, Live, Loops
<1>12. ASSUME NEW z \in universe PROVE rc[z] = Total(z)' + One(x, z)
  <2>1. PartsOf(z)
    BY <1>1, Parts DEF Loops, Structure
  <2>2. Total(z)' = handles[z] + Count(JobEdges, z) + Pending(Tail(frees), z) + Count(Edges, z)
    BY EdgesAre DEF Total, FreeArgument, tables
  <2>3. Pending(Tail(frees), z) \in Nat /\ Pending(frees, z) = One(x, z) + Pending(Tail(frees), z)
    BY <1>3, <1>4, PendingTail
  <2>4. One(x, z) \in Nat
    BY DEF One
  <2> QED
    BY <1>2, <2>1, <2>2, <2>3, <2>4 DEF PartsOf
<1> QED
  BY <1>1, <1>2, <1>7, <1>10, <1>11, <1>12, FreeingKeeps

\* The calls that write a field or free a reference.
LEMMA SettersKeep ==
  ASSUME IInv,
         \/ \E o \in universe, f \in Slot, x \in Value, ok \in BOOLEAN : Set(o, f, x, ok)
         \/ \E f \in universe \cap Function, x \in Value : SetVariable(f, x)
         \/ \E o \in universe : FreeValue(o)
  PROVE  IInv'
<1>1. Contents /\ Loops /\ Structure
  BY IInvIs
<1>0. None \notin universe
  BY <1>1, HeapAssumption DEF Loops
<1>2. ASSUME NEW o \in universe, NEW f \in Slot, NEW x \in Value, NEW ok \in BOOLEAN, Set(o, f, x, ok) PROVE IInv'
  <2>1. o \in Plain /\ o \notin Function /\ f \in Fields(o) /\ pc = "run" /\ o \in Value /\ Held(o) /\ Held(x)
    BY <1>2, HeapAssumption DEF Set, Fields, CanRun, Value
  <2>2. Live(x) /\ state[o] = "live"
    BY <1>0, <2>1, LiveValues DEF Live
  <2>3. CASE ok
    <3>1. Writing(o, f, x)
      BY <1>2, <2>1, <2>2, <2>3 DEF Set, Writing
    <3>2. slot[o][f] \in Value /\ Live(slot[o][f])
      BY <2>1, LiveValues
    <3>3. Freeing(rc, slot[o][f])
      BY <1>1, <1>2, <2>3, <3>2 DEF Freeing, Set, Live, Loops
    <3>4. /\ handles' \in [universe -> 0 .. MaxHandles]
          /\ \A z \in universe : handles[z] \in Nat /\ handles'[z] \in Nat /\ One(x, z) \in Nat /\ handles[z] = handles'[z] + One(x, z)
      BY <1>0, <1>1, <1>2, <2>1, GivenBack DEF Set
    <3>5. \A z \in universe : rc[z] \in Nat
      BY <1>1 DEF Loops
    <3>6. \A z \in universe : handles'[z] <= handles[z] /\ rc[z] + handles[z] = (rc[z] + handles'[z]) + One(x, z)
      BY <3>4, <3>5
    <3> QED
      BY <2>1, <3>1, <3>3, <3>4, <3>6, WritingKeeps
  <2>4. CASE ~ok
    <3>1. GivingBack(x)
      BY <1>2, <2>4 DEF Set, GivingBack
    <3> QED
      BY <2>1, <3>1, GivingBackKeeps
  <2> QED
    BY <2>3, <2>4
<1>3. ASSUME NEW f \in universe \cap Function, NEW x \in Value, SetVariable(f, x) PROVE IInv'
  <2>1. pc = "run" /\ f \in Value /\ Held(f) /\ Held(x) /\ f # None
    BY <1>0, <1>3 DEF SetVariable, CanRun, Value
  <2>2. state[f] = "live" /\ Live(x)
    BY <2>1, LiveValues DEF Live
  <2>3. PICK v : v = slot[f]["ref"]
    OBVIOUS
  <2>4. v \in VarRef /\ state[v] = "live"
    BY <1>1, <2>2, <2>3 DEF Structure, Captured
  <2>5. "ref" \in Fields(f) /\ "ref" \in Fields(v) /\ v \notin Function /\ v # None
    BY <2>4, HeapAssumption DEF Fields, Object
  <2>6. v \in universe
    BY <2>3, <2>5, LiveValues, <2>1 DEF Value
  <2>7. slot[v]["ref"] \in Value /\ Live(slot[v]["ref"])
    BY <2>1, <2>5, <2>6, LiveValues
  <2>8. PICK count : count = Dup(x)
    OBVIOUS
  <2>9. count \in [universe -> Nat] /\ \A z \in universe : count[z] = rc[z] + One(x, z) /\ rc[z] \in Nat /\ One(x, z) \in Nat
    BY <1>0, <1>1, <2>8 DEF Dup, Loops, One, Value
  <2>10. Writing(v, "ref", x)
    BY <1>3, <2>2, <2>3, <2>4, <2>5, <2>6 DEF SetVariable, Writing
  <2>11. slot[v]["ref"] # None => count[slot[v]["ref"]] > 0
    BY SMTT(60), <2>7, <2>9 DEF Live
  <2>12. Freeing(count, slot[v]["ref"])
    BY <1>3, <2>3, <2>7, <2>8, <2>9, <2>11 DEF SetVariable, Freeing
  <2>13. handles' = handles /\ handles \in [universe -> 0 .. MaxHandles] /\ MaxHandles \in Nat
    BY <1>1, <1>3, HeapAssumption DEF SetVariable, Contents
  <2>14. /\ handles' \in [universe -> 0 .. MaxHandles]
         /\ \A z \in universe : handles'[z] <= handles[z] /\ count[z] + handles[z] = (rc[z] + handles'[z]) + One(x, z)
    BY <2>9, <2>13
  <2> QED
    BY <2>1, <2>10, <2>12, <2>14, WritingKeeps
<1>4. ASSUME NEW o \in universe, FreeValue(o) PROVE IInv'
  <2>1. GivingBack(o) /\ pc = "run"
    BY <1>0, <1>4 DEF FreeValue, GivingBack, CanRun, Value, Held
  <2> QED
    BY <2>1, GivingBackKeeps
<1> QED
  BY <1>2, <1>3, <1>4

\* The value that a weak map has for a key is one, and is freed with its
\* record.
LEMMA FoundRemoved ==
  ASSUME IInv, pc = "run", NEW m, NEW k, NEW q, q = records \ MapFind(m, k)
  PROVE  /\ Typed(universe, slot, q, entry)
         /\ OldValue(MapFind(m, k)) \in Value /\ Live(OldValue(MapFind(m, k)))
         /\ \A z \in universe :
              /\ Count(EdgesOf(universe, slot, q, entry), z) \in Nat
              /\ Count(EdgesOf(universe, slot, q, entry), z) + One(OldValue(MapFind(m, k)), z) = Count(Edges, z)
<1>1. Contents /\ Loops /\ Structure
  BY IInvIs
<1>2. /\ None \notin universe
      /\ \A r \in records : r[2] \in universe /\ r[3] \in Value /\ Live(r[3])
  BY LiveValues
<1>3. Typed(universe, slot, records, entry)
  BY <1>1, TypedState DEF Loops, Structure
<1>4. Typed(universe, slot, q, entry)
  BY <1>3 DEF Typed
<1>5. PICK found : found = MapFind(m, k)
  OBVIOUS
<1>6. CASE found = {}
  <2>1. q = records /\ OldValue(found) = None
    BY <1>5, <1>6 DEF OldValue
  <2>2. \A z \in universe : Count(Edges, z) \in Nat /\ One(None, z) = 0
    BY <1>1, <1>2, TotalParts DEF Loops, Structure, One
  <2> QED
    BY <1>4, <1>5, <2>1, <2>2, EdgesAre DEF Value, Live
<1>7. CASE found # {}
  <2>1. PICK y : y \in found /\ y = CHOOSE r \in found : TRUE
    BY <1>7
  <2>2. y \in records /\ y[1] = m /\ y[2] = k /\ OldValue(found) = y[3]
    BY <1>5, <1>7, <2>1 DEF MapFind, OldValue
  <2>3. \A r \in found : r = y
    BY <1>1, <1>5, <2>2 DEF MapFind, Structure, Weak
  <2>8. found = {y}
    BY <2>1, <2>3
  <2>9. y = <<y[1], y[2], y[3]>>
    BY <1>1, <2>2 DEF Contents
  <2>4. q = records \ {y} /\ y = <<m, k, y[3]>>
    BY <1>5, <2>2, <2>8, <2>9
  <2>5. PICK v : v = y[3]
    OBVIOUS
  <2>6. y = <<m, k, v>>
    BY <2>4, <2>5
  <2>7. ASSUME NEW z \in universe
        PROVE  /\ Count(EdgesOf(universe, slot, q, entry), z) \in Nat
               /\ Count(EdgesOf(universe, slot, q, entry), z) + One(v, z) = Count(EdgesOf(universe, slot, records, entry), z)
    BY ONLY <1>3, <2>2, <2>4, <2>6, <2>7, RecordRemoved
  <2> QED
    BY <1>2, <1>4, <1>5, <2>2, <2>5, <2>7, EdgesAre
<1> QED
  BY <1>6, <1>7

\* A step that changes the records of one key only.
Recording(q, m, k, x) == q = (records \ MapFind(m, k)) \cup {<<m, k, x>>}
LEMMA RecordsKept ==
  ASSUME IInv, pc = "run", NEW m, NEW k,
         \/ records' = records \ MapFind(m, k)
         \/ /\ m \in universe \cap WeakMap /\ state[m] = "live" /\ k \in universe /\ state[k] = "live" /\ k \notin VarRef
            /\ \E x \in Value : x \notin VarRef /\ Recording(records', m, k, x),
         UNCHANGED <<state, slot, target, entry, jobs, handles, frees, universe>>
  PROVE  Contents' /\ Structure'
<1>1. Contents /\ Loops /\ Structure
  BY IInvIs
<1>2. \A r \in records' : r \in records \/ (/\ m \in universe \cap WeakMap /\ state[m] = "live" /\ k \in universe
                                            /\ state[k] = "live" /\ k \notin VarRef
                                            /\ \E x \in Value : x \notin VarRef /\ r = <<m, k, x>>)
  BY DEF Recording
<1>3. \A r, s \in records' : r[1] = s[1] /\ r[2] = s[2] => r = s
  <2>1. \A r, s \in records : r[1] = s[1] /\ r[2] = s[2] => r = s
    BY <1>1 DEF Structure, Weak
  <2>2. CASE records' = records \ MapFind(m, k)
    BY <2>1, <2>2
  <2>3. CASE \E x \in Value : Recording(records', m, k, x)
    <3>1. PICK x \in Value : records' = (records \ MapFind(m, k)) \cup {<<m, k, x>>}
      BY <2>3 DEF Recording
    <3>2. \A r \in records' : r[1] = m /\ r[2] = k => r = <<m, k, x>>
      BY <3>1 DEF MapFind
    <3>3. PICK y : y = <<m, k, x>>
      OBVIOUS
    <3>4. y[1] = m /\ y[2] = k
      BY <3>3
    <3>5. \A r \in records' : r = y \/ r \in records
      BY <3>1, <3>3
    <3>6. \A r \in records' : r[1] = m /\ r[2] = k => r = y
      BY <3>2, <3>3
    <3> QED
      BY <2>1, <3>4, <3>5, <3>6
  <2> QED
    BY <2>2, <2>3
<1>4. ASSUME NEW r \in records'
      PROVE  /\ r \in WeakMap \X universe \X Value /\ r[1] \in universe /\ state[r[1]] = "live" /\ state[r[2]] = "live"
             /\ r[2] \notin VarRef /\ r[3] \notin VarRef
  <2>1. CASE r \in records
    BY <1>1, <2>1 DEF Contents, Structure, Weak, Captured
  <2>2. CASE r \notin records
    BY <1>2, <2>2
  <2> QED
    BY <2>1, <2>2
<1>5. Contents'
  <2>1. records' \subseteq WeakMap \X universe \X Value
    BY <1>4
  <2> QED
    BY <1>1, <2>1 DEF Contents, Fielded, Value
<1>6. Captured'
  BY <1>1, <1>4 DEF Structure, Captured
<1>7. Weak'
  BY <1>1, <1>3, <1>4 DEF Structure, Weak
<1>8. Structure'
  BY <1>1, <1>6, <1>7 DEF Structure, Emptied, Queue
<1> QED
  BY <1>5, <1>8

LEMMA MapsKeep ==
  ASSUME IInv,
         \E m \in universe \cap WeakMap, k \in universe :
           MapDelete(m, k) \/ \E x \in Value : MapSet(m, k, x)
  PROVE  IInv'
<1>1. Contents /\ Loops /\ Structure
  BY IInvIs
<1>0. None \notin universe
  BY <1>1, HeapAssumption DEF Loops
<1>2. ASSUME NEW m \in universe \cap WeakMap, NEW k \in universe, MapDelete(m, k) PROVE IInv'
  <2>1. pc = "run" /\ records' = records \ MapFind(m, k)
    BY <1>2 DEF MapDelete, CanRun
  <2>2. PICK v : v = OldValue(MapFind(m, k))
    OBVIOUS
  <2>3. PICK q : q = records'
    OBVIOUS
  <2>4. /\ v \in Value /\ Live(v)
        /\ \A z \in universe : /\ Count(EdgesOf(universe, slot, q, entry), z) \in Nat
                               /\ Count(EdgesOf(universe, slot, q, entry), z) + One(v, z) = Count(Edges, z)
    BY ZenonT(60), <2>1, <2>2, <2>3, FoundRemoved
  <2>5. Contents' /\ Structure'
    BY <1>2, <2>1, RecordsKept DEF MapDelete
  <2>6. Freeing(rc, v)
    BY <1>1, <1>2, <2>2, <2>4 DEF Freeing, MapDelete, Live, Loops
  <2>7. ASSUME NEW z \in universe PROVE rc[z] = Total(z)' + One(v, z) /\ (state[z] = "absent" => rc[z] = 0)
    <3>1. PartsOf(z) /\ rc[z] = Total(z) /\ (state[z] = "absent" => rc[z] = 0)
      BY <1>1, <2>1, Parts, LiveValues DEF Loops, Structure
    <3>2. Total(z)' = handles[z] + Count(JobEdges, z) + Pending(frees, z) + Count(EdgesOf(universe, slot, q, entry), z)
      BY <1>2, <2>3, EdgesAre DEF Total, MapDelete
    <3>3. One(v, z) \in Nat
      BY DEF One
    <3> QED
      BY <2>4, <3>1, <3>2, <3>3 DEF PartsOf
  <2> QED
    BY <2>1, <2>5, <2>6, <2>7, FreeingKeeps
<1>3. ASSUME NEW m \in universe \cap WeakMap, NEW k \in universe, NEW x \in Value, MapSet(m, k, x) PROVE IInv'
  <2>1. pc = "run" /\ m \in Value /\ k \in Value /\ Held(m) /\ Held(k) /\ Held(x)
        /\ records' = (records \ MapFind(m, k)) \cup {<<m, k, x>>}
    BY <1>3 DEF MapSet, CanRun, Value
  <2>2. PICK v : v = OldValue(MapFind(m, k))
    OBVIOUS
  <2>3. PICK q, t : q = records' /\ t = records \ MapFind(m, k)
    OBVIOUS
  <2>4. /\ v \in Value /\ Live(v) /\ Typed(universe, slot, t, entry)
        /\ \A z \in universe : /\ Count(EdgesOf(universe, slot, t, entry), z) \in Nat
                               /\ Count(EdgesOf(universe, slot, t, entry), z) + One(v, z) = Count(Edges, z)
    BY ZenonT(60), <2>1, <2>2, <2>3, FoundRemoved
  <2>5. Live(m) /\ Live(k) /\ Live(x)
    BY <2>1, LiveValues
  <2>6. /\ state[m] = "live" /\ state[k] = "live" /\ k \notin VarRef /\ x \notin VarRef
    <3>1. None \notin VarRef
      BY HeapAssumption DEF Object
    <3> QED
      BY <1>0, <2>5, <3>1 DEF Live
  <2>7. Contents' /\ Structure'
    BY <1>3, <2>1, <2>6, RecordsKept DEF MapSet, Recording
  <2>8. PICK count : count = Dup(x)
    OBVIOUS
  <2>9. count \in [universe -> Nat] /\ \A z \in universe : count[z] = rc[z] + One(x, z) /\ rc[z] \in Nat /\ One(x, z) \in Nat
    BY <1>0, <1>1, <2>8 DEF Dup, Loops, One, Value
  <2>10. v # None => count[v] > 0
    BY <2>4, <2>9 DEF Live
  <2>11. Freeing(count, v)
    BY <1>3, <2>2, <2>4, <2>8, <2>9, <2>10 DEF Freeing, MapSet
  <2>12. Typed(universe, slot, q, entry)
    <3>1. universe' \in Universes' /\ Weak'
      BY <1>1, <1>3, <2>7 DEF Loops, MapSet, Structure
    <3>2. (Contents /\ universe \in Universes /\ Weak => Typed(universe, slot, records, entry))'
      BY TypedState, PTL
    <3> QED
      BY <1>3, <2>3, <2>7, <3>1, <3>2 DEF MapSet
  <2>13. \A y \in t : ~(y[1] = m /\ y[2] = k)
    BY <2>3 DEF MapFind
  <2>14. q = t \cup {<<m, k, x>>}
    BY <2>1, <2>3
  <2>15. ASSUME NEW z \in universe PROVE count[z] = Total(z)' + One(v, z) /\ (state[z] = "absent" => count[z] = 0)
    <3>1. PartsOf(z) /\ rc[z] = Total(z) /\ (state[z] = "absent" => rc[z] = 0)
      BY <1>1, <2>1, Parts, LiveValues DEF Loops, Structure
    <3>2. Total(z)' = handles[z] + Count(JobEdges, z) + Pending(frees, z) + Count(EdgesOf(universe, slot, q, entry), z)
      BY <1>3, <2>3, EdgesAre DEF Total, MapSet
    <3>3. One(v, z) \in Nat
      BY DEF One
    <3>7. /\ Typed(universe, slot, t, entry) /\ Typed(universe, slot, q, entry) /\ z \in universe
          /\ q = t \cup {<<m, k, x>>} /\ \A y \in t : ~(y[1] = m /\ y[2] = k)
      BY <2>4, <2>12, <2>13, <2>14
    <3>4. /\ Count(EdgesOf(universe, slot, q, entry), z) \in Nat
          /\ Count(EdgesOf(universe, slot, q, entry), z) = Count(EdgesOf(universe, slot, t, entry), z) + One(x, z)
      BY ONLY <3>7, RecordAdded
    <3>5. count[z] = Total(z)' + One(v, z)
      BY <2>4, <2>9, <3>1, <3>2, <3>3, <3>4 DEF PartsOf
    <3>6. state[z] = "absent" => count[z] = 0
      BY <2>5, <2>9, <3>1, <1>0 DEF Live, One
    <3> QED
      BY <3>5, <3>6
  <2> QED
    BY <2>1, <2>7, <2>11, <2>15, FreeingKeeps
<1> QED
  BY <1>2, <1>3

-----------------------------------------------------------------------------
(* New objects.                                                            *)

\* A new object o with the contents c.
Making(o, c) ==
  /\ o \in universe \ VarRef /\ c \in Value /\ (c # None => state[c] = "live")
  /\ c \in VarRef <=> o \in Function
  /\ Fields(o) = {"ref"} \/ c = None
  /\ Allocate(o, c, Dup(c))
  /\ target' \in [DOMAIN target -> Value]
  /\ \A w \in DOMAIN target : target'[w] = target[w]
                               \/ (target'[w] \in universe \ VarRef /\ state[target'[w]] = "live")
LEMMA MakingKeeps ==
  ASSUME IInv, pc = "run", ~inFree, NEW o, NEW c, Making(o, c)
  PROVE  IInv'
<1>1. Contents /\ Loops /\ Structure
  BY IInvIs
<1>2. None \notin universe /\ \A z \in universe : rc[z] \in Nat /\ rc[z] = Total(z) /\ (state[z] = "absent" => rc[z] = 0)
  BY LiveValues
<1>3. /\ o \in universe /\ c \in Value /\ state[o] = "absent" /\ o # c
      /\ state' = [state EXCEPT ![o] = "live"] /\ rc' = [Dup(c) EXCEPT ![o] = 1]
      /\ list' = [list EXCEPT ![o] = "gc"] /\ handles' = [handles EXCEPT ![o] = 1]
      /\ slot' = [slot EXCEPT ![o] = [f \in Fields(o) |-> c]]
      /\ UNCHANGED <<mark, records, entry, jobs, frees, pc, todo, inFree, universe>>
  BY <1>2 DEF Making, Allocate, Value
<1>4. rc[o] = 0 /\ handles[o] = 0 /\ \A f \in Fields(o) : slot[o][f] = None
  <2>1. PartsOf(o) /\ External(o) = 0
    BY <1>1, <1>3, Parts DEF IInv, Unreferred, Loops, Structure
  <2>2. handles[o] = 0
    BY <2>1 DEF PartsOf
  <2> QED
    BY <1>1, <1>2, <1>3, <2>2 DEF Structure, Emptied
<1>5. rc' \in [universe -> Nat] /\ \A z \in universe : rc'[z] = rc[z] + One(c, z) + One(o, z)
  <2>1. Dup(c) \in [universe -> Nat] /\ \A z \in universe : Dup(c)[z] = rc[z] + One(c, z)
    BY <1>1, <1>2, <1>3 DEF Dup, Loops, One, Value
  <2>2. \A z \in universe : rc[z] \in Nat /\ One(c, z) \in Nat /\ Dup(c)[z] \in Nat
    BY <1>2, <2>1 DEF One
  <2>3. One(c, o) = 0 /\ Dup(c)[o] = 0
    BY <1>3, <1>4, <2>1 DEF One
  <2>4. \A z \in universe : rc'[z] = IF z = o THEN 1 ELSE Dup(c)[z]
    BY <1>3, <2>1
  <2> QED
    BY <1>3, <1>4, <2>1, <2>2, <2>3, <2>4 DEF One
<1>6. handles' \in [universe -> 0 .. MaxHandles] /\ \A z \in universe : handles'[z] = handles[z] + One(o, z)
  BY <1>1, <1>3, <1>4, HeapAssumption DEF Contents, One
<1>7. /\ DOMAIN slot' = universe /\ \A z \in universe : slot'[z] \in [Fields(z) -> Value]
      /\ \A z \in universe : \A f \in Fields(z) : slot'[z][f] = IF z = o THEN c ELSE slot[z][f]
  BY <1>1, <1>3 DEF Contents, Fielded
<1>8. \A z \in universe : state'[z] = IF z = o THEN "live" ELSE state[z]
  BY <1>1, <1>3 DEF Loops
<1>9. Contents'
  <2>1. target' \in [universe \cap WeakRef -> Value]
    BY <1>1 DEF Making, Contents
  <2> QED
    BY <1>1, <1>3, <1>6, <1>7, <2>1 DEF Contents, Fielded, Value
<1>10. Captured'
  <2>1. ASSUME NEW f \in universe \cap Function, state'[f] = "live"
        PROVE  slot'[f]["ref"] \in VarRef /\ state'[slot'[f]["ref"]] = "live"
    <3>1. "ref" \in Fields(f)
      BY <2>1, HeapAssumption DEF Fields
    <3>2. CASE f = o
      BY <1>3, <1>7, <1>8, <2>1, <3>1, <3>2, HeapAssumption DEF Making, Object, Value
    <3>3. CASE f # o
      <4>1. slot'[f]["ref"] = slot[f]["ref"] /\ slot[f]["ref"] \in Value
        BY <1>1, <1>7, <2>1, <3>1, <3>3 DEF Contents
      <4>2. slot[f]["ref"] \in VarRef /\ state[slot[f]["ref"]] = "live"
        BY <1>1, <1>8, <2>1, <3>3 DEF Structure, Captured
      <4> QED
        BY <1>8, <4>1, <4>2, HeapAssumption DEF Object, Value
    <3> QED
      BY <3>2, <3>3
  <2>2. ASSUME NEW v \in universe \cap VarRef, state'[v] = "live"
        PROVE  \E f \in universe \cap Function : slot'[f]["ref"] = v
    <3>1. v # o /\ state[v] = "live"
      BY <1>8, <2>2 DEF Making
    <3>2. PICK f \in universe \cap Function : slot[f]["ref"] = v
      BY <1>1, <3>1, <2>2 DEF Structure, Captured
    <3>3. "ref" \in Fields(f)
      BY <3>2, HeapAssumption DEF Fields
    <3>4. f # o
      BY <1>2, <1>4, <3>2, <3>3, <2>2
    <3> QED
      BY <1>7, <3>2, <3>3, <3>4
  <2>3. ASSUME NEW z \in universe \ Function, NEW f \in Fields(z) PROVE slot'[z][f] \notin VarRef
    BY <1>1, <1>7, <2>3 DEF Making, Structure, Captured
  <2>4. \A v \in universe \cap VarRef : handles'[v] = 0
    BY <1>1, <1>3 DEF Making, Structure, Captured, Contents
  <2>5. \A w \in DOMAIN target : target'[w] \notin VarRef
    BY <1>1 DEF Making, Structure, Captured
  <2> QED
    BY <1>1, <1>3, <2>1, <2>2, <2>3, <2>4, <2>5 DEF Structure, Captured, Making
<1>11. Emptied'
  BY <1>1, <1>3, <1>7, <1>8 DEF Structure, Emptied
<1>12. Weak'
  <2>0. \A z \in universe : state[z] = "live" => state'[z] = "live"
    BY <1>8
  <2>1. \A r \in records : r[2] \in universe
    BY <1>1 DEF Contents
  <2>2. \A w \in DOMAIN target : target'[w] # None => state'[target'[w]] = "live"
    BY <1>1, <2>0 DEF Contents, Value, Structure, Weak, Making
  <2> QED
    BY <1>1, <1>3, <2>0, <2>1, <2>2 DEF Structure, Weak, Making
<1>13. Structure'
  BY <1>1, <1>3, <1>10, <1>11, <1>12 DEF Structure, Queue
<1>14. Typed(universe, slot, records, entry) /\ Triples(records)
  BY <1>1, TypedState DEF Loops, Structure, Typed, Triples
<1>15. ASSUME NEW z \in universe PROVE Count(EdgesOf(universe, slot', records, entry), z) = Count(Edges, z) + One(c, z)
  <2>1. Count(Edges, z) \in Nat
    BY <1>1, TotalParts DEF Loops, Structure
  <2>2. CASE c = None
    <3>1. /\ \A p \in universe : \A f \in Fields(p) : slot[p][f] = slot'[p][f]
          /\ \A e \in Entry : entry[e].st = "registered" \/ entry[e].st = "registered" => entry[e] = entry[e]
      BY <1>4, <1>7, <2>2
    <3>2. EdgesOf(universe, slot, records, entry) = EdgesOf(universe, slot', records, entry)
      BY ONLY <1>14, <3>1, EdgesSame
    <3>3. One(c, z) = 0
      BY <1>2, <2>2 DEF One
    <3> QED
      BY <2>1, <3>2, <3>3, EdgesAre
  <2>3. CASE c # None
    <3>1. Fields(o) = {"ref"}
      BY <2>3 DEF Making
    <3>2. PICK f, s : f = "ref" /\ s = slot'
      OBVIOUS
    <3>3. /\ o \in universe /\ f \in Fields(o) /\ Typed(universe, slot, records, entry) /\ z \in universe
          /\ \A p \in universe : \A g \in Fields(p) : s[p][g] = IF p = o /\ g = f THEN c ELSE slot[p][g]
      BY <1>3, <1>7, <1>14, <3>1, <3>2
    <3>4. /\ Count(EdgesOf(universe, s, records, entry), z) \in Nat
          /\ Count(EdgesOf(universe, s, records, entry), z) + One(slot[o][f], z)
               = Count(EdgesOf(universe, slot, records, entry), z) + One(c, z)
      BY ONLY <3>3, SlotWritten
    <3>5. One(slot[o][f], z) = 0
      BY <1>2, <1>4, <3>3 DEF One
    <3> QED
      BY <3>2, <3>4, <3>5, EdgesAre
  <2> QED
    BY <2>2, <2>3
<1>16. ASSUME NEW z \in universe PROVE rc'[z] = Total(z)' /\ (state'[z] = "absent" => rc'[z] = 0)
  <2>1. PartsOf(z) /\ rc[z] = Total(z)
    BY <1>1, <1>2, Parts DEF Loops, Structure
  <2>2. Total(z)' = (handles[z] + One(o, z)) + Count(JobEdges, z) + Pending(frees, z) + (Count(Edges, z) + One(c, z))
    BY <1>3, <1>6, <1>15, EdgesAre DEF Total
  <2>3. One(o, z) \in Nat /\ One(c, z) \in Nat
    BY DEF One
  <2>4. rc'[z] = Total(z)'
    BY <1>5, <2>1, <2>2, <2>3 DEF PartsOf
  <2>5. state'[z] = "absent" => One(o, z) = 0 /\ One(c, z) = 0 /\ rc[z] = 0
    BY <1>2, <1>3, <1>8 DEF One, Making
  <2> QED
    BY <1>5, <2>4, <2>5
<1>17. Steady
  BY <1>1, <1>3, <1>5, <1>8 DEF Steady, Loops
<1> QED
  BY <1>9, <1>13, <1>16, <1>17, SteadyKeeps

LEMMA MakersKeep ==
  ASSUME IInv,
         \/ \E o \in universe : NewObject(o)
         \/ \E w \in universe \cap WeakRef, o \in universe : NewWeakRef(w, o)
         \/ \E r \in universe \cap Registry, cb \in Value : NewRegistry(r, cb)
         \/ \E f, g \in universe \cap Function : NewClosure(f, g)
  PROVE  IInv'
<1>1. Contents /\ Loops /\ Structure
  BY IInvIs
<1>2. None \notin universe /\ None \notin VarRef /\ target \in [DOMAIN target -> Value]
  BY <1>1, HeapAssumption DEF Loops, Object, Contents
<1>3. CASE \E o \in universe : NewObject(o)
  <2>1. PICK o \in universe : NewObject(o)
    BY <1>3
  <2>2. o \notin VarRef /\ o \notin Function
    BY <2>1, HeapAssumption DEF NewObject
  <2>3. pc = "run" /\ ~inFree
    BY <2>1 DEF NewObject, CanRun
  <2>4. Allocate(o, None, Dup(None))
    BY <2>1 DEF NewObject, Allocate, Dup
  <2>5. target' \in [DOMAIN target -> Value] /\ \A z \in DOMAIN target : target'[z] = target[z]
    BY <1>2, <2>1 DEF NewObject
  <2>6. Making(o, None)
    BY <1>2, <2>2, <2>4, <2>5 DEF Making, Value
  <2> QED
    BY <2>3, <2>6, MakingKeeps
<1>4. CASE \E w \in universe \cap WeakRef, o \in universe : NewWeakRef(w, o)
  <2>1. PICK w \in universe \cap WeakRef, o \in universe : NewWeakRef(w, o)
    BY <1>4
  <2>2. w \notin VarRef /\ w \notin Function
    BY <2>1, HeapAssumption
  <2>3. pc = "run" /\ ~inFree /\ o \in Value /\ Held(o) /\ target' = [target EXCEPT ![w] = o]
    BY <2>1 DEF NewWeakRef, CanRun, Value
  <2>4. state[o] = "live" /\ o \notin VarRef
    BY <1>2, <2>3, LiveValues DEF Live
  <2>5. target' \in [DOMAIN target -> Value] /\ \A z \in DOMAIN target : target'[z] = target[z] \/ target'[z] = o
    BY <1>2, <2>3
  <2>7. Allocate(w, None, Dup(None))
    BY <2>1 DEF NewWeakRef, Allocate, Dup
  <2>6. Making(w, None)
    BY <1>2, <2>1, <2>2, <2>4, <2>5, <2>7 DEF Making, Value
  <2> QED
    BY <2>3, <2>6, MakingKeeps
<1>5. CASE \E r \in universe \cap Registry, cb \in Value : NewRegistry(r, cb)
  <2>1. PICK r \in universe \cap Registry, cb \in Value : NewRegistry(r, cb)
    BY <1>5
  <2>2. r \notin VarRef /\ r \notin Function /\ Fields(r) = {"ref"}
    BY <2>1, HeapAssumption DEF Fields
  <2>3. pc = "run" /\ ~inFree /\ Held(cb)
    BY <2>1 DEF NewRegistry, CanRun
  <2>4. Live(cb)
    BY <2>3, LiveValues
  <2>5. cb \notin VarRef /\ (cb # None => state[cb] = "live")
    BY <1>2, <2>4 DEF Live
  <2>7. Allocate(r, cb, Dup(cb))
    BY <2>1 DEF NewRegistry
  <2>8. target' \in [DOMAIN target -> Value] /\ \A z \in DOMAIN target : target'[z] = target[z]
    BY <1>2, <2>1 DEF NewRegistry
  <2>6. Making(r, cb)
    BY <1>2, <2>1, <2>2, <2>5, <2>7, <2>8 DEF Making
  <2> QED
    BY <2>3, <2>6, MakingKeeps
<1>6. CASE \E f, g \in universe \cap Function : NewClosure(f, g)
  <2>1. PICK f \in universe \cap Function, g \in universe \cap Function : NewClosure(f, g)
    BY <1>6
  <2>2. f \notin VarRef /\ Fields(f) = {"ref"} /\ "ref" \in Fields(g)
    BY <2>1, HeapAssumption DEF Fields
  <2>3. pc = "run" /\ ~inFree /\ Held(g) /\ g \in Value
    BY <2>1 DEF NewClosure, CanRun, Value
  <2>4. state[g] = "live"
    BY <1>2, <2>1, <2>3, LiveValues DEF Live
  <2>5. PICK v : v = slot[g]["ref"]
    OBVIOUS
  <2>6. v \in VarRef /\ state[v] = "live" /\ v \in Value
    BY <1>1, <2>2, <2>4, <2>5 DEF Structure, Captured, Contents
  <2>8. Allocate(f, v, Dup(v))
    BY <2>1, <2>5 DEF NewClosure
  <2>9. target' \in [DOMAIN target -> Value] /\ \A z \in DOMAIN target : target'[z] = target[z]
    BY <1>2, <2>1 DEF NewClosure
  <2>7. Making(f, v)
    BY <1>2, <2>1, <2>2, <2>5, <2>6, <2>8, <2>9 DEF Making
  <2> QED
    BY <2>3, <2>7, MakingKeeps
<1> QED
  BY <1>3, <1>4, <1>5, <1>6

\* A closure and the variable it captures are made together.
LEMMA NewVariableKeeps ==
  ASSUME IInv, NEW f \in universe \cap Function, NEW v \in universe \cap VarRef, NEW x \in Value, NewVariable(f, v, x)
  PROVE  IInv'
<1>1. Contents /\ Loops /\ Structure /\ pc = "run" /\ ~inFree
  BY IInvIs DEF NewVariable, CanRun
<1>2. /\ None \notin universe /\ Live(x)
      /\ \A z \in universe : rc[z] \in Nat /\ rc[z] = Total(z) /\ (state[z] = "absent" => rc[z] = 0)
  BY <1>1, LiveValues DEF NewVariable
<1>3. /\ state[f] = "absent" /\ state[v] = "absent" /\ f # v /\ x # f /\ x # v /\ x \notin VarRef
      /\ f \notin VarRef /\ v \notin Function /\ Fields(f) = {"ref"} /\ Fields(v) = {"ref"}
      /\ state' = [state EXCEPT ![f] = "live", ![v] = "live"] /\ rc' = [Dup(x) EXCEPT ![f] = 1, ![v] = 1]
      /\ list' = [list EXCEPT ![f] = "gc", ![v] = "gc"] /\ handles' = [handles EXCEPT ![f] = 1]
      /\ slot' = [slot EXCEPT ![f] = [ref |-> v], ![v] = [ref |-> x]]
      /\ UNCHANGED <<mark, records, entry, target, jobs, frees, pc, todo, inFree, universe>>
  <2>1. f \notin VarRef /\ v \notin Function /\ Fields(f) = {"ref"} /\ Fields(v) = {"ref"} /\ None \notin VarRef
    BY HeapAssumption DEF Fields, Object
  <2> QED
    BY <1>2, <2>1 DEF NewVariable, Live, tables
<1>4. \A o \in {f, v} : rc[o] = 0 /\ handles[o] = 0 /\ slot[o]["ref"] = None
  <2> SUFFICES ASSUME NEW o \in {f, v} PROVE rc[o] = 0 /\ handles[o] = 0 /\ slot[o]["ref"] = None
    OBVIOUS
  <2>1. PartsOf(o) /\ External(o) = 0
    BY <1>1, <1>3, Parts DEF IInv, Unreferred, Loops, Structure
  <2>3. handles[o] \in Nat /\ Count(JobEdges, o) \in Nat /\ Pending(frees, o) \in Nat
        /\ handles[o] + Count(JobEdges, o) + Pending(frees, o) = 0
    BY <2>1 DEF PartsOf
  <2>2. handles[o] = 0
    BY ONLY <2>3
  <2> QED
    BY <1>1, <1>2, <1>3, <2>2 DEF Structure, Emptied
<1>5. rc' \in [universe -> Nat] /\ \A z \in universe : rc'[z] = ((rc[z] + One(x, z)) + One(f, z)) + One(v, z)
  <2>1. Dup(x) \in [universe -> Nat] /\ \A z \in universe : Dup(x)[z] = rc[z] + One(x, z)
    BY <1>1, <1>2 DEF Dup, Loops, One, Value
  <2>2. \A z \in universe : rc[z] \in Nat /\ One(x, z) \in Nat /\ Dup(x)[z] \in Nat
    BY <1>2, <2>1 DEF One
  <2>3. \A z \in universe : rc'[z] = IF z = f \/ z = v THEN 1 ELSE Dup(x)[z]
    BY <1>3, <2>1
  <2>4. One(x, f) = 0 /\ One(x, v) = 0
    BY <1>3 DEF One
  <2> QED
    BY <1>3, <1>4, <2>1, <2>2, <2>3, <2>4 DEF One
<1>6. handles' \in [universe -> 0 .. MaxHandles] /\ \A z \in universe : handles'[z] = handles[z] + One(f, z)
  BY <1>1, <1>3, <1>4, HeapAssumption DEF Contents, One
<1>7. PICK s : s = [slot EXCEPT ![v] = [ref |-> x]]
  OBVIOUS
<1>8. /\ DOMAIN s = universe /\ \A z \in universe : s[z] \in [Fields(z) -> Value]
      /\ \A z \in universe : \A g \in Fields(z) : s[z][g] = IF z = v /\ g = "ref" THEN x ELSE slot[z][g]
  BY <1>1, <1>3, <1>7 DEF Contents, Fielded
<1>9. /\ DOMAIN slot' = universe /\ \A z \in universe : slot'[z] \in [Fields(z) -> Value]
      /\ \A z \in universe : \A g \in Fields(z) : slot'[z][g] = IF z = f /\ g = "ref" THEN v ELSE s[z][g]
  <2>1. DOMAIN slot' = universe /\ \A z \in universe : slot'[z] = IF z = f THEN [ref |-> v] ELSE s[z]
    BY <1>1, <1>3, <1>7 DEF Contents, Fielded
  <2>2. slot'[f] \in [Fields(f) -> Value] /\ \A g \in Fields(f) : g = "ref" /\ slot'[f][g] = v
    BY <1>3, <2>1 DEF Value
  <2> QED
    BY <1>8, <2>1, <2>2
<1>10. \A z \in universe : state'[z] = IF z \in {f, v} THEN "live" ELSE state[z]
  BY <1>1, <1>3 DEF Loops
<1>11. Contents'
  BY <1>1, <1>3, <1>6, <1>9 DEF Contents, Fielded, Value
<1>12. Captured'
  <2>1. ASSUME NEW g \in universe \cap Function, state'[g] = "live"
        PROVE  slot'[g]["ref"] \in VarRef /\ state'[slot'[g]["ref"]] = "live"
    <3>1. "ref" \in Fields(g) /\ g # v
      BY <1>3, <2>1, HeapAssumption DEF Fields
    <3>2. CASE g = f
      BY <1>9, <1>10, <3>1, <3>2
    <3>3. CASE g # f
      <4>1. slot'[g]["ref"] = slot[g]["ref"] /\ slot[g]["ref"] \in Value
        BY <1>1, <1>8, <1>9, <3>1, <3>3 DEF Contents
      <4>2. slot[g]["ref"] \in VarRef /\ state[slot[g]["ref"]] = "live"
        BY <1>1, <1>10, <2>1, <3>1, <3>3 DEF Structure, Captured
      <4> QED
        BY <1>10, <4>1, <4>2, HeapAssumption DEF Object, Value
    <3> QED
      BY <3>2, <3>3
  <2>2. ASSUME NEW u \in universe \cap VarRef, state'[u] = "live"
        PROVE  \E g \in universe \cap Function : slot'[g]["ref"] = u
    <3>1. CASE u = v
      BY <1>3, <1>9, <3>1
    <3>2. CASE u # v
      <4>1. state[u] = "live"
        BY <1>3, <1>10, <2>2, <3>2
      <4>2. PICK g \in universe \cap Function : slot[g]["ref"] = u
        BY <1>1, <2>2, <4>1 DEF Structure, Captured
      <4>3. "ref" \in Fields(g) /\ g # v
        BY <1>3, HeapAssumption DEF Fields
      <4>4. g # f
        BY <1>2, <1>4, <4>2, <2>2
      <4> QED
        BY <1>8, <1>9, <4>2, <4>3, <4>4
    <3> QED
      BY <3>1, <3>2
  <2>3. ASSUME NEW z \in universe \ Function, NEW g \in Fields(z) PROVE slot'[z][g] \notin VarRef
    BY <1>1, <1>3, <1>8, <1>9, <2>3 DEF Structure, Captured
  <2>4. \A u \in universe \cap VarRef : handles'[u] = 0
    BY <1>1, <1>3 DEF Structure, Captured, Contents
  <2> QED
    BY <1>1, <1>3, <2>1, <2>2, <2>3, <2>4 DEF Structure, Captured
<1>13. Emptied'
  BY <1>1, <1>3, <1>8, <1>9, <1>10 DEF Structure, Emptied
<1>14. Weak'
  <2>0. \A z \in universe : state[z] = "live" => state'[z] = "live"
    BY <1>10
  <2>1. \A r \in records : r[2] \in universe
    BY <1>1 DEF Contents
  <2>2. \A w \in DOMAIN target : target[w] # None => state'[target[w]] = "live"
    BY <1>1, <2>0 DEF Contents, Value, Structure, Weak
  <2> QED
    BY <1>1, <1>3, <2>0, <2>1, <2>2 DEF Structure, Weak
<1>15. Structure'
  BY <1>1, <1>3, <1>12, <1>13, <1>14 DEF Structure, Queue
<1>16. Typed(universe, slot, records, entry)
  BY <1>1, TypedState DEF Loops, Structure
<1>17. Typed(universe, s, records, entry)
  BY <1>8, <1>16 DEF Typed, Value
<1>18. ASSUME NEW z \in universe
       PROVE  Count(EdgesOf(universe, slot', records, entry), z) = (Count(Edges, z) + One(x, z)) + One(v, z)
  <2>1. PICK t, h : t = slot' /\ h = "ref"
    OBVIOUS
  <2>2. /\ Typed(universe, slot, records, entry) /\ v \in universe /\ h \in Fields(v) /\ z \in universe
        /\ \A p \in universe : \A g \in Fields(p) : s[p][g] = IF p = v /\ g = h THEN x ELSE slot[p][g]
    BY <1>3, <1>8, <1>16, <2>1
  <2>3. /\ Count(EdgesOf(universe, s, records, entry), z) \in Nat /\ Count(EdgesOf(universe, slot, records, entry), z) \in Nat
        /\ Count(EdgesOf(universe, s, records, entry), z) + One(slot[v][h], z)
             = Count(EdgesOf(universe, slot, records, entry), z) + One(x, z)
    BY ONLY <2>2, SlotWritten
  <2>4. /\ Typed(universe, s, records, entry) /\ f \in universe /\ h \in Fields(f) /\ z \in universe
        /\ \A p \in universe : \A g \in Fields(p) : t[p][g] = IF p = f /\ g = h THEN v ELSE s[p][g]
    BY <1>3, <1>9, <1>17, <2>1
  <2>5. /\ Count(EdgesOf(universe, t, records, entry), z) \in Nat
        /\ Count(EdgesOf(universe, t, records, entry), z) + One(s[f][h], z)
             = Count(EdgesOf(universe, s, records, entry), z) + One(v, z)
    BY ONLY <2>4, SlotWritten
  <2>6. One(slot[v][h], z) = 0 /\ One(s[f][h], z) = 0
    BY <1>2, <1>3, <1>4, <1>8, <2>1 DEF One
  <2>7. One(x, z) \in Nat /\ One(v, z) \in Nat
    BY DEF One
  <2> QED
    BY <2>1, <2>3, <2>5, <2>6, <2>7, EdgesAre
<1>19. ASSUME NEW z \in universe PROVE rc'[z] = Total(z)' /\ (state'[z] = "absent" => rc'[z] = 0)
  <2>1. PartsOf(z) /\ rc[z] = Total(z)
    BY <1>1, <1>2, Parts DEF Loops, Structure
  <2>2. Total(z)' = (handles[z] + One(f, z)) + Count(JobEdges, z) + Pending(frees, z) + ((Count(Edges, z) + One(x, z)) + One(v, z))
    BY <1>3, <1>6, <1>18, EdgesAre DEF Total
  <2>3. One(x, z) \in Nat /\ One(f, z) \in Nat /\ One(v, z) \in Nat
    BY DEF One
  <2>4. rc'[z] = Total(z)'
    BY <1>5, <2>1, <2>2, <2>3 DEF PartsOf
  <2>5. state'[z] = "absent" => One(f, z) = 0 /\ One(v, z) = 0 /\ One(x, z) = 0 /\ rc[z] = 0
    BY <1>2, <1>10 DEF One, Live
  <2> QED
    BY <1>5, <2>4, <2>5
<1>20. Steady
  BY <1>1, <1>3, <1>5, <1>10 DEF Steady, Loops
<1> QED
  BY <1>1, <1>11, <1>15, <1>19, <1>20, SteadyKeeps

-----------------------------------------------------------------------------
(* Registrations and their jobs.                                           *)

LEMMA RegisterKeeps ==
  ASSUME IInv, NEW r \in universe \cap Registry, NEW e \in Entry, NEW t \in universe, NEW x \in Value,
         NEW token \in {None, t}, Register(e, r, t, x, token)
  PROVE  IInv'
<1>1. Contents /\ Loops /\ Structure /\ pc = "run"
  BY IInvIs DEF Register, CanRun
<1>2. /\ None \notin universe /\ None \notin VarRef
      /\ \A z \in universe : rc[z] \in Nat /\ rc[z] = Total(z) /\ (state[z] = "absent" => rc[z] = 0)
  BY <1>1, LiveValues, HeapAssumption DEF Object
<1>3. PICK cb : cb = slot[r]["ref"]
  OBVIOUS
<1>4. PICK g : g = [st |-> "registered", reg |-> r, target |-> t, held |-> x, token |-> token, cb |-> cb]
  OBVIOUS
<1>5. /\ entry[e].st = "free" /\ t # r /\ entry' = [entry EXCEPT ![e] = g]
      /\ rc' = [o \in universe |-> rc[o] + Count(Registering(g, e), o)]
      /\ UNCHANGED <<state, mark, list, slot, records, target, jobs, handles, frees, pc, todo, inFree, universe>>
      /\ Held(r) /\ Held(t) /\ Held(x)
  BY <1>3, <1>4 DEF Register, Registering
<1>6. state[r] = "live" /\ state[t] = "live" /\ t \notin VarRef /\ Live(x) /\ x \notin VarRef /\ token \notin VarRef
  <2>1. Live(r) /\ Live(t) /\ Live(x)
    BY <1>1, <1>5, LiveValues DEF Value
  <2> QED
    BY <1>2, <2>1 DEF Live
<1>7. cb \in Value /\ Live(cb) /\ cb \notin VarRef
  <2>1. "ref" \in Fields(r) /\ r \notin Function
    BY HeapAssumption DEF Fields
  <2>2. Live(cb) /\ cb \in Value
    BY <1>1, <1>3, <2>1, LiveValues
  <2> QED
    BY <1>2, <2>2 DEF Live
<1>8. g \in EntryType(universe) /\ g.st = "registered" /\ g.reg \in universe
  BY <1>4, <1>7 DEF EntryType, Value
<1>9. entry \in [Entry -> EntryType(universe)] /\ entry' \in [Entry -> EntryType(universe)]
      /\ \A d \in Entry : entry'[d] = IF d = e THEN g ELSE entry[d]
  BY <1>1, <1>5, <1>8 DEF Contents
<1>10. Contents'
  BY <1>1, <1>5, <1>9 DEF Contents, Fielded, Value
<1>11. Captured'
  <2>1. {g.held, g.token, g.cb, g.target} \cap VarRef = {}
    BY <1>4, <1>6, <1>7
  <2>2. ASSUME NEW d \in Entry PROVE {entry'[d].held, entry'[d].token, entry'[d].cb, entry'[d].target} \cap VarRef = {}
    BY <1>1, <1>9, <2>1 DEF Structure, Captured
  <2> QED
    BY <1>1, <1>5, <2>2 DEF Structure, Captured
<1>12. Weak'
  <2>1. ASSUME NEW d \in Entry, entry'[d].st = "registered"
        PROVE  /\ entry'[d].reg \in universe /\ state[entry'[d].reg] = "live"
               /\ entry'[d].target \in universe /\ state[entry'[d].target] = "live"
               /\ entry'[d].target # entry'[d].reg
    <3>1. CASE d = e
      BY <1>4, <1>5, <1>6, <1>9, <3>1
    <3>2. CASE d # e
      BY <1>1, <1>9, <2>1, <3>2 DEF Structure, Weak
    <3> QED
      BY <3>1, <3>2
  <2> QED
    BY <1>1, <1>5, <2>1 DEF Structure, Weak
<1>13. Queue'
  <2>1. \A d \in Entry : entry'[d].st = "queued" <=> entry[d].st = "queued"
    BY <1>4, <1>5, <1>9
  <2> QED
    BY <1>1, <1>5, <2>1 DEF Structure, Queue
<1>14. Structure'
  BY <1>1, <1>5, <1>11, <1>12, <1>13 DEF Structure, Emptied
<1>15. JobEdgesOf(entry') = JobEdges
  <2>1. PICK n, m : n = entry /\ m = entry'
    OBVIOUS
  <2>2. \A d \in Entry : n[d].st = "queued" \/ m[d].st = "queued" => n[d] = m[d]
    BY <1>4, <1>5, <1>9, <2>1
  <2>3. JobEdgesOf(n) = JobEdgesOf(m)
    BY ONLY <2>2, JobEdgesSame
  <2> QED
    BY <2>1, <2>3, EdgesAre
<1>16. Typed(universe, slot, records, entry)
  BY <1>1, TypedState DEF Loops, Structure
<1>17. ASSUME NEW z \in universe
       PROVE  /\ Count(Registering(g, e), z) \in Nat
              /\ Count(EdgesOf(universe, slot, records, entry'), z) = Count(Edges, z) + Count(Registering(g, e), z)
  <2>1. PICK n, m : n = entry /\ m = entry'
    OBVIOUS
  <2>2. /\ Typed(universe, slot, records, n) /\ e \in Entry /\ n[e].st = "free" /\ g \in EntryType(universe)
        /\ g.st = "registered" /\ g.reg \in universe /\ m[e] = g /\ (\A d \in Entry : d # e => m[d] = n[d])
        /\ z \in universe
    BY <1>5, <1>8, <1>9, <1>16, <2>1
  <2>3. /\ Count(Registering(g, e), z) \in Nat
        /\ Count(EdgesOf(universe, slot, records, m), z)
             = Count(EdgesOf(universe, slot, records, n), z) + Count(Registering(g, e), z)
    BY ONLY <2>2, EntryAdded
  <2> QED
    BY <2>1, <2>3, EdgesAre
<1>18. ASSUME NEW z \in universe PROVE rc'[z] = Total(z)' /\ (state'[z] = "absent" => rc'[z] = 0)
  <2>1. PartsOf(z) /\ rc[z] = Total(z) /\ rc[z] \in Nat
    BY <1>1, <1>2, Parts DEF Loops, Structure
  <2>2. Total(z)' = handles[z] + Count(JobEdges, z) + Pending(frees, z) + (Count(Edges, z) + Count(Registering(g, e), z))
    BY <1>5, <1>15, <1>17 DEF Total
  <2>3. rc'[z] = rc[z] + Count(Registering(g, e), z)
    BY <1>5
  <2>4. rc'[z] = Total(z)'
    BY <1>17, <2>1, <2>2, <2>3 DEF PartsOf
  <2>5. ASSUME state[z] = "absent" PROVE Count(Registering(g, e), z) = 0
    <3>1. z # x /\ z # token /\ z # cb
      BY <1>2, <1>6, <1>7, <2>5 DEF Live
    <3>2. g.held = x /\ g.token = token /\ g.cb = cb
      BY <1>4
    <3>3. \A y \in Registering(g, e) : y[4] # z
      BY <3>1, <3>2 DEF Registering
    <3>4. {y \in Registering(g, e) : y[4] = z} = {}
      BY <3>3
    <3> QED
      BY <3>4, FS_EmptySet DEF Count
  <2>6. state'[z] = "absent" => rc'[z] = 0
    BY <1>2, <1>5, <2>1, <2>3, <2>5
  <2> QED
    BY <2>4, <2>6
<1>19. Steady
  <2>1. rc' \in [universe -> Nat]
    BY <1>1, <1>2, <1>5, <1>17
  <2> QED
    BY <1>1, <1>5, <2>1 DEF Steady, Loops
<1> QED
  BY <1>1, <1>10, <1>14, <1>18, <1>19, SteadyKeeps

\* The job at the head of the queue runs: what it owned is now to be freed.
LEMMA RunJobKeeps == ASSUME IInv, RunJob PROVE IInv'
<1>1. Contents /\ Loops /\ Structure /\ pc = "run"
  BY IInvIs DEF RunJob, CanRun
<1>2. /\ None \notin universe /\ None \notin VarRef
      /\ \A z \in universe : rc[z] \in Nat /\ rc[z] = Total(z) /\ (state[z] = "absent" => rc[z] = 0)
  BY <1>1, LiveValues, HeapAssumption DEF Object
<1>3. PICK e : e = Head(jobs)
  OBVIOUS
<1>4. /\ jobs \in Seq(Entry) /\ jobs # <<>> /\ frees = <<>>
      /\ frees' = <<entry[e].cb, entry[e].held>> /\ entry' = [entry EXCEPT ![e] = NoEntry] /\ jobs' = Tail(jobs)
      /\ UNCHANGED <<state, mark, list, slot, records, target, pc, todo, inFree, universe>>
  BY <1>1, <1>3 DEF RunJob, Contents
<1>5. /\ e \in Entry /\ e = jobs[1] /\ 1 \in DOMAIN jobs
      /\ jobs' \in Seq(Entry) /\ Len(jobs') = Len(jobs) - 1 /\ Len(jobs) \in Nat \ {0}
      /\ DOMAIN jobs' = 1 .. Len(jobs') /\ DOMAIN jobs = 1 .. Len(jobs)
      /\ \A i \in DOMAIN jobs' : jobs'[i] = jobs[i + 1]
  BY <1>3, <1>4
<1>6. entry[e].st = "queued"
  BY <1>1, <1>5 DEF Structure, Queue
<1>7. PICK held, cb : held = entry[e].held /\ cb = entry[e].cb
  OBVIOUS
<1>8. held \in Value /\ cb \in Value /\ Live(held) /\ Live(cb) /\ held \notin VarRef /\ cb \notin VarRef
  <2>1. entry[e] \in EntryType(universe)
    BY <1>1, <1>5 DEF Contents
  <2> QED
    BY <1>1, <1>2, <1>5, <1>6, <1>7, <2>1, LiveValues DEF Live, EntryType, Value
<1>9. PICK x \in {None, held} : Room(x) /\ rc' = Dup(x) /\ handles' = Take(x)
  <2>1. CASE Room(held) /\ rc' = Dup(held) /\ handles' = Take(held)
    BY <2>1
  <2>2. CASE UNCHANGED <<rc, handles>>
    BY <2>2 DEF Room, Dup, Take
  <2> QED
    BY <1>3, <1>7, <2>1, <2>2 DEF RunJob
<1>10. x \in Value /\ Live(x) /\ x \notin VarRef
  BY <1>2, <1>8, <1>9 DEF Value, Live
<1>11. handles' \in [universe -> 0 .. MaxHandles] /\ \A o \in universe : handles'[o] = handles[o] + One(x, o)
  BY <1>1, <1>2, <1>9, <1>10, HeapAssumption DEF Take, Room, Contents, One, Value
<1>12. rc' \in [universe -> Nat] /\ \A o \in universe : rc'[o] = rc[o] + One(x, o)
  BY <1>1, <1>2, <1>9, <1>10 DEF Dup, Loops, One, Value
<1>13. NoEntry \in EntryType(universe) /\ NoEntry.st = "free"
       /\ {NoEntry.held, NoEntry.token, NoEntry.cb, NoEntry.target} \cap VarRef = {}
  BY <1>2 DEF NoEntry, EntryType
<1>14. entry' \in [Entry -> EntryType(universe)] /\ \A d \in Entry : entry'[d] = IF d = e THEN NoEntry ELSE entry[d]
  BY <1>1, <1>4, <1>13 DEF Contents
<1>15. Contents'
  <2>1. frees' \in Seq(Value)
    BY <1>4, <1>7, <1>8
  <2> QED
    BY <1>1, <1>4, <1>5, <1>11, <1>14, <2>1 DEF Contents, Fielded, Value
<1>16. Captured'
  <2>1. ASSUME NEW d \in Entry PROVE {entry'[d].held, entry'[d].token, entry'[d].cb, entry'[d].target} \cap VarRef = {}
    BY <1>1, <1>13, <1>14 DEF Structure, Captured
  <2>2. \A v \in universe \cap VarRef : handles'[v] = 0
    BY <1>1, <1>10, <1>11 DEF Structure, Captured, One
  <2>3. \A i \in DOMAIN frees' : frees'[i] \notin VarRef
    BY <1>4, <1>7, <1>8
  <2> QED
    BY <1>1, <1>4, <2>1, <2>2, <2>3 DEF Structure, Captured
<1>17. Weak'
  BY <1>1, <1>4, <1>13, <1>14 DEF Structure, Weak
<1>18. Queue'
  <2>1. \A i, j \in DOMAIN jobs : jobs[i] = jobs[j] => i = j
    BY <1>1 DEF Structure, Queue
  <2>2. \A i, j \in DOMAIN jobs' : jobs'[i] = jobs'[j] => i = j
    BY <1>5, <2>1
  <2>3. ASSUME NEW d \in Entry PROVE entry'[d].st = "queued" <=> \E i \in DOMAIN jobs' : jobs'[i] = d
    <3>1. CASE d = e
      <4>1. \A i \in DOMAIN jobs' : i + 1 \in DOMAIN jobs /\ i + 1 # 1
        BY <1>5
      <4>2. ~ \E i \in DOMAIN jobs' : jobs'[i] = d
        BY <1>5, <2>1, <3>1, <4>1
      <4> QED
        BY <1>13, <1>14, <3>1, <4>2
    <3>2. CASE d # e
      <4>1. entry'[d].st = "queued" <=> \E i \in DOMAIN jobs : jobs[i] = d
        BY <1>1, <1>14, <3>2 DEF Structure, Queue
      <4>2. ASSUME NEW i \in DOMAIN jobs, jobs[i] = d PROVE \E j \in DOMAIN jobs' : jobs'[j] = d
        <5>1. i # 1
          BY <1>5, <3>2, <4>2
        <5>2. i - 1 \in DOMAIN jobs' /\ (i - 1) + 1 = i
          BY <1>5, <5>1
        <5> QED
          BY <1>5, <4>2, <5>2
      <4>3. ASSUME NEW j \in DOMAIN jobs', jobs'[j] = d PROVE \E i \in DOMAIN jobs : jobs[i] = d
        <5>1. j + 1 \in DOMAIN jobs
          BY <1>5
        <5> QED
          BY <1>5, <4>3, <5>1
      <4> QED
        BY <4>1, <4>2, <4>3
    <3> QED
      BY <3>1, <3>2
  <2>4. \A d \in Entry : entry'[d].st = "queued" => entry'[d].reg = None
    BY <1>1, <1>13, <1>14 DEF Structure, Queue
  <2> QED
    BY <2>2, <2>3, <2>4 DEF Queue
<1>19. Structure'
  BY <1>1, <1>4, <1>16, <1>17, <1>18 DEF Structure, Emptied
<1>20. Typed(universe, slot, records, entry)
  BY <1>1, TypedState DEF Loops, Structure
<1>21. ASSUME NEW z \in universe
       PROVE  /\ EdgesOf(universe, slot, records, entry') = Edges
              /\ Count(JobEdgesOf(entry'), z) \in Nat
              /\ (Count(JobEdgesOf(entry'), z) + One(held, z)) + One(cb, z) = Count(JobEdges, z)
  <2>1. PICK n, m : n = entry /\ m = entry'
    OBVIOUS
  <2>2. /\ Typed(universe, slot, records, n) /\ e \in Entry /\ n[e].st = "queued"
        /\ m[e] = NoEntry /\ (\A d \in Entry : d # e => m[d] = n[d]) /\ z \in universe
    BY <1>5, <1>6, <1>14, <1>20, <2>1
  <2>3. /\ EdgesOf(universe, slot, records, m) = EdgesOf(universe, slot, records, n)
        /\ Count(JobEdgesOf(m), z) \in Nat
        /\ (Count(JobEdgesOf(m), z) + One(n[e].held, z)) + One(n[e].cb, z) = Count(JobEdgesOf(n), z)
    BY ONLY <2>2, JobTaken
  <2> QED
    BY <1>7, <2>1, <2>3, EdgesAre
<1>22. ASSUME NEW z \in universe PROVE rc'[z] = Total(z)' /\ (state'[z] = "absent" => rc'[z] = 0)
  <2>1. PartsOf(z) /\ rc[z] = Total(z) /\ rc[z] \in Nat
    BY <1>1, <1>2, Parts DEF Loops, Structure
  <2>2. Pending(frees, z) = 0
    BY <1>4, PendingNone
  <2>3. Pending(frees', z) = One(cb, z) + One(held, z)
    BY <1>4, <1>7, PendingTwo
  <2>4. Total(z)' = (handles[z] + One(x, z)) + Count(JobEdgesOf(entry'), z) + (One(cb, z) + One(held, z)) + Count(Edges, z)
    BY <1>4, <1>11, <1>21, <2>3 DEF Total
  <2>5. One(x, z) \in Nat /\ One(cb, z) \in Nat /\ One(held, z) \in Nat
    BY DEF One
  <2>6. rc'[z] = Total(z)'
    BY <1>12, <1>21, <2>1, <2>2, <2>4, <2>5 DEF PartsOf
  <2>7. state'[z] = "absent" => rc'[z] = 0
    BY SMTT(60), <1>2, <1>4, <1>10, <1>12 DEF Live, One
  <2> QED
    BY <2>6, <2>7
<1>23. Steady
  BY <1>1, <1>4, <1>12 DEF Steady, Loops
<1> QED
  BY <1>1, <1>15, <1>19, <1>22, <1>23, SteadyKeeps

\* JS_FreeRuntime frees what the queued jobs own, each reference once.
Given(n, s) == [i \in 1 .. 2 * Len(s) |->
                  IF i % 2 = 1 THEN n[s[(i + 1) \div 2]].cb ELSE n[s[i \div 2]].held]
LEMMA Halves ==
  ASSUME NEW l \in Nat
  PROVE  /\ \A i \in 1 .. 2 * l : \/ i % 2 = 1 /\ (i + 1) \div 2 \in 1 .. l /\ i = 2 * ((i + 1) \div 2) - 1
                                  \/ i % 2 # 1 /\ i \div 2 \in 1 .. l /\ i = 2 * (i \div 2)
         /\ \A k \in 1 .. l : /\ 2 * k \in 1 .. 2 * l /\ (2 * k) % 2 # 1 /\ (2 * k) \div 2 = k
                              /\ 2 * k - 1 \in 1 .. 2 * l /\ (2 * k - 1) % 2 = 1 /\ ((2 * k - 1) + 1) \div 2 = k
  OBVIOUS

LEMMA GivenOnce ==
  ASSUME NEW n, NEW s \in Seq(Entry), \A i, j \in DOMAIN s : s[i] = s[j] => i = j,
         \A e \in Entry : n[e].st = "queued" <=> \E i \in DOMAIN s : s[i] = e,
         IsFiniteSet(JobEdgesOf(n)), NEW z, z # None
  PROVE  Pending(Given(n, s), z) = Count(JobEdgesOf(n), z)
<1>1. PICK l \in Nat : l = Len(s)
  OBVIOUS
<1>2. DOMAIN s = 1 .. l /\ \A k \in 1 .. l : s[k] \in Entry
  BY <1>1
<1>3. PICK g : g = Given(n, s)
  OBVIOUS
<1>4. /\ Len(g) = 2 * l
      /\ \A i \in 1 .. 2 * l : g[i] = IF i % 2 = 1 THEN n[s[(i + 1) \div 2]].cb ELSE n[s[i \div 2]].held
  BY <1>1, <1>3 DEF Given
<1>5. PICK odd, half : /\ odd = {i \in 1 .. 2 * l : i % 2 = 1}
                       /\ half = [i \in 1 .. 2 * l |-> IF i % 2 = 1 THEN (i + 1) \div 2 ELSE i \div 2]
  OBVIOUS
<1>6. PICK I, J : I = {i \in 1 .. Len(g) : g[i] = z} /\ J = {x \in JobEdgesOf(n) : x[4] = z}
  OBVIOUS
<1>7. ASSUME NEW i \in 1 .. 2 * l PROVE half[i] \in 1 .. l /\ i = IF i \in odd THEN 2 * half[i] - 1 ELSE 2 * half[i]
  <2>1. \/ i % 2 = 1 /\ (i + 1) \div 2 \in 1 .. l /\ i = 2 * ((i + 1) \div 2) - 1
        \/ i % 2 # 1 /\ i \div 2 \in 1 .. l /\ i = 2 * (i \div 2)
    BY Halves
  <2> QED
    BY <1>5, <2>1
<1>20. ASSUME NEW k \in 1 .. l PROVE \E i, j \in 1 .. 2 * l : half[i] = k /\ i \in odd /\ half[j] = k /\ j \notin odd
  <2>1. PICK i, j : i = 2 * k - 1 /\ j = 2 * k
    OBVIOUS
  <2>2. i \in 1 .. 2 * l /\ j \in 1 .. 2 * l /\ i % 2 = 1 /\ j % 2 # 1 /\ (i + 1) \div 2 = k /\ j \div 2 = k
    BY <2>1, Halves
  <2> QED
    BY <1>5, <2>2
<1>21. PICK at : at = [i \in 1 .. 2 * l |-> s[half[i]]]
  OBVIOUS
<1>8. \A i \in 1 .. 2 * l : /\ at[i] \in Entry /\ n[at[i]].st = "queued"
                            /\ g[i] = IF i \in odd THEN n[at[i]].cb ELSE n[at[i]].held
  <2> SUFFICES ASSUME NEW i \in 1 .. 2 * l
               PROVE  /\ at[i] \in Entry /\ n[at[i]].st = "queued"
                      /\ g[i] = IF i \in odd THEN n[at[i]].cb ELSE n[at[i]].held
    OBVIOUS
  <2>1. at[i] = s[half[i]] /\ half[i] \in 1 .. l
    BY <1>7, <1>21
  <2>2. g[i] = IF i \in odd THEN n[s[half[i]]].cb ELSE n[s[half[i]]].held
    BY <1>4, <1>5
  <2> QED
    BY <1>2, <2>1, <2>2
<1>9. \A i, j \in 1 .. 2 * l : at[i] = at[j] /\ (i \in odd <=> j \in odd) => i = j
  <2> SUFFICES ASSUME NEW i \in 1 .. 2 * l, NEW j \in 1 .. 2 * l, at[i] = at[j], i \in odd <=> j \in odd PROVE i = j
    OBVIOUS
  <2>1. half[i] \in 1 .. l /\ half[j] \in 1 .. l
    BY <1>7
  <2>2. half[i] = half[j]
    BY <1>2, <1>21, <2>1
  <2> QED
    BY <1>7, <2>2
<1>10. \A e \in Entry : n[e].st = "queued" => \E i, j \in 1 .. 2 * l : at[i] = e /\ i \in odd /\ at[j] = e /\ j \notin odd
  <2> SUFFICES ASSUME NEW e \in Entry, n[e].st = "queued"
               PROVE  \E i, j \in 1 .. 2 * l : at[i] = e /\ i \in odd /\ at[j] = e /\ j \notin odd
    OBVIOUS
  <2>1. PICK k \in 1 .. l : s[k] = e
    BY <1>2
  <2>2. PICK i \in 1 .. 2 * l, j \in 1 .. 2 * l : half[i] = k /\ i \in odd /\ half[j] = k /\ j \notin odd
    BY <1>20
  <2> QED
    BY <1>21, <2>1, <2>2
<1>11. DEFINE h == [i \in I |-> <<None, IF i \in odd THEN "cb" ELSE "held", at[i], z>>]
<1>12. \A i \in I : i \in 1 .. 2 * l /\ g[i] = z
  BY <1>4, <1>6
<1>13. h \in [I -> J]
  <2> SUFFICES ASSUME NEW i \in I PROVE h[i] \in J
    OBVIOUS
  <2>1. PICK x : x = h[i]
    OBVIOUS
  <2>2. x = <<None, IF i \in odd THEN "cb" ELSE "held", at[i], z>>
    BY <2>1
  <2>3. x[1] = None /\ x[2] = (IF i \in odd THEN "cb" ELSE "held") /\ x[3] = at[i] /\ x[4] = z /\ Tuple(x)
    BY <2>2 DEF Tuple
  <2>4. n[at[i]].st = "queued" /\ at[i] \in Entry /\ z = Part(n[at[i]], x[2])
    BY <1>8, <1>12, <2>3 DEF Part
  <2>5. IsJobEdge(x, n)
    BY <2>3, <2>4 DEF IsJobEdge
  <2> QED
    BY <1>6, <2>1, <2>3, <2>5, JobEdgeIs
<1>14. \A i, j \in I : h[i] = h[j] => i = j
  <2> SUFFICES ASSUME NEW i \in I, NEW j \in I, h[i] = h[j] PROVE i = j
    OBVIOUS
  <2>1. at[i] = at[j] /\ (i \in odd <=> j \in odd)
    OBVIOUS
  <2> QED
    BY <1>9, <1>12, <2>1
<1>15. \A x \in J : \E i \in I : h[i] = x
  <2> SUFFICES ASSUME NEW x \in J PROVE \E i \in I : h[i] = x
    OBVIOUS
  <2>1. IsJobEdge(x, n) /\ x[4] = z
    BY <1>6, JobEdgeIs
  <2>2. /\ x = <<None, x[2], x[3], z>> /\ x[2] \in {"held", "cb"} /\ x[3] \in Entry /\ n[x[3]].st = "queued"
        /\ z = Part(n[x[3]], x[2])
    BY <2>1 DEF IsJobEdge, Tuple
  <2>3. PICK i \in 1 .. 2 * l : at[i] = x[3] /\ (i \in odd <=> x[2] = "cb")
    BY <1>10, <2>2
  <2>4. g[i] = z
    BY <1>8, <2>2, <2>3 DEF Part
  <2>5. i \in I
    BY <1>4, <1>6, <2>4
  <2>6. h[i] = x
    BY <2>2, <2>3, <2>5
  <2> QED
    BY <2>5, <2>6
<1> HIDE DEF h
<1>16. h \in Bijection(I, J)
  BY <1>13, <1>14, <1>15 DEF Bijection, Injection, Surjection, IsInjective
<1>17. IsFiniteSet(J) /\ Count(JobEdgesOf(n), z) = Cardinality(J)
  <2>1. PICK E : E = JobEdgesOf(n)
    OBVIOUS
  <2>3. IsFiniteSet(E)
    BY <2>1
  <2>2. IsFiniteSet({x \in E : x[4] = z})
    BY ONLY <2>3, CountType
  <2> QED
    BY <1>6, <2>1, <2>2 DEF Count
<1>18. IsFiniteSet(I)
  <2>1. IsFiniteSet(1 .. 2 * l)
    BY FS_Interval
  <2>2. I \in SUBSET (1 .. 2 * l)
    BY <1>12
  <2> QED
    BY <2>1, <2>2, FS_Subset
<1>19. Cardinality(I) = Cardinality(J)
  <2>1. ExistsBijection(I, J)
    BY <1>16 DEF ExistsBijection
  <2> QED
    BY <1>17, <1>18, <2>1, FS_Bijection
<1> QED
  BY <1>3, <1>6, <1>17, <1>19 DEF Pending

LEMMA FreeRuntimeKeeps == ASSUME IInv, FreeRuntime PROVE IInv'
<1>1. Contents /\ Loops /\ Structure /\ pc = "run"
  BY IInvIs DEF FreeRuntime, CanRun
<1>2. /\ None \notin universe /\ None \notin VarRef
      /\ \A z \in universe : rc[z] \in Nat /\ rc[z] = Total(z) /\ (state[z] = "absent" => rc[z] = 0)
  BY <1>1, LiveValues, HeapAssumption DEF Object
<1>3. /\ frees = <<>> /\ frees' = Given(entry, jobs) /\ jobs' = <<>> /\ inFree' = TRUE
      /\ entry' = [e \in Entry |-> IF entry[e].st = "queued" THEN NoEntry ELSE entry[e]]
      /\ UNCHANGED <<state, rc, mark, list, slot, records, target, handles, pc, todo, universe>>
  BY DEF FreeRuntime, Given
<1>4. NoEntry \in EntryType(universe) /\ NoEntry.st = "free"
      /\ {NoEntry.held, NoEntry.token, NoEntry.cb, NoEntry.target} \cap VarRef = {}
  BY <1>2 DEF NoEntry, EntryType
<1>5. entry' \in [Entry -> EntryType(universe)] /\ entry \in [Entry -> EntryType(universe)]
      /\ \A d \in Entry : entry'[d] = IF entry[d].st = "queued" THEN NoEntry ELSE entry[d]
  BY <1>1, <1>3, <1>4 DEF Contents
<1>6. PICK l \in Nat : l = Len(jobs) /\ jobs \in Seq(Entry) /\ DOMAIN jobs = 1 .. l /\ \A k \in 1 .. l : jobs[k] \in Entry
  BY <1>1 DEF Contents
<1>7. /\ DOMAIN frees' = 1 .. 2 * l
      /\ \A i \in 1 .. 2 * l : frees'[i] = IF i % 2 = 1 THEN entry[jobs[(i + 1) \div 2]].cb ELSE entry[jobs[i \div 2]].held
      /\ frees' = [i \in 1 .. 2 * l |-> frees'[i]]
  BY <1>3, <1>6 DEF Given
<1>8. \A i \in 1 .. 2 * l : \E e \in Entry : frees'[i] \in {entry[e].cb, entry[e].held}
  <2> SUFFICES ASSUME NEW i \in 1 .. 2 * l PROVE \E e \in Entry : frees'[i] \in {entry[e].cb, entry[e].held}
    OBVIOUS
  <2>1. \/ i % 2 = 1 /\ (i + 1) \div 2 \in 1 .. l
        \/ i % 2 # 1 /\ i \div 2 \in 1 .. l
    BY Halves
  <2> QED
    BY <1>6, <1>7, <2>1
<1>9. \A i \in 1 .. 2 * l : frees'[i] \in Value /\ frees'[i] \notin VarRef
  <2>1. \A e \in Entry : entry[e].cb \in Value /\ entry[e].held \in Value
    BY <1>5 DEF EntryType, Value
  <2>2. \A e \in Entry : entry[e].cb \notin VarRef /\ entry[e].held \notin VarRef
    BY <1>1 DEF Structure, Captured
  <2> QED
    BY <1>8, <2>1, <2>2
<1>10. Contents'
  <2>1. frees' \in Seq(Value)
    <3>1. 2 * l \in Nat
      OBVIOUS
    <3>2. frees' \in [1 .. 2 * l -> Value]
      BY <1>7, <1>9
    <3> QED
      BY <3>1, <3>2
  <2> QED
    BY <1>1, <1>3, <1>5, <2>1 DEF Contents, Fielded, Value
<1>11. Captured'
  <2>1. \A e \in Entry : {entry'[e].held, entry'[e].token, entry'[e].cb, entry'[e].target} \cap VarRef = {}
    BY <1>1, <1>4, <1>5 DEF Structure, Captured
  <2>2. \A i \in DOMAIN frees' : frees'[i] \notin VarRef
    BY <1>7, <1>9
  <2> QED
    BY <1>1, <1>3, <2>1, <2>2 DEF Structure, Captured
<1>12. Weak'
  BY <1>1, <1>3, <1>4, <1>5 DEF Structure, Weak
<1>13. Queue'
  BY <1>3, <1>4, <1>5 DEF Queue
<1>14. Structure'
  BY <1>1, <1>3, <1>11, <1>12, <1>13 DEF Structure, Emptied
<1>15. Typed(universe, slot, records, entry) /\ Triples(records)
  BY <1>1, TypedState DEF Loops, Structure, Typed, Triples
<1>16. EdgesOf(universe, slot, records, entry') = Edges
  <2>1. PICK n, m : n = entry /\ m = entry'
    OBVIOUS
  <2>2. /\ \A d \in Entry : n[d].st = "registered" \/ m[d].st = "registered" => n[d] = m[d]
        /\ \A o \in universe : \A f \in Fields(o) : slot[o][f] = slot[o][f]
        /\ Triples(records)
    BY <1>4, <1>5, <1>15, <2>1
  <2>3. EdgesOf(universe, slot, records, n) = EdgesOf(universe, slot, records, m)
    BY ONLY <2>2, EdgesSame
  <2> QED
    BY <2>1, <2>3, EdgesAre
<1>17. JobEdgesOf(entry') = {}
  <2> SUFFICES ASSUME NEW x, x \in JobEdgesOf(entry') PROVE FALSE
    OBVIOUS
  <2>1. IsJobEdge(x, entry')
    BY JobEdgeIs
  <2> QED
    BY <1>4, <1>5, <2>1 DEF IsJobEdge
<1>18. ASSUME NEW z \in universe PROVE rc'[z] = Total(z)' /\ (state'[z] = "absent" => rc'[z] = 0)
  <2>1. PartsOf(z) /\ rc[z] = Total(z) /\ rc[z] \in Nat
    BY <1>1, <1>2, Parts DEF Loops, Structure
  <2>2. Pending(frees, z) = 0
    BY <1>3, PendingNone
  <2>3. Pending(frees', z) = Count(JobEdges, z)
    <3>1. PICK n, s : n = entry /\ s = jobs
      OBVIOUS
    <3>2. /\ s \in Seq(Entry) /\ (\A i, j \in DOMAIN s : s[i] = s[j] => i = j)
          /\ (\A e \in Entry : n[e].st = "queued" <=> \E i \in DOMAIN s : s[i] = e)
          /\ IsFiniteSet(JobEdgesOf(n)) /\ z # None
      BY <1>1, <1>2, <1>6, <1>15, <3>1, EdgesFinite DEF Structure, Queue
    <3>3. Pending(Given(n, s), z) = Count(JobEdgesOf(n), z)
      BY ONLY <3>2, GivenOnce
    <3> QED
      BY <1>3, <3>1, <3>3, EdgesAre
  <2>4. Count(JobEdgesOf(entry'), z) = 0
    BY <1>17, CountNothing
  <2>5. Total(z)' = handles[z] + Count(JobEdgesOf(entry'), z) + Pending(frees', z) + Count(Edges, z)
    BY <1>3, <1>16 DEF Total
  <2>6. rc[z] = Total(z)'
    BY <2>1, <2>2, <2>3, <2>4, <2>5 DEF PartsOf
  <2> QED
    BY <1>2, <1>3, <2>6
<1>19. Steady
  BY <1>1, <1>3 DEF Steady, Loops
<1> QED
  BY <1>1, <1>10, <1>14, <1>18, <1>19, SteadyKeeps

-----------------------------------------------------------------------------
(* The collector.                                                          *)

\* What holds references is alive.
LEMMA OwnersLive ==
  ASSUME IInv
  PROVE  /\ \A x \in Edges : x[1] \in universe /\ x[4] \in universe /\ state[x[1]] = "live"
         /\ \A x : x \in Edges <=> IsEdge(x, universe, slot, records, entry)
         /\ \A o \in universe : PartsOf(o)
         /\ Typed(universe, slot, records, entry) /\ IsFiniteSet(Edges) /\ IsFiniteSet(JobEdges)
<1>1. Contents /\ Loops /\ Structure
  BY IInvIs
<1>2. Typed(universe, slot, records, entry) /\ Triples(records)
  BY <1>1, TypedState DEF Loops, Structure, Typed, Triples
<1>3. \A x : x \in Edges <=> IsEdge(x, universe, slot, records, entry)
  BY <1>2, EdgesAre, EdgeIs
<1>4. ASSUME NEW x \in Edges PROVE x[1] \in universe /\ x[4] \in universe /\ state[x[1]] = "live"
  <2>1. x[1] \in universe /\ x[4] \in universe
    BY <1>2, EdgesAre, EdgesFinite
  <2>2. IsEdge(x, universe, slot, records, entry)
    BY <1>3
  <2>3. CASE OfSlot(x, universe, slot)
    <3>1. x[1] \in universe /\ x[3] \in Fields(x[1]) /\ slot[x[1]][x[3]] # None
      BY <2>2, <2>3 DEF OfSlot, IsEdge
    <3> QED
      BY <1>1, <2>1, <3>1 DEF Structure, Emptied
  <2>4. CASE OfRecord(x, records)
    <3>1. PICK r \in records : r = <<x[3], x[1], x[4]>>
      BY <2>4 DEF OfRecord
    <3>2. r[2] = x[1]
      BY <3>1
    <3> QED
      BY <1>1, <2>1, <3>1, <3>2 DEF Structure, Weak
  <2>5. CASE OfEntry(x, entry)
    BY <1>1, <2>1, <2>5 DEF OfEntry, Structure, Weak
  <2> QED
    BY <2>1, <2>2, <2>3, <2>4, <2>5 DEF IsEdge
<1>5. \A o \in universe : PartsOf(o)
  BY <1>1, Parts DEF Loops, Structure
<1>6. IsFiniteSet(Edges) /\ IsFiniteSet(JobEdges)
  BY <1>2, EdgesAre, EdgesFinite
<1> QED
  BY <1>2, <1>3, <1>4, <1>5, <1>6

\* A step of the collector that frees nothing.
Collecting == UNCHANGED <<state, slot, tables, handles, frees, inFree, universe>>
LEMMA CollectingKeeps ==
  ASSUME IInv, Collecting, Loops', Exact', Phases'
  PROVE  IInv'
<1>1. Contents /\ Structure /\ Unreferred
  BY IInvIs
<1>2. Contents'
  BY <1>1 DEF Contents, Collecting, tables, Fielded, Value
<1>3. Structure'
  BY <1>1 DEF Structure, Captured, Emptied, Weak, Queue, Collecting, tables
<1>4. Edges' = Edges /\ \A o \in universe : External(o)' = External(o)
  BY EdgesAre, ExternalIs DEF Collecting, tables, Edges, External, JobEdges, WeakMapEdges
<1>5. Unreferred'
  BY <1>1, <1>4 DEF Unreferred, Collecting
<1> QED
  BY <1>2, <1>3, <1>5, IInvNext

LEMMA CollectingSame ==
  ASSUME Collecting
  PROVE  Edges' = Edges /\ JobEdges' = JobEdges /\ \A o : External(o)' = External(o)
  BY DEF Collecting, tables, Edges, External, JobEdges, WeakMapEdges

\* gc_decref takes away every reference from an object.
LEMMA RunGCKeeps == ASSUME IInv, RunGC PROVE IInv'
<1>1. Loops /\ Phases /\ Exact /\ pc = "run" /\ Collecting
  BY IInvIs DEF RunGC, CanRun, Collecting
<1>2. /\ \A x \in Edges : x[1] \in universe /\ state[x[1]] = "live"
      /\ \A o \in universe : PartsOf(o)
  BY OwnersLive
<1>3. \A o \in universe : rc[o] - Count(Edges, o) = External(o) /\ External(o) \in Nat
  BY <1>1, <1>2, CountedAll DEF Exact, PartsOf
<1>4. /\ rc' = [o \in universe |-> External(o)]
      /\ mark' = [o \in universe |-> IF state[o] = "live" THEN 1 ELSE mark[o]]
      /\ list' = [o \in universe |-> IF state[o] = "live" /\ External(o) = 0 THEN "tmp" ELSE list[o]]
      /\ todo' = {o \in universe : state[o] = "live" /\ External(o) > 0}
      /\ pc' = "scan" /\ state' = state /\ universe' = universe /\ inFree' = inFree
  BY <1>3 DEF RunGC
<1>5. Loops'
  BY <1>1, <1>3, <1>4 DEF Loops
<1>6. Edges' = Edges /\ \A o : External(o)' = External(o)
  BY <1>1, CollectingSame
<1>7. Counted' = {}
  <2>1. \A x \in Edges : list'[x[1]] = "tmp" \/ x[1] \in todo'
    BY <1>2, <1>3, <1>4
  <2> QED
    BY <1>4, <1>6, <2>1 DEF Counted
<1>8. Exact'
  <2>1. \A o \in universe : Count(Counted', o) = 0
    BY <1>7, CountNothing
  <2> QED
    BY <1>3, <1>4, <1>6, <2>1 DEF Exact
<1>9. \A o \in universe : list[o] \in {"none", "gc"} /\ state[o] # "zombie" /\ mark[o] = 0 /\ (state[o] = "absent" <=> list[o] = "none")
  BY <1>1 DEF Phases, Running, Lists
<1>10. \A o \in universe : state[o] \in {"absent", "live", "zombie"}
  BY <1>1 DEF Loops
<1>11. Phases'
  BY <1>3, <1>4, <1>9, <1>10 DEF Phases, Lists, Running, Zeroing, Scanning, Cycling
<1> QED
  BY <1>1, <1>5, <1>8, <1>11, CollectingKeeps

\* gc_scan gives the references of an object back.
LEMMA ScanKeeps == ASSUME IInv, NEW o \in universe, Scan(o) PROVE IInv'
<1>1. Loops /\ Phases /\ Exact /\ pc = "scan" /\ o \in todo /\ Collecting
  BY IInvIs DEF Scan, Collecting
<1>2. /\ \A x \in Edges : x[1] \in universe /\ state[x[1]] = "live"
      /\ \A c \in universe : PartsOf(c)
  BY OwnersLive
<1>3. PICK edges : edges = {x \in Edges : x[1] = o}
  OBVIOUS
<1>4. PICK reached : reached = {c \in universe : list[c] = "tmp" /\ Count(edges, c) > 0}
  OBVIOUS
<1>5. /\ rc' = [c \in universe |-> rc[c] + Count(edges, c)]
      /\ mark' = [c \in universe |-> IF c \in reached \cup {o} THEN 0 ELSE mark[c]]
      /\ list' = [c \in universe |-> IF c \in reached THEN "gc" ELSE list[c]]
      /\ todo' = (todo \ {o}) \cup reached
      /\ pc' = "scan" /\ state' = state /\ universe' = universe /\ inFree' = inFree
  BY <1>1, <1>3, <1>4 DEF Scan, ResetMarks, ToVisit
<1>6. IsFiniteSet(Edges) /\ edges \subseteq Edges /\ Counted \subseteq Edges
  BY <1>2, <1>3 DEF PartsOf, Counted
<1>7. \A c \in universe : Count(edges, c) \in Nat
  <2> SUFFICES ASSUME NEW c \in universe PROVE Count(edges, c) \in Nat
    OBVIOUS
  <2> QED
    BY ONLY <1>6, CountMinus
<1>8. Loops'
  BY <1>1, <1>4, <1>5, <1>7 DEF Loops
<1>9. Edges' = Edges /\ \A c : External(c)' = External(c)
  BY <1>1, CollectingSame
<1>10. \A c \in universe : list[c] = "gc" /\ c \notin todo => c \notin reached /\ c # o
  BY <1>1, <1>4
<1>11. list[o] = "gc" /\ o \notin reached
  BY <1>1, <1>4 DEF Phases, Scanning
<1>12. Counted' = Counted \cup edges /\ Counted \cap edges = {}
  <2>1. Counted' = {x \in Edges : list'[x[1]] = "gc" /\ x[1] \notin todo'}
    BY <1>5, <1>9 DEF Counted
  <2>2. Counted = {x \in Edges : list[x[1]] = "gc" /\ x[1] \notin todo}
    BY <1>1 DEF Counted
  <2>3. \A c \in universe : list'[c] = "gc" /\ c \notin todo' <=> (list[c] = "gc" /\ c \notin todo) \/ c = o
    BY <1>1, <1>5, <1>10, <1>11
  <2> QED
    BY <1>1, <1>2, <1>3, <2>1, <2>2, <2>3
<1>13. Exact'
  <2>1. ASSUME NEW c \in universe PROVE rc'[c] = External(c)' + Count(Counted', c)
    <3>1. PICK C : C = Counted
      OBVIOUS
    <3>2. IsFiniteSet(Counted)
      BY ONLY <1>6, CountMinus
    <3>3. IsFiniteSet(edges)
      BY ONLY <1>6, CountMinus
    <3>4. IsFiniteSet(C) /\ IsFiniteSet(edges) /\ C \cap edges = {}
      BY <1>12, <3>1, <3>2, <3>3
    <3>5. Count(C \cup edges, c) = Count(C, c) + Count(edges, c)
      BY ONLY <3>4, CountJoin
    <3>6. Count(C, c) \in Nat
      BY ONLY <3>4, CountType
    <3>7. rc[c] = External(c) + Count(C, c) /\ External(c) \in Nat
      BY <1>1, <1>2, <3>1 DEF Exact, PartsOf
    <3> QED
      BY <1>5, <1>7, <1>9, <1>12, <3>1, <3>5, <3>6, <3>7
  <2> QED
    BY <1>5, <2>1 DEF Exact
<1>14. \A c \in universe : /\ state[c] # "zombie" /\ list[c] \in {"none", "gc", "tmp"} /\ (state[c] = "absent" <=> list[c] = "none")
                           /\ list[c] = "tmp" => mark[c] = 1 /\ rc[c] = 0
                           /\ list[c] # "tmp" /\ c \notin todo => mark[c] = 0
  BY <1>1 DEF Phases, Scanning, Lists
<1>15. todo \subseteq {c \in universe : list[c] = "gc"}
  BY <1>1 DEF Phases, Scanning
<1>16. \A c \in universe : list[c] = "tmp" /\ c \notin reached => rc'[c] = 0
  BY <1>4, <1>5, <1>7, <1>14
<1>17. Scanning'
  <2>1. todo' \subseteq {c \in universe : list'[c] = "gc"}
    BY <1>4, <1>5, <1>15
  <2>2. ASSUME NEW c \in universe
        PROVE  /\ state'[c] # "zombie" /\ list'[c] \in {"none", "gc", "tmp"}
               /\ list'[c] = "tmp" => mark'[c] = 1 /\ rc'[c] = 0
               /\ list'[c] # "tmp" /\ c \notin todo' => mark'[c] = 0
    BY <1>5, <1>11, <1>14, <1>16
  <2> QED
    BY <1>5, <2>1, <2>2 DEF Scanning
<1>18. Lists'
  BY <1>4, <1>5, <1>14 DEF Lists
<1>19. Phases'
  BY <1>5, <1>17, <1>18 DEF Phases, Running, Zeroing, Cycling
<1> QED
  BY <1>1, <1>8, <1>13, <1>19, CollectingKeeps

\* What is left unvisited is garbage; its counts are restored.
LEMMA RestoreKeeps == ASSUME IInv, Restore PROVE IInv'
<1>1. Loops /\ Phases /\ Exact /\ pc = "scan" /\ todo = {} /\ Collecting
  BY IInvIs DEF Restore, Collecting
<1>2. /\ \A x \in Edges : x[1] \in universe /\ x[4] \in universe /\ state[x[1]] = "live"
      /\ \A c \in universe : PartsOf(c)
      /\ IsFiniteSet(Edges)
  BY OwnersLive
<1>3. PICK edges : edges = {x \in Edges : list[x[1]] = "tmp"}
  OBVIOUS
<1>4. /\ rc' = [c \in universe |-> rc[c] + Count(edges, c)] /\ pc' = "cycles"
      /\ UNCHANGED <<state, mark, list, todo, inFree, universe>>
  BY <1>3 DEF Restore
<1>5. IsFiniteSet(Edges) /\ edges \subseteq Edges /\ Counted \subseteq Edges
  BY <1>2, <1>3 DEF PartsOf, Counted
<1>6. \A c \in universe : Count(edges, c) \in Nat
  <2> SUFFICES ASSUME NEW c \in universe PROVE Count(edges, c) \in Nat
    OBVIOUS
  <2> QED
    BY ONLY <1>5, CountMinus
<1>7. Loops'
  BY <1>1, <1>4, <1>6 DEF Loops
<1>8. Edges' = Edges /\ \A c : External(c)' = External(c)
  BY <1>1, CollectingSame
<1>9. \A c \in universe : /\ state[c] # "zombie" /\ list[c] \in {"none", "gc", "tmp"} /\ (state[c] = "absent" <=> list[c] = "none")
                          /\ list[c] = "tmp" => mark[c] = 1 /\ rc[c] = 0
                          /\ list[c] # "tmp" => mark[c] = 0
                          /\ state[c] \in {"absent", "live", "zombie"}
  BY <1>1 DEF Phases, Scanning, Lists, Loops
<1>10. Counted' = Edges /\ Edges = Counted \cup edges /\ Counted \cap edges = {} /\ Counted = {x \in Edges : list[x[1]] = "gc"}
  <2>1. Counted = {x \in Edges : list[x[1]] = "gc"}
    BY <1>1 DEF Counted
  <2>2. Counted' = Edges
    BY <1>4, <1>8 DEF Counted
  <2>3. \A x \in Edges : list[x[1]] \in {"gc", "tmp"}
    BY <1>2, <1>9
  <2> QED
    BY <1>3, <2>1, <2>2, <2>3
<1>11. ASSUME NEW c \in universe
       PROVE  /\ Count(Counted, c) \in Nat /\ Count(Edges, c) = Count(Counted, c) + Count(edges, c)
              /\ rc[c] = External(c) + Count(Counted, c) /\ External(c) \in Nat
  <2>1. PICK C : C = Counted
    OBVIOUS
  <2>2. IsFiniteSet(Counted)
    BY ONLY <1>5, CountMinus
  <2>3. IsFiniteSet(edges)
    BY ONLY <1>5, CountMinus
  <2>4. IsFiniteSet(C) /\ IsFiniteSet(edges) /\ C \cap edges = {}
    BY <1>10, <2>1, <2>2, <2>3
  <2>5. Count(C \cup edges, c) = Count(C, c) + Count(edges, c)
    BY ONLY <2>4, CountJoin
  <2>6. Count(C, c) \in Nat
    BY ONLY <2>4, CountType
  <2>7. rc[c] = External(c) + Count(C, c) /\ External(c) \in Nat
    BY <1>1, <1>2, <2>1 DEF Exact, PartsOf
  <2> QED
    BY <1>10, <2>1, <2>5, <2>6, <2>7
<1>12. Exact'
  <2>1. ASSUME NEW c \in universe PROVE rc'[c] = External(c)' + Count(Counted', c)
    <3>1. Count(Counted', c) = Count(Edges, c)
      BY <1>10
    <3>2. rc'[c] = rc[c] + Count(edges, c) /\ External(c)' = External(c) /\ Count(edges, c) \in Nat
      BY <1>4, <1>6, <1>8
    <3>3. /\ Count(Counted, c) \in Nat /\ Count(Edges, c) = Count(Counted, c) + Count(edges, c)
          /\ rc[c] = External(c) + Count(Counted, c) /\ External(c) \in Nat
      BY <1>11
    <3> QED
      BY ONLY <3>1, <3>2, <3>3
  <2> QED
    BY <1>4, <2>1 DEF Exact
<1>13. \A c \in universe : mark[c] = 1 => External(c) = 0 /\ Count(Counted, c) = 0
  BY <1>9, <1>11
<1>14. ASSUME NEW x \in Edges, mark[x[4]] = 1 PROVE mark[x[1]] = 1
  <2>1. Count(Counted, x[4]) = 0
    BY <1>2, <1>13, <1>14
  <2>2. IsFiniteSet(Counted)
    BY ONLY <1>5, CountMinus
  <2>3. x \notin Counted
    BY <2>1, <2>2, CountZero
  <2>4. list[x[1]] = "tmp"
    BY <1>2, <1>9, <1>10, <2>3
  <2> QED
    BY <1>2, <1>9, <2>4
<1>15. Cycling'
  <2>1. ASSUME NEW c \in universe
        PROVE  /\ list[c] \in {"tmp", "zero"} <=> mark[c] = 1
               /\ list[c] = "tmp" => state[c] = "live"
               /\ list[c] = "gc" => state[c] = "live"
               /\ list[c] = "zero" => state[c] = "zombie" \/ c \in VarRef
               /\ mark[c] = 1 => External(c)' = 0
    BY <1>8, <1>9, <1>13
  <2> QED
    BY <1>4, <1>8, <1>14, <2>1 DEF Cycling
<1>16. Lists'
  BY <1>1, <1>4 DEF Phases, Lists
<1>17. Phases'
  BY <1>4, <1>15, <1>16 DEF Phases, Running, Zeroing, Scanning
<1> QED
  BY <1>1, <1>7, <1>12, <1>17, CollectingKeeps

\* A variable of the garbage is left to the closures that share it.
LEMMA VariableLeft == ASSUME IInv, NEW o \in universe \cap VarRef, FreeCycle(o) PROVE IInv'
<1>1. Loops /\ Phases /\ Exact /\ pc = "cycles" /\ list[o] = "tmp" /\ list' = [list EXCEPT ![o] = "zero"]
      /\ UNCHANGED <<state, rc, mark, slot, tables, handles, frees, pc, todo, inFree, universe>>
  BY IInvIs DEF FreeCycle
<1>2. Collecting
  BY <1>1 DEF Collecting
<1>3. Edges' = Edges /\ \A c : External(c)' = External(c)
  BY <1>2, CollectingSame
<1>4. list' \in [universe -> {"none", "gc", "zero", "tmp"}] /\ \A c \in universe : list'[c] = IF c = o THEN "zero" ELSE list[c]
  BY <1>1 DEF Loops
<1>5. Loops'
  BY <1>1, <1>4 DEF Loops
<1>6. Exact'
  BY <1>1, <1>3 DEF Exact, Counted
<1>7. Lists'
  BY <1>1, <1>4 DEF Phases, Lists
<1>8. Cycling'
  BY <1>1, <1>3, <1>4 DEF Phases, Cycling
<1>9. Phases'
  BY <1>1, <1>7, <1>8 DEF Phases, Running, Zeroing, Scanning
<1> QED
  BY <1>2, <1>5, <1>6, <1>9, CollectingKeeps

\* What gc_free_cycles has kept for the end is referred to by nobody.
LEMMA KeptUnreferred ==
  ASSUME IInv, pc = "cycles", \A o \in universe : list[o] # "tmp", NEW o \in universe, list[o] = "zero"
  PROVE  state[o] = "zombie" /\ External(o) = 0 /\ Count(Edges, o) = 0
<1>1. Contents /\ Loops /\ Phases /\ Structure
  BY IInvIs
<1>2. /\ \A x \in Edges : x[1] \in universe /\ x[4] \in universe /\ state[x[1]] = "live"
      /\ \A x : x \in Edges <=> IsEdge(x, universe, slot, records, entry)
      /\ IsFiniteSet(Edges)
  BY OwnersLive
<1>3. /\ \A c \in universe : /\ list[c] \in {"tmp", "zero"} <=> mark[c] = 1
                             /\ list[c] = "zero" => state[c] = "zombie" \/ c \in VarRef
                             /\ mark[c] = 1 => External(c) = 0
                             /\ list[c] = "none" <=> state[c] = "absent"
      /\ \A x \in Edges : mark[x[4]] = 1 => mark[x[1]] = 1
  BY <1>1 DEF Phases, Cycling, Lists
<1>4. \A x \in Edges : mark[x[4]] = 1 => x[1] \in VarRef
  BY <1>2, <1>3
<1>5. ASSUME NEW v \in universe \cap VarRef PROVE list[v] # "zero" \/ state[v] = "zombie"
  <2> SUFFICES ASSUME list[v] = "zero", state[v] # "zombie" PROVE FALSE
    OBVIOUS
  <2>1. state[v] = "live"
    BY <1>1, <1>3 DEF Loops
  <2>2. PICK f \in universe \cap Function : slot[f]["ref"] = v
    BY <1>1, <2>1 DEF Structure, Captured
  <2>3. "ref" \in Fields(f) /\ f \notin VarRef /\ v # None
    BY HeapAssumption DEF Fields, Object
  <2>4. PICK x : x = <<f, "slot", "ref", v>>
    OBVIOUS
  <2>5. x[1] = f /\ x[2] = "slot" /\ x[3] = "ref" /\ x[4] = v
    BY <2>4
  <2>6. x \in Edges
    BY <1>2, <2>2, <2>3, <2>4, <2>5 DEF IsEdge, OfSlot, Tuple
  <2> QED
    BY <1>3, <1>4, <2>3, <2>5, <2>6
<1>6. state[o] = "zombie"
  BY <1>3, <1>5
<1>7. \A x \in Edges : x[4] # o
  <2> SUFFICES ASSUME NEW x \in Edges, x[4] = o PROVE FALSE
    OBVIOUS
  <2>1. mark[x[1]] = 1 /\ x[1] \in universe \cap VarRef /\ state[x[1]] = "live"
    BY <1>2, <1>3, <1>4
  <2>2. list[x[1]] = "zero"
    BY <1>3, <2>1
  <2> QED
    BY <1>5, <2>1, <2>2
<1>8. Count(Edges, o) = 0
  BY <1>2, <1>7, CountZero
<1> QED
  BY <1>3, <1>6, <1>8

LEMMA EndGCKeeps == ASSUME IInv, EndGC PROVE IInv'
<1>1. Contents /\ Loops /\ Phases /\ Structure /\ pc = "cycles" /\ \A o \in universe : list[o] # "tmp"
  BY IInvIs DEF EndGC
<1>2. PICK kept : kept = {o \in universe : list[o] = "zero"}
  OBVIOUS
<1>3. /\ state' = [o \in universe |-> IF o \in kept THEN "absent" ELSE state[o]]
      /\ rc' = [o \in universe |-> IF o \in kept THEN 0 ELSE rc[o]]
      /\ mark' = [o \in universe |-> IF o \in kept THEN 0 ELSE mark[o]]
      /\ list' = [o \in universe |-> IF o \in kept THEN "none" ELSE list[o]]
      /\ pc' \in {"freed", "run"}
      /\ UNCHANGED <<slot, tables, handles, frees, todo, inFree, universe>>
  BY <1>2 DEF EndGC
<1>4. \A o \in kept : state[o] = "zombie" /\ External(o) = 0 /\ Count(Edges, o) = 0
  <2> SUFFICES ASSUME NEW o \in kept PROVE state[o] = "zombie" /\ External(o) = 0 /\ Count(Edges, o) = 0
    OBVIOUS
  <2>1. o \in universe /\ list[o] = "zero"
    BY <1>2
  <2> QED
    BY <1>1, <2>1, KeptUnreferred
<1>5. \A o \in universe : /\ list[o] \in {"tmp", "zero"} <=> mark[o] = 1
                          /\ list[o] = "tmp" => state[o] = "live"
                          /\ list[o] = "gc" => state[o] = "live"
                          /\ list[o] = "none" <=> state[o] = "absent"
                          /\ list[o] \in {"none", "gc", "zero", "tmp"} /\ mark[o] \in {0, 1}
  BY <1>1 DEF Phases, Cycling, Lists, Loops
<1>6. \A o \in universe : state'[o] = "live" <=> state[o] = "live"
  BY <1>3, <1>4
<1>7. Contents'
  BY <1>1, <1>3 DEF Contents, tables, Fielded, Value
<1>8. Captured'
  <2>1. ASSUME NEW f \in universe \cap Function, state'[f] = "live"
        PROVE  slot[f]["ref"] \in VarRef /\ state'[slot[f]["ref"]] = "live"
    <3>1. slot[f]["ref"] \in VarRef /\ state[slot[f]["ref"]] = "live"
      BY <1>1, <1>6, <2>1 DEF Structure, Captured
    <3>2. "ref" \in Fields(f) /\ None \notin VarRef
      BY HeapAssumption DEF Fields, Object
    <3>3. slot[f]["ref"] \in universe
      BY <1>1, <3>1, <3>2 DEF Contents, Value
    <3> QED
      BY <1>6, <3>1, <3>3
  <2>2. ASSUME NEW v \in universe \cap VarRef, state'[v] = "live" PROVE \E f \in universe \cap Function : slot[f]["ref"] = v
    BY <1>1, <1>6, <2>2 DEF Structure, Captured
  <2> QED
    BY SMTT(60), <1>1, <1>3, <2>1, <2>2 DEF Structure, Captured, tables
<1>9. Emptied'
  BY <1>1, <1>3, <1>6 DEF Structure, Emptied
<1>10. Weak'
  <2>1. \A r \in records : r[2] \in universe
    BY <1>1 DEF Contents
  <2>2. \A w \in DOMAIN target : target[w] # None => state'[target[w]] = "live"
    BY <1>1, <1>6 DEF Contents, Value, Structure, Weak
  <2> QED
    BY <1>1, <1>3, <1>6, <2>1, <2>2 DEF Structure, Weak, tables
<1>11. Structure'
  BY <1>1, <1>3, <1>8, <1>9, <1>10 DEF Structure, Queue, tables
<1>12. Loops'
  BY <1>1, <1>3 DEF Loops
<1>13. ASSUME NEW o \in universe PROVE rc'[o] = Total(o)' /\ (state'[o] = "absent" => rc'[o] = 0)
  <2>1. PartsOf(o)
    BY OwnersLive
  <2>2. Total(o)' = Total(o)
    BY <1>3 DEF Total, tables
  <2>3. rc[o] = Total(o) /\ rc[o] \in Nat /\ (rc[o] > 0 => state[o] # "absent")
    BY <1>1, Referred
  <2>4. CASE o \in kept
    <3>1. Total(o) = 0
      BY <1>4, <2>1, <2>4 DEF PartsOf
    <3> QED
      BY <1>3, <2>2, <2>4, <3>1
  <2>5. CASE o \notin kept
    BY <1>3, <2>2, <2>3, <2>5
  <2> QED
    BY <2>4, <2>5
<1>14. Exact' /\ Unreferred'
  BY <1>3, <1>7, <1>11, <1>12, <1>13, Balances
<1>15. Phases'
  <2>1. Lists'
    BY <1>3, <1>4, <1>5 DEF Lists
  <2>2. \A o \in universe : state[o] = "zombie" => o \in kept
    BY <1>1, <1>2, <1>5
  <2>3. \A o \in universe : state'[o] # "zombie" /\ mark'[o] = 0 /\ list'[o] \in {"none", "gc"}
    BY SMTT(60), <1>1, <1>2, <1>3, <1>5, <2>2
  <2> QED
    BY <1>3, <2>1, <2>3 DEF Phases, Running, Zeroing, Scanning, Cycling
<1> QED
  BY <1>7, <1>11, <1>12, <1>14, <1>15, IInvNext

-----------------------------------------------------------------------------
(* free_object.                                                            *)

\* The registrations of p that become due, those of them that are queued, the
\* references that go with p, and those that its jobs take over.
Due(p) == {e \in Entry : entry[e].st = "registered" /\ entry[e].target = p}
Queued(p) == IF inFree THEN {} ELSE {e \in Due(p) : Usable(entry[e].held, p) /\ Usable(entry[e].cb, p)}
Gone(p) == {x \in Edges : \/ x[1] \in {p} \cup LastUse(p)
                          \/ x[2] = "map" /\ x[3] = p
                          \/ x[3] \in Due(p) \ Queued(p)
                          \/ x[3] \in Queued(p) /\ x[2] = "token"}
Moved(p) == {x \in Edges : x[3] \in Queued(p) /\ x[2] \in {"held", "cb"}}
Kept(p) == pc = "cycles" /\ rc[p] - Count(Gone(p), p) # 0
Freed(p) == LastUse(p) \cup (IF Kept(p) THEN {} ELSE {p})
Dying(p) ==
  /\ p \in universe \ VarRef /\ state[p] = "live" /\ pc \in {"zero", "cycles"} /\ (pc = "zero" => rc[p] = 0)
  /\ FreeObject(p)
  /\ UNCHANGED <<handles, frees, todo, inFree, universe>>

LEMMA DyingIs ==
  ASSUME NEW p, Dying(p)
  PROVE  /\ state' = [o \in universe |-> IF o \in Freed(p) THEN "absent" ELSE IF o = p THEN "zombie" ELSE state[o]]
         /\ rc' = [o \in universe |-> IF o \in Freed(p) THEN 0 ELSE rc[o] - Count(Gone(p), o)]
         /\ mark' = [o \in universe |-> IF o \in Freed(p) THEN 0 ELSE mark[o]]
         /\ list' = [o \in universe |->
                       IF o \in Freed(p) THEN "none"
                       ELSE IF o = p \/ (pc = "zero" /\ rc[o] - Count(Gone(p), o) = 0 /\ rc[o] > 0) THEN "zero" ELSE list[o]]
         /\ slot' = [o \in universe |-> IF o \in Freed(p) \cup {p} THEN [f \in Fields(o) |-> None] ELSE slot[o]]
         /\ records' = {r \in records : p \notin {r[1], r[2]}}
         /\ target' = [w \in DOMAIN target |-> IF p \in {w, target[w]} THEN None ELSE target[w]]
         /\ entry' = [e \in Entry |->
                        IF e \in Queued(p)
                        THEN [entry[e] EXCEPT !.st = "queued", !.reg = None, !.target = None, !.token = None]
                        ELSE IF e \in Due(p) \/ entry[e].reg = p THEN NoEntry ELSE entry[e]]
         /\ \E q \in SetToSeqs(Queued(p)) : jobs' = jobs \o q
         /\ UNCHANGED <<handles, frees, todo, inFree, universe>>
         /\ p \in universe \ VarRef
<1>1. \A o \in universe : [c \in universe |-> rc[c] - Count(Gone(p), c)][o] = rc[o] - Count(Gone(p), o)
  OBVIOUS
<1>2. p \in universe
  BY DEF Dying
<1> QED
  BY ZenonT(60), <1>1, <1>2 DEF Dying, FreeObject, Due, Queued, Gone, Kept, Freed

\* Which objects are freed.
LEMMA FreedAre ==
  ASSUME IInv, NEW p, Dying(p)
  PROVE  /\ LastUse(p) \subseteq universe \cap VarRef /\ p \notin LastUse(p)
         /\ Freed(p) \cup {p} = LastUse(p) \cup {p}
         /\ \A o \in universe : o \in Freed(p) <=> o \in LastUse(p) \/ (o = p /\ ~Kept(p))
         /\ Queued(p) \subseteq Due(p) /\ Due(p) \subseteq Entry
         /\ \A e \in Due(p) : entry[e].reg # p /\ entry[e].reg \notin LastUse(p)
<1>1. LastUse(p) \subseteq universe \cap VarRef /\ p \notin LastUse(p) /\ p \in universe
  BY DEF LastUse, Dying
<1>2. Freed(p) \cup {p} = LastUse(p) \cup {p} /\ \A o \in universe : o \in Freed(p) <=> o \in LastUse(p) \/ (o = p /\ ~Kept(p))
  BY <1>1 DEF Freed
<1>3. Queued(p) \subseteq Due(p) /\ Due(p) \subseteq Entry
  BY DEF Queued, Due
<1>4. ASSUME NEW e \in Due(p) PROVE entry[e].reg # p /\ entry[e].reg \notin LastUse(p)
  <2>1. e \in Entry /\ entry[e].st = "registered" /\ entry[e].target = p
    BY DEF Due
  <2>2. entry[e].reg # p
    BY <2>1, IInvIs DEF Structure, Weak
  <2>3. entry[e] \in EntryType(universe)
    BY <2>1, IInvIs DEF Contents
  <2>4. entry[e].reg \in Registry \cup {None}
    BY <2>3 DEF EntryType
  <2> QED
    BY <1>1, <2>2, <2>4, HeapAssumption DEF Object
<1> QED
  BY <1>1, <1>2, <1>3, <1>4

\* The contents of a registration that changes.
LEMMA EntryAfter ==
  ASSUME IInv, NEW p, Dying(p), NEW e \in Entry
  PROVE  /\ e \in Queued(p) => /\ entry'[e].st = "queued" /\ entry'[e].reg = None /\ entry'[e].target = None
                               /\ entry'[e].token = None /\ entry'[e].held = entry[e].held /\ entry'[e].cb = entry[e].cb
                               /\ entry[e].st = "registered"
         /\ e \notin Queued(p) /\ (e \in Due(p) \/ entry[e].reg = p) => entry'[e] = NoEntry /\ entry[e].st # "queued"
         /\ e \notin Due(p) /\ entry[e].reg # p => entry'[e] = entry[e]
         /\ entry'[e] \in EntryType(universe)
<1>1. Contents /\ Structure
  BY IInvIs
<1>2. entry[e] \in EntryType(universe) /\ (entry[e].st = "queued" => entry[e].reg = None) /\ p # None
  BY <1>1, HeapAssumption, IInvIs DEF Contents, Structure, Queue, Dying, Loops
<1>3. Queued(p) \subseteq Due(p)
  BY FreedAre
<1>4. entry'[e] = IF e \in Queued(p)
                  THEN [entry[e] EXCEPT !.st = "queued", !.reg = None, !.target = None, !.token = None]
                  ELSE IF e \in Due(p) \/ entry[e].reg = p THEN NoEntry ELSE entry[e]
  <2>1. entry' = [d \in Entry |->
                    IF d \in Queued(p)
                    THEN [entry[d] EXCEPT !.st = "queued", !.reg = None, !.target = None, !.token = None]
                    ELSE IF d \in Due(p) \/ entry[d].reg = p THEN NoEntry ELSE entry[d]]
    BY DyingIs
  <2> QED
    BY <2>1
<1>5. CASE e \in Queued(p)
  <2>1. entry'[e] = [entry[e] EXCEPT !.st = "queued", !.reg = None, !.target = None, !.token = None]
    BY <1>4, <1>5
  <2>2. entry[e].st = "registered" /\ e \in Due(p)
    BY <1>3, <1>5 DEF Due
  <2> QED
    BY <1>2, <1>5, <2>1, <2>2 DEF EntryType
<1>6. CASE e \notin Queued(p) /\ (e \in Due(p) \/ entry[e].reg = p)
  <2>1. entry'[e] = NoEntry /\ NoEntry \in EntryType(universe)
    BY <1>4, <1>6 DEF NoEntry, EntryType
  <2>2. entry[e].st # "queued"
    BY <1>2, <1>6 DEF Due
  <2> QED
    BY <1>6, <2>1, <2>2
<1>7. CASE e \notin Due(p) /\ entry[e].reg # p
  BY <1>2, <1>3, <1>4, <1>7
<1> QED
  BY <1>3, <1>5, <1>6, <1>7

LEMMA EdgesNext == (Edges = EdgesOf(universe, slot, records, entry) /\ JobEdges = JobEdgesOf(entry))'
  BY EdgesAre, PTL

\* The references that are left.
LEMMA DyingEdges ==
  ASSUME IInv, NEW p, Dying(p)
  PROVE  /\ Edges' = (Edges \ Gone(p)) \ Moved(p)
         /\ Gone(p) \subseteq Edges /\ Moved(p) \subseteq Edges /\ Gone(p) \cap Moved(p) = {}
<1>1. Contents /\ Structure /\ universe \in Universes
  BY IInvIs DEF Loops
<1>2. /\ \A x \in Edges : x[1] \in universe /\ x[4] \in universe /\ state[x[1]] = "live"
      /\ \A x : x \in Edges <=> IsEdge(x, universe, slot, records, entry)
  BY OwnersLive
<1>3. /\ LastUse(p) \subseteq universe \cap VarRef /\ p \notin LastUse(p) /\ Freed(p) \cup {p} = LastUse(p) \cup {p}
      /\ Queued(p) \subseteq Due(p) /\ Due(p) \subseteq Entry
      /\ \A e \in Due(p) : entry[e].reg # p /\ entry[e].reg \notin LastUse(p)
  BY FreedAre
<1>4. /\ slot' = [o \in universe |-> IF o \in Freed(p) \cup {p} THEN [f \in Fields(o) |-> None] ELSE slot[o]]
      /\ records' = {r \in records : p \notin {r[1], r[2]}} /\ universe' = universe
  BY DyingIs
<1>5. Triples(records) /\ Triples(records')
  BY <1>1, <1>4 DEF Contents, Triples
<1>6. PICK s, r, n : s = slot' /\ r = records' /\ n = entry'
  OBVIOUS
<1>7. \A x : x \in Edges' <=> IsEdge(x, universe, s, r, n)
  <2>1. Triples(r) /\ Edges' = EdgesOf(universe, s, r, n)
    BY <1>4, <1>5, <1>6, EdgesNext
  <2> QED
    BY <2>1, EdgeIs
<1>8. ASSUME NEW x, Tuple(x), x[4] # None, x[2] = "slot"
      PROVE  x \in Edges' <=> x \in (Edges \ Gone(p)) \ Moved(p)
  <2>1. x \in Edges <=> OfSlot(x, universe, slot)
    BY <1>2, <1>8 DEF IsEdge, OfRecord, OfEntry
  <2>2. x \in Edges' <=> OfSlot(x, universe, s)
    BY <1>7, <1>8 DEF IsEdge, OfRecord, OfEntry
  <2>3. OfSlot(x, universe, s) <=> OfSlot(x, universe, slot) /\ x[1] \notin {p} \cup LastUse(p)
    BY <1>3, <1>4, <1>6, <1>8 DEF OfSlot
  <2>4. OfSlot(x, universe, slot) => x[3] \notin Entry
    BY HeapAssumption DEF OfSlot, Fields
  <2>5. x \in Edges => (x \in Gone(p) <=> x[1] \in {p} \cup LastUse(p))
    BY <1>3, <1>8, <2>1, <2>4 DEF Gone
  <2> QED
    BY <1>8, <2>1, <2>2, <2>3, <2>5 DEF Moved
<1>9. ASSUME NEW x, Tuple(x), x[4] # None, x[2] = "map"
      PROVE  x \in Edges' <=> x \in (Edges \ Gone(p)) \ Moved(p)
  <2>1. x \in Edges <=> OfRecord(x, records)
    BY <1>2, <1>9 DEF IsEdge, OfSlot, OfEntry
  <2>2. x \in Edges' <=> OfRecord(x, r)
    BY <1>7, <1>9 DEF IsEdge, OfSlot, OfEntry
  <2>3. OfRecord(x, r) <=> OfRecord(x, records) /\ x[1] # p /\ x[3] # p
    BY <1>4, <1>6 DEF OfRecord
  <2>4. OfRecord(x, records) => x[3] \notin Entry /\ x[1] \notin LastUse(p)
    <3> SUFFICES ASSUME OfRecord(x, records) PROVE x[3] \notin Entry /\ x[1] \notin LastUse(p)
      OBVIOUS
    <3>1. PICK y \in records : y = <<x[3], x[1], x[4]>>
      BY DEF OfRecord
    <3>2. y[1] = x[3] /\ y[2] = x[1]
      BY <3>1
    <3>3. x[3] \in WeakMap
      BY <1>1, <3>1, <3>2 DEF Contents
    <3>4. x[1] \notin VarRef
      BY <1>1, <3>1, <3>2 DEF Structure, Captured
    <3> QED
      BY <1>3, <3>3, <3>4, HeapAssumption DEF Object
  <2>5. x \in Edges => (x \in Gone(p) <=> x[1] = p \/ x[3] = p)
    BY <1>3, <1>9, <2>1, <2>4 DEF Gone
  <2> QED
    BY <1>9, <2>1, <2>2, <2>3, <2>5 DEF Moved
<1>10. ASSUME NEW x, Tuple(x), x[4] # None, x[2] \in {"held", "token", "cb"}
       PROVE  x \in Edges' <=> x \in (Edges \ Gone(p)) \ Moved(p)
  <2>1. x \in Edges <=> OfEntry(x, entry)
    BY <1>2, <1>10 DEF IsEdge, OfSlot, OfRecord
  <2>2. x \in Edges' <=> OfEntry(x, n)
    BY <1>7, <1>10 DEF IsEdge, OfSlot, OfRecord
  <2>3. OfEntry(x, n) <=> OfEntry(x, entry) /\ x[3] \notin Due(p) /\ x[1] # p
    <3>1. CASE x[3] \notin Entry
      BY <3>1 DEF OfEntry
    <3>2. CASE x[3] \in Queued(p)
      BY <1>3, <1>6, <3>2, EntryAfter DEF OfEntry
    <3>3. CASE x[3] \in Entry /\ x[3] \notin Queued(p) /\ (x[3] \in Due(p) \/ entry[x[3]].reg = p)
      <4>1. n[x[3]] = NoEntry
        BY <1>6, <3>3, EntryAfter
      <4> QED
        BY <3>3, <4>1 DEF OfEntry, NoEntry
    <3>4. CASE x[3] \in Entry /\ x[3] \notin Due(p) /\ entry[x[3]].reg # p
      <4>1. n[x[3]] = entry[x[3]]
        BY <1>6, <3>4, EntryAfter
      <4> QED
        BY <3>4, <4>1 DEF OfEntry
    <3> QED
      BY <1>3, <3>1, <3>2, <3>3, <3>4
  <2>4. OfEntry(x, entry) => x[1] \notin LastUse(p)
    <3> SUFFICES ASSUME OfEntry(x, entry) PROVE x[1] \notin LastUse(p)
      OBVIOUS
    <3>1. x[1] = entry[x[3]].reg /\ entry[x[3]] \in EntryType(universe)
      BY <1>1 DEF OfEntry, Contents
    <3>2. x[1] \in Registry \cup {None}
      BY <3>1 DEF EntryType
    <3> QED
      BY <1>3, <3>2, HeapAssumption DEF Object
  <2>5. x \in Edges => (x \in Gone(p) \/ x \in Moved(p) <=> x[1] = p \/ x[3] \in Due(p))
    BY <1>3, <1>10, <2>1, <2>4 DEF Gone, Moved
  <2> QED
    BY <2>1, <2>2, <2>3, <2>5
<1>11. Edges' = (Edges \ Gone(p)) \ Moved(p)
  <2>1. ASSUME NEW x PROVE x \in Edges' <=> x \in (Edges \ Gone(p)) \ Moved(p)
    <3>1. x \in Edges' => Tuple(x) /\ x[4] # None /\ x[2] \in {"slot", "map", "held", "token", "cb"}
      BY <1>7 DEF IsEdge, OfSlot, OfRecord, OfEntry
    <3>2. x \in Edges => Tuple(x) /\ x[4] # None /\ x[2] \in {"slot", "map", "held", "token", "cb"}
      BY <1>2 DEF IsEdge, OfSlot, OfRecord, OfEntry
    <3> QED
      BY <1>8, <1>9, <1>10, <3>1, <3>2
  <2> QED
    BY <2>1
<1>12. Gone(p) \subseteq Edges /\ Moved(p) \subseteq Edges
  BY DEF Gone, Moved
<1>13. ASSUME NEW x \in Gone(p), x \in Moved(p) PROVE FALSE
  <2>1. x \in Edges /\ x[3] \in Queued(p) /\ x[2] \in {"held", "cb"} /\ x[3] \in Due(p)
    BY <1>3, <1>13 DEF Moved
  <2>2. x[1] = entry[x[3]].reg
    BY <1>2, <2>1 DEF IsEdge, OfSlot, OfRecord, OfEntry
  <2> QED
    BY <1>3, <1>13, <2>1, <2>2 DEF Gone
<1> QED
  BY <1>11, <1>12, <1>13

\* The references of the jobs: those of the registrations that are queued
\* have moved there.
LEMMA DyingJobs ==
  ASSUME IInv, NEW p, Dying(p)
  PROVE  /\ \A z \in universe : Count(Moved(p), z) \in Nat /\ Count(JobEdges', z) = Count(JobEdges, z) + Count(Moved(p), z)
         /\ \A x \in Moved(p) : x[3] \in Queued(p) /\ x[4] \in {entry[x[3]].held, entry[x[3]].cb}
<1>1. Contents /\ Structure /\ Loops /\ None \notin universe
  BY IInvIs, HeapAssumption DEF Loops
<1>2. /\ \A x : x \in Edges <=> IsEdge(x, universe, slot, records, entry)
      /\ \A o \in universe : PartsOf(o)
      /\ IsFiniteSet(Edges) /\ IsFiniteSet(JobEdges)
  BY OwnersLive
<1>3. Queued(p) \subseteq Due(p) /\ Due(p) \subseteq Entry
  BY FreedAre
<1>4. PICK n : n = entry'
  OBVIOUS
<1>5. PICK J, N : J = JobEdges /\ N = JobEdges'
  OBVIOUS
<1>6. ASSUME NEW x PROVE (x \in J <=> IsJobEdge(x, entry)) /\ (x \in N <=> IsJobEdge(x, n))
  <2>1. J = JobEdgesOf(entry) /\ N = JobEdgesOf(n)
    BY <1>4, <1>5, EdgesAre, EdgesNext
  <2> QED
    BY <2>1, JobEdgeIs
<1>7. PICK M : M = {x \in N : x[3] \in Queued(p)}
  OBVIOUS
<1>8. ASSUME NEW x
      PROVE  x \in M <=> /\ Tuple(x) /\ x[4] # None /\ x[1] = None /\ x[2] \in {"held", "cb"} /\ x[3] \in Queued(p)
                         /\ x[4] = Part(entry[x[3]], x[2])
  <2>1. CASE x[3] \in Queued(p)
    <3>1. n[x[3]].st = "queued" /\ n[x[3]].held = entry[x[3]].held /\ n[x[3]].cb = entry[x[3]].cb /\ x[3] \in Entry
      BY <1>3, <1>4, <2>1, EntryAfter
    <3> QED
      BY <1>6, <1>7, <2>1, <3>1 DEF IsJobEdge, Part
  <2>2. CASE x[3] \notin Queued(p)
    BY <1>7, <2>2
  <2> QED
    BY <2>1, <2>2
<1>9. ASSUME NEW x, x[3] \notin Queued(p) PROVE x \in N <=> x \in J
  <2>1. CASE x[3] \notin Entry
    BY <1>6, <2>1 DEF IsJobEdge
  <2>2. CASE x[3] \in Entry /\ (x[3] \in Due(p) \/ entry[x[3]].reg = p)
    <3>1. n[x[3]].st = "free" /\ entry[x[3]].st # "queued"
      BY <1>4, <1>9, <2>2, EntryAfter DEF NoEntry
    <3> QED
      BY <1>6, <3>1 DEF IsJobEdge
  <2>3. CASE x[3] \in Entry /\ x[3] \notin Due(p) /\ entry[x[3]].reg # p
    <3>1. n[x[3]] = entry[x[3]]
      BY <1>4, <2>3, EntryAfter
    <3> QED
      BY <1>6, <3>1 DEF IsJobEdge
  <2> QED
    BY <2>1, <2>2, <2>3
<1>10. \A x \in J : x[3] \notin Queued(p)
  BY <1>3, <1>6 DEF IsJobEdge, Due
<1>11. N = J \cup M /\ J \cap M = {}
  BY <1>7, <1>9, <1>10
<1>12. ASSUME NEW x
       PROVE  x \in Moved(p) <=> /\ Tuple(x) /\ x[4] # None /\ x[1] = entry[x[3]].reg /\ x[2] \in {"held", "cb"}
                                 /\ x[3] \in Queued(p) /\ x[4] = Part(entry[x[3]], x[2])
  <2>1. x[2] \in {"held", "cb"} => (x \in Edges <=> Tuple(x) /\ x[4] # None /\ OfEntry(x, entry))
    BY <1>2 DEF IsEdge, OfSlot, OfRecord
  <2>2. x[2] \in {"held", "cb"} /\ x[3] \in Queued(p) => (OfEntry(x, entry) <=> x[1] = entry[x[3]].reg /\ x[4] = Part(entry[x[3]], x[2]))
    BY <1>3 DEF OfEntry, Due
  <2> QED
    BY <2>1, <2>2 DEF Moved
<1>13. ASSUME NEW z \in universe
       PROVE  Count(Moved(p), z) \in Nat /\ Count(N, z) = Count(J, z) + Count(Moved(p), z)
  <2>1. PICK A, B : A = {x \in Moved(p) : x[4] = z} /\ B = {x \in M : x[4] = z}
    OBVIOUS
  <2>2. IsFiniteSet(A) /\ Count(Moved(p), z) = Cardinality(A) /\ Cardinality(A) \in Nat
    <3>1. A \in SUBSET Edges
      BY <2>1 DEF Moved
    <3> QED
      BY <1>2, <2>1, <3>1, FS_Subset, FS_CardinalityType DEF Count
  <2>3. DEFINE h == [x \in A |-> <<None, x[2], x[3], x[4]>>]
  <2>4. h \in [A -> B]
    <3> SUFFICES ASSUME NEW x \in A PROVE h[x] \in B
      OBVIOUS
    <3>1. PICK y : y = <<None, x[2], x[3], x[4]>>
      OBVIOUS
    <3>2. y[1] = None /\ y[2] = x[2] /\ y[3] = x[3] /\ y[4] = x[4] /\ Tuple(y)
      BY <3>1 DEF Tuple
    <3>3. x \in Moved(p) /\ x[4] = z
      BY <2>1
    <3>4. y \in M
      BY <1>8, <1>12, <3>2, <3>3
    <3>5. y \in B
      BY <2>1, <3>2, <3>3, <3>4
    <3> QED
      BY <3>1, <3>5
  <2>5. \A x, y \in A : h[x] = h[y] => x = y
    <3> SUFFICES ASSUME NEW x \in A, NEW y \in A, h[x] = h[y] PROVE x = y
      OBVIOUS
    <3>1. x[2] = y[2] /\ x[3] = y[3] /\ x[4] = y[4]
      OBVIOUS
    <3>2. x \in Moved(p) /\ y \in Moved(p)
      BY <2>1
    <3>3. Tuple(x) /\ Tuple(y) /\ x[1] = y[1]
      BY <1>12, <3>1, <3>2
    <3> QED
      BY <3>1, <3>3 DEF Tuple
  <2>6. \A y \in B : \E x \in A : h[x] = y
    <3> SUFFICES ASSUME NEW y \in B PROVE \E x \in A : h[x] = y
      OBVIOUS
    <3>1. y \in M /\ y[4] = z
      BY <2>1
    <3>2. PICK x : x = <<entry[y[3]].reg, y[2], y[3], y[4]>>
      OBVIOUS
    <3>3. x[1] = entry[x[3]].reg /\ x[2] = y[2] /\ x[3] = y[3] /\ x[4] = y[4] /\ Tuple(x)
      BY <3>2 DEF Tuple
    <3>4. x \in Moved(p)
      BY <1>8, <1>12, <3>1, <3>3
    <3>5. x \in A
      BY <2>1, <3>1, <3>3, <3>4
    <3>6. Tuple(y) /\ y[1] = None
      BY <1>8, <3>1
    <3> QED
      BY <3>3, <3>5, <3>6 DEF Tuple
  <2> HIDE DEF h
  <2>7. h \in Bijection(A, B)
    BY <2>4, <2>5, <2>6 DEF Bijection, Injection, Surjection, IsInjective
  <2>8. ExistsBijection(A, B)
    BY <2>7 DEF ExistsBijection
  <2>9. IsFiniteSet(B) /\ Cardinality(B) = Cardinality(A)
    BY <2>2, <2>8, FS_Bijection
  <2>10. PICK I : I = {x \in J : x[4] = z}
    OBVIOUS
  <2>11. IsFiniteSet(I) /\ Count(J, z) = Cardinality(I) /\ Cardinality(I) \in Nat
    <3>1. I \in SUBSET JobEdges
      BY <1>5, <2>10
    <3> QED
      BY <1>2, <2>10, <3>1, FS_Subset, FS_CardinalityType DEF Count
  <2>12. {x \in N : x[4] = z} = I \cup B /\ I \cap B = {}
    BY <1>11, <2>1, <2>10
  <2>13. Cardinality(I \cup B) = Cardinality(I) + Cardinality(B)
    <3>1. I \cap B = {} /\ Cardinality({}) = 0
      BY <2>12, FS_EmptySet
    <3>2. Cardinality(I \cup B) = Cardinality(I) + Cardinality(B) - Cardinality(I \cap B)
      BY ONLY <2>9, <2>11, FS_Union
    <3>3. Cardinality(I \cap B) = 0
      BY <3>1
    <3>4. Cardinality(I) \in Nat /\ Cardinality(B) \in Nat
      BY <2>2, <2>9, <2>11
    <3> QED
      BY ONLY <3>2, <3>3, <3>4
  <2>14. Count(N, z) = Cardinality(I \cup B)
    BY <2>12 DEF Count
  <2> QED
    BY <2>2, <2>9, <2>11, <2>13, <2>14
<1>14. \A x \in Moved(p) : x[3] \in Queued(p) /\ x[4] \in {entry[x[3]].held, entry[x[3]].cb}
  BY <1>12 DEF Part
<1> QED
  BY <1>5, <1>13, <1>14

\* CountMinus, in one fact.
Subtracts(E, F, o) ==
  /\ IsFiniteSet(E \ F) /\ Count(F, o) \in Nat /\ Count(E, o) \in Nat /\ Count(F, o) <= Count(E, o)
  /\ Count(E \ F, o) = Count(E, o) - Count(F, o)
LEMMA CountsSubtract ==
  ASSUME NEW E, IsFiniteSet(E), NEW F, F \subseteq E, NEW o
  PROVE  Subtracts(E, F, o)
  BY CountMinus DEF Subtracts

\* The counts that are left.
LEMMA DyingCounts ==
  ASSUME IInv, NEW p, Dying(p)
  PROVE  /\ rc' \in [universe -> Nat]
         /\ \A z \in universe : /\ rc'[z] = Total(z)' /\ (state'[z] = "absent" => rc'[z] = 0)
                                /\ External(z)' = External(z) + Count(Moved(p), z) /\ Count(Moved(p), z) \in Nat
                                /\ rc'[z] <= rc[z] /\ (z \notin Freed(p) => rc'[z] = rc[z] - Count(Gone(p), z))
                                /\ (rc[z] > 0 => state[z] # "absent")
<1>1. Contents /\ Structure /\ Loops /\ None \notin universe /\ pc # "scan"
  BY IInvIs, HeapAssumption DEF Loops, Dying
<1>2. /\ \A x : x \in Edges <=> IsEdge(x, universe, slot, records, entry)
      /\ \A o \in universe : PartsOf(o)
      /\ IsFiniteSet(Edges) /\ IsFiniteSet(JobEdges)
  BY OwnersLive
<1>3. PICK E, D, G, M : E = Edges /\ D = Edges' /\ G = Gone(p) /\ M = Moved(p)
  OBVIOUS
<1>4. D = (E \ G) \ M /\ G \subseteq E /\ M \subseteq E /\ G \cap M = {} /\ IsFiniteSet(E)
  BY <1>2, <1>3, DyingEdges
<1>5. PICK R : R = E \ G
  OBVIOUS
<1>6. UNCHANGED <<handles, frees, todo, inFree, universe>> /\ p \in universe /\ p \notin VarRef /\ state[p] = "live"
  BY DEF Dying
<1>7. ASSUME NEW z \in universe
      PROVE  /\ Count(G, z) \in Nat /\ Count(M, z) \in Nat /\ Count(E, z) \in Nat /\ Count(D, z) \in Nat
             /\ Count(D, z) = (Count(E, z) - Count(G, z)) - Count(M, z)
  <2>1. /\ IsFiniteSet(R) /\ Count(G, z) \in Nat /\ Count(E, z) \in Nat /\ Count(G, z) <= Count(E, z)
        /\ Count(R, z) = Count(E, z) - Count(G, z)
    <3>1. G \subseteq E /\ IsFiniteSet(E)
      BY <1>4
    <3>2. Subtracts(E, G, z)
      BY ONLY <3>1, CountsSubtract
    <3> QED
      BY ONLY <1>5, <3>2 DEF Subtracts
  <2>2. M \subseteq R /\ IsFiniteSet(R) /\ D = R \ M
    BY <1>4, <1>5, <2>1
  <2>3. Subtracts(R, M, z)
    BY ONLY <2>2, CountsSubtract
  <2>4. Count(M, z) \in Nat /\ Count(R, z) \in Nat /\ Count(M, z) <= Count(R, z) /\ Count(D, z) = Count(R, z) - Count(M, z)
    BY ONLY <2>2, <2>3 DEF Subtracts
  <2> QED
    BY ONLY <2>1, <2>4
<1>8. ASSUME NEW z \in universe
      PROVE  /\ External(z)' = External(z) + Count(M, z)
             /\ Total(z)' = rc[z] - Count(G, z) /\ Total(z)' \in Nat /\ rc[z] \in Nat /\ (rc[z] > 0 => state[z] # "absent")
  <2>1. PartsOf(z)
    BY <1>2
  <2>2. rc[z] = Total(z) /\ rc[z] \in Nat /\ (rc[z] > 0 => state[z] # "absent")
    BY <1>1, Referred
  <2>3. PICK j, k : j = Count(JobEdges, z) /\ k = Count(JobEdges', z)
    OBVIOUS
  <2>4. k = j + Count(M, z)
    BY <1>3, <2>3, DyingJobs
  <2>5. External(z) = handles[z] + j + Pending(frees, z)
    BY <2>3, EdgesAre, ExternalIs
  <2>6. External(z)' = handles[z] + k + Pending(frees, z)
    BY <1>6, <2>3, EdgesNext DEF External, Pending
  <2>7. Total(z)' = handles[z] + k + Pending(frees, z) + Count(D, z)
    BY <1>3, <1>6, <2>3, EdgesNext DEF Total
  <2>8. Total(z) = handles[z] + j + Pending(frees, z) + Count(E, z)
    BY <1>3, <2>3, EdgesAre DEF Total
  <2>9. handles[z] \in Nat /\ j \in Nat /\ Pending(frees, z) \in Nat
    BY <2>1, <2>3 DEF PartsOf
  <2>10. /\ Count(G, z) \in Nat /\ Count(M, z) \in Nat /\ Count(E, z) \in Nat /\ Count(D, z) \in Nat
         /\ Count(D, z) = (Count(E, z) - Count(G, z)) - Count(M, z)
    BY <1>7
  <2>11. External(z)' = External(z) + Count(M, z)
    BY <2>4, <2>5, <2>6, <2>9, <2>10
  <2>12. Total(z)' = rc[z] - Count(G, z) /\ Total(z)' \in Nat
    BY <2>2, <2>4, <2>7, <2>8, <2>9, <2>10
  <2> QED
    BY <2>2, <2>11, <2>12
<1>9. ASSUME NEW z \in Freed(p), z \in universe PROVE Total(z)' = 0
  <2>1. Total(z)' = rc[z] - Count(G, z) /\ Total(z)' \in Nat /\ rc[z] \in Nat /\ Count(G, z) \in Nat
    BY <1>7, <1>8, <1>9
  <2>2. CASE z = p
    <3>1. ~Kept(p)
      BY <1>9, <2>2, FreedAre
    <3>2. CASE pc = "cycles"
      BY <1>3, <2>1, <2>2, <3>1, <3>2 DEF Kept
    <3>3. CASE pc = "zero"
      BY <2>1, <2>2, <3>3 DEF Dying
    <3> QED
      BY <3>2, <3>3 DEF Dying
  <2>3. CASE z \in LastUse(p)
    <3>1. p \in Function /\ slot[p]["ref"] = z /\ rc[z] = 1
      BY <2>3 DEF LastUse
    <3>2. PICK x : x = <<p, "slot", "ref", z>>
      OBVIOUS
    <3>3. x[1] = p /\ x[2] = "slot" /\ x[3] = "ref" /\ x[4] = z /\ Tuple(x)
      BY <3>2 DEF Tuple
    <3>4. "ref" \in Fields(p)
      BY <3>1, HeapAssumption DEF Fields
    <3>5. x \in Edges
      BY <1>1, <1>2, <1>6, <1>9, <3>1, <3>3, <3>4 DEF IsEdge, OfSlot
    <3>6. x \in G
      BY <1>3, <3>3, <3>5 DEF Gone
    <3>7. IsFiniteSet(G)
      BY ONLY <1>4, FS_Subset
    <3>8. Count(G, z) # 0
      BY <3>3, <3>6, <3>7, CountZero
    <3> QED
      BY <2>1, <3>1, <3>8
  <2> QED
    BY <1>9, <2>2, <2>3, FreedAre
<1>10. rc' = [o \in universe |-> IF o \in Freed(p) THEN 0 ELSE rc[o] - Count(Gone(p), o)]
  BY DyingIs
<1>11. \A z \in universe : rc'[z] = Total(z)' /\ Total(z)' \in Nat
  BY <1>3, <1>8, <1>9, <1>10
<1>12. rc' \in [universe -> Nat]
  BY <1>10, <1>11
<1>13. state' = [o \in universe |-> IF o \in Freed(p) THEN "absent" ELSE IF o = p THEN "zombie" ELSE state[o]]
  BY DyingIs
<1>14. ASSUME NEW z \in universe
       PROVE  /\ state'[z] = "absent" => rc'[z] = 0
              /\ rc'[z] <= rc[z] /\ (z \notin Freed(p) => rc'[z] = rc[z] - Count(Gone(p), z))
  <2>1. rc'[z] = IF z \in Freed(p) THEN 0 ELSE rc[z] - Count(Gone(p), z)
    BY <1>10
  <2>2. Count(Gone(p), z) \in Nat /\ rc[z] \in Nat /\ rc'[z] \in Nat /\ (rc[z] > 0 => state[z] # "absent")
    BY <1>3, <1>7, <1>8, <1>12
  <2>3. state'[z] = "absent" => z \in Freed(p) \/ state[z] = "absent"
    BY <1>13
  <2> QED
    BY <2>1, <2>2, <2>3
<1>15. \A z \in universe : External(z)' = External(z) + Count(Moved(p), z) /\ Count(Moved(p), z) \in Nat
  BY <1>3, <1>7, <1>8
<1> QED
  BY <1>8, <1>11, <1>12, <1>14, <1>15

\* Two references to an object count more than one.
LEMMA TwoReferences ==
  ASSUME NEW E, IsFiniteSet(E), NEW o, NEW x \in E, NEW y \in E, x # y, x[4] = o, y[4] = o
  PROVE  Count(E, o) > 1
<1>1. PICK F : F = {x}
  OBVIOUS
<1>2. F \subseteq E /\ Count(F, o) = 1 /\ IsFiniteSet(E)
  BY <1>1, CountOne
<1>3. Count(E, o) \in Nat /\ Count(E \ F, o) = Count(E, o) - Count(F, o) /\ IsFiniteSet(E \ F)
  BY ONLY <1>2, CountMinus
<1>4. Count(E \ F, o) # 0
  BY <1>1, <1>3, CountZero
<1>5. Count(E \ F, o) \in Nat
  BY ONLY <1>3, CountType
<1> QED
  BY <1>2, <1>3, <1>4, <1>5

\* Only closures refer to a captured variable.
LEMMA VariableOwners ==
  ASSUME IInv, NEW v \in universe \cap VarRef
  PROVE  /\ External(v) = 0
         /\ \A x \in Edges : x[4] = v => /\ x[1] \in universe \cap Function /\ state[x[1]] = "live"
                                         /\ x[2] = "slot" /\ x[3] = "ref" /\ Tuple(x) /\ slot[x[1]]["ref"] = v
         /\ \A f \in universe \cap Function : slot[f]["ref"] = v =>
              /\ <<f, "slot", "ref", v>> \in Edges /\ <<f, "slot", "ref", v>>[1] = f /\ <<f, "slot", "ref", v>>[4] = v
<1>1. Contents /\ Structure /\ None \notin universe
  BY IInvIs, HeapAssumption DEF Loops
<1>2. Captured
  BY <1>1 DEF Structure
<1>3. /\ \A x : x \in Edges <=> IsEdge(x, universe, slot, records, entry)
      /\ \A x \in Edges : x[1] \in universe /\ state[x[1]] = "live"
      /\ PartsOf(v) /\ IsFiniteSet(JobEdges)
  BY OwnersLive
<1>4. External(v) = 0
  <2>1. ASSUME NEW x \in JobEdges, x[4] = v PROVE FALSE
    <3>1. IsJobEdge(x, entry)
      BY EdgesAre, JobEdgeIs
    <3>2. x[3] \in Entry /\ v \in {entry[x[3]].held, entry[x[3]].cb}
      BY <2>1, <3>1 DEF IsJobEdge, Part
    <3> QED
      BY <1>2, <3>2 DEF Captured
  <2>2. Count(JobEdges, v) = 0
    BY <1>3, <2>1, CountZero
  <2>3. Pending(frees, v) = 0
    <3>1. frees \in Seq(Value) /\ \A i \in DOMAIN frees : frees[i] # v
      BY <1>1, <1>2 DEF Contents, Captured
    <3> QED
      BY <3>1, PendingType
  <2>4. handles[v] = 0
    BY <1>2 DEF Captured
  <2> QED
    BY <1>3, <2>2, <2>3, <2>4 DEF PartsOf
<1>5. ASSUME NEW x \in Edges, x[4] = v
      PROVE  /\ x[1] \in universe \cap Function /\ state[x[1]] = "live"
             /\ x[2] = "slot" /\ x[3] = "ref" /\ Tuple(x) /\ slot[x[1]]["ref"] = v
  <2>1. IsEdge(x, universe, slot, records, entry)
    BY <1>3
  <2>2. ~OfRecord(x, records)
    <3> SUFFICES ASSUME OfRecord(x, records) PROVE FALSE
      OBVIOUS
    <3>1. PICK r \in records : r = <<x[3], x[1], x[4]>>
      BY DEF OfRecord
    <3>2. r[3] = v
      BY <1>5, <3>1
    <3> QED
      BY <1>2, <3>2 DEF Captured
  <2>3. ~OfEntry(x, entry)
    BY <1>2, <1>5 DEF Captured, OfEntry, Part
  <2>4. OfSlot(x, universe, slot) /\ Tuple(x)
    BY <2>1, <2>2, <2>3 DEF IsEdge
  <2>5. x[1] \in Function
    BY <1>2, <1>5, <2>4 DEF OfSlot, Captured
  <2>6. Fields(x[1]) = {"ref"}
    BY <2>5, HeapAssumption DEF Fields
  <2> QED
    BY <1>3, <1>5, <2>4, <2>5, <2>6 DEF OfSlot
<1>6. ASSUME NEW f \in universe \cap Function, slot[f]["ref"] = v
      PROVE  <<f, "slot", "ref", v>> \in Edges /\ <<f, "slot", "ref", v>>[1] = f /\ <<f, "slot", "ref", v>>[4] = v
  <2>1. PICK x : x = <<f, "slot", "ref", v>>
    OBVIOUS
  <2>2. x[1] = f /\ x[2] = "slot" /\ x[3] = "ref" /\ x[4] = v /\ Tuple(x)
    BY <2>1 DEF Tuple
  <2>3. "ref" \in Fields(f) /\ v # None
    BY <1>1, HeapAssumption DEF Fields
  <2>4. x \in Edges
    BY <1>3, <1>6, <2>2, <2>3 DEF IsEdge, OfSlot
  <2> QED
    BY <2>1, <2>2, <2>4
<1> QED
  BY <1>4, <1>5, <1>6

\* What a step of free_object leaves to what it does not free.
LEMMA DyingLeaves ==
  ASSUME IInv, NEW p, Dying(p), NEW o \in universe
  PROVE  /\ state'[o] = "live" <=> state[o] = "live" /\ o # p /\ o \notin LastUse(p)
         /\ o # p /\ o \notin LastUse(p) => state'[o] = state[o] /\ mark'[o] = mark[o] /\ slot'[o] = slot[o]
         /\ o = p \/ o \in LastUse(p) => slot'[o] = [f \in Fields(o) |-> None]
         /\ o \notin VarRef => o \notin LastUse(p)
<1>1. /\ state' = [z \in universe |-> IF z \in Freed(p) THEN "absent" ELSE IF z = p THEN "zombie" ELSE state[z]]
      /\ mark' = [z \in universe |-> IF z \in Freed(p) THEN 0 ELSE mark[z]]
      /\ slot' = [z \in universe |-> IF z \in Freed(p) \cup {p} THEN [f \in Fields(z) |-> None] ELSE slot[z]]
  BY ZenonT(60), DyingIs
<1>2. /\ LastUse(p) \subseteq universe \cap VarRef /\ Freed(p) \cup {p} = LastUse(p) \cup {p}
      /\ o \in Freed(p) <=> o \in LastUse(p) \/ (o = p /\ ~Kept(p))
  BY FreedAre
<1>3. state'[o] = IF o \in Freed(p) THEN "absent" ELSE IF o = p THEN "zombie" ELSE state[o]
  BY <1>1
<1>4. mark'[o] = IF o \in Freed(p) THEN 0 ELSE mark[o]
  BY <1>1
<1>5. slot'[o] = IF o \in Freed(p) \cup {p} THEN [f \in Fields(o) |-> None] ELSE slot[o]
  BY <1>1
<1> QED
  BY <1>2, <1>3, <1>4, <1>5

\* The jobs that free_object enqueues.
LEMMA DyingQueue ==
  ASSUME IInv, NEW p, Dying(p)
  PROVE  jobs' \in Seq(Entry) /\ Queue'
<1>1. jobs \in Seq(Entry) /\ Queue
  BY IInvIs DEF Contents, Structure
<1>2. Queued(p) \subseteq Due(p) /\ Due(p) \subseteq Entry
  BY FreedAre
<1>3. PICK N : N = Cardinality(Queued(p))
  OBVIOUS
<1>4. IsFiniteSet(Queued(p)) /\ N \in Nat
  BY <1>2, <1>3, HeapAssumption, FS_Subset, FS_CardinalityType
<1>5. PICK q : q \in [1 .. N -> Queued(p)] /\ (\A i, j \in 1 .. N : i # j => q[i] # q[j]) /\ jobs' = jobs \o q
  <2>1. PICK q \in SetToSeqs(Queued(p)) : jobs' = jobs \o q
    BY DyingIs
  <2>2. q \in [1 .. N -> Queued(p)] /\ \A i, j \in 1 .. N : i # j => q[i] # q[j]
    BY <1>3, <2>1 DEF SetToSeqs
  <2> QED
    BY <2>1, <2>2
<1>6. \A e \in Queued(p) : \E i \in 1 .. N : q[i] = e
  <2>1. q \in Injection(1 .. N, Queued(p))
    BY <1>5 DEF Injection, IsInjective
  <2>2. Cardinality(1 .. N) = N
    BY <1>4, FS_Interval
  <2>3. q \in Surjection(1 .. N, Queued(p))
    BY <1>3, <1>4, <2>1, <2>2, FS_Injection
  <2> QED
    BY <2>3 DEF Surjection
<1>7. q \in Seq(Entry) /\ Len(q) = N /\ DOMAIN q = 1 .. N
  BY <1>2, <1>4, <1>5
<1>8. jobs' \in Seq(Entry)
  BY <1>1, <1>5, <1>7
<1>9. PICK J : J = jobs'
  OBVIOUS
<1>10. PICK k : k = Len(jobs)
  OBVIOUS
<1>11. /\ k \in Nat /\ DOMAIN jobs = 1 .. k /\ DOMAIN J = 1 .. (k + N)
       /\ \A i \in 1 .. k : J[i] = jobs[i]
       /\ \A i \in 1 .. N : J[k + i] = q[i]
       /\ \A i \in DOMAIN J : i \in 1 .. k \/ (i - k \in 1 .. N /\ k + (i - k) = i)
  <2>1. PICK s : s = jobs
    OBVIOUS
  <2>2. s \in Seq(Entry) /\ q \in Seq(Entry) /\ k = Len(s) /\ N = Len(q) /\ J = s \o q
    BY <1>1, <1>5, <1>7, <1>9, <1>10, <2>1
  <2>3. k \in Nat /\ N \in Nat /\ DOMAIN s = 1 .. k /\ Len(J) = k + N /\ DOMAIN J = 1 .. Len(J)
    BY ONLY <2>2
  <2>4. \A i \in 1 .. k + N : J[i] = IF i <= k THEN s[i] ELSE q[i - k]
    BY ONLY <2>2
  <2>5. \A i \in 1 .. k : J[i] = s[i]
    BY ONLY <2>3, <2>4
  <2>6. \A i \in 1 .. N : k + i \in 1 .. k + N /\ ~(k + i <= k) /\ (k + i) - k = i
    BY ONLY <2>3
  <2>7. \A i \in 1 .. N : J[k + i] = q[i]
    BY ONLY <2>4, <2>6
  <2>8. \A i \in 1 .. k + N : i \in 1 .. k \/ (i - k \in 1 .. N /\ k + (i - k) = i)
    BY ONLY <2>3
  <2> QED
    BY <2>1, <2>3, <2>5, <2>7, <2>8
<1>12. \A i \in 1 .. k : entry[jobs[i]].st = "queued" /\ jobs[i] \in Entry
  BY <1>1, <1>11 DEF Queue
<1>13. \A i \in 1 .. N : entry[q[i]].st = "registered"
  BY <1>2, <1>5 DEF Due
<1>14. \A i, j \in DOMAIN J : J[i] = J[j] => i = j
  <2> SUFFICES ASSUME NEW i \in DOMAIN J, NEW j \in DOMAIN J, J[i] = J[j] PROVE i = j
    OBVIOUS
  <2>1. CASE i \in 1 .. k /\ j \in 1 .. k
    BY <1>1, <1>11, <2>1 DEF Queue
  <2>2. CASE i \in 1 .. k /\ j \notin 1 .. k
    <3>1. J[i] = jobs[i] /\ J[j] = q[j - k] /\ j - k \in 1 .. N
      BY <1>11, <2>2
    <3> QED
      BY <1>12, <1>13, <2>2, <3>1
  <2>3. CASE i \notin 1 .. k /\ j \in 1 .. k
    <3>1. J[j] = jobs[j] /\ J[i] = q[i - k] /\ i - k \in 1 .. N
      BY <1>11, <2>3
    <3> QED
      BY <1>12, <1>13, <2>3, <3>1
  <2>4. CASE i \notin 1 .. k /\ j \notin 1 .. k
    <3>1. J[i] = q[i - k] /\ i - k \in 1 .. N /\ J[j] = q[j - k] /\ j - k \in 1 .. N /\ i = k + (i - k) /\ j = k + (j - k)
      BY <1>11, <2>4
    <3>2. i - k = j - k
      BY <1>5, <3>1
    <3> QED
      BY <3>1, <3>2
  <2> QED
    BY <2>1, <2>2, <2>3, <2>4
<1>15. ASSUME NEW e \in Entry
       PROVE  (entry'[e].st = "queued" <=> \E i \in DOMAIN J : J[i] = e) /\ (entry'[e].st = "queued" => entry'[e].reg = None)
  <2>1. (entry'[e].st = "queued" <=> e \in Queued(p) \/ entry[e].st = "queued") /\ (entry'[e].st = "queued" => entry'[e].reg = None)
    <3>1. CASE e \in Queued(p)
      BY <3>1, EntryAfter
    <3>2. CASE e \notin Queued(p) /\ (e \in Due(p) \/ entry[e].reg = p)
      <4>1. entry'[e] = NoEntry /\ entry[e].st # "queued"
        BY <3>2, EntryAfter
      <4> QED
        BY <3>2, <4>1 DEF NoEntry
    <3>3. CASE e \notin Due(p) /\ entry[e].reg # p
      <4>1. entry'[e] = entry[e] /\ e \notin Queued(p)
        BY <1>2, <3>3, EntryAfter
      <4> QED
        BY <1>1, <4>1 DEF Queue
    <3> QED
      BY <1>2, <3>1, <3>2, <3>3
  <2>2. (\E i \in DOMAIN J : J[i] = e) => e \in Queued(p) \/ entry[e].st = "queued"
    BY <1>5, <1>11, <1>12
  <2>3. e \in Queued(p) => \E i \in DOMAIN J : J[i] = e
    <3> SUFFICES ASSUME e \in Queued(p) PROVE \E i \in DOMAIN J : J[i] = e
      OBVIOUS
    <3>1. PICK i \in 1 .. N : q[i] = e
      BY <1>6
    <3>2. J[k + i] = e /\ k + i \in DOMAIN J
      BY <1>4, <1>11, <3>1
    <3> QED
      BY <3>2
  <2>4. entry[e].st = "queued" => \E i \in DOMAIN J : J[i] = e
    <3> SUFFICES ASSUME entry[e].st = "queued" PROVE \E i \in DOMAIN J : J[i] = e
      OBVIOUS
    <3>1. PICK i \in 1 .. k : jobs[i] = e
      BY <1>1, <1>11 DEF Queue
    <3>2. J[i] = e /\ i \in DOMAIN J
      BY <1>4, <1>11, <3>1
    <3> QED
      BY <3>2
  <2> QED
    BY <2>1, <2>2, <2>3, <2>4
<1>16. Queue'
  BY <1>9, <1>14, <1>15 DEF Queue
<1> QED
  BY <1>8, <1>16

\* What free_object leaves has its types.
LEMMA DyingContents ==
  ASSUME IInv, NEW p, Dying(p)
  PROVE  Contents'
<1>1. Contents /\ None \notin universe
  BY IInvIs, HeapAssumption DEF Loops
<1>2. /\ slot' = [o \in universe |-> IF o \in Freed(p) \cup {p} THEN [f \in Fields(o) |-> None] ELSE slot[o]]
      /\ records' = {r \in records : p \notin {r[1], r[2]}}
      /\ target' = [w \in DOMAIN target |-> IF p \in {w, target[w]} THEN None ELSE target[w]]
      /\ UNCHANGED <<handles, frees, universe>>
  BY ZenonT(60), DyingIs
<1>3. jobs' \in Seq(Entry)
  BY DyingQueue
<1>4. entry' \in [Entry -> EntryType(universe)]
  <2>1. entry' = [e \in Entry |->
                    IF e \in Queued(p)
                    THEN [entry[e] EXCEPT !.st = "queued", !.reg = None, !.target = None, !.token = None]
                    ELSE IF e \in Due(p) \/ entry[e].reg = p THEN NoEntry ELSE entry[e]]
    BY DyingIs
  <2>2. \A e \in Entry : entry'[e] \in EntryType(universe)
    BY EntryAfter
  <2> QED
    BY <2>1, <2>2
<1>5. Fielded' /\ \A o \in universe : slot'[o] \in [Fields(o) -> Value]
  <2>1. DOMAIN slot' = universe
    BY <1>2
  <2>2. ASSUME NEW o \in universe PROVE slot'[o] \in [Fields(o) -> Value]
    <3>1. slot'[o] = IF o \in Freed(p) \cup {p} THEN [f \in Fields(o) |-> None] ELSE slot[o]
      BY <1>2
    <3>2. slot[o] \in [Fields(o) -> Value]
      BY <1>1 DEF Contents
    <3> QED
      BY <3>1, <3>2 DEF Value
  <2> QED
    BY <1>2, <2>1, <2>2 DEF Fielded
<1>6. records' \subseteq WeakMap \X universe \X Value
  BY <1>1, <1>2 DEF Contents
<1>7. target' \in [universe \cap WeakRef -> Value]
  <2>1. target \in [universe \cap WeakRef -> Value] /\ None \in Value
    BY <1>1 DEF Contents, Value
  <2> QED
    BY <1>2, <2>1
<1>8. handles \in [universe -> 0 .. MaxHandles] /\ frees \in Seq(Value)
  BY <1>1 DEF Contents
<1>9. Value' = Value
  BY <1>2 DEF Value
<1> QED
  BY <1>2, <1>3, <1>4, <1>5, <1>6, <1>7, <1>8, <1>9 DEF Contents

\* A variable that another closure shares outlives this one.
LEMMA DyingCaptured ==
  ASSUME IInv, NEW p, Dying(p)
  PROVE  Captured'
<1>1. Contents /\ Captured /\ None \notin universe /\ pc # "scan"
  BY IInvIs, HeapAssumption DEF Loops, Structure, Dying
<1>2. /\ records' = {r \in records : p \notin {r[1], r[2]}}
      /\ target' = [w \in DOMAIN target |-> IF p \in {w, target[w]} THEN None ELSE target[w]]
      /\ UNCHANGED <<handles, frees, universe>> /\ p \in universe \ VarRef
  BY DyingIs
<1>3. \A o \in universe : PartsOf(o) /\ IsFiniteSet(Edges)
  BY OwnersLive
<1>4. None \notin VarRef /\ Function \cap VarRef = {} /\ \A f \in Function : Fields(f) = {"ref"}
  BY HeapAssumption DEF Object, Fields
<1>5. ASSUME NEW v \in universe \cap VarRef
      PROVE  Count(Edges, v) = rc[v] /\ IsFiniteSet(Edges)
  <2>1. External(v) = 0
    BY VariableOwners
  <2>2. rc[v] = Total(v)
    BY <1>1, Referred
  <2>3. Total(v) = External(v) + Count(Edges, v) /\ Count(Edges, v) \in Nat
    BY <1>3 DEF PartsOf
  <2> QED
    BY <1>3, <2>1, <2>2, <2>3
<1>6. ASSUME NEW f \in universe \cap Function, state'[f] = "live"
      PROVE  slot'[f]["ref"] \in VarRef /\ state'[slot'[f]["ref"]] = "live"
  <2>1. state[f] = "live" /\ f # p /\ slot'[f] = slot[f]
    BY <1>4, <1>6, DyingLeaves
  <2>2. PICK v : v = slot[f]["ref"]
    OBVIOUS
  <2>3. v \in VarRef /\ state[v] = "live"
    BY <1>1, <2>1, <2>2 DEF Captured
  <2>4. v \in universe
    <3>1. slot[f] \in [Fields(f) -> Value] /\ "ref" \in Fields(f)
      BY <1>1, <1>4 DEF Contents
    <3>2. v \in Value
      BY <2>2, <3>1
    <3> QED
      BY <1>4, <2>3, <3>2 DEF Value
  <2>5. v \notin LastUse(p)
    <3> SUFFICES ASSUME v \in LastUse(p) PROVE FALSE
      OBVIOUS
    <3>1. p \in universe \cap Function /\ slot[p]["ref"] = v /\ rc[v] = 1
      BY <1>2 DEF LastUse
    <3>2. PICK x, y : x = <<p, "slot", "ref", v>> /\ y = <<f, "slot", "ref", v>>
      OBVIOUS
    <3>3. x \in Edges /\ x[4] = v /\ x[1] = p
      BY <2>3, <2>4, <3>1, <3>2, VariableOwners
    <3>4. y \in Edges /\ y[4] = v /\ y[1] = f
      BY <2>2, <2>3, <2>4, <3>2, VariableOwners
    <3>5. PICK E : E = Edges
      OBVIOUS
    <3>6. IsFiniteSet(E) /\ x \in E /\ y \in E /\ x # y /\ x[4] = v /\ y[4] = v
      BY <1>3, <2>1, <2>4, <3>3, <3>4, <3>5
    <3>7. Count(E, v) > 1
      BY ONLY <3>6, TwoReferences
    <3> QED
      BY <1>5, <2>3, <2>4, <3>1, <3>5, <3>7
  <2>6. v # p
    BY <1>2, <2>3
  <2>7. state'[v] = "live"
    BY <2>3, <2>4, <2>5, <2>6, DyingLeaves
  <2> QED
    BY <2>1, <2>2, <2>3, <2>7
<1>7. ASSUME NEW v \in universe \cap VarRef, state'[v] = "live" PROVE \E f \in universe \cap Function : slot'[f]["ref"] = v
  <2>1. state[v] = "live" /\ v \notin LastUse(p)
    BY <1>7, DyingLeaves
  <2>2. PICK f \in universe \cap Function : slot[f]["ref"] = v
    BY <1>1, <2>1 DEF Captured
  <2>3. CASE f # p
    <3>1. slot'[f] = slot[f]
      BY <1>4, <2>3, DyingLeaves
    <3> QED
      BY <2>2, <3>1
  <2>4. CASE f = p
    <3>1. rc[v] # 1
      BY <2>1, <2>2, <2>4 DEF LastUse
    <3>2. PICK y, E : y = <<f, "slot", "ref", v>> /\ E = Edges
      OBVIOUS
    <3>3. IsFiniteSet(E) /\ Count(E, v) # 1 /\ y \in E /\ y[4] = v
      BY <1>5, <2>2, <3>1, <3>2, VariableOwners
    <3>4. PICK x \in E : x # y /\ x[4] = v
      BY ONLY <3>3, CountAnother
    <3>5. x[1] \in universe \cap Function /\ x[2] = "slot" /\ x[3] = "ref" /\ Tuple(x) /\ slot[x[1]]["ref"] = v
      BY <3>2, <3>4, VariableOwners
    <3>6. x[1] # f
      BY <3>2, <3>4, <3>5 DEF Tuple
    <3>7. PICK g : g = x[1]
      OBVIOUS
    <3>8. g \in universe /\ g # p /\ g \notin VarRef
      BY <1>4, <2>4, <3>5, <3>6, <3>7
    <3>9. slot'[g] = slot[g]
      BY <3>8, DyingLeaves
    <3> QED
      BY <3>5, <3>7, <3>9
  <2> QED
    BY <2>3, <2>4
<1>8. ASSUME NEW o \in universe \ Function, NEW f \in Fields(o) PROVE slot'[o][f] \notin VarRef
  <2>1. CASE o = p \/ o \in LastUse(p)
    <3>1. slot'[o] = [g \in Fields(o) |-> None]
      BY <2>1, DyingLeaves
    <3> QED
      BY <1>4, <3>1
  <2>2. CASE o # p /\ o \notin LastUse(p)
    <3>1. slot'[o] = slot[o]
      BY <2>2, DyingLeaves
    <3> QED
      BY <1>1, <3>1 DEF Captured
  <2> QED
    BY <2>1, <2>2
<1>9. ASSUME NEW e \in Entry PROVE {entry'[e].held, entry'[e].token, entry'[e].cb, entry'[e].target} \cap VarRef = {}
  <2>1. {entry[e].held, entry[e].token, entry[e].cb, entry[e].target} \cap VarRef = {}
    BY <1>1 DEF Captured
  <2>2. CASE e \in Queued(p)
    BY <1>4, <2>1, <2>2, EntryAfter
  <2>3. CASE e \notin Queued(p) /\ (e \in Due(p) \/ entry[e].reg = p)
    <3>1. entry'[e] = NoEntry
      BY <2>3, EntryAfter
    <3> QED
      BY <1>4, <3>1 DEF NoEntry
  <2>4. CASE e \notin Due(p) /\ entry[e].reg # p
    <3>1. entry'[e] = entry[e]
      BY <2>4, EntryAfter
    <3> QED
      BY <2>1, <3>1
  <2> QED
    BY <2>2, <2>3, <2>4, FreedAre
<1>10. \A w \in DOMAIN target' : target'[w] \notin VarRef
  BY <1>1, <1>2, <1>4 DEF Captured
<1>11. \A r \in records' : r[2] \notin VarRef /\ r[3] \notin VarRef
  BY <1>1, <1>2 DEF Captured
<1>12. (\A v \in universe \cap VarRef : handles'[v] = 0) /\ \A i \in DOMAIN frees' : frees'[i] \notin VarRef
  BY <1>1, <1>2 DEF Captured
<1>13. universe' = universe
  BY <1>2
<1> QED
  BY <1>6, <1>7, <1>8, <1>9, <1>10, <1>11, <1>12, <1>13 DEF Captured

\* The weak references that free_object leaves are to what is alive.
LEMMA DyingWeak ==
  ASSUME IInv, NEW p, Dying(p)
  PROVE  Emptied' /\ Weak'
<1>1. Contents /\ Captured /\ Emptied /\ Weak /\ None \notin universe
  BY IInvIs, HeapAssumption DEF Loops, Structure
<1>2. /\ records' = {r \in records : p \notin {r[1], r[2]}}
      /\ target' = [w \in DOMAIN target |-> IF p \in {w, target[w]} THEN None ELSE target[w]]
      /\ UNCHANGED <<handles, frees, universe>> /\ p \in universe \ VarRef
  BY DyingIs
<1>3. WeakMap \cap VarRef = {} /\ Registry \cap VarRef = {} /\ None \notin Registry
  BY HeapAssumption DEF Object
<1>4. ASSUME NEW o \in universe, state[o] = "live", o # p, o \notin VarRef PROVE state'[o] = "live"
  BY <1>4, DyingLeaves
<1>5. Emptied'
  <2> SUFFICES ASSUME NEW o \in universe, state'[o] # "live", NEW f \in Fields(o) PROVE slot'[o][f] = None
    BY <1>2 DEF Emptied
  <2>1. CASE o = p \/ o \in LastUse(p)
    <3>1. slot'[o] = [g \in Fields(o) |-> None]
      BY <2>1, DyingLeaves
    <3> QED
      BY <3>1
  <2>2. CASE o # p /\ o \notin LastUse(p)
    <3>1. slot'[o] = slot[o] /\ state[o] # "live"
      BY <2>2, DyingLeaves
    <3> QED
      BY <1>1, <3>1 DEF Emptied
  <2> QED
    BY <2>1, <2>2
<1>6. ASSUME NEW r \in records' PROVE r[1] \in universe /\ state'[r[1]] = "live" /\ state'[r[2]] = "live"
  <2>1. r \in records /\ r[1] # p /\ r[2] # p
    BY <1>2
  <2>2. r[1] \in WeakMap /\ r[2] \in universe
    BY <1>1, <2>1 DEF Contents
  <2>3. r[1] \in universe /\ state[r[1]] = "live" /\ state[r[2]] = "live" /\ r[2] \notin VarRef
    BY <1>1, <2>1 DEF Weak, Captured
  <2>4. PICK m, k : m = r[1] /\ k = r[2]
    OBVIOUS
  <2>5. m \in universe /\ k \in universe /\ m # p /\ k # p /\ m \notin VarRef /\ k \notin VarRef /\ state[m] = "live" /\ state[k] = "live"
    BY <1>3, <2>1, <2>2, <2>3, <2>4
  <2>6. state'[m] = "live" /\ state'[k] = "live"
    BY <1>4, <2>5
  <2> QED
    BY <2>3, <2>4, <2>6
<1>7. \A r, s \in records' : r[1] = s[1] /\ r[2] = s[2] => r = s
  BY <1>1, <1>2 DEF Weak
<1>8. ASSUME NEW w \in DOMAIN target', target'[w] # None PROVE state'[target'[w]] = "live"
  <2>1. w \in DOMAIN target /\ target'[w] = target[w] /\ target[w] # p /\ target[w] # None
    BY <1>2, <1>8
  <2>2. target[w] \in universe /\ target[w] \notin VarRef /\ state[target[w]] = "live"
    BY <1>1, <2>1 DEF Contents, Value, Captured, Weak
  <2> QED
    BY <1>4, <2>1, <2>2
<1>9. ASSUME NEW e \in Entry, entry'[e].st = "registered"
      PROVE  /\ entry'[e].reg \in universe /\ state'[entry'[e].reg] = "live"
             /\ entry'[e].target \in universe /\ state'[entry'[e].target] = "live"
             /\ entry'[e].target # entry'[e].reg
  <2>1. e \notin Due(p) /\ entry[e].reg # p
    BY <1>9, EntryAfter DEF NoEntry
  <2>2. entry'[e] = entry[e]
    BY <2>1, EntryAfter
  <2>3. /\ entry[e].reg \in universe /\ state[entry[e].reg] = "live"
        /\ entry[e].target \in universe /\ state[entry[e].target] = "live"
        /\ entry[e].target # entry[e].reg
    BY <1>1, <1>9, <2>2 DEF Weak
  <2>4. entry[e].target # p
    BY <1>9, <2>1, <2>2 DEF Due
  <2>5. entry[e].target \notin VarRef
    BY <1>1 DEF Captured
  <2>6. entry[e].reg \notin VarRef
    <3>1. entry[e] \in EntryType(universe)
      BY <1>1 DEF Contents
    <3> QED
      BY <1>1, <1>3, <2>3, <3>1 DEF EntryType
  <2>7. state'[entry[e].reg] = "live" /\ state'[entry[e].target] = "live"
    BY <1>4, <2>1, <2>3, <2>4, <2>5, <2>6
  <2> QED
    BY <2>2, <2>3, <2>7
<1>10. Weak'
  <2>1. universe' = universe
    BY <1>2
  <2> QED
    BY <1>6, <1>7, <1>8, <1>9, <2>1 DEF Weak
<1> QED
  BY <1>5, <1>10

LEMMA DyingStructure ==
  ASSUME IInv, NEW p, Dying(p)
  PROVE  Contents' /\ Structure'
  BY DyingContents, DyingCaptured, DyingWeak, DyingQueue DEF Structure

\* A variable that is alive is counted by a closure.
LEMMA VariableCounted ==
  ASSUME IInv, pc # "scan", NEW v \in universe \cap VarRef, state[v] = "live"
  PROVE  rc[v] > 0
<1>1. PICK f \in universe \cap Function : slot[f]["ref"] = v
  BY IInvIs DEF Structure, Captured
<1>2. PICK x : x = <<f, "slot", "ref", v>>
  OBVIOUS
<1>3. x \in Edges /\ x[4] = v
  BY <1>1, <1>2, VariableOwners
<1> QED
  BY <1>3, Referred

\* free_zero_refcount takes another object of its list.
LEMMA FreeZeroKeeps == ASSUME IInv, NEW p \in universe, FreeZero(p) PROVE IInv'
<1>1. Loops /\ Phases /\ Structure /\ pc = "zero" /\ list[p] = "zero"
  BY IInvIs DEF FreeZero
<1>2. /\ FreeObject(p) /\ UNCHANGED <<handles, frees, todo, inFree, universe>>
      /\ pc' = IF \E x \in universe : list'[x] = "zero" THEN "zero" ELSE "run"
  BY DEF FreeZero
<1>3. rc[p] = 0 /\ state[p] = "live"
  BY <1>1 DEF Phases, Zeroing, Lists, Loops
<1>4. p \notin VarRef
  BY <1>1, <1>3, VariableCounted
<1>5. Dying(p)
  BY <1>1, <1>2, <1>3, <1>4 DEF Dying
<1>6. Contents' /\ Structure'
  BY <1>5, DyingStructure
<1>7. /\ rc' \in [universe -> Nat]
      /\ \A z \in universe : /\ rc'[z] = Total(z)' /\ (state'[z] = "absent" => rc'[z] = 0)
                             /\ z \notin Freed(p) => rc'[z] = rc[z] - Count(Gone(p), z)
  BY <1>5, DyingCounts
<1>8. /\ state' = [o \in universe |-> IF o \in Freed(p) THEN "absent" ELSE IF o = p THEN "zombie" ELSE state[o]]
      /\ mark' = [o \in universe |-> IF o \in Freed(p) THEN 0 ELSE mark[o]]
      /\ list' = [o \in universe |->
                       IF o \in Freed(p) THEN "none"
                       ELSE IF o = p \/ (pc = "zero" /\ rc[o] - Count(Gone(p), o) = 0 /\ rc[o] > 0) THEN "zero" ELSE list[o]]
  BY ZenonT(60), <1>5, DyingIs
<1>9. Loops'
  <2>1. state' \in [universe -> {"absent", "live", "zombie"}] /\ mark' \in [universe -> {0, 1}]
        /\ list' \in [universe -> {"none", "gc", "zero", "tmp"}]
    BY <1>1, <1>8 DEF Loops
  <2> QED
    BY <1>1, <1>2, <1>7, <2>1 DEF Loops
<1>10. universe' = universe /\ pc' \in {"zero", "run"}
  BY <1>2
<1>11. Exact' /\ Unreferred'
  BY <1>6, <1>7, <1>9, <1>10, Balances
<1>12. p \in Freed(p)
  BY <1>1 DEF Freed, Kept
<1>13. ASSUME NEW o \in universe
       PROVE  /\ state'[o] # "zombie" /\ mark'[o] = 0 /\ list'[o] \in {"none", "gc", "zero"}
              /\ (state'[o] = "absent") <=> (list'[o] = "none")
              /\ list'[o] = "zero" => rc'[o] = 0
  <2>1. /\ state[o] # "zombie" /\ mark[o] = 0 /\ list[o] \in {"none", "gc", "zero"}
        /\ list[o] = "zero" => rc[o] = 0
        /\ (state[o] = "absent") <=> (list[o] = "none")
    BY <1>1 DEF Phases, Zeroing, Lists
  <2>2. CASE o \in Freed(p)
    BY <1>8, <2>2
  <2>3. CASE o \notin Freed(p)
    <3>1. o # p /\ state'[o] = state[o] /\ mark'[o] = mark[o] /\ rc'[o] = rc[o] - Count(Gone(p), o)
      BY <1>7, <1>8, <1>12, <2>3
    <3>2. list'[o] = IF rc'[o] = 0 /\ rc[o] > 0 THEN "zero" ELSE list[o]
      BY <1>1, <1>8, <2>3, <3>1
    <3>3. rc[o] \in Nat /\ rc'[o] \in Nat /\ rc'[o] <= rc[o] /\ (rc[o] > 0 => state[o] # "absent")
      BY <1>1, <1>5, <1>7, DyingCounts DEF Loops
    <3>4. list'[o] = "zero" => rc'[o] = 0
      <4>1. CASE rc[o] > 0
        BY <2>1, <3>2, <4>1
      <4>2. CASE rc[o] = 0
        BY <2>1, <3>2, <3>3, <4>2
      <4> QED
        BY <3>3, <4>1, <4>2
    <3>5. (state'[o] = "absent") <=> (list'[o] = "none")
      BY <2>1, <3>1, <3>2, <3>3
    <3> QED
      BY <2>1, <3>1, <3>2, <3>4, <3>5
  <2> QED
    BY <2>2, <2>3
<1>14. Phases'
  <2>1. Lists'
    BY <1>10, <1>13 DEF Lists
  <2>2. Zeroing'
    BY <1>10, <1>13 DEF Zeroing
  <2>3. Running'
    BY <1>2, <1>10, <1>13 DEF Running
  <2>4. Scanning' /\ Cycling'
    BY <1>10 DEF Scanning, Cycling
  <2> QED
    BY <2>1, <2>2, <2>3, <2>4 DEF Phases
<1> QED
  BY <1>6, <1>9, <1>11, <1>14, IInvNext

\* gc_free_cycles takes another object of tmp_obj_list.
LEMMA FreeCycleKeeps == ASSUME IInv, NEW p \in universe, FreeCycle(p) PROVE IInv'
<1>1. Loops /\ Phases /\ Structure /\ pc = "cycles" /\ list[p] = "tmp"
  BY IInvIs DEF FreeCycle
<1>2. CASE p \in VarRef
  BY <1>2, VariableLeft
<1>3. CASE p \notin VarRef
  <2>1. FreeObject(p) /\ UNCHANGED <<handles, frees, pc, todo, inFree, universe>>
    BY <1>3 DEF FreeCycle
  <2>2. /\ \A o \in universe : /\ list[o] \in {"tmp", "zero"} <=> mark[o] = 1
                               /\ list[o] = "tmp" => state[o] = "live"
                               /\ list[o] = "gc" => state[o] = "live"
                               /\ list[o] = "zero" => state[o] = "zombie" \/ o \in VarRef
                               /\ mark[o] = 1 => External(o) = 0
                               /\ state[o] = "absent" <=> list[o] = "none"
                               /\ list[o] \in {"none", "gc", "zero", "tmp"} /\ mark[o] \in {0, 1}
        /\ \A x \in Edges : mark[x[4]] = 1 => mark[x[1]] = 1
    BY <1>1 DEF Phases, Cycling, Lists, Loops
  <2>3. state[p] = "live" /\ mark[p] = 1
    BY <1>1, <2>2
  <2>4. Dying(p)
    BY <1>1, <1>3, <2>1, <2>3 DEF Dying
  <2>5. Contents' /\ Structure'
    BY <2>4, DyingStructure
  <2>6. /\ rc' \in [universe -> Nat]
        /\ \A z \in universe : /\ rc'[z] = Total(z)' /\ (state'[z] = "absent" => rc'[z] = 0)
                               /\ External(z)' = External(z) + Count(Moved(p), z)
    BY <2>4, DyingCounts
  <2>7. /\ state' = [o \in universe |-> IF o \in Freed(p) THEN "absent" ELSE IF o = p THEN "zombie" ELSE state[o]]
        /\ mark' = [o \in universe |-> IF o \in Freed(p) THEN 0 ELSE mark[o]]
        /\ list' = [o \in universe |->
                         IF o \in Freed(p) THEN "none"
                         ELSE IF o = p \/ (pc = "zero" /\ rc[o] - Count(Gone(p), o) = 0 /\ rc[o] > 0) THEN "zero" ELSE list[o]]
    BY ZenonT(60), <2>4, DyingIs
  <2>8. ASSUME NEW o \in universe
        PROVE  /\ state'[o] = IF o \in Freed(p) THEN "absent" ELSE IF o = p THEN "zombie" ELSE state[o]
               /\ mark'[o] = IF o \in Freed(p) THEN 0 ELSE mark[o]
               /\ list'[o] = IF o \in Freed(p) THEN "none" ELSE IF o = p THEN "zero" ELSE list[o]
    <3>1. list'[o] = IF o \in Freed(p) THEN "none"
                     ELSE IF o = p \/ (pc = "zero" /\ rc[o] - Count(Gone(p), o) = 0 /\ rc[o] > 0) THEN "zero" ELSE list[o]
      BY <2>7
    <3>2. list'[o] = IF o \in Freed(p) THEN "none" ELSE IF o = p THEN "zero" ELSE list[o]
      BY <1>1, <3>1
    <3> QED
      BY <2>7, <3>2
  <2>9. Loops'
    <3>1. state' \in [universe -> {"absent", "live", "zombie"}] /\ mark' \in [universe -> {0, 1}]
          /\ list' \in [universe -> {"none", "gc", "zero", "tmp"}]
      BY <1>1, <2>7 DEF Loops
    <3> QED
      BY <1>1, <2>1, <2>6, <3>1 DEF Loops
  <2>10. universe' = universe /\ pc' = "cycles"
    BY <1>1, <2>1
  <2>11. Exact' /\ Unreferred'
    BY <2>5, <2>6, <2>9, <2>10, Balances
  <2>12. ASSUME NEW o \in universe, mark'[o] = 1 PROVE External(o)' = 0
    <3>1. mark[o] = 1 /\ External(o) = 0
      BY <2>2, <2>8, <2>12
    <3>2. ASSUME NEW x \in Moved(p), x[4] = o PROVE FALSE
      <4>1. x[3] \in Queued(p) /\ x[4] \in {entry[x[3]].held, entry[x[3]].cb}
        BY <2>4, DyingJobs
      <4>2. Usable(entry[x[3]].held, p) /\ Usable(entry[x[3]].cb, p)
        BY <4>1 DEF Queued
      <4>3. o # None
        BY HeapAssumption, <1>1 DEF Loops
      <4> QED
        BY <3>1, <3>2, <4>1, <4>2, <4>3 DEF Usable
    <3>3. IsFiniteSet(Moved(p))
      <4>1. Moved(p) \subseteq Edges /\ IsFiniteSet(Edges)
        BY <2>4, DyingEdges, OwnersLive
      <4> QED
        BY ONLY <4>1, FS_Subset
    <3>4. Count(Moved(p), o) = 0
      BY <3>2, <3>3, CountZero
    <3> QED
      BY <2>6, <3>1, <3>4
  <2>13. ASSUME NEW x \in Edges', mark'[x[4]] = 1 PROVE mark'[x[1]] = 1
    <3>1. x \in Edges /\ x \notin Gone(p)
      BY <2>4, DyingEdges
    <3>2. PICK a, c : a = x[1] /\ c = x[4]
      OBVIOUS
    <3>3. a \in universe /\ c \in universe /\ mark'[c] = 1
      BY <2>13, <3>1, <3>2, OwnersLive
    <3>4. a \notin Freed(p)
      BY <2>4, <3>1, <3>2, FreedAre DEF Gone
    <3>5. mark[c] = 1
      BY <2>8, <3>3
    <3>6. mark[a] = 1
      BY <2>2, <3>1, <3>2, <3>5
    <3> QED
      BY <2>8, <3>2, <3>3, <3>4, <3>6
  <2>14. ASSUME NEW o \in universe
         PROVE  /\ list'[o] \in {"tmp", "zero"} <=> mark'[o] = 1
                /\ list'[o] = "tmp" => state'[o] = "live"
                /\ list'[o] = "gc" => state'[o] = "live"
                /\ list'[o] = "zero" => state'[o] = "zombie" \/ o \in VarRef
                /\ state'[o] = "absent" <=> list'[o] = "none"
    <3>1. CASE o \in Freed(p)
      BY <2>8, <3>1
    <3>2. CASE o \notin Freed(p) /\ o = p
      BY <2>3, <2>8, <3>2
    <3>3. CASE o \notin Freed(p) /\ o # p
      BY <2>2, <2>8, <3>3
    <3> QED
      BY <3>1, <3>2, <3>3
  <2>15. Phases'
    <3>1. Lists'
      BY <2>10, <2>14 DEF Lists
    <3>2. Cycling'
      BY <2>10, <2>12, <2>13, <2>14 DEF Cycling
    <3> QED
      BY <2>10, <3>1, <3>2 DEF Phases, Running, Zeroing, Scanning
  <2> QED
    BY <2>5, <2>9, <2>11, <2>15, IInvNext
<1> QED
  BY <1>2, <1>3

-----------------------------------------------------------------------------
(* The theorems.                                                           *)

LEMMA Initially == Init => IInv
<1> SUFFICES ASSUME Init PROVE IInv
  OBVIOUS
<1>0. Init
  OBVIOUS
<1>1. /\ state = [o \in universe |-> "absent"] /\ rc = [o \in universe |-> 0] /\ mark = [o \in universe |-> 0]
      /\ list = [o \in universe |-> "none"] /\ slot = [o \in universe |-> [f \in Fields(o) |-> None]]
      /\ records = {} /\ target = [w \in universe \cap WeakRef |-> None]
      /\ entry = [e \in Entry |-> NoEntry] /\ jobs = <<>> /\ frees = <<>> /\ handles = [o \in universe |-> 0]
      /\ pc = "run" /\ todo = {} /\ inFree = FALSE /\ universe \in Universes
  BY <1>0 DEF Init
<1> HIDE <1>0
<1>2. None \notin VarRef /\ None \notin universe /\ 0 \in 0 .. MaxHandles
  BY <1>1, HeapAssumption DEF Object
<1>3. Contents
  <2>1. entry \in [Entry -> EntryType(universe)]
    BY <1>1 DEF NoEntry, EntryType
  <2>2. \A o \in universe : slot[o] \in [Fields(o) -> Value]
    BY <1>1 DEF Value
  <2>3. target \in [universe \cap WeakRef -> Value]
    BY <1>1 DEF Value
  <2>4. handles \in [universe -> 0 .. MaxHandles] /\ Fielded
    BY <1>1, <1>2 DEF Fielded
  <2> QED
    BY <1>1, <2>1, <2>2, <2>3, <2>4 DEF Contents
<1>4. Loops
  BY <1>1 DEF Loops
<1>5. Captured
  BY <1>1, <1>2 DEF Captured, NoEntry
<1>6. Emptied /\ Weak
  BY <1>1 DEF Emptied, Weak, NoEntry
<1>7. Queue
  BY <1>1 DEF Queue, NoEntry
<1>8. Structure
  BY <1>5, <1>6, <1>7 DEF Structure
<1>9. Phases
  BY <1>1 DEF Phases, Lists, Running, Zeroing, Scanning, Cycling
<1>10. Edges = {} /\ JobEdges = {}
  <2>1. Edges = {}
    <3> SUFFICES ASSUME NEW x \in Edges PROVE FALSE
      OBVIOUS
    <3>1. Triples(records)
      BY <1>1 DEF Triples
    <3>2. IsEdge(x, universe, slot, records, entry)
      BY <3>1, EdgesAre, EdgeIs
    <3>3. ~OfSlot(x, universe, slot)
      BY <1>1, <3>2 DEF OfSlot, IsEdge
    <3>4. ~OfRecord(x, records)
      BY <1>1 DEF OfRecord
    <3>5. ~OfEntry(x, entry)
      BY <1>1 DEF OfEntry, NoEntry
    <3> QED
      BY <3>2, <3>3, <3>4, <3>5 DEF IsEdge
  <2>2. JobEdges = {}
    <3> SUFFICES ASSUME NEW x \in JobEdges PROVE FALSE
      OBVIOUS
    <3>1. IsJobEdge(x, entry)
      BY EdgesAre, JobEdgeIs
    <3> QED
      BY <1>1, <3>1 DEF IsJobEdge, NoEntry
  <2> QED
    BY <2>1, <2>2
<1>11. ASSUME NEW o \in universe PROVE External(o) = 0 /\ Count(Edges, o) = 0
  <2>1. Count(Edges, o) = 0 /\ Count(JobEdges, o) = 0
    BY <1>10, CountNothing
  <2>2. External(o) = handles[o] + Count(JobEdges, o) + Pending(frees, o)
    BY ExternalIs, EdgesAre
  <2>3. Pending(frees, o) = 0 /\ handles[o] = 0
    BY <1>1, PendingNone
  <2> QED
    BY <2>1, <2>2, <2>3
<1>12. Exact
  <2>1. Counted = Edges
    BY <1>1, CountedAll
  <2> QED
    BY <1>1, <1>11, <2>1 DEF Exact
<1>13. Unreferred
  BY <1>11 DEF Unreferred
<1> QED
  BY <1>3, <1>4, <1>8, <1>9, <1>12, <1>13, IInvIs

LEMMA StutterKeeps == ASSUME IInv, UNCHANGED vars PROVE IInv'
<1>1. Loops /\ Exact /\ Phases
  BY IInvIs
<1>2. Collecting /\ UNCHANGED <<rc, mark, list, pc, todo>>
  BY DEF vars, Collecting, tables
<1>3. Edges' = Edges /\ \A o : External(o)' = External(o)
  BY <1>2, CollectingSame
<1>4. Loops'
  BY <1>1, <1>2 DEF Loops, Collecting
<1>5. Exact'
  BY <1>1, <1>2, <1>3 DEF Exact, Counted, Collecting
<1>6. Cycling'
  BY <1>1, <1>2, <1>3 DEF Phases, Cycling, Collecting
<1>7. Phases'
  BY <1>1, <1>2, <1>6 DEF Phases, Lists, Running, Zeroing, Scanning, Collecting
<1> QED
  BY <1>2, <1>4, <1>5, <1>7, CollectingKeeps

\* Every step keeps the invariant.
LEMMA MutateKeeps == ASSUME IInv, Mutate PROVE IInv'
<1>1. CASE \E o \in universe :
             \/ NewObject(o) \/ DupValue(o) \/ FreeValue(o)
             \/ \E f \in Slot : Get(o, f) \/ \E x \in Value, ok \in BOOLEAN : Set(o, f, x, ok)
  BY <1>1, TakersKeep, SettersKeep, MakersKeep
<1>2. CASE \E f, g \in universe \cap Function :
             \/ NewClosure(f, g)
             \/ \E v \in universe \cap VarRef, x \in Value : NewVariable(f, v, x)
  BY <1>2, MakersKeep, NewVariableKeeps
<1>3. CASE \E f \in universe \cap Function : GetVariable(f) \/ \E x \in Value : SetVariable(f, x)
  BY <1>3, TakersKeep, SettersKeep
<1>4. CASE \E w \in universe \cap WeakRef : Deref(w) \/ \E o \in universe : NewWeakRef(w, o)
  BY <1>4, TakersKeep, MakersKeep
<1>5. CASE \E m \in universe \cap WeakMap, k \in universe :
             MapGet(m, k) \/ MapDelete(m, k) \/ \E x \in Value : MapSet(m, k, x)
  BY <1>5, TakersKeep, MapsKeep
<1>6. CASE \E r \in universe \cap Registry :
             \/ \E cb \in Value : NewRegistry(r, cb)
             \/ \E e \in Entry, t \in universe, x \in Value : \E token \in {None, t} : Register(e, r, t, x, token)
  BY <1>6, MakersKeep, RegisterKeeps
<1>7. CASE RunJob
  BY <1>7, RunJobKeeps
<1> QED
  BY <1>1, <1>2, <1>3, <1>4, <1>5, <1>6, <1>7 DEF Mutate

LEMMA StepKeeps == ASSUME IInv, [Next]_vars PROVE IInv'
<1>1. CASE Mutate
  BY <1>1, MutateKeeps
<1>2. CASE RunGC
  BY <1>2, RunGCKeeps
<1>3. CASE Restore
  BY <1>3, RestoreKeeps
<1>4. CASE EndGC
  BY <1>4, EndGCKeeps
<1>5. CASE \E o \in universe : Scan(o)
  BY <1>5, ScanKeeps
<1>6. CASE \E o \in universe : FreeCycle(o)
  BY <1>6, FreeCycleKeeps
<1>7. CASE FreeArgument
  BY <1>7, FreeArgumentKeeps
<1>8. CASE FreeRuntime
  BY <1>8, FreeRuntimeKeeps
<1>9. CASE \E o \in universe : FreeZero(o)
  BY <1>9, FreeZeroKeeps
<1>10. CASE Done \/ UNCHANGED vars
  BY <1>10, StutterKeeps DEF Done
<1> QED
  BY <1>1, <1>2, <1>3, <1>4, <1>5, <1>6, <1>7, <1>8, <1>9, <1>10 DEF Next, Collect

\* The invariant holds in every state: in every step of every loop of the
\* collector the counts are exact, closures and their variables live together,
\* weak references are to what is alive, each due registration has one job,
\* and what is garbage is referred to by garbage only.
\* (JS_FreeValueRT, free_zero_refcount, gc_decref, gc_scan, gc_free_cycles)
THEOREM Invariance == Spec => []IInv
<1>1. Init => IInv
  BY Initially
<1>2. IInv /\ [Next]_vars => IInv'
  BY StepKeeps
<1> QED
  BY <1>1, <1>2, PTL DEF Spec

LEMMA InvariantCounts == IInv => CountsExact
<1> SUFFICES ASSUME IInv PROVE CountsExact
  OBVIOUS
<1> QED
  BY DEF IInv, Exact, Counted, CountsExact

\* For any objects, properties and registrations, a reference count is what
\* the host, the jobs and the objects hold, in every step of every loop.
\* (js_free_value_rt, gc_decref, gc_scan)
THEOREM CountsAreExact == Spec => []CountsExact
  BY Invariance, InvariantCounts, PTL

\* Nothing refers to what is not there, and nothing but garbage to a zombie.
LEMMA InvariantReferences == IInv => NothingDangles
<1> SUFFICES ASSUME IInv PROVE NothingDangles
  OBVIOUS
<1>1. Contents /\ Loops /\ Structure /\ Unreferred /\ Phases
  BY IInvIs
<1>2. /\ \A x \in Edges : x[1] \in universe /\ x[4] \in universe /\ state[x[1]] = "live"
      /\ \A o \in universe : PartsOf(o)
      /\ Typed(universe, slot, records, entry) /\ IsFiniteSet(Edges) /\ IsFiniteSet(JobEdges)
  BY OwnersLive
<1>3. \A x \in JobEdges : x[4] \in universe
  BY <1>2, EdgesAre, EdgesFinite
<1>4. ASSUME NEW o \in universe, state[o] = "absent" PROVE Count(Edges, o) = 0 /\ Count(JobEdges, o) = 0
  <2>1. External(o) = 0 /\ Count(Edges, o) = 0
    BY <1>1, <1>4 DEF Unreferred
  <2>2. /\ handles[o] \in Nat /\ Count(JobEdges, o) \in Nat /\ Pending(frees, o) \in Nat
        /\ External(o) = handles[o] + Count(JobEdges, o) + Pending(frees, o)
    BY <1>2 DEF PartsOf
  <2> QED
    BY ONLY <2>1, <2>2
<1>5. ASSUME NEW x \in Edges \cup JobEdges PROVE state[x[4]] # "absent"
  <2>1. PICK o : o = x[4]
    OBVIOUS
  <2>2. o \in universe
    BY <1>2, <1>3, <2>1
  <2>3. CASE x \in Edges
    <3>1. Count(Edges, o) # 0
      BY <1>2, <2>1, <2>3, CountZero
    <3> QED
      BY <1>4, <2>1, <2>2, <3>1
  <2>4. CASE x \in JobEdges
    <3>1. Count(JobEdges, o) # 0
      BY <1>2, <2>1, <2>4, CountZero
    <3> QED
      BY <1>4, <2>1, <2>2, <3>1
  <2> QED
    BY <2>3, <2>4
<1>6. ASSUME NEW x \in Edges, state[x[4]] = "zombie" PROVE list[x[1]] \in {"tmp", "zero"}
  <2>1. PICK a, o : a = x[1] /\ o = x[4]
    OBVIOUS
  <2>2. a \in universe /\ o \in universe /\ state[o] = "zombie"
    BY <1>2, <1>6, <2>1
  <2>3. pc = "cycles"
    BY <1>1, <2>2 DEF Loops, Phases, Running, Zeroing, Scanning
  <2>4. \A c \in universe : /\ list[c] \in {"tmp", "zero"} <=> mark[c] = 1
                            /\ list[c] = "tmp" => state[c] = "live"
                            /\ list[c] = "gc" => state[c] = "live"
                            /\ state[c] = "absent" <=> list[c] = "none"
                            /\ list[c] \in {"none", "gc", "zero", "tmp"}
    BY <1>1, <2>3 DEF Phases, Cycling, Lists, Loops
  <2>5. mark[o] = 1
    BY <2>2, <2>4
  <2>6. mark[a] = 1
    BY <1>1, <2>1, <2>3, <2>5 DEF Phases, Cycling
  <2> QED
    BY <2>1, <2>2, <2>4, <2>6
<1>7. /\ \A r \in records : state[r[1]] = "live" /\ state[r[2]] = "live"
      /\ \A w \in DOMAIN target : target[w] # None => state[target[w]] = "live"
      /\ \A e \in Entry : entry[e].st = "registered" => state[entry[e].reg] = "live" /\ state[entry[e].target] = "live"
  BY <1>1 DEF Structure, Weak
<1>8. \A o \in universe : (state[o] = "absent") = (list[o] = "none")
  BY <1>1 DEF Phases, Lists
<1> QED
  BY <1>5, <1>6, <1>7, <1>8 DEF NothingDangles

\* No reference, no weak record and no list entry is to freed memory, and a
\* live object outside the garbage refers to no zombie.
\* (free_object, reset_weak_ref, the finalizers)
THEOREM NothingEverDangles == Spec => []NothingDangles
  BY Invariance, InvariantReferences, PTL

-----------------------------------------------------------------------------
(* Reachability.                                                           *)

\* Induction over 0 .. N for a set of numbers: otherwise "one less" would map
\* the numbers up to n that are not in T into themselves without reaching n.
LEMMA Intervals ==
  ASSUME NEW T, NEW N \in Nat, 0 \in T, \A k \in 0 .. N : k \in T /\ k + 1 <= N => k + 1 \in T
  PROVE  0 .. N \subseteq T
<1> SUFFICES ASSUME NEW n \in 0 .. N, n \notin T PROVE FALSE
  OBVIOUS
<1> DEFINE D == {k \in 0 .. n : k \notin T}
           f == [k \in D |-> k - 1]
<1>1. \A k \in D : k - 1 \in D
  OBVIOUS
<1>2. f \in Injection(D, D)
  <2>1. f \in [D -> D]
    BY <1>1
  <2>2. \A a, b \in D : f[a] = f[b] => a = b
    OBVIOUS
  <2> HIDE DEF D, f
  <2> QED
    BY <2>1, <2>2, Fun_IsInj
<1>3. IsFiniteSet(D)
  <2>1. IsFiniteSet(0 .. n)
    BY FS_Interval
  <2>2. D \in SUBSET (0 .. n)
    OBVIOUS
  <2> QED
    BY ONLY <2>1, <2>2, FS_Subset
<1>4. \A t \in D : \E s \in D : f[s] = t
  <2> HIDE DEF D, f
  <2>1. f \in Surjection(D, D)
    BY <1>2, <1>3, FS_Injection
  <2> QED
    BY <2>1, Fun_SurjectionProperties
<1> QED
  BY <1>4

\* What a chain of N steps from S has gathered.
ChainOf(f, edges, S, N) ==
  f = [n \in 0 .. N |-> IF n = 0 THEN S ELSE f[n - 1] \cup Children(edges, f[n - 1])]

Steps(f, edges, S, N) ==
  f[0] = S /\ \A n \in 0 .. N : n + 1 <= N => f[n + 1] = f[n] \cup Children(edges, f[n])

LEMMA ChainStep ==
  ASSUME NEW edges, NEW S, NEW N \in Nat, NEW f, ChainOf(f, edges, S, N)
  PROVE  Steps(f, edges, S, N)
<1>1. f = [n \in 0 .. N |-> IF n = 0 THEN S ELSE f[n - 1] \cup Children(edges, f[n - 1])]
  BY DEF ChainOf
<1>2. \A n \in 0 .. N : f[n] = IF n = 0 THEN S ELSE f[n - 1] \cup Children(edges, f[n - 1])
  BY <1>1
<1>3. f[0] = S
  <2>1. 0 \in 0 .. N
    OBVIOUS
  <2> QED
    BY <1>2, <2>1
<1>4. ASSUME NEW n \in 0 .. N, n + 1 <= N PROVE f[n + 1] = f[n] \cup Children(edges, f[n])
  <2>1. n + 1 \in 0 .. N /\ n + 1 # 0 /\ (n + 1) - 1 = n
    BY <1>4
  <2> QED
    BY <1>2, <2>1
<1> QED
  BY <1>3, <1>4 DEF Steps

LEMMA ChainExists ==
  ASSUME NEW edges, NEW S, NEW N \in Nat
  PROVE  \E f : ChainOf(f, edges, S, N)
<1> DEFINE T == {n \in 0 .. N : \E f : ChainOf(f, edges, S, n)}
<1>1. 0 \in T
  <2>1. ChainOf([n \in 0 .. 0 |-> S], edges, S, 0)
    BY DEF ChainOf
  <2> QED
    BY <2>1
<1>2. ASSUME NEW k \in 0 .. N, k \in T, k + 1 <= N PROVE k + 1 \in T
  <2>1. PICK f : ChainOf(f, edges, S, k)
    BY <1>2
  <2> DEFINE g == [n \in 0 .. k + 1 |-> IF n = k + 1 THEN f[k] \cup Children(edges, f[k]) ELSE f[n]]
  <2>2. \A n \in 0 .. k : f[n] = IF n = 0 THEN S ELSE f[n - 1] \cup Children(edges, f[n - 1])
    BY <2>1 DEF ChainOf
  <2>3. \A n \in 0 .. k + 1 : g[n] = IF n = 0 THEN S ELSE g[n - 1] \cup Children(edges, g[n - 1])
    <3> SUFFICES ASSUME NEW n \in 0 .. k + 1
                 PROVE g[n] = IF n = 0 THEN S ELSE g[n - 1] \cup Children(edges, g[n - 1])
      OBVIOUS
    <3>1. CASE n = k + 1
      <4>1. g[n - 1] = f[k] /\ g[n] = f[k] \cup Children(edges, f[k]) /\ n # 0
        BY <3>1
      <4> QED
        BY <4>1
    <3>2. CASE n # k + 1 /\ n # 0
      <4>1. n - 1 \in 0 .. k /\ n \in 0 .. k /\ g[n - 1] = f[n - 1] /\ g[n] = f[n]
        BY <3>2
      <4> QED
        BY <2>2, <3>2, <4>1
    <3>3. CASE n # k + 1 /\ n = 0
      <4>1. n \in 0 .. k /\ g[n] = f[n]
        BY <3>3
      <4> QED
        BY <2>2, <3>3, <4>1
    <3> QED
      BY <3>1, <3>2, <3>3
  <2>4. ChainOf(g, edges, S, k + 1)
    BY <2>3 DEF ChainOf
  <2> QED
    BY <2>4, <1>2
<1>3. 0 .. N \subseteq T
  <2> HIDE DEF T
  <2> QED
    BY <1>1, <1>2, Intervals
<1> QED
  BY <1>3

LEMMA ReachIs ==
  ASSUME NEW S
  PROVE  Cardinality(universe) \in Nat =>
           \E f : /\ ChainOf(f, Edges, S, Cardinality(universe))
                  /\ ReachableFrom(S) = f[Cardinality(universe)]
<1> SUFFICES ASSUME Cardinality(universe) \in Nat
             PROVE \E f : /\ ChainOf(f, Edges, S, Cardinality(universe))
                          /\ ReachableFrom(S) = f[Cardinality(universe)]
  OBVIOUS
<1> DEFINE f == CHOOSE f : f = [n \in 0 .. Cardinality(universe) |->
                                  IF n = 0 THEN S ELSE f[n - 1] \cup Children(Edges, f[n - 1])]
<1>1. \E g : ChainOf(g, Edges, S, Cardinality(universe))
  BY ChainExists
<1>2. \E g : g = [n \in 0 .. Cardinality(universe) |->
                    IF n = 0 THEN S ELSE g[n - 1] \cup Children(Edges, g[n - 1])]
  BY ONLY <1>1 DEF ChainOf
<1>3. f = [n \in 0 .. Cardinality(universe) |-> IF n = 0 THEN S ELSE f[n - 1] \cup Children(Edges, f[n - 1])]
  BY ONLY <1>2
<1>4. ChainOf(f, Edges, S, Cardinality(universe))
  BY ONLY <1>3 DEF ChainOf
<1>5. ReachableFrom(S) = f[Cardinality(universe)]
  BY DEF ReachableFrom
<1> QED
  BY ONLY <1>4, <1>5

\* What can be reached is the least set with the roots that is closed under
\* references.
LEMMA ReachLeast ==
  ASSUME NEW S, Cardinality(universe) \in Nat, NEW Z, S \subseteq Z, \A x \in Edges : x[1] \in Z => x[4] \in Z
  PROVE  ReachableFrom(S) \subseteq Z
<1>1. PICK N : N = Cardinality(universe) /\ N \in Nat
  OBVIOUS
<1>2. PICK f : ChainOf(f, Edges, S, N) /\ ReachableFrom(S) = f[N]
  BY <1>1, ReachIs
<1>3. f[0] = S /\ \A n \in 0 .. N : n + 1 <= N => f[n + 1] = f[n] \cup Children(Edges, f[n])
  <2>1. PICK E : E = Edges
    OBVIOUS
  <2>2. N \in Nat /\ ChainOf(f, E, S, N)
    BY <1>1, <1>2, <2>1
  <2>3. Steps(f, E, S, N)
    BY ONLY <2>2, ChainStep
  <2> QED
    BY ONLY <2>1, <2>3 DEF Steps
<1> DEFINE T == {n \in 0 .. N : f[n] \subseteq Z}
<1>4. 0 \in T
  BY <1>1, <1>3
<1>5. ASSUME NEW k \in 0 .. N, k \in T, k + 1 <= N PROVE k + 1 \in T
  <2>1. k + 1 \in 0 .. N /\ f[k] \subseteq Z /\ f[k + 1] = f[k] \cup Children(Edges, f[k])
    BY <1>1, <1>3, <1>5
  <2>2. Children(Edges, f[k]) \subseteq Z
    BY <2>1 DEF Children
  <2> QED
    BY <2>1, <2>2
<1>6. 0 .. N \subseteq T
  <2> HIDE DEF T
  <2> QED
    BY <1>1, <1>4, <1>5, Intervals
<1>7. N \in T
  BY <1>1, <1>6
<1> QED
  BY <1>2, <1>7

\* A chain in a finite set of N members is complete after N steps: until then
\* each step adds a member.
LEMMA ReachClosed ==
  ASSUME IsFiniteSet(universe), NEW S, S \subseteq universe, \A x \in Edges : x[4] \in universe
  PROVE  S \subseteq ReachableFrom(S) /\ \A x \in Edges : x[1] \in ReachableFrom(S) => x[4] \in ReachableFrom(S)
<1>1. PICK N : N = Cardinality(universe) /\ N \in Nat
  BY FS_CardinalityType
<1>2. PICK f : ChainOf(f, Edges, S, N) /\ ReachableFrom(S) = f[N]
  BY <1>1, ReachIs
<1>3. f[0] = S /\ \A n \in 0 .. N : n + 1 <= N => f[n + 1] = f[n] \cup Children(Edges, f[n])
  <2>1. PICK E : E = Edges
    OBVIOUS
  <2>2. N \in Nat /\ ChainOf(f, E, S, N)
    BY <1>1, <1>2, <2>1
  <2>3. Steps(f, E, S, N)
    BY ONLY <2>2, ChainStep
  <2> QED
    BY ONLY <2>1, <2>3 DEF Steps
<1> DEFINE Closed(n) == \A x \in Edges : x[1] \in f[n] => x[4] \in f[n]
           T == {n \in 0 .. N : S \subseteq f[n] /\ f[n] \subseteq universe /\ (Closed(n) \/ Cardinality(f[n]) > n)}
<1>4. 0 \in T
  <2>1. CASE S = {}
    BY <1>1, <1>3, <2>1
  <2>2. CASE S # {}
    <3>1. IsFiniteSet(S)
      BY FS_Subset
    <3>2. Cardinality(S) \in Nat /\ Cardinality(S) # 0
      BY <2>2, <3>1, FS_CardinalityType, FS_EmptySet
    <3> QED
      BY <1>1, <1>3, <3>2
  <2> QED
    BY <2>1, <2>2
<1>5. ASSUME NEW k \in 0 .. N, k \in T, k + 1 <= N PROVE k + 1 \in T
  <2>1. PICK A, B : A = f[k] /\ B = f[k + 1]
    OBVIOUS
  <2>2. /\ k + 1 \in 0 .. N /\ B = A \cup Children(Edges, A)
        /\ S \subseteq A /\ A \subseteq universe /\ (Closed(k) \/ Cardinality(A) > k)
    BY <1>1, <1>3, <1>5, <2>1
  <2>3. Children(Edges, A) \subseteq universe
    BY <2>2 DEF Children
  <2>4. CASE Closed(k)
    <3>1. Children(Edges, A) \subseteq A
      BY <2>1, <2>4 DEF Children
    <3>2. A = B
      BY <2>2, <3>1
    <3> QED
      BY <2>1, <2>2, <2>4, <3>2
  <2>5. CASE ~Closed(k)
    <3>1. PICK x \in Edges : x[1] \in A /\ x[4] \notin A
      BY <2>1, <2>5
    <3>2. PICK c : c = x[4]
      OBVIOUS
    <3>3. c \in Children(Edges, A) /\ c \notin A
      BY <3>1, <3>2 DEF Children
    <3>4. IsFiniteSet(A) /\ IsFiniteSet(B)
      BY <2>2, <2>3, FS_Subset
    <3>5. Cardinality(A \cup {c}) = Cardinality(A) + 1 /\ Cardinality(A) \in Nat
      BY <3>3, <3>4, FS_AddElement, FS_CardinalityType
    <3>6. Cardinality(A \cup {c}) <= Cardinality(B) /\ Cardinality(B) \in Nat
      <4>1. A \cup {c} \in SUBSET B
        BY <2>2, <3>3
      <4> QED
        BY <3>4, <4>1, FS_Subset, FS_CardinalityType
    <3>7. Cardinality(A) > k
      BY <2>2, <2>5
    <3>8. Cardinality(B) > k + 1
      BY <3>5, <3>6, <3>7
    <3> QED
      BY <2>1, <2>2, <2>3, <3>8
  <2> QED
    BY <2>4, <2>5
<1>6. 0 .. N \subseteq T
  <2> HIDE DEF T
  <2> QED
    BY <1>1, <1>4, <1>5, Intervals
<1>7. N \in T
  BY <1>1, <1>6
<1>8. Cardinality(f[N]) <= N
  BY <1>1, <1>7, FS_Subset
<1>9. Closed(N)
  <2>1. IsFiniteSet(f[N])
    BY <1>7, FS_Subset
  <2>2. Cardinality(f[N]) \in Nat
    BY <2>1, FS_CardinalityType
  <2> QED
    BY <1>1, <1>7, <1>8, <2>2
<1> QED
  BY <1>2, <1>7, <1>9

-----------------------------------------------------------------------------
(* What can be reached is kept.                                            *)

\* What can be reached: the referents of the host and of the jobs, and with an
\* object all that it refers to.
LEMMA ReachableIs ==
  ASSUME IInv
  PROVE  /\ Reachable \subseteq universe
         /\ \A o \in universe : External(o) > 0 => o \in Reachable
         /\ \A x \in Edges : x[1] \in Reachable => x[4] \in Reachable
         /\ Cardinality(universe) \in Nat
<1>1. \A x \in Edges : x[1] \in universe /\ x[4] \in universe
  BY OwnersLive
<1>2. IsFiniteSet(universe) /\ Cardinality(universe) \in Nat
  <2>1. IsFiniteSet(universe)
    BY IInvIs, HeapAssumption DEF Loops
  <2> QED
    BY <2>1, FS_CardinalityType
<1>3. PICK S : S = {o \in universe : External(o) > 0}
  OBVIOUS
<1>4. Reachable = ReachableFrom(S)
  BY <1>3 DEF Reachable
<1>5. S \subseteq universe
  BY <1>3
<1>6. S \subseteq ReachableFrom(S) /\ \A x \in Edges : x[1] \in ReachableFrom(S) => x[4] \in ReachableFrom(S)
  BY <1>1, <1>2, <1>5, ReachClosed
<1>7. ReachableFrom(S) \subseteq universe
  BY <1>1, <1>2, <1>5, ReachLeast
<1> QED
  BY <1>2, <1>3, <1>4, <1>6, <1>7

\* A set with the roots that references do not leave has all of it.
LEMMA ReachableWithin ==
  ASSUME IInv, NEW Z, \A o \in universe : External(o) > 0 => o \in Z, \A x \in Edges : x[1] \in Z => x[4] \in Z
  PROVE  Reachable \subseteq Z
<1>1. PICK S : S = {o \in universe : External(o) > 0}
  OBVIOUS
<1>2. Reachable = ReachableFrom(S) /\ S \subseteq Z /\ Cardinality(universe) \in Nat
  BY <1>1, ReachableIs DEF Reachable
<1> QED
  BY <1>2, ReachLeast

\* It is alive, and not marked as garbage.
LEMMA ReachableLives ==
  ASSUME IInv
  PROVE  \A o \in Reachable : o \in universe /\ state[o] = "live" /\ (pc \in {"zero", "cycles"} => mark[o] = 0)
<1>1. Loops /\ Phases /\ Unreferred
  BY IInvIs
<1>2. NothingDangles
  BY InvariantReferences
<1>3. \A x \in Edges : x[1] \in universe /\ x[4] \in universe
  BY OwnersLive
<1>4. \A o \in universe : PartsOf(o)
  BY OwnersLive
<1> DEFINE Safe(o) == state[o] = "live" /\ (pc \in {"zero", "cycles"} => mark[o] = 0)
           Z == {o \in universe : Safe(o)}
<1>5. ASSUME NEW o \in universe, state[o] # "absent", pc = "cycles" => mark[o] = 0 PROVE Safe(o)
  <2>1. CASE pc # "cycles"
    BY <1>1, <1>5, <2>1 DEF Loops, Phases, Running, Zeroing, Scanning
  <2>2. CASE pc = "cycles"
    <3>1. list[o] \in {"tmp", "zero"} <=> mark[o] = 1
      BY <1>1, <2>2 DEF Phases, Cycling
    <3>2. list[o] = "gc" => state[o] = "live"
      BY <1>1, <2>2 DEF Phases, Cycling
    <3>3. list[o] # "none" /\ list[o] \in {"none", "gc", "zero", "tmp"}
      BY <1>1, <1>5 DEF Phases, Lists, Loops
    <3> QED
      BY <1>5, <2>2, <3>1, <3>2, <3>3
  <2> QED
    BY <2>1, <2>2
<1>6. ASSUME NEW o \in universe, External(o) > 0 PROVE o \in Z
  <2>1. state[o] # "absent"
    BY <1>1, <1>6 DEF Unreferred
  <2>2. pc = "cycles" => mark[o] # 1
    BY <1>1, <1>6 DEF Phases, Cycling
  <2>3. mark[o] \in {0, 1}
    BY <1>1 DEF Loops
  <2> QED
    BY <1>5, <2>1, <2>2, <2>3
<1>7. ASSUME NEW x \in Edges, x[1] \in Z PROVE x[4] \in Z
  <2>1. x[4] \in universe /\ state[x[4]] # "absent" /\ mark[x[4]] \in {0, 1} /\ x[1] \in universe
    BY <1>1, <1>2, <1>3 DEF NothingDangles, Loops
  <2>2. pc = "cycles" => mark[x[4]] = 0
    BY <1>1, <1>7, <2>1 DEF Phases, Cycling
  <2> QED
    BY <1>5, <2>1, <2>2
<1>8. Reachable \subseteq Z
  <2> HIDE DEF Z
  <2> QED
    BY <1>6, <1>7, ReachableWithin
<1> QED
  BY <1>8

\* free_object frees nothing that can be reached: nothing refers to p but
\* garbage, and only p to a variable that dies with it.
LEMMA DyingUnreachable ==
  ASSUME IInv, NEW p, Dying(p), pc = "cycles" => mark[p] = 1
  PROVE  \A o \in Reachable : state'[o] = "live"
<1>1. Loops /\ Phases /\ p \in universe /\ pc \in {"zero", "cycles"} /\ (pc = "zero" => rc[p] = 0)
  BY IInvIs DEF Dying
<1>2. /\ \A o \in Reachable : o \in universe /\ state[o] = "live" /\ mark[o] = 0
      /\ \A x \in Edges : x[1] \in Reachable => x[4] \in Reachable
      /\ \A o \in universe : External(o) > 0 => o \in Reachable
  BY <1>1, ReachableIs, ReachableLives
<1>3. /\ \A o \in universe : PartsOf(o)
      /\ \A x \in Edges : x[1] \in universe /\ x[4] \in universe
      /\ IsFiniteSet(Edges)
  BY OwnersLive
<1>4. ASSUME NEW v \in LastUse(p)
      PROVE  /\ v \in universe \cap VarRef /\ rc[v] = 1 /\ External(v) = 0
             /\ <<p, "slot", "ref", v>> \in Edges /\ <<p, "slot", "ref", v>>[1] = p /\ <<p, "slot", "ref", v>>[4] = v
  <2>1. v \in universe \cap VarRef /\ p \in universe \cap Function /\ slot[p]["ref"] = v /\ rc[v] = 1
    BY <1>1 DEF LastUse
  <2> QED
    BY <2>1, VariableOwners
<1>5. External(p) = 0 /\ (pc = "zero" => \A x \in Edges : x[4] # p) /\ (pc = "cycles" => \A x \in Edges : x[4] = p => mark[x[1]] = 1)
  <2>1. CASE pc = "zero"
    <3>1. rc[p] = Total(p) /\ rc[p] = 0 /\ \A x \in Edges : x[4] # p
      BY <1>1, <2>1, Referred
    <3>2. PartsOf(p)
      BY <1>1, <1>3
    <3>3. External(p) = 0
      <4>1. Total(p) = 0
        BY <3>1
      <4> QED
        BY <3>2, <4>1 DEF PartsOf
    <3> QED
      BY <2>1, <3>1, <3>3
  <2>2. CASE pc = "cycles"
    BY <1>1, <2>2 DEF Phases, Cycling
  <2> QED
    BY <1>1, <2>1, <2>2
<1> DEFINE Z == {o \in Reachable : o # p /\ o \notin LastUse(p)}
<1>6. ASSUME NEW o \in universe, External(o) > 0 PROVE o \in Z
  <2>1. o # p
    <3> SUFFICES ASSUME o = p PROVE FALSE
      OBVIOUS
    <3>1. External(o) = 0
      BY <1>5
    <3> QED
      BY <1>6, <3>1
  <2>2. o \notin LastUse(p)
    <3> SUFFICES ASSUME o \in LastUse(p) PROVE FALSE
      OBVIOUS
    <3>1. External(o) = 0
      BY <1>4
    <3> QED
      BY <1>6, <3>1
  <2> QED
    BY <1>2, <1>6, <2>1, <2>2
<1>7. ASSUME NEW x \in Edges, x[1] \in Z PROVE x[4] \in Z
  <2>1. PICK a, c : a = x[1] /\ c = x[4]
    OBVIOUS
  <2>2. a \in Reachable /\ a # p /\ c \in Reachable /\ mark[a] = 0
    BY <1>2, <1>7, <2>1
  <2>3. c # p
    BY <1>1, <1>5, <2>1, <2>2
  <2>4. ASSUME c \in LastUse(p) PROVE FALSE
    <3>1. PICK y : y = <<p, "slot", "ref", c>>
      OBVIOUS
    <3>2. y \in Edges /\ y[1] = p /\ y[4] = c /\ rc[c] = 1 /\ External(c) = 0 /\ c \in universe
      BY <1>4, <2>4, <3>1
    <3>3. x # y
      BY <2>1, <2>2, <3>2
    <3>4. PICK E : E = Edges
      OBVIOUS
    <3>5. IsFiniteSet(E) /\ x \in E /\ y \in E /\ x # y /\ x[4] = c /\ y[4] = c
      BY <1>3, <2>1, <3>2, <3>3, <3>4
    <3>6. Count(E, c) > 1
      BY ONLY <3>5, TwoReferences
    <3>7. rc[c] = Total(c)
      BY <1>1, <3>2, Referred
    <3> QED
      BY <1>3, <3>2, <3>4, <3>6, <3>7 DEF PartsOf
  <2> QED
    BY <2>1, <2>2, <2>3, <2>4
<1>8. Reachable \subseteq Z
  <2> HIDE DEF Z
  <2> QED
    BY <1>6, <1>7, ReachableWithin
<1> QED
  BY <1>2, <1>8, DyingLeaves

\* A step takes an object out by free_object, or takes nothing that is alive
\* and queues no registration.
Doomed(p) == Dying(p) /\ (pc = "cycles" => mark[p] = 1)
Harmless ==
  /\ \A o \in universe : state[o] = "live" => state'[o] = "live"
  /\ \A e \in Entry : entry'[e].st = "queued" => entry[e].st = "queued"

LEMMA MutateHarmless == ASSUME IInv, Mutate PROVE Harmless
<1>1. Loops /\ Contents
  BY IInvIs
<1>2. ASSUME UNCHANGED <<state, entry>> PROVE Harmless
  BY <1>2 DEF Harmless
<1>3. ASSUME NEW o, NEW content, NEW count, Allocate(o, content, count) PROVE Harmless
  BY <1>1, <1>3 DEF Harmless, Allocate, Loops
<1>4. ASSUME NEW o \in universe,
             \/ NewObject(o) \/ DupValue(o) \/ FreeValue(o)
             \/ \E f \in Slot : Get(o, f) \/ \E x \in Value, ok \in BOOLEAN : Set(o, f, x, ok)
      PROVE Harmless
  <2>1. CASE NewObject(o)
    BY <1>3, <2>1 DEF NewObject
  <2>2. CASE DupValue(o) \/ FreeValue(o)
    BY <1>2, <2>2 DEF DupValue, FreeValue, tables
  <2>3. CASE \E f \in Slot : Get(o, f) \/ \E x \in Value, ok \in BOOLEAN : Set(o, f, x, ok)
    BY <1>2, <2>3 DEF Get, Set, tables
  <2> QED
    BY <1>4, <2>1, <2>2, <2>3
<1>5. ASSUME NEW f \in universe \cap Function, NEW g \in universe \cap Function,
             \/ NewClosure(f, g)
             \/ \E v \in universe \cap VarRef, x \in Value : NewVariable(f, v, x)
      PROVE Harmless
  <2>1. CASE NewClosure(f, g)
    <3>1. Allocate(f, slot[g]["ref"], Dup(slot[g]["ref"]))
      BY <2>1 DEF NewClosure
    <3> QED
      BY <1>3, <3>1
  <2>2. CASE \E v \in universe \cap VarRef, x \in Value : NewVariable(f, v, x)
    <3>1. PICK v \in universe \cap VarRef, x \in Value : NewVariable(f, v, x)
      BY <2>2
    <3>2. state' = [state EXCEPT ![f] = "live", ![v] = "live"] /\ entry' = entry
      BY <3>1 DEF NewVariable, tables
    <3> QED
      BY <1>1, <3>2 DEF Harmless, Loops
  <2> QED
    BY <1>5, <2>1, <2>2
<1>6. ASSUME NEW f \in universe \cap Function, GetVariable(f) \/ \E x \in Value : SetVariable(f, x) PROVE Harmless
  BY <1>2, <1>6 DEF GetVariable, SetVariable, tables
<1>7. ASSUME NEW w \in universe \cap WeakRef, Deref(w) \/ \E o \in universe : NewWeakRef(w, o) PROVE Harmless
  <2>1. CASE Deref(w)
    BY <1>2, <2>1 DEF Deref, tables
  <2>2. CASE \E o \in universe : NewWeakRef(w, o)
    BY <1>3, <2>2 DEF NewWeakRef
  <2> QED
    BY <1>7, <2>1, <2>2
<1>8. ASSUME NEW m \in universe \cap WeakMap, NEW k \in universe,
             MapGet(m, k) \/ MapDelete(m, k) \/ \E x \in Value : MapSet(m, k, x)
      PROVE Harmless
  BY <1>2, <1>8 DEF MapGet, MapSet, MapDelete, tables
<1>9. ASSUME NEW r \in universe \cap Registry, NEW cb \in Value, NewRegistry(r, cb) PROVE Harmless
  <2>1. Allocate(r, cb, Dup(cb))
    BY <1>9 DEF NewRegistry
  <2> QED
    BY <1>3, <2>1
<1>10. ASSUME NEW r \in universe \cap Registry, NEW e \in Entry, NEW t \in universe, NEW x \in Value, NEW token,
              Register(e, r, t, x, token)
       PROVE Harmless
  <2>1. state' = state /\ entry' = [entry EXCEPT ![e] = [st |-> "registered", reg |-> r, target |-> t,
                                                          held |-> x, token |-> token, cb |-> slot[r]["ref"]]]
    BY <1>10 DEF Register
  <2> QED
    BY <1>1, <2>1 DEF Harmless, Contents
<1>11. CASE RunJob
  <2>1. state' = state /\ entry' = [entry EXCEPT ![Head(jobs)] = NoEntry]
    BY <1>11 DEF RunJob
  <2> QED
    BY <1>1, <2>1 DEF Harmless, Contents, NoEntry
<1> QED
  BY <1>4, <1>5, <1>6, <1>7, <1>8, <1>9, <1>10, <1>11 DEF Mutate

LEMMA StepFrees == ASSUME IInv, [Next]_vars PROVE Harmless \/ \E p \in universe : Doomed(p)
<1>1. Loops /\ Phases /\ Contents
  BY IInvIs
<1>2. ASSUME UNCHANGED <<state, entry>> PROVE Harmless
  BY <1>2 DEF Harmless
<1>3. CASE Mutate
  BY <1>3, MutateHarmless
<1>4. CASE RunGC \/ Restore \/ \E o \in universe : Scan(o)
  BY <1>2, <1>4 DEF RunGC, Restore, Scan, tables
<1>5. CASE EndGC
  <2>1. ASSUME NEW o \in universe, state[o] = "live" PROVE state'[o] = "live"
    <3>1. state'[o] = IF list[o] = "zero" THEN "absent" ELSE state[o]
      BY <1>5, <2>1 DEF EndGC
    <3>2. list[o] # "zero"
      BY <1>5, <2>1, KeptUnreferred DEF EndGC
    <3> QED
      BY <2>1, <3>1, <3>2
  <2>2. entry' = entry
    BY <1>5 DEF EndGC, tables
  <2> QED
    BY <2>1, <2>2 DEF Harmless
<1>6. ASSUME NEW p \in universe, FreeCycle(p) PROVE Harmless \/ Doomed(p)
  <2>1. CASE p \in VarRef
    BY <1>2, <1>6, <2>1 DEF FreeCycle, tables
  <2>2. CASE p \notin VarRef
    <3>1. FreeObject(p) /\ UNCHANGED <<handles, frees, pc, todo, inFree, universe>> /\ pc = "cycles" /\ list[p] = "tmp"
      BY <1>6, <2>2 DEF FreeCycle
    <3>2. state[p] = "live" /\ mark[p] = 1
      BY <1>1, <3>1 DEF Phases, Cycling
    <3> QED
      BY <2>2, <3>1, <3>2 DEF Doomed, Dying
  <2> QED
    BY <2>1, <2>2
<1>7. ASSUME NEW p \in universe, FreeZero(p) PROVE Doomed(p)
  <2>1. FreeObject(p) /\ UNCHANGED <<handles, frees, todo, inFree, universe>> /\ pc = "zero" /\ list[p] = "zero"
    BY <1>7 DEF FreeZero
  <2>2. rc[p] = 0 /\ state[p] = "live"
    BY <1>1, <2>1 DEF Phases, Zeroing, Lists, Loops
  <2>3. p \notin VarRef
    BY <2>1, <2>2, VariableCounted
  <2> QED
    BY <2>1, <2>2, <2>3 DEF Doomed, Dying
<1>8. CASE FreeArgument
  BY <1>2, <1>8 DEF FreeArgument, tables
<1>9. CASE FreeRuntime
  <2>1. state' = state /\ entry' = [e \in Entry |-> IF entry[e].st = "queued" THEN NoEntry ELSE entry[e]]
    BY <1>9 DEF FreeRuntime
  <2> QED
    BY <1>1, <2>1 DEF Harmless, NoEntry
<1>10. CASE Done \/ UNCHANGED vars
  BY <1>2, <1>10 DEF Done, vars
<1> QED
  BY <1>3, <1>4, <1>5, <1>6, <1>7, <1>8, <1>9, <1>10 DEF Next, Collect

LEMMA StepKeepsReachable == IInv /\ [Next]_vars => \A o \in Reachable : state'[o] = "live"
<1> SUFFICES ASSUME IInv, [Next]_vars PROVE \A o \in Reachable : state'[o] = "live"
  OBVIOUS
<1>1. CASE Harmless
  BY <1>1, ReachableLives DEF Harmless
<1>2. ASSUME NEW p \in universe, Doomed(p) PROVE \A o \in Reachable : state'[o] = "live"
  BY <1>2, DyingUnreachable DEF Doomed
<1> QED
  BY <1>1, <1>2, StepFrees

\* No step frees an object that the host, a job or a script can still reach.
\* (JS_RunGC, free_zero_refcount)
THEOREM ReachableIsKept == Spec => ReachableKept
<1>1. IInv /\ [Next]_vars => [\A o \in Reachable : state'[o] = "live"]_vars
  BY StepKeepsReachable
<1> QED
  BY <1>1, Invariance, PTL DEF Spec, ReachableKept

-----------------------------------------------------------------------------
(* What cannot be reached is freed.                                        *)

\* While gc_scan runs, what is on gc_obj_list can be reached; and once the
\* runtime is being freed nothing can.
Tracing ==
  /\ pc = "scan" => \A o \in universe : list[o] = "gc" => o \in Reachable
  /\ inFree => /\ \A o \in universe : handles[o] = 0
               /\ \A e \in Entry : entry[e].st # "queued"
  /\ inFree /\ pc \in {"scan", "cycles"} => frees = <<>>
  /\ inFree /\ pc = "cycles" => \A o \in universe : list[o] # "gc"

LEMMA ReachableIsNext ==
  (IInv => /\ Reachable \subseteq universe
           /\ \A o \in universe : External(o) > 0 => o \in Reachable
           /\ \A x \in Edges : x[1] \in Reachable => x[4] \in Reachable)'
<1>1. IInv => /\ Reachable \subseteq universe
              /\ \A o \in universe : External(o) > 0 => o \in Reachable
              /\ \A x \in Edges : x[1] \in Reachable => x[4] \in Reachable
  BY ReachableIs
<1> QED
  BY <1>1, PTL

\* A step of the collector that frees nothing leaves what can be reached.
LEMMA CollectingReaches == ASSUME IInv, IInv', Collecting PROVE Reachable \subseteq Reachable'
<1>1. Edges' = Edges /\ universe' = universe /\ \A o : External(o)' = External(o)
  BY CollectingSame DEF Collecting
<1>2. PICK Z : Z = Reachable'
  OBVIOUS
<1>3. \A o \in universe : External(o) > 0 => o \in Z
  BY <1>1, <1>2, ReachableIsNext
<1>4. \A x \in Edges : x[1] \in Z => x[4] \in Z
  BY <1>1, <1>2, ReachableIsNext
<1> QED
  BY <1>2, <1>3, <1>4, ReachableWithin

\* Without references from outside nothing can be reached.
LEMMA FreedUnreachable ==
  ASSUME IInv, Tracing, inFree, frees = <<>>
  PROVE  Reachable = {}
<1>1. ASSUME NEW o \in universe, External(o) > 0 PROVE FALSE
  <2>1. PartsOf(o)
    BY OwnersLive
  <2>2. handles[o] = 0
    BY DEF Tracing
  <2>3. Pending(frees, o) = 0
    BY PendingNone
  <2>4. JobEdges = {}
    BY DEF Tracing, JobEdges
  <2>5. Count(JobEdges, o) = 0
    BY <2>4, CountNothing
  <2> QED
    BY <1>1, <2>1, <2>2, <2>3, <2>5 DEF PartsOf
<1>2. PICK Z : Z = {}
  OBVIOUS
<1>3. \A o \in universe : External(o) > 0 => o \in Z
  BY <1>1
<1>4. \A x \in Edges : x[1] \in Z => x[4] \in Z
  BY <1>2
<1>5. Reachable \subseteq Z
  BY <1>3, <1>4, ReachableWithin
<1> QED
  BY <1>2, <1>5

\* When gc_scan has visited all it keeps, the rest cannot be reached.
LEMMA ScannedReachable ==
  ASSUME IInv, pc = "scan", todo = {}
  PROVE  \A o \in Reachable : list[o] = "gc"
<1>1. Loops /\ Phases /\ Unreferred /\ Exact
  BY IInvIs
<1>2. /\ \A x \in Edges : x[1] \in universe /\ x[4] \in universe
      /\ \A o \in universe : PartsOf(o)
      /\ IsFiniteSet(Edges) /\ NothingDangles
  BY OwnersLive, InvariantReferences
<1> DEFINE Z == {o \in universe : list[o] = "gc"}
<1>3. \A o \in universe : list[o] \in {"none", "gc", "tmp"} /\ (list[o] = "none" => state[o] = "absent") /\ (list[o] = "tmp" => rc[o] = 0)
  BY <1>1 DEF Phases, Scanning, Lists
<1>4. Counted = {x \in Edges : list[x[1]] = "gc"}
  BY DEF Counted
<1>5. \A o \in universe : Count(Counted, o) \in Nat /\ (\A x \in Counted : x[4] = o => Count(Counted, o) # 0)
  <2>1. PICK E : E = Counted
    OBVIOUS
  <2>2. IsFiniteSet(E)
    <3>1. PICK F : F = Edges
      OBVIOUS
    <3>2. IsFiniteSet(F) /\ E \in SUBSET F
      BY <1>2, <1>4, <2>1, <3>1
    <3> QED
      BY ONLY <3>2, FS_Subset
  <2>3. \A o \in universe : Count(E, o) \in Nat /\ (\A x \in E : x[4] = o => Count(E, o) # 0)
    BY <2>2, CountType, CountZero
  <2> QED
    BY <2>1, <2>3
<1>6. \A o \in universe : rc[o] = External(o) + Count(Counted, o)
  BY <1>1 DEF Exact
<1>7. ASSUME NEW o \in universe, External(o) > 0 PROVE o \in Z
  <2>1. PartsOf(o) /\ state[o] # "absent"
    BY <1>1, <1>2, <1>7 DEF Unreferred
  <2>2. External(o) \in Nat
    BY <2>1 DEF PartsOf
  <2>3. rc[o] # 0
    BY <1>5, <1>6, <1>7, <2>2
  <2> QED
    BY <1>3, <2>1, <2>3
<1>8. ASSUME NEW x \in Edges, x[1] \in Z PROVE x[4] \in Z
  <2>1. PICK o \in universe : o = x[4]
    BY <1>2
  <2>2. x \in Counted
    BY <1>4, <1>8
  <2>3. Count(Counted, o) \in Nat /\ Count(Counted, o) # 0
    BY <1>5, <2>1, <2>2
  <2>4. PartsOf(o)
    BY <1>2
  <2>5. External(o) \in Nat
    BY <2>4 DEF PartsOf
  <2>6. rc[o] # 0
    BY <1>6, <2>3, <2>5
  <2>7. state[o] # "absent"
    BY <1>2, <2>1 DEF NothingDangles
  <2> QED
    BY <1>3, <2>1, <2>6, <2>7
<1>9. Reachable \subseteq Z
  <2> HIDE DEF Z
  <2> QED
    BY <1>7, <1>8, ReachableWithin
<1> QED
  BY <1>9

\* gc_scan reaches the children of what it visits.
LEMMA ScanTraces == ASSUME IInv, IInv', Tracing, NEW o \in universe, Scan(o) PROVE Tracing'
<1>1. Collecting /\ pc = "scan" /\ o \in todo /\ pc' = pc
  BY DEF Scan, Collecting, tables
<1>2. Reachable \subseteq Reachable' /\ universe' = universe
  BY <1>1, CollectingReaches DEF Collecting
<1>3. ASSUME NEW c \in universe, list'[c] = "gc" PROVE c \in Reachable
  <2>1. CASE list[c] = "gc"
    BY <1>1, <2>1 DEF Tracing
  <2>2. CASE list[c] # "gc"
    <3>1. PICK E : E = {x \in Edges : x[1] = o}
      OBVIOUS
    <3>2. list'[c] = IF c \in {z \in universe : list[z] = "tmp" /\ Count(E, z) > 0} THEN "gc" ELSE list[c]
      BY <3>1 DEF Scan
    <3>3. Count(E, c) > 0
      BY <1>3, <2>2, <3>2
    <3>4. IsFiniteSet(E)
      <4>1. PICK F : F = Edges
        OBVIOUS
      <4>2. IsFiniteSet(F) /\ E \in SUBSET F
        BY <3>1, <4>1, OwnersLive
      <4> QED
        BY ONLY <4>2, FS_Subset
    <3>5. PICK x \in E : x[4] = c
      BY <3>3, <3>4, CountZero
    <3>6. x \in Edges /\ x[1] = o
      BY <3>1
    <3>7. list[o] = "gc"
      BY <1>1, IInvIs DEF Phases, Scanning
    <3>8. o \in Reachable
      BY <1>1, <3>7 DEF Tracing
    <3> QED
      BY <3>5, <3>6, <3>8, ReachableIs
  <2> QED
    BY <2>1, <2>2
<1>4. \A c \in universe' : list'[c] = "gc" => c \in Reachable'
  BY <1>2, <1>3
<1> QED
  BY <1>1, <1>4 DEF Tracing, Collecting, tables

LEMMA Halted == ASSUME IInv, IInv', Tracing, Collecting, UNCHANGED <<pc, list>> PROVE Tracing'
<1>1. Reachable \subseteq Reachable' /\ universe' = universe
  BY CollectingReaches DEF Collecting
<1> QED
  BY <1>1 DEF Tracing, Collecting, tables

\* free_object puts nothing on gc_obj_list, and queues nothing while the
\* runtime is being freed.
LEMMA DyingTraces ==
  ASSUME IInv, Tracing, NEW p, Dying(p), pc' \in {pc, "run"}
  PROVE  Tracing'
<1>1. /\ list' = [o \in universe |->
                       IF o \in Freed(p) THEN "none"
                       ELSE IF o = p \/ (pc = "zero" /\ rc[o] - Count(Gone(p), o) = 0 /\ rc[o] > 0) THEN "zero" ELSE list[o]]
      /\ UNCHANGED <<handles, frees, inFree, universe>> /\ pc \in {"zero", "cycles"}
  BY ZenonT(60), DyingIs DEF Dying
<1>2. \A o \in universe : list'[o] = "gc" => list[o] = "gc"
  BY <1>1
<1>3. ASSUME inFree, NEW e \in Entry PROVE entry'[e].st # "queued"
  <2>1. e \notin Queued(p)
    BY <1>3 DEF Queued
  <2>2. entry'[e] = NoEntry \/ entry'[e] = entry[e]
    BY <2>1, EntryAfter
  <2> QED
    BY <1>3, <2>2 DEF Tracing, NoEntry
<1> QED
  BY <1>1, <1>2, <1>3 DEF Tracing

LEMMA TracingKeeps == ASSUME IInv, IInv', Tracing, [Next]_vars PROVE Tracing'
<1>1. Loops /\ Phases
  BY IInvIs
<1>2. ASSUME ~inFree', pc' \in {"run", "zero"} PROVE Tracing'
  BY <1>2 DEF Tracing
<1>3. CASE Mutate
  <2>1. CanRun => ~inFree /\ pc = "run"
    BY DEF CanRun
  <2>2. ASSUME NEW count, NEW o, Release(count, o) PROVE pc' \in {pc, "zero"}
    BY <2>2 DEF Release
  <2>3. ASSUME NEW o, NEW c, NEW n, Allocate(o, c, n) PROVE pc' = pc /\ inFree' = inFree
    BY <2>3 DEF Allocate
  <2>4. ASSUME NEW o \in universe,
               \/ NewObject(o) \/ DupValue(o) \/ FreeValue(o)
               \/ \E f \in Slot : Get(o, f) \/ \E x \in Value, ok \in BOOLEAN : Set(o, f, x, ok)
        PROVE ~inFree' /\ pc' \in {"run", "zero"}
    <3>1. CASE NewObject(o) \/ DupValue(o) \/ \E f \in Slot : Get(o, f)
      BY <2>1, <2>3, <3>1 DEF NewObject, DupValue, Get
    <3>2. CASE FreeValue(o)
      BY <2>1, <2>2, <3>2 DEF FreeValue
    <3>3. ASSUME NEW f \in Slot, NEW x \in Value, NEW ok \in BOOLEAN, Set(o, f, x, ok) PROVE ~inFree' /\ pc' \in {"run", "zero"}
      <4>1. CanRun /\ inFree' = inFree /\ (Release(rc, slot[o][f]) \/ Release(rc, x))
        BY <3>3 DEF Set
      <4> QED
        BY <2>1, <2>2, <4>1
    <3> QED
      BY <2>4, <3>1, <3>2, <3>3
  <2>5. ASSUME NEW f \in universe \cap Function, NEW g \in universe \cap Function,
               \/ NewClosure(f, g)
               \/ \E v \in universe \cap VarRef, x \in Value : NewVariable(f, v, x)
        PROVE ~inFree' /\ pc' \in {"run", "zero"}
    BY <2>1, <2>3, <2>5 DEF NewClosure, NewVariable
  <2>6. ASSUME NEW f \in universe \cap Function, GetVariable(f) \/ \E x \in Value : SetVariable(f, x)
        PROVE ~inFree' /\ pc' \in {"run", "zero"}
    <3>1. CASE GetVariable(f)
      BY <2>1, <3>1 DEF GetVariable
    <3>2. ASSUME NEW x \in Value, SetVariable(f, x) PROVE ~inFree' /\ pc' \in {"run", "zero"}
      <4>1. CanRun /\ inFree' = inFree /\ Release(Dup(x), slot[slot[f]["ref"]]["ref"])
        BY <3>2 DEF SetVariable
      <4> QED
        BY <2>1, <2>2, <4>1
    <3> QED
      BY <2>6, <3>1, <3>2
  <2>7. ASSUME NEW w \in universe \cap WeakRef, Deref(w) \/ \E o \in universe : NewWeakRef(w, o)
        PROVE ~inFree' /\ pc' \in {"run", "zero"}
    BY <2>1, <2>3, <2>7 DEF Deref, NewWeakRef
  <2>8. ASSUME NEW m \in universe \cap WeakMap, NEW k \in universe,
               MapGet(m, k) \/ MapDelete(m, k) \/ \E x \in Value : MapSet(m, k, x)
        PROVE ~inFree' /\ pc' \in {"run", "zero"}
    BY <2>1, <2>2, <2>8 DEF MapGet, MapSet, MapDelete
  <2>9. ASSUME NEW r \in universe \cap Registry,
               \/ \E cb \in Value : NewRegistry(r, cb)
               \/ \E e \in Entry, t \in universe, x \in Value : \E token \in {None, t} : Register(e, r, t, x, token)
        PROVE ~inFree' /\ pc' \in {"run", "zero"}
    <3>1. ASSUME NEW cb \in Value, NewRegistry(r, cb) PROVE ~inFree' /\ pc' \in {"run", "zero"}
      BY <2>1, <2>3, <3>1 DEF NewRegistry
    <3>2. ASSUME NEW e \in Entry, NEW t \in universe, NEW x \in Value, NEW token, Register(e, r, t, x, token)
          PROVE ~inFree' /\ pc' \in {"run", "zero"}
      BY <2>1, <3>2 DEF Register
    <3> QED
      BY <2>9, <3>1, <3>2
  <2>10. CASE RunJob
    BY <1>2, <2>1, <2>10 DEF RunJob
  <2> QED
    BY <1>2, <1>3, <2>4, <2>5, <2>6, <2>7, <2>8, <2>9, <2>10 DEF Mutate
<1>4. CASE RunGC
  <2>1. Collecting /\ pc = "run" /\ pc' = "scan" /\ (inFree => frees = <<>>)
    BY <1>4 DEF RunGC, Collecting, CanRun
  <2>2. Reachable \subseteq Reachable' /\ universe' = universe
    BY <2>1, CollectingReaches DEF Collecting
  <2>3. ASSUME NEW o \in universe, list'[o] = "gc" PROVE o \in Reachable
    <3>1. rc[o] - Count(Edges, o) = External(o) /\ External(o) \in Nat
      <4>1. PartsOf(o)
        BY OwnersLive
      <4>2. rc[o] = Total(o) /\ rc[o] \in Nat
        BY <2>1, Referred
      <4> QED
        BY <4>1, <4>2 DEF PartsOf
    <3>2. list'[o] = IF state[o] = "live" /\ External(o) = 0 THEN "tmp" ELSE list[o]
      BY <1>4, <3>1 DEF RunGC
    <3>3. state[o] = "live" <=> list[o] # "none"
      BY <1>1, <2>1 DEF Phases, Running, Lists, Loops
    <3>4. External(o) # 0
      BY <2>3, <3>2, <3>3
    <3> QED
      BY <3>1, <3>4, ReachableIs
  <2> QED
    BY <2>1, <2>2, <2>3 DEF Tracing, Collecting, tables
<1>5. CASE Restore
  <2>1. Collecting /\ pc = "scan" /\ pc' = "cycles" /\ list' = list
    BY <1>5 DEF Restore, Collecting, tables
  <2>2. inFree => frees = <<>>
    BY <2>1 DEF Tracing
  <2>3. inFree => Reachable = {}
    BY <2>2, FreedUnreachable
  <2> QED
    BY <2>1, <2>2, <2>3 DEF Tracing, Collecting, tables
<1>6. CASE EndGC
  BY <1>6 DEF EndGC, Tracing, tables
<1>7. CASE \E o \in universe : Scan(o)
  BY <1>7, ScanTraces
<1>8. ASSUME NEW p \in universe, FreeCycle(p) PROVE Tracing'
  <2>1. CASE p \in VarRef
    <3>1. pc = "cycles" /\ list' = [list EXCEPT ![p] = "zero"] /\ UNCHANGED <<handles, frees, entry, pc, inFree, universe>>
      BY <1>8, <2>1 DEF FreeCycle, tables
    <3>2. \A o \in universe : list'[o] = "gc" => list[o] = "gc"
      BY <1>1, <3>1 DEF Loops
    <3> QED
      BY <3>1, <3>2 DEF Tracing
  <2>2. CASE p \notin VarRef
    <3>1. FreeObject(p) /\ UNCHANGED <<handles, frees, pc, todo, inFree, universe>> /\ pc = "cycles" /\ list[p] = "tmp"
      BY <1>8, <2>2 DEF FreeCycle
    <3>2. state[p] = "live"
      BY <1>1, <3>1 DEF Phases, Cycling
    <3>3. Dying(p)
      BY <2>2, <3>1, <3>2 DEF Dying
    <3> QED
      BY <3>1, <3>3, DyingTraces
  <2> QED
    BY <2>1, <2>2
<1>9. ASSUME NEW p \in universe, FreeZero(p) PROVE Tracing'
  <2>1. FreeObject(p) /\ UNCHANGED <<handles, frees, todo, inFree, universe>> /\ pc = "zero" /\ list[p] = "zero"
        /\ pc' \in {pc, "run"}
    BY <1>9 DEF FreeZero
  <2>2. rc[p] = 0 /\ state[p] = "live"
    BY <1>1, <2>1 DEF Phases, Zeroing, Lists, Loops
  <2>3. p \notin VarRef
    BY <2>1, <2>2, VariableCounted
  <2>4. Dying(p)
    BY <2>1, <2>2, <2>3 DEF Dying
  <2> QED
    BY <2>1, <2>4, DyingTraces
<1>10. CASE FreeArgument
  <2>1. pc = "run" /\ Release(rc, Head(frees)) /\ UNCHANGED <<entry, handles, inFree, universe>>
    BY <1>10 DEF FreeArgument, tables
  <2>2. pc' \in {"run", "zero"}
    BY <2>1 DEF Release
  <2> QED
    BY <2>1, <2>2 DEF Tracing
<1>11. CASE FreeRuntime
  <2>1. /\ pc = "run" /\ pc' = pc /\ handles' = handles /\ universe' = universe
        /\ \A o \in universe : handles[o] = 0
        /\ entry' = [e \in Entry |-> IF entry[e].st = "queued" THEN NoEntry ELSE entry[e]]
    BY <1>11 DEF FreeRuntime, CanRun
  <2>2. \A e \in Entry : entry'[e].st # "queued"
    BY <2>1 DEF NoEntry
  <2> QED
    BY <2>1, <2>2 DEF Tracing
<1>12. CASE Done \/ UNCHANGED vars
  <2>1. Collecting /\ UNCHANGED <<pc, list>>
    BY <1>12 DEF Done, vars, Collecting, tables
  <2> QED
    BY <2>1, Halted
<1> QED
  BY <1>3, <1>4, <1>5, <1>6, <1>7, <1>8, <1>9, <1>10, <1>11, <1>12 DEF Next, Collect

LEMMA TracingAlways == Spec => [](IInv /\ Tracing)
<1>1. Init => IInv /\ Tracing
  <2>1. Init => IInv
    BY Initially
  <2>2. Init => Tracing
    BY DEF Init, Tracing
  <2> QED
    BY <2>1, <2>2
<1>2. IInv /\ Tracing /\ [Next]_vars => (IInv /\ Tracing)'
  <2> SUFFICES ASSUME IInv, Tracing, [Next]_vars PROVE IInv' /\ Tracing'
    OBVIOUS
  <2>1. IInv'
    BY StepKeeps
  <2> QED
    BY <2>1, TracingKeeps
<1> QED
  BY <1>1, <1>2, PTL DEF Spec

\* What a collection leaves.
Collected ==
  /\ pc = "scan" /\ pc' = "cycles" =>
       LET kept == Reachable IN
       \A o \in universe : list[o] = "tmp" <=> state[o] = "live" /\ o \notin kept
  /\ pc = "cycles" /\ pc' # "cycles" =>
       \A o \in universe : mark[o] = 1 \/ inFree => state'[o] = "absent"

LEMMA StepCollects == IInv /\ Tracing /\ [Next]_vars => Collected
<1> SUFFICES ASSUME IInv, Tracing, [Next]_vars PROVE Collected
  OBVIOUS
<1>1. Loops /\ Phases
  BY IInvIs
<1>2. ASSUME pc = "scan", pc' = "cycles"
      PROVE \A o \in universe : list[o] = "tmp" <=> state[o] = "live" /\ o \notin Reachable
  <2>1. todo = {}
    <3>1. Restore \/ \E o \in universe : Scan(o)
      BY <1>2 DEF Next, Collect, Mutate, NewObject, DupValue, FreeValue, Get, Set, NewClosure, NewVariable, GetVariable,
           SetVariable, Deref, NewWeakRef, MapGet, MapDelete, MapSet, NewRegistry, Register, RunJob, CanRun, RunGC, EndGC,
           FreeCycle, FreeZero, FreeArgument, FreeRuntime, Done, vars
    <3> QED
      BY <1>2, <3>1 DEF Restore, Scan
  <2>2. \A o \in Reachable : list[o] = "gc"
    BY <1>2, <2>1, ScannedReachable
  <2>3. \A o \in universe : list[o] = "gc" => o \in Reachable
    BY <1>2 DEF Tracing
  <2>4. \A o \in universe : state[o] \in {"absent", "live"} /\ list[o] \in {"none", "gc", "tmp"}
                            /\ (state[o] = "absent" <=> list[o] = "none")
    BY <1>1, <1>2 DEF Loops, Phases, Scanning, Lists
  <2> QED
    BY <2>2, <2>3, <2>4
<1>3. ASSUME pc = "cycles", pc' # "cycles"
      PROVE \A o \in universe : mark[o] = 1 \/ inFree => state'[o] = "absent"
  <2>1. EndGC
    BY <1>3 DEF Next, Collect, Mutate, NewObject, DupValue, FreeValue, Get, Set, NewClosure, NewVariable, GetVariable,
         SetVariable, Deref, NewWeakRef, MapGet, MapDelete, MapSet, NewRegistry, Register, RunJob, CanRun, RunGC, Restore, Scan,
         FreeCycle, FreeZero, FreeArgument, FreeRuntime, Done, vars
  <2>2. ASSUME NEW o \in universe, mark[o] = 1 \/ inFree PROVE state'[o] = "absent"
    <3>1. /\ list[o] \in {"tmp", "zero"} <=> mark[o] = 1
          /\ list[o] # "tmp" /\ (state[o] = "absent" <=> list[o] = "none")
          /\ list[o] \in {"none", "gc", "zero", "tmp"}
      BY <1>1, <1>3, <2>1 DEF Phases, Cycling, Lists, Loops, EndGC
    <3>2. inFree => list[o] # "gc"
      BY <1>3 DEF Tracing
    <3>3. state'[o] = IF list[o] = "zero" THEN "absent" ELSE state[o]
      BY <2>1 DEF EndGC
    <3> QED
      BY <2>2, <3>1, <3>2, <3>3
  <2> QED
    BY <2>2
<1> QED
  BY <1>2, <1>3 DEF Collected

\* gc_scan leaves as garbage exactly what cannot be reached, gc_free_cycles
\* frees all of it, and when the runtime is freed nothing is left.
\* (gc_decref, gc_scan, gc_free_cycles, JS_FreeRuntime)
THEOREM GarbageIsCollected == Spec => GarbageCollected
<1>1. IInv /\ Tracing /\ [Next]_vars => [Collected]_vars
  BY StepCollects
<1>2. Spec => [][Collected]_vars
  BY <1>1, TracingAlways, PTL DEF Spec
<1> QED
  BY <1>2 DEF Collected, GarbageCollected

-----------------------------------------------------------------------------
(* Finalization.                                                           *)

\* What free_object does to the registrations: the one whose target dies is
\* queued if its registry can be reached, for then so can what its job needs.
Told(e) ==
  LET dies == entry[e].st = "registered" /\ state'[entry[e].target] # "live"
      queued == entry[e].st # "queued" /\ entry'[e].st = "queued" IN
  /\ dies /\ entry[e].reg \in Reachable /\ ~inFree => queued
  /\ queued => dies /\ Cardinality({i \in DOMAIN jobs' : jobs'[i] = e}) = 1

LEMMA QueuedOnce == (IInv => \A e \in Entry : entry[e].st = "queued" => Cardinality({i \in DOMAIN jobs : jobs[i] = e}) = 1)'
<1>1. IInv => \A e \in Entry : entry[e].st = "queued" => Cardinality({i \in DOMAIN jobs : jobs[i] = e}) = 1
  <2> SUFFICES ASSUME IInv, NEW e \in Entry, entry[e].st = "queued" PROVE Cardinality({i \in DOMAIN jobs : jobs[i] = e}) = 1
    OBVIOUS
  <2>1. Queue
    BY IInvIs DEF Structure
  <2>2. PICK i \in DOMAIN jobs : jobs[i] = e
    BY <2>1 DEF Queue
  <2>3. {j \in DOMAIN jobs : jobs[j] = e} = {i}
    BY <2>1, <2>2 DEF Queue
  <2> QED
    BY <2>3, FS_Singleton
<1> QED
  BY <1>1, PTL

LEMMA StepTells == IInv /\ [Next]_vars => \A e \in Entry : Told(e)
<1> SUFFICES ASSUME IInv, [Next]_vars, NEW e \in Entry PROVE Told(e)
  OBVIOUS
<1>1. Structure /\ Contents
  BY IInvIs
<1>2. entry'[e].st = "queued" => Cardinality({i \in DOMAIN jobs' : jobs'[i] = e}) = 1
  BY StepKeeps, QueuedOnce
<1>3. entry[e].st = "registered" => entry[e].target \in universe /\ state[entry[e].target] = "live"
  BY <1>1 DEF Structure, Weak
<1>4. CASE Harmless
  BY <1>3, <1>4 DEF Harmless, Told
<1>5. ASSUME NEW p \in universe, Doomed(p) PROVE Told(e)
  <2>1. Dying(p) /\ (pc = "cycles" => mark[p] = 1)
    BY <1>5 DEF Doomed
  <2>2. \A o \in Reachable : state'[o] = "live"
    BY <2>1, DyingUnreachable
  <2>3. ASSUME entry[e].st # "queued", entry'[e].st = "queued" PROVE entry[e].st = "registered" /\ state'[entry[e].target] # "live"
    <3>1. e \in Queued(p)
      BY <2>1, <2>3, EntryAfter DEF NoEntry
    <3>2. e \in Due(p)
      BY <2>1, <3>1, FreedAre
    <3>3. state'[p] # "live"
      BY <2>1, DyingLeaves
    <3> QED
      BY <3>2, <3>3 DEF Due
  <2>4. ASSUME entry[e].st = "registered", state'[entry[e].target] # "live", entry[e].reg \in Reachable, ~inFree
        PROVE entry'[e].st = "queued"
    <3>1. PICK t \in universe : t = entry[e].target
      BY <1>3, <2>4
    <3>2. t \notin VarRef
      BY <1>1, <3>1 DEF Structure, Captured
    <3>3. t = p
      BY <1>3, <2>1, <2>4, <3>1, <3>2, DyingLeaves
    <3>4. e \in Due(p)
      BY <2>4, <3>1, <3>3 DEF Due
    <3>5. ASSUME NEW kind \in {"held", "cb"}, Part(entry[e], kind) # None PROVE Part(entry[e], kind) \in Reachable
      <4>1. PICK r, c : r = entry[e].reg /\ c = Part(entry[e], kind)
        OBVIOUS
      <4>2. PICK x : x = <<r, kind, e, c>>
        OBVIOUS
      <4>3. x[1] = r /\ x[2] = kind /\ x[3] = e /\ x[4] = c /\ Tuple(x)
        BY <4>2 DEF Tuple
      <4>4. OfEntry(x, entry)
        BY <2>4, <4>1, <4>3 DEF OfEntry
      <4>5. IsEdge(x, universe, slot, records, entry)
        BY <3>5, <4>1, <4>3, <4>4 DEF IsEdge
      <4>6. x \in Edges
        BY <4>5, OwnersLive
      <4> QED
        BY <2>4, <4>1, <4>3, <4>6, ReachableIs
    <3>6. ASSUME NEW kind \in {"held", "cb"} PROVE Usable(Part(entry[e], kind), p)
      <4>1. PICK c : c = Part(entry[e], kind)
        OBVIOUS
      <4>2. CASE c # None
        <5>1. c \in Reachable
          BY <3>5, <4>1, <4>2
        <5>2. state'[c] = "live" /\ state[c] = "live" /\ mark[c] = 0
          BY <2>1, <2>2, <5>1, ReachableLives DEF Dying
        <5>3. c # p
          BY <2>1, <5>2, DyingLeaves
        <5> QED
          BY <4>1, <5>2, <5>3 DEF Usable
      <4>3. CASE c = None
        BY <4>1, <4>3 DEF Usable
      <4> QED
        BY <4>2, <4>3
    <3>7. Usable(entry[e].held, p) /\ Usable(entry[e].cb, p)
      BY <3>6 DEF Part
    <3>8. e \in Queued(p)
      BY <2>4, <3>4, <3>7 DEF Queued
    <3> QED
      BY <2>1, <3>8, EntryAfter
  <2>5. entry[e].st = "registered" => entry[e].st # "queued"
    OBVIOUS
  <2> QED
    BY <1>2, <2>3, <2>4, <2>5 DEF Told
<1> QED
  BY <1>4, <1>5, StepFrees

\* A registration whose target dies while its registry can be reached gets one
\* job, unless the runtime is being freed; and no other registration does.
\* (reset_weak_ref, js_finrec_finalizer)
THEOREM FinalizationIsDelivered == Spec => FinalizationDelivered
<1>1. IInv /\ [Next]_vars =>
        [\A e \in Entry :
           LET dies == entry[e].st = "registered" /\ state'[entry[e].target] # "live"
               queued == entry[e].st # "queued" /\ entry'[e].st = "queued" IN
           /\ dies /\ entry[e].reg \in Reachable /\ ~inFree => queued
           /\ queued => dies /\ Cardinality({i \in DOMAIN jobs' : jobs'[i] = e}) = 1]_vars
  BY StepTells DEF Told
<1> QED
  BY <1>1, Invariance, PTL DEF Spec, FinalizationDelivered

=============================================================================
