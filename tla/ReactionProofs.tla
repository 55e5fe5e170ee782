--------------------------- MODULE ReactionProofs --------------------------
(***************************************************************************)
(* Proofs about the reactions that scripts and combinators register:       *)
(* callbacks run in order and outcomes are passed on, what a combinator    *)
(* answers is what its items did, and nothing is forgotten when no job is  *)
(* left.                                                                   *)
(***************************************************************************)
EXTENDS AsyncProofs

-----------------------------------------------------------------------------
(* Steps that call none of the functions of K, and refer to none.          *)

Tended(K, e, c) == Good(e, Handler(c), Val) /\ Straight(e) /\ K \subseteq Made(e)
Tending(K, e, d, c) ==
  /\ Tended(K, d, c) /\ Made(e) \subseteq Made(d) /\ Chained(d) \subseteq Chained(e) /\ e.resolved \subseteq d.resolved
  /\ Tidy(e, d, K, Made(e) \ K)
Free(K, e) == Made(e) \ (K \cup Chained(e))

\* What is known of these engines.
LEMMA TendedKnown ==
  ASSUME NEW K, NEW e, NEW c, Tended(K, e, c)
  PROVE  /\ Good(e, Handler(c), Val) /\ Straight(e) /\ K \in SUBSET Pair /\ Error \in Val
         /\ K \cup Chained(e) \in SUBSET Pair /\ Tending(K, e, e, c)
<1>1. K \in SUBSET Pair /\ Good(e, Handler(c), Val) /\ Straight(e) /\ Made(e) \subseteq Pair
  BY DEF Tended, Made
<1>2. Chained(e) \subseteq Pair
  BY <1>1, ChainedMade
<1>3. Tidy(e, e, K, {})
  BY <1>1, TidySame
<1>4. Tidy(e, e, K, Made(e) \ K)
  BY <1>3, TidyLess
<1> QED
  BY <1>1, <1>2, <1>4 DEF Val, Value, Tending

LEMMA TendingTransitive ==
  ASSUME NEW K, NEW e, NEW d, NEW b, NEW c, Tending(K, e, d, c), Tending(K, d, b, c)
  PROVE  Tending(K, e, b, c)
<1>1. Tidy(e, d, K, Made(e) \ K) /\ Tidy(d, b, K, Made(d) \ K) /\ Made(e) \subseteq Made(d) /\ Made(d) \subseteq Made(b)
  BY DEF Tending
<1>2. Tidy(e, b, K, (Made(e) \ K) \cup (Made(d) \ K))
  BY <1>1, TidyTransitive
<1>3. ((Made(e) \ K) \cup (Made(d) \ K)) \cap Made(e) \subseteq Made(e) \ K
  OBVIOUS
<1>4. Tidy(e, b, K, Made(e) \ K)
  BY <1>2, <1>3, TidyLess
<1> QED
  BY <1>1, <1>4 DEF Tending

\* A step that changes little.
LEMMA TidyTends ==
  ASSUME NEW K, NEW e, NEW c, Tended(K, e, c), NEW d, Good(d, Handler(c), Val), Made(e) \subseteq Made(d),
         Chained(d) \subseteq Chained(e), Grows(e, d), NEW C, Tidy(e, d, K, C), C \cap K = {}
  PROVE  Tending(K, e, d, c)
<1>1. C \cap Made(e) \subseteq Made(e) \ K
  OBVIOUS
<1>2. Tidy(e, d, K, Made(e) \ K)
  BY <1>1, TidyLess
<1>3. Straight(d)
  BY <1>2 DEF Tidy
<1> QED
  BY <1>2, <1>3 DEF Tended, Tending, Grows

\* A promise is created.
LEMMA CreateTends ==
  ASSUME NEW c, NEW K, NEW e, Tended(K, e, c), Fresh(e) # {}, NEW d, d = Create(e)
  PROVE  /\ Tending(K, e, d, c) /\ New(e) \in Promise
         /\ Cap(New(e)) \in Free(K, d) \ Made(e) /\ Cap(New(e)) \in Capability
<1>1. Good(e, Handler(c), Val) /\ Straight(e) /\ K \in SUBSET Pair
  BY TendedKnown
<1>2. /\ Good(d, Handler(c), Val) /\ New(e) \in Promise /\ Cap(New(e)) \in Made(d) \ Made(e) /\ Made(e) \subseteq Made(d)
      /\ Grows(e, d)
  BY <1>1, CreateGood
<1>3. Tidy(e, d, K, {}) /\ Chained(d) \subseteq Chained(e)
  BY <1>1, CreateTidy
<1>4. Tending(K, e, d, c)
  BY <1>2, <1>3, TidyTends
<1>5. Cap(New(e)) \notin Chained(d)
  BY <1>2, <1>4, FirstNotChained DEF Tending, Tended
<1> QED
  BY <1>2, <1>4, <1>5 DEF Tended, Free, Made, Capability

\* A resolving function is called.
LEMMA CallTends ==
  ASSUME NEW c, NEW K, NEW e, Tended(K, e, c), NEW pair \in Free(K, e), NEW how \in How, NEW v \in Val,
         NEW d, d = ResolvingCall(e, pair, how, v)
  PROVE  Tending(K, e, d, c)
<1>1. Good(e, Handler(c), Val) /\ Straight(e) /\ K \in SUBSET Pair /\ Error \in Val
  BY TendedKnown
<1>2. pair \in Made(e) \ Chained(e) /\ pair \notin K
  BY DEF Free
<1>3. Resolves(e, d, Handler(c), Val, pair)
  BY <1>1, <1>2, ResolvingCallGood
<1>4. Tidy(e, d, K, {pair}) /\ Made(d) = Made(e) /\ Chained(d) \subseteq Chained(e)
  BY <1>1, <1>2, CallTidy
<1> QED
  BY <1>2, <1>3, <1>4, TidyTends DEF Resolves

\* A handler ends.
LEMMA FinishTends ==
  ASSUME NEW c, NEW K, NEW e, Tended(K, e, c), NEW cap, CapIn(cap, Free(K, e)), NEW how \in How, NEW v \in Val,
         NEW d, d = Finish(e, cap, how, v)
  PROVE  Tending(K, e, d, c)
<1>1. CASE cap = None
  BY <1>1, TendedKnown DEF Finish
<1>2. CASE cap # None
  BY <1>2, CallTends DEF Finish, CapIn
<1> QED
  BY <1>1, <1>2

\* A reaction is added.
LEMMA ThenTends ==
  ASSUME NEW c, NEW K, NEW e, Tended(K, e, c), NEW p \in Promise, NEW on \in [How -> Handler(c)],
         NEW cap \in Capability, ReactionIn([on |-> on, cap |-> cap], Free(K, e)), \A how \in How : ~IsCallback(on[how]),
         NEW d, d = Then(e, p, on, cap)
  PROVE  Tending(K, e, d, c)
<1>1. Good(e, Handler(c), Val) /\ Straight(e) /\ K \in SUBSET Pair
  BY TendedKnown
<1>2. ReactionIn([on |-> on, cap |-> cap], Made(e)) /\ ReactionIn([on |-> on, cap |-> cap], Pair \ (K \cup Chained(e)))
  BY DEF ReactionIn, CapIn, HandlerIn, Free, Made
<1>3. Good(d, Handler(c), Val) /\ Grows(e, d)
  BY <1>1, <1>2, ThenGood
<1>4. Tidy(e, d, K, {}) /\ Made(d) = Made(e) /\ Chained(d) \subseteq Chained(e)
  BY <1>1, <1>2, ThenTidy
<1> QED
  BY <1>3, <1>4, TidyTends

\* A value is made a promise.
LEMMA WrapTends ==
  ASSUME NEW c, NEW K, NEW e, Tended(K, e, c), NEW v \in Val, v \notin Promise => Fresh(e) # {}, NEW d, d = Wrap(e, v)
  PROVE  Tending(K, e, d, c) /\ Wrapped(e, v) \in Promise
<1>1. Good(e, Handler(c), Val) /\ Straight(e) /\ K \in SUBSET Pair /\ Error \in Val
  BY TendedKnown
<1>2. Good(d, Handler(c), Val) /\ Grows(e, d) /\ Wrapped(e, v) \in Promise
  BY <1>1, WrapGood
<1>3. Tidy(e, d, K, {}) /\ Made(e) \subseteq Made(d) /\ Chained(d) \subseteq Chained(e)
  BY <1>1, WrapTidy
<1> QED
  BY <1>2, <1>3, TidyTends

\* Suspended code waits for a value.
LEMMA AwaitTends ==
  ASSUME NEW c, NEW K, NEW e, Tended(K, e, c), NEW v \in Val, v \notin Promise => Fresh(e) # {},
         NEW h \in Control, h \in Handler(c), NEW d, d = AwaitOn(e, v, [how \in How |-> h])
  PROVE  Tending(K, e, d, c)
<1>1. PICK on : on = [how \in How |-> h]
  OBVIOUS
<1>2. PICK b : b = Wrap(e, v)
  OBVIOUS
<1>3. Tending(K, e, b, c) /\ Wrapped(e, v) \in Promise
  BY <1>2, WrapTends
<1>4. h.fn # "settle" /\ ~IsCallback(h)
  BY DEF Control, Resume, Continued, Returned, IsCallback
<1>5. on \in [How -> Handler(c)] /\ (\A how \in How : on[how].fn # "settle" /\ ~IsCallback(on[how])) /\ None \in Capability
  BY <1>1, <1>4 DEF Capability
<1>6. ReactionIn([on |-> on, cap |-> None], Free(K, b))
  BY <1>5 DEF ReactionIn, CapIn, HandlerIn
<1>7. d = Then(b, Wrapped(e, v), on, None)
  BY <1>1, <1>2 DEF AwaitOn
<1>8. Tending(K, b, d, c)
  BY <1>3, <1>5, <1>6, <1>7, ThenTends DEF Tending
<1> QED
  BY <1>3, <1>8, TendingTransitive

\* The job of a reaction is taken.
LEMMA PopTends ==
  ASSUME NEW c, NEW K, NEW e, Tended(K, e, c), e.jobs # <<>>, Head(e.jobs).kind = "reaction",
         JobIn(Head(e.jobs), Pair \ (K \cup Chained(e))), NEW d, d = [e EXCEPT !.jobs = Tail(@)]
  PROVE  /\ Tending(K, e, d, c) /\ Head(e.jobs) \in ReactionJobs(Handler(c), Val)
         /\ CapIn(Head(e.jobs).cap, Free(K, d)) /\ HandlerIn(Head(e.jobs).handler, Free(K, d))
<1>1. Good(e, Handler(c), Val) /\ Straight(e) /\ K \in SUBSET Pair
  BY TendedKnown
<1>2. /\ Good(d, Handler(c), Val) /\ Grows(e, d) /\ Made(d) = Made(e) /\ Head(e.jobs) \in ReactionJobs(Handler(c), Val)
      /\ \A S : PairsIn(e, S) => CapIn(Head(e.jobs).cap, S) /\ HandlerIn(Head(e.jobs).handler, S)
  BY <1>1, PopReaction
<1>3. PairsIn(e, Made(e))
  BY <1>1 DEF Good, Sound
<1>4. CapIn(Head(e.jobs).cap, Made(e)) /\ HandlerIn(Head(e.jobs).handler, Made(e))
  BY <1>2, <1>3
<1>5. Tidy(e, d, K, {}) /\ Chained(d) \subseteq Chained(e)
  BY <1>1, PopTidy
<1>6. Tending(K, e, d, c)
  BY SMTT(60), <1>2, <1>5, TidyTends
<1>7. CapIn(Head(e.jobs).cap, Pair \ (K \cup Chained(e))) /\ HandlerIn(Head(e.jobs).handler, Pair \ (K \cup Chained(e)))
  BY DEF JobIn
<1> QED
  BY <1>2, <1>4, <1>5, <1>6, <1>7 DEF CapIn, HandlerIn, Free

-----------------------------------------------------------------------------
(* What is registered.                                                     *)

\* What the invariant says of the registrations, and of who refers to what.
LEMMA ReactsKnown ==
  ASSUME Base, Reacting
  PROVE  /\ Tended(Pledged, eng, comb) /\ Free(Pledged, eng) = Made(eng) \ Kept
         /\ log.registered \in Registrations /\ log.ran \in Seq([id : Nat, how : How, arg : Val]) /\ log.odd \subseteq Nat
         /\ Enrolled(log.registered) \subseteq Pledged /\ Pledged \subseteq Made(eng) /\ Kept \subseteq Made(eng)
<1>1. Good(eng, Handler(comb), Val) /\ LogTyped
  BY Known
<1>2. log.registered \in Registrations /\ log.ran \in Seq([id : Nat, how : How, arg : Val]) /\ log.odd \subseteq Nat
  BY <1>1 DEF LogTyped, Registrations
<1>3. ASSUME NEW k \in DOMAIN log.registered PROVE Cap(log.registered[k].derived) \in Made(eng)
  BY DEF Reacting, Derived
<1>4. ASSUME NEW k \in DOMAIN log.registered, Quiet(k) PROVE Cap(Restorer(k)) \in Made(eng)
  BY <1>4 DEF Reacting, Derived, Restores, Restorer
<1>5. Pledged \subseteq Made(eng)
  BY <1>3, <1>4 DEF Pledged
<1>6. Straight(eng)
  BY DEF Reacting
<1>7. Chained(eng) \subseteq Made(eng)
  BY <1>1, <1>6, ChainedMade
<1>8. Enrolled(log.registered) \subseteq Pledged
  BY DEF Enrolled, Pledged
<1> QED
  BY <1>1, <1>2, <1>5, <1>6, <1>7, <1>8 DEF Tended, Free, Kept

\* A settled promise keeps its outcome.
LEMMA OutcomeStays ==
  ASSUME NEW e, NEW d, Grows(e, d), NEW p \in Promise, Settled(e, p)
  PROVE  /\ Settled(d, p) /\ Outcome(d, p) = Outcome(e, p)
         /\ d.promise[p].state = e.promise[p].state /\ d.promise[p].result = e.promise[p].result
<1>1. Outcome(d, p) = Outcome(e, p)
  BY DEF Grows
<1>2. d.promise[p].state = e.promise[p].state /\ d.promise[p].result = e.promise[p].result
  BY <1>1 DEF Outcome
<1> QED
  BY <1>1, <1>2 DEF Settled

\* A registration keeps what is known of it.
LEMMA DerivedStays ==
  ASSUME Base, Grows(eng, eng'), Made(eng) \subseteq Made(eng'), NEW k \in DOMAIN log.registered,
         log'.registered[k] = log.registered[k], Derived(k), NEW g, g = log.registered[k],
         g.on \in Promise, g.derived \in Promise,
         Due(eng, g.on, Reaction(g, k)) => Due(eng', g.on, Reaction(g, k)),
         Cap(g.derived) \in eng'.resolved => Cap(g.derived) \in eng.resolved,
         \A i \in DOMAIN log.ran : \E j \in DOMAIN log'.ran : log'.ran[j].id = log.ran[i].id,
         \A f \in InProgress(stack) : f.kind \in {"callback", "finally"} /\ f.cap = Cap(g.derived) =>
           f \in InProgress(stack') \/ f.cap \in eng'.resolved,
         (Quiet(k) => Restores(Restorer(k), log.registered[k].on))'
  PROVE  Derived(k)'
<1> DEFINE y == Cap(g.derived)
<1>1. y \in Made(eng) /\ y \in Made(eng')
  BY DEF Derived
<1>2. CASE Settled(eng, g.on)
  <2>1. Settled(eng', g.on) /\ Outcome(eng', g.on) = Outcome(eng, g.on)
        /\ eng'.promise[g.on].state = eng.promise[g.on].state
    BY <1>2, OutcomeStays
  <2>2. \/ Due(eng', g.on, Reaction(g, k))
        \/ /\ eng'.promise[g.on].state \in g.sides => \E i \in DOMAIN log'.ran : log'.ran[i].id = k
           /\ y \in eng'.resolved \/ \E i \in DOMAIN stack' : (stack'[i].kind \in {"callback", "finally"} /\ stack'[i].cap = y)
    <3>1. CASE Due(eng, g.on, Reaction(g, k))
      BY <3>1
    <3>2. CASE /\ eng.promise[g.on].state \in g.sides => \E i \in DOMAIN log.ran : log.ran[i].id = k
               /\ y \in eng.resolved \/ \E i \in DOMAIN stack : Serves(stack[i], k)
      <4>1. eng'.promise[g.on].state \in g.sides => \E i \in DOMAIN log'.ran : log'.ran[i].id = k
        BY <2>1, <3>2
      <4>2. CASE y \in eng.resolved
        BY <4>1, <4>2 DEF Grows
      <4>3. ASSUME NEW i \in DOMAIN stack, Serves(stack[i], k)
            PROVE  \/ \E j \in DOMAIN stack' : stack'[j].kind \in {"callback", "finally"} /\ stack'[j].cap = y
                   \/ y \in eng'.resolved
        <5>1. stack[i] \in InProgress(stack) /\ stack[i].kind \in {"callback", "finally"} /\ stack[i].cap = y
          BY <4>3 DEF InProgress, Serves
        <5>2. stack[i] \in InProgress(stack') \/ y \in eng'.resolved
          BY <5>1
        <5> QED
          BY <5>1, <5>2 DEF InProgress
      <4> QED
        BY <3>2, <4>1, <4>2, <4>3
    <3> QED
      BY <1>2, <3>1, <3>2 DEF Derived
  <2>3. ASSUME y \in eng'.resolved, eng'.promise[g.on].state \notin g.sides
        PROVE  Outcome(eng', g.derived) = Outcome(eng', g.on)
    <3>1. Outcome(eng, g.derived) = Outcome(eng, g.on)
      BY <2>1, <2>3 DEF Derived
    <3>2. Settled(eng, g.derived)
      BY <1>2, <3>1 DEF Outcome, Settled
    <3>3. Outcome(eng', g.derived) = Outcome(eng, g.derived)
      BY <3>2, OutcomeStays
    <3> QED
      BY <2>1, <3>1, <3>3
  <2> QED
    BY <1>1, <2>1, <2>2, <2>3 DEF Derived, Restorer, Serves
<1>3. CASE ~Settled(eng, g.on)
  <2>1. Due(eng, g.on, Reaction(g, k)) /\ y \notin eng.resolved
    BY <1>3 DEF Derived
  <2>2. Due(eng', g.on, Reaction(g, k)) /\ y \notin eng'.resolved
    BY <2>1
  <2> QED
    BY <1>1, <2>2 DEF Derived, Restorer
<1> QED
  BY <1>2, <1>3

\* So does one whose finally callback has ended.
LEMMA RestoresStays ==
  ASSUME Base, Grows(eng, eng'), Made(eng) \subseteq Made(eng'), NEW k \in DOMAIN log.registered,
         log'.registered[k] = log.registered[k], Derived(k), Quiet(k), NEW g, g = log.registered[k],
         g.on \in Promise, g.derived \in Promise, NEW x, x = Restorer(k), x \in Promise => eng'.follows[g.derived] = x,
         \A o \in Promise : \A r : Tied(eng, Cap(x), o, r) => Tied(eng', Cap(x), o, r),
         Cap(x) \in eng'.resolved => Cap(x) \in eng.resolved \/ Outcome(eng', x) = Outcome(eng', g.on)
  PROVE  /\ x \in Promise /\ Cap(x) \in Made(eng) /\ Settled(eng, g.on) /\ Restorer(k)' = x
         /\ Restores(Restorer(k), log.registered[k].on)'
<1>1. Cap(g.derived) \in eng.resolved
  BY SMTT(60) DEF Quiet
<1>2. Restores(x, g.on)
  BY DEF Derived, Restorer
<1>3. Settled(eng, g.on)
  BY <1>1 DEF Derived
<1>4. x \in Promise /\ Cap(x) \in Made(eng)
  BY <1>2 DEF Restores
<1>5. Restorer(k)' = x
  BY <1>4 DEF Restorer
<1>6. /\ Outcome(eng', g.on) = Outcome(eng, g.on)
      /\ eng'.promise[g.on].state = eng.promise[g.on].state /\ eng'.promise[g.on].result = eng.promise[g.on].result
  BY <1>3, OutcomeStays
<1>7. PICK r : r = Restoration(x, g.on)
  BY SMTT(60)
<1>8. r = Restoration(x, g.on)'
  BY <1>6, <1>7 DEF Restoration
<1>9. PICK w \in Promise : eng.promise[w].state = "fulfilled" /\ Tied(eng, Cap(x), w, r)
  BY <1>2, <1>7 DEF Restores
<1>10. Settled(eng, w)
  BY <1>9 DEF Settled
<1>11. eng'.promise[w].state = "fulfilled" /\ Tied(eng', Cap(x), w, r)
  BY <1>9, <1>10, OutcomeStays
<1>12. Cap(x) \in eng.resolved => Outcome(eng', x) = Outcome(eng', g.on)
  <2>1. SUFFICES ASSUME Cap(x) \in eng.resolved PROVE Outcome(eng', x) = Outcome(eng', g.on)
    OBVIOUS
  <2>2. Outcome(eng, x) = Outcome(eng, g.on)
    BY <1>2, <2>1 DEF Restores
  <2>3. Settled(eng, x)
    BY <1>3, <2>2 DEF Outcome, Settled
  <2> QED
    BY <1>4, <1>6, <2>2, <2>3, OutcomeStays
<1>13. Restores(x, g.on)'
  BY <1>4, <1>8, <1>11, <1>12 DEF Restores
<1> QED
  BY <1>3, <1>4, <1>5, <1>13

-----------------------------------------------------------------------------
(* Who refers to what after a step.                                        *)

\* References that a step adds must be to functions that are not kept; what
\* serves a registration goes on serving it.
Refers(F) ==
  /\ held' \subseteq held \cup Promise \cup F
  /\ \A f \in InProgress(stack') : f \in InProgress(stack) \/ FrameIn(f, F) \/ Serving(f)'
  /\ \A a \in Activation : act'[a].cap = act[a].cap \/ act'[a].cap \in F
  /\ \A i \in DOMAIN gen'.queue :
       (\E j \in DOMAIN gen.queue : gen'.queue[i].pair = gen.queue[j].pair) \/ gen'.queue[i].pair \in F
  /\ comb' # NoCombinator => (comb # NoCombinator /\ comb'.cap = comb.cap) \/ comb'.cap \in F

\* A frame that serves a registration goes on serving it.
LEMMA ServingStays ==
  ASSUME Grows(eng, eng'), log.registered \in Registrations, DOMAIN log.registered \subseteq DOMAIN log'.registered,
         \A k \in DOMAIN log.registered : log'.registered[k] = log.registered[k], NEW f, Serving(f)
  PROVE  Serving(f)'
<1>1. PICK k \in DOMAIN log.registered : k = f.id
  BY DEF Serving
<1>2. PICK g : g = log.registered[k]
  OBVIOUS
<1>3. /\ f.kind \in {"callback", "finally"} /\ "id" \in DOMAIN f /\ f.kind = g.fn /\ f.cap = Cap(g.derived)
      /\ Settled(eng, g.on) /\ <<f.how, f.arg>> = Outcome(eng, g.on) /\ f.how \in g.sides
  BY <1>1, <1>2 DEF Serving
<1>4. g.on \in Promise
  BY <1>2, RegistrationKnown
<1>5. Settled(eng', g.on) /\ Outcome(eng', g.on) = Outcome(eng, g.on)
  BY <1>3, <1>4, OutcomeStays
<1>6. log'.registered[f.id] = g /\ f.id \in DOMAIN log'.registered
  BY <1>1, <1>2
<1> QED
  BY <1>3, <1>5, <1>6 DEF Serving

LEMMA ApartStep ==
  ASSUME Base, Base', Grows(eng, eng'), Made(eng) \subseteq Made(eng'), Apart(Kept), Kept' \cap Made(eng) \subseteq Kept,
         log.registered \in Registrations, DOMAIN log.registered \subseteq DOMAIN log'.registered,
         \A k \in DOMAIN log.registered : log'.registered[k] = log.registered[k],
         NEW F, F \cap Kept' = {}, F \subseteq Made(eng'), Refers(F), None \notin Kept'
  PROVE  Apart(Kept)'
<1> DEFINE L == Kept'
<1>1. Referred(Made(eng)) /\ Made(eng) \subseteq Pair /\ Made(eng') \subseteq Pair
  BY DEF Base, Made
<1>2. Apart(Kept)
  OBVIOUS
<1>3. F \cap L = {} /\ F \subseteq Pair \ L
  BY <1>1
<1>4. L \cap Made(eng) \subseteq Kept
  OBVIOUS
<1>5. None \notin L
  OBVIOUS
<1> HIDE DEF L
<1>6. (held' \ Promise) \cap L = {}
  <2>1. (held \ Promise) \cap Kept = {} /\ held \ Promise \subseteq Made(eng)
    BY <1>1, <1>2 DEF Apart, Referred
  <2> QED
    BY <1>3, <1>4, <2>1 DEF Refers
<1>7. ASSUME NEW f \in InProgress(stack') PROVE FrameIn(f, Pair \ L) \/ Serving(f)'
  <2>1. CASE f \in InProgress(stack)
    <3>1. FrameIn(f, Made(eng)) /\ (FrameIn(f, Pair \ Kept) \/ Serving(f))
      BY <1>1, <1>2, <2>1 DEF Referred, Apart
    <3>2. CASE FrameIn(f, Pair \ Kept)
      BY <1>4, <3>1, <3>2 DEF FrameIn, CapIn
    <3>3. CASE Serving(f)
      BY <3>3, ServingStays
    <3> QED
      BY <3>1, <3>2, <3>3
  <2>2. CASE FrameIn(f, F)
    BY <1>3, <2>2 DEF FrameIn, CapIn
  <2> QED
    BY <1>7, <2>1, <2>2 DEF Refers
<1>8. ASSUME NEW a \in Activation PROVE act'[a].cap \notin L
  <2>1. act[a].cap \notin Kept /\ CapIn(act[a].cap, Made(eng))
    BY <1>1, <1>2 DEF Apart, Referred
  <2>2. act[a].cap \notin L
    BY <1>4, <1>5, <2>1 DEF CapIn
  <2> QED
    BY <1>3, <2>2 DEF Refers
<1>9. ASSUME NEW i \in DOMAIN gen'.queue PROVE gen'.queue[i].pair \notin L
  <2>1. \A j \in DOMAIN gen.queue : gen.queue[j].pair \notin Kept /\ gen.queue[j].pair \in Made(eng)
    BY <1>1, <1>2 DEF Apart, Referred
  <2>2. \A j \in DOMAIN gen.queue : gen.queue[j].pair \notin L
    BY <1>4, <2>1
  <2> QED
    BY <1>3, <2>2 DEF Refers
<1>10. comb' # NoCombinator => comb'.cap \notin L
  <2>1. comb # NoCombinator => comb.cap \notin Kept /\ comb.cap \in Made(eng)
    BY <1>1, <1>2 DEF Apart, Referred
  <2> QED
    BY <1>3, <1>4, <2>1 DEF Refers
<1> QED
  BY <1>6, <1>7, <1>8, <1>9, <1>10 DEF Apart, L

\* What a registration that is not touched keeps.
LEMMA QuietStays ==
  ASSUME NEW k \in DOMAIN log.registered, log'.registered[k] = log.registered[k], log.odd \subseteq log'.odd,
         Cap(log.registered[k].derived) \in eng'.resolved => Cap(log.registered[k].derived) \in eng.resolved, Quiet(k)'
  PROVE  Quiet(k)
BY DEF Quiet

\* A step that registers nothing.
LEMMA SameDistinct ==
  ASSUME Distinct, log'.registered = log.registered,
         \A k \in DOMAIN log.registered : Quiet(k)' => Quiet(k) /\ Restorer(k)' = Restorer(k)
  PROVE  Distinct' /\ Pledged' \subseteq Pledged
<1>1. Distinct'
  BY DEF Distinct
<1>2. \A k \in DOMAIN log'.registered : Cap(log'.registered[k].derived) \in Pledged
  BY DEF Pledged
<1>3. \A k \in DOMAIN log'.registered : Quiet(k)' => Cap(Restorer(k)') \in Pledged
  BY DEF Pledged
<1>4. Pledged' \subseteq Pledged
  BY <1>2, <1>3 DEF Pledged
<1> QED
  BY <1>1, <1>4

-----------------------------------------------------------------------------
(* Steps that register nothing.                                            *)

\* What such a step does to the log.
Logs == log'.registered = log.registered /\ log.odd \subseteq log'.odd
        /\ \A i \in DOMAIN log.ran : \E j \in DOMAIN log'.ran : log'.ran[j].id = log.ran[i].id

\* A registration whose functions a step does not call.
LEMMA Untouched ==
  ASSUME Base, Grows(eng, eng'), Made(eng) \subseteq Made(eng'), Reacting, Logs, NEW K, Tidy(eng, eng', K, Made(eng) \ K),
         NEW k \in DOMAIN log.registered, Cap(log.registered[k].derived) \in K, Quiet(k) => Cap(Restorer(k)) \in K,
         \A f \in InProgress(stack) : Serves(f, k) => f \in InProgress(stack') \/ f.cap \in eng'.resolved
  PROVE  Derived(k)' /\ (Quiet(k)' => Quiet(k) /\ Restorer(k)' = Restorer(k))
<1>1. PICK g : g = log.registered[k]
  OBVIOUS
<1>2. PICK x : x = Restorer(k)
  OBVIOUS
<1>3. log.registered \in Registrations
  BY ReactsKnown
<1>4. g.on \in Promise /\ g.derived \in Promise /\ log'.registered[k] = g
  BY <1>1, <1>3, RegistrationKnown DEF Logs
<1>5. Derived(k) /\ Cap(g.derived) \in Made(eng) /\ Cap(g.derived) \in K
  BY <1>1 DEF Reacting, Derived
<1>6. Cap(g.derived) \in eng'.resolved => Cap(g.derived) \in eng.resolved
  BY <1>5 DEF Tidy
<1>7. Quiet(k)' => Quiet(k)
  BY <1>1, <1>4, <1>6, QuietStays DEF Logs
<1>8. x \in Promise => eng'.follows[g.derived] = x
  BY <1>1, <1>2, <1>4, PromisesAssumption DEF Tidy, Restorer
<1>9. ASSUME Quiet(k)
      PROVE  Restorer(k)' = x /\ Restores(Restorer(k), log.registered[k].on)'
  <2>1. Cap(x) \in K
    BY <1>2, <1>9
  <2>2. Cap(x) \in Made(eng)
    BY <1>1, <1>2, <1>5, <1>9 DEF Derived, Restores, Restorer
  <2>3. Cap(x) \in eng'.resolved => Cap(x) \in eng.resolved
    BY <2>1, <2>2 DEF Tidy
  <2>4. x \in Promise
    BY <1>1, <1>2, <1>5, <1>9 DEF Derived, Restores, Restorer
  <2>5. \A o \in Promise : \A r : Tied(eng, Cap(x), o, r) => Tied(eng', Cap(x), o, r)
    BY <2>1 DEF Tidy, Carries, Holds
  <2> QED
    BY <1>1, <1>2, <1>4, <1>5, <1>8, <1>9, <2>3, <2>5, RestoresStays
<1>10. Due(eng, g.on, Reaction(g, k)) => Due(eng', g.on, Reaction(g, k))
  <2>1. PICK r : r = Reaction(g, k)
    OBVIOUS
  <2>2. r.cap = Cap(g.derived)
    BY <2>1 DEF Reaction
  <2>3. Bound(r, K)
    BY <1>5, <2>2 DEF Bound
  <2> QED
    BY <1>4, <2>1, <2>3 DEF Tidy, Carries, Holds
<1>11. \A f \in InProgress(stack) : f.kind \in {"callback", "finally"} /\ f.cap = Cap(g.derived) =>
         f \in InProgress(stack') \/ f.cap \in eng'.resolved
  BY <1>1 DEF Serves
<1>12. \A i \in DOMAIN log.ran : \E j \in DOMAIN log'.ran : log'.ran[j].id = log.ran[i].id
  BY DEF Logs
<1>13. (Quiet(k) => Restores(Restorer(k), log.registered[k].on))'
  BY <1>7, <1>9
<1>14. Derived(k)'
  BY <1>1, <1>4, <1>5, <1>6, <1>10, <1>11, <1>12, <1>13, DerivedStays
<1> QED
  BY <1>2, <1>7, <1>9, <1>14

\* The invariant, from what a step that registers nothing does to each part of it.
LEMMA ReactsStep ==
  ASSUME Base, Base', Grows(eng, eng'), Made(eng) \subseteq Made(eng'), Reacting, Logs,
         Straight(eng'), Sequenced(eng', log'.registered, log'.ran), Chained(eng') \cap Made(eng) \subseteq Chained(eng),
         Refers(Free(Pledged, eng')),
         \A k \in DOMAIN log.registered : Derived(k)',
         \A k \in DOMAIN log.registered : Quiet(k)' => Quiet(k) /\ Restorer(k)' = Restorer(k)
  PROVE  Reacting'
<1>1. log.registered \in Registrations /\ Pledged \subseteq Made(eng) /\ Good(eng', Handler(comb'), Val)
  BY ReactsKnown DEF Base
<1>2. Distinct' /\ Pledged' \subseteq Pledged
  BY SameDistinct DEF Reacting, Logs
<1>3. Chained(eng') \subseteq Made(eng')
  BY <1>1, ChainedMade
<1>4. Kept' = Pledged' \cup Chained(eng')
  BY DEF Kept
<1>5. Kept' \cap Made(eng) \subseteq Kept
  BY <1>2, <1>4 DEF Kept
<1>6. PICK F : F = Free(Pledged, eng')
  OBVIOUS
<1>7. F \cap Kept' = {} /\ F \subseteq Made(eng') /\ Refers(F)
  BY <1>2, <1>4, <1>6 DEF Free
<1>8. None \notin Kept'
  <2>1. None \notin Pair
    BY PromisesAssumption
  <2> QED
    BY <1>1, <1>2, <1>3, <1>4, <2>1 DEF Made
<1>9. Apart(Kept)'
  BY <1>1, <1>5, <1>7, <1>8, ApartStep DEF Logs, Reacting
<1> QED
  BY <1>2, <1>9 DEF Reacting, Logs

\* A step that calls no function that is kept.
LEMMA ForeignStep ==
  ASSUME Base, Base', Grows(eng, eng'), Reacting, Tidy(eng, eng', Pledged, Made(eng) \ Pledged),
         log'.registered = log.registered, log'.ran = log.ran, log.odd \subseteq log'.odd,
         Refers(Free(Pledged, eng')),
         \A f \in InProgress(stack) :
           \/ f \in InProgress(stack') \/ f.kind \notin {"callback", "finally"} \/ FrameIn(f, Pair \ Kept)
           \/ f.cap \in eng'.resolved
  PROVE  Reacting'
<1>1. Logs
  BY DEF Logs
<1>2. /\ log.registered \in Registrations /\ Enrolled(log.registered) \subseteq Pledged
      /\ Made(eng) \subseteq Made(eng')
  <2>1. log.registered \in Registrations /\ Enrolled(log.registered) \subseteq Pledged
    BY ReactsKnown
  <2> QED
    BY <2>1, EvolvesMade DEF Base, Evolves
<1>3. ASSUME NEW k \in DOMAIN log.registered
      PROVE  Derived(k)' /\ (Quiet(k)' => Quiet(k) /\ Restorer(k)' = Restorer(k))
  <2>1. Cap(log.registered[k].derived) \in Pledged /\ (Quiet(k) => Cap(Restorer(k)) \in Pledged)
    BY DEF Pledged
  <2>2. ASSUME NEW f \in InProgress(stack), Serves(f, k) PROVE f \in InProgress(stack') \/ f.cap \in eng'.resolved
    <3>1. f.kind \in {"callback", "finally"} /\ f.cap = Cap(log.registered[k].derived) /\ f.cap \in Kept
      BY <2>1, <2>2 DEF Serves, Kept
    <3>2. f.cap # None
      BY <1>2, <3>1, RegistrationKnown
    <3> QED
      BY <3>1, <3>2 DEF FrameIn, CapIn
  <2> QED
    BY <1>1, <1>2, <2>1, <2>2, Untouched
<1>4. Straight(eng') /\ Chained(eng') \cap Made(eng) \subseteq Chained(eng)
  BY DEF Tidy
<1>5. Sequenced(eng', log'.registered, log'.ran)
  BY <1>2 DEF Tidy, Carries, Reacting
<1> QED
  BY <1>1, <1>2, <1>3, <1>4, <1>5, ReactsStep

-----------------------------------------------------------------------------
(* Steps of the promises that call no function that is kept.               *)

\* What is referred to is free, but for the frames that serve registrations.
LEMMA FreeKnown ==
  ASSUME Base, Reacting
  PROVE  /\ held \subseteq Promise \cup Free(Pledged, eng)
         /\ \A f \in InProgress(stack) : FrameIn(f, Free(Pledged, eng)) \/ Serving(f)
         /\ \A a \in Activation : CapIn(act[a].cap, Free(Pledged, eng))
         /\ \A i \in DOMAIN gen.queue : gen.queue[i].pair \in Free(Pledged, eng)
         /\ comb # NoCombinator => comb.cap \in Free(Pledged, eng)
<1>1. Free(Pledged, eng) = Made(eng) \ Kept
  BY ReactsKnown
<1>2. Referred(Made(eng)) /\ Apart(Kept)
  BY DEF Base, Reacting
<1>3. \A f \in InProgress(stack) : FrameIn(f, Free(Pledged, eng)) \/ Serving(f)
  <2> SUFFICES ASSUME NEW f \in InProgress(stack), ~Serving(f) PROVE FrameIn(f, Free(Pledged, eng))
    OBVIOUS
  <2>1. FrameIn(f, Pair \ Kept) /\ FrameIn(f, Made(eng))
    BY <1>2 DEF Apart, Referred
  <2> QED
    BY <1>1, <2>1 DEF FrameIn, CapIn
<1>4. held \subseteq Promise \cup Free(Pledged, eng)
  BY <1>1, <1>2 DEF Apart, Referred
<1>5. \A a \in Activation : CapIn(act[a].cap, Free(Pledged, eng))
  BY <1>1, <1>2 DEF Apart, Referred, CapIn
<1>6. \A i \in DOMAIN gen.queue : gen.queue[i].pair \in Free(Pledged, eng)
  BY <1>1, <1>2 DEF Apart, Referred
<1>7. comb # NoCombinator => comb.cap \in Free(Pledged, eng)
  BY <1>1, <1>2 DEF Apart, Referred
<1> QED
  BY <1>3, <1>4, <1>5, <1>6, <1>7

\* What is free stays free.
LEMMA FreeStays ==
  ASSUME NEW K, NEW e, NEW d, NEW c, Tending(K, e, d, c)
  PROVE  Free(K, e) \subseteq Free(K, d)
BY DEF Tending, Free

LEMMA Pushed ==
  ASSUME NEW F, NEW s \in Seq(F), NEW f
  PROVE  InProgress(<<f>> \o s) = InProgress(s) \cup {f}
<1>1. s \in Seq(F \cup {f}) /\ f \in F \cup {f}
  BY SeqMonotonic
<1> QED
  BY <1>1, PushFrame

LEMMA PromiseTends ==
  ASSUME Base, Base', Grows(eng, eng'), Reacting, UNCHANGED <<comb, cvars>>, Tending(Pledged, eng, eng', comb),
         log'.registered = log.registered, log'.ran = log.ran, log.odd \subseteq log'.odd,
         held' \subseteq held \cup Promise \cup Free(Pledged, eng'),
         \A f \in InProgress(stack') : f \in InProgress(stack) \/ FrameIn(f, Free(Pledged, eng')),
         \A f \in InProgress(stack) :
           \/ f \in InProgress(stack') \/ f.kind \notin {"callback", "finally"} \/ FrameIn(f, Pair \ Kept)
           \/ f.cap \in eng'.resolved
  PROVE  Reacting'
<1>1. Tidy(eng, eng', Pledged, Made(eng) \ Pledged)
  BY DEF Tending
<1>2. Refers(Free(Pledged, eng'))
  BY DEF Refers, cvars
<1> QED
  BY <1>1, <1>2, ForeignStep

\* The operations of scripts, but those that register reactions.
Registers == \E o \in held \cap Promise : (\E sides \in SUBSET How : CallThen(o, sides)) \/ CallFinally(o)
LEMMA ScriptReacts ==
  ASSUME Base, Base', Grows(eng, eng'), Reacting, Script, ~Registers, UNCHANGED <<comb, cvars>>
  PROVE  Reacting'
<1> DEFINE K == Pledged
<1>1. /\ Tended(K, eng, comb) /\ held \subseteq Promise \cup Free(K, eng)
      /\ HeldValue \subseteq Val /\ stack \in Seq(Frame(comb))
  BY ReactsKnown, FreeKnown, Known
<1>2. PICK d : d = Create(eng)
  OBVIOUS
<1>3. PICK p : p = New(eng)
  OBVIOUS
<1>4. Fresh(eng) # {} => /\ Tending(K, eng, d, comb) /\ p \in Promise
                         /\ Cap(p) \in Free(K, d) \ Made(eng) /\ Cap(p) \in Capability
  BY <1>1, <1>2, <1>3, CreateTends
<1> HIDE DEF K
<1>5. ASSUME stack' = stack, Tending(K, eng, eng', comb), log' = log, held' \subseteq held \cup Promise \cup Free(K, eng')
      PROVE  Reacting'
  BY <1>5, PromiseTends DEF K
<1>6. ASSUME NEW f, stack' = <<f>> \o stack, FrameIn(f, Free(K, eng')), Tending(K, eng, eng', comb), log' = log,
             held' \subseteq held \cup Promise \cup Free(K, eng')
      PROVE  Reacting'
  <2>1. InProgress(stack') = InProgress(stack) \cup {f}
    BY <1>1, <1>6, Pushed
  <2> QED
    BY <1>6, <2>1, PromiseTends DEF K
<1>7. CASE Construct
  <2>1. PICK f : f = [kind |-> "settler", pair |-> Cap(p)]
    OBVIOUS
  <2>2. /\ Fresh(eng) # {} /\ eng' = d /\ held' = held \cup {p, Cap(p)} /\ log' = log /\ stack' = <<f>> \o stack
    BY <1>2, <1>3, <1>7, <2>1 DEF Construct
  <2>3. FrameIn(f, Free(K, eng'))
    BY <1>4, <2>1, <2>2 DEF FrameIn
  <2> QED
    BY <1>4, <1>6, <2>2, <2>3
<1>8. CASE WithResolvers
  <2>1. /\ Fresh(eng) # {} /\ eng' = d /\ held' = held \cup {p, Cap(p)} /\ log' = log /\ stack' = stack
    BY <1>2, <1>3, <1>8 DEF WithResolvers
  <2> QED
    BY <1>4, <1>5, <2>1
<1>9. CASE Try
  <2>1. PICK f : f = [kind |-> "callback", cap |-> Cap(p)]
    OBVIOUS
  <2>2. /\ Fresh(eng) # {} /\ eng' = d /\ held' = held \cup {p} /\ log' = log /\ stack' = <<f>> \o stack
    BY <1>2, <1>3, <1>9, <2>1 DEF Try
  <2>3. FrameIn(f, Free(K, eng'))
    BY <1>4, <2>1, <2>2 DEF FrameIn, CapIn
  <2> QED
    BY <1>4, <1>6, <2>2, <2>3
<1>10. ASSUME NEW how \in How, NEW v \in HeldValue, MakeSettled(how, v) PROVE Reacting'
  <2>1. /\ Fresh(eng) # {} /\ eng' = ResolvingCall(d, Cap(p), how, v) /\ v \in Val
        /\ held' = held \cup {p} /\ stack' = stack /\ log' = log
    BY <1>1, <1>2, <1>3, <1>10 DEF MakeSettled
  <2>2. PICK y : y = Cap(p)
    OBVIOUS
  <2>3. Tending(K, eng, d, comb) /\ Tended(K, d, comb) /\ y \in Free(K, d) /\ eng' = ResolvingCall(d, y, how, v)
    BY <1>4, <2>1, <2>2 DEF Tending
  <2>4. Tending(K, d, eng', comb)
    BY <2>1, <2>3, CallTends
  <2>5. Tending(K, eng, eng', comb)
    BY <2>3, <2>4, TendingTransitive
  <2> QED
    BY <1>4, <1>5, <2>1, <2>5
<1>11. ASSUME NEW pair \in held \ Promise, NEW how \in How, NEW v \in HeldValue, CallResolving(pair, how, v)
       PROVE  Reacting'
  <2>1. eng' = ResolvingCall(eng, pair, how, v) /\ v \in Val /\ held' = held /\ stack' = stack /\ log' = log
    BY <1>1, <1>11 DEF CallResolving
  <2>2. pair \in Free(K, eng)
    BY <1>1
  <2>3. Tending(K, eng, eng', comb)
    BY <1>1, <2>1, <2>2, CallTends
  <2> QED
    BY <1>5, <2>1, <2>3
<1>12. ASSUME NEW o \in held \cap Promise, (\E sides \in SUBSET How : CallThen(o, sides)) \/ CallFinally(o)
       PROVE  FALSE
  BY <1>12 DEF Registers
<1> QED
  BY <1>7, <1>8, <1>9, <1>10, <1>11, <1>12 DEF Script

-----------------------------------------------------------------------------
(* The ends of callbacks.                                                  *)

\* What a frame that serves a registration is like.
Registration(f, k, g, y) ==
  /\ k = f.id /\ k \in DOMAIN log.registered /\ g = log.registered[k] /\ y = f.cap /\ y = Cap(g.derived)
  /\ g.on \in Promise /\ g.derived \in Promise /\ Settled(eng, g.on) /\ eng.promise[g.on].state \in g.sides
  /\ f.kind = g.fn /\ f.how = eng.promise[g.on].state /\ f.arg = eng.promise[g.on].result
  /\ y \in Made(eng) \ Chained(eng) /\ y \in Pledged /\ y # None
LEMMA ServingKnown ==
  ASSUME Base, Reacting, NEW f, Serving(f)
  PROVE  \E k : \E g : \E y : Registration(f, k, g, y)
<1>1. PICK k \in DOMAIN log.registered : k = f.id
  BY DEF Serving
<1>2. PICK g : g = log.registered[k]
  OBVIOUS
<1>3. /\ f.kind = g.fn /\ f.cap = Cap(g.derived)
      /\ Settled(eng, g.on) /\ <<f.how, f.arg>> = Outcome(eng, g.on) /\ f.how \in g.sides
  BY <1>1, <1>2 DEF Serving
<1>4. g.on \in Promise /\ g.derived \in Promise /\ Cap(g.derived) # None
  BY <1>2, RegistrationKnown, ReactsKnown
<1>5. f.how = eng.promise[g.on].state /\ f.arg = eng.promise[g.on].result
  BY <1>3 DEF Outcome
<1>6. Cap(g.derived) \in Pledged /\ Cap(g.derived) \in Made(eng)
  BY <1>2, ReactsKnown DEF Pledged
<1>7. Cap(g.derived) \notin Chained(eng)
  BY <1>4, FirstNotChained DEF Reacting
<1> QED
  BY Zenon, <1>1, <1>2, <1>3, <1>4, <1>5, <1>6, <1>7 DEF Registration

\* Two registrations are of different promises.
LEMMA Others ==
  ASSUME Base, Reacting, NEW k \in DOMAIN log.registered, NEW l \in DOMAIN log.registered, l # k,
         NEW y, y = Cap(log.registered[k].derived)
  PROVE  /\ Cap(log.registered[l].derived) # y
         /\ Quiet(l) => Cap(Restorer(l)) # y
<1>1. \A p, o : Cap(p) = Cap(o) => p = o
  BY DEF Cap
<1>2. log.registered[l].derived # log.registered[k].derived
  BY DEF Reacting, Distinct
<1>3. Quiet(l) => Restorer(l) # log.registered[k].derived
  BY DEF Reacting, Distinct
<1> QED
  BY <1>1, <1>2, <1>3

\* The promise that then returned is resolved.
LEMMA ServedEnds ==
  ASSUME Base, Grows(eng, eng'), Made(eng) \subseteq Made(eng'), Reacting, Logs,
         NEW f, NEW k, NEW g, NEW y, Registration(f, k, g, y),
         InProgress(stack) = InProgress(stack') \cup {f}, y \in eng'.resolved,
         Tidy(eng, eng', Pledged, Made(eng) \ (Pledged \ {y})),
         (Quiet(k) => Restores(Restorer(k), log.registered[k].on))'
  PROVE  \A l \in DOMAIN log.registered : Derived(l)' /\ (l # k => (Quiet(l)' => Quiet(l) /\ Restorer(l)' = Restorer(l)))
<1>1. /\ k \in DOMAIN log.registered /\ g = log.registered[k] /\ y = f.cap /\ y = Cap(g.derived)
      /\ g.on \in Promise /\ g.derived \in Promise /\ Settled(eng, g.on) /\ eng.promise[g.on].state \in g.sides
      /\ y \in Made(eng) /\ y \in Pledged
  BY DEF Registration
<1>2. \A h \in InProgress(stack) : h \in InProgress(stack') \/ (h = f /\ h.cap \in eng'.resolved)
  BY <1>1
<1>3. PICK K : K = Pledged \ {y}
  OBVIOUS
<1>4. Tidy(eng, eng', K, Made(eng) \ K)
  <2>1. K \in SUBSET Pledged /\ (Made(eng) \ (Pledged \ {y})) \cap Made(eng) \subseteq Made(eng) \ K
    BY <1>3
  <2> QED
    BY <2>1, TidyLess
<1>5. ASSUME NEW l \in DOMAIN log.registered, l # k
      PROVE  Derived(l)' /\ (Quiet(l)' => Quiet(l) /\ Restorer(l)' = Restorer(l))
  <2>1. Cap(log.registered[l].derived) # y /\ (Quiet(l) => Cap(Restorer(l)) # y)
    BY <1>1, <1>5, Others
  <2>2. Cap(log.registered[l].derived) \in K /\ (Quiet(l) => Cap(Restorer(l)) \in K)
    BY <1>3, <2>1 DEF Pledged
  <2>3. \A h \in InProgress(stack) : Serves(h, l) => h \in InProgress(stack') \/ h.cap \in eng'.resolved
    BY SMTT(60), <1>2
  <2> QED
    BY <1>4, <2>2, <2>3, Untouched
<1>6. Derived(k)'
  <2>1. PICK r : r = Reaction(g, k)
    OBVIOUS
  <2>2. Bound(r, Pledged)
    BY <1>1, <2>1 DEF Bound, Reaction
  <2>3. Due(eng, g.on, r) => Due(eng', g.on, r)
    BY <1>1, <2>2 DEF Tidy, Carries, Holds
  <2>4. Settled(eng', g.on) /\ eng'.promise[g.on].state \in g.sides
    BY SMTT(60), <1>1, OutcomeStays
  <2>5. Due(eng, g.on, r) \/ \E i \in DOMAIN log.ran : log.ran[i].id = k
    BY <1>1, <2>1 DEF Reacting, Derived
  <2>6. Due(eng', g.on, r) \/ \E i \in DOMAIN log'.ran : log'.ran[i].id = k
    BY <2>3, <2>5 DEF Logs
  <2>7. y \in Made(eng') /\ log'.registered[k] = g
    BY <1>1 DEF Logs
  <2> QED
    BY <1>1, <2>1, <2>4, <2>6, <2>7 DEF Derived, Restorer
<1> QED
  BY SMTT(60), <1>5, <1>6

\* The function of then ends, or that of finally throws.
LEMMA CallbackReacts ==
  ASSUME Base, Base', Grows(eng, eng'), Reacting, UNCHANGED <<comb, cvars, held>>,
         NEW kind, Top(kind), kind \in {"callback", "finally"}, Pop, NEW f, f = Head(stack), NEW how \in How, NEW v \in Val,
         eng' = Finish(eng, f.cap, how, v),
         log'.registered = log.registered, log'.ran = log.ran, log.odd \subseteq log'.odd,
         kind = "finally" => f.id \in log'.odd
  PROVE  Reacting'
<1>1. /\ Tended(Pledged, eng, comb) /\ stack \in Seq(Frame(comb)) /\ stack # <<>> /\ f.kind = kind
      /\ log.registered \in Registrations /\ Enrolled(log.registered) \subseteq Pledged /\ Kept \subseteq Made(eng)
  BY ReactsKnown, Known DEF Top
<1>2. InProgress(stack) = InProgress(stack') \cup {f}
  BY <1>1, Drop DEF Pop
<1>3. FrameIn(f, Free(Pledged, eng)) \/ Serving(f)
  BY <1>2, FreeKnown
<1>4. Made(eng) \subseteq Made(eng')
  BY <1>1, EvolvesMade DEF Base, Evolves
<1>5. CASE FrameIn(f, Free(Pledged, eng))
  <2>1. CapIn(f.cap, Free(Pledged, eng))
    BY <1>1, <1>5 DEF FrameIn
  <2>2. Tending(Pledged, eng, eng', comb)
    BY <1>1, <2>1, FinishTends
  <2>3. FrameIn(f, Pair \ Kept)
    BY <1>5, ReactsKnown DEF FrameIn, CapIn, Made
  <2> QED
    BY <1>2, <2>2, <2>3, PromiseTends
<1>6. CASE Serving(f)
  <2>1. PICK k : \E g : \E y : Registration(f, k, g, y)
    BY <1>6, ServingKnown
  <2>2. PICK g : \E y : Registration(f, k, g, y)
    BY <2>1
  <2>3. PICK y : Registration(f, k, g, y)
    BY SMTT(60), <2>2
  <2>4. y = f.cap /\ y \in Made(eng) \ Chained(eng) /\ y # None /\ k = f.id /\ f.kind = g.fn /\ g = log.registered[k]
        /\ k \in DOMAIN log.registered
    BY <2>3 DEF Registration
  <2>5. eng' = ResolvingCall(eng, y, how, v)
    BY <2>4 DEF Finish
  <2>6. Good(eng, Handler(comb), Val) /\ Straight(eng) /\ Error \in Val /\ Pledged \in SUBSET Pair
    BY <1>1, TendedKnown
  <2>7. Tidy(eng, eng', Pledged, {y}) /\ Made(eng') = Made(eng) /\ Chained(eng') \subseteq Chained(eng)
    <3>1. PICK e : e = eng
      OBVIOUS
    <3>2. PICK d : d = eng'
      OBVIOUS
    <3>3. PICK K : K = Pledged
      OBVIOUS
    <3>4. /\ Good(e, Handler(comb), Val) /\ Straight(e) /\ y \in Made(e) \ Chained(e) /\ K \in SUBSET Pair
          /\ d = ResolvingCall(e, y, how, v) /\ how \in How /\ v \in Val /\ Error \in Val
      BY <2>4, <2>5, <2>6, <3>1, <3>2, <3>3
    <3>5. Tidy(e, d, K, {y}) /\ Made(d) = Made(e) /\ Chained(d) \subseteq Chained(e)
      BY ONLY <3>4, CallTidy
    <3> QED
      BY <3>1, <3>2, <3>3, <3>5
  <2>8. y \in eng'.resolved
    <3>1. Resolves(eng, eng', Handler(comb), Val, y)
      BY <2>4, <2>5, <2>6, ResolvingCallGood
    <3> QED
      BY <3>1 DEF Resolves
  <2>9. Tidy(eng, eng', Pledged, Made(eng) \ (Pledged \ {y}))
    <3>1. {y} \cap Made(eng) \subseteq Made(eng) \ (Pledged \ {y})
      OBVIOUS
    <3> QED
      BY <2>7, <3>1, TidyLess
  <2>10. Logs
    BY DEF Logs
  <2>11. ~Quiet(k)'
    BY <1>1, <2>4 DEF Quiet
  <2>12. \A l \in DOMAIN log.registered :
           Derived(l)' /\ (l # k => (Quiet(l)' => Quiet(l) /\ Restorer(l)' = Restorer(l)))
    BY <1>2, <1>4, <2>3, <2>8, <2>9, <2>10, <2>11, ServedEnds
  <2>13. \A l \in DOMAIN log.registered : Derived(l)'
    BY <2>12
  <2>14. \A l \in DOMAIN log.registered : Quiet(l)' => Quiet(l) /\ Restorer(l)' = Restorer(l)
    BY <2>11, <2>12
  <2>15. Refers(Free(Pledged, eng'))
    BY <1>2 DEF Refers, cvars
  <2>16. Straight(eng') /\ Sequenced(eng', log'.registered, log'.ran)
    BY <1>1, <2>7 DEF Tidy, Carries, Reacting
  <2> QED
    BY <1>4, <2>7, <2>10, <2>13, <2>14, <2>15, <2>16, ReactsStep
<1> QED
  BY <1>3, <1>5, <1>6

-----------------------------------------------------------------------------
(* The end of the function of finally.                                     *)

RestorationOf(how, arg, x) ==
  [on |-> [h \in How |-> IF h = "fulfilled" THEN Thunk(how, arg) ELSE Undefined], cap |-> Cap(x)]

\* The promise of what it returned, and the promise that the thunk will resolve.
LEMMA RestoringTends ==
  ASSUME NEW c, NEW K, NEW e, Tended(K, e, c), NEW v \in Val, v \notin Promise => Fresh(e) # {},
         NEW d, d = Wrap(e, v), Fresh(d) # {}, NEW x, x = New(d), NEW w, w = Wrapped(e, v), NEW how \in How, NEW arg \in Val,
         NEW r, r = RestorationOf(how, arg, x), NEW b, b = Then(Create(d), w, r.on, r.cap)
  PROVE  /\ Tending(K, e, b, c) /\ x \in Promise /\ Cap(x) \in Made(b) \ Made(e) /\ Cap(x) \notin b.resolved
         /\ v \in Plain => w \in Promise /\ b.promise[w].state = "fulfilled" /\ Tied(b, Cap(x), w, r)
<1>1. Tending(K, e, d, c) /\ w \in Promise
  BY WrapTends
<1>2. PICK a : a = Create(d)
  OBVIOUS
<1>3. PICK y : y = Cap(x)
  OBVIOUS
<1>4. Tended(K, d, c)
  BY <1>1 DEF Tending
<1>5. Tending(K, d, a, c) /\ x \in Promise /\ y \in Free(K, a) \ Made(d) /\ y \in Capability
  BY <1>2, <1>3, <1>4, CreateTends
<1>6. r.cap = y /\ \A h \in How : r.on[h] = IF h = "fulfilled" THEN Thunk(how, arg) ELSE Undefined
  BY <1>3 DEF RestorationOf
<1>7. Thunk(how, arg) \in Handler(c) /\ Undefined \in Handler(c) /\ Thunk(how, arg).fn = "thunk" /\ Undefined.fn = "undefined"
  BY DEF Thunk, Handler, Undefined
<1>8. PICK on : on = r.on
  OBVIOUS
<1>9. on \in [How -> Handler(c)] /\ \A h \in How : on[h].fn # "settle" /\ ~IsCallback(on[h])
  <2>1. on \in [How -> Handler(c)]
    BY <1>7, <1>8 DEF RestorationOf
  <2> QED
    BY <1>6, <1>7, <1>8, <2>1 DEF IsCallback
<1>10. b = Then(a, w, on, y) /\ r = [on |-> on, cap |-> y]
  BY <1>2, <1>6, <1>8 DEF RestorationOf
<1>11. ReactionIn([on |-> on, cap |-> y], Free(K, a))
  BY <1>5, <1>9 DEF ReactionIn, CapIn, HandlerIn
<1>12. Tended(K, a, c)
  BY <1>5 DEF Tending
<1>13. Tending(K, a, b, c)
  BY <1>1, <1>5, <1>9, <1>10, <1>11, <1>12, ThenTends
<1>14. Tending(K, e, a, c)
  BY <1>1, <1>5, TendingTransitive
<1>15. Tending(K, e, b, c)
  BY <1>13, <1>14, TendingTransitive
<1>16. Good(d, Handler(c), Val) /\ Good(a, Handler(c), Val) /\ Made(e) \subseteq Made(d) /\ Made(a) \subseteq Made(b)
  BY <1>1, <1>4, <1>12, <1>13 DEF Tended, Tending
<1>17. y \in Made(b) \ Made(e)
  BY <1>5, <1>16 DEF Free
<1>18. /\ \A z : \A o \in Promise : \A q : Tied(a, z, o, q) /\ (ReactionIn(r, Pair \ {z}) \/ (w = o /\ r = q)) => Tied(b, z, o, q)
       /\ b.resolved = a.resolved
       /\ \A o \in Promise : b.promise[o].state = a.promise[o].state
  <2>1. /\ Good(a, Handler(c), Val) /\ w \in Promise /\ on \in [How -> Handler(c)] /\ y \in Capability
        /\ r = [on |-> on, cap |-> y] /\ b = Then(a, w, on, y)
    BY <1>1, <1>5, <1>9, <1>10, <1>16
  <2>2. \A z : \A o \in Promise : \A q : Tied(a, z, o, q) /\ (ReactionIn(r, Pair \ {z}) \/ (w = o /\ r = q)) => Tied(b, z, o, q)
    BY ONLY <2>1, ThenCarries
  <2>3. b.resolved = a.resolved
    BY ONLY <2>1, ThenCarries
  <2>4. \A o \in Promise : b.promise[o].state = a.promise[o].state
    BY ONLY <2>1, ThenCarries
  <2> QED
    BY <2>2, <2>3, <2>4
<1>19. a.resolved = d.resolved /\ a.promise = d.promise /\ a.jobs = d.jobs
  <2>1. d \in Engine(Handler(c), Val)
    BY <1>16 DEF Good
  <2> QED
    BY <1>2, <2>1 DEF Create, CreateResolvingFunctions, Engine
<1>20. y \notin b.resolved
  BY <1>5, <1>16, <1>18, <1>19 DEF Good, Sound
<1>21. Tied(b, y, w, r)
  <2>1. Tied(d, y, w, r)
    BY <1>1, <1>5, <1>16, UntouchedTied
  <2>2. Tied(a, y, w, r)
    BY ONLY <1>19, <2>1 DEF Tied, Settled, JobOf
  <2> QED
    BY <1>1, <1>18, <2>2
<1>22. v \in Plain => b.promise[w].state = "fulfilled"
  <2>1. SUFFICES ASSUME v \in Plain PROVE d.promise[w].state = "fulfilled"
    BY <1>1, <1>18, <1>19
  <2>2. v \notin Promise \cup Thenable \cup Poisoned
    BY <2>1, PromisesAssumption
  <2>3. PICK f : f = Create(e)
    OBVIOUS
  <2>4. w = New(e) /\ d = ResolvingCall(f, Cap(w), "fulfilled", v)
    BY <2>2, <2>3 DEF Wrap, Wrapped
  <2>5. Tending(K, e, f, c) /\ Cap(w) \in Made(f) \ Made(e)
    <3>1. Fresh(e) # {}
      BY <2>2
    <3> QED
      BY <2>3, <2>4, <3>1, CreateTends DEF Free
  <2>6. f.resolved = e.resolved /\ f \in Engine(Handler(c), Val)
    <3>1. e \in Engine(Handler(c), Val) /\ Good(f, Handler(c), Val)
      BY <2>5 DEF Tended, Tending, Good
    <3> QED
      BY <2>3, <3>1 DEF Create, CreateResolvingFunctions, Engine, Good
  <2>7. Cap(w) \notin f.resolved
    BY <2>5, <2>6 DEF Tended, Good, Sound
  <2>8. PICK z : z = Cap(w)
    OBVIOUS
  <2>9. z.of = w /\ z \notin f.resolved
    BY <2>7, <2>8 DEF Cap
  <2>10. PICK m : m = Mark(f, z, "fulfilled", v)
    OBVIOUS
  <2>11. d = Settle(m, w, "fulfilled", v) /\ m.promise = f.promise /\ m \in Engine(Handler(c), Val)
    <3>1. m.promise = f.promise /\ m \in Engine(Handler(c), Val)
      <4>1. z \in Pair
        BY <2>5, <2>8 DEF Made
      <4> QED
        BY <2>6, <2>10, <4>1 DEF Mark, Engine
    <3>2. v # w
      BY <1>1, <2>2
    <3> QED
      BY <2>2, <2>4, <2>8, <2>9, <2>10, <3>1, <3>2 DEF ResolvingCall
  <2>12. ~Settled(m, w)
    <3>1. Good(f, Handler(c), Val) /\ z \in Made(f) /\ z \notin f.resolved
      BY <2>5, <2>8, <2>9 DEF Tending, Tended
    <3>2. ~Settled(f, w)
      BY <2>9, <3>1, LastPairUsed
    <3> QED
      BY <2>11, <3>2 DEF Settled
  <2>13. PICK n \in How : n = "fulfilled"
    BY DEF How
  <2>14. SettleView(m, d, w, n, v, m.promise[w].reactions, m.jobs, d.jobs, Len(m.jobs))
    BY <1>1, <2>11, <2>12, <2>13, SettleViews
  <2> QED
    BY <2>13, <2>14 DEF SettleView
<1> QED
  BY <1>1, <1>3, <1>5, <1>15, <1>17, <1>20, <1>21, <1>22

\* The promise that finally returned is resolved with the one the thunk will resolve.
RestoredView(e, b, d, K, y, s, z, x) ==
  /\ Tidy(e, d, K, Made(e) \ (K \ {y})) /\ Made(d) = Made(b) /\ Chained(d) \subseteq Chained(e) /\ Grows(b, d)
  /\ y \in d.resolved /\ s \notin d.resolved /\ d.follows[z] = x
  /\ \A o \in Promise : \A r : Tied(b, s, o, r) => Tied(d, s, o, r)
LEMMA RestoredEnds ==
  ASSUME NEW c, NEW K, NEW e, Tended(K, e, c), NEW z \in Promise, NEW y, y = Cap(z), y \in K, y \notin Chained(e),
         y \notin e.resolved, NEW b, Tending(K, e, b, c), NEW x \in Promise, NEW s, s = Cap(x), s \in Made(b) \ Made(e),
         s \notin b.resolved, NEW d, d = ResolvingCall(b, y, "fulfilled", x)
  PROVE  RestoredView(e, b, d, K, y, s, z, x)
<1>1. /\ Good(b, Handler(c), Val) /\ Straight(b) /\ Error \in Val /\ Made(e) \subseteq Made(b) /\ K \subseteq Made(e)
      /\ Chained(b) \subseteq Chained(e) /\ Tidy(e, b, K, Made(e) \ K) /\ K \in SUBSET Pair /\ s \in Pair
  <2>1. Tended(K, b, c)
    BY DEF Tending
  <2> QED
    BY <2>1, TendedKnown DEF Tending, Tended, Made
<1>2. y \in Made(b) \ Chained(b) /\ y # s
  BY <1>1
<1>3. y \notin b.resolved
  BY <1>1 DEF Tidy
<1>4. PICK how \in How : how = "fulfilled"
  BY DEF How
<1>5. x \in Val /\ d = ResolvingCall(b, y, how, x)
  BY <1>4 DEF Val, Value
<1>6. PICK L : L = K \cup {s}
  OBVIOUS
<1>7. L \in SUBSET Pair
  BY <1>1, <1>6
<1>8. Tidy(b, d, L, {y}) /\ Made(d) = Made(b) /\ Chained(d) \subseteq Chained(b)
  BY ONLY ZenonT(60), <1>1, <1>2, <1>5, <1>7, how \in How, CallTidy
<1>9. Resolves(b, d, Handler(c), Val, y)
  BY ONLY <1>1, <1>2, <1>5, how \in How, ResolvingCallGood
<1>10. Tidy(e, d, K, Made(e) \ (K \ {y}))
  <2>1. K \in SUBSET L /\ {y} \cap Made(b) \subseteq {y}
    BY <1>6
  <2>2. Tidy(b, d, K, {y})
    BY <1>8, <2>1, TidyLess
  <2>3. Tidy(e, d, K, (Made(e) \ K) \cup {y})
    BY <1>1, <2>2, TidyTransitive
  <2>4. ((Made(e) \ K) \cup {y}) \cap Made(e) \subseteq Made(e) \ (K \ {y}) /\ K \in SUBSET K
    OBVIOUS
  <2> QED
    BY <2>3, <2>4, TidyLess
<1>11. \A o \in Promise : \A r : Tied(b, s, o, r) => Tied(d, s, o, r)
  BY <1>6, <1>8 DEF Tidy, Carries, Holds
<1>12. d.follows[z] = x
  <2>1. y.of = z /\ x # z
    BY <1>1 DEF Cap
  <2>2. PICK m : m = Mark(b, y, how, x)
    OBVIOUS
  <2>3. b \in Engine(Handler(c), Val)
    BY <1>1 DEF Good
  <2>4. m \in Engine(Handler(c), Val)
    BY <1>1, <2>2, <2>3 DEF Mark, Engine
  <2>5. x \notin Poisoned
    BY PromisesAssumption
  <2>6. d = [Enqueue(m, ThenableJob(z, x)) EXCEPT !.follows[z] = x]
    BY <1>3, <1>4, <1>5, <2>1, <2>2, <2>5 DEF ResolvingCall
  <2> QED
    BY <2>4, <2>6 DEF Enqueue, Engine
<1> QED
  BY <1>1, <1>2, <1>8, <1>9, <1>10, <1>11, <1>12 DEF Resolves, RestoredView

LEMMA FinallyReacts ==
  ASSUME Base, Base', Grows(eng, eng'), Reacting, UNCHANGED <<comb, cvars>>, NEW v \in HeldValue, FinallyReturns(v)
  PROVE  Reacting'
<1>1. PICK f : f = Head(stack)
  OBVIOUS
<1>2. /\ Tended(Pledged, eng, comb) /\ stack \in Seq(Frame(comb)) /\ stack # <<>> /\ f.kind = "finally" /\ f \in Frame(comb)
      /\ log.registered \in Registrations /\ Enrolled(log.registered) \subseteq Pledged /\ Kept \subseteq Made(eng)
      /\ v \in Val /\ (v \notin Promise => Fresh(eng) # {})
  BY <1>1, ReactsKnown, Known DEF FinallyReturns, Top
<1>3. f.how \in How /\ f.arg \in Val
  <2>1. f \in [kind : {"callback", "finally"}, id : Nat, cap : Capability, how : How, arg : Val]
    BY <1>2 DEF Frame, GeneratorBody
  <2> QED
    BY <2>1
<1>4. InProgress(stack) = InProgress(stack') \cup {f}
  BY <1>1, <1>2, Drop DEF FinallyReturns, Pop
<1>5. FrameIn(f, Free(Pledged, eng)) \/ Serving(f)
  BY <1>4, FreeKnown
<1>6. Made(eng) \subseteq Made(eng')
  BY <1>2, EvolvesMade DEF Base, Evolves
<1>7. /\ held' = held /\ log'.registered = log.registered /\ log'.ran = log.ran /\ log.odd \subseteq log'.odd
      /\ v \notin Plain => f.id \in log'.odd
  <2>1. log = [registered |-> log.registered, ran |-> log.ran, odd |-> log.odd]
    BY Known DEF LogTyped
  <2> QED
    BY <1>1, <2>1 DEF FinallyReturns, Odd
<1>8. PICK K : K = Pledged
  OBVIOUS
<1>9. PICK d : d = Wrap(eng, v)
  OBVIOUS
<1>10. PICK x : x = New(d)
  OBVIOUS
<1>11. PICK w : w = Wrapped(eng, v)
  OBVIOUS
<1>12. PICK r : r = RestorationOf(f.how, f.arg, x)
  OBVIOUS
<1>13. PICK b : b = Then(Create(d), w, r.on, r.cap)
  OBVIOUS
<1>14. /\ Tending(K, eng, b, comb) /\ x \in Promise /\ Cap(x) \in Made(b) \ Made(eng) /\ Cap(x) \notin b.resolved
       /\ v \in Plain => w \in Promise /\ b.promise[w].state = "fulfilled" /\ Tied(b, Cap(x), w, r)
  <2>1. PICK e : e = eng
    OBVIOUS
  <2>2. PICK how \in How : how = f.how
    BY <1>3
  <2>3. PICK arg \in Val : arg = f.arg
    BY <1>3
  <2>4. /\ Tended(K, e, comb) /\ v \in Val /\ (v \notin Promise => Fresh(e) # {}) /\ d = Wrap(e, v)
        /\ Fresh(d) # {} /\ x = New(d) /\ w = Wrapped(e, v) /\ how \in How /\ arg \in Val
        /\ r = RestorationOf(how, arg, x) /\ b = Then(Create(d), w, r.on, r.cap)
    BY <1>2, <1>8, <1>9, <1>10, <1>11, <1>12, <1>13, <2>1, <2>2, <2>3 DEF FinallyReturns
  <2>5. /\ Tending(K, e, b, comb) /\ x \in Promise /\ Cap(x) \in Made(b) \ Made(e) /\ Cap(x) \notin b.resolved
        /\ v \in Plain => w \in Promise /\ b.promise[w].state = "fulfilled" /\ Tied(b, Cap(x), w, r)
    BY ONLY <2>4, RestoringTends
  <2> QED
    BY <2>1, <2>5
<1>15. eng' = Finish(b, f.cap, "fulfilled", x)
  BY <1>1, <1>9, <1>10, <1>11, <1>12, <1>13 DEF FinallyReturns, AfterFinally, RestorationOf
<1>16. "fulfilled" \in How /\ x \in Val
  BY <1>14 DEF How, Val, Value
<1>17. Tended(K, b, comb)
  BY <1>14 DEF Tending
<1>18. ASSUME Tending(K, eng, eng', comb), FrameIn(f, Pair \ Kept) \/ f.cap \in eng'.resolved PROVE Reacting'
  <2>1. \A h \in InProgress(stack) :
          \/ h \in InProgress(stack') \/ h.kind \notin {"callback", "finally"} \/ FrameIn(h, Pair \ Kept)
          \/ h.cap \in eng'.resolved
    BY <1>4, <1>18
  <2>2. \A h \in InProgress(stack') : h \in InProgress(stack) \/ FrameIn(h, Free(Pledged, eng'))
    BY <1>4
  <2> QED
    BY <1>7, <1>8, <1>18, <2>1, <2>2, PromiseTends
<1>19. CASE FrameIn(f, Free(Pledged, eng))
  <2>1. CapIn(f.cap, Free(K, b))
    <3>1. Free(K, eng) \subseteq Free(K, b)
      BY <1>14, FreeStays
    <3> QED
      BY <1>2, <1>8, <1>19, <3>1 DEF FrameIn, CapIn
  <2>2. Tending(K, b, eng', comb)
    BY <1>15, <1>16, <1>17, <2>1, FinishTends
  <2>3. Tending(K, eng, eng', comb)
    BY <1>14, <2>2, TendingTransitive
  <2>4. FrameIn(f, Pair \ Kept)
    BY <1>19, ReactsKnown DEF FrameIn, CapIn, Made
  <2> QED
    BY <1>18, <2>3, <2>4
<1>20. CASE Serving(f)
  <2>1. PICK k : \E g : \E y : Registration(f, k, g, y)
    BY <1>20, ServingKnown
  <2>2. PICK g : \E y : Registration(f, k, g, y)
    BY <2>1
  <2>3. PICK y : Registration(f, k, g, y)
    BY SMTT(60), <2>2
  <2>4. /\ y = f.cap /\ y \in Made(eng) \ Chained(eng) /\ y # None /\ k = f.id /\ f.kind = g.fn /\ g = log.registered[k]
        /\ k \in DOMAIN log.registered /\ y \in K /\ y = Cap(g.derived) /\ g.derived \in Promise /\ g.on \in Promise
        /\ Settled(eng, g.on) /\ f.how = eng.promise[g.on].state /\ f.arg = eng.promise[g.on].result
    BY SMTT(60), <1>8, <2>3 DEF Registration
  <2>5. eng' = ResolvingCall(b, y, "fulfilled", x)
    BY SMTT(60), <1>15, <2>4 DEF Finish
  <2>6. CASE y \in eng.resolved
    <3>1. b.resolved \in SUBSET Pair /\ y \in b.resolved
      <4>1. y \in b.resolved
        BY <1>14, <2>6 DEF Tending
      <4> QED
        BY <1>17, <4>1 DEF Tended, Good, Engine
    <3>2. eng' = b
      BY <2>5, <3>1 DEF ResolvingCall
    <3> QED
      BY <1>14, <1>18, <2>4, <3>1, <3>2
  <2>7. CASE y \notin eng.resolved
    <3>1. PICK s : s = Cap(x)
      BY SMTT(60)
    <3>2. PICK z \in Promise : z = g.derived
      BY <2>4
    <3>3. PICK n : n = eng'
      OBVIOUS
    <3>4. PICK e : e = eng
      BY SMTT(60)
    <3>5. /\ z \in Promise /\ x \in Promise /\ s = Cap(x)
          /\ Tended(K, e, comb) /\ y = Cap(z) /\ y \in K /\ y \notin Chained(e) /\ y \notin e.resolved
          /\ Tending(K, e, b, comb) /\ s \in Made(b) \ Made(e) /\ s \notin b.resolved /\ n = ResolvingCall(b, y, "fulfilled", x)
      BY <1>2, <1>8, <1>14, <2>4, <2>5, <2>7, <3>1, <3>2, <3>3, <3>4
    <3>25. RestoredView(e, b, n, K, y, s, z, x)
      BY ONLY <3>5, RestoredEnds
    <3>6. Tidy(e, n, K, Made(e) \ (K \ {y})) /\ Made(n) = Made(b) /\ Chained(n) \subseteq Chained(e) /\ Grows(b, n)
      BY <3>25 DEF RestoredView
    <3>7. y \in n.resolved /\ s \notin n.resolved /\ n.follows[z] = x
      BY <3>25 DEF RestoredView
    <3>8. \A o \in Promise : \A q : Tied(b, s, o, q) => Tied(n, s, o, q)
      BY <3>25 DEF RestoredView
    <3>9. /\ Straight(eng') /\ Sequenced(eng', log'.registered, log'.ran) /\ Chained(eng') \cap Made(eng) \subseteq Chained(eng)
          /\ y \in eng'.resolved /\ Tidy(eng, eng', Pledged, Made(eng) \ (Pledged \ {y}))
      <4>1. Tidy(eng, eng', Pledged, Made(eng) \ (Pledged \ {y})) /\ y \in eng'.resolved
        BY <1>8, <3>3, <3>4, <3>6, <3>7
      <4>2. Sequenced(eng', log.registered, log.ran)
        BY <1>2, <4>1 DEF Tidy, Carries, Reacting
      <4>3. Sequenced(eng', log'.registered, log'.ran)
        BY <1>7, <4>2
      <4> QED
        BY <4>1, <4>3 DEF Tidy
    <3>10. Logs
      BY SMTT(60), <1>7 DEF Logs
    <3>11. Restorer(k)' = x
      BY <1>7, <2>4, <3>2, <3>3, <3>7 DEF Restorer
    <3>12. ASSUME Quiet(k)' PROVE Restores(x, g.on)'
      <4>1. v \in Plain
        BY <1>7, <2>4, <3>12 DEF Quiet
      <4>2. w \in Promise /\ b.promise[w].state = "fulfilled" /\ Tied(b, s, w, r)
        BY <1>14, <3>1, <4>1
      <4>3. Settled(b, w)
        BY <4>2 DEF Settled
      <4>4. n.promise[w].state = "fulfilled" /\ Tied(n, s, w, r)
        BY SMTT(60), <3>6, <3>8, <4>2, <4>3, OutcomeStays
      <4>5. eng'.promise[g.on].state = f.how /\ eng'.promise[g.on].result = f.arg
        BY <2>4, OutcomeStays
      <4>6. r = Restoration(x, g.on)'
        BY <1>12, <4>5 DEF Restoration, RestorationOf
      <4>7. s \in Made(n)
        BY SMTT(60), <3>5, <3>6
      <4> QED
        BY SMTT(60), <1>14, <3>1, <3>3, <3>7, <4>2, <4>4, <4>6, <4>7 DEF Restores
    <3>13. (Quiet(k) => Restores(Restorer(k), log.registered[k].on))'
      BY <1>7, <2>4, <3>11, <3>12
    <3>14. \A l \in DOMAIN log.registered :
             Derived(l)' /\ (l # k => (Quiet(l)' => Quiet(l) /\ Restorer(l)' = Restorer(l)))
      BY <1>4, <1>6, <2>3, <3>9, <3>10, <3>13, ServedEnds
    <3>15. \A l \in DOMAIN log.registered : Cap(log.registered[l].derived) \in Made(eng)
      BY ReactsKnown DEF Pledged
    <3>16. s = Cap(x) /\ s \notin Made(eng)
      BY <1>14, <3>1
    <3>17. Distinct'
      <4>1. Distinct
        BY DEF Reacting
      <4>2. \A j, l \in DOMAIN log.registered : Quiet(j)' => Restorer(j)' # log.registered[l].derived
        <5> SUFFICES ASSUME NEW j \in DOMAIN log.registered, NEW l \in DOMAIN log.registered, Quiet(j)'
                     PROVE  Restorer(j)' # log.registered[l].derived
          OBVIOUS
        <5>1. CASE j = k
          <6>1. Restorer(j)' = x
            BY <3>11, <5>1
          <6> QED
            BY <3>15, <3>16, <6>1
        <5>2. CASE j # k
          <6>1. Quiet(j) /\ Restorer(j)' = Restorer(j)
            BY <3>14, <5>2
          <6> QED
            BY <4>1, <6>1 DEF Distinct
        <5> QED
          BY <5>1, <5>2
      <4> QED
        BY <1>7, <4>1, <4>2 DEF Distinct
    <3>18. Pledged' \subseteq Pledged \cup {s}
      <4>1. \A l \in DOMAIN log'.registered : Cap(log'.registered[l].derived) \in Pledged
        BY <1>7 DEF Pledged
      <4>2. \A l \in DOMAIN log'.registered : Quiet(l)' => Cap(Restorer(l)') \in Pledged \cup {s}
        <5> SUFFICES ASSUME NEW l \in DOMAIN log.registered, Quiet(l)' PROVE Cap(Restorer(l)') \in Pledged \cup {s}
          BY <1>7
        <5>1. CASE l = k
          BY <3>11, <3>16, <5>1
        <5>2. CASE l # k
          <6>1. Quiet(l) /\ Restorer(l)' = Restorer(l)
            BY <3>14, <5>2
          <6> QED
            BY <6>1 DEF Pledged
        <5> QED
          BY <5>1, <5>2
      <4> QED
        BY <4>1, <4>2 DEF Pledged
    <3>19. Kept' = Pledged' \cup Chained(eng')
      BY DEF Kept
    <3>20. Kept' \cap Made(eng) \subseteq Kept
      BY <3>9, <3>16, <3>18, <3>19 DEF Kept
    <3>21. None \notin Kept'
      <4>1. None \notin Pair
        BY PromisesAssumption
      <4>2. Pledged \subseteq Pair /\ s \in Pair
        BY <1>14, <3>1, ReactsKnown DEF Made
      <4>3. Chained(eng') \subseteq Pair
        <5>1. Good(eng', Handler(comb'), Val)
          BY DEF Base
        <5> QED
          BY <3>9, <5>1, ChainedMade DEF Made
      <4> QED
        BY <3>18, <3>19, <4>1, <4>2, <4>3
    <3>22. Refers({})
      BY <1>4, <1>7 DEF Refers, cvars
    <3>23. Apart(Kept)'
      <4>1. PICK F : F = {}
        OBVIOUS
      <4>2. F \cap Kept' = {} /\ F \subseteq Made(eng') /\ Refers(F)
        BY <3>22, <4>1
      <4>3. Apart(Kept)
        BY DEF Reacting
      <4> QED
        BY <1>2, <1>6, <1>7, <3>20, <3>21, <4>2, <4>3, ApartStep
    <3>24. \A l \in DOMAIN log'.registered : Derived(l)'
      BY <1>7, <3>14
    <3> QED
      BY <3>9, <3>17, <3>23, <3>24 DEF Reacting
  <2> QED
    BY <2>6, <2>7
<1> QED
  BY <1>5, <1>19, <1>20

LEMMA SettlerReacts ==
  ASSUME Base, Base', Grows(eng, eng'), Reacting, UNCHANGED <<comb, cvars>>, NEW how \in How, NEW v \in HeldValue,
         SettlerEnds(how, v)
  PROVE  Reacting'
<1>1. PICK f : f = Head(stack)
  OBVIOUS
<1>2. /\ Tended(Pledged, eng, comb) /\ stack \in Seq(Frame(comb)) /\ stack # <<>> /\ f.kind = "settler" /\ v \in Val
      /\ HeldValue \subseteq Val
  BY <1>1, ReactsKnown, Known DEF SettlerEnds, Top
<1>3. InProgress(stack) = InProgress(stack') \cup {f}
  BY <1>1, <1>2, Drop DEF SettlerEnds, Pop
<1>4. FrameIn(f, Free(Pledged, eng))
  BY <1>2, <1>3, FreeKnown DEF Serving
<1>5. f.pair \in Free(Pledged, eng)
  BY <1>2, <1>4 DEF FrameIn
<1>6. Tending(Pledged, eng, eng', comb)
  <2>1. CASE how = "rejected"
    <3>1. eng' = ResolvingCall(eng, f.pair, how, v)
      BY <1>1, <2>1 DEF SettlerEnds
    <3> QED
      BY <1>2, <1>5, <3>1, CallTends
  <2>2. CASE how # "rejected"
    <3>1. eng' = eng
      BY <2>2 DEF SettlerEnds
    <3> QED
      BY <1>2, <3>1, TendedKnown
  <2> QED
    BY <2>1, <2>2
<1>7. log' = log /\ held' = held
  BY DEF SettlerEnds
<1> QED
  BY <1>2, <1>3, <1>6, <1>7, PromiseTends

LEMMA ScriptEndsReacts ==
  ASSUME Base, Base', Grows(eng, eng'), Reacting, ScriptEnds, UNCHANGED <<comb, cvars>>
  PROVE  Reacting'
<1>1. PICK v \in HeldValue :
        \/ \E how \in How : CallbackEnds(how, v) \/ SettlerEnds(how, v)
        \/ FinallyReturns(v)
        \/ FinallyThrows(v)
  BY DEF ScriptEnds
<1>2. v \in Val /\ LogTyped
  BY Known
<1>3. PICK f : f = Head(stack)
  OBVIOUS
<1>4. ASSUME NEW how \in How, CallbackEnds(how, v) PROVE Reacting'
  <2>1. PICK kind : kind = "callback"
    OBVIOUS
  <2>2. /\ Top(kind) /\ kind \in {"callback", "finally"} /\ Pop /\ UNCHANGED held /\ log' = log
        /\ eng' = Finish(eng, f.cap, how, v) /\ kind # "finally"
    BY <1>3, <1>4, <2>1 DEF CallbackEnds
  <2> QED
    BY <1>2, <1>3, <2>2, CallbackReacts
<1>5. ASSUME NEW how \in How, SettlerEnds(how, v) PROVE Reacting'
  BY <1>5, SettlerReacts
<1>6. CASE FinallyReturns(v)
  BY <1>6, FinallyReacts
<1>7. CASE FinallyThrows(v)
  <2>1. PICK kind : kind = "finally"
    OBVIOUS
  <2>2. PICK how \in How : how = "rejected"
    BY DEF How
  <2>3. /\ Top(kind) /\ kind \in {"callback", "finally"} /\ Pop /\ UNCHANGED held
        /\ eng' = Finish(eng, f.cap, how, v) /\ log' = Odd(f.id)
    BY <1>3, <1>7, <2>1, <2>2 DEF FinallyThrows
  <2>4. log'.registered = log.registered /\ log'.ran = log.ran /\ log'.odd = log.odd \cup {f.id}
    BY <1>2, <2>3 DEF Odd, LogTyped
  <2> QED
    BY <1>2, <1>3, <2>3, <2>4, CallbackReacts
<1> QED
  BY <1>1, <1>4, <1>5, <1>6, <1>7

-----------------------------------------------------------------------------
(* A reaction is registered.                                               *)

\* What then does to the engine, and to what is known of the registrations.
RegisterView(e, d, reg, ran, o, g, k, x, new) ==
  /\ Straight(d) /\ Chained(d) \subseteq Chained(e) /\ Sequenced(d, Append(reg, g), ran)
  /\ Made(e) \subseteq Made(d) /\ Cap(new) \in Made(d) \ Made(e)
  /\ d.resolved = e.resolved /\ d.follows = e.follows
  /\ \A y \in Made(e) : \A p \in Promise : \A r : Tied(e, y, p, r) => Tied(d, y, p, r)
  /\ \A p \in Promise : \A r : Due(e, p, r) \/ (p = o /\ r = x) => Due(d, p, r)
LEMMA RegisterViews ==
  ASSUME NEW c, NEW K, NEW e, Tended(K, e, c), Fresh(e) # {}, NEW o \in Promise,
         NEW sides \in SUBSET How, NEW fn \in {"callback", "finally"},
         NEW reg \in Registrations, NEW ran, Sequenced(e, reg, ran), Enrolled(reg) \subseteq K,
         NEW new, new = New(e), NEW g, g = [on |-> o, sides |-> sides, derived |-> new, fn |-> fn],
         NEW k, k = Len(reg) + 1, NEW x, x = Reaction(g, k), NEW d, d = Then(Create(e), o, x.on, x.cap)
  PROVE  new \in Promise /\ RegisterView(e, d, reg, ran, o, g, k, x, new)
<1>1. PICK a : a = Create(e)
  OBVIOUS
<1>2. PICK y : y = Cap(new)
  OBVIOUS
<1>3. Tending(K, e, a, c) /\ new \in Promise /\ y \in Free(K, a) \ Made(e) /\ y \in Capability
  BY <1>1, <1>2, CreateTends
<1>4. /\ Good(e, Handler(c), Val) /\ K \subseteq Made(e) /\ Good(a, Handler(c), Val) /\ Straight(a)
      /\ Made(e) \subseteq Made(a) /\ Chained(a) \subseteq Chained(e) /\ Carries(e, a, K)
  BY <1>3 DEF Tended, Tending, Tidy
<1>5. a.promise = e.promise /\ a.jobs = e.jobs /\ a.resolved = e.resolved /\ a.follows = e.follows
  <2>1. e \in Engine(Handler(c), Val)
    BY <1>4 DEF Good
  <2> QED
    BY <1>1, <2>1 DEF Create, CreateResolvingFunctions, Engine
<1>6. Sequenced(a, reg, ran) /\ Enrolled(reg) \subseteq Made(a) /\ y \notin Enrolled(reg)
  BY <1>3, <1>4 DEF Carries
<1>7. k \in Nat /\ x.cap = y /\ g.fn = fn /\ g.derived = new
      /\ \A how \in How : x.on[how] = IF how \in g.sides THEN Callback(fn, k) ELSE Undefined
  <2>1. Len(reg) \in Nat
    BY DEF Registrations
  <2> QED
    BY <1>2, <2>1 DEF Reaction
<1>8. PICK on : on = x.on
  OBVIOUS
<1>9. on \in [How -> Handler(c)] /\ \A how \in How : on[how].fn # "settle"
  <2>1. Callback(fn, k) \in Handler(c) /\ Undefined \in Handler(c)
    BY <1>7 DEF Callback, Handler
  <2>2. \A how \in How : on[how] \in Handler(c)
    BY <1>7, <1>8, <2>1
  <2>3. on \in [How -> Handler(c)]
    BY <1>8, <2>2 DEF Reaction
  <2>4. Callback(fn, k).fn # "settle" /\ Undefined.fn # "settle"
    BY DEF Callback, Undefined
  <2> QED
    BY <1>7, <1>8, <2>3, <2>4
<1>10. x = [on |-> on, cap |-> y] /\ d = Then(a, o, on, y)
  BY <1>1, <1>7, <1>8 DEF Reaction
<1>11. \A z : z # y => ReactionIn(x, Pair \ {z})
  <2>1. y \in Pair
    BY SMTT(60), <1>3 DEF Free, Made
  <2> QED
    BY <1>9, <1>10, <2>1 DEF ReactionIn, CapIn, HandlerIn
<1>12. /\ \A z : \A p \in Promise : \A r :
            Tied(a, z, p, r) /\ (ReactionIn(x, Pair \ {z}) \/ (o = p /\ x = r)) => Tied(d, z, p, r)
       /\ \A p \in Promise : \A r : Due(a, p, r) \/ (o = p /\ x = r) => Due(d, p, r)
       /\ d.resolved = a.resolved /\ d.pairs = a.pairs /\ d.follows = a.follows
       /\ \A p \in Promise : d.promise[p].state = a.promise[p].state /\ d.promise[p].result = a.promise[p].result
       /\ \A i \in DOMAIN d.jobs : d.jobs[i].kind = "reaction" \/ (i \in DOMAIN a.jobs /\ d.jobs[i] = a.jobs[i])
  <2>1. PICK H : H = Handler(c)
    OBVIOUS
  <2>2. PICK V : V = Val
    OBVIOUS
  <2>3. /\ Good(a, H, V) /\ o \in Promise /\ on \in [How -> H] /\ y \in Capability
        /\ x = [on |-> on, cap |-> y] /\ d = Then(a, o, on, y)
    BY <1>3, <1>4, <1>9, <1>10, <2>1, <2>2
  <2>4. \A z : \A p \in Promise : \A r :
            Tied(a, z, p, r) /\ (ReactionIn(x, Pair \ {z}) \/ (o = p /\ x = r)) => Tied(d, z, p, r)
    BY ONLY <2>3, ThenCarries
  <2>5. \A p \in Promise : \A r : Due(a, p, r) \/ (o = p /\ x = r) => Due(d, p, r)
    BY ONLY <2>3, ThenCarries
  <2>6. d.resolved = a.resolved /\ d.pairs = a.pairs /\ d.follows = a.follows
    BY ONLY <2>3, ThenCarries
  <2>7. \A p \in Promise : d.promise[p].state = a.promise[p].state /\ d.promise[p].result = a.promise[p].result
    BY ONLY <2>3, ThenCarries
  <2>8. \A i \in DOMAIN d.jobs : d.jobs[i].kind = "reaction" \/ (i \in DOMAIN a.jobs /\ d.jobs[i] = a.jobs[i])
    BY ONLY <2>3, ThenCarries
  <2> QED
    BY <2>4, <2>5, <2>6, <2>7, <2>8
<1>13. \A p \in Promise : (Settled(d, p) <=> Settled(a, p)) /\ Outcome(d, p) = Outcome(a, p)
  BY ZenonT(60), <1>12 DEF Settled, Outcome
<1>14. ThenView(a, d, o, x)
  <2>1. a \in Engine(Handler(c), Val)
    BY <1>4 DEF Good
  <2> QED
    BY <1>3, <1>9, <1>10, <2>1, ThenViews
<1>15. Tied(a, y, o, x)
  <2>1. Tied(e, y, o, x)
    BY <1>3, <1>4, UntouchedTied
  <2> QED
    BY ONLY <1>5, <2>1 DEF Tied, Settled, JobOf
<1>16. Sequenced(d, Append(reg, g), ran)
  <2>1. \A p \in Promise : Settled(a, p) => Outcome(d, p) = Outcome(a, p)
    BY <1>13
  <2>2. Tied(a, Cap(new), o, x) /\ Cap(new) \notin Enrolled(reg)
    BY <1>2, <1>6, <1>15
  <2>3. \A z : \A p \in Promise : \A r :
          Tied(a, z, p, r) /\ (ReactionIn(x, Pair \ {z}) \/ (o = p /\ x = r)) => Tied(d, z, p, r)
    BY <1>12
  <2>4. PICK H : H = Handler(c)
    OBVIOUS
  <2>5. PICK V : V = Val
    OBVIOUS
  <2>6. /\ Good(a, H, V) /\ o \in Promise /\ reg \in Registrations /\ Sequenced(a, reg, ran) /\ Enrolled(reg) \subseteq Made(a)
        /\ sides \in SUBSET How /\ fn \in {"callback", "finally"} /\ new \in Promise
        /\ g = [on |-> o, sides |-> sides, derived |-> new, fn |-> fn] /\ k = Len(reg) + 1 /\ x = Reaction(g, k)
        /\ ThenView(a, d, o, x) /\ Tied(a, Cap(new), o, x) /\ Cap(new) \notin Enrolled(reg)
    BY <1>3, <1>4, <1>6, <1>14, <2>2, <2>4, <2>5
  <2> QED
    BY ONLY <2>1, <2>3, <2>6, RegisterSequenced, SMTT(60)
<1>17. Straight(d) /\ Chained(d) \subseteq Chained(a)
  <2>1. Holds(a, d, Chained(a))
    <3>1. y \notin Chained(a)
      BY <1>3 DEF Free
    <3> QED
      BY <1>11, <1>12, <3>1 DEF Holds
  <2>2. \A p \in Promise : Follower(d, p) => Follower(a, p) /\ Last(d, p) = Last(a, p) /\ d.follows[p] = a.follows[p]
    BY <1>12 DEF Follower, Last
  <2>3. \A p \in Promise : d.promise[p].state = "fulfilled" => d.promise[p].result \notin Promise \cup Thenable \cup Poisoned
    BY <1>4, <1>12 DEF Straight
  <2>4. \A i \in DOMAIN d.jobs : \A p \in Promise : Adopts(d.jobs[i], p) =>
          d.follows[p] = IF d.jobs[i].thenable \in Promise THEN d.jobs[i].thenable ELSE None
    <3> SUFFICES ASSUME NEW i \in DOMAIN d.jobs, NEW p \in Promise, Adopts(d.jobs[i], p)
                 PROVE  d.follows[p] = IF d.jobs[i].thenable \in Promise THEN d.jobs[i].thenable ELSE None
      OBVIOUS
    <3>1. i \in DOMAIN a.jobs /\ d.jobs[i] = a.jobs[i]
      BY <1>12 DEF Adopts
    <3>2. a.follows[p] = IF a.jobs[i].thenable \in Promise THEN a.jobs[i].thenable ELSE None
      BY <1>4, <3>1 DEF Straight
    <3> QED
      BY <1>12, <3>1, <3>2
  <2>5. \A p \in Promise : d.follows[p] # None => Cap(p) \in d.resolved
    BY <1>4, <1>12 DEF Straight
  <2>6. \A p \in Promise : d.follows[p] # None /\ Settled(d, p) => Outcome(d, p) = Outcome(d, d.follows[p])
    <3> SUFFICES ASSUME NEW p \in Promise, d.follows[p] # None, Settled(d, p)
                 PROVE  Outcome(d, p) = Outcome(d, d.follows[p])
      OBVIOUS
    <3>1. Outcome(a, p) = Outcome(a, a.follows[p])
      BY <1>4, <1>12, <1>13 DEF Straight
    <3>2. a.follows[p] \in Promise
      BY <1>4, <1>12, ChainedMade
    <3> QED
      BY <1>12, <1>13, <3>1, <3>2
  <2>7. Good(a, Handler(c), Val) /\ Straight(a)
    BY <1>4
  <2> QED
    BY ONLY <2>1, <2>2, <2>3, <2>4, <2>5, <2>6, <2>7, StraightStep
<1>18. \A z \in Made(e) : \A p \in Promise : \A r : Tied(e, z, p, r) => Tied(d, z, p, r)
  <2> SUFFICES ASSUME NEW z \in Made(e), NEW p \in Promise, NEW r, Tied(e, z, p, r) PROVE Tied(d, z, p, r)
    OBVIOUS
  <2>1. Tied(a, z, p, r)
    BY ONLY <1>5, Tied(e, z, p, r) DEF Tied, Settled, JobOf
  <2>2. z # y
    BY <1>3
  <2> QED
    BY <1>11, <1>12, <2>1, <2>2
<1>19. \A p \in Promise : \A r : Due(e, p, r) => Due(a, p, r)
  BY <1>5 DEF Due, Settled, JobOf
<1>20. \A p \in Promise : \A r : Due(e, p, r) \/ (p = o /\ r = x) => Due(d, p, r)
  BY <1>12, <1>19
<1>21. Made(d) = Made(a)
  BY <1>12 DEF Made
<1>22. y \in Made(d) \ Made(e) /\ Made(e) \subseteq Made(d)
  BY <1>3, <1>4, <1>21 DEF Free
<1>23. Chained(d) \subseteq Chained(e) /\ d.resolved = e.resolved /\ d.follows = e.follows
  BY <1>4, <1>5, <1>12, <1>17
<1> QED
  BY <1>2, <1>3, <1>16, <1>17, <1>18, <1>20, <1>22, <1>23 DEF RegisterView

LEMMA RegisterReacts ==
  ASSUME Base, Base', Grows(eng, eng'), Reacting, UNCHANGED <<comb, cvars>>, NEW o \in Promise, NEW sides \in SUBSET How,
         NEW fn \in {"callback", "finally"}, fn = "finally" => sides = How, Register(o, sides, fn)
  PROVE  Reacting'
<1>1. PICK reg : reg = log.registered
  OBVIOUS
<1>2. PICK new : new = New(eng)
  OBVIOUS
<1>3. PICK g : g = [on |-> o, sides |-> sides, derived |-> new, fn |-> fn]
  OBVIOUS
<1>4. PICK k : k = Len(reg) + 1
  OBVIOUS
<1>5. PICK x : x = Reaction(g, k)
  OBVIOUS
<1>6. PICK y : y = Cap(new)
  OBVIOUS
<1>7. /\ Tended(Pledged, eng, comb) /\ Fresh(eng) # {} /\ reg \in Registrations /\ Enrolled(reg) \subseteq Pledged
      /\ Pledged \subseteq Made(eng) /\ LogTyped /\ eng.resolved \subseteq Made(eng)
      /\ Sequenced(eng, reg, log.ran) /\ Good(eng', Handler(comb'), Val)
  <2>1. Good(eng, Handler(comb), Val)
    BY DEF Base
  <2> QED
    BY <1>1, <2>1, ReactsKnown, Known DEF Register, Reacting, Base, Good, Sound
<1>8. /\ eng' = Then(Create(eng), o, x.on, x.cap) /\ held' = held \cup {new} /\ stack' = stack
      /\ log'.registered = Append(reg, g) /\ log'.ran = log.ran /\ log'.odd = log.odd
  <2>1. x.on = [how \in How |-> IF how \in sides THEN Callback(fn, Len(log.registered) + 1) ELSE Undefined]
        /\ x.cap = Cap(New(eng))
    BY <1>1, <1>2, <1>3, <1>4, <1>5 DEF Reaction
  <2>2. log' = [log EXCEPT !.registered = Append(@, g)]
    BY <1>2, <1>3 DEF Register
  <2> QED
    BY <1>1, <1>2, <1>7, <2>1, <2>2 DEF Register, LogTyped
<1>9. new \in Promise /\ RegisterView(eng, eng', reg, log.ran, o, g, k, x, new)
  <2>1. PICK e : e = eng
    OBVIOUS
  <2>2. PICK d : d = eng'
    OBVIOUS
  <2>3. PICK K : K = Pledged
    OBVIOUS
  <2>4. PICK ran : ran = log.ran
    OBVIOUS
  <2>5. /\ Tended(K, e, comb) /\ Fresh(e) # {} /\ o \in Promise /\ sides \in SUBSET How /\ fn \in {"callback", "finally"}
        /\ reg \in Registrations /\ Sequenced(e, reg, ran) /\ Enrolled(reg) \subseteq K /\ new = New(e)
        /\ g = [on |-> o, sides |-> sides, derived |-> new, fn |-> fn] /\ k = Len(reg) + 1 /\ x = Reaction(g, k)
        /\ d = Then(Create(e), o, x.on, x.cap)
    BY <1>2, <1>3, <1>4, <1>5, <1>7, <1>8, <2>1, <2>2, <2>3, <2>4
  <2>6. new \in Promise /\ RegisterView(e, d, reg, ran, o, g, k, x, new)
    BY ONLY <2>5, RegisterViews
  <2> QED
    BY <2>1, <2>2, <2>4, <2>6
<1>10. /\ Straight(eng') /\ Chained(eng') \subseteq Chained(eng) /\ Sequenced(eng', log'.registered, log'.ran)
       /\ Made(eng) \subseteq Made(eng') /\ y \in Made(eng') \ Made(eng) /\ y = Cap(new) /\ new \in Promise
       /\ eng'.resolved = eng.resolved /\ eng'.follows = eng.follows
       /\ \A z \in Made(eng) : \A p \in Promise : \A r : Tied(eng, z, p, r) => Tied(eng', z, p, r)
       /\ \A p \in Promise : \A r : Due(eng, p, r) \/ (p = o /\ r = x) => Due(eng', p, r)
  BY <1>6, <1>8, <1>9 DEF RegisterView
<1>11. /\ \A l \in DOMAIN reg : l \in DOMAIN log'.registered /\ log'.registered[l] = reg[l]
       /\ \A l \in DOMAIN log'.registered : l \notin DOMAIN reg => l = k /\ log'.registered[l] = g
  <2>1. PICK S : reg \in Seq(S) /\ g \in S
    BY <1>3, <1>7, <1>9 DEF Registrations
  <2>2. PICK s : s = Append(reg, g)
    OBVIOUS
  <2>3. /\ \A i \in DOMAIN reg : i \in DOMAIN s /\ s[i] = reg[i]
        /\ \A i \in DOMAIN s : i \notin DOMAIN reg => i = Len(reg) + 1 /\ s[i] = g
    BY ONLY <2>1, <2>2, AppendView
  <2> QED
    BY <1>4, <1>8, <2>2, <2>3
<1>12. ASSUME NEW l \in DOMAIN reg
       PROVE  Derived(l)' /\ (Quiet(l)' => Quiet(l) /\ Restorer(l)' = Restorer(l))
  <2>1. PICK h : h = reg[l]
    OBVIOUS
  <2>2. h.on \in Promise /\ h.derived \in Promise /\ log'.registered[l] = h /\ log.registered[l] = h
    BY <1>1, <1>7, <1>11, <2>1, RegistrationKnown
  <2>3. Derived(l)
    BY <1>1 DEF Reacting
  <2>4. Quiet(l)' => Quiet(l)
    BY <1>1, <1>8, <1>10, <2>2, QuietStays
  <2>5. Restorer(l)' = Restorer(l)
    BY <1>10, <2>2 DEF Restorer
  <2>6. ASSUME Quiet(l) PROVE Restores(Restorer(l), log.registered[l].on)'
    <3>1. PICK w : w = Restorer(l)
      OBVIOUS
    <3>2. Restores(w, h.on)
      BY <2>2, <2>3, <2>6, <3>1 DEF Derived, Restorer
    <3>3. w \in Promise /\ Cap(w) \in Made(eng)
      BY <3>2 DEF Restores
    <3>4. \A p \in Promise : \A r : Tied(eng, Cap(w), p, r) => Tied(eng', Cap(w), p, r)
      BY <1>10, <3>3
    <3>5. Cap(w) \in eng'.resolved => Cap(w) \in eng.resolved
      BY <1>10
    <3>6. eng'.follows[h.derived] = w
      BY <1>10, <2>2, <3>1 DEF Restorer
    <3>7. l \in DOMAIN log.registered /\ log'.registered[l] = log.registered[l] /\ h = log.registered[l]
      BY <1>1, <2>2
    <3> QED
      BY <1>10, <2>2, <2>3, <2>6, <3>1, <3>4, <3>5, <3>6, <3>7, RestoresStays
  <2>7. Derived(l)'
    <3>1. Due(eng, h.on, Reaction(h, l)) => Due(eng', h.on, Reaction(h, l))
      BY <1>10, <2>2
    <3>2. \A f \in InProgress(stack) : f \in InProgress(stack')
      BY <1>8
    <3>3. \A i \in DOMAIN log.ran : \E j \in DOMAIN log'.ran : log'.ran[j].id = log.ran[i].id
      BY <1>8
    <3>4. (Quiet(l) => Restores(Restorer(l), log.registered[l].on))'
      BY <2>4, <2>6
    <3>5. Cap(h.derived) \in eng'.resolved => Cap(h.derived) \in eng.resolved
      BY <1>10
    <3>6. l \in DOMAIN log.registered /\ log'.registered[l] = log.registered[l] /\ h = log.registered[l]
      BY <1>1, <2>2
    <3> QED
      BY <1>10, <2>2, <2>3, <3>1, <3>2, <3>3, <3>4, <3>5, <3>6, DerivedStays
  <2> QED
    BY <2>4, <2>5, <2>7
<1>13. g.on = o /\ g.derived = new /\ g.fn = fn /\ g.sides = sides
  BY <1>3
<1>14. ASSUME NEW l \in DOMAIN log'.registered, l \notin DOMAIN reg PROVE Derived(l)' /\ ~Quiet(l)'
  <2>1. l = k /\ log'.registered[l] = g
    BY <1>11, <1>14
  <2>2. y \notin eng'.resolved /\ y \in Made(eng')
    BY <1>7, <1>10
  <2>3. Due(eng', g.on, Reaction(g, l))
    BY <1>5, <1>10, <1>13, <2>1
  <2>4. Cap(g.derived) = y
    BY <1>10, <1>13
  <2>5. ~Quiet(l)'
    BY <2>1, <2>2, <2>4 DEF Quiet
  <2> QED
    BY <2>1, <2>2, <2>3, <2>4, <2>5 DEF Derived
<1>15. \A l \in DOMAIN log'.registered : Quiet(l)' => l \in DOMAIN reg /\ Quiet(l) /\ Restorer(l)' = Restorer(l)
  BY <1>12, <1>14
<1>16. \A l \in DOMAIN reg : Cap(reg[l].derived) \in Made(eng) /\ Cap(reg[l].derived) \in Pledged
  BY <1>1, <1>7 DEF Pledged
<1>17. \A l \in DOMAIN reg : Quiet(l) => Cap(Restorer(l)) \in Made(eng) /\ Cap(Restorer(l)) \in Pledged
  BY <1>1, <1>7 DEF Pledged
<1>18. Distinct'
  <2>1. Distinct
    BY DEF Reacting
  <2>2. \A l \in DOMAIN log'.registered : log'.registered[l].fn = "finally" => log'.registered[l].sides = How
    BY <1>1, <1>11, <1>13, <2>1 DEF Distinct
  <2>3. \A l, j \in DOMAIN log'.registered : log'.registered[l].derived = log'.registered[j].derived => l = j
    <3> SUFFICES ASSUME NEW l \in DOMAIN log'.registered, NEW j \in DOMAIN log'.registered,
                        log'.registered[l].derived = log'.registered[j].derived
                 PROVE  l = j
      OBVIOUS
    <3>1. CASE l \in DOMAIN reg /\ j \in DOMAIN reg
      BY <1>1, <1>11, <2>1, <3>1 DEF Distinct
    <3>2. CASE l \in DOMAIN reg /\ j \notin DOMAIN reg
      BY <1>10, <1>11, <1>13, <1>16, <3>2
    <3>3. CASE l \notin DOMAIN reg /\ j \in DOMAIN reg
      BY <1>10, <1>11, <1>13, <1>16, <3>3
    <3>4. CASE l \notin DOMAIN reg /\ j \notin DOMAIN reg
      BY <1>11, <3>4
    <3> QED
      BY <3>1, <3>2, <3>3, <3>4
  <2>4. \A l, j \in DOMAIN log'.registered : Quiet(l)' => Restorer(l)' # log'.registered[j].derived
    <3> SUFFICES ASSUME NEW l \in DOMAIN log'.registered, NEW j \in DOMAIN log'.registered, Quiet(l)'
                 PROVE  Restorer(l)' # log'.registered[j].derived
      OBVIOUS
    <3>1. l \in DOMAIN reg /\ Quiet(l) /\ Restorer(l)' = Restorer(l)
      BY <1>15
    <3>2. CASE j \in DOMAIN reg
      BY <1>1, <1>11, <2>1, <3>1, <3>2 DEF Distinct
    <3>3. CASE j \notin DOMAIN reg
      BY <1>10, <1>11, <1>13, <1>17, <3>1, <3>3
    <3> QED
      BY <3>2, <3>3
  <2> QED
    BY <2>2, <2>3, <2>4 DEF Distinct
<1>19. Pledged' \subseteq Pledged \cup {y}
  <2>1. \A l \in DOMAIN log'.registered : Cap(log'.registered[l].derived) \in Pledged \cup {y}
    BY <1>10, <1>11, <1>13, <1>16
  <2>2. \A l \in DOMAIN log'.registered : Quiet(l)' => Cap(Restorer(l)') \in Pledged
    BY <1>15, <1>17
  <2> QED
    BY <2>1, <2>2 DEF Pledged
<1>20. Kept' = Pledged' \cup Chained(eng')
  BY DEF Kept
<1>21. Kept' \cap Made(eng) \subseteq Kept
  BY <1>10, <1>19, <1>20 DEF Kept
<1>22. None \notin Kept'
  <2>1. None \notin Pair /\ Made(eng) \subseteq Pair /\ Made(eng') \subseteq Pair
    BY PromisesAssumption DEF Made
  <2>2. Chained(eng') \subseteq Made(eng')
    BY <1>7, <1>10, ChainedMade
  <2> QED
    BY <1>7, <1>10, <1>19, <1>20, <2>1, <2>2
<1>23. Refers({})
  BY <1>8, <1>10 DEF Refers, cvars
<1>24. Apart(Kept)'
  <2>1. PICK F : F = {}
    OBVIOUS
  <2>2. F \cap Kept' = {} /\ F \subseteq Made(eng') /\ Refers(F)
    BY <1>23, <2>1
  <2>3. Apart(Kept)
    BY DEF Reacting
  <2>4. DOMAIN log.registered \subseteq DOMAIN log'.registered /\ \A l \in DOMAIN log.registered : log'.registered[l] = log.registered[l]
    BY <1>1, <1>11
  <2> QED
    BY <1>1, <1>7, <1>10, <1>21, <1>22, <2>2, <2>3, <2>4, ApartStep
<1>25. \A l \in DOMAIN log'.registered : Derived(l)'
  BY <1>12, <1>14
<1> QED
  BY <1>10, <1>18, <1>24, <1>25 DEF Reacting

\* So every operation of scripts.
LEMMA ScriptsReact ==
  ASSUME Base, Base', Grows(eng, eng'), Reacting, Script, UNCHANGED <<comb, cvars>>
  PROVE  Reacting'
<1>1. CASE Registers
  <2>1. PICK o \in held \cap Promise : (\E sides \in SUBSET How : CallThen(o, sides)) \/ CallFinally(o)
    BY <1>1 DEF Registers
  <2>2. ASSUME NEW sides \in SUBSET How, CallThen(o, sides) PROVE Reacting'
    <3>1. PICK fn \in {"callback", "finally"} : fn = "callback"
      OBVIOUS
    <3>2. Register(o, sides, fn) /\ fn # "finally"
      BY <2>2, <3>1 DEF CallThen
    <3> QED
      BY <2>1, <3>2, RegisterReacts
  <2>3. CASE CallFinally(o)
    <3>1. PICK fn \in {"callback", "finally"} : fn = "finally"
      OBVIOUS
    <3>2. PICK sides \in SUBSET How : sides = How
      OBVIOUS
    <3>3. Register(o, sides, fn)
      BY <2>3, <3>1, <3>2 DEF CallFinally
    <3> QED
      BY <2>1, <3>2, <3>3, RegisterReacts
  <2> QED
    BY <2>1, <2>2, <2>3
<1>2. CASE ~Registers
  BY <1>2, ScriptReacts
<1> QED
  BY <1>1, <1>2

-----------------------------------------------------------------------------
(* Jobs.                                                                   *)

\* The reactions that refer to the functions that are kept.
Touches(job, y, k, o, r) ==
  \/ k \in DOMAIN log.registered /\ o = log.registered[k].on /\ r = Reaction(log.registered[k], k)
  \/ /\ k \in DOMAIN log.registered /\ Quiet(k) /\ eng.promise[o].state = "fulfilled"
     /\ r = Restoration(Restorer(k), log.registered[k].on)
  \/ k \in Promise /\ Follower(eng, k) /\ y = Last(eng, k) /\ o = eng.follows[k] /\ r = Adoption(y)
TouchesOne(job) ==
  \E y \in Kept : \E k : \E o \in Promise : \E r :
    Touches(job, y, k, o, r) /\ Settled(eng, o) /\ job = JobOf(eng, r, o)
LEMMA JobTouches ==
  ASSUME Base, Reacting, NEW job, job = Job, eng.jobs # <<>>, job.kind = "reaction"
  PROVE  JobIn(job, Pair \ Kept) \/ TouchesOne(job)
<1>1. /\ Good(eng, Handler(comb), Val) /\ log.registered \in Registrations /\ Straight(eng)
      /\ Sequenced(eng, log.registered, log.ran)
  BY ReactsKnown DEF Base, Reacting
<1>2. job \in ReactionJobs(Handler(comb), Val) /\ 1 \in DOMAIN eng.jobs /\ eng.jobs[1] = job
  <2>1. job \in ReactionJobs(Handler(comb), Val)
    BY <1>1, PopReaction DEF Job
  <2>2. eng.jobs \in Seq(ReactionJobs(Handler(comb), Val) \cup ThenableJobs)
    BY <1>1 DEF Good, Engine
  <2> QED
    BY <2>1, <2>2 DEF Job
<1>3. SUFFICES ASSUME NEW y \in Kept, ~JobIn(job, Pair \ {y})
               PROVE  \E k : \E o \in Promise : \E r :
                        Touches(job, y, k, o, r) /\ Settled(eng, o) /\ job = JobOf(eng, r, o)
  <2>1. SUFFICES ASSUME \A y \in Kept : JobIn(job, Pair \ {y}) PROVE JobIn(job, Pair \ Kept)
    BY <1>3 DEF TouchesOne
  <2>2. JobIn(job, Pair)
    <3>1. PairsIn(eng, Made(eng)) /\ Made(eng) \subseteq Pair
      BY <1>1 DEF Good, Sound, Made
    <3>2. JobIn(job, Made(eng))
      BY <1>2, <3>1 DEF PairsIn
    <3> QED
      BY <3>1, <3>2 DEF JobIn, CapIn, HandlerIn
  <2> QED
    BY <2>1, <2>2 DEF JobIn, CapIn, HandlerIn
<1>4. ASSUME NEW o \in Promise, NEW r, Tied(eng, y, o, r) PROVE Settled(eng, o) /\ job = JobOf(eng, r, o)
  BY <1>2, <1>3, <1>4 DEF Tied
<1>5. CASE \E k \in DOMAIN log.registered : y = Cap(log.registered[k].derived)
  <2>1. PICK k \in DOMAIN log.registered : y = Cap(log.registered[k].derived)
    BY <1>5
  <2>2. log.registered[k].on \in Promise /\ Tied(eng, y, log.registered[k].on, Reaction(log.registered[k], k))
    BY <1>1, <2>1, RegistrationKnown DEF Sequenced
  <2> QED
    BY <1>4, <2>2 DEF Touches
<1>6. CASE \E k \in DOMAIN log.registered : Quiet(k) /\ y = Cap(Restorer(k))
  <2>1. PICK k \in DOMAIN log.registered : Quiet(k) /\ y = Cap(Restorer(k))
    BY <1>6
  <2>2. Restores(Restorer(k), log.registered[k].on)
    BY <2>1 DEF Reacting, Derived, Restorer
  <2>3. PICK w \in Promise : eng.promise[w].state = "fulfilled" /\ Tied(eng, y, w, Restoration(Restorer(k), log.registered[k].on))
    BY <2>1, <2>2 DEF Restores
  <2> QED
    BY <1>4, <2>1, <2>3 DEF Touches
<1>7. CASE y \in Chained(eng)
  <2>1. PICK p \in Promise : Follower(eng, p) /\ y = Last(eng, p)
    BY <1>7 DEF Chained
  <2>2. eng.follows[p] \in Promise /\ Tied(eng, y, eng.follows[p], Adoption(y))
    <3>1. Tied(eng, Last(eng, p), eng.follows[p], Adoption(Last(eng, p)))
      BY <1>1, <2>1 DEF Straight
    <3>2. eng.follows[p] # None
      BY <2>1 DEF Follower
    <3> QED
      BY <1>1, <2>1, <3>1, <3>2, ChainedMade
  <2> QED
    BY <1>4, <2>1, <2>2 DEF Touches
<1>8. y \in Pledged \/ y \in Chained(eng)
  BY <1>3 DEF Kept
<1> QED
  BY <1>5, <1>6, <1>7, <1>8 DEF Pledged

\* What their handlers are.
TouchedBy(job, y, k, o, r) ==
  \/ /\ job.handler.fn \in {"undefined", "callback", "finally"}
     /\ k \in DOMAIN log.registered /\ o = log.registered[k].on /\ r = Reaction(log.registered[k], k)
  \/ /\ job.handler.fn = "thunk"
     /\ k \in DOMAIN log.registered /\ Quiet(k) /\ r = Restoration(Restorer(k), log.registered[k].on)
  \/ /\ job.handler.fn = "settle"
     /\ k \in Promise /\ Follower(eng, k) /\ y = Last(eng, k) /\ o = eng.follows[k] /\ r = Adoption(y)
LEMMA TouchedKnown ==
  ASSUME Base, Reacting, NEW job, job.kind = "reaction", NEW y, NEW k, NEW o \in Promise, NEW r,
         Touches(job, y, k, o, r), Settled(eng, o), job = JobOf(eng, r, o)
  PROVE  TouchedBy(job, y, k, o, r)
<1>1. eng.promise[o].state \in How /\ job.handler = r.on[eng.promise[o].state] /\ log.registered \in Registrations
  <2>1. eng \in Engine(Handler(comb), Val)
    BY DEF Base, Good
  <2>2. eng.promise[o].state \in {"pending"} \cup How
    BY <2>1 DEF Engine, PromiseState
  <2> QED
    BY <2>2, ReactsKnown DEF JobOf, ReactionJob, Settled
<1>2. ASSUME k \in DOMAIN log.registered, o = log.registered[k].on, r = Reaction(log.registered[k], k)
      PROVE  job.handler.fn \in {"undefined", "callback", "finally"}
  <2>1. log.registered[k].fn \in {"callback", "finally"}
    BY SMTT(60), <1>1, <1>2, RegistrationKnown
  <2>2. job.handler = Undefined \/ job.handler = Callback(log.registered[k].fn, k)
    BY <1>1, <1>2 DEF Reaction
  <2> QED
    BY SMTT(60), <2>1, <2>2 DEF Undefined, Callback
<1>3. ASSUME eng.promise[o].state = "fulfilled", r = Restoration(Restorer(k), log.registered[k].on)
      PROVE  job.handler.fn = "thunk"
  <2>1. PICK n : n = log.registered[k].on
    OBVIOUS
  <2>2. PICK t : t = Thunk(eng.promise[n].state, eng.promise[n].result)
    OBVIOUS
  <2>3. r.on = [how \in How |-> IF how = "fulfilled" THEN t ELSE Undefined]
    BY Zenon, <1>3, <2>1, <2>2 DEF Restoration
  <2>4. job.handler = t
    BY <1>1, <1>3, <2>3
  <2>5. t.fn = "thunk"
    BY <2>2 DEF Thunk
  <2> QED
    BY <2>4, <2>5
<1>4. ASSUME r = Adoption(y) PROVE job.handler.fn = "settle"
  BY <1>1, <1>4 DEF Adoption, Settler
<1> QED
  BY <1>2, <1>3, <1>4 DEF Touches, TouchedBy

\* Such a job is taken, and the function it has for the outcome is called.
PassView(e, b, K, y, p, reg, ran, how, v) ==
  /\ Tidy(e, b, K, Made(e) \ K) /\ Grows(e, b) /\ Made(b) = Made(e) /\ Chained(b) \subseteq Chained(e)
  /\ Sequenced(b, reg, ran) /\ y \in b.resolved
  /\ \A o \in Promise : \A r : Tied(e, y, o, r) => Tied(b, y, o, r)
  /\ y \in e.resolved \/ Outcome(b, p) = <<how, v>>
LEMMA PopThenPass ==
  ASSUME NEW c, NEW L, NEW e, Tended(L, e, c), e.jobs # <<>>, NEW job, job = Head(e.jobs), job.kind = "reaction",
         job.handler.fn # "settle", NEW p \in Promise, NEW y, y = Cap(p), job.cap = y, y \in L, NEW K, K = L \ {y},
         NEW how \in How, NEW v \in Val, how = "fulfilled" => v \notin Promise \cup Thenable \cup Poisoned,
         NEW reg \in Registrations, NEW ran, Sequenced(e, reg, ran),
         NEW b, b = ResolvingCall([e EXCEPT !.jobs = Tail(@)], y, how, v)
  PROVE  PassView(e, b, K, y, p, reg, ran, how, v)
<1>1. PICK d : d = [e EXCEPT !.jobs = Tail(@)]
  OBVIOUS
<1>2. /\ Good(e, Handler(c), Val) /\ Straight(e) /\ Error \in Val /\ L \in SUBSET Pair /\ y \in Made(e) /\ K \in SUBSET Pair
      /\ Chained(e) \subseteq Pair
  BY TendedKnown DEF Tended
<1>3. y \notin Chained(e)
  BY <1>2, FirstNotChained
<1>4. JobIn(job, Pair \ (K \cup Chained(e)))
  BY <1>2, <1>3 DEF JobIn, CapIn, HandlerIn
<1>5. Good(d, Handler(c), Val) /\ Grows(e, d) /\ Made(d) = Made(e) /\ d.resolved = e.resolved
  BY <1>1, <1>2, PopReaction
<1>6. Tidy(e, d, K, {}) /\ Chained(d) \subseteq Chained(e)
  <2>1. PICK H : H = Handler(c)
    OBVIOUS
  <2>2. PICK V : V = Val
    OBVIOUS
  <2>3. /\ Good(e, H, V) /\ Straight(e) /\ e.jobs # <<>> /\ Head(e.jobs).kind = "reaction" /\ K \in SUBSET Pair
        /\ JobIn(Head(e.jobs), Pair \ (K \cup Chained(e))) /\ d = [e EXCEPT !.jobs = Tail(@)]
    BY <1>1, <1>2, <1>4, <2>1, <2>2
  <2> QED
    BY ONLY <2>3, PopTidy
<1>7. d.promise = e.promise /\ d.jobs = Tail(e.jobs) /\ e \in Engine(Handler(c), Val)
  BY <1>1, <1>2 DEF Good, Engine
<1>8. Sequenced(d, reg, ran) /\ \A o \in Promise : \A r : Tied(e, y, o, r) => Tied(d, y, o, r)
  BY <1>7, PopCarries
<1>9. Straight(d) /\ y \in Made(d) \ Chained(d) /\ b = ResolvingCall(d, y, how, v)
  BY <1>1, <1>2, <1>3, <1>5, <1>6 DEF Tidy
<1>10. PICK S : S = Pair
  OBVIOUS
<1>11. Tidy(d, b, S, {y}) /\ Made(b) = Made(d) /\ Chained(b) \subseteq Chained(d)
  <2>1. PICK H : H = Handler(c)
    OBVIOUS
  <2>2. PICK V : V = Val
    OBVIOUS
  <2>3. /\ Error \in V /\ Good(d, H, V) /\ Straight(d) /\ y \in Made(d) \ Chained(d) /\ S \in SUBSET Pair
        /\ b = ResolvingCall(d, y, how, v) /\ how \in How /\ v \in V
    BY <1>2, <1>5, <1>9, <1>10, <2>1, <2>2
  <2> QED
    BY ONLY SMTT(60), <2>3, CallTidy
<1>12. Sequenced(b, reg, ran) /\ \A o \in Promise : \A r : Tied(d, y, o, r) => Tied(b, y, o, r)
  <2>1. Enrolled(reg) \subseteq S /\ y \in S
    BY <1>2, <1>10, RegistrationKnown DEF Enrolled
  <2>2. Carries(d, b, S)
    BY <1>11 DEF Tidy
  <2> QED
    BY <1>8, <2>1, <2>2 DEF Carries, Holds
<1>13. Tidy(e, b, K, Made(e) \ K)
  <2>1. Tidy(d, b, K, {y})
    <3>1. K \in SUBSET S /\ {y} \cap Made(d) \subseteq {y}
      BY <1>2, <1>10
    <3> QED
      BY <1>11, <3>1, TidyLess
  <2>2. Tidy(e, b, K, {} \cup {y})
    BY <1>5, <1>6, <2>1, TidyTransitive
  <2>3. K \in SUBSET K /\ ({} \cup {y}) \cap Made(e) \subseteq Made(e) \ K
    OBVIOUS
  <2> QED
    BY <2>2, <2>3, TidyLess
<1>14. Resolves(d, b, Handler(c), Val, y)
  BY <1>2, <1>5, <1>9, ResolvingCallGood
<1>15. Grows(e, b) /\ y \in b.resolved
  <2>1. e \in Engine(Handler(c), Val) /\ d \in Engine(Handler(c), Val) /\ b \in Engine(Handler(c), Val)
    BY <1>2, <1>5, <1>14 DEF Resolves, Good
  <2>2. Grows(d, b) /\ y \in b.resolved
    BY <1>14 DEF Resolves
  <2> QED
    BY <1>5, <2>1, <2>2, GrowsTransitive
<1>16. ASSUME y \notin e.resolved PROVE Outcome(b, p) = <<how, v>>
  <2>1. \E m \in Engine(Handler(c), Val) :
          Marks(d, m, y) /\ (Settles(m, b, y.of, how, v, Val) \/ Defers(m, b, y.of, how, v))
    BY <1>2, <1>5, <1>9, <1>16, CallCases
  <2>2. y.of = p
    BY DEF Cap
  <2>3. PICK m \in Engine(Handler(c), Val) : Marks(d, m, y) /\ Settles(m, b, p, how, v, Val)
    BY <2>1, <2>2 DEF Defers
  <2>4. b = Settle(m, p, how, v)
    <3>1. \A how2 \in How : how2 = "rejected" \/ how2 = "fulfilled"
      BY DEF How
    <3> QED
      BY <2>3, <3>1 DEF Settles
  <2>5. ~Settled(m, p)
    BY <2>2, <2>3 DEF Marks
  <2>6. SettleStep(m, b, p, how, v)
    BY <2>4, <2>5, SettleCarries
  <2> QED
    BY <2>6 DEF SettleStep, Outcome
<1> QED
  BY <1>5, <1>6, <1>8, <1>11, <1>12, <1>13, <1>15, <1>16 DEF PassView

\* A reaction without a handler passes the outcome on to what then returned.
LEMMA PassOnReacts ==
  ASSUME Base, Base', Grows(eng, eng'), Reacting, PassOn, UNCHANGED <<comb, cvars>>,
         NEW k \in DOMAIN log.registered, NEW g, g = log.registered[k], NEW job, job = Job,
         Settled(eng, g.on), job = JobOf(eng, Reaction(g, k), g.on)
  PROVE  Reacting'
<1>1. /\ Tended(Pledged, eng, comb) /\ log.registered \in Registrations /\ Pledged \subseteq Made(eng)
      /\ Sequenced(eng, log.registered, log.ran) /\ Straight(eng) /\ Good(eng, Handler(comb), Val)
  BY SMTT(60), ReactsKnown DEF Base, Reacting
<1>2. /\ stack' = stack /\ held' = held /\ log' = log /\ eng.jobs # <<>> /\ job.kind = "reaction" /\ job.handler.fn = "undefined"
      /\ eng' = Finish(Popped, job.cap, job.how, job.arg)
  BY DEF PassOn, Reacts, JobRuns
<1>3. PICK y : y = Cap(g.derived)
  OBVIOUS
<1>4. PICK p \in Promise : p = g.derived
  BY <1>1, RegistrationKnown
<1>5. PICK K : K = Pledged \ {y}
  OBVIOUS
<1>6. y \in Pledged /\ y # None /\ g.on \in Promise /\ y \in Made(eng)
  BY <1>1, <1>3, RegistrationKnown DEF Pledged
<1>7. /\ job.cap = y /\ job.how = eng.promise[g.on].state /\ job.arg = eng.promise[g.on].result
      /\ job.handler = IF job.how \in g.sides THEN Callback(g.fn, k) ELSE Undefined
  <2>1. eng.promise[g.on].state \in How
    <3>1. eng.promise[g.on].state \in {"pending"} \cup How
      BY SMTT(60), <1>1, <1>6 DEF Good, Engine, PromiseState
    <3> QED
      BY <3>1 DEF Settled
  <2> QED
    BY <1>3, <2>1 DEF JobOf, ReactionJob, Reaction
<1>8. eng.promise[g.on].state \notin g.sides
  <2>1. g.fn \in {"callback", "finally"}
    BY <1>1, RegistrationKnown
  <2>2. job.handler.fn = "undefined"
    BY <1>2
  <2>3. eng.promise[g.on].state \in g.sides => job.handler = Callback(g.fn, k)
    BY ONLY <1>7
  <2>4. Callback(g.fn, k).fn = g.fn
    BY DEF Callback
  <2> QED
    BY ONLY <2>1, <2>2, <2>3, <2>4
<1>9. PICK how : how = job.how
  OBVIOUS
<1>10. PICK v : v = job.arg
  BY SMTT(60)
<1>11. /\ how \in How /\ v \in Val /\ (how = "fulfilled" => v \notin Promise \cup Thenable \cup Poisoned)
       /\ <<how, v>> = Outcome(eng, g.on)
  <2>1. job \in ReactionJobs(Handler(comb), Val)
    BY JobKnown DEF PassOn, Reacts
  <2>2. how \in How /\ v \in Val
    BY <1>9, <1>10, <2>1 DEF ReactionJobs
  <2> QED
    BY SMTT(60), <1>1, <1>6, <1>7, <1>9, <1>10, <2>2 DEF Straight, Outcome
<1>12. PICK reg : reg = log.registered
  OBVIOUS
<1>13. PICK ran : ran = log.ran
  OBVIOUS
<1>14. PassView(eng, eng', K, y, p, reg, ran, how, v)
  <2>1. PICK e : e = eng
    OBVIOUS
  <2>2. PICK b : b = eng'
    OBVIOUS
  <2>3. PICK L : L = Pledged
    BY SMTT(60)
  <2>4. /\ Tended(L, e, comb) /\ e.jobs # <<>> /\ job = Head(e.jobs) /\ job.kind = "reaction" /\ job.handler.fn # "settle"
        /\ p \in Promise /\ y = Cap(p) /\ job.cap = y /\ y \in L /\ K = L \ {y} /\ how \in How /\ v \in Val
        /\ (how = "fulfilled" => v \notin Promise \cup Thenable \cup Poisoned)
        /\ reg \in Registrations /\ Sequenced(e, reg, ran)
    BY <1>1, <1>2, <1>3, <1>4, <1>5, <1>6, <1>7, <1>11, <1>12, <1>13, <2>1, <2>3 DEF Job
  <2>5. b = ResolvingCall([e EXCEPT !.jobs = Tail(@)], y, how, v)
    BY Zenon, <1>2, <1>6, <1>7, <1>9, <1>10, <2>1, <2>2 DEF Finish, Popped
  <2>6. PassView(e, b, K, y, p, reg, ran, how, v)
    BY ONLY Zenon, <2>4, <2>5, PopThenPass
  <2> QED
    BY <2>1, <2>2, <2>6
<1>15. /\ Tidy(eng, eng', K, Made(eng) \ K) /\ Made(eng') = Made(eng) /\ Sequenced(eng', log'.registered, log'.ran)
       /\ y \in eng'.resolved /\ (y \in eng.resolved \/ Outcome(eng', g.derived) = <<how, v>>)
  BY ZenonT(60), <1>2, <1>4, <1>12, <1>13, <1>14 DEF PassView
<1>16. Logs
  BY SMTT(60), <1>2 DEF Logs
<1>17. ~Quiet(k)'
  <2>1. g.fn # "finally"
    <3>1. g.fn = "finally" => g.sides = How
      BY DEF Reacting, Distinct
    <3> QED
      BY <1>7, <1>8, <1>9, <1>11, <3>1
  <2> QED
    BY SMTT(60), <1>2, <2>1 DEF Quiet
<1>18. ASSUME NEW l \in DOMAIN log.registered, l # k
       PROVE  Derived(l)' /\ (Quiet(l)' => Quiet(l) /\ Restorer(l)' = Restorer(l))
  <2>1. Cap(log.registered[l].derived) # y /\ (Quiet(l) => Cap(Restorer(l)) # y)
    BY <1>3, <1>18, Others
  <2>2. Cap(log.registered[l].derived) \in K /\ (Quiet(l) => Cap(Restorer(l)) \in K)
    BY SMTT(60), <1>5, <2>1 DEF Pledged
  <2>3. \A h \in InProgress(stack) : Serves(h, l) => h \in InProgress(stack') \/ h.cap \in eng'.resolved
    BY <1>2
  <2> QED
    BY <1>15, <1>16, <2>2, <2>3, Untouched
<1>19. Derived(k)'
  <2>1. Settled(eng', g.on) /\ Outcome(eng', g.on) = Outcome(eng, g.on) /\ eng'.promise[g.on].state \notin g.sides
    BY <1>6, <1>8, OutcomeStays
  <2>2. Outcome(eng', g.derived) = Outcome(eng', g.on)
    <3>1. CASE y \in eng.resolved
      <4>1. Outcome(eng, g.derived) = Outcome(eng, g.on)
        BY <1>3, <1>8, <3>1 DEF Reacting, Derived
      <4>2. Settled(eng, g.derived)
        BY <4>1 DEF Outcome, Settled
      <4> QED
        BY SMTT(60), <1>4, <2>1, <4>1, <4>2, OutcomeStays
    <3>2. CASE y \notin eng.resolved
      BY SMTT(60), <1>11, <1>15, <2>1, <3>2
    <3> QED
      BY <3>1, <3>2
  <2>3. log'.registered[k] = g /\ y \in Made(eng')
    BY SMTT(60), <1>2, <1>6, <1>15
  <2> QED
    BY <1>3, <1>15, <1>17, <2>1, <2>2, <2>3 DEF Derived
<1>20. Refers(Free(Pledged, eng'))
  BY <1>2 DEF Refers, cvars
<1>21. Straight(eng') /\ Chained(eng') \cap Made(eng) \subseteq Chained(eng)
  BY <1>15 DEF Tidy
<1>22. \A l \in DOMAIN log.registered : Derived(l)'
  BY <1>18, <1>19
<1>23. \A l \in DOMAIN log.registered : Quiet(l)' => Quiet(l) /\ Restorer(l)' = Restorer(l)
  BY <1>17, <1>18
<1> QED
  BY <1>15, <1>16, <1>20, <1>21, <1>22, <1>23, ReactsStep

\* The thunk of a finally callback restores the outcome.
LEMMA RestoreReacts ==
  ASSUME Base, Base', Grows(eng, eng'), Reacting, RunThunk, UNCHANGED <<comb, cvars>>,
         NEW k \in DOMAIN log.registered, Quiet(k), NEW job, job = Job, NEW w \in Promise, Settled(eng, w),
         job = JobOf(eng, Restoration(Restorer(k), log.registered[k].on), w)
  PROVE  Reacting'
<1>1. /\ Tended(Pledged, eng, comb) /\ log.registered \in Registrations /\ Pledged \subseteq Made(eng)
      /\ Sequenced(eng, log.registered, log.ran) /\ Straight(eng) /\ Good(eng, Handler(comb), Val)
  BY SMTT(60), ReactsKnown DEF Base, Reacting
<1>2. /\ stack' = stack /\ held' = held /\ log' = log /\ eng.jobs # <<>> /\ job.kind = "reaction" /\ job.handler.fn = "thunk"
      /\ eng' = Finish(Popped, job.cap, job.handler.how, job.handler.arg)
  BY DEF RunThunk, Reacts, JobRuns
<1>3. PICK p : p = Restorer(k)
  OBVIOUS
<1>4. PICK y : y = Cap(p)
  OBVIOUS
<1>5. PICK K : K = Pledged \ {y}
  OBVIOUS
<1>6. p \in Promise /\ y \in Pledged /\ y \in Made(eng) /\ y # None
  <2>1. Restores(p, log.registered[k].on)
    BY <1>3 DEF Reacting, Derived, Restorer
  <2>2. y \in Pledged
    BY <1>3, <1>4 DEF Pledged
  <2>3. None \notin Pair
    BY PromisesAssumption
  <2> QED
    BY <1>1, <2>1, <2>2, <2>3 DEF Restores, Made
<1>7. eng.promise[w].state \in How
  <2>1. eng.promise[w].state \in {"pending"} \cup How
    BY <1>1 DEF Good, Engine, PromiseState
  <2> QED
    BY <2>1 DEF Settled
<1>8. /\ \A l \in DOMAIN log.registered : log.registered[l].on \in Promise /\ log.registered[l].derived \in Promise
      /\ \A l \in DOMAIN log.registered : Derived(l)
  BY SMTT(60), <1>1, RegistrationKnown DEF Reacting
<1>9. job.cap = y
  BY <1>3, <1>4 DEF JobOf, ReactionJob, Restoration
<1>10. PICK how : how = job.handler.how
  OBVIOUS
<1>11. PICK v : v = job.handler.arg
  OBVIOUS
<1>12. ASSUME NEW l \in DOMAIN log.registered, Quiet(l), Restorer(l) = p
       PROVE  <<how, v>> = Outcome(eng, log.registered[l].on) /\ Settled(eng, log.registered[l].on)
  <2>1. PICK o \in Promise : o = log.registered[l].on
    BY <1>8
  <2>2. PICK r : r = Restoration(p, o)
    BY SMTT(60)
  <2>3. Restores(p, o)
    BY <1>8, <1>12, <2>1 DEF Derived, Restorer
  <2>4. PICK z \in Promise : eng.promise[z].state = "fulfilled" /\ Tied(eng, y, z, r)
    BY SMTT(60), <1>4, <2>2, <2>3 DEF Restores
  <2>5. ~JobIn(job, Pair \ {y})
    BY <1>2, <1>6, <1>9 DEF JobIn, CapIn
  <2>6. 1 \in DOMAIN eng.jobs /\ eng.jobs[1] = job
    <3>1. eng.jobs \in Seq(ReactionJobs(Handler(comb), Val) \cup ThenableJobs)
      BY <1>1 DEF Good, Engine
    <3> QED
      BY <1>2, <3>1 DEF Job
  <2>7. job = JobOf(eng, r, z)
    BY <2>4, <2>5, <2>6 DEF Tied
  <2>8. job.handler = Thunk(eng.promise[o].state, eng.promise[o].result)
    <3>1. "fulfilled" \in How
      BY SMTT(60) DEF How
    <3>2. r.on = [h \in How |-> IF h = "fulfilled" THEN Thunk(eng.promise[o].state, eng.promise[o].result) ELSE Undefined]
      BY <2>2 DEF Restoration
    <3>3. job.handler = r.on["fulfilled"]
      BY <2>4, <2>7 DEF JobOf, ReactionJob
    <3> QED
      BY <3>1, <3>2, <3>3
  <2>9. how = eng.promise[o].state /\ v = eng.promise[o].result
    BY <1>10, <1>11, <2>8 DEF Thunk
  <2>10. Settled(eng, o)
    BY <1>8, <1>12, <2>1 DEF Quiet, Derived
  <2> QED
    BY <2>1, <2>9, <2>10 DEF Outcome
<1>13. how \in How /\ v \in Val /\ (how = "fulfilled" => v \notin Promise \cup Thenable \cup Poisoned)
  <2>1. PICK o \in Promise : o = log.registered[k].on
    BY <1>8
  <2>2. <<how, v>> = Outcome(eng, o) /\ Settled(eng, o)
    BY <1>3, <1>12, <2>1
  <2>3. how = eng.promise[o].state /\ v = eng.promise[o].result
    BY <2>2 DEF Outcome
  <2>4. eng.promise[o] \in PromiseState(Handler(comb), Val)
    BY <1>1 DEF Good, Engine
  <2>5. how \in How /\ v \in Val
    BY <2>2, <2>3, <2>4 DEF PromiseState, Settled
  <2> QED
    BY <1>1, <2>3, <2>5 DEF Straight
<1>14. PICK reg : reg = log.registered
  OBVIOUS
<1>15. PICK ran : ran = log.ran
  OBVIOUS
<1>16. PassView(eng, eng', K, y, p, reg, ran, how, v)
  <2>1. PICK e : e = eng
    OBVIOUS
  <2>2. PICK b : b = eng'
    OBVIOUS
  <2>3. PICK L : L = Pledged
    OBVIOUS
  <2>4. /\ Tended(L, e, comb) /\ e.jobs # <<>> /\ job = Head(e.jobs) /\ job.kind = "reaction" /\ job.handler.fn # "settle"
        /\ p \in Promise /\ y = Cap(p) /\ job.cap = y /\ y \in L /\ K = L \ {y} /\ how \in How /\ v \in Val
        /\ (how = "fulfilled" => v \notin Promise \cup Thenable \cup Poisoned)
        /\ reg \in Registrations /\ Sequenced(e, reg, ran)
    BY SMTT(60), <1>1, <1>2, <1>4, <1>5, <1>6, <1>9, <1>13, <1>14, <1>15, <2>1, <2>3 DEF Job
  <2>5. b = ResolvingCall([e EXCEPT !.jobs = Tail(@)], y, how, v)
    BY <1>2, <1>6, <1>9, <1>10, <1>11, <2>1, <2>2 DEF Finish, Popped
  <2>6. PassView(e, b, K, y, p, reg, ran, how, v)
    BY ONLY Zenon, <2>4, <2>5, PopThenPass
  <2> QED
    BY <2>1, <2>2, <2>6
<1>17. /\ Tidy(eng, eng', K, Made(eng) \ K) /\ Made(eng') = Made(eng) /\ Sequenced(eng', log'.registered, log'.ran)
       /\ y \in eng'.resolved /\ (y \in eng.resolved \/ Outcome(eng', p) = <<how, v>>)
       /\ \A o \in Promise : \A r : Tied(eng, y, o, r) => Tied(eng', y, o, r)
  BY ZenonT(60), <1>2, <1>14, <1>15, <1>16 DEF PassView
<1>18. Logs
  BY <1>2 DEF Logs
<1>19. \A q, o : Cap(q) = Cap(o) => q = o
  BY DEF Cap
<1>20. ASSUME NEW l \in DOMAIN log.registered
       PROVE  Derived(l)' /\ (Quiet(l)' => Quiet(l) /\ Restorer(l)' = Restorer(l))
  <2>1. PICK g : g = log.registered[l]
    OBVIOUS
  <2>2. Cap(g.derived) # y /\ Cap(g.derived) \in K
    <3>1. Restorer(k) # g.derived
      BY <2>1 DEF Reacting, Distinct
    <3> QED
      BY <1>3, <1>4, <1>5, <1>19, <2>1, <3>1 DEF Pledged
  <2>3. CASE Quiet(l) => Cap(Restorer(l)) # y
    <3>1. Quiet(l) => Cap(Restorer(l)) \in K
      BY SMTT(60), <1>5, <2>3 DEF Pledged
    <3>2. \A h \in InProgress(stack) : Serves(h, l) => h \in InProgress(stack') \/ h.cap \in eng'.resolved
      BY <1>2
    <3> QED
      BY <1>17, <1>18, <2>1, <2>2, <3>1, <3>2, Untouched
  <2>4. CASE Quiet(l) /\ Cap(Restorer(l)) = y
    <3>1. Restorer(l) = p /\ g.on \in Promise /\ g.derived \in Promise
      BY <1>4, <1>8, <1>19, <2>1, <2>4
    <3>2. <<how, v>> = Outcome(eng, g.on) /\ Settled(eng, g.on)
      BY <1>12, <2>1, <2>4, <3>1
    <3>3. Outcome(eng', g.on) = Outcome(eng, g.on)
      BY <3>1, <3>2, OutcomeStays
    <3>4. eng'.follows[g.derived] = p
      BY <1>6, <1>17, <2>1, <3>1, PromisesAssumption DEF Tidy, Restorer
    <3>5. log'.registered[l] = log.registered[l] /\ Derived(l) /\ Made(eng) \subseteq Made(eng')
      BY Zenon, <1>2, <1>8, <1>17
    <3>6. p = Restorer(l) /\ (p \in Promise => eng'.follows[g.derived] = p)
      BY <3>1, <3>4
    <3>7. \A o \in Promise : \A r : Tied(eng, Cap(p), o, r) => Tied(eng', Cap(p), o, r)
      BY <1>4, <1>17
    <3>8. Cap(p) \in eng'.resolved => Cap(p) \in eng.resolved \/ Outcome(eng', p) = Outcome(eng', g.on)
      BY <1>4, <1>17, <3>2, <3>3
    <3>9. Restorer(l)' = p /\ Restores(Restorer(l), log.registered[l].on)'
      BY <2>1, <2>4, <3>1, <3>5, <3>6, <3>7, <3>8, RestoresStays
    <3>10. Due(eng, g.on, Reaction(g, l)) => Due(eng', g.on, Reaction(g, l))
      <4>1. PICK r : r = Reaction(g, l)
        OBVIOUS
      <4>2. Bound(r, K)
        BY <2>2, <4>1 DEF Bound, Reaction
      <4> QED
        BY <1>17, <3>1, <4>1, <4>2 DEF Tidy, Carries, Holds
    <3>11. Cap(g.derived) \in eng'.resolved => Cap(g.derived) \in eng.resolved
      <4>1. Cap(g.derived) \in Made(eng)
        BY SMTT(60), <1>8, <2>1 DEF Derived
      <4> QED
        BY <1>17, <2>2, <4>1 DEF Tidy
    <3>12. \A i \in DOMAIN log.ran : \E j \in DOMAIN log'.ran : log'.ran[j].id = log.ran[i].id
      BY SMTT(60), <1>2
    <3>13. \A f \in InProgress(stack) : f \in InProgress(stack')
      BY <1>2
    <3>14. Derived(l)'
      BY SMTT(60), <2>1, <3>1, <3>5, <3>9, <3>10, <3>11, <3>12, <3>13, DerivedStays
    <3> QED
      BY <2>4, <3>1, <3>9, <3>14
  <2> QED
    BY <2>3, <2>4
<1>21. Refers(Free(Pledged, eng'))
  BY <1>2 DEF Refers, cvars
<1>22. Straight(eng') /\ Chained(eng') \cap Made(eng) \subseteq Chained(eng)
  BY SMTT(60), <1>17 DEF Tidy
<1> QED
  BY <1>17, <1>18, <1>20, <1>21, <1>22, ReactsStep

\* A promise ends like the one it follows.
LEMMA FollowReacts ==
  ASSUME Base, Base', Grows(eng, eng'), Reacting, RunSettler, UNCHANGED <<comb, cvars>>,
         NEW p \in Promise, Follower(eng, p), NEW y, y = Last(eng, p), NEW job, job = Job,
         Settled(eng, eng.follows[p]), job = JobOf(eng, Adoption(y), eng.follows[p])
  PROVE  Reacting'
<1>1. Tended(Pledged, eng, comb) /\ Straight(eng) /\ Good(eng, Handler(comb), Val) /\ log.registered \in Registrations
  BY ReactsKnown DEF Base, Reacting
<1>2. /\ stack' = stack /\ held' = held /\ log' = log /\ eng.jobs # <<>> /\ job.kind = "reaction"
      /\ eng' = ResolvingCall(Popped, job.handler.pair, job.handler.how, job.arg)
  BY DEF RunSettler, Reacts, JobRuns
<1>3. PICK q \in Promise : q = eng.follows[p]
  BY <1>1, ChainedMade DEF Follower
<1>4. y \in Chained(eng)
  BY DEF Chained
<1>5. y \notin Pledged
  <2>1. \A o \in Promise : Cap(o) # y
    BY <1>1, <1>4, FirstNotChained
  <2>2. \A l \in DOMAIN log.registered : log.registered[l].derived \in Promise
    BY <1>1, RegistrationKnown
  <2>3. \A l \in DOMAIN log.registered : Quiet(l) => Restorer(l) \in Promise
    BY DEF Reacting, Derived, Restores, Restorer
  <2> QED
    BY <2>1, <2>2, <2>3 DEF Pledged
<1>6. job.handler.pair = y
  <2>1. eng.promise[q].state \in How
    <3>1. eng.promise[q].state \in {"pending"} \cup How
      BY <1>1 DEF Good, Engine, PromiseState
    <3> QED
      BY <1>3, <3>1 DEF Settled
  <2> QED
    BY <1>3, <2>1 DEF JobOf, ReactionJob, Adoption, Settler
<1>7. Tidy(eng, eng', Pledged, {y})
  <2>1. PICK e : e = eng
    OBVIOUS
  <2>2. PICK d : d = eng'
    OBVIOUS
  <2>3. PICK K : K = Pledged
    OBVIOUS
  <2>4. PICK H : H = Handler(comb)
    OBVIOUS
  <2>5. PICK V : V = Val
    OBVIOUS
  <2>6. /\ Error \in V /\ Good(e, H, V) /\ Straight(e) /\ e.jobs # <<>> /\ p \in Promise /\ Follower(e, p) /\ y = Last(e, p)
        /\ q = e.follows[p] /\ Settled(e, q) /\ job = Head(e.jobs) /\ job = JobOf(e, Adoption(y), q) /\ K \in SUBSET Pair
        /\ y \notin K /\ d = ResolvingCall([e EXCEPT !.jobs = Tail(@)], y, job.handler.how, job.arg)
    BY <1>1, <1>2, <1>3, <1>5, <1>6, <2>1, <2>2, <2>3, <2>4, <2>5, TendedKnown DEF Job, Popped
  <2>7. Tidy(e, d, K, {y})
    BY ONLY <2>6, FollowTidy
  <2> QED
    BY <2>1, <2>2, <2>3, <2>7
<1>8. Tidy(eng, eng', Pledged, Made(eng) \ Pledged)
  <2>1. {y} \cap Made(eng) \subseteq Made(eng) \ Pledged /\ Pledged \in SUBSET Pledged
    BY <1>5
  <2> QED
    BY <1>7, <2>1, TidyLess
<1>9. Refers(Free(Pledged, eng'))
  BY <1>2 DEF Refers, cvars
<1> QED
  BY <1>2, <1>8, <1>9, ForeignStep

\* The function of then, or that of finally, is called.
LEMMA RunCallbackReacts ==
  ASSUME Base, Base', Grows(eng, eng'), Reacting, RunCallback, UNCHANGED <<comb, cvars>>
  PROVE  Reacting'
<1>1. PICK job : job = Job
  OBVIOUS
<1>2. /\ stack' = <<[kind |-> job.handler.fn, id |-> job.handler.id, cap |-> job.cap, how |-> job.how, arg |-> job.arg]>>
      /\ stack = <<>> /\ held' = held /\ eng.jobs # <<>> /\ job.kind = "reaction" /\ JobRuns("reaction") /\ eng' = Popped
      /\ job.handler.fn \in {"callback", "finally"} /\ UNCHANGED <<comb, cvars>>
      /\ log' = [log EXCEPT !.ran = Append(@, [id |-> job.handler.id, how |-> job.how, arg |-> job.arg])]
  BY <1>1 DEF RunCallback, Reacts, JobRuns
<1>3. /\ Tended(Pledged, eng, comb) /\ log.registered \in Registrations /\ Pledged \subseteq Made(eng)
      /\ Sequenced(eng, log.registered, log.ran) /\ Straight(eng) /\ Good(eng, Handler(comb), Val) /\ LogTyped
      /\ Chained(eng) \subseteq Made(eng) /\ eng \in Engine(Handler(comb), Val)
      /\ log.ran \in Seq([id : Nat, how : How, arg : Val])
  BY ReactsKnown, Known, ChainedMade DEF Base, Reacting, Good
<1>4. PICK r : r = [id |-> job.handler.id, how |-> job.how, arg |-> job.arg]
  OBVIOUS
<1>5. log'.registered = log.registered /\ log'.odd = log.odd /\ log'.ran = Append(log.ran, r)
  BY <1>2, <1>3, <1>4 DEF LogTyped
<1>6. job \in ReactionJobs(Handler(comb), Val) /\ Popped = [eng EXCEPT !.jobs = Tail(@)] /\ job = Head(eng.jobs)
  BY <1>1, <1>2, JobKnown DEF Popped, Job
<1>7. PICK k : k = job.handler.id
  OBVIOUS
<1>8. r \in [id : Nat, how : How, arg : Val] /\ k \in Nat
  <2>1. job.handler \in Handler(comb) /\ job.how \in How /\ job.arg \in Val
    BY <1>6 DEF ReactionJobs
  <2>2. job.handler \in [fn : {"callback", "finally"}, id : Nat]
    BY <1>2, <2>1 DEF Handler, Undefined, Resume, Continued, Returned
  <2> QED
    BY <1>4, <1>7, <2>1, <2>2
<1>9. CallsBack(job)
  BY <1>2 DEF CallsBack, IsCallback
<1>10. PICK reg : reg = log.registered
  OBVIOUS
<1>11. PICK ran : ran = log.ran
  OBVIOUS
<1>12. eng'.promise = eng.promise /\ eng'.jobs = Tail(eng.jobs) /\ eng'.resolved = eng.resolved /\ eng'.follows = eng.follows
       /\ Made(eng') = Made(eng)
  BY <1>2, <1>3, <1>6 DEF Engine, Made
<1>13. /\ Sequenced(eng', reg, Append(ran, r))
       /\ k \in DOMAIN reg /\ reg[k].on \in Promise /\ Settled(eng, reg[k].on)
       /\ job = JobOf(eng, Reaction(reg[k], k), reg[k].on)
       /\ eng.promise[reg[k].on].state \in reg[k].sides /\ job.handler = Callback(reg[k].fn, k)
  <2>1. PICK e : e = eng
    OBVIOUS
  <2>2. PICK d : d = eng'
    OBVIOUS
  <2>3. PICK S : S = [id : Nat, how : How, arg : Val]
    OBVIOUS
  <2>4. PICK H : H = Handler(comb)
    OBVIOUS
  <2>5. PICK V : V = Val
    OBVIOUS
  <2>6. /\ e \in Engine(H, V) /\ e.jobs # <<>> /\ job = Head(e.jobs) /\ CallsBack(job) /\ reg \in Registrations /\ ran \in Seq(S)
        /\ Sequenced(e, reg, ran) /\ k = job.handler.id /\ r \in S /\ r = [id |-> k, how |-> job.how, arg |-> job.arg]
        /\ d.promise = e.promise /\ d.jobs = Tail(e.jobs)
    BY <1>2, <1>3, <1>4, <1>6, <1>7, <1>8, <1>9, <1>10, <1>11, <1>12, <2>1, <2>2, <2>3, <2>4, <2>5
  <2>7. Sequenced(d, reg, Append(ran, r))
    BY ONLY <2>6, CallbackSequenced
  <2>8. k \in DOMAIN reg /\ reg[k].on \in Promise /\ Settled(e, reg[k].on)
    BY ONLY <2>6, CallbackSequenced
  <2>9. job = JobOf(e, Reaction(reg[k], k), reg[k].on)
    BY ONLY SMTT(60), <2>6, CallbackSequenced
  <2>10. e.promise[reg[k].on].state \in reg[k].sides /\ job.handler = Callback(reg[k].fn, k)
    BY ONLY SMTT(60), <2>6, CallbackSequenced
  <2> QED
    BY <2>1, <2>2, <2>7, <2>8, <2>9, <2>10
<1>14. PICK g : g = reg[k]
  OBVIOUS
<1>15. PICK y : y = Cap(g.derived)
  OBVIOUS
<1>16. /\ job.cap = y /\ job.how = eng.promise[g.on].state /\ job.arg = eng.promise[g.on].result
       /\ job.handler.fn = g.fn /\ job.how \in g.sides /\ g.on \in Promise /\ g.derived \in Promise
       /\ y \in Pledged /\ y \in Made(eng) /\ y \notin Chained(eng) /\ g = log.registered[k] /\ k \in DOMAIN log.registered
       /\ Settled(eng, g.on)
  <2>1. job.handler.fn = g.fn
    BY <1>13, <1>14 DEF Callback
  <2>2. job.cap = y /\ job.how = eng.promise[g.on].state /\ job.arg = eng.promise[g.on].result
    BY <1>13, <1>14, <1>15 DEF JobOf, ReactionJob, Reaction
  <2>3. g.derived \in Promise /\ g.on \in Promise
    BY <1>3, <1>10, <1>13, <1>14, RegistrationKnown
  <2>4. y \in Pledged
    BY <1>10, <1>13, <1>14, <1>15 DEF Pledged
  <2>5. y \notin Chained(eng)
    BY <1>3, <1>15, <2>3, FirstNotChained
  <2> QED
    BY <1>3, <1>10, <1>13, <1>14, <2>1, <2>2, <2>3, <2>4, <2>5
<1>17. PICK K : K = Pledged \ {y}
  OBVIOUS
<1>18. Tidy(eng, eng', K, {}) /\ Chained(eng') \subseteq Chained(eng)
  <2>1. PICK e : e = eng
    OBVIOUS
  <2>2. PICK d : d = eng'
    OBVIOUS
  <2>3. PICK H : H = Handler(comb)
    OBVIOUS
  <2>4. PICK V : V = Val
    OBVIOUS
  <2>5. JobIn(job, Pair \ (K \cup Chained(eng)))
    BY <1>2, <1>16, <1>17 DEF JobIn, CapIn, HandlerIn, Made
  <2>6. /\ Good(e, H, V) /\ Straight(e) /\ e.jobs # <<>> /\ Head(e.jobs).kind = "reaction"
        /\ JobIn(Head(e.jobs), Pair \ (K \cup Chained(e))) /\ d = [e EXCEPT !.jobs = Tail(@)]
    BY <1>2, <1>3, <1>6, <2>1, <2>2, <2>3, <2>4, <2>5
  <2>7. K \in SUBSET Pair
    BY <1>3, <1>17 DEF Made
  <2>8. Tidy(e, d, K, {}) /\ Chained(d) \subseteq Chained(e)
    BY ONLY <2>6, <2>7, PopTidy
  <2> QED
    BY <2>1, <2>2, <2>8
<1>19. Tidy(eng, eng', K, Made(eng) \ K)
  <2>1. {} \cap Made(eng) \subseteq Made(eng) \ K /\ K \in SUBSET K
    OBVIOUS
  <2> QED
    BY <1>18, <2>1, TidyLess
<1>20. /\ \A i \in DOMAIN log.ran : \E j \in DOMAIN log'.ran : log'.ran[j].id = log.ran[i].id
       /\ \E j \in DOMAIN log'.ran : log'.ran[j].id = k
  <2>1. PICK S : log.ran \in Seq(S) /\ r \in S
    BY <1>3, <1>8
  <2>2. PICK q : q = log.ran
    OBVIOUS
  <2>3. PICK s : s = Append(q, r)
    OBVIOUS
  <2>4. /\ \A i \in DOMAIN q : i \in DOMAIN s /\ s[i] = q[i]
        /\ Len(q) + 1 \in DOMAIN s /\ s[Len(q) + 1] = r
    BY <2>1, <2>2, <2>3, AppendView
  <2> QED
    BY <1>4, <1>5, <1>7, <2>2, <2>3, <2>4
<1>21. Logs
  BY <1>5, <1>20 DEF Logs
<1>22. PICK f : f = [kind |-> job.handler.fn, id |-> job.handler.id, cap |-> job.cap, how |-> job.how, arg |-> job.arg]
  BY Zenon
<1>23. InProgress(stack') = {f} /\ InProgress(stack) = {} /\ 1 \in DOMAIN stack' /\ stack'[1] = f
  BY <1>2, <1>22 DEF InProgress
<1>24. /\ f.kind = g.fn /\ f.id = k /\ f.cap = y /\ f.how = eng.promise[g.on].state /\ f.arg = eng.promise[g.on].result
       /\ f.how \in g.sides /\ "id" \in DOMAIN f /\ f.kind \in {"callback", "finally"}
  BY ZenonT(60), <1>2, <1>7, <1>16, <1>22
<1>25. Serving(f)'
  <2>1. Settled(eng', g.on) /\ <<f.how, f.arg>> = Outcome(eng', g.on)
    BY <1>12, <1>16, <1>24 DEF Settled, Outcome
  <2> QED
    BY <1>5, <1>15, <1>16, <1>24, <2>1 DEF Serving
<1>26. ASSUME NEW l \in DOMAIN log.registered, l # k
       PROVE  Derived(l)' /\ (Quiet(l)' => Quiet(l) /\ Restorer(l)' = Restorer(l))
  <2>1. Cap(log.registered[l].derived) # y /\ (Quiet(l) => Cap(Restorer(l)) # y)
    BY <1>15, <1>16, <1>26, Others
  <2>2. Cap(log.registered[l].derived) \in K /\ (Quiet(l) => Cap(Restorer(l)) \in K)
    BY <1>17, <2>1 DEF Pledged
  <2>3. \A h \in InProgress(stack) : Serves(h, l) => h \in InProgress(stack') \/ h.cap \in eng'.resolved
    BY <1>23
  <2> QED
    BY <1>12, <1>19, <1>21, <2>2, <2>3, Untouched
<1>27. Derived(k)' /\ (Quiet(k)' => Quiet(k) /\ Restorer(k)' = Restorer(k))
  <2>1. Quiet(k)' => Quiet(k)
    BY <1>5, <1>12, <1>16 DEF Quiet
  <2>2. Restorer(k)' = Restorer(k)
    BY <1>5, <1>12, <1>16 DEF Restorer
  <2>3. ASSUME Quiet(k) PROVE Restores(Restorer(k), log.registered[k].on)'
    <3>1. PICK x : x = Restorer(k)
      OBVIOUS
    <3>2. \A o \in Promise : \A q : Tied(eng, Cap(x), o, q) => Tied(eng', Cap(x), o, q)
      BY <1>2, <1>3, <1>12, PopCarries
    <3>3. eng'.follows[g.derived] = x /\ Derived(k)
      BY <1>12, <1>16, <3>1 DEF Restorer, Reacting
    <3>4. Cap(x) \in eng'.resolved => Cap(x) \in eng.resolved
      BY <1>12
    <3>5. log'.registered[k] = log.registered[k] /\ Made(eng) \subseteq Made(eng')
      BY <1>5, <1>12
    <3> QED
      BY <1>16, <2>3, <3>1, <3>2, <3>3, <3>4, <3>5, RestoresStays
  <2>4. Settled(eng', g.on) /\ eng'.promise[g.on].state \in g.sides /\ y \in Made(eng')
    BY <1>12, <1>16 DEF Settled
  <2>5. \E i \in DOMAIN stack' : stack'[i].kind \in {"callback", "finally"} /\ stack'[i].cap = y
    BY <1>23, <1>24
  <2>6. log'.registered[k] = g
    BY <1>5, <1>16
  <2>7. (Quiet(k) => Restores(Restorer(k), log.registered[k].on))'
    BY <2>1, <2>3
  <2>8. Derived(k)'
    BY <1>15, <1>20, <2>4, <2>5, <2>6, <2>7 DEF Derived, Restorer, Serves
  <2> QED
    BY <2>1, <2>2, <2>8
<1>28. Refers(Free(Pledged, eng'))
  BY <1>2, <1>23, <1>25 DEF Refers, cvars
<1>29. Straight(eng') /\ Chained(eng') \cap Made(eng) \subseteq Chained(eng) /\ Sequenced(eng', log'.registered, log'.ran)
  BY <1>5, <1>10, <1>11, <1>13, <1>18 DEF Tidy
<1>30. \A l \in DOMAIN log.registered : Derived(l)'
  BY <1>26, <1>27
<1>31. \A l \in DOMAIN log.registered : Quiet(l)' => Quiet(l) /\ Restorer(l)' = Restorer(l)
  BY <1>26, <1>27
<1> QED
  BY <1>12, <1>21, <1>28, <1>29, <1>30, <1>31, ReactsStep

\* The then method of a thenable is called, or the last pair of a promise is registered on the one it follows.
LEMMA RunThenableReacts ==
  ASSUME Base, Base', Grows(eng, eng'), Reacting, RunThenable, UNCHANGED <<comb, cvars>>
  PROVE  Reacting'
<1>1. PICK job : job = Job
  OBVIOUS
<1>2. PICK e : e = eng
  OBVIOUS
<1>3. PICK d : d = eng'
  OBVIOUS
<1>4. PICK H : H = Handler(comb)
  OBVIOUS
<1>5. PICK V : V = Val
  OBVIOUS
<1>6. PICK K : K = Pledged
  OBVIOUS
<1>7. PICK y : y = NewPair(e, job.promise)
  OBVIOUS
<1>8. PICK b : b = CreateResolvingFunctions([e EXCEPT !.jobs = Tail(@)], job.promise)
  OBVIOUS
<1>9. /\ Good(e, H, V) /\ Straight(e) /\ e.jobs # <<>> /\ Head(e.jobs).kind = "thenable" /\ job = Head(e.jobs)
      /\ stack = <<>> /\ log' = log /\ K \in SUBSET Made(e) /\ K \in SUBSET Pair
  BY <1>1, <1>2, <1>4, <1>5, <1>6, ReactsKnown DEF RunThenable, JobRuns, Job, Base, Reacting, Made
<1>10. Made(e) \subseteq Made(d)
  BY <1>2, <1>3, EvolvesMade DEF Base, Evolves
<1>11. CASE job.thenable \in Promise
  <2>1. d = Then(b, job.thenable, [how \in How |-> Settler(y, how)], None) /\ stack' = stack /\ held' = held
    BY <1>1, <1>2, <1>3, <1>7, <1>8, <1>11 DEF RunThenable, Popped
  <2>2. y \in Pair
    <3>1. AdoptView(e, b, job)
      BY ONLY <1>8, <1>9, AdoptViews
    <3> QED
      BY <1>7, <3>1 DEF AdoptView, Made
  <2>3. \A how \in How : Settler(y, how) \in H
    BY <1>4, <2>2 DEF Settler, Handler
  <2>4. Tidy(e, d, K, {})
    <3>1. PICK on \in [How -> H] : on = [how \in How |-> Settler(y, how)]
      BY <2>3
    <3>3. on = Adoption(y).on
      BY <3>1 DEF Adoption
    <3>2. /\ Good(e, H, V) /\ Straight(e) /\ e.jobs # <<>> /\ Head(e.jobs).kind = "thenable" /\ job = Head(e.jobs)
          /\ job.thenable \in Promise /\ K \in SUBSET Made(e) /\ b = CreateResolvingFunctions([e EXCEPT !.jobs = Tail(@)], job.promise)
          /\ y = NewPair(e, job.promise) /\ on \in [How -> H]
          /\ on = Adoption(y).on /\ d = Then(b, job.thenable, on, None)
      BY <1>7, <1>8, <1>9, <1>11, <2>1, <2>3, <3>1, <3>3
    <3> QED
      BY ONLY <3>2, ChainTidy
  <2>5. Tidy(eng, eng', Pledged, Made(eng) \ Pledged)
    <3>1. {} \cap Made(e) \subseteq Made(e) \ K /\ K \in SUBSET K
      OBVIOUS
    <3>2. Tidy(e, d, K, Made(e) \ K)
      BY <2>4, <3>1, TidyLess
    <3> QED
      BY <1>2, <1>3, <1>6, <3>2
  <2>6. Refers(Free(Pledged, eng'))
    BY <1>9, <2>1 DEF Refers, cvars
  <2> QED
    BY <1>9, <2>1, <2>5, <2>6, ForeignStep
<1>12. CASE job.thenable \notin Promise
  <2>1. PICK f : f = [kind |-> "settler", pair |-> y]
    OBVIOUS
  <2>2. d = b /\ stack' = <<f>> /\ held' = held \cup {y}
    BY <1>1, <1>2, <1>3, <1>7, <1>8, <1>12, <2>1 DEF RunThenable, Popped
  <2>3. AdoptView(e, d, job)
    BY ONLY <1>8, <1>9, <2>2, AdoptViews
  <2>4. Tidy(e, d, K, {}) /\ Chained(d) \subseteq Chained(e)
    BY ONLY <1>8, <1>9, <1>12, <2>2, AdoptTidy
  <2>5. y \in Free(K, d)
    <3>1. y \in Made(d) \ Made(e)
      BY <1>7, <2>3 DEF AdoptView
    <3>2. Chained(e) \subseteq Made(e)
      BY <1>9, ChainedMade
    <3> QED
      BY <1>9, <2>4, <3>1, <3>2 DEF Free
  <2>6. Tidy(eng, eng', Pledged, Made(eng) \ Pledged)
    <3>1. {} \cap Made(e) \subseteq Made(e) \ K /\ K \in SUBSET K
      OBVIOUS
    <3>2. Tidy(e, d, K, Made(e) \ K)
      BY <2>4, <3>1, TidyLess
    <3> QED
      BY <1>2, <1>3, <1>6, <3>2
  <2>7. FrameIn(f, Free(Pledged, eng')) /\ y \in Free(Pledged, eng')
    BY <1>3, <1>6, <2>1, <2>5 DEF FrameIn
  <2>8. InProgress(stack') = {f} /\ InProgress(stack) = {}
    BY <1>9, <2>2 DEF InProgress
  <2>9. Refers(Free(Pledged, eng'))
    BY <2>2, <2>7, <2>8 DEF Refers, cvars
  <2> QED
    BY <1>9, <2>6, <2>8, <2>9, ForeignStep
<1> QED
  BY <1>11, <1>12

\* A job that refers to no function that is kept.
LEMMA ForeignJob ==
  ASSUME Base, Reacting, JobRuns("reaction"), JobIn(Job, Pair \ Kept)
  PROVE  /\ Tending(Pledged, eng, Popped, comb) /\ Job \in ReactionJobs(Handler(comb), Val)
         /\ CapIn(Job.cap, Free(Pledged, Popped)) /\ HandlerIn(Job.handler, Free(Pledged, Popped))
<1>1. PICK e : e = eng
  OBVIOUS
<1>2. PICK d : d = Popped
  OBVIOUS
<1>3. PICK K : K = Pledged
  OBVIOUS
<1>4. PICK c : c = comb
  OBVIOUS
<1>5. /\ Tended(K, e, c) /\ e.jobs # <<>> /\ Head(e.jobs).kind = "reaction" /\ JobIn(Head(e.jobs), Pair \ (K \cup Chained(e)))
      /\ d = [e EXCEPT !.jobs = Tail(@)]
  BY <1>1, <1>2, <1>3, <1>4, ReactsKnown DEF JobRuns, Job, Popped, Kept
<1>6. /\ Tending(K, e, d, c) /\ Head(e.jobs) \in ReactionJobs(Handler(c), Val)
      /\ CapIn(Head(e.jobs).cap, Free(K, d)) /\ HandlerIn(Head(e.jobs).handler, Free(K, d))
  BY ONLY <1>5, PopTends
<1> QED
  BY <1>1, <1>2, <1>3, <1>4, <1>6 DEF Job

\* So are those of native code.
LEMMA NativeJob ==
  ASSUME Base, Reacting, JobRuns("reaction"), Job.handler.fn \notin {"undefined", "settle", "thunk", "callback", "finally"}
  PROVE  JobIn(Job, Pair \ Kept)
<1>1. PICK job : job = Job
  OBVIOUS
<1>2. eng.jobs # <<>> /\ job.kind = "reaction"
  BY <1>1 DEF JobRuns
<1>3. SUFFICES ASSUME NEW y \in Kept, NEW k, NEW o \in Promise, NEW r,
                      Touches(job, y, k, o, r), Settled(eng, o), job = JobOf(eng, r, o)
               PROVE  FALSE
  BY <1>1, <1>2, JobTouches DEF TouchesOne
<1>4. TouchedBy(job, y, k, o, r)
  BY <1>2, <1>3, TouchedKnown
<1> QED
  BY <1>1, <1>4 DEF TouchedBy

LEMMA RunJobReacts ==
  ASSUME Base, Base', Grows(eng, eng'), Reacting, RunJob, UNCHANGED <<comb, cvars>>
  PROVE  Reacting'
<1>1. PICK job : job = Job
  OBVIOUS
<1>2. CASE RunCallback
  BY <1>2, RunCallbackReacts
<1>3. CASE RunThenable
  BY <1>3, RunThenableReacts
<1>4. ASSUME PassOn \/ RunSettler \/ RunThunk, JobIn(job, Pair \ Kept) PROVE Reacting'
  <2>1. stack' = stack /\ held' = held /\ log' = log /\ JobRuns("reaction")
    BY <1>4 DEF PassOn, RunSettler, RunThunk, Reacts
  <2>2. PICK d : d = Popped
    OBVIOUS
  <2>3. PICK e : e = eng'
    OBVIOUS
  <2>4. PICK K : K = Pledged
    OBVIOUS
  <2>5. PICK c : c = comb
    OBVIOUS
  <2>6. /\ Tending(K, eng, d, c) /\ Tended(K, d, c) /\ job \in ReactionJobs(Handler(c), Val)
        /\ CapIn(job.cap, Free(K, d)) /\ HandlerIn(job.handler, Free(K, d))
    BY <1>1, <1>4, <2>1, <2>2, <2>4, <2>5, ForeignJob DEF Tending
  <2>7. job.how \in How /\ job.arg \in Val /\ job.handler \in Handler(c)
    BY <2>6 DEF ReactionJobs
  <2>8. CASE PassOn
    <3>1. e = Finish(d, job.cap, job.how, job.arg)
      BY <1>1, <2>2, <2>3, <2>8 DEF PassOn
    <3>2. Tending(K, d, e, c)
      <4>1. PICK cap : cap = job.cap
        OBVIOUS
      <4>2. PICK how \in How : how = job.how
        BY <2>7
      <4>3. PICK v \in Val : v = job.arg
        BY <2>7
      <4> QED
        BY <2>6, <3>1, <4>1, <4>2, <4>3, FinishTends
    <3> QED
      BY <2>1, <2>3, <2>4, <2>5, <2>6, <3>2, TendingTransitive, PromiseTends
  <2>9. CASE RunThunk
    <3>1. e = Finish(d, job.cap, job.handler.how, job.handler.arg) /\ job.handler.fn = "thunk"
      BY <1>1, <2>2, <2>3, <2>9 DEF RunThunk, Reacts
    <3>2. job.handler \in [fn : {"thunk"}, how : How, arg : Val]
      BY <2>7, <3>1 DEF Handler, Undefined, Resume, Continued, Returned
    <3>3. Tending(K, d, e, c)
      <4>1. PICK cap : cap = job.cap
        OBVIOUS
      <4>2. PICK how \in How : how = job.handler.how
        BY <3>2
      <4>3. PICK v \in Val : v = job.handler.arg
        BY <3>2
      <4> QED
        BY <2>6, <3>1, <4>1, <4>2, <4>3, FinishTends
    <3> QED
      BY <2>1, <2>3, <2>4, <2>5, <2>6, <3>3, TendingTransitive, PromiseTends
  <2>10. CASE RunSettler
    <3>1. e = ResolvingCall(d, job.handler.pair, job.handler.how, job.arg) /\ job.handler.fn = "settle"
      BY <1>1, <2>2, <2>3, <2>10 DEF RunSettler, Reacts
    <3>2. job.handler \in [fn : {"settle"}, pair : Pair, how : How]
      BY <2>7, <3>1 DEF Handler, Undefined, Resume, Continued, Returned
    <3>3. Tending(K, d, e, c)
      <4>1. PICK pair \in Free(K, d) : pair = job.handler.pair
        BY <2>6, <3>1 DEF HandlerIn
      <4>2. PICK how \in How : how = job.handler.how
        BY <3>2
      <4>3. PICK v \in Val : v = job.arg
        BY <2>7
      <4> QED
        BY <2>6, <3>1, <4>1, <4>2, <4>3, CallTends
    <3> QED
      BY <2>1, <2>3, <2>4, <2>5, <2>6, <3>3, TendingTransitive, PromiseTends
  <2> QED
    BY <1>4, <2>8, <2>9, <2>10
<1>5. ASSUME PassOn \/ RunSettler \/ RunThunk, ~JobIn(job, Pair \ Kept) PROVE Reacting'
  <2>1. JobRuns("reaction") /\ eng.jobs # <<>> /\ job.kind = "reaction"
    BY <1>1, <1>5 DEF PassOn, RunSettler, RunThunk, Reacts, JobRuns
  <2>2. PICK y \in Kept : \E k : \E o \in Promise : \E r :
          Touches(job, y, k, o, r) /\ Settled(eng, o) /\ job = JobOf(eng, r, o)
    <3>1. TouchesOne(job)
      BY <1>1, <1>5, <2>1, JobTouches
    <3> QED
      BY <3>1 DEF TouchesOne
  <2>3. PICK k : \E o \in Promise : \E r : Touches(job, y, k, o, r) /\ Settled(eng, o) /\ job = JobOf(eng, r, o)
    BY <2>2
  <2>4. PICK o \in Promise : \E r : Touches(job, y, k, o, r) /\ Settled(eng, o) /\ job = JobOf(eng, r, o)
    BY <2>3
  <2>5. PICK r : Touches(job, y, k, o, r) /\ Settled(eng, o) /\ job = JobOf(eng, r, o)
    BY <2>4
  <2>6. \/ /\ job.handler.fn \in {"undefined", "callback", "finally"}
           /\ k \in DOMAIN log.registered /\ o = log.registered[k].on /\ r = Reaction(log.registered[k], k)
        \/ /\ job.handler.fn = "thunk"
           /\ k \in DOMAIN log.registered /\ Quiet(k) /\ r = Restoration(Restorer(k), log.registered[k].on)
        \/ /\ job.handler.fn = "settle"
           /\ k \in Promise /\ Follower(eng, k) /\ y = Last(eng, k) /\ o = eng.follows[k] /\ r = Adoption(y)
    <3>1. TouchedBy(job, y, k, o, r)
      BY <2>1, <2>5, TouchedKnown
    <3> QED
      BY <3>1 DEF TouchedBy
  <2>7. CASE PassOn
    <3>1. job.handler.fn = "undefined"
      BY <1>1, <2>7 DEF PassOn, Reacts
    <3>2. k \in DOMAIN log.registered /\ o = log.registered[k].on /\ r = Reaction(log.registered[k], k)
      BY <2>6, <3>1
    <3>3. PICK g : g = log.registered[k]
      OBVIOUS
    <3>4. Settled(eng, g.on) /\ job = JobOf(eng, Reaction(g, k), g.on)
      BY <2>5, <3>2, <3>3
    <3> QED
      BY <1>1, <2>7, <3>2, <3>3, <3>4, PassOnReacts
  <2>8. CASE RunThunk
    <3>1. job.handler.fn = "thunk"
      BY <1>1, <2>8 DEF RunThunk, Reacts
    <3>2. k \in DOMAIN log.registered /\ Quiet(k) /\ job = JobOf(eng, Restoration(Restorer(k), log.registered[k].on), o)
      BY <2>5, <2>6, <3>1
    <3> QED
      BY <1>1, <2>5, <2>8, <3>2, RestoreReacts
  <2>9. CASE RunSettler
    <3>1. job.handler.fn = "settle"
      BY <1>1, <2>9 DEF RunSettler, Reacts
    <3>2. /\ k \in Promise /\ Follower(eng, k) /\ y = Last(eng, k)
          /\ Settled(eng, eng.follows[k]) /\ job = JobOf(eng, Adoption(y), eng.follows[k])
      BY <2>5, <2>6, <3>1
    <3> QED
      BY <1>1, <2>9, <3>2, FollowReacts
  <2> QED
    BY <1>5, <2>7, <2>8, <2>9
<1> QED
  BY <1>2, <1>3, <1>4, <1>5 DEF RunJob

-----------------------------------------------------------------------------
(* The combinators.                                                        *)

\* A step of native code that calls back none of these reactions.
Internal == {"combine", "hook", "async", "resumeNext", "generator"}
Passing(F) ==
  /\ held' \subseteq held \cup Promise
  /\ \A f \in InProgress(stack') : f \in InProgress(stack) \/ f.kind \in Internal
  /\ \A f \in InProgress(stack) : f \in InProgress(stack') \/ f.kind \in Internal
  /\ \A a \in Activation : act'[a].cap = act[a].cap \/ act'[a].cap \in F
  /\ \A i \in DOMAIN gen'.queue :
       (\E j \in DOMAIN gen.queue : gen'.queue[i].pair = gen.queue[j].pair) \/ gen'.queue[i].pair \in F
  /\ comb' # NoCombinator => (comb # NoCombinator /\ comb'.cap = comb.cap) \/ comb'.cap \in F
LEMMA NativeReacts ==
  ASSUME Base, Base', Grows(eng, eng'), Reacting, log' = log, Tending(Pledged, eng, eng', comb),
         Passing(Free(Pledged, eng'))
  PROVE  Reacting'
<1>1. Tidy(eng, eng', Pledged, Made(eng) \ Pledged)
  BY DEF Tending
<1>2. PICK F : F = Free(Pledged, eng')
  OBVIOUS
<1>3. \A f : f.kind \in Internal => FrameIn(f, F) /\ f.kind \notin {"callback", "finally"}
  BY DEF Internal, FrameIn
<1>4. Refers(F)
  BY <1>2, <1>3 DEF Passing, Refers
<1>5. \A f \in InProgress(stack) : f \in InProgress(stack') \/ f.kind \notin {"callback", "finally"}
  BY <1>3 DEF Passing
<1> QED
  BY <1>1, <1>2, <1>4, <1>5, ForeignStep

\* Frames that such a step takes off the stack.
LEMMA FramesPass ==
  ASSUME Base
  PROVE  /\ \A f : f.kind \in Internal /\ stack' = <<f>> \o stack => InProgress(stack') = InProgress(stack) \cup {f}
         /\ \A kind \in Internal : Top(kind) =>
              InProgress(stack) = InProgress(Tail(stack)) \cup {Head(stack)} /\ Head(stack).kind \in Internal
         /\ Top("hook") => /\ stack # <<>> /\ Tail(stack) # <<>> /\ Head(Tail(stack)).kind \in Internal
                           /\ InProgress(Tail(stack)) = InProgress(Tail(Tail(stack))) \cup {Head(Tail(stack))}
                           /\ SubSeq(stack, 2 + 1, Len(stack)) = Tail(Tail(stack))
         /\ Top("combine") => SubSeq(stack, 1 + 1, Len(stack)) = Tail(stack)
<1>1. stack \in Seq(Frame(comb)) /\ Stacked(stack)
  BY Known DEF Base
<1>2. \A f : InProgress(<<f>> \o stack) = InProgress(stack) \cup {f}
  BY <1>1, Pushed
<1>3. stack # <<>> => /\ Tail(stack) \in Seq(Frame(comb)) /\ InProgress(stack) = InProgress(Tail(stack)) \cup {Head(stack)}
                      /\ Head(stack).kind = "hook" => Tail(stack) # <<>> /\ Head(Tail(stack)).kind = "combine"
  BY <1>1, Drop
<1>4. Tail(stack) # <<>> /\ stack # <<>> => InProgress(Tail(stack)) = InProgress(Tail(Tail(stack))) \cup {Head(Tail(stack))}
  BY <1>3, Drop
<1>5. stack # <<>> => /\ SubSeq(stack, 1 + 1, Len(stack)) = Tail(stack)
                      /\ Tail(stack) # <<>> => SubSeq(stack, 2 + 1, Len(stack)) = Tail(Tail(stack))
  BY <1>1, Rest
<1>6. Top("hook") => /\ stack # <<>> /\ Tail(stack) # <<>> /\ Head(Tail(stack)).kind = "combine"
  BY <1>3 DEF Top
<1> QED
  BY <1>2, <1>3, <1>4, <1>5, <1>6 DEF Top, Internal

\* A step of the combinator.
Unstacked ==
  \/ stack' = stack
  \/ \E f : f.kind \in Internal /\ stack' = <<f>> \o stack
  \/ \E kind \in Internal : Top(kind) /\ stack' = Tail(stack)
  \/ Top("hook") /\ stack' = Tail(Tail(stack))
LEMMA UnstackedPasses ==
  ASSUME Base, Unstacked
  PROVE  /\ \A f \in InProgress(stack') : f \in InProgress(stack) \/ f.kind \in Internal
         /\ \A f \in InProgress(stack) : f \in InProgress(stack') \/ f.kind \in Internal
<1>1. CASE stack' = stack
  BY <1>1
<1>2. ASSUME NEW f, f.kind \in Internal, stack' = <<f>> \o stack
      PROVE  \A g : (g \in InProgress(stack') => g \in InProgress(stack) \/ g.kind \in Internal)
                    /\ (g \in InProgress(stack) => g \in InProgress(stack'))
  <2>1. InProgress(stack') = InProgress(stack) \cup {f}
    BY <1>2, FramesPass
  <2> QED
    BY <1>2, <2>1
<1>3. CASE \E kind \in Internal : Top(kind) /\ stack' = Tail(stack)
  BY <1>3, FramesPass
<1>4. CASE Top("hook") /\ stack' = Tail(Tail(stack))
  <2>1. InProgress(stack) = InProgress(stack') \cup {Head(stack), Head(Tail(stack))}
        /\ Head(stack).kind \in Internal /\ Head(Tail(stack)).kind \in Internal
    BY <1>4, FramesPass DEF Internal
  <2> QED
    BY <2>1
<1> QED
  BY <1>1, <1>2, <1>3, <1>4 DEF Unstacked

LEMMA CombinatorReacts ==
  ASSUME Base, Base', Grows(eng, eng'), Reacting, UNCHANGED <<cvars, log>>, comb # NoCombinator, comb'.cap = comb.cap,
         Tending(Pledged, eng, eng', comb), held' \subseteq held \cup Promise, Unstacked
  PROVE  Reacting'
<1>1. Passing(Free(Pledged, eng'))
  BY UnstackedPasses DEF Passing, cvars
<1> QED
  BY <1>1, NativeReacts

\* The end of an item.
LEMMA CompleteTends ==
  ASSUME NEW K, NEW e, Tended(K, e, comb), NEW c \in Combinator, c.cap \in Free(K, e), NEW d, d = CompleteIfZero(e, c)
  PROVE  Tending(K, e, d, comb)
<1>1. Error \in Val /\ Array \in Val /\ "rejected" \in How /\ "fulfilled" \in How
  BY DEF Val, Value, How
<1>2. PICK x : x = c.cap
  OBVIOUS
<1>3. d = e \/ d = ResolvingCall(e, x, "rejected", Error) \/ d = ResolvingCall(e, x, "fulfilled", Array)
  BY <1>2 DEF CompleteIfZero, Complete
<1>4. Tending(K, e, e, comb)
  BY TendedKnown
<1>5. CASE d = ResolvingCall(e, x, "rejected", Error)
  BY <1>1, <1>2, <1>5, CallTends
<1>6. CASE d = ResolvingCall(e, x, "fulfilled", Array)
  BY <1>1, <1>2, <1>6, CallTends
<1> QED
  BY <1>3, <1>4, <1>5, <1>6

LEMMA CallElementTends ==
  ASSUME comb \in Combinator, NEW K, NEW e, Tended(K, e, comb), comb.cap \in Free(K, e),
         NEW i \in Nat, NEW how \in How, NEW v \in Val, CallElement(e, i, how, v)
  PROVE  Tending(K, e, eng', comb) /\ comb'.cap = comb.cap
<1>1. comb' \in Combinator /\ comb'.cap = comb.cap
  BY CallElementMoves DEF Tended, Free
<1>2. CASE CalledKey(i, how) \in comb.called
  BY <1>1, <1>2, TendedKnown DEF CallElement
<1>3. CASE CalledKey(i, how) \notin comb.called
  <2>1. eng' = CompleteIfZero(e, comb')
    BY <1>3 DEF CallElement
  <2> QED
    BY <1>1, <2>1, CompleteTends
<1> QED
  BY <1>2, <1>3

\* A combinator is called.
LEMMA CombineReacts ==
  ASSUME Base, Base', Grows(eng, eng'), Reacting, UNCHANGED cvars,
         NEW kind \in CombinatorKinds, NEW n \in 0 .. MaxItems, NEW items \in [1 .. n -> CombinatorItems], Combine(kind, items)
  PROVE  Reacting'
<1>1. PICK f : f = [kind |-> "combine"]
  OBVIOUS
<1>2. PICK d : d = Create(eng)
  OBVIOUS
<1>3. PICK K : K = Pledged
  OBVIOUS
<1>4. /\ comb = NoCombinator /\ Fresh(eng) # {} /\ eng' = d /\ held' = held /\ log' = log
      /\ comb'.cap = Cap(New(eng)) /\ stack' = <<f>> \o stack /\ f.kind \in Internal
  BY <1>1, <1>2 DEF Combine, Internal
<1>5. Tended(K, eng, comb)
  BY <1>3, ReactsKnown
<1>6. Tending(K, eng, d, comb) /\ comb'.cap \in Free(K, d)
  BY <1>2, <1>4, <1>5, CreateTends
<1>7. Unstacked
  BY <1>4 DEF Unstacked
<1>8. Passing(Free(Pledged, eng'))
  BY <1>3, <1>4, <1>6, <1>7, UnstackedPasses DEF Passing, cvars
<1> QED
  BY <1>3, <1>4, <1>6, <1>8, NativeReacts

\* The loop over the items.
LEMMA NextItemReacts ==
  ASSUME Base, Base', Grows(eng, eng'), Reacting, UNCHANGED cvars, NextItem
  PROVE  Reacting'
<1>1. PICK K : K = Pledged
  OBVIOUS
<1>2. PICK i : i = comb.index + 1
  OBVIOUS
<1>3. PICK item : item = comb.items[i]
  OBVIOUS
<1>4. /\ Tended(K, eng, comb) /\ comb # NoCombinator /\ comb \in Combinator /\ comb.cap \in Free(K, eng)
      /\ stack \in Seq(Frame(comb))
  BY <1>1, ReactsKnown, FreeKnown, Known, CombinatorKnown DEF NextItem
<1> DEFINE c == [(IF comb.kind = "race" THEN comb ELSE AddRemaining(comb, 1)) EXCEPT !.index = i]
<1>5. comb'.cap = comb.cap /\ held' = held /\ log' = log
  <2>1. AddRemaining(comb, 1) \in Combinator /\ AddRemaining(comb, 1).cap = comb.cap
    BY <1>4, AddRemainingTyped
  <2>2. c.cap = comb.cap /\ [c EXCEPT !.hooked = @ \cup {i}].cap = comb.cap
    BY <1>4, <2>1 DEF Combinator
  <2>3. comb' = c \/ comb' = [c EXCEPT !.hooked = @ \cup {i}]
    BY <1>2, <1>3 DEF NextItem
  <2> QED
    BY <2>2, <2>3 DEF NextItem
<1> HIDE DEF c
<1>6. CASE item = Hook
  <2>1. PICK f : f = [kind |-> "hook"]
    OBVIOUS
  <2>2. stack' = <<f>> \o stack /\ eng' = eng /\ f.kind \in Internal
    BY <1>2, <1>3, <1>6, <2>1 DEF NextItem, Internal
  <2>3. Tending(K, eng, eng', comb) /\ Unstacked
    BY <1>4, <2>2, TendedKnown DEF Unstacked
  <2> QED
    BY <1>1, <1>4, <1>5, <2>3, CombinatorReacts
<1>7. CASE item # Hook
  <2>1. PICK on : on = Handlers(i)
    OBVIOUS
  <2>2. PICK d : d = Wrap(eng, item)
    OBVIOUS
  <2>3. PICK p : p = Wrapped(eng, item)
    OBVIOUS
  <2>4. eng' = Then(d, p, on, None) /\ stack' = stack /\ (item \notin Promise => Fresh(eng) # {})
    BY <1>2, <1>3, <1>7, <2>1, <2>2, <2>3 DEF NextItem
  <2>5. i \in Nat /\ item \in Val
    <3>1. i \in 1 .. Len(comb.items) /\ comb.items \in Seq(Value \cup {Hook})
      BY <1>2, <1>4 DEF Combinator, NextItem
    <3> QED
      BY <1>3, <1>7, <3>1 DEF Val
  <2>6. Tending(K, eng, d, comb) /\ p \in Promise
    BY <1>4, <2>2, <2>3, <2>4, <2>5, WrapTends
  <2>7. \A how \in How : Element(i, how) \in Handler(comb) /\ Element(i, how).fn = "element"
    BY <1>4, <2>5 DEF Element, Handler
  <2>8. \A how \in How : Settler(comb.cap, how) \in Handler(comb) /\ Settler(comb.cap, how).pair = comb.cap
                         /\ Settler(comb.cap, how).fn = "settle"
    BY <1>4 DEF Settler, Handler, Free, Made
  <2>9. on \in [How -> Handler(comb)] /\ \A how \in How : on[how].fn \in {"settle", "element"}
    BY <2>1, <2>7, <2>8 DEF Handlers
  <2>10. \A how \in How : on[how].fn = "settle" => on[how].pair = comb.cap
    BY <2>1, <2>7, <2>8 DEF Handlers
  <2>11. comb.cap \in Free(K, d)
    BY <1>4, <2>6, FreeStays
  <2>12. None \in Capability /\ ReactionIn([on |-> on, cap |-> None], Free(K, d)) /\ \A how \in How : ~IsCallback(on[how])
    BY <2>9, <2>10, <2>11 DEF Capability, ReactionIn, CapIn, HandlerIn, IsCallback
  <2>13. PICK b : b = Then(d, p, on, None)
    OBVIOUS
  <2>14. Tended(K, d, comb)
    BY <2>6 DEF Tending
  <2>15. Tending(K, d, b, comb)
    BY ONLY <2>6, <2>9, <2>12, <2>13, <2>14, ThenTends
  <2>16. Tending(K, eng, b, comb) /\ b = eng'
    BY <2>4, <2>6, <2>13, <2>15, TendingTransitive
  <2>17. Unstacked
    BY <2>4 DEF Unstacked
  <2> QED
    BY <1>1, <1>4, <1>5, <2>16, <2>17, CombinatorReacts
<1> QED
  BY <1>2, <1>3, <1>6, <1>7

\* The other steps.
LEMMA CombinatorNextReacts ==
  ASSUME Base, Base', Grows(eng, eng'), Reacting, CombinatorNext, UNCHANGED cvars
  PROVE  Reacting'
<1>1. PICK K : K = Pledged
  OBVIOUS
<1>2. Tended(K, eng, comb) /\ HeldValue \subseteq Val /\ Tending(K, eng, eng, comb)
  BY <1>1, ReactsKnown, Known, TendedKnown
<1>3. comb # NoCombinator => comb \in Combinator /\ comb.cap \in Free(K, eng) /\ comb.cap.of \in Promise
  BY <1>1, FreeKnown, CombinatorKnown DEF Made, Pair
<1>4. \A kind \in {"combine", "hook"} : Top(kind) => comb # NoCombinator
  BY CombinatorKnown
<1>5. ASSUME comb # NoCombinator, (Top("combine") /\ Leave(1)) \/ (Top("hook") /\ Leave(2))
      PROVE  Unstacked /\ held' \subseteq held \cup Promise
  BY <1>3, <1>5, FramesPass DEF Leave, Unstacked, Internal
<1>6. CASE EndOfItems
  <2>1. PICK c : c = AddRemaining(comb, -1)
    OBVIOUS
  <2>2. comb # NoCombinator /\ Top("combine") /\ Leave(1) /\ log' = log
    BY <1>4, <1>6 DEF EndOfItems
  <2>3. c \in Combinator /\ c.cap = comb.cap
    BY <1>3, <2>1, <2>2, AddRemainingTyped
  <2>4. comb'.cap = comb.cap /\ Tending(K, eng, eng', comb)
    <3>1. CASE comb.kind = "race"
      BY <1>2, <1>6, <3>1 DEF EndOfItems
    <3>2. CASE comb.kind # "race"
      <4>1. comb' = c /\ eng' = CompleteIfZero(eng, c)
        BY <1>6, <2>1, <3>2 DEF EndOfItems
      <4> QED
        BY <1>2, <1>3, <2>2, <2>3, <4>1, CompleteTends
    <3> QED
      BY <3>1, <3>2
  <2> QED
    BY <1>1, <1>5, <2>2, <2>4, CombinatorReacts
<1>7. ASSUME comb # NoCombinator, (Top("combine") /\ Fail(1)) \/ (Top("hook") /\ Fail(2)) PROVE Reacting'
  <2>1. "rejected" \in How /\ Error \in Val
    BY DEF How, Val, Value
  <2>2. PICK x : x = comb.cap
    OBVIOUS
  <2>3. eng' = ResolvingCall(eng, x, "rejected", Error) /\ log' = log
    BY <1>7, <2>2 DEF Fail
  <2>4. Tending(K, eng, eng', comb)
    BY <1>2, <1>3, <1>7, <2>1, <2>2, <2>3, CallTends
  <2>5. comb'.cap = comb.cap /\ Unstacked /\ held' \subseteq held \cup Promise
    BY <1>3, <1>5, <1>7 DEF Fail, Combinator
  <2> QED
    BY <1>1, <1>7, <2>3, <2>4, <2>5, CombinatorReacts
<1>8. CASE IteratorThrows \/ HookThrows
  BY <1>4, <1>7, <1>8 DEF IteratorThrows, HookThrows
<1>9. CASE HookReturns
  <2>1. comb # NoCombinator /\ Top("hook") /\ stack' = Tail(stack) /\ UNCHANGED <<held, eng, comb, log>>
    BY <1>4, <1>9 DEF HookReturns, Pop
  <2>2. Unstacked
    BY <2>1 DEF Unstacked, Internal
  <2> QED
    BY <1>1, <1>2, <2>1, <2>2, CombinatorReacts
<1>10. ASSUME comb # NoCombinator, NEW i \in comb.hooked, NEW how \in How, NEW v \in HeldValue, CallHooked(i, how, v)
       PROVE  Reacting'
  <2>1. i \in Nat /\ v \in Val /\ stack' = stack /\ held' = held /\ log' = log
    BY <1>2, <1>3, <1>10 DEF Combinator, CallHooked
  <2>2. Tending(K, eng, eng', comb) /\ comb'.cap = comb.cap
    <3>1. CASE how \in ElementSides(comb.kind)
      <4>1. CallElement(eng, i, how, v)
        BY <1>10, <3>1 DEF CallHooked
      <4> QED
        BY <1>2, <1>3, <1>10, <2>1, <4>1, CallElementTends
    <3>2. CASE how \notin ElementSides(comb.kind)
      <4>1. PICK x : x = comb.cap
        OBVIOUS
      <4>2. eng' = ResolvingCall(eng, x, how, v) /\ comb' = comb
        BY <1>10, <3>2, <4>1 DEF CallHooked
      <4> QED
        BY <1>2, <1>3, <1>10, <2>1, <4>1, <4>2, CallTends
    <3> QED
      BY <3>1, <3>2
  <2>3. Unstacked
    BY <2>1 DEF Unstacked
  <2> QED
    BY <1>1, <1>10, <2>1, <2>2, <2>3, CombinatorReacts
<1>11. CASE RunElement
  <2>1. JobRuns("reaction") /\ Job.handler.fn = "element" /\ CallElement(Popped, Job.handler.item, Job.how, Job.arg)
        /\ UNCHANGED <<stack, held, log>>
    BY <1>11 DEF RunElement, Reacts
  <2>2. JobIn(Job, Pair \ Kept)
    BY <2>1, NativeJob
  <2>3. Tending(K, eng, Popped, comb) /\ Job \in ReactionJobs(Handler(comb), Val)
    BY <1>1, <2>1, <2>2, ForeignJob
  <2>4. PICK d : d = Popped
    OBVIOUS
  <2>5. PICK h \in Handler(comb), how \in How, arg \in Val : h = Job.handler /\ how = Job.how /\ arg = Job.arg
    BY <2>3 DEF ReactionJobs
  <2>6. comb # NoCombinator /\ h.item \in Nat
    BY <2>1, <2>5 DEF Handler, Undefined, Resume, Continued, Returned
  <2>7. PICK i \in Nat : i = h.item
    BY <2>6
  <2>8. Tended(K, d, comb) /\ comb.cap \in Free(K, d) /\ CallElement(d, i, how, arg)
    BY <1>3, <2>1, <2>3, <2>4, <2>5, <2>6, <2>7, FreeStays DEF Tending
  <2>9. Tending(K, d, eng', comb) /\ comb'.cap = comb.cap
    BY <1>3, <2>6, <2>8, CallElementTends
  <2>10. Tending(K, eng, eng', comb) /\ Unstacked
    BY <2>1, <2>3, <2>4, <2>9, TendingTransitive DEF Unstacked
  <2> QED
    BY <1>1, <2>1, <2>6, <2>9, <2>10, CombinatorReacts
<1> QED
  BY <1>6, <1>8, <1>9, <1>10, <1>11, CombineReacts, NextItemReacts DEF CombinatorNext

-----------------------------------------------------------------------------
(* Async functions and the generator.                                      *)

\* A step of suspended code that makes no functions.
Reframed ==
  \/ Unstacked
  \/ \A f : (f \in InProgress(stack') => f \in InProgress(stack))
            /\ (f \in InProgress(stack) => f \in InProgress(stack') \/ f.kind \in Internal)
LEMMA CoroutineReacts ==
  ASSUME Base, Base', Grows(eng, eng'), Reacting, UNCHANGED <<comb, log>>,
         Tending(Pledged, eng, eng', comb), held' \subseteq held \cup Promise, Reframed,
         \A a \in Activation : act'[a].cap = act[a].cap,
         \A i \in DOMAIN gen'.queue : \E j \in DOMAIN gen.queue : gen'.queue[i].pair = gen.queue[j].pair
  PROVE  Reacting'
<1>1. /\ \A f \in InProgress(stack') : f \in InProgress(stack) \/ f.kind \in Internal
      /\ \A f \in InProgress(stack) : f \in InProgress(stack') \/ f.kind \in Internal
  BY UnstackedPasses DEF Reframed
<1>2. Passing(Free(Pledged, eng'))
  BY <1>1 DEF Passing
<1> QED
  BY <1>2, NativeReacts

LEMMA AsyncReacts ==
  ASSUME Base, Base', Grows(eng, eng'), Reacting, UNCHANGED comb,
         AwaitFails \/ RunResume \/ (\E a \in Activation : CallAsync(a))
         \/ \E v \in HeldValue : Await(v) \/ \E how \in How : BodyEnds(how, v)
  PROVE  Reacting'
<1>1. PICK K : K = Pledged
  OBVIOUS
<1>2. /\ Tended(K, eng, comb) /\ HeldValue \subseteq Val /\ act \in [Activation -> ActivationData]
      /\ stack \in Seq(Frame(comb))
  BY <1>1, ReactsKnown, Known DEF Base, TypeOK
<1>3. \A a \in Activation : CapIn(act[a].cap, Free(K, eng))
  BY <1>1, FreeKnown
<1>4. ASSUME NEW a \in Activation, CallAsync(a) PROVE Reacting'
  <2>1. PICK new : new = Cap(New(eng))
    OBVIOUS
  <2>2. PICK f : f = Body(a, None)
    OBVIOUS
  <2>3. PICK d : d = Create(eng)
    OBVIOUS
  <2>4. /\ Fresh(eng) # {} /\ eng' = d /\ held' = held /\ stack' = <<f>> \o stack /\ gen' = gen /\ log' = log
        /\ act' = [act EXCEPT ![a] = [state |-> "running", cap |-> new, on |-> None]] /\ f.kind \in Internal
    BY <1>4, <2>1, <2>2, <2>3 DEF CallAsync, Body, Internal
  <2>5. Tending(K, eng, d, comb) /\ new \in Free(K, d)
    BY <1>2, <2>1, <2>3, <2>4, CreateTends
  <2>6. \A b \in Activation : act'[b].cap = act[b].cap \/ act'[b].cap \in Free(K, d)
    BY <1>2, <2>4, <2>5
  <2>7. Unstacked
    BY <2>4 DEF Unstacked
  <2>8. Passing(Free(Pledged, eng'))
    BY <1>1, <2>4, <2>6, <2>7, UnstackedPasses DEF Passing
  <2> QED
    BY <1>1, <2>4, <2>5, <2>8, NativeReacts
<1>5. ASSUME NEW v \in HeldValue, Await(v) PROVE Reacting'
  <2>1. PICK a : a = Me
    OBVIOUS
  <2>2. PICK h : h = Resume(a)
    OBVIOUS
  <2>3. PICK d : d = AwaitOn(eng, v, [how \in How |-> h])
    OBVIOUS
  <2>4. /\ Top("async") /\ a = Head(stack).of /\ gen' = gen /\ log' = log
        /\ stack' = Tail(stack) /\ held' = held \cup {act[a].cap.of}
        /\ act' = [act EXCEPT ![a].state = "awaiting", ![a].on = Wrapped(eng, v)]
        /\ eng' = d /\ (v \notin Promise => Fresh(eng) # {})
    BY <1>5, <2>1, <2>2, <2>3 DEF Await, Me, LeaveBody, Pop, Continue, Resume, CanAwait
  <2>5. a \in Activation /\ act[a].cap.of \in Promise
    BY <2>4, BodyKnown
  <2>6. h \in Control /\ h \in Handler(comb) /\ v \in Val
    BY <1>2, <2>2, <2>5 DEF Control, Handler
  <2>7. Tending(K, eng, d, comb)
    BY ONLY <1>2, <2>3, <2>4, <2>6, AwaitTends
  <2>8. \A b \in Activation : act'[b].cap = act[b].cap
    BY <1>2, <2>4, <2>5 DEF ActivationData
  <2>9. Reframed /\ held' \subseteq held \cup Promise
    BY <2>4, <2>5 DEF Reframed, Unstacked, Internal
  <2> QED
    BY <1>1, <2>4, <2>7, <2>8, <2>9, CoroutineReacts
<1>6. ASSUME AwaitFails \/ \E how \in How, v \in HeldValue : BodyEnds(how, v) PROVE Reacting'
  <2>1. PICK a : a = Me
    OBVIOUS
  <2>2. PICK x : x = act[a].cap
    BY SMTT(60)
  <2>3. /\ Top("async") /\ a = Head(stack).of /\ gen' = gen /\ log' = log
        /\ stack' = Tail(stack) /\ held' = held \cup {x.of} /\ act' = [act EXCEPT ![a].state = "done"]
    BY <1>6, <2>1, <2>2 DEF BodyEnds, AwaitFails, Me, LeaveBody, Pop
  <2>4. PICK how \in How, v \in Val : eng' = ResolvingCall(eng, x, how, v)
    BY <1>2, <1>6, <2>1, <2>2 DEF BodyEnds, AwaitFails, Val, Value, How
  <2>5. a \in Activation /\ x.of \in Promise /\ x \in Made(eng)
    BY <2>2, <2>3, BodyKnown
  <2>6. x \in Free(K, eng)
    BY <1>3, <2>2, <2>5, PromisesAssumption DEF CapIn, Made
  <2>7. Tending(K, eng, eng', comb)
    BY <1>2, <2>4, <2>6, CallTends
  <2>8. \A b \in Activation : act'[b].cap = act[b].cap
    BY <1>2, <2>3, <2>5 DEF ActivationData
  <2>9. Reframed /\ held' \subseteq held \cup Promise
    BY <2>3, <2>5 DEF Reframed, Unstacked, Internal
  <2> QED
    BY <1>1, <2>3, <2>7, <2>8, <2>9, CoroutineReacts
<1>7. CASE RunResume
  <2>1. PICK f : f = Body(Job.handler.of, <<Job.how, Job.arg>>)
    OBVIOUS
  <2>2. /\ JobRuns("reaction") /\ Job.handler.fn = "resume" /\ stack = <<>>
        /\ eng' = Popped /\ stack' = <<f>> \o stack /\ held' = held /\ gen' = gen /\ log' = log
        /\ act' = [act EXCEPT ![Job.handler.of].state = "running"] /\ f.kind \in Internal
    BY <1>7, <2>1 DEF RunResume, Reacts, JobRuns, Body, Internal
  <2>3. JobIn(Job, Pair \ Kept)
    BY <2>2, NativeJob
  <2>4. Tending(K, eng, eng', comb)
    BY <1>1, <2>2, <2>3, ForeignJob
  <2>5. \A b \in Activation : act'[b].cap = act[b].cap
    BY <1>2, <2>2 DEF ActivationData
  <2>6. Reframed
    BY <2>2 DEF Reframed, Unstacked
  <2> QED
    BY <1>1, <2>2, <2>4, <2>5, <2>6, CoroutineReacts
<1> QED
  BY <1>4, <1>5, <1>6, <1>7

\* The rounds of the generator's loop that answer nothing.
LEMMA RoundReacts ==
  ASSUME Base, Base', Grows(eng, eng'), Reacting, UNCHANGED comb,
         NoRequest \/ EnterBody \/ NeverStarted \/ RunContinue \/ \E v \in HeldValue : GeneratorAwaits(v)
  PROVE  Reacting'
<1>1. PICK K : K = Pledged
  OBVIOUS
<1>2. /\ Tended(K, eng, comb) /\ Tending(K, eng, eng, comb) /\ HeldValue \subseteq Val
      /\ gen \in GeneratorData /\ stack \in Seq(Frame(comb)) /\ Continued \in Control /\ Continued \in Handler(comb)
  BY <1>1, ReactsKnown, TendedKnown, Known, GeneratorKnown
<1>3. ASSUME UNCHANGED <<log, act>>, gen'.queue = gen.queue, Tending(K, eng, eng', comb),
             held' \subseteq held \cup Promise, Reframed
      PROVE  Reacting'
  BY <1>1, <1>3, CoroutineReacts
<1>4. CASE NoRequest
  <2>1. UNCHANGED <<eng, act, gen, log>> /\ Top("resumeNext") /\ LeaveLoop(1)
    BY <1>4 DEF NoRequest
  <2>2. stack' = Tail(stack) /\ held' \subseteq held \cup Promise
    BY <2>1, LoopKnown DEF LeaveLoop
  <2>3. Reframed
    BY <2>1, <2>2 DEF Reframed, Unstacked, Internal
  <2> QED
    BY <1>2, <1>3, <2>1, <2>2, <2>3
<1>5. CASE EnterBody
  <2>1. UNCHANGED <<eng, held, act, log>> /\ stack' = <<GeneratorBody>> \o stack /\ gen' = [gen EXCEPT !.state = "executing"]
    BY <1>5 DEF EnterBody
  <2>2. gen'.queue = gen.queue
    BY <1>2, <2>1 DEF GeneratorData
  <2>3. GeneratorBody.kind \in Internal
    BY DEF GeneratorBody, Internal
  <2>4. Reframed
    BY <2>1, <2>3 DEF Reframed, Unstacked
  <2> QED
    BY <1>2, <1>3, <2>1, <2>2, <2>4
<1>6. CASE NeverStarted
  <2>1. UNCHANGED <<eng, stack, held, act, log>> /\ gen' = [gen EXCEPT !.state = "completed"]
    BY <1>6 DEF NeverStarted
  <2>2. gen'.queue = gen.queue /\ Reframed
    BY <1>2, <2>1 DEF GeneratorData, Reframed, Unstacked
  <2> QED
    BY <1>2, <1>3, <2>1, <2>2
<1>7. CASE RunContinue
  <2>1. PICK f : f = ResumeNext(None)
    OBVIOUS
  <2>2. UNCHANGED <<held, act, gen, log>> /\ JobRuns("reaction") /\ Job.handler.fn = "continue" /\ eng' = Popped
        /\ (stack' = stack \/ stack' = <<f>> \o stack) /\ f.kind \in Internal
    BY <1>7, <2>1 DEF RunContinue, Reacts, JobRuns, ResumeNext, Internal
  <2>3. JobIn(Job, Pair \ Kept)
    BY <2>2, NativeJob
  <2>4. Tending(K, eng, eng', comb)
    BY <1>1, <2>2, <2>3, ForeignJob
  <2>5. Reframed
    BY <2>2 DEF Reframed, Unstacked
  <2> QED
    BY <1>3, <2>2, <2>4, <2>5
<1>8. ASSUME NEW v \in HeldValue, GeneratorAwaits(v) PROVE Reacting'
  <2>1. PICK d : d = AwaitOn(eng, v, [how \in How |-> Continued])
    OBVIOUS
  <2>2. PICK t : t = Tail(stack)
    OBVIOUS
  <2>3. /\ UNCHANGED <<act, gen, log>> /\ Top("generator") /\ LeaveLoop(2) /\ (v \notin Promise => Fresh(eng) # {})
        /\ eng' = d /\ v \in Val
    BY <1>2, <1>8, <2>1 DEF GeneratorAwaits, CanAwait, Continue, Continued
  <2>4. Tending(K, eng, d, comb)
    BY ONLY <1>2, <2>1, <2>3, AwaitTends
  <2>5. /\ InProgress(stack) = InProgress(t) \cup {Head(stack)} /\ InProgress(t) = InProgress(Tail(t)) \cup {Head(t)}
        /\ Head(t).kind = "resumeNext" /\ Head(stack).kind = "generator" /\ stack' = Tail(t)
        /\ held' \subseteq held \cup Promise
    BY <2>2, <2>3, BodyTop DEF LeaveLoop
  <2>6. Reframed
    BY <2>5 DEF Reframed, Internal
  <2> QED
    BY <1>3, <2>3, <2>4, <2>5, <2>6
<1> QED
  BY <1>4, <1>5, <1>6, <1>7, <1>8

\* Requests.
LEMMA CallGeneratorReacts ==
  ASSUME Base, Base', Grows(eng, eng'), Reacting, UNCHANGED comb,
         NEW type \in {"next", "return", "throw"}, NEW v \in HeldValue, CallGenerator(type, v)
  PROVE  Reacting'
<1>1. PICK K : K = Pledged
  OBVIOUS
<1>2. PICK x : x = Cap(New(eng))
  OBVIOUS
<1>3. PICK f : f = ResumeNext(New(eng))
  OBVIOUS
<1>4. PICK d : d = Create(eng)
  OBVIOUS
<1>5. PICK r : r = [type |-> type, value |-> v, pair |-> x]
  OBVIOUS
<1>6. Tended(K, eng, comb) /\ gen \in GeneratorData
  BY <1>1, ReactsKnown, GeneratorKnown
<1>7. /\ Fresh(eng) # {} /\ eng' = d /\ act' = act /\ log' = log /\ gen'.queue = Append(gen.queue, r) /\ f.kind \in Internal
      /\ held' \subseteq held \cup {New(eng)} /\ (stack' = stack \/ stack' = <<f>> \o stack)
  BY <1>2, <1>3, <1>4, <1>5, <1>6 DEF CallGenerator, ResumeNext, GeneratorData, Internal
<1>8. Tending(K, eng, d, comb) /\ x \in Free(K, d) /\ New(eng) \in Promise
  BY <1>2, <1>4, <1>6, <1>7, CreateTends
<1>9. \A i \in DOMAIN gen'.queue : (i \in DOMAIN gen.queue /\ gen'.queue[i] = gen.queue[i]) \/ gen'.queue[i] = r
  <2> DEFINE q == gen.queue
             s == gen'.queue
             Request == [type : {"next", "return", "throw"}, value : Value, pair : Pair]
  <2>1. q \in Seq(Request) /\ s = Append(q, r)
    BY <1>6, <1>7 DEF GeneratorData
  <2> HIDE DEF q, s, Request
  <2>2. \A i \in DOMAIN s : (i \in DOMAIN q /\ s[i] = q[i]) \/ s[i] = r
    BY <2>1
  <2> QED
    BY <2>2 DEF q, s
<1>10. Unstacked /\ r.pair = x
  BY <1>5, <1>7 DEF Unstacked
<1>11. Passing(Free(Pledged, eng'))
  BY <1>1, <1>7, <1>8, <1>9, <1>10, UnstackedPasses DEF Passing
<1> QED
  BY <1>1, <1>7, <1>8, <1>11, NativeReacts

LEMMA AnsweringReacts ==
  ASSUME Base, Base', Grows(eng, eng'), Reacting, Owning, UNCHANGED <<comb, log>>, Answering, Reframed,
         JobRuns("reaction") => JobIn(Job, Pair \ Kept)
  PROVE  Reacting'
<1>1. PICK e : \E how \in How, u \in Val, state \in {"suspendedYield", "completed"}, v \in Val :
                 AnswerStep(e, how, u, state, v)
  BY DEF Answering
<1>2. PICK how \in How, u \in Val, state \in {"suspendedYield", "completed"}, v \in Val :
        AnswerStep(e, how, u, state, v)
  BY <1>1
<1>3. PICK x : x = Head1.pair
  OBVIOUS
<1>4. PICK K : K = Pledged
  OBVIOUS
<1>5. /\ gen.queue # <<>> /\ eng' = ResolvingCall(e, x, how, u) /\ gen'.queue = Tail(gen.queue) /\ act' = act
      /\ (e = eng \/ (JobRuns("reaction") /\ e = Popped)) /\ held' \subseteq held \cup Promise
  BY <1>2, <1>3, GeneratorKnown DEF AnswerStep, Answer, Answered, GeneratorData
<1>6. /\ 1 \in DOMAIN gen.queue /\ gen.queue[1].pair = x
      /\ \A i \in DOMAIN gen'.queue : i + 1 \in DOMAIN gen.queue /\ gen'.queue[i] = gen.queue[i + 1]
  BY <1>3, <1>5, FirstOwned
<1>7. x \in Free(K, eng)
  BY <1>4, <1>6, FreeKnown
<1>8. Tended(K, eng, comb) /\ Tending(K, eng, eng, comb)
  BY <1>4, ReactsKnown, TendedKnown
<1>9. Tending(K, eng, e, comb)
  BY <1>4, <1>5, <1>8, ForeignJob
<1>10. Tended(K, e, comb) /\ x \in Free(K, e)
  BY <1>7, <1>9, FreeStays DEF Tending
<1>11. Tending(K, e, eng', comb)
  BY <1>5, <1>10, CallTends
<1>12. Tending(K, eng, eng', comb)
  BY <1>9, <1>11, TendingTransitive
<1>13. \A i \in DOMAIN gen'.queue : \E j \in DOMAIN gen.queue : gen'.queue[i].pair = gen.queue[j].pair
  BY <1>6
<1>14. \A a \in Activation : act'[a].cap = act[a].cap
  BY <1>5
<1> QED
  BY <1>4, <1>5, <1>12, <1>13, <1>14, CoroutineReacts

LEMMA AnswerReacts ==
  ASSUME Base, Base', Grows(eng, eng'), Reacting, Owning, UNCHANGED comb,
         AnswerCompleted \/ Yield \/ RunReturned \/ \E how \in How, v \in HeldValue : GeneratorEnds(how, v)
  PROVE  Reacting'
<1>1. CASE Yield \/ \E how \in How, v \in HeldValue : GeneratorEnds(how, v)
  <2>1. Top("generator") /\ stack' = Tail(stack) /\ log' = log
    BY <1>1 DEF Yield, GeneratorEnds, Pop
  <2>2. Reframed /\ ~JobRuns("reaction")
    BY <2>1 DEF Reframed, Unstacked, Internal, JobRuns, Top
  <2>3. Answering
    BY <1>1, AnswersAre
  <2> QED
    BY <2>1, <2>2, <2>3, AnsweringReacts
<1>2. CASE RunReturned
  <2>1. JobRuns("reaction") /\ Job.handler.fn = "returned" /\ UNCHANGED <<stack, log>>
    BY <1>2 DEF RunReturned, Reacts
  <2>2. JobIn(Job, Pair \ Kept) /\ Reframed
    BY <2>1, NativeJob DEF Reframed, Unstacked
  <2>3. Answering
    BY <1>2, AnswersAre
  <2> QED
    BY <2>1, <2>2, <2>3, AnsweringReacts
<1>3. CASE AnswerCompleted
  <2>1. Top("resumeNext") /\ LeaveLoop(1) /\ UNCHANGED <<act, log>>
    BY <1>3 DEF AnswerCompleted, Looping
  <2>2. stack' = Tail(stack) /\ held' \subseteq held \cup Promise
    BY <2>1, LoopKnown DEF LeaveLoop
  <2>3. Reframed /\ ~JobRuns("reaction")
    BY <2>1, <2>2 DEF Reframed, Unstacked, Internal, JobRuns, Top
  <2>4. CASE Head1.type # "return"
    <3>1. Answering
      BY <1>3, <2>4, AnswersAre
    <3> QED
      BY <2>1, <2>3, <3>1, AnsweringReacts
  <2>5. CASE Head1.type = "return"
    <3>1. PICK K : K = Pledged
      OBVIOUS
    <3>2. PICK v : v = Head1.value
      OBVIOUS
    <3>3. PICK d : d = AwaitOn(eng, v, [how \in How |-> Returned])
      OBVIOUS
    <3>4. /\ Tended(K, eng, comb) /\ gen \in GeneratorData /\ Returned \in Control /\ Returned \in Handler(comb)
          /\ gen.queue # <<>> => v \in Val
      BY <3>1, <3>2, ReactsKnown, Known, GeneratorKnown
    <3>5. /\ gen.queue # <<>> /\ gen' = [gen EXCEPT !.state = "awaitingReturn"]
          /\ eng' = d /\ (v \notin Promise => Fresh(eng) # {})
      BY <1>3, <2>5, <3>2, <3>3 DEF AnswerCompleted, Looping, CanAwait, Continue, Returned
    <3>6. Tending(K, eng, d, comb)
      BY ONLY <3>3, <3>4, <3>5, AwaitTends
    <3>7. gen'.queue = gen.queue
      BY <3>4, <3>5 DEF GeneratorData
    <3> QED
      BY <2>1, <2>2, <2>3, <3>1, <3>5, <3>6, <3>7, CoroutineReacts
  <2> QED
    BY <2>4, <2>5
<1> QED
  BY <1>1, <1>2, <1>3

-----------------------------------------------------------------------------
(* Every step.                                                             *)

LEMMA NextReacts ==
  ASSUME Base, Owning, Reacting, Next
  PROVE  Reacting'
<1>1. Base' /\ Grows(eng, eng')
  BY NextKeeps
<1>2. CASE PromisesNext /\ UNCHANGED <<comb, cvars>>
  BY <1>1, <1>2, ScriptsReact, ScriptEndsReacts, RunJobReacts DEF PromisesNext
<1>3. CASE CombinatorNext /\ UNCHANGED cvars
  BY <1>1, <1>3, CombinatorNextReacts
<1>4. CASE CoroutinesNext /\ UNCHANGED comb
  BY <1>1, <1>4, AsyncReacts, RoundReacts, CallGeneratorReacts, AnswerReacts DEF CoroutinesNext
<1> QED
  BY <1>2, <1>3, <1>4 DEF Next

LEMMA InitReacts ==
  ASSUME Init
  PROVE  Reacting
<1>1. /\ eng = [promise |-> [p \in Promise |-> [state |-> "pending", result |-> None, reactions |-> <<>>]],
                pairs |-> [p \in Promise |-> 0], resolved |-> {}, jobs |-> <<>>, follows |-> [p \in Promise |-> None]]
      /\ stack = <<>> /\ held = {} /\ log = [registered |-> <<>>, ran |-> <<>>, odd |-> {}] /\ comb = NoCombinator
      /\ act = [a \in Activation |-> [state |-> "none", cap |-> None, on |-> None]] /\ gen.queue = <<>>
  BY DEF Init, PromisesInit, CombinatorInit, CoroutinesInit
<1>2. Straight(eng) /\ Chained(eng) = {}
  BY <1>1 DEF Straight, Chained, Follower, Settled
<1>3. log.registered = <<>> /\ log.ran = <<>> /\ DOMAIN log.registered = {} /\ DOMAIN log.ran = {} /\ DOMAIN eng.jobs = {}
  BY <1>1
<1>4. \A p \in Promise : DOMAIN eng.promise[p].reactions = {}
  <2>1. \A p \in Promise : eng.promise[p].reactions = <<>>
    BY <1>1
  <2>2. DOMAIN <<>> = {}
    OBVIOUS
  <2> QED
    BY <2>1, <2>2
<1>5. Sequenced(eng, log.registered, log.ran)
  BY <1>3, <1>4 DEF Sequenced
<1>6. Kept = {}
  BY <1>2, <1>3 DEF Kept, Pledged
<1>7. Apart({})
  BY <1>1 DEF Apart, InProgress
<1> QED
  BY <1>2, <1>3, <1>5, <1>6, <1>7 DEF Reacting, Distinct

LEMMA StutterReacts ==
  ASSUME Reacting, UNCHANGED vars
  PROVE  Reacting'
<1>1. UNCHANGED <<eng, stack, held, log, comb, act, gen>>
  BY DEF vars, pvars, cvars
<1>2. \A k : (Quiet(k)' <=> Quiet(k)) /\ Restorer(k)' = Restorer(k)
  BY <1>1 DEF Quiet, Restorer
<1>3. Pledged' = Pledged
  BY <1>1, <1>2 DEF Pledged
<1>4. Kept' = Kept
  BY <1>1, <1>3 DEF Kept
<1>5. \A f : Serving(f)' <=> Serving(f)
  BY <1>1 DEF Serving
<1>6. Apart(Kept)'
  BY SMTT(60), <1>1, <1>4, <1>5 DEF Apart, Reacting
<1>7. Distinct'
  BY <1>1, <1>2 DEF Distinct, Reacting
<1>8. \A x, o : Restores(x, o)' <=> Restores(x, o)
  BY <1>1 DEF Restores, Restoration
<1>9. \A k \in DOMAIN log.registered : Derived(k)'
  <2>1. \A f, k : Serves(f, k)' <=> Serves(f, k)
    BY SMTT(60), <1>1 DEF Serves
  <2> QED
    BY <1>1, <1>2, <1>8, <2>1 DEF Derived, Reacting
<1> QED
  BY <1>1, <1>6, <1>7, <1>9 DEF Reacting

-----------------------------------------------------------------------------
(* What the reactions of scripts come to.                                  *)

LEMMA CallbacksOrdered ==
  ASSUME Base, Reacting
  PROVE  CallbacksInOrder
<1>1. PICK reg, ran : reg = log.registered /\ ran = log.ran
  OBVIOUS
<1>2. DOMAIN reg \subseteq Nat /\ DOMAIN ran = 1 .. Len(ran) /\ Len(ran) \in Nat
  BY SMTT(60), <1>1, ReactsKnown DEF Registrations
<1>3. /\ \A i \in DOMAIN ran : ran[i].id \in DOMAIN reg /\ ran[i].how \in reg[ran[i].id].sides
      /\ \A i \in DOMAIN ran : <<ran[i].how, ran[i].arg>> = Outcome(eng, reg[ran[i].id].on)
      /\ \A i, j \in DOMAIN ran : i < j => Before(reg, ran[i].id, ran[j].id)
  BY <1>1 DEF Reacting, Sequenced
<1>4. ASSUME NEW i \in DOMAIN ran, NEW j \in 1 .. i - 1
      PROVE  /\ ran[j].id # ran[i].id
             /\ reg[ran[j].id].on = reg[ran[i].id].on => ran[j].id < ran[i].id
  <2>1. j \in DOMAIN ran /\ j < i
    BY <1>2, <1>4
  <2>2. Before(reg, ran[j].id, ran[i].id) /\ ran[i].id \in Nat /\ ran[j].id \in Nat
    BY <1>2, <1>3, <1>4, <2>1
  <2> QED
    BY <2>2 DEF Before
<1> QED
  BY <1>1, <1>3, <1>4 DEF CallbacksInOrder

\* A promise that has settled has used the functions it was made with.
LEMMA FirstUsed ==
  ASSUME Base, NEW p \in Promise, Settled(eng, p), Cap(p) \in Made(eng)
  PROVE  Cap(p) \in eng.resolved
<1>1. Resolver(eng, p) /\ eng.pairs[p] \in Nat
  BY DEF Base, Good, Engine
<1>2. eng.pairs[p] >= 1
  BY DEF Made, Cap
<1>3. Last(eng, p) \in eng.resolved
  BY <1>1 DEF Resolver
<1>4. CASE eng.pairs[p] = 1
  BY <1>3, <1>4 DEF Last, Cap
<1>5. CASE eng.pairs[p] # 1
  <2>1. 1 \in 1 .. eng.pairs[p] - 1
    BY <1>1, <1>2, <1>5
  <2> QED
    BY <1>1, <2>1 DEF Resolver, Cap
<1> QED
  BY <1>4, <1>5

LEMMA OutcomesAre ==
  ASSUME Base, Reacting
  PROVE  OutcomesFollow
<1>1. \A p \in Promise : eng.follows[p] # None /\ Settled(eng, p) => Outcome(eng, p) = Outcome(eng, eng.follows[p])
  BY DEF Reacting, Straight
<1>2. ASSUME NEW k \in DOMAIN log.registered, NEW g, g = log.registered[k], Settled(eng, g.derived),
             eng.promise[g.on].state \notin g.sides \/ (g.fn = "finally" /\ k \notin log.odd)
      PROVE  Outcome(eng, g.derived) = Outcome(eng, g.on)
  <2>1. g.derived \in Promise /\ Derived(k)
    <3>1. log.registered \in Registrations
      BY ReactsKnown
    <3>2. log.registered[k].derived \in Promise
      BY <3>1, RegistrationKnown
    <3> QED
      BY <1>2, <3>2 DEF Reacting
  <2>2. Cap(g.derived) \in eng.resolved
    <3>1. Cap(g.derived) \in Made(eng)
      BY <1>2, <2>1 DEF Derived
    <3> QED
      BY <1>2, <2>1, <3>1, FirstUsed
  <2>3. CASE eng.promise[g.on].state \notin g.sides
    BY SMTT(60), <1>2, <2>1, <2>2, <2>3 DEF Derived
  <2>4. CASE g.fn = "finally" /\ k \notin log.odd
    <3>1. PICK x : x = eng.follows[g.derived]
      OBVIOUS
    <3>2. Restores(x, g.on)
      BY <1>2, <2>1, <2>2, <2>4, <3>1 DEF Derived, Quiet
    <3>3. x \in Promise /\ Cap(x) \in Made(eng) /\ (Cap(x) \in eng.resolved => Outcome(eng, x) = Outcome(eng, g.on))
      BY <3>2 DEF Restores
    <3>4. x # None
      BY <3>3, PromisesAssumption
    <3>5. Outcome(eng, g.derived) = Outcome(eng, x)
      BY <1>1, <1>2, <2>1, <3>1, <3>4
    <3>6. Settled(eng, x)
      BY <1>2, <3>5 DEF Settled, Outcome
    <3> QED
      BY <3>3, <3>5, <3>6, FirstUsed
  <2> QED
    BY <1>2, <2>3, <2>4
<1> QED
  BY <1>1, <1>2 DEF OutcomesFollow

LEMMA NothingIsLost ==
  ASSUME Base, Reacting
  PROVE  NothingForgotten
<1> SUFFICES ASSUME Quiescent PROVE NothingForgotten
  BY DEF NothingForgotten
<1>1. DOMAIN eng.jobs = {} /\ DOMAIN stack = {}
  BY DEF Quiescent
<1>2. ASSUME NEW p \in Promise, eng.follows[p] # None PROVE Settled(eng, p) <=> Settled(eng, eng.follows[p])
  <2>1. Settled(eng, p) => Settled(eng, eng.follows[p])
    BY <1>2 DEF Reacting, Straight, Settled, Outcome
  <2>2. ASSUME Settled(eng, eng.follows[p]), ~Settled(eng, p) PROVE FALSE
    <3>1. Resolver(eng, p)
      BY DEF Base, Good
    <3>2. Last(eng, p) \notin eng.resolved
      BY <1>1, <2>2, <3>1 DEF Resolver, Waits
    <3>3. Due(eng, eng.follows[p], Adoption(Last(eng, p)))
      BY <1>2, <3>2 DEF Follower, Reacting, Straight
    <3> QED
      BY <1>1, <2>2, <3>3 DEF Due
  <2> QED
    BY <2>1, <2>2
<1>3. ASSUME NEW k \in DOMAIN log.registered, NEW g, g = log.registered[k], Settled(eng, g.on)
      PROVE  /\ Cap(g.derived) \in eng.resolved
             /\ eng.promise[g.on].state \in g.sides => \E i \in DOMAIN log.ran : log.ran[i].id = k
  <2>1. Derived(k)
    BY DEF Reacting
  <2>2. ~Due(eng, g.on, Reaction(g, k))
    BY <1>1, <1>3 DEF Due
  <2> QED
    BY <1>1, <1>3, <2>1, <2>2 DEF Derived
<1> QED
  BY <1>2, <1>3 DEF NothingForgotten

-----------------------------------------------------------------------------
(* The reactions and the jobs that report to a combinator.                 *)

Promised(P) == \A x \in P : x[1] \in Promise

\* A reaction that reports becomes a job that does, and no other reaction.
LEMMA ReportsAsJob ==
  ASSUME NEW r, NEW how \in How, NEW v, NEW y
  PROVE  /\ JobReports(ReactionJob(r, how, v), y) => Reports(r, y)
         /\ Tells(r.on[how], y) => JobReports(ReactionJob(r, how, v), y)
BY DEF JobReports, ReactionJob, Reports

\* A set of reactions that has them all may have more.
LEMMA GathersMore ==
  ASSUME NEW e, NEW y, NEW P, NEW Q, P \subseteq Q, Gathers(e, y, P)
  PROVE  Gathers(e, y, Q)
BY DEF Gathers

\* Engines with the same reactions and jobs.
LEMMA SameGathers ==
  ASSUME NEW e, NEW d, d.promise = e.promise, d.jobs = e.jobs, NEW y, NEW P, Gathers(e, y, P)
  PROVE  Gathers(d, y, P)
<1>1. \A o : (Settled(d, o) <=> Settled(e, o)) /\ \A r : JobOf(d, r, o) = JobOf(e, r, o)
  BY DEF Settled, JobOf
<1> QED
  BY <1>1 DEF Gathers

\* A promise settles.
LEMMA SettleGathers ==
  ASSUME NEW H, NEW V, NEW e \in Engine(H, V), NEW p \in Promise, ~Settled(e, p),
         NEW how \in How, NEW v \in V, NEW d, d = Settle(e, p, how, v), NEW y, NEW P, Promised(P), Gathers(e, y, P)
  PROVE  Gathers(d, y, P)
<1> DEFINE x == e.promise[p].reactions
           q == e.jobs
           s == d.jobs
           n == Len(q)
<1>1. /\ d.promise[p] = [state |-> how, result |-> v, reactions |-> <<>>]
      /\ \A b \in Promise : b # p => d.promise[b] = e.promise[b]
      /\ \A i \in DOMAIN q : i \in DOMAIN s /\ s[i] = q[i]
      /\ \A i \in DOMAIN s : i \notin DOMAIN q => i - n \in DOMAIN x /\ s[i] = ReactionJob(x[i - n], how, v)
  BY SettleViews DEF SettleView
<1> HIDE DEF q, s, n, x
<1>2. ASSUME NEW b \in Promise, NEW i \in DOMAIN d.promise[b].reactions, Reports(d.promise[b].reactions[i], y)
      PROVE  <<b, d.promise[b].reactions[i]>> \in P
  <2>1. b # p /\ d.promise[b] = e.promise[b]
    BY <1>1, <1>2
  <2> QED
    BY <1>2, <2>1 DEF Gathers
<1>3. ASSUME NEW i \in DOMAIN s, JobReports(s[i], y)
      PROVE  \E z \in P : Settled(d, z[1]) /\ s[i] = JobOf(d, z[2], z[1])
  <2>1. CASE i \in DOMAIN q
    <3>1. s[i] = q[i]
      BY <1>1, <2>1
    <3>2. PICK z \in P : Settled(e, z[1]) /\ q[i] = JobOf(e, z[2], z[1])
      BY <1>3, <2>1, <3>1 DEF Gathers, q
    <3>3. z[1] \in Promise /\ z[1] # p
      BY <3>2 DEF Promised
    <3>4. d.promise[z[1]] = e.promise[z[1]]
      BY <1>1, <3>3
    <3> QED
      BY <3>1, <3>2, <3>4 DEF Settled, JobOf
  <2>2. CASE i \notin DOMAIN q
    <3>1. i - n \in DOMAIN x /\ s[i] = ReactionJob(x[i - n], how, v)
      BY <1>1, <2>2
    <3>2. Reports(x[i - n], y)
      BY <1>3, <3>1, ReportsAsJob
    <3>3. <<p, x[i - n]>> \in P
      BY <3>1, <3>2 DEF Gathers, x
    <3>4. Settled(d, p) /\ s[i] = JobOf(d, x[i - n], p)
      BY <1>1, <3>1 DEF Settled, JobOf, How
    <3> QED
      BY <3>3, <3>4
  <2> QED
    BY <2>1, <2>2
<1> QED
  BY <1>2, <1>3 DEF Gathers, s

\* A job is queued that does not report, or is that of a reaction that is known.
LEMMA AppendGathers ==
  ASSUME NEW H, NEW V, NEW e \in Engine(H, V), NEW job \in AJob(H, V),
         NEW d, d.promise = e.promise, d.jobs = Append(e.jobs, job), NEW y, NEW P, Gathers(e, y, P),
         JobReports(job, y) => \E x \in P : Settled(e, x[1]) /\ job = JobOf(e, x[2], x[1])
  PROVE  Gathers(d, y, P)
<1> DEFINE q == e.jobs
           s == d.jobs
<1>1. \A i \in DOMAIN s : (i \in DOMAIN q /\ s[i] = q[i]) \/ s[i] = job
  <2>1. q \in Seq(AJob(H, V)) /\ s = Append(q, job)
    BY DEF Engine, AJob
  <2> HIDE DEF q, s
  <2>2. /\ \A i \in DOMAIN q : i \in DOMAIN s /\ s[i] = q[i]
        /\ \A i \in DOMAIN s : i \notin DOMAIN q => s[i] = job
    BY <2>1, AppendView
  <2> QED
    BY <2>2
<1>2. \A o : (Settled(d, o) <=> Settled(e, o)) /\ \A r : JobOf(d, r, o) = JobOf(e, r, o)
  BY DEF Settled, JobOf
<1> HIDE DEF q, s
<1>3. \A i \in DOMAIN s : JobReports(s[i], y) => \E x \in P : Settled(e, x[1]) /\ s[i] = JobOf(e, x[2], x[1])
  BY <1>1 DEF Gathers, q
<1> QED
  BY <1>2, <1>3 DEF Gathers, s

\* A reaction is added that does not report, or is known.
LEMMA ReactGathers ==
  ASSUME NEW H, NEW V, NEW e \in Engine(H, V), NEW p \in Promise, NEW x \in [on : [How -> H], cap : Capability],
         NEW d, d.promise = [e.promise EXCEPT ![p].reactions = Append(@, x)], d.jobs = e.jobs,
         NEW y, NEW P, Promised(P), Gathers(e, y, P), Reports(x, y) => <<p, x>> \in P
  PROVE  Gathers(d, y, P)
<1>1. ReactionView(e, d, p, x)
  BY ReactionViews
<1>2. \A o \in Promise : (Settled(d, o) <=> Settled(e, o)) /\ \A r : JobOf(d, r, o) = JobOf(e, r, o)
  BY <1>1 DEF Settled, JobOf, ReactionView
<1>3. ASSUME NEW b \in Promise, NEW i \in DOMAIN d.promise[b].reactions, Reports(d.promise[b].reactions[i], y)
      PROVE  <<b, d.promise[b].reactions[i]>> \in P
  <2>1. CASE i \in DOMAIN e.promise[b].reactions /\ d.promise[b].reactions[i] = e.promise[b].reactions[i]
    BY <1>3, <2>1 DEF Gathers
  <2>2. CASE b = p /\ d.promise[b].reactions[i] = x
    BY <1>3, <2>2
  <2> QED
    BY <1>1, <2>1, <2>2 DEF ReactionView
<1>4. ASSUME NEW i \in DOMAIN d.jobs, JobReports(d.jobs[i], y)
      PROVE  \E z \in P : Settled(d, z[1]) /\ d.jobs[i] = JobOf(d, z[2], z[1])
  <2>1. PICK z \in P : Settled(e, z[1]) /\ d.jobs[i] = JobOf(e, z[2], z[1])
    BY <1>4 DEF Gathers
  <2>2. z[1] \in Promise
    BY DEF Promised
  <2> QED
    BY <1>2, <2>1, <2>2
<1> QED
  BY <1>3, <1>4 DEF Gathers

\* Then as one step.
LEMMA ThenGathers ==
  ASSUME NEW H, NEW V, NEW e, Good(e, H, V), NEW p \in Promise, NEW on \in [How -> H], NEW cap \in Capability,
         NEW x, x = [on |-> on, cap |-> cap], NEW d, d = Then(e, p, on, cap),
         NEW y, NEW P, Promised(P), Gathers(e, y, P), Reports(x, y) => <<p, x>> \in P
  PROVE  Gathers(d, y, P)
<1>1. e \in Engine(H, V) /\ x \in [on : [How -> H], cap : Capability] /\ x.on = on /\ x.cap = cap
  BY DEF Good
<1>2. CASE Settled(e, p)
  <2>1. PICK job : job = JobOf(e, x, p)
    OBVIOUS
  <2>2. e.promise[p].state \in How /\ e.promise[p].result \in V
    BY <1>1, <1>2 DEF Settled, Engine, PromiseState
  <2>3. job \in AJob(H, V)
    BY <1>1, <2>1, <2>2 DEF JobOf, ReactionJob, ReactionJobs, AJob
  <2>4. d = [e EXCEPT !.jobs = Append(@, job)]
    BY <1>2, <2>1 DEF Then, Enqueue, JobOf
  <2>5. d.promise = e.promise /\ d.jobs = Append(e.jobs, job)
    BY <1>1, <2>4 DEF Engine
  <2>6. JobReports(job, y) => Reports(x, y)
    BY <2>1, <2>2, ReportsAsJob DEF JobOf
  <2>7. JobReports(job, y) => \E z \in P : Settled(e, z[1]) /\ job = JobOf(e, z[2], z[1])
    BY <1>2, <2>1, <2>6
  <2> QED
    BY <1>1, <2>3, <2>5, <2>7, AppendGathers
<1>3. CASE ~Settled(e, p)
  <2>1. d = [e EXCEPT !.promise[p].reactions = Append(@, x)]
    BY <1>3 DEF Then
  <2>2. d.promise = [e.promise EXCEPT ![p].reactions = Append(@, x)] /\ d.jobs = e.jobs
    BY <1>1, <2>1 DEF Engine
  <2> QED
    BY <1>1, <2>2, ReactGathers
<1> QED
  BY <1>2, <1>3

\* The first job is taken.
LEMMA PopGathers ==
  ASSUME NEW H, NEW V, NEW e \in Engine(H, V), e.jobs # <<>>, NEW d, d.promise = e.promise, d.jobs = Tail(e.jobs),
         NEW y, NEW P, Gathers(e, y, P)
  PROVE  Gathers(d, y, P)
<1>1. TailView(e.jobs, d.jobs)
  <2>1. e.jobs \in Seq(AJob(H, V))
    BY DEF Engine, AJob
  <2> QED
    BY <2>1, TailViews
<1>2. \A o : (Settled(d, o) <=> Settled(e, o)) /\ \A r : JobOf(d, r, o) = JobOf(e, r, o)
  BY DEF Settled, JobOf
<1>3. \A i \in DOMAIN d.jobs : JobReports(d.jobs[i], y) =>
        \E x \in P : Settled(e, x[1]) /\ d.jobs[i] = JobOf(e, x[2], x[1])
  BY <1>1 DEF Gathers, TailView
<1> QED
  BY <1>2, <1>3 DEF Gathers

-----------------------------------------------------------------------------
(* Steps that report nothing.                                              *)

\* What is to be reported to y's combinator stays so, and y is not called.
Retains(e, d, y) ==
  /\ \A P : Promised(P) /\ Gathers(e, y, P) => Gathers(d, y, P)
  /\ \A o \in Promise : \A r : (\A how \in How : Tells(r.on[how], y)) /\ Due(e, o, r) => Due(d, o, r)
Leaves(e, d, y) == Retains(e, d, y) /\ (y \in d.resolved => y \in e.resolved)
Clear(y, e, c) == Good(e, Handler(c), Val) /\ y \in Made(e)
Leaving(y, e, d, c) == Clear(y, d, c) /\ Leaves(e, d, y) /\ Made(e) \subseteq Made(d)

LEMMA LeavingTransitive ==
  ASSUME NEW y, NEW c, NEW e, NEW d, NEW b, Leaving(y, e, d, c), Leaving(y, d, b, c)
  PROVE  Leaving(y, e, b, c)
BY DEF Leaving, Leaves, Retains

LEMMA LeavingSame ==
  ASSUME NEW y, NEW c, NEW e, Clear(y, e, c), NEW d, Clear(y, d, c), Made(e) \subseteq Made(d),
         d.promise = e.promise, d.jobs = e.jobs, y \in d.resolved => y \in e.resolved
  PROVE  Leaving(y, e, d, c)
<1>1. \A P : Gathers(e, y, P) => Gathers(d, y, P)
  BY SameGathers
<1>2. \A o \in Promise : \A r : Due(e, o, r) => Due(d, o, r)
  BY DEF Due, Settled, JobOf
<1> QED
  BY <1>1, <1>2 DEF Leaving, Leaves, Retains

\* A promise is created: its pair is not y.
LEMMA CreateLeaves ==
  ASSUME NEW y, NEW c, NEW e, Clear(y, e, c), Fresh(e) # {}
  PROVE  /\ Leaving(y, e, Create(e), c) /\ New(e) \in Promise
         /\ Cap(New(e)) \in Made(Create(e)) \ Made(e) /\ Cap(New(e)) # y
<1>1. /\ Good(Create(e), Handler(c), Val) /\ New(e) \in Promise /\ Cap(New(e)) \in Made(Create(e)) \ Made(e)
      /\ Made(e) \subseteq Made(Create(e)) /\ Create(e).resolved = e.resolved
  BY CreateGood DEF Clear
<1>2. Create(e).promise = e.promise /\ Create(e).jobs = e.jobs
  BY DEF Clear, Good, Engine, Create, CreateResolvingFunctions
<1>3. y \in Made(e)
  BY DEF Clear
<1>4. Clear(y, Create(e), c)
  BY <1>1, <1>3 DEF Clear
<1> QED
  BY <1>1, <1>2, <1>3, <1>4, LeavingSame

\* A resolving function is called, that of y perhaps.
LEMMA CallRetains ==
  ASSUME NEW y, NEW c, NEW e, Good(e, Handler(c), Val), NEW pair \in Made(e), NEW how \in How, NEW v \in Val,
         NEW d, d = ResolvingCall(e, pair, how, v)
  PROVE  Retains(e, d, y) /\ Made(d) = Made(e) /\ d.resolved = e.resolved \cup {pair} /\ Good(d, Handler(c), Val)
<1> DEFINE H == Handler(c)
<1>1. Resolves(e, d, H, Val, pair) /\ Error \in Val
  BY ResolvingCallGood DEF Val, Value
<1>2. Made(d) = Made(e) /\ d.resolved = e.resolved \cup {pair} /\ Good(d, H, Val)
  BY <1>1 DEF Resolves
<1> HIDE DEF H
<1>3. CASE pair \in e.resolved
  <2>1. d = e
    BY <1>3 DEF ResolvingCall
  <2> QED
    BY <1>2, <2>1 DEF Retains, H
<1>4. CASE pair \notin e.resolved
  <2>1. PICK b \in Engine(H, Val) :
          Marks(e, b, pair) /\ (Settles(b, d, pair.of, how, v, Val) \/ Defers(b, d, pair.of, how, v))
    BY <1>1, <1>4, CallCases DEF H
  <2>2. b.promise = e.promise /\ b.jobs = e.jobs /\ ~Settled(b, pair.of) /\ pair.of \in Promise
    BY <2>1 DEF Marks
  <2>3. \A P : Gathers(e, y, P) => Gathers(b, y, P)
    BY <2>2, SameGathers
  <2>4. \A o \in Promise : \A r : Due(e, o, r) => Due(b, o, r)
    BY <2>2 DEF Due, Settled, JobOf
  <2>5. CASE Settles(b, d, pair.of, how, v, Val)
    <3>1. PICK how2 \in How, w \in Val : d = Settle(b, pair.of, how2, w)
      BY <2>5 DEF Settles
    <3>2. \A P : Promised(P) /\ Gathers(b, y, P) => Gathers(d, y, P)
      BY <2>2, <3>1, SettleGathers
    <3>3. \A o \in Promise : \A r : Due(b, o, r) => Due(d, o, r)
      BY <2>2, <3>1, SettleDue
    <3> QED
      BY <1>2, <2>3, <2>4, <3>2, <3>3 DEF Retains, H
  <2>6. CASE Defers(b, d, pair.of, how, v)
    <3>1. PICK job : job = ThenableJob(pair.of, v)
      OBVIOUS
    <3>2. job \in AJob(H, Val) /\ ~JobReports(job, y)
      BY <2>2, <2>6, <3>1 DEF Defers, ThenableJob, AJob, ThenableJobs, JobReports
    <3>3. d.promise = b.promise /\ d.jobs = Append(b.jobs, job)
      BY <2>6, <3>1 DEF Defers
    <3>4. \A P : Gathers(b, y, P) => Gathers(d, y, P)
      BY <3>2, <3>3, AppendGathers
    <3>5. \A o \in Promise : \A r : Due(b, o, r) => Due(d, o, r)
      BY <3>2, <3>3, AppendCarries
    <3> QED
      BY <1>2, <2>3, <2>4, <3>4, <3>5 DEF Retains, H
  <2> QED
    BY <2>1, <2>5, <2>6
<1> QED
  BY <1>3, <1>4

LEMMA CallLeaves ==
  ASSUME NEW y, NEW c, NEW e, Clear(y, e, c), NEW pair \in Made(e) \ {y}, NEW how \in How, NEW v \in Val
  PROVE  Leaving(y, e, ResolvingCall(e, pair, how, v), c)
<1> DEFINE d == ResolvingCall(e, pair, how, v)
<1>1. Retains(e, d, y) /\ Made(d) = Made(e) /\ d.resolved = e.resolved \cup {pair} /\ Good(d, Handler(c), Val)
  BY CallRetains DEF Clear
<1> HIDE DEF d
<1> QED
  BY <1>1 DEF Leaving, Leaves, Clear, d

\* A handler ends.
LEMMA FinishLeaves ==
  ASSUME NEW y, NEW c, NEW e, Clear(y, e, c), NEW cap, CapIn(cap, Made(e) \ {y}), NEW how \in How, NEW v \in Val
  PROVE  Leaving(y, e, Finish(e, cap, how, v), c)
<1>1. Leaving(y, e, e, c)
  BY LeavingSame
<1>2. CASE cap = None
  BY <1>1, <1>2 DEF Finish
<1>3. CASE cap # None
  BY <1>3, CallLeaves DEF Finish, CapIn
<1> QED
  BY <1>2, <1>3

\* A reaction is added that does not report.
LEMMA ThenLeaves ==
  ASSUME NEW y, NEW c, NEW e, Clear(y, e, c), NEW p \in Promise, NEW on \in [How -> Handler(c)],
         NEW cap \in Capability, ReactionIn([on |-> on, cap |-> cap], Made(e) \ {y}),
         \A how \in How : on[how].fn # "element"
  PROVE  Leaving(y, e, Then(e, p, on, cap), c)
<1> DEFINE d == Then(e, p, on, cap)
           x == [on |-> on, cap |-> cap]
<1>0. x.on = on /\ x.cap = cap /\ x = [on |-> on, cap |-> cap] /\ d = Then(e, p, on, cap)
  OBVIOUS
<1>1. ReactionIn(x, Made(e)) /\ ~Reports(x, y)
  <2>1. cap = None \/ cap # y
    BY DEF ReactionIn, CapIn
  <2>2. None # y
    BY PromisesAssumption DEF Clear, Made
  <2> QED
    BY <1>0, <2>1, <2>2 DEF ReactionIn, CapIn, HandlerIn, Reports, Tells
<1>2. Good(e, Handler(c), Val)
  BY DEF Clear
<1>3. Good(d, Handler(c), Val) /\ Made(d) = Made(e) /\ d.resolved = e.resolved
  BY <1>1, <1>2, ThenGood
<1> HIDE DEF d, x
<1>4. \A P : Promised(P) /\ Gathers(e, y, P) => Gathers(d, y, P)
  BY <1>0, <1>1, <1>2, ThenGathers
<1>5. \A o \in Promise : \A r : Due(e, o, r) => Due(d, o, r)
  BY <1>0, <1>2, ThenCarries
<1> QED
  BY <1>3, <1>4, <1>5 DEF Leaving, Leaves, Retains, Clear, d

\* A value is made a promise.
LEMMA WrapLeaves ==
  ASSUME NEW y, NEW c, NEW e, Clear(y, e, c), NEW v \in Val, v \notin Promise => Fresh(e) # {}
  PROVE  Leaving(y, e, Wrap(e, v), c) /\ Wrapped(e, v) \in Promise
<1>1. Leaving(y, e, e, c)
  BY LeavingSame
<1>2. CASE v \in Promise
  BY <1>1, <1>2 DEF Wrap, Wrapped
<1>3. CASE v \notin Promise
  <2>1. /\ Leaving(y, e, Create(e), c) /\ New(e) \in Promise
        /\ Cap(New(e)) \in Made(Create(e)) \ {y} /\ "fulfilled" \in How
    BY <1>3, CreateLeaves DEF How
  <2>2. Leaving(y, Create(e), Wrap(e, v), c)
    BY <1>3, <2>1, CallLeaves DEF Wrap, Leaving
  <2> QED
    BY <1>3, <2>1, <2>2, LeavingTransitive DEF Wrapped
<1> QED
  BY <1>2, <1>3

\* Suspended code waits for a value.
LEMMA AwaitLeaves ==
  ASSUME NEW y, NEW c, NEW e, Clear(y, e, c), NEW v \in Val, v \notin Promise => Fresh(e) # {},
         NEW h \in Control, h \in Handler(c)
  PROVE  Leaving(y, e, AwaitOn(e, v, [how \in How |-> h]), c)
<1> DEFINE on == [how \in How |-> h]
<1>1. Leaving(y, e, Wrap(e, v), c) /\ Wrapped(e, v) \in Promise
  BY WrapLeaves
<1>2. on \in [How -> Handler(c)] /\ (\A how \in How : on[how].fn \notin {"settle", "element"}) /\ None \in Capability
  BY DEF Control, Resume, Continued, Returned, Capability
<1> HIDE DEF on
<1>3. ReactionIn([on |-> on, cap |-> None], Made(Wrap(e, v)) \ {y})
  BY <1>2 DEF ReactionIn, CapIn, HandlerIn
<1>4. Leaving(y, Wrap(e, v), AwaitOn(e, v, on), c)
  BY <1>1, <1>2, <1>3, ThenLeaves DEF AwaitOn, Leaving
<1> QED
  BY <1>1, <1>4, LeavingTransitive DEF on

\* The job of a reaction is taken that does not report.
LEMMA PopLeaves ==
  ASSUME NEW y, NEW c, NEW e, Clear(y, e, c), e.jobs # <<>>, Head(e.jobs).kind = "reaction",
         ~JobReports(Head(e.jobs), y), NEW d, d = [e EXCEPT !.jobs = Tail(@)]
  PROVE  /\ Leaving(y, e, d, c) /\ Head(e.jobs) \in ReactionJobs(Handler(c), Val)
         /\ CapIn(Head(e.jobs).cap, Made(d) \ {y}) /\ HandlerIn(Head(e.jobs).handler, Made(d) \ {y})
<1>1. /\ Good(d, Handler(c), Val) /\ Made(d) = Made(e) /\ d.resolved = e.resolved
      /\ Head(e.jobs) \in ReactionJobs(Handler(c), Val)
      /\ \A S : PairsIn(e, S) => CapIn(Head(e.jobs).cap, S) /\ HandlerIn(Head(e.jobs).handler, S)
  BY PopReaction DEF Clear
<1>2. CapIn(Head(e.jobs).cap, Made(d)) /\ HandlerIn(Head(e.jobs).handler, Made(d))
  BY <1>1 DEF Clear, Good, Sound
<1>3. CapIn(Head(e.jobs).cap, Made(d) \ {y}) /\ HandlerIn(Head(e.jobs).handler, Made(d) \ {y})
  BY <1>2 DEF JobReports, Tells, CapIn, HandlerIn
<1>4. e \in Engine(Handler(c), Val) /\ d.promise = e.promise /\ d.jobs = Tail(e.jobs)
  BY DEF Clear, Good, Engine
<1>5. \A P : Gathers(e, y, P) => Gathers(d, y, P)
  BY <1>4, PopGathers
<1>6. ASSUME NEW o \in Promise, NEW r, \A how \in How : Tells(r.on[how], y), Due(e, o, r) PROVE Due(d, o, r)
  <2>1. ASSUME Settled(e, o), Head(e.jobs) = JobOf(e, r, o) PROVE FALSE
    <3>1. e.promise[o].state \in How
      BY <1>4, <2>1 DEF Settled, Engine, PromiseState
    <3> QED
      BY <1>6, <2>1, <3>1, ReportsAsJob DEF JobOf
  <2> QED
    BY <1>4, <1>6, <2>1, PopCarries
<1> QED
  BY <1>1, <1>3, <1>5, <1>6 DEF Leaving, Leaves, Retains, Clear

\* The job of a thenable is taken.
LEMMA AdoptLeaves ==
  ASSUME NEW y, NEW c, NEW e, Clear(y, e, c), e.jobs # <<>>, Head(e.jobs).kind = "thenable",
         NEW d, d = CreateResolvingFunctions([e EXCEPT !.jobs = Tail(@)], Head(e.jobs).promise)
  PROVE  /\ Leaving(y, e, d, c) /\ Head(e.jobs) \in ThenableJobs
         /\ NewPair(e, Head(e.jobs).promise) \in Made(d) \ {y}
<1>1. /\ Good(d, Handler(c), Val) /\ Head(e.jobs) \in ThenableJobs
      /\ Made(e) \subseteq Made(d) /\ NewPair(e, Head(e.jobs).promise) \in Made(d) \ Made(e)
      /\ d.resolved = e.resolved
  BY ZenonT(60), PopThenable DEF Clear
<1>2. y \in Made(e) /\ e \in Engine(Handler(c), Val)
  BY DEF Clear, Good
<1>3. d.promise = e.promise /\ d.jobs = Tail(e.jobs)
  BY <1>2 DEF Engine, CreateResolvingFunctions
<1>4. \A P : Gathers(e, y, P) => Gathers(d, y, P)
  BY <1>2, <1>3, PopGathers
<1>5. ASSUME NEW o \in Promise, NEW r, Due(e, o, r) PROVE Due(d, o, r)
  <2>1. Head(e.jobs) # JobOf(e, r, o)
    BY DEF JobOf, ReactionJob
  <2> QED
    BY <1>2, <1>3, <1>5, <2>1, PopCarries
<1> QED
  BY <1>1, <1>2, <1>4, <1>5 DEF Leaving, Leaves, Retains, Clear

-----------------------------------------------------------------------------
(* Steps that leave the combinator alone.                                  *)

\* What else there is to refer to.
LEMMA CombiningKnown ==
  ASSUME Base, comb # NoCombinator, Combining, NEW y, y = comb.cap
  PROVE  /\ Clear(y, eng, comb) /\ Leaving(y, eng, eng, comb) /\ comb \in Combinator
         /\ held \subseteq Promise \cup (Made(eng) \ {y})
         /\ \A f \in InProgress(stack) : FrameIn(f, Made(eng) \ {y})
         /\ Secluded /\ Counting /\ Decided
<1>1. Clear(y, eng, comb) /\ comb \in Combinator
  BY CombinatorKnown DEF Base, Clear
<1>2. Leaving(y, eng, eng, comb)
  BY <1>1, LeavingSame
<1>3. Secluded /\ Counting /\ Decided /\ Referred(Made(eng)) /\ Made(eng) \subseteq Pair
  BY DEF Combining, Base, Made
<1>4. held \subseteq Promise \cup (Made(eng) \ {y})
  BY <1>3 DEF Secluded, Referred
<1>5. \A f \in InProgress(stack) : FrameIn(f, Made(eng) \ {y})
  BY <1>3 DEF Secluded, Referred, FrameIn, CapIn
<1> QED
  BY <1>1, <1>2, <1>3, <1>4, <1>5

\* The frames of a step that leaves the loop where it is, and does not refer to y.
Framed(y) ==
  /\ \A f \in InProgress(stack') : f \in InProgress(stack) \/ (f.kind # "combine" /\ FrameIn(f, Pair \ {y}))
  /\ \A f \in InProgress(stack) : f.kind = "combine" => f \in InProgress(stack')

LEMMA FramesStand ==
  ASSUME Base, NEW y
  PROVE  /\ stack' = stack => Framed(y)
         /\ \A f : stack' = <<f>> \o stack /\ f.kind # "combine" /\ FrameIn(f, Pair \ {y}) => Framed(y)
         /\ stack # <<>> /\ stack' = Tail(stack) /\ Head(stack).kind # "combine" => Framed(y)
         /\ Top("generator") /\ LeaveLoop(2) => Framed(y)
<1>1. stack \in Seq(Frame(comb))
  BY Known
<1>2. ASSUME NEW f, stack' = <<f>> \o stack, f.kind # "combine", FrameIn(f, Pair \ {y}) PROVE Framed(y)
  <2>1. InProgress(stack') = InProgress(stack) \cup {f}
    BY <1>1, <1>2, Pushed
  <2> QED
    BY <1>2, <2>1 DEF Framed
<1>3. ASSUME stack # <<>>, stack' = Tail(stack), Head(stack).kind # "combine" PROVE Framed(y)
  <2>1. InProgress(stack) = InProgress(stack') \cup {Head(stack)}
    BY <1>1, <1>3, Drop
  <2> QED
    BY <1>3, <2>1 DEF Framed
<1>4. ASSUME Top("generator"), LeaveLoop(2) PROVE Framed(y)
  <2>1. PICK t : t = Tail(stack)
    OBVIOUS
  <2>2. /\ InProgress(stack) = InProgress(t) \cup {Head(stack)} /\ InProgress(t) = InProgress(Tail(t)) \cup {Head(t)}
        /\ Head(t).kind = "resumeNext" /\ Head(stack).kind = "generator" /\ stack' = Tail(t)
    BY <1>4, <2>1, BodyTop DEF LeaveLoop
  <2> QED
    BY <2>2 DEF Framed
<1> QED
  BY <1>2, <1>3, <1>4 DEF Framed

\* An item whose own then method was called may have ended in any way.
LEMMA HookedEnded ==
  ASSUME comb \in Combinator, Counting, NEW i \in comb.hooked, NEW how
  PROVE  Ended(i, how) /\ i \in 1 .. comb.index /\ ~Native(i) /\ i \in Items /\ ~AllNative
<1>1. i \in 1 .. comb.index /\ Item(i) = Hook
  BY DEF Counting, Native
<1>2. Hook \notin Value /\ Promise \cup Plain \cup Poisoned \subseteq Value
  BY CombinatorsAssumption DEF Value
<1>3. Ended(i, how)
  BY <1>1, <1>2 DEF Ended
<1>4. DOMAIN comb.items = 1 .. Len(comb.items) /\ Len(comb.items) \in Nat
  BY DEF Combinator
<1> QED
  BY <1>1, <1>3, <1>4 DEF Counting, Native, Items, AllNative

\* What every step leaves as it is while there is a combinator.
Advances ==
  /\ comb \in Combinator /\ comb' \in Combinator
  /\ comb'.kind = comb.kind /\ comb'.items = comb.items /\ comb'.cap = comb.cap
  /\ comb.hooked \subseteq comb'.hooked /\ (comb.failed => comb'.failed) /\ Reported \subseteq Reported'

LEMMA AdvancesKnown ==
  ASSUME Advances
  PROVE  /\ Items' = Items /\ Items = 1 .. Len(comb.items) /\ Len(comb.items) \in Nat
         /\ comb # NoCombinator /\ comb' # NoCombinator
         /\ (AllNative' <=> AllNative) /\ \A i : Item(i)' = Item(i) /\ (Native(i)' <=> Native(i))
         /\ \A i : ItemReaction(i)' = ItemReaction(i)
<1>1. Items' = Items /\ \A i : Item(i)' = Item(i)
  BY DEF Advances, Items, Item
<1>2. (AllNative' <=> AllNative) /\ \A i : Native(i)' <=> Native(i)
  BY <1>1 DEF AllNative, Native
<1>3. \A i : ItemReaction(i)' = ItemReaction(i)
  BY DEF Advances, ItemReaction, Handlers
<1>4. Items = 1 .. Len(comb.items) /\ Len(comb.items) \in Nat /\ comb # NoCombinator /\ comb' # NoCombinator
  BY DEF Advances, Items, Combinator, NoCombinator, CombinatorKinds
<1> QED
  BY <1>1, <1>2, <1>3, <1>4

LEMMA SameAdvances ==
  ASSUME comb \in Combinator, comb' = comb
  PROVE  Advances
<1>1. Reported' = Reported
  BY DEF Reported, Items
<1> QED
  BY <1>1 DEF Advances

\* How an item ended does not change.
LEMMA EndedStays ==
  ASSUME Advances, Grows(eng, eng'), NEW i, NEW how \in How, Ended(i, how)
  PROVE  Ended(i, how)'
<1>1. ASSUME Item(i) \in Promise PROVE eng'.promise[Item(i)].state = how
  <2>1. eng.promise[Item(i)].state = how
    BY <1>1 DEF Ended
  <2>2. Settled(eng, Item(i))
    BY <2>1 DEF Settled, How
  <2> QED
    BY <1>1, <2>1, <2>2, OutcomeStays
<1>2. Item(i)' = Item(i) /\ comb.hooked \subseteq comb'.hooked
  BY AdvancesKnown DEF Advances
<1> QED
  BY <1>1, <1>2 DEF Ended

\* What fits a settled answer goes on to fit it.
LEMMA DecidedStays ==
  ASSUME Advances, comb.cap \in Made(eng), Counting, Decided,
         NEW H, NEW V, Good(eng, H, V), Good(eng', H, V), Made(eng) \subseteq Made(eng'), Grows(eng, eng'),
         comb.cap \in eng'.resolved => comb.cap \in eng.resolved
  PROVE  Decided'
<1>1. PICK y : y = comb.cap
  OBVIOUS
<1>2. y.of \in Promise /\ comb'.cap = y /\ comb'.kind = comb.kind /\ comb.hooked \subseteq comb'.hooked
      /\ (comb.failed => comb'.failed)
  BY <1>1 DEF Made, Pair, Advances
<1>3. \A i, how : how \in How /\ Ended(i, how) => Ended(i, how)'
  BY EndedStays
<1>4. /\ Items' = Items /\ (AllNative' <=> AllNative) /\ Result' = eng'.promise[y.of] /\ Result = eng.promise[y.of]
      /\ \A i \in Items : comb.values[i] # None => comb'.values[i] # None
  BY <1>1, <1>2, AdvancesKnown DEF Result, Advances, Reported
<1>5. CASE y \notin eng'.resolved
  <2>1. Result'.state = "pending"
    BY <1>1, <1>4, <1>5, LastPairUsed DEF Settled
  <2> QED
    BY <1>2, <1>5, <2>1 DEF Decided, ResultFits
<1>6. CASE y \in eng.resolved /\ Settled(eng, y.of)
  <2>1. Settled(eng', y.of) /\ Result'.state = Result.state
    BY <1>2, <1>4, <1>6, OutcomeStays
  <2>2. Result.state \in How
    BY <1>2, <1>4, <1>6 DEF Good, Engine, PromiseState, Settled
  <2>3. ResultFits /\ How = {"fulfilled", "rejected"}
    BY DEF Decided, How
  <2>4. ResultFits'
    BY <1>2, <1>3, <1>4, <2>1, <2>2, <2>3 DEF ResultFits
  <2> QED
    BY <1>2, <2>1, <2>4 DEF Decided
<1>7. CASE y \in eng'.resolved /\ ~Settled(eng, y.of)
  <2>1. y \in eng.resolved /\ comb.kind \in {"any", "race"} /\ comb.hooked # {} /\ comb \in Combinator
    BY <1>1, <1>7 DEF Decided, Advances
  <2>2. PICK i \in comb.hooked : TRUE
    BY <2>1
  <2>3. Ended(i, "fulfilled") /\ i \in Items /\ ~AllNative /\ "fulfilled" \in How
    BY <2>1, HookedEnded DEF How
  <2>4. Ended(i, "fulfilled")' /\ i \in Items' /\ ~AllNative' /\ comb'.hooked # {}
    BY <1>2, <1>3, <1>4, <2>3
  <2> QED
    BY <1>2, <2>1, <2>4 DEF Decided, ResultFits
<1> QED
  BY <1>1, <1>5, <1>6, <1>7

\* The reactions of the items name only their element functions and those of the result.
LEMMA ItemTells ==
  ASSUME NEW i
  PROVE  /\ \A how \in How : Tells(ItemReaction(i).on[how], comb.cap)
         /\ ItemReaction(i).cap = None
BY DEF Tells, ItemReaction, Handlers, Element, Settler

\* The promise of an item.
LEMMA BecomesStays ==
  ASSUME Advances, Grows(eng, eng'), NEW i, NEW p \in Promise, Becomes(i, p)
  PROVE  Becomes(i, p)'
<1>1. Item(i)' = Item(i)
  BY AdvancesKnown
<1>2. \A how \in How : eng.promise[p].state = how => eng'.promise[p].state = how
  BY OutcomeStays DEF Settled, How
<1> QED
  BY <1>1, <1>2 DEF Becomes, How

\* What was reported is the outcome of a promise that has settled.
LEMMA ReportedSettled ==
  ASSUME comb \in Combinator, Counting, NEW i \in Reported, NEW p, comb.values[i] = Outcome(eng, p)
  PROVE  Settled(eng, p) /\ eng.promise[p].state \in ElementSides(comb.kind)
<1>1. eng.promise[p].state \in ElementSides(comb.kind)
  BY DEF Counting, Outcome
<1>2. "pending" \notin ElementSides(comb.kind)
  BY DEF ElementSides, How, Combinator, CombinatorKinds
<1> QED
  BY <1>1, <1>2 DEF Settled

\* The items that are attached go on to be: z is the one that reports, if any.
StaysDue(w, d, z) == \A i \in Attached \ {z} : Due(eng, w[i], ItemReaction(i)) => Due(d, w[i], ItemReaction(i))
LEMMA GatheringStays ==
  ASSUME Advances, Counting, Grows(eng, eng'), NEW w \in [Items -> Promise], Gathering(w), Attached' = Attached,
         \A P : Promised(P) /\ Gathers(eng, comb.cap, P) => Gathers(eng', comb.cap, P),
         NEW z, comb.cap \in eng'.resolved \/ StaysDue(w, eng', z), z \in Attached => comb.cap \in eng'.resolved \/ z \in Reported',
         \A i \in Attached : i # z => comb'.values[i] = comb.values[i],
         z \in Attached /\ z \in Reported' => comb'.values[z] = Outcome(eng, w[z]) /\ Settled(eng, w[z])
  PROVE  Gathering(w)'
<1>1. PICK P : P = {<<w[i], ItemReaction(i)>> : i \in Attached}
  OBVIOUS
<1>2. Attached \subseteq Items /\ comb'.cap = comb.cap /\ comb \in Combinator
  BY DEF Attached, Items, Counting, Combinator, Advances
<1>3. Promised(P)
  BY <1>1, <1>2 DEF Promised
<1>4. Attached' = Attached /\ Items' = Items /\ \A i : ItemReaction(i)' = ItemReaction(i)
  BY AdvancesKnown
<1>5. Gathers(eng, comb.cap, P)
  BY <1>1 DEF Gathering
<1>6. Gathers(eng', comb.cap, P)
  BY <1>3, <1>5
<1>7. ASSUME NEW i \in Attached
      PROVE  /\ Becomes(i, w[i])'
             /\ i \in Reported' => comb'.values[i] = Outcome(eng', w[i])
             /\ comb.cap \in eng'.resolved \/ i \in Reported' \/ Due(eng', w[i], ItemReaction(i))
  <2>1. w[i] \in Promise /\ i \in Items
    BY <1>2
  <2>2. /\ Becomes(i, w[i])
        /\ i \in Reported => comb.values[i] = Outcome(eng, w[i])
        /\ comb.cap \in eng.resolved \/ i \in Reported \/ Due(eng, w[i], ItemReaction(i))
    BY DEF Gathering
  <2>3. PICK p \in Promise : p = w[i]
    BY <2>1
  <2>4. Becomes(i, p)'
    BY <2>2, <2>3, BecomesStays
  <2>5. i \in Reported' => comb'.values[i] = Outcome(eng', p)
    <3> SUFFICES ASSUME i \in Reported' PROVE comb'.values[i] = Outcome(eng', p)
      OBVIOUS
    <3>1. i # z => i \in Reported
      BY <2>1 DEF Reported
    <3>2. comb'.values[i] = Outcome(eng, p) /\ Settled(eng, p)
      BY <1>2, <2>2, <2>3, <3>1, ReportedSettled
    <3> QED
      BY <3>2, OutcomeStays
  <2>6. comb.cap \in eng'.resolved \/ i \in Reported' \/ Due(eng', w[i], ItemReaction(i))
    BY <2>2 DEF Grows, Advances, StaysDue
  <2> QED
    BY <2>3, <2>4, <2>5, <2>6
<1> QED
  BY <1>1, <1>2, <1>4, <1>6, <1>7 DEF Gathering

\* A step that neither the loop, nor an item, nor the functions of the result take part in.
LEMMA CombiningStays ==
  ASSUME Base, Base', Grows(eng, eng'), comb # NoCombinator, Combining, NEW y, y = comb.cap, comb' = comb,
         Leaving(y, eng, eng', comb), held' \subseteq held \cup Promise \cup (Made(eng') \ {y}), Framed(y)
  PROVE  Combining'
<1>1. /\ comb \in Combinator /\ Secluded /\ Counting /\ Decided
      /\ held \subseteq Promise \cup (Made(eng) \ {y})
  BY CombiningKnown
<1>2. Secluded'
  <2>1. y \notin held' \ Promise
    BY <1>1
  <2>2. \A f \in InProgress(stack') : FrameIn(f, Pair \ {y})
    BY <1>1 DEF Framed, Secluded
  <2> QED
    BY <2>1, <2>2 DEF Secluded
<1>3. Counting'
  <2>1. InLoop' <=> InLoop
    BY DEF Framed, InLoop
  <2>2. eng.resolved \subseteq eng'.resolved
    BY DEF Grows
  <2> QED
    BY <1>1, <2>1, <2>2 DEF Counting, Items, Native, Item, Reported, CalledKey, Countable
<1>4. PICK w \in [Items -> Promise] : Gathering(w)
  BY DEF Combining
<1>5. Gathering(w)'
  <2>1. Advances /\ Reported' = Reported /\ Retains(eng, eng', comb.cap)
    BY <1>1, SameAdvances DEF Reported, Items, Leaving, Leaves
  <2>2. \A i \in Attached : w[i] \in Promise
    BY <1>1, <1>4 DEF Attached, Counting, Items, Combinator
  <2>3. StaysDue(w, eng', 0)
    BY <2>1, <2>2, ItemTells DEF StaysDue, Retains
  <2>4. 0 \notin Attached /\ Attached' = Attached
    BY DEF Attached, Native, Item
  <2> QED
    BY <1>1, <1>4, <2>1, <2>3, <2>4, GatheringStays DEF Retains
<1>6. w \in [Items' -> Promise]
  BY DEF Items
<1>7. Decided'
  <2>1. Good(eng, Handler(comb), Val) /\ Good(eng', Handler(comb), Val) /\ comb.cap \in Made(eng)
    BY CombinatorKnown DEF Base
  <2>2. Made(eng) \subseteq Made(eng') /\ (comb.cap \in eng'.resolved => comb.cap \in eng.resolved)
    BY DEF Leaving, Leaves
  <2>3. Advances
    BY <1>1, SameAdvances
  <2> QED
    BY <1>1, <2>1, <2>2, <2>3, DecidedStays
<1> QED
  BY <1>2, <1>3, <1>5, <1>6, <1>7 DEF Combining

\* The steps of the promises and of suspended code are like this.
Calm(y) ==
  /\ Leaving(y, eng, eng', comb)
  /\ held' \subseteq held \cup Promise \cup (Made(eng') \ {y})
  /\ Framed(y)

LEMMA FrameInPair ==
  ASSUME NEW e, NEW y, NEW f, FrameIn(f, Made(e) \ {y})
  PROVE  FrameIn(f, Pair \ {y})
BY DEF FrameIn, CapIn, Made

\* The operations of scripts.
LEMMA ScriptLeaves ==
  ASSUME Base, comb # NoCombinator, Combining, NEW y, y = comb.cap, Script
  PROVE  Calm(y)
<1>1. /\ Clear(y, eng, comb) /\ held \subseteq Promise \cup (Made(eng) \ {y})
      /\ HeldValue \subseteq Val /\ LogTyped
  BY CombiningKnown, Known
<1> DEFINE p == New(eng)
           d == Create(eng)
<1>2. Fresh(eng) # {} => /\ Leaving(y, eng, d, comb) /\ Clear(y, d, comb) /\ p \in Promise
                         /\ Cap(p) \in Made(d) \ {y} /\ Cap(p) \in Capability
  <2>1. Fresh(eng) # {} => /\ Leaving(y, eng, d, comb) /\ p \in Promise /\ Cap(p) \in Made(d) \ {y}
    BY <1>1, CreateLeaves
  <2> QED
    BY <2>1 DEF Made, Capability, Leaving
<1>3. CASE Construct
  <2> DEFINE f == [kind |-> "settler", pair |-> Cap(p)]
  <2>1. Leaving(y, eng, eng', comb) /\ held' \subseteq held \cup Promise \cup (Made(eng') \ {y})
    BY <1>2, <1>3 DEF Construct
  <2>2. FrameIn(f, Made(eng') \ {y}) /\ stack' = <<f>> \o stack /\ f.kind # "combine"
    BY <1>2, <1>3 DEF Construct, FrameIn
  <2> HIDE DEF f
  <2>3. Framed(y)
    BY <2>2, FrameInPair, FramesStand
  <2> QED
    BY <2>1, <2>3 DEF Calm
<1>4. CASE WithResolvers
  <2>1. Leaving(y, eng, eng', comb) /\ held' \subseteq held \cup Promise \cup (Made(eng') \ {y}) /\ stack' = stack
    BY <1>2, <1>4 DEF WithResolvers
  <2> QED
    BY <2>1, FramesStand DEF Calm
<1>5. CASE Try
  <2> DEFINE f == [kind |-> "callback", cap |-> Cap(p)]
  <2>1. Leaving(y, eng, eng', comb) /\ held' \subseteq held \cup Promise \cup (Made(eng') \ {y})
    BY <1>2, <1>5 DEF Try
  <2>2. FrameIn(f, Made(eng') \ {y}) /\ stack' = <<f>> \o stack /\ f.kind # "combine"
    BY <1>2, <1>5 DEF Try, FrameIn, CapIn
  <2> HIDE DEF f
  <2>3. Framed(y)
    BY <2>2, FrameInPair, FramesStand
  <2> QED
    BY <2>1, <2>3 DEF Calm
<1>6. ASSUME NEW how \in How, NEW v \in HeldValue, MakeSettled(how, v) PROVE Calm(y)
  <2>1. Fresh(eng) # {} /\ eng' = ResolvingCall(d, Cap(p), how, v) /\ v \in Val
        /\ held' = held \cup {p} /\ stack' = stack
    BY <1>1, <1>6 DEF MakeSettled
  <2>2. Leaving(y, d, eng', comb)
    BY <1>2, <2>1, CallLeaves
  <2>3. Leaving(y, eng, eng', comb)
    BY <1>2, <2>1, <2>2, LeavingTransitive
  <2> QED
    BY <1>2, <2>1, <2>3, FramesStand DEF Calm
<1>7. ASSUME NEW pair \in held \ Promise, NEW how \in How, NEW v \in HeldValue, CallResolving(pair, how, v)
      PROVE  Calm(y)
  <2>1. eng' = ResolvingCall(eng, pair, how, v) /\ v \in Val /\ held' = held /\ stack' = stack
    BY <1>1, <1>7 DEF CallResolving
  <2>2. pair \in Made(eng) \ {y}
    BY <1>1
  <2>3. Leaving(y, eng, eng', comb)
    BY <1>1, <2>1, <2>2, CallLeaves
  <2> QED
    BY <2>1, <2>3, FramesStand DEF Calm
<1>8. ASSUME NEW o \in held \cap Promise, NEW sides \in SUBSET How, NEW fn \in {"callback", "finally"}, Register(o, sides, fn)
      PROVE  Calm(y)
  <2> DEFINE on == [how \in How |-> IF how \in sides THEN Callback(fn, Len(log.registered) + 1) ELSE Undefined]
  <2>1. Fresh(eng) # {} /\ eng' = Then(d, o, on, Cap(p)) /\ held' = held \cup {p} /\ stack' = stack
    BY <1>8 DEF Register
  <2>2. Len(log.registered) + 1 \in Nat
    BY <1>1 DEF LogTyped
  <2>3. Callback(fn, Len(log.registered) + 1) \in Handler(comb) /\ Undefined \in Handler(comb)
        /\ Callback(fn, Len(log.registered) + 1).fn \notin {"settle", "element"} /\ Undefined.fn \notin {"settle", "element"}
    BY <2>2 DEF Callback, Handler, Undefined
  <2>4. on \in [How -> Handler(comb)] /\ \A how \in How : on[how].fn \notin {"settle", "element"}
    BY <2>3
  <2> HIDE DEF on, d, p
  <2>5. ReactionIn([on |-> on, cap |-> Cap(p)], Made(d) \ {y})
    BY <1>2, <2>1, <2>4 DEF ReactionIn, CapIn, HandlerIn
  <2>6. Leaving(y, d, eng', comb)
    BY <1>2, <2>1, <2>4, <2>5, ThenLeaves
  <2>7. Leaving(y, eng, eng', comb)
    BY <1>2, <2>1, <2>6, LeavingTransitive
  <2> QED
    BY <1>2, <2>1, <2>7, FramesStand DEF Calm
<1>9. ASSUME NEW o \in held \cap Promise, (\E sides \in SUBSET How : CallThen(o, sides)) \/ CallFinally(o)
      PROVE  Calm(y)
  <2>1. \A sides \in SUBSET How : CallThen(o, sides) => Calm(y)
    BY <1>8 DEF CallThen
  <2>2. CallFinally(o) => Calm(y)
    BY <1>8 DEF CallFinally
  <2> QED
    BY <1>9, <2>1, <2>2
<1> QED
  BY <1>3, <1>4, <1>5, <1>6, <1>7, <1>9 DEF Script

\* The ends of the functions of scripts.
LEMMA ScriptEndsLeaves ==
  ASSUME Base, comb # NoCombinator, Combining, NEW y, y = comb.cap, ScriptEnds
  PROVE  Calm(y)
<1>1. /\ Clear(y, eng, comb) /\ Leaving(y, eng, eng, comb) /\ HeldValue \subseteq Val
      /\ \A f \in InProgress(stack) : FrameIn(f, Made(eng) \ {y})
      /\ stack # <<>> => Head(stack) \in InProgress(stack) /\ Head(stack) \in Frame(comb)
  BY CombiningKnown, Known
<1> DEFINE f == Head(stack)
<1>2. ASSUME NEW kind \in {"callback", "settler", "finally"}, Top(kind), Pop
      PROVE  Framed(y) /\ FrameIn(f, Made(eng) \ {y}) /\ f.kind = kind
  BY <1>1, <1>2, FramesStand DEF Top, Pop
<1>3. ASSUME NEW v \in HeldValue, NEW how \in How, CallbackEnds(how, v) PROVE Calm(y)
  <2>1. Framed(y) /\ CapIn(f.cap, Made(eng) \ {y}) /\ v \in Val /\ held' = held
    BY <1>1, <1>2, <1>3 DEF CallbackEnds, FrameIn
  <2>2. Leaving(y, eng, eng', comb)
    BY <1>1, <1>3, <2>1, FinishLeaves DEF CallbackEnds
  <2> QED
    BY <2>1, <2>2 DEF Calm
<1>4. ASSUME NEW v \in HeldValue, NEW how \in How, SettlerEnds(how, v) PROVE Calm(y)
  <2>1. Framed(y) /\ f.pair \in Made(eng) \ {y} /\ v \in Val /\ held' = held
    BY <1>1, <1>2, <1>4 DEF SettlerEnds, FrameIn
  <2>2. Leaving(y, eng, ResolvingCall(eng, f.pair, "rejected", v), comb)
    BY <1>1, <2>1, CallLeaves DEF How
  <2>3. Leaving(y, eng, eng', comb)
    BY <1>1, <1>4, <2>2 DEF SettlerEnds
  <2> QED
    BY <2>1, <2>3 DEF Calm
<1>5. ASSUME Top("finally") PROVE f.how \in How /\ f.arg \in Val
  <2>1. f \in Frame(comb) /\ f.kind = "finally"
    BY <1>1, <1>5 DEF Top
  <2> HIDE DEF f
  <2>2. f \in [kind : {"callback", "finally"}, id : Nat, cap : Capability, how : How, arg : Val]
    BY <2>1 DEF Frame, GeneratorBody
  <2> QED
    BY <2>2
<1>6. ASSUME NEW v \in HeldValue, FinallyReturns(v) PROVE Calm(y)
  <2> DEFINE d == Wrap(eng, v)
             p == Wrapped(eng, v)
             b == Create(d)
             on == [how \in How |-> IF how = "fulfilled" THEN Thunk(f.how, f.arg) ELSE Undefined]
             c == Then(b, p, on, Cap(New(d)))
  <2>1. /\ Framed(y) /\ CapIn(f.cap, Made(eng) \ {y})
        /\ v \in Val /\ held' = held /\ Fresh(d) # {} /\ (v \notin Promise => Fresh(eng) # {})
        /\ f.how \in How /\ f.arg \in Val
    BY <1>1, <1>2, <1>5, <1>6 DEF FinallyReturns, FrameIn
  <2>2. Leaving(y, eng, d, comb) /\ Clear(y, d, comb) /\ p \in Promise
    BY <1>1, <2>1, WrapLeaves DEF Leaving
  <2>3. Leaving(y, d, b, comb) /\ Clear(y, b, comb) /\ New(d) \in Promise /\ Cap(New(d)) \in Made(b) \ {y}
    BY <2>1, <2>2, CreateLeaves DEF Leaving
  <2>4. Thunk(f.how, f.arg) \in Handler(comb) /\ Undefined \in Handler(comb)
        /\ Thunk(f.how, f.arg).fn \notin {"settle", "element"} /\ Undefined.fn \notin {"settle", "element"}
    BY <2>1 DEF Thunk, Handler, Undefined
  <2>5. on \in [How -> Handler(comb)] /\ \A how \in How : on[how].fn \notin {"settle", "element"}
    BY <2>4
  <2>6. eng' = Finish(c, f.cap, "fulfilled", New(d)) /\ New(d) \in Val /\ "fulfilled" \in How
    BY <1>6, <2>3 DEF FinallyReturns, AfterFinally, Val, Value, How
  <2>7. Cap(New(d)) \in Capability
    BY <2>3 DEF Made, Capability
  <2> HIDE DEF on, b, d, p
  <2>8. ReactionIn([on |-> on, cap |-> Cap(New(d))], Made(b) \ {y})
    BY <2>3, <2>5 DEF ReactionIn, CapIn, HandlerIn
  <2>9. Leaving(y, b, c, comb)
    BY <2>2, <2>3, <2>5, <2>7, <2>8, ThenLeaves
  <2> HIDE DEF c
  <2>10. Leaving(y, eng, c, comb)
    BY <2>2, <2>3, <2>9, LeavingTransitive
  <2>11. CapIn(f.cap, Made(c) \ {y}) /\ Clear(y, c, comb)
    BY <2>1, <2>10 DEF CapIn, Leaving
  <2>12. Leaving(y, c, eng', comb)
    BY <2>6, <2>11, FinishLeaves
  <2>13. Leaving(y, eng, eng', comb)
    BY <2>10, <2>12, LeavingTransitive
  <2> QED
    BY <2>1, <2>13 DEF Calm
<1>7. ASSUME NEW v \in HeldValue, FinallyThrows(v) PROVE Calm(y)
  <2>1. Framed(y) /\ CapIn(f.cap, Made(eng) \ {y}) /\ v \in Val /\ held' = held
    BY <1>1, <1>2, <1>7 DEF FinallyThrows, FrameIn
  <2>2. "rejected" \in How
    BY DEF How
  <2>3. Leaving(y, eng, eng', comb)
    BY <1>1, <1>7, <2>1, <2>2, FinishLeaves DEF FinallyThrows
  <2> QED
    BY <2>1, <2>3 DEF Calm
<1> QED
  BY <1>3, <1>4, <1>6, <1>7 DEF ScriptEnds

\* A job that reports is that of an item, and calls one of its functions.
LEMMA ReportingJob ==
  ASSUME Base, comb \in Combinator, Counting, NEW w \in [Items -> Promise], Gathering(w),
         JobRuns("reaction"), JobReports(Job, comb.cap)
  PROVE  \E i \in Attached :
           /\ i \in Items /\ Settled(eng, w[i]) /\ eng.promise[w[i]].state \in How
           /\ Job = JobOf(eng, ItemReaction(i), w[i]) /\ Job.handler = Handlers(i)[eng.promise[w[i]].state]
           /\ Job.cap = None /\ <<Job.how, Job.arg>> = Outcome(eng, w[i]) /\ Tells(Job.handler, comb.cap)
<1>1. eng \in Engine(Handler(comb), Val) /\ eng.jobs # <<>>
  BY DEF Base, Good, JobRuns
<1>2. 1 \in DOMAIN eng.jobs /\ eng.jobs[1] = Job
  <2>1. eng.jobs \in Seq(AJob(Handler(comb), Val))
    BY <1>1 DEF Engine, AJob
  <2> QED
    BY <1>1, <2>1 DEF Job
<1>3. PICK x \in {<<w[i], ItemReaction(i)>> : i \in Attached} :
        Settled(eng, x[1]) /\ Job = JobOf(eng, x[2], x[1])
  BY <1>2 DEF Gathering, Gathers
<1>4. PICK i \in Attached : x = <<w[i], ItemReaction(i)>>
  BY <1>3
<1>5. i \in Items /\ w[i] \in Promise
  BY DEF Attached, Items, Counting, Combinator
<1>6. PICK p \in Promise : p = w[i]
  BY <1>5
<1>7. Settled(eng, p) /\ Job = JobOf(eng, ItemReaction(i), p)
  BY <1>3, <1>4, <1>6
<1>8. eng.promise[p].state \in How
  BY <1>1, <1>7 DEF Settled, Engine, PromiseState
<1>9. /\ Job.handler = Handlers(i)[eng.promise[p].state] /\ Job.cap = None
      /\ <<Job.how, Job.arg>> = Outcome(eng, p)
  BY <1>7 DEF JobOf, ReactionJob, ItemReaction, Outcome
<1>10. Tells(Job.handler, comb.cap)
  BY <1>8, <1>9 DEF Tells, Handlers, Element, Settler
<1> QED
  BY <1>5, <1>6, <1>7, <1>8, <1>9, <1>10

\* The first job, if it is the job of a reaction and calls no such function.
LEMMA JobLeaves ==
  ASSUME Base, comb # NoCombinator, Combining, NEW y, y = comb.cap, JobRuns("reaction"), ~Tells(Job.handler, y)
  PROVE  /\ Leaving(y, eng, Popped, comb) /\ Clear(y, Popped, comb) /\ Job \in ReactionJobs(Handler(comb), Val)
         /\ Job.how \in How /\ Job.arg \in Val /\ Job.handler \in Handler(comb)
         /\ CapIn(Job.cap, Made(Popped) \ {y}) /\ HandlerIn(Job.handler, Made(Popped) \ {y})
<1>1. Clear(y, eng, comb) /\ comb \in Combinator /\ Counting
  BY CombiningKnown
<1>2. ~JobReports(Job, y)
  BY <1>1, ReportingJob DEF Combining
<1>3. eng.jobs # <<>> /\ Head(eng.jobs).kind = "reaction" /\ Job = Head(eng.jobs)
  BY DEF JobRuns, Job
<1>4. /\ Leaving(y, eng, Popped, comb) /\ Job \in ReactionJobs(Handler(comb), Val)
      /\ CapIn(Job.cap, Made(Popped) \ {y}) /\ HandlerIn(Job.handler, Made(Popped) \ {y})
  BY <1>1, <1>2, <1>3, PopLeaves DEF Popped
<1> QED
  BY <1>4 DEF Leaving, ReactionJobs

\* Jobs.
LEMMA RunJobLeaves ==
  ASSUME Base, comb # NoCombinator, Combining, NEW y, y = comb.cap, RunJob, ~(RunSettler /\ Job.handler.pair = y)
  PROVE  Calm(y)
<1>1. Clear(y, eng, comb)
  BY CombiningKnown
<1> DEFINE d == Popped
<1>2. ASSUME NEW fn, fn # "element", Reacts(fn), fn = "settle" => Job.handler.pair # y
      PROVE  /\ Leaving(y, eng, d, comb) /\ Clear(y, d, comb) /\ stack = <<>>
             /\ CapIn(Job.cap, Made(d) \ {y}) /\ HandlerIn(Job.handler, Made(d) \ {y})
             /\ Job.how \in How /\ Job.arg \in Val /\ Job.handler \in Handler(comb)
             /\ Job.handler.fn = fn
  <2>1. ~Tells(Job.handler, y) /\ JobRuns("reaction") /\ stack = <<>> /\ Job.handler.fn = fn
    BY <1>2 DEF Reacts, JobRuns, Tells
  <2> QED
    BY <2>1, JobLeaves
<1> HIDE DEF d
<1>3. CASE PassOn
  <2>1. Leaving(y, d, eng', comb) /\ Leaving(y, eng, d, comb) /\ stack' = stack /\ held' = held
    BY <1>2, <1>3, FinishLeaves DEF PassOn, d
  <2>2. Leaving(y, eng, eng', comb)
    BY <2>1, LeavingTransitive
  <2> QED
    BY <2>1, <2>2, FramesStand DEF Calm
<1>4. CASE RunSettler
  <2>1. /\ Leaving(y, eng, d, comb) /\ Clear(y, d, comb) /\ HandlerIn(Job.handler, Made(d) \ {y})
        /\ Job.arg \in Val /\ Job.handler \in Handler(comb) /\ Job.handler.fn = "settle"
        /\ eng' = ResolvingCall(d, Job.handler.pair, Job.handler.how, Job.arg) /\ stack' = stack /\ held' = held
    BY <1>2, <1>4 DEF RunSettler, d
  <2>2. Job.handler.pair \in Made(d) \ {y} /\ Job.handler.how \in How
    BY <2>1 DEF HandlerIn, Handler, Undefined, Resume, Continued, Returned
  <2>3. Leaving(y, d, eng', comb)
    BY <2>1, <2>2, CallLeaves
  <2>4. Leaving(y, eng, eng', comb)
    BY <2>1, <2>3, LeavingTransitive
  <2> QED
    BY <2>1, <2>4, FramesStand DEF Calm
<1>5. CASE RunThunk
  <2>1. /\ Leaving(y, eng, d, comb) /\ Clear(y, d, comb) /\ CapIn(Job.cap, Made(d) \ {y})
        /\ Job.handler \in Handler(comb) /\ Job.handler.fn = "thunk"
        /\ eng' = Finish(d, Job.cap, Job.handler.how, Job.handler.arg) /\ stack' = stack /\ held' = held
    BY <1>2, <1>5 DEF RunThunk, d
  <2>2. Job.handler.how \in How /\ Job.handler.arg \in Val
    BY <2>1 DEF Handler, Undefined, Resume, Continued, Returned
  <2>3. Leaving(y, d, eng', comb)
    BY <2>1, <2>2, FinishLeaves
  <2>4. Leaving(y, eng, eng', comb)
    BY <2>1, <2>3, LeavingTransitive
  <2> QED
    BY <2>1, <2>4, FramesStand DEF Calm
<1>6. CASE RunCallback
  <2> DEFINE f == [kind |-> Job.handler.fn, id |-> Job.handler.id, cap |-> Job.cap, how |-> Job.how, arg |-> Job.arg]
  <2>1. /\ Leaving(y, eng, eng', comb) /\ CapIn(Job.cap, Made(eng') \ {y}) /\ stack = <<>> /\ held' = held
        /\ Job.handler.fn \in {"callback", "finally"}
    BY <1>2, <1>6 DEF RunCallback, d
  <2>2. stack' = <<f>> \o stack
    BY <1>6, <2>1 DEF RunCallback
  <2>3. FrameIn(f, Made(eng') \ {y}) /\ f.kind # "combine"
    BY <2>1 DEF FrameIn
  <2> HIDE DEF f
  <2>4. Framed(y)
    BY <2>2, <2>3, FrameInPair, FramesStand
  <2> QED
    BY <2>1, <2>4 DEF Calm
<1>7. CASE RunThenable
  <2> DEFINE pair == NewPair(eng, Job.promise)
             e == CreateResolvingFunctions(Popped, Job.promise)
  <2>1. Leaving(y, eng, e, comb) /\ Clear(y, e, comb) /\ Job \in ThenableJobs /\ pair \in Made(e) \ {y}
    <3>1. eng.jobs # <<>> /\ Head(eng.jobs).kind = "thenable" /\ Job = Head(eng.jobs)
      BY <1>7 DEF RunThenable, JobRuns, Job
    <3>2. Leaving(y, eng, e, comb) /\ Job \in ThenableJobs /\ pair \in Made(e) \ {y}
      BY <1>1, <3>1, AdoptLeaves DEF Popped
    <3> QED
      BY <3>2 DEF Leaving
  <2>2. stack = <<>> /\ pair \in Pair
    BY <1>7, <2>1 DEF RunThenable, JobRuns, Made
  <2>3. CASE Job.thenable \in Promise
    <3> DEFINE on == [how \in How |-> Settler(pair, how)]
    <3>1. eng' = Then(e, Job.thenable, on, None) /\ stack' = stack /\ held' = held
      BY <1>7, <2>3 DEF RunThenable
    <3>2. \A how \in How : Settler(pair, how) \in Handler(comb) /\ Settler(pair, how).pair = pair
            /\ Settler(pair, how).fn # "element"
      BY <2>2 DEF Settler, Handler
    <3>3. on \in [How -> Handler(comb)] /\ \A how \in How : on[how].pair = pair /\ on[how].fn # "element"
      BY <3>2
    <3> HIDE DEF on, e, pair
    <3>4. None \in Capability /\ ReactionIn([on |-> on, cap |-> None], Made(e) \ {y})
      BY <2>1, <3>3 DEF Capability, ReactionIn, CapIn, HandlerIn
    <3>5. Leaving(y, e, eng', comb)
      BY <2>1, <2>3, <3>1, <3>3, <3>4, ThenLeaves
    <3>6. Leaving(y, eng, eng', comb)
      BY <2>1, <3>5, LeavingTransitive
    <3> QED
      BY <3>1, <3>6, FramesStand DEF Calm
  <2>4. CASE Job.thenable \notin Promise
    <3> DEFINE f == [kind |-> "settler", pair |-> pair]
    <3>1. eng' = e /\ held' = held \cup {pair} /\ stack' = <<f>> \o stack
      BY <1>7, <2>2, <2>4 DEF RunThenable
    <3>2. FrameIn(f, Made(eng') \ {y}) /\ f.kind # "combine"
      BY <2>1, <3>1 DEF FrameIn
    <3> HIDE DEF f, e, pair
    <3>3. Framed(y)
      BY <3>1, <3>2, FrameInPair, FramesStand
    <3> QED
      BY <2>1, <3>1, <3>3 DEF Calm
  <2> QED
    BY <2>3, <2>4
<1> QED
  BY <1>3, <1>4, <1>5, <1>6, <1>7 DEF RunJob

\* Async functions.
LEMMA AsyncLeaves ==
  ASSUME Base, Owning, comb # NoCombinator, Combining, NEW y, y = comb.cap,
         AwaitFails \/ RunResume \/ (\E a \in Activation : CallAsync(a))
         \/ \E v \in HeldValue : Await(v) \/ \E how \in How : BodyEnds(how, v)
  PROVE  Calm(y)
<1>1. Clear(y, eng, comb) /\ Leaving(y, eng, eng, comb) /\ HeldValue \subseteq Val
  BY CombiningKnown, Known
<1>2. ASSUME NEW a \in Activation, CallAsync(a) PROVE Calm(y)
  <2>1. PICK f : f = Body(a, None)
    OBVIOUS
  <2>2. Fresh(eng) # {} /\ eng' = Create(eng) /\ held' = held /\ stack' = <<f>> \o stack
        /\ f.kind = "async"
    BY <1>2, <2>1 DEF CallAsync, Body
  <2>3. Leaving(y, eng, eng', comb)
    BY <1>1, <2>2, CreateLeaves
  <2>4. FrameIn(f, Pair \ {y})
    BY <2>2 DEF FrameIn
  <2> QED
    BY <2>2, <2>3, <2>4, FramesStand DEF Calm
<1>3. ASSUME NEW v \in HeldValue, Await(v) PROVE Calm(y)
  <2>1. PICK a : a = Me
    OBVIOUS
  <2>2. PICK h : h = Resume(a)
    OBVIOUS
  <2>3. /\ Top("async") /\ a = Head(stack).of
        /\ stack' = Tail(stack) /\ held' = held \cup {act[a].cap.of}
        /\ eng' = AwaitOn(eng, v, [how \in How |-> h]) /\ (v \notin Promise => Fresh(eng) # {})
    BY <1>3, <2>1, <2>2 DEF Await, Me, LeaveBody, Pop, Continue, Resume, CanAwait
  <2>4. a \in Activation /\ act[a].cap.of \in Promise
    BY <2>3, BodyKnown
  <2>5. h \in Control /\ h \in Handler(comb) /\ v \in Val
    BY <1>1, <2>2, <2>4 DEF Control, Handler
  <2>6. Leaving(y, eng, eng', comb)
    BY ONLY <1>1, <2>3, <2>5, AwaitLeaves
  <2>7. Framed(y)
    BY <2>3, FramesStand DEF Top
  <2> QED
    BY <2>3, <2>4, <2>6, <2>7 DEF Calm
<1>4. ASSUME AwaitFails \/ \E how \in How, v \in HeldValue : BodyEnds(how, v) PROVE Calm(y)
  <2>1. PICK a : a = Me
    OBVIOUS
  <2>2. PICK x : x = act[a].cap
    BY SMTT(60)
  <2>3. /\ Top("async") /\ a = Head(stack).of
        /\ stack' = Tail(stack) /\ held' = held \cup {x.of}
    BY <1>4, <2>1, <2>2 DEF BodyEnds, AwaitFails, Me, LeaveBody, Pop
  <2>4. PICK how \in How, v \in Val : eng' = ResolvingCall(eng, x, how, v)
    BY <1>1, <1>4, <2>1, <2>2 DEF BodyEnds, AwaitFails, Val, Value, How
  <2>5. a \in Activation /\ x.of \in Promise /\ x \in Made(eng) /\ Active(a)
    BY <2>2, <2>3, BodyKnown DEF Active
  <2>6. x \in Owned /\ y \notin Owned
    BY <2>2, <2>5, OwnedKnown DEF Owning, Private
  <2>7. Leaving(y, eng, eng', comb)
    BY <1>1, <2>4, <2>5, <2>6, CallLeaves
  <2>8. Framed(y)
    BY <2>3, FramesStand DEF Top
  <2> QED
    BY <2>3, <2>5, <2>7, <2>8 DEF Calm
<1>5. CASE RunResume
  <2>1. PICK f : f = Body(Job.handler.of, <<Job.how, Job.arg>>)
    OBVIOUS
  <2>2. /\ JobRuns("reaction") /\ Job.handler.fn = "resume" /\ stack = <<>>
        /\ eng' = Popped /\ stack' = <<f>> \o stack /\ held' = held /\ f.kind = "async"
    BY <1>5, <2>1 DEF RunResume, Reacts, JobRuns, Body
  <2>3. Leaving(y, eng, eng', comb)
    BY <2>2, JobLeaves DEF Tells
  <2>4. FrameIn(f, Pair \ {y})
    BY <2>2 DEF FrameIn
  <2> QED
    BY <2>2, <2>3, <2>4, FramesStand DEF Calm
<1> QED
  BY <1>2, <1>3, <1>4, <1>5

\* The rounds of the generator's loop that answer nothing.
LEMMA RoundLeaves ==
  ASSUME Base, comb # NoCombinator, Combining, NEW y, y = comb.cap,
         NoRequest \/ EnterBody \/ NeverStarted \/ RunContinue \/ \E v \in HeldValue : GeneratorAwaits(v)
  PROVE  Calm(y)
<1>1. /\ Clear(y, eng, comb) /\ Leaving(y, eng, eng, comb) /\ HeldValue \subseteq Val
      /\ Continued \in Control /\ Continued \in Handler(comb)
  BY CombiningKnown, Known, GeneratorKnown
<1>2. CASE NoRequest
  <2>1. eng' = eng /\ Top("resumeNext") /\ LeaveLoop(1)
    BY <1>2 DEF NoRequest
  <2>2. stack # <<>> /\ stack' = Tail(stack) /\ Head(stack).kind = "resumeNext" /\ held' \subseteq held \cup Promise
    BY <2>1, LoopKnown DEF LeaveLoop
  <2> QED
    BY <1>1, <2>1, <2>2, FramesStand DEF Calm
<1>3. CASE EnterBody
  <2>1. UNCHANGED <<eng, held>> /\ stack' = <<GeneratorBody>> \o stack
    BY <1>3 DEF EnterBody
  <2>2. GeneratorBody.kind = "generator" /\ FrameIn(GeneratorBody, Pair \ {y})
    BY DEF GeneratorBody, FrameIn
  <2> QED
    BY <1>1, <2>1, <2>2, FramesStand DEF Calm
<1>4. CASE NeverStarted
  <2>1. UNCHANGED <<eng, stack, held>>
    BY <1>4 DEF NeverStarted
  <2> QED
    BY <1>1, <2>1, FramesStand DEF Calm
<1>5. CASE RunContinue
  <2>1. PICK f : f = ResumeNext(None)
    OBVIOUS
  <2>2. held' = held /\ JobRuns("reaction") /\ Job.handler.fn = "continue" /\ eng' = Popped
        /\ (stack' = stack \/ stack' = <<f>> \o stack) /\ f.kind = "resumeNext"
    BY <1>5, <2>1 DEF RunContinue, Reacts, JobRuns, ResumeNext
  <2>3. Leaving(y, eng, eng', comb)
    BY <2>2, JobLeaves DEF Tells
  <2>4. FrameIn(f, Pair \ {y})
    BY <2>2 DEF FrameIn
  <2> QED
    BY <2>2, <2>3, <2>4, FramesStand DEF Calm
<1>6. ASSUME NEW v \in HeldValue, GeneratorAwaits(v) PROVE Calm(y)
  <2>1. PICK h : h = Continued
    OBVIOUS
  <2>2. /\ Top("generator") /\ LeaveLoop(2) /\ (v \notin Promise => Fresh(eng) # {})
        /\ eng' = AwaitOn(eng, v, [how \in How |-> h]) /\ v \in Val /\ h \in Control /\ h \in Handler(comb)
    BY <1>1, <1>6, <2>1 DEF GeneratorAwaits, CanAwait, Continue, Continued
  <2>3. Leaving(y, eng, eng', comb)
    BY ONLY <1>1, <2>2, AwaitLeaves
  <2>4. held' \subseteq held \cup Promise
    BY <2>2, BodyTop DEF LeaveLoop
  <2> QED
    BY <2>2, <2>3, <2>4, FramesStand DEF Calm
<1> QED
  BY <1>2, <1>3, <1>4, <1>5, <1>6

\* Requests.
LEMMA CallGeneratorLeaves ==
  ASSUME Base, comb # NoCombinator, Combining, NEW y, y = comb.cap,
         NEW type \in {"next", "return", "throw"}, NEW v \in HeldValue, CallGenerator(type, v)
  PROVE  Calm(y)
<1>1. PICK f : f = ResumeNext(New(eng))
  OBVIOUS
<1>2. /\ Fresh(eng) # {} /\ eng' = Create(eng) /\ f.kind = "resumeNext"
      /\ held' \subseteq held \cup {New(eng)} /\ (stack' = stack \/ stack' = <<f>> \o stack)
  BY <1>1 DEF CallGenerator, ResumeNext
<1>3. Clear(y, eng, comb)
  BY CombiningKnown
<1>4. Leaving(y, eng, eng', comb) /\ New(eng) \in Promise
  BY <1>2, <1>3, CreateLeaves
<1>5. FrameIn(f, Pair \ {y})
  BY <1>2 DEF FrameIn
<1> QED
  BY <1>2, <1>4, <1>5, FramesStand DEF Calm

\* Answers.
LEMMA AnswerLeaves ==
  ASSUME Base, Owning, comb # NoCombinator, Combining, NEW y, y = comb.cap,
         Yield \/ AnswerCompleted \/ RunReturned \/ \E how \in How, v \in HeldValue : GeneratorEnds(how, v)
  PROVE  Calm(y)
<1>1. Clear(y, eng, comb) /\ Leaving(y, eng, eng, comb)
  BY CombiningKnown
<1>2. ASSUME Answering, Framed(y), JobRuns("reaction") => Job.handler.fn = "returned" PROVE Calm(y)
  <2>1. PICK e : \E how \in How, u \in Val, state \in {"suspendedYield", "completed"}, v \in Val :
                   AnswerStep(e, how, u, state, v)
    BY <1>2 DEF Answering
  <2>2. PICK how \in How, u \in Val, state \in {"suspendedYield", "completed"}, v \in Val :
          AnswerStep(e, how, u, state, v)
    BY <2>1
  <2>3. PICK x : x = Head1.pair
    OBVIOUS
  <2>4. /\ gen.queue # <<>> /\ x \in Owned /\ eng' = ResolvingCall(e, x, how, u)
        /\ (e = eng \/ (JobRuns("reaction") /\ e = Popped)) /\ held' \subseteq held \cup Promise
    BY <2>2, <2>3 DEF AnswerStep, Answer
  <2>5. Leaving(y, eng, e, comb)
    BY <1>1, <1>2, <2>4, JobLeaves DEF Tells
  <2>6. x \in Made(eng) /\ y \notin Owned
    BY <2>3, <2>4, GeneratorKnown DEF Owning, Private
  <2>7. x \in Made(e) \ {y} /\ Clear(y, e, comb)
    BY <2>4, <2>5, <2>6 DEF Leaving
  <2>8. Leaving(y, e, eng', comb)
    BY <2>4, <2>7, CallLeaves
  <2>9. Leaving(y, eng, eng', comb)
    BY <2>5, <2>8, LeavingTransitive
  <2> QED
    BY <1>2, <2>4, <2>9 DEF Calm
<1>3. CASE Yield \/ \E how \in How, v \in HeldValue : GeneratorEnds(how, v)
  <2>1. Top("generator") /\ stack' = Tail(stack)
    BY <1>3 DEF Yield, GeneratorEnds, Pop
  <2>2. stack # <<>> /\ Head(stack).kind = "generator" /\ ~JobRuns("reaction")
    BY <2>1 DEF Top, JobRuns
  <2>3. Answering /\ Framed(y)
    BY <1>3, <2>1, <2>2, AnswersAre, FramesStand
  <2> QED
    BY <1>2, <2>2, <2>3
<1>4. CASE RunReturned
  <2>1. Job.handler.fn = "returned" /\ stack' = stack
    BY <1>4 DEF RunReturned, Reacts
  <2>2. Answering /\ Framed(y)
    BY <1>4, <2>1, AnswersAre, FramesStand
  <2> QED
    BY <1>2, <2>1, <2>2
<1>5. CASE AnswerCompleted
  <2>1. Top("resumeNext") /\ LeaveLoop(1)
    BY <1>5 DEF AnswerCompleted, Looping
  <2>2. stack # <<>> /\ stack' = Tail(stack) /\ Head(stack).kind = "resumeNext" /\ held' \subseteq held \cup Promise
    BY <2>1, LoopKnown DEF LeaveLoop
  <2>3. Framed(y) /\ ~JobRuns("reaction")
    BY <2>2, FramesStand DEF JobRuns
  <2>4. CASE Head1.type # "return"
    <3>1. Answering
      BY <1>5, <2>4, AnswersAre
    <3> QED
      BY <1>2, <2>3, <3>1
  <2>5. CASE Head1.type = "return"
    <3>1. PICK v : v = Head1.value
      OBVIOUS
    <3>2. PICK h : h = Returned
      OBVIOUS
    <3>3. /\ gen.queue # <<>> /\ eng' = AwaitOn(eng, v, [how \in How |-> h]) /\ (v \notin Promise => Fresh(eng) # {})
      BY <1>5, <2>5, <3>1, <3>2 DEF AnswerCompleted, Looping, CanAwait, Continue, Returned
    <3>4. h \in Control /\ h \in Handler(comb) /\ v \in Val
      BY <3>1, <3>2, <3>3, GeneratorKnown
    <3>5. Leaving(y, eng, eng', comb)
      BY ONLY <1>1, <3>3, <3>4, AwaitLeaves
    <3> QED
      BY <2>2, <2>3, <3>5 DEF Calm
  <2> QED
    BY <2>4, <2>5
<1> QED
  BY <1>3, <1>4, <1>5

-----------------------------------------------------------------------------
(* Steps the combinator takes part in.                                     *)

\* The frames of a step of the combinator refer to y as little as those before.
LEMMA SecludedStays ==
  ASSUME Base, comb \in Combinator, Secluded, comb'.cap = comb.cap, held' \subseteq held \cup Promise,
         \A f \in InProgress(stack') : f \in InProgress(stack) \/ FrameIn(f, Pair \ {comb.cap})
  PROVE  Secluded'
BY DEF Secluded

\* An item whose promise has settled, or whose then method was called, has ended.
LEMMA ItemEnded ==
  ASSUME comb \in Combinator, Counting, NEW w \in [Items -> Promise], Gathering(w), NEW i \in 1 .. comb.index,
         NEW how \in How, Native(i) => eng.promise[w[i]].state = how
  PROVE  Ended(i, how)
<1>1. CASE ~Native(i)
  BY <1>1, HookedEnded DEF Counting
<1>2. CASE Native(i)
  <2>1. Becomes(i, w[i]) /\ Item(i) # Hook /\ eng.promise[w[i]].state = how
    BY <1>2 DEF Gathering, Attached, Native
  <2>2. "fulfilled" # "rejected"
    OBVIOUS
  <2> QED
    BY <2>1, PromisesAssumption DEF Ended, Becomes, How
<1> QED
  BY <1>1, <1>2

LEMMA ReportedEnded ==
  ASSUME comb \in Combinator, Counting, NEW w \in [Items -> Promise], Gathering(w), NEW i \in Reported
  PROVE  Ended(i, comb.values[i][1]) /\ comb.values[i][1] \in How
<1>1. i \in 1 .. comb.index /\ comb.values[i][1] \in ElementSides(comb.kind)
  BY DEF Counting
<1>2. comb.values[i][1] \in How
  BY <1>1 DEF ElementSides, How, Combinator, CombinatorKinds
<1>3. Native(i) => eng.promise[w[i]].state = comb.values[i][1]
  BY <1>1 DEF Gathering, Attached, Outcome
<1> QED
  BY <1>1, <1>2, <1>3, ItemEnded

\* The count reaches zero.
LEMMA CountReached ==
  ASSUME comb \in Combinator, Counting, Countable, ~comb.failed
  PROVE  /\ Cardinality(Reported) \in Nat /\ Cardinality(Reported) <= comb.index
         /\ comb.count = 0 => Reported = Items
<1>1. comb.index \in Nat /\ Len(comb.items) \in Nat /\ Items = 1 .. Len(comb.items)
  <2>1. comb.index \in Nat /\ comb.items \in Seq(Value \cup {Hook})
    BY DEF Combinator
  <2> QED
    BY <2>1 DEF Items
<1>2. IsFiniteSet(1 .. comb.index) /\ Cardinality(1 .. comb.index) = comb.index
  <2>1. PICK n \in Nat : n = comb.index
    BY <1>1
  <2>2. 1 \in Int /\ n \in Int
    OBVIOUS
  <2>3. IsFiniteSet(1 .. n) /\ Cardinality(1 .. n) = IF 1 > n THEN 0 ELSE n - 1 + 1
    BY ONLY <2>2, FS_Interval
  <2>4. Cardinality(1 .. n) = n
    BY ONLY <2>1, <2>3
  <2> QED
    BY <2>1, <2>3, <2>4
<1>3. Reported \in SUBSET (1 .. comb.index)
  BY DEF Counting
<1>4. /\ IsFiniteSet(Reported) /\ Cardinality(Reported) <= comb.index
      /\ Cardinality(Reported) = comb.index => Reported = 1 .. comb.index
  <2>1. PICK S : S = 1 .. comb.index
    OBVIOUS
  <2> QED
    BY ZenonT(60), <1>2, <1>3, <2>1, FS_Subset
<1>5. Cardinality(Reported) \in Nat
  BY <1>4, FS_CardinalityType
<1>6. ASSUME comb.count = 0 PROVE Reported = Items
  <2>1. comb.count = comb.index - Cardinality(Reported) + (IF comb.failed \/ InLoop THEN 1 ELSE 0)
    BY DEF Counting
  <2>2. ~InLoop /\ Cardinality(Reported) = comb.index
    BY <1>1, <1>4, <1>5, <1>6, <2>1
  <2>3. comb.index = Len(comb.items)
    BY <2>2 DEF Counting
  <2> QED
    BY <1>1, <1>4, <2>2, <2>3
<1> QED
  BY <1>4, <1>5, <1>6

LEMMA CountedNext ==
  (comb \in Combinator /\ Counting /\ Countable /\ ~comb.failed /\ comb.count = 0 => Reported = Items)'
<1>1. comb \in Combinator /\ Counting /\ Countable /\ ~comb.failed /\ comb.count = 0 => Reported = Items
  BY CountReached
<1> QED
  BY <1>1, PTL

LEMMA SidesKnown ==
  /\ ElementSides("all") = {"fulfilled"} /\ ElementSides("any") = {"rejected"}
  /\ ElementSides("allSettled") = How /\ ElementSides("race") = {}
BY DEF ElementSides

\* A resolving function that can settle its promise at once does.
LEMMA CallSettles ==
  ASSUME NEW c, NEW e, Good(e, Handler(c), Val), NEW y \in Made(e), y \notin e.resolved,
         NEW how \in How, NEW v \in Val, how = "rejected" \/ v \notin Promise \cup Thenable \cup Poisoned,
         NEW d, d = ResolvingCall(e, y, how, v)
  PROVE  d.promise[y.of].state = how /\ Settled(d, y.of)
<1>1. Error \in Val
  BY DEF Val, Value
<1>2. PICK b \in Engine(Handler(c), Val) :
        Marks(e, b, y) /\ (Settles(b, d, y.of, how, v, Val) \/ Defers(b, d, y.of, how, v))
  BY <1>1, CallCases
<1>3. Settles(b, d, y.of, how, v, Val)
  BY <1>2 DEF Defers, How
<1>4. d = Settle(b, y.of, how, v) /\ ~Settled(b, y.of) /\ y.of \in Promise
  BY <1>2, <1>3 DEF Settles, Marks
<1>5. SettleView(b, d, y.of, how, v, b.promise[y.of].reactions, b.jobs, d.jobs, Len(b.jobs))
  BY <1>2, <1>4, SettleViews
<1> QED
  BY <1>5 DEF SettleView, Settled, How

\* The result is resolved by native code: it settles at once.
LEMMA CompleteSettles ==
  ASSUME NEW e, NEW c \in Combinator, Good(e, Handler(c), Val), c.cap \in Made(e), c.cap \notin e.resolved, c.count = 0,
         NEW d, d = CompleteIfZero(e, c)
  PROVE  /\ d.promise[c.cap.of].state = IF c.kind = "any" THEN "rejected" ELSE "fulfilled"
         /\ c.cap \in d.resolved
<1>1. PICK how, v : /\ how = (IF c.kind = "any" THEN "rejected" ELSE "fulfilled")
                    /\ v = (IF c.kind = "any" THEN Error ELSE Array)
  OBVIOUS
<1>2. how \in How /\ v \in Val /\ Error \in Val
  BY <1>1 DEF How, Val, Value
<1>3. PICK y : y = c.cap
  OBVIOUS
<1>4. d = ResolvingCall(e, y, how, v)
  BY <1>1, <1>3 DEF CompleteIfZero, Complete
<1>5. d.resolved = e.resolved \cup {y}
  <2>1. Good(e, Handler(c), Val) /\ y \in Made(e) /\ how \in How /\ v \in Val /\ d = ResolvingCall(e, y, how, v)
    BY <1>2, <1>3, <1>4
  <2> QED
    BY ONLY <2>1, CallRetains
<1>6. how = "rejected" \/ v \notin Promise \cup Thenable \cup Poisoned
  BY <1>1, CombinatorsAssumption
<1>7. d.promise[y.of].state = how
  BY <1>2, <1>3, <1>4, <1>6, CallSettles
<1> QED
  BY <1>1, <1>3, <1>5, <1>7

\* The result of a combinator whose count has reached zero.
LEMMA CompletedDecides ==
  ASSUME comb' \in Combinator, comb'.kind # "race", Counting', ~comb'.failed, comb'.count = 0,
         \A i \in Reported' : Ended(i, comb.values[i][1])',
         NEW e, Good(e, Handler(comb'), Val), comb'.cap \in Made(e), comb'.cap \notin e.resolved,
         eng' = CompleteIfZero(e, comb')
  PROVE  Decided'
<1>1. comb'.kind \in {"all", "allSettled", "any"}
  BY DEF Combinator, CombinatorKinds
<1>2. Result'.state = (IF comb'.kind = "any" THEN "rejected" ELSE "fulfilled") /\ comb'.cap \in eng'.resolved
  BY CompleteSettles DEF Result
<1>3. Settled(eng', comb'.cap.of)
  BY <1>2 DEF Result, Settled
<1>4. Countable' => Reported' = Items' /\ \A i \in Items' : comb'.values[i] # None
  BY CountedNext DEF Reported
<1>5. comb'.kind = "allSettled" /\ AllNative' => Countable'
  <2> SUFFICES ASSUME comb'.kind = "allSettled", AllNative' PROVE comb'.hooked = {}
    BY DEF Countable
  <2>1. comb'.items \in Seq(Value \cup {Hook}) /\ comb'.index \in Nat
    BY DEF Combinator
  <2>2. \A i \in 1 .. comb'.index : i \in Items'
    BY <2>1 DEF Counting, Items
  <2> QED
    BY <2>2 DEF Counting, AllNative
<1>6. \A i \in Reported' : comb'.values[i][1] \in ElementSides(comb'.kind)
  BY DEF Counting
<1>7. CASE comb'.kind = "all"
  <2>1. ElementSides("all") = {"fulfilled"} /\ Result'.state = "fulfilled" /\ Countable'
    <3>1. ElementSides("all") = {"fulfilled"}
      BY SidesKnown
    <3>2. Result'.state = "fulfilled"
      BY <1>2, <1>7
    <3>3. Countable'
      BY <1>7 DEF Countable
    <3> QED
      BY <3>1, <3>2, <3>3
  <2>2. \A i \in Items' : comb'.values[i] # None /\ Ended(i, "fulfilled")'
    BY <1>4, <1>6, <1>7, <2>1
  <2>3. ResultFits'
    BY <1>7, <2>1, <2>2 DEF ResultFits
  <2> QED
    BY <1>3, <2>3 DEF Decided
<1>8. CASE comb'.kind = "any"
  <2>1. ElementSides("any") = {"rejected"} /\ Result'.state = "rejected" /\ Countable'
    <3>1. ElementSides("any") = {"rejected"}
      BY SidesKnown
    <3>2. Result'.state = "rejected"
      BY <1>2, <1>8
    <3>3. Countable'
      BY <1>8 DEF Countable
    <3> QED
      BY <3>1, <3>2, <3>3
  <2>2. \A i \in Items' : comb'.values[i] # None /\ Ended(i, "rejected")'
    BY <1>4, <1>6, <1>8, <2>1
  <2>3. ResultFits'
    BY <1>8, <2>1, <2>2 DEF ResultFits
  <2> QED
    BY <1>3, <2>3 DEF Decided
<1>9. CASE comb'.kind = "allSettled"
  <2>1. ResultFits'
    BY <1>4, <1>5, <1>9 DEF ResultFits
  <2> QED
    BY <1>3, <2>1 DEF Decided
<1> QED
  BY <1>1, <1>7, <1>8, <1>9

\* The count after an item has been noted.
LEMMA NotedCounts ==
  ASSUME comb \in Combinator, Counting, NEW i \in 1 .. comb.index, NEW key \in Nat \X (How \cup {"either"}),
         NEW x \in How \X Val, comb' = AddRemaining(Noted(comb, key, i, x), -1)
  PROVE  /\ comb' \in Combinator /\ Advances /\ Items' = Items /\ i \in Items
         /\ comb'.index = comb.index /\ comb'.hooked = comb.hooked /\ comb'.failed = comb.failed
         /\ comb'.called = comb.called \cup {key} /\ comb'.values = [comb.values EXCEPT ![i] = x]
         /\ comb'.count = comb.count - 1
         /\ Reported' = Reported \cup {i}
         /\ i \notin Reported => Cardinality(Reported') = Cardinality(Reported) + 1
         /\ Cardinality(Reported) \in Nat
<1>1. x \in Completion
  BY DEF Completion
<1>2. PICK c : c = Noted(comb, key, i, x)
  OBVIOUS
<1>3. c \in Combinator
  BY <1>1, <1>2, NotedTyped
<1>4. /\ c.kind = comb.kind /\ c.items = comb.items /\ c.cap = comb.cap /\ c.index = comb.index /\ c.count = comb.count
      /\ c.hooked = comb.hooked /\ c.failed = comb.failed
      /\ c.called = comb.called \cup {key} /\ c.values = [comb.values EXCEPT ![i] = x]
  BY <1>2 DEF Noted, Combinator
<1>5. comb' = AddRemaining(c, -1) /\ comb' \in Combinator
  BY <1>2, <1>3, AddRemainingTyped
<1>6. /\ comb'.kind = comb.kind /\ comb'.items = comb.items /\ comb'.cap = comb.cap /\ comb'.index = comb.index
      /\ comb'.hooked = comb.hooked /\ comb'.failed = comb.failed
      /\ comb'.called = comb.called \cup {key} /\ comb'.values = [comb.values EXCEPT ![i] = x]
      /\ comb'.count = comb.count - 1
  BY <1>3, <1>4, <1>5 DEF AddRemaining, Combinator
<1>7. Items' = Items /\ i \in Items /\ DOMAIN comb.values = Items
  BY <1>6 DEF Items, Counting, Combinator
<1>8. x # None
  BY AsyncAssumption DEF Val
<1>9. Reported' = Reported \cup {i}
  BY <1>6, <1>7, <1>8 DEF Reported
<1>10. Advances
  BY <1>5, <1>6, <1>9 DEF Advances
<1>11. IsFiniteSet(Reported)
  <2>1. PICK n \in Nat : n = comb.index
    BY DEF Combinator
  <2>2. IsFiniteSet(1 .. n) /\ Reported \in SUBSET (1 .. n)
    BY <2>1, FS_Interval DEF Counting
  <2>3. PICK S : S = 1 .. n
    OBVIOUS
  <2> QED
    BY <2>2, <2>3, FS_Subset
<1>12. i \notin Reported => Cardinality(Reported') = Cardinality(Reported) + 1
  BY <1>9, <1>11, FS_AddElement
<1>13. Cardinality(Reported) \in Nat
  BY <1>11, FS_CardinalityType
<1> QED
  BY <1>5, <1>6, <1>7, <1>9, <1>10, <1>12, <1>13

\* The engine when item i0 calls its functions: the job was taken, if a job calls them.
Taken(e) ==
  /\ Good(e, Handler(comb), Val) /\ comb.cap \in Made(e)
  /\ e.promise = eng.promise /\ e.resolved = eng.resolved
  /\ \A P : Promised(P) /\ Gathers(eng, comb.cap, P) => Gathers(e, comb.cap, P)
Combined(w) == Counting' /\ Gathering(w)' /\ Decided'

\* What a step does that leaves the loop where it is.
InStep ==
  /\ comb \in Combinator /\ Counting /\ Decided /\ comb.cap \in Made(eng)
  /\ Good(eng, Handler(comb), Val) /\ Good(eng', Handler(comb), Val)
  /\ Made(eng) \subseteq Made(eng') /\ Grows(eng, eng')
  /\ InLoop' <=> InLoop

\* An item calls its element function again.
LEMMA ElementAgain ==
  ASSUME InStep, NEW w \in [Items -> Promise], Gathering(w), NEW e, Taken(e),
         NEW i \in 1 .. comb.index, StaysDue(w, e, i), NEW how \in How,
         Native(i) => eng.promise[w[i]].state = how,
         CalledKey(i, how) \in comb.called, comb' = comb, eng' = e
  PROVE  Combined(w)
<1>1. comb \in Combinator /\ Counting /\ Decided /\ Grows(eng, eng') /\ (InLoop' <=> InLoop)
  BY DEF InStep
<1>2. Advances /\ Reported' = Reported /\ Items' = Items /\ i \in Items /\ Attached' = Attached
      /\ eng'.resolved = eng.resolved
  <2>1. Advances /\ Reported' = Reported /\ Items' = Items /\ Attached' = Attached
    BY <1>1, SameAdvances DEF Reported, Items, Attached, Native, Item
  <2>2. i \in Items
    BY <1>1 DEF Counting, Items, Combinator
  <2> QED
    BY <2>1, <2>2 DEF Taken
<1>3. i \in Reported
  BY <1>1, <1>2 DEF Counting
<1>4. Counting'
  BY <1>1, <1>2 DEF Counting, Items, Native, Item, Reported, CalledKey, Countable
<1>5. Gathering(w)'
  <2>1. i \in Attached => comb'.values[i] = Outcome(eng, w[i]) /\ Settled(eng, w[i])
    BY <1>3 DEF Gathering, Attached, Settled, How
  <2>2. \A P : Promised(P) /\ Gathers(eng, comb.cap, P) => Gathers(eng', comb.cap, P)
    BY DEF Taken
  <2>3. StaysDue(w, eng', i)
    OBVIOUS
  <2> QED
    BY <1>1, <1>2, <1>3, <2>1, <2>2, <2>3, GatheringStays
<1>6. Decided'
  BY <1>1, <1>2, DecidedStays DEF InStep
<1> QED
  BY <1>4, <1>5, <1>6 DEF Combined

\* An item calls its element function for the first time.
LEMMA ElementFirst ==
  ASSUME InStep, NEW w \in [Items -> Promise], Gathering(w), NEW e, Taken(e),
         NEW i \in 1 .. comb.index, StaysDue(w, e, i), NEW how \in ElementSides(comb.kind), NEW v \in Val,
         Native(i) => <<how, v>> = Outcome(eng, w[i]),
         NEW key, key = CalledKey(i, how), key \notin comb.called,
         comb' = AddRemaining(Noted(comb, key, i, <<how, v>>), -1), eng' = CompleteIfZero(e, comb')
  PROVE  Combined(w)
<1>1. /\ comb \in Combinator /\ Counting /\ Decided /\ Grows(eng, eng') /\ (InLoop' <=> InLoop)
      /\ e.promise = eng.promise /\ e.resolved = eng.resolved /\ Good(e, Handler(comb), Val) /\ comb.cap \in Made(e)
  BY DEF InStep, Taken
<1>2. how \in How /\ i \in Nat
  BY <1>1 DEF ElementSides, How, Combinator, CombinatorKinds
<1>3. key \in Nat \X (How \cup {"either"})
  BY <1>2 DEF CalledKey
<1>4. PICK x \in How \X Val : x = <<how, v>>
  BY <1>2
<1>5. /\ comb' \in Combinator /\ Advances /\ Items' = Items /\ i \in Items
      /\ comb'.index = comb.index /\ comb'.hooked = comb.hooked /\ comb'.failed = comb.failed
      /\ comb'.called = comb.called \cup {key} /\ comb'.values = [comb.values EXCEPT ![i] = x]
      /\ comb'.count = comb.count - 1
      /\ Reported' = Reported \cup {i}
      /\ i \notin Reported => Cardinality(Reported') = Cardinality(Reported) + 1
      /\ Cardinality(Reported) \in Nat
  BY <1>1, <1>3, <1>4, NotedCounts
<1>6. comb'.cap = comb.cap /\ comb'.kind = comb.kind /\ comb' # NoCombinator /\ comb # NoCombinator
      /\ \A j : (Native(j)' <=> Native(j)) /\ Item(j)' = Item(j)
  BY <1>5, AdvancesKnown DEF Advances
<1>7. Attached' = Attached /\ Handler(comb') = Handler(comb)
  BY <1>5, <1>6 DEF Attached, Handler
<1>8. /\ Retains(e, eng', comb.cap)
      /\ comb'.count = 0 => comb.cap \in eng'.resolved
      /\ comb'.count # 0 \/ comb.cap \in e.resolved => eng' = e
  <2>1. CASE comb'.count # 0
    BY <2>1 DEF CompleteIfZero, Retains
  <2>2. CASE comb'.count = 0
    <3>0. PICK y : y = comb.cap
      OBVIOUS
    <3>4. eng' = ResolvingCall(e, y, "rejected", Error) \/ eng' = ResolvingCall(e, y, "fulfilled", Array)
      BY <1>6, <2>2, <3>0 DEF CompleteIfZero, Complete
    <3>5. {"rejected", "fulfilled"} \subseteq How /\ {Error, Array} \subseteq Val
      BY DEF How, Val, Value
    <3>1. PICK h \in How, u \in Val : y = comb.cap /\ eng' = ResolvingCall(e, y, h, u)
      BY <3>0, <3>4, <3>5
    <3>2. Retains(e, eng', y) /\ eng'.resolved = e.resolved \cup {y}
      <4>0. PICK c : c = comb
        OBVIOUS
      <4>1. Good(e, Handler(c), Val) /\ y \in Made(e)
        BY <1>1, <3>1, <4>0
      <4>2. PICK d : d = eng'
        OBVIOUS
      <4>3. d = ResolvingCall(e, y, h, u)
        BY <3>1, <4>2
      <4>4. Retains(e, d, y) /\ d.resolved = e.resolved \cup {y}
        <5>1. h \in How /\ u \in Val
          OBVIOUS
        <5>2. Retains(e, d, y)
          BY ONLY <4>1, <4>3, <5>1, CallRetains
        <5>3. Error \in Val
          BY DEF Val, Value
        <5>4. Resolves(e, d, Handler(c), Val, y)
          BY ONLY <4>1, <4>3, <5>1, <5>3, ResolvingCallGood
        <5> QED
          BY <5>2, <5>4 DEF Resolves
      <4> QED
        BY <4>2, <4>4
    <3>3. y \in e.resolved => eng' = e
      BY <3>1 DEF ResolvingCall
    <3> QED
      BY <2>2, <3>1, <3>2, <3>3
  <2> QED
    BY <2>1, <2>2
<1>9. Countable => i \notin Reported
  <2> SUFFICES ASSUME Countable, i \in Reported PROVE FALSE
    OBVIOUS
  <2>1. PICK h \in How : CalledKey(i, h) \in comb.called
    BY <1>1, <1>5 DEF Counting
  <2>2. CASE comb.kind # "allSettled"
    BY <2>1, <2>2 DEF CalledKey
  <2>3. CASE comb.kind = "allSettled"
    <3>1. Native(i)
      BY <1>1, <2>3 DEF Countable, Counting
    <3>2. comb.values[i] = <<how, v>>
      BY <3>1 DEF Gathering, Attached
    <3>3. CalledKey(i, comb.values[i][1]) \in comb.called
      BY <1>1 DEF Counting
    <3> QED
      BY <3>2, <3>3
  <2> QED
    BY <2>2, <2>3
<1>10. Counting'
  <2>1. DOMAIN comb'.values = Items' /\ comb'.values[i] = x /\ \A j \in Items : j # i => comb'.values[j] = comb.values[j]
    BY <1>1, <1>5 DEF Counting
  <2>2. \A j, h : CalledKey(j, h)' = CalledKey(j, h) /\ CalledKey(j, h)[1] = j
    BY <1>6 DEF CalledKey
  <2>3. ASSUME NEW j \in Items PROVE (\E h \in How : CalledKey(j, h)' \in comb'.called) <=> j \in Reported'
    <3>1. CASE j = i
      BY <1>2, <1>5, <2>2, <3>1
    <3>2. CASE j # i
      <4>1. \A h : CalledKey(j, h) # key
        BY <2>2, <3>2
      <4>2. (\E h \in How : CalledKey(j, h) \in comb.called) <=> j \in Reported
        BY <1>1 DEF Counting
      <4> QED
        BY <1>5, <2>2, <3>2, <4>1, <4>2
    <3> QED
      BY <3>1, <3>2
  <2>4. ASSUME NEW j \in Reported'
        PROVE  comb'.values[j][1] \in ElementSides(comb'.kind) /\ CalledKey(j, comb.values[j][1])' \in comb'.called
    <3>1. CASE j = i
      BY <1>4, <1>5, <1>6, <2>1, <2>2, <3>1
    <3>2. CASE j # i
      <4>1. j \in Reported /\ comb'.values[j] = comb.values[j]
        BY <1>5, <2>1, <3>2 DEF Reported
      <4>2. comb.values[j][1] \in ElementSides(comb.kind) /\ CalledKey(j, comb.values[j][1]) \in comb.called
        BY <1>1, <4>1 DEF Counting
      <4> QED
        BY <1>5, <1>6, <2>2, <4>1, <4>2
    <3> QED
      BY <3>1, <3>2
  <2>5. Countable' =>
          /\ comb'.count = comb'.index - Cardinality(Reported') + (IF comb'.failed \/ InLoop' THEN 1 ELSE 0)
          /\ comb'.count = 0 => comb'.cap \in eng'.resolved
    <3> SUFFICES ASSUME Countable'
                 PROVE  comb'.count = comb'.index - Cardinality(Reported') + (IF comb'.failed \/ InLoop' THEN 1 ELSE 0)
      BY <1>6, <1>8
    <3>1. Countable
      BY <1>5, <1>6 DEF Countable
    <3>2. comb.count = comb.index - Cardinality(Reported) + (IF comb.failed \/ InLoop THEN 1 ELSE 0)
      BY <1>1, <3>1 DEF Counting
    <3>3. comb.index \in Nat /\ comb.count \in Int
      BY <1>1 DEF Combinator
    <3> QED
      BY <1>1, <1>5, <1>9, <3>1, <3>2, <3>3
  <2>6. /\ comb'.index \in 0 .. Len(comb'.items) /\ comb'.hooked = {j \in 1 .. comb'.index : ~Native(j)'}
        /\ Reported' \subseteq 1 .. comb'.index
        /\ comb'.failed => comb'.cap \in eng'.resolved
        /\ InLoop' => ~comb'.failed
        /\ comb'.failed \/ InLoop' \/ comb'.index = Len(comb'.items)
    <3>1. comb'.items = comb.items /\ eng.resolved \subseteq eng'.resolved
      BY <1>1, <1>5 DEF Advances, Grows
    <3> QED
      BY <1>1, <1>5, <1>6, <3>1 DEF Counting
  <2> QED
    BY <1>5, <2>1, <2>3, <2>4, <2>5, <2>6 DEF Counting
<1>11. Gathering(w)'
  <2>1. \A P : Promised(P) /\ Gathers(eng, comb.cap, P) => Gathers(eng', comb.cap, P)
    BY <1>8 DEF Taken, Retains
  <2>2. StaysDue(w, eng', i)
    <3>1. \A j \in Attached : w[j] \in Promise
      BY <1>1 DEF Attached, Counting, Items, Combinator
    <3> QED
      BY <1>8, <3>1, ItemTells DEF StaysDue, Retains
  <2>3. \A j \in Attached : j # i => comb'.values[j] = comb.values[j]
    <3>1. Attached \subseteq Items /\ DOMAIN comb.values = Items
      BY <1>1 DEF Attached, Counting, Items, Combinator
    <3> QED
      BY <1>5, <3>1
  <2>4. comb'.values[i] = x
    BY <1>1, <1>5 DEF Counting
  <2>5. i \in Attached => comb'.values[i] = Outcome(eng, w[i]) /\ Settled(eng, w[i])
    BY <1>2, <1>4, <2>4 DEF Attached, Settled, Outcome, How
  <2> QED
    BY <1>1, <1>5, <1>7, <2>1, <2>2, <2>3, <2>5, GatheringStays
<1>12. Decided'
  <2>1. CASE eng' = e
    BY <1>1, <1>5, <2>1, DecidedStays DEF InStep
  <2>2. CASE eng' # e
    <3>1. comb'.count = 0 /\ comb.cap \notin e.resolved
      BY <1>8, <2>2
    <3>2. ~comb'.failed
      BY <1>1, <1>5, <3>1 DEF Counting
    <3>3. comb'.kind # "race"
      BY <1>6 DEF ElementSides
    <3>4. ASSUME NEW j \in Reported' PROVE Ended(j, comb.values[j][1])'
      <4>1. CASE j = i
        <5>1. Native(i) => eng.promise[w[i]].state = how
          BY DEF Outcome
        <5>2. Ended(i, how)
          BY <1>1, <1>2, <5>1, ItemEnded
        <5>3. Ended(i, how)'
          BY <1>1, <1>2, <1>5, <5>2, EndedStays
        <5>4. comb'.values[i][1] = how
          BY <1>1, <1>4, <1>5 DEF Counting
        <5> QED
          BY <4>1, <5>3, <5>4
      <4>2. CASE j # i
        <5>1. j \in Reported /\ comb'.values[j] = comb.values[j]
          BY <1>1, <1>5, <4>2 DEF Counting, Reported
        <5>2. PICK h \in How : h = comb.values[j][1] /\ Ended(j, h)
          BY <1>1, <5>1, ReportedEnded
        <5>3. Ended(j, h)'
          BY <1>1, <1>5, <5>2, EndedStays
        <5> QED
          BY <5>1, <5>2, <5>3
      <4> QED
        BY <4>1, <4>2
    <3> QED
      BY <1>1, <1>5, <1>6, <1>7, <1>10, <3>1, <3>2, <3>3, <3>4, CompletedDecides
  <2> QED
    BY <2>1, <2>2
<1> QED
  BY <1>10, <1>11, <1>12 DEF Combined

\* An item calls its element function.
LEMMA ElementCalled ==
  ASSUME InStep, NEW w \in [Items -> Promise], Gathering(w), NEW e, Taken(e),
         NEW i \in 1 .. comb.index, StaysDue(w, e, i), NEW how \in ElementSides(comb.kind), NEW v \in Val,
         Native(i) => <<how, v>> = Outcome(eng, w[i]), CallElement(e, i, how, v)
  PROVE  Combined(w)
<1>1. PICK key : key = CalledKey(i, how)
  OBVIOUS
<1>2. CASE key \in comb.called
  <2>1. comb' = comb /\ eng' = e /\ CalledKey(i, how) \in comb.called
    BY <1>1, <1>2 DEF CallElement
  <2>2. how \in How
    BY DEF ElementSides, How, InStep, Combinator, CombinatorKinds
  <2>3. Native(i) => eng.promise[w[i]].state = how
    BY DEF Outcome
  <2> QED
    BY <2>1, <2>2, <2>3, ElementAgain
<1>3. CASE key \notin comb.called
  <2>1. comb' = AddRemaining(Noted(comb, key, i, <<how, v>>), -1) /\ eng' = CompleteIfZero(e, comb')
    BY <1>1, <1>3 DEF CallElement, Noted
  <2> QED
    BY <1>1, <1>3, <2>1, ElementFirst
<1> QED
  BY <1>2, <1>3

\* An item calls a function of the result.
LEMMA ResultCalled ==
  ASSUME InStep, NEW w \in [Items -> Promise], Gathering(w), NEW e, Taken(e),
         NEW i \in 1 .. comb.index, NEW how \in How \ ElementSides(comb.kind), NEW v \in Val,
         Native(i) => /\ <<how, v>> = Outcome(eng, w[i])
                      /\ how = "fulfilled" => v \notin Promise \cup Thenable \cup Poisoned,
         comb' = comb, eng' = ResolvingCall(e, comb.cap, how, v)
  PROVE  Combined(w)
<1>1. /\ comb \in Combinator /\ Counting /\ Decided /\ Grows(eng, eng') /\ (InLoop' <=> InLoop)
      /\ e.promise = eng.promise /\ e.resolved = eng.resolved /\ Good(e, Handler(comb), Val) /\ comb.cap \in Made(e)
  BY DEF InStep, Taken
<1>2. Advances /\ Reported' = Reported /\ Items' = Items /\ i \in Items /\ Attached' = Attached
  <2>1. Advances /\ Reported' = Reported /\ Items' = Items /\ Attached' = Attached
    BY <1>1, SameAdvances DEF Reported, Items, Attached, Native, Item
  <2>2. i \in Items
    BY <1>1 DEF Counting, Items, Combinator
  <2> QED
    BY <2>1, <2>2
<1>3. PICK y : y = comb.cap
  OBVIOUS
<1>4. PICK c : c = comb
  OBVIOUS
<1>5. PICK d : d = eng'
  OBVIOUS
<1>6. /\ Good(e, Handler(c), Val) /\ y \in Made(e) /\ how \in How /\ v \in Val /\ d = ResolvingCall(e, y, how, v)
      /\ Error \in Val
  BY <1>1, <1>3, <1>4, <1>5 DEF Val, Value
<1>7. Retains(e, d, y)
  BY ONLY <1>6, CallRetains
<1>8. y \in d.resolved
  <2>1. Resolves(e, d, Handler(c), Val, y)
    BY ONLY <1>6, ResolvingCallGood
  <2> QED
    BY <2>1 DEF Resolves
<1>9. Counting'
  <2>1. eng.resolved \subseteq eng'.resolved
    BY <1>1 DEF Grows
  <2> QED
    BY <1>1, <1>2, <2>1 DEF Counting, Items, Native, Item, Reported, CalledKey, Countable
<1>10. Gathering(w)'
  <2>1. \A P : Promised(P) /\ Gathers(eng, comb.cap, P) => Gathers(eng', comb.cap, P)
    BY <1>3, <1>5, <1>7 DEF Taken, Retains
  <2>2. i \in Attached /\ i \in Reported => comb'.values[i] = Outcome(eng, w[i]) /\ Settled(eng, w[i])
    BY DEF Gathering, Attached, Settled, Outcome, How
  <2>3. comb.cap \in eng'.resolved
    BY <1>3, <1>5, <1>8
  <2> QED
    BY <1>1, <1>2, <2>1, <2>2, <2>3, GatheringStays
<1>11. CASE y \in eng.resolved
  <2>1. eng' = e
    BY <1>1, <1>5, <1>6, <1>11 DEF ResolvingCall
  <2>2. Decided'
    BY <1>1, <1>2, <1>3, <1>11, DecidedStays DEF InStep
  <2> QED
    BY <1>9, <1>10, <2>2 DEF Combined
<1>12. CASE y \notin eng.resolved
  <2>1. Ended(i, how)
    BY <1>1, ItemEnded DEF Outcome
  <2>2. Ended(i, how)'
    BY <1>1, <1>2, <2>1, EndedStays
  <2>3. how = "rejected" \/ Native(i) => Settled(d, y.of) /\ d.promise[y.of].state = how
    <3> SUFFICES ASSUME how = "rejected" \/ Native(i) PROVE Settled(d, y.of) /\ d.promise[y.of].state = how
      OBVIOUS
    <3>1. how = "rejected" \/ v \notin Promise \cup Thenable \cup Poisoned
      BY DEF How
    <3>2. y \notin e.resolved
      BY <1>1, <1>12
    <3> QED
      BY ONLY <1>6, <3>1, <3>2, CallSettles
  <2>4. ~Native(i) => comb.hooked # {} /\ ~AllNative'
    <3> SUFFICES ASSUME ~Native(i) PROVE comb.hooked # {} /\ ~AllNative'
      OBVIOUS
    <3>1. i \in comb.hooked
      BY <1>1 DEF Counting
    <3>2. ~AllNative
      BY <1>2 DEF AllNative
    <3> QED
      BY <1>2, <3>1, <3>2, AdvancesKnown
  <2>5. comb.kind \in {"all", "any", "race"} /\ (comb.kind = "all" => how = "rejected") /\ (comb.kind = "any" => how = "fulfilled")
    <3>1. comb.kind \in CombinatorKinds
      BY <1>1 DEF Combinator
    <3> QED
      BY <3>1, SidesKnown DEF CombinatorKinds, How
  <2>6. Result'.state = d.promise[y.of].state
    BY <1>3, <1>5 DEF Result
  <2>7. comb'.cap \in eng'.resolved => Settled(eng', comb'.cap.of) \/ (comb'.kind \in {"any", "race"} /\ comb'.hooked # {})
    BY <1>3, <1>5, <2>3, <2>4, <2>5 DEF How
  <2>8. CASE comb.kind = "all"
    <3>1. Result'.state = "rejected" /\ Ended(i, "rejected")' /\ i \in Items'
      BY <1>2, <2>2, <2>3, <2>5, <2>6, <2>8
    <3>2. ResultFits'
      BY <2>8, <3>1 DEF ResultFits
    <3> QED
      BY <1>9, <1>10, <2>7, <3>2 DEF Combined, Decided
  <2>9. CASE comb.kind = "any"
    <3>1. how = "fulfilled" /\ Ended(i, "fulfilled")' /\ i \in Items'
      BY <1>2, <2>2, <2>5, <2>9
    <3>2. AllNative' => Result'.state = "fulfilled"
      BY <2>3, <2>4, <2>6, <3>1
    <3>3. ResultFits'
      BY <2>9, <3>1, <3>2 DEF ResultFits
    <3> QED
      BY <1>9, <1>10, <2>7, <3>3 DEF Combined, Decided
  <2>10. CASE comb.kind = "race"
    <3>1. AllNative' => Result'.state = how
      BY <2>3, <2>4, <2>6
    <3>2. ResultFits'
      BY <1>2, <2>2, <2>10, <3>1 DEF ResultFits
    <3> QED
      BY <1>9, <1>10, <2>7, <3>2 DEF Combined, Decided
  <2> QED
    BY <2>5, <2>8, <2>9, <2>10
<1> QED
  BY <1>1, <1>3, <1>11, <1>12

\* What is known in a step that changes no frames.
LEMMA InStepKnown ==
  ASSUME Base, Base', Grows(eng, eng'), comb # NoCombinator, Combining, comb' \in Combinator, comb'.cap = comb.cap,
         comb'.items = comb.items, stack' = stack, held' = held
  PROVE  InStep /\ Secluded' /\ (\E w \in [Items -> Promise] : Gathering(w)) /\ Items' = Items
<1>1. /\ comb \in Combinator /\ Secluded /\ Counting /\ Decided /\ Clear(comb.cap, eng, comb)
  BY CombiningKnown
<1>2. comb' # NoCombinator /\ Handler(comb') = Handler(comb)
  BY DEF Combinator, NoCombinator, CombinatorKinds, Handler
<1>3. Good(eng, Handler(comb), Val) /\ Good(eng', Handler(comb), Val) /\ comb.cap \in Made(eng)
  BY <1>1, <1>2 DEF Base, Clear
<1>4. Made(eng) \subseteq Made(eng')
  BY <1>3, EvolvesMade DEF Evolves
<1>5. InLoop' <=> InLoop
  BY DEF InLoop
<1>6. Secluded'
  BY <1>1, SecludedStays
<1> QED
  BY <1>1, <1>3, <1>4, <1>5, <1>6 DEF InStep, Combining, Items

LEMMA CombinedMakes ==
  ASSUME Secluded', NEW w \in [Items -> Promise], Items' = Items, Combined(w)
  PROVE  Combining'
BY DEF Combining, Combined

\* The job of an item.
LEMMA ItemJob ==
  ASSUME Base, comb # NoCombinator, Combining, NEW w \in [Items -> Promise], Gathering(w),
         JobRuns("reaction"), Tells(Job.handler, comb.cap)
  PROVE  /\ Taken(Popped)
         /\ \E i \in Attached, how \in How, v \in Val :
              /\ i \in 1 .. comb.index /\ Job.how = how /\ Job.arg = v /\ <<how, v>> = Outcome(eng, w[i])
              /\ IF how \in ElementSides(comb.kind)
                 THEN Job.handler = Element(i, how) /\ StaysDue(w, Popped, i)
                 ELSE Job.handler = Settler(comb.cap, how)
<1>1. /\ Clear(comb.cap, eng, comb) /\ comb \in Combinator /\ Counting
  BY CombiningKnown
<1>2. JobReports(Job, comb.cap)
  BY DEF JobReports, JobRuns
<1>3. PICK i \in Attached :
        /\ i \in Items /\ Settled(eng, w[i]) /\ eng.promise[w[i]].state \in How
        /\ Job = JobOf(eng, ItemReaction(i), w[i]) /\ Job.handler = Handlers(i)[eng.promise[w[i]].state]
        /\ Job.cap = None /\ <<Job.how, Job.arg>> = Outcome(eng, w[i])
  BY <1>1, <1>2, ReportingJob
<1>4. PICK how \in How : how = eng.promise[w[i]].state
  BY <1>3
<1>5. PICK v : v = Job.arg
  OBVIOUS
<1>6. eng.jobs # <<>> /\ Head(eng.jobs).kind = "reaction" /\ Job = Head(eng.jobs)
  BY DEF JobRuns, Job
<1>7. PICK d : d = Popped
  OBVIOUS
<1>8. d = [eng EXCEPT !.jobs = Tail(@)]
  BY <1>7 DEF Popped
<1>9. PICK H : H = Handler(comb)
  OBVIOUS
<1>10. Good(eng, H, Val) /\ comb.cap \in Made(eng)
  BY <1>1, <1>9 DEF Clear
<1>11. /\ Good(d, H, Val) /\ Made(d) = Made(eng) /\ d.resolved = eng.resolved /\ Job \in ReactionJobs(H, Val)
  BY <1>6, <1>8, <1>10, PopReaction
<1>12. d.promise = eng.promise /\ d.jobs = Tail(eng.jobs) /\ eng \in Engine(H, Val)
  BY <1>8, <1>10 DEF Good, Engine
<1>13. \A P : Gathers(eng, comb.cap, P) => Gathers(d, comb.cap, P)
  BY <1>6, <1>12, PopGathers
<1>14. Taken(Popped)
  BY <1>7, <1>9, <1>10, <1>11, <1>12, <1>13 DEF Taken
<1>15. Job.how = how /\ v \in Val /\ <<how, v>> = Outcome(eng, w[i])
  BY <1>3, <1>4, <1>5, <1>11 DEF Outcome, ReactionJobs
<1>16. ASSUME how \in ElementSides(comb.kind) PROVE Job.handler = Element(i, how) /\ StaysDue(w, Popped, i)
  <2>1. Job.handler = Element(i, how)
    BY <1>3, <1>4, <1>16 DEF Handlers
  <2>2. ASSUME NEW j \in Attached \ {i}, Due(eng, w[j], ItemReaction(j)) PROVE Due(d, w[j], ItemReaction(j))
    <3>1. PICK p \in Promise : p = w[j]
      BY <1>1 DEF Attached, Counting, Items, Combinator
    <3>2. ASSUME Settled(eng, p), Job = JobOf(eng, ItemReaction(j), p) PROVE FALSE
      <4>1. PICK s \in How : s = eng.promise[p].state
        BY <1>12, <3>2 DEF Settled, Engine, PromiseState
      <4>2. Job.handler = Handlers(j)[s]
        BY <3>2, <4>1 DEF JobOf, ReactionJob, ItemReaction
      <4>3. Handlers(j)[s] = Element(j, s) \/ Handlers(j)[s] = Settler(comb.cap, s)
        BY DEF Handlers
      <4> QED
        BY <2>1, <4>2, <4>3 DEF Element, Settler
    <3>3. PICK r : r = ItemReaction(j)
      OBVIOUS
    <3>4. Due(d, p, r)
      BY <1>6, <1>12, <2>2, <3>1, <3>2, <3>3, PopCarries
    <3> QED
      BY <3>1, <3>3, <3>4
  <2> QED
    BY <1>7, <2>1, <2>2 DEF StaysDue
<1>17. how \notin ElementSides(comb.kind) => Job.handler = Settler(comb.cap, how)
  BY <1>3, <1>4 DEF Handlers
<1> QED
  BY <1>5, <1>14, <1>15, <1>16, <1>17 DEF Attached

LEMMA CallElementItems ==
  ASSUME comb \in Combinator, NEW e, NEW i, NEW how, NEW v, CallElement(e, i, how, v)
  PROVE  comb'.items = comb.items
BY DEF CallElement, AddRemaining, Combinator

\* The job of an item calls its element function, or a function of the result.
LEMMA ItemJobCombines ==
  ASSUME Base, Base', Grows(eng, eng'), Straight(eng), comb # NoCombinator, Combining,
         RunElement \/ (RunSettler /\ comb' = comb /\ Job.handler.pair = comb.cap)
  PROVE  Combining'
<1>1. comb \in Combinator /\ Counting /\ Clear(comb.cap, eng, comb)
  BY CombiningKnown
<1>2. PICK w0 \in [Items -> Promise] : Gathering(w0)
  BY DEF Combining
<1>3. JobRuns("reaction") /\ Tells(Job.handler, comb.cap) /\ stack' = stack /\ held' = held
      /\ Job.handler.fn = (IF RunElement THEN "element" ELSE "settle")
  BY DEF RunElement, RunSettler, Reacts, Tells
<1>4. Taken(Popped)
  BY <1>2, <1>3, ItemJob
<1>5. PICK i \in Attached, how \in How, v \in Val :
        /\ i \in 1 .. comb.index /\ Job.how = how /\ Job.arg = v /\ <<how, v>> = Outcome(eng, w0[i])
        /\ IF how \in ElementSides(comb.kind)
           THEN Job.handler = Element(i, how) /\ StaysDue(w0, Popped, i)
           ELSE Job.handler = Settler(comb.cap, how)
  BY <1>2, <1>3, ItemJob
<1>6. CASE RunElement
  <2>1. how \in ElementSides(comb.kind) /\ Job.handler.item = i /\ StaysDue(w0, Popped, i)
    BY <1>3, <1>5, <1>6 DEF Element, Settler
  <2>2. CallElement(Popped, i, how, v)
    BY <1>5, <1>6, <2>1 DEF RunElement
  <2>3. i \in Nat /\ Good(Popped, Handler(comb), Val) /\ comb.cap \in Made(Popped)
    BY <1>1, <1>4, <1>5 DEF Taken, Combinator
  <2>4. comb' \in Combinator /\ comb'.cap = comb.cap
    BY <1>1, <2>2, <2>3, CallElementMoves
  <2>5. comb'.items = comb.items
    BY <1>1, <2>2, CallElementItems
  <2>6. InStep /\ Secluded' /\ Items' = Items
    BY <1>3, <2>4, <2>5, InStepKnown
  <2>7. Combined(w0)
    BY <1>2, <1>4, <1>5, <2>1, <2>2, <2>6, ElementCalled
  <2> QED
    BY <2>6, <2>7, CombinedMakes
<1>7. CASE RunSettler /\ comb' = comb /\ ~RunElement
  <2>1. how \in How \ ElementSides(comb.kind) /\ Job.handler = Settler(comb.cap, how)
    BY <1>3, <1>5, <1>7 DEF Element, Settler
  <2>2. eng' = ResolvingCall(Popped, comb.cap, how, v)
    BY <1>5, <1>7, <2>1 DEF RunSettler, Settler
  <2>3. InStep /\ Secluded' /\ Items' = Items
    BY <1>1, <1>3, <1>7, InStepKnown
  <2>4. how = "fulfilled" => v \notin Promise \cup Thenable \cup Poisoned
    <3>1. PICK p \in Promise : p = w0[i]
      BY <1>1, <1>5 DEF Counting, Items, Combinator
    <3> QED
      BY <1>5, <3>1 DEF Straight, Outcome
  <2>5. Combined(w0)
    BY <1>2, <1>4, <1>5, <1>7, <2>1, <2>2, <2>3, <2>4, ResultCalled
  <2> QED
    BY <2>3, <2>5, CombinedMakes
<1> QED
  BY <1>6, <1>7

\* A then method of the script calls one of the functions it was given.
LEMMA CallHookedCombines ==
  ASSUME Base, Base', Grows(eng, eng'), comb # NoCombinator, Combining,
         NEW i \in comb.hooked, NEW how \in How, NEW v \in HeldValue, CallHooked(i, how, v)
  PROVE  Combining'
<1>1. comb \in Combinator /\ Counting /\ Clear(comb.cap, eng, comb) /\ HeldValue \subseteq Val
  BY CombiningKnown, Known
<1>2. PICK w \in [Items -> Promise] : Gathering(w)
  BY DEF Combining
<1>3. i \in 1 .. comb.index /\ ~Native(i) /\ i \in Nat /\ v \in Val /\ stack' = stack /\ held' = held
  BY <1>1 DEF Counting, CallHooked, Combinator
<1>4. Taken(eng) /\ StaysDue(w, eng, i)
  BY <1>1 DEF Taken, StaysDue, Clear
<1>5. CASE how \in ElementSides(comb.kind)
  <2>1. CallElement(eng, i, how, v)
    BY <1>5 DEF CallHooked
  <2>2. comb' \in Combinator /\ comb'.cap = comb.cap
    BY <1>1, <1>3, <2>1, CallElementMoves DEF Clear
  <2>3. comb'.items = comb.items
    BY <1>1, <2>1, CallElementItems
  <2>4. InStep /\ Secluded' /\ Items' = Items
    BY <1>3, <2>2, <2>3, InStepKnown
  <2>5. Combined(w)
    BY <1>2, <1>3, <1>4, <1>5, <2>1, <2>4, ElementCalled
  <2> QED
    BY <2>4, <2>5, CombinedMakes
<1>6. CASE how \notin ElementSides(comb.kind)
  <2>1. comb' = comb /\ eng' = ResolvingCall(eng, comb.cap, how, v)
    BY <1>6 DEF CallHooked
  <2>2. InStep /\ Secluded' /\ Items' = Items
    BY <1>1, <1>3, <2>1, InStepKnown
  <2>3. Combined(w)
    BY <1>2, <1>3, <1>4, <1>6, <2>1, <2>2, ResultCalled
  <2> QED
    BY <2>2, <2>3, CombinedMakes
<1> QED
  BY <1>5, <1>6

\* The loop is left.
LEMMA LoopLeft ==
  ASSUME Base, (Top("combine") /\ Leave(1)) \/ (Top("hook") /\ Leave(2))
  PROVE  /\ comb # NoCombinator /\ InLoop /\ ~InLoop' /\ held' \subseteq held \cup Promise
         /\ InProgress(stack') \subseteq InProgress(stack)
<1>1. comb # NoCombinator
  BY CombinatorKnown
<1>2. comb.cap.of \in Promise
  BY <1>1, CombinatorKnown DEF Made, Pair
<1>3. stack \in Seq(Frame(comb)) /\ Stacked(stack) /\ stack # <<>>
  BY Known DEF Base, Top
<1>4. PICK F : F = Frame(comb)
  OBVIOUS
<1>5. PICK s \in Seq(F) : s = stack /\ Stacked(s) /\ s # <<>>
  BY <1>3, <1>4
<1>6. PICK t : t = Tail(s)
  OBVIOUS
<1>7. /\ t \in Seq(F) /\ InProgress(s) = InProgress(t) \cup {Head(s)}
      /\ Stacked(t) /\ \A g \in InProgress(t) : ~Alike(Head(s), g)
      /\ Head(s).kind = "hook" => t # <<>> /\ Head(t).kind = "combine"
  BY ONLY <1>5, <1>6, Drop
<1>8. CASE Top("combine") /\ Leave(1)
  <2>1. Head(s).kind = "combine" /\ stack' = t
    BY <1>5, <1>6, <1>8, FramesPass DEF Top, Leave
  <2>2. \A g \in InProgress(t) : g.kind # "combine"
    BY <1>7, <2>1 DEF Alike
  <2> QED
    BY <1>1, <1>2, <1>5, <1>7, <1>8, <2>1, <2>2 DEF InLoop, Leave
<1>9. CASE Top("hook") /\ Leave(2)
  <2>1. Head(s).kind = "hook" /\ stack' = Tail(t)
    BY <1>5, <1>6, <1>9, FramesPass DEF Top, Leave
  <2>2. PICK u : u = Tail(t)
    OBVIOUS
  <2>3. t # <<>> /\ Head(t).kind = "combine" /\ t \in Seq(F) /\ Stacked(t)
    BY <1>7, <2>1
  <2>4. InProgress(t) = InProgress(u) \cup {Head(t)} /\ \A g \in InProgress(u) : ~Alike(Head(t), g)
    BY ONLY <2>2, <2>3, Drop
  <2>5. \A g \in InProgress(u) : g.kind # "combine"
    BY <2>3, <2>4 DEF Alike
  <2> QED
    BY <1>1, <1>2, <1>5, <1>7, <1>9, <2>1, <2>2, <2>3, <2>4, <2>5 DEF InLoop, Leave
<1> QED
  BY <1>8, <1>9

\* The promises of the items when the result has been resolved or left alone.
LEMMA GatheringKept ==
  ASSUME Advances, Counting, Grows(eng, eng'), NEW w \in [Items -> Promise], Gathering(w),
         comb'.index = comb.index, comb'.values = comb.values, Retains(eng, eng', comb.cap)
  PROVE  Gathering(w)' /\ Items' = Items /\ Reported' = Reported
<1>1. Attached' = Attached /\ Items' = Items /\ Reported' = Reported
  BY AdvancesKnown DEF Attached, Reported
<1>2. \A i \in Attached : w[i] \in Promise
  BY DEF Attached, Counting, Items, Combinator, Advances
<1>3. StaysDue(w, eng', 0)
  BY <1>2, ItemTells DEF StaysDue, Retains
<1>4. 0 \notin Attached
  BY DEF Attached
<1> QED
  BY <1>1, <1>3, <1>4, GatheringStays DEF Retains

\* The iterator throws, or a then method of the script.
LEMMA FailCombines ==
  ASSUME Base, Base', Grows(eng, eng'), comb # NoCombinator, Combining, IteratorThrows \/ HookThrows
  PROVE  Combining'
<1>1. /\ comb \in Combinator /\ Secluded /\ Counting /\ Decided /\ Clear(comb.cap, eng, comb)
  BY CombiningKnown
<1>2. /\ InLoop /\ ~InLoop' /\ held' \subseteq held \cup Promise /\ InProgress(stack') \subseteq InProgress(stack)
      /\ eng' = ResolvingCall(eng, comb.cap, "rejected", Error) /\ comb' = [comb EXCEPT !.failed = TRUE]
  BY LoopLeft DEF IteratorThrows, HookThrows, Fail
<1>3. PICK y : y = comb.cap
  OBVIOUS
<1>4. PICK c : c = comb
  OBVIOUS
<1>5. PICK d : d = eng'
  OBVIOUS
<1>6. PICK v, how : v = Error /\ how = "rejected"
  OBVIOUS
<1>7. /\ Good(eng, Handler(c), Val) /\ y \in Made(eng) /\ how \in How /\ v \in Val /\ d = ResolvingCall(eng, y, how, v)
      /\ Error \in Val
  BY <1>1, <1>2, <1>3, <1>4, <1>5, <1>6 DEF Val, Value, How, Clear
<1>8. Retains(eng, d, y)
  BY ONLY <1>7, CallRetains
<1>9. Resolves(eng, d, Handler(c), Val, y)
  BY ONLY <1>7, ResolvingCallGood
<1>10. /\ comb' \in Combinator /\ comb'.kind = comb.kind /\ comb'.items = comb.items /\ comb'.cap = comb.cap
       /\ comb'.index = comb.index /\ comb'.count = comb.count /\ comb'.hooked = comb.hooked
       /\ comb'.called = comb.called /\ comb'.values = comb.values /\ comb'.failed = TRUE
  BY <1>1, <1>2 DEF Combinator
<1>11. Advances
  BY <1>1, <1>10 DEF Advances, Reported, Items
<1>12. PICK w \in [Items -> Promise] : Gathering(w)
  BY DEF Combining
<1>13. Gathering(w)' /\ Items' = Items /\ Reported' = Reported
  BY <1>1, <1>3, <1>5, <1>8, <1>10, <1>11, <1>12, GatheringKept
<1>14. y \in eng'.resolved /\ Made(eng) \subseteq Made(eng') /\ Good(eng', Handler(comb), Val)
  BY <1>4, <1>5, <1>9 DEF Resolves
<1>15. Counting'
  <2>1. \A i : Native(i)' <=> Native(i)
    BY <1>11, AdvancesKnown
  <2>2. \A i, h : CalledKey(i, h)' = CalledKey(i, h)
    BY <1>10 DEF CalledKey
  <2>3. Countable' => comb'.count = comb'.index - Cardinality(Reported') + 1
    <3> SUFFICES ASSUME Countable' PROVE comb'.count = comb'.index - Cardinality(Reported') + 1
      OBVIOUS
    <3>1. Countable
      BY <1>10 DEF Countable
    <3> QED
      BY <1>1, <1>2, <1>10, <1>13, <3>1 DEF Counting
  <2>4. /\ DOMAIN comb'.values = Items' /\ comb'.index \in 0 .. Len(comb'.items)
        /\ comb'.hooked = {i \in 1 .. comb'.index : ~Native(i)'} /\ Reported' \subseteq 1 .. comb'.index
    BY <1>1, <1>10, <1>13, <2>1 DEF Counting
  <2>5. /\ \A i \in Items' : (\E h \in How : CalledKey(i, h)' \in comb'.called) <=> i \in Reported'
        /\ \A i \in Reported' : /\ comb'.values[i][1] \in ElementSides(comb'.kind)
                                /\ CalledKey(i, comb.values[i][1])' \in comb'.called
    BY <1>1, <1>10, <1>13, <2>2 DEF Counting
  <2> QED
    BY <1>2, <1>3, <1>10, <1>14, <2>3, <2>4, <2>5 DEF Counting
<1>16. Decided'
  <2>1. CASE y \in eng.resolved
    BY <1>1, <1>3, <1>4, <1>7, <1>11, <1>14, <2>1, DecidedStays
  <2>2. CASE y \notin eng.resolved
    <3>1. how = "rejected" \/ v \notin Promise \cup Thenable \cup Poisoned
      BY <1>6
    <3>2. d.promise[y.of].state = how /\ Settled(d, y.of)
      BY ONLY <1>7, <2>2, <3>1, CallSettles
    <3>3. Result'.state = "rejected"
      BY <1>3, <1>5, <1>6, <1>10, <3>2 DEF Result
    <3>4. ResultFits'
      BY <1>10, <3>3 DEF ResultFits
    <3> QED
      BY <1>3, <1>5, <1>10, <3>2, <3>4 DEF Decided
  <2> QED
    BY <2>1, <2>2
<1>17. Secluded'
  BY <1>1, <1>2, <1>10, SecludedStays
<1> QED
  BY <1>12, <1>13, <1>15, <1>16, <1>17, CombinedMakes DEF Combined

\* The iterable is exhausted.
LEMMA EndOfItemsCombines ==
  ASSUME Base, Base', Grows(eng, eng'), comb # NoCombinator, Combining, EndOfItems
  PROVE  Combining'
<1>1. /\ comb \in Combinator /\ Secluded /\ Counting /\ Decided /\ Clear(comb.cap, eng, comb)
  BY CombiningKnown
<1>2. /\ InLoop /\ ~InLoop' /\ held' \subseteq held \cup Promise /\ InProgress(stack') \subseteq InProgress(stack)
      /\ comb.index = Len(comb.items) /\ ~comb.failed
  BY <1>1, LoopLeft DEF EndOfItems, Counting
<1>3. /\ comb' \in Combinator /\ comb'.kind = comb.kind /\ comb'.items = comb.items /\ comb'.cap = comb.cap
      /\ comb'.index = comb.index /\ comb'.hooked = comb.hooked /\ comb'.called = comb.called
      /\ comb'.values = comb.values /\ comb'.failed = comb.failed
      /\ comb.kind # "race" => comb'.count = comb.count - 1 /\ eng' = CompleteIfZero(eng, comb')
      /\ comb.kind = "race" => eng' = eng
  <2>1. CASE comb.kind = "race"
    <3>1. comb' = comb /\ eng' = eng
      BY <2>1 DEF EndOfItems
    <3> QED
      BY <1>1, <2>1, <3>1
  <2>2. CASE comb.kind # "race"
    <3>1. comb' = AddRemaining(comb, -1) /\ eng' = CompleteIfZero(eng, comb')
      BY <2>2 DEF EndOfItems
    <3>2. comb' \in Combinator
      BY <1>1, <3>1, AddRemainingTyped
    <3> QED
      BY <1>1, <2>2, <3>1, <3>2 DEF AddRemaining, Combinator
  <2> QED
    BY <2>1, <2>2
<1>4. Advances /\ Handler(comb') = Handler(comb)
  <2>1. Advances
    BY <1>1, <1>3 DEF Advances, Reported, Items
  <2> QED
    BY <2>1, AdvancesKnown DEF Handler
<1>5. PICK c : c = comb
  OBVIOUS
<1>6. PICK y : y = comb.cap
  OBVIOUS
<1>7. /\ Retains(eng, eng', y)
      /\ comb.kind # "race" /\ comb'.count = 0 => y \in eng'.resolved
      /\ comb.kind = "race" \/ comb'.count # 0 \/ y \in eng.resolved => eng' = eng
  <2>1. CASE comb.kind = "race" \/ comb'.count # 0
    <3>1. eng' = eng
      BY <1>3, <2>1 DEF CompleteIfZero
    <3> QED
      BY <2>1, <3>1 DEF Retains
  <2>2. CASE comb.kind # "race" /\ comb'.count = 0
    <3>1. eng' = ResolvingCall(eng, y, "rejected", Error) \/ eng' = ResolvingCall(eng, y, "fulfilled", Array)
      BY <1>3, <1>6, <2>2 DEF CompleteIfZero, Complete
    <3>2. {"rejected", "fulfilled"} \subseteq How /\ {Error, Array} \subseteq Val
      BY DEF How, Val, Value
    <3>3. PICK h \in How, u \in Val : eng' = ResolvingCall(eng, y, h, u)
      BY <3>1, <3>2
    <3>4. PICK d : d = eng'
      OBVIOUS
    <3>5. Good(eng, Handler(c), Val) /\ y \in Made(eng) /\ h \in How /\ u \in Val /\ d = ResolvingCall(eng, y, h, u)
          /\ Error \in Val
      BY <1>1, <1>5, <1>6, <3>2, <3>3, <3>4 DEF Clear
    <3>6. Retains(eng, d, y)
      BY ONLY <3>5, CallRetains
    <3>7. Resolves(eng, d, Handler(c), Val, y)
      BY ONLY <3>5, ResolvingCallGood
    <3>8. y \in eng.resolved => d = eng
      BY <3>5 DEF ResolvingCall
    <3> QED
      BY <2>2, <3>4, <3>6, <3>7, <3>8 DEF Resolves
  <2> QED
    BY <2>1, <2>2
<1>8. PICK w \in [Items -> Promise] : Gathering(w)
  BY DEF Combining
<1>9. Gathering(w)' /\ Items' = Items /\ Reported' = Reported
  BY <1>1, <1>3, <1>4, <1>6, <1>7, <1>8, GatheringKept
<1>10. Counting'
  <2>1. \A i : Native(i)' <=> Native(i)
    BY <1>4, AdvancesKnown
  <2>2. \A i, h : CalledKey(i, h)' = CalledKey(i, h)
    BY <1>3 DEF CalledKey
  <2>3. Countable' => /\ comb'.count = comb'.index - Cardinality(Reported') + 0
                      /\ comb'.count = 0 => y \in eng'.resolved
    <3> SUFFICES ASSUME Countable'
                 PROVE  /\ comb'.count = comb'.index - Cardinality(Reported') + 0
                        /\ comb'.count = 0 => y \in eng'.resolved
      OBVIOUS
    <3>1. Countable /\ comb.kind # "race"
      BY <1>3 DEF Countable
    <3>2. comb.count = comb.index - Cardinality(Reported) + 1
      BY <1>1, <1>2, <3>1 DEF Counting
    <3>3. Cardinality(Reported) \in Nat /\ comb.index \in Nat
      BY <1>1, <1>2, <3>1, CountReached DEF Combinator
    <3> QED
      BY <1>3, <1>7, <1>9, <3>1, <3>2, <3>3
  <2>4. /\ DOMAIN comb'.values = Items' /\ comb'.index \in 0 .. Len(comb'.items)
        /\ comb'.hooked = {i \in 1 .. comb'.index : ~Native(i)'} /\ Reported' \subseteq 1 .. comb'.index
    BY <1>1, <1>3, <1>9, <2>1 DEF Counting
  <2>5. /\ \A i \in Items' : (\E h \in How : CalledKey(i, h)' \in comb'.called) <=> i \in Reported'
        /\ \A i \in Reported' : /\ comb'.values[i][1] \in ElementSides(comb'.kind)
                                /\ CalledKey(i, comb.values[i][1])' \in comb'.called
    BY <1>1, <1>3, <1>9, <2>2 DEF Counting
  <2> QED
    BY <1>2, <1>3, <1>6, <2>3, <2>4, <2>5 DEF Counting
<1>11. Decided'
  <2>1. CASE eng' = eng
    <3>1. PICK H : H = Handler(comb)
      OBVIOUS
    <3>2. Good(eng, H, Val) /\ Good(eng', H, Val) /\ Made(eng) \subseteq Made(eng') /\ comb.cap \in Made(eng)
      BY <1>1, <2>1, <3>1 DEF Clear
    <3>3. comb.cap \in eng'.resolved => comb.cap \in eng.resolved
      BY <2>1
    <3> QED
      BY <1>1, <1>4, <3>2, <3>3, DecidedStays
  <2>2. CASE eng' # eng
    <3>1. comb'.kind # "race" /\ comb'.count = 0 /\ comb'.cap \notin eng.resolved /\ ~comb'.failed
          /\ eng' = CompleteIfZero(eng, comb')
      BY <1>2, <1>3, <1>6, <1>7, <2>2
    <3>2. ASSUME NEW j \in Reported' PROVE Ended(j, comb.values[j][1])'
      <4>1. j \in Reported /\ comb'.values[j] = comb.values[j]
        BY <1>3, <1>9
      <4>2. PICK h \in How : h = comb.values[j][1] /\ Ended(j, h)
        BY <1>1, <1>8, <4>1, ReportedEnded
      <4>3. Ended(j, h)'
        BY <1>4, <4>2, EndedStays
      <4> QED
        BY <4>1, <4>2, <4>3
    <3>3. Good(eng, Handler(comb'), Val) /\ comb'.cap \in Made(eng)
      BY <1>1, <1>3, <1>4 DEF Clear
    <3> QED
      BY <1>3, <1>10, <3>1, <3>2, <3>3, CompletedDecides
  <2> QED
    BY <2>1, <2>2
<1>12. Secluded'
  BY <1>1, <1>2, <1>3, SecludedStays
<1> QED
  BY <1>8, <1>9, <1>10, <1>11, <1>12, CombinedMakes DEF Combined

\* A then method of the script returns.
LEMMA HookReturnsCalm ==
  ASSUME Base, comb # NoCombinator, Combining, NEW y, y = comb.cap, HookReturns
  PROVE  Calm(y) /\ comb' = comb
<1>1. eng' = eng /\ held' = held /\ comb' = comb /\ stack # <<>> /\ stack' = Tail(stack) /\ Head(stack).kind = "hook"
  BY DEF HookReturns, Pop, Top
<1>2. Leaving(y, eng, eng', comb)
  BY <1>1, CombiningKnown
<1>3. Framed(y)
  BY <1>1, FramesStand
<1> QED
  BY <1>1, <1>2, <1>3 DEF Calm

\* One round of the loop, but for the engine.
Round(i) ==
  /\ comb \in Combinator /\ comb' \in Combinator /\ Advances /\ i = comb.index + 1 /\ i \in Items /\ comb.index \in Nat
  /\ comb'.kind = comb.kind /\ comb'.items = comb.items /\ comb'.cap = comb.cap /\ comb'.called = comb.called
  /\ comb'.values = comb.values /\ comb'.failed = comb.failed /\ comb'.index = i
  /\ comb.kind # "race" => comb'.count = comb.count + 1
  /\ comb'.hooked = IF Native(i) THEN comb.hooked ELSE comb.hooked \cup {i}
  /\ Reported' = Reported /\ InLoop /\ InLoop' /\ Secluded'

LEMMA RoundKnown ==
  ASSUME Base, comb # NoCombinator, Combining, NextItem, NEW i, i = comb.index + 1
  PROVE  Round(i)
<1>1. /\ comb \in Combinator /\ Secluded /\ Counting
  BY CombiningKnown
<1>2. comb.index \in Nat /\ i \in Nat /\ i \in Items /\ stack \in Seq(Frame(comb))
  BY <1>1, Known DEF Combinator, Items, NextItem
<1>3. PICK c : c = IF comb.kind = "race" THEN comb ELSE AddRemaining(comb, 1)
  OBVIOUS
<1>4. /\ c \in Combinator /\ c.cap = comb.cap /\ c.kind = comb.kind /\ c.items = comb.items /\ c.called = comb.called
      /\ c.values = comb.values /\ c.failed = comb.failed /\ c.hooked = comb.hooked
      /\ comb.kind # "race" => c.count = comb.count + 1
  <2>1. CASE comb.kind = "race"
    BY <1>1, <1>3, <2>1
  <2>2. CASE comb.kind # "race"
    <3>1. c = AddRemaining(comb, 1)
      BY <1>3, <2>2
    <3>2. c \in Combinator
      BY <1>1, <3>1, AddRemainingTyped
    <3> QED
      BY <1>1, <3>1, <3>2 DEF AddRemaining, Combinator
  <2> QED
    BY <2>1, <2>2
<1>5. PICK b : b = [c EXCEPT !.index = i]
  OBVIOUS
<1>6. /\ b \in Combinator /\ b.cap = comb.cap /\ b.kind = comb.kind /\ b.items = comb.items /\ b.called = comb.called
      /\ b.values = comb.values /\ b.failed = comb.failed /\ b.hooked = comb.hooked /\ b.index = i
      /\ comb.kind # "race" => b.count = comb.count + 1
  BY <1>2, <1>4, <1>5 DEF Combinator
<1>7. PICK g : g = [b EXCEPT !.hooked = @ \cup {i}]
  OBVIOUS
<1>8. /\ g \in Combinator /\ g.cap = comb.cap /\ g.kind = comb.kind /\ g.items = comb.items /\ g.called = comb.called
      /\ g.values = comb.values /\ g.failed = comb.failed /\ g.hooked = comb.hooked \cup {i} /\ g.index = i
      /\ comb.kind # "race" => g.count = comb.count + 1
  BY <1>2, <1>6, <1>7 DEF Combinator
<1>9. /\ Native(i) => comb' = b /\ stack' = stack
      /\ ~Native(i) => comb' = g /\ stack' = <<[kind |-> "hook"]>> \o stack
      /\ held' = held
  BY <1>3, <1>5, <1>7 DEF NextItem, Native, Item
<1>10. /\ comb' \in Combinator /\ comb'.cap = comb.cap /\ comb'.kind = comb.kind /\ comb'.items = comb.items
       /\ comb'.called = comb.called /\ comb'.values = comb.values /\ comb'.failed = comb.failed /\ comb'.index = i
       /\ comb'.hooked = (IF Native(i) THEN comb.hooked ELSE comb.hooked \cup {i})
       /\ comb.kind # "race" => comb'.count = comb.count + 1
  BY <1>6, <1>8, <1>9
<1>11. Reported' = Reported
  BY <1>10 DEF Reported, Items
<1>12. Advances
  BY <1>1, <1>10, <1>11 DEF Advances
<1>13. InProgress(stack) \subseteq InProgress(stack')
       /\ \A f \in InProgress(stack') : f \in InProgress(stack) \/ f.kind = "hook"
  <2>1. CASE Native(i)
    BY <1>9, <2>1
  <2>2. CASE ~Native(i)
    <3>1. PICK f : f = [kind |-> "hook"]
      OBVIOUS
    <3>2. stack' = <<f>> \o stack /\ f.kind = "hook"
      BY <1>9, <2>2, <3>1
    <3>3. InProgress(stack') = InProgress(stack) \cup {f}
      BY <1>2, <3>2, Pushed
    <3> QED
      BY <3>2, <3>3
  <2> QED
    BY <2>1, <2>2
<1>14. Secluded'
  <2>1. \A f : f.kind = "hook" => FrameIn(f, Pair \ {comb.cap})
    BY DEF FrameIn
  <2> QED
    BY <1>1, <1>9, <1>10, <1>13, <2>1, SecludedStays
<1>15. InLoop
  <2>1. stack # <<>> /\ Head(stack).kind = "combine" /\ Head(stack) \in InProgress(stack)
    BY Known DEF NextItem, Top
  <2> QED
    BY <2>1 DEF InLoop
<1>16. InLoop'
  BY <1>13, <1>15 DEF InLoop
<1> QED
  BY <1>1, <1>2, <1>10, <1>11, <1>12, <1>14, <1>15, <1>16 DEF Round

LEMMA RoundCounts ==
  ASSUME NEW i, Round(i), Counting, Grows(eng, eng')
  PROVE  Counting'
<1>1. /\ comb \in Combinator /\ comb' \in Combinator /\ Advances /\ i = comb.index + 1 /\ i \in Items /\ comb.index \in Nat
      /\ comb'.kind = comb.kind /\ comb'.items = comb.items /\ comb'.cap = comb.cap /\ comb'.called = comb.called
      /\ comb'.values = comb.values /\ comb'.failed = comb.failed /\ comb'.index = i
      /\ comb.kind # "race" => comb'.count = comb.count + 1
      /\ comb'.hooked = IF Native(i) THEN comb.hooked ELSE comb.hooked \cup {i}
      /\ Reported' = Reported /\ InLoop /\ InLoop'
  BY DEF Round
<1>2. (\A j : Native(j)' <=> Native(j)) /\ Items' = Items
  BY <1>1, AdvancesKnown
<1>3. \A j, h : CalledKey(j, h)' = CalledKey(j, h)
  BY <1>1 DEF CalledKey
<1>4. eng.resolved \subseteq eng'.resolved
  BY DEF Grows
<1>5. 1 .. i = (1 .. comb.index) \cup {i}
  BY <1>1
<1>6. comb'.hooked = {j \in 1 .. comb'.index : ~Native(j)'} /\ Reported' \subseteq 1 .. comb'.index
  BY <1>1, <1>2, <1>5 DEF Counting
<1>7. comb'.index \in 0 .. Len(comb'.items) /\ DOMAIN comb'.values = Items'
  <2>1. comb.items \in Seq(Value \cup {Hook})
    BY <1>1 DEF Combinator
  <2> QED
    BY <1>1, <1>2, <2>1 DEF Counting, Items
<1>8. Countable' => /\ comb'.count = comb'.index - Cardinality(Reported') + 1
                    /\ comb'.count # 0
  <2> SUFFICES ASSUME Countable' PROVE comb'.count = comb'.index - Cardinality(Reported') + 1 /\ comb'.count # 0
    OBVIOUS
  <2>1. Countable /\ comb.kind # "race"
    BY <1>1 DEF Countable
  <2>2. ~comb.failed
    BY <1>1 DEF Counting
  <2>3. comb.count = comb.index - Cardinality(Reported) + 1
    BY <1>1, <2>1 DEF Counting
  <2>4. Cardinality(Reported) \in Nat /\ Cardinality(Reported) <= comb.index
    BY <1>1, <2>1, <2>2, CountReached
  <2> QED
    BY <1>1, <2>1, <2>3, <2>4
<1>9. /\ \A j \in Items' : (\E h \in How : CalledKey(j, h)' \in comb'.called) <=> j \in Reported'
      /\ \A j \in Reported' : /\ comb'.values[j][1] \in ElementSides(comb'.kind)
                              /\ CalledKey(j, comb.values[j][1])' \in comb'.called
  BY <1>1, <1>2, <1>3 DEF Counting
<1>10. /\ comb'.failed => comb'.cap \in eng'.resolved
       /\ InLoop' => ~comb'.failed
  BY <1>1, <1>4 DEF Counting
<1> QED
  BY <1>1, <1>6, <1>7, <1>8, <1>9, <1>10 DEF Counting

\* The promise that stands for a value.
LEMMA WrapBecomes ==
  ASSUME NEW c, NEW e, Good(e, Handler(c), Val), NEW v \in Val, v \notin Promise => Fresh(e) # {},
         NEW d, d = Wrap(e, v), NEW p, p = Wrapped(e, v)
  PROVE  /\ v \in Promise => p = v
         /\ v \in Poisoned => d.promise[p].state = "rejected"
         /\ v \notin Promise \cup Thenable \cup Poisoned => d.promise[p].state = "fulfilled"
<1>1. CASE v \in Promise
  BY <1>1, PromisesAssumption DEF Wrapped
<1>2. CASE v \notin Promise
  <2>1. PICK b : b = Create(e)
    OBVIOUS
  <2>2. PICK y : y = Cap(p)
    OBVIOUS
  <2>3. p = New(e) /\ d = ResolvingCall(b, y, "fulfilled", v) /\ y.of = p
    BY <1>2, <2>1, <2>2 DEF Wrap, Wrapped, Cap
  <2>4. Good(b, Handler(c), Val) /\ p \in Promise /\ y \in Made(b) \ Made(e) /\ b.resolved = e.resolved
    BY <1>2, <2>1, <2>2, <2>3, CreateGood
  <2>5. y \notin b.resolved
    BY <2>4 DEF Good, Sound
  <2>6. ASSUME v \notin Promise \cup Thenable \cup Poisoned PROVE d.promise[p].state = "fulfilled"
    <3>1. "fulfilled" \in How
      BY DEF How
    <3> QED
      BY <2>3, <2>4, <2>5, <2>6, <3>1, CallSettles
  <2>7. ASSUME v \in Poisoned PROVE d.promise[p].state = "rejected"
    <3>1. d = Settle(Mark(b, y, "fulfilled", v), p, "rejected", Error)
      BY <2>3, <2>5, <2>7, PromisesAssumption DEF ResolvingCall
    <3>2. PICK a : a = Mark(b, y, "fulfilled", v)
      OBVIOUS
    <3>3. a = [b EXCEPT !.resolved = @ \cup {y}]
      BY <3>2 DEF Mark
    <3>4. a \in Engine(Handler(c), Val) /\ a.promise = b.promise
      BY <2>4, <3>3 DEF Good, Engine, Made
    <3>5. ~Settled(b, p)
      BY <2>3, <2>4, <2>5, LastPairUsed
    <3>6. ~Settled(a, p) /\ "rejected" \in How /\ Error \in Val /\ d = Settle(a, p, "rejected", Error)
      BY <3>1, <3>2, <3>4, <3>5 DEF Settled, How, Val, Value
    <3>7. SettleView(a, d, p, "rejected", Error, a.promise[p].reactions, a.jobs, d.jobs, Len(a.jobs))
      BY <2>4, <3>4, <3>6, SettleViews
    <3> QED
      BY <3>7 DEF SettleView
  <2> QED
    BY <1>2, <2>6, <2>7
<1> QED
  BY <1>1, <1>2

\* An item is made a promise, and given its reaction.
LEMMA Attaching ==
  ASSUME NEW c, NEW y, NEW e, Clear(y, e, c), NEW v \in Val, v \notin Promise => Fresh(e) # {},
         NEW d, d = Wrap(e, v), NEW p, p = Wrapped(e, v),
         NEW on \in [How -> Handler(c)], NEW x, x = [on |-> on, cap |-> None],
         NEW b, b = Then(d, p, on, None)
  PROVE  /\ p \in Promise
         /\ v \in Promise => p = v
         /\ v \in Poisoned => b.promise[p].state = "rejected"
         /\ v \notin Promise \cup Thenable \cup Poisoned => b.promise[p].state = "fulfilled"
         /\ \A P : Promised(P) /\ <<p, x>> \in P /\ Gathers(e, y, P) => Gathers(b, y, P)
         /\ \A o \in Promise : \A r : (\A how \in How : Tells(r.on[how], y)) /\ Due(e, o, r) => Due(b, o, r)
         /\ Due(b, p, x)
         /\ y \in b.resolved => y \in e.resolved
<1>1. Leaving(y, e, d, c) /\ p \in Promise
  BY WrapLeaves
<1>2. Good(e, Handler(c), Val) /\ Good(d, Handler(c), Val) /\ Leaves(e, d, y) /\ None \in Capability
  BY <1>1 DEF Clear, Leaving, Capability
<1>3. /\ v \in Promise => p = v
      /\ v \in Poisoned => d.promise[p].state = "rejected"
      /\ v \notin Promise \cup Thenable \cup Poisoned => d.promise[p].state = "fulfilled"
  BY <1>2, WrapBecomes
<1>4. /\ \A o \in Promise : \A r : Due(d, o, r) \/ (p = o /\ x = r) => Due(b, o, r)
      /\ b.resolved = d.resolved
      /\ \A o \in Promise : b.promise[o].state = d.promise[o].state
  <2>1. PICK cap : cap = None
    OBVIOUS
  <2>2. cap \in Capability /\ x = [on |-> on, cap |-> cap] /\ b = Then(d, p, on, cap)
    BY <1>2, <2>1
  <2> QED
    BY <1>1, <1>2, <2>2, ThenCarries
<1>5. \A P : Promised(P) /\ <<p, x>> \in P /\ Gathers(d, y, P) => Gathers(b, y, P)
  BY <1>1, <1>2, ThenGathers
<1> QED
  BY <1>1, <1>2, <1>3, <1>4, <1>5 DEF Leaves, Retains

\* The loop over the items.
LEMMA NextItemCombines ==
  ASSUME Base, Base', Grows(eng, eng'), comb # NoCombinator, Combining, NextItem
  PROVE  Combining'
<1>1. /\ comb \in Combinator /\ Secluded /\ Counting /\ Decided /\ Clear(comb.cap, eng, comb)
  BY CombiningKnown
<1>2. PICK i : i = comb.index + 1
  OBVIOUS
<1>3. Round(i)
  BY <1>2, RoundKnown
<1>4. Advances /\ Items' = Items /\ Reported' = Reported /\ i \in Items /\ i = comb.index + 1 /\ comb.index \in Nat
      /\ comb'.cap = comb.cap /\ comb'.values = comb.values /\ comb'.index = i /\ Secluded' /\ Handler(comb') = Handler(comb)
      /\ \A j : (Native(j)' <=> Native(j)) /\ Item(j)' = Item(j) /\ ItemReaction(j)' = ItemReaction(j)
  <2>1. Advances
    BY <1>3 DEF Round
  <2>2. /\ Items' = Items /\ comb # NoCombinator /\ comb' # NoCombinator
        /\ \A j : (Native(j)' <=> Native(j)) /\ Item(j)' = Item(j) /\ ItemReaction(j)' = ItemReaction(j)
    BY <2>1, AdvancesKnown
  <2> QED
    BY <1>3, <2>1, <2>2 DEF Round, Handler
<1>5. Counting'
  BY <1>1, <1>3, RoundCounts
<1>6. PICK w \in [Items -> Promise] : Gathering(w)
  BY DEF Combining
<1>7. ASSUME comb.cap \in eng'.resolved => comb.cap \in eng.resolved PROVE Decided'
  <2>1. PICK H : H = Handler(comb)
    OBVIOUS
  <2>2. Good(eng, H, Val) /\ Good(eng', H, Val) /\ comb.cap \in Made(eng)
    BY <1>1, <1>4, <2>1 DEF Clear, Base
  <2>3. Made(eng) \subseteq Made(eng')
    BY <2>1, <2>2, EvolvesMade DEF Evolves
  <2> QED
    BY <1>1, <1>4, <1>7, <2>2, <2>3, DecidedStays
<1>8. CASE ~Native(i)
  <2>1. eng' = eng
    BY <1>2, <1>8 DEF NextItem, Native, Item
  <2>2. Attached' = Attached
    <3>1. 1 .. i = (1 .. comb.index) \cup {i}
      BY <1>4
    <3> QED
      BY <1>4, <1>8, <3>1 DEF Attached
  <2>3. \A j \in Attached : w[j] \in Promise /\ j \in Items
    BY <1>1 DEF Attached, Counting, Items, Combinator
  <2>4. StaysDue(w, eng', 0) /\ 0 \notin Attached
    BY <2>1 DEF StaysDue, Attached
  <2>5. Gathering(w)'
    BY <1>1, <1>4, <1>6, <2>1, <2>2, <2>4, GatheringStays
  <2> QED
    BY <1>4, <1>5, <1>7, <2>1, <2>5, CombinedMakes DEF Combined
<1>9. CASE Native(i)
  <2>1. PICK v : v = comb.items[i]
    OBVIOUS
  <2>2. PICK on : on = Handlers(i)
    OBVIOUS
  <2>3. PICK d : d = Wrap(eng, v)
    OBVIOUS
  <2>4. PICK p : p = Wrapped(eng, v)
    OBVIOUS
  <2>5. PICK b : b = eng'
    OBVIOUS
  <2>6. PICK x : x = [on |-> on, cap |-> None]
    OBVIOUS
  <2>7. PICK y : y = comb.cap
    OBVIOUS
  <2>8. PICK c : c = comb
    OBVIOUS
  <2>9. b = Then(d, p, on, None) /\ (v \notin Promise => Fresh(eng) # {})
    BY <1>2, <1>9, <2>1, <2>2, <2>3, <2>4, <2>5 DEF NextItem, Native, Item
  <2>10. v \in Val /\ v = Item(i) /\ i \in Nat
    <3>1. i \in 1 .. Len(comb.items) /\ comb.items \in Seq(Value \cup {Hook})
      BY <1>1, <1>4 DEF Combinator, Items
    <3> QED
      BY <1>9, <2>1, <3>1 DEF Val, Native, Item
  <2>11. on \in [How -> Handler(c)] /\ x = ItemReaction(i)
    <3>1. comb # NoCombinator /\ comb.cap \in Pair
      BY <1>1 DEF Clear, Made
    <3>2. \A how \in How : Element(i, how) \in Handler(comb) /\ Settler(comb.cap, how) \in Handler(comb)
      BY <2>10, <3>1 DEF Element, Settler, Handler
    <3> QED
      BY <2>2, <2>6, <2>8, <3>2 DEF Handlers, ItemReaction
  <2>12. Clear(y, eng, c)
    BY <1>1, <2>7, <2>8
  <2>13. /\ p \in Promise
         /\ v \in Promise => p = v
         /\ v \in Poisoned => b.promise[p].state = "rejected"
         /\ v \notin Promise \cup Thenable \cup Poisoned => b.promise[p].state = "fulfilled"
         /\ \A P : Promised(P) /\ <<p, x>> \in P /\ Gathers(eng, y, P) => Gathers(b, y, P)
         /\ \A o \in Promise : \A r : (\A how \in How : Tells(r.on[how], y)) /\ Due(eng, o, r) => Due(b, o, r)
         /\ Due(b, p, x)
         /\ y \in b.resolved => y \in eng.resolved
    BY <2>3, <2>4, <2>6, <2>9, <2>10, <2>11, <2>12, Attaching
  <2>14. PICK u : u = [w EXCEPT ![i] = p]
    OBVIOUS
  <2>15. u \in [Items -> Promise] /\ u[i] = p /\ \A j \in Items : j # i => u[j] = w[j]
    BY <1>4, <2>13, <2>14
  <2>16. Attached' = Attached \cup {i} /\ i \notin Attached /\ Attached \subseteq Items
    <3>1. 1 .. i = (1 .. comb.index) \cup {i} /\ i \notin 1 .. comb.index
      BY <1>4
    <3>2. Attached' = Attached \cup {i} /\ i \notin Attached
      BY <1>4, <1>9, <3>1 DEF Attached
    <3> QED
      BY <1>1, <3>2 DEF Attached, Counting, Items, Combinator
  <2>17. PICK P : P = {<<u[j], ItemReaction(j)>> : j \in Attached'}
    OBVIOUS
  <2>18. Gathers(eng, y, P)
    <3>1. {<<w[j], ItemReaction(j)>> : j \in Attached} \subseteq P
      BY <2>15, <2>16, <2>17
    <3>2. Gathers(eng, y, {<<w[j], ItemReaction(j)>> : j \in Attached})
      BY <1>6, <2>7 DEF Gathering
    <3> QED
      BY <3>1, <3>2, GathersMore
  <2>19. Promised(P) /\ <<p, x>> \in P
    BY <1>4, <2>11, <2>15, <2>16, <2>17 DEF Promised
  <2>20. Gathers(b, y, P)
    BY <2>13, <2>18, <2>19
  <2>21. ASSUME NEW j \in Attached'
         PROVE  /\ Becomes(j, u[j])'
                /\ j \in Reported' => comb'.values[j] = Outcome(eng', u[j])
                /\ comb'.cap \in eng'.resolved \/ j \in Reported' \/ Due(eng', u[j], ItemReaction(j))
    <3>1. CASE j = i
      <4>1. Becomes(i, p)'
        BY <1>4, <2>5, <2>10, <2>13 DEF Becomes
      <4>2. i \notin Reported
        BY <1>1, <1>4 DEF Counting
      <4> QED
        BY <1>4, <2>5, <2>11, <2>13, <2>15, <3>1, <4>1, <4>2
    <3>2. CASE j # i
      <4>1. j \in Attached /\ j \in Items /\ u[j] = w[j]
        BY <2>15, <2>16, <3>2
      <4>2. PICK o \in Promise : o = w[j]
        BY <4>1
      <4>3. /\ Becomes(j, o)
            /\ j \in Reported => comb.values[j] = Outcome(eng, o)
            /\ comb.cap \in eng.resolved \/ j \in Reported \/ Due(eng, o, ItemReaction(j))
        BY <1>6, <4>1, <4>2 DEF Gathering
      <4>4. Becomes(j, o)'
        BY <1>4, <4>3, BecomesStays
      <4>5. j \in Reported => comb'.values[j] = Outcome(eng', o)
        BY <1>1, <1>4, <4>3, ReportedSettled, OutcomeStays
      <4>6. Due(eng, o, ItemReaction(j)) => Due(eng', o, ItemReaction(j))
        BY <2>5, <2>7, <2>13, ItemTells
      <4>7. eng.resolved \subseteq eng'.resolved
        BY DEF Grows
      <4> QED
        BY <1>4, <4>1, <4>2, <4>3, <4>4, <4>5, <4>6, <4>7
    <3> QED
      BY <3>1, <3>2
  <2>22. Gathering(u)'
    <3>1. {<<u[j], ItemReaction(j)'>> : j \in Attached'} = P
      BY <1>4, <2>17
    <3>2. Gathers(eng', comb'.cap, {<<u[j], ItemReaction(j)'>> : j \in Attached'})
      BY <1>4, <2>5, <2>7, <2>20, <3>1
    <3> QED
      BY <1>4, <2>21, <3>2 DEF Gathering
  <2> QED
    BY <1>4, <1>5, <1>7, <2>5, <2>7, <2>13, <2>15, <2>22, CombinedMakes DEF Combined
<1> QED
  BY <1>8, <1>9

\* Nothing refers to the functions of a promise that does not exist yet, and no
\* handler is an element function before there is a combinator.
LEMMA NothingReports ==
  ASSUME NEW e, Good(e, Handler(NoCombinator), Val), NEW y \in Pair, y \notin Made(e)
  PROVE  Gathers(e, y, {})
<1>1. e \in Engine(Handler(NoCombinator), Val) /\ PairsIn(e, Made(e)) /\ y # None
  BY PromisesAssumption DEF Good, Sound
<1>2. \A h \in Handler(NoCombinator) : h.fn # "element"
  BY DEF Handler, Undefined, Resume, Continued, Returned
<1>3. \A h \in Handler(NoCombinator) : HandlerIn(h, Made(e)) => ~Tells(h, y)
  BY <1>2 DEF Tells, HandlerIn
<1>4. ASSUME NEW p \in Promise, NEW i \in DOMAIN e.promise[p].reactions
      PROVE  ~Reports(e.promise[p].reactions[i], y)
  <2>1. PICK r : r = e.promise[p].reactions[i]
    OBVIOUS
  <2>2. e.promise[p].reactions \in Seq([on : [How -> Handler(NoCombinator)], cap : Capability])
    BY <1>1 DEF Engine, PromiseState
  <2>3. r \in [on : [How -> Handler(NoCombinator)], cap : Capability]
    <3>1. PICK R : R = [on : [How -> Handler(NoCombinator)], cap : Capability]
      OBVIOUS
    <3>2. PICK s \in Seq(R) : s = e.promise[p].reactions
      BY <2>2, <3>1
    <3>3. r = s[i] /\ i \in DOMAIN s
      BY <2>1, <3>2
    <3>4. r \in R
      BY <3>2, <3>3
    <3> QED
      BY <3>1, <3>4
  <2>4. \A how \in How : r.on[how] \in Handler(NoCombinator)
    <3>1. r.on \in [How -> Handler(NoCombinator)]
      BY <2>3
    <3> QED
      BY <3>1
  <2>5. ReactionIn(r, Made(e))
    BY <1>1, <2>1 DEF PairsIn
  <2> QED
    BY <1>1, <1>3, <2>1, <2>4, <2>5 DEF Reports, ReactionIn, CapIn
<1>5. ASSUME NEW i \in DOMAIN e.jobs PROVE ~JobReports(e.jobs[i], y)
  <2>1. PICK job : job = e.jobs[i]
    OBVIOUS
  <2>2. job \in ReactionJobs(Handler(NoCombinator), Val) \cup ThenableJobs
    BY <1>1, <2>1 DEF Engine
  <2>3. job.kind = "reaction" => job.handler \in Handler(NoCombinator)
    BY <2>2 DEF ReactionJobs, ThenableJobs
  <2>4. JobIn(job, Made(e))
    BY <1>1, <2>1 DEF PairsIn
  <2> QED
    BY <1>1, <1>3, <2>1, <2>3, <2>4 DEF JobReports, JobIn, CapIn
<1> QED
  BY <1>4, <1>5 DEF Gathers

\* A combinator is called.
LEMMA CombineCombines ==
  ASSUME Base, Base', NEW kind \in CombinatorKinds, NEW n \in 0 .. MaxItems, NEW items \in [1 .. n -> CombinatorItems],
         Combine(kind, items)
  PROVE  Combining'
<1>1. /\ Good(eng, Handler(NoCombinator), Val) /\ comb = NoCombinator /\ Fresh(eng) # {} /\ eng' = Create(eng)
      /\ stack \in Seq(Frame(NoCombinator)) /\ held' = held
      /\ held \subseteq Promise \cup Made(eng) /\ \A f \in InProgress(stack) : FrameIn(f, Made(eng))
  BY Known DEF Combine
<1>2. PICK y : y = Cap(New(eng))
  OBVIOUS
<1>3. /\ comb'.cap = y /\ comb'.kind = kind /\ comb'.items = items /\ comb'.index = 0 /\ comb'.count = 1
      /\ comb'.values = [i \in DOMAIN items |-> None] /\ comb'.called = {} /\ comb'.hooked = {} /\ comb'.failed = FALSE
  BY <1>2 DEF Combine
<1>4. y \in Made(eng') /\ y \notin Made(eng) /\ eng'.resolved = eng.resolved /\ y \in Pair /\ y.of = New(eng)
  BY <1>1, <1>2, CreateGood DEF Made, Cap
<1>5. eng'.promise = eng.promise /\ eng'.jobs = eng.jobs /\ y \notin eng'.resolved
  BY <1>1, <1>4 DEF Good, Sound, Engine, Create, CreateResolvingFunctions
<1>6. Items' = 1 .. n /\ Len(items) = n /\ n \in Nat /\ Reported' = {} /\ Attached' = {}
  BY <1>3, CombinatorsAssumption DEF Items, Reported, Attached
<1>7. PICK f : f = [kind |-> "combine"]
  OBVIOUS
<1>8. InProgress(stack') = InProgress(stack) \cup {f}
  BY <1>1, <1>7, Pushed DEF Combine
<1>9. Secluded'
  <2>1. y \notin held' \ Promise
    BY <1>1, <1>4
  <2>2. \A g \in InProgress(stack') : FrameIn(g, Pair \ {y})
    BY <1>1, <1>4, <1>7, <1>8 DEF FrameIn, CapIn, Made
  <2> QED
    BY <1>3, <2>1, <2>2 DEF Secluded
<1>10. Counting'
  <2>1. InLoop'
    BY <1>7, <1>8 DEF InLoop
  <2>2. Cardinality(Reported') = 0
    BY <1>6, FS_EmptySet
  <2>3. comb'.hooked = {i \in 1 .. comb'.index : ~Native(i)'}
    BY <1>3
  <2>4. DOMAIN comb'.values = Items' /\ comb'.index \in 0 .. Len(comb'.items) /\ Reported' \subseteq 1 .. comb'.index
    BY <1>3, <1>6
  <2>5. \A i \in Items' : (\E how \in How : CalledKey(i, how)' \in comb'.called) <=> i \in Reported'
    BY <1>3, <1>6
  <2>6. comb'.count = comb'.index - Cardinality(Reported') + (IF comb'.failed \/ InLoop' THEN 1 ELSE 0)
    BY <1>3, <2>1, <2>2
  <2>7. ~comb'.failed /\ comb'.count # 0
    BY <1>3
  <2> QED
    BY <1>6, <2>1, <2>3, <2>4, <2>5, <2>6, <2>7 DEF Counting
<1>11. PICK w : w = [i \in Items' |-> New(eng)]
  OBVIOUS
<1>12. w \in [Items' -> Promise]
  BY <1>1, <1>11, CreateGood
<1>13. Gathering(w)'
  <2>1. Gathers(eng', y, {})
    BY <1>1, <1>4, <1>5, NothingReports, SameGathers
  <2>2. {<<w[i], ItemReaction(i)'>> : i \in Attached'} = {}
    BY <1>6
  <2>3. Gathers(eng', comb'.cap, {<<w[i], ItemReaction(i)'>> : i \in Attached'})
    BY <1>3, <2>1, <2>2
  <2> QED
    BY <1>6, <2>3 DEF Gathering
<1>14. Decided'
  <2>1. ~Settled(eng', y.of)
    <3>1. Good(eng', Handler(comb'), Val)
      BY DEF Base
    <3> QED
      BY <1>4, <1>5, <3>1, LastPairUsed
  <2>2. Result'.state = "pending"
    BY <1>3, <2>1 DEF Result, Settled
  <2>3. ResultFits'
    BY <2>2 DEF ResultFits
  <2> QED
    BY <1>3, <1>5, <2>3 DEF Decided
<1> QED
  BY <1>9, <1>10, <1>12, <1>13, <1>14 DEF Combining

\* The function of an item is called when there is a combinator.
LEMMA RunElementKnown ==
  ASSUME Base, RunElement
  PROVE  comb # NoCombinator
<1>1. Job = Head(eng.jobs) /\ eng.jobs # <<>> /\ Job.kind = "reaction" /\ Job.handler.fn = "element"
  BY DEF RunElement, Reacts, JobRuns, Job
<1>2. PICK R : R = ReactionJobs(Handler(comb), Val) \cup ThenableJobs
  OBVIOUS
<1>3. eng.jobs \in Seq(R)
  BY <1>2 DEF Base, Good, Engine
<1>4. Job \in R
  BY <1>1, <1>3
<1>5. Job.handler \in Handler(comb)
  BY <1>1, <1>2, <1>4 DEF ReactionJobs, ThenableJobs
<1> QED
  BY <1>1, <1>5 DEF Handler, Undefined, Resume, Continued, Returned

\* The steps of the combinator.
LEMMA CombinatorNextCombines ==
  ASSUME Base, Base', Grows(eng, eng'), Reacting, Combining, CombinatorNext
  PROVE  Combining'
<1>1. ASSUME NEW kind \in CombinatorKinds, NEW n \in 0 .. MaxItems, NEW items \in [1 .. n -> CombinatorItems],
             Combine(kind, items)
      PROVE  Combining'
  BY <1>1, CombineCombines
<1>2. CASE NextItem \/ EndOfItems \/ IteratorThrows \/ HookThrows
  <2>1. comb # NoCombinator
    BY <1>2, CombinatorKnown DEF NextItem, EndOfItems, IteratorThrows, HookThrows
  <2> QED
    BY <1>2, <2>1, NextItemCombines, EndOfItemsCombines, FailCombines
<1>3. CASE HookReturns
  <2>1. comb # NoCombinator
    BY <1>3, CombinatorKnown DEF HookReturns
  <2>2. PICK y : y = comb.cap
    OBVIOUS
  <2>3. Calm(y) /\ comb' = comb
    BY <1>3, <2>1, <2>2, HookReturnsCalm
  <2> QED
    BY <2>1, <2>2, <2>3, CombiningStays DEF Calm
<1>4. ASSUME comb # NoCombinator, NEW i \in comb.hooked, NEW how \in How, NEW v \in HeldValue, CallHooked(i, how, v)
      PROVE  Combining'
  BY <1>4, CallHookedCombines
<1>5. CASE RunElement
  <2>1. comb # NoCombinator
    BY <1>5, RunElementKnown
  <2>2. Straight(eng)
    BY DEF Reacting
  <2> QED
    BY <1>5, <2>1, <2>2, ItemJobCombines
<1> QED
  BY <1>1, <1>2, <1>3, <1>4, <1>5 DEF CombinatorNext

\* The steps of promises and of suspended code.
LEMMA OthersCombine ==
  ASSUME Base, Base', Grows(eng, eng'), Owning, Reacting, Combining, comb' = comb, PromisesNext \/ CoroutinesNext
  PROVE  Combining'
<1> SUFFICES ASSUME comb # NoCombinator PROVE Combining'
  BY DEF Combining
<1>1. CASE RunSettler /\ Job.handler.pair = comb.cap
  <2>1. Straight(eng)
    BY DEF Reacting
  <2> QED
    BY <1>1, <2>1, ItemJobCombines
<1>2. CASE ~(RunSettler /\ Job.handler.pair = comb.cap)
  <2>1. PICK y : y = comb.cap
    OBVIOUS
  <2>2. Script \/ ScriptEnds \/ RunJob => Calm(y)
    BY <1>2, <2>1, ScriptLeaves, ScriptEndsLeaves, RunJobLeaves
  <2>3. AwaitFails \/ RunResume \/ (\E a \in Activation : CallAsync(a))
        \/ (\E v \in HeldValue : Await(v) \/ \E how \in How : BodyEnds(how, v)) => Calm(y)
    BY <2>1, AsyncLeaves
  <2>4. NoRequest \/ EnterBody \/ NeverStarted \/ RunContinue \/ (\E v \in HeldValue : GeneratorAwaits(v)) => Calm(y)
    BY <2>1, RoundLeaves
  <2>5. Yield \/ AnswerCompleted \/ RunReturned \/ (\E how \in How, v \in HeldValue : GeneratorEnds(how, v)) => Calm(y)
    BY <2>1, AnswerLeaves
  <2>6. \A type \in {"next", "return", "throw"}, v \in HeldValue : CallGenerator(type, v) => Calm(y)
    BY <2>1, CallGeneratorLeaves
  <2>7. Calm(y)
    BY <2>2, <2>3, <2>4, <2>5, <2>6 DEF PromisesNext, CoroutinesNext
  <2> QED
    BY <2>1, <2>7, CombiningStays DEF Calm
<1> QED
  BY <1>1, <1>2

\* Every step.
LEMMA NextCombines ==
  ASSUME Base, Owning, Reacting, Combining, Next
  PROVE  Combining'
<1>1. Base' /\ Grows(eng, eng')
  BY NextKeeps
<1> QED
  BY <1>1, CombinatorNextCombines, OthersCombine DEF Next

LEMMA InitCombines ==
  ASSUME Init
  PROVE  Combining
BY DEF Init, CombinatorInit, Combining

LEMMA StutterCombines ==
  ASSUME Combining, UNCHANGED vars
  PROVE  Combining'
<1>1. UNCHANGED <<eng, stack, held, comb>>
  BY DEF vars, pvars
<1>2. /\ Items' = Items /\ Reported' = Reported /\ Attached' = Attached /\ Result' = Result
      /\ (InLoop' <=> InLoop) /\ (Countable' <=> Countable) /\ (AllNative' <=> AllNative)
      /\ \A i : /\ (Native(i)' <=> Native(i)) /\ ItemReaction(i)' = ItemReaction(i)
                /\ \A x : CalledKey(i, x)' = CalledKey(i, x) /\ (Ended(i, x)' <=> Ended(i, x)) /\ (Becomes(i, x)' <=> Becomes(i, x))
  BY <1>1 DEF Items, Reported, Attached, Result, InLoop, Countable, AllNative, Native, Item, ItemReaction, Handlers,
              CalledKey, Ended, Becomes
<1> SUFFICES ASSUME comb # NoCombinator PROVE Combining'
  BY <1>1 DEF Combining
<1>3. PICK w \in [Items -> Promise] : Gathering(w)
  BY DEF Combining
<1>4. Gathering(w)'
  BY <1>1, <1>2, <1>3 DEF Gathering
<1>5. Secluded' /\ Counting'
  BY <1>1, <1>2 DEF Combining, Secluded, Counting
<1>6. Decided'
  BY <1>1, <1>2 DEF Combining, Decided, ResultFits
<1> QED
  BY <1>2, <1>3, <1>4, <1>5, <1>6 DEF Combining

-----------------------------------------------------------------------------
(* What the combinator answers.                                            *)

\* What an item that is a promise reported is its outcome.
LEMMA ValuesAreOutcomes ==
  ASSUME Base, comb # NoCombinator, Combining, NEW i \in Items, Item(i) \in Promise, comb.values[i] # None
  PROVE  comb.values[i] = Outcome(eng, Item(i))
<1>1. PICK w \in [Items -> Promise] : Gathering(w)
  BY DEF Combining
<1>2. i \in Reported /\ i \in 1 .. comb.index
  BY DEF Combining, Counting, Reported
<1>3. Native(i)
  BY CombinatorsAssumption DEF Native, Value
<1> QED
  BY <1>1, <1>2, <1>3 DEF Gathering, Attached, Becomes

\* When no job is left and all items were given functions, an item whose promise has
\* settled has reported, or the result has been resolved.
LEMMA NothingOutstanding ==
  ASSUME Base, comb # NoCombinator, Combining, Quiescent, AllNative, comb.cap \notin eng.resolved,
         NEW i \in Items, Item(i) \notin Thenable, Item(i) \in Promise => Settled(eng, Item(i))
  PROVE  i \in Reported
<1>1. PICK w \in [Items -> Promise] : Gathering(w)
  BY DEF Combining
<1>2. stack = <<>> /\ eng.jobs = <<>> /\ DOMAIN stack = {} /\ DOMAIN eng.jobs = {}
  BY DEF Quiescent
<1>3. ~InLoop
  BY <1>2 DEF InLoop, InProgress
<1>4. comb.index = Len(comb.items) /\ comb \in Combinator
  BY <1>3, CombinatorKnown DEF Combining, Counting
<1>5. i \in 1 .. comb.index /\ Native(i)
  BY <1>4 DEF Items, Combinator, AllNative
<1>6. Becomes(i, w[i]) /\ (i \in Reported \/ Due(eng, w[i], ItemReaction(i)))
  BY <1>1, <1>5 DEF Gathering, Attached
<1>7. Settled(eng, w[i])
  BY <1>6 DEF Becomes, Settled
<1>8. ~Due(eng, w[i], ItemReaction(i))
  BY <1>2, <1>7 DEF Due
<1> QED
  BY <1>6, <1>8

\* And then it has answered, if enough items have.
LEMMA CombinatorAnswers ==
  ASSUME Base, comb # NoCombinator, Combining, Quiescent, AllNative, EnoughSettled
  PROVE  Result.state # "pending"
<1>1. comb \in Combinator /\ Counting /\ Decided
  BY CombinatorKnown DEF Combining
<1>2. comb.hooked = {}
  BY <1>1 DEF Counting, AllNative, Native, Items, Combinator
<1>3. ASSUME comb.cap \in eng.resolved PROVE Result.state # "pending"
  BY <1>1, <1>2, <1>3 DEF Decided, Settled, Result
<1>4. ASSUME comb.cap \notin eng.resolved PROVE FALSE
  <2>1. \A i \in Items : Item(i) \notin Thenable /\ (Item(i) \in Promise => Settled(eng, Item(i))) => i \in Reported
    BY <1>4, NothingOutstanding
  <2>2. CASE comb.kind = "race"
    <3>1. PICK i \in Items : i \in Reported
      BY <2>1, <2>2 DEF EnoughSettled
    <3>2. comb.values[i][1] \in {}
      BY <1>1, <2>2, <3>1, SidesKnown DEF Counting
    <3> QED
      BY <3>2
  <2>3. CASE comb.kind # "race"
    <3>1. Reported = Items
      BY <2>1, <2>3 DEF EnoughSettled, Reported
    <3>2. Countable
      BY <1>1, <1>2, <2>3 DEF Countable, Combinator, CombinatorKinds
    <3>3. ~comb.failed /\ ~InLoop
      BY <1>1, <1>4 DEF Counting, InLoop, InProgress, Quiescent
    <3>4. comb.index = Len(comb.items) /\ Items = 1 .. comb.index /\ comb.index \in Nat
      BY <1>1, <3>3 DEF Counting, Items, Combinator
    <3>5. Cardinality(Reported) = comb.index
      <4>1. PICK n \in Nat : n = comb.index
        BY <3>4
      <4>2. 1 \in Int /\ n \in Int
        OBVIOUS
      <4>3. Cardinality(1 .. n) = IF 1 > n THEN 0 ELSE n - 1 + 1
        BY ONLY <4>2, FS_Interval
      <4>4. Cardinality(1 .. n) = n
        BY ONLY <4>1, <4>3
      <4> QED
        BY <3>1, <3>4, <4>1, <4>4
    <3>6. comb.count = comb.index - Cardinality(Reported) + (IF comb.failed \/ InLoop THEN 1 ELSE 0)
      BY <1>1, <3>2 DEF Counting
    <3>7. comb.count = 0
      BY <3>3, <3>4, <3>5, <3>6
    <3> QED
      BY <1>1, <1>4, <3>2, <3>7 DEF Counting
  <2> QED
    BY <2>2, <2>3
<1> QED
  BY <1>3, <1>4

LEMMA CombinatorIsSound ==
  ASSUME Base, Combining
  PROVE  CombinatorSound
<1> SUFFICES ASSUME comb # NoCombinator
             PROVE  /\ \A i \in Items : Item(i) \in Promise /\ comb.values[i] # None =>
                         comb.values[i] = Outcome(eng, Item(i))
                    /\ ResultFits
                    /\ Quiescent /\ AllNative /\ EnoughSettled => Result.state # "pending"
  BY DEF CombinatorSound
<1>1. ResultFits
  BY DEF Combining, Decided
<1> QED
  BY <1>1, ValuesAreOutcomes, CombinatorAnswers

-----------------------------------------------------------------------------
(* The theorems.                                                           *)

\* In every state each resolving function, reaction and job has the owner the C code
\* gives it: the functions that settle the promise of an async function or of a request
\* stay with native code until it calls them (js_async_function_init,
\* js_async_generator_next), every reaction of a script keeps its place until its job
\* has run (perform_promise_then), and the count of a combinator is that of the items
\* that have not reported (js_promise_all, js_promise_all_resolve_element).
THEOREM FullInvariance == Spec => []IInv
<1>1. Init => IInv
  BY InitKeeps, InitOwns, InitServes, InitReacts, InitCombines DEF IInv
<1>2. IInv /\ Next => IInv'
  BY NextKeeps, NextOwns, NextServes, NextReacts, NextCombines DEF IInv
<1>3. IInv /\ UNCHANGED vars => IInv'
  BY StutterKeeps, StutterOwns, StutterReacts, StutterCombines DEF IInv
<1>4. IInv /\ [Next]_vars => IInv'
  BY <1>2, <1>3
<1> QED
  BY <1>1, <1>4, PTL DEF Spec

\* No activation of an async function, no body of an async generator and no request
\* of its is ever waiting in two reactions or jobs at once: js_async_function_resume
\* and js_async_generator_resume_next arm one pair of reactions each time they
\* suspend, and nothing arms another before it has been called.
THEOREM SuspendedOnce == Spec => []OneContinuation
<1>1. IInv => OneContinuation
  BY ContinuesOnce DEF IInv
<1> QED
  BY FullInvariance, <1>1, PTL

\* The answers of an async generator are given in the order its methods were called
\* in, each to the promise that call returned: js_async_generator_resume_next always
\* serves the head of the queue, and pops it with its answer.
THEOREM RequestsServedInOrder == Spec => []GeneratorServes
<1>1. IInv => GeneratorServes
  BY DEF IInv
<1> QED
  BY FullInvariance, <1>1, PTL

\* The callbacks of then and finally run once, in the order in which they were
\* registered on their promise, and are given its outcome: perform_promise_then and
\* fulfill_or_reject_promise append to lists, JS_ExecutePendingJob takes the first job.
THEOREM CallbacksRunInOrder == Spec => []CallbacksInOrder
<1>1. IInv => CallbacksInOrder
  BY CallbacksOrdered DEF IInv
<1> QED
  BY FullInvariance, <1>1, PTL

\* A promise ends like the one it was resolved with (js_promise_resolve_thenable_job),
\* what then returned ends like the promise it was called on when there is no handler
\* for the outcome (promise_reaction_job), and what finally returned when its callback
\* neither threw nor returned a thenable (js_promise_then_finally_func).
THEOREM OutcomesAreFollowed == Spec => []OutcomesFollow
<1>1. IInv => OutcomesFollow
  BY OutcomesAre DEF IInv
<1> QED
  BY FullInvariance, <1>1, PTL

\* When JS_ExecutePendingJob finds no job, every callback of a settled promise has run,
\* what then returned has been resolved, and promises have settled with those they
\* follow: no reaction is dropped between perform_promise_then and the queue.
THEOREM NothingIsForgotten == Spec => []NothingForgotten
<1>1. IInv => NothingForgotten
  BY NothingIsLost DEF IInv
<1> QED
  BY FullInvariance, <1>1, PTL

\* all is fulfilled only when every item was, with every value in its place, any is
\* rejected only when every item was, allSettled waits for every item and a race is
\* decided by one of its items; and when no job is left the combinator has answered if
\* enough items have ended: its count reaches zero neither early nor never, whatever
\* scripts do with the element functions their then methods were given
\* (js_promise_all_resolve_element, remainingElementsCount).
THEOREM CombinatorsAreSound == Spec => []CombinatorSound
<1>1. IInv => CombinatorSound
  BY CombinatorIsSound DEF IInv
<1> QED
  BY FullInvariance, <1>1, PTL

=============================================================================
